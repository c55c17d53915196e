--------------------------- MODULE ShootingProofs ---------------------------
(***************************************************************************)
(* For every kind of semaphore, whatever the limits of the menu settings   *)
(* and whether or not the camera refuses releases: the shutter is not      *)
(* released on top of a release or of a job unless a wait of a second ended*)
(* while one was about to be or had not begun; and a bracket whose settings*)
(* nobody changes is symmetric, however large.                             *)
(***************************************************************************)
EXTENDS Shooting, FiniteSetTheorems, TLAPS

(* A shooter that owns job_sem's token. *)
Owns(t) == place[t] \in {"release", "give"}
Jobs    == IF job_state = Busy THEN 1 ELSE 0

Types ==
  /\ job_sem \in Nat /\ releases \in Nat /\ job_state \in {0, Done, Busy}
  /\ DOMAIN place = Shooters

(* There is one token: in job_sem, with a shooter, or with the camera as a *)
(* release or as a job.  A refused release loses it; a shooter that times  *)
(* out makes a new one, and if it was not lost has overtaken another.      *)
OneToken ==
  /\ \A t, u \in Shooters : Owns(t) /\ Owns(u) => t = u
  /\ \A t \in Shooters : Owns(t) => job_sem = 0 /\ releases = 0 /\ job_state # Busy
  /\ job_sem + releases + Jobs <= 1

IInv == Types /\ (~overtaken => OneToken)

-----------------------------------------------------------------------------
(* Giving a semaphore adds at most one to its count. *)
LEMMA UpAdds == ASSUME NEW n \in Nat PROVE Raised(n) \in Nat /\ Raised(n) <= n + 1
  BY ShootingAssumption DEF Raised

(* Nor does the camera keep more releases than it is sent.                 *)
LEMMA LeastKeeps ==
  ASSUME NEW n \in Nat, NEW r \in {0, 1}
  PROVE  Fewer(n + r, Pending) \in Nat /\ Fewer(n + r, Pending) <= n + r
  BY ShootingAssumption DEF Fewer

(* The first state has the token in job_sem. *)
LEMMA InitToken == ShootInit => IInv
  BY DEF ShootInit, IInv, Types, OneToken, Owns, Jobs, Done, Busy

(* Each step of lens_take_picture, in any shooter, keeps the one token. *)
LEMMA PictureStep ==
  ASSUME IInv, NEW t \in Shooters, lens_take_picture(t)
  PROVE  IInv'
<1> USE DEF IInv, Types, OneToken, Owns, Jobs, Done, Busy, Proceed, camera, settings, bracket
<1>1. CASE FirstTake(t)
  <2>1. Types' /\ overtaken' = overtaken  BY <1>1 DEF FirstTake
  <2>2. ~overtaken => OneToken'  BY <1>1 DEF FirstTake
  <2> QED BY <2>1, <2>2
<1>2. CASE FirstTimeout(t)
  <2>1. Types'  BY <1>2 DEF FirstTimeout
  <2>2. CASE job_state > Done
    BY <1>2, <2>1, <2>2 DEF FirstTimeout
  <2>3. CASE ~(job_state > Done)
    <3>1. place' = [place EXCEPT ![t] = "release"] /\ overtaken' = (overtaken \/ ~Quiet)
          /\ job_sem = 0 /\ UNCHANGED <<job_sem, job_state, releases>>
      BY <1>2, <2>3 DEF FirstTimeout
    <3>2. ASSUME ~overtaken' PROVE OneToken'
      <4>1. releases = 0 /\ \A u \in Shooters : place[u] \notin {"release", "give"}
        BY <3>1, <3>2 DEF Quiet
      <4>2. \A u \in Shooters : u # t => place'[u] = place[u]
        BY <3>1
      <4> QED BY <2>3, <3>1, <4>1, <4>2
    <3> QED BY <2>1, <3>2
  <2> QED BY <2>2, <2>3
<1>3. CASE Release(t)
  <2>1. PICK r \in {0, 1} : releases' = Fewer(releases + r, Pending)
    BY <1>3 DEF Release
  <2> QED BY <1>3, <2>1, LeastKeeps DEF Release
<1>4. CASE SecondTake(t)     BY <1>4 DEF SecondTake
<1>5. CASE SecondTimeout(t)  BY <1>5 DEF SecondTimeout
<1>6. CASE SecondGive(t)     BY <1>6, UpAdds DEF SecondGive
<1> QED BY <1>1, <1>2, <1>3, <1>4, <1>5, <1>6 DEF lens_take_picture

(* A step that moves one shooter between places without the token. *)
LEMMA QuietMove ==
  ASSUME IInv, NEW t \in Shooters, NEW l, l \notin {"release", "give"},
         Proceed(t, l), UNCHANGED <<job_sem, camera, overtaken>>
  PROVE  IInv'
  BY DEF IInv, Types, OneToken, Owns, Jobs, Done, Busy, Proceed, camera

(* The bracketing task's own steps leave the token where it is. *)
LEMMA BracketStep == IInv /\ Bracket => IInv'
<1> SUFFICES ASSUME IInv, Bracket PROVE IInv'  OBVIOUS
<1> "bracket" \in Shooters  BY DEF Bracket
<1>1. CASE BracketWake  BY <1>1, QuietMove DEF BracketWake, camera
<1>2. CASE BracketShot  BY <1>2, QuietMove DEF BracketShot, camera
<1>3. CASE BracketNext  BY <1>3, QuietMove DEF BracketNext, camera
<1>4. CASE BracketEnd   BY <1>4, QuietMove DEF BracketEnd, camera
<1> QED BY <1>1, <1>2, <1>3, <1>4, PictureStep DEF Bracket

(* So do the stacking task's. *)
LEMMA StackStep == IInv /\ StackShoots => IInv'
<1> SUFFICES ASSUME IInv, StackShoots PROVE IInv'  OBVIOUS
<1> "stack" \in Shooters  BY DEF StackShoots
<1>1. CASE StackShot
  <2>1. CASE place["stack"] = "idle"  BY <1>1, <2>1, QuietMove DEF StackShot, camera
  <2>2. CASE place["stack"] # "idle"  BY <1>1, <2>2, QuietMove DEF StackShot, camera
  <2> QED BY <2>1, <2>2
<1> QED BY <1>1, PictureStep DEF StackShoots

(* The camera takes the token with a release and returns it with a job. *)
LEMMA CameraStep == IInv /\ (JobBegins \/ JobEnds) => IInv'
<1> SUFFICES ASSUME IInv, JobBegins \/ JobEnds PROVE IInv'  OBVIOUS
<1> USE DEF IInv, Types, OneToken, Owns, Jobs, Done, Busy, settings, bracket
<1>1. CASE JobBegins  BY <1>1 DEF JobBegins
<1>2. CASE JobEnds    BY <1>2, UpAdds DEF JobEnds
<1> QED BY <1>1, <1>2

(* The menu touches neither the token nor the shooters. *)
LEMMA MenuStep ==
  IInv /\ (bracket_start \/ ae_adjust_count \/ ae_adjust_step \/ UNCHANGED shvars) => IInv'
  BY DEF IInv, Types, OneToken, Owns, Jobs, bracket_start, ae_adjust_count,
         ae_adjust_step, camera, settings, bracket, shvars

(* No release on top of a release or a job until the one race that there   *)
(* is: a first wait ends after a second although another shooter is about  *)
(* to release, or the camera has not yet begun.                            *)
THEOREM NeverReleasesTwice == ShootSpec => []OneRelease
<1>1. ShootInit => IInv  BY InitToken
<1>2. IInv /\ [ShootNext]_shvars => IInv'
  BY BracketStep, StackStep, CameraStep, MenuStep DEF ShootNext
<1>3. IInv => OneRelease
  BY DEF IInv, Types, OneToken, Jobs, OneRelease, Done, Busy
<1> QED BY <1>1, <1>2, <1>3, PTL DEF ShootSpec

-----------------------------------------------------------------------------
(* The exposures of a bracket up to round n.                               *)
Exposures(n) == {ae_step * j : j \in Half(-ae_count)..n}

(* What BracketSymmetric depends on: in the middle of a bracket the        *)
(* exposures used are those of the rounds so far, this one included once   *)
(* its picture is under way; and a loop that has ended was a whole one.    *)
Rounds ==
  /\ ae_count \in Nat /\ ae_count % 2 = 1 /\ ae_step \in Nat \ {0} /\ bracket_i \in Int
  /\ DOMAIN place = Shooters
  /\ "bracket" \in Shooters /\ ~touched =>
       /\ place["bracket"] = "loop" =>
            used = Exposures(bracket_i - 1) /\ bracket_i \in Half(-ae_count)..(Half(ae_count) + 1)
       /\ place["bracket"] \in {"first", "release", "second", "give", "taken"} =>
            used = Exposures(bracket_i) /\ bracket_i \in Half(-ae_count)..Half(ae_count)
       /\ place["bracket"] = "idle" /\ used # {} =>
            used = Exposures(Half(ae_count)) /\ cam_ae = lens_get_ae
  /\ "bracket" \in Shooters =>
       place["bracket"] \in {"idle", "loop", "first", "release", "second", "give", "taken"}

(* C's division halves an odd number and its negative alike. *)
LEMMA HalfOdd ==
  ASSUME NEW n \in Nat, n % 2 = 1
  PROVE  Half(n) \in Nat /\ Half(-n) = -Half(n) /\ n = 2 * Half(n) + 1
  BY DEF Half

(* Different rounds have different exposures. *)
LEMMA StepsDiffer ==
  ASSUME NEW s \in Nat \ {0}, NEW j \in Int, NEW k \in Int, s * j = s * k
  PROVE  j = k
<1>1. CASE j < k
  <2>1. s * (k - j) >= 1  BY <1>1
  <2> QED BY <2>1
<1>2. CASE k < j
  <2>1. s * (j - k) >= 1  BY <1>2
  <2> QED BY <2>1
<1> QED BY <1>1, <1>2

(* As many exposures as rounds. *)
LEMMA ExposuresCounted ==
  ASSUME NEW s \in Nat \ {0}, NEW h \in Nat
  PROVE  Cardinality({s * j : j \in -h..h}) = 2 * h + 1
<1> DEFINE T == {s * j : j \in -h..h}
           f == [j \in -h..h |-> s * j]
<1>1. f \in Bijection(-h..h, T)
  <2>1. \A j, k \in -h..h : f[j] = f[k] => j = k  BY StepsDiffer
  <2>2. f \in [-h..h -> T]  OBVIOUS
  <2>3. \A t \in T : \E j \in -h..h : f[j] = t  OBVIOUS
  <2> QED BY <2>1, <2>2, <2>3 DEF Bijection, Injection, Surjection, IsInjective
<1>2. IsFiniteSet(-h..h) /\ Cardinality(-h..h) = 2 * h + 1
  BY FS_Interval
<1>3. ExistsBijection(-h..h, T)
  BY <1>1 DEF ExistsBijection
<1> QED BY <1>2, <1>3, FS_Bijection

(* The first bracket has not begun. *)
LEMMA InitRounds == ShootInit => Rounds
  BY ShootingAssumption DEF ShootInit, Rounds

(* One more round adds its exposure, and none is the sum of no rounds. *)
LEMMA NextRound ==
  ASSUME Rounds, NEW n \in Int, n >= Half(-ae_count)
  PROVE  Exposures(n) = Exposures(n - 1) \cup {ae_step * n}
<1>1. Half(-ae_count)..n = (Half(-ae_count)..(n - 1)) \cup {n}
  BY HalfOdd DEF Rounds
<1> QED BY <1>1 DEF Exposures

(* lens_take_picture leaves the bracket's variables alone. *)
LEMMA PictureRounds ==
  ASSUME Rounds, NEW t \in Shooters, lens_take_picture(t), place[t] # "idle"
  PROVE  Rounds'
<1> USE DEF Rounds, Exposures, Proceed, settings, bracket, camera
<1>1. CASE FirstTake(t)      BY <1>1 DEF FirstTake
<1>2. CASE FirstTimeout(t)   BY <1>2 DEF FirstTimeout
<1>3. CASE Release(t)        BY <1>3 DEF Release
<1>4. CASE SecondTake(t)     BY <1>4 DEF SecondTake
<1>5. CASE SecondTimeout(t)  BY <1>5 DEF SecondTimeout
<1>6. CASE SecondGive(t)     BY <1>6 DEF SecondGive
<1> QED BY <1>1, <1>2, <1>3, <1>4, <1>5, <1>6 DEF lens_take_picture

(* bracket_task *)
LEMMA BracketRounds == Rounds /\ Bracket => Rounds'
<1> SUFFICES ASSUME Rounds, Bracket PROVE Rounds'  OBVIOUS
<1>0. "bracket" \in Shooters  BY DEF Bracket
<1> DEFINE h == Half(ae_count)
<1>h. h \in Nat /\ Half(-ae_count) = -h
  BY HalfOdd DEF Rounds
<1>1. CASE BracketWake
  <2>1. Exposures(bracket_i - 1)' = {}
    BY <1>1, <1>h DEF BracketWake, Exposures
  <2> QED BY <1>0, <1>1, <1>h, <2>1 DEF BracketWake, Rounds, Proceed, Half
<1>2. CASE BracketShot
  <2>1. ~touched => Exposures(bracket_i) = Exposures(bracket_i - 1) \cup {ae_step * bracket_i}
    BY <1>0, <1>2, NextRound DEF Rounds, BracketShot
  <2>2. cam_ae' = ae_step * bracket_i
    BY <1>2 DEF BracketShot, lens_get_ae, Rounds
  <2> QED BY <1>0, <1>2, <1>h, <2>1, <2>2 DEF BracketShot, Rounds, Exposures, Proceed, settings
<1>3. CASE BracketNext
  BY <1>0, <1>3, <1>h DEF BracketNext, Rounds, Exposures, Proceed, settings
<1>4. CASE BracketEnd
  <2>1. ~touched => bracket_i - 1 = h
    BY <1>0, <1>4, <1>h DEF BracketEnd, Rounds
  <2> QED BY <1>0, <1>4, <1>h, <2>1 DEF BracketEnd, Rounds, Exposures, Proceed, settings
<1>5. CASE lens_take_picture("bracket")
  BY <1>0, <1>5, PictureRounds DEF lens_take_picture, FirstTake, FirstTimeout, Release,
     SecondTake, SecondTimeout, SecondGive
<1> QED BY <1>1, <1>2, <1>3, <1>4, <1>5 DEF Bracket

(* The stacking task, the camera and the menu. *)
LEMMA OtherRounds ==
  /\ Rounds
  /\ \/ StackShoots \/ JobBegins \/ JobEnds
     \/ bracket_start \/ ae_adjust_count \/ ae_adjust_step \/ UNCHANGED shvars
  => Rounds'
<1> USE DEF Rounds, Exposures, settings, bracket, camera
<1>1. Rounds /\ StackShoots => Rounds'
  <2>1. Rounds /\ "stack" \in Shooters /\ StackShot => Rounds'
    BY DEF StackShot, Proceed
  <2>2. Rounds /\ "stack" \in Shooters /\ lens_take_picture("stack") => Rounds'
    BY PictureRounds DEF lens_take_picture, FirstTake, FirstTimeout, Release,
       SecondTake, SecondTimeout, SecondGive
  <2> QED BY <2>1, <2>2 DEF StackShoots
<1>2. Rounds /\ (JobBegins \/ JobEnds \/ bracket_start \/ UNCHANGED shvars) => Rounds'
  BY DEF JobBegins, JobEnds, bracket_start, shvars
<1>3. Rounds /\ (ae_adjust_count \/ ae_adjust_step) => Rounds'
  BY DEF ae_adjust_count, ae_adjust_step
<1> QED BY <1>1, <1>2, <1>3

(* A bracket sets ae_count exposures, symmetric about what lens_get_ae     *)
(* returned, and goes back to that: whatever lens_take_picture makes of    *)
(* its pictures.                                                           *)
THEOREM BracketsAreSymmetric == ShootSpec => []BracketSymmetric
<1>1. ShootInit => Rounds  BY InitRounds
<1>2. Rounds /\ [ShootNext]_shvars => Rounds'
  BY BracketRounds, OtherRounds DEF ShootNext
<1>3. Rounds => BracketSymmetric
  <2> SUFFICES ASSUME Rounds, "bracket" \in Shooters, used # {}, place["bracket"] = "idle", ~touched
               PROVE  /\ Cardinality(used) = ae_count
                      /\ cam_ae = lens_get_ae
                      /\ \A x \in used : 2 * lens_get_ae - x \in used
    BY DEF BracketSymmetric
  <2> DEFINE h == Half(ae_count)
  <2>1. h \in Nat /\ Half(-ae_count) = -h /\ ae_count = 2 * h + 1
    BY HalfOdd DEF Rounds
  <2>2. used = {ae_step * j : j \in -h..h}
    BY <2>1 DEF Rounds, Exposures
  <2>3. Cardinality(used) = ae_count
    BY <2>1, <2>2, ExposuresCounted DEF Rounds
  <2>4. \A x \in used : 2 * lens_get_ae - x \in used
    <3> SUFFICES ASSUME NEW j \in -h..h PROVE 2 * lens_get_ae - ae_step * j \in used
      BY <2>2
    <3>1. -j \in -h..h /\ 2 * lens_get_ae - ae_step * j = ae_step * (-j)
      BY <2>1 DEF lens_get_ae, Rounds
    <3> QED BY <2>2, <3>1
  <2> QED BY <2>3, <2>4 DEF Rounds
<1> QED BY <1>1, <1>2, <1>3, PTL DEF ShootSpec
=============================================================================
