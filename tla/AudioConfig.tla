---------------------------- MODULE AudioConfig -----------------------------
(***************************************************************************)
(* The audio chip of audio.c: audio_configure writes the user's settings   *)
(* to its registers, access by access, called from my_sounddev_task (every *)
(* second, and when a recording starts or stops), from the menu callbacks  *)
(* in the GUI task and from the Live View handler in the property task.    *)
(* Canon's firmware changes the same registers when it activates the sound *)
(* device.  Nothing locks the chip or the settings.                        *)
(***************************************************************************)
EXTENDS Naturals, Sequences

CONSTANTS
  Resets,    (* the registers Canon's firmware changes                     *)
  Users      (* what the user may be doing: the task that calls            *)
             (* audio_configure besides my_sounddev_task, "gui" for the    *)
             (* menu or "prop" for Live View, and the settings changed in  *)
             (* the menu                                                   *)

ConfigAssumption ==
  /\ Resets \subseteq {"ALC1", "SIG1", "SIG2"}
  /\ Users \subseteq [callers : SUBSET {"gui", "prop"},
                     toggles : SUBSET {"alc_enable", "mgain", "lovl"}]

VARIABLES
  reg,        (* the chip's registers                                      *)
  gain,       (* what the last audio_configure noted down                  *)
  set,        (* the settings                                              *)
  user,       (* one of Users                                              *)
  gain_sem,
  pc,         (* the access of Script each task makes next; 0: none        *)
  bits, loc,  (* the argument and the local of audio_ic_set_mgain and of   *)
              (* the MODE3 update                                          *)
  shutdown_requested,
  quiet,      (* the user and Canon's firmware leave the sound alone       *)
  raced       (* an audio_configure met another one, or Canon's changes    *)

vars == <<reg, gain, set, user, gain_sem, pc, bits, loc, shutdown_requested, quiet, raced>>

Tasks == {"sound"} \cup user.callers

(* mgain is split over SIG1 and SIG2: here, a bit in each.  A SIG register *)
(* holds the power or line output setting and its bit of mgain.            *)
Settings == [alc_enable : 0..1, mgain : 0..3, lovl : 0..1, loopback : 0..1]
MgainBit(m, r) == IF r = "SIG1" THEN m % 2 ELSE m \div 2

(* audio_configure as the sequence of its accesses. *)
Script == << <<"check", "ALC1">>, <<"check", "SIG1">>, <<"check", "SIG2">>,
             <<"base", "SIG1">>,  <<"base", "SIG2">>,
             <<"choose", "ALC1">>, <<"note", "ALC1">>, <<"put", "ALC1">>,
             <<"call", "SIG1">>,
             <<"read", "SIG1">>, <<"write", "SIG1">>, <<"keep", "SIG1">>,
             <<"read", "SIG2">>, <<"write", "SIG2">>, <<"keep", "SIG2">>,
             <<"load", "MODE3">>, <<"store", "MODE3">> >>

Unforced == 1
Forced   == 4
Idle(t)  == pc[t] = 0

(* my_sounddev_task is about to force the settings for the first time. *)
Init ==
  /\ reg = [ALC1 |-> 1, SIG1 |-> <<0, 0>>, SIG2 |-> <<0, 0>>, MODE3 |-> 0]
  /\ gain = [ALC1 |-> 0, SIG1 |-> <<0, 0>>, SIG2 |-> <<0, 0>>]
  /\ set \in [alc_enable : {0}, mgain : {1}, lovl : {1}, loopback : {1}]
  /\ gain_sem = 1 /\ user \in Users
  /\ pc = [t \in Tasks |-> IF t = "sound" THEN Forced ELSE 0]
  /\ bits = [t \in Tasks |-> 0] /\ loc = [t \in Tasks |-> <<0, 0>>]
  /\ shutdown_requested = FALSE /\ quiet = FALSE /\ raced = FALSE

-----------------------------------------------------------------------------
(* audio_configure *)

(* What the register should hold before mgain is put in. *)
Base(r) == IF r = "SIG1" THEN <<1, 0>> ELSE <<set.lovl, 0>>

At(t, op) == pc[t] # 0 /\ Script[pc[t]][1] = op
Reg(t)    == Script[pc[t]][2]

(* On to the next access, or out of audio_configure. *)
Advance(t) == pc' = [pc EXCEPT ![t] = IF @ = Len(Script) THEN 0 ELSE @ + 1]

(* Faulty: the ALC setting is not compared.                                *)
CheckSIG(t) ==
  /\ At(t, "check")
  /\ pc' = [pc EXCEPT ![t] = IF Reg(t) # "ALC1" /\ reg[Reg(t)] # gain[Reg(t)] THEN Forced
                             ELSE IF Reg(t) = "SIG2" THEN 0 ELSE @ + 1]
  /\ UNCHANGED <<reg, gain, bits, loc>>

(* Unforced: if all three registers are as noted down there is nothing to do.*)
Check(t) ==
  /\ At(t, "check")
  /\ pc' = [pc EXCEPT ![t] = IF reg[Reg(t)] # gain[Reg(t)] THEN Forced
                             ELSE IF Reg(t) = "SIG2" THEN 0 ELSE @ + 1]
  /\ UNCHANGED <<reg, gain, bits, loc>>

WriteBase(t) ==
  /\ At(t, "base")
  /\ reg' = [reg EXCEPT ![Reg(t)] = Base(Reg(t))]
  /\ Advance(t) /\ UNCHANGED <<gain, bits, loc>>

(* gain.alc1 = alc_enable: the setting is loaded, *)
ChooseALC(t) ==
  /\ At(t, "choose")
  /\ loc' = [loc EXCEPT ![t] = <<set.alc_enable, 0>>]
  /\ Advance(t) /\ UNCHANGED <<reg, gain, bits>>

(* and what was loaded is noted down. *)
NoteALC(t) ==
  /\ At(t, "note")
  /\ gain' = [gain EXCEPT !["ALC1"] = loc[t][1]]
  /\ Advance(t) /\ UNCHANGED <<reg, bits, loc>>

(* gain.alc1 is written and read without a lock: the compiler may read it  *)
(* back or keep it in a register.                                          *)
PutALC(t) ==
  /\ At(t, "put")
  /\ \E alc1 \in {gain["ALC1"], loc[t][1]} : reg' = [reg EXCEPT !["ALC1"] = alc1]
  /\ loc' = [loc EXCEPT ![t] = <<0, 0>>]
  /\ Advance(t) /\ UNCHANGED <<gain, bits>>

(* audio_ic_set_mgain( mgain ) *)
CallMgain(t) ==
  /\ At(t, "call")
  /\ bits' = [bits EXCEPT ![t] = set.mgain]
  /\ Advance(t) /\ UNCHANGED <<reg, gain, loc>>

Read(t) ==
  /\ At(t, "read")
  /\ loc' = [loc EXCEPT ![t] = <<reg[Reg(t)][1], MgainBit(bits[t], Reg(t))>>]
  /\ Advance(t) /\ UNCHANGED <<reg, gain, bits>>

Write(t) ==
  /\ At(t, "write")
  /\ reg' = [reg EXCEPT ![Reg(t)] = loc[t]]
  /\ Advance(t) /\ UNCHANGED <<gain, bits, loc>>

(* Faulty: what is noted down is not what was written.                     *)
KeepBase(t) ==
  /\ At(t, "keep")
  /\ gain' = [gain EXCEPT ![Reg(t)] = Base(Reg(t))]
  /\ Advance(t) /\ UNCHANGED <<reg, bits, loc>>

Keep(t) ==
  /\ At(t, "keep")
  /\ gain' = [gain EXCEPT ![Reg(t)] = loc[t]]
  /\ Advance(t) /\ UNCHANGED <<reg, bits, loc>>

Load(t) ==
  /\ At(t, "load")
  /\ loc' = [loc EXCEPT ![t] = <<set.loopback, 0>>]
  /\ Advance(t) /\ UNCHANGED <<reg, gain, bits>>

(* The locals die with the call. *)
Store(t) ==
  /\ At(t, "store")
  /\ reg' = [reg EXCEPT !["MODE3"] = loc[t][1]]
  /\ loc' = [loc EXCEPT ![t] = <<0, 0>>] /\ bits' = [bits EXCEPT ![t] = 0]
  /\ Advance(t) /\ UNCHANGED gain

audio_configure(t) ==
  /\ \/ Check(t) \/ WriteBase(t) \/ ChooseALC(t) \/ NoteALC(t) \/ PutALC(t)
     \/ CallMgain(t) \/ Read(t) \/ Write(t) \/ Keep(t) \/ Load(t) \/ Store(t)
  /\ UNCHANGED <<set, user, gain_sem, shutdown_requested, quiet, raced>>

Call(t, start) ==
  /\ Idle(t)
  /\ pc' = [pc EXCEPT ![t] = start]
  /\ raced' = (raced \/ \E u \in Tasks \ {t} : pc[u] # 0)

-----------------------------------------------------------------------------
(* my_sounddev_task; enable_recording; the menu callbacks; enable_meters   *)

SoundForce ==
  /\ ~shutdown_requested /\ gain_sem > 0
  /\ gain_sem' = 0 /\ Call("sound", Forced)
  /\ UNCHANGED <<reg, gain, set, user, bits, loc, shutdown_requested, quiet>>

SoundPoll ==
  /\ ~shutdown_requested /\ gain_sem = 0
  /\ Call("sound", Unforced)
  /\ UNCHANGED <<reg, gain, set, user, gain_sem, bits, loc, shutdown_requested, quiet>>

enable_recording ==
  /\ ~quiet /\ gain_sem' = 1
  /\ UNCHANGED <<reg, gain, set, user, pc, bits, loc, shutdown_requested, quiet, raced>>

(* The stored setting changes before audio_configure( 1 ) is called; one   *)
(* that is being used by another task at that moment is a race, too.       *)
Toggle(s) ==
  /\ "gui" \in user.callers /\ ~quiet
  /\ set' = [set EXCEPT ![s] = IF s = "mgain" THEN (@ + 1) % 4 ELSE 1 - @]
  /\ Call("gui", Forced)
  /\ UNCHANGED <<reg, gain, user, gain_sem, bits, loc, shutdown_requested, quiet>>

enable_meters ==
  /\ "prop" \in user.callers /\ ~quiet
  /\ \E mode \in 0..1 : set' = [set EXCEPT !.loopback = 1 - mode]
  /\ Call("prop", Forced)
  /\ UNCHANGED <<reg, gain, user, gain_sem, bits, loc, shutdown_requested, quiet>>

(* Canon's sound device: switches AGC on, resets a gain register. *)
Canon(r) ==
  /\ ~quiet
  /\ reg' = [reg EXCEPT ![r] = IF r = "ALC1" THEN 1 ELSE <<0, 0>>]
  /\ raced' = (raced \/ \E t \in Tasks : pc[t] # 0)
  /\ UNCHANGED <<gain, set, user, gain_sem, pc, bits, loc, shutdown_requested, quiet>>

BeQuiet ==
  /\ ~quiet /\ quiet' = TRUE
  /\ UNCHANGED <<reg, gain, set, user, gain_sem, pc, bits, loc, shutdown_requested, raced>>

Shutdown ==
  /\ ~shutdown_requested /\ shutdown_requested' = TRUE
  /\ UNCHANGED <<reg, gain, set, user, gain_sem, pc, bits, loc, quiet, raced>>

-----------------------------------------------------------------------------
Sound == SoundForce \/ SoundPoll \/ audio_configure("sound")

Next ==
  \/ Sound \/ (\E t \in user.callers : audio_configure(t))
  \/ (\E s \in user.toggles : Toggle(s)) \/ enable_meters \/ enable_recording
  \/ (\E r \in Resets : Canon(r)) \/ BeQuiet \/ Shutdown

Spec == Init /\ [][Next]_vars

(* The tasks are scheduled; nothing obliges the user or the camera. *)
FairSpec == Spec /\ WF_vars(Sound) /\ \A t \in {"gui", "prop"} : WF_vars(t \in user.callers /\ audio_configure(t))

-----------------------------------------------------------------------------
(* Properties *)

SIGs == (0..1) \X (0..1)

TypeOK ==
  /\ reg \in [ALC1 : 0..1, SIG1 : SIGs, SIG2 : SIGs, MODE3 : 0..1]
  /\ gain \in [ALC1 : 0..1, SIG1 : SIGs, SIG2 : SIGs]
  /\ set \in Settings /\ user \in Users
  /\ gain_sem \in 0..1
  /\ pc \in [Tasks -> 0..Len(Script)]
  /\ bits \in [Tasks -> 0..3] /\ loc \in [Tasks -> SIGs]
  /\ {shutdown_requested, quiet, raced} \subseteq BOOLEAN

(* What the user asked for. *)
Wanted(r) == <<Base(r)[1], MgainBit(set.mgain, r)>>

(* Once the user and the camera are quiet the chip has the user's settings *)
(* for good, unless audio_configure was interrupted by another one or by   *)
(* Canon's changes: the poll sees whatever Canon did in between.           *)
SettingsReturn ==
  <>[](shutdown_requested \/ raced \/
       (quiet => /\ reg["ALC1"] = set.alc_enable
                 /\ reg["SIG1"] = Wanted("SIG1") /\ reg["SIG2"] = Wanted("SIG2")
                 /\ reg["MODE3"] = set.loopback))

(* When no audio_configure is under way and none was raced, the noted      *)
(* values are the settings': the poll compares the chip with the latter.   *)
NotedIsWanted ==
  ~raced /\ (\A t \in Tasks : Idle(t)) =>
    /\ gain["ALC1"] = set.alc_enable
    /\ \A r \in {"SIG1", "SIG2"} : gain[r] = Wanted(r)

(* Raced or not, the chip comes to hold what is noted down of the three    *)
(* registers the poll compares: what Canon resets is put back for good.    *)
ChipAsNoted ==
  <>[](shutdown_requested \/
       (quiet => \A r \in {"ALC1", "SIG1", "SIG2"} : reg[r] = gain[r]))

(* The sound comes to be what the user asked for.  (After a race the note  *)
(* may be of an old setting: a toggle of alc_enable between the load and   *)
(* the store of audio.c:531 leaves the AGC as it was, note and chip alike, *)
(* although "this task disables the AGC".)                                 *)
SoundSettles == SettingsReturn /\ ChipAsNoted
=============================================================================
