---------------------------- MODULE AudioLevels -----------------------------
(***************************************************************************)
(* The audio meters of audio.c: audio_level_task samples both channels     *)
(* into audio_levels, field by field, while meter_task reads the average   *)
(* and then the peak of each channel and draws a bar.  Nothing locks       *)
(* audio_levels.                                                           *)
(***************************************************************************)
EXTENDS Integers

CONSTANTS
  NChannels,   (* COUNT(audio_levels): two                                 *)
  MaxLevel,    (* greatest magnitude of a sample: 32768 for int16_t, since *)
               (* -(-32768) does not overflow the int it is negated in     *)
  Samples,     (* magnitudes the device may deliver                        *)
  Thresholds   (* audio_thresholds[1..40], the calibration table           *)

ASSUME LevelAssumption ==
  /\ NChannels \in Nat \ {0}
  /\ MaxLevel \in Nat
  /\ Samples \subseteq 0..MaxLevel
  /\ Thresholds \in [1..40 -> Nat]

VARIABLES
  avg, peak,   (* the fields of audio_levels, per channel                  *)
  raw,         (* the sample compute_audio_levels is working on            *)
  pc,          (* what audio_level_task does next                          *)
  ch,          (* and on which channel                                     *)
  mpc, mch,    (* the same for meter_task                                  *)
  db_avg, db_peak   (* locals of draw_meter                                *)

computeVars == <<avg, peak, raw, pc, ch>>
meterVars   == <<mpc, mch, db_avg, db_peak>>
vars        == <<avg, peak, raw, pc, ch, mpc, mch, db_avg, db_peak>>

Channels == 0..NChannels - 1

(* The channels are taken in turn.                                         *)
Other(c) == IF c + 1 = NChannels THEN 0 ELSE c + 1

(* audio_levels is static; the task clears peaks and averages once more.   *)
Init ==
  /\ avg = [c \in Channels |-> 0] /\ peak = [c \in Channels |-> 0]
  /\ raw = 0 /\ pc = "sample" /\ ch = 0
  /\ mpc = "avg" /\ mch = 0
  /\ db_avg = -40 /\ db_peak = -40

-----------------------------------------------------------------------------
(* compute_audio_levels *)

(* Faulty: the sum is divided by too little; the decay is rounded up.      *)
AverageLoud(a, r) == (a * 15 + r) \div 8
DecayUp(p, a)     == (p * 31 + a + 31) \div 32

Average(a, r) == (a * 15 + r) \div 16
Decay(p, a)   == (p * 31 + a) \div 32

Sample ==
  /\ pc = "sample"
  /\ raw' \in Samples
  /\ pc' = "average"
  /\ UNCHANGED <<avg, peak, ch, meterVars>>

UpdateAverage ==
  /\ pc = "average"
  /\ avg' = [avg EXCEPT ![ch] = Average(@, raw)]
  /\ pc' = "max"
  /\ UNCHANGED <<peak, raw, ch, meterVars>>

UpdatePeak ==
  /\ pc = "max"
  /\ peak' = [peak EXCEPT ![ch] = IF raw > @ THEN raw ELSE @]
  /\ pc' = "decay"
  /\ UNCHANGED <<avg, raw, ch, meterVars>>

DecayPeak ==
  /\ pc = "decay"
  /\ peak' = [peak EXCEPT ![ch] = Decay(@, avg[ch])]
  /\ pc' = "sample" /\ ch' = Other(ch)
  /\ UNCHANGED <<avg, raw, meterVars>>

-----------------------------------------------------------------------------
(* draw_meter.  The scan from 40 down stops at the greatest db whose       *)
(* threshold is above the level.                                           *)

audio_level_to_db(level) ==
  LET above == {d \in 1..40 : Thresholds[d] > level}
  IN IF above = {} THEN 0 ELSE -(CHOOSE d \in above : \A e \in above : e <= d)

ReadAverage ==
  /\ mpc = "avg"
  /\ db_avg' = audio_level_to_db(avg[mch])
  /\ mpc' = "peak"
  /\ UNCHANGED <<computeVars, mch, db_peak>>

ReadPeak ==
  /\ mpc = "peak"
  /\ db_peak' = audio_level_to_db(peak[mch])
  /\ mpc' = "draw"
  /\ UNCHANGED <<computeVars, mch, db_avg>>

Draw ==
  /\ mpc = "draw"
  /\ mpc' = "avg" /\ mch' = Other(mch)
  /\ UNCHANGED <<computeVars, db_avg, db_peak>>

Compute == Sample \/ UpdateAverage \/ UpdatePeak \/ DecayPeak
Meter   == ReadAverage \/ ReadPeak \/ Draw

Next == Compute \/ Meter

Spec == Init /\ [][Next]_vars

(* Both tasks loop for ever, woken by msleep. *)
FairSpec == Spec /\ WF_vars(Compute) /\ WF_vars(Meter)

-----------------------------------------------------------------------------
(* Properties *)

(* The levels drawn stay in -40..0 dB ("levels go from -40 to 0, so        *)
(* -40 * 15 == 600"): they index the pixels of a row.                      *)
TypeOK ==
  /\ avg \in [Channels -> Int] /\ peak \in [Channels -> Int]
  /\ raw \in Samples \cup {0}
  /\ pc \in {"sample", "average", "max", "decay"}
  /\ ch \in Channels /\ mch \in Channels
  /\ mpc \in {"avg", "peak", "draw"}
  /\ db_avg \in -40..0 /\ db_peak \in -40..0

(* Between samples of a channel its average is not above its peak, and     *)
(* both are in the range of the samples, although integer division rounds  *)
(* both down and the peak decays towards an average that moves.  While the *)
(* average is ahead of the peak, the sample that raised it is above both.  *)
LevelsOrdered ==
  \A c \in Channels :
    /\ 0 <= avg[c] /\ avg[c] <= MaxLevel
    /\ 0 <= peak[c] /\ peak[c] <= MaxLevel
    /\ avg[c] <= peak[c] \/ (c = ch /\ pc = "max" /\ avg[c] <= raw)

(* The peak shown rises only to a sample that was heard, and an average    *)
(* that rises never passes the sample.                                     *)
NoInventedPeak ==
  [][ \A c \in Channels :
        /\ peak'[c] > peak[c] => c = ch /\ peak'[c] = raw
        /\ avg'[c] > avg[c] => c = ch /\ avg'[c] <= raw ]_vars

(* In silence the average and the peak both come down to nothing: rounding *)
(* never leaves a bar or a peak mark standing.                             *)
FallsSilent == \A c \in Channels : <>[](raw = 0) => <>[](avg[c] = 0 /\ peak[c] = 0)
=============================================================================
