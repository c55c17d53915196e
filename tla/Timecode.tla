------------------------------ MODULE Timecode ------------------------------
(***************************************************************************)
(* The SMPTE timecode decoder of timecode.c: tc_task polls the level of    *)
(* the audio input, tc_sample finds the transitions of a biphase mark      *)
(* signal, times them with a 24-bit timer, collects bits into bytes after  *)
(* a sync word, and process_timecode shows the time.  The recorder that    *)
(* sends the signal, and what may happen to it on the way, is external.    *)
(***************************************************************************)
EXTENDS Integers, Sequences, SequencesExt

CONSTANTS
  Wrap,        (* the timer counts modulo this: 2^24                       *)
  Times,       (* the frames the recorder sends: records of frame, second, *)
               (* minute, hour, user nibble and flag (bit 43)              *)
  Jitter,      (* how much an undisturbed interval may be off, at most     *)
  Pauses,      (* how long the signal may stand still                      *)
  Skips,       (* bits that may pass while nobody polls                    *)
  Lapses,      (* what the timer may then have counted                     *)
  MaxFaults    (* disturbances in a behaviour                              *)

ONE_LEN  == 208
ZERO_LEN == 416
EPS      == 48

ASSUME TimecodeAssumption ==
  /\ Jitter \in 0..EPS - 1
  /\ {Wrap, MaxFaults} \cup Pauses \cup Skips \cup Lapses \subseteq Nat

VARIABLES
  bit, last_bit, word, synced, byte_count, smpte_frame,  (* statics        *)
  elapsed,             (* read_clock() - last_transition                   *)
  gui_menu_task,       (* is the menu on the screen                        *)
  timecode_sem,
  polling,             (* tc_task is in process_timecode                   *)
  shown,               (* the time on the screen                           *)
  announced,           (* the last tc_sample returned 1                    *)
  sent, pos, half, level,   (* the recorder: frame, bit, half of a bit and *)
                            (* the level of the line                       *)
  good,                (* bits undisturbed since the last disturbance      *)
  faults

decoder  == <<bit, last_bit, word, synced, byte_count, smpte_frame, elapsed, shown, announced>>
task     == <<gui_menu_task, timecode_sem, polling>>
recorder == <<sent, pos, half, level>>
tvars    == <<decoder, task, recorder, good, faults>>

-----------------------------------------------------------------------------
(* The recorder: 64 bits, least significant first, then the sync word.     *)

SyncBits == << 0,0,1,1, 1,1,1,1, 1,1,1,1, 1,1,0,1 >>

Nibbles(t) ==
  LET field(n) == << n % 10, t.user, n \div 10, t.user >>
  IN ReplaceAt(field(t.f) \o field(t.s) \o field(t.m) \o field(t.h), 11,
               t.m \div 10 + 8 * t.flag)

Bits(t) == [i \in 1..64 |-> (Nibbles(t)[(i - 1) \div 4 + 1] \div 2^((i - 1) % 4)) % 2]
           \o SyncBits

FrameBits == [t \in Times |-> Bits(t)]
Bit       == FrameBits[sent][pos]

(* How long the line stays as it is: a one has a transition in the middle. *)
Interval == IF Bit = 1 THEN ONE_LEN ELSE ZERO_LEN

(* The recorder goes on by half a bit or a bit, into another frame perhaps.*)
Advance ==
  IF Bit = 1 /\ half = 0
    THEN half' = 1 /\ UNCHANGED <<sent, pos>>
    ELSE half' = 0 /\ IF pos < 80 THEN pos' = pos + 1 /\ UNCHANGED sent
                                  ELSE pos' = 1 /\ sent' \in Times

-----------------------------------------------------------------------------
(* tc_sample *)

(* The hysteresis: a weak sample leaves the bit as it is.                  *)
Level(s) == CASE s = "high" -> 0 [] s = "low" -> 1 [] OTHER -> bit

(* The delta, in the 24 bits of the timer, is a long or a short interval.  *)
Near(delta, len) == len - EPS < delta /\ delta < len + EPS

Reversed(w) == LET b(i) == (w \div 2^i) % 2
               IN 128 * b(0) + 64 * b(1) + 32 * b(2) + 16 * b(3)
                  + 8 * b(4) + 4 * b(5) + 2 * b(6) + b(7)

BCD(i) == smpte_frame'[i] % 16

(* process_timecode shows what the frame holds.  The minutes are the only  *)
(* tens that are not masked.                                               *)
Show == shown' = [f |-> BCD(0) + 10 * (BCD(1) % 4), s |-> BCD(2) + 10 * (BCD(3) % 8),
                  m |-> BCD(4) + 10 * BCD(5),       h |-> BCD(6) + 10 * (BCD(7) % 4)]

(* A delta of no bit: sync is lost.  last_bit stays as it is.              *)
BadDelta ==
  /\ synced' = FALSE /\ word' = 0 /\ announced' = FALSE
  /\ UNCHANGED <<last_bit, byte_count, smpte_frame, shown>>

(* A byte is complete, and with the eighth the frame.                      *)
Byte(w) ==
  /\ smpte_frame' = [smpte_frame EXCEPT ![byte_count] = Reversed(w)]
  /\ byte_count' = byte_count + 1 /\ word' = 1
  /\ IF byte_count < 7
       THEN announced' = FALSE /\ UNCHANGED <<synced, shown>>
       ELSE synced' = FALSE /\ announced' = TRUE /\ Show

(* Faulty: the bytes are not counted anew for a new frame.                 *)
NewBitUncounted(new) ==
  LET w == (2 * word + new) % 2^16
  IN IF synced /\ w \div 256 % 2 = 1
     THEN Byte(w)
     ELSE /\ IF ~synced /\ w = 16381
               THEN synced' = TRUE /\ word' = 1
               ELSE word' = w /\ UNCHANGED synced
          /\ announced' = FALSE /\ UNCHANGED <<byte_count, smpte_frame, shown>>

(* A bit joins the word.  Only its 16 low bits are ever looked at.         *)
NewBit(new) ==
  LET w == (2 * word + new) % 2^16
  IN IF synced /\ w \div 256 % 2 = 1
     THEN Byte(w)
     ELSE /\ IF ~synced /\ w = 16381
               THEN synced' = TRUE /\ word' = 1 /\ byte_count' = 0
               ELSE word' = w /\ UNCHANGED <<synced, byte_count>>
          /\ announced' = FALSE /\ UNCHANGED <<smpte_frame, shown>>

(* The transition after delta ticks; the first half of a one says nothing. *)
Transition(delta) ==
  IF Near(delta, ZERO_LEN) THEN NewBit(0) /\ UNCHANGED last_bit
  ELSE IF ~Near(delta, ONE_LEN) THEN BadDelta
  ELSE IF last_bit = 0
    THEN /\ last_bit' = 1 /\ announced' = FALSE
         /\ UNCHANGED <<word, synced, byte_count, smpte_frame, shown>>
    ELSE last_bit' = 0 /\ NewBit(1)

(* The samples tc_sample takes over an interval of d ticks of which the    *)
(* last is s: the ones in between repeat the level and do nothing.         *)
tc_sample(s, d) ==
  /\ bit' = Level(s)
  /\ IF bit' = bit
       THEN /\ elapsed' = (elapsed + d) % Wrap /\ announced' = FALSE
            /\ UNCHANGED <<last_bit, word, synced, byte_count, smpte_frame, shown>>
       ELSE elapsed' = 0 /\ Transition((elapsed + d) % Wrap)

-----------------------------------------------------------------------------
(* The line.  It is sampled while process_timecode runs.                   *)

Sampled(l) == IF l = 0 THEN "high" ELSE "low"

(* An interval as it was recorded.  It is lost on a decoder that did not   *)
(* see the transition before it, or does not see the one after it.         *)
Enough == 176

Strong ==
  /\ polling
  /\ level' = 1 - level
  /\ \E j \in {-Jitter, 0, Jitter} : tc_sample(Sampled(level'), Interval + j)
  /\ Advance
  /\ good' = IF elapsed # 0 \/ bit' = bit THEN 0
             ELSE IF half' = 1 \/ good = Enough THEN good ELSE good + 1
  /\ UNCHANGED <<task, faults>>

Disturbed(s, d) ==
  /\ polling /\ faults < MaxFaults /\ faults' = faults + 1
  /\ level' = 1 - level
  /\ tc_sample(s, d)
  /\ good' = 0
  /\ UNCHANGED task

(* An excursion too small for the thresholds, a pause, a stray edge.       *)
Weak  == Disturbed("weak", Interval) /\ Advance
Pause == \E p \in Pauses : Disturbed(Sampled(1 - level), Interval + p) /\ Advance
Edge  == Disturbed(Sampled(1 - level), EPS) /\ UNCHANGED <<sent, pos, half>>

(* Nobody polls for a while: bits pass, the line and the timer are         *)
(* anywhere.                                                               *)
Lapse ==
  /\ good' = 0 /\ half' = 0 /\ level' \in {0, 1}
  /\ \E n \in Skips : IF pos + n <= 80 THEN pos' = pos + n /\ UNCHANGED sent
                                       ELSE pos' = pos + n - 80 /\ sent' \in Times
  /\ elapsed' \in Lapses
  /\ UNCHANGED <<bit, last_bit, word, synced, byte_count, smpte_frame, shown, announced>>

(* Tasks of a higher priority keep the processor for longer than half a bit*)
Preempted ==
  /\ polling /\ faults < MaxFaults /\ faults' = faults + 1
  /\ Lapse /\ UNCHANGED task

-----------------------------------------------------------------------------
(* tc_task, the menu, and the item "Jam timecode" *)

tc_task ==
  /\ ~polling /\ timecode_sem > 0
  /\ timecode_sem' = 0 /\ polling' = TRUE
  /\ Lapse
  /\ UNCHANGED <<gui_menu_task, faults>>

process_timecode ==
  /\ polling /\ gui_menu_task
  /\ polling' = FALSE /\ good' = 0
  /\ UNCHANGED <<decoder, recorder, gui_menu_task, timecode_sem, faults>>

OpenMenu ==
  /\ ~gui_menu_task /\ faults < MaxFaults /\ faults' = faults + 1
  /\ gui_menu_task' = TRUE
  /\ UNCHANGED <<decoder, recorder, timecode_sem, polling, good>>

timecode_unlock ==
  /\ gui_menu_task
  /\ gui_menu_task' = FALSE /\ timecode_sem' = 1
  /\ UNCHANGED <<decoder, recorder, polling, good, faults>>

TcInit ==
  /\ bit = 0 /\ last_bit = 0 /\ word = 0 /\ synced = FALSE /\ byte_count = 0
  /\ smpte_frame = [i \in 0..7 |-> 0]
  /\ elapsed = 0
  /\ shown = [f |-> 0, s |-> 0, m |-> 0, h |-> 0] /\ announced = FALSE
  /\ gui_menu_task = TRUE /\ timecode_sem = 0 /\ polling = FALSE
  /\ sent \in Times /\ pos = 1 /\ half = 0 /\ level = 0
  /\ good = 0 /\ faults = 0

TcNext ==
  \/ Strong \/ Weak \/ Pause \/ Edge \/ Preempted
  \/ tc_task \/ process_timecode \/ OpenMenu \/ timecode_unlock

TcSpec == TcInit /\ [][TcNext]_tvars

-----------------------------------------------------------------------------
Sent(t) == [f |-> t.f, s |-> t.s, m |-> t.m, h |-> t.h]

(* A time that process_timecode shows after reading a sync word and 64     *)
(* bits without a disturbance is the time that was recorded, whichever     *)
(* half of a one the decoder believes to be in, as long as the flag in     *)
(* bit 43, which tc_task does not mask, is clear.                          *)
ShowsWhatWasSent ==
  announced /\ good >= 80 /\ sent.flag = 0 => shown = Sent(sent)

(* After any disturbance the second whole frame is shown at the latest: a  *)
(* decoder that has lost bits without noticing may take the next sync word *)
(* for data, but not the one after it.                                     *)
LocksAgain ==
  good = Enough /\ pos > 65 /\ sent.flag = 0 => shown = Sent(sent)

(* The screen says what was recorded.                                      *)
TimeIsRight == ShowsWhatWasSent /\ LocksAgain
=============================================================================
