--------------------------- MODULE LiveViewProofs ---------------------------
(***************************************************************************)
(* Proofs about the parts of MCLiveView.  The audio levels: their bounds,  *)
(* for every set of samples, every number of channels and every table of   *)
(* the meters.  The audio chip: what is noted down of it, for all that     *)
(* Canon's firmware changes and all that the user may be doing.  The       *)
(* overlays, for any picture, boxes and switches: they write no more than  *)
(* one pair of pixels and two boxes over an open menu, or clear it away    *)
(* once, and bmp_load keeps no memory but the crop marks.                  *)
(***************************************************************************)
EXTENDS MCLiveView, TLAPS

-----------------------------------------------------------------------------
(* The audio levels *)

USE LevelAssumption

(***************************************************************************)
(* What a channel satisfies at each point of compute_audio_levels: the     *)
(* average may be ahead of the peak only while the sample is ahead of it.  *)
(***************************************************************************)
InRange(c) == avg[c] \in 0..MaxLevel /\ peak[c] \in 0..MaxLevel

Ordered(c) ==
  IF c = ch /\ pc = "max"
  THEN avg[c] <= peak[c] \/ avg[c] <= raw
  ELSE avg[c] <= peak[c]

LevelInv ==
  /\ avg \in [Channels -> Int] /\ peak \in [Channels -> Int]
  /\ raw \in Samples \cup {0}
  /\ pc \in {"sample", "average", "max", "decay"}
  /\ ch \in Channels
  /\ \A c \in Channels : InRange(c) /\ Ordered(c)

-----------------------------------------------------------------------------
(* The rounded average lies between its arguments' bounds. *)
LEMMA AverageBounds ==
  ASSUME NEW a \in Nat, NEW r \in Nat
  PROVE  /\ Average(a, r) \in Nat
         /\ Average(a, r) <= a \/ Average(a, r) <= r
  BY SMT DEF Average

(* The rounded decay stays between the average and the peak. *)
LEMMA DecayBounds ==
  ASSUME NEW p \in Nat, NEW a \in Nat, a <= p
  PROVE  Decay(p, a) \in Nat /\ a <= Decay(p, a) /\ Decay(p, a) <= p
  BY SMT DEF Decay

(* The other channel is a channel. *)
LEMMA OtherChannel ==
  ASSUME NEW c \in Channels
  PROVE  Other(c) \in Channels
  BY SMT DEF Channels, Other

(* A sample is never above MaxLevel. *)
LEMMA RawBound ==
  ASSUME raw \in Samples \cup {0}
  PROVE  raw \in 0..MaxLevel
  BY SMT

-----------------------------------------------------------------------------
LEMMA LevelInit == Init => LevelInv
  BY SMT DEF Init, LevelInv, InRange, Ordered, Channels

LEMMA LevelStep == LevelInv /\ [Next]_vars => LevelInv'
<1> SUFFICES ASSUME LevelInv, [Next]_vars PROVE LevelInv'
  OBVIOUS
<1> USE DEF LevelInv, InRange, Ordered
<1>1. CASE Sample
  BY <1>1, SMT DEF Sample
<1>2. CASE UpdateAverage
  <2>1. raw \in 0..MaxLevel
    BY RawBound
  <2>0. avg[ch] \in Nat /\ raw \in Nat
    BY <2>1, SMT
  <2>2. avg[ch] \in Nat /\ raw \in Nat /\ Average(avg[ch], raw) \in Nat
    BY <2>0, AverageBounds
  <2>3. Average(avg[ch], raw) <= avg[ch] \/ Average(avg[ch], raw) <= raw
    BY <2>2, AverageBounds
  <2>4. avg' = [avg EXCEPT ![ch] = Average(avg[ch], raw)] /\ peak' = peak /\ raw' = raw
        /\ ch' = ch /\ pc = "average" /\ pc' = "max"
    BY <1>2 DEF UpdateAverage
  <2>5. ASSUME NEW c \in Channels
        PROVE  InRange(c)' /\ Ordered(c)'
    <3>1. CASE c = ch
      <4>1. avg'[c] = Average(avg[ch], raw)
        BY <2>4, <3>1
      <4> HIDE DEF LevelInv
      <4>2. avg[ch] <= peak[ch] /\ avg[ch] \in 0..MaxLevel /\ peak[ch] \in 0..MaxLevel
        BY <2>4, <3>1 DEF LevelInv
      <4>3. QED
        BY <2>1, <2>2, <2>3, <2>4, <3>1, <4>1, <4>2, SMT
    <3>2. CASE c # ch
      BY <2>4, <3>2, SMT
    <3>3. QED
      BY <3>1, <3>2
  <2>6. avg' \in [Channels -> Int]
    BY <2>2, <2>4, SMT
  <2>7. QED
    BY <2>4, <2>5, <2>6
<1>3. CASE UpdatePeak
  <2>1. raw \in 0..MaxLevel
    BY RawBound
  <2>2. QED
    BY <2>1, <1>3, SMT DEF UpdatePeak
<1>4. CASE DecayPeak
  <2>1. avg[ch] <= peak[ch] /\ avg[ch] \in 0..MaxLevel /\ peak[ch] \in 0..MaxLevel
    BY <1>4, SMT DEF DecayPeak
  <2>2. /\ Decay(peak[ch], avg[ch]) \in Nat /\ avg[ch] <= Decay(peak[ch], avg[ch])
        /\ Decay(peak[ch], avg[ch]) <= peak[ch]
    BY <2>1, DecayBounds, SMT
  <2>3. Other(ch) \in Channels
    BY OtherChannel
  <2>4. avg' = avg /\ peak' = [peak EXCEPT ![ch] = Decay(peak[ch], avg[ch])] /\ raw' = raw
        /\ pc = "decay" /\ pc' = "sample" /\ ch' = Other(ch)
    BY <1>4 DEF DecayPeak
  <2> DEFINE d == Decay(peak[ch], avg[ch])
  <2> HIDE DEF d
  <2>5. QED
    BY <2>1, <2>2, <2>3, <2>4, SMT DEF d
<1>5. CASE Meter
  BY <1>5 DEF Meter, ReadAverage, ReadPeak, Draw, computeVars
<1>6. CASE UNCHANGED vars
  BY <1>6 DEF vars
<1>7. QED
  BY <1>1, <1>2, <1>3, <1>4, <1>5, <1>6 DEF Next, Compute

(* Spec => []LevelsOrdered: whatever the audio device delivers, and        *)
(* between any two steps of compute_audio_levels, levels stay within the   *)
(* range of the samples and a channel's average is above its peak only     *)
(* while the sample that raised it is being processed.                     *)
THEOREM LevelsAlwaysOrdered == Spec => []LevelsOrdered
<1>1. LevelInv => LevelsOrdered
  BY SMT DEF LevelInv, LevelsOrdered, InRange, Ordered
<1>2. QED
  BY <1>1, LevelInit, LevelStep, PTL DEF Spec

-----------------------------------------------------------------------------
(* NoInventedPeak: a peak rises only to the sample just heard, and a       *)
(* rising average does not pass it.                                        *)
THEOREM PeaksAreSamples == Spec => NoInventedPeak
<1> DEFINE Heard == \A c \in Channels :
                  /\ peak'[c] > peak[c] => c = ch /\ peak'[c] = raw
                  /\ avg'[c] > avg[c] => c = ch /\ avg'[c] <= raw
<1>1. LevelInv /\ [Next]_vars => [Heard]_vars
  <2> SUFFICES ASSUME LevelInv, Next, NEW c \in Channels
               PROVE  /\ peak'[c] > peak[c] => c = ch /\ peak'[c] = raw
                      /\ avg'[c] > avg[c] => c = ch /\ avg'[c] <= raw
    OBVIOUS
  <2> USE DEF LevelInv, InRange
  <2>0. raw \in Nat /\ avg[c] \in Nat /\ peak[c] \in Nat
    <3>1. raw \in 0..MaxLevel
      BY RawBound
    <3>2. QED
      BY <3>1, SMT
  <2>1. CASE Sample
    BY <2>0, <2>1, SMT DEF Sample
  <2>2. CASE UpdateAverage
    <3>1. Average(avg[c], raw) <= avg[c] \/ Average(avg[c], raw) <= raw
      BY <2>0, AverageBounds
    <3>2. Average(avg[c], raw) \in Nat
      BY <2>0, AverageBounds
    <3>3. peak' = peak /\ avg' = [avg EXCEPT ![ch] = Average(avg[ch], raw)]
      BY <2>2 DEF UpdateAverage
    <3>4. CASE c = ch
      <4>1. avg'[c] = Average(avg[c], raw)
        BY <3>3, <3>4
      <4>2. QED
        BY <2>0, <3>1, <3>2, <3>3, <3>4, <4>1, SMT
    <3>5. CASE c # ch
      BY <2>0, <3>3, <3>5, SMT
    <3>6. QED
      BY <3>4, <3>5
  <2>3. CASE UpdatePeak
    BY <2>0, <2>3, SMT DEF UpdatePeak
  <2>4. CASE DecayPeak
    <3>1. peak' = [peak EXCEPT ![ch] = Decay(peak[ch], avg[ch])] /\ avg' = avg
      BY <2>4 DEF DecayPeak
    <3>2. CASE c = ch
      <4>1. avg[c] <= peak[c]
        BY <2>4, <3>2 DEF DecayPeak, Ordered
      <4>2. Decay(peak[c], avg[c]) \in Nat /\ Decay(peak[c], avg[c]) <= peak[c]
        BY <2>0, <4>1, DecayBounds, SMT
      <4>3. peak'[c] = Decay(peak[c], avg[c])
        BY <3>1, <3>2
      <4>4. QED
        BY <2>0, <3>1, <4>2, <4>3, SMT
    <3>3. CASE c # ch
      BY <2>0, <3>1, <3>3, SMT
    <3>4. QED
      BY <3>2, <3>3
  <2>5. CASE Meter
    BY <2>0, <2>5, SMT DEF Meter, ReadAverage, ReadPeak, Draw, computeVars
  <2>6. QED
    BY <2>1, <2>2, <2>3, <2>4, <2>5 DEF Next, Compute
<1>2. QED
  BY <1>1, LevelInit, LevelStep, PTL DEF Spec, NoInventedPeak

-----------------------------------------------------------------------------
(* The audio chip *)

(* What is noted down is what the user wants.                              *)
Noted ==
  /\ gain["ALC1"] = set.alc_enable
  /\ gain["SIG1"] = A!Wanted("SIG1") /\ gain["SIG2"] = A!Wanted("SIG2")

(* How far an audio_configure has come in making it so.                    *)
Progress(t) ==
  /\ cpc[t] \in 1..3 => Noted
  /\ cpc[t] > 4 => reg["SIG1"][1] = 1
  /\ cpc[t] > 5 => reg["SIG2"][1] = set.lovl
  /\ cpc[t] = 7 => loc[t][1] = set.alc_enable
  /\ cpc[t] > 7 => gain["ALC1"] = set.alc_enable
  /\ cpc[t] > 9 => bits[t] = set.mgain
  /\ cpc[t] \in {11, 12} => loc[t] = A!Wanted("SIG1")
  /\ cpc[t] > 12 => gain["SIG1"] = A!Wanted("SIG1")
  /\ cpc[t] \in {14, 15} => loc[t] = A!Wanted("SIG2")
  /\ cpc[t] > 15 => gain["SIG2"] = A!Wanted("SIG2")

ChipTypes ==
  /\ user \in Users
  /\ cpc \in [A!Tasks -> 0..17]
  /\ reg = [r \in {"ALC1", "SIG1", "SIG2", "MODE3"} |-> reg[r]]
  /\ gain = [r \in {"ALC1", "SIG1", "SIG2"} |-> gain[r]]
  /\ loc = [t \in A!Tasks |-> loc[t]] /\ bits = [t \in A!Tasks |-> bits[t]]

(* As long as no audio_configure was raced, at most one is under way.      *)
ChipInv ==
  /\ ChipTypes
  /\ ~raced =>
       /\ \A t, u \in A!Tasks : cpc[t] # 0 /\ cpc[u] # 0 => t = u
       /\ (\A t \in A!Tasks : cpc[t] = 0) => Noted
       /\ \A t \in A!Tasks : Progress(t)

(* The accesses by their places in audio_configure.                        *)
LEMMA ScriptPlaces ==
  ASSUME NEW t \in A!Tasks, cpc[t] \in 0..17
  PROVE  /\ A!At(t, "check") => cpc[t] \in 1..3 /\ (A!Reg(t) = "SIG2" <=> cpc[t] = 3)
         /\ A!At(t, "base") => \/ cpc[t] = 4 /\ A!Reg(t) = "SIG1"
                               \/ cpc[t] = 5 /\ A!Reg(t) = "SIG2"
         /\ A!At(t, "choose") => cpc[t] = 6
         /\ A!At(t, "note") => cpc[t] = 7
         /\ A!At(t, "put") => cpc[t] = 8
         /\ A!At(t, "call") => cpc[t] = 9
         /\ A!At(t, "read") => \/ cpc[t] = 10 /\ A!Reg(t) = "SIG1"
                               \/ cpc[t] = 13 /\ A!Reg(t) = "SIG2"
         /\ A!At(t, "write") => \/ cpc[t] = 11 /\ A!Reg(t) = "SIG1"
                                \/ cpc[t] = 14 /\ A!Reg(t) = "SIG2"
         /\ A!At(t, "keep") => \/ cpc[t] = 12 /\ A!Reg(t) = "SIG1"
                               \/ cpc[t] = 15 /\ A!Reg(t) = "SIG2"
         /\ A!At(t, "load") => cpc[t] = 16
         /\ A!At(t, "store") => cpc[t] = 17
         /\ Len(A!Script) = 17
  BY DEF A!At, A!Reg, A!Script

(* A task that does nothing has come nowhere.                              *)
LEMMA IdleProgress == ASSUME NEW t, cpc[t] = 0 PROVE Progress(t)
  BY DEF Progress

(* The next access of the one audio_configure that is under way.           *)
LEMMA Onward ==
  ASSUME ChipInv, NEW t \in A!Tasks, cpc[t] # 0, NEW k \in 0..17,
         cpc' = [cpc EXCEPT ![t] = k], user' = user, raced' = raced, ChipTypes',
         ~raced => (k = 0 => Noted') /\ Progress(t)'
  PROVE  ChipInv'
<1>1. A!Tasks' = A!Tasks
  BY DEF A!Tasks
<1>2. /\ cpc'[t] = k
      /\ \A u \in A!Tasks : u # t => cpc'[u] = cpc[u]
  BY DEF ChipInv, ChipTypes
<1>3. SUFFICES ASSUME ~raced
               PROVE  /\ \A u, v \in A!Tasks : cpc'[u] # 0 /\ cpc'[v] # 0 => u = v
                      /\ (\A u \in A!Tasks : cpc'[u] = 0) => Noted'
                      /\ \A u \in A!Tasks : Progress(u)'
  BY <1>1 DEF ChipInv
<1>4. \A u \in A!Tasks : u # t => cpc'[u] = 0
  BY <1>2, <1>3 DEF ChipInv
<1>5. \A u \in A!Tasks : Progress(u)'
  <2>1. ASSUME NEW u \in A!Tasks, u # t PROVE Progress(u)'
    <3>1. cpc'[u] = 0
      BY <1>4, <2>1
    <3> QED BY <3>1 DEF Progress
  <2> QED BY <1>3, <2>1
<1> QED BY <1>2, <1>3, <1>4, <1>5

(* audio_configure, access by access.                                      *)
LEMMA ConfigureStep ==
  ASSUME ChipInv, NEW t \in A!Tasks, A!audio_configure(t) PROVE ChipInv'
<1> DEFINE i == cpc[t]
<1>1. set' = set /\ user' = user /\ raced' = raced
  BY DEF A!audio_configure
<1>2. A!Tasks' = A!Tasks
  BY <1>1 DEF A!Tasks
<1>3. /\ cpc \in [A!Tasks -> 0..17] /\ i \in 0..17 /\ user \in Users
      /\ reg = [r \in {"ALC1", "SIG1", "SIG2", "MODE3"} |-> reg[r]]
      /\ gain = [r \in {"ALC1", "SIG1", "SIG2"} |-> gain[r]]
      /\ loc = [u \in A!Tasks |-> loc[u]] /\ bits = [u \in A!Tasks |-> bits[u]]
  BY DEF ChipInv, ChipTypes
<1>4. ~raced => Progress(t)
  BY DEF ChipInv
<1>5. \A r : A!Wanted(r)' = A!Wanted(r)
  BY <1>1 DEF A!Wanted, A!Base, A!MgainBit
<1>6. A!Advance(t) => cpc' = [cpc EXCEPT ![t] = IF i = 17 THEN 0 ELSE i + 1]
  BY <1>3, ScriptPlaces DEF A!Advance
<1>7. \A k \in 0..17 : cpc' = [cpc EXCEPT ![t] = k] => cpc' \in [A!Tasks -> 0..17] /\ cpc'[t] = k
  BY <1>3
<1>8. /\ A!Base("SIG1")[1] = 1 /\ A!Base("SIG2")[1] = set.lovl
      /\ A!Wanted("SIG1")[1] = 1 /\ A!Wanted("SIG2")[1] = set.lovl
  BY DEF A!Base, A!Wanted
<1>9. CASE A!Check(t)
  <2>1. i \in 1..3 /\ (A!Reg(t) = "SIG2" <=> i = 3)
    BY <1>3, <1>9, ScriptPlaces DEF A!Check
  <2>2. /\ reg' = reg /\ gain' = gain /\ bits' = bits /\ loc' = loc
        /\ \E k \in {4, IF i = 3 THEN 0 ELSE i + 1} : cpc' = [cpc EXCEPT ![t] = k]
    BY <1>9, <2>1 DEF A!Check, A!Forced
  <2>3. PICK k \in {4, IF i = 3 THEN 0 ELSE i + 1} : cpc' = [cpc EXCEPT ![t] = k]
    BY <2>2
  <2>4. k \in 0..17 /\ k \in {0, 2, 3, 4}
    BY <2>1, <2>3
  <2>5. cpc' \in [A!Tasks -> 0..17] /\ cpc'[t] = k
    BY <1>7, <2>3, <2>4
  <2>6. ChipTypes'
    BY <1>1, <1>2, <1>3, <2>2, <2>5 DEF ChipTypes
  <2>7. ~raced => Noted'
    BY <1>1, <1>4, <1>5, <2>1, <2>2 DEF Noted, Progress
  <2>8. ~raced => Progress(t)'
    BY <2>4, <2>5, <2>7 DEF Progress
  <2>9. i # 0
    BY <2>1
  <2> HIDE DEF i
  <2> QED BY <1>1, <2>3, <2>4, <2>6, <2>7, <2>8, <2>9, Onward DEF i
<1>10. CASE A!WriteBase(t)
  <2>1. \/ i = 4 /\ A!Reg(t) = "SIG1"
        \/ i = 5 /\ A!Reg(t) = "SIG2"
    BY <1>3, <1>10, ScriptPlaces DEF A!WriteBase
  <2>2. /\ reg' = [reg EXCEPT ![A!Reg(t)] = A!Base(A!Reg(t))]
        /\ gain' = gain /\ bits' = bits /\ loc' = loc
    BY <1>6, <1>10, <2>1 DEF A!WriteBase
  <2>3. PICK k \in 0..17 : k = i + 1 /\ cpc' = [cpc EXCEPT ![t] = k]
    BY <1>6, <1>10, <2>1 DEF A!WriteBase
  <2>4. cpc' \in [A!Tasks -> 0..17] /\ cpc'[t] = k
    BY <1>7, <2>3
  <2>5. ChipTypes'
    BY <1>1, <1>2, <1>3, <2>2, <2>4 DEF ChipTypes
  <2>6. ~raced => Progress(t)'
    BY <1>1, <1>3, <1>4, <1>5, <1>8, <2>1, <2>2, <2>3, <2>4 DEF Progress
  <2>7. i # 0 /\ k # 0
    BY <2>1, <2>3
  <2> HIDE DEF i
  <2> QED BY <1>1, <2>3, <2>5, <2>6, <2>7, Onward DEF i
<1>11. CASE A!ChooseALC(t)
  <2>1. i = 6
    BY <1>3, <1>11, ScriptPlaces DEF A!ChooseALC
  <2>2. /\ loc' = [loc EXCEPT ![t] = <<set.alc_enable, 0>>]
        /\ reg' = reg /\ gain' = gain /\ bits' = bits
    BY <1>6, <1>11, <2>1 DEF A!ChooseALC
  <2>3. PICK k \in 0..17 : k = i + 1 /\ cpc' = [cpc EXCEPT ![t] = k]
    BY <1>6, <1>11, <2>1 DEF A!ChooseALC
  <2>4. cpc' \in [A!Tasks -> 0..17] /\ cpc'[t] = k
    BY <1>7, <2>3
  <2>5. ChipTypes'
    BY <1>1, <1>2, <1>3, <2>2, <2>4 DEF ChipTypes
  <2>6. ~raced => Progress(t)'
    BY <1>1, <1>3, <1>4, <1>5, <1>8, <2>1, <2>2, <2>3, <2>4 DEF Progress
  <2>7. i # 0 /\ k # 0
    BY <2>1, <2>3
  <2> HIDE DEF i
  <2> QED BY <1>1, <2>3, <2>5, <2>6, <2>7, Onward DEF i
<1>12. CASE A!PutALC(t)
  <2>1. i = 8
    BY <1>3, <1>12, ScriptPlaces DEF A!PutALC
  <2>2. /\ \E alc1 : reg' = [reg EXCEPT !["ALC1"] = alc1]
        /\ loc' = [loc EXCEPT ![t] = <<0, 0>>]
        /\ gain' = gain /\ bits' = bits
    BY <1>6, <1>12, <2>1 DEF A!PutALC
  <2>3. PICK k \in 0..17 : k = i + 1 /\ cpc' = [cpc EXCEPT ![t] = k]
    BY <1>6, <1>12, <2>1 DEF A!PutALC
  <2>4. cpc' \in [A!Tasks -> 0..17] /\ cpc'[t] = k
    BY <1>7, <2>3
  <2>5. ChipTypes'
    BY <1>1, <1>2, <1>3, <2>2, <2>4 DEF ChipTypes
  <2>6. ~raced => Progress(t)'
    BY <1>1, <1>3, <1>4, <1>5, <1>8, <2>1, <2>2, <2>3, <2>4 DEF Progress
  <2>7. i # 0 /\ k # 0
    BY <2>1, <2>3
  <2> HIDE DEF i
  <2> QED BY <1>1, <2>3, <2>5, <2>6, <2>7, Onward DEF i
<1>13. CASE A!CallMgain(t)
  <2>1. i = 9
    BY <1>3, <1>13, ScriptPlaces DEF A!CallMgain
  <2>2. /\ bits' = [bits EXCEPT ![t] = set.mgain]
        /\ reg' = reg /\ gain' = gain /\ loc' = loc
    BY <1>6, <1>13, <2>1 DEF A!CallMgain
  <2>3. PICK k \in 0..17 : k = i + 1 /\ cpc' = [cpc EXCEPT ![t] = k]
    BY <1>6, <1>13, <2>1 DEF A!CallMgain
  <2>4. cpc' \in [A!Tasks -> 0..17] /\ cpc'[t] = k
    BY <1>7, <2>3
  <2>5. ChipTypes'
    BY <1>1, <1>2, <1>3, <2>2, <2>4 DEF ChipTypes
  <2>6. ~raced => Progress(t)'
    BY <1>1, <1>3, <1>4, <1>5, <1>8, <2>1, <2>2, <2>3, <2>4 DEF Progress
  <2>7. i # 0 /\ k # 0
    BY <2>1, <2>3
  <2> HIDE DEF i
  <2> QED BY <1>1, <2>3, <2>5, <2>6, <2>7, Onward DEF i
<1>14. CASE A!Read(t)
  <2>1. \/ i = 10 /\ A!Reg(t) = "SIG1"
        \/ i = 13 /\ A!Reg(t) = "SIG2"
    BY <1>3, <1>14, ScriptPlaces DEF A!Read
  <2>2. /\ loc' = [loc EXCEPT ![t] = <<reg[A!Reg(t)][1], A!MgainBit(bits[t], A!Reg(t))>>]
        /\ reg' = reg /\ gain' = gain /\ bits' = bits
    BY <1>6, <1>14, <2>1 DEF A!Read
  <2>3. PICK k \in 0..17 : k = i + 1 /\ cpc' = [cpc EXCEPT ![t] = k]
    BY <1>6, <1>14, <2>1 DEF A!Read
  <2>4. cpc' \in [A!Tasks -> 0..17] /\ cpc'[t] = k
    BY <1>7, <2>3
  <2>5. ChipTypes'
    BY <1>1, <1>2, <1>3, <2>2, <2>4 DEF ChipTypes
  <2>6. ~raced => Progress(t)'
    <3>1. ~raced => /\ reg["SIG1"][1] = 1 /\ reg["SIG2"][1] = set.lovl
                    /\ gain["ALC1"] = set.alc_enable /\ bits[t] = set.mgain
                    /\ i = 13 => gain["SIG1"] = A!Wanted("SIG1")
      BY <1>4, <2>1 DEF Progress
    <3>2. loc'[t] = <<reg[A!Reg(t)][1], A!MgainBit(bits[t], A!Reg(t))>>
      BY <1>3, <2>2
    <3>3. ~raced => loc'[t] = A!Wanted(A!Reg(t))
      BY <1>8, <2>1, <3>1, <3>2 DEF A!Wanted
    <3> QED BY <1>1, <1>5, <2>1, <2>2, <2>3, <2>4, <3>1, <3>3 DEF Progress
  <2>7. i # 0 /\ k # 0
    BY <2>1, <2>3
  <2> HIDE DEF i
  <2> QED BY <1>1, <2>3, <2>5, <2>6, <2>7, Onward DEF i
<1>15. CASE A!Write(t)
  <2>1. \/ i = 11 /\ A!Reg(t) = "SIG1"
        \/ i = 14 /\ A!Reg(t) = "SIG2"
    BY <1>3, <1>15, ScriptPlaces DEF A!Write
  <2>2. /\ reg' = [reg EXCEPT ![A!Reg(t)] = loc[t]]
        /\ gain' = gain /\ bits' = bits /\ loc' = loc
    BY <1>6, <1>15, <2>1 DEF A!Write
  <2>3. PICK k \in 0..17 : k = i + 1 /\ cpc' = [cpc EXCEPT ![t] = k]
    BY <1>6, <1>15, <2>1 DEF A!Write
  <2>4. cpc' \in [A!Tasks -> 0..17] /\ cpc'[t] = k
    BY <1>7, <2>3
  <2>5. ChipTypes'
    BY <1>1, <1>2, <1>3, <2>2, <2>4 DEF ChipTypes
  <2>6. ~raced => Progress(t)'
    <3>1. CASE i = 11
      <4>1. ~raced => loc[t] = A!Wanted("SIG1")
        BY <1>4, <3>1 DEF Progress
      <4>2. reg'["SIG1"] = loc[t] /\ k = 12
        BY <1>3, <2>1, <2>2, <2>3, <3>1
      <4>3. ~raced => /\ reg["SIG2"][1] = set.lovl /\ gain["ALC1"] = set.alc_enable
                      /\ bits[t] = set.mgain
        BY <1>4, <3>1 DEF Progress
      <4>4. ~raced => reg'["SIG1"][1] = 1
        BY <1>8, <4>1, <4>2
      <4>5. reg'["SIG2"] = reg["SIG2"]
        BY <1>3, <2>1, <2>2, <3>1
      <4> QED BY <1>1, <1>5, <2>2, <2>4, <4>1, <4>2, <4>3, <4>4, <4>5 DEF Progress
    <3>2. CASE i = 14
      <4>1. ~raced => loc[t] = A!Wanted("SIG2")
        BY <1>4, <3>2 DEF Progress
      <4>2. reg'["SIG2"] = loc[t] /\ reg'["SIG1"] = reg["SIG1"] /\ k = 15
        BY <1>3, <2>1, <2>2, <2>3, <3>2
      <4>3. ~raced => /\ reg["SIG1"][1] = 1 /\ gain["ALC1"] = set.alc_enable
                      /\ bits[t] = set.mgain /\ gain["SIG1"] = A!Wanted("SIG1")
        BY <1>4, <3>2 DEF Progress
      <4>4. ~raced => reg'["SIG2"][1] = set.lovl
        BY <1>8, <4>1, <4>2
      <4> QED BY <1>1, <1>5, <2>2, <2>4, <4>1, <4>2, <4>3, <4>4 DEF Progress
    <3> QED BY <2>1, <3>1, <3>2
  <2>7. i # 0 /\ k # 0
    BY <2>1, <2>3
  <2> HIDE DEF i
  <2> QED BY <1>1, <2>3, <2>5, <2>6, <2>7, Onward DEF i
<1>16. CASE A!Keep(t)
  <2>1. \/ i = 12 /\ A!Reg(t) = "SIG1"
        \/ i = 15 /\ A!Reg(t) = "SIG2"
    BY <1>3, <1>16, ScriptPlaces DEF A!Keep
  <2>2. /\ gain' = [gain EXCEPT ![A!Reg(t)] = loc[t]]
        /\ reg' = reg /\ bits' = bits /\ loc' = loc
    BY <1>6, <1>16, <2>1 DEF A!Keep
  <2>3. PICK k \in 0..17 : k = i + 1 /\ cpc' = [cpc EXCEPT ![t] = k]
    BY <1>6, <1>16, <2>1 DEF A!Keep
  <2>4. cpc' \in [A!Tasks -> 0..17] /\ cpc'[t] = k
    BY <1>7, <2>3
  <2>5. ChipTypes'
    BY <1>1, <1>2, <1>3, <2>2, <2>4 DEF ChipTypes
  <2>6. ~raced => Progress(t)'
    BY <1>1, <1>3, <1>4, <1>5, <1>8, <2>1, <2>2, <2>3, <2>4 DEF Progress
  <2>7. i # 0 /\ k # 0
    BY <2>1, <2>3
  <2> HIDE DEF i
  <2> QED BY <1>1, <2>3, <2>5, <2>6, <2>7, Onward DEF i
<1>17. CASE A!Load(t)
  <2>1. i = 16
    BY <1>3, <1>17, ScriptPlaces DEF A!Load
  <2>2. /\ loc' = [loc EXCEPT ![t] = <<set.loopback, 0>>]
        /\ reg' = reg /\ gain' = gain /\ bits' = bits
    BY <1>6, <1>17, <2>1 DEF A!Load
  <2>3. PICK k \in 0..17 : k = i + 1 /\ cpc' = [cpc EXCEPT ![t] = k]
    BY <1>6, <1>17, <2>1 DEF A!Load
  <2>4. cpc' \in [A!Tasks -> 0..17] /\ cpc'[t] = k
    BY <1>7, <2>3
  <2>5. ChipTypes'
    BY <1>1, <1>2, <1>3, <2>2, <2>4 DEF ChipTypes
  <2>6. ~raced => Progress(t)'
    BY <1>1, <1>3, <1>4, <1>5, <1>8, <2>1, <2>2, <2>3, <2>4 DEF Progress
  <2>7. i # 0 /\ k # 0
    BY <2>1, <2>3
  <2> HIDE DEF i
  <2> QED BY <1>1, <2>3, <2>5, <2>6, <2>7, Onward DEF i
<1>18. CASE A!Store(t)
  <2>1. i = 17
    BY <1>3, <1>18, ScriptPlaces DEF A!Store
  <2>2. /\ reg' = [reg EXCEPT !["MODE3"] = loc[t][1]]
        /\ loc' = [loc EXCEPT ![t] = <<0, 0>>] /\ bits' = [bits EXCEPT ![t] = 0]
        /\ gain' = gain
    BY <1>6, <1>18, <2>1 DEF A!Store
  <2>3. PICK k \in 0..17 : k = 0 /\ cpc' = [cpc EXCEPT ![t] = k]
    BY <1>6, <1>18, <2>1 DEF A!Store
  <2>4. cpc' \in [A!Tasks -> 0..17] /\ cpc'[t] = k
    BY <1>7, <2>3
  <2>5. ChipTypes'
    BY <1>1, <1>2, <1>3, <2>2, <2>4 DEF ChipTypes
  <2>6. ~raced => Progress(t)'
    BY <1>1, <1>3, <1>4, <1>5, <1>8, <2>1, <2>2, <2>3, <2>4 DEF Progress
  <2>7. ~raced => Noted'
    BY <1>1, <1>4, <1>5, <2>1, <2>2 DEF Noted, Progress
  <2>8. i # 0
    BY <2>1
  <2> HIDE DEF i
  <2> QED BY <1>1, <2>3, <2>5, <2>6, <2>7, <2>8, Onward DEF i
<1>19. CASE A!NoteALC(t)
  <2>1. i = 7
    BY <1>3, <1>19, ScriptPlaces DEF A!NoteALC
  <2>2. /\ gain' = [gain EXCEPT !["ALC1"] = loc[t][1]]
        /\ reg' = reg /\ bits' = bits /\ loc' = loc
    BY <1>6, <1>19, <2>1 DEF A!NoteALC
  <2>3. PICK k \in 0..17 : k = i + 1 /\ cpc' = [cpc EXCEPT ![t] = k]
    BY <1>6, <1>19, <2>1 DEF A!NoteALC
  <2>4. cpc' \in [A!Tasks -> 0..17] /\ cpc'[t] = k
    BY <1>7, <2>3
  <2>5. ChipTypes'
    BY <1>1, <1>2, <1>3, <2>2, <2>4 DEF ChipTypes
  <2>6. ~raced => Progress(t)'
    BY <1>1, <1>3, <1>4, <1>5, <1>8, <2>1, <2>2, <2>3, <2>4 DEF Progress
  <2>7. i # 0 /\ k # 0
    BY <2>1, <2>3
  <2> HIDE DEF i
  <2> QED BY <1>1, <2>3, <2>5, <2>6, <2>7, Onward DEF i
<1> QED BY <1>9, <1>10, <1>11, <1>12, <1>13, <1>14, <1>15, <1>16, <1>17, <1>18, <1>19
  DEF A!audio_configure

(* A call finds no other under way, or is raced.                           *)
LEMMA CallStep ==
  ASSUME ChipInv, NEW t \in A!Tasks, NEW start \in {1, 4}, A!Call(t, start),
         reg' = reg, gain' = gain, user' = user, bits' = bits, loc' = loc,
         start = 1 => set' = set
  PROVE  ChipInv'
<1>1. A!Tasks' = A!Tasks
  BY DEF A!Tasks
<1>2. /\ cpc[t] = 0 /\ cpc' = [cpc EXCEPT ![t] = start]
      /\ raced' = (raced \/ \E u \in A!Tasks \ {t} : cpc[u] # 0)
  BY DEF A!Call, A!Idle
<1>3. ChipTypes'
  BY <1>1, <1>2 DEF ChipInv, ChipTypes
<1>4. /\ cpc'[t] = start
      /\ \A u \in A!Tasks : u # t => cpc'[u] = cpc[u]
  BY <1>2 DEF ChipInv, ChipTypes
<1>5. SUFFICES ASSUME ~raced'
               PROVE  /\ \A u, v \in A!Tasks : cpc'[u] # 0 /\ cpc'[v] # 0 => u = v
                      /\ (\A u \in A!Tasks : cpc'[u] = 0) => Noted'
                      /\ \A u \in A!Tasks : Progress(u)'
  BY <1>1, <1>3 DEF ChipInv
<1>6. ~raced /\ \A u \in A!Tasks : cpc[u] = 0
  BY <1>2, <1>5
<1>7. Noted
  BY <1>6 DEF ChipInv
<1>8. ASSUME NEW u \in A!Tasks PROVE Progress(u)'
  <2>1. CASE u = t /\ start = 1
    <3>1. Noted'
      BY <1>7, <2>1 DEF Noted, A!Wanted, A!Base, A!MgainBit
    <3> QED BY <1>4, <2>1, <3>1 DEF Progress
  <2>2. CASE u = t /\ start = 4
    BY <1>4, <2>2 DEF Progress
  <2>3. CASE u # t
    <3>1. cpc'[u] = 0
      BY <1>4, <1>6, <2>3
    <3> QED BY <3>1 DEF Progress
  <2> QED BY <2>1, <2>2, <2>3
<1> QED BY <1>4, <1>6, <1>8

(* What touches neither a setting nor a call leaves the invariant.         *)
LEMMA ChipUnchanged ==
  ASSUME ChipInv, cpc' = cpc, gain' = gain, set' = set, user' = user, bits' = bits, loc' = loc,
         reg' = reg, raced' = raced
  PROVE  ChipInv'
<1>1. A!Tasks' = A!Tasks
  BY DEF A!Tasks
<1>2. ChipTypes'
  BY <1>1 DEF ChipInv, ChipTypes
<1>3. Noted' = Noted /\ \A t : Progress(t)' = Progress(t)
  BY DEF Progress, Noted, A!Wanted, A!Base, A!MgainBit
<1> QED BY <1>1, <1>2, <1>3 DEF ChipInv

(* Canon changes a register: nobody was under way, or he is raced.         *)
LEMMA CanonStep == ASSUME ChipInv, NEW r \in Resets, A!Canon(r) PROVE ChipInv'
<1>1. /\ gain' = gain /\ set' = set /\ user' = user /\ cpc' = cpc /\ bits' = bits /\ loc' = loc
      /\ raced' = (raced \/ \E t \in A!Tasks : cpc[t] # 0)
      /\ \E x : reg' = [reg EXCEPT ![r] = x]
  BY DEF A!Canon
<1>2. A!Tasks' = A!Tasks
  BY <1>1 DEF A!Tasks
<1>3. ChipTypes'
  BY <1>1, <1>2 DEF ChipInv, ChipTypes
<1>4. SUFFICES ASSUME ~raced'
               PROVE  /\ \A u, v \in A!Tasks : cpc'[u] # 0 /\ cpc'[v] # 0 => u = v
                      /\ (\A u \in A!Tasks : cpc'[u] = 0) => Noted'
                      /\ \A u \in A!Tasks : Progress(u)'
  BY <1>2, <1>3 DEF ChipInv
<1>5. ~raced /\ \A u \in A!Tasks : cpc[u] = 0
  BY <1>1, <1>4
<1>6. Noted'
  BY <1>1, <1>5 DEF ChipInv, Noted, A!Wanted, A!Base, A!MgainBit
<1>7. ASSUME NEW u \in A!Tasks PROVE Progress(u)'
  <2>1. cpc'[u] = 0
    BY <1>1, <1>5
  <2> QED BY <2>1 DEF Progress
<1> QED BY <1>1, <1>5, <1>6, <1>7

(* At the start nothing is noted down yet, but a call is under way.        *)
LEMMA ChipInit == LiveInit => ChipInv
<1> SUFFICES ASSUME A!Init PROVE ChipInv
  BY DEF LiveInit
<1>1. /\ user \in Users /\ cpc = [t \in A!Tasks |-> IF t = "sound" THEN 4 ELSE 0]
      /\ bits = [t \in A!Tasks |-> 0] /\ loc = [t \in A!Tasks |-> <<0, 0>>]
      /\ reg = [ALC1 |-> 1, SIG1 |-> <<0, 0>>, SIG2 |-> <<0, 0>>, MODE3 |-> 0]
      /\ gain = [ALC1 |-> 0, SIG1 |-> <<0, 0>>, SIG2 |-> <<0, 0>>]
  BY DEF A!Init, A!Forced
<1>2. ChipTypes
  BY <1>1 DEF ChipTypes
<1>3. "sound" \in A!Tasks /\ cpc["sound"] = 4
  BY <1>1 DEF A!Tasks
<1>4. ASSUME NEW t \in A!Tasks PROVE Progress(t)
  <2>1. cpc[t] \in {0, 4}
    BY <1>1
  <2> QED BY <2>1 DEF Progress
<1>5. \A t, u \in A!Tasks : cpc[t] # 0 /\ cpc[u] # 0 => t = u
  BY <1>1
<1> QED BY <1>2, <1>3, <1>4, <1>5 DEF ChipInv

(* Every step keeps it.                                                    *)
LEMMA ChipStepKeeps == ChipInv /\ [LiveNext]_all => ChipInv'
<1> SUFFICES ASSUME ChipInv, [LiveNext]_all PROVE ChipInv'
  OBVIOUS
<1>1. CASE UNCHANGED chip
  BY <1>1, ChipUnchanged DEF chip
<1>2. CASE Chip(A!Next)
  <2>1. "sound" \in A!Tasks /\ \A t \in user.callers : t \in A!Tasks
    BY DEF A!Tasks
  <2>2. CASE \E t \in A!Tasks : A!audio_configure(t)
    BY <2>2, ConfigureStep
  <2>3. CASE A!SoundForce
    BY <2>1, <2>3, CallStep DEF A!SoundForce, A!Forced
  <2>4. CASE A!SoundPoll
    BY <2>1, <2>4, CallStep DEF A!SoundPoll, A!Unforced
  <2>5. CASE \E s \in user.toggles : A!Toggle(s)
    BY <2>1, <2>5, CallStep DEF A!Toggle, A!Forced
  <2>6. CASE A!enable_meters
    BY <2>1, <2>6, CallStep DEF A!enable_meters, A!Forced
  <2>7. CASE \E r \in Resets : A!Canon(r)
    BY <2>7, CanonStep
  <2>8. CASE A!enable_recording \/ A!BeQuiet \/ A!Shutdown
    BY <2>8, ChipUnchanged DEF A!enable_recording, A!BeQuiet, A!Shutdown
  <2> QED BY <1>2, <2>1, <2>2, <2>3, <2>4, <2>5, <2>6, <2>7, <2>8 DEF Chip, A!Next, A!Sound
<1> QED BY <1>1, <1>2 DEF LiveNext, Meters, Display, all

(* What is noted down of the chip is what was wanted, unless two           *)
(* audio_configure met or Canon came between: for whatever registers Canon *)
(* changes and whatever the user does.                                     *)
THEOREM NotesAreWanted == LiveSpec => []NotedIsWanted
<1>1. ChipInv => NotedIsWanted
  BY DEF ChipInv, Noted, NotedIsWanted, A!NotedIsWanted, A!Idle
<1> QED BY <1>1, ChipInit, ChipStepKeeps, PTL DEF LiveSpec

-----------------------------------------------------------------------------
(* The overlays *)

(* What zebra_task may have written since the menu was opened, wherever it *)
(* is now: the tests of gui_menu_task lie before each pair, but none after *)
(* the last.                                                               *)
Written ==
  /\ stray \in Nat \X Nat \X Nat
  /\ gui_menu_task =>
       /\ zpc = "write" => stray = <<0, 0, 0>>
       /\ zpc \in {"size", "dma", "read", "signature", "offset", "malloc", "copy", "free", "start"}
            => stray = <<0, 0, 0>>
       /\ stray[1] <= 1 /\ stray[2] <= 2 /\ stray[3] <= 1
       /\ zpc \in {"test", "hist"} => stray[2] = 0
       /\ zpc = "waveform" => stray[2] <= 1
       /\ stray[3] > 0 => stray[1] = 0 /\ stray[2] = 0 /\ zpc \in {"task", "sleep", "end"}

(* What bmp_load has allocated, wherever it is now.                        *)
Memory ==
  /\ zpc \in {"size", "dma"} => buffers = [dma |-> 0, heap |-> 0] /\ ~cropmarks
  /\ zpc \in {"read", "signature", "offset", "malloc", "free"} =>
       buffers = [dma |-> 1, heap |-> 0] /\ ~cropmarks
  /\ zpc = "copy" => buffers = [dma |-> 1, heap |-> 1] /\ ~cropmarks
  /\ zpc \in {"start", "task", "sleep", "test", "write", "hist", "waveform", "end"} =>
       buffers = [dma |-> 0, heap |-> IF cropmarks THEN 1 ELSE 0]
  /\ zpc \in {"size", "dma", "read", "signature", "offset", "malloc", "copy", "free",
              "start", "task", "sleep", "test", "write", "hist", "waveform", "end"}
  /\ cropmarks \in BOOLEAN

ScreenInv == Written /\ Memory

-----------------------------------------------------------------------------
(* Nothing is written and nothing allocated at first. *)
LEMMA InitYields == OvInit => ScreenInv
<1> SUFFICES ASSUME OvInit PROVE ScreenInv
  OBVIOUS
<1>1. /\ zpc = "size" /\ stray = <<0, 0, 0>> /\ buffers = [dma |-> 0, heap |-> 0]
      /\ cropmarks = FALSE /\ gui_menu_task = FALSE
  BY DEF OvInit
<1>2. Written
  BY <1>1 DEF Written
<1>3. Memory
  BY <1>1 DEF Memory
<1> QED BY <1>2, <1>3 DEF ScreenInv

(* bmp_load writes nothing on the screen. *)
LEMMA LoadStepYields == ScreenInv /\ bmp_load => ScreenInv'
<1> SUFFICES ASSUME ScreenInv, bmp_load PROVE ScreenInv'
  OBVIOUS
<1> USE DEF ScreenInv, LoadStep, Rest
<1>1. CASE FileSize   BY <1>1 DEF FileSize, Written, Memory
<1>2. CASE DmaMemory  BY <1>2 DEF DmaMemory, Written, Memory
<1>3. CASE read_file  BY <1>3 DEF read_file, Written, Memory
<1>4. CASE Signature  BY <1>4 DEF Signature, Written, Memory
<1>5. CASE Offset     BY <1>5 DEF Offset, Written, Memory
<1>6. CASE Malloc     BY <1>6 DEF Malloc, Written, Memory
<1>7. CASE FreeDma
  <2>1. /\ zpc' = "start" /\ buffers' = [buffers EXCEPT !.dma = 0]
        /\ UNCHANGED <<gui_menu_task, stray>>
    BY <1>7 DEF FreeDma, Goto
  <2>2. CASE zpc = "copy"
    <3>1. cropmarks' = TRUE
      BY <1>7, <2>2 DEF FreeDma
    <3> QED BY <2>1, <2>2, <3>1 DEF Written, Memory
  <2>3. CASE zpc = "free"
    <3>1. cropmarks' = FALSE
      BY <1>7, <2>3 DEF FreeDma
    <3>2. buffers' = [dma |-> 0, heap |-> 0]
      BY <2>1, <2>3 DEF Memory
    <3>3. Written'
      BY <2>1, <2>3 DEF Written
    <3>4. ~cropmarks' /\ cropmarks' \in BOOLEAN
      BY <3>1
    <3>5. buffers' = [dma |-> 0, heap |-> IF cropmarks' THEN 1 ELSE 0]
      BY <3>2, <3>4, Zenon
    <3>6. Memory'
      BY <2>1, <3>4, <3>5 DEF Memory
    <3> QED BY <3>3, <3>6
  <2> QED BY <1>7, <2>2, <2>3 DEF FreeDma
<1> QED BY <1>1, <1>2, <1>3, <1>4, <1>5, <1>6, <1>7 DEF bmp_load

(* A box drawn from "hist" or "waveform" is one more over the menu. *)
LEMMA BoxYields ==
  ASSUME ScreenInv, NEW o, NEW box, NEW next, DrawBox(o, box, next),
         \/ zpc = "hist" /\ next = "waveform"
         \/ zpc = "waveform" /\ next = "sleep"
  PROVE  ScreenInv'
<1>1. CASE draw[o]   BY <1>1 DEF ScreenInv, Written, Memory, DrawBox, Goto, Stray, loaded
<1>2. CASE ~draw[o]  BY <1>2 DEF ScreenInv, Written, Memory, DrawBox, Goto, Stray, loaded
<1> QED BY <1>1, <1>2

LEMMA HistYields == ScreenInv /\ hist_draw_image => ScreenInv'
<1> SUFFICES ASSUME ScreenInv, hist_draw_image PROVE ScreenInv'
  OBVIOUS
<1>1. zpc = "hist" /\ DrawBox("hist", HistBox, "waveform")
  BY DEF hist_draw_image
<1> QED BY <1>1, BoxYields

LEMMA WaveformYields == ScreenInv /\ waveform_draw_image => ScreenInv'
<1> SUFFICES ASSUME ScreenInv, waveform_draw_image PROVE ScreenInv'
  OBVIOUS
<1>1. zpc = "waveform" /\ DrawBox("waveform", WaveBox, "sleep")
  BY DEF waveform_draw_image
<1> QED BY <1>1, BoxYields

(* zebra_task *)
LEMMA ZebraYields == ScreenInv /\ Zebra => ScreenInv'
<1> SUFFICES ASSUME ScreenInv, Zebra PROVE ScreenInv'
  OBVIOUS
<1> USE DEF ScreenInv, Goto, loaded
<1>1. CASE bmp_load  BY <1>1, LoadStepYields
<1>2. CASE Start
  BY <1>2 DEF Start, Rest, Stray, Written, Memory
<1>3. CASE zebra_task
  <2>1. Written'
    BY <1>3 DEF zebra_task, Written
  <2>2. Memory'
    BY <1>3 DEF zebra_task, Memory
  <2> QED BY <2>1, <2>2
<1>4. CASE msleep
  BY <1>4 DEF msleep, Written, Memory
<1>5. CASE Test
  BY <1>5 DEF Test, Written, Memory
<1>6. CASE Write
  <2>1. stray' \in {stray, <<stray[1] + 1, stray[2], stray[3]>>} /\ zpc = "write" /\ zpc' \in {"test", "hist"}
    BY <1>6 DEF Write, Stray, Written
  <2>2. UNCHANGED <<gui_menu_task, cropmarks, buffers>>
    BY <1>6 DEF Write
  <2> QED BY <2>1, <2>2 DEF Written, Memory
<1>7. CASE hist_draw_image
  BY <1>7, HistYields
<1>8. CASE waveform_draw_image
  BY <1>8, WaveformYields
<1> QED BY <1>1, <1>2, <1>3, <1>4, <1>5, <1>6, <1>7, <1>8 DEF Zebra

(* The menu and the property handlers; an open menu is counted anew. *)
LEMMA OthersYield ==
  /\ ScreenInv
  /\ \/ Gui \/ OpenMenu \/ gui_stop_menu \/ menu_binary_toggle \/ Shutdown
     \/ (\E b \in BOOLEAN : PropLvDrawn(b)) \/ UNCHANGED ovars
  => ScreenInv'
  BY DEF ScreenInv, Written, Memory, Gui, menu_handler, ClearMenu, OpenMenu, gui_stop_menu,
         menu_binary_toggle, Shutdown, PropLvDrawn, ovars, loaded

(* zebra_task gives way to the menu within one pair of pixels and two      *)
(* boxes, or clears the screen under it once, and no failure of bmp_load   *)
(* leaves memory behind.                                                   *)
THEOREM OverlaysGiveWay == OvSpec => []OverlaysYield
<1>1. OvInit => ScreenInv
  BY InitYields
<1>2. ScreenInv /\ [OvNext]_ovars => ScreenInv'
  BY ZebraYields, OthersYield DEF OvNext
<1>3. ScreenInv => OverlaysYield
  BY DEF ScreenInv, Written, Memory, OverlaysYield, FewStrayPixels, LoadKeepsOne
<1> QED BY <1>1, <1>2, <1>3, PTL DEF OvSpec
=============================================================================
