----------------------------- MODULE MCLiveView -----------------------------
(***************************************************************************)
(* Live View: the audio meters (AudioLevels), the audio chip (AudioConfig),*)
(* and the overlays with what is computed for the screen (Pixels, Lens).   *)
(* They share no state: one of them runs, the others stay as they started. *)
(***************************************************************************)
EXTENDS AudioLevels, Overlays, Pixels, Lens

CONSTANTS Resets, Users   (* of AudioConfig                                *)

VARIABLES
  running,                                           (* which of them      *)
  probe,                                           (* what of the screen *)
  reg, gain, set, user, gain_sem, cpc, bits, loc, cshut, quiet, raced

(* The screen: zebra_task among the others, and, each on inputs of its own,*)
(* what lens.c, bmp.c and zebra.c compute for it.  probe says which of the *)
(* two is explored; the other rests in its initial state.                  *)
mvars == <<ovars, probe>>

(* Fonts as in the ROM: with a space, which a newline takes its height of. *)
Fonts == {
  [magic |-> m, bitmap_size |-> 9, width |-> [g \in {0, 3, 9} |-> g + 1],
   tall |-> [g \in {0, 3, 9} |-> 1 + (g % 2)],
   charmap |-> cm, offsets |-> << 0, 3, 9, 12 >>] :
     m \in BOOLEAN, cm \in { << 32, 33, 34, 97 >>, << 32, 34, 33, 35 >>, << 33, 32, 97, 33 >> } }

Texts == UNION { [1..n -> {10, 32, 33, 34, 97, 120}] : n \in 0..4 }

Diffs  == {0, 1, 2048, 4095, 4096, 32767, 32768, 32769, 50000, 65535}
Row(a, b, c) == << a, b, c >>

Pictures == [1..6 -> {<<0, 1>>, <<2, 3>>, <<7, 6>>, <<10, 11>>, <<15, 15>>}]

Kinds == {"fill", "text", "edge", "histogram", "spot", "tables", "distance", "dof"}

Inputs(k) ==
  CASE k = "fill"      -> (0..20) \X (0..9) \X (0..22) \X (0..9)
    [] k = "text"      -> Fonts \X Texts
    [] k = "edge"      -> { << Row(0, a, b), Row(c, d, 0) >> : a, b, c, d \in Diffs }
                          \cup { << Row(a, b, 65535), Row(c, 0, d) >> : a, b, c, d \in Diffs }
    [] k = "histogram" -> { << p >> : p \in Pictures }
    [] k = "spot"      -> { << pic, w, h, dx >> : pic \in [0..4 -> {0, 7, 15}], w, h \in {4, 5}, dx \in 0..3 }
    [] k = "tables"    -> { << Apertures >>, << Shutters >>, << Isos >> }
    [] k = "distance"  -> { << 37 * n >> : n \in 0..10000 } \cup { << n >> : n \in 990..1010 }
    [] k = "dof"       -> { << fl, ap, dist >> : fl \in {0, 17, 24, 35, 50}, ap \in {0, 12, 28, 56, 110, 220},
                            dist \in {0, 1, 45, 100, 300, 999, 1005, 3078} }

PictureOf(pic) == [y \in 0..9, x \in 0..9 |-> pic[(3 * y + x) % 5]]

DisplayInit == OvInit /\ probe \in {<<"overlays">>, <<"numbers">>}

Overlay(A) == probe = <<"overlays">> /\ A /\ UNCHANGED probe

DisplayNext ==
  \/ Overlay(OvNext)
  \/ /\ probe = <<"numbers">> /\ \E k \in Kinds : probe' = <<"kind", k>>
     /\ UNCHANGED ovars
  \/ /\ probe[1] = "kind" /\ \E i \in Inputs(probe[2]) : probe' = <<probe[2], i>>
     /\ UNCHANGED ovars

Is(k) == probe[1] = k /\ k \in Kinds

(* bmp_fill writes nothing outside the box it is given and leaves little   *)
(* of it out; bmp_puts draws each character the font has, once and in its  *)
(* place, whichever of the two lookups finds it.                           *)
DrawsInside ==
  /\ Is("fill") => LET i == probe[2] IN FillsTheBox(i[1], i[2], i[3], i[4])
  /\ Is("text") => TextIsDrawn(probe[2][1], 3, 5, probe[2][2])

(* The edge detector sees the edges of the picture and no others, though   *)
(* its absolute values are off for large differences; the histogram and    *)
(* the spot meter show the levels that are there.                          *)
MeasuresAgree ==
  /\ Is("edge") => EdgesAreEdges(probe[2][1], probe[2][2])
  /\ Is("histogram") => HistogramFills(probe[2][1])
  /\ Is("spot") => LET i == probe[2] IN SpotIsInside(PictureOf(i[1]), i[2], i[3], i[4])

(* The exposure tables, the format of distances and the depth of field say *)
(* what the lens is set to.                                                *)
LensShown ==
  /\ Is("tables") => TableReads(probe[2][1])
  /\ Is("distance") => Says(probe[2][1])
  /\ Is("dof") => LET i == probe[2] IN Brackets(i[1], i[2], i[3])

-----------------------------------------------------------------------------
(* A user who goes in and out of Live View, and one who switches the       *)
(* automatic gain control in the menu.                                     *)
LiveView == [callers |-> {"prop"}, toggles |-> {}]
InMenu   == [callers |-> {"gui"}, toggles |-> {"alc_enable"}]
SomeUsers == {LiveView, InMenu}

A == INSTANCE AudioConfig WITH pc <- cpc, shutdown_requested <- cshut

ASSUME LiveViewAssumption == A!ConfigAssumption

(* The table of the meters makes a step every 2 units.                     *)
SmallThresholds == [d \in 1..40 |-> (42 - d) \div 2]

-----------------------------------------------------------------------------
chip == <<reg, gain, set, user, gain_sem, cpc, bits, loc, cshut, quiet, raced>>
all  == <<running, vars, mvars, chip>>

Pinned(which, fixed) == IF running = which THEN TRUE ELSE fixed

LiveInit ==
  /\ running \in {"meters", "chip", "display"}
  /\ Pinned("chip", user = LiveView) /\ Pinned("display", probe = <<"numbers">>)
  /\ Init /\ A!Init /\ DisplayInit

Meters(B)  == running = "meters" /\ B /\ UNCHANGED <<running, mvars, chip>>
Chip(B)    == running = "chip" /\ B /\ UNCHANGED <<running, vars, mvars>>
Display(B) == running = "display" /\ B /\ UNCHANGED <<running, vars, chip>>

LiveNext == Meters(Next) \/ Chip(A!Next) \/ Display(DisplayNext)

(* The fairness of each. *)
LiveSpec ==
  /\ LiveInit /\ [][LiveNext]_all
  /\ WF_vars(Meters(Compute)) /\ WF_vars(Meters(Meter))
  /\ WF_chip(Chip(A!Sound))
  /\ \A t \in {"gui", "prop"} : WF_chip(Chip(t \in user.callers /\ A!audio_configure(t)))
  /\ WF_mvars(Display(Overlay(Zebra))) /\ WF_mvars(Display(Overlay(Gui)))

-----------------------------------------------------------------------------
(* The chip has the user's settings in the end (AudioConfig).              *)
SoundSettles == A!SoundSettles

(* What is noted down of the chip is what was wanted (AudioConfig).        *)
NotedIsWanted == running = "chip" => A!NotedIsWanted

(* What is computed for the screen is right: Pixels and Lens.              *)
PictureIsRight == running = "display" => DrawsInside /\ MeasuresAgree /\ LensShown
=============================================================================
