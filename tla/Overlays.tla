------------------------------ MODULE Overlays ------------------------------
(***************************************************************************)
(* The Live View overlays of zebra.c: zebra_task draws histogram, waveform,*)
(* crop marks, edges and zebras pair of pixels by pair, while property     *)
(* handlers say whether Live View is on the screen, menu_task opens and    *)
(* closes the menu, and the menu switches the overlays.  The flags are     *)
(* plain globals: one action per look at them.                             *)
(***************************************************************************)
EXTENDS Integers, FiniteSets

CONSTANTS
  NPairs,         (* the pairs of pixels draw_zebra visits, in order       *)
  HistBox, WaveBox, TimecodeBox, MenuBox,        (* what lies where        *)
  CropPix, EdgePix, BrightPix,  (* where the crop image is not empty, the  *)
                                (* gradient and the level are high         *)
  Toggles,        (* the overlays the user switches                        *)
  MaxEvents       (* menu openings, switches and changes of Live View      *)

Pairs == 1..NPairs

ASSUME OverlayAssumption ==
  /\ NPairs \in Nat \ {0}
  /\ HistBox \cup WaveBox \cup TimecodeBox \cup MenuBox \subseteq Pairs
  /\ CropPix \cup EdgePix \cup BrightPix \subseteq Pairs
  /\ MaxEvents \in Nat

Overlays == {"crop", "edge", "zebra", "hist", "waveform"}

VARIABLES
  gui_menu_task, lv_drawn, shutdown,
  draw,            (* crop_draw, edge_draw, zebra_draw, ...                *)
  cropmarks,       (* the bitmap file was loaded                           *)
  buffers,         (* the uncacheable and the ordinary memory bmp_load has *)
  screen,          (* what each pair of pixels shows                       *)
  zpc, at,         (* zebra_task: what it does next, and the pair          *)
  gpc,             (* menu_task and the GUI task: idle, or drawing         *)
  stray,           (* what zebra_task wrote since the menu was opened:     *)
                   (* pairs, boxes, and the whole screen                   *)
  events

ovars == <<gui_menu_task, lv_drawn, shutdown, draw, cropmarks, buffers, screen,
           zpc, at, gpc, stray, events>>
loaded == <<cropmarks, buffers>>

OvInit ==
  /\ gui_menu_task = FALSE /\ lv_drawn = FALSE /\ shutdown = FALSE
  /\ draw = [o \in Overlays |-> o \notin {"edge", "waveform"}]
  /\ screen = [p \in Pairs |-> "clear"]
  /\ cropmarks = FALSE /\ buffers = [dma |-> 0, heap |-> 0]
  /\ zpc = "size" /\ at = 1 /\ gpc = "idle"
  /\ stray = <<0, 0, 0>> /\ events = 0

-----------------------------------------------------------------------------
(* zebra_task and draw_zebra *)

Put(ps, what) == screen' = [p \in Pairs |-> IF p \in ps THEN what ELSE screen[p]]

(* Writes over the menu, of pairs, of whole boxes and of the whole screen. *)
Stray(pairs, boxes, fills) ==
  stray' = IF gui_menu_task THEN <<stray[1] + pairs, stray[2] + boxes, stray[3] + fills>> ELSE stray

Goto(l) == zpc' = l

(* bmp_load of the crop marks: each step may fail, and what has been       *)
(* allocated by then is freed.                                             *)
Rest == <<gui_menu_task, lv_drawn, shutdown, draw, at, gpc, events>>

LoadStep(l, next, failed) ==
  /\ zpc = l /\ zpc' \in {next, failed}
  /\ UNCHANGED <<Rest, cropmarks, screen, stray>>

FileSize  == LoadStep("size", "dma", "start") /\ UNCHANGED buffers
DmaMemory == LoadStep("dma", "read", "start")
             /\ buffers' = [buffers EXCEPT !.dma = IF zpc' = "read" THEN 1 ELSE 0]
read_file == LoadStep("read", "signature", "free") /\ UNCHANGED buffers
Signature == LoadStep("signature", "offset", "free") /\ UNCHANGED buffers
Offset    == LoadStep("offset", "malloc", "free") /\ UNCHANGED buffers

Malloc    == LoadStep("malloc", "copy", "free")
             /\ buffers' = [buffers EXCEPT !.heap = IF zpc' = "copy" THEN 1 ELSE 0]

(* The copy is what stays; the uncacheable memory is freed on every path.  *)
FreeDma ==
  /\ zpc \in {"copy", "free"} /\ Goto("start")
  /\ cropmarks' = (zpc = "copy") /\ buffers' = [buffers EXCEPT !.dma = 0]
  /\ UNCHANGED <<Rest, screen, stray>>

bmp_load == FileSize \/ DmaMemory \/ read_file \/ Signature \/ Offset \/ Malloc \/ FreeDma

(* With enable_liveview the task starts Live View and clears the screen,   *)
(* without a look at gui_menu_task: the menu may be open by then.          *)
Start ==
  /\ zpc = "start" /\ Goto("task")
  /\ \/ Put(Pairs, "clear") /\ Stray(0, 0, 1)
     \/ UNCHANGED <<screen, stray>>
  /\ UNCHANGED <<Rest, loaded>>

(* Nothing to draw: neither an overlay nor, with a file, the crop marks.   *)
NothingToDraw ==
  /\ ~draw["edge"] /\ ~draw["zebra"] /\ ~draw["hist"] /\ ~draw["waveform"]
  /\ ~draw["crop"] \/ ~cropmarks

zebra_task ==
  /\ zpc = "task"
  /\ IF shutdown THEN Goto("end")
     ELSE IF gui_menu_task \/ ~lv_drawn \/ NothingToDraw THEN Goto("sleep")
     ELSE Goto("test")
  /\ at' = 1
  /\ UNCHANGED <<loaded, gui_menu_task, lv_drawn, shutdown, draw, screen, gpc, stray, events>>

msleep ==
  /\ zpc = "sleep" /\ Goto("task")
  /\ UNCHANGED <<loaded, gui_menu_task, lv_drawn, shutdown, draw, screen, at, gpc, stray, events>>

(* Faulty: the flags are looked at once for a picture.                     *)
TestOnce ==
  /\ zpc = "test"
  /\ Goto(IF at = 1 /\ (gui_menu_task \/ ~lv_drawn) THEN "sleep" ELSE "write")
  /\ UNCHANGED <<loaded, gui_menu_task, lv_drawn, shutdown, draw, screen, at, gpc, stray, events>>

(* Abort as soon as the menu is drawn.                                     *)
Test ==
  /\ zpc = "test"
  /\ Goto(IF gui_menu_task \/ ~lv_drawn THEN "sleep" ELSE "write")
  /\ UNCHANGED <<loaded, gui_menu_task, lv_drawn, shutdown, draw, screen, at, gpc, stray, events>>

(* What a pair becomes: nothing in the boxes of others; the crop marks,    *)
(* else the edges, else the zebras, in the order of the code's checks, and *)
(* clear where nobody drew.                                                *)
Skipped(p) ==
  \/ draw["hist"] /\ p \in HistBox
  \/ draw["waveform"] /\ p \in WaveBox
  \/ p \in TimecodeBox

IsCrop(p)  == draw["crop"] /\ cropmarks /\ p \in CropPix
IsEdge(p)  == draw["edge"] /\ p \in EdgePix
IsZebra(p) == draw["zebra"] /\ p \in BrightPix

Drawn(p) ==
  IF IsCrop(p) THEN "crop" ELSE IF IsEdge(p) THEN "edge"
  ELSE IF IsZebra(p) THEN "zebra" ELSE "clear"

(* Faulty: pixels with nothing on them are left alone.                     *)
WriteSome ==
  /\ zpc = "write"
  /\ IF Skipped(at) \/ Drawn(at) = "clear" THEN UNCHANGED <<screen, stray>>
     ELSE Put({at}, Drawn(at)) /\ Stray(1, 0, 0)
  /\ IF at + 1 \in Pairs THEN at' = at + 1 /\ Goto("test") ELSE at' = 1 /\ Goto("hist")
  /\ UNCHANGED <<loaded, gui_menu_task, lv_drawn, shutdown, draw, gpc, events>>

Write ==
  /\ zpc = "write"
  /\ IF Skipped(at) THEN UNCHANGED <<screen, stray>>
     ELSE Put({at}, Drawn(at)) /\ Stray(1, 0, 0)
  /\ IF at + 1 \in Pairs THEN at' = at + 1 /\ Goto("test") ELSE at' = 1 /\ Goto("hist")
  /\ UNCHANGED <<loaded, gui_menu_task, lv_drawn, shutdown, draw, gpc, events>>

(* hist_draw_image and waveform_draw_image, after the last pair and        *)
(* without another look at the flags.                                      *)
DrawBox(o, box, next) ==
  /\ IF draw[o] THEN Put(box, o) /\ Stray(0, 1, 0) ELSE UNCHANGED <<screen, stray>>
  /\ Goto(next)
  /\ UNCHANGED <<loaded, gui_menu_task, lv_drawn, shutdown, draw, at, gpc, events>>

hist_draw_image     == zpc = "hist" /\ DrawBox("hist", HistBox, "waveform")
waveform_draw_image == zpc = "waveform" /\ DrawBox("waveform", WaveBox, "sleep")

Zebra == \/ bmp_load \/ Start \/ zebra_task \/ msleep \/ Test \/ Write
         \/ hist_draw_image \/ waveform_draw_image

-----------------------------------------------------------------------------
(* The menu and the property handlers *)

Event == events < MaxEvents /\ events' = events + 1

(* menu_task creates the dialog; menu_handler draws it.                    *)
OpenMenu ==
  /\ gpc = "idle" /\ ~gui_menu_task /\ ~shutdown /\ Event
  /\ gui_menu_task' = TRUE /\ gpc' = "draw" /\ stray' = <<0, 0, 0>>
  /\ UNCHANGED <<loaded, lv_drawn, shutdown, draw, screen, zpc, at>>

menu_handler ==
  /\ gpc = "draw" /\ Put(MenuBox, "menu") /\ gpc' = "idle"
  /\ UNCHANGED <<loaded, gui_menu_task, lv_drawn, shutdown, draw, zpc, at, stray, events>>

(* menu_binary_toggle on an item of zebra_menus; the menu is drawn again.  *)
menu_binary_toggle ==
  /\ gpc = "idle" /\ gui_menu_task /\ Event
  /\ \E o \in Toggles : draw' = [draw EXCEPT ![o] = ~@]
  /\ gpc' = "draw"
  /\ UNCHANGED <<loaded, gui_menu_task, lv_drawn, shutdown, screen, zpc, at, stray>>

gui_stop_menu ==
  /\ gpc = "idle" /\ gui_menu_task
  /\ gui_menu_task' = FALSE /\ gpc' = "fill"
  /\ UNCHANGED <<loaded, lv_drawn, shutdown, draw, screen, zpc, at, stray, events>>

ClearMenu ==
  /\ gpc = "fill" /\ Put(MenuBox, "clear") /\ gpc' = "idle"
  /\ UNCHANGED <<loaded, gui_menu_task, lv_drawn, shutdown, draw, zpc, at, stray, events>>

(* PROP_LV_ACTION and PROP_GUI_STATE write the same flag.                  *)
PropLvDrawn(action) ==
  /\ ~shutdown /\ Event /\ lv_drawn' = ~action
  /\ UNCHANGED <<loaded, gui_menu_task, shutdown, draw, screen, zpc, at, gpc, stray>>

Shutdown ==
  /\ ~shutdown /\ Event /\ shutdown' = TRUE
  /\ UNCHANGED <<loaded, gui_menu_task, lv_drawn, draw, screen, zpc, at, gpc, stray>>

Gui == menu_handler \/ ClearMenu

OvNext == Zebra \/ Gui \/ OpenMenu \/ gui_stop_menu \/ menu_binary_toggle \/ Shutdown
          \/ \E b \in BOOLEAN : PropLvDrawn(b)

OvSpec     == OvInit /\ [][OvNext]_ovars
FairOvSpec == OvSpec /\ WF_ovars(Zebra) /\ WF_ovars(Gui)

-----------------------------------------------------------------------------
(* Once the menu is open zebra_task writes no more than one pair of pixels *)
(* over it, and no more than the two boxes; and a box only when it was     *)
(* past its last look at gui_menu_task.  Its clearing of the screen, which *)
(* looks at nothing, wipes out a menu that is open already, once, and      *)
(* nothing else is then drawn over that menu.                              *)
FewStrayPixels ==
  gui_menu_task => /\ stray[1] <= 1 /\ stray[2] <= 2 /\ stray[3] <= 1
                   /\ stray[2] > 0 => zpc \in {"waveform", "sleep", "task", "end"}
                   /\ stray[3] > 0 => stray[1] = 0 /\ stray[2] = 0

(* Whichever step of bmp_load fails, nothing of what it allocated is left  *)
(* but the copy in ordinary memory, and that is what cropmarks points to.  *)
LoadKeepsOne ==
  zpc \notin {"read", "signature", "offset", "malloc", "copy", "free"} =>
    buffers = [dma |-> 0, heap |-> IF cropmarks THEN 1 ELSE 0]

(* Whatever stops them, the overlays give way to the menu but for a bounded*)
(* rest, and keep no memory: draw_zebra's tests of gui_menu_task,          *)
(* zebra_task's clearing of the screen, and bmp_load's error paths.        *)
OverlaysYield == FewStrayPixels /\ LoadKeepsOne

(* What the overlays should be: the boxes, and elsewhere the crop marks    *)
(* above edges and zebras.  Which of these two is above the other is not   *)
(* said here: draw_zebra draws the edge where a pair is both, and its      *)
(* comment on "the stacking order of the overlays" has zebras first.       *)
Shows(p) ==
  CASE p \in HistBox /\ draw["hist"] -> screen[p] = "hist"
    [] p \in WaveBox /\ draw["waveform"] -> screen[p] = "waveform"
    [] p \in TimecodeBox -> screen[p] \in {"clear", "menu"}
    [] IsCrop(p) -> screen[p] = "crop"
    [] IsEdge(p) \/ IsZebra(p) ->
         \/ IsEdge(p) /\ screen[p] = "edge"
         \/ IsZebra(p) /\ screen[p] = "zebra"
    [] OTHER -> screen[p] = "clear"

(* When the menu stays closed, Live View stays on the screen and something *)
(* is to be drawn, the screen comes to show the overlays and nothing else, *)
(* whatever the menu and aborted pictures have left on it.                 *)
ScreenRecovers ==
  <>[](~gui_menu_task /\ lv_drawn /\ ~shutdown /\ ~NothingToDraw)
    => <>[](\A p \in Pairs : Shows(p))

=============================================================================
