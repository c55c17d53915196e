------------------------------ MODULE Services ------------------------------
(***************************************************************************)
(* What the small menu entries do to things that outlive them: the boot    *)
(* sector of the card and the auto-boot flag (bootflags.c), the power save *)
(* setting, the memory of a script (script.c), and a recording, which the  *)
(* user, a timed start (debug.c) and a computer on the USB port (ptp.c)    *)
(* all start with the same call.                                           *)
(***************************************************************************)
EXTENDS Integers, FiniteSets

CONSTANTS
  TimedStart,     (* debug.timed-start                                     *)
  MaxPicks        (* menu entries chosen and buttons pressed               *)

VARIABLES
  card,           (* the boot sector: its contents, and the magic strings  *)
  readFailed,     (* a read of it has failed                               *)
  mpc, block,     (* menu_task in a menu entry, and its copy of the sector *)
  dma, buffers, installed,         (* memory: for the sector, for scripts  *)
  bootdisk,       (* Canon's flag in NVRAM                                 *)
  disable_powersave, saved,        (* the setting, and that in the file    *)
  poweroff,       (* what Canon was asked: "allow" or "prohibit"           *)
  recording, toggled,              (* Canon records; somebody pressed      *)
  spc, sec,       (* movie_start                                           *)
  picks

svars == <<card, readFailed, mpc, block, dma, buffers, installed, bootdisk, disable_powersave,
           saved, poweroff, recording, toggled, spc, sec, picks>>
menu  == <<mpc, block, dma, buffers, installed>>
power == <<disable_powersave, saved, poweroff>>
movie == <<recording, toggled, spc, sec>>
disk  == <<card, readFailed, bootdisk>>

Junk == [os |-> FALSE, magic |-> FALSE]

(* bootflags_init asks for no power off unless the setting allows it; that *)
(* it is allowed is how Canon's firmware starts.                           *)
Asked(setting) == IF setting THEN "prohibit" ELSE "allow"

ServInit ==
  /\ card = [os |-> TRUE, magic |-> FALSE] /\ readFailed = FALSE /\ bootdisk \in BOOLEAN
  /\ mpc = "idle" /\ block = Junk /\ dma = 0 /\ buffers = 0 /\ installed = 0
  /\ disable_powersave = TRUE /\ saved = TRUE /\ poweroff = Asked(TRUE)
  /\ recording = FALSE /\ toggled = FALSE /\ spc = "count" /\ sec = TimedStart
  /\ picks = 0

-----------------------------------------------------------------------------
(* Menu entries; menu_task runs one at a time. *)

Pick == mpc = "idle" /\ picks < MaxPicks /\ picks' = picks + 1

bootflag_toggle ==
  /\ Pick /\ bootdisk' = ~bootdisk
  /\ UNCHANGED <<card, readFailed, menu, power, movie>>

(* Faulty: what is asked for is the setting before the change.             *)
ToggleStale ==
  /\ Pick /\ disable_powersave' = ~disable_powersave
  /\ poweroff' = Asked(disable_powersave)
  /\ UNCHANGED <<saved, disk, menu, movie>>

powersave_toggle ==
  /\ Pick /\ disable_powersave' = ~disable_powersave
  /\ poweroff' = Asked(disable_powersave')
  /\ UNCHANGED <<saved, disk, menu, movie>>

save_config ==
  /\ Pick /\ saved' = disable_powersave
  /\ UNCHANGED <<disable_powersave, poweroff, disk, menu, movie>>

In(l, next) == mpc = l /\ mpc' = next /\ UNCHANGED picks

(* bootflag_write_bootblock reads the sector, whatever that returns writes *)
(* the magic strings into its copy, and the copy to the card.              *)
AllocateBlock ==
  /\ Pick /\ mpc' = "read" /\ dma' = dma + 1 /\ block' = Junk
  /\ UNCHANGED <<buffers, installed, disk, power, movie>>

ReadBlock ==
  /\ In("read", "write")
  /\ \/ block' = [card EXCEPT !.magic = TRUE] /\ UNCHANGED readFailed
     \/ block' = [block EXCEPT !.magic = TRUE] /\ readFailed' = TRUE
  /\ UNCHANGED <<dma, buffers, installed, card, bootdisk, power, movie>>

WriteBlock ==
  /\ In("write", "free") /\ card' \in {card, block}
  /\ UNCHANGED <<block, dma, buffers, installed, readFailed, bootdisk, power, movie>>

FreeBlock ==
  /\ In("free", "idle") /\ dma' = dma - 1 /\ block' = Junk
  /\ UNCHANGED <<buffers, installed, disk, power, movie>>

(* run_script: size, malloc and read may fail; a script that was read is   *)
(* added to the path of the interpreter and stays.                         *)
FileSize ==
  /\ Pick /\ mpc' \in {"malloc", "idle"}
  /\ UNCHANGED <<block, dma, buffers, installed, disk, power, movie>>

ScriptMemory ==
  /\ mpc = "malloc" /\ mpc' \in {"script", "idle"}
  /\ buffers' = IF mpc' = "script" THEN buffers + 1 ELSE buffers
  /\ UNCHANGED <<block, dma, installed, picks, disk, power, movie>>

read_file ==
  /\ In("script", "idle")
  /\ \/ installed' = installed + 1 /\ UNCHANGED buffers
     \/ buffers' = buffers - 1 /\ UNCHANGED installed
  /\ UNCHANGED <<block, dma, disk, power, movie>>

-----------------------------------------------------------------------------
(* Recordings: MovieStart starts one, or stops the one that runs. *)

MovieStart == recording' = ~recording

(* movie_start: a message a second, then GO!  Without a time, nothing.     *)
movie_start ==
  /\ spc = "count"
  /\ IF sec = 0 THEN spc' = "off" /\ UNCHANGED <<sec, recording>>
     ELSE IF sec > 1 THEN sec' = sec - 1 /\ UNCHANGED <<spc, recording>>
     ELSE spc' = "went" /\ sec' = 0 /\ MovieStart
  /\ UNCHANGED <<toggled, picks, disk, menu, power>>

(* The user's button, or PTP operation 0x9997.                             *)
Button ==
  /\ picks < MaxPicks /\ picks' = picks + 1
  /\ MovieStart /\ toggled' = TRUE
  /\ UNCHANGED <<spc, sec, disk, menu, power>>

(* The camera is switched off, or loses its battery, and starts again.     *)
Restart ==
  /\ picks < MaxPicks /\ picks' = picks + 1
  /\ mpc' = "idle" /\ block' = Junk /\ dma' = 0 /\ buffers' = 0 /\ installed' = 0
  /\ disable_powersave' = saved /\ poweroff' = Asked(saved)
  /\ recording' = FALSE /\ toggled' = FALSE /\ spc' = "count" /\ sec' = TimedStart
  /\ UNCHANGED <<disk, saved>>

ServNext ==
  \/ bootflag_toggle \/ powersave_toggle \/ save_config
  \/ AllocateBlock \/ ReadBlock \/ WriteBlock \/ FreeBlock
  \/ FileSize \/ ScriptMemory \/ read_file
  \/ movie_start \/ Button \/ Restart

-----------------------------------------------------------------------------
(* Once an entry is done, its memory is free unless a script uses it, and  *)
(* Canon was asked what the setting says; what the card starts with is lost*)
(* only if it could not be read; and a timed start starts a recording if   *)
(* nobody else pressed the button.                                         *)
EntriesSettle ==
  /\ mpc = "idle" => dma = 0 /\ buffers = installed
  /\ poweroff = Asked(disable_powersave)
  /\ ~readFailed => card.os
  /\ spc = "went" /\ ~toggled => recording
=============================================================================
