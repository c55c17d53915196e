------------------------------- MODULE Config -------------------------------
(***************************************************************************)
(* The configuration file of config.c over any number of power cycles: the *)
(* property task parses it line by line and binds the values to variables, *)
(* tasks and menus change the variables, the menu entry "Save config"      *)
(* writes the file anew, and the battery may be pulled at any point.       *)
(***************************************************************************)
EXTENDS Integers, Sequences, SequencesExt

CONSTANTS
  MAX_NAME_LEN, MAX_VALUE_LEN,
  Width,     (* bits of an unsigned: 32                                    *)
  ConfigVars,(* _config_vars_start..: names, types and compiled-in values  *)
  Ints,      (* what the menus and tasks may set an integer variable to    *)
  Files,     (* what the card may hold when the camera is first switched on*)
  Freed,     (* what a string may read as when its memory is another's     *)
  None       (* no file, no line, nothing written                          *)

Space  == {" ", "\t", "\r", "\n"}
Digits == << "0", "1", "2", "3", "4", "5", "6", "7", "8", "9" >>
Equals == << " ", "=", " " >>
NUL    == "NUL"

(* Every line that is saved must fit the buffer of config_parse.           *)
ConfigAssumption ==
  /\ {MAX_NAME_LEN, MAX_VALUE_LEN, Width} \subseteq Nat \ {0}
  /\ \A i \in DOMAIN ConfigVars : Len(ConfigVars[i].name) + Len(Equals) < MAX_NAME_LEN
  /\ Ints \subseteq 0..2^Width - 1
  /\ None \notin Freed

VARIABLES
  card,      (* the text of A:/magiclantern.cfg, or None                   *)
  pos,       (* how far config_parse has read                              *)
  config,    (* the list it builds, latest line first                      *)
  val,       (* the variables                                              *)
  loose,     (* the string variables whose memory has been freed, or whose *)
             (* end lies behind the memory of their line                   *)
  phase,     (* "off", "parse", "booted", "cut" (by a read error), "nomem",*)
             (* "run", "save"                                              *)
  next,      (* the variable that config_save_file prints next             *)
  full,      (* the card is full                                           *)
  written    (* what the save that made this file printed for each         *)
             (* variable, None if it did not get as far; <<>> if the file  *)
             (* is the user's, or what a loose string read as went into it *)

vars == <<card, pos, config, val, loose, phase, next, full, written>>

Vars     == DOMAIN ConfigVars
IsInt(i) == ConfigVars[i].type = 0
Defaults == [i \in Vars |-> ConfigVars[i].default]

Init ==
  /\ card \in Files
  /\ pos = 1 /\ config = <<>> /\ val = Defaults /\ phase = "off"
  /\ loose = {} /\ next = 0 /\ full = FALSE /\ written = <<>>

-----------------------------------------------------------------------------
(* Conversions *)

IsSpace(c)  == c \in Space
NotSpace(c) == c \notin Space
NotDigit(c) == \A d \in DOMAIN Digits : Digits[d] # c
Value(c)    == CHOOSE d \in 0..9 : Digits[d + 1] = c

(* Base ten; no sign. *)
atoi(s) ==
  LET end == SelectInSeq(Append(s, NUL), NotDigit)
  IN FoldLeft(LAMBDA n, c : (n * 10 + Value(c)) % 2^Width, 0, SubSeq(s, 1, end - 1))

Decimal[n \in Nat] ==
  IF n < 10 THEN << Digits[n + 1] >> ELSE Append(Decimal[n \div 10], Digits[(n % 10) + 1])

(* "%d" of an unsigned. *)
Decimals(n) == IF n < 2^(Width - 1) THEN Decimal[n] ELSE << "-" >> \o Decimal[2^Width - n]

(* What fprintf reads, and a variable's line in the file. *)
Reads(i) == IF IsInt(i) THEN {Decimals(val[i])} ELSE {val[i]} \cup (IF i \in loose THEN Freed ELSE {})
LinesOf(i) == { ConfigVars[i].name \o Equals \o text \o << "\n" >> : text \in Reads(i) }

-----------------------------------------------------------------------------
(* Reading *)

IsNewline(c) == c = "\n"
NoReturns(s) == SelectSeq(s, LAMBDA c : c # "\r")

(* Faulty: what is left of the file is a line.                             *)
LineEndEOF ==
  LET e == SelectInSubSeq(card, pos, Len(card), IsNewline)
  IN IF e = 0 /\ pos <= Len(card) THEN Len(card) + 1 ELSE e

(* read_line: where the next line ends, or 0 if it is too long for the     *)
(* buffer or the file ends first.                                          *)
LineEnd ==
  LET e == SelectInSubSeq(card, pos, Len(card), IsNewline)
  IN IF e # 0 /\ Len(NoReturns(SubSeq(card, pos, e))) > MAX_NAME_LEN + MAX_VALUE_LEN THEN 0 ELSE e

Upto(n, s) == IF Len(s) < n THEN s ELSE SubSeq(s, 1, n)

EndsName(c) == IsSpace(c) \/ c \in {"=", NUL}

config_parse_line(line) ==
  LET s        == Append(line, NUL)
      From(i)  == SelectInSubSeq(s, i, Len(s), NotSpace)
      start    == From(1)
      stop     == SelectInSubSeq(s, start, Len(s), EndsName)
      eq       == From(stop)
      text     == Upto(MAX_VALUE_LEN, SubSeq(line, From(eq + 1), Len(line)))
  IN IF stop - start >= MAX_NAME_LEN \/ s[eq] # "=" THEN None
     ELSE [name  |-> SubSeq(s, start, stop - 1),
           value |-> SubSeq(text, 1, SelectLastInSeq(text, NotSpace))]

(* config_auto_parse: the first variable of that name, if there is one.  A *)
(* value as long as its buffer has its end in memory that is not its own.  *)
Bound(c, i) == ConfigVars[i].name = c.name
config_auto_parse(c) ==
  /\ val' = [i \in Vars |-> IF ~Bound(c, i) THEN val[i]
                            ELSE IF IsInt(i) THEN atoi(c.value) ELSE c.value]
  /\ loose' = { i \in loose : ~Bound(c, i) }
              \cup { i \in Vars : Bound(c, i) /\ ~IsInt(i) /\ Len(c.value) = MAX_VALUE_LEN }

(* config_parse_file, called when the camera has started. *)
Boot ==
  /\ phase = "off"
  /\ phase' = IF card = None THEN "booted" ELSE "parse"
  /\ pos' = 1
  /\ UNCHANGED <<card, config, val, loose, next, full, written>>

(* An empty line, or a comment. *)
Ignored(line) == IF line = <<>> THEN TRUE ELSE line[1] = "#"
TheLine       == NoReturns(SubSeq(card, pos, LineEnd - 1))

Skip ==
  /\ phase = "parse" /\ LineEnd # 0 /\ Ignored(TheLine)
  /\ pos' = LineEnd + 1
  /\ UNCHANGED <<card, config, val, loose, phase, next, full, written>>

Bind ==
  /\ phase = "parse" /\ LineEnd # 0 /\ ~Ignored(TheLine)
  /\ config_parse_line(TheLine) # None
  /\ config' = << config_parse_line(TheLine) >> \o config
  /\ config_auto_parse(config_parse_line(TheLine))
  /\ pos' = LineEnd + 1
  /\ UNCHANGED <<card, phase, next, full, written>>

(* A line that does not parse, or no memory: every line is deleted.  The   *)
(* variables keep what they were bound to; a string now lies in memory     *)
(* that has been freed, and is written to by whoever gets it.              *)
Delete ==
  /\ phase = "parse" /\ LineEnd # 0 /\ ~Ignored(TheLine)
  /\ phase' \in {"nomem"} \cup (IF config_parse_line(TheLine) = None THEN {"booted"} ELSE {})
  /\ config' = <<>> /\ pos' = 1
  /\ loose' = { i \in Vars : ~IsInt(i) /\ \E k \in DOMAIN config : Bound(config[k], i) }
  /\ UNCHANGED <<card, val, next, full, written>>

(* The card cannot be read: for read_line that is the end of the file.     *)
ReadError ==
  /\ phase = "parse"
  /\ phase' = "cut" /\ pos' = 1
  /\ UNCHANGED <<card, config, val, loose, next, full, written>>

ParseEnd ==
  /\ phase = "parse" /\ LineEnd = 0
  /\ phase' = "booted" /\ pos' = 1
  /\ UNCHANGED <<card, config, val, loose, next, full, written>>

(* The init functions run and the tasks are created. *)
StartTasks ==
  /\ phase \in {"booted", "cut", "nomem"}
  /\ phase' = "run"
  /\ UNCHANGED <<card, pos, config, val, loose, next, full, written>>

-----------------------------------------------------------------------------
(* Running: changes, and config_save_file *)

Change(i, n) ==
  /\ phase \in {"run", "save"} /\ IsInt(i)
  /\ val' = [val EXCEPT ![i] = n]
  /\ UNCHANGED <<card, pos, config, loose, phase, next, full, written>>

(* FIO_CreateFile cuts the file to nothing; if it fails there is no save.  *)
SaveStart ==
  /\ phase = "run"
  /\ phase' = "save" /\ card' = <<>> /\ next' = 0
  /\ written' = [i \in Vars |-> None]
  /\ UNCHANGED <<pos, config, val, loose, full>>

(* The comments at the top, then each variable. *)
Texts == IF next = 0 THEN {<< "#", "\n" >>} ELSE LinesOf(next)
Parts == UNION { { SubSeq(text, 1, n) : n \in 0..Len(text) - 1 } : text \in Texts }

(* Of a loose string nobody knows what went into the file.                 *)
Noted(w) == written' = IF written = <<>> \/ next \in loose THEN <<>> ELSE w

SaveLine ==
  /\ phase = "save" /\ next <= Len(ConfigVars) /\ ~full
  /\ \E text \in Texts : card' = card \o text
  /\ Noted(IF next = 0 THEN written ELSE [written EXCEPT ![next] = val[next]])
  /\ next' = next + 1
  /\ UNCHANGED <<pos, config, val, loose, phase, full>>

(* The card is full, or fills up: what fits is written, and no more comes  *)
(* of the other lines.  Nobody looks at what fprintf returns.              *)
SaveFull ==
  /\ phase = "save" /\ next <= Len(ConfigVars)
  /\ IF full THEN UNCHANGED <<card, written>>
     ELSE (\E part \in Parts : card' = card \o part) /\ Noted(written)
  /\ full' = TRUE
  /\ next' = next + 1
  /\ UNCHANGED <<pos, config, val, loose, phase>>

SaveEnd ==
  /\ phase = "save" /\ next > Len(ConfigVars)
  /\ phase' = "run" /\ next' = 0
  /\ UNCHANGED <<card, pos, config, val, loose, full, written>>

(* The battery is pulled; of a line that is being written some may have    *)
(* reached the card.                                                       *)
PowerOff ==
  /\ phase # "off"
  /\ phase' = "off" /\ pos' = 1 /\ config' = <<>> /\ val' = Defaults /\ loose' = {}
  /\ next' = 0 /\ full' = FALSE
  /\ IF phase = "save" /\ next <= Len(ConfigVars) /\ ~full
     THEN (\E part \in Parts : card' = card \o part) /\ Noted(written)
     ELSE UNCHANGED <<card, written>>

-----------------------------------------------------------------------------
Next ==
  \/ Boot \/ Skip \/ Bind \/ Delete \/ ReadError \/ ParseEnd \/ StartTasks
  \/ (\E i \in Vars, n \in Ints : Change(i, n))
  \/ SaveStart \/ SaveLine \/ SaveFull \/ SaveEnd \/ PowerOff

Spec == Init /\ [][Next]_vars

-----------------------------------------------------------------------------
(* config_value and config_int, for whoever holds the list. *)

config_value(name) ==
  LET k == SelectInSeq(config, LAMBDA c : c.name = name)
  IN IF k = 0 THEN None ELSE config[k].value

config_int(name, def) ==
  IF config_value(name) = None THEN def ELSE atoi(config_value(name))

-----------------------------------------------------------------------------
(* Properties *)

TypeOK ==
  /\ phase \in {"off", "parse", "booted", "cut", "nomem", "run", "save"}
  /\ \A i \in Vars : IsInt(i) => val[i] \in 0..2^Width - 1
  /\ loose \subseteq Vars /\ next \in 0..Len(ConfigVars) + 1 /\ full \in BOOLEAN
  /\ card # None => pos \in 1..Len(card) + 1

(* What a line says: what stands before its first equals sign, without the *)
(* space around it, is a name that is one word and short enough, and what  *)
(* stands after it, without the space around it and as far as there is room*)
(* for it, is its value.                                                   *)
Trim(s) ==
  IF \A k \in DOMAIN s : IsSpace(s[k]) THEN <<>>
  ELSE LET ink == {k \in DOMAIN s : NotSpace(s[k])}
       IN CHOOSE t \in {SubSeq(s, a, b) : a \in ink, b \in ink} :
            \A a, b \in ink : b - a < Len(t)
Equal(line) == SelectInSeq(line, LAMBDA c : c = "=")
Name(line)  == Trim(SubSeq(line, 1, Equal(line) - 1))
Says(line)  == Trim(Upto(MAX_VALUE_LEN, Trim(SubSeq(line, Equal(line) + 1, Len(line)))))
Good(line)  == /\ \E k \in DOMAIN line : line[k] = "="
               /\ Len(Name(line)) < MAX_NAME_LEN
               /\ \A k \in DOMAIN Name(line) : NotSpace(Name(line)[k])

(* The lines of the file, by the places of their ends. *)
Ends    == IF card = None THEN {} ELSE {k \in DOMAIN card : IsNewline(card[k])}
At(e)   == LET starts == {k \in 1..e : \A b \in Ends : b < e => k > b}
           IN NoReturns(SubSeq(card, CHOOSE k \in starts : \A l \in starts : k <= l, e - 1))
Reached(e) == \A b \in Ends : b <= e => Len(At(b)) < MAX_NAME_LEN + MAX_VALUE_LEN
                                        /\ (Ignored(At(b)) \/ Good(At(b)))
Naming(i)  == {e \in Ends : Reached(e) /\ ~Ignored(At(e)) /\ Name(At(e)) = ConfigVars[i].name}

(* What the lines that end by last make of variable i.                     *)
Meant(i, last) ==
  LET lines == {e \in Naming(i) : e <= last}
      text  == Says(At(CHOOSE b \in lines : \A c \in lines : c <= b))
  IN IF lines = {} THEN Defaults[i] ELSE IF IsInt(i) THEN atoi(text) ELSE text

(* The list and the variables agree as long as the list is there.          *)
LookupAgrees ==
  phase \in {"booted", "cut"} /\ config # <<>> =>
    \A i \in Vars :
      val[i] = IF IsInt(i) THEN config_int(ConfigVars[i].name, Defaults[i])
               ELSE IF config_value(ConfigVars[i].name) = None THEN Defaults[i]
               ELSE config_value(ConfigVars[i].name)

(* The last line that names a variable sets it, however the lines are      *)
(* spaced and ended, up to the first line that does not parse or is too    *)
(* long, or to where the card could not be read; a last line without an end*)
(* counts for nothing.  For a loose string this is what it was set to, not *)
(* what it reads as from then on.  config_value and config_int answer the  *)
(* same, as long as there is a list.                                       *)
BootReads ==
  /\ LookupAgrees
  /\ phase = "booted" => \A i \in Vars : val[i] = Meant(i, Len(card))
  /\ phase = "cut" => \E last \in {0} \cup Ends : \A i \in Vars : val[i] = Meant(i, last)

(* Between a save, complete or cut short by the battery or a full card, and*)
(* the next one, each variable starts with what was saved for it, or with  *)
(* its compiled-in value if the save, or the reading, did not get that far:*)
(* never with a part of its number, nor with part of another line.  Except *)
(* that atoi does not read the minus sign that "%d" prints, and for a file *)
(* into which a loose string went: what that read as may hold other lines. *)
SavedComesBack ==
  phase \in {"booted", "cut"} /\ written # <<>> =>
    \A i \in Vars :
      val[i] \in (IF written[i] = None \/ phase = "cut" THEN {Defaults[i]} ELSE {})
               \cup (IF written[i] = None THEN {}
                     ELSE {IF IsInt(i) /\ written[i] >= 2^(Width - 1) THEN 0 ELSE written[i]})

(* Whoever wrote the file, the variables are what it says.                 *)
FileServes == BootReads /\ SavedComesBack
=============================================================================
