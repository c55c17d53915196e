----------------------------- MODULE MCRecords ------------------------------
(***************************************************************************)
(* The parts that keep records and compute: the movie log (MovieLog), the  *)
(* configuration file (Config), the timecode decoder (Timecode), and the   *)
(* functions of MCFunctions.  They share no state: one of them runs, the   *)
(* others stay as they started.                                            *)
(***************************************************************************)
EXTENDS MovieLog, Timecode, TLC

VARIABLES
  running,                                           (* which of them      *)
  ccard, cpos, config, val, loose, phase, next, full, written,
  tab, fields, at, seen, must, probe

(* Two variables, an integer and a string, with short names and values;    *)
(* and files of three lines, each of a kind of its own, with and without   *)
(* the end of the last line.                                               *)
TwoVars == << [name |-> << "a" >>, type |-> 0, default |-> 7],
              [name |-> << "b" >>, type |-> 1, default |-> << "z" >>] >>
Lines == {
  <<>>, << "#", "a", "=", "1" >>, << " " >>,
  << "a", "=", "1", "2" >>, << " ", "a", " ", "=", " ", "3", " " >>, << "a", "=", "9", "9", "x" >>,
  << "b", "=", "x", " ", "y", "\r" >>, << "b", "\t", "=" >>, << "b", "=", "f", "o", "u", "r" >>, << "b", "=", " ", "1", "2", "3", " ", "4", "5" >>, << "c", "=", "1" >>,
  << "a", " ", "1" >>, << "=", "=", "1" >>,
  << "l", "o", "n", "g", "n", "=", "1" >>, << "l", "o", "n", "g", "n", "a", "m", "=", "1" >>,
  << "#", " ", "t", "o", "o", " ", "l", "o", "n", "g", " ", "!" >> }
SomeFiles == {None} \cup { l \o << "\n" >> \o m \o << "\n" >> \o n \o e :
                            l, m, n \in Lines, e \in {<<>>, << "\n" >>} }

C == INSTANCE Config WITH card <- ccard, pos <- cpos, MAX_NAME_LEN <- 6, MAX_VALUE_LEN <- 4,
       Width <- 5, ConfigVars <- TwoVars, Ints <- {1, 12, 31}, Files <- SomeFiles,
       Freed <- {<<>>, << "\r", "x" >>, << " ", "\n", "a", "=", "9" >>, << "y", "\n", "\n", " " >>}

(* Numbers of 8 bits; code of four instructions; two firmware tables of 4  *)
(* and 5; tables with six keys, two pairs of which collide.                *)
F == INSTANCE MCFunctions WITH t <- tab,
       ULONG_MAX <- 255, Room <- 2, Reach <- 25, Mask <- 7, Word <- 256, Size1 <- 4, Size2 <- 5,
       Multiplier <- 205, ByteSize <- 16, Numbers <- {1, 2, 3, 4}, Objects <- {100, 101}, MAX_INT <- 6,
       Hash <- 0 :> 0 @@ 1 :> 1 @@ 2 :> 2 @@ 3 :> 3 @@ 4 :> 4 @@ 5 :> 5 @@ 100 :> 1 @@ 101 :> 3,
       MAXINDEXRK <- 255, LFIELDS_PER_FLUSH <- 2

ASSUME RecordsAssumption ==
  C!ConfigAssumption /\ F!StdlibAssumption /\ F!RelocAssumption /\ F!FirmwareAssumption

-----------------------------------------------------------------------------
TwoValues == 0..1

Time(f, s, m, h, u, g) == [f |-> f, s |-> s, m |-> m, h |-> h, user |-> u, flag |-> g]
TwoTimes == { Time(0, 59, 0, 19, 15, 0), Time(29, 8, 59, 3, 0, 0) }

conf == <<ccard, cpos, config, val, loose, phase, next, full, written>>
fun  == <<tab, fields, at, seen, must, probe>>
all  == <<running, vars, conf, tvars, fun>>

(* One of them is chosen; the rest is pinned to one of its initial states. *)
Pinned(which, fixed) == IF running = which THEN TRUE ELSE fixed

RecInit ==
  /\ running \in {"log", "config", "timecode", "functions"}
  /\ Pinned("log", info = [f \in Fields |-> 0]) /\ Pinned("config", ccard = None)
  /\ Pinned("timecode", sent = Time(0, 59, 0, 19, 15, 0))
  /\ Pinned("functions", probe = <<"kind">>)
  /\ Init /\ C!Init /\ TcInit /\ F!FnInit

Log    == running = "log" /\ Next /\ UNCHANGED <<running, conf, tvars, fun>>
Conf   == running = "config" /\ C!Next /\ UNCHANGED <<running, vars, tvars, fun>>
Decode == running = "timecode" /\ TcNext /\ UNCHANGED <<running, vars, conf, fun>>
Try    == running = "functions" /\ F!FnNext /\ UNCHANGED <<running, vars, conf, tvars>>

RecSpec == RecInit /\ [][Log \/ Conf \/ Decode \/ Try]_all

(* Only the compiler, on chains of "and" and "or".                         *)
TryChain == running = "functions" /\ F!ChainNext /\ UNCHANGED <<running, vars, conf, tvars>>

ChainSpec == RecInit /\ [][TryChain]_all

-----------------------------------------------------------------------------
(* The variables are what the file says (Config).                          *)
FileServes == running = "config" => C!FileServes

(* The library does what C says, relocated code does what the original     *)
(* does, firmware files survive the tools, and Lua's patterns match what   *)
(* they say (MCFunctions): checked in the step that goes on to the next    *)
(* input.                                                                  *)
FunctionsAgree ==
  [][running = "functions" => F!LibraryAgrees /\ F!CodeMoves /\ F!FilesAreWhole /\ F!PatternsMatch
        /\ F!FunctionsReturn]_all

(* The code of a Lua chunk does what the chunk says (MCFunctions): checked *)
(* in the step that goes on to the next input.                             *)
CompilesRight == [][running = "functions" => F!CompilesRight]_all

(* need_value of lcode.c, on all chains (MCFunctions).                     *)
BooleansRight == [][running = "functions" => F!BooleansRight]_all

(* A Lua table holds the fields that were set (MCFunctions).               *)
HoldsFields == running = "functions" => F!HoldsFields

(* next() comes by every field, once (MCFunctions).                        *)
VisitsOnce == F!VisitsOnce

=============================================================================
