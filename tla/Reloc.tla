-------------------------------- MODULE Reloc --------------------------------
(***************************************************************************)
(* reloc.c: a function of Canon's ROM is copied to RAM and what it reaches *)
(* relative to the program counter is made to reach the same from there;   *)
(* and liveview.c, which runs DlgLiveViewApp from such a copy.             *)
(* Addresses count words.  A word is an instruction or data, which may     *)
(* look like an instruction.                                               *)
(***************************************************************************)
EXTENDS Integers, Sequences, SequencesExt, FiniteSets

CONSTANTS
  Room,           (* words kept free for literals before the code: 4       *)
  Reach,          (* branches go less far than this: 2^23                  *)
  Mask            (* offsets of loads are modulo this: 2^12 bytes          *)

RelocAssumption == Room \in Nat /\ {Reach, Mask} \subseteq Nat \ {0}

(* A word that is no instruction of the program counter.                   *)
Plain(id)       == [op |-> "plain", id |-> id, to |-> 0]
(* B and BL; LDR from %pc, the offset with its sign; ADD with %pc; ADD to  *)
(* %pc, a jump table that lies in the function.                            *)
Branch(offset)  == [op |-> "branch", id |-> 0, to |-> offset]
Load(offset)    == [op |-> "load", id |-> 0, to |-> offset]
AddPc(offset)   == [op |-> "add", id |-> 0, to |-> offset]

Ahead == 2        (* %pc is two words ahead                                *)

(* The instruction pc of the function from first to last, for its new      *)
(* place; literals is what the free words hold so far.  Inside is what is  *)
(* less than last: the copy includes last, but a jump there is not local.  *)
Inside(dest, first, last) == first <= dest /\ dest < last

(* Faulty: the new place of the instruction is not taken into account.     *)
JumpFromOld(instr, pc, new_pc, first, last) ==
  IF Inside(pc + instr.to + Ahead, first, last) THEN instr
  ELSE [instr EXCEPT !.to = @ - new_pc + first]

(* A jump that is too far stays as it is, and is reported on the host only.*)
Jump(instr, pc, new_pc, first, last) ==
  LET dest     == pc + instr.to + Ahead
      new_jump == dest - new_pc - Ahead
  IN IF Inside(dest, first, last) \/ new_jump >= Reach \/ new_jump <= -Reach THEN instr
     ELSE [instr EXCEPT !.to = new_jump]

(* The loop of reloc, over the words written so far and the address of the*)
(* next literal, which nothing keeps below the code.                       *)
Step(mem, first, last, base, copy, pc) ==
  LET instr  == mem[pc]
      new_pc == base + Room + (pc - first)
      dest   == pc + instr.to + Ahead
      back   == new_pc + Ahead - copy.fixups
  IN IF instr.op = "load" /\ ~Inside(dest, first, last)
       THEN [words  |-> (new_pc :> [instr EXCEPT !.to = -(back % Mask)])
                        @@ (copy.fixups :> mem[dest]) @@ copy.words,
             fixups |-> copy.fixups + 1]
     ELSE [copy EXCEPT !.words =
             (new_pc :> IF instr.op = "branch" THEN Jump(instr, pc, new_pc, first, last) ELSE instr) @@ @]

reloc(mem, first, last, base) ==
  [entry |-> base + Room,
   words |-> FoldLeft(LAMBDA copy, pc : Step(mem, first, last, base, copy, pc),
                      [words |-> <<>>, fixups |-> base],
                      [n \in 1..last - first + 1 |-> first + n - 1]).words]

(* reloc_dlgliveviewapp: calls whose arguments come from an ADD with %pc   *)
(* and some others are replaced by no operation, at their new places.      *)
NOP == Plain(-1)

reloc_dlgliveviewapp(mem, first, last, base, nops) ==
  LET copy == reloc(mem, first, last, base)
  IN [copy EXCEPT !.words = [a \in DOMAIN @ |-> IF a - copy.entry + first \in nops THEN NOP ELSE @[a]]]

-----------------------------------------------------------------------------
(* What reloc can do: room for the literals, jumps in reach, each literal  *)
(* in reach of the load that had it (not of every word: DlgLiveViewApp is  *)
(* longer than Mask), and no data that looks like an instruction to adapt. *)
Dest(mem, pc) == pc + mem[pc].to + Ahead

Outside(mem, first, last, op) ==
  { pc \in first..last : mem[pc].op = op /\ ~Inside(Dest(mem, pc), first, last) }

Fixable(mem, first, last, base) ==
  LET move == base + Room - first
  IN /\ Cardinality(Outside(mem, first, last, "load")) <= Room
     /\ \A pc \in Outside(mem, first, last, "branch") :
          Dest(mem, pc) - (pc + move) - Ahead \in -Reach + 1..Reach - 1
     /\ \A pc \in Outside(mem, first, last, "load") :
          LET fixups == base + Cardinality({ p \in Outside(mem, first, last, "load") : p < pc })
          IN pc + move + Ahead - fixups < Mask
     /\ \A pc \in first..last :
          mem[pc].op = "load" /\ Inside(Dest(mem, pc), first, last) => mem[Dest(mem, pc)].op = "plain"

(* Then every instruction of the copy does what the original does: a jump  *)
(* goes to the moved place in the function and to the same place outside,  *)
(* a load gets the same word, and nothing but the copy and its literals is *)
(* written.  An ADD with %pc is the exception liveview.c knows of.         *)
RelocKeeps(mem, first, last, base, nops) ==
  LET copy == reloc_dlgliveviewapp(mem, first, last, base, nops)
      move == copy.entry - first
  IN Fixable(mem, first, last, base) =>
       /\ DOMAIN copy.words \subseteq base..last + move
       /\ \A pc \in (first..last) \ nops :
            LET instr == mem[pc]  new == copy.words[pc + move]  dest == pc + move + new.to + Ahead
            IN CASE instr.op = "branch" ->
                      new.op = "branch" /\ dest = IF Inside(Dest(mem, pc), first, last)
                                                  THEN Dest(mem, pc) + move ELSE Dest(mem, pc)
                 [] instr.op = "load" ->
                      new.op = "load" /\ (dest - move \notin nops => copy.words[dest] = mem[Dest(mem, pc)])
                 [] OTHER -> new = instr
=============================================================================
