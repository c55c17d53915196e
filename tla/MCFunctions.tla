---------------------------- MODULE MCFunctions -----------------------------
(* The parts that are functions, each on inputs of its own: the library of *)
(* stdio.c, the relocation of code, the tools for firmware files, the Lua  *)
(* compiler and Lua's patterns; and Lua's tables, on sequences of          *)
(* operations.  probe says which is looked at: first a kind, then perhaps a*)
(* group, then an input.                                                   *)
EXTENDS Stdlib, Reloc, Firmware, LuaTable

CONSTANTS MAXINDEXRK, LFIELDS_PER_FLUSH

Meaning == INSTANCE LuaMeaning
Folded(op, a, b) == Meaning!Arith(op, a, b)
Lua == INSTANCE LuaVM WITH Fold <- Folded
Pat == INSTANCE LuaPattern
Bin == INSTANCE LuaDump WITH SizeInt <- 2, SizeNumber <- 3, SizeInstruction <- 2, LUAI_MAXCCALLS <- 3

VARIABLE probe

-----------------------------------------------------------------------------
(* Inputs. *)

Digits(b) == { d \in UNION { [1..n -> {48, 57, 97, 70, 122}] : n \in 1..3 } :
                 \A i \in DOMAIN d : Digit(d[i]) < b }
Rests == {<<>>, <<32, 49>>, <<64>>, <<45>>}
Strings == UNION { [1..n -> {48, 97}] : n \in 0..3 }

Block(n) == [size |-> n, words |-> [i \in 0..(n - 1) \div 4 |-> <<n, i>>]]
Heaps == { (1 :> Block(n)) @@ (2 :> Block(8)) : n \in {3, 4, 8, 12} }

Words == {Plain(99), AddPc(1)} \cup { Branch(o) : o \in {-6, -3, -1, 0, 3} }
         \cup { Load(o) : o \in {-4, -1, 0, 2} }
Mem(f) == [a \in 0..20 |-> IF a \in 10..13 THEN f[a - 9] ELSE Plain(a)]

Cipher(n, k) == [i \in 1..n |-> {<<"input", 10 * k + i>>}]
Files == {"missing", <<>>, <<1>>, <<2, 3>>, <<7, 1, 2>>}

(* Pieces of patterns: a, b, ., %a, %A, [ab], [^a], a*, .-, .+, b?, (, ),  *)
(* (), %bab, %f[a], %1, $, ^, [%a]*; and patterns of any characters.       *)
Pieces == {
  <<97>>, <<98>>, <<46>>, <<37, 97>>, <<37, 65>>, <<91, 97, 98, 93>>, <<91, 94, 97, 93>>, <<97, 42>>,
  <<46, 45>>, <<46, 43>>, <<98, 63>>, <<40>>, <<41>>, <<40, 41>>, <<37, 98, 97, 98>>, <<37, 102, 91, 97, 93>>,
  <<37, 49>>, <<36>>, <<94>>, <<91, 37, 97, 93, 42>> }
From(x) ==
  {x} \cup { x \o y : y \in Pieces } \cup { x \o y \o z : y, z \in Pieces }
  \cup (IF x = <<40>> THEN { x \o y \o <<41>> \o z : y, z \in Pieces } ELSE {})
AnyPatterns ==
  { f \in UNION { [1..n -> {91, 93, 94, 37, 97, 45, 99, 40, 41}] : n \in 0..4 } : Len(f) = 4 => f[1] = 91 }
Subjects == {<<>>, <<97>>, <<98, 97>>, <<97, 97, 98>>, <<97, 98, 97, 98, 120>>, <<97, 97, 98, 98>>,
             <<99, 93>>, <<37, 45>>}

(* Compiled functions, in each other, with constants of every type, a      *)
(* string with a zero and an empty one among them, with and without what   *)
(* the debugger needs; then what goes wrong.                               *)
Compiled(source, ks, ps, debug, vararg) ==
  [source |-> source, linedefined |-> 300, lastlinedefined |-> 301, nups |-> 1, numparams |-> 2,
   is_vararg |-> vararg, maxstacksize |-> 3, code |-> <<259, 30>>, k |-> ks, p |-> ps,
   lineinfo |-> IF debug THEN <<300, 301>> ELSE <<>>,
   locvars  |-> IF debug THEN << <<<<97>>, 0, 1>>, <<<<98, 98>>, 1, 2>> >> ELSE <<>>,
   upvalues |-> IF debug THEN << <<99>> >> ELSE <<>>]
Ks == << <<0, 0>>, <<1, 1>>, <<1, 0>>, <<3, 70000>>, <<4, <<>>>>, <<4, <<97, 0, 98>>>> >>
Protos ==
  LET Leaf(source) == Compiled(source, << <<4, <<100>>>> >>, <<>>, FALSE, 0)
      Mid == Compiled(<<64, 98>>, <<>>, << Leaf(<<64, 97>>), Leaf(<<64, 98>>) >>, TRUE, 7)
  IN { Compiled(<<64, 97>>, ks, ps, debug, 2) :
         ks \in {<<>>, Ks}, ps \in {<<>>, << Leaf(<<64, 97>>) >>, << Leaf(<<64, 98>>), Mid >>}, debug \in BOOLEAN }
Failures == ({0} \X {1, 3, 99} \X {0}) \cup ({0} \X {7} \X (1..150)) \cup ((1..60) \X {7} \X {0})

Kinds == {"dump", "number", "string", "memory", "code", "decrypt", "dissect", "pack", "cut", "any"}

Inputs(k) ==
  CASE k = "number"  -> UNION { {b} \X Before(b) \X Digits(b) \X Rests : b \in {2, 8, 10, 16, 36} }
    [] k = "string"  -> Strings \X Strings
    [] k = "memory"  -> Heaps \X {1, 2, NULL} \X (0..13) \X {3, NULL}
    [] k = "code"    -> { <<f>> : f \in [1..4 -> Words] }
    [] k = "decrypt" -> (0..Word - 1) \X (0..4) \X (0..4) \X (0..1)
    [] k = "dissect" -> (0..9) \X (0..3) \X (0..6) \X (0..3) \X {0, 77, 255}
    [] k = "pack"    -> Files \X Files \X Files
    [] k = "cut"     -> { <<[i \in 1..n |-> i], a, b>> : n \in 0..3, a, b \in -5..5 }
    [] k = "any"     -> AnyPatterns
    [] k = "dump"    -> Protos \X BOOLEAN \X Failures \X {0, 1}

FnInit ==
  /\ TabInit /\ probe \in {<<"table">>, <<"kind">>}
  /\ probe = <<"kind">> => t = luaH_new(0, 0)

Table == probe = <<"table">> /\ TabNext /\ UNCHANGED probe
Kind  == probe = <<"kind">> /\ \E k \in Kinds : probe' = <<k>>
Input == \E k \in Kinds : probe = <<k>> /\ probe' \in {k} \X Inputs(k)

(* An expression, and then the chunks that use it.                         *)
Expr  == probe = <<"kind">> /\ probe' \in {"expr"} \X Lua!Expressions
Chunk == probe[1] = "expr" /\ probe' \in {"chunk"} \X Lua!Chunks(probe[2])

(* A chain of up to three "and" and "or", with constants among its         *)
(* operands, and then the chunks that use it.                              *)
AnyExpr == probe = <<"kind">> /\ probe' \in {"expr"} \X Lua!Chains

(* A piece of a pattern, and then the patterns that begin with it. *)
Piece   == probe = <<"kind">> /\ probe' \in {"piece"} \X Pieces
Pattern == probe[1] = "piece" /\ probe' \in {"pattern"} \X From(probe[2])

(* What was computed from the input is compared; on to the next. *)
Again == Len(probe) = 2 /\ probe[1] \notin {"expr", "piece"} /\ probe' = <<"kind">>

FnNext == Table \/ ((Kind \/ Input \/ Expr \/ Chunk \/ Piece \/ Pattern \/ Again) /\ UNCHANGED tabvars)

ChainNext == (AnyExpr \/ Chunk \/ Again) /\ UNCHANGED tabvars

Is(k) == probe[1] = k /\ Len(probe) = 2

-----------------------------------------------------------------------------
(* stdio.c does what C says of its functions: strtol and strtoul read every*)
(* number, with or without a prefix, and clip those that are too large;    *)
(* streq compares whole strings; realloc keeps the contents.               *)
LibraryAgrees ==
  LET i == probe[2]
  IN /\ Is("number") => ReadsNumber(i[2], i[3], i[4], i[1])
     /\ Is("string") => (streq(i[1], i[2]) <=> i[1] = i[2])
     /\ Is("memory") => ReallocKeeps(i[1], i[2], i[3], i[4])

(* The relocated code of reloc.c does what the original does.              *)
CodeMoves ==
  Is("code") => \A base \in {25, 40} : RelocKeeps(Mem(probe[2][1]), 10, 13, base, {11})

(* However the pieces are read, decrypt-block's output is that of one;     *)
(* dissect_fw loses nothing; what a pack of pack-fir says is found there.  *)
FilesAreWhole ==
  LET i == probe[2]
  IN /\ Is("decrypt") => ReadsDontMatter(<<Cipher(i[2], 1), Cipher(i[3], 2), Cipher(i[4], 3)>>, i[1])
     /\ Is("dissect") => PartsAreWhole(Cipher(i[1], 1), i[2], i[3], i[4], i[5])
     /\ Is("pack")    => PackReads(i[1], <<i[2], i[3]>>)

(* Patterns match what they say, gsub and gmatch go through the matches,   *)
(* and the places in a string count from either end: lstrlib.c.            *)
PatternsMatch ==
  LET i == probe[2]
  IN /\ Is("pattern") \/ Is("any") => Pat!FindsTheFirst(i, Subjects) /\ Pat!SubstitutesEach(i, Subjects)
     /\ Is("cut") => Pat!CutsBetween(i[1], i[2], i[3])

(* A function comes back from what string.dump has written: ldump.c,       *)
(* lundump.c, lzio.c.                                                      *)
FunctionsReturn ==
  LET i == probe[2]
  IN Is("dump") => Bin!LoadsWhatWasDumped(i[1], i[2], i[3][1], i[3][2], i[3][3], i[4])

(* The code the compiler makes of a chunk does what the chunk says, and    *)
(* passes luaG_checkcode, as close_func asserts: lparser.c and lcode.c.    *)
CompilesRight ==
  probe[1] = "chunk" =>
    LET fs == Lua!luaY_parser(Lua!Source(probe[2]))
    IN Lua!CodeIsSound(fs) /\ Lua!CompilesRight(probe[2], fs)

(* "check whether list has any jump that do not produce a value (or        *)
(* produce an inverted value)" (need_value): with its help exp2reg gives   *)
(* every boolean expression its value.                                     *)
BooleansRight ==
  probe[1] = "chunk" => Lua!CompilesRight(probe[2], Lua!luaY_parser(Lua!Source(probe[2])))

(* luaH_get, luaH_getn and the sizes after a rehash are those of the fields*)
(* the program has set.                                                    *)
HoldsFields == probe = <<"table">> => IsTheMap /\ Border /\ SizedWell
=============================================================================
