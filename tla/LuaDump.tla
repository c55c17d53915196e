------------------------------ MODULE LuaDump ------------------------------
(***************************************************************************)
(* Compiled Lua functions as bytes: string.dump and luaU_dump write one,   *)
(* block by block, lua_load and luaU_undump read it from a reader that     *)
(* hands out pieces of any sizes (ldump.c, lundump.c, lzio.c).             *)
(*                                                                         *)
(* A function is a record; its constants are pairs of a type and a value,  *)
(* its local variables triples; strings are sequences of bytes.            *)
(***************************************************************************)
EXTENDS Integers, Sequences, SequencesExt

CONSTANTS
  SizeInt, SizeNumber, SizeInstruction,     (* bytes of each               *)
  LUAI_MAXCCALLS                            (* functions in functions      *)

NULL == << -1 >>                                           (* no string *)
LUA_TNIL == 0
LUA_TBOOLEAN == 1
LUA_TNUMBER == 3
LUA_TSTRING == 4

Bytes(x, n) == [i \in 1..n |-> ((x % 256^n) \div 256^(i - 1)) % 256]
Value(b)    == FoldRight(LAMBDA byte, v : byte + 256 * v, b, 0)
Signed(b)   == IF b # <<>> /\ Last(b) >= 128 THEN Value(b) - 256^Len(b) ELSE Value(b)

(* "\033Lua", the version, the format, the byte order, and the sizes.      *)
luaU_header == << 27, 76, 117, 97, 81, 0, 1, SizeInt, SizeInt, SizeInstruction, SizeNumber, 0 >>

-----------------------------------------------------------------------------
(* The blocks that the writer is given.                                    *)

DumpInt(x) == << Bytes(x, SizeInt) >>
DumpChar(x) == << Bytes(x, 1) >>
DumpVector(es, size) == DumpInt(Len(es)) \o << FlattenSeq([i \in DOMAIN es |-> Bytes(es[i], size)]) >>
DumpString(s) == IF s = NULL THEN DumpInt(0) ELSE DumpInt(Len(s) + 1) \o << Append(s, 0) >>

DumpConstant(k) ==
  DumpChar(k[1]) \o CASE k[1] = LUA_TNIL     -> <<>>
                      [] k[1] = LUA_TBOOLEAN -> DumpChar(k[2])
                      [] k[1] = LUA_TNUMBER  -> << Bytes(k[2], SizeNumber) >>
                      [] k[1] = LUA_TSTRING  -> DumpString(k[2])

DumpDebug(f, strip) ==
  LET Kept(s) == IF strip THEN <<>> ELSE s
      locvar(v) == DumpString(v[1]) \o DumpInt(v[2]) \o DumpInt(v[3])
  IN DumpVector(Kept(f.lineinfo), SizeInt)
     \o DumpInt(Len(Kept(f.locvars)))  \o FlattenSeq([i \in DOMAIN Kept(f.locvars) |-> locvar(f.locvars[i])])
     \o DumpInt(Len(Kept(f.upvalues))) \o FlattenSeq([i \in DOMAIN Kept(f.upvalues) |-> DumpString(f.upvalues[i])])

RECURSIVE DumpFunction(_, _, _)
DumpFunction(f, p, strip) ==
  DumpString(IF f.source = p \/ strip THEN NULL ELSE f.source)
  \o DumpInt(f.linedefined) \o DumpInt(f.lastlinedefined)
  \o DumpChar(f.nups) \o DumpChar(f.numparams) \o DumpChar(f.is_vararg) \o DumpChar(f.maxstacksize)
  \o DumpVector(f.code, SizeInstruction)
  \o DumpInt(Len(f.k)) \o FlattenSeq([i \in DOMAIN f.k |-> DumpConstant(f.k[i])])
  \o DumpInt(Len(f.p)) \o FlattenSeq([i \in DOMAIN f.p |-> DumpFunction(f.p[i], f.source, strip)])
  \o DumpDebug(f, strip)

(* The writer refuses one of the blocks, perhaps: no other is written.     *)
luaU_dump(f, strip, refused) ==
  LET blocks == << luaU_header >> \o DumpFunction(f, NULL, strip)
      fails  == refused \in DOMAIN blocks
  IN [out |-> IF fails THEN SubSeq(blocks, 1, refused - 1) ELSE blocks, status |-> IF fails THEN 1 ELSE 0]

-----------------------------------------------------------------------------
(* The stream: what is left of the piece at hand, and the pieces that the  *)
(* reader has still to give; an empty one is the end.                      *)

luaZ_init(pieces) == [p |-> <<>>, more |-> pieces]
EOZ == -1

luaZ_fill(z) == IF z.p # <<>> \/ z.more = <<>> THEN z ELSE [p |-> Head(z.more), more |-> Tail(z.more)]
luaZ_lookahead(z) == LET y == luaZ_fill(z) IN IF y.p = <<>> THEN EOZ ELSE y.p[1]

(* n bytes, or how many are missing. *)
RECURSIVE luaZ_read(_, _)
luaZ_read(z, n) ==
  LET y == luaZ_fill(z)
      m == IF n <= Len(y.p) THEN n ELSE Len(y.p)
      r == luaZ_read([y EXCEPT !.p = SubSeq(@, m + 1, Len(@))], n - m)
  IN IF n = 0 \/ y.p = <<>> THEN [z |-> z, b |-> <<>>, missing |-> n]
     ELSE [r EXCEPT !.b = SubSeq(y.p, 1, m) \o @]

-----------------------------------------------------------------------------
(* S is the stream, the value read last, the depth, and the error that has *)
(* ended the loading, if any.                                              *)

Fail(S, why) == IF S.error = "" THEN [S EXCEPT !.error = why] ELSE S

LoadBlock(S, n) ==
  LET r == luaZ_read(S.z, n)
      T == [S EXCEPT !.z = r.z, !.v = r.b]
  IN IF S.error # "" THEN S ELSE IF r.missing > 0 THEN Fail(T, "unexpected end") ELSE T

As(type, b) ==
  CASE type = "int" -> Signed(b) [] type \in {"byte", "size", "number"} -> Value(b)
    [] type = "bool" -> (IF b[1] # 0 THEN 1 ELSE 0) [] type = "string" -> Front(b)

LoadAs(S, n, type) == LET T == LoadBlock(S, n) IN IF T.error # "" THEN T ELSE [T EXCEPT !.v = As(type, @)]

LoadInt(S)  == LET T == LoadAs(S, SizeInt, "int") IN IF T.error = "" /\ T.v < 0 THEN Fail(T, "bad integer") ELSE T
LoadByte(S) == LoadAs(S, 1, "byte")

(* The length is a size_t, which has no sign; the '\0' is not kept.        *)
LoadString(S) ==
  LET T == LoadAs(S, SizeInt, "size")
  IN IF T.error # "" THEN T
     ELSE IF T.v = 0 THEN [T EXCEPT !.v = NULL]
     ELSE LoadAs(T, T.v, "string")

(* One after the other, as fields of a structure. *)
LoadFields(S, kinds) ==
  LET Load(T, kind) == CASE kind = "string" -> LoadString(T) [] kind = "int" -> LoadInt(T) [] kind = "byte" -> LoadByte(T)
      r == FoldLeft(LAMBDA a, kind : LET T == Load(a.S, kind) IN [S |-> T, vs |-> Append(a.vs, T.v)],
                    [S |-> S, vs |-> <<>>], kinds)
  IN [r.S EXCEPT !.v = r.vs]

LoadConstant(S) ==
  LET T == LoadByte(S)
      U == CASE T.v = LUA_TNIL     -> [T EXCEPT !.v = 0]
             [] T.v = LUA_TBOOLEAN -> LoadAs(T, 1, "bool")
             [] T.v = LUA_TNUMBER  -> LoadAs(T, SizeNumber, "number")
             [] T.v = LUA_TSTRING  -> LoadString(T)
             [] OTHER              -> Fail(T, "bad constant")
  IN IF T.error # "" THEN T ELSE [U EXCEPT !.v = << T.v, @ >>]

(* As many of them as the integer that comes first says; source is what a  *)
(* function without one gets.                                              *)
RECURSIVE LoadFunction(_, _)
LoadOne(S, kind, source) ==
  CASE kind = "instruction" -> LoadAs(S, SizeInstruction, "size")
    [] kind = "line"        -> LoadAs(S, SizeInt, "size")
    [] kind = "constant"    -> LoadConstant(S)
    [] kind = "function"    -> LoadFunction(S, source)
    [] kind = "variable"    -> LoadFields(S, << "string", "int", "int" >>)
    [] kind = "name"        -> LoadString(S)

LoadVector(S, kind, source) ==
  LET T == LoadInt(S)
      r == FoldLeft(LAMBDA a, i : LET U == LoadOne(a.S, kind, source) IN [S |-> U, vs |-> Append(a.vs, U.v)],
                    [S |-> T, vs |-> <<>>], [i \in 1..(IF T.error = "" THEN T.v ELSE 0) |-> i])
  IN IF r.S.error # "" THEN r.S ELSE [r.S EXCEPT !.v = r.vs]

(* luaG_checkcode before it goes through the instructions.                 *)
precheck(f) ==
  LET hasarg == f.is_vararg % 2
      needsarg == (f.is_vararg \div 4) % 2
  IN /\ f.maxstacksize <= 250 /\ f.numparams + hasarg <= f.maxstacksize
     /\ needsarg <= hasarg /\ Len(f.upvalues) <= f.nups
     /\ Len(f.lineinfo) \in {0, Len(f.code)}
     /\ f.code # <<>> /\ Last(f.code) % 64 = 30

LoadFunction(S0, p) ==
  LET deep   == S0.nCcalls + 1 > LUAI_MAXCCALLS
      head   == LoadFields([S0 EXCEPT !.nCcalls = @ + 1], << "string", "int", "int", "byte", "byte", "byte", "byte" >>)
      source == IF head.v[1] = NULL THEN p ELSE head.v[1]
      code   == LoadVector(head, "instruction", source)
      ks     == LoadVector(code, "constant", source)
      ps     == LoadVector(ks, "function", source)
      lines  == LoadVector(ps, "line", source)
      locs   == LoadVector(lines, "variable", source)
      ups    == LoadVector(locs, "name", source)
      f == [source |-> source, linedefined |-> head.v[2], lastlinedefined |-> head.v[3], nups |-> head.v[4],
            numparams |-> head.v[5], is_vararg |-> head.v[6], maxstacksize |-> head.v[7],
            code |-> code.v, k |-> ks.v, p |-> ps.v, lineinfo |-> lines.v, locvars |-> locs.v, upvalues |-> ups.v]
  IN IF S0.error # "" THEN S0
     ELSE IF deep THEN Fail(S0, "code too deep")
     ELSE IF ups.error # "" THEN ups
     ELSE IF ~precheck(f) THEN Fail(ups, "bad code")
     ELSE [ups EXCEPT !.v = f, !.nCcalls = @ - 1]

luaU_undump(z, nCcalls) ==
  LET S == LoadBlock([z |-> z, v |-> <<>>, error |-> "", nCcalls |-> nCcalls], Len(luaU_header))
  IN IF S.error = "" /\ S.v # luaU_header THEN Fail(S, "bad header")
     ELSE LoadFunction(S, << 61, 63 >>)

(* f_parser: what does not begin as a dump is a text, for luaY_parser.     *)
lua_load(pieces, nCcalls) ==
  LET z == luaZ_init(pieces)
  IN IF luaZ_lookahead(z) = luaU_header[1] THEN luaU_undump(z, nCcalls) ELSE [error |-> "text"]

-----------------------------------------------------------------------------
Cut(bytes, n) ==
  [i \in 1..(Len(bytes) + n - 1) \div n |->
     SubSeq(bytes, n * (i - 1) + 1, IF n * i < Len(bytes) THEN n * i ELSE Len(bytes))]

(* The function as it should come back: a stripped one has lost its debug  *)
(* information, sources too, and takes its name from lundump.c.            *)
RECURSIVE AsLoaded(_, _, _)
AsLoaded(f, p, strip) ==
  LET source == IF strip \/ f.source = NULL THEN p ELSE f.source
      g == IF strip THEN [f EXCEPT !.lineinfo = <<>>, !.locvars = <<>>, !.upvalues = <<>>] ELSE f
  IN [g EXCEPT !.source = source, !.p = [i \in DOMAIN @ |-> AsLoaded(@[i], source, strip)]]

RECURSIVE Depth(_)
Depth(f) == 1 + FoldLeft(LAMBDA d, g : IF Depth(g) > d THEN Depth(g) ELSE d, 0, f.p)

(* What string.dump has written is loaded as the same function, however it *)
(* is cut into pieces, unless functions are nested too deeply; with its    *)
(* last bytes missing, or blocks the writer refused, it is not loaded.     *)
(* Played back block by block it is, unless one of them is empty.          *)
LoadsWhatWasDumped(f, strip, refused, n, missing, nCcalls) ==
  LET d == luaU_dump(f, strip, refused)
      bytes == FlattenSeq(d.out)
      whole == d.status = 0 /\ missing = 0
      Loads(l) == IF nCcalls + Depth(f) > LUAI_MAXCCALLS THEN l.error \notin {"", "text"}
                  ELSE l.error = "" /\ l.v = AsLoaded(f, << 61, 63 >>, strip) /\ l.nCcalls = nCcalls
      l == lua_load(Cut(SubSeq(bytes, 1, Len(bytes) - missing), n), nCcalls)
      blockwise == lua_load(d.out, nCcalls)
  IN /\ IF whole THEN Loads(l) ELSE l.error # ""
     /\ whole => IF <<>> \in ToSet(d.out) THEN blockwise.error # "" ELSE Loads(blockwise)
=============================================================================
