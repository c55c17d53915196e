------------------------------ MODULE LuaCode ------------------------------
(***************************************************************************)
(* The code generator of Lua (lcode.c): registers, constants, and the      *)
(* lists of pending jumps with which boolean expressions are compiled in a *)
(* single pass.  A jump list lives inside the code: each jump's offset     *)
(* leads to the next one until the jump is given its real target.          *)
(*                                                                         *)
(* fs is the FuncState, e an expdesc; an operator that changes both        *)
(* returns [fs, e], one that also makes or extends a list [fs, l].         *)
(* Positions (pc) count from 0, as in the code.                            *)
(***************************************************************************)
EXTENDS Integers, Sequences, FiniteSets

CONSTANTS
    MAXINDEXRK,     \* largest constant an RK operand can name
    Fold(_, _, _)   \* Fold(op, x, y): what arithmetic makes of two numbers

NO_JUMP == -1
NO_REG  == 255
BITRK   == 256      \* a constant's index in an RK operand is above this
ISK(x) == x >= BITRK
RKASK(x) == x + BITRK

Instr(op, a, b, c) == [op |-> op, a |-> a, b |-> b, c |-> c]
Exp(k, info, aux) == [k |-> k, info |-> info, aux |-> aux,
                      t |-> NO_JUMP, f |-> NO_JUMP]
FsE(fs, e) == [fs |-> fs, e |-> e]
FsL(fs, l) == [fs |-> fs, l |-> l]

pc(fs) == Len(fs.code)
at(fs, p) == fs.code[p + 1]
nactvar(fs) == Len(fs.act)
hasjumps(e) == e.t # e.f
isnumeral(e) == e.k = "VKNUM" /\ e.t = NO_JUMP /\ e.f = NO_JUMP
hasmultret(k) == k = "VCALL"
Asserted(fs, b) == [fs EXCEPT !.ok = @ /\ b]   \* lua_assert

testTMode(op) == op \in {"EQ", "LT", "LE", "TEST", "TESTSET"}

-----------------------------------------------------------------------------
(* Jump lists.  A jump keeps its offset in b.                              *)

fixjump(fs, p, dest) == [fs EXCEPT !.code[p + 1].b = dest - (p + 1)]
luaK_getlabel(fs) == [fs EXCEPT !.lasttarget = pc(fs)]

getjump(fs, p) ==
    IF at(fs, p).b = NO_JUMP THEN NO_JUMP ELSE p + 1 + at(fs, p).b

(* the jump itself, or the test right before it                            *)
getjumpcontrol(fs, p) ==
    IF p >= 1 /\ testTMode(at(fs, p - 1).op) THEN p - 1 ELSE p

RECURSIVE need_value(_, _)
need_value(fs, list) ==
    /\ list # NO_JUMP
    /\ \/ at(fs, getjumpcontrol(fs, list)).op # "TESTSET"
       \/ need_value(fs, getjump(fs, list))

CanPatch(fs, node) == at(fs, getjumpcontrol(fs, node)).op = "TESTSET"

patchtestreg(fs, node, reg) ==
    LET c == getjumpcontrol(fs, node)
        i == at(fs, c)
    IN  IF i.op # "TESTSET" THEN fs
        ELSE IF reg # NO_REG /\ reg # i.b THEN [fs EXCEPT !.code[c + 1].a = reg]
        ELSE [fs EXCEPT !.code[c + 1] = Instr("TEST", i.b, 0, i.c)]

RECURSIVE removevalues(_, _)
removevalues(fs, list) ==
    IF list = NO_JUMP THEN fs
    ELSE LET g == patchtestreg(fs, list, NO_REG) IN removevalues(g, getjump(g, list))

RECURSIVE patchlistaux(_, _, _, _, _)
patchlistaux(fs, list, vtarget, reg, dtarget) ==
    IF list = NO_JUMP THEN fs
    ELSE LET to == IF CanPatch(fs, list) THEN vtarget ELSE dtarget
         IN  patchlistaux(fixjump(patchtestreg(fs, list, reg), list, to),
                          getjump(fs, list), vtarget, reg, dtarget)

dischargejpc(fs) ==
    [patchlistaux(fs, fs.jpc, pc(fs), NO_REG, pc(fs)) EXCEPT !.jpc = NO_JUMP]

luaK_code(fs, i) == LET g == dischargejpc(fs) IN [g EXCEPT !.code = Append(@, i)]
luaK_codeABC(fs, op, a, b, c) == luaK_code(fs, Instr(op, a, b, c))

RECURSIVE LastJump(_, _)
LastJump(fs, list) ==
    IF getjump(fs, list) = NO_JUMP THEN list ELSE LastJump(fs, getjump(fs, list))

luaK_concat(fs, l1, l2) ==
    IF l2 = NO_JUMP THEN FsL(fs, l1)
    ELSE IF l1 = NO_JUMP THEN FsL(fs, l2)
    ELSE FsL(fixjump(fs, LastJump(fs, l1), l2), l1)

luaK_patchtohere(fs, list) ==
    LET r == luaK_concat(luaK_getlabel(fs), fs.jpc, list)
    IN  [r.fs EXCEPT !.jpc = r.l]

luaK_patchlist(fs, list, target) ==
    IF target = pc(fs) THEN luaK_patchtohere(fs, list)
    ELSE patchlistaux(fs, list, target, NO_REG, target)

luaK_jump(fs) ==
    LET g == luaK_codeABC([fs EXCEPT !.jpc = NO_JUMP], "JMP", 0, NO_JUMP, 0)
    IN  luaK_concat(g, pc(g) - 1, fs.jpc)

condjump(fs, op, a, b, c) == luaK_jump(luaK_codeABC(fs, op, a, b, c))

-----------------------------------------------------------------------------
(* Registers and constants.                                                *)

luaK_reserveregs(fs, n) ==
    LET top == fs.freereg + n
    IN  [fs EXCEPT !.freereg = top,
                   !.maxstacksize = IF top > @ THEN top ELSE @]

freereg(fs, reg) ==
    IF ISK(reg) \/ reg < nactvar(fs) THEN fs
    ELSE [Asserted(fs, reg = fs.freereg - 1) EXCEPT !.freereg = @ - 1]

freeexp(fs, e) == IF e.k = "VNONRELOC" THEN freereg(fs, e.info) ELSE fs

(* index of constant v, old or new                                         *)
addk(fs, v) ==
    IF \E i \in DOMAIN fs.k : fs.k[i] = v
    THEN FsL(fs, (CHOOSE i \in DOMAIN fs.k : fs.k[i] = v) - 1)
    ELSE FsL([fs EXCEPT !.k = Append(@, v)], Len(fs.k))

luaK_nil(fs, from, n) ==
    LET fresh == pc(fs) > fs.lasttarget
        prev == at(fs, pc(fs) - 1)
    IN  IF fresh /\ pc(fs) = 0 /\ from >= nactvar(fs) THEN fs
        ELSE IF fresh /\ pc(fs) > 0 /\ prev.op = "LOADNIL" /\ prev.a <= from
                /\ from <= prev.b + 1
        THEN [fs EXCEPT !.code[pc(fs)].b = IF from + n - 1 > @ THEN from + n - 1 ELSE @]
        ELSE luaK_codeABC(fs, "LOADNIL", from, from + n - 1, 0)

luaK_ret(fs, first, nret) == luaK_codeABC(fs, "RETURN", first, nret + 1, 0)

luaK_setreturns(fs, e, nresults) ==
    IF e.k = "VCALL" THEN [fs EXCEPT !.code[e.info + 1].c = nresults + 1] ELSE fs

luaK_setoneret(fs, e) ==
    IF e.k = "VCALL" THEN [e EXCEPT !.k = "VNONRELOC", !.info = at(fs, e.info).a] ELSE e

-----------------------------------------------------------------------------
(* Giving an expression a value, a register or an operand.                 *)

Relocable(fs, e) == FsE(fs, [e EXCEPT !.k = "VRELOCABLE", !.info = pc(fs) - 1])

luaK_dischargevars(fs, e) ==
    CASE e.k = "VLOCAL" -> FsE(fs, [e EXCEPT !.k = "VNONRELOC"])
      [] e.k = "VGLOBAL" -> Relocable(luaK_codeABC(fs, "GETGLOBAL", 0, e.info, 0), e)
      [] e.k = "VINDEXED" ->
            LET g == freereg(freereg(fs, e.aux), e.info)
            IN  Relocable(luaK_codeABC(g, "GETTABLE", 0, e.info, e.aux), e)
      [] OTHER -> FsE(fs, luaK_setoneret(fs, e))

discharge2reg(fs, e, reg) ==
    LET r == luaK_dischargevars(fs, e)
        g == r.fs
        num == addk(g, r.e.info)
        done == [r.e EXCEPT !.k = "VNONRELOC", !.info = reg]
    IN  CASE r.e.k = "VNIL" -> FsE(luaK_nil(g, reg, 1), done)
          [] r.e.k = "VFALSE" -> FsE(luaK_codeABC(g, "LOADBOOL", reg, 0, 0), done)
          [] r.e.k = "VTRUE" -> FsE(luaK_codeABC(g, "LOADBOOL", reg, 1, 0), done)
          [] r.e.k = "VK" -> FsE(luaK_codeABC(g, "LOADK", reg, r.e.info, 0), done)
          [] r.e.k = "VKNUM" -> FsE(luaK_codeABC(num.fs, "LOADK", reg, num.l, 0), done)
          [] r.e.k = "VRELOCABLE" -> FsE([g EXCEPT !.code[r.e.info + 1].a = reg], done)
          [] r.e.k = "VNONRELOC" ->
                FsE(IF reg = r.e.info THEN g ELSE luaK_codeABC(g, "MOVE", reg, r.e.info, 0),
                    done)
          [] OTHER -> r

discharge2anyreg(fs, e) ==
    IF e.k = "VNONRELOC" THEN FsE(fs, e)
    ELSE LET g == luaK_reserveregs(fs, 1) IN discharge2reg(g, e, g.freereg - 1)

code_label(fs, a, b, jump) == luaK_codeABC(luaK_getlabel(fs), "LOADBOOL", a, b, jump)

exp2reg(fs, e, reg) ==
    LET r == discharge2reg(fs, e, reg)
        own == r.e.k = "VJMP"
        T == IF own THEN luaK_concat(r.fs, r.e.t, r.e.info) ELSE FsL(r.fs, r.e.t)
        need == need_value(T.fs, T.l) \/ need_value(T.fs, r.e.f)
        J == IF own THEN FsL(T.fs, NO_JUMP) ELSE luaK_jump(T.fs)
        F1 == code_label(J.fs, reg, 0, 1)
        F2 == code_label(F1, reg, 1, 0)
        p_f == IF need THEN pc(F1) - 1 ELSE NO_JUMP
        p_t == IF need THEN pc(F2) - 1 ELSE NO_JUMP
        g == luaK_getlabel(IF need THEN luaK_patchtohere(F2, J.l) ELSE T.fs)
        out == [r.e EXCEPT !.k = "VNONRELOC", !.info = reg, !.t = NO_JUMP, !.f = NO_JUMP]
    IN  IF T.l = r.e.f THEN FsE(T.fs, out)
        ELSE FsE(patchlistaux(patchlistaux(g, r.e.f, pc(g), reg, p_f),
                              T.l, pc(g), reg, p_t), out)

luaK_exp2nextreg(fs, e) ==
    LET r == luaK_dischargevars(fs, e)
        g == luaK_reserveregs(freeexp(r.fs, r.e), 1)
    IN  exp2reg(g, r.e, g.freereg - 1)

luaK_exp2anyreg(fs, e) ==
    LET r == luaK_dischargevars(fs, e)
    IN  IF r.e.k = "VNONRELOC" /\ ~hasjumps(r.e) THEN r
        ELSE IF r.e.k = "VNONRELOC" /\ r.e.info >= nactvar(r.fs)
        THEN exp2reg(r.fs, r.e, r.e.info)
        ELSE luaK_exp2nextreg(r.fs, r.e)

luaK_exp2val(fs, e) ==
    IF hasjumps(e) THEN luaK_exp2anyreg(fs, e) ELSE luaK_dischargevars(fs, e)

(* The constants nil, true and false have the values -1, -2 and -3 in fs.k.*)
NilK == -1
FalseK == -2
TrueK == -3

(* [fs, e, l]: l is the operand                                            *)
luaK_exp2RK(fs, e) ==
    LET r == luaK_exp2val(fs, e)
        lit == r.e.k \in {"VKNUM", "VTRUE", "VFALSE", "VNIL"}
        c == addk(r.fs, CASE r.e.k = "VNIL" -> NilK [] r.e.k = "VTRUE" -> TrueK
                          [] r.e.k = "VFALSE" -> FalseK [] OTHER -> r.e.info)
        a == luaK_exp2anyreg(r.fs, r.e)
    IN  IF lit /\ Len(r.fs.k) <= MAXINDEXRK
        THEN [fs |-> c.fs, e |-> [r.e EXCEPT !.k = "VK", !.info = c.l], l |-> RKASK(c.l)]
        ELSE IF r.e.k = "VK" /\ r.e.info <= MAXINDEXRK
        THEN [fs |-> r.fs, e |-> r.e, l |-> RKASK(r.e.info)]
        ELSE [fs |-> a.fs, e |-> a.e, l |-> a.e.info]

luaK_storevar(fs, var, ex) ==
    LET any == luaK_exp2anyreg(fs, ex)
        rk == luaK_exp2RK(fs, ex)
    IN  CASE var.k = "VLOCAL" -> exp2reg(freeexp(fs, ex), ex, var.info).fs
          [] var.k = "VGLOBAL" ->
                freeexp(luaK_codeABC(any.fs, "SETGLOBAL", any.e.info, var.info, 0), any.e)
          [] var.k = "VINDEXED" ->
                freeexp(luaK_codeABC(rk.fs, "SETTABLE", var.info, var.aux, rk.l), rk.e)

luaK_self(fs, e, key) ==
    LET r == luaK_exp2anyreg(fs, e)
        g == freeexp(r.fs, r.e)
        k == luaK_exp2RK(luaK_reserveregs(g, 2), key)
        h == luaK_codeABC(k.fs, "SELF", g.freereg, r.e.info, k.l)
    IN  FsE(freeexp(h, k.e), Exp("VNONRELOC", g.freereg, 0))

luaK_indexed(fs, t, k) ==
    LET r == luaK_exp2RK(fs, k)
    IN  FsE(r.fs, [t EXCEPT !.k = "VINDEXED", !.aux = r.l])

luaK_setlist(fs, base, nelems, tostore, perFlush) ==
    [luaK_codeABC(fs, "SETLIST", base, tostore, (nelems - 1) \div perFlush + 1)
        EXCEPT !.freereg = base + 1]

-----------------------------------------------------------------------------
(* Conditions.                                                             *)

invertjump(fs, e) ==
    LET c == getjumpcontrol(fs, e.info)
    IN  [Asserted(fs, at(fs, c).op \in {"EQ", "LT", "LE"}) EXCEPT !.code[c + 1].a = 1 - @]

jumponcond(fs, e, cond) ==
    LET i == at(fs, e.info)
        r == discharge2anyreg(fs, e)
    IN  IF e.k = "VRELOCABLE" /\ i.op = "NOT"
        THEN condjump([fs EXCEPT !.code = SubSeq(@, 1, Len(@) - 1)],
                      "TEST", i.b, 0, 1 - cond)
        ELSE condjump(freeexp(r.fs, r.e), "TESTSET", NO_REG, r.e.info, cond)

(* Code to go through if e is true, jump otherwise; and the other way.     *)
luaK_goiftrue(fs, e) ==
    LET r == luaK_dischargevars(fs, e)
        J == CASE r.e.k \in {"VK", "VKNUM", "VTRUE"} -> FsL(r.fs, NO_JUMP)
               [] r.e.k = "VFALSE" -> luaK_jump(r.fs)
               [] r.e.k = "VJMP" -> FsL(invertjump(r.fs, r.e), r.e.info)
               [] OTHER -> jumponcond(r.fs, r.e, 0)
        F == luaK_concat(J.fs, r.e.f, J.l)
    IN  FsE(luaK_patchtohere(F.fs, r.e.t), [r.e EXCEPT !.f = F.l, !.t = NO_JUMP])

luaK_goiffalse(fs, e) ==
    LET r == luaK_dischargevars(fs, e)
        J == CASE r.e.k \in {"VNIL", "VFALSE"} -> FsL(r.fs, NO_JUMP)
               [] r.e.k = "VTRUE" -> luaK_jump(r.fs)
               [] r.e.k = "VJMP" -> FsL(r.fs, r.e.info)
               [] OTHER -> jumponcond(r.fs, r.e, 1)
        T == luaK_concat(J.fs, r.e.t, J.l)
    IN  FsE(luaK_patchtohere(T.fs, r.e.f), [r.e EXCEPT !.t = T.l, !.f = NO_JUMP])

codenot(fs, e) ==
    LET r == luaK_dischargevars(fs, e)
        a == discharge2anyreg(r.fs, r.e)
        n == CASE r.e.k \in {"VNIL", "VFALSE"} -> FsE(r.fs, [r.e EXCEPT !.k = "VTRUE"])
               [] r.e.k \in {"VK", "VKNUM", "VTRUE"} ->
                     FsE(r.fs, [r.e EXCEPT !.k = "VFALSE"])
               [] r.e.k = "VJMP" -> FsE(invertjump(r.fs, r.e), r.e)
               [] OTHER -> Relocable(luaK_codeABC(freeexp(a.fs, a.e), "NOT", 0, a.e.info, 0),
                                     a.e)
    IN  FsE(removevalues(removevalues(n.fs, n.e.t), n.e.f),
            [n.e EXCEPT !.t = n.e.f, !.f = n.e.t])

-----------------------------------------------------------------------------
(* Operators.                                                              *)

(* the one in the higher register first                                    *)
FreeBoth(fs, e1, o1, e2, o2) ==
    IF o1 > o2 THEN freeexp(freeexp(fs, e1), e2) ELSE freeexp(freeexp(fs, e2), e1)

codearith(fs, op, e1, e2) ==
    LET none == [fs |-> fs, e |-> e2, l |-> 0]
        r2 == IF op \in {"UNM", "LEN"} THEN none ELSE luaK_exp2RK(fs, e2)
        r1 == luaK_exp2RK(r2.fs, e1)
        g == FreeBoth(r1.fs, r1.e, r1.l, r2.e, r2.l)
    IN  IF isnumeral(e1) /\ isnumeral(e2) /\ op # "LEN"
        THEN FsE(fs, [e1 EXCEPT !.info = Fold(op, e1.info, e2.info)])   \* constfolding
        ELSE Relocable(luaK_codeABC(g, op, 0, r1.l, r2.l), r1.e)

codecomp(fs, op, cond, e1, e2) ==
    LET r1 == luaK_exp2RK(fs, e1)
        r2 == luaK_exp2RK(r1.fs, e2)
        g == freeexp(freeexp(r2.fs, r2.e), r1.e)
        J == IF cond = 0 /\ op # "EQ" THEN condjump(g, op, 1, r2.l, r1.l)
             ELSE condjump(g, op, cond, r1.l, r2.l)
    IN  FsE(J.fs, [r1.e EXCEPT !.k = "VJMP", !.info = J.l])

luaK_prefix(fs, op, e) ==
    LET zero == Exp("VKNUM", 0, 0)
        r == luaK_exp2anyreg(fs, e)
    IN  CASE op = "not" -> codenot(fs, e)
          [] op = "minus" /\ isnumeral(e) -> codearith(fs, "UNM", e, zero)
          [] op = "minus" /\ ~isnumeral(e) -> codearith(r.fs, "UNM", r.e, zero)
          [] op = "len" -> codearith(r.fs, "LEN", r.e, zero)

luaK_infix(fs, op, v) ==
    LET r == luaK_exp2RK(fs, v)
    IN  CASE op = "and" -> luaK_goiftrue(fs, v)
          [] op = "or" -> luaK_goiffalse(fs, v)
          [] op = "concat" -> luaK_exp2nextreg(fs, v)
          [] op \in {"add", "pow"} /\ isnumeral(v) -> FsE(fs, v)
          [] OTHER -> FsE(r.fs, r.e)

luaK_posfix(fs, op, e1, e2) ==
    LET d == luaK_dischargevars(fs, e2)
        F == luaK_concat(d.fs, d.e.f, e1.f)
        T == luaK_concat(d.fs, d.e.t, e1.t)
        v == luaK_exp2val(fs, e2)
        x == luaK_exp2nextreg(v.fs, v.e)
    IN  CASE op = "and" -> FsE(Asserted(F.fs, e1.t = NO_JUMP), [d.e EXCEPT !.f = F.l])
          [] op = "or" -> FsE(Asserted(T.fs, e1.f = NO_JUMP), [d.e EXCEPT !.t = T.l])
          [] op = "concat" ->
                IF v.e.k = "VRELOCABLE" /\ at(v.fs, v.e.info).op = "CONCAT"
                THEN FsE([freeexp(Asserted(v.fs, e1.info = at(v.fs, v.e.info).b - 1), e1)
                             EXCEPT !.code[v.e.info + 1].b = e1.info],
                         [e1 EXCEPT !.k = "VRELOCABLE", !.info = v.e.info])
                ELSE codearith(x.fs, "CONCAT", e1, x.e)
          [] op = "add" -> codearith(fs, "ADD", e1, e2)
          [] op = "pow" -> codearith(fs, "POW", e1, e2)
          [] op = "eq" -> codecomp(fs, "EQ", 1, e1, e2)
          [] op = "ne" -> codecomp(fs, "EQ", 0, e1, e2)
          [] op = "lt" -> codecomp(fs, "LT", 1, e1, e2)
          [] op = "le" -> codecomp(fs, "LE", 1, e1, e2)
          [] op = "gt" -> codecomp(fs, "LT", 0, e1, e2)
          [] op = "ge" -> codecomp(fs, "LE", 0, e1, e2)

=============================================================================
