------------------------------ MODULE LuaParse -----------------------------
(***************************************************************************)
(* The parser of Lua (lparser.c), which drives the code generator as it    *)
(* reads: one pass, no tree.  A token is [t |-> its kind, v |-> what it    *)
(* carries]; fs also holds what the LexState holds, the tokens and the     *)
(* position p of the current one.                                          *)
(*                                                                         *)
(* Left out: nested functions and their upvalues, "..." and generic for.   *)
(***************************************************************************)
EXTENDS LuaCode

CONSTANT LFIELDS_PER_FLUSH  \* list items of a constructor stored at once

(* ORDER OPR: left and right priorities                                    *)
binary == {"add", "pow", "concat", "ne", "eq", "lt", "le", "gt", "ge", "and", "or"}
left == [add |-> 6, pow |-> 10, concat |-> 5, ne |-> 3, eq |-> 3, lt |-> 3,
         le |-> 3, gt |-> 3, ge |-> 3, and |-> 2, or |-> 1]
right == [left EXCEPT !.pow = 9, !.concat = 4]
unary == {"not", "minus", "len"}
UNARY_PRIORITY == 8

open_func(toks) ==
    [toks |-> toks, p |-> 1, code |-> <<>>, k |-> <<>>, jpc |-> NO_JUMP,
     lasttarget |-> -1, freereg |-> 0, maxstacksize |-> 2, act |-> <<>>,
     new |-> <<>>, bl |-> <<>>, ok |-> TRUE]

token(fs) == fs.toks[fs.p].t
seminfo(fs) == fs.toks[fs.p].v
luaX_next(fs) == [fs EXCEPT !.p = @ + 1]
checknext(fs, t) == luaX_next(Asserted(fs, token(fs) = t))
block_follow(t) == t \in {"else", "elseif", "end", "until", "eos"}

-----------------------------------------------------------------------------
(* Names.                                                                  *)

new_localvar(fs, name) == [fs EXCEPT !.new = Append(@, name)]

adjustlocalvars(fs, n) ==
    [fs EXCEPT !.act = @ \o SubSeq(fs.new, 1, n),
               !.new = SubSeq(@, n + 1, Len(@))]

removevars(fs, tolevel) == [fs EXCEPT !.act = SubSeq(@, 1, tolevel)]

searchvar(fs, n) ==
    LET here == {i \in DOMAIN fs.act : fs.act[i] = n}
    IN  IF here = {} THEN -1 ELSE (CHOOSE i \in here : \A j \in here : i >= j) - 1

codestring(fs, s) == LET r == addk(fs, s) IN FsE(r.fs, Exp("VK", r.l, 0))

singlevar(fs) ==
    LET n == seminfo(fs)
        r == addk(fs, n)
    IN  IF searchvar(fs, n) >= 0
        THEN FsE(luaX_next(fs), Exp("VLOCAL", searchvar(fs, n), 0))
        ELSE FsE(luaX_next(r.fs), Exp("VGLOBAL", r.l, 0))

-----------------------------------------------------------------------------
(* Blocks.                                                                 *)

enterblock(fs, isbreakable) ==
    [Asserted(fs, fs.freereg = nactvar(fs)) EXCEPT
        !.bl = Append(@, [breaklist |-> NO_JUMP, isbreakable |-> isbreakable,
                          nactvar |-> nactvar(fs)])]

leaveblock(fs) ==
    LET b == fs.bl[Len(fs.bl)]
        g == removevars([fs EXCEPT !.bl = SubSeq(@, 1, Len(@) - 1)], b.nactvar)
    IN  luaK_patchtohere([g EXCEPT !.freereg = b.nactvar], b.breaklist)

breakstat(fs) ==
    LET loops == {i \in DOMAIN fs.bl : fs.bl[i].isbreakable}
        i == CHOOSE x \in loops : \A y \in loops : y <= x
        J == luaK_jump(fs)
        B == luaK_concat(J.fs, fs.bl[i].breaklist, J.l)
    IN  [B.fs EXCEPT !.bl[i].breaklist = B.l]

-----------------------------------------------------------------------------
(* Expressions.                                                            *)

RECURSIVE subexpr(_, _), BinaryTail(_, _, _), simpleexp(_), primaryexp(_), Suffixes(_, _)
RECURSIVE explist1(_), MoreExps(_, _, _), constructor(_), Fields(_, _)
RECURSIVE chunk(_), Statements(_), statement(_)

expr(fs) == subexpr(fs, 0)

subexpr(fs, limit) ==
    LET op == token(fs)
        r == subexpr(luaX_next(fs), UNARY_PRIORITY)
        s == IF op \in unary THEN luaK_prefix(r.fs, op, r.e) ELSE simpleexp(fs)
    IN  BinaryTail(s.fs, s.e, limit)

BinaryTail(fs, e, limit) ==
    LET op == token(fs)
        a == luaK_infix(luaX_next(fs), op, e)
        b == subexpr(a.fs, right[op])
        c == luaK_posfix(b.fs, op, a.e, b.e)
    IN  IF op \notin binary THEN FsE(fs, e)
        ELSE IF left[op] <= limit THEN FsE(fs, e)
        ELSE BinaryTail(c.fs, c.e, limit)

simpleexp(fs) ==
    LET t == token(fs)
        s == codestring(fs, seminfo(fs))
    IN  CASE t = "number" -> FsE(luaX_next(fs), Exp("VKNUM", seminfo(fs), 0))
          [] t = "string" -> FsE(luaX_next(s.fs), s.e)
          [] t = "nil" -> FsE(luaX_next(fs), Exp("VNIL", 0, 0))
          [] t = "true" -> FsE(luaX_next(fs), Exp("VTRUE", 0, 0))
          [] t = "false" -> FsE(luaX_next(fs), Exp("VFALSE", 0, 0))
          [] t = "{" -> constructor(fs)
          [] OTHER -> primaryexp(fs)

(* prefixexp, then what follows it                                         *)
primaryexp(fs) ==
    LET in == expr(luaX_next(fs))
        d == luaK_dischargevars(checknext(in.fs, ")"), in.e)
        v == singlevar(fs)
    IN  IF token(fs) = "(" THEN Suffixes(d.fs, d.e) ELSE Suffixes(v.fs, v.e)

field(fs, v) ==
    LET r == luaK_exp2anyreg(fs, v)
        k == codestring(luaX_next(r.fs), seminfo(luaX_next(r.fs)))
    IN  luaK_indexed(luaX_next(k.fs), r.e, k.e)

yindex(fs) ==
    LET r == expr(luaX_next(fs))
        v == luaK_exp2val(r.fs, r.e)
    IN  FsE(checknext(v.fs, "]"), v.e)

funcargs(fs, f) ==
    LET empty == token(luaX_next(fs)) = ")"
        r == explist1(luaX_next(fs))
        open == ~empty /\ hasmultret(r.e.k)
        a == IF empty THEN luaX_next(luaX_next(fs))
             ELSE IF open THEN checknext(luaK_setreturns(r.fs, r.e, -1), ")")
             ELSE luaK_exp2nextreg(checknext(r.fs, ")"), r.e).fs
        g == luaK_codeABC(Asserted(a, f.k = "VNONRELOC"), "CALL", f.info,
                          IF open THEN 0 ELSE a.freereg - f.info, 2)
    IN  FsE([g EXCEPT !.freereg = f.info + 1], Exp("VCALL", pc(g) - 1, 0))

Suffixes(fs, v) ==
    LET t == token(fs)
        r == luaK_exp2anyreg(fs, v)
        key == yindex(r.fs)
        x == CASE t = "." -> field(fs, v)
               [] t = "[" -> luaK_indexed(key.fs, r.e, key.e)
               [] t = ":" -> LET n == luaX_next(fs)
                                 k == codestring(n, seminfo(n))
                                 s == luaK_self(luaX_next(k.fs), v, k.e)
                             IN  funcargs(s.fs, s.e)
               [] t = "(" -> LET f == luaK_exp2nextreg(fs, v) IN funcargs(f.fs, f.e)
    IN  IF t \in {".", "[", ":", "("} THEN Suffixes(x.fs, x.e) ELSE FsE(fs, v)

(* [fs, e, l]: l expressions, the last one e not yet closed                *)
explist1(fs) == LET r == expr(fs) IN MoreExps(r.fs, r.e, 1)

MoreExps(fs, e, n) ==
    LET c == luaK_exp2nextreg(luaX_next(fs), e)
        r == expr(c.fs)
    IN  IF token(fs) = "," THEN MoreExps(r.fs, r.e, n + 1)
        ELSE [fs |-> fs, e |-> e, l |-> n]

-----------------------------------------------------------------------------
(* Table constructors; cc as ConsControl, with t the table's register.     *)

closelistfield(fs, cc) ==
    LET r == luaK_exp2nextreg(fs, cc.v)
        g == luaK_setlist(r.fs, cc.t, cc.na, cc.tostore, LFIELDS_PER_FLUSH)
        none == [cc EXCEPT !.v = Exp("VVOID", 0, 0)]
    IN  IF cc.v.k = "VVOID" THEN [fs |-> fs, cc |-> cc]
        ELSE IF cc.tostore = LFIELDS_PER_FLUSH
        THEN [fs |-> g, cc |-> [none EXCEPT !.tostore = 0]] ELSE [fs |-> r.fs, cc |-> none]

lastlistfield(fs, cc) ==
    LET g == IF hasmultret(cc.v.k) THEN luaK_setreturns(fs, cc.v, -1)
             ELSE IF cc.v.k # "VVOID" THEN luaK_exp2nextreg(fs, cc.v).fs ELSE fs
    IN  IF cc.tostore = 0 THEN fs
        ELSE luaK_setlist(g, cc.t, cc.na, IF hasmultret(cc.v.k) THEN 0 ELSE cc.tostore,
                          LFIELDS_PER_FLUSH)

recfield(fs, cc) ==
    LET s == codestring(fs, seminfo(fs))
        key == IF token(fs) = "name" THEN FsE(luaX_next(s.fs), s.e) ELSE yindex(fs)
        rk == luaK_exp2RK(checknext(key.fs, "="), key.e)
        v == expr(rk.fs)
        rv == luaK_exp2RK(v.fs, v.e)
    IN  [luaK_codeABC(rv.fs, "SETTABLE", cc.t, rk.l, rv.l) EXCEPT !.freereg = fs.freereg]

listfield(fs, cc) ==
    LET r == expr(fs)
    IN  [fs |-> r.fs, cc |-> [cc EXCEPT !.v = r.e, !.na = @ + 1, !.tostore = @ + 1]]

Fields(fs, cc) ==
    LET c == closelistfield(fs, cc)
        rec == \/ token(c.fs) = "["
               \/ token(c.fs) = "name" /\ c.fs.toks[c.fs.p + 1].t = "="
        n == IF rec THEN [fs |-> recfield(c.fs, c.cc), cc |-> c.cc]
             ELSE listfield(c.fs, c.cc)
    IN  IF token(fs) = "}" THEN [fs |-> fs, cc |-> cc]
        ELSE IF token(n.fs) = "," THEN Fields(luaX_next(n.fs), n.cc) ELSE n

constructor(fs) ==
    LET r == luaK_exp2nextreg(luaK_codeABC(fs, "NEWTABLE", 0, 0, 0),
                              Exp("VRELOCABLE", pc(fs), 0))
        n == Fields(checknext(r.fs, "{"),
                    [v |-> Exp("VVOID", 0, 0), t |-> r.e.info, na |-> 0, tostore |-> 0])
    IN  FsE(lastlistfield(checknext(n.fs, "}"), n.cc), r.e)

-----------------------------------------------------------------------------
(* Statements.                                                             *)

adjust_assign(fs, nvars, nexps, e) ==
    LET extra == nvars - nexps
        wanted == IF extra + 1 < 0 THEN 0 ELSE extra + 1
        g == luaK_setreturns(fs, e, wanted)
        c == IF e.k = "VVOID" THEN fs ELSE luaK_exp2nextreg(fs, e).fs
    IN  IF hasmultret(e.k) THEN (IF wanted > 1 THEN luaK_reserveregs(g, wanted - 1) ELSE g)
        ELSE IF extra > 0 THEN luaK_nil(luaK_reserveregs(c, extra), c.freereg, extra)
        ELSE c

(* Faulty: a local assigned to in the same statement is read afterwards.   *)
NoConflict(fs, lhs, v) == [fs |-> fs, lhs |-> lhs]

check_conflict(fs, lhs, v) ==
    LET hit(w) == w.k = "VINDEXED" /\ v.info \in {w.info, w.aux}
        safe(x) == IF x = v.info THEN fs.freereg ELSE x
        moved == [i \in DOMAIN lhs |-> IF ~hit(lhs[i]) THEN lhs[i]
                     ELSE [lhs[i] EXCEPT !.info = safe(@), !.aux = safe(@)]]
    IN  IF \E i \in DOMAIN lhs : hit(lhs[i])
        THEN [fs |-> luaK_reserveregs(
                        luaK_codeABC(fs, "MOVE", fs.freereg, v.info, 0), 1),
              lhs |-> moved]
        ELSE [fs |-> fs, lhs |-> lhs]

(* store the registers from the top down into lhs, last one first          *)
RECURSIVE StoreDown(_, _)
StoreDown(fs, lhs) ==
    IF lhs = <<>> THEN fs
    ELSE StoreDown(luaK_storevar(fs, lhs[Len(lhs)], Exp("VNONRELOC", fs.freereg - 1, 0)),
                   SubSeq(lhs, 1, Len(lhs) - 1))

RECURSIVE assignment(_, _)
assignment(fs, lhs) ==
    LET nvars == Len(lhs)
        v == primaryexp(luaX_next(fs))
        c == IF v.e.k = "VLOCAL" THEN check_conflict(v.fs, lhs, v.e)
             ELSE [fs |-> v.fs, lhs |-> lhs]
        r == explist1(checknext(fs, "="))
        g == adjust_assign(r.fs, nvars, r.l, r.e)
        h == IF r.l > nvars THEN [g EXCEPT !.freereg = @ - (r.l - nvars)] ELSE g
        one == luaK_storevar(r.fs, lhs[nvars], luaK_setoneret(r.fs, r.e))
    IN  IF token(fs) = "," THEN assignment(c.fs, Append(c.lhs, v.e))
        ELSE IF r.l = nvars THEN StoreDown(one, SubSeq(lhs, 1, nvars - 1))
        ELSE StoreDown(h, lhs)

exprstat(fs) ==
    LET v == primaryexp(fs)
    IN  IF v.e.k = "VCALL" THEN [v.fs EXCEPT !.code[v.e.info + 1].c = 1]
        ELSE assignment(v.fs, <<v.e>>)

block(fs) == leaveblock(chunk(enterblock(fs, FALSE)))

(* [fs, l]: l is the list of jumps taken when the condition is false       *)
cond(fs) ==
    LET v == expr(fs)
        r == luaK_goiftrue(v.fs, IF v.e.k = "VNIL" THEN [v.e EXCEPT !.k = "VFALSE"] ELSE v.e)
    IN  FsL(r.fs, r.e.f)

whilestat(fs) ==
    LET start == luaK_getlabel(luaX_next(fs))
        c == cond(start)
        J == luaK_jump(block(checknext(enterblock(c.fs, TRUE), "do")))
        g == leaveblock(checknext(luaK_patchlist(J.fs, J.l, pc(start)), "end"))
    IN  luaK_patchtohere(g, c.l)

repeatstat(fs) ==
    LET start == luaK_getlabel(fs)
        b == chunk(luaX_next(enterblock(enterblock(start, TRUE), FALSE)))
        c == cond(checknext(b, "until"))
    IN  leaveblock(luaK_patchlist(leaveblock(c.fs), c.l, pc(start)))

(* exp1, then the token that follows                                       *)
exp1(fs) == LET r == expr(fs) IN luaK_exp2nextreg(r.fs, r.e).fs

forbody(fs, base) ==
    LET prep == luaK_codeABC(checknext(adjustlocalvars(fs, 3), "do"),
                             "FORPREP", base, NO_JUMP, 0)
        body == block(luaK_reserveregs(adjustlocalvars(enterblock(prep, FALSE), 1), 1))
        e == luaK_patchtohere(leaveblock(body), pc(prep) - 1)
        loop == luaK_codeABC(e, "FORLOOP", base, NO_JUMP, 0)
    IN  luaK_patchlist(loop, pc(loop) - 1, pc(prep))

fornum(fs) ==
    LET name == luaX_next(fs)
        \* the control variables have names no program can write
        vars == new_localvar(new_localvar(new_localvar(new_localvar(name, -11), -12),
                                          -13), seminfo(name))
        a == exp1(checknext(luaX_next(vars), "="))
        b == exp1(checknext(a, ","))
        one == addk(b, 1)
        c == IF token(b) = "," THEN exp1(luaX_next(b))
             ELSE luaK_reserveregs(luaK_codeABC(one.fs, "LOADK", b.freereg, one.l, 0), 1)
    IN  forbody(c, fs.freereg)

forstat(fs) == leaveblock(checknext(fornum(enterblock(fs, TRUE)), "end"))

test_then_block(fs) ==
    LET c == cond(luaX_next(fs))
    IN  FsL(block(checknext(c.fs, "then")), c.l)

RECURSIVE Elseifs(_, _, _)
Elseifs(fs, flist, escapelist) ==
    LET J == luaK_jump(fs)
        E == luaK_concat(J.fs, escapelist, J.l)
        g == luaK_patchtohere(E.fs, flist)
        t == test_then_block(g)
        L == luaK_concat(fs, escapelist, flist)
    IN  IF token(fs) = "elseif" THEN Elseifs(t.fs, t.l, E.l)
        ELSE IF token(fs) = "else"
        THEN luaK_patchtohere(block(luaX_next(g)), E.l)
        ELSE luaK_patchtohere(L.fs, L.l)

ifstat(fs) ==
    LET t == test_then_block(fs)
    IN  checknext(Elseifs(t.fs, t.l, NO_JUMP), "end")

RECURSIVE NewLocals(_, _)
NewLocals(fs, n) ==
    LET g == luaX_next(new_localvar(fs, seminfo(fs)))
    IN  IF token(g) = "," THEN NewLocals(luaX_next(g), n + 1) ELSE FsL(g, n + 1)

localstat(fs) ==
    LET n == NewLocals(luaX_next(fs), 0)
        r == explist1(luaX_next(n.fs))
        g == IF token(n.fs) = "=" THEN adjust_assign(r.fs, n.l, r.l, r.e)
             ELSE adjust_assign(n.fs, n.l, 0, Exp("VVOID", 0, 0))
    IN  adjustlocalvars(g, n.l)

retstat(fs) ==
    LET s == luaX_next(fs)
        r == explist1(s)
        m == luaK_setreturns(r.fs, r.e, -1)
        tail == [m EXCEPT !.code[r.e.info + 1].op = "TAILCALL"]
        first == nactvar(fs)
        a == luaK_exp2anyreg(r.fs, r.e)
        x == luaK_exp2nextreg(r.fs, r.e)
    IN  IF block_follow(token(s)) THEN luaK_ret(s, 0, 0)
        ELSE IF hasmultret(r.e.k)
        THEN luaK_ret(IF r.l = 1 THEN Asserted(tail, at(m, r.e.info).a = first) ELSE m,
                      first, -1)
        ELSE IF r.l = 1 THEN luaK_ret(a.fs, a.e.info, 1)
        ELSE luaK_ret(Asserted(x.fs, r.l = x.fs.freereg - first), first, r.l)

statement(fs) ==
    CASE token(fs) = "if" -> ifstat(fs)
      [] token(fs) = "while" -> whilestat(fs)
      [] token(fs) = "do" -> checknext(block(luaX_next(fs)), "end")
      [] token(fs) = "for" -> forstat(fs)
      [] token(fs) = "repeat" -> repeatstat(fs)
      [] token(fs) = "local" -> localstat(fs)
      [] token(fs) = "return" -> retstat(fs)
      [] token(fs) = "break" -> breakstat(luaX_next(fs))
      [] OTHER -> exprstat(fs)

Statements(fs) ==
    LET last == token(fs) \in {"return", "break"}
        g == statement(fs)
        h == [Asserted(g, nactvar(g) <= g.freereg /\ g.freereg <= g.maxstacksize)
                EXCEPT !.freereg = nactvar(g)]
    IN  IF block_follow(token(fs)) THEN fs
        ELSE IF last THEN h ELSE Statements(h)

chunk(fs) == Statements(fs)

luaY_parser(toks) ==
    LET fs == chunk(open_func(toks))
        g == Asserted(fs, token(fs) = "eos" /\ fs.bl = <<>>)
    IN  luaK_ret(removevars(g, 0), 0, 0)

=============================================================================
