----------------------------- MODULE LuaMeaning ----------------------------
(***************************************************************************)
(* What a Lua chunk means, whichever way it is compiled: the language of   *)
(* the parser as trees, the text of a tree, and the value of a tree.       *)
(*                                                                         *)
(* A value is an integer: nil, false and true are negative, numbers are    *)
(* 0..18, strings and names lie above them and tables from 100 on.  What   *)
(* arithmetic and the functions a chunk calls compute is arbitrary, chosen *)
(* so that exchanged operands show; w is the world outside the registers:  *)
(* globals, table contents, and the calls made so far.                     *)
(***************************************************************************)
EXTENDS Integers, Sequences, TLC

Nil == -1
False == -2
True == -3
Bool(b) == IF b THEN True ELSE False
l_isfalse(v) == v \in {Nil, False}

Arith(op, x, y) ==
    CASE op = "ADD" -> (2 * x + y) % 19
      [] op = "POW" -> (x + 3 * y + 1) % 19
      [] op = "UNM" -> (x + 7) % 19
      [] op = "LEN" -> (x + 3) % 19
      [] op = "CONCAT" -> (x + 5 * y + 2) % 19

World == [globals |-> <<>>, tables |-> <<>>, made |-> 0, calls |-> <<>>]

Lookup(f, key, default) == IF key \in DOMAIN f THEN f[key] ELSE default
(* before it is assigned to, a global is a number, false or nil            *)
Global(w, n) == Lookup(w.globals, n, IF n % 3 = 0 THEN n % 19
                                     ELSE IF n % 3 = 1 THEN False ELSE Nil)
SetGlobal(w, n, v) == [w EXCEPT !.globals = (n :> v) @@ @]
Field(w, t, k) == Lookup(w.tables, <<t, k>>, IF t > 99 THEN Nil ELSE (t + 4 * k) % 19)
SetField(w, t, k, v) == [w EXCEPT !.tables = (<<t, k>> :> v) @@ @]
NewTable(w) == [w EXCEPT !.made = @ + 1]
Newest(w) == 99 + w.made

(* A call of any function: it is noted, and gives two results.             *)
Called(w, f, args) == [w EXCEPT !.calls = Append(@, <<f, args>>)]
Results(f, args) == <<(f + Len(args) + 4) % 19, (f + 9) % 19>>

-----------------------------------------------------------------------------
(* Trees: expressions and statements alike are [op, v, args].              *)

Node(op, v, args) == [op |-> op, v |-> v, args |-> args]
Tok(t, v) == <<[t |-> t, v |-> v]>>
Sign(t) == Tok(t, 0)

(* precedence, loosest first, as the reference manual lists it             *)
level == [or |-> 1, and |-> 2, lt |-> 3, le |-> 3, gt |-> 3, ge |-> 3, ne |-> 3,
          eq |-> 3, concat |-> 4, add |-> 5, not |-> 6, minus |-> 6, len |-> 6,
          pow |-> 7]
Level(e) == IF e.op \in DOMAIN level THEN level[e.op] ELSE 8
Unary(e) == e.op \in {"not", "minus", "len"}
RightAssociative(op) == op \in {"concat", "pow"}

RECURSIVE Text(_), Joined(_, _)

InParens(e) == Sign("(") \o Text(e) \o Sign(")")
Operand(e, b) == IF b THEN InParens(e) ELSE Text(e)

Joined(es, sep) ==
    IF es = <<>> THEN <<>>
    ELSE IF Len(es) = 1 THEN Text(es[1])
    ELSE Text(es[1]) \o Sign(sep) \o Joined(Tail(es), sep)

(* the right operand b of e needs parentheses                              *)
Binds(e, b) ==
    /\ ~Unary(b)
    /\ \/ Level(b) < Level(e)
       \/ Level(b) = Level(e) /\ ~RightAssociative(e.op)

(* what may stand before a suffix without parentheses                      *)
Prefix(e) == Operand(e, e.op \notin {"name", "paren", "call", "method", "index", "field"})

Text(e) ==
    LET a == e.args
        L == Level(e)
    IN  CASE e.op \in {"number", "string", "name"} -> Tok(e.op, e.v)
          [] e.op \in {"nil", "true", "false"} -> Sign(e.op)
          [] e.op = "paren" -> InParens(a[1])
          [] Unary(e) -> Sign(e.op) \o Operand(a[1], Level(a[1]) < L)
          [] e.op \in DOMAIN level /\ ~Unary(e) ->
                Operand(a[1], Level(a[1]) < L \/ (Level(a[1]) = L /\ RightAssociative(e.op)))
                \o Sign(e.op)
                \o Operand(a[2], Binds(e, a[2]))
          [] e.op = "call" -> Prefix(a[1]) \o Sign("(") \o Joined(Tail(a), ",") \o Sign(")")
          [] e.op = "method" -> Prefix(a[1]) \o Sign(":") \o Tok("name", e.v)
                                \o Sign("(") \o Joined(Tail(a), ",") \o Sign(")")
          [] e.op = "index" -> Prefix(a[1]) \o Sign("[") \o Text(a[2]) \o Sign("]")
          [] e.op = "field" -> Prefix(a[1]) \o Sign(".") \o Tok("name", e.v)
          [] e.op = "table" -> Sign("{") \o Joined(a, ",") \o Sign("}")
          [] e.op = "item" -> Text(a[1])
          [] e.op = "named" -> Tok("name", e.v) \o Sign("=") \o Text(a[1])
          [] e.op = "keyed" -> Sign("[") \o Text(a[1]) \o Sign("]") \o Sign("=") \o Text(a[2])

Names(ns) == [i \in 1..(2 * Len(ns) - 1) |->
                 IF i % 2 = 1 THEN [t |-> "name", v |-> ns[(i + 1) \div 2]]
                 ELSE [t |-> ",", v |-> 0]]

(* Statements: exps are their expressions, blocks their blocks, names the  *)
(* names they declare.                                                     *)
Stat(op, names, lhs, exps, blocks) ==
    [op |-> op, names |-> names, lhs |-> lhs, exps |-> exps, blocks |-> blocks]

RECURSIVE BlockText(_), StatText(_)
BlockText(b) == IF b = <<>> THEN <<>> ELSE StatText(b[1]) \o BlockText(Tail(b))

StatText(s) ==
    LET e(i) == Text(s.exps[i])
        b(i) == BlockText(s.blocks[i])
        \* a second arm, with its condition, and the one without
        more == IF Len(s.exps) > 1 THEN Sign("elseif") \o e(2) \o Sign("then") \o b(2)
                ELSE <<>>
        other == IF Len(s.blocks) > Len(s.exps) THEN Sign("else") \o b(Len(s.blocks)) ELSE <<>>
    IN  CASE s.op = "local" -> Sign("local") \o Names(s.names)
                \o (IF s.exps = <<>> THEN <<>> ELSE Sign("=") \o Joined(s.exps, ","))
          [] s.op = "assign" -> Joined(s.lhs, ",") \o Sign("=") \o Joined(s.exps, ",")
          [] s.op = "call" -> e(1)
          [] s.op = "if" -> Sign("if") \o e(1) \o Sign("then") \o b(1) \o more \o other
                            \o Sign("end")
          [] s.op = "while" -> Sign("while") \o e(1) \o Sign("do") \o b(1) \o Sign("end")
          [] s.op = "repeat" -> Sign("repeat") \o b(1) \o Sign("until") \o e(1)
          [] s.op = "for" -> Sign("for") \o Tok("name", s.names[1]) \o Sign("=")
                             \o Joined(s.exps, ",") \o Sign("do") \o b(1) \o Sign("end")
          [] s.op = "do" -> Sign("do") \o b(1) \o Sign("end")
          [] s.op = "return" -> Sign("return") \o Joined(s.exps, ",")
          [] s.op = "break" -> Sign("break")

-----------------------------------------------------------------------------
(* The value of an expression in env, the sequence of locals in scope:     *)
(* [v, w], and of a list of expressions [vs, w].                           *)

RECURSIVE Value(_, _, _), ValueList(_, _, _), CallValues(_, _, _), Filled(_, _, _, _, _)

Local(env, n) == {i \in DOMAIN env : env[i][1] = n}
Innermost(S) == CHOOSE i \in S : \A j \in S : j <= i

IsCall(e) == e.op \in {"call", "method"}

(* all results of the last expression count, one of each other             *)
ValueList(es, env, w) ==
    LET m == CallValues(es[1], env, w)
        x == Value(es[1], env, w)
        r == ValueList(Tail(es), env, x.w)
    IN  IF es = <<>> THEN [vs |-> <<>>, w |-> w]
        ELSE IF Len(es) = 1 /\ IsCall(es[1]) THEN m
        ELSE [vs |-> <<x.v>> \o r.vs, w |-> r.w]

CallValues(e, env, w) ==
    LET f == Value(e.args[1], env, w)
        args == ValueList(Tail(e.args), env, f.w)
        fun == IF e.op = "call" THEN f.v ELSE Field(f.w, f.v, e.v)
        all == IF e.op = "call" THEN args.vs ELSE <<f.v>> \o args.vs
    IN  [vs |-> Results(fun, all), w |-> Called(args.w, fun, all)]

(* the fields of a constructor, n items done                               *)
Filled(fields, t, n, env, w) ==
    LET f == fields[1]
        x == Value(f.args[1], env, w)
        y == Value(f.args[2], env, x.w)
        m == CallValues(f.args[1], env, w)
        last == Len(fields) = 1 /\ f.op = "item" /\ IsCall(f.args[1])
    IN  IF fields = <<>> THEN w
        ELSE IF last THEN SetField(SetField(m.w, t, n + 1, m.vs[1]), t, n + 2, m.vs[2])
        ELSE CASE f.op = "item" ->
                    Filled(Tail(fields), t, n + 1, env, SetField(x.w, t, n + 1, x.v))
               [] f.op = "named" ->
                    Filled(Tail(fields), t, n, env, SetField(x.w, t, f.v, x.v))
               [] f.op = "keyed" ->
                    Filled(Tail(fields), t, n, env, SetField(y.w, t, x.v, y.v))

Value(e, env, w) ==
    LET a == Value(e.args[1], env, w)
        b == Value(e.args[2], env, a.w)
        is(v) == [v |-> v, w |-> w]
        both(v) == [v |-> v, w |-> b.w]
        here == Local(env, e.v)
    IN  CASE e.op \in {"number", "string"} -> is(e.v)
          [] e.op = "nil" -> is(Nil)
          [] e.op = "true" -> is(True)
          [] e.op = "false" -> is(False)
          [] e.op = "name" -> is(IF here = {} THEN Global(w, e.v)
                                 ELSE env[Innermost(here)][2])
          [] e.op = "paren" -> a
          [] e.op = "not" -> [v |-> Bool(l_isfalse(a.v)), w |-> a.w]
          [] e.op = "minus" -> [v |-> Arith("UNM", a.v, 0), w |-> a.w]
          [] e.op = "len" -> [v |-> Arith("LEN", a.v, 0), w |-> a.w]
          [] e.op = "and" -> IF l_isfalse(a.v) THEN a ELSE b
          [] e.op = "or" -> IF l_isfalse(a.v) THEN b ELSE a
          [] e.op = "add" -> both(Arith("ADD", a.v, b.v))
          [] e.op = "pow" -> both(Arith("POW", a.v, b.v))
          [] e.op = "concat" -> both(Arith("CONCAT", a.v, b.v))
          [] e.op = "eq" -> both(Bool(a.v = b.v))
          [] e.op = "ne" -> both(Bool(a.v # b.v))
          [] e.op = "lt" -> both(Bool(a.v < b.v))
          [] e.op = "le" -> both(Bool(a.v <= b.v))
          [] e.op = "gt" -> both(Bool(a.v > b.v))
          [] e.op = "ge" -> both(Bool(a.v >= b.v))
          [] e.op = "index" -> both(Field(b.w, a.v, b.v))
          [] e.op = "field" -> [v |-> Field(a.w, a.v, e.v), w |-> a.w]
          [] e.op = "table" ->
                LET t == Newest(NewTable(w))
                IN  [v |-> t, w |-> Filled(e.args, t, 0, env, NewTable(w))]
          [] IsCall(e) -> LET m == CallValues(e, env, w) IN [v |-> m.vs[1], w |-> m.w]

-----------------------------------------------------------------------------
(* The effect of a block: [sig, vs, env, w]; sig says how it ended, "lost" *)
(* after more than Patience turns of a loop.                               *)

Patience == 3

Done(sig, vs, env, w) == [sig |-> sig, vs |-> vs, env |-> env, w |-> w]
Adjusted(vs, n) == [i \in 1..n |-> IF i <= Len(vs) THEN vs[i] ELSE Nil]

RECURSIVE Block(_, _, _), Effect(_, _, _), Turns(_, _, _, _), Counted(_, _, _, _, _, _)
RECURSIVE Arms(_, _, _, _), Targets(_, _, _), Assigned(_, _, _, _)

(* in a scope of its own: its locals end with it                           *)
Scoped(b, env, w) ==
    LET r == Block(b, env, w) IN [r EXCEPT !.env = SubSeq(@, 1, Len(env))]

Block(b, env, w) ==
    LET r == Effect(b[1], env, w)
    IN  IF b = <<>> THEN Done("next", <<>>, env, w)
        ELSE IF r.sig = "next" THEN Block(Tail(b), r.env, r.w) ELSE r

(* table and key of each target are evaluated before the values            *)
Targets(lhs, env, w) ==
    LET t == Value(lhs[1].args[1], env, w)
        k == IF lhs[1].op = "index" THEN Value(lhs[1].args[2], env, t.w)
             ELSE [v |-> lhs[1].v, w |-> t.w]
        r == Targets(Tail(lhs), env, k.w)
        q == Targets(Tail(lhs), env, w)
    IN  IF lhs = <<>> THEN [ts |-> <<>>, w |-> w]
        ELSE IF lhs[1].op = "name" THEN [ts |-> <<<<"name", lhs[1].v, 0>>>> \o q.ts, w |-> q.w]
        ELSE [ts |-> <<<<"field", t.v, k.v>>>> \o r.ts, w |-> r.w]

(* and the values stored, the last target first                            *)
Assigned(ts, vs, env, w) ==
    LET n == Len(ts)
        t == ts[n]
        here == Local(env, t[2])
        e == IF t[1] = "name" /\ here # {} THEN [env EXCEPT ![Innermost(here)][2] = vs[n]]
             ELSE env
        u == IF t[1] = "field" THEN SetField(w, t[2], t[3], vs[n])
             ELSE IF here = {} THEN SetGlobal(w, t[2], vs[n]) ELSE w
    IN  IF n = 0 THEN Done("next", <<>>, env, w)
        ELSE Assigned(SubSeq(ts, 1, n - 1), vs, e, u)

Arms(s, i, env, w) ==
    LET c == Value(s.exps[i], env, w)
    IN  IF i > Len(s.exps)
        THEN IF Len(s.blocks) < i THEN Done("next", <<>>, env, w)
             ELSE Scoped(s.blocks[i], env, w)
        ELSE IF l_isfalse(c.v) THEN Arms(s, i + 1, env, c.w)
        ELSE Scoped(s.blocks[i], env, c.w)

Left(r) == IF r.sig = "break" THEN [r EXCEPT !.sig = "next"] ELSE r

(* while and repeat, at the place where the condition or body comes next   *)
Turns(s, n, env, w) ==
    LET c == Value(s.exps[1], env, w)
        b == Scoped(s.blocks[1], env, c.w)
        body == Block(s.blocks[1], env, w)
        u == Value(s.exps[1], body.env, body.w)
    IN  IF n > Patience THEN Done("lost", <<>>, env, w)
        ELSE IF s.op = "while"
        THEN IF l_isfalse(c.v) THEN Done("next", <<>>, env, c.w)
             ELSE IF b.sig # "next" THEN Left(b) ELSE Turns(s, n + 1, b.env, b.w)
        ELSE IF body.sig # "next"
        THEN Left([body EXCEPT !.env = SubSeq(@, 1, Len(env))])
        ELSE IF l_isfalse(u.v) THEN Turns(s, n + 1, SubSeq(body.env, 1, Len(env)), u.w)
        ELSE Done("next", <<>>, SubSeq(body.env, 1, Len(env)), u.w)

(* numeric for                                                             *)
Counted(s, i, limit, step, env, w) ==
    LET r == Scoped(s.blocks[1], Append(env, <<s.names[1], i>>), w)
        q == [r EXCEPT !.env = SubSeq(@, 1, Len(env))]
    IN  IF (IF step > 0 THEN i > limit ELSE i < limit) THEN Done("next", <<>>, env, w)
        ELSE IF q.sig # "next" THEN Left(q)
        ELSE Counted(s, i + step, limit, step, q.env, q.w)

Effect(s, env, w) ==
    LET vs == ValueList(s.exps, env, w)
        ts == Targets(s.lhs, env, w)
        av == ValueList(s.exps, env, ts.w)
        n == Len(s.names)
        new == Adjusted(vs.vs, n)
    IN  CASE s.op = "local" -> Done("next", <<>>,
                env \o [i \in 1..n |-> <<s.names[i], new[i]>>], vs.w)
          [] s.op = "assign" ->
                Assigned(ts.ts, Adjusted(av.vs, Len(s.lhs)), env, av.w)
          [] s.op = "call" -> Done("next", <<>>, env, vs.w)
          [] s.op = "if" -> Arms(s, 1, env, w)
          [] s.op \in {"while", "repeat"} -> Turns(s, 1, env, w)
          [] s.op = "for" ->
                Counted(s, vs.vs[1], vs.vs[2],
                        IF Len(s.exps) = 3 THEN vs.vs[3] ELSE 1, env, vs.w)
          [] s.op = "do" -> Scoped(s.blocks[1], env, w)
          [] s.op = "return" -> Done("return", vs.vs, env, vs.w)
          [] s.op = "break" -> Done("break", <<>>, env, w)

Meaning(chunk) == Block(chunk, <<>>, World)

=============================================================================
