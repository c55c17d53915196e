------------------------------- MODULE LuaVM -------------------------------
(***************************************************************************)
(* The code of a Lua chunk: its checker (luaG_checkcode, ldebug.c) and     *)
(* what it does when the interpreter loop runs it (luaV_execute, lvm.c).   *)
(*                                                                         *)
(* vm holds the registers reg, the position pc of the next instruction,    *)
(* L->top and the world w of LuaMeaning.  Every operation is legal on      *)
(* every value, as if each had the metamethod it needs; the functions      *)
(* called are C functions, whose frame overwrites the registers from the   *)
(* function on.                                                            *)
(***************************************************************************)
EXTENDS LuaParse, LuaMeaning

-----------------------------------------------------------------------------
(* luaP_opmodes, for the instructions the parser emits.                    *)

InB(S) == S \cup {"ADD", "POW", "EQ", "LT", "LE"}
RegB == {"MOVE", "LOADNIL", "GETTABLE", "SELF", "UNM", "NOT", "LEN", "CONCAT", "TEST",
         "TESTSET"}
JumpB == {"JMP", "FORLOOP", "FORPREP"}
ConstantB == {"LOADK", "GETGLOBAL", "SETGLOBAL"}
RkB == InB({"SETTABLE"})
RkC == InB({"GETTABLE", "SETTABLE", "SELF"})
UnusedC == {"MOVE", "LOADNIL", "UNM", "NOT", "LEN", "RETURN"}

checkopenop(fs, p) ==
    /\ at(fs, p + 1).op \in {"CALL", "TAILCALL", "RETURN", "SETLIST"}
    /\ at(fs, p + 1).b = 0

(* one turn of symbexec, with no register traced                           *)
Checked(fs, p) ==
    LET i == at(fs, p)
        size == Len(fs.code)
        checkreg(r) == r >= 0 /\ r < fs.maxstacksize
        argK(x) == IF ISK(x) THEN x - BITRK < Len(fs.k) ELSE checkreg(x)
        dest == p + 1 + i.b
    IN  /\ checkreg(i.a)
        /\ i.op \in RegB => checkreg(i.b)
        /\ i.op \in RkB => argK(i.b)
        /\ i.op \in RkC => argK(i.c)
        /\ i.op = "CONCAT" => checkreg(i.c) /\ i.b < i.c
        /\ i.op \in UnusedC => i.c = 0
        /\ i.op \in ConstantB => i.b < Len(fs.k)
        /\ i.op \in {"GETGLOBAL", "SETGLOBAL"} => fs.k[i.b + 1] >= 20   \* a string
        /\ i.op \in JumpB => 0 <= dest /\ dest < size
        /\ testTMode(i.op) => p + 2 < size /\ at(fs, p + 1).op = "JMP"
        /\ i.op = "LOADBOOL" /\ i.c = 1 => p + 2 < size
        /\ i.op = "SELF" => checkreg(i.a + 1)
        /\ i.op \in {"FORLOOP", "FORPREP"} => checkreg(i.a + 3)
        /\ i.op \in {"CALL", "TAILCALL"} =>
              /\ i.b # 0 => checkreg(i.a + i.b - 1)
              /\ i.c = 0 => checkopenop(fs, p)
              /\ i.c > 1 => checkreg(i.a + i.c - 2)
        /\ i.op = "RETURN" /\ i.b > 1 => checkreg(i.a + i.b - 2)
        /\ i.op = "SETLIST" /\ i.b > 0 => checkreg(i.a + i.b)

luaG_checkcode(fs) ==
    /\ at(fs, Len(fs.code) - 1).op = "RETURN"
    /\ \A p \in 0..(Len(fs.code) - 1) : Checked(fs, p)

-----------------------------------------------------------------------------
(* One instruction.                                                        *)

Garbage == -9   \* what a called function left behind

(* the registers from a on, n of them                                      *)
Slice(vm, a, n) == [j \in 1..n |-> vm.reg[a + j - 1]]

Stored(vm, a, vs, rest) ==
    [vm EXCEPT !.reg = [r \in DOMAIN @ |->
        IF r < a THEN @[r] ELSE IF r - a + 1 <= Len(vs) THEN vs[r - a + 1] ELSE rest]]

RECURSIVE luaV_concat(_)
luaV_concat(vs) ==
    IF Len(vs) = 1 THEN vs[1] ELSE Arith("CONCAT", vs[1], luaV_concat(Tail(vs)))

RECURSIVE SetList(_, _, _, _)
SetList(w, h, last, vs) ==
    IF vs = <<>> THEN w
    ELSE SetList(SetField(w, h, last, vs[Len(vs)]), h, last - 1, SubSeq(vs, 1, Len(vs) - 1))

DoCall(vm, i) ==
    LET args == Slice(vm, i.a + 1, IF i.b # 0 THEN i.b - 1 ELSE vm.top - i.a - 1)
        f == vm.reg[i.a]
        all == Results(f, args)
        multret == i.op = "TAILCALL" \/ i.c = 0
        got == IF multret THEN all ELSE Adjusted(all, i.c - 1)
    IN  [Stored(vm, i.a, got, Garbage) EXCEPT
            !.w = Called(@, f, args), !.top = IF multret THEN i.a + Len(all) ELSE @]

(* the skipped jump is taken when the test holds                           *)
Tested(fs, vm, holds) ==
    [vm EXCEPT !.pc = IF holds THEN @ + 1 + at(fs, @).b ELSE @ + 1]

ForLoop(vm, i) ==
    LET idx == vm.reg[i.a] + vm.reg[i.a + 2]
        on == IF vm.reg[i.a + 2] > 0 THEN idx <= vm.reg[i.a + 1] ELSE idx >= vm.reg[i.a + 1]
    IN  IF on THEN [vm EXCEPT !.reg[i.a] = idx, !.reg[i.a + 3] = idx, !.pc = @ + i.b]
        ELSE vm

Step(fs, before) ==
    LET i == at(fs, before.pc)
        vm == [before EXCEPT !.pc = @ + 1]
        Kst(n) == fs.k[n + 1]
        RK(x) == IF ISK(x) THEN Kst(x - BITRK) ELSE vm.reg[x]
        Ra(v) == [vm EXCEPT !.reg[i.a] = v]
        Jump(g) == [g EXCEPT !.pc = @ + i.b]
        n == IF i.b # 0 THEN i.b ELSE vm.top - i.a - 1
    IN  CASE i.op = "MOVE" -> Ra(vm.reg[i.b])
          [] i.op = "LOADK" -> Ra(Kst(i.b))
          [] i.op = "LOADBOOL" -> [Ra(Bool(i.b = 1)) EXCEPT !.pc = @ + i.c]
          [] i.op = "LOADNIL" ->
                [vm EXCEPT !.reg = [r \in DOMAIN @ |-> IF r \in i.a..i.b THEN Nil ELSE @[r]]]
          [] i.op = "GETGLOBAL" -> Ra(Global(vm.w, Kst(i.b)))
          [] i.op = "SETGLOBAL" -> [vm EXCEPT !.w = SetGlobal(@, Kst(i.b), vm.reg[i.a])]
          [] i.op = "GETTABLE" -> Ra(Field(vm.w, vm.reg[i.b], RK(i.c)))
          [] i.op = "SETTABLE" ->
                [vm EXCEPT !.w = SetField(@, vm.reg[i.a], RK(i.b), RK(i.c))]
          [] i.op = "NEWTABLE" -> [Ra(Newest(NewTable(vm.w))) EXCEPT !.w = NewTable(@)]
          [] i.op = "SELF" ->
                [vm EXCEPT !.reg[i.a + 1] = vm.reg[i.b],
                           !.reg[i.a] = Field(vm.w, vm.reg[i.b], RK(i.c))]
          [] i.op \in {"ADD", "POW"} -> Ra(Arith(i.op, RK(i.b), RK(i.c)))
          [] i.op \in {"UNM", "LEN"} -> Ra(Arith(i.op, vm.reg[i.b], 0))
          [] i.op = "NOT" -> Ra(Bool(l_isfalse(vm.reg[i.b])))
          [] i.op = "CONCAT" -> Ra(luaV_concat(Slice(vm, i.b, i.c - i.b + 1)))
          [] i.op = "JMP" -> Jump(vm)
          [] i.op = "EQ" -> Tested(fs, vm, (RK(i.b) = RK(i.c)) = (i.a = 1))
          [] i.op = "LT" -> Tested(fs, vm, (RK(i.b) < RK(i.c)) = (i.a = 1))
          [] i.op = "LE" -> Tested(fs, vm, (RK(i.b) <= RK(i.c)) = (i.a = 1))
          [] i.op = "TEST" -> Tested(fs, vm, l_isfalse(vm.reg[i.a]) # (i.c = 1))
          [] i.op = "TESTSET" ->
                IF l_isfalse(vm.reg[i.b]) # (i.c = 1)
                THEN Tested(fs, Ra(vm.reg[i.b]), TRUE) ELSE Tested(fs, vm, FALSE)
          [] i.op \in {"CALL", "TAILCALL"} -> DoCall(vm, i)
          [] i.op = "FORPREP" ->
                Jump(Ra(vm.reg[i.a] - vm.reg[i.a + 2]))
          [] i.op = "FORLOOP" -> ForLoop(vm, i)
          [] i.op = "SETLIST" ->
                [vm EXCEPT !.w = SetList(@, vm.reg[i.a], (i.c - 1) * LFIELDS_PER_FLUSH + n,
                                         Slice(vm, i.a + 1, n))]

(* Runs the code until it returns: [sig, vs, w], as Meaning.               *)
RECURSIVE luaV_execute(_, _, _)
luaV_execute(fs, vm, fuel) ==
    LET i == at(fs, vm.pc)
        n == IF i.b # 0 THEN i.b - 1 ELSE vm.top - i.a
    IN  IF fuel = 0 THEN [sig |-> "lost", vs |-> <<>>, w |-> vm.w]
        ELSE IF i.op = "RETURN"
        THEN [sig |-> "return", vs |-> Slice(vm, i.a, n), w |-> vm.w]
        ELSE luaV_execute(fs, Step(fs, vm), fuel - 1)

(* the results of an open call may lie above the function's registers      *)
Started(fs) ==
    [pc |-> 0, reg |-> [r \in 0..(fs.maxstacksize + 1) |-> Nil], top |-> fs.maxstacksize,
     w |-> World]

-----------------------------------------------------------------------------
(* The properties of the compiler, of a chunk (a block ending with eos).   *)

Source(b) == BlockText(b) \o Sign("eos")

Fuel == 90  \* instructions a chunk may take; no chunk that ends needs more

(* The code passes the checker and every assertion of the generator held:  *)
(* registers are used as a stack, jumps stay in the code, and an open call *)
(* is followed by what uses its results.                                   *)
CodeIsSound(fs) == fs.ok /\ luaG_checkcode(fs)

(* Whatever chunk b returns, stores and calls is what it says: the single  *)
(* pass has patched every jump and kept every value in a register nobody   *)
(* else took.                                                              *)
CompilesRight(b, fs) ==
    LET m == Meaning(b)
        r == luaV_execute(fs, Started(fs), Fuel)
    IN  m.sig = "lost" \/ (r.sig = "return" /\ r.vs = m.vs /\ r.w = m.w)

-----------------------------------------------------------------------------
(* The chunks the compiler is checked on: every expression of a small      *)
(* grammar in every statement the parser knows.                            *)

Lit(t) == Node(t, 0, <<>>)
Name(n) == Node("name", n, <<>>)
N(n) == Node("number", n, <<>>)
Un(op, e) == Node(op, 0, <<e>>)
Bin(op, e1, e2) == Node(op, 0, <<e1, e2>>)
Dot(e, n) == Node("field", n, <<e>>)

(* globals: a number, false, nil, and a function; and three locals         *)
a == Name(42)
b == Name(43)
c == Name(44)
F(args) == Node("call", 0, <<Name(48)>> \o args)
x == Name(45)
y == Name(47)
z == Name(46)

Logic == {"and", "or"}
Over(ops, S, T) == {Bin(op, s, t) : op \in ops, s \in S, t \in T}

Leaves == {a, b, x, N(1), Lit("nil"), Lit("true"), Lit("false"), F(<<>>)}
Two == Over(Logic \cup {"eq", "lt", "ge", "add", "concat"}, Leaves, Leaves)
       \cup {Un(op, s) : op \in {"not", "minus", "len"}, s \in Leaves}
Inner == Over(Logic, {b, x, N(1)}, {b, x}) \cup {Un("not", x), Bin("lt", x, N(1)), a}
Three == Over(Logic \cup {"ne", "add", "pow", "concat"}, Inner, Inner)
         \cup {Un("not", s) : s \in Inner}
Some == {N(1), Lit("true"), Lit("false"), x}
Chains == Over(Logic, Over(Logic, Over(Logic, Some, Some), Some), Some)

(* A literal that decides an operator, with jumps pending before it that   *)
(* carry values: ((x or y) and false) and z, ((x and y) or true) or z, and *)
(* the two with exchanged inner operators.  For these the code is wrong.   *)
RECURSIVE Mishandled(_)
Mishandled(e) ==
    \/ /\ e.op \in Logic /\ e.args[1].op \in Logic
       /\ e.args[1].args[1].op \in Logic \ {e.args[1].op}
       /\ e.args[1].args[2].op = IF e.op = "and" THEN "false" ELSE "true"
    \/ \E i \in DOMAIN e.args : Mishandled(e.args[i])

Loc(ns, es) == Stat("local", [i \in DOMAIN ns |-> ns[i].v], <<>>, es, <<>>)
Set(lhs, es) == Stat("assign", <<>>, lhs, es, <<>>)
Ret(es) == Stat("return", <<>>, <<>>, es, <<>>)
If(es, bs) == Stat("if", <<>>, <<>>, es, bs)
While(e, s) == Stat("while", <<>>, <<>>, <<e>>, <<s>>)
Repeat(s, e) == Stat("repeat", <<>>, <<>>, <<e>>, <<s>>)
For(n, es, s) == Stat("for", <<n.v>>, <<>>, es, <<s>>)
Do(s) == Stat("do", <<>>, <<>>, <<>>, <<s>>)
Run(e) == Stat("call", <<>>, <<>>, <<e>>, <<>>)
Break == Stat("break", <<>>, <<>>, <<>>, <<>>)

Item(e) == Node("item", 0, <<e>>)
Index(t, k) == Node("index", 0, <<t, k>>)
Table(e) == Node("table", 0, <<Item(e), Node("named", 42, <<e>>), Item(x), Item(e),
                               Node("keyed", 0, <<Un("not", e), b>>), Item(F(<<>>))>>)

(* what a chunk may do with e, x being 5 and y nil                         *)
Uses(e) == {
    \* values: returned, passed on, stored
    <<Ret(<<e>>)>>,
    <<Ret(<<e, F(<<e>>)>>)>>,
    <<Ret(<<F(<<e, F(<<N(1), e>>)>>)>>)>>,
    <<Loc(<<x, z>>, <<e>>), Ret(<<x, z>>)>>,
    <<Loc(<<z>>, <<e, e>>), Ret(<<x, z>>)>>,
    <<Set(<<x>>, <<e>>), Ret(<<x>>)>>,
    <<Do(<<Loc(<<b, z>>, <<e, x>>), Run(F(<<b, z>>))>>), Ret(<<b, x>>)>>,
    \* several at once, also to what the same statement reads
    <<Set(<<a, y, c>>, <<F(<<>>), e>>), Ret(<<y>>)>>,
    <<Set(<<x, Index(x, y)>>, <<e, x>>), Ret(<<x>>)>>,
    <<Set(<<Index(x, e), x>>, <<y, e>>), Ret(<<x>>)>>,
    <<Set(<<Index(y, x), x, y>>, <<e, N(2), F(<<>>)>>), Ret(<<x, y>>)>>,
    <<Set(<<Dot(x, 42)>>, <<e>>),
      Set(<<Index(x, Un("paren", F(<<>>)))>>, <<e>>), Ret(<<Dot(x, 42)>>)>>,
    \* conditions
    <<If(<<e>>, << <<Set(<<a>>, <<N(1)>>)>> >>), Loc(<<z, b>>, <<>>), Ret(<<z, b>>)>>,
    <<If(<<e, Un("not", e)>>, << <<Set(<<a>>, <<e>>)>>, <<Ret(<<N(2)>>)>>,
                                 <<Loc(<<x>>, <<e>>), Set(<<x>>, <<N(7)>>)>> >>),
      Ret(<<x>>)>>,
    <<While(e, <<Set(<<x, b>>, <<b, N(3)>>),
                 If(<<a>>, << <<Set(<<a>>, <<Lit("nil")>>)>>, <<Break>> >>)>>),
      Ret(<<x, a>>)>>,
    <<Repeat(<<Loc(<<z>>, <<e>>), Set(<<x>>, <<Bin("add", x, N(1))>>),
               If(<<Bin("eq", x, N(7))>>, << <<Break>> >>)>>, z), Ret(<<x>>)>>,
    <<Repeat(<<Loc(<<x>>, <<a>>), Set(<<a>>, <<b>>)>>, Bin("or", e, Un("not", x))),
      Ret(<<x>>)>>,
    <<For(z, <<N(1), N(3)>>, <<If(<<e>>, << <<Break>> >>), Set(<<x>>, <<z>>)>>),
      Ret(<<x>>)>>,
    \* control variables, methods, constructors
    <<For(z, <<N(3), N(1), Un("minus", N(2))>>,
          <<Loc(<<b>>, <<e>>), Set(<<x>>, <<z>>), Set(<<z>>, <<e>>)>>), Ret(<<x, e>>)>>,
    <<Run(Node("method", 42, <<x, e, y>>)), Ret(<<>>)>>,
    <<Ret(<<Table(e)>>)>>,
    <<Set(<<a>>, <<Node("table", 0, <<Item(N(1)), Item(e),
                                      Item(Bin("concat", e, Bin("concat", e, a)))>>)>>),
      Ret(<<Bin("add", Index(a, N(2)), Index(a, N(3)))>>)>> }

Chunks(e) == {<<Loc(<<x, y>>, <<N(5), Lit("nil")>>)>> \o u : u \in Uses(e)}

Expressions == Leaves \cup Two \cup Three \cup {e \in Chains : ~Mishandled(e)}

=============================================================================
