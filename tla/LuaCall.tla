------------------------------ MODULE LuaCall ------------------------------
(***************************************************************************)
(* Calls, errors and coroutines of the Lua interpreter (ldo.c, the calling *)
(* half of lapi.c and lvm.c, the coroutine half of lbaselib.c).            *)
(*                                                                         *)
(* Two stacks grow together: each thread's chain of CallInfo, which Lua    *)
(* sees, and the machine's own stack of C activations, which setjmp and    *)
(* longjmp cut.  Nothing but careful saving and restoring of nCcalls, ci   *)
(* and errfunc keeps the two in step.  "native" is the second stack; its   *)
(* top frame is the code that runs.                                        *)
(***************************************************************************)
EXTENDS Naturals, FiniteSets, SequencesExt

CONSTANTS
    Coroutines,     \* the threads made by coroutine.create or wrap
    main,           \* the thread lua_newstate returns
    BASIC_CI_SIZE,  \* first size of a CallInfo array
    LUAI_MAXCALLS,  \* entries it may have outside an overflow
    LUAI_MAXCCALLS, \* C activations at which an overflow is an error
    EXTRACCALLS,    \* LUAI_MAXCCALLS >> 3, room for handling that error
    MaxNative       \* bound: C activations above which a program starts no more

Threads == Coroutines \union {main}

ASSUME LuaCallAssumption ==
    /\ main \notin Coroutines
    /\ BASIC_CI_SIZE \in Nat /\ BASIC_CI_SIZE > 1
    /\ LUAI_MAXCALLS \in Nat /\ LUAI_MAXCALLS >= BASIC_CI_SIZE
    /\ LUAI_MAXCCALLS \in Nat /\ EXTRACCALLS \in Nat \ {0}

VARIABLES
    th,      \* lua_State of each thread
    native,  \* the C activations, the host program's first
    life     \* history: what has become of each coroutine ("kept": it has
             \* ended and its results are still on its stack)

callvars == <<th, native, life>>

Funs == {"Lua", "C"}
Values == Funs \union {"other"}    \* not a function

(* What a frame of the C stack keeps in its locals.  pcall is luaD_pcall   *)
(* under its setjmp, exec luaV_execute with nexeccalls = n, raise the      *)
(* beginning of luaG_errormsg, handler its call of the error function,     *)
(* level one enterlevel of the parser.                                     *)
Frame(k, t) == [k |-> k, t |-> t, n |-> 0, nCcalls |-> 0, ci |-> 0,
                errfunc |-> "none", wrap |-> FALSE]

lua_newthread == [status |-> "ok", ci |-> <<>>, size_ci |-> BASIC_CI_SIZE,
                  nCcalls |-> 0, baseCcalls |-> 0, errfunc |-> "none",
                  top |-> FALSE]

-----------------------------------------------------------------------------
(* S is both stacks together: [th |-> ..., native |-> ...].                *)

State == [th |-> th, native |-> native]
Running(S) == Last(S.native).t
Push(S, f) == [S EXCEPT !.native = Append(@, f)]
Pop(S) == [S EXCEPT !.native = Front(@)]
Raise(S, t) == Push(S, Frame("raise", t))

restore_stack_limit(L) ==
    IF L.size_ci > LUAI_MAXCALLS /\ Len(L.ci) + 1 < LUAI_MAXCALLS
    THEN [L EXCEPT !.size_ci = LUAI_MAXCALLS] ELSE L

(* Faulty: nCcalls keeps the depth of the error.                         *)
RestoredDeep(L, f) ==
    restore_stack_limit([L EXCEPT !.errfunc = f.errfunc,
                                  !.ci = SubSeq(@, 1, f.ci)])

Restored(L, f) ==
    restore_stack_limit([L EXCEPT !.nCcalls = f.nCcalls, !.errfunc = f.errfunc,
                                  !.ci = SubSeq(@, 1, f.ci)])

(* longjmp to the innermost setjmp, and what lua_pcall's or lua_resume's   *)
(* caller does with the status.  Nothing reads the stacks of a dead thread.*)
luaD_throw(S) ==
    LET isJmp(i) == S.native[i].k \in {"pcall", "resume"}
        j == CHOOSE i \in DOMAIN S.native :
                 isJmp(i) /\ \A x \in (i + 1)..Len(S.native) : ~isJmp(x)
        f == S.native[j]
        L == S.th[f.t]
        cut == SubSeq(S.native, 1, j - 1)
    IN  IF f.k = "pcall"
        THEN [th |-> [S.th EXCEPT ![f.t] = Restored(L, f)], native |-> cut]
        ELSE LET R == [th |-> [S.th EXCEPT ![f.t] =
                                  [lua_newthread EXCEPT !.status = "error"]],
                       native |-> cut]
             IN  IF f.wrap THEN Raise(R, Last(cut).t) ELSE R

-----------------------------------------------------------------------------
(* Entering functions.                                                     *)

Enter(S, t, fun) ==
    LET R == [S EXCEPT !.th[t].ci = Append(@, fun)]
    IN  IF fun = "C" THEN Push(R, Frame("C", t))
        ELSE IF Last(S.native).k = "exec"
        THEN [R EXCEPT !.native[Len(R.native)].n = @ + 1]
        ELSE Push(R, [Frame("exec", t) EXCEPT !.n = 1])

(* inc_ci with growCI: room for one more entry, and what comes after it    *)
(* unless the array has become too large.                                  *)
Grown(S, t) ==
    IF Len(S.th[t].ci) < S.th[t].size_ci - 1 THEN S ELSE [S EXCEPT !.th[t].size_ci = 2 * @]

IncCi(S, t, after) ==
    LET R == Grown(S, t)
    IN  IF R = S \/ R.th[t].size_ci <= LUAI_MAXCALLS THEN after
        ELSE IF S.th[t].size_ci > LUAI_MAXCALLS THEN luaD_throw(S)
        ELSE Raise(R, t)

luaD_precall(S, t, fun) == IncCi(S, t, Enter(Grown(S, t), t, fun))

luaD_call(S, t, fun) ==
    LET R == Push([S EXCEPT !.th[t].nCcalls = @ + 1], Frame("call", t))
        n == R.th[t].nCcalls
    IN  IF n = LUAI_MAXCCALLS THEN Raise(R, t)
        ELSE IF n >= LUAI_MAXCCALLS + EXTRACCALLS THEN luaD_throw(R)
        ELSE luaD_precall(R, t, fun)

luaD_pcall(S, t, ef) ==
    LET L == S.th[t]
    IN  Push([S EXCEPT !.th[t].errfunc = ef],
             [Frame("pcall", t) EXCEPT !.nCcalls = L.nCcalls, !.ci = Len(L.ci),
                                       !.errfunc = L.errfunc])

(* A C activation has ended and the one under it goes on.                  *)
Back(S) ==
    LET f == Last(S.native)
        t == f.t
        R == [Pop(S) EXCEPT !.th[t].nCcalls = @ - 1]
        g == Last(R.native)
    IN  CASE f.k = "resume" -> [R EXCEPT !.th[t].top = FALSE]
          [] f.k \notin {"call", "resume"} -> S
          [] f.k = "call" /\ g.k = "pcall" -> [Pop(R) EXCEPT !.th[t].errfunc = g.errfunc]
          [] f.k = "call" /\ g.k = "handler" -> luaD_throw(R)
          [] OTHER -> R

luaD_poscall(S, t) == [S EXCEPT !.th[t].ci = Front(@)]

(* A coroutine has ended or yielded and auxresume has no room for what it  *)
(* left on its stack: an error of the thread that resumed it.              *)
Refused(S) ==
    LET R == Back(S)
    IN  Raise([R EXCEPT !.th[Last(S.native).t].top = TRUE], Running(R))

-----------------------------------------------------------------------------
(* Coroutines.                                                             *)

lua_setlevel(S, from) == S.th[from].nCcalls

(* lua_resume of co by thread t: the rest of what yielded, or a call of the*)
(* value on top of co's stack, which coroutine.create has made a function  *)
(* of Lua; of results left there it may be any value.                      *)
Resumed(S, t, co, wrap, value) ==
    LET L == S.th[co]
        level == lua_setlevel(S, t) + 1
        up == [L EXCEPT !.nCcalls = level, !.baseCcalls = level,
                        !.status = "ok"]
        R == Push([S EXCEPT !.th[co] = up], [Frame("resume", co) EXCEPT !.wrap = wrap])
        P == luaD_poscall(R, co)
    IN  IF L.status = "ok"
        THEN IF value \in Funs THEN luaD_precall(R, co, value) ELSE Raise(R, co)
        ELSE Push(P, [Frame("exec", co) EXCEPT !.n = Len(P.th[co].ci)])

(* Faulty: yields across C calls.                                         *)
YieldAnywhere(S, t) ==
    LET R == Pop([S EXCEPT !.th[t].status = "yield"])
    IN  Back(IF Last(R.native).k = "exec" THEN Pop(R) ELSE R)

(* The C stack down to the lua_resume that ran t.                          *)
Unwound(S, t) ==
    LET R == Pop([S EXCEPT !.th[t].status = "yield"])
    IN  IF Last(R.native).k = "exec" THEN Pop(R) ELSE R

MayYield(S, t) == S.th[t].nCcalls <= S.th[t].baseCcalls

lua_yield(S, t) == IF MayYield(S, t) THEN Back(Unwound(S, t)) ELSE Raise(S, t)

(* Faulty: an empty stack is not looked at.                                *)
StatusAlone(L, co) ==
    IF L = co THEN "running"
    ELSE IF th[co].status = "yield" THEN "suspended"
    ELSE IF th[co].status = "error" THEN "dead"
    ELSE IF th[co].ci # <<>> THEN "normal" ELSE "suspended"

costatus(L, co) ==
    IF L = co THEN "running"
    ELSE IF th[co].status = "yield" THEN "suspended"
    ELSE IF th[co].status = "error" THEN "dead"
    ELSE IF th[co].ci # <<>> THEN "normal"
    ELSE IF th[co].top THEN "suspended" ELSE "dead"

-----------------------------------------------------------------------------
Become(S) ==
    /\ th' = S.th
    /\ native' = S.native
    /\ life' = [co \in Coroutines |->
          IF life[co] \in {"none", "refused", "over"} THEN life[co]
          ELSE IF S.th[co].status = "error" THEN "over"
          ELSE IF \E i \in DOMAIN S.native : S.native[i].t = co THEN "begun"
          ELSE IF life[co] = "begun" /\ S.th[co].status = "ok"
          THEN IF S.th[co].top THEN "kept" ELSE "over"
          ELSE life[co]]

top == Last(native)
me == top.t
InC == top.k = "C" /\ Len(native) > 1
Room == Len(native) < MaxNative
InLua == top.k = "exec"
Host == Len(native) = 1

Init ==
    /\ th = [t \in Threads |-> lua_newthread]
    /\ native = <<Frame("C", main)>>
    /\ life = [co \in Coroutines |-> "none"]

\* OP_CALL, and the call of a C function by OP_TAILCALL
CallFromLua == InLua /\ Room /\ \E fun \in Funs : Become(luaD_precall(State, me, fun))

\* OP_TAILCALL of a Lua function: the new entry takes the caller's place
TailCall == InLua /\ Room /\ Become(IncCi(State, me, Grown(State, me)))

\* a metamethod called by an instruction, lua_call by a C function
CallBack == (InLua \/ InC) /\ Room /\ \E fun \in Funs : Become(luaD_call(State, me, fun))

\* OP_RETURN
ReturnFromLua ==
    /\ InLua
    /\ LET P == luaD_poscall(State, me)
       IN  Become(IF top.n > 1 THEN [P EXCEPT !.native[Len(native)].n = @ - 1]
                  ELSE Back(Pop(P)))

ReturnFromC == InC /\ Become(Back(Pop(luaD_poscall(State, me))))

\* luaG_runerror by an instruction, lua_error by a C function
Error == (InLua \/ InC) /\ Become(Raise(State, me))

\* luaG_errormsg: the handler runs on top of the code that failed
luaG_errormsg ==
    /\ top.k = "raise"
    /\ IF th[me].errfunc = "function"
       THEN \E fun \in Funs :
               Become(luaD_call(Push(State, Frame("handler", me)), me, fun))
       ELSE Become(luaD_throw(State))

\* lua_pcall and lua_cpcall (errfunc 0), xpcall (any value)
lua_pcall ==
    /\ InC \/ Host
    /\ Room
    /\ \E fun \in Funs, ef \in {"none", "function", "other"} :
          Become(luaD_call(luaD_pcall(State, me, ef), me, fun))

\* lua_load: the parser under luaD_protectedparser
luaD_protectedparser == (InC \/ Host) /\ Room /\ Become(luaD_pcall(State, me, th[me].errfunc))

Parsing == top.k \in {"pcall", "level"}

enterlevel ==
    /\ Parsing /\ Room
    /\ LET R == Push([State EXCEPT !.th[me].nCcalls = @ + 1], Frame("level", me))
       IN  Become(IF R.th[me].nCcalls > LUAI_MAXCCALLS THEN luaD_throw(R) ELSE R)

luaX_syntaxerror == Parsing /\ Become(luaD_throw(State))

leavelevel ==
    /\ Parsing
    /\ Become(IF top.k = "level" THEN [Pop(State) EXCEPT !.th[me].nCcalls = @ - 1]
              ELSE [Pop(State) EXCEPT !.th[me].errfunc = top.errfunc])

luaB_cocreate ==
    /\ InC
    /\ \E co \in Coroutines :
         /\ life[co] = "none"
         /\ th' = [th EXCEPT ![co].top = TRUE]
         /\ life' = [life EXCEPT ![co] = "made"]
         /\ UNCHANGED native

(* What yielded was called by Lua.  A function of C that was left on the   *)
(* stack of a coroutine and resumed has no caller; were it to yield, and to*)
(* be resumed again, lua_resume would run luaV_execute on the bottom of the*)
(* stack (its lua_assert on ci-1 fails): that is not followed.             *)
Defined(co) == th[co].status = "yield" => Len(th[co].ci) > 1

\* auxresume, for coroutine.resume and for the function wrap returns
auxresume ==
    /\ InC /\ Room
    /\ \E co \in Coroutines, wrap \in BOOLEAN :
         LET refuse == IF wrap THEN Raise(State, me) ELSE State
         IN  /\ life[co] # "none" /\ Defined(co)
             /\ IF costatus(me, co) # "suspended" THEN Become(refuse)
                ELSE IF th[me].nCcalls >= LUAI_MAXCCALLS
                THEN \* resume_error has emptied the coroutine's stack
                     /\ th' = [th EXCEPT ![co].top = FALSE, ![co].nCcalls = th[me].nCcalls]
                     /\ native' = refuse.native
                     /\ life' = [life EXCEPT ![co] =
                                    CASE @ = "made" -> "refused"
                                      [] @ = "kept" -> "over"
                                      [] OTHER -> @]
                ELSE \E value \in IF life[co] = "made" THEN {"Lua"} ELSE Values :
                        Become(Resumed(State, me, co, wrap, value))

luaB_yield == InC /\ Become(lua_yield(State, me))

\* too many results to resume, of a coroutine's last return or of a yield
TooManyResults ==
    /\ InC \/ (InLua /\ top.n = 1)
    /\ \E S \in {Pop(luaD_poscall(State, me))}
               \union IF InC /\ MayYield(State, me) THEN {Unwound(State, me)} ELSE {} :
          Last(S.native).k = "resume" /\ Become(Refused(S))

\* luaC_step may shrink a thread's CallInfo array
checkstacksizes ==
    \E t \in Threads :
       LET L == th[t]
       IN  /\ L.size_ci <= LUAI_MAXCALLS
           /\ 4 * Len(L.ci) < L.size_ci /\ 2 * BASIC_CI_SIZE < L.size_ci
           /\ Become([State EXCEPT !.th[t].size_ci = @ \div 2])

Next ==
    \/ CallFromLua \/ TailCall \/ CallBack \/ ReturnFromLua \/ ReturnFromC
    \/ Error \/ luaG_errormsg \/ lua_pcall
    \/ luaD_protectedparser \/ enterlevel \/ luaX_syntaxerror \/ leavelevel
    \/ luaB_cocreate \/ auxresume \/ luaB_yield \/ TooManyResults \/ checkstacksizes

Spec == Init /\ [][Next]_callvars

-----------------------------------------------------------------------------
Frames(t, kinds) == {i \in DOMAIN native : native[i].t = t /\ native[i].k \in kinds}
Live(t) == th[t].status # "error"

(* The running thread's nCcalls is the depth of the whole C stack, with    *)
(* that of the threads that resumed it (lua_setlevel): it is what keeps    *)
(* the machine's stack from being overrun, after any errors, yields and    *)
(* resumes.                                                                *)
DepthCounted ==
    LET deep == {i \in DOMAIN native : native[i].k \in {"call", "resume", "level"}}
    IN  /\ th[me].nCcalls = Cardinality(deep)
        /\ th[me].nCcalls < LUAI_MAXCCALLS + EXTRACCALLS

(* A thread's CallInfo chain is the one its C activations expect: an error *)
(* removed the entries of exactly the activations it cut, and a yield left *)
(* none of a C function behind but the one that yielded, so that lua_resume*)
(* may run the rest with one luaV_execute (but see Defined).  A handler    *)
(* given to a protected call does not outlive it (the assertion in         *)
(* lua_resume).                                                            *)
StacksAgree ==
    \A t \in Threads : Live(t) =>
       LET own(i) == IF native[i].t # t \/ i = 1 THEN <<>>
                     ELSE CASE native[i].k = "exec" -> [x \in 1..native[i].n |-> "Lua"]
                            [] native[i].k = "C" -> <<"C">>
                            [] OTHER -> <<>>
           ci == th[t].ci
       IN  /\ IF th[t].status = "yield"
              THEN /\ ci # <<>> /\ Last(ci) = "C"
                   /\ \A x \in 1..(Len(ci) - 1) : ci[x] = "Lua"
              ELSE ci = FlattenSeq([i \in DOMAIN native |-> own(i)])
           /\ Frames(t, {"pcall"}) = {} => th[t].errfunc = "none"

(* What coroutine.status says, from lua_status, the frames and the top of  *)
(* a thread, is what has become of it; one that has ended but whose results*)
(* auxresume refused is "suspended", and can be resumed again, although    *)
(* costatus takes its stack for that of the "initial state".               *)
StatusHonest ==
    \A co \in Coroutines : life[co] # "none" =>
       costatus(me, co) =
           CASE co = me -> "running"
             [] co # me /\ Frames(co, {"resume"}) # {} -> "normal"
             [] life[co] = "made" -> "suspended"
             [] life[co] = "begun" /\ Frames(co, {"resume"}) = {} -> "suspended"
             [] life[co] = "kept" -> "suspended"
             [] OTHER -> "dead"

-----------------------------------------------------------------------------
(* No coroutine is special. *)
Sym == Permutations(Coroutines)
=============================================================================
