------------------------------- MODULE LuaGC -------------------------------
(***************************************************************************)
(* The garbage collector of the Lua interpreter (lgc.c), with the upvalues *)
(* (lfunc.c), the threads (lstate.c) and the strings (lstring.c), run a    *)
(* step at a time between the instructions of a program (lvm.c, lapi.c).   *)
(*                                                                         *)
(* An object has two places for values, "key" and "val": the entry of a    *)
(* table, the two slots of a thread's stack, of which "val" is the upper   *)
(* one, the upvalue of a closure, the environment of a userdata, the value *)
(* of a closed upvalue (all in "val").  The main thread's slots stand for  *)
(* the globals and the registry too, which the collector treats alike: it  *)
(* looks at them again at the end.  Prototypes are never changed and left  *)
(* out.  The order of the collector's lists is any.                        *)
(***************************************************************************)
EXTENDS Integers, FiniteSets

CONSTANTS
  Objs,           (* addresses of objects, numbers                         *)
  Main,           (* the main thread, another number                       *)
  Families        (* what the program may keep at each address             *)

Nil   == -1
Slots == {"key", "val"}
Kinds == {"table", "weak", "closure", "upval", "udata", "string", "thread"}

ASSUME LuaGCAssumption ==
  /\ IsFiniteSet(Objs) /\ Main \notin Objs /\ Nil \notin Objs \cup {Main}
  /\ Families \subseteq [Objs -> Kinds]

VARIABLES
  g,              (* global_State: the heap and the collector's fields     *)
  L,              (* the running thread                                    *)
  full,           (* luaC_fullgc: "no", "finish" the cycle, or "collect"   *)
  closing,        (* lua_close: "no", "separated" all userdata, "calling"  *)
                  (* their finalizers, or "unsafe": one was whitened while *)
                  (* a black object held it                                *)
  family,         (* one of Families                                       *)
  live            (* what is reachable, noted for the properties           *)

lvars == <<g, L, full, closing, family, live>>

OtherWhite(w) == IF w = "w0" THEN "w1" ELSE "w0"

(* mark: w0, w1, gray or black; mode: the weak fields of a table; at: the  *)
(* slot of an open upvalue; fin: finalized; calls: of its finalizer.       *)
NewObject(kind, mark) ==
  [kind |-> kind, mark |-> mark, key |-> Nil, val |-> Nil, mode |-> {}, at |-> <<>>,
   fin |-> FALSE, calls |-> 0]

KindOf(G, o)  == G.heap[o].kind
White(G, o)   == o # Nil /\ G.heap[o].mark \in {"w0", "w1"}
Black(G, o)   == G.heap[o].mark = "black"
isdead(G, o)  == G.heap[o].mark = OtherWhite(G.currentwhite)
IsOpen(G, o)  == KindOf(G, o) = "upval" /\ G.heap[o].at # <<>>
OpenAt(G, t)  == { u \in DOMAIN G.heap : IsOpen(G, u) /\ G.heap[u].at[1] = t }
ValueOf(G, u) == IF IsOpen(G, u) THEN G.heap[G.heap[u].at[1]][G.heap[u].at[2]] ELSE G.heap[u].val

Repaint(G, S, mark) == [G EXCEPT !.heap = [o \in DOMAIN @ |-> IF o \in S THEN [@[o] EXCEPT !.mark = mark] ELSE @[o]]]
makewhite(G, S)     == Repaint(G, S, G.currentwhite)
Freed(G, S)         == [G EXCEPT !.heap = [o \in DOMAIN @ \ S |-> @[o]]]
Without(S)          == S \ {Nil}

-----------------------------------------------------------------------------
(* Marking.  reallymarkobject goes on from a userdata to its environment   *)
(* and from an upvalue to its value, so from an upvalue at most two steps. *)
Onward(G, S) ==
  S \cup { o \in { CASE KindOf(G, x) = "udata" -> G.heap[x].val
                     [] KindOf(G, x) = "upval" -> ValueOf(G, x)
                     [] OTHER -> Nil : x \in S } : White(G, o) }

markobject(G, S) ==
  LET marked == Onward(G, Onward(G, { o \in S : White(G, o) }))
      black  == { o \in marked : KindOf(G, o) = "udata" \/ (KindOf(G, o) = "upval" /\ ~IsOpen(G, o)) }
      listed == { o \in marked : KindOf(G, o) \in {"table", "weak", "closure", "thread"} }
  IN [Repaint(Repaint(G, marked, "gray"), black, "black") EXCEPT !.gray = @ \cup listed]

(* propagatemark: threads stay gray and are looked at again; weak tables   *)
(* stay gray and are cleared at the end.                                   *)
Strong(x) == IF x.kind = "upval" THEN {"val"} ELSE Slots \ x.mode

propagatemark(G, o) ==
  LET x == G.heap[o]
      H == [G EXCEPT !.gray = @ \ {o},
                     !.grayagain = IF x.kind = "thread" THEN @ \cup {o} ELSE @,
                     !.weak = IF x.mode # {} THEN @ \cup {o} ELSE @]
  IN markobject(IF x.kind = "thread" \/ x.mode # {} THEN H ELSE Repaint(H, {o}, "black"),
                { x[f] : f \in Strong(x) })

OneOf(S) == CHOOSE o \in S : TRUE

(* No object is put into gray twice: at most as many rounds as objects.    *)
propagateone(G) == IF G.gray = {} THEN G ELSE propagatemark(G, OneOf(G.gray))

propagateall(G) ==
  LET n == Cardinality(Objs) + 1
      after[i \in 0..n] == IF i = 0 THEN G ELSE propagateone(after[i - 1])
  IN after[n]

-----------------------------------------------------------------------------
(* Barriers: a black object o is made to hold v.                           *)
luaC_barrier(G, o, v) ==
  IF ~(Black(G, o) /\ White(G, v)) THEN G
  ELSE IF G.gcstate = "propagate" THEN markobject(G, {v}) ELSE makewhite(G, {o})

(* Faulty: a table that is changed is not looked at again.                 *)
NoBarrier(G, t, vs) == G

(* What is put into grayagain after the marking is not looked at before    *)
(* markroot empties the list, and not kept here.                           *)
luaC_barriert(G, t, vs) ==
  IF ~(Black(G, t) /\ \E v \in vs : White(G, v)) THEN G
  ELSE [Repaint(G, {t}, "gray") EXCEPT !.grayagain = IF G.gcstate = "propagate" THEN @ \cup {t} ELSE @]

-----------------------------------------------------------------------------
(* The collector's steps.                                                  *)

markroot(G) ==
  markobject([G EXCEPT !.gray = {}, !.grayagain = {}, !.weak = {}, !.gcstate = "propagate"],
             {Main, G.heap[Main].key, G.heap[Main].val})

remarkupvals(G) ==
  markobject(G, { ValueOf(G, u) : u \in { o \in DOMAIN G.heap : IsOpen(G, o) /\ G.heap[o].mark = "gray" } })

(* Faulty: that the finalizer is going to be called is not noted.          *)
SeparateAgain(G, all) ==
  [G EXCEPT !.tmudata = @ \cup { u \in DOMAIN G.heap : KindOf(G, u) = "udata" /\ (White(G, u) \/ all) }]

luaC_separateudata(G, all) ==
  LET dead == { u \in DOMAIN G.heap : KindOf(G, u) = "udata" /\ (White(G, u) \/ all) /\ ~G.heap[u].fin }
  IN [G EXCEPT !.heap = [o \in DOMAIN @ |-> IF o \in dead THEN [@[o] EXCEPT !.fin = TRUE] ELSE @[o]],
               !.tmudata = @ \cup dead]

marktmu(G) == markobject(makewhite(G, G.tmudata), G.tmudata)

(* Strings count as values and are kept; a userdata that is being finalized*)
(* is kept as a key and not as a value.                                    *)
iscleared(G, o, iskey) ==
  /\ o # Nil /\ KindOf(G, o) # "string"
  /\ White(G, o) \/ (KindOf(G, o) = "udata" /\ ~iskey /\ G.heap[o].fin)

cleartable(G) ==
  LET used    == { t \in G.weak : G.heap[t].val # Nil }
      nokey   == { t \in used : iscleared(G, G.heap[t].key, TRUE) }
      cleared == { t \in used : t \in nokey \/ iscleared(G, G.heap[t].val, FALSE) }
      strings == { o \in { G.heap[t].key : t \in used } \cup { G.heap[t].val : t \in used \ nokey } :
                     o # Nil /\ KindOf(G, o) = "string" }
      H       == Repaint(G, strings, "gray")
  IN [H EXCEPT !.heap = [o \in DOMAIN @ |-> IF o \in cleared THEN [@[o] EXCEPT !.key = Nil, !.val = Nil] ELSE @[o]]]

(* Everything on the list rootgc or in the table of strings is swept.      *)
Listed(G) == { o \in DOMAIN G.heap : ~IsOpen(G, o) /\ o \notin G.tmudata }

(* Faulty: dead and new objects have the same white.                       *)
Unflipped(G) == G

flip(G) == [G EXCEPT !.currentwhite = OtherWhite(@)]

atomic(G, l) ==
  LET a == propagateall(remarkupvals(G))
      b == propagateall(markobject([a EXCEPT !.gray = a.weak, !.weak = {}], {l}))
      c == propagateall([b EXCEPT !.gray = b.grayagain, !.grayagain = {}])
      d == cleartable(propagateall(marktmu(luaC_separateudata(c, FALSE))))
  IN [flip(d) EXCEPT !.tosweep = Listed(d), !.gcstate = "sweepstring", !.grayagain = {}, !.weak = {}]

(* luaF_close for the slots of thread t: a dead upvalue is freed, another  *)
(* gets the value and joins the other objects.                             *)
luaC_linkupval(G, S) ==
  LET gray == { u \in S : G.heap[u].mark = "gray" }
  IN IF G.gcstate = "propagate" THEN markobject(Repaint(G, gray, "black"), { G.heap[u].val : u \in gray })
     ELSE makewhite(G, gray)

luaF_close(G, t, slots) ==
  LET left == { u \in OpenAt(G, t) : G.heap[u].at[2] \in slots }
      dead == { u \in left : isdead(G, u) }
      H    == [G EXCEPT !.heap = [o \in DOMAIN @ |-> IF o \in left THEN [@[o] EXCEPT !.val = ValueOf(G, o), !.at = <<>>]
                                                     ELSE @[o]]]
  IN luaC_linkupval(Freed(H, dead), left \ dead)

(* sweeplist at one object; a thread's open upvalues are swept before it.  *)
Sweep(G, o) ==
  LET dead == { u \in OpenAt(G, o) : isdead(G, u) }
      H    == makewhite(Freed(G, dead), OpenAt(G, o) \ dead)
      K    == IF ~isdead(G, o) THEN makewhite(H, {o})
              ELSE Freed(IF KindOf(G, o) = "thread" THEN luaF_close(H, o, Slots) ELSE H, {o})
  IN [K EXCEPT !.tosweep = @ \ {o}]

Strings(G) == { o \in DOMAIN G.heap : KindOf(G, o) = "string" }

sweepstrings(G) ==
  LET dead == { o \in Strings(G) : isdead(G, o) }
  IN [makewhite(Freed(G, dead), Strings(G) \ dead) EXCEPT !.tosweep = @ \ Strings(G), !.gcstate = "sweep"]

(* GCTM: the finalizer runs in the running thread and may keep its object, *)
(* here in the slot "val" of that thread.                                  *)
GCTM(G, u, l, keeps) ==
  LET H == [makewhite(G, {u}) EXCEPT !.tmudata = @ \ {u}, !.heap[u].calls = @ + 1]
  IN IF keeps THEN [H EXCEPT !.heap[l].val = u] ELSE H

(* singlestep.  luaC_fullgc goes from the end of the sweep straight to the *)
(* next marking, and ends with that cycle.                                 *)
SweepStep(G, o) ==
  LET H == Sweep(G, o) IN [H EXCEPT !.gcstate = IF H.tosweep = {} THEN "finalize" ELSE @]

singlestep(G, l) ==
  CASE G.gcstate = "pause" -> {markroot(G)}
    [] G.gcstate = "propagate" -> IF G.gray = {} THEN {atomic(G, l)} ELSE { propagatemark(G, o) : o \in G.gray }
    [] G.gcstate = "sweepstring" -> {sweepstrings(G)}
    [] G.gcstate = "sweep" -> IF G.tosweep = {} THEN {[G EXCEPT !.gcstate = "finalize"]}
                              ELSE { SweepStep(G, o) : o \in G.tosweep }
    [] G.gcstate = "finalize" -> IF G.tmudata = {} THEN {[G EXCEPT !.gcstate = "pause"]}
                                 ELSE { GCTM(G, u, l, keeps) : u \in G.tmudata, keeps \in BOOLEAN }

(* After lua_close has whitened what a black object holds, a reference may *)
(* come to be to freed memory.  What is done with one is not followed.     *)
Defined ==
  /\ L \in DOMAIN g.heap
  /\ \A o \in DOMAIN g.heap :
       o \in live \/ ~isdead(g, o) => Without({ g.heap[o][s] : s \in Slots }) \subseteq DOMAIN g.heap

Going == closing \in {"no", "calling"} \/ (closing = "unsafe" /\ Defined)

Step ==
  /\ Going
  /\ IF full = "finish" /\ g.gcstate = "finalize"
       THEN g' = markroot(g) /\ full' = "collect"
     ELSE \E G \in singlestep(g, L) : g' = G /\ full' = IF G.gcstate = "pause" THEN "no" ELSE full
  /\ UNCHANGED <<L, closing, family>>

-----------------------------------------------------------------------------
(* The program: what it does between two steps, with the values on the     *)
(* stack of the running thread; during luaC_fullgc and lua_close only in   *)
(* finalizers.                                                             *)

Free(k) == { o \in Objs \ DOMAIN g.heap : family[o] = k }

Runs == Going /\ (full = "no" \/ (g.gcstate = "finalize" /\ g.tmudata # {}))

Held == IF Runs THEN Without({ g.heap[L][s] : s \in Slots }) ELSE {}
Put(G, s, o)   == [G EXCEPT !.heap[L] = [@ EXCEPT ![s] = o]]
Alloc(G, o, x) == [G EXCEPT !.heap = [p \in DOMAIN @ \cup {o} |-> IF p = o THEN x ELSE @[p]]]

Program(G) == Runs /\ g' = G /\ UNCHANGED <<L, full, closing, family>>

(* lua_newtable, lua_newuserdata, lua_newthread: linked white.             *)
New ==
  \E k \in {"table", "weak", "udata", "thread"}, s \in Slots :
    /\ Free(k) # {}
    /\ LET o == OneOf(Free(k)) IN Program(Put(Alloc(g, o, NewObject(k, g.currentwhite)), s, o))

(* luaS_newlstr: the string may be there, dead.                            *)
NewString ==
  \E s \in Slots, o \in { p \in Objs : family[p] = "string" } :
    Program(Put(IF o \notin DOMAIN g.heap THEN Alloc(g, o, NewObject("string", g.currentwhite))
                ELSE IF isdead(g, o) THEN makewhite(g, {o}) ELSE g, s, o))

(* Faulty: an upvalue that is found dead stays dead.                       *)
FoundDead(G, u) == G

(* luaF_findupval: the upvalue of a slot may be found dead.                *)
luaF_findupval(G, u) == IF isdead(G, u) THEN makewhite(G, {u}) ELSE G

(* OP_CLOSURE: the upvalue is that of a slot, found or new; or another     *)
(* closure's.                                                              *)
PutClosure(G, s, u) ==
  /\ Free("closure") # {}
  /\ LET c == OneOf(Free("closure"))
     IN Program(Put(Alloc(G, c, [NewObject("closure", G.currentwhite) EXCEPT !.val = u]), s, c))

NewClosure ==
  \E s, v \in Slots :
    LET open == { u \in OpenAt(g, L) : g.heap[u].at[2] = v }
    IN \/ \E u \in open : PutClosure(luaF_findupval(g, u), s, u)
       \/ /\ open = {} /\ Free("upval") # {}
          /\ LET u == OneOf(Free("upval"))
             IN PutClosure(Alloc(g, u, [NewObject("upval", g.currentwhite) EXCEPT !.at = <<L, v>>]), s, u)

ShareUpval == \E s \in Slots, d \in Held : KindOf(g, d) = "closure" /\ PutClosure(g, s, g.heap[d].val)

Move == \E s, r \in Slots : s # r /\ Program(Put(g, s, g.heap[L][r]))

Entry(o) ==
  LET x == g.heap[o]
  IN CASE x.kind = "closure" -> {ValueOf(g, x.val)}
       [] x.kind = "udata" -> {x.val}
       [] x.kind \in {"table", "weak"} /\ x.val # Nil -> {x.key, x.val}
       [] OTHER -> {}

Get == \E s \in Slots, o \in Held : \E v \in Without(Entry(o)) : Program(Put(g, s, v))

(* luaV_settable, luaH_set, lua_setfenv, OP_SETUPVAL.                      *)
SetTable ==
  \E t \in Held, v \in Held \cup {Nil}, k \in Held \cup {Nil} :
    /\ KindOf(g, t) \in {"table", "weak"}
    /\ (KindOf(g, t) = "table" \/ v = Nil) => k = Nil
    /\ Program(luaC_barriert([g EXCEPT !.heap[t] = [@ EXCEPT !.key = k, !.val = v]], t, {k, v}))

SetEnv ==
  \E u, t \in Held :
    /\ KindOf(g, u) = "udata" /\ KindOf(g, t) \in {"table", "weak"}
    /\ Program(luaC_barrier([g EXCEPT !.heap[u].val = t], u, t))

SetUpval ==
  \E c \in Held, v \in Held \cup {Nil} :
    /\ KindOf(g, c) = "closure"
    /\ LET u == g.heap[c].val
           H == IF IsOpen(g, u) THEN [g EXCEPT !.heap[g.heap[u].at[1]] = [@ EXCEPT ![g.heap[u].at[2]] = v]]
                ELSE [g EXCEPT !.heap[u].val = v]
       IN Program(luaC_barrier(H, u, v))

(* lua_setmetatable with another __mode.                                   *)
SetMode ==
  \E t \in Held, m \in {{}, {"key"}, {"val"}, {"key", "val"}} :
    KindOf(g, t) = "weak" /\ Program([g EXCEPT !.heap[t].mode = m])

(* The end of a block: its slots are closed and given up.                  *)
LeaveBlock ==
  \E slots \in {{"val"}, Slots} :
    LET G == luaF_close(g, L, slots)
    IN Program([G EXCEPT !.heap[L] = [@ EXCEPT !.val = Nil, !.key = IF "key" \in slots THEN Nil ELSE G.heap[L].key]])

(* coroutine.resume from the main thread, which keeps the coroutine in its *)
(* own call's stack; and yield.  One value is passed along.                *)
Resume ==
  \E t \in Held, v \in Held \cup {Nil} :
    /\ Runs /\ L = Main /\ KindOf(g, t) = "thread" /\ t # Main
    /\ L' = t /\ g' = [g EXCEPT !.heap[t].val = v] /\ UNCHANGED <<full, closing, family>>

Yield ==
  \E v \in Held \cup {Nil} :
    /\ Runs /\ L # Main
    /\ L' = Main /\ g' = [g EXCEPT !.heap[Main].val = v] /\ UNCHANGED <<full, closing, family>>

(* collectgarbage("collect"): a cycle that has not come to the sweep starts*)
(* again from there.                                                       *)
luaC_fullgc ==
  /\ Runs /\ full' = IF g.gcstate = "finalize" THEN "collect" ELSE "finish"
  /\ g' = IF g.gcstate \in {"pause", "propagate"}
            THEN [g EXCEPT !.gray = {}, !.grayagain = {}, !.weak = {}, !.gcstate = "sweepstring",
                           !.tosweep = Listed(g)]
          ELSE IF g.gcstate = "finalize" THEN markroot(g) ELSE g
  /\ UNCHANGED <<L, closing, family>>

(* lua_close takes every userdata that is left off the list rootgc, and    *)
(* callallgcTM calls their finalizers, which are programs like any other,  *)
(* wherever the collector was: GCTM may whiten what a black object holds.  *)
lua_close ==
  /\ L = Main /\ full = "no" /\ closing = "no"
  /\ LET G == luaC_separateudata(luaF_close(g, Main, Slots), TRUE)
     IN g' = [G EXCEPT !.tosweep = @ \ G.tmudata]
  /\ closing' = "separated" /\ UNCHANGED <<L, full, family>>

Exposed(G, u) ==
  G.gcstate = "propagate" /\ \E o \in DOMAIN G.heap : Black(G, o) /\ u \in { G.heap[o][s] : s \in Slots }

callallgcTM ==
  /\ L = Main /\ full = "no" /\ closing # "no" /\ (closing = "separated" \/ Going)
  /\ \E u \in g.tmudata, keeps \in BOOLEAN :
       /\ g' = GCTM(g, u, Main, keeps)
       /\ closing' = IF closing = "unsafe" \/ Exposed(g, u) THEN "unsafe" ELSE "calling"
  /\ UNCHANGED <<L, full, family>>

(* luaC_freeall, and lua_newstate of the next script.                      *)
NewState ==
  [heap |-> [o \in {Main} |-> NewObject("thread", "w0")], gcstate |-> "pause", currentwhite |-> "w0",
   gray |-> {}, grayagain |-> {}, weak |-> {}, tosweep |-> {}, tmudata |-> {}]

close_state ==
  /\ closing # "no" /\ IF closing = "unsafe" /\ ~Defined THEN TRUE ELSE L = Main /\ full = "no" /\ g.tmudata = {}
  /\ g' = NewState /\ L' = Main /\ full' = "no" /\ closing' = "no" /\ UNCHANGED family

-----------------------------------------------------------------------------
(* What a program can reach from roots; strings also through weak fields. *)
(* What is not in through is not gone on from.                             *)
Refs(G, o, slots) == Without({ G.heap[o][s] : s \in slots })

Points(G, o) ==
  Refs(G, o, Strong(G.heap[o])) \cup (IF IsOpen(G, o) THEN Without({ValueOf(G, o)}) ELSE {})
  \cup (Refs(G, o, Slots) \cap Strings(G))

Reach(G, roots, through) ==
  LET there == DOMAIN G.heap
      next  == [o \in there |-> IF o \in through THEN Points(G, o) \cap there ELSE {}]
      n     == Cardinality(Objs)
      after[i \in 0..n] == IF i = 0 THEN roots ELSE LET S == after[i - 1] IN S \cup UNION { next[o] : o \in S }
  IN after[n]

Live(G, l) == Reach(G, {Main, l} \cup G.tmudata, DOMAIN G.heap)

GCInit == family \in Families /\ L = Main /\ full = "no" /\ closing = "no" /\ g = NewState /\ live = {Main}

GCNext ==
  /\ \/ Step
     \/ New \/ NewString \/ NewClosure \/ ShareUpval \/ Move \/ Get
     \/ SetTable \/ SetEnv \/ SetUpval \/ SetMode \/ LeaveBlock \/ Resume \/ Yield
     \/ luaC_fullgc \/ lua_close \/ callallgcTM \/ close_state
  /\ live' = Live(g', L')

(* Weak fairness of Step and of the end of lua_close, one of which is      *)
(* always enabled: a program that allocates makes the collector go on.     *)
(* They always show in one of these fields, and other actions that do not  *)
(* twice without one of them in between.                                   *)
Moves ==
  \/ g'.gcstate # g.gcstate \/ g'.tosweep # g.tosweep \/ g'.tmudata # g.tmudata
  \/ ~(g.gray \subseteq g'.gray) \/ full' # full \/ closing' # closing

GCSpec == GCInit /\ [][GCNext]_lvars /\ []<><<Moves>>_lvars

-----------------------------------------------------------------------------
(* Nothing that is in use refers to a freed object, weakly or not, and an  *)
(* open upvalue's thread is there, as long as lua_close has not whitened   *)
(* what a black object holds.                                              *)
NothingFreed ==
  /\ L \in DOMAIN g.heap
  /\ \A o \in live :
       /\ Refs(g, o, Slots) \subseteq DOMAIN g.heap
       /\ IsOpen(g, o) => g.heap[o].at[1] \in DOMAIN g.heap

NoDangling == closing # "unsafe" => NothingFreed

(* lobject.h asserts of every value that is read that it is not dead       *)
(* (checkliveness), a finalizer that lua_close calls no less.              *)
NeverDangles == NothingFreed

(* While objects are marked, no black object refers to a white one, except *)
(* a userdata that waits for its finalizer; and a gray one is on exactly   *)
(* one of the three lists, through the one link it has for them.  So it is *)
(* in lua_close too, until a finalizer's userdata is whitened as above.    *)
TriColour ==
  g.gcstate = "propagate" /\ closing # "unsafe" =>
    /\ \A o \in DOMAIN g.heap \ g.tmudata :
         Black(g, o) => \A p \in Refs(g, o, Strong(g.heap[o])) : ~White(g, p)
    /\ \A o \in DOMAIN g.heap :
         KindOf(g, o) \in {"table", "weak", "closure", "thread"} =>
           (g.heap[o].mark = "gray") = (o \in g.gray \cup g.grayagain \cup g.weak)
    /\ g.gray \cap g.grayagain = {} /\ g.gray \cap g.weak = {} /\ g.grayagain \cap g.weak = {}

(* A finalizer is called once, before the object is freed, and of an object*)
(* that the program did not come to when the marking ended, but perhaps    *)
(* through another one that waits for its own finalizer.  Only a userdata  *)
(* that a finalizer of lua_close made is freed without its own.            *)
FinalizedOnce ==
  [][ closing # "unsafe" => \A u \in DOMAIN g.heap : KindOf(g, u) = "udata" =>
        /\ u \notin DOMAIN g'.heap =>
             g.heap[u].calls = 1 \/ (closing = "calling" /\ closing' = "no" /\ ~g.heap[u].fin)
        /\ u \in DOMAIN g'.heap => g'.heap[u].calls <= 1
        /\ u \in g'.tmudata \ g.tmudata =>
             closing' = "separated" \/ u \notin Reach(g, {Main, L}, DOMAIN g.heap \ g.tmudata) ]_lvars

(* What the program no longer reaches is freed in the end.                 *)
Collected == \A o \in Objs : (o \in DOMAIN g.heap /\ o \notin live) ~> (o \notin DOMAIN g.heap \/ o \in live)

-----------------------------------------------------------------------------
(* Programs with few objects: each family is what the program may keep at  *)
(* addresses 1, 2 and 3; of a table's strong and weak fields, closures with*)
(* their upvalues and coroutines, userdata with finalizers, and strings.   *)
MCObjs == 1..3
MCFamilies == { << "table", "closure", "upval" >>, << "closure", "closure", "upval" >>,
                << "closure", "upval", "thread" >>, << "closure", "upval", "udata" >>,
                << "udata", "weak", "upval" >>, << "string", "weak", "upval" >> }
=============================================================================
