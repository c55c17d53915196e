---------------------------- MODULE LuaGCProofs ----------------------------
(***************************************************************************)
(* The collector, for any objects and any program: nothing in use is ever  *)
(* freed, no black object refers to a white one while objects are marked,  *)
(* and a finalizer is called once.                                         *)
(***************************************************************************)
EXTENDS LuaGC, FiniteSetTheorems, WellFoundedInduction, TLAPS

Addr     == Objs \cup {Main}
Is(o)    == IF o = Main THEN "thread" ELSE family[o]
Whites   == {"w0", "w1"}
Marks    == {"w0", "w1", "gray", "black"}
Listable == {"table", "weak", "closure", "thread"}

Object ==
  [kind : Kinds, mark : Marks, key : Addr \cup {Nil}, val : Addr \cup {Nil},
   mode : SUBSET Slots, at : {<<>>} \cup (Addr \X Slots), fin : BOOLEAN, calls : Nat]

Heaps == UNION { [D -> Object] : D \in SUBSET Addr }

Global ==
  [heap : Heaps, gcstate : {"pause", "propagate", "sweepstring", "sweep", "finalize"}, currentwhite : Whites,
   gray : SUBSET Addr, grayagain : SUBSET Addr, weak : SUBSET Addr, tosweep : SUBSET Addr, tmudata : SUBSET Addr]

(* What an object of each kind may refer to. *)
Formed(G, o) ==
  LET x == G.heap[o]
  IN /\ x.kind = Is(o)
     /\ x.kind = "closure" => x.key = Nil /\ x.val # Nil /\ Is(x.val) = "upval"
     /\ x.kind # "closure" => (x.key # Nil => Is(x.key) # "upval") /\ (x.val # Nil => Is(x.val) # "upval")
     /\ x.kind = "udata" => x.key = Nil /\ (x.val # Nil => Is(x.val) \in {"table", "weak"})
     /\ x.kind \in {"upval", "string", "table"} => x.key = Nil
     /\ x.kind = "string" \/ x.at # <<>> => x.val = Nil
     /\ x.at # <<>> => x.kind = "upval" /\ x.at[1] \in DOMAIN G.heap /\ Is(x.at[1]) = "thread"
     /\ x.kind = "weak" /\ x.val = Nil => x.key = Nil
     /\ x.mode # {} => x.kind = "weak"

(* The colours an object of each kind may have. *)
Coloured(x) ==
  /\ x.kind = "udata" \/ (x.kind = "upval" /\ x.at = <<>>) => x.mark # "gray"
  /\ x.kind = "thread" \/ x.at # <<>> => x.mark # "black"

Good(G) ==
  /\ G \in Global /\ Main \in DOMAIN G.heap
  /\ \A o \in DOMAIN G.heap : Formed(G, o) /\ Coloured(G.heap[o])

Contents(G, o) == Without({G.heap[o].key, ValueOf(G, o)})
InUse(G)       == { o \in DOMAIN G.heap : ~isdead(G, o) }
Marked(G)      == { o \in DOMAIN G.heap : G.heap[o].mark \notin Whites }

(* What is in use refers to what is in use. *)
Safe(G) == \A o \in InUse(G) : Contents(G, o) \subseteq InUse(G)

Rooted(G, l) ==
  /\ {Main, l} \cup G.tmudata \subseteq InUse(G)
  /\ Is(l) = "thread" /\ \A u \in G.tmudata : Is(u) = "udata"

(* How far each userdata's finalizer has come; a dead one's has been. *)
Finalized(G) ==
  \A u \in DOMAIN G.heap : Is(u) = "udata" =>
    /\ G.heap[u].fin \/ (u \notin G.tmudata /\ ~isdead(G, u))
    /\ G.heap[u].calls = IF G.heap[u].fin /\ u \notin G.tmudata THEN 1 ELSE 0

Base(G, l) == Good(G) /\ Safe(G) /\ Rooted(G, l) /\ Finalized(G)

(* While objects are marked. *)
NoneDead(G) == \A o \in DOMAIN G.heap : ~isdead(G, o)

BlackDone(G) ==
  \A o \in DOMAIN G.heap \ G.tmudata : Black(G, o) => Contents(G, o) \subseteq Marked(G)

Lists(G) ==
  /\ \A o \in G.gray \cup G.grayagain \cup G.weak :
       o \in DOMAIN G.heap /\ Is(o) \in Listable /\ G.heap[o].mark = "gray"
  /\ \A o \in DOMAIN G.heap :
       Is(o) \in Listable /\ G.heap[o].mark = "gray" => o \in G.gray \cup G.grayagain \cup G.weak
  /\ \A o \in G.weak : Is(o) = "weak"
  /\ G.gray \cap G.grayagain = {} /\ G.gray \cap G.weak = {} /\ G.grayagain \cap G.weak = {}

Tri(G) == NoneDead(G) /\ BlackDone(G) /\ Lists(G) /\ Main \in Marked(G)

(* Otherwise: what is not to be swept any more has the current white, and  *)
(* so has an open upvalue, unless its thread is to be swept.               *)
Swept(G) ==
  /\ G.tosweep \subseteq DOMAIN G.heap /\ G.tosweep \cap G.tmudata = {}
  /\ \A o \in G.tosweep : ~IsOpen(G, o)
  /\ \A o \in DOMAIN G.heap \ (G.tosweep \cup G.tmudata) :
       G.heap[o].mark = G.currentwhite \/ (IsOpen(G, o) /\ G.heap[o].at[1] \in G.tosweep)
  /\ G.gcstate \in {"pause", "finalize"} => G.tosweep = {}

Phase(G) == IF G.gcstate = "propagate" THEN Tri(G) ELSE Swept(G)

(* When lua_close has separated them. *)
AllFinalized(G) == \A u \in DOMAIN G.heap : Is(u) = "udata" => G.heap[u].fin

(* Until lua_close has whitened what a black object holds.                 *)
Intact == closing # "unsafe" => Base(g, L) /\ Phase(g)

IInv ==
  /\ family \in Families /\ full \in {"no", "finish", "collect"}
  /\ closing \in {"no", "separated", "calling", "unsafe"}
  /\ Intact
  /\ closing = "separated" => L = Main /\ AllFinalized(g)
  /\ closing # "unsafe" => live \subseteq InUse(g)

-----------------------------------------------------------------------------
(* The record global_State and its heap.                                   *)

LEMMA Constants ==
  /\ IsFiniteSet(Addr) /\ Nil \notin Addr /\ Main \in Addr /\ Main \notin Objs
  /\ family \in Families => \A o \in Addr : Is(o) \in Kinds
<1>1. IsFiniteSet(Addr)
  BY LuaGCAssumption, FS_AddElement DEF Addr
<1>2. family \in Families => family \in [Objs -> Kinds]
  BY LuaGCAssumption
<1> QED BY <1>1, <1>2, LuaGCAssumption DEF Addr, Is, Kinds

LEMMA GlobalHas ==
  ASSUME NEW G \in Global
  PROVE  /\ DOMAIN G.heap \subseteq Addr /\ G.heap \in [DOMAIN G.heap -> Object]
         /\ G.currentwhite \in Whites
         /\ G.gcstate \in {"pause", "propagate", "sweepstring", "sweep", "finalize"}
         /\ G.gray \subseteq Addr /\ G.grayagain \subseteq Addr /\ G.weak \subseteq Addr
         /\ G.tosweep \subseteq Addr /\ G.tmudata \subseteq Addr
<1>1. G.heap \in Heaps
  BY DEF Global
<1>2. PICK D \in SUBSET Addr : G.heap \in [D -> Object]
  BY <1>1 DEF Heaps
<1> QED BY <1>2 DEF Global

LEMMA HeapIs ==
  ASSUME NEW D \in SUBSET Addr, NEW h \in [D -> Object]
  PROVE  h \in Heaps
  BY DEF Heaps

(* A state with another heap of its own shape. *)
LEMMA NewHeap ==
  ASSUME NEW G \in Global, NEW D \in SUBSET Addr, NEW h \in [D -> Object]
  PROVE  /\ [G EXCEPT !.heap = h] \in Global
         /\ [G EXCEPT !.heap = h].heap = h
         /\ \A H : H = [G EXCEPT !.heap = h] =>
              /\ H.gcstate = G.gcstate /\ H.currentwhite = G.currentwhite
              /\ H.gray = G.gray /\ H.grayagain = G.grayagain /\ H.weak = G.weak
              /\ H.tosweep = G.tosweep /\ H.tmudata = G.tmudata
  BY HeapIs DEF Global

(* An object and its description. *)
LEMMA ObjectHas ==
  ASSUME NEW G, Good(G), NEW o \in DOMAIN G.heap
  PROVE  /\ G.heap[o] \in Object /\ o \in Addr /\ o # Nil
         /\ KindOf(G, o) = Is(o) /\ Formed(G, o) /\ Coloured(G.heap[o])
         /\ G.heap[o].mark \in Marks /\ G.heap[o].kind \in Kinds
         /\ G.heap[o].key \in Addr \cup {Nil} /\ G.heap[o].val \in Addr \cup {Nil}
         /\ G.heap[o].mode \in SUBSET Slots /\ G.heap[o].fin \in BOOLEAN /\ G.heap[o].calls \in Nat
         /\ G.heap[o].at # <<>> => /\ G.heap[o].at[1] \in DOMAIN G.heap /\ G.heap[o].at[2] \in Slots
                                   /\ G.heap[o].at = <<G.heap[o].at[1], G.heap[o].at[2]>>
<1>1. G.heap[o] \in Object /\ o \in Addr
  BY GlobalHas DEF Good
<1>2. Formed(G, o) /\ Coloured(G.heap[o])
  BY DEF Good
<1>3. G.heap[o].at \in {<<>>} \cup (Addr \X Slots)
  BY <1>1 DEF Object
<1>4. KindOf(G, o) = Is(o) /\ (G.heap[o].at # <<>> => G.heap[o].at[1] \in DOMAIN G.heap)
  BY <1>2 DEF Formed, KindOf
<1>5. o # Nil
  BY <1>1, Constants
<1> QED BY <1>1, <1>2, <1>3, <1>4, <1>5 DEF Object

(* The value of an upvalue. *)
LEMMA ValueIs ==
  ASSUME NEW G, Good(G), NEW o \in DOMAIN G.heap
  PROVE  /\ IsOpen(G, o) <=> G.heap[o].at # <<>>
         /\ IsOpen(G, o) => /\ Is(o) = "upval" /\ G.heap[o].at[1] \in DOMAIN G.heap /\ G.heap[o].at[2] \in Slots
                            /\ Is(G.heap[o].at[1]) = "thread"
                            /\ ValueOf(G, o) = G.heap[G.heap[o].at[1]][G.heap[o].at[2]]
         /\ ~IsOpen(G, o) => ValueOf(G, o) = G.heap[o].val
         /\ ValueOf(G, o) \in Addr \cup {Nil}
<1>1. /\ G.heap[o].at # <<>> => G.heap[o].kind = "upval" /\ Is(o) = "upval" /\ Is(G.heap[o].at[1]) = "thread"
  BY ObjectHas DEF Formed, KindOf
<1>2. IsOpen(G, o) <=> G.heap[o].at # <<>>
  BY <1>1 DEF IsOpen, KindOf
<1>3. G.heap[o].at # <<>> => G.heap[o].at[1] \in DOMAIN G.heap /\ G.heap[o].at[2] \in Slots
  BY ObjectHas
<1>4. \A t \in DOMAIN G.heap, s \in Slots : G.heap[t][s] \in Addr \cup {Nil}
  BY ObjectHas DEF Slots
<1>5. G.heap[o].val \in Addr \cup {Nil}
  BY ObjectHas
<1> QED BY <1>1, <1>2, <1>3, <1>4, <1>5 DEF ValueOf

(* The same objects, but for their marks. *)
SameObject(x, y) ==
  /\ x.kind = y.kind /\ x.key = y.key /\ x.val = y.val /\ x.mode = y.mode
  /\ x.at = y.at /\ x.fin = y.fin /\ x.calls = y.calls

SameShape(G, H) ==
  DOMAIN H.heap = DOMAIN G.heap /\ \A o \in DOMAIN G.heap : SameObject(G.heap[o], H.heap[o])

SameRest(G, H) ==
  /\ H.gcstate = G.gcstate /\ H.currentwhite = G.currentwhite
  /\ H.tosweep = G.tosweep /\ H.tmudata = G.tmudata

LEMMA ShapeKept ==
  ASSUME NEW G, NEW H, Good(G), SameShape(G, H), NEW o \in DOMAIN G.heap
  PROVE  /\ Formed(H, o) /\ KindOf(H, o) = KindOf(G, o) /\ (IsOpen(H, o) <=> IsOpen(G, o))
         /\ ValueOf(H, o) = ValueOf(G, o) /\ Contents(H, o) = Contents(G, o)
         /\ Strong(H.heap[o]) = Strong(G.heap[o])
<1>1. SameObject(G.heap[o], H.heap[o]) /\ DOMAIN H.heap = DOMAIN G.heap
  BY DEF SameShape
<1>2. Formed(H, o)
  <2>1. Formed(G, o)
    BY ObjectHas
  <2> QED BY <1>1, <2>1 DEF Formed, SameObject
<1>3. KindOf(H, o) = KindOf(G, o) /\ (IsOpen(H, o) <=> IsOpen(G, o)) /\ H.heap[o].at = G.heap[o].at
  BY <1>1 DEF SameObject, KindOf, IsOpen
<1>4. ValueOf(H, o) = ValueOf(G, o)
  <2>1. CASE IsOpen(G, o)
    <3>1. G.heap[o].at[1] \in DOMAIN G.heap /\ G.heap[o].at[2] \in Slots
      BY <2>1, ValueIs
    <3>2. H.heap[G.heap[o].at[1]][G.heap[o].at[2]] = G.heap[G.heap[o].at[1]][G.heap[o].at[2]]
      BY <3>1 DEF SameShape, SameObject, Slots
    <3> QED BY <1>3, <2>1, <3>2 DEF ValueOf
  <2>2. CASE ~IsOpen(G, o)
    BY <1>1, <1>3, <2>2 DEF ValueOf, SameObject
  <2> QED BY <2>1, <2>2
<1>5. H.heap[o].key = G.heap[o].key /\ H.heap[o].kind = G.heap[o].kind /\ H.heap[o].mode = G.heap[o].mode
  BY <1>1 DEF SameObject
<1> QED BY <1>2, <1>3, <1>4, <1>5 DEF Contents, Strong

LEMMA ShapeTransitive ==
  ASSUME NEW G, NEW H, NEW K, SameShape(G, H), SameShape(H, K)
  PROVE  SameShape(G, K)
  BY DEF SameShape, SameObject

(* Objects painted. *)
LEMMA Repainted ==
  ASSUME NEW G \in Global, NEW S, NEW m \in Marks, NEW H, H = Repaint(G, S, m)
  PROVE  /\ H \in Global /\ SameShape(G, H) /\ SameRest(G, H)
         /\ H.gray = G.gray /\ H.grayagain = G.grayagain /\ H.weak = G.weak
         /\ \A o \in DOMAIN G.heap : H.heap[o].mark = IF o \in S THEN m ELSE G.heap[o].mark
<1> DEFINE D == DOMAIN G.heap
           h == [o \in D |-> IF o \in S THEN [G.heap[o] EXCEPT !.mark = m] ELSE G.heap[o]]
<1>1. D \in SUBSET Addr /\ H = [G EXCEPT !.heap = h]
  BY GlobalHas DEF Repaint
<1>2. \A o \in D : G.heap[o] \in Object
  BY GlobalHas
<1>3. \A o \in D : [G.heap[o] EXCEPT !.mark = m] \in Object
  BY <1>2 DEF Object
<1>4. h \in [D -> Object]
  BY <1>2, <1>3
<1>5. \A o \in D : SameObject(G.heap[o], h[o]) /\ h[o].mark = IF o \in S THEN m ELSE G.heap[o].mark
  BY <1>2 DEF Object, SameObject
<1>6. DOMAIN h = D
  OBVIOUS
<1> HIDE DEF h, D
<1>7. H \in Global /\ H.heap = h
  BY <1>1, <1>4, NewHeap
<1>8. SameRest(G, H) /\ H.gray = G.gray /\ H.grayagain = G.grayagain /\ H.weak = G.weak
  BY <1>1, <1>4, NewHeap DEF SameRest
<1>9. SameShape(G, H)
  BY <1>5, <1>6, <1>7 DEF SameShape, D
<1> QED BY <1>5, <1>7, <1>8, <1>9 DEF D

LEMMA GoodPainted ==
  ASSUME NEW G, NEW H \in Global, Good(G), SameShape(G, H),
         \A o \in DOMAIN G.heap : Coloured(H.heap[o])
  PROVE  Good(H)
<1>1. DOMAIN H.heap = DOMAIN G.heap
  BY DEF SameShape
<1>2. \A o \in DOMAIN G.heap : Formed(H, o)
  BY ShapeKept
<1> QED BY <1>1, <1>2 DEF Good

-----------------------------------------------------------------------------
(* Marking.                                                                *)

(* Every reference leads to an object. *)
Whole(G) == \A o \in DOMAIN G.heap : Contents(G, o) \subseteq DOMAIN G.heap

LEMMA WholeHas ==
  ASSUME NEW G, Good(G), Whole(G), NEW o \in DOMAIN G.heap
  PROVE  /\ G.heap[o].key \in DOMAIN G.heap \cup {Nil} /\ ValueOf(G, o) \in DOMAIN G.heap \cup {Nil}
         /\ G.heap[o].val \in DOMAIN G.heap \cup {Nil}
<1>1. G.heap[o].key \in DOMAIN G.heap \cup {Nil} /\ ValueOf(G, o) \in DOMAIN G.heap \cup {Nil}
  BY DEF Whole, Contents, Without
<1>2. CASE IsOpen(G, o)
  <2>1. G.heap[o].val = Nil
    BY <1>2, ObjectHas, ValueIs DEF Formed
  <2> QED BY <1>1, <2>1
<1>3. CASE ~IsOpen(G, o)
  BY <1>1, <1>3, ValueIs
<1> QED BY <1>1, <1>2, <1>3

Passes(G, x) == Is(x) \in {"udata", "upval"}

LEMMA OnwardIs ==
  ASSUME NEW G, Good(G), Whole(G), NEW S \in SUBSET DOMAIN G.heap, NEW T, T = Onward(G, S)
  PROVE  /\ S \subseteq T /\ T \subseteq DOMAIN G.heap
         /\ \A o \in T \ S : White(G, o) /\ \E x \in S : Passes(G, x) /\ o = ValueOf(G, x)
         /\ \A x \in S : Passes(G, x) => ValueOf(G, x) \in T \/ ~White(G, ValueOf(G, x))
<1> DEFINE to(x) == CASE KindOf(G, x) = "udata" -> G.heap[x].val
                      [] KindOf(G, x) = "upval" -> ValueOf(G, x)
                      [] OTHER -> Nil
<1>1. T = S \cup { o \in { to(x) : x \in S } : White(G, o) }
  BY DEF Onward
<1>2. ASSUME NEW x \in S
      PROVE  to(x) = IF Passes(G, x) THEN ValueOf(G, x) ELSE Nil
  <2>1. KindOf(G, x) = Is(x)
    BY ObjectHas
  <2>2. CASE Is(x) = "udata"
    <3>1. ~IsOpen(G, x) /\ ValueOf(G, x) = G.heap[x].val
      BY <2>2, ValueIs
    <3> QED BY <2>1, <2>2, <3>1 DEF Passes
  <2>3. CASE Is(x) = "upval"
    BY <2>1, <2>3 DEF Passes
  <2>4. CASE Is(x) \notin {"udata", "upval"}
    BY <2>1, <2>4 DEF Passes
  <2> QED BY <2>2, <2>3, <2>4
<1> HIDE DEF to
<1>3. ASSUME NEW o \in T \ S
      PROVE  White(G, o) /\ o \in DOMAIN G.heap /\ \E x \in S : Passes(G, x) /\ o = ValueOf(G, x)
  <2>1. PICK x \in S : o = to(x) /\ White(G, o)
    BY <1>1, <1>3
  <2>2. o # Nil
    BY <2>1 DEF White
  <2>3. Passes(G, x) /\ o = ValueOf(G, x)
    BY <1>2, <2>1, <2>2
  <2>4. o \in DOMAIN G.heap
    BY <2>2, <2>3, WholeHas
  <2> QED BY <2>1, <2>3, <2>4
<1>4. ASSUME NEW x \in S, Passes(G, x), White(G, ValueOf(G, x))
      PROVE  ValueOf(G, x) \in T
  <2>1. to(x) = ValueOf(G, x)
    BY <1>2, <1>4
  <2> QED BY <1>1, <1>4, <2>1
<1>5. S \subseteq T /\ T \subseteq DOMAIN G.heap
  BY <1>1, <1>3
<1> QED BY <1>3, <1>4, <1>5

(* What markobject does, to some white objects. *)
MarkedFrom(G, H, S) ==
  /\ H \in Global /\ SameShape(G, H) /\ SameRest(G, H)
  /\ H.grayagain = G.grayagain /\ H.weak = G.weak
  /\ \A o \in DOMAIN G.heap : o \in Marked(G) \/ o \notin Marked(H) => H.heap[o].mark = G.heap[o].mark
  /\ \A o \in S : o # Nil => o \in Marked(H)
  /\ \A o \in Marked(H) \ Marked(G) :
       H.heap[o].mark = IF Is(o) = "udata" \/ (Is(o) = "upval" /\ ~IsOpen(G, o)) THEN "black" ELSE "gray"
  /\ \A o \in Marked(H) \ Marked(G) : Passes(G, o) => Contents(G, o) \subseteq Marked(H)
  /\ H.gray = G.gray \cup { o \in Marked(H) \ Marked(G) : Is(o) \in Listable }

LEMMA MarkObject ==
  ASSUME NEW G, Good(G), Whole(G), NEW S \in SUBSET (DOMAIN G.heap \cup {Nil}), NEW H, H = markobject(G, S)
  PROVE  MarkedFrom(G, H, S) /\ Good(H)
<1> DEFINE s == { o \in S : White(G, o) }
           t == Onward(G, s)
           m == Onward(G, t)
           black  == { o \in m : KindOf(G, o) = "udata" \/ (KindOf(G, o) = "upval" /\ ~IsOpen(G, o)) }
           listed == { o \in m : KindOf(G, o) \in {"table", "weak", "closure", "thread"} }
           A == Repaint(G, m, "gray")
           B == Repaint(A, black, "black")
<1>1. H = [B EXCEPT !.gray = @ \cup listed]
  BY DEF markobject
<1>2. s \in SUBSET DOMAIN G.heap
  BY DEF White
<1>3. t \in SUBSET DOMAIN G.heap /\ s \subseteq t
      /\ (\A o \in t \ s : White(G, o) /\ \E x \in s : Passes(G, x) /\ o = ValueOf(G, x))
      /\ (\A x \in s : Passes(G, x) => ValueOf(G, x) \in t \/ ~White(G, ValueOf(G, x)))
  <2> HIDE DEF s
  <2> QED BY <1>2, OnwardIs
<1>4. m \in SUBSET DOMAIN G.heap /\ t \subseteq m
      /\ (\A o \in m \ t : White(G, o) /\ \E x \in t : Passes(G, x) /\ o = ValueOf(G, x))
      /\ (\A x \in t : Passes(G, x) => ValueOf(G, x) \in m \/ ~White(G, ValueOf(G, x)))
  <2> HIDE DEF t
  <2> QED BY <1>3, OnwardIs
<1>5. \A o \in m : White(G, o)
  BY <1>3, <1>4 DEF s
<1> HIDE DEF t, m
<1>6. \A o \in m : KindOf(G, o) = Is(o)
  BY <1>4, ObjectHas
<1>7. black \subseteq m /\ \A o \in m : o \in black <=> Is(o) = "udata" \/ (Is(o) = "upval" /\ ~IsOpen(G, o))
  BY <1>6
<1>8. listed = { o \in m : Is(o) \in Listable }
  BY <1>6 DEF Listable
<1> HIDE DEF black, listed
(* Where the marking passes on to another object that it passes through. *)
<1>9. ASSUME NEW y \in DOMAIN G.heap, NEW x \in DOMAIN G.heap, Passes(G, y), Passes(G, x), x = ValueOf(G, y)
      PROVE  Is(x) = "udata" /\ Is(y) = "upval"
  <2>1. x # Nil
    BY ObjectHas
  <2>2. CASE IsOpen(G, y)
    <3>1. G.heap[y].at[1] \in DOMAIN G.heap /\ G.heap[y].at[2] \in Slots /\ Is(G.heap[y].at[1]) = "thread"
          /\ x = G.heap[G.heap[y].at[1]][G.heap[y].at[2]] /\ Is(y) = "upval"
      BY <1>9, <2>2, ValueIs
    <3>2. Formed(G, G.heap[y].at[1]) /\ KindOf(G, G.heap[y].at[1]) = "thread"
      BY <3>1, ObjectHas
    <3>3. Is(x) # "upval"
      BY <2>1, <3>1, <3>2 DEF Formed, KindOf, Slots
    <3> QED BY <1>9, <3>1, <3>3 DEF Passes
  <2>3. CASE ~IsOpen(G, y)
    <3>1. x = G.heap[y].val /\ Formed(G, y) /\ KindOf(G, y) = Is(y)
      BY <1>9, <2>3, ValueIs, ObjectHas
    <3>2. Is(x) # "upval"
      BY <1>9, <2>1, <3>1 DEF Formed, KindOf, Passes
    <3>3. Is(y) # "udata"
      BY <1>9, <2>1, <3>1, <3>2 DEF Formed, KindOf, Passes
    <3> QED BY <1>9, <3>2, <3>3 DEF Passes
  <2> QED BY <2>2, <2>3
(* What a marked userdata or upvalue holds is marked too. *)
<1>10. ASSUME NEW x \in m, Passes(G, x)
       PROVE  ValueOf(G, x) \in m \/ ~White(G, ValueOf(G, x))
  <2>1. CASE x \in t
    BY <1>4, <1>10, <2>1
  <2>2. CASE x \notin t
    <3>1. PICK y \in t : Passes(G, y) /\ x = ValueOf(G, y)
      BY <1>4, <2>2
    <3>2. White(G, x) /\ x \in DOMAIN G.heap /\ y \in DOMAIN G.heap
      BY <1>3, <1>4, <1>5
    <3>3. Is(y) = "upval" /\ y \notin s
      BY <1>3, <1>9, <1>10, <2>2, <3>1, <3>2
    <3>4. PICK z \in s : Passes(G, z) /\ y = ValueOf(G, z)
      BY <1>3, <3>3
    <3>5. z \in DOMAIN G.heap
      BY <1>2
    <3> QED BY <1>9, <3>1, <3>2, <3>3, <3>4, <3>5
  <2> QED BY <2>1, <2>2
(* The colours. *)
<1>11. /\ A \in Global /\ SameShape(G, A) /\ SameRest(G, A)
       /\ A.gray = G.gray /\ A.grayagain = G.grayagain /\ A.weak = G.weak
       /\ \A o \in DOMAIN G.heap : A.heap[o].mark = IF o \in m THEN "gray" ELSE G.heap[o].mark
  BY Repainted DEF Marks, Good
<1> HIDE DEF A
<1>12. DOMAIN A.heap = DOMAIN G.heap
  BY <1>11 DEF SameShape
<1>13. /\ B \in Global /\ SameShape(A, B) /\ SameRest(A, B)
       /\ B.gray = A.gray /\ B.grayagain = A.grayagain /\ B.weak = A.weak
       /\ \A o \in DOMAIN A.heap : B.heap[o].mark = IF o \in black THEN "black" ELSE A.heap[o].mark
  BY <1>11, <1>12, Repainted DEF Marks
<1> HIDE DEF B
<1>14. listed \in SUBSET Addr
  BY <1>4, <1>8, GlobalHas DEF Good
<1>15. H \in Global /\ H.heap = B.heap /\ SameRest(B, H) /\ H.gray = G.gray \cup listed
       /\ H.grayagain = G.grayagain /\ H.weak = G.weak
  BY <1>1, <1>11, <1>13, <1>14 DEF Global, SameRest
<1>16. SameShape(G, H) /\ SameRest(G, H) /\ DOMAIN H.heap = DOMAIN G.heap
  <2>1. SameShape(G, B)
    BY <1>11, <1>13, ShapeTransitive
  <2> QED BY <1>11, <1>13, <1>15, <2>1 DEF SameShape, SameRest
<1>17. \A o \in DOMAIN G.heap :
         H.heap[o].mark = IF o \in black THEN "black" ELSE IF o \in m THEN "gray" ELSE G.heap[o].mark
  BY <1>11, <1>12, <1>13, <1>15
<1>18. \A o \in DOMAIN G.heap : o \in m => o \notin Marked(G)
  BY <1>5 DEF Marked, White, Whites
<1>19. \A o \in DOMAIN G.heap : o \in Marked(H) <=> o \in Marked(G) \/ o \in m
  BY <1>7, <1>16, <1>17, <1>18 DEF Marked, Whites
<1>20. \A o \in DOMAIN G.heap : o \in Marked(G) \/ o \notin Marked(H) => H.heap[o].mark = G.heap[o].mark
  BY <1>7, <1>17, <1>18, <1>19
<1>21. Marked(H) \ Marked(G) = m
  BY <1>4, <1>16, <1>18, <1>19 DEF Marked
<1>22. \A o \in S : o # Nil => o \in Marked(H)
  <2>1. \A o \in S : o # Nil => o \in DOMAIN G.heap /\ (o \in m \/ ~White(G, o))
    BY <1>3, <1>4
  <2>2. \A o \in DOMAIN G.heap : ~White(G, o) => o \in Marked(G)
    BY ObjectHas DEF White, Marked, Whites
  <2> QED BY <1>19, <2>1, <2>2
<1>23. ASSUME NEW o \in m, Passes(G, o)
       PROVE  Contents(G, o) \subseteq Marked(H)
  <2>1. o \in DOMAIN G.heap /\ Formed(G, o) /\ KindOf(G, o) = Is(o)
    BY <1>4, ObjectHas
  <2>2. G.heap[o].key = Nil
    BY <1>23, <2>1 DEF Formed, KindOf, Passes
  <2>3. ASSUME ValueOf(G, o) # Nil PROVE ValueOf(G, o) \in Marked(H)
    <3>1. ValueOf(G, o) \in DOMAIN G.heap
      BY <2>1, <2>3, WholeHas
    <3>2. ValueOf(G, o) \in m \/ ~White(G, ValueOf(G, o))
      BY <1>10, <1>23
    <3>3. ~White(G, ValueOf(G, o)) => ValueOf(G, o) \in Marked(G)
      BY <3>1, ObjectHas DEF White, Marked, Whites
    <3> QED BY <1>19, <3>1, <3>2, <3>3
  <2> QED BY <2>2, <2>3 DEF Contents, Without
<1>24. \A o \in m : H.heap[o].mark = IF Is(o) = "udata" \/ (Is(o) = "upval" /\ ~IsOpen(G, o)) THEN "black" ELSE "gray"
  BY <1>4, <1>7, <1>17
<1>25. MarkedFrom(G, H, S)
  BY <1>8, <1>15, <1>16, <1>20, <1>21, <1>22, <1>23, <1>24 DEF MarkedFrom
<1>26. ASSUME NEW o \in DOMAIN G.heap PROVE Coloured(H.heap[o])
  <2>1. Coloured(G.heap[o]) /\ SameObject(G.heap[o], H.heap[o]) /\ KindOf(G, o) = Is(o)
        /\ (IsOpen(G, o) <=> G.heap[o].at # <<>>) /\ (IsOpen(G, o) => Is(o) = "upval")
    BY <1>16, ObjectHas, ValueIs DEF SameShape
  <2>2. CASE o \in m
    BY <1>24, <2>1, <2>2 DEF Coloured, SameObject, KindOf
  <2>3. CASE o \notin m
    BY <1>7, <1>17, <2>1, <2>3 DEF Coloured, SameObject
  <2> QED BY <2>2, <2>3
<1>27. Good(H)
  BY <1>15, <1>16, <1>26, GoodPainted
<1> QED BY <1>25, <1>27
(* What stays true of the other objects while more are marked. *)
BlackDoneBut(G, T) == \A o \in DOMAIN G.heap \ T : Black(G, o) => Contents(G, o) \subseteq Marked(G)
OpenDone(G)        == \A u \in Marked(G) : IsOpen(G, u) => Contents(G, u) \subseteq Marked(G)

Marking(G) == Good(G) /\ Whole(G) /\ Tri(G)

LEMMA MarksKept ==
  ASSUME NEW G, NEW H, NEW S, Good(G), MarkedFrom(G, H, S)
  PROVE  /\ DOMAIN H.heap = DOMAIN G.heap /\ Marked(G) \subseteq Marked(H)
         /\ Whole(G) => Whole(H)
         /\ NoneDead(G) => NoneDead(H)
         /\ OpenDone(G) => OpenDone(H)
         /\ Lists(G) => Lists(H)
         /\ \A T : BlackDoneBut(G, T) => BlackDoneBut(H, T)
<1>1. /\ DOMAIN H.heap = DOMAIN G.heap /\ H.currentwhite = G.currentwhite
      /\ H.grayagain = G.grayagain /\ H.weak = G.weak
      /\ H.gray = G.gray \cup { o \in Marked(H) \ Marked(G) : Is(o) \in Listable }
  BY DEF MarkedFrom, SameShape, SameRest
<1>2. \A o \in DOMAIN G.heap : o \in Marked(G) \/ o \notin Marked(H) => H.heap[o].mark = G.heap[o].mark
  BY DEF MarkedFrom
<1>3. \A o \in DOMAIN G.heap : Contents(H, o) = Contents(G, o) /\ (IsOpen(H, o) <=> IsOpen(G, o))
  BY ShapeKept DEF MarkedFrom
<1>4. Marked(G) \subseteq Marked(H)
  BY <1>1, <1>2 DEF Marked
<1>5. \A o \in Marked(H) \ Marked(G) :
        /\ o \in DOMAIN G.heap
        /\ H.heap[o].mark = IF Is(o) = "udata" \/ (Is(o) = "upval" /\ ~IsOpen(G, o)) THEN "black" ELSE "gray"
        /\ Passes(G, o) => Contents(G, o) \subseteq Marked(H)
  BY <1>1 DEF MarkedFrom, Marked
<1>6. Whole(G) => Whole(H)
  BY <1>1, <1>3 DEF Whole
<1>7. NoneDead(G) => NoneDead(H)
  <2>1. G.currentwhite \in Whites
    BY GlobalHas DEF Good
  <2>2. ASSUME NoneDead(G), NEW o \in DOMAIN G.heap PROVE ~isdead(H, o)
    BY <1>1, <1>2, <1>5, <2>1, <2>2 DEF NoneDead, isdead, OtherWhite, Whites
  <2> QED BY <1>1, <2>2 DEF NoneDead
<1>8. OpenDone(G) => OpenDone(H)
  <2>1. ASSUME OpenDone(G), NEW u \in Marked(H), IsOpen(H, u) PROVE Contents(H, u) \subseteq Marked(H)
    <3>1. u \in DOMAIN G.heap /\ IsOpen(G, u) /\ Contents(H, u) = Contents(G, u)
      BY <1>1, <1>3, <2>1 DEF Marked
    <3>2. CASE u \in Marked(G)
      BY <1>4, <2>1, <3>1, <3>2 DEF OpenDone
    <3>3. CASE u \notin Marked(G)
      BY <1>5, <2>1, <3>1, <3>3, ValueIs DEF Passes
    <3> QED BY <3>2, <3>3
  <2> QED BY <2>1 DEF OpenDone
<1>9. ASSUME NEW T, BlackDoneBut(G, T), NEW o \in DOMAIN H.heap \ T, Black(H, o)
      PROVE  Contents(H, o) \subseteq Marked(H)
  <2>1. o \in DOMAIN G.heap /\ Contents(H, o) = Contents(G, o)
    BY <1>1, <1>3
  <2>2. CASE o \in Marked(G)
    <3>1. Black(G, o)
      BY <1>2, <1>9, <2>1, <2>2 DEF Black
    <3> QED BY <1>4, <1>9, <2>1, <3>1 DEF BlackDoneBut
  <2>3. CASE o \notin Marked(G)
    <3>1. o \in Marked(H)
      BY <1>9, <2>1, <1>1 DEF Marked, Black, Whites
    <3>2. Passes(G, o)
      BY <1>5, <1>9, <2>3, <3>1 DEF Black, Passes
    <3> QED BY <1>5, <2>1, <2>3, <3>1, <3>2
  <2> QED BY <2>2, <2>3
<1>10. ASSUME Lists(G) PROVE Lists(H)
  <2>1. \A o \in DOMAIN G.heap : H.heap[o].mark = "gray" => o \in Marked(H)
    BY <1>1 DEF Marked, Whites
  <2>2. \A o \in G.gray \cup G.grayagain \cup G.weak :
          o \in DOMAIN G.heap /\ Is(o) \in Listable /\ G.heap[o].mark = "gray" /\ o \in Marked(G)
    BY <1>10 DEF Lists, Marked, Whites
  <2>3. ASSUME NEW o \in H.gray \cup H.grayagain \cup H.weak
        PROVE  o \in DOMAIN H.heap /\ Is(o) \in Listable /\ H.heap[o].mark = "gray"
    <3>1. CASE o \in G.gray \cup G.grayagain \cup G.weak
      BY <1>1, <1>2, <2>2, <3>1
    <3>2. CASE o \in Marked(H) \ Marked(G) /\ Is(o) \in Listable
      BY <1>1, <1>5, <3>2 DEF Listable
    <3> QED BY <1>1, <2>3, <3>1, <3>2
  <2>4. ASSUME NEW o \in DOMAIN H.heap, Is(o) \in Listable, H.heap[o].mark = "gray"
        PROVE  o \in H.gray \cup H.grayagain \cup H.weak
    <3>1. CASE o \in Marked(G)
      <4>1. G.heap[o].mark = "gray"
        BY <1>1, <1>2, <2>4, <3>1
      <4> QED BY <1>1, <1>10, <2>4, <4>1 DEF Lists
    <3>2. CASE o \notin Marked(G)
      BY <1>1, <2>1, <2>4, <3>2
    <3> QED BY <3>1, <3>2
  <2>5. H.gray \cap H.grayagain = {} /\ H.gray \cap H.weak = {} /\ H.grayagain \cap H.weak = {}
    <3>1. G.gray \cap G.grayagain = {} /\ G.gray \cap G.weak = {} /\ G.grayagain \cap G.weak = {}
      BY <1>10 DEF Lists
    <3> QED BY <1>1, <2>2, <3>1
  <2>6. \A o \in H.weak : Is(o) = "weak"
    BY <1>1, <1>10 DEF Lists
  <2> QED BY <2>3, <2>4, <2>5, <2>6 DEF Lists
<1> QED BY <1>1, <1>4, <1>6, <1>7, <1>8, <1>9, <1>10 DEF BlackDoneBut

LEMMA MarkMarking ==
  ASSUME NEW G, Marking(G), NEW S \in SUBSET (DOMAIN G.heap \cup {Nil}), NEW H, H = markobject(G, S)
  PROVE  Marking(H) /\ MarkedFrom(G, H, S)
<1>1. Good(G) /\ Whole(G) /\ NoneDead(G) /\ BlackDoneBut(G, G.tmudata) /\ Lists(G) /\ Main \in Marked(G)
  BY DEF Marking, Tri, BlackDone, BlackDoneBut
<1>2. MarkedFrom(G, H, S) /\ Good(H)
  BY <1>1, MarkObject
<1>3. Whole(H) /\ NoneDead(H) /\ BlackDoneBut(H, G.tmudata) /\ Lists(H) /\ Main \in Marked(H)
  BY <1>1, <1>2, MarksKept
<1>4. H.tmudata = G.tmudata
  BY <1>2 DEF MarkedFrom, SameRest
<1> QED BY <1>2, <1>3, <1>4 DEF Marking, Tri, BlackDone, BlackDoneBut

(* What a part of the marking may do. *)
Progress(G, H) ==
  /\ SameShape(G, H) /\ SameRest(G, H) /\ Marked(G) \subseteq Marked(H)
  /\ \A o \in DOMAIN G.heap : o \notin Marked(H) => H.heap[o].mark = G.heap[o].mark
  /\ OpenDone(G) => OpenDone(H)
  /\ \A T : BlackDoneBut(G, T) => BlackDoneBut(H, T)
  /\ \A o \in H.grayagain \ G.grayagain : Contents(G, o) \subseteq Marked(H)
  /\ \A o \in H.weak \ G.weak : Refs(G, o, Strong(G.heap[o])) \subseteq Marked(H)

LEMMA MarkProgress ==
  ASSUME NEW G, NEW H, NEW S, Good(G), MarkedFrom(G, H, S)
  PROVE  Progress(G, H)
<1>1. SameShape(G, H) /\ SameRest(G, H) /\ H.grayagain = G.grayagain /\ H.weak = G.weak
      /\ (\A o \in DOMAIN G.heap : o \in Marked(G) \/ o \notin Marked(H) => H.heap[o].mark = G.heap[o].mark)
  BY DEF MarkedFrom
<1>2. Marked(G) \subseteq Marked(H) /\ (OpenDone(G) => OpenDone(H)) /\ (\A T : BlackDoneBut(G, T) => BlackDoneBut(H, T))
  BY MarksKept
<1> QED BY <1>1, <1>2 DEF Progress

LEMMA RefsKept ==
  ASSUME NEW G, NEW H, Good(G), SameShape(G, H), NEW o \in DOMAIN G.heap
  PROVE  \A slots \in SUBSET Slots : Refs(H, o, slots) = Refs(G, o, slots)
<1>1. H.heap[o].key = G.heap[o].key /\ H.heap[o].val = G.heap[o].val
  BY DEF SameShape, SameObject
<1>2. ASSUME NEW slots \in SUBSET Slots PROVE { H.heap[o][s] : s \in slots } = { G.heap[o][s] : s \in slots }
  BY <1>1 DEF Slots
<1> QED BY <1>2 DEF Refs

LEMMA StrongIs ==
  ASSUME NEW G, Good(G), NEW o \in DOMAIN G.heap
  PROVE  Strong(G.heap[o]) \in SUBSET Slots
  BY DEF Strong, Slots

LEMMA ProgressTransitive ==
  ASSUME NEW G, NEW H, NEW K, Good(G), Marking(H), Lists(K), Progress(G, H), Progress(H, K)
  PROVE  Progress(G, K)
<1>1. SameShape(G, K) /\ SameRest(G, K) /\ Marked(G) \subseteq Marked(K) /\ Marked(H) \subseteq Marked(K)
      /\ (OpenDone(G) => OpenDone(K)) /\ (\A T : BlackDoneBut(G, T) => BlackDoneBut(K, T))
  BY ShapeTransitive DEF Progress, SameRest
<1>2. DOMAIN H.heap = DOMAIN G.heap /\ DOMAIN K.heap = DOMAIN G.heap
  BY DEF Progress, SameShape
<1>3. \A o \in DOMAIN G.heap : o \notin Marked(K) => K.heap[o].mark = G.heap[o].mark
  BY <1>1, <1>2 DEF Progress
<1>4. \A o \in DOMAIN G.heap : Contents(H, o) = Contents(G, o) /\ Strong(H.heap[o]) = Strong(G.heap[o])
                               /\ Refs(H, o, Strong(G.heap[o])) = Refs(G, o, Strong(G.heap[o]))
  BY ShapeKept, RefsKept, StrongIs DEF Progress
<1>5. \A o \in K.grayagain \cup K.weak : o \in DOMAIN G.heap
  BY <1>2 DEF Lists
<1>6. \A o \in K.grayagain \ G.grayagain : Contents(G, o) \subseteq Marked(K)
  BY <1>1, <1>4, <1>5 DEF Progress
<1>7. \A o \in K.weak \ G.weak : Refs(G, o, Strong(G.heap[o])) \subseteq Marked(K)
  BY <1>1, <1>4, <1>5 DEF Progress
<1> QED BY <1>1, <1>3, <1>6, <1>7 DEF Progress

-----------------------------------------------------------------------------
(* One round of the marking.                                               *)

Todo(G) == G.gray \cup (DOMAIN G.heap \ Marked(G))

(* Taken from gray and put on another list, or painted black. *)
Taken(G, o, again, weak) ==
  LET H == [G EXCEPT !.gray = @ \ {o}, !.grayagain = again, !.weak = weak]
  IN IF o \in again \cup weak THEN H ELSE Repaint(H, {o}, "black")

LEMMA TakenFromGray ==
  ASSUME NEW G, Marking(G), NEW o \in G.gray,
         NEW again, again = G.grayagain \/ again = G.grayagain \cup {o},
         NEW weak, weak = G.weak \/ weak = G.weak \cup {o},
         o \notin again \/ o \notin weak,
         NEW K, K = Taken(G, o, again, weak), Is(o) = "thread" => o \in again,
         o \in weak => Is(o) = "weak"
  PROVE  /\ K \in Global /\ Good(K) /\ SameShape(G, K) /\ SameRest(G, K)
         /\ DOMAIN K.heap = DOMAIN G.heap
         /\ K.gray = G.gray \ {o} /\ K.grayagain = again /\ K.weak = weak
         /\ Whole(K) /\ NoneDead(K) /\ Lists(K) /\ Marked(K) = Marked(G)
         /\ \A p \in DOMAIN G.heap : K.heap[p].mark = IF p = o /\ o \notin again \cup weak THEN "black" ELSE G.heap[p].mark
<1> DEFINE H == [G EXCEPT !.gray = @ \ {o}, !.grayagain = again, !.weak = weak]
<1>0. K = IF o \in again \cup weak THEN H ELSE Repaint(H, {o}, "black")
  BY DEF Taken
<1>1. Good(G) /\ Whole(G) /\ NoneDead(G) /\ Lists(G)
  BY DEF Marking, Tri
<1>2. o \in DOMAIN G.heap /\ Is(o) \in Listable /\ G.heap[o].mark = "gray" /\ o \in Addr
      /\ o \notin G.grayagain /\ o \notin G.weak
  BY <1>1, ObjectHas DEF Lists
<1>3. G \in Global /\ G.gray \subseteq Addr /\ G.grayagain \subseteq Addr /\ G.weak \subseteq Addr
  BY <1>1, GlobalHas DEF Good
<1>4. H \in Global /\ H.heap = G.heap /\ SameRest(G, H) /\ H.gray = G.gray \ {o} /\ H.grayagain = again /\ H.weak = weak
  BY <1>2, <1>3 DEF Global, SameRest
<1> HIDE DEF H
<1>5. SameShape(G, H)
  BY <1>4 DEF SameShape, SameObject
<1>6. /\ K \in Global /\ SameShape(G, K) /\ SameRest(G, K)
      /\ K.gray = G.gray \ {o} /\ K.grayagain = again /\ K.weak = weak
      /\ \A p \in DOMAIN G.heap : K.heap[p].mark = IF p = o /\ o \notin again \cup weak THEN "black" ELSE G.heap[p].mark
  <2>1. CASE o \in again \cup weak
    BY <1>0, <1>4, <1>5, <2>1
  <2>2. CASE o \notin again \cup weak
    <3>1. K = Repaint(H, {o}, "black") /\ "black" \in Marks
      BY <1>0, <2>2 DEF Marks
    <3>2. K \in Global /\ SameShape(H, K) /\ SameRest(H, K)
          /\ K.gray = H.gray /\ K.grayagain = H.grayagain /\ K.weak = H.weak
          /\ \A p \in DOMAIN H.heap : K.heap[p].mark = IF p \in {o} THEN "black" ELSE H.heap[p].mark
      BY ONLY <1>4, <3>1, Repainted
    <3>3. SameShape(G, K) /\ SameRest(G, K)
      BY <1>4, <1>5, <3>2, ShapeTransitive DEF SameRest
    <3> QED BY <1>4, <2>2, <3>2, <3>3
  <2> QED BY <2>1, <2>2
<1>7. DOMAIN K.heap = DOMAIN G.heap /\ K.currentwhite = G.currentwhite
  BY <1>6 DEF SameShape, SameRest
<1>8. \A p \in DOMAIN G.heap : Contents(K, p) = Contents(G, p)
  BY <1>1, <1>6, ShapeKept
<1>9. Good(K)
  <2>1. ASSUME NEW p \in DOMAIN G.heap PROVE Coloured(K.heap[p])
    <3>1. Coloured(G.heap[p]) /\ SameObject(G.heap[p], K.heap[p]) /\ KindOf(G, p) = Is(p)
          /\ (G.heap[p].at # <<>> => Is(p) = "upval")
      <4>1. SameObject(G.heap[p], K.heap[p])
        BY <1>6 DEF SameShape
      <4>2. Coloured(G.heap[p]) /\ KindOf(G, p) = Is(p)
        BY ONLY <1>1, ObjectHas, p \in DOMAIN G.heap
      <4>3. G.heap[p].at # <<>> => Is(p) = "upval"
        BY ONLY <1>1, ValueIs, p \in DOMAIN G.heap
      <4> QED BY <4>1, <4>2, <4>3
    <3>2. CASE p = o
      <4>1. K.heap[p].mark \in {"gray", "black"} /\ (o \in again \cup weak => K.heap[p].mark = "gray")
        BY <1>2, <1>6, <3>2
      <4> QED BY <1>2, <3>1, <3>2, <4>1 DEF Coloured, SameObject, KindOf, Listable
    <3>3. CASE p # o
      BY <1>6, <3>1, <3>3 DEF Coloured, SameObject
    <3> QED BY <3>2, <3>3
  <2> QED BY <1>1, <1>6, <2>1, GoodPainted
<1>10. Whole(K)
  BY <1>1, <1>7, <1>8 DEF Whole
<1>11. Marked(K) = Marked(G)
  <2>1. \A p \in DOMAIN G.heap : K.heap[p].mark \notin Whites <=> G.heap[p].mark \notin Whites
    BY <1>2, <1>6 DEF Whites
  <2> QED BY <1>7, <2>1 DEF Marked
<1>12. NoneDead(K)
  <2>1. G.currentwhite \in Whites
    BY <1>3, GlobalHas
  <2> QED BY <1>1, <1>6, <1>7, <2>1 DEF NoneDead, isdead, OtherWhite, Whites
<1>13. Lists(K)
  <2>1. G.gray \cap G.grayagain = {} /\ G.gray \cap G.weak = {} /\ G.grayagain \cap G.weak = {}
    BY <1>1 DEF Lists
  <2>2. (G.gray \ {o}) \cap again = {} /\ (G.gray \ {o}) \cap weak = {} /\ again \cap weak = {}
    BY <1>2, <2>1
  <2>3. \A p \in (G.gray \ {o}) \cup again \cup weak :
           p \in DOMAIN G.heap /\ Is(p) \in Listable /\ K.heap[p].mark = "gray"
    BY <1>1, <1>2, <1>6 DEF Lists
  <2>4. \A p \in DOMAIN G.heap : Is(p) \in Listable /\ K.heap[p].mark = "gray" => p \in (G.gray \ {o}) \cup again \cup weak
    BY <1>1, <1>2, <1>6 DEF Lists
  <2>5. \A p \in weak : Is(p) = "weak"
    BY <1>1 DEF Lists
  <2> QED BY <1>6, <1>7, <2>2, <2>3, <2>4, <2>5 DEF Lists
<1> QED BY <1>6, <1>7, <1>9, <1>10, <1>11, <1>12, <1>13

(* propagatemark *)
LEMMA PropagateMark ==
  ASSUME NEW G, Marking(G), NEW o \in G.gray, NEW H, H = propagatemark(G, o)
  PROVE  /\ Marking(H) /\ Progress(G, H)
         /\ o \notin Todo(H) /\ Todo(H) \subseteq Todo(G)
<1> DEFINE x == G.heap[o]
           again == IF x.kind = "thread" THEN G.grayagain \cup {o} ELSE G.grayagain
           weak  == IF x.mode # {} THEN G.weak \cup {o} ELSE G.weak
           P == [G EXCEPT !.gray = @ \ {o}, !.grayagain = again, !.weak = weak]
           K == IF x.kind = "thread" \/ x.mode # {} THEN P ELSE Repaint(P, {o}, "black")
           S == { x[f] : f \in Strong(x) }
<1>1. Good(G) /\ Whole(G) /\ NoneDead(G) /\ Lists(G) /\ Main \in Marked(G) /\ BlackDoneBut(G, G.tmudata)
  BY DEF Marking, Tri, BlackDone, BlackDoneBut
<1>2. o \in DOMAIN G.heap /\ Is(o) \in Listable /\ G.heap[o].mark = "gray" /\ x.kind = Is(o) /\ Formed(G, o)
      /\ o \notin G.grayagain /\ o \notin G.weak
  BY <1>1, ObjectHas DEF Lists, KindOf
<1>3. H = markobject(K, S)
  BY <1>1, Constants, GlobalHas DEF propagatemark, Good, Global
<1>4. x.mode # {} => x.kind = "weak"
  BY <1>2 DEF Formed
<1>5. Strong(x) = Slots \ x.mode
  BY <1>2 DEF Strong, Listable
<1>6. S \in SUBSET (DOMAIN G.heap \cup {Nil})
  <2>1. x.key \in DOMAIN G.heap \cup {Nil} /\ x.val \in DOMAIN G.heap \cup {Nil}
    BY <1>1, <1>2, WholeHas
  <2> QED BY <1>5, <2>1 DEF Slots
<1>7. o \in again \cup weak <=> (x.kind = "thread" \/ x.mode # {})
  BY <1>2
<1>8. (o \in weak => Is(o) = "weak") /\ (o \notin again \/ o \notin weak) /\ (Is(o) = "thread" => o \in again)
      /\ (again = G.grayagain \/ again = G.grayagain \cup {o}) /\ (weak = G.weak \/ weak = G.weak \cup {o})
  BY <1>2, <1>4
<1>9. ~IsOpen(G, o) /\ ~Passes(G, o) /\ Contents(G, o) = Without({x.key, x.val})
  <2>1. ~IsOpen(G, o) /\ ValueOf(G, o) = x.val
    BY <1>1, <1>2, ValueIs DEF Listable
  <2> QED BY <1>2, <2>1 DEF Passes, Listable, Contents
<1>10. x.mode = {} => Contents(G, o) = Without(S)
  BY <1>5, <1>9 DEF Slots
<1>11. Refs(G, o, Strong(G.heap[o])) = Without(S)
  BY DEF Refs
<1> HIDE DEF S
<1>12. /\ K \in Global /\ Good(K) /\ SameShape(G, K) /\ SameRest(G, K)
       /\ DOMAIN K.heap = DOMAIN G.heap
       /\ K.gray = G.gray \ {o} /\ K.grayagain = again /\ K.weak = weak
       /\ Whole(K) /\ NoneDead(K) /\ Lists(K) /\ Marked(K) = Marked(G)
       /\ \A p \in DOMAIN G.heap : K.heap[p].mark = IF p = o /\ o \notin again \cup weak THEN "black" ELSE G.heap[p].mark
  <2> HIDE DEF again, weak
  <2>1. K = IF o \in again \cup weak THEN P ELSE Repaint(P, {o}, "black")
    BY <1>7
  <2>2. K = Taken(G, o, again, weak)
    BY <2>1 DEF Taken
  <2> HIDE DEF K
  <2>3. o \notin again \/ o \notin weak
    BY <1>8
  <2>4. Is(o) = "thread" => o \in again
    BY <1>8
  <2>5. again = G.grayagain \/ again = G.grayagain \cup {o}
    BY <1>8
  <2>6. weak = G.weak \/ weak = G.weak \cup {o}
    BY <1>8
  <2>10. o \in weak => Is(o) = "weak"
    BY <1>8
  <2>7. K \in Global /\ Good(K) /\ SameShape(G, K) /\ SameRest(G, K) /\ DOMAIN K.heap = DOMAIN G.heap
    BY ONLY <2>2, <2>3, <2>4, <2>5, <2>6, <2>10, Marking(G), o \in G.gray, TakenFromGray
  <2>8. K.gray = G.gray \ {o} /\ K.grayagain = again /\ K.weak = weak
        /\ Whole(K) /\ NoneDead(K) /\ Lists(K) /\ Marked(K) = Marked(G)
    BY ONLY <2>2, <2>3, <2>4, <2>5, <2>6, <2>10, Marking(G), o \in G.gray, TakenFromGray
  <2>9. ASSUME NEW p \in DOMAIN G.heap
        PROVE  K.heap[p].mark = IF p = o /\ o \notin again \cup weak THEN "black" ELSE G.heap[p].mark
    BY ONLY <2>2, <2>3, <2>4, <2>5, <2>6, <2>10, Marking(G), o \in G.gray, TakenFromGray, p \in DOMAIN G.heap
  <2> QED BY <2>7, <2>8, <2>9
<1> HIDE DEF K, P, x
<1>13. MarkedFrom(K, H, S) /\ Good(H)
  BY <1>3, <1>6, <1>12, MarkObject
<1>14. DOMAIN H.heap = DOMAIN G.heap /\ Marked(G) \subseteq Marked(H)
       /\ Whole(H) /\ NoneDead(H) /\ Lists(H)
       /\ (OpenDone(K) => OpenDone(H)) /\ (\A T : BlackDoneBut(K, T) => BlackDoneBut(H, T))
  BY <1>12, <1>13, MarksKept
<1>15. SameShape(G, H) /\ SameRest(G, H) /\ H.tmudata = G.tmudata
  BY <1>12, <1>13, ShapeTransitive DEF MarkedFrom, SameRest
<1>16. \A p \in DOMAIN G.heap : Contents(K, p) = Contents(G, p) /\ (IsOpen(K, p) <=> IsOpen(G, p))
                                /\ Contents(H, p) = Contents(G, p)
  BY <1>1, <1>12, <1>15, ShapeKept
<1>17. OpenDone(G) => OpenDone(H)
  <2>1. OpenDone(G) => OpenDone(K)
    BY <1>12, <1>16 DEF OpenDone, Marked
  <2> QED BY <1>14, <2>1
<1>18. Without(S) \subseteq Marked(H)
  BY <1>13 DEF MarkedFrom, Without
<1>19. ASSUME NEW T, BlackDoneBut(G, T) PROVE BlackDoneBut(H, T)
  <2>1. BlackDoneBut(K, T \cup {o})
    BY <1>12, <1>16, <1>19 DEF BlackDoneBut, Black
  <2>2. BlackDoneBut(H, T \cup {o})
    BY <1>14, <2>1
  <2>3. ASSUME Black(H, o) PROVE Contents(H, o) \subseteq Marked(H)
    <3>1. o \in Marked(K) /\ H.heap[o].mark = K.heap[o].mark
      BY <1>2, <1>12, <1>13 DEF MarkedFrom, Marked, Whites
    <3>2. K.heap[o].mark = "black"
      BY <2>3, <3>1 DEF Black
    <3>3. o \notin again \cup weak
      BY <1>2, <1>12, <3>2 DEF x
    <3>4. x.mode = {}
      BY <1>7, <3>3
    <3> QED BY <1>2, <1>10, <1>16, <1>18, <3>4
  <2> QED BY <2>2, <2>3 DEF BlackDoneBut
<1>20. H.grayagain = again /\ H.weak = weak /\ H.gray = K.gray \cup { p \in Marked(H) \ Marked(K) : Is(p) \in Listable }
  BY <1>12, <1>13 DEF MarkedFrom
<1>21. \A p \in H.grayagain \ G.grayagain : Contents(G, p) \subseteq Marked(H)
  <2>1. \A p \in H.grayagain \ G.grayagain : p = o /\ x.kind = "thread"
    BY <1>20
  <2> QED BY <1>4, <1>10, <1>18, <2>1
<1>22. \A p \in H.weak \ G.weak : Refs(G, p, Strong(G.heap[p])) \subseteq Marked(H)
  <2>1. \A p \in H.weak \ G.weak : p = o
    BY <1>20
  <2> QED BY <1>11, <1>18, <2>1
<1>23. \A p \in DOMAIN G.heap : p \notin Marked(H) => H.heap[p].mark = G.heap[p].mark
  <2>1. \A p \in DOMAIN G.heap : p \notin Marked(H) => H.heap[p].mark = K.heap[p].mark
    BY <1>12, <1>13 DEF MarkedFrom
  <2>2. o \in Marked(H)
    BY <1>2, <1>14 DEF Marked, Whites
  <2> QED BY <1>12, <2>1, <2>2
<1>24. Progress(G, H)
  BY <1>14, <1>15, <1>17, <1>19, <1>21, <1>22, <1>23 DEF Progress
<1>25. Marking(H)
  BY <1>1, <1>13, <1>14, <1>15, <1>19 DEF Marking, Tri, BlackDone, BlackDoneBut
<1>26. o \in Marked(G)
  BY <1>2 DEF Marked, Whites
<1>27. o \notin Todo(H) /\ Todo(H) \subseteq Todo(G)
  BY <1>12, <1>14, <1>20, <1>26 DEF Todo, Marked
<1> QED BY <1>24, <1>25, <1>27

-----------------------------------------------------------------------------
(* All rounds.                                                             *)

(* A nonempty set of numbers has a least one. *)
LEMMA LeastNumber ==
  ASSUME NEW A \in SUBSET Nat, A # {}
  PROVE  \E x \in A : \A y \in A : x <= y
<1> DEFINE R == OpToRel(<, Nat)
<1>1. IsWellFoundedOn(R, Nat)
  BY NatLessThanWellFounded
<1>2. \A x, y \in Nat : <<x, y>> \in R <=> x < y
  BY DEF OpToRel
<1> HIDE DEF R
<1>3. PICK x \in A : \A y \in A : ~ (<<y, x>> \in R)
  BY <1>1, WFMin
<1>4. ASSUME NEW y \in A PROVE x <= y
  <2>1. x \in Nat /\ y \in Nat /\ ~ (<<y, x>> \in R)
    BY <1>3
  <2>2. ~ (y < x)
    BY <1>2, <2>1
  <2> QED BY <2>1, <2>2
<1> QED BY <1>3, <1>4

(* Induction, with the set of the numbers for which the claim holds. *)
LEMMA Induction ==
  ASSUME NEW A, 0 \in A, \A n \in Nat : n \in A => n + 1 \in A
  PROVE  \A n \in Nat : n \in A
<1> DEFINE B == Nat \ A
<1> SUFFICES ASSUME B # {} PROVE FALSE
  OBVIOUS
<1>1. PICK x \in B : \A y \in B : x <= y
  BY LeastNumber
<1>2. x # 0 /\ x - 1 \in Nat /\ x - 1 \notin B
  BY <1>1
<1> QED BY <1>1, <1>2

(* The states after each round: the table of propagateall exists. *)
Rounds(f, G, n) == f = [i \in 0..n |-> IF i = 0 THEN G ELSE propagateone(f[i - 1])]

LEMMA RoundsExist ==
  ASSUME NEW G
  PROVE  \A n \in Nat : \E f : Rounds(f, G, n)
<1> DEFINE A == {n \in Nat : \E f : Rounds(f, G, n)}
<1>1. 0 \in A
  <2> DEFINE f == [i \in 0..0 |-> G]
  <2>1. f = [i \in 0..0 |-> IF i = 0 THEN G ELSE propagateone(f[i - 1])]
    OBVIOUS
  <2> QED BY <2>1 DEF Rounds
<1>2. ASSUME NEW n \in Nat, n \in A PROVE n + 1 \in A
  <2>1. PICK f : Rounds(f, G, n)
    BY <1>2
  <2> DEFINE h == [i \in 0..(n + 1) |-> IF i = n + 1 THEN propagateone(f[n]) ELSE f[i]]
  <2>2. \A i \in 0..n : f[i] = IF i = 0 THEN G ELSE propagateone(f[i - 1])
    BY <2>1 DEF Rounds
  <2>3. \A i \in 0..(n + 1) : h[i] = IF i = 0 THEN G ELSE propagateone(h[i - 1])
    <3> SUFFICES ASSUME NEW i \in 0..(n + 1) PROVE h[i] = IF i = 0 THEN G ELSE propagateone(h[i - 1])
      OBVIOUS
    <3>1. i # 0 => i - 1 \in 0..n /\ h[i - 1] = f[i - 1]
      OBVIOUS
    <3>2. CASE i = n + 1
      BY <3>1, <3>2
    <3>3. CASE i # n + 1
      BY <2>2, <3>1, <3>3
    <3> QED BY <3>2, <3>3
  <2>4. h = [i \in 0..(n + 1) |-> h[i]]
    OBVIOUS
  <2> HIDE DEF h
  <2>5. h = [i \in 0..(n + 1) |-> IF i = 0 THEN G ELSE propagateone(h[i - 1])]
    BY <2>3, <2>4
  <2> QED BY <2>5 DEF Rounds
<1> HIDE DEF A
<1>3. \A n \in Nat : n \in A
  BY <1>1, <1>2, Induction
<1> QED BY <1>3 DEF A

LEMMA ProgressNone ==
  ASSUME NEW G
  PROVE  Progress(G, G)
  BY DEF Progress, SameShape, SameObject, SameRest

(* The marking goes on until gray is empty. *)
LEMMA PropagateAll ==
  ASSUME NEW G, Marking(G), NEW H, H = propagateall(G)
  PROVE  Marking(H) /\ Progress(G, H) /\ H.gray = {}
<1> DEFINE n == Cardinality(Objs) + 1
           after == CHOOSE f : f = [i \in 0..n |-> IF i = 0 THEN G ELSE propagateone(f[i - 1])]
<1>1. H = after[n]
  BY DEF propagateall
<1>2. n \in Nat /\ IsFiniteSet(Addr) /\ Cardinality(Addr) = n
  BY LuaGCAssumption, FS_CardinalityType, FS_AddElement DEF Addr
<1> HIDE DEF n
<1>3. Rounds(after, G, n)
  BY <1>2, RoundsExist DEF Rounds
<1>4. \A i \in 0..n : after[i] = IF i = 0 THEN G ELSE propagateone(after[i - 1])
  BY <1>3 DEF Rounds
<1> HIDE DEF after
<1> DEFINE A == { i \in Nat : i <= n =>
                    /\ Marking(after[i]) /\ Progress(G, after[i])
                    /\ IsFiniteSet(Todo(after[i])) /\ Cardinality(Todo(after[i])) \in Nat
                    /\ after[i].gray # {} => Cardinality(Todo(after[i])) + i <= n }
<1>5. 0 \in A
  <2>1. after[0] = G
    BY <1>2, <1>4
  <2>2. Todo(G) \subseteq Addr
    BY GlobalHas DEF Todo, Marking, Good
  <2>3. IsFiniteSet(Todo(G)) /\ Cardinality(Todo(G)) \in Nat /\ Cardinality(Todo(G)) <= n
    BY <1>2, <2>2, FS_Subset, FS_CardinalityType
  <2> QED BY <1>2, <2>1, <2>3, ProgressNone
<1>6. ASSUME NEW i \in Nat, i \in A PROVE i + 1 \in A
  <2> SUFFICES ASSUME i + 1 <= n PROVE i + 1 \in A
    OBVIOUS
  <2> DEFINE J == after[i]
             K == after[i + 1]
  <2>1. /\ Marking(J) /\ Progress(G, J) /\ IsFiniteSet(Todo(J)) /\ Cardinality(Todo(J)) \in Nat
        /\ J.gray # {} => Cardinality(Todo(J)) + i <= n
    BY <1>2, <1>6
  <2>2. K = propagateone(J)
    BY <1>2, <1>4
  <2> SUFFICES /\ Marking(K) /\ Progress(G, K) /\ IsFiniteSet(Todo(K)) /\ Cardinality(Todo(K)) \in Nat
               /\ K.gray # {} => Cardinality(Todo(K)) + (i + 1) <= n
    OBVIOUS
  <2> HIDE DEF J, K
  <2>3. CASE J.gray = {}
    <3>1. K = J
      BY <2>2, <2>3 DEF propagateone
    <3> QED BY <2>1, <2>3, <3>1
  <2>4. CASE J.gray # {}
    <3> DEFINE o == OneOf(J.gray)
    <3>1. o \in J.gray
      BY <2>4 DEF OneOf
    <3>2. K = propagatemark(J, o)
      BY <2>2, <2>4 DEF propagateone
    <3> HIDE DEF o
    <3>3. Marking(K) /\ Progress(J, K) /\ o \notin Todo(K) /\ Todo(K) \subseteq Todo(J)
      BY <2>1, <3>1, <3>2, PropagateMark
    <3>4. Todo(K) \subseteq Todo(J) \ {o} /\ o \in Todo(J)
      BY <3>1, <3>3 DEF Todo
    <3>5. IsFiniteSet(Todo(J) \ {o}) /\ Cardinality(Todo(J) \ {o}) = Cardinality(Todo(J)) - 1
      BY <2>1, <3>4, FS_RemoveElement
    <3>6. IsFiniteSet(Todo(K)) /\ Cardinality(Todo(K)) <= Cardinality(Todo(J) \ {o}) /\ Cardinality(Todo(K)) \in Nat
      BY <3>4, <3>5, FS_Subset, FS_CardinalityType
    <3>7. Progress(G, K)
      <4>1. Good(G) /\ Lists(K)
        BY <3>3 DEF Marking, Tri
      <4> QED BY <2>1, <3>3, <4>1, ProgressTransitive
    <3> QED BY <1>2, <2>1, <2>4, <3>3, <3>5, <3>6, <3>7
  <2> QED BY <2>3, <2>4
<1>7. \A i \in Nat : i \in A
  <2> HIDE DEF A
  <2> QED BY <1>5, <1>6, Induction
<1>8. Marking(H) /\ Progress(G, H) /\ IsFiniteSet(Todo(H)) /\ Cardinality(Todo(H)) \in Nat
      /\ (H.gray # {} => Cardinality(Todo(H)) + n <= n)
  BY <1>1, <1>2, <1>7
<1>9. H.gray = {}
  <2> SUFFICES ASSUME H.gray # {} PROVE FALSE
    OBVIOUS
  <2>1. Cardinality(Todo(H)) = 0
    BY <1>2, <1>8
  <2>2. Todo(H) = {}
    BY <1>8, <2>1, FS_EmptySet
  <2> QED BY <2>2 DEF Todo
<1> QED BY <1>8, <1>9

-----------------------------------------------------------------------------
(* The end of the marking: atomic.                                         *)

WeakDone(G)  == \A o \in G.weak : Refs(G, o, Strong(G.heap[o])) \subseteq Marked(G)
AgainDone(G) == \A o \in G.grayagain : Contents(G, o) \subseteq Marked(G)

LEMMA ListsKept ==
  ASSUME NEW G, NEW H, Good(G), Lists(H), Progress(G, H)
  PROVE  (WeakDone(G) => WeakDone(H)) /\ (AgainDone(G) => AgainDone(H))
<1>1. DOMAIN H.heap = DOMAIN G.heap /\ Marked(G) \subseteq Marked(H)
  BY DEF Progress, SameShape
<1>2. \A o \in H.weak \cup H.grayagain : o \in DOMAIN G.heap
  BY <1>1 DEF Lists
<1>3. \A o \in DOMAIN G.heap : Contents(H, o) = Contents(G, o) /\ Strong(H.heap[o]) = Strong(G.heap[o])
                               /\ Refs(H, o, Strong(G.heap[o])) = Refs(G, o, Strong(G.heap[o]))
  BY ShapeKept, RefsKept, StrongIs DEF Progress
<1>4. \A o \in H.weak \ G.weak : Refs(G, o, Strong(G.heap[o])) \subseteq Marked(H)
  BY DEF Progress
<1>5. \A o \in H.grayagain \ G.grayagain : Contents(G, o) \subseteq Marked(H)
  BY DEF Progress
<1>6. WeakDone(G) => WeakDone(H)
  BY <1>1, <1>2, <1>3, <1>4 DEF WeakDone
<1>7. AgainDone(G) => AgainDone(H)
  BY <1>1, <1>2, <1>3, <1>5 DEF AgainDone
<1> QED BY <1>6, <1>7

(* A list of gray objects becomes gray. *)
LEMMA Relisted ==
  ASSUME NEW G, Marking(G), G.gray = {}, NEW H \in Global, H.heap = G.heap, SameRest(G, H),
         \/ H.gray = G.weak /\ H.weak = {} /\ H.grayagain = G.grayagain
         \/ H.gray = G.grayagain /\ H.grayagain = {} /\ H.weak = G.weak
  PROVE  /\ Marking(H) /\ Good(H) /\ SameShape(G, H) /\ Marked(H) = Marked(G)
         /\ OpenDone(G) => OpenDone(H)
<1>1. /\ \A o : /\ isdead(H, o) <=> isdead(G, o)
                /\ Contents(H, o) = Contents(G, o)
                /\ Black(H, o) <=> Black(G, o)
                /\ IsOpen(H, o) <=> IsOpen(G, o)
                /\ Formed(H, o) <=> Formed(G, o)
      /\ Marked(H) = Marked(G) /\ H.tmudata = G.tmudata
  BY DEF SameRest, isdead, Contents, ValueOf, IsOpen, KindOf, Black, Formed, Marked
<1>2. Good(H)
  BY <1>1 DEF Marking, Good
<1>3. Whole(H) /\ NoneDead(H) /\ BlackDone(H) /\ Main \in Marked(H)
  BY <1>1 DEF Marking, Tri, Whole, NoneDead, BlackDone
<1>4. Lists(H)
  <2>1. Lists(G)
    BY DEF Marking, Tri
  <2> QED BY <2>1 DEF Lists
<1>5. SameShape(G, H)
  BY DEF SameShape, SameObject
<1>6. OpenDone(G) => OpenDone(H)
  BY <1>1 DEF OpenDone
<1> QED BY <1>1, <1>2, <1>3, <1>4, <1>5, <1>6 DEF Marking, Tri

(* remarkupvals *)
LEMMA RemarkUpvals ==
  ASSUME NEW G, Marking(G), NEW H, H = remarkupvals(G)
  PROVE  Marking(H) /\ Progress(G, H) /\ OpenDone(H)
<1> DEFINE U == { o \in DOMAIN G.heap : IsOpen(G, o) /\ G.heap[o].mark = "gray" }
           S == { ValueOf(G, u) : u \in U }
<1>1. H = markobject(G, S)
  BY DEF remarkupvals
<1>2. Good(G) /\ Whole(G)
  BY DEF Marking
<1>3. S \in SUBSET (DOMAIN G.heap \cup {Nil})
  BY <1>2, WholeHas
<1>4. \A u \in U : ValueOf(G, u) \in S
  OBVIOUS
<1> HIDE DEF S
<1>5. Marking(H) /\ MarkedFrom(G, H, S)
  BY <1>1, <1>3, MarkMarking
<1>6. Progress(G, H)
  BY <1>2, <1>5, MarkProgress
<1>7. ASSUME NEW u \in Marked(H), IsOpen(H, u) PROVE Contents(H, u) \subseteq Marked(H)
  <2>1. u \in DOMAIN G.heap /\ Contents(H, u) = Contents(G, u) /\ IsOpen(G, u)
    <3>1. u \in DOMAIN G.heap
      BY <1>5, <1>7 DEF MarkedFrom, SameShape, Marked
    <3> QED BY <1>2, <1>5, <1>7, <3>1, ShapeKept DEF MarkedFrom
  <2>2. Is(u) = "upval" /\ G.heap[u].at # <<>>
    BY <1>2, <2>1, ValueIs
  <2>3. CASE u \in Marked(G)
    <3>1. Coloured(G.heap[u]) /\ Formed(G, u) /\ KindOf(G, u) = "upval" /\ G.heap[u].mark \in Marks
      BY <1>2, <2>1, <2>2, ObjectHas
    <3>2. G.heap[u].mark = "gray" /\ G.heap[u].key = Nil
      BY <2>2, <2>3, <3>1 DEF Coloured, Formed, KindOf, Marked, Marks, Whites
    <3>3. ValueOf(G, u) \in S
      BY <1>4, <2>1, <3>2
    <3>4. ValueOf(G, u) # Nil => ValueOf(G, u) \in Marked(H)
      BY <1>5, <3>3 DEF MarkedFrom
    <3> QED BY <2>1, <3>2, <3>4 DEF Contents, Without
  <2>4. CASE u \notin Marked(G)
    BY <1>5, <1>7, <2>1, <2>2, <2>4 DEF MarkedFrom, Passes
  <2> QED BY <2>3, <2>4
<1> QED BY <1>5, <1>6, <1>7 DEF OpenDone

(* What is known when the program's objects are marked, and those that     *)
(* wait for their finalizers are not yet.                                  *)
Done(G) == G.gray = {} /\ OpenDone(G) /\ WeakDone(G) /\ AgainDone(G)

ProgramMarked(G, l) ==
  LET a == propagateall(remarkupvals(G))
      b == propagateall(markobject([a EXCEPT !.gray = a.weak, !.weak = {}], {l}))
  IN propagateall([b EXCEPT !.gray = b.grayagain, !.grayagain = {}])

(* H comes from G by marking alone. *)
Later(G, H) ==
  /\ SameShape(G, H) /\ SameRest(G, H) /\ Marked(G) \subseteq Marked(H)
  /\ \A o \in DOMAIN G.heap : o \notin Marked(H) => H.heap[o].mark = G.heap[o].mark

LEMMA LaterTransitive ==
  ASSUME NEW G, NEW H, NEW K, Later(G, H), Later(H, K)
  PROVE  Later(G, K)
<1>1. SameShape(G, K) /\ SameRest(G, K) /\ Marked(G) \subseteq Marked(K)
  BY ShapeTransitive DEF Later, SameRest
<1>2. DOMAIN H.heap = DOMAIN G.heap
  BY DEF Later, SameShape
<1> QED BY <1>1, <1>2 DEF Later

LEMMA ProgramMarkedDone ==
  ASSUME NEW G, Marking(G), NEW l \in DOMAIN G.heap, NEW c, c = ProgramMarked(G, l)
  PROVE  Marking(c) /\ Later(G, c) /\ Done(c) /\ l \in Marked(c)
<1> DEFINE r == remarkupvals(G)
           a == propagateall(r)
           p == [a EXCEPT !.gray = a.weak, !.weak = {}]
           q == markobject(p, {l})
           b == propagateall(q)
           s == [b EXCEPT !.gray = b.grayagain, !.grayagain = {}]
<1>1. c = propagateall(s)
  BY DEF ProgramMarked
<1>2. Marking(r) /\ Progress(G, r) /\ OpenDone(r)
  BY RemarkUpvals
<1> HIDE DEF r
<1>3. Marking(a) /\ Progress(r, a) /\ a.gray = {}
  BY <1>2, PropagateAll
<1> HIDE DEF a
<1>4. a \in Global /\ a.weak \subseteq Addr
  BY <1>3, GlobalHas DEF Marking, Good
<1>5. p \in Global /\ p.heap = a.heap /\ SameRest(a, p) /\ p.gray = a.weak /\ p.weak = {} /\ p.grayagain = a.grayagain
  BY <1>4 DEF Global, SameRest
<1> HIDE DEF p
<1>6. Marking(p) /\ Good(p) /\ SameShape(a, p) /\ Marked(p) = Marked(a) /\ (OpenDone(a) => OpenDone(p))
  BY <1>3, <1>5, Relisted
<1>7. DOMAIN p.heap = DOMAIN G.heap
  BY <1>2, <1>3, <1>5 DEF Progress, SameShape
<1>8. Marking(q) /\ MarkedFrom(p, q, {l})
  BY <1>6, <1>7, MarkMarking
<1> HIDE DEF q
<1>9. Progress(p, q) /\ l \in Marked(q)
  <2>1. l # Nil
    BY ObjectHas DEF Marking
  <2>2. l \in Marked(q)
    BY <1>8, <2>1 DEF MarkedFrom
  <2> QED BY <1>6, <1>8, <2>2, MarkProgress
<1>10. Marking(b) /\ Progress(q, b) /\ b.gray = {}
  BY <1>8, PropagateAll
<1> HIDE DEF b
<1>11. Progress(p, b)
  <2>1. Lists(b)
    BY <1>10 DEF Marking, Tri
  <2> QED BY <1>6, <1>8, <1>9, <1>10, <2>1, ProgressTransitive
<1>12. WeakDone(p)
  BY <1>5 DEF WeakDone
<1>13. WeakDone(b)
  BY <1>6, <1>10, <1>11, <1>12, ListsKept DEF Marking, Tri
<1>14. b \in Global /\ b.grayagain \subseteq Addr
  BY <1>10, GlobalHas DEF Marking, Good
<1>15. s \in Global /\ s.heap = b.heap /\ SameRest(b, s) /\ s.gray = b.grayagain /\ s.grayagain = {} /\ s.weak = b.weak
  BY <1>14 DEF Global, SameRest
<1> HIDE DEF s
<1>16. Marking(s) /\ Good(s) /\ SameShape(b, s) /\ Marked(s) = Marked(b) /\ (OpenDone(b) => OpenDone(s))
  BY <1>10, <1>15, Relisted
<1>17. WeakDone(s) /\ AgainDone(s)
  BY <1>13, <1>15, <1>16 DEF WeakDone, AgainDone, Refs
<1>18. Marking(c) /\ Progress(s, c) /\ c.gray = {}
  BY <1>1, <1>16, PropagateAll
<1>19. WeakDone(c) /\ AgainDone(c)
  BY <1>16, <1>17, <1>18, ListsKept DEF Marking, Tri
<1>20. OpenDone(c)
  BY <1>2, <1>3, <1>6, <1>11, <1>16, <1>18 DEF Progress
<1>21. Later(G, c)
  <2>1. Later(G, r) /\ Later(r, a) /\ Later(p, b) /\ Later(s, c)
    BY <1>2, <1>3, <1>11, <1>18 DEF Progress, Later
  <2>2. Later(a, p) /\ Later(b, s)
    BY <1>5, <1>6, <1>15, <1>16 DEF Later
  <2>3. Later(G, a)
    BY <2>1, LaterTransitive
  <2>4. Later(G, p)
    BY <2>2, <2>3, LaterTransitive
  <2>5. Later(G, b)
    BY <2>1, <2>4, LaterTransitive
  <2>6. Later(G, s)
    BY <2>2, <2>5, LaterTransitive
  <2> QED BY <2>1, <2>6, LaterTransitive
<1>22. l \in Marked(c)
  <2>1. Marked(q) \subseteq Marked(b) /\ Marked(s) \subseteq Marked(c)
    BY <1>10, <1>18 DEF Progress
  <2> QED BY <1>9, <1>16, <2>1
<1> QED BY <1>18, <1>19, <1>20, <1>21, <1>22 DEF Done

(* luaC_separateudata: the userdata that are to be finalized. *)
Separated(G, all) == { u \in DOMAIN G.heap : Is(u) = "udata" /\ (White(G, u) \/ all) /\ ~G.heap[u].fin }

(* The same objects, but for the fields of their finalizers. *)
SameRefs(G, H) ==
  /\ DOMAIN H.heap = DOMAIN G.heap
  /\ \A o \in DOMAIN G.heap :
       /\ H.heap[o].kind = G.heap[o].kind /\ H.heap[o].key = G.heap[o].key /\ H.heap[o].val = G.heap[o].val
       /\ H.heap[o].mode = G.heap[o].mode /\ H.heap[o].at = G.heap[o].at

SameMarks(G, H) == \A o \in DOMAIN G.heap : H.heap[o].mark = G.heap[o].mark

LEMMA SeparateIs ==
  ASSUME NEW G, Good(G), NEW all \in BOOLEAN, NEW H, H = luaC_separateudata(G, all)
  PROVE  /\ H \in Global /\ DOMAIN H.heap = DOMAIN G.heap
         /\ H.gcstate = G.gcstate /\ H.currentwhite = G.currentwhite /\ H.tosweep = G.tosweep
         /\ H.gray = G.gray /\ H.grayagain = G.grayagain /\ H.weak = G.weak
         /\ H.tmudata = G.tmudata \cup Separated(G, all)
         /\ SameRefs(G, H) /\ SameMarks(G, H)
         /\ \A o \in DOMAIN G.heap : H.heap[o].calls = G.heap[o].calls
         /\ \A o \in DOMAIN G.heap : H.heap[o].fin <=> G.heap[o].fin \/ o \in Separated(G, all)
<1> DEFINE D == DOMAIN G.heap
           S == Separated(G, all)
           h == [o \in D |-> IF o \in S THEN [G.heap[o] EXCEPT !.fin = TRUE] ELSE G.heap[o]]
<1>1. S = { u \in DOMAIN G.heap : KindOf(G, u) = "udata" /\ (White(G, u) \/ all) /\ ~G.heap[u].fin }
  BY ObjectHas DEF Separated
<1>2. G \in Global /\ D \in SUBSET Addr /\ G.tmudata \subseteq Addr
  BY GlobalHas DEF Good
<1>3. S \subseteq D
  BY <1>1
<1>4. H = [G EXCEPT !.heap = h, !.tmudata = @ \cup S]
  BY <1>1 DEF luaC_separateudata
<1>5. \A o \in D : G.heap[o] \in Object
  BY ObjectHas
<1>6. \A o \in D : [G.heap[o] EXCEPT !.fin = TRUE] \in Object
  <2>1. ASSUME NEW x \in Object PROVE [x EXCEPT !.fin = TRUE] \in Object
    BY ONLY x \in Object DEF Object
  <2> QED BY <1>5, <2>1
<1>7. h \in [D -> Object]
  BY <1>5, <1>6
<1>8. h \in Heaps
  BY <1>2, <1>7, HeapIs
<1>9. \A o \in D :
        /\ h[o].kind = G.heap[o].kind /\ h[o].mark = G.heap[o].mark
        /\ h[o].key = G.heap[o].key /\ h[o].val = G.heap[o].val
        /\ h[o].mode = G.heap[o].mode /\ h[o].at = G.heap[o].at
        /\ h[o].calls = G.heap[o].calls
  BY <1>5 DEF Object
<1>10. \A o \in D : h[o].fin <=> G.heap[o].fin \/ o \in S
  BY <1>5 DEF Object
<1> HIDE DEF h, S
<1>11. /\ H \in Global /\ H.heap = h
       /\ H.gcstate = G.gcstate /\ H.currentwhite = G.currentwhite /\ H.tosweep = G.tosweep
       /\ H.gray = G.gray /\ H.grayagain = G.grayagain /\ H.weak = G.weak
       /\ H.tmudata = G.tmudata \cup S
  BY <1>2, <1>3, <1>4, <1>8 DEF Global
<1>12. DOMAIN h = D
  BY <1>7
<1>13. SameRefs(G, H)
  BY <1>9, <1>11, <1>12 DEF SameRefs
<1>14. SameMarks(G, H)
  BY <1>9, <1>11 DEF SameMarks
<1> QED BY <1>9, <1>10, <1>11, <1>12, <1>13, <1>14 DEF S

LEMMA RefsSame ==
  ASSUME NEW G, NEW H, Good(G), SameRefs(G, H), NEW o \in DOMAIN G.heap
  PROVE  /\ Formed(H, o) /\ KindOf(H, o) = KindOf(G, o) /\ (IsOpen(H, o) <=> IsOpen(G, o))
         /\ ValueOf(H, o) = ValueOf(G, o) /\ Contents(H, o) = Contents(G, o)
         /\ Strong(H.heap[o]) = Strong(G.heap[o])
         /\ Refs(H, o, Strong(H.heap[o])) = Refs(G, o, Strong(G.heap[o]))
<1>1. DOMAIN H.heap = DOMAIN G.heap
      /\ H.heap[o].kind = G.heap[o].kind /\ H.heap[o].key = G.heap[o].key /\ H.heap[o].val = G.heap[o].val
      /\ H.heap[o].mode = G.heap[o].mode /\ H.heap[o].at = G.heap[o].at
  BY DEF SameRefs
<1>2. Formed(H, o)
  <2>1. Formed(G, o)
    BY ObjectHas
  <2> QED BY <1>1, <2>1 DEF Formed
<1>3. KindOf(H, o) = KindOf(G, o) /\ (IsOpen(H, o) <=> IsOpen(G, o))
  BY <1>1 DEF KindOf, IsOpen
<1>4. ValueOf(H, o) = ValueOf(G, o)
  <2>1. CASE IsOpen(G, o)
    <3>1. G.heap[o].at[1] \in DOMAIN G.heap /\ G.heap[o].at[2] \in Slots
      BY <2>1, ValueIs
    <3>2. H.heap[G.heap[o].at[1]][G.heap[o].at[2]] = G.heap[G.heap[o].at[1]][G.heap[o].at[2]]
      BY <3>1 DEF SameRefs, Slots
    <3> QED BY <1>1, <1>3, <2>1, <3>2 DEF ValueOf
  <2>2. CASE ~IsOpen(G, o)
    BY <1>1, <1>3, <2>2 DEF ValueOf
  <2> QED BY <2>1, <2>2
<1>5. Strong(H.heap[o]) = Strong(G.heap[o]) /\ Contents(H, o) = Contents(G, o)
  BY <1>1, <1>4 DEF Contents, Strong
<1>6. { H.heap[o][s] : s \in Strong(G.heap[o]) } = { G.heap[o][s] : s \in Strong(G.heap[o]) }
  BY <1>1 DEF Strong, Slots
<1> QED BY <1>2, <1>3, <1>4, <1>5, <1>6 DEF Refs

(* The userdata are marked again, with what they refer to. *)
LEMMA MarkTmu ==
  ASSUME NEW G, Marking(G), Done(G), NEW Q, Q = luaC_separateudata(G, FALSE),
         \A u \in G.tmudata : u \in DOMAIN G.heap /\ Is(u) = "udata",
         NEW H, H = marktmu(Q)
  PROVE  /\ Marking(H) /\ OpenDone(H) /\ WeakDone(H) /\ AgainDone(H) /\ BlackDoneBut(H, {})
         /\ Q.tmudata \subseteq Marked(H) /\ Marked(G) \subseteq Marked(H)
         /\ SameShape(Q, H) /\ SameRest(Q, H)
         /\ \A o \in DOMAIN G.heap : o \notin Marked(H) => H.heap[o].mark = G.heap[o].mark
<1> DEFINE T == Q.tmudata
           P == makewhite(Q, T)
<1>1. H = markobject(P, T)
  BY DEF marktmu
<1>2. Good(G) /\ Whole(G) /\ NoneDead(G) /\ BlackDoneBut(G, G.tmudata) /\ Lists(G) /\ Main \in Marked(G)
      /\ OpenDone(G) /\ WeakDone(G) /\ AgainDone(G)
  BY DEF Marking, Tri, BlackDone, BlackDoneBut, Done
<1>3. /\ Q \in Global /\ DOMAIN Q.heap = DOMAIN G.heap /\ Q.currentwhite = G.currentwhite
      /\ Q.gray = G.gray /\ Q.grayagain = G.grayagain /\ Q.weak = G.weak
      /\ Q.tmudata = G.tmudata \cup Separated(G, FALSE)
      /\ \A o \in DOMAIN G.heap : Q.heap[o].mark = G.heap[o].mark
      /\ SameRefs(G, Q)
  <2>1. /\ Q \in Global /\ DOMAIN Q.heap = DOMAIN G.heap /\ Q.currentwhite = G.currentwhite
        /\ Q.gray = G.gray /\ Q.grayagain = G.grayagain /\ Q.weak = G.weak
        /\ Q.tmudata = G.tmudata \cup Separated(G, FALSE)
    BY ONLY <1>2, SeparateIs, Q = luaC_separateudata(G, FALSE), FALSE \in BOOLEAN
  <2>2. SameMarks(G, Q)
    BY ONLY <1>2, SeparateIs, Q = luaC_separateudata(G, FALSE), FALSE \in BOOLEAN
  <2>3. SameRefs(G, Q)
    BY ONLY <1>2, SeparateIs, Q = luaC_separateudata(G, FALSE), FALSE \in BOOLEAN
  <2> QED BY <2>1, <2>2, <2>3 DEF SameMarks
<1>4. /\ P \in Global /\ SameShape(Q, P) /\ SameRest(Q, P)
      /\ P.gray = Q.gray /\ P.grayagain = Q.grayagain /\ P.weak = Q.weak
      /\ \A o \in DOMAIN Q.heap : P.heap[o].mark = IF o \in T THEN Q.currentwhite ELSE Q.heap[o].mark
  <2>1. Q.currentwhite \in Marks
    BY <1>3, GlobalHas DEF Marks, Whites
  <2>2. Q \in Global /\ P = Repaint(Q, T, Q.currentwhite)
    BY <1>3 DEF makewhite
  <2> HIDE DEF P, T
  <2>3. P \in Global /\ SameShape(Q, P) /\ SameRest(Q, P)
        /\ P.gray = Q.gray /\ P.grayagain = Q.grayagain /\ P.weak = Q.weak
    BY ONLY <2>1, <2>2, Repainted
  <2>4. ASSUME NEW o \in DOMAIN Q.heap
        PROVE  P.heap[o].mark = IF o \in T THEN Q.currentwhite ELSE Q.heap[o].mark
    BY ONLY <2>1, <2>2, Repainted, o \in DOMAIN Q.heap
  <2> QED BY <2>3, <2>4
<1>5. DOMAIN P.heap = DOMAIN G.heap /\ P.currentwhite = G.currentwhite /\ G.currentwhite \in Whites
  BY <1>2, <1>3, <1>4, GlobalHas DEF SameShape, SameRest, Good
<1> HIDE DEF P
<1>6. SameRefs(G, P)
  <2>1. SameRefs(G, Q) /\ SameShape(Q, P)
    BY <1>3, <1>4
  <2> QED BY ONLY <2>1 DEF SameRefs, SameShape, SameObject
<1>7. \A o \in DOMAIN G.heap :
        /\ Formed(P, o) /\ KindOf(P, o) = KindOf(G, o) /\ (IsOpen(P, o) <=> IsOpen(G, o))
        /\ ValueOf(P, o) = ValueOf(G, o) /\ Contents(P, o) = Contents(G, o)
        /\ Strong(P.heap[o]) = Strong(G.heap[o])
        /\ Refs(P, o, Strong(P.heap[o])) = Refs(G, o, Strong(G.heap[o]))
  BY <1>2, <1>6, RefsSame
<1>8. \A o \in T : o \in DOMAIN G.heap /\ Is(o) = "udata" /\ KindOf(G, o) = "udata"
  BY <1>2, <1>3, ObjectHas DEF Separated
<1>9. \A o \in DOMAIN G.heap : P.heap[o].mark = IF o \in T THEN G.currentwhite ELSE G.heap[o].mark
  BY <1>3, <1>4
<1> HIDE DEF T
<1>10. Good(P)
  <2>1. ASSUME NEW o \in DOMAIN G.heap PROVE Coloured(P.heap[o])
    <3>1. Coloured(G.heap[o]) /\ KindOf(G, o) = Is(o) /\ P.heap[o].kind = G.heap[o].kind /\ P.heap[o].at = G.heap[o].at
      BY <1>2, <1>6, ObjectHas DEF SameRefs
    <3> QED BY <1>5, <1>9, <3>1 DEF Coloured, Whites
  <2> QED BY <1>2, <1>4, <1>5, <1>7, <2>1 DEF Good
<1>11. Whole(P) /\ NoneDead(P)
  BY <1>2, <1>5, <1>7, <1>9 DEF Whole, NoneDead, isdead, OtherWhite, Whites
<1>12. Lists(P)
  <2>1. \A o \in DOMAIN G.heap : Is(o) \in Listable => P.heap[o].mark = G.heap[o].mark
    BY <1>8, <1>9 DEF Listable
  <2>2. P.gray = G.gray /\ P.grayagain = G.grayagain /\ P.weak = G.weak
    BY <1>3, <1>4
  <2> QED BY <1>2, <1>5, <2>1, <2>2 DEF Lists
<1>13. MarkedFrom(P, H, T) /\ Good(H)
  <2>1. T \in SUBSET (DOMAIN P.heap \cup {Nil})
    BY <1>5, <1>8
  <2> QED BY <1>1, <1>10, <1>11, <2>1, MarkObject DEF T
<1>14. DOMAIN H.heap = DOMAIN G.heap /\ Marked(P) \subseteq Marked(H) /\ Whole(H) /\ NoneDead(H) /\ Lists(H)
  BY <1>5, <1>10, <1>11, <1>12, <1>13, MarksKept
<1>15. T \subseteq Marked(H)
  <2>1. \A o \in T : o # Nil
    BY <1>2, <1>8, ObjectHas
  <2> QED BY <1>13, <2>1 DEF MarkedFrom
<1>16. \A o \in DOMAIN G.heap : o \in Marked(P) <=> o \in Marked(G) /\ o \notin T
  BY <1>5, <1>9 DEF Marked
<1>17. Marked(G) \subseteq Marked(H)
  BY <1>14, <1>15, <1>16 DEF Marked
<1>18. \A o \in DOMAIN G.heap : Contents(H, o) = Contents(G, o) /\ (IsOpen(H, o) <=> IsOpen(G, o))
                               /\ Strong(H.heap[o]) = Strong(G.heap[o])
                               /\ Refs(H, o, Strong(G.heap[o])) = Refs(G, o, Strong(G.heap[o]))
  <2>1. Good(P) /\ SameShape(P, H)
    BY <1>10, <1>13 DEF MarkedFrom
  <2> SUFFICES ASSUME NEW o \in DOMAIN G.heap
               PROVE  Contents(H, o) = Contents(G, o) /\ (IsOpen(H, o) <=> IsOpen(G, o))
                      /\ Strong(H.heap[o]) = Strong(G.heap[o])
                      /\ Refs(H, o, Strong(G.heap[o])) = Refs(G, o, Strong(G.heap[o]))
    OBVIOUS
  <2>2. o \in DOMAIN P.heap
    BY <1>5
  <2>3. Contents(H, o) = Contents(P, o) /\ (IsOpen(H, o) <=> IsOpen(P, o)) /\ Strong(H.heap[o]) = Strong(P.heap[o])
    BY ONLY <2>1, <2>2, ShapeKept
  <2>4. Refs(H, o, Strong(P.heap[o])) = Refs(P, o, Strong(P.heap[o]))
    BY ONLY <2>1, <2>2, RefsKept, StrongIs
  <2> QED BY <1>7, <2>3, <2>4
<1>19. \A o \in Marked(H) \ Marked(P) : Passes(G, o) => Contents(H, o) \subseteq Marked(H)
  <2>1. \A o \in Marked(H) \ Marked(P) : o \in DOMAIN G.heap /\ (Passes(P, o) => Contents(P, o) \subseteq Marked(H))
    BY <1>13, <1>14 DEF MarkedFrom, Marked
  <2> QED BY <1>7, <1>18, <2>1 DEF Passes
<1>20. BlackDoneBut(H, {})
  <2> SUFFICES ASSUME NEW o \in DOMAIN G.heap, Black(H, o) PROVE Contents(H, o) \subseteq Marked(H)
    BY <1>14 DEF BlackDoneBut
  <2>1. o \in Marked(H)
    BY <1>14 DEF Black, Marked, Whites
  <2>2. CASE o \in Marked(P)
    <3>1. G.heap[o].mark = "black" /\ o \notin T /\ o \notin G.tmudata
      BY <1>3, <1>5, <1>9, <1>13, <1>16, <2>2 DEF MarkedFrom, Black, T
    <3>2. Contents(G, o) \subseteq Marked(G)
      BY <1>2, <3>1 DEF BlackDoneBut, Black
    <3> QED BY <1>17, <1>18, <3>2
  <2>3. CASE o \notin Marked(P)
    <3>1. Passes(G, o)
      BY <1>5, <1>13, <2>1, <2>3 DEF MarkedFrom, Black, Passes
    <3> QED BY <1>19, <2>1, <2>3, <3>1
  <2> QED BY <2>2, <2>3
<1>21. OpenDone(H)
  <2> SUFFICES ASSUME NEW u \in Marked(H), IsOpen(H, u) PROVE Contents(H, u) \subseteq Marked(H)
    BY DEF OpenDone
  <2>1. u \in DOMAIN G.heap
    BY <1>14 DEF Marked
  <2>2. IsOpen(G, u) /\ Is(u) = "upval"
    BY <1>2, <1>18, <2>1, ValueIs
  <2>3. CASE u \in Marked(P)
    BY <1>2, <1>16, <1>17, <1>18, <2>1, <2>2, <2>3 DEF OpenDone
  <2>4. CASE u \notin Marked(P)
    BY <1>19, <2>2, <2>4 DEF Passes
  <2> QED BY <2>3, <2>4
<1>22. H.weak = G.weak /\ H.grayagain = G.grayagain
  BY <1>3, <1>4, <1>13 DEF MarkedFrom
<1>23. WeakDone(H) /\ AgainDone(H)
  <2>1. \A o \in G.weak \cup G.grayagain : o \in DOMAIN G.heap
    BY <1>2 DEF Lists
  <2> QED BY <1>2, <1>17, <1>18, <1>22, <2>1 DEF WeakDone, AgainDone
<1>24. SameShape(Q, H) /\ SameRest(Q, H)
  BY <1>4, <1>13, ShapeTransitive DEF MarkedFrom, SameRest
<1>25. Marking(H)
  <2>1. BlackDone(H) /\ Main \in Marked(H)
    BY <1>2, <1>17, <1>20 DEF BlackDone, BlackDoneBut
  <2> QED BY <1>13, <1>14, <2>1 DEF Marking, Tri
<1>26. ASSUME NEW o \in DOMAIN G.heap, o \notin Marked(H) PROVE H.heap[o].mark = G.heap[o].mark
  BY <1>5, <1>9, <1>13, <1>15, <1>26 DEF MarkedFrom
<1> QED BY <1>15, <1>17, <1>20, <1>21, <1>23, <1>24, <1>25, <1>26 DEF T

(* cleartable: after it, what is marked refers to what is marked. *)
LEMMA ClearTable ==
  ASSUME NEW G, Marking(G), G.gray = {}, OpenDone(G), AgainDone(G), BlackDoneBut(G, {}),
         NEW H, H = cleartable(G)
  PROVE  /\ Good(H) /\ NoneDead(H) /\ SameRest(G, H) /\ DOMAIN H.heap = DOMAIN G.heap
         /\ Marked(G) \subseteq Marked(H)
         /\ \A o \in Marked(H) : Contents(H, o) \subseteq Marked(H)
         /\ \A o \in DOMAIN G.heap :
              /\ H.heap[o].kind = G.heap[o].kind /\ H.heap[o].at = G.heap[o].at
              /\ H.heap[o].fin = G.heap[o].fin /\ H.heap[o].calls = G.heap[o].calls
         /\ \A o \in DOMAIN G.heap : o \notin Marked(H) => H.heap[o].mark = G.heap[o].mark
<1> DEFINE used    == { t \in G.weak : G.heap[t].val # Nil }
           nokey   == { t \in used : iscleared(G, G.heap[t].key, TRUE) }
           cleared == { t \in used : t \in nokey \/ iscleared(G, G.heap[t].val, FALSE) }
           strings == { o \in { G.heap[t].key : t \in used } \cup { G.heap[t].val : t \in used \ nokey } :
                          o # Nil /\ KindOf(G, o) = "string" }
           P == Repaint(G, strings, "gray")
           D == DOMAIN G.heap
           h == [o \in D |-> IF o \in cleared THEN [P.heap[o] EXCEPT !.key = Nil, !.val = Nil] ELSE P.heap[o]]
<1>1. /\ Good(G) /\ Whole(G) /\ NoneDead(G) /\ Lists(G) /\ G \in Global /\ D \in SUBSET Addr
      /\ G.currentwhite \in Whites
  BY GlobalHas DEF Marking, Tri, Good
<1>2. \A o \in G.weak : o \in D /\ Is(o) = "weak" /\ KindOf(G, o) = "weak" /\ G.heap[o].mark = "gray"
  BY <1>1, ObjectHas DEF Lists
<1>3. /\ P \in Global /\ SameShape(G, P) /\ SameRest(G, P)
      /\ P.gray = G.gray /\ P.grayagain = G.grayagain /\ P.weak = G.weak
      /\ \A o \in D : P.heap[o].mark = IF o \in strings THEN "gray" ELSE G.heap[o].mark
  <2>1. "gray" \in Marks
    BY DEF Marks
  <2> HIDE DEF strings
  <2> QED BY <1>1, <2>1, Repainted
<1>4. DOMAIN P.heap = D
  BY <1>3 DEF SameShape
<1>5. H = [P EXCEPT !.heap = h]
  BY <1>4 DEF cleartable
<1>6. cleared \subseteq G.weak
  OBVIOUS
<1>7. \A o \in strings : KindOf(G, o) = "string" /\ o \in D /\ Is(o) = "string"
  <2>1. \A t \in used : G.heap[t].key \in D \cup {Nil} /\ G.heap[t].val \in D \cup {Nil}
    BY <1>1, <1>2, WholeHas
  <2>2. \A o \in strings : KindOf(G, o) = "string" /\ o \in D
    BY <2>1
  <2> QED BY <1>1, <2>2, ObjectHas
(* A table that is not cleared. *)
<1>8. ASSUME NEW t \in G.weak, t \notin cleared, NEW p \in {G.heap[t].key, G.heap[t].val}, p # Nil
      PROVE  p \in strings \/ p \in Marked(G)
  <2>1. t \in D /\ G.heap[t].kind = "weak" /\ Formed(G, t)
    BY <1>1, <1>2, ObjectHas DEF KindOf
  <2>2. G.heap[t].val # Nil
    BY <1>8, <2>1 DEF Formed
  <2>3. t \in used /\ t \notin nokey /\ ~iscleared(G, G.heap[t].key, TRUE) /\ ~iscleared(G, G.heap[t].val, FALSE)
    BY <1>8, <2>2
  <2>4. p \in D
    BY <1>1, <1>8, <2>1, WholeHas
  <2>5. KindOf(G, p) = "string" \/ ~White(G, p)
    BY <1>8, <2>3 DEF iscleared
  <2>6. KindOf(G, p) = "string" => p \in strings
    BY <1>8, <2>3
  <2>7. ~White(G, p) => p \in Marked(G)
    BY <1>8, <2>4 DEF White, Marked, Whites
  <2> QED BY <2>5, <2>6, <2>7
<1> HIDE DEF used, nokey, cleared, strings, P
<1>9. \A o \in D : P.heap[o] \in Object /\ SameObject(G.heap[o], P.heap[o])
  BY <1>3, <1>4, GlobalHas DEF SameShape
<1>10. \A o \in D : [P.heap[o] EXCEPT !.key = Nil, !.val = Nil] \in Object
  BY <1>9 DEF Object
<1>11. h \in [D -> Object]
  BY <1>9, <1>10
<1>12. \A o \in D :
         /\ h[o].kind = G.heap[o].kind /\ h[o].mode = G.heap[o].mode /\ h[o].at = G.heap[o].at
         /\ h[o].fin = G.heap[o].fin /\ h[o].calls = G.heap[o].calls
         /\ h[o].mark = IF o \in strings THEN "gray" ELSE G.heap[o].mark
         /\ h[o].key = IF o \in cleared THEN Nil ELSE G.heap[o].key
         /\ h[o].val = IF o \in cleared THEN Nil ELSE G.heap[o].val
  <2>1. ASSUME NEW o \in D
        PROVE  /\ h[o].kind = P.heap[o].kind /\ h[o].mode = P.heap[o].mode /\ h[o].at = P.heap[o].at
               /\ h[o].fin = P.heap[o].fin /\ h[o].calls = P.heap[o].calls /\ h[o].mark = P.heap[o].mark
               /\ h[o].key = (IF o \in cleared THEN Nil ELSE P.heap[o].key)
               /\ h[o].val = (IF o \in cleared THEN Nil ELSE P.heap[o].val)
    <3>1. P.heap[o] \in Object
      BY <1>9
    <3>2. CASE o \in cleared
      <4>1. h[o] = [P.heap[o] EXCEPT !.key = Nil, !.val = Nil]
        BY <3>2
      <4> HIDE DEF h
      <4> QED BY ONLY <3>1, <3>2, <4>1 DEF Object
    <3>3. CASE o \notin cleared
      <4>1. h[o] = P.heap[o]
        BY <3>3
      <4> HIDE DEF h
      <4> QED BY ONLY <3>3, <4>1
    <3> QED BY <3>2, <3>3
  <2> HIDE DEF h
  <2>2. \A o \in D : SameObject(G.heap[o], P.heap[o]) /\ P.heap[o].mark = IF o \in strings THEN "gray" ELSE G.heap[o].mark
    BY <1>3, <1>9
  <2> QED BY ONLY <2>1, <2>2 DEF SameObject
<1> HIDE DEF h
<1>13. H \in Global /\ H.heap = h /\ SameRest(G, H)
  <2>1. P \in Global /\ D \in SUBSET Addr
    BY <1>1, <1>3
  <2> HIDE DEF D
  <2>2. H \in Global /\ H.heap = h
    BY ONLY <1>5, <1>11, <2>1, NewHeap
  <2>3. SameRest(P, H)
    BY ONLY <1>5, <1>11, <2>1, NewHeap DEF SameRest
  <2> QED BY <1>3, <2>2, <2>3 DEF SameRest
<1>14. DOMAIN H.heap = D
  BY <1>11, <1>13
<1>15. ASSUME NEW o \in D
       PROVE  /\ H.heap[o].kind = G.heap[o].kind /\ H.heap[o].at = G.heap[o].at
              /\ H.heap[o].fin = G.heap[o].fin /\ H.heap[o].calls = G.heap[o].calls
              /\ H.heap[o].mark = IF o \in strings THEN "gray" ELSE G.heap[o].mark
              /\ IsOpen(H, o) <=> IsOpen(G, o)
              /\ o \in cleared => Contents(H, o) = {}
              /\ o \notin cleared => Contents(H, o) = Contents(G, o)
  <2>1. /\ H.heap[o].kind = G.heap[o].kind /\ H.heap[o].at = G.heap[o].at
        /\ H.heap[o].fin = G.heap[o].fin /\ H.heap[o].calls = G.heap[o].calls
        /\ H.heap[o].mark = IF o \in strings THEN "gray" ELSE G.heap[o].mark
        /\ H.heap[o].key = IF o \in cleared THEN Nil ELSE G.heap[o].key
        /\ H.heap[o].val = IF o \in cleared THEN Nil ELSE G.heap[o].val
    BY <1>12, <1>13
  <2>2. IsOpen(H, o) <=> IsOpen(G, o)
    BY <2>1 DEF IsOpen, KindOf
  <2>3. CASE IsOpen(G, o)
    <3>1. G.heap[o].at[1] \in D /\ G.heap[o].at[2] \in Slots /\ Is(o) = "upval" /\ Is(G.heap[o].at[1]) = "thread"
      BY <1>1, <2>3, ValueIs
    <3>2. o \notin cleared /\ G.heap[o].at[1] \notin cleared
      BY <1>2, <1>6, <3>1
    <3>3. H.heap[G.heap[o].at[1]].key = G.heap[G.heap[o].at[1]].key
          /\ H.heap[G.heap[o].at[1]].val = G.heap[G.heap[o].at[1]].val
      BY <1>12, <1>13, <3>1, <3>2
    <3>4. ValueOf(H, o) = ValueOf(G, o)
      BY <2>1, <2>2, <2>3, <3>1, <3>3 DEF ValueOf, Slots
    <3> QED BY <2>1, <2>2, <3>2, <3>4 DEF Contents
  <2>4. CASE ~IsOpen(G, o)
    <3>1. ValueOf(H, o) = H.heap[o].val /\ ValueOf(G, o) = G.heap[o].val
      BY <2>2, <2>4 DEF ValueOf
    <3> QED BY <2>1, <2>2, <3>1 DEF Contents, Without
  <2> QED BY <2>3, <2>4
<1>16. \A o \in D : o \in Marked(H) <=> o \in Marked(G) \/ o \in strings
  BY <1>14, <1>15 DEF Marked, Whites
<1>17. Marked(G) \subseteq Marked(H)
  BY <1>16 DEF Marked
<1>18. ASSUME NEW o \in D PROVE Formed(H, o) /\ Coloured(H.heap[o])
  <2>1. Formed(G, o) /\ Coloured(G.heap[o]) /\ KindOf(G, o) = Is(o)
    BY <1>1, ObjectHas
  <2>2. o \in cleared => G.heap[o].kind = "weak"
    BY <1>2, <1>6 DEF KindOf
  <2>3. Formed(H, o)
    BY <1>12, <1>13, <1>14, <2>1, <2>2 DEF Formed
  <2>4. Coloured(H.heap[o])
    <3>1. o \in strings => G.heap[o].kind = "string" /\ G.heap[o].at = <<>>
      BY <1>7, <2>1 DEF KindOf, Formed
    <3> QED BY <1>15, <2>1, <3>1 DEF Coloured
  <2> QED BY <2>3, <2>4
<1>19. Good(H)
  BY <1>1, <1>13, <1>14, <1>18 DEF Good
<1>20. NoneDead(H)
  BY <1>1, <1>13, <1>14, <1>15 DEF NoneDead, isdead, OtherWhite, Whites, SameRest
<1>21. ASSUME NEW o \in Marked(H) PROVE Contents(H, o) \subseteq Marked(H)
  <2>1. o \in D
    BY <1>14, <1>21 DEF Marked
  <2>2. /\ Formed(G, o) /\ Coloured(G.heap[o]) /\ KindOf(G, o) = Is(o) /\ G.heap[o].mark \in Marks
        /\ G.heap[o].kind \in Kinds
    BY <1>1, <2>1, ObjectHas
  <2>3. CASE o \in cleared
    BY <1>15, <2>1, <2>3
  <2>4. CASE Is(o) = "string"
    <3>1. G.heap[o].key = Nil /\ G.heap[o].val = Nil /\ ~IsOpen(G, o)
      BY <2>2, <2>4 DEF Formed, KindOf, IsOpen
    <3>2. Contents(G, o) = {}
      BY <3>1 DEF Contents, ValueOf, Without
    <3> QED BY <1>15, <2>1, <3>2
  <2>5. CASE Is(o) # "string" /\ o \notin cleared
    <3>1. o \in Marked(G) /\ Contents(H, o) = Contents(G, o)
      BY <1>7, <1>15, <1>16, <1>21, <2>1, <2>5
    <3>2. CASE Black(G, o)
      BY <1>17, <2>1, <3>1, <3>2 DEF BlackDoneBut
    <3>3. CASE IsOpen(G, o)
      BY <1>17, <3>1, <3>3 DEF OpenDone
    <3>4. CASE ~Black(G, o) /\ ~IsOpen(G, o)
      <4>1. G.heap[o].mark = "gray"
        BY <2>2, <3>1, <3>4 DEF Black, Marked, Marks, Whites
      <4>2. Is(o) \in Listable
        BY <2>2, <2>5, <3>4, <4>1 DEF Coloured, IsOpen, KindOf, Kinds, Listable
      <4>3. o \in G.grayagain \/ o \in G.weak
        BY <1>1, <2>1, <4>1, <4>2 DEF Lists
      <4>4. CASE o \in G.grayagain
        BY <1>17, <3>1, <4>4 DEF AgainDone
      <4>5. CASE o \in G.weak
        <5>1. Contents(G, o) = Without({G.heap[o].key, G.heap[o].val})
          BY <3>4 DEF Contents, ValueOf
        <5>2. \A p \in {G.heap[o].key, G.heap[o].val} : p # Nil => p \in strings \/ p \in Marked(G)
          BY <1>8, <2>5, <4>5
        <5>3. \A p : p \in strings \/ p \in Marked(G) => p \in Marked(H)
          BY <1>7, <1>16, <1>17
        <5> QED BY <3>1, <5>1, <5>2, <5>3 DEF Without
      <4> QED BY <4>3, <4>4, <4>5
    <3> QED BY <3>2, <3>3, <3>4
  <2> QED BY <2>3, <2>4, <2>5
<1>22. \A o \in D : o \notin Marked(H) => H.heap[o].mark = G.heap[o].mark
  BY <1>15, <1>16
<1>23. \A o \in D :
         /\ H.heap[o].kind = G.heap[o].kind /\ H.heap[o].at = G.heap[o].at
         /\ H.heap[o].fin = G.heap[o].fin /\ H.heap[o].calls = G.heap[o].calls
  BY <1>15
<1> QED BY <1>13, <1>14, <1>17, <1>19, <1>20, <1>21, <1>22, <1>23

(* While nothing is dead, all is in use. *)
LEMMA AllInUse ==
  ASSUME NEW G, NEW l, Base(G, l), Tri(G)
  PROVE  InUse(G) = DOMAIN G.heap /\ Marking(G) /\ l \in DOMAIN G.heap
<1>1. InUse(G) = DOMAIN G.heap
  BY DEF Tri, NoneDead, InUse
<1> QED BY <1>1 DEF Base, Safe, Rooted, Marking, Whole

LEMMA Atomic ==
  ASSUME NEW G, NEW l, Base(G, l), Tri(G), NEW H, H = atomic(G, l)
  PROVE  /\ Base(H, l) /\ Swept(H) /\ H.gcstate = "sweepstring"
         /\ DOMAIN H.heap = DOMAIN G.heap
         /\ H.tmudata = G.tmudata \cup Separated(ProgramMarked(G, l), FALSE)
<1> DEFINE c == ProgramMarked(G, l)
           q == luaC_separateudata(c, FALSE)
           m == marktmu(q)
           e == propagateall(m)
           d == cleartable(e)
           D == DOMAIN G.heap
<1>1. H = [flip(d) EXCEPT !.tosweep = Listed(d), !.gcstate = "sweepstring", !.grayagain = {}, !.weak = {}]
  BY DEF atomic, ProgramMarked
<1>2. Marking(G) /\ l \in D /\ Good(G) /\ Main \in Marked(G)
  BY AllInUse DEF Base, Tri
<1>3. Marking(c) /\ Later(G, c) /\ Done(c) /\ l \in Marked(c)
  BY <1>2, ProgramMarkedDone
<1> HIDE DEF c
<1>4. /\ Good(c) /\ DOMAIN c.heap = D /\ SameShape(G, c) /\ SameRest(G, c) /\ Marked(G) \subseteq Marked(c)
      /\ \A o \in D : o \notin Marked(c) => c.heap[o].mark = G.heap[o].mark
  BY <1>3 DEF Marking, Later, SameShape
<1>5. \A u \in c.tmudata : u \in DOMAIN c.heap /\ Is(u) = "udata"
  BY <1>4 DEF Base, Rooted, InUse, SameRest
<1>6. /\ Marking(m) /\ OpenDone(m) /\ WeakDone(m) /\ AgainDone(m) /\ BlackDoneBut(m, {})
      /\ q.tmudata \subseteq Marked(m) /\ Marked(c) \subseteq Marked(m)
      /\ SameShape(q, m) /\ SameRest(q, m)
      /\ \A o \in DOMAIN c.heap : o \notin Marked(m) => m.heap[o].mark = c.heap[o].mark
  BY <1>3, <1>5, MarkTmu
<1>q. PICK all \in BOOLEAN : q = luaC_separateudata(c, all) /\ all = FALSE
  OBVIOUS
<1> HIDE DEF q, m
<1>7. /\ q.currentwhite = c.currentwhite /\ q.gcstate = c.gcstate /\ DOMAIN q.heap = D
      /\ q.tmudata = c.tmudata \cup Separated(c, FALSE)
  <2>1. Good(c) /\ q = luaC_separateudata(c, all)
    BY <1>4, <1>q
  <2>2. q.currentwhite = c.currentwhite /\ q.gcstate = c.gcstate /\ DOMAIN q.heap = DOMAIN c.heap
        /\ q.tmudata = c.tmudata \cup Separated(c, all)
    BY ONLY <2>1, all \in BOOLEAN, SeparateIs
  <2> QED BY <1>4, <1>q, <2>2
<1>8. /\ \A o \in DOMAIN c.heap : q.heap[o].calls = c.heap[o].calls
      /\ \A o \in DOMAIN c.heap : q.heap[o].fin <=> c.heap[o].fin \/ o \in Separated(c, FALSE)
  <2>1. Good(c) /\ q = luaC_separateudata(c, all)
    BY <1>4, <1>q
  <2>2. \A o \in DOMAIN c.heap : q.heap[o].calls = c.heap[o].calls
    BY ONLY <2>1, all \in BOOLEAN, SeparateIs
  <2>3. \A o \in DOMAIN c.heap : q.heap[o].fin <=> c.heap[o].fin \/ o \in Separated(c, all)
    BY ONLY <2>1, all \in BOOLEAN, SeparateIs
  <2> QED BY <1>q, <2>2, <2>3
<1>9. Marking(e) /\ Progress(m, e) /\ e.gray = {}
  BY <1>6, PropagateAll
<1> HIDE DEF e
<1>10. OpenDone(e) /\ BlackDoneBut(e, {}) /\ AgainDone(e) /\ SameShape(m, e) /\ SameRest(m, e) /\ Marked(m) \subseteq Marked(e)
       /\ (\A o \in DOMAIN m.heap : o \notin Marked(e) => e.heap[o].mark = m.heap[o].mark)
  <2>1. AgainDone(e)
    BY <1>6, <1>9, ListsKept DEF Marking, Tri
  <2> QED BY <1>6, <1>9, <2>1 DEF Progress
<1>11. /\ Good(d) /\ NoneDead(d) /\ SameRest(e, d) /\ DOMAIN d.heap = DOMAIN e.heap
       /\ Marked(e) \subseteq Marked(d)
  BY <1>9, <1>10, ClearTable
<1>12. /\ \A o \in Marked(d) : Contents(d, o) \subseteq Marked(d)
       /\ \A o \in DOMAIN e.heap : d.heap[o].fin = e.heap[o].fin /\ d.heap[o].calls = e.heap[o].calls
       /\ \A o \in DOMAIN e.heap : o \notin Marked(d) => d.heap[o].mark = e.heap[o].mark
  BY <1>9, <1>10, ClearTable
<1> HIDE DEF d
<1>13. DOMAIN e.heap = D /\ DOMAIN m.heap = D /\ DOMAIN d.heap = D
  BY <1>6, <1>7, <1>10, <1>11 DEF SameShape
<1>14. d.currentwhite = G.currentwhite /\ d.tmudata = G.tmudata \cup Separated(c, FALSE)
  BY <1>4, <1>6, <1>7, <1>10, <1>11 DEF SameRest
<1>15. d \in Global /\ D \subseteq Addr /\ d.currentwhite \in Whites
  BY <1>11, <1>13, GlobalHas DEF Good
<1>16. Listed(d) \in SUBSET Addr
  BY <1>13, <1>15 DEF Listed
<1>17. /\ H \in Global /\ H.heap = d.heap /\ H.tosweep = Listed(d) /\ H.gcstate = "sweepstring"
       /\ H.tmudata = d.tmudata /\ H.currentwhite = OtherWhite(d.currentwhite)
  <2>1. OtherWhite(d.currentwhite) \in Whites
    BY DEF OtherWhite, Whites
  <2> QED BY <1>1, <1>15, <1>16, <2>1 DEF flip, Global
<1>18. \A o : /\ Contents(H, o) = Contents(d, o) /\ (IsOpen(H, o) <=> IsOpen(d, o)) /\ (Formed(H, o) <=> Formed(d, o))
  BY <1>17 DEF Contents, ValueOf, IsOpen, KindOf, Formed
<1>19. Good(H)
  BY <1>11, <1>17, <1>18 DEF Good
<1>20. InUse(H) = Marked(d)
  <2>1. \A o \in D : d.heap[o].mark \in Marks /\ ~isdead(d, o)
    BY <1>11, <1>13, ObjectHas DEF NoneDead
  <2>2. OtherWhite(H.currentwhite) = d.currentwhite
    BY <1>15, <1>17 DEF OtherWhite, Whites
  <2> QED BY <1>13, <1>15, <1>17, <2>1, <2>2 DEF InUse, Marked, isdead, OtherWhite, Marks, Whites
<1>21. Safe(H)
  BY <1>12, <1>18, <1>20 DEF Safe
<1>22. Rooted(H, l)
  <2>1. Marked(c) \subseteq Marked(d) /\ q.tmudata \subseteq Marked(d)
    BY <1>6, <1>10, <1>11
  <2>2. {Main, l} \subseteq Marked(d)
    BY <1>2, <1>3, <1>4, <2>1
  <2>3. H.tmudata = q.tmudata
    BY <1>4, <1>7, <1>14, <1>17 DEF SameRest
  <2>4. Is(l) = "thread" /\ \A u \in G.tmudata : Is(u) = "udata"
    BY DEF Base, Rooted
  <2>5. \A u \in Separated(c, FALSE) : Is(u) = "udata"
    BY DEF Separated
  <2> QED BY <1>14, <1>17, <1>20, <2>1, <2>2, <2>3, <2>4, <2>5 DEF Rooted
<1>23. Finalized(H)
  <2> SUFFICES ASSUME NEW u \in D, Is(u) = "udata"
               PROVE  /\ H.heap[u].fin \/ (u \notin H.tmudata /\ ~isdead(H, u))
                      /\ H.heap[u].calls = IF H.heap[u].fin /\ u \notin H.tmudata THEN 1 ELSE 0
    BY <1>13, <1>17 DEF Finalized
  <2>1. /\ G.heap[u].fin \/ (u \notin G.tmudata /\ ~isdead(G, u))
        /\ G.heap[u].calls = IF G.heap[u].fin /\ u \notin G.tmudata THEN 1 ELSE 0
    BY DEF Base, Finalized
  <2>2. c.heap[u].fin = G.heap[u].fin /\ c.heap[u].calls = G.heap[u].calls
    BY <1>4 DEF SameShape, SameObject
  <2>3. H.heap[u].fin = q.heap[u].fin /\ H.heap[u].calls = q.heap[u].calls
    BY <1>6, <1>7, <1>10, <1>12, <1>13, <1>17 DEF SameShape, SameObject
  <2>4. q.heap[u].calls = c.heap[u].calls /\ (q.heap[u].fin <=> c.heap[u].fin \/ u \in Separated(c, FALSE))
    BY <1>4, <1>8
  <2>5. u \in Separated(c, FALSE) <=> White(c, u) /\ ~c.heap[u].fin
    BY <1>4 DEF Separated
  <2>6. ~White(c, u) => u \in Marked(d)
    <3>1. ~White(c, u) => u \in Marked(c)
      BY <1>4, ObjectHas DEF White, Marked, Whites
    <3> QED BY <1>6, <1>10, <1>11, <3>1
  <2>7. u \in Marked(d) => ~isdead(H, u)
    BY <1>20 DEF InUse
  <2> QED BY <1>14, <1>17, <2>1, <2>2, <2>3, <2>4, <2>5, <2>6, <2>7
<1>24. Swept(H)
  <2>1. H.tosweep = { o \in D : ~IsOpen(H, o) /\ o \notin H.tmudata }
    BY <1>13, <1>17, <1>18 DEF Listed
  <2>2. ASSUME NEW o \in D, IsOpen(H, o) PROVE H.heap[o].at[1] \in H.tosweep
    <3>1. H.heap[o].at[1] \in D /\ Is(H.heap[o].at[1]) = "thread"
      BY <1>13, <1>17, <1>19, <2>2, ValueIs
    <3>2. ~IsOpen(H, H.heap[o].at[1])
      BY <1>13, <1>17, <1>19, <3>1, ValueIs
    <3>3. H.heap[o].at[1] \notin H.tmudata
      BY <1>22, <3>1 DEF Rooted
    <3> QED BY <2>1, <3>1, <3>2, <3>3
  <2> QED BY <1>13, <1>17, <2>1, <2>2 DEF Swept
<1> QED BY <1>13, <1>14, <1>17, <1>19, <1>21, <1>22, <1>23, <1>24 DEF Base, c

-----------------------------------------------------------------------------
(* The sweep, and what else frees, closes or whitens objects.              *)

LEMMA FreedIs ==
  ASSUME NEW G \in Global, NEW S, NEW H, H = Freed(G, S)
  PROVE  /\ H \in Global /\ DOMAIN H.heap = DOMAIN G.heap \ S
         /\ SameRest(G, H) /\ H.gray = G.gray /\ H.grayagain = G.grayagain /\ H.weak = G.weak
         /\ \A o \in DOMAIN H.heap : H.heap[o] = G.heap[o]
<1> DEFINE D == DOMAIN G.heap \ S
           h == [o \in D |-> G.heap[o]]
<1>1. D \in SUBSET Addr /\ H = [G EXCEPT !.heap = h]
  BY GlobalHas DEF Freed
<1>2. h \in [D -> Object]
  BY GlobalHas
<1> HIDE DEF h, D
<1>3. H \in Global /\ H.heap = h
  BY ONLY <1>1, <1>2, NewHeap, G \in Global
<1>4. SameRest(G, H) /\ H.gray = G.gray /\ H.grayagain = G.grayagain /\ H.weak = G.weak
  BY ONLY <1>1, <1>2, NewHeap, G \in Global DEF SameRest
<1> QED BY <1>2, <1>3, <1>4 DEF h, D

(* H comes from G by freeing dead objects, closing upvalues and whitening  *)
(* objects that are in use.                                                *)
TrimmedObject(x, y) ==
  y.kind = x.kind /\ y.key = x.key /\ y.mode = x.mode /\ y.fin = x.fin /\ y.calls = x.calls

Trimmed(G, H) ==
  /\ H \in Global /\ H.currentwhite = G.currentwhite /\ H.tmudata = G.tmudata
  /\ DOMAIN H.heap \subseteq DOMAIN G.heap /\ InUse(G) \subseteq DOMAIN H.heap
  /\ \A o \in DOMAIN H.heap :
       /\ TrimmedObject(G.heap[o], H.heap[o])
       /\ \/ H.heap[o].at = G.heap[o].at /\ H.heap[o].val = G.heap[o].val
          \/ G.heap[o].at # <<>> /\ H.heap[o].at = <<>> /\ H.heap[o].val = ValueOf(G, o)
       /\ Coloured(H.heap[o])
       /\ isdead(H, o) <=> isdead(G, o)
       /\ H.heap[o].at # <<>> => H.heap[o].at[1] \in DOMAIN H.heap

LEMMA TrimmedHas ==
  ASSUME NEW G, NEW H, Good(G), Trimmed(G, H), NEW o \in DOMAIN H.heap
  PROVE  Formed(H, o) /\ ValueOf(H, o) = ValueOf(G, o) /\ Contents(H, o) = Contents(G, o)
<1>1. /\ TrimmedObject(G.heap[o], H.heap[o]) /\ o \in DOMAIN G.heap
      /\ \/ H.heap[o].at = G.heap[o].at /\ H.heap[o].val = G.heap[o].val
         \/ G.heap[o].at # <<>> /\ H.heap[o].at = <<>> /\ H.heap[o].val = ValueOf(G, o)
      /\ H.heap[o].at # <<>> => H.heap[o].at[1] \in DOMAIN H.heap
  BY DEF Trimmed
<1>2. Formed(G, o) /\ KindOf(G, o) = Is(o) /\ (IsOpen(G, o) <=> G.heap[o].at # <<>>)
      /\ (IsOpen(G, o) => Is(o) = "upval")
  BY <1>1, ObjectHas, ValueIs
<1>3. CASE H.heap[o].at = G.heap[o].at /\ H.heap[o].val = G.heap[o].val
  <2>1. Formed(H, o)
    BY <1>1, <1>2, <1>3 DEF Formed, TrimmedObject
  <2>2. ValueOf(H, o) = ValueOf(G, o)
    <3>1. IsOpen(H, o) <=> IsOpen(G, o)
      BY <1>1, <1>3 DEF IsOpen, KindOf, TrimmedObject
    <3>2. CASE IsOpen(G, o)
      <4>1. G.heap[o].at[1] \in DOMAIN H.heap /\ G.heap[o].at[2] \in Slots /\ G.heap[o].at[1] \in DOMAIN G.heap
            /\ Is(G.heap[o].at[1]) = "thread"
        BY <1>1, <1>2, <1>3, <3>2, ValueIs
      <4>2. G.heap[G.heap[o].at[1]].at = <<>>
        BY <4>1, ValueIs
      <4>3. H.heap[G.heap[o].at[1]].key = G.heap[G.heap[o].at[1]].key
            /\ H.heap[G.heap[o].at[1]].val = G.heap[G.heap[o].at[1]].val
        BY <4>1, <4>2 DEF Trimmed, TrimmedObject
      <4> QED BY <1>3, <3>1, <3>2, <4>1, <4>3 DEF ValueOf, Slots
    <3>3. CASE ~IsOpen(G, o)
      BY <1>3, <3>1, <3>3 DEF ValueOf
    <3> QED BY <3>2, <3>3
  <2> QED BY <1>1, <2>1, <2>2 DEF Contents, TrimmedObject
<1>4. CASE G.heap[o].at # <<>> /\ H.heap[o].at = <<>> /\ H.heap[o].val = ValueOf(G, o)
  <2>1. G.heap[o].kind = "upval" /\ H.heap[o].kind = "upval" /\ Is(o) = "upval"
    BY <1>1, <1>2, <1>4 DEF KindOf, TrimmedObject
  <2>2. ValueOf(H, o) = ValueOf(G, o)
    BY <1>4 DEF ValueOf, IsOpen
  <2>3. ValueOf(G, o) # Nil => Is(ValueOf(G, o)) # "upval"
    <3>1. G.heap[o].at[1] \in DOMAIN G.heap /\ G.heap[o].at[2] \in Slots
          /\ Is(G.heap[o].at[1]) = "thread" /\ ValueOf(G, o) = G.heap[G.heap[o].at[1]][G.heap[o].at[2]]
      BY <1>1, <1>2, <1>4, ValueIs
    <3>2. Formed(G, G.heap[o].at[1]) /\ KindOf(G, G.heap[o].at[1]) = "thread"
      BY <3>1, ObjectHas
    <3> QED BY <3>1, <3>2 DEF Formed, KindOf, Slots
  <2>4. Formed(H, o)
    BY <1>1, <1>2, <1>4, <2>1, <2>3 DEF Formed, TrimmedObject
  <2> QED BY <1>1, <2>2, <2>4 DEF Contents, TrimmedObject
<1> QED BY <1>1, <1>3, <1>4

LEMMA TrimmedBase ==
  ASSUME NEW G, NEW H, NEW l, Base(G, l), Trimmed(G, H)
  PROVE  Base(H, l) /\ InUse(H) = InUse(G)
<1>1. Good(G) /\ Safe(G) /\ Rooted(G, l) /\ Finalized(G)
  BY DEF Base
<1>2. /\ H \in Global /\ H.currentwhite = G.currentwhite /\ H.tmudata = G.tmudata
      /\ DOMAIN H.heap \subseteq DOMAIN G.heap /\ InUse(G) \subseteq DOMAIN H.heap
  BY DEF Trimmed
<1>3. \A o \in DOMAIN H.heap : isdead(H, o) <=> isdead(G, o)
  BY DEF Trimmed
<1>4. InUse(H) = InUse(G)
  BY <1>2, <1>3 DEF InUse
<1>5. Good(H)
  <2>1. \A o \in DOMAIN H.heap : Formed(H, o) /\ Coloured(H.heap[o])
    BY <1>1, TrimmedHas DEF Trimmed
  <2>2. Main \in DOMAIN H.heap
    BY <1>1, <1>2 DEF Rooted
  <2> QED BY <1>2, <2>1, <2>2 DEF Good
<1>6. Safe(H)
  <2>1. \A o \in InUse(H) : o \in DOMAIN H.heap
    BY DEF InUse
  <2>2. \A o \in InUse(H) : Contents(H, o) = Contents(G, o)
    BY <1>1, <2>1, TrimmedHas
  <2> QED BY <1>1, <1>4, <2>2 DEF Safe
<1>7. Rooted(H, l)
  BY <1>1, <1>2, <1>4 DEF Rooted
<1>8. Finalized(H)
  <2>1. \A u \in DOMAIN H.heap : H.heap[u].fin = G.heap[u].fin /\ H.heap[u].calls = G.heap[u].calls
    BY DEF Trimmed, TrimmedObject
  <2> QED BY <1>1, <1>2, <1>3, <2>1 DEF Finalized
<1> QED BY <1>4, <1>5, <1>6, <1>7, <1>8 DEF Base

(* luaF_close, up to the colours of the upvalues that were gray. *)
Left(G, t, slots) == { u \in OpenAt(G, t) : G.heap[u].at[2] \in slots }
DeadIn(G, S)      == { u \in S : isdead(G, u) }
GrayLeft(G, t, slots) == { u \in Left(G, t, slots) : G.heap[u].mark = "gray" }

Closed(G, t, slots) ==
  Freed([G EXCEPT !.heap = [o \in DOMAIN @ |-> IF o \in Left(G, t, slots)
                                               THEN [@[o] EXCEPT !.val = ValueOf(G, o), !.at = <<>>] ELSE @[o]]],
        DeadIn(G, Left(G, t, slots)))

LEMMA ClosedIs ==
  ASSUME NEW G, Good(G), NEW t, NEW slots, NEW K, K = Closed(G, t, slots)
  PROVE  /\ K \in Global /\ DOMAIN K.heap = DOMAIN G.heap \ DeadIn(G, Left(G, t, slots))
         /\ SameRest(G, K) /\ K.gray = G.gray /\ K.grayagain = G.grayagain /\ K.weak = G.weak
         /\ \A o \in DOMAIN K.heap :
              /\ TrimmedObject(G.heap[o], K.heap[o]) /\ K.heap[o].mark = G.heap[o].mark
              /\ o \in Left(G, t, slots) => K.heap[o].at = <<>> /\ K.heap[o].val = ValueOf(G, o)
              /\ o \notin Left(G, t, slots) => K.heap[o].at = G.heap[o].at /\ K.heap[o].val = G.heap[o].val
<1> DEFINE D == DOMAIN G.heap
           S == Left(G, t, slots)
           h == [o \in D |-> IF o \in S THEN [G.heap[o] EXCEPT !.val = ValueOf(G, o), !.at = <<>>] ELSE G.heap[o]]
           J == [G EXCEPT !.heap = h]
<1>1. G \in Global /\ D \in SUBSET Addr
  BY GlobalHas DEF Good
<1>2. \A o \in D : G.heap[o] \in Object /\ ValueOf(G, o) \in Addr \cup {Nil}
  BY ObjectHas, ValueIs
<1>3. ASSUME NEW o \in D
      PROVE  /\ [G.heap[o] EXCEPT !.val = ValueOf(G, o), !.at = <<>>] \in Object
             /\ TrimmedObject(G.heap[o], h[o]) /\ h[o].mark = G.heap[o].mark
             /\ o \in S => h[o].at = <<>> /\ h[o].val = ValueOf(G, o)
             /\ o \notin S => h[o].at = G.heap[o].at /\ h[o].val = G.heap[o].val
  <2> HIDE DEF S
  <2> QED BY <1>2 DEF Object, TrimmedObject
<1>4. h \in [D -> Object]
  BY <1>2, <1>3
<1>5. K = Freed(J, DeadIn(G, S))
  BY DEF Closed
<1> HIDE DEF h, S
<1>6. J \in Global /\ J.heap = h
  BY <1>1, <1>4, NewHeap
<1>7. SameRest(G, J) /\ J.gray = G.gray /\ J.grayagain = G.grayagain /\ J.weak = G.weak
  BY <1>1, <1>4, NewHeap DEF SameRest
<1> HIDE DEF J
<1>8. /\ K \in Global /\ DOMAIN K.heap = DOMAIN J.heap \ DeadIn(G, S)
      /\ SameRest(J, K) /\ K.gray = J.gray /\ K.grayagain = J.grayagain /\ K.weak = J.weak
  BY <1>5, <1>6, FreedIs
<1>9. \A o \in DOMAIN K.heap : K.heap[o] = J.heap[o]
  BY <1>5, <1>6, FreedIs
<1>10. DOMAIN J.heap = D
  BY <1>4, <1>6
<1>11. DOMAIN K.heap = D \ DeadIn(G, S) /\ SameRest(G, K) /\ K.gray = G.gray /\ K.grayagain = G.grayagain /\ K.weak = G.weak
  BY <1>7, <1>8, <1>10 DEF SameRest
<1>12. \A o \in DOMAIN K.heap :
         /\ TrimmedObject(G.heap[o], K.heap[o]) /\ K.heap[o].mark = G.heap[o].mark
         /\ o \in S => K.heap[o].at = <<>> /\ K.heap[o].val = ValueOf(G, o)
         /\ o \notin S => K.heap[o].at = G.heap[o].at /\ K.heap[o].val = G.heap[o].val
  <2>1. ASSUME NEW o \in DOMAIN K.heap
        PROVE  o \in D /\ K.heap[o] = J.heap[o]
    BY <1>9, <1>11
  <2>2. \A o \in DOMAIN K.heap : TrimmedObject(G.heap[o], K.heap[o]) /\ K.heap[o].mark = G.heap[o].mark
    BY <1>3, <1>6, <2>1
  <2>3. \A o \in DOMAIN K.heap : o \in S => K.heap[o].at = <<>> /\ K.heap[o].val = ValueOf(G, o)
    BY <1>3, <1>6, <2>1
  <2>4. \A o \in DOMAIN K.heap : o \notin S => K.heap[o].at = G.heap[o].at /\ K.heap[o].val = G.heap[o].val
    BY <1>3, <1>6, <2>1
  <2> QED BY <2>2, <2>3, <2>4
<1> QED BY <1>8, <1>11, <1>12 DEF S

(* With those upvalues painted black or white. *)
LEMMA CloseTrimmed ==
  ASSUME NEW G, Good(G), NEW t, NEW slots, NEW m \in {"black", G.currentwhite},
         NEW P, P = Repaint(Closed(G, t, slots), GrayLeft(G, t, slots), m)
  PROVE  /\ Trimmed(G, P) /\ SameRest(G, P) /\ P.gray = G.gray /\ P.grayagain = G.grayagain /\ P.weak = G.weak
         /\ DOMAIN P.heap = DOMAIN G.heap \ DeadIn(G, Left(G, t, slots))
         /\ \A o \in DOMAIN P.heap :
              /\ P.heap[o].mark = IF o \in GrayLeft(G, t, slots) THEN m ELSE G.heap[o].mark
              /\ o \in Left(G, t, slots) => P.heap[o].at = <<>> /\ P.heap[o].val = ValueOf(G, o)
              /\ o \notin Left(G, t, slots) => P.heap[o].at = G.heap[o].at /\ P.heap[o].val = G.heap[o].val
<1> DEFINE K == Closed(G, t, slots)
           S == Left(G, t, slots)
           dead == DeadIn(G, S)
           D == DOMAIN G.heap
<1>1. /\ K \in Global /\ DOMAIN K.heap = D \ dead
      /\ SameRest(G, K) /\ K.gray = G.gray /\ K.grayagain = G.grayagain /\ K.weak = G.weak
  BY ClosedIs
<1>2. \A o \in DOMAIN K.heap :
        /\ TrimmedObject(G.heap[o], K.heap[o]) /\ K.heap[o].mark = G.heap[o].mark
        /\ o \in S => K.heap[o].at = <<>> /\ K.heap[o].val = ValueOf(G, o)
        /\ o \notin S => K.heap[o].at = G.heap[o].at /\ K.heap[o].val = G.heap[o].val
  BY ClosedIs
<1> HIDE DEF K
<1>3. m \in Marks /\ G.currentwhite \in Whites
  BY GlobalHas DEF Good, Marks, Whites
<1>4. /\ P \in Global /\ SameShape(K, P) /\ SameRest(K, P)
      /\ P.gray = K.gray /\ P.grayagain = K.grayagain /\ P.weak = K.weak
  BY <1>1, <1>3, Repainted DEF K
<1>5. \A o \in DOMAIN K.heap : P.heap[o].mark = IF o \in GrayLeft(G, t, slots) THEN m ELSE K.heap[o].mark
  BY <1>1, <1>3, Repainted DEF K
<1>6. DOMAIN P.heap = D \ dead /\ SameRest(G, P) /\ P.gray = G.gray /\ P.grayagain = G.grayagain /\ P.weak = G.weak
  BY <1>1, <1>4 DEF SameShape, SameRest
<1>7. ASSUME NEW o \in DOMAIN P.heap
      PROVE  /\ TrimmedObject(G.heap[o], P.heap[o])
             /\ P.heap[o].mark = IF o \in GrayLeft(G, t, slots) THEN m ELSE G.heap[o].mark
             /\ o \in S => P.heap[o].at = <<>> /\ P.heap[o].val = ValueOf(G, o)
             /\ o \notin S => P.heap[o].at = G.heap[o].at /\ P.heap[o].val = G.heap[o].val
  <2>1. o \in DOMAIN K.heap
    BY <1>1, <1>6
  <2>2. SameObject(K.heap[o], P.heap[o])
    BY <1>4, <2>1 DEF SameShape
  <2>3. P.heap[o].mark = IF o \in GrayLeft(G, t, slots) THEN m ELSE G.heap[o].mark
    BY <1>2, <1>5, <2>1
  <2>4. TrimmedObject(G.heap[o], P.heap[o])
    BY <1>2, <2>1, <2>2 DEF TrimmedObject, SameObject
  <2>5. (o \in S => P.heap[o].at = <<>> /\ P.heap[o].val = ValueOf(G, o))
        /\ (o \notin S => P.heap[o].at = G.heap[o].at /\ P.heap[o].val = G.heap[o].val)
    BY <1>2, <2>1, <2>2 DEF SameObject
  <2> QED BY <2>3, <2>4, <2>5
<1>8. \A o \in D : o \in S => IsOpen(G, o) /\ G.heap[o].at # <<>> /\ Is(o) = "upval" /\ KindOf(G, o) = "upval"
  BY ValueIs, ObjectHas DEF Left, OpenAt
<1>9. InUse(G) \subseteq DOMAIN P.heap
  BY <1>6 DEF InUse, DeadIn
<1>10. ASSUME NEW o \in DOMAIN P.heap
       PROVE  /\ Coloured(P.heap[o]) /\ (isdead(P, o) <=> isdead(G, o))
              /\ (P.heap[o].at # <<>> => P.heap[o].at[1] \in DOMAIN P.heap)
  <2>1. o \in D /\ P.heap[o].kind = G.heap[o].kind
    BY <1>6, <1>7 DEF TrimmedObject
  <2>2. Coloured(G.heap[o]) /\ P.currentwhite = G.currentwhite
    BY <1>6, <2>1, ObjectHas DEF SameRest
  <2>3. isdead(P, o) <=> isdead(G, o)
    BY <1>3, <1>7, <2>2 DEF GrayLeft, isdead, OtherWhite, Whites
  <2>4. Coloured(P.heap[o])
    <3>1. CASE o \in S
      <4>1. P.heap[o].mark # "gray"
        <5>1. m # "gray"
          BY <1>3 DEF Whites
        <5> QED BY <1>7, <3>1, <5>1 DEF GrayLeft
      <4>2. P.heap[o].kind = "upval" /\ P.heap[o].at = <<>>
        BY <1>7, <1>8, <2>1, <3>1 DEF KindOf
      <4> QED BY <4>1, <4>2 DEF Coloured
    <3>2. CASE o \notin S
      BY <1>7, <2>1, <2>2, <3>2 DEF Coloured, GrayLeft
    <3> QED BY <3>1, <3>2
  <2>5. ASSUME P.heap[o].at # <<>> PROVE P.heap[o].at[1] \in DOMAIN P.heap
    <3>1. P.heap[o].at = G.heap[o].at
      BY <1>7, <2>5
    <3>2. G.heap[o].at[1] \in D /\ Is(G.heap[o].at[1]) = "thread"
      BY <2>1, <2>5, <3>1, ValueIs
    <3>3. G.heap[o].at[1] \notin dead
      BY <1>8, <3>2 DEF DeadIn
    <3> QED BY <1>6, <3>1, <3>2, <3>3
  <2> QED BY <2>3, <2>4, <2>5
<1>11. Trimmed(G, P)
  <2>1. \A o \in DOMAIN P.heap :
          \/ P.heap[o].at = G.heap[o].at /\ P.heap[o].val = G.heap[o].val
          \/ G.heap[o].at # <<>> /\ P.heap[o].at = <<>> /\ P.heap[o].val = ValueOf(G, o)
    BY <1>6, <1>7, <1>8
  <2> QED BY <1>4, <1>6, <1>7, <1>9, <1>10, <2>1 DEF Trimmed, SameRest
<1> QED BY <1>6, <1>7, <1>11

(* luaF_close, when objects are not being marked. *)
LEMMA CloseIs ==
  ASSUME NEW G, Good(G), NEW t, NEW slots, NEW H, H = luaF_close(G, t, slots)
  PROVE  /\ G.gcstate # "propagate" => H = Repaint(Closed(G, t, slots), GrayLeft(G, t, slots), G.currentwhite)
         /\ G.gcstate = "propagate" =>
              H = markobject(Repaint(Closed(G, t, slots), GrayLeft(G, t, slots), "black"),
                             { ValueOf(G, u) : u \in GrayLeft(G, t, slots) })
<1> DEFINE K == Closed(G, t, slots)
           S == Left(G, t, slots)
           dead == DeadIn(G, S)
           gray == { u \in S \ dead : K.heap[u].mark = "gray" }
<1>1. H = luaC_linkupval(K, S \ dead)
  BY DEF luaF_close, Closed, Left, DeadIn
<1>2. DOMAIN K.heap = DOMAIN G.heap \ dead /\ SameRest(G, K)
  BY ClosedIs
<1>3. \A o \in DOMAIN K.heap : K.heap[o].mark = G.heap[o].mark
                               /\ (o \in S => K.heap[o].val = ValueOf(G, o))
  BY ClosedIs
<1>4. S \subseteq DOMAIN G.heap
  BY DEF Left, OpenAt
<1>5. \A u \in S : G.heap[u].mark = "gray" => u \notin dead
  <2>1. G.currentwhite \in Whites
    BY GlobalHas DEF Good
  <2> QED BY <2>1 DEF DeadIn, isdead, OtherWhite, Whites
<1> HIDE DEF K, S, dead
<1>6. gray = GrayLeft(G, t, slots)
  <2>1. \A u \in S : u \in gray <=> G.heap[u].mark = "gray"
    BY <1>2, <1>3, <1>4, <1>5
  <2> QED BY <2>1 DEF GrayLeft, S
<1>7. { K.heap[u].val : u \in gray } = { ValueOf(G, u) : u \in gray }
  <2>1. \A u \in gray : K.heap[u].val = ValueOf(G, u)
    BY <1>2, <1>3, <1>4
  <2> QED BY <2>1
<1>8. K.gcstate = G.gcstate /\ K.currentwhite = G.currentwhite
  BY <1>2 DEF SameRest
<1>9. H = IF K.gcstate = "propagate" THEN markobject(Repaint(K, gray, "black"), { K.heap[u].val : u \in gray })
          ELSE Repaint(K, gray, K.currentwhite)
  BY <1>1 DEF luaC_linkupval, makewhite
<1> HIDE DEF gray
<1> QED BY <1>6, <1>7, <1>8, <1>9 DEF K

(* Dead objects freed, when no open upvalue of another's slot is left. *)
LEMMA FreedTrimmed ==
  ASSUME NEW G, Good(G), NEW S \in SUBSET DOMAIN G.heap, \A o \in S : isdead(G, o), NEW H, H = Freed(G, S),
         \A u \in DOMAIN G.heap \ S : G.heap[u].at # <<>> => G.heap[u].at[1] \notin S
  PROVE  /\ Trimmed(G, H) /\ DOMAIN H.heap = DOMAIN G.heap \ S
         /\ SameRest(G, H) /\ \A o \in DOMAIN H.heap : H.heap[o] = G.heap[o]
<1>1. /\ H \in Global /\ DOMAIN H.heap = DOMAIN G.heap \ S /\ SameRest(G, H)
      /\ \A o \in DOMAIN H.heap : H.heap[o] = G.heap[o]
  BY FreedIs DEF Good
<1>2. InUse(G) \subseteq DOMAIN H.heap
  BY <1>1 DEF InUse
<1>3. \A o \in DOMAIN H.heap : (isdead(H, o) <=> isdead(G, o)) /\ TrimmedObject(G.heap[o], H.heap[o])
  BY <1>1 DEF isdead, SameRest, TrimmedObject
<1>4. \A o \in DOMAIN H.heap : H.heap[o].at # <<>> => H.heap[o].at[1] \in DOMAIN H.heap
  BY <1>1, ObjectHas
<1>5. \A o \in DOMAIN H.heap : Coloured(H.heap[o])
  BY <1>1 DEF Good
<1> QED BY <1>1, <1>2, <1>3, <1>4, <1>5 DEF Trimmed, SameRest

(* Objects in use whitened. *)
LEMMA Whitened ==
  ASSUME NEW G, Good(G), NEW S, \A o \in S \cap DOMAIN G.heap : ~isdead(G, o), NEW H, H = makewhite(G, S)
  PROVE  /\ Trimmed(G, H) /\ SameShape(G, H) /\ DOMAIN H.heap = DOMAIN G.heap
         /\ SameRest(G, H) /\ H.gray = G.gray /\ H.grayagain = G.grayagain /\ H.weak = G.weak
         /\ \A o \in DOMAIN G.heap : /\ H.heap[o].mark = IF o \in S THEN G.currentwhite ELSE G.heap[o].mark
                                     /\ H.heap[o].at = G.heap[o].at
<1>1. G.currentwhite \in Whites /\ G.currentwhite \in Marks /\ G \in Global
  BY GlobalHas DEF Good, Whites, Marks
<1>2. /\ H \in Global /\ SameShape(G, H) /\ SameRest(G, H)
      /\ H.gray = G.gray /\ H.grayagain = G.grayagain /\ H.weak = G.weak
      /\ \A o \in DOMAIN G.heap : H.heap[o].mark = IF o \in S THEN G.currentwhite ELSE G.heap[o].mark
  BY <1>1, Repainted DEF makewhite
<1>3. DOMAIN H.heap = DOMAIN G.heap /\ \A o \in DOMAIN G.heap : SameObject(G.heap[o], H.heap[o])
  BY <1>2 DEF SameShape
<1>4. \A o \in DOMAIN G.heap : isdead(H, o) <=> isdead(G, o)
  BY <1>1, <1>2 DEF isdead, OtherWhite, Whites, SameRest
<1>5. \A o \in DOMAIN G.heap : Coloured(H.heap[o])
  <2>1. \A o \in DOMAIN G.heap : Coloured(G.heap[o])
    BY DEF Good
  <2> QED BY <1>1, <1>2, <1>3, <2>1 DEF Coloured, SameObject, Whites
<1>6. \A o \in DOMAIN G.heap :
         /\ TrimmedObject(G.heap[o], H.heap[o])
         /\ H.heap[o].at = G.heap[o].at /\ H.heap[o].val = G.heap[o].val
         /\ H.heap[o].at # <<>> => H.heap[o].at[1] \in DOMAIN H.heap
  BY <1>3, ObjectHas DEF TrimmedObject, SameObject
<1>7. InUse(G) \subseteq DOMAIN H.heap
  BY <1>3 DEF InUse
<1> QED BY <1>2, <1>3, <1>4, <1>5, <1>6, <1>7 DEF Trimmed, SameRest

(* What sweeping o does to the other objects. *)
SweptAt(G, H, o) ==
  /\ H.gcstate = G.gcstate /\ H.currentwhite = G.currentwhite /\ H.tmudata = G.tmudata
  /\ InUse(H) = InUse(G)
  /\ DOMAIN H.heap \subseteq DOMAIN G.heap
  /\ \A p \in DOMAIN G.heap \ DOMAIN H.heap : p = o \/ (IsOpen(G, p) /\ G.heap[p].at[1] = o)
  /\ \A p \in DOMAIN H.heap :
       /\ H.heap[p].mark \in {G.heap[p].mark, G.currentwhite}
       /\ H.heap[p].at = G.heap[p].at \/ H.heap[p].at = <<>>
       /\ (IsOpen(G, p) /\ G.heap[p].at[1] = o) => H.heap[p].mark = G.currentwhite
       /\ ~(IsOpen(G, p) /\ G.heap[p].at[1] = o) => H.heap[p].at = G.heap[p].at

LEMMA SweepUpvals ==
  ASSUME NEW G, NEW l, Base(G, l), NEW o \in DOMAIN G.heap,
         NEW dead, dead = { u \in OpenAt(G, o) : isdead(G, u) },
         NEW H, H = makewhite(Freed(G, dead), OpenAt(G, o) \ dead)
  PROVE  Base(H, l) /\ SweptAt(G, H, o) /\ H.tosweep = G.tosweep
         /\ (o \in DOMAIN H.heap /\ KindOf(H, o) = KindOf(G, o) /\ isdead(H, o) = isdead(G, o))
         /\ \A p \in DOMAIN H.heap : H.heap[p].at = G.heap[p].at
         /\ \A u \in OpenAt(H, o) : H.heap[u].mark = H.currentwhite
<1> DEFINE J == Freed(G, dead)
           W == OpenAt(G, o) \ dead
<1>1. Good(G)
  BY DEF Base
<1>2. \A u \in OpenAt(G, o) : u \in DOMAIN G.heap /\ IsOpen(G, u) /\ G.heap[u].at[1] = o /\ Is(u) = "upval"
  BY <1>1, ValueIs DEF OpenAt
<1>3. \A u \in DOMAIN G.heap : G.heap[u].at # <<>> => Is(G.heap[u].at[1]) = "thread"
  BY <1>1, ValueIs
<1>4. dead \in SUBSET DOMAIN G.heap /\ \A u \in dead : isdead(G, u) /\ Is(u) = "upval"
  BY <1>2
<1>5. \A u \in DOMAIN G.heap \ dead : G.heap[u].at # <<>> => G.heap[u].at[1] \notin dead
  BY <1>3, <1>4
<1>6. /\ Trimmed(G, J) /\ DOMAIN J.heap = DOMAIN G.heap \ dead /\ SameRest(G, J)
      /\ \A p \in DOMAIN J.heap : J.heap[p] = G.heap[p]
  BY <1>1, <1>4, <1>5, FreedTrimmed
<1>6a. H = makewhite(J, W)
  OBVIOUS
<1> HIDE DEF J
<1>7. Base(J, l) /\ InUse(J) = InUse(G) /\ Good(J)
  BY <1>6, TrimmedBase DEF Base
<1>8. \A p \in DOMAIN J.heap : isdead(J, p) <=> isdead(G, p)
  BY <1>6 DEF Trimmed
<1>9. \A p \in W \cap DOMAIN J.heap : ~isdead(J, p)
  BY <1>8 DEF W
<1>10. /\ Trimmed(J, H) /\ DOMAIN H.heap = DOMAIN J.heap /\ SameRest(J, H) /\ SameShape(J, H)
       /\ \A p \in DOMAIN J.heap : /\ H.heap[p].mark = IF p \in W THEN J.currentwhite ELSE J.heap[p].mark
                                   /\ H.heap[p].at = J.heap[p].at
  <2> HIDE DEF W
  <2> QED BY ONLY <1>7, <1>9, <1>6a, Whitened
<1>11. Base(H, l) /\ InUse(H) = InUse(G)
  BY <1>7, <1>10, TrimmedBase
<1>12. \A p \in DOMAIN H.heap : H.heap[p].at = G.heap[p].at
  BY <1>6, <1>10
<1>13. SweptAt(G, H, o)
  <2>1. H.gcstate = G.gcstate /\ H.currentwhite = G.currentwhite /\ H.tmudata = G.tmudata /\ J.currentwhite = G.currentwhite
    BY <1>6, <1>10 DEF SameRest
  <2>2. \A p \in DOMAIN G.heap \ DOMAIN H.heap : p = o \/ (IsOpen(G, p) /\ G.heap[p].at[1] = o)
    BY <1>2, <1>6, <1>10
  <2>3. \A p \in DOMAIN H.heap : H.heap[p].mark \in {G.heap[p].mark, G.currentwhite}
    BY <1>6, <1>10, <2>1
  <2>4. \A p \in DOMAIN H.heap : (IsOpen(G, p) /\ G.heap[p].at[1] = o) => H.heap[p].mark = G.currentwhite
    BY <1>6, <1>10, <2>1 DEF OpenAt
  <2> QED BY <1>6, <1>10, <1>11, <1>12, <2>1, <2>2, <2>3, <2>4 DEF SweptAt
<1>14. o \in DOMAIN H.heap /\ KindOf(H, o) = KindOf(G, o) /\ isdead(H, o) = isdead(G, o)
  <2>1. o \notin OpenAt(G, o)
    <3>1. ASSUME o \in OpenAt(G, o) PROVE FALSE
      BY <1>1, <1>2, <1>3, <3>1, ValueIs
    <3> QED BY <3>1
  <2>2. o \in DOMAIN J.heap /\ o \in DOMAIN H.heap
    BY <1>6, <1>10, <2>1
  <2>3. H.heap[o].mark = G.heap[o].mark /\ H.currentwhite = G.currentwhite /\ H.heap[o].kind = G.heap[o].kind
    BY <1>6, <1>10, <2>1, <2>2 DEF SameRest, SameShape, SameObject
  <2> QED BY <2>2, <2>3 DEF KindOf, isdead
<1>15. H.tosweep = G.tosweep
  BY <1>6, <1>10 DEF SameRest
<1>16. ASSUME NEW u \in OpenAt(H, o) PROVE H.heap[u].mark = H.currentwhite
  <2>1. u \in DOMAIN H.heap /\ IsOpen(H, u) /\ H.heap[u].at[1] = o /\ u \in DOMAIN G.heap /\ u \notin dead
    BY <1>6, <1>10 DEF OpenAt
  <2>2. Good(H)
    BY <1>11 DEF Base
  <2>3. G.heap[u].at # <<>> /\ G.heap[u].at[1] = o
    BY <1>12, <2>1, <2>2, ValueIs
  <2>4. u \in OpenAt(G, o)
    BY <1>1, <2>1, <2>3, ValueIs DEF OpenAt
  <2>5. H.heap[u].mark = H.currentwhite
    BY <1>13, <1>2, <2>1, <2>4 DEF SweptAt
  <2> QED BY <2>5
<1> QED BY <1>11, <1>12, <1>13, <1>14, <1>15, <1>16
LEMMA SweptTwice ==
  ASSUME NEW G, NEW H, NEW K, NEW o, Good(G), Good(H), SweptAt(G, H, o), SweptAt(H, K, o)
  PROVE  SweptAt(G, K, o)
<1>1. \A p \in DOMAIN H.heap : p \in DOMAIN G.heap
  BY DEF SweptAt
<1>2. ASSUME NEW p \in DOMAIN H.heap
      PROVE  IsOpen(H, p) /\ H.heap[p].at[1] = o => IsOpen(G, p) /\ G.heap[p].at[1] = o
  <2>1. H.heap[p].at = G.heap[p].at \/ H.heap[p].at = <<>>
    BY DEF SweptAt
  <2> QED BY <1>1, <2>1, ValueIs
<1>3. \A p \in DOMAIN G.heap \ DOMAIN K.heap : p = o \/ (IsOpen(G, p) /\ G.heap[p].at[1] = o)
  BY <1>1, <1>2 DEF SweptAt
<1>4. /\ K.gcstate = G.gcstate /\ K.currentwhite = G.currentwhite /\ K.tmudata = G.tmudata
      /\ InUse(K) = InUse(G) /\ DOMAIN K.heap \subseteq DOMAIN G.heap /\ DOMAIN K.heap \subseteq DOMAIN H.heap
      /\ H.currentwhite = G.currentwhite
  BY DEF SweptAt
<1>5. ASSUME NEW p \in DOMAIN K.heap
      PROVE  /\ K.heap[p].mark \in {G.heap[p].mark, G.currentwhite}
             /\ K.heap[p].at = G.heap[p].at \/ K.heap[p].at = <<>>
             /\ (IsOpen(G, p) /\ G.heap[p].at[1] = o) => K.heap[p].mark = G.currentwhite
             /\ ~(IsOpen(G, p) /\ G.heap[p].at[1] = o) => K.heap[p].at = G.heap[p].at
  <2>1. p \in DOMAIN H.heap
    BY <1>4
  <2>2. /\ H.heap[p].mark \in {G.heap[p].mark, G.currentwhite}
        /\ H.heap[p].at = G.heap[p].at \/ H.heap[p].at = <<>>
        /\ (IsOpen(G, p) /\ G.heap[p].at[1] = o) => H.heap[p].mark = G.currentwhite
        /\ ~(IsOpen(G, p) /\ G.heap[p].at[1] = o) => H.heap[p].at = G.heap[p].at
    BY <2>1 DEF SweptAt
  <2>3. /\ K.heap[p].mark \in {H.heap[p].mark, G.currentwhite}
        /\ K.heap[p].at = H.heap[p].at \/ K.heap[p].at = <<>>
        /\ ~(IsOpen(H, p) /\ H.heap[p].at[1] = o) => K.heap[p].at = H.heap[p].at
    BY <1>4 DEF SweptAt
  <2> QED BY <1>2, <2>1, <2>2, <2>3
<1> QED BY <1>3, <1>4, <1>5 DEF SweptAt

LEMMA FreeSwept ==
  ASSUME NEW G, NEW l, Base(G, l), NEW o \in DOMAIN G.heap, isdead(G, o), OpenAt(G, o) = {},
         NEW H, H = Freed(G, {o})
  PROVE  Base(H, l) /\ SweptAt(G, H, o) /\ H.tosweep = G.tosweep /\ o \notin DOMAIN H.heap
<1>1. Good(G)
  BY DEF Base
<1>2. \A u \in DOMAIN G.heap \ {o} : G.heap[u].at # <<>> => G.heap[u].at[1] # o
  BY <1>1, ValueIs DEF OpenAt
<1>3. /\ Trimmed(G, H) /\ DOMAIN H.heap = DOMAIN G.heap \ {o} /\ SameRest(G, H)
      /\ \A p \in DOMAIN H.heap : H.heap[p] = G.heap[p]
  BY <1>1, <1>2, FreedTrimmed
<1>4. Base(H, l) /\ InUse(H) = InUse(G)
  BY <1>3, TrimmedBase
<1>5. \A p \in DOMAIN G.heap : ~(IsOpen(G, p) /\ G.heap[p].at[1] = o)
  BY DEF OpenAt
<1>6. SweptAt(G, H, o)
  BY <1>3, <1>4, <1>5 DEF SweptAt, SameRest
<1> QED BY <1>3, <1>4, <1>6 DEF SameRest

LEMMA WhiteSwept ==
  ASSUME NEW G, NEW l, Base(G, l), NEW o \in DOMAIN G.heap, ~isdead(G, o),
         \A u \in OpenAt(G, o) : G.heap[u].mark = G.currentwhite,
         NEW H, H = makewhite(G, {o})
  PROVE  Base(H, l) /\ SweptAt(G, H, o) /\ H.tosweep = G.tosweep
         /\ o \in DOMAIN H.heap /\ H.heap[o].mark = G.currentwhite
<1>1. Good(G)
  BY DEF Base
<1>2. /\ Trimmed(G, H) /\ DOMAIN H.heap = DOMAIN G.heap /\ SameRest(G, H)
      /\ \A p \in DOMAIN G.heap : /\ H.heap[p].mark = IF p \in {o} THEN G.currentwhite ELSE G.heap[p].mark
                                  /\ H.heap[p].at = G.heap[p].at
  BY <1>1, Whitened
<1>3. Base(H, l) /\ InUse(H) = InUse(G)
  BY <1>2, TrimmedBase
<1>4. \A p \in DOMAIN G.heap : IsOpen(G, p) /\ G.heap[p].at[1] = o => G.heap[p].mark = G.currentwhite
  BY DEF OpenAt
<1>5. SweptAt(G, H, o)
  BY <1>2, <1>3, <1>4 DEF SweptAt, SameRest
<1> QED BY <1>2, <1>3, <1>5 DEF SameRest

LEMMA CloseSwept ==
  ASSUME NEW G, NEW l, Base(G, l), NEW o \in DOMAIN G.heap, Is(o) = "thread", G.gcstate # "propagate",
         \A u \in OpenAt(G, o) : G.heap[u].mark = G.currentwhite,
         NEW H, H = luaF_close(G, o, Slots)
  PROVE  Base(H, l) /\ SweptAt(G, H, o) /\ H.tosweep = G.tosweep
         /\ o \in DOMAIN H.heap /\ isdead(H, o) = isdead(G, o) /\ OpenAt(H, o) = {}
<1> DEFINE S == Left(G, o, Slots)
<1>1. Good(G) /\ G.currentwhite \in Whites
  BY GlobalHas DEF Base, Good
<1>2. H = Repaint(Closed(G, o, Slots), GrayLeft(G, o, Slots), G.currentwhite)
  BY <1>1, CloseIs
<1>3. /\ Trimmed(G, H) /\ SameRest(G, H) /\ DOMAIN H.heap = DOMAIN G.heap \ DeadIn(G, S)
      /\ \A p \in DOMAIN H.heap :
           /\ H.heap[p].mark = IF p \in GrayLeft(G, o, Slots) THEN G.currentwhite ELSE G.heap[p].mark
           /\ p \in S => H.heap[p].at = <<>>
           /\ p \notin S => H.heap[p].at = G.heap[p].at
  BY <1>1, <1>2, CloseTrimmed
<1>4. Base(H, l) /\ InUse(H) = InUse(G)
  BY <1>3, TrimmedBase
<1>5. \A p \in DOMAIN G.heap : p \in S <=> IsOpen(G, p) /\ G.heap[p].at[1] = o
  BY <1>1, ValueIs DEF Left, OpenAt
<1>6. \A p \in DOMAIN G.heap : IsOpen(G, p) /\ G.heap[p].at[1] = o => G.heap[p].mark = G.currentwhite
  BY DEF OpenAt
<1>7. DeadIn(G, S) \subseteq S /\ GrayLeft(G, o, Slots) \subseteq S
  BY DEF DeadIn, GrayLeft
<1> HIDE DEF S
<1>8. SweptAt(G, H, o)
  <2>1. \A p \in DOMAIN G.heap \ DOMAIN H.heap : IsOpen(G, p) /\ G.heap[p].at[1] = o
    BY <1>3, <1>5, <1>7
  <2>2. \A p \in DOMAIN H.heap :
          /\ H.heap[p].mark \in {G.heap[p].mark, G.currentwhite}
          /\ H.heap[p].at = G.heap[p].at \/ H.heap[p].at = <<>>
          /\ (IsOpen(G, p) /\ G.heap[p].at[1] = o) => H.heap[p].mark = G.currentwhite
          /\ ~(IsOpen(G, p) /\ G.heap[p].at[1] = o) => H.heap[p].at = G.heap[p].at
    BY <1>3, <1>5, <1>6
  <2> QED BY <1>3, <1>4, <2>1, <2>2 DEF SweptAt, SameRest
<1>9. o \in DOMAIN H.heap
  <2>1. o \notin S
    BY <1>1, <1>5, ValueIs
  <2> QED BY <1>3, <1>7, <2>1
<1>10. OpenAt(H, o) = {}
  <2>1. ASSUME NEW u \in OpenAt(H, o) PROVE FALSE
    <3>1. u \in DOMAIN H.heap /\ IsOpen(H, u) /\ H.heap[u].at[1] = o /\ u \in DOMAIN G.heap
      BY <1>3, <2>1 DEF OpenAt
    <3>2. H.heap[u].at # <<>>
      BY <1>4, <3>1, ValueIs DEF Base
    <3>3. u \notin S /\ H.heap[u].at = G.heap[u].at
      BY <1>3, <3>1, <3>2
    <3>4. IsOpen(G, u)
      BY <1>1, <3>1, <3>2, <3>3, ValueIs
    <3> QED BY <1>5, <3>1, <3>3, <3>4
  <2> QED BY <2>1
<1>11. isdead(H, o) <=> isdead(G, o)
  BY <1>3, <1>9 DEF Trimmed
<1>12. isdead(H, o) = isdead(G, o)
  BY <1>11 DEF isdead
<1> QED BY <1>3, <1>4, <1>8, <1>9, <1>10, <1>12 DEF SameRest

(* Another state of the collector with the same heap. *)
Retuned(G, H) ==
  H \in Global /\ H.heap = G.heap /\ H.currentwhite = G.currentwhite /\ H.tmudata = G.tmudata

LEMMA RetunedBase ==
  ASSUME NEW G, NEW H, NEW l, Base(G, l), Retuned(G, H)
  PROVE  /\ Base(H, l) /\ InUse(H) = InUse(G) /\ Good(H)
         /\ \A o \in DOMAIN G.heap : isdead(H, o) <=> isdead(G, o)
         /\ \A o : IsOpen(H, o) <=> IsOpen(G, o)
<1>1. \A o : /\ Formed(H, o) <=> Formed(G, o)
             /\ isdead(H, o) <=> isdead(G, o)
             /\ IsOpen(H, o) <=> IsOpen(G, o)
  BY DEF Retuned, Formed, isdead, IsOpen, KindOf
<1>2. \A o : Contents(H, o) = Contents(G, o)
  BY <1>1 DEF Retuned, Contents, ValueOf
<1>3. InUse(H) = InUse(G)
  BY <1>1 DEF InUse, Retuned
<1>4. Good(H)
  BY <1>1 DEF Base, Good, Retuned
<1>5. Safe(H)
  BY <1>2, <1>3 DEF Base, Safe
<1>6. Rooted(H, l)
  BY <1>3 DEF Base, Rooted, Retuned
<1>7. Finalized(H)
  BY <1>1 DEF Base, Finalized, Retuned
<1> QED BY <1>1, <1>3, <1>4, <1>5, <1>6, <1>7 DEF Base

(* sweeplist at one object. *)
LEMMA SweepIs ==
  ASSUME NEW G, NEW l, Base(G, l), NEW o \in DOMAIN G.heap, G.gcstate # "propagate", NEW H, H = Sweep(G, o)
  PROVE  Base(H, l) /\ SweptAt(G, H, o) /\ H.tosweep = G.tosweep \ {o}
         /\ (o \in DOMAIN H.heap => H.heap[o].mark = G.currentwhite)
<1> DEFINE dead == { u \in OpenAt(G, o) : isdead(G, u) }
           J == makewhite(Freed(G, dead), OpenAt(G, o) \ dead)
           M == IF KindOf(G, o) = "thread" THEN luaF_close(J, o, Slots) ELSE J
           K == IF ~isdead(G, o) THEN makewhite(J, {o}) ELSE Freed(M, {o})
<1>1. /\ Base(J, l) /\ SweptAt(G, J, o) /\ J.tosweep = G.tosweep
      /\ o \in DOMAIN J.heap /\ KindOf(J, o) = KindOf(G, o) /\ isdead(J, o) = isdead(G, o)
      /\ \A u \in OpenAt(J, o) : J.heap[u].mark = J.currentwhite
  BY SweepUpvals
<1>2. H = [K EXCEPT !.tosweep = @ \ {o}]
  BY DEF Sweep
<1>3. J.gcstate # "propagate" /\ J.currentwhite = G.currentwhite /\ Good(G) /\ Good(J)
  BY <1>1 DEF SweptAt, Base
<1>4. KindOf(G, o) = Is(o)
  BY <1>3, ObjectHas
<1> HIDE DEF J
<1>5. isdead(G, o) => /\ Base(M, l) /\ SweptAt(G, M, o) /\ M.tosweep = G.tosweep
                      /\ o \in DOMAIN M.heap /\ isdead(M, o) /\ OpenAt(M, o) = {}
  <2>1. CASE KindOf(G, o) = "thread"
    <3>1. /\ Base(M, l) /\ SweptAt(J, M, o) /\ M.tosweep = J.tosweep
          /\ o \in DOMAIN M.heap /\ isdead(M, o) = isdead(J, o) /\ OpenAt(M, o) = {}
      <4>1. M = luaF_close(J, o, Slots)
        BY <2>1
      <4> HIDE DEF M
      <4>2. /\ Base(J, l) /\ o \in DOMAIN J.heap /\ Is(o) = "thread" /\ J.gcstate # "propagate"
            /\ \A u \in OpenAt(J, o) : J.heap[u].mark = J.currentwhite
        BY <1>1, <1>3, <1>4, <2>1
      <4> QED BY ONLY <4>1, <4>2, CloseSwept
    <3>2. Good(M)
      BY <3>1 DEF Base
    <3> HIDE DEF M
    <3> QED BY <1>1, <1>3, <3>1, <3>2, SweptTwice
  <2>2. CASE KindOf(G, o) # "thread"
    <3>1. OpenAt(J, o) = {}
      BY <1>1, <1>3, <1>4, <2>2, ValueIs DEF OpenAt
    <3> QED BY <1>1, <2>2, <3>1
  <2> QED BY <2>1, <2>2
<1>6. Base(K, l) /\ SweptAt(G, K, o) /\ K.tosweep = G.tosweep
      /\ (o \in DOMAIN K.heap => K.heap[o].mark = G.currentwhite)
  <2>1. CASE isdead(G, o)
    <3>1. K = Freed(M, {o})
      BY <2>1
    <3> HIDE DEF M, K
    <3>2. Base(K, l) /\ SweptAt(M, K, o) /\ K.tosweep = M.tosweep /\ o \notin DOMAIN K.heap
      BY <1>5, <2>1, <3>1, FreeSwept
    <3>3. SweptAt(G, K, o)
      BY <1>3, <1>5, <2>1, <3>2, SweptTwice DEF Base
    <3> QED BY <1>5, <2>1, <3>2, <3>3
  <2>2. CASE ~isdead(G, o)
    <3>1. K = makewhite(J, {o})
      BY <2>2
    <3> HIDE DEF K
    <3>2. Base(K, l) /\ SweptAt(J, K, o) /\ K.tosweep = J.tosweep /\ K.heap[o].mark = J.currentwhite
      BY <1>1, <2>2, <3>1, WhiteSwept
    <3>3. SweptAt(G, K, o)
      BY <1>1, <1>3, <3>2, SweptTwice DEF Base
    <3> QED BY <1>1, <1>3, <3>2, <3>3
  <2> QED BY <2>1, <2>2
<1> HIDE DEF K
<1>7. K \in Global /\ G.tosweep \subseteq Addr
  BY <1>3, <1>6, GlobalHas DEF Base, Good
<1>8. Retuned(K, H) /\ H.gcstate = K.gcstate /\ H.tosweep = K.tosweep \ {o}
  BY <1>2, <1>6, <1>7 DEF Global, Retuned
<1>9. Base(H, l) /\ InUse(H) = InUse(K) /\ H.heap = K.heap
  BY <1>6, <1>8, RetunedBase DEF Retuned
<1>10. SweptAt(G, H, o)
  BY <1>6, <1>8, <1>9 DEF SweptAt, Retuned
<1> QED BY <1>6, <1>8, <1>9, <1>10
LEMMA SweepStepBase ==
  ASSUME NEW G, NEW l, Base(G, l), Swept(G), G.gcstate = "sweep", NEW o \in G.tosweep, NEW H, H = SweepStep(G, o)
  PROVE  Base(H, l) /\ Swept(H) /\ H.gcstate \in {"sweep", "finalize"} /\ H.tmudata = G.tmudata /\ InUse(H) = InUse(G)
<1> DEFINE J == Sweep(G, o)
<1>1. o \in DOMAIN G.heap /\ Good(G) /\ G.tosweep \cap G.tmudata = {} /\ ~IsOpen(G, o)
  BY DEF Swept, Base
<1>2. /\ Base(J, l) /\ SweptAt(G, J, o) /\ J.tosweep = G.tosweep \ {o}
      /\ o \in DOMAIN J.heap => J.heap[o].mark = G.currentwhite
  <2>1. J = Sweep(G, o) /\ G.gcstate # "propagate" /\ Base(G, l)
    OBVIOUS
  <2> HIDE DEF J
  <2> QED BY ONLY <1>1, <2>1, SweepIs
<1>3. H = [J EXCEPT !.gcstate = IF J.tosweep = {} THEN "finalize" ELSE @]
  BY DEF SweepStep
<1> HIDE DEF J
<1>4. /\ Retuned(J, H) /\ H.tosweep = G.tosweep \ {o}
      /\ H.gcstate = IF G.tosweep \ {o} = {} THEN "finalize" ELSE "sweep"
  <2>1. J \in Global /\ J.gcstate = "sweep"
    BY <1>2 DEF Base, Good, SweptAt
  <2> QED BY <1>2, <1>3, <2>1 DEF Global, Retuned
<1>5. /\ Base(H, l) /\ InUse(H) = InUse(J) /\ Good(H)
      /\ \A p : IsOpen(H, p) <=> IsOpen(J, p)
  BY <1>2, <1>4, RetunedBase
<1>6. /\ H.heap = J.heap /\ H.tmudata = G.tmudata /\ InUse(H) = InUse(G) /\ H.currentwhite = G.currentwhite
      /\ J.tmudata = G.tmudata
  BY <1>2, <1>4, <1>5 DEF SweptAt, Retuned
<1>7. \A p \in DOMAIN J.heap : p \in DOMAIN G.heap /\ (IsOpen(J, p) => IsOpen(G, p) /\ J.heap[p].at = G.heap[p].at)
  <2>1. Good(J) /\ \A p \in DOMAIN J.heap : p \in DOMAIN G.heap /\ (J.heap[p].at = G.heap[p].at \/ J.heap[p].at = <<>>)
    BY <1>2 DEF Base, SweptAt
  <2> QED BY <1>1, <2>1, ValueIs
<1>8. G.tosweep \ {o} \subseteq DOMAIN J.heap /\ \A p \in G.tosweep \ {o} : ~IsOpen(J, p)
  <2>1. \A p \in G.tosweep : p \in DOMAIN G.heap /\ ~IsOpen(G, p)
    BY DEF Swept
  <2>2. \A p \in DOMAIN G.heap \ DOMAIN J.heap : p = o \/ IsOpen(G, p)
    BY <1>2 DEF SweptAt
  <2>3. G.tosweep \ {o} \subseteq DOMAIN J.heap
    BY <2>1, <2>2
  <2> QED BY <1>7, <2>1, <2>3
<1>9. ASSUME NEW p \in DOMAIN J.heap \ ((G.tosweep \ {o}) \cup G.tmudata)
      PROVE  J.heap[p].mark = G.currentwhite \/ (IsOpen(J, p) /\ J.heap[p].at[1] \in G.tosweep \ {o})
  <2>1. CASE p = o
    BY <1>2, <2>1
  <2>2. CASE p # o
    <3>1. G.heap[p].mark = G.currentwhite \/ (IsOpen(G, p) /\ G.heap[p].at[1] \in G.tosweep)
      BY <1>7, <1>9, <2>2 DEF Swept
    <3>2. /\ J.heap[p].mark \in {G.heap[p].mark, G.currentwhite}
          /\ (IsOpen(G, p) /\ G.heap[p].at[1] = o) => J.heap[p].mark = G.currentwhite
          /\ ~(IsOpen(G, p) /\ G.heap[p].at[1] = o) => J.heap[p].at = G.heap[p].at
      BY <1>2 DEF SweptAt
    <3>3. CASE G.heap[p].mark = G.currentwhite
      BY <3>2, <3>3
    <3>4. CASE IsOpen(G, p) /\ G.heap[p].at[1] \in G.tosweep /\ G.heap[p].at[1] # o
      <4>1. J.heap[p].at = G.heap[p].at /\ G.heap[p].at # <<>>
        BY <1>1, <1>7, <3>2, <3>4, ValueIs
      <4>2. IsOpen(J, p)
        BY <1>2, <4>1, ValueIs DEF Base
      <4> QED BY <3>4, <4>1, <4>2
    <3> QED BY <3>1, <3>2, <3>3, <3>4
  <2> QED BY <2>1, <2>2
<1>10. Swept(H)
  <2>1. \A p \in DOMAIN H.heap \ (H.tosweep \cup H.tmudata) :
          H.heap[p].mark = H.currentwhite \/ (IsOpen(H, p) /\ H.heap[p].at[1] \in H.tosweep)
    BY <1>4, <1>5, <1>6, <1>9
  <2>2. H.tosweep \subseteq DOMAIN H.heap /\ \A p \in H.tosweep : ~IsOpen(H, p)
    BY <1>4, <1>5, <1>6, <1>8
  <2>3. H.gcstate \in {"pause", "finalize"} => H.tosweep = {}
    BY <1>4
  <2>4. H.tosweep \cap H.tmudata = {}
    BY <1>1, <1>4, <1>6
  <2> QED BY <2>1, <2>2, <2>3, <2>4 DEF Swept
<1> QED BY <1>4, <1>5, <1>6, <1>10

(* The strings, all at once. *)
LEMMA SweepStrings ==
  ASSUME NEW G, NEW l, Base(G, l), Swept(G), G.gcstate = "sweepstring", NEW H, H = sweepstrings(G)
  PROVE  Base(H, l) /\ Swept(H) /\ H.gcstate = "sweep" /\ H.tmudata = G.tmudata /\ InUse(H) = InUse(G)
<1> DEFINE S    == Strings(G)
           dead == { o \in S : isdead(G, o) }
           W    == S \ dead
           J    == Freed(G, dead)
           K    == makewhite(J, W)
<1>1. Good(G)
  BY DEF Base
<1>2. \A o \in DOMAIN G.heap : o \in S <=> Is(o) = "string"
  BY <1>1, ObjectHas DEF Strings
<1>3. S \in SUBSET DOMAIN G.heap
  BY DEF Strings
<1>4. H = [K EXCEPT !.tosweep = @ \ S, !.gcstate = "sweep"]
  BY DEF sweepstrings
<1>5. dead \in SUBSET DOMAIN G.heap /\ (\A o \in dead : isdead(G, o)) /\ dead \subseteq S
      /\ \A o \in W : o \in S /\ ~isdead(G, o)
  BY <1>3
<1>6. \A u \in DOMAIN G.heap : G.heap[u].at # <<>> => G.heap[u].at[1] \notin S /\ u \notin S
  BY <1>1, <1>2, ValueIs
<1>7. \A u \in DOMAIN G.heap \ dead : G.heap[u].at # <<>> => G.heap[u].at[1] \notin dead
  BY <1>5, <1>6
<1>8. \A o \in DOMAIN G.heap : o \in S => o \in dead \/ o \in W
  OBVIOUS
<1> HIDE DEF dead, W, J
<1>9. /\ Trimmed(G, J) /\ DOMAIN J.heap = DOMAIN G.heap \ dead /\ SameRest(G, J)
      /\ \A p \in DOMAIN J.heap : J.heap[p] = G.heap[p]
  BY <1>1, <1>5, <1>7, FreedTrimmed DEF J
<1>10. Base(J, l) /\ InUse(J) = InUse(G) /\ Good(J)
  BY <1>9, TrimmedBase DEF Base
<1>11. \A p \in W \cap DOMAIN J.heap : ~isdead(J, p)
  BY <1>5, <1>9 DEF isdead, SameRest
<1> HIDE DEF K
<1>12. /\ Trimmed(J, K) /\ DOMAIN K.heap = DOMAIN J.heap /\ SameRest(J, K) /\ SameShape(J, K)
       /\ \A p \in DOMAIN J.heap : /\ K.heap[p].mark = IF p \in W THEN J.currentwhite ELSE J.heap[p].mark
                                   /\ K.heap[p].at = J.heap[p].at
  <2>1. K = makewhite(J, W)
    BY DEF K
  <2> QED BY ONLY <1>10, <1>11, <2>1, Whitened
<1>13. Base(K, l) /\ InUse(K) = InUse(G) /\ Good(K)
  BY <1>10, <1>12, TrimmedBase DEF Base
<1>14. K.tosweep = G.tosweep /\ K.tmudata = G.tmudata /\ K.currentwhite = G.currentwhite /\ J.currentwhite = G.currentwhite
  BY <1>9, <1>12 DEF SameRest
<1>15. Retuned(K, H) /\ H.tosweep = G.tosweep \ S /\ H.gcstate = "sweep"
  <2>1. K \in Global /\ G.tosweep \subseteq Addr
    BY <1>1, <1>13, GlobalHas DEF Good
  <2>2. H = [K EXCEPT !.tosweep = K.tosweep \ S, !.gcstate = "sweep"] /\ K.tosweep \ S \subseteq Addr
    BY <1>4, <1>14, <2>1
  <2>3. Retuned(K, H) /\ H.tosweep = K.tosweep \ S /\ H.gcstate = "sweep"
    BY ONLY <2>1, <2>2 DEF Global, Retuned
  <2> QED BY <1>14, <2>3
<1>16. /\ Base(H, l) /\ InUse(H) = InUse(G)
       /\ \A p : IsOpen(H, p) <=> IsOpen(K, p)
  BY <1>13, <1>15, RetunedBase
<1>17. /\ H.heap = K.heap /\ H.tmudata = G.tmudata /\ H.currentwhite = G.currentwhite
  BY <1>14, <1>15 DEF Retuned
<1>18. \A p \in DOMAIN K.heap : p \in DOMAIN G.heap /\ p \in DOMAIN J.heap /\ K.heap[p].at = G.heap[p].at
                                /\ (IsOpen(K, p) <=> IsOpen(G, p))
                                /\ K.heap[p].mark = IF p \in W THEN G.currentwhite ELSE G.heap[p].mark
  BY <1>1, <1>9, <1>12, <1>13, <1>14, ValueIs
<1>19. \A p \in G.tosweep \ S : p \in DOMAIN K.heap /\ ~IsOpen(K, p)
  <2>1. \A p \in G.tosweep : p \in DOMAIN G.heap /\ ~IsOpen(G, p)
    BY DEF Swept
  <2> QED BY <1>5, <1>9, <1>12, <1>18, <2>1
<1>20. ASSUME NEW p \in DOMAIN K.heap \ ((G.tosweep \ S) \cup G.tmudata)
       PROVE  K.heap[p].mark = G.currentwhite \/ (IsOpen(K, p) /\ K.heap[p].at[1] \in G.tosweep \ S)
  <2>1. CASE p \in S
    BY <1>8, <1>9, <1>12, <1>18, <2>1
  <2>2. CASE p \notin S
    <3>1. G.heap[p].mark = G.currentwhite \/ (IsOpen(G, p) /\ G.heap[p].at[1] \in G.tosweep)
      BY <1>18, <1>20, <2>2 DEF Swept
    <3>2. IsOpen(G, p) => G.heap[p].at[1] \notin S
      BY <1>1, <1>6, <1>18, ValueIs
    <3> QED BY <1>18, <3>1, <3>2
  <2> QED BY <2>1, <2>2
<1>21. Swept(H)
  <2>1. \A p \in DOMAIN H.heap \ (H.tosweep \cup H.tmudata) :
          H.heap[p].mark = H.currentwhite \/ (IsOpen(H, p) /\ H.heap[p].at[1] \in H.tosweep)
    BY <1>15, <1>16, <1>17, <1>20
  <2>2. H.tosweep \subseteq DOMAIN H.heap /\ \A p \in H.tosweep : ~IsOpen(H, p)
    BY <1>15, <1>16, <1>17, <1>19
  <2>4. H.tosweep \cap H.tmudata = {}
    BY <1>15, <1>17 DEF Swept
  <2> QED BY <1>15, <2>1, <2>2, <2>4 DEF Swept
<1> QED BY <1>15, <1>16, <1>17, <1>21
-----------------------------------------------------------------------------
(* The other steps of the collector.                                       *)

(* Painting while nothing is dead. *)
LEMMA PaintedBase ==
  ASSUME NEW G, NEW H, NEW l, Base(G, l), SameShape(G, H), SameRest(G, H), Good(H), NoneDead(G), NoneDead(H)
  PROVE  Base(H, l) /\ InUse(H) = InUse(G)
<1>1. Good(G) /\ DOMAIN H.heap = DOMAIN G.heap /\ H.tmudata = G.tmudata
  BY DEF Base, SameShape, SameRest
<1>2. InUse(G) = DOMAIN G.heap /\ InUse(H) = DOMAIN G.heap
  BY <1>1 DEF InUse, NoneDead
<1>3. Safe(H)
  <2>1. \A o \in DOMAIN G.heap : Contents(H, o) = Contents(G, o)
    BY <1>1, ShapeKept
  <2> QED BY <1>2, <2>1 DEF Base, Safe
<1>4. Rooted(H, l)
  BY <1>1, <1>2 DEF Base, Rooted
<1>5. Finalized(H)
  <2>1. \A u \in DOMAIN G.heap : H.heap[u].fin = G.heap[u].fin /\ H.heap[u].calls = G.heap[u].calls
    BY DEF SameShape, SameObject
  <2> QED BY <1>1, <2>1 DEF Base, Finalized, NoneDead
<1> QED BY <1>2, <1>3, <1>4, <1>5 DEF Base

LEMMA MarkRoot ==
  ASSUME NEW G, NEW l, Base(G, l), Swept(G), G.gcstate \in {"pause", "finalize"}, NEW H, H = markroot(G)
  PROVE  Base(H, l) /\ Tri(H) /\ H.gcstate = "propagate" /\ H.tmudata = G.tmudata /\ DOMAIN H.heap = DOMAIN G.heap
<1> DEFINE J == [G EXCEPT !.gray = {}, !.grayagain = {}, !.weak = {}, !.gcstate = "propagate"]
           S == {Main, G.heap[Main].key, G.heap[Main].val}
<1>1. Good(G) /\ G \in Global /\ Safe(G) /\ Main \in DOMAIN G.heap
  BY DEF Base, Good
<1>2. /\ Retuned(G, J) /\ J.gray = {} /\ J.grayagain = {} /\ J.weak = {} /\ J.gcstate = "propagate"
  BY <1>1 DEF Global, Retuned
<1>3. H = markobject(J, S)
  BY DEF markroot
<1> HIDE DEF J
<1>4. Base(J, l) /\ Good(J) /\ J.heap = G.heap /\ J.currentwhite = G.currentwhite /\ J.tmudata = G.tmudata
      /\ \A o \in DOMAIN G.heap : isdead(J, o) <=> isdead(G, o)
  BY <1>2, RetunedBase DEF Retuned
<1>5. \A o \in DOMAIN G.heap \ G.tmudata : G.heap[o].mark = G.currentwhite
  BY DEF Swept
<1>6. \A o \in DOMAIN G.heap : ~isdead(G, o)
  <2>1. G.currentwhite \in Whites
    BY <1>1, GlobalHas
  <2>2. \A o \in G.tmudata : ~isdead(G, o)
    BY DEF Base, Rooted, InUse
  <2> QED BY <1>5, <2>1, <2>2 DEF isdead, OtherWhite, Whites
<1>7. NoneDead(J) /\ InUse(G) = DOMAIN G.heap
  BY <1>4, <1>6 DEF NoneDead, InUse
<1>8. Whole(J)
  <2>1. InUse(J) = DOMAIN J.heap
    BY <1>4, <1>6 DEF InUse
  <2> QED BY <1>4, <2>1 DEF Base, Safe, Whole
<1>9. S \in SUBSET (DOMAIN J.heap \cup {Nil})
  BY <1>1, <1>4, <1>8, WholeHas
<1>10. MarkedFrom(J, H, S) /\ Good(H)
  <2> HIDE DEF S
  <2> QED BY <1>3, <1>4, <1>8, <1>9, MarkObject
<1>11. /\ DOMAIN H.heap = DOMAIN G.heap /\ Marked(J) \subseteq Marked(H) /\ NoneDead(H)
  BY <1>4, <1>7, <1>10, MarksKept
<1>12. SameShape(J, H) /\ SameRest(J, H)
  BY <1>10 DEF MarkedFrom
<1>13. Base(H, l)
  BY <1>4, <1>7, <1>10, <1>11, <1>12, PaintedBase
<1>14. \A o \in Marked(J) : o \in G.tmudata /\ Is(o) = "udata"
  <2>1. \A o \in Marked(J) : o \in DOMAIN G.heap /\ G.heap[o].mark \notin Whites
    BY <1>4 DEF Marked
  <2>2. G.currentwhite \in Whites
    BY <1>1, GlobalHas
  <2> QED BY <1>5, <2>1, <2>2 DEF Base, Rooted
<1>15. /\ \A o \in Marked(H) \ Marked(J) :
            H.heap[o].mark = IF Is(o) = "udata" \/ (Is(o) = "upval" /\ ~IsOpen(J, o)) THEN "black" ELSE "gray"
       /\ \A o \in Marked(H) \ Marked(J) : Passes(J, o) => Contents(J, o) \subseteq Marked(H)
       /\ H.gray = { o \in Marked(H) \ Marked(J) : Is(o) \in Listable }
       /\ H.grayagain = {} /\ H.weak = {} /\ Main \in Marked(H)
  <2>1. Main # Nil
    BY Constants
  <2> QED BY <1>2, <1>10, <2>1 DEF MarkedFrom
<1>16. BlackDone(H)
  <2>1. ASSUME NEW o \in DOMAIN H.heap \ H.tmudata, Black(H, o) PROVE Contents(H, o) \subseteq Marked(H)
    <3>1. o \in Marked(H) /\ o \notin Marked(J) /\ o \in DOMAIN J.heap
      BY <1>4, <1>11, <1>12, <1>14, <2>1 DEF Marked, Black, Whites, SameRest
    <3>2. Passes(J, o)
      BY <1>15, <2>1, <3>1 DEF Passes, Black
    <3> QED BY <1>4, <1>12, <1>15, <3>1, <3>2, ShapeKept
  <2> QED BY <2>1 DEF BlackDone
<1>17. Lists(H)
  <2>1. \A o \in H.gray : o \in DOMAIN H.heap /\ Is(o) \in Listable /\ H.heap[o].mark = "gray"
    BY <1>15 DEF Marked, Listable
  <2>2. \A o \in DOMAIN H.heap : Is(o) \in Listable /\ H.heap[o].mark = "gray" => o \in H.gray
    BY <1>14, <1>15 DEF Marked, Listable, Whites
  <2> QED BY <1>15, <2>1, <2>2 DEF Lists
<1>18. H.gcstate = "propagate" /\ H.tmudata = G.tmudata
  BY <1>2, <1>4, <1>12 DEF SameRest
<1> QED BY <1>11, <1>13, <1>15, <1>16, <1>17, <1>18 DEF Tri

LEMMA PropagateStep ==
  ASSUME NEW G, NEW l, Base(G, l), Tri(G), NEW o \in G.gray, NEW H, H = propagatemark(G, o)
  PROVE  Base(H, l) /\ Tri(H) /\ SameRest(G, H) /\ DOMAIN H.heap = DOMAIN G.heap
<1>1. Marking(G)
  BY AllInUse
<1>2. Marking(H) /\ Progress(G, H)
  BY <1>1, PropagateMark
<1>3. Good(H) /\ Tri(H) /\ NoneDead(G) /\ NoneDead(H) /\ SameShape(G, H) /\ SameRest(G, H)
  BY <1>1, <1>2 DEF Marking, Tri, Progress
<1> QED BY <1>3, PaintedBase DEF SameShape
-----------------------------------------------------------------------------
(* What the program and its finalizers write.                              *)

(* H is G with k and v in the places of object t, and perhaps another mode.*)
Written(G, H, t, k, v) ==
  /\ H \in Global /\ DOMAIN H.heap = DOMAIN G.heap /\ SameRest(G, H)
  /\ H.gray = G.gray /\ H.grayagain = G.grayagain /\ H.weak = G.weak
  /\ \A o \in DOMAIN G.heap \ {t} : H.heap[o] = G.heap[o]
  /\ H.heap[t].key = k /\ H.heap[t].val = v
  /\ H.heap[t].kind = G.heap[t].kind /\ H.heap[t].mark = G.heap[t].mark
  /\ H.heap[t].at = G.heap[t].at /\ H.heap[t].fin = G.heap[t].fin /\ H.heap[t].calls = G.heap[t].calls

Stored(G, H, t, k, v) == Written(G, H, t, k, v) /\ H.heap[t].mode = G.heap[t].mode

LEMMA StoreIs ==
  ASSUME NEW G \in Global, NEW t \in DOMAIN G.heap, NEW k \in Addr \cup {Nil}, NEW v \in Addr \cup {Nil},
         NEW x, x = [G.heap[t] EXCEPT !.key = k, !.val = v], NEW H, H = [G EXCEPT !.heap[t] = x]
  PROVE  Stored(G, H, t, k, v)
<1> DEFINE D == DOMAIN G.heap
           h == [G.heap EXCEPT ![t] = x]
<1>1. D \in SUBSET Addr /\ G.heap \in [D -> Object] /\ G.heap[t] \in Object
  BY GlobalHas
<1>2. /\ x \in Object /\ x.key = k /\ x.val = v /\ x.kind = G.heap[t].kind /\ x.mark = G.heap[t].mark
      /\ x.mode = G.heap[t].mode /\ x.at = G.heap[t].at /\ x.fin = G.heap[t].fin /\ x.calls = G.heap[t].calls
  BY <1>1 DEF Object
<1>3. h \in [D -> Object] /\ h[t] = x /\ \A o \in D \ {t} : h[o] = G.heap[o]
  BY <1>1, <1>2
<1>4. H = [G EXCEPT !.heap = h] /\ DOMAIN h = D
  BY <1>3
<1> HIDE DEF h
<1>5. H \in Global /\ H.heap = h
  BY <1>1, <1>3, <1>4, NewHeap
<1>6. SameRest(G, H) /\ H.gray = G.gray /\ H.grayagain = G.grayagain /\ H.weak = G.weak
  BY <1>1, <1>3, <1>4, NewHeap DEF SameRest
<1> QED BY <1>2, <1>3, <1>4, <1>5, <1>6 DEF Stored, Written

(* One place of an object. *)
LEMMA StoreOne ==
  ASSUME NEW G, Good(G), NEW t \in DOMAIN G.heap, NEW s \in Slots, NEW v \in Addr \cup {Nil},
         NEW H, H = [G EXCEPT !.heap[t] = [@ EXCEPT ![s] = v]]
  PROVE  Stored(G, H, t, IF s = "key" THEN v ELSE G.heap[t].key, IF s = "val" THEN v ELSE G.heap[t].val)
<1>1. G \in Global /\ G.heap[t] \in Object /\ G.heap[t].key \in Addr \cup {Nil} /\ G.heap[t].val \in Addr \cup {Nil}
  BY ObjectHas DEF Good
<1>2. CASE s = "key"
  <2> DEFINE x == [G.heap[t] EXCEPT !.key = v, !.val = G.heap[t].val]
  <2>1. x = [G.heap[t] EXCEPT !["key"] = v]
    BY <1>1 DEF Object
  <2>2. H = [G EXCEPT !.heap[t] = x]
    BY <1>2, <2>1
  <2> HIDE DEF x
  <2>3. Stored(G, H, t, v, G.heap[t].val)
    <3>1. x = [G.heap[t] EXCEPT !.key = v, !.val = G.heap[t].val]
      BY DEF x
    <3>2. t \in DOMAIN G.heap /\ v \in Addr \cup {Nil}
      OBVIOUS
    <3> QED BY ONLY <1>1, <2>2, <3>1, <3>2, StoreIs
  <2> QED BY <1>2, <2>3
<1>3. CASE s = "val"
  <2> DEFINE x == [G.heap[t] EXCEPT !.key = G.heap[t].key, !.val = v]
  <2>1. x = [G.heap[t] EXCEPT !["val"] = v]
    BY <1>1 DEF Object
  <2>2. H = [G EXCEPT !.heap[t] = x]
    BY <1>3, <2>1
  <2> HIDE DEF x
  <2>3. Stored(G, H, t, G.heap[t].key, v)
    <3>1. x = [G.heap[t] EXCEPT !.key = G.heap[t].key, !.val = v]
      BY DEF x
    <3>2. t \in DOMAIN G.heap /\ v \in Addr \cup {Nil}
      OBVIOUS
    <3> QED BY ONLY <1>1, <2>2, <3>1, <3>2, StoreIs
  <2> QED BY <1>3, <2>3
<1> QED BY <1>2, <1>3 DEF Slots

(* The phase, but for what object t may have been made to refer to. *)
PhaseBut(G, t) ==
  IF G.gcstate = "propagate"
    THEN NoneDead(G) /\ BlackDoneBut(G, G.tmudata \cup {t}) /\ Lists(G) /\ Main \in Marked(G)
    ELSE Swept(G)

(* What t is newly made to refer to is in use. *)
LEMMA WrittenBase ==
  ASSUME NEW G, NEW H, NEW l, NEW t \in DOMAIN G.heap, NEW k, NEW v, Base(G, l), Written(G, H, t, k, v),
         Formed(H, t), k \in InUse(G) \cup {Nil, G.heap[t].key}, v \in InUse(G) \cup {Nil, G.heap[t].val}
  PROVE  Base(H, l) /\ InUse(H) = InUse(G) /\ H.tmudata = G.tmudata /\ H.gcstate = G.gcstate
<1>1. Good(G) /\ Safe(G) /\ Rooted(G, l) /\ Finalized(G)
  BY DEF Base
<1>2. ASSUME NEW o \in DOMAIN G.heap
      PROVE  /\ H.heap[o].kind = G.heap[o].kind /\ H.heap[o].mark = G.heap[o].mark /\ H.heap[o].at = G.heap[o].at
             /\ H.heap[o].fin = G.heap[o].fin /\ H.heap[o].calls = G.heap[o].calls
             /\ isdead(H, o) <=> isdead(G, o)
             /\ IsOpen(H, o) <=> IsOpen(G, o)
  <2>1. /\ H.heap[o].kind = G.heap[o].kind /\ H.heap[o].mark = G.heap[o].mark /\ H.heap[o].at = G.heap[o].at
        /\ H.heap[o].fin = G.heap[o].fin /\ H.heap[o].calls = G.heap[o].calls
    BY <1>2 DEF Written
  <2>2. H.currentwhite = G.currentwhite
    BY DEF Written, SameRest
  <2> QED BY <2>1, <2>2 DEF isdead, IsOpen, KindOf
<1>3. DOMAIN H.heap = DOMAIN G.heap /\ H.tmudata = G.tmudata /\ H \in Global /\ H.gcstate = G.gcstate
  BY DEF Written, SameRest
<1>4. InUse(H) = InUse(G)
  BY <1>2, <1>3 DEF InUse
<1>5. Good(H)
  <2>1. ASSUME NEW o \in DOMAIN G.heap PROVE Formed(H, o)
    <3>1. CASE o = t
      BY <3>1
    <3>2. CASE o # t
      <4>1. H.heap[o] = G.heap[o] /\ Formed(G, o)
        BY <1>1, <3>2, ObjectHas DEF Written
      <4> QED BY <1>3, <4>1 DEF Formed
    <3> QED BY <3>1, <3>2
  <2>2. ASSUME NEW o \in DOMAIN G.heap PROVE Coloured(H.heap[o])
    BY <1>1, <1>2, ObjectHas DEF Coloured
  <2> QED BY <1>1, <1>3, <2>1, <2>2 DEF Good
<1>6. ASSUME NEW o \in DOMAIN G.heap
      PROVE  Contents(H, o) \subseteq Contents(G, o) \cup InUse(G)
  <2>1. ASSUME NEW p \in DOMAIN G.heap
        PROVE  H.heap[p].key \in InUse(G) \cup {Nil, G.heap[p].key} /\ H.heap[p].val \in InUse(G) \cup {Nil, G.heap[p].val}
    BY DEF Written
  <2>2. ValueOf(H, o) \in InUse(G) \cup {Nil, ValueOf(G, o)}
    <3>1. CASE IsOpen(G, o)
      <4>1. G.heap[o].at[1] \in DOMAIN G.heap /\ G.heap[o].at[2] \in Slots
        BY <1>1, <3>1, ValueIs
      <4>2. /\ H.heap[G.heap[o].at[1]].key \in InUse(G) \cup {Nil, G.heap[G.heap[o].at[1]].key}
            /\ H.heap[G.heap[o].at[1]].val \in InUse(G) \cup {Nil, G.heap[G.heap[o].at[1]].val}
        BY <2>1, <4>1
      <4>3. /\ ValueOf(H, o) = H.heap[G.heap[o].at[1]][G.heap[o].at[2]]
            /\ ValueOf(G, o) = G.heap[G.heap[o].at[1]][G.heap[o].at[2]]
        BY <1>2, <3>1 DEF ValueOf
      <4> QED BY <4>1, <4>2, <4>3 DEF Slots
    <3>2. CASE ~IsOpen(G, o)
      BY <1>2, <2>1, <3>2 DEF ValueOf
    <3> QED BY <3>1, <3>2
  <2> QED BY <2>1, <2>2 DEF Contents, Without
<1>7. Safe(H)
  <2>1. \A o \in InUse(G) : o \in DOMAIN G.heap
    BY DEF InUse
  <2> QED BY <1>1, <1>4, <1>6, <2>1 DEF Safe
<1>8. Rooted(H, l)
  BY <1>1, <1>3, <1>4 DEF Rooted
<1>9. Finalized(H)
  BY <1>1, <1>2, <1>3 DEF Finalized
<1> QED BY <1>3, <1>4, <1>5, <1>7, <1>8, <1>9 DEF Base

LEMMA WrittenPhase ==
  ASSUME NEW G, NEW H, NEW t \in DOMAIN G.heap, NEW k, NEW v, Good(G), Good(H), Written(G, H, t, k, v), Phase(G)
  PROVE  PhaseBut(H, t) /\ (Is(t) = "thread" \/ ~Black(G, t) => Phase(H))
<1>1. ASSUME NEW o \in DOMAIN G.heap
      PROVE  /\ H.heap[o].mark = G.heap[o].mark /\ H.heap[o].at = G.heap[o].at
             /\ isdead(H, o) <=> isdead(G, o)
             /\ IsOpen(H, o) <=> IsOpen(G, o)
             /\ Black(H, o) <=> Black(G, o)
  <2>1. /\ H.heap[o].kind = G.heap[o].kind /\ H.heap[o].mark = G.heap[o].mark /\ H.heap[o].at = G.heap[o].at
    BY <1>1 DEF Written
  <2>2. H.currentwhite = G.currentwhite
    BY DEF Written, SameRest
  <2> QED BY <2>1, <2>2 DEF isdead, IsOpen, KindOf, Black
<1>2. DOMAIN H.heap = DOMAIN G.heap /\ SameRest(G, H) /\ H.gray = G.gray /\ H.grayagain = G.grayagain /\ H.weak = G.weak
  BY DEF Written
<1>3. CASE G.gcstate # "propagate"
  <2>1. Swept(G)
    BY <1>3 DEF Phase
  <2>2. Swept(H)
    <3>1. H.tosweep = G.tosweep /\ H.tmudata = G.tmudata /\ H.currentwhite = G.currentwhite /\ H.gcstate = G.gcstate
      BY <1>2 DEF SameRest
    <3>2. G.tosweep \subseteq DOMAIN G.heap
      BY <2>1 DEF Swept
    <3>3. \A o \in H.tosweep : ~IsOpen(H, o)
      BY <1>1, <2>1, <3>1, <3>2 DEF Swept
    <3>4. \A o \in DOMAIN H.heap \ (H.tosweep \cup H.tmudata) :
            H.heap[o].mark = H.currentwhite \/ (IsOpen(H, o) /\ H.heap[o].at[1] \in H.tosweep)
      BY <1>1, <1>2, <2>1, <3>1 DEF Swept
    <3> QED BY <1>2, <2>1, <3>1, <3>3, <3>4 DEF Swept
  <2> QED BY <1>2, <1>3, <2>2 DEF PhaseBut, Phase, SameRest
<1>4. CASE G.gcstate = "propagate"
  <2>1. Tri(G) /\ H.gcstate = "propagate"
    BY <1>2, <1>4 DEF Phase, SameRest
  <2>2. Marked(H) = Marked(G)
    BY <1>1, <1>2 DEF Marked
  <2>3. NoneDead(H) /\ Main \in Marked(H)
    BY <1>1, <1>2, <2>1, <2>2 DEF Tri, NoneDead
  <2>4. Lists(H)
    <3>1. \A o \in H.gray \cup H.grayagain \cup H.weak :
            o \in DOMAIN H.heap /\ Is(o) \in Listable /\ H.heap[o].mark = "gray"
      BY <1>1, <1>2, <2>1 DEF Tri, Lists
    <3>2. \A o \in DOMAIN H.heap :
            Is(o) \in Listable /\ H.heap[o].mark = "gray" => o \in H.gray \cup H.grayagain \cup H.weak
      BY <1>1, <1>2, <2>1 DEF Tri, Lists
    <3> QED BY <1>2, <2>1, <3>1, <3>2 DEF Tri, Lists
  <2>5. ASSUME NEW o \in DOMAIN G.heap \ G.tmudata, o # t, Black(G, o)
        PROVE  Contents(H, o) \subseteq Marked(H)
    <3>1. Contents(G, o) \subseteq Marked(G)
      BY <2>1, <2>5 DEF Tri, BlackDone
    <3>2. ~IsOpen(G, o)
      BY <2>5, ObjectHas, ValueIs DEF Coloured, Black
    <3>3. H.heap[o] = G.heap[o]
      BY <2>5 DEF Written
    <3>4. Contents(H, o) = Contents(G, o)
      BY <1>1, <3>2, <3>3 DEF Contents, ValueOf
    <3> QED BY <2>2, <3>1, <3>4
  <2>6. H.tmudata = G.tmudata
    BY <1>2 DEF SameRest
  <2>7. BlackDoneBut(H, H.tmudata \cup {t})
    BY <1>1, <1>2, <2>5, <2>6 DEF BlackDoneBut
  <2>8. ASSUME Is(t) = "thread" \/ ~Black(G, t) PROVE BlackDone(H)
    <3>1. ~Black(G, t)
      BY <2>8, ObjectHas DEF Coloured, Black, KindOf
    <3> QED BY <1>1, <1>2, <2>5, <2>6, <3>1 DEF BlackDone
  <2> QED BY <2>1, <2>3, <2>4, <2>7, <2>8 DEF PhaseBut, Phase, Tri
<1> QED BY <1>3, <1>4
(* A new object, of the current white, that refers to what is in use. *)
Fresh(G, o, x) ==
  /\ o \in Objs \ DOMAIN G.heap /\ x \in Object
  /\ x.mark = G.currentwhite /\ x.key = Nil /\ x.fin = FALSE /\ x.calls = 0

LEMMA AllocIs ==
  ASSUME NEW G \in Global, NEW o, NEW x, Fresh(G, o, x), NEW H, H = Alloc(G, o, x)
  PROVE  /\ H \in Global /\ DOMAIN H.heap = DOMAIN G.heap \cup {o} /\ SameRest(G, H)
         /\ H.gray = G.gray /\ H.grayagain = G.grayagain /\ H.weak = G.weak
         /\ H.heap[o] = x /\ \A p \in DOMAIN G.heap : H.heap[p] = G.heap[p]
<1> DEFINE D == DOMAIN G.heap \cup {o}
           h == [p \in D |-> IF p = o THEN x ELSE G.heap[p]]
<1>1. D \in SUBSET Addr /\ o \notin DOMAIN G.heap /\ x \in Object /\ \A p \in DOMAIN G.heap : G.heap[p] \in Object
  BY GlobalHas DEF Fresh, Addr
<1>2. h \in [D -> Object]
  BY <1>1
<1>3. H = [G EXCEPT !.heap = h]
  BY DEF Alloc
<1>4. DOMAIN h = D /\ h[o] = x /\ \A p \in DOMAIN G.heap : h[p] = G.heap[p]
  BY <1>1
<1> HIDE DEF h
<1>5. H \in Global /\ H.heap = h
  BY ONLY <1>1, <1>2, <1>3, NewHeap, G \in Global
<1>6. SameRest(G, H) /\ H.gray = G.gray /\ H.grayagain = G.grayagain /\ H.weak = G.weak
  BY ONLY <1>1, <1>2, <1>3, NewHeap, G \in Global DEF SameRest
<1> QED BY <1>4, <1>5, <1>6

LEMMA AllocBase ==
  ASSUME NEW G, NEW l, NEW o, NEW x, Base(G, l), Phase(G), Fresh(G, o, x), NEW H, H = Alloc(G, o, x),
         Formed(H, o), Coloured(x), Contents(H, o) \subseteq InUse(G)
  PROVE  /\ Base(H, l) /\ Phase(H) /\ InUse(H) = InUse(G) \cup {o} /\ SameRest(G, H)
         /\ H.heap[o] = x /\ (\A p \in DOMAIN G.heap : H.heap[p] = G.heap[p]) /\ DOMAIN H.heap = DOMAIN G.heap \cup {o}
<1>1. Good(G) /\ Safe(G) /\ Rooted(G, l) /\ Finalized(G) /\ G \in Global
  BY DEF Base, Good
<1>2. /\ H \in Global /\ DOMAIN H.heap = DOMAIN G.heap \cup {o} /\ SameRest(G, H)
      /\ H.gray = G.gray /\ H.grayagain = G.grayagain /\ H.weak = G.weak
      /\ H.heap[o] = x /\ \A p \in DOMAIN G.heap : H.heap[p] = G.heap[p]
  BY ONLY <1>1, AllocIs, Fresh(G, o, x), H = Alloc(G, o, x)
<1>3. o \notin DOMAIN G.heap /\ x.mark = G.currentwhite /\ x.fin = FALSE /\ x.calls = 0 /\ G.currentwhite \in Whites
  BY <1>1, GlobalHas DEF Fresh
<1>4. H.currentwhite = G.currentwhite /\ H.tmudata = G.tmudata /\ H.tosweep = G.tosweep /\ H.gcstate = G.gcstate
  BY <1>2 DEF SameRest
<1>5. \A p \in DOMAIN G.heap : /\ isdead(H, p) <=> isdead(G, p)
                               /\ IsOpen(H, p) <=> IsOpen(G, p)
  BY <1>2, <1>4 DEF isdead, IsOpen, KindOf
<1>6. ~isdead(H, o)
  BY <1>2, <1>3, <1>4 DEF isdead, OtherWhite, Whites
<1>7. InUse(H) = InUse(G) \cup {o}
  BY <1>2, <1>5, <1>6 DEF InUse
<1>8. Good(H)
  <2>1. ASSUME NEW p \in DOMAIN G.heap PROVE Formed(H, p) /\ Coloured(H.heap[p])
    <3>1. H.heap[p] = G.heap[p] /\ Formed(G, p) /\ Coloured(G.heap[p])
      BY <1>1, <1>2, ObjectHas
    <3> QED BY <1>2, <3>1 DEF Formed
  <2> QED BY <1>1, <1>2, <2>1 DEF Good
<1>9. ASSUME NEW p \in DOMAIN G.heap PROVE ValueOf(H, p) = ValueOf(G, p) /\ Contents(H, p) = Contents(G, p)
  <2>1. ValueOf(H, p) = ValueOf(G, p)
    <3>1. CASE IsOpen(G, p)
      <4>1. G.heap[p].at[1] \in DOMAIN G.heap
        BY <1>1, <3>1, ValueIs
      <4> QED BY <1>2, <1>5, <3>1, <4>1 DEF ValueOf
    <3>2. CASE ~IsOpen(G, p)
      BY <1>2, <1>5, <3>2 DEF ValueOf
    <3> QED BY <3>1, <3>2
  <2> QED BY <1>2, <2>1 DEF Contents
<1>10. Safe(H)
  <2>1. \A p \in InUse(G) : p \in DOMAIN G.heap
    BY DEF InUse
  <2> QED BY <1>1, <1>7, <1>9, <2>1 DEF Safe
<1>11. Rooted(H, l)
  BY <1>1, <1>4, <1>7 DEF Rooted
<1>12. o \notin G.tmudata
  BY <1>1, <1>3 DEF Rooted, InUse
<1>13. Finalized(H)
  BY <1>1, <1>2, <1>3, <1>4, <1>5, <1>6, <1>12 DEF Finalized
<1>14. CASE G.gcstate # "propagate"
  <2>1. Swept(G)
    BY <1>14 DEF Phase
  <2>2. H.tosweep \subseteq DOMAIN H.heap /\ H.tosweep \cap H.tmudata = {}
    BY <1>2, <1>4, <2>1 DEF Swept
  <2>3. \A p \in H.tosweep : ~IsOpen(H, p)
    BY <1>2, <1>4, <1>5, <2>1 DEF Swept
  <2>4. \A p \in DOMAIN H.heap \ (H.tosweep \cup H.tmudata) :
          H.heap[p].mark = H.currentwhite \/ (IsOpen(H, p) /\ H.heap[p].at[1] \in H.tosweep)
    BY <1>2, <1>3, <1>4, <1>5, <2>1 DEF Swept
  <2>5. Swept(H)
    BY <1>4, <2>1, <2>2, <2>3, <2>4 DEF Swept
  <2> QED BY <1>2, <1>4, <1>7, <1>8, <1>10, <1>11, <1>13, <1>14, <2>5 DEF Base, Phase
<1>15. CASE G.gcstate = "propagate"
  <2>1. Tri(G)
    BY <1>15 DEF Phase
  <2>2. NoneDead(H)
    BY <1>2, <1>5, <1>6, <2>1 DEF Tri, NoneDead
  <2>3. Marked(H) = Marked(G)
    BY <1>2, <1>3 DEF Marked
  <2>4. BlackDone(H)
    <3>1. ASSUME NEW p \in DOMAIN H.heap \ H.tmudata, Black(H, p) PROVE Contents(H, p) \subseteq Marked(H)
      <4>1. p # o
        BY <1>2, <1>3, <3>1 DEF Black, Whites
      <4>2. p \in DOMAIN G.heap \ G.tmudata /\ Black(G, p)
        BY <1>2, <1>4, <3>1, <4>1 DEF Black
      <4> QED BY <1>9, <2>1, <2>3, <4>2 DEF Tri, BlackDone
    <3> QED BY <3>1 DEF BlackDone
  <2>5. Lists(H)
    <3>1. \A p \in H.gray \cup H.grayagain \cup H.weak :
            p \in DOMAIN H.heap /\ Is(p) \in Listable /\ H.heap[p].mark = "gray"
      BY <1>2, <2>1 DEF Tri, Lists
    <3>2. \A p \in DOMAIN H.heap :
            Is(p) \in Listable /\ H.heap[p].mark = "gray" => p \in H.gray \cup H.grayagain \cup H.weak
      BY <1>2, <1>3, <2>1 DEF Tri, Lists, Whites
    <3> QED BY <1>2, <2>1, <3>1, <3>2 DEF Tri, Lists
  <2>6. Tri(H)
    BY <2>1, <2>2, <2>3, <2>4, <2>5 DEF Tri
  <2> QED BY <1>2, <1>4, <1>7, <1>8, <1>10, <1>11, <1>13, <1>15, <2>6 DEF Base, Phase
<1> QED BY <1>14, <1>15

(* The same in one word. *)
Allocated(G, H, l, o) == Base(H, l) /\ Phase(H) /\ InUse(H) = InUse(G) \cup {o} /\ SameRest(G, H)

LEMMA AllocDone ==
  ASSUME NEW G, NEW l, NEW o, NEW x, Base(G, l), Phase(G), Fresh(G, o, x), NEW H, H = Alloc(G, o, x),
         Formed(H, o), Coloured(x), Contents(H, o) \subseteq InUse(G)
  PROVE  Allocated(G, H, l, o)
  BY AllocBase DEF Allocated

(* A dead string or open upvalue that is found is in use again. *)
LEMMA Revived ==
  ASSUME NEW G, NEW l, Base(G, l), Phase(G), NEW o \in DOMAIN G.heap, isdead(G, o),
         Is(o) # "udata", Contents(G, o) \subseteq InUse(G), NEW H, H = makewhite(G, {o})
  PROVE  /\ Base(H, l) /\ Phase(H) /\ InUse(H) = InUse(G) \cup {o} /\ SameShape(G, H) /\ SameRest(G, H)
<1>1. Good(G) /\ Safe(G) /\ Rooted(G, l) /\ Finalized(G) /\ G \in Global
  BY DEF Base, Good
<1>2. G.currentwhite \in Whites /\ G.currentwhite \in Marks
  BY <1>1, GlobalHas DEF Whites, Marks
<1>3. /\ H \in Global /\ SameShape(G, H) /\ SameRest(G, H)
      /\ \A p \in DOMAIN G.heap : H.heap[p].mark = IF p \in {o} THEN G.currentwhite ELSE G.heap[p].mark
  BY <1>1, <1>2, Repainted DEF makewhite
<1>4. DOMAIN H.heap = DOMAIN G.heap /\ H.currentwhite = G.currentwhite /\ H.tmudata = G.tmudata
      /\ H.tosweep = G.tosweep /\ H.gcstate = G.gcstate
  BY <1>3 DEF SameShape, SameRest
<1>5. \A p \in DOMAIN G.heap : isdead(H, p) <=> isdead(G, p) /\ p # o
  BY <1>2, <1>3, <1>4 DEF isdead, OtherWhite, Whites
<1>6. InUse(H) = InUse(G) \cup {o}
  BY <1>4, <1>5 DEF InUse
<1>7. \A p \in DOMAIN G.heap : Contents(H, p) = Contents(G, p) /\ (IsOpen(H, p) <=> IsOpen(G, p)) /\ H.heap[p].at = G.heap[p].at
  <2>1. \A p \in DOMAIN G.heap : Contents(H, p) = Contents(G, p) /\ (IsOpen(H, p) <=> IsOpen(G, p))
    BY <1>1, <1>3, ShapeKept
  <2>2. \A p \in DOMAIN G.heap : H.heap[p].at = G.heap[p].at
    BY <1>3 DEF SameShape, SameObject
  <2> QED BY <2>1, <2>2
<1>8. Good(H)
  <2>1. \A p \in DOMAIN G.heap : Coloured(H.heap[p])
    <3>1. ASSUME NEW p \in DOMAIN G.heap
          PROVE  /\ Coloured(G.heap[p]) /\ H.heap[p].kind = G.heap[p].kind /\ H.heap[p].at = G.heap[p].at
                 /\ H.heap[p].mark \in {G.heap[p].mark, "w0", "w1"}
      <4>1. Coloured(G.heap[p])
        BY <1>1 DEF Good
      <4>2. H.heap[p].kind = G.heap[p].kind /\ H.heap[p].at = G.heap[p].at
        BY <1>3 DEF SameShape, SameObject
      <4>3. H.heap[p].mark \in {G.heap[p].mark, "w0", "w1"}
        BY <1>2, <1>3 DEF Whites
      <4> QED BY <4>1, <4>2, <4>3
    <3> QED BY ONLY <3>1 DEF Coloured
  <2> QED BY <1>1, <1>3, <2>1, GoodPainted
<1>9. Safe(H)
  <2>1. \A p \in InUse(G) : p \in DOMAIN G.heap
    BY DEF InUse
  <2> QED BY <1>1, <1>6, <1>7, <2>1 DEF Safe
<1>10. Rooted(H, l)
  BY <1>1, <1>4, <1>6 DEF Rooted
<1>11. Finalized(H)
  <2>1. \A u \in DOMAIN G.heap : H.heap[u].fin = G.heap[u].fin /\ H.heap[u].calls = G.heap[u].calls
    BY <1>3 DEF SameShape, SameObject
  <2>2. \A u \in DOMAIN G.heap : isdead(H, u) => isdead(G, u)
    BY <1>5
  <2> QED BY ONLY <1>1, <1>4, <2>1, <2>2 DEF Finalized
<1>12. Swept(G) /\ G.gcstate # "propagate"
  BY DEF Phase, Tri, NoneDead
<1>13. Swept(H)
  <2>1. H.tosweep \subseteq DOMAIN H.heap /\ H.tosweep \cap H.tmudata = {} /\ \A p \in H.tosweep : ~IsOpen(H, p)
    BY <1>4, <1>7, <1>12 DEF Swept
  <2>2. \A p \in DOMAIN H.heap \ (H.tosweep \cup H.tmudata) :
          H.heap[p].mark = H.currentwhite \/ (IsOpen(H, p) /\ H.heap[p].at[1] \in H.tosweep)
    BY <1>3, <1>4, <1>7, <1>12 DEF Swept
  <2> QED BY <1>4, <1>12, <2>1, <2>2 DEF Swept
<1> QED BY <1>3, <1>4, <1>6, <1>8, <1>9, <1>10, <1>11, <1>12, <1>13 DEF Base, Phase
LEMMA WhenPropagating ==
  ASSUME NEW G, NEW l, Base(G, l), NoneDead(G)
  PROVE  Whole(G) /\ InUse(G) = DOMAIN G.heap /\ Good(G)
  BY DEF Base, Safe, Whole, NoneDead, InUse

(* Nothing is left to do for an object that is not black, or refers to     *)
(* nothing white.                                                          *)
LEMMA BarrierNone ==
  ASSUME NEW G, NEW o \in DOMAIN G.heap, PhaseBut(G, o), Black(G, o) => Contents(G, o) \subseteq Marked(G)
  PROVE  Phase(G)
<1>1. CASE G.gcstate # "propagate"
  BY <1>1 DEF Phase, PhaseBut
<1>2. CASE G.gcstate = "propagate"
  <2>1. NoneDead(G) /\ BlackDoneBut(G, G.tmudata \cup {o}) /\ Lists(G) /\ Main \in Marked(G)
    BY <1>2 DEF PhaseBut
  <2>2. BlackDone(G)
    BY <2>1 DEF BlackDone, BlackDoneBut
  <2> QED BY <1>2, <2>1, <2>2 DEF Phase, Tri
<1> QED BY <1>1, <1>2

LEMMA Barrier ==
  ASSUME NEW G, NEW l, NEW o \in InUse(G), Base(G, l), PhaseBut(G, o), Is(o) # "thread", ~IsOpen(G, o),
         NEW v \in InUse(G) \cup {Nil}, Contents(G, o) \subseteq {v}, NEW H, H = luaC_barrier(G, o, v)
  PROVE  Base(H, l) /\ Phase(H) /\ InUse(H) = InUse(G) /\ SameRest(G, H)
<1>1. o \in DOMAIN G.heap /\ Good(G) /\ G \in Global /\ InUse(G) \subseteq DOMAIN G.heap /\ ~isdead(G, o)
  BY DEF Base, Good, InUse
<1>2. CASE ~(Black(G, o) /\ White(G, v))
  <2>1. H = G
    BY <1>2 DEF luaC_barrier
  <2>2. ASSUME Black(G, o) PROVE Contents(G, o) \subseteq Marked(G)
    <3>1. ~White(G, v)
      BY <1>2, <2>2
    <3>2. Nil \notin Contents(G, o)
      BY DEF Contents, Without
    <3> QED BY <1>1, <3>1, <3>2 DEF White, Marked, Whites
  <2>3. Phase(G)
    BY <1>1, <2>2, BarrierNone
  <2> QED BY <2>1, <2>3 DEF SameRest
<1>3. CASE Black(G, o) /\ White(G, v) /\ G.gcstate = "propagate"
  <2>1. H = markobject(G, {v})
    BY <1>3 DEF luaC_barrier
  <2>2. NoneDead(G) /\ BlackDoneBut(G, G.tmudata \cup {o}) /\ Lists(G) /\ Main \in Marked(G)
    BY <1>3 DEF PhaseBut
  <2>3. Whole(G)
    BY <2>2, WhenPropagating
  <2>4. {v} \in SUBSET (DOMAIN G.heap \cup {Nil})
    BY <1>1
  <2>5. MarkedFrom(G, H, {v}) /\ Good(H)
    BY <1>1, <2>1, <2>3, <2>4, MarkObject
  <2>6. /\ DOMAIN H.heap = DOMAIN G.heap /\ Marked(G) \subseteq Marked(H) /\ NoneDead(H) /\ Lists(H)
        /\ BlackDoneBut(H, G.tmudata \cup {o})
    BY <1>1, <2>2, <2>5, MarksKept
  <2>7. SameShape(G, H) /\ SameRest(G, H) /\ (v # Nil => v \in Marked(H))
    BY <2>5 DEF MarkedFrom
  <2>8. Contents(H, o) \subseteq Marked(H)
    <3>1. Contents(H, o) \subseteq {v}
      BY <1>1, <2>7, ShapeKept
    <3> QED BY <2>7, <3>1 DEF Contents, Without
  <2>9. BlackDone(H)
    <3>1. H.tmudata = G.tmudata
      BY <2>7 DEF SameRest
    <3> QED BY <2>6, <2>8, <3>1 DEF BlackDone, BlackDoneBut
  <2>10. Base(H, l) /\ InUse(H) = InUse(G)
    BY <2>2, <2>5, <2>6, <2>7, PaintedBase
  <2>11. Tri(H)
    BY <2>2, <2>6, <2>9 DEF Tri
  <2> QED BY <1>3, <2>7, <2>10, <2>11 DEF Phase, SameRest
<1>4. CASE Black(G, o) /\ White(G, v) /\ G.gcstate # "propagate"
  <2>1. H = makewhite(G, {o})
    BY <1>4 DEF luaC_barrier
  <2>2. /\ Trimmed(G, H) /\ SameShape(G, H) /\ DOMAIN H.heap = DOMAIN G.heap /\ SameRest(G, H)
        /\ \A p \in DOMAIN G.heap : /\ H.heap[p].mark = IF p \in {o} THEN G.currentwhite ELSE G.heap[p].mark
                                    /\ H.heap[p].at = G.heap[p].at
    BY <1>1, <2>1, Whitened
  <2>3. Base(H, l) /\ InUse(H) = InUse(G) /\ Good(H)
    BY <2>2, TrimmedBase DEF Base
  <2>4. Swept(G)
    BY <1>4 DEF PhaseBut
  <2>5. H.currentwhite = G.currentwhite /\ H.tmudata = G.tmudata /\ H.tosweep = G.tosweep /\ H.gcstate = G.gcstate
    BY <2>2 DEF SameRest
  <2>6. \A p \in DOMAIN G.heap : IsOpen(H, p) <=> IsOpen(G, p)
    BY <1>1, <2>2, <2>3, ValueIs
  <2>7. H.tosweep \subseteq DOMAIN H.heap /\ H.tosweep \cap H.tmudata = {} /\ \A p \in H.tosweep : ~IsOpen(H, p)
    BY <2>2, <2>4, <2>5, <2>6 DEF Swept
  <2>8. \A p \in DOMAIN H.heap \ (H.tosweep \cup H.tmudata) :
          H.heap[p].mark = H.currentwhite \/ (IsOpen(H, p) /\ H.heap[p].at[1] \in H.tosweep)
    BY <2>2, <2>4, <2>5, <2>6 DEF Swept
  <2>9. Swept(H)
    BY <2>4, <2>5, <2>7, <2>8 DEF Swept
  <2> QED BY <1>4, <2>2, <2>3, <2>5, <2>9 DEF Phase
<1> QED BY <1>2, <1>3, <1>4

LEMMA BarrierT ==
  ASSUME NEW G, NEW l, NEW t \in InUse(G), Base(G, l), PhaseBut(G, t), Is(t) \in {"table", "weak"},
         NEW vs \in SUBSET (InUse(G) \cup {Nil}), Contents(G, t) \subseteq vs, NEW H, H = luaC_barriert(G, t, vs)
  PROVE  Base(H, l) /\ Phase(H) /\ InUse(H) = InUse(G) /\ SameRest(G, H)
<1>1. t \in DOMAIN G.heap /\ Good(G) /\ G \in Global /\ InUse(G) \subseteq DOMAIN G.heap /\ ~isdead(G, t)
  BY DEF Base, Good, InUse
<1>2. CASE ~(Black(G, t) /\ \E v \in vs : White(G, v))
  <2>1. H = G
    BY <1>2 DEF luaC_barriert
  <2>2. ASSUME Black(G, t) PROVE Contents(G, t) \subseteq Marked(G)
    <3>1. \A v \in vs : ~White(G, v)
      BY <1>2, <2>2
    <3>2. Nil \notin Contents(G, t)
      BY DEF Contents, Without
    <3>3. \A v \in Contents(G, t) : v \in DOMAIN G.heap /\ v # Nil /\ ~White(G, v)
      BY <1>1, <3>1, <3>2
    <3> QED BY <3>3 DEF White, Marked, Whites
  <2>3. Phase(G)
    BY <1>1, <2>2, BarrierNone
  <2> QED BY <2>1, <2>3 DEF SameRest
<1>3. CASE Black(G, t) /\ \E v \in vs : White(G, v)
  <2> DEFINE J == Repaint(G, {t}, "gray")
             again == IF G.gcstate = "propagate" THEN G.grayagain \cup {t} ELSE G.grayagain
  <2>1. H = [J EXCEPT !.grayagain = again]
    BY <1>3 DEF luaC_barriert, Repaint
  <2>2. "gray" \in Marks
    BY DEF Marks
  <2>3. /\ J \in Global /\ SameShape(G, J) /\ SameRest(G, J) /\ J.gray = G.gray /\ J.grayagain = G.grayagain /\ J.weak = G.weak
        /\ \A o \in DOMAIN G.heap : J.heap[o].mark = IF o \in {t} THEN "gray" ELSE G.heap[o].mark
    BY <1>1, <2>2, Repainted
  <2> HIDE DEF J
  <2>4. again \in SUBSET Addr
    BY <1>1, GlobalHas
  <2> HIDE DEF again
  <2>5. /\ H \in Global /\ H.heap = J.heap /\ H.gray = G.gray /\ H.weak = G.weak /\ H.grayagain = again
        /\ SameRest(G, H)
    BY <2>1, <2>3, <2>4 DEF Global, SameRest
  <2>6. /\ SameShape(G, H) /\ DOMAIN H.heap = DOMAIN G.heap
        /\ \A o \in DOMAIN G.heap : H.heap[o].mark = IF o \in {t} THEN "gray" ELSE G.heap[o].mark
    BY <2>3, <2>5 DEF SameShape
  <2>7. /\ H.currentwhite = G.currentwhite /\ G.currentwhite \in Whites /\ H.tmudata = G.tmudata
        /\ H.tosweep = G.tosweep /\ H.gcstate = G.gcstate
    BY <1>1, <2>5, GlobalHas DEF SameRest
  <2>8. \A o \in DOMAIN G.heap : isdead(H, o) <=> isdead(G, o)
    BY <1>1, <2>6, <2>7 DEF isdead, OtherWhite, Whites
  <2>9. InUse(H) = InUse(G)
    BY <2>6, <2>8 DEF InUse
  <2>10. G.heap[t].kind \in {"table", "weak"} /\ G.heap[t].at = <<>> /\ G.heap[t].mark = "black"
    BY <1>1, <1>3, ObjectHas DEF Formed, KindOf, Black
  <2>11. Good(H)
    <3>1. ASSUME NEW o \in DOMAIN G.heap PROVE Coloured(H.heap[o])
      <4>1. SameObject(G.heap[o], H.heap[o]) /\ Coloured(G.heap[o])
        BY <1>1, <2>6, ObjectHas DEF SameShape
      <4> QED BY <2>6, <2>10, <4>1 DEF Coloured, SameObject
    <3> QED BY <1>1, <2>5, <2>6, <3>1, GoodPainted
  <2>12. Base(H, l)
    <3>1. \A o \in DOMAIN G.heap : Contents(H, o) = Contents(G, o)
      BY <1>1, <2>6, ShapeKept
    <3>2. Safe(H)
      BY <1>1, <2>9, <3>1 DEF Base, Safe
    <3>3. Rooted(H, l)
      BY <2>7, <2>9 DEF Base, Rooted
    <3>4. \A u \in DOMAIN G.heap : H.heap[u].fin = G.heap[u].fin /\ H.heap[u].calls = G.heap[u].calls
      BY <2>6 DEF SameShape, SameObject
    <3>5. Finalized(H)
      BY <2>6, <2>7, <2>8, <3>4 DEF Base, Finalized
    <3> QED BY <2>11, <3>2, <3>3, <3>5 DEF Base
  <2>13. \A o \in DOMAIN G.heap : Contents(H, o) = Contents(G, o) /\ (IsOpen(H, o) <=> IsOpen(G, o)) /\ H.heap[o].at = G.heap[o].at
    <3>1. \A o \in DOMAIN G.heap : Contents(H, o) = Contents(G, o) /\ (IsOpen(H, o) <=> IsOpen(G, o))
      BY <1>1, <2>6, ShapeKept
    <3>2. \A o \in DOMAIN G.heap : H.heap[o].at = G.heap[o].at
      BY <2>6 DEF SameShape, SameObject
    <3> QED BY <3>1, <3>2
  <2>14. CASE G.gcstate = "propagate"
    <3>1. NoneDead(G) /\ BlackDoneBut(G, G.tmudata \cup {t}) /\ Lists(G) /\ Main \in Marked(G)
      BY <2>14 DEF PhaseBut
    <3>2. Marked(H) = Marked(G) /\ NoneDead(H)
      BY <2>6, <2>8, <2>10, <3>1 DEF Marked, NoneDead, Whites
    <3>3. BlackDone(H)
      BY <2>6, <2>7, <2>13, <3>1, <3>2 DEF BlackDone, BlackDoneBut, Black
    <3>4. Lists(H)
      <4>1. again = G.grayagain \cup {t}
        BY <2>14 DEF again
      <4>2. t \notin G.gray /\ t \notin G.grayagain /\ t \notin G.weak
        BY <2>10, <3>1 DEF Lists
      <4>3. \A o \in H.gray \cup H.grayagain \cup H.weak : o \in DOMAIN H.heap /\ Is(o) \in Listable /\ H.heap[o].mark = "gray"
        BY <1>1, <2>5, <2>6, <3>1, <4>1 DEF Lists, Listable
      <4>4. \A o \in DOMAIN H.heap :
              Is(o) \in Listable /\ H.heap[o].mark = "gray" => o \in H.gray \cup H.grayagain \cup H.weak
        BY <2>5, <2>6, <3>1, <4>1 DEF Lists
      <4> QED BY <2>5, <3>1, <4>1, <4>2, <4>3, <4>4 DEF Lists
    <3> QED BY <2>5, <2>7, <2>9, <2>12, <2>14, <3>1, <3>2, <3>3, <3>4 DEF Phase, Tri
  <2>15. CASE G.gcstate # "propagate"
    <3>1. Swept(G)
      BY <2>15 DEF PhaseBut
    <3>2. t \in G.tosweep
      <4>1. t \notin G.tmudata /\ ~IsOpen(G, t)
        BY <2>10 DEF Base, Rooted, IsOpen
      <4> QED BY <1>1, <2>7, <2>10, <3>1, <4>1 DEF Swept, Whites
    <3>3. H.tosweep \subseteq DOMAIN H.heap /\ H.tosweep \cap H.tmudata = {} /\ \A p \in H.tosweep : ~IsOpen(H, p)
      BY <2>6, <2>7, <2>13, <3>1 DEF Swept
    <3>4. \A p \in DOMAIN H.heap \ (H.tosweep \cup H.tmudata) :
            H.heap[p].mark = H.currentwhite \/ (IsOpen(H, p) /\ H.heap[p].at[1] \in H.tosweep)
      BY <2>6, <2>7, <2>13, <3>1, <3>2 DEF Swept
    <3>5. Swept(H)
      BY <2>7, <2>15, <3>1, <3>3, <3>4 DEF Swept
    <3> QED BY <2>5, <2>7, <2>9, <2>12, <2>15, <3>5 DEF Phase
  <2> QED BY <2>14, <2>15
<1> QED BY <1>2, <1>3
(* A value put into a thread's place. *)
LEMMA PutKeeps ==
  ASSUME NEW G, NEW l, Base(G, l), NEW t \in DOMAIN G.heap, Is(t) = "thread", NEW s \in Slots,
         NEW v \in InUse(G) \cup {Nil}, v # Nil => Is(v) # "upval",
         NEW H, H = [G EXCEPT !.heap[t] = [@ EXCEPT ![s] = v]]
  PROVE  /\ Base(H, l) /\ InUse(H) = InUse(G) /\ H.tmudata = G.tmudata /\ H.gcstate = G.gcstate
         /\ (Phase(G) => Phase(H)) /\ DOMAIN H.heap = DOMAIN G.heap
         /\ \A o \in DOMAIN G.heap : H.heap[o].fin = G.heap[o].fin
<1> DEFINE k == IF s = "key" THEN v ELSE G.heap[t].key
           w == IF s = "val" THEN v ELSE G.heap[t].val
<1>1. Good(G) /\ v \in Addr \cup {Nil} /\ InUse(G) \subseteq DOMAIN G.heap
  <2>1. Good(G) /\ InUse(G) \subseteq DOMAIN G.heap
    BY DEF Base, InUse
  <2> QED BY <2>1, GlobalHas DEF Good
<1>2. Stored(G, H, t, k, w) /\ Written(G, H, t, k, w)
  <2>1. s \in Slots /\ H = [G EXCEPT !.heap[t] = [@ EXCEPT ![s] = v]]
    OBVIOUS
  <2>2. Stored(G, H, t, k, w)
    BY ONLY <1>1, <2>1, StoreOne
  <2> QED BY <2>2 DEF Stored
<1>3. k \in InUse(G) \cup {Nil, G.heap[t].key} /\ w \in InUse(G) \cup {Nil, G.heap[t].val}
  OBVIOUS
<1>4. Formed(H, t)
  <2>1. Formed(G, t) /\ G.heap[t].kind = "thread"
    BY <1>1, ObjectHas DEF KindOf
  <2>2. H.heap[t].key = k /\ H.heap[t].val = w /\ H.heap[t].kind = "thread" /\ H.heap[t].mode = G.heap[t].mode
        /\ H.heap[t].at = G.heap[t].at
    BY <1>2, <2>1 DEF Stored, Written
  <2>3. (k # Nil => Is(k) # "upval") /\ (w # Nil => Is(w) # "upval")
    BY <2>1 DEF Formed
  <2> HIDE DEF k, w
  <2> QED BY <2>1, <2>2, <2>3 DEF Formed
<1>5. \A o \in DOMAIN G.heap : H.heap[o].fin = G.heap[o].fin
  BY <1>2 DEF Written
<1> HIDE DEF k, w
<1>6. Base(H, l) /\ InUse(H) = InUse(G) /\ H.tmudata = G.tmudata /\ H.gcstate = G.gcstate
  BY <1>1, <1>2, <1>3, <1>4, WrittenBase
<1>7. Phase(G) => Phase(H)
  <2>1. Good(H)
    BY <1>6 DEF Base
  <2> QED BY <1>1, <1>2, <2>1, WrittenPhase
<1> QED BY <1>2, <1>5, <1>6, <1>7 DEF Written

(* GCTM: the finalizer of u is called; the colours are not disturbed       *)
(* unless a black object holds u while objects are marked.                 *)
LEMMA Finalizer ==
  ASSUME NEW G, NEW l, Base(G, l), NEW u \in G.tmudata, NEW keeps \in BOOLEAN, NEW H, H = GCTM(G, u, l, keeps)
  PROVE  /\ Base(H, l) /\ InUse(H) = InUse(G) /\ H.tmudata = G.tmudata \ {u} /\ H.gcstate = G.gcstate
         /\ DOMAIN H.heap = DOMAIN G.heap /\ (Phase(G) /\ ~Exposed(G, u) => Phase(H))
         /\ \A o \in DOMAIN G.heap : H.heap[o].fin = G.heap[o].fin
<1> DEFINE J == makewhite(G, {u})
           h == [J.heap EXCEPT ![u] = [@ EXCEPT !.calls = J.heap[u].calls + 1]]
           M == [J EXCEPT !.tmudata = @ \ {u}, !.heap = h]
<1>1. Good(G) /\ u \in DOMAIN G.heap /\ ~isdead(G, u) /\ Is(u) = "udata" /\ u \in InUse(G)
  BY DEF Base, Rooted, InUse
<1>2. /\ Trimmed(G, J) /\ SameShape(G, J) /\ DOMAIN J.heap = DOMAIN G.heap /\ SameRest(G, J)
      /\ \A o \in DOMAIN G.heap : /\ J.heap[o].mark = IF o \in {u} THEN G.currentwhite ELSE G.heap[o].mark
                                  /\ J.heap[o].at = G.heap[o].at
  BY <1>1, Whitened
<1> HIDE DEF J
<1>3. Base(J, l) /\ InUse(J) = InUse(G) /\ Good(J)
  BY <1>2, TrimmedBase DEF Base
<1>4. /\ J \in Global /\ DOMAIN J.heap \in SUBSET Addr /\ J.heap \in [DOMAIN J.heap -> Object]
      /\ J.tmudata = G.tmudata /\ G.tmudata \subseteq Addr /\ u \in DOMAIN J.heap
      /\ J.currentwhite = G.currentwhite /\ J.gcstate = G.gcstate /\ J.tosweep = G.tosweep
  BY <1>1, <1>2, <1>3, GlobalHas DEF Good, SameRest
<1>5. /\ h \in [DOMAIN J.heap -> Object] /\ h[u].calls = J.heap[u].calls + 1
      /\ (\A o \in DOMAIN J.heap : o # u => h[o] = J.heap[o])
      /\ h[u].kind = J.heap[u].kind /\ h[u].mark = J.heap[u].mark /\ h[u].key = J.heap[u].key
      /\ h[u].val = J.heap[u].val /\ h[u].mode = J.heap[u].mode /\ h[u].at = J.heap[u].at /\ h[u].fin = J.heap[u].fin
  <2>1. J.heap[u] \in Object
    BY <1>4
  <2>2. [J.heap[u] EXCEPT !.calls = J.heap[u].calls + 1] \in Object
    BY <2>1 DEF Object
  <2>3. h[u] = [J.heap[u] EXCEPT !.calls = J.heap[u].calls + 1]
    BY <1>4
  <2> QED BY <1>4, <2>1, <2>2, <2>3 DEF Object
<1>6. H = IF keeps THEN [M EXCEPT !.heap[l].val = u] ELSE M
  BY DEF GCTM, J
<1> HIDE DEF h
<1>7. /\ M \in Global /\ M.heap = h /\ M.tmudata = G.tmudata \ {u} /\ M.currentwhite = G.currentwhite
      /\ M.gcstate = G.gcstate /\ M.tosweep = G.tosweep
  <2>1. h \in Heaps
    BY <1>4, <1>5, HeapIs
  <2> QED BY <1>4, <2>1 DEF Global
<1>16. M.gray = G.gray /\ M.grayagain = G.grayagain /\ M.weak = G.weak
  <2>1. J.gray = G.gray /\ J.grayagain = G.grayagain /\ J.weak = G.weak
    BY DEF J, makewhite, Repaint
  <2> QED BY <2>1
<1>8. DOMAIN M.heap = DOMAIN G.heap /\ SameRefs(J, M) /\ SameMarks(J, M)
  <2>1. DOMAIN M.heap = DOMAIN J.heap
    BY <1>5, <1>7
  <2>2. \A o \in DOMAIN J.heap :
          /\ M.heap[o].kind = J.heap[o].kind /\ M.heap[o].key = J.heap[o].key /\ M.heap[o].val = J.heap[o].val
          /\ M.heap[o].mode = J.heap[o].mode /\ M.heap[o].at = J.heap[o].at /\ M.heap[o].mark = J.heap[o].mark
    BY <1>5, <1>7
  <2> QED BY <1>2, <2>1, <2>2 DEF SameRefs, SameMarks
<1>9. \A o \in DOMAIN G.heap : /\ M.heap[o].fin = G.heap[o].fin
                               /\ M.heap[o].calls = IF o = u THEN G.heap[o].calls + 1 ELSE G.heap[o].calls
  <2>1. \A o \in DOMAIN G.heap : J.heap[o].fin = G.heap[o].fin /\ J.heap[o].calls = G.heap[o].calls
    BY <1>2 DEF SameShape, SameObject
  <2> QED BY <1>2, <1>5, <1>7, <2>1
<1> HIDE DEF M
<1>10. \A o \in DOMAIN G.heap : /\ isdead(M, o) <=> isdead(G, o)
                                /\ Formed(M, o) /\ Coloured(M.heap[o]) /\ Contents(M, o) = Contents(G, o)
                                /\ IsOpen(M, o) <=> IsOpen(G, o)
                                /\ M.heap[o].at = G.heap[o].at
                                /\ M.heap[o].mark = IF o = u THEN G.currentwhite ELSE G.heap[o].mark
  <2>1. ASSUME NEW o \in DOMAIN G.heap
        PROVE  Formed(M, o) /\ Contents(M, o) = Contents(G, o) /\ (IsOpen(M, o) <=> IsOpen(G, o)) /\ M.heap[o].at = G.heap[o].at
    <3>1. Formed(M, o) /\ Contents(M, o) = Contents(J, o) /\ (IsOpen(M, o) <=> IsOpen(J, o))
      BY <1>2, <1>3, <1>8, RefsSame
    <3>2. Contents(J, o) = Contents(G, o) /\ (IsOpen(J, o) <=> IsOpen(G, o))
      BY <1>1, <1>2, ShapeKept
    <3> QED BY <1>2, <1>8, <3>1, <3>2 DEF SameRefs
  <2>2. \A o \in DOMAIN G.heap : M.heap[o].mark = J.heap[o].mark /\ M.heap[o].kind = J.heap[o].kind /\ M.heap[o].at = J.heap[o].at
    BY <1>2, <1>8 DEF SameRefs, SameMarks
  <2>3. \A o \in DOMAIN G.heap : Coloured(M.heap[o])
    BY <1>2, <1>3, <2>2, ObjectHas DEF Coloured
  <2>4. \A o \in DOMAIN G.heap : isdead(M, o) <=> isdead(G, o)
    <3>1. \A o \in DOMAIN G.heap : isdead(J, o) <=> isdead(G, o)
      BY <1>2 DEF Trimmed
    <3> QED BY <1>4, <1>7, <2>2, <3>1 DEF isdead
  <2> QED BY <1>2, <2>1, <2>2, <2>3, <2>4
<1>11. InUse(M) = InUse(G)
  BY <1>8, <1>10 DEF InUse
<1>12. Base(M, l)
  <2>1. Good(M)
    BY <1>1, <1>7, <1>8, <1>10 DEF Good
  <2>2. Safe(M)
    <3>1. \A o \in InUse(G) : o \in DOMAIN G.heap
      BY DEF InUse
    <3> QED BY <1>10, <1>11, <3>1 DEF Base, Safe
  <2>3. Rooted(M, l)
    BY <1>7, <1>11 DEF Base, Rooted
  <2>4. Finalized(M)
    <3>1. ASSUME NEW o \in DOMAIN M.heap, Is(o) = "udata"
          PROVE  /\ M.heap[o].fin \/ (o \notin M.tmudata /\ ~isdead(M, o))
                 /\ M.heap[o].calls = IF M.heap[o].fin /\ o \notin M.tmudata THEN 1 ELSE 0
      <4>1. o \in DOMAIN G.heap
        BY <1>8, <3>1
      <4>2. /\ G.heap[o].fin \/ (o \notin G.tmudata /\ ~isdead(G, o))
            /\ G.heap[o].calls = IF G.heap[o].fin /\ o \notin G.tmudata THEN 1 ELSE 0
        BY <3>1, <4>1 DEF Base, Finalized
      <4>3. M.heap[o].fin = G.heap[o].fin /\ M.heap[o].calls = IF o = u THEN G.heap[o].calls + 1 ELSE G.heap[o].calls
        BY <1>9, <4>1
      <4>4. CASE o = u
        BY <1>7, <4>2, <4>3, <4>4
      <4>5. CASE o # u
        BY <1>7, <1>10, <4>1, <4>2, <4>3, <4>5
      <4> QED BY <4>4, <4>5
    <3> QED BY <3>1 DEF Finalized
  <2> QED BY <2>1, <2>2, <2>3, <2>4 DEF Base
<1>13. ASSUME Phase(G), ~Exposed(G, u) PROVE Phase(M)
  <2>1. CASE G.gcstate # "propagate"
    <3>1. Swept(G)
      BY <1>13, <2>1 DEF Phase
    <3>2. \A o \in DOMAIN M.heap \ (M.tosweep \cup M.tmudata) :
            M.heap[o].mark = M.currentwhite \/ (IsOpen(M, o) /\ M.heap[o].at[1] \in M.tosweep)
      BY <1>7, <1>8, <1>10, <3>1 DEF Swept
    <3>3. \A o \in M.tosweep : ~IsOpen(M, o)
      BY <1>7, <1>10, <3>1 DEF Swept
    <3>4. Swept(M)
      BY <1>7, <1>8, <3>1, <3>2, <3>3 DEF Swept
    <3> QED BY <1>7, <2>1, <3>4 DEF Phase
  <2>2. CASE G.gcstate = "propagate"
    <3>1. Tri(G)
      BY <1>13, <2>2 DEF Phase
    <3>2. G.currentwhite \in Whites
      BY <1>1, GlobalHas DEF Good
    <3>3. Marked(M) = Marked(G) \ {u}
      BY <1>8, <1>10, <3>2 DEF Marked
    <3>4. ASSUME NEW o \in DOMAIN M.heap \ M.tmudata, Black(M, o) PROVE Contents(M, o) \subseteq Marked(M)
      <4>1. o \in DOMAIN G.heap /\ o # u
        BY <1>8, <1>10, <3>2, <3>4 DEF Black, Whites
      <4>2. Black(G, o) /\ o \notin G.tmudata
        BY <1>7, <1>10, <3>4, <4>1 DEF Black
      <4>3. Contents(G, o) \subseteq Marked(G)
        BY <3>1, <4>1, <4>2 DEF Tri, BlackDone
      <4>4. ~IsOpen(G, o)
        BY <1>1, <4>1, <4>2, ObjectHas DEF Coloured, Black, IsOpen
      <4>5. Contents(G, o) = Without({G.heap[o].key, G.heap[o].val})
        BY <4>4 DEF Contents, ValueOf
      <4>6. u # G.heap[o].key /\ u # G.heap[o].val
        BY <1>13, <2>2, <4>1, <4>2 DEF Exposed, Slots
      <4>7. u \notin Contents(G, o)
        BY <4>5, <4>6 DEF Without
      <4> QED BY <1>10, <3>3, <4>1, <4>3, <4>7
    <3>5. NoneDead(M)
      BY <1>8, <1>10, <3>1 DEF Tri, NoneDead
    <3>6. M.gray = G.gray /\ M.grayagain = G.grayagain /\ M.weak = G.weak
      BY <1>16
    <3>7. Lists(M)
      <4>1. Is(u) \notin Listable
        BY <1>1 DEF Listable
      <4>2. \A o \in DOMAIN G.heap : o # u => M.heap[o].mark = G.heap[o].mark
        BY <1>10
      <4> QED BY <1>8, <3>1, <3>6, <4>1, <4>2 DEF Tri, Lists
    <3>8. Main \in Marked(M)
      BY <1>1, <3>1, <3>3 DEF Tri, Is
    <3>9. Tri(M)
      BY <3>4, <3>5, <3>7, <3>8 DEF Tri, BlackDone
    <3> QED BY <1>7, <2>2, <3>9 DEF Phase
  <2> QED BY <2>1, <2>2
<1>14. CASE keeps
  <2>1. H = [M EXCEPT !.heap[l] = [@ EXCEPT !["val"] = u]]
    BY <1>6, <1>14
  <2>2. l \in DOMAIN M.heap /\ Is(l) = "thread" /\ u \in InUse(M) /\ Is(u) # "upval"
    BY <1>1, <1>11 DEF Base, Rooted, InUse
  <2>3. "val" \in Slots
    BY DEF Slots
  <2>4. /\ Base(H, l) /\ InUse(H) = InUse(M) /\ H.tmudata = M.tmudata /\ H.gcstate = M.gcstate
        /\ (Phase(M) => Phase(H)) /\ DOMAIN H.heap = DOMAIN M.heap
        /\ \A o \in DOMAIN M.heap : H.heap[o].fin = M.heap[o].fin
    BY <1>12, <2>1, <2>2, <2>3, PutKeeps
  <2> QED BY <1>7, <1>8, <1>9, <1>11, <1>13, <2>4
<1>15. CASE ~keeps
  BY <1>6, <1>7, <1>8, <1>9, <1>11, <1>12, <1>13, <1>15
<1> QED BY <1>14, <1>15
(* luaF_close for the slots of a thread. *)
LEMMA CloseKeeps ==
  ASSUME NEW G, NEW l, Base(G, l), Phase(G), NEW t \in InUse(G), NEW slots, NEW H, H = luaF_close(G, t, slots)
  PROVE  /\ Base(H, l) /\ Phase(H) /\ InUse(H) = InUse(G) /\ H.tmudata = G.tmudata /\ H.gcstate = G.gcstate
         /\ DOMAIN H.heap \subseteq DOMAIN G.heap
<1> DEFINE S    == Left(G, t, slots)
           gray == GrayLeft(G, t, slots)
<1>1. Good(G) /\ G.currentwhite \in Whites
  BY GlobalHas DEF Base, Good
<1>2. /\ \A o \in S : o \in DOMAIN G.heap /\ IsOpen(G, o) /\ G.heap[o].at # <<>> /\ Is(o) = "upval" /\ G.heap[o].mark # "black"
      /\ gray = { o \in S : G.heap[o].mark = "gray" }
  BY <1>1, ValueIs, ObjectHas DEF Left, OpenAt, GrayLeft, Coloured
<1>3. CASE G.gcstate # "propagate"
  <2>1. H = Repaint(Closed(G, t, slots), gray, G.currentwhite)
    BY <1>1, <1>3, CloseIs
  <2>2. /\ Trimmed(G, H) /\ SameRest(G, H) /\ DOMAIN H.heap = DOMAIN G.heap \ DeadIn(G, S)
        /\ \A o \in DOMAIN H.heap :
             /\ H.heap[o].mark = IF o \in gray THEN G.currentwhite ELSE G.heap[o].mark
             /\ o \in S => H.heap[o].at = <<>>
             /\ o \notin S => H.heap[o].at = G.heap[o].at
    BY <1>1, <2>1, CloseTrimmed
  <2> HIDE DEF S, gray
  <2>3. Base(H, l) /\ InUse(H) = InUse(G) /\ Good(H)
    BY <2>2, TrimmedBase DEF Base
  <2>4. H.gcstate = G.gcstate /\ H.tmudata = G.tmudata /\ H.tosweep = G.tosweep /\ H.currentwhite = G.currentwhite
    BY <2>2 DEF SameRest
  <2>5. Swept(G)
    BY <1>3 DEF Phase
  <2>6. \A o \in DOMAIN H.heap : (o \in S => ~IsOpen(H, o)) /\ (o \notin S => (IsOpen(H, o) <=> IsOpen(G, o)))
    BY <1>1, <2>2, <2>3, ValueIs
  <2>7. H.tosweep \subseteq DOMAIN H.heap /\ H.tosweep \cap H.tmudata = {} /\ \A o \in H.tosweep : ~IsOpen(H, o)
    <3>1. \A o \in G.tosweep : o \in DOMAIN G.heap /\ ~IsOpen(G, o) /\ o \notin S
      BY <1>2, <2>5 DEF Swept
    <3>2. \A o \in G.tosweep : o \in DOMAIN H.heap
      BY <2>2, <3>1 DEF DeadIn
    <3> QED BY <2>4, <2>5, <2>6, <3>1, <3>2 DEF Swept
  <2>8. ASSUME NEW o \in DOMAIN H.heap \ (H.tosweep \cup H.tmudata)
        PROVE  H.heap[o].mark = H.currentwhite \/ (IsOpen(H, o) /\ H.heap[o].at[1] \in H.tosweep)
    <3>1. o \in DOMAIN G.heap
      BY <2>2
    <3>2. CASE o \in S
      <4>1. G.heap[o].mark \in Marks /\ ~isdead(G, o)
        BY <1>1, <2>2, <3>1, <3>2, ObjectHas DEF DeadIn
      <4>2. G.heap[o].mark # "gray" => G.heap[o].mark = G.currentwhite
        BY <1>1, <1>2, <3>2, <4>1 DEF isdead, OtherWhite, Whites, Marks
      <4> QED BY <1>2, <2>2, <2>4, <3>2, <4>2
    <3>3. CASE o \notin S
      <4>1. G.heap[o].mark = G.currentwhite \/ (IsOpen(G, o) /\ G.heap[o].at[1] \in G.tosweep)
        BY <2>4, <2>5, <2>8, <3>1 DEF Swept
      <4>2. o \notin gray
        BY <1>2, <3>3
      <4> QED BY <2>2, <2>4, <2>6, <3>3, <4>1, <4>2
    <3> QED BY <3>2, <3>3
  <2>9. Swept(H)
    BY <2>4, <2>5, <2>7, <2>8 DEF Swept
  <2> QED BY <1>3, <2>2, <2>3, <2>4, <2>9 DEF Phase
<1>4. CASE G.gcstate = "propagate"
  <2> DEFINE P == Repaint(Closed(G, t, slots), gray, "black")
             V == { ValueOf(G, u) : u \in gray }
  <2>1. H = markobject(P, V)
    BY <1>1, <1>4, CloseIs
  <2>2. /\ Trimmed(G, P) /\ SameRest(G, P) /\ P.gray = G.gray /\ P.grayagain = G.grayagain /\ P.weak = G.weak
        /\ DOMAIN P.heap = DOMAIN G.heap \ DeadIn(G, S)
        /\ \A o \in DOMAIN P.heap : P.heap[o].mark = IF o \in gray THEN "black" ELSE G.heap[o].mark
    BY <1>1, CloseTrimmed
  <2> HIDE DEF P, S, gray
  <2>3. Base(P, l) /\ InUse(P) = InUse(G) /\ Good(P)
    BY <2>2, TrimmedBase DEF Base
  <2>4. Tri(G)
    BY <1>4 DEF Phase
  <2>5. DOMAIN P.heap = DOMAIN G.heap /\ NoneDead(P)
    <3>1. DeadIn(G, S) = {}
      BY <1>2, <2>4 DEF Tri, NoneDead, DeadIn
    <3>2. DOMAIN P.heap = DOMAIN G.heap
      BY <2>2, <3>1
    <3> QED BY <2>2, <2>4, <3>2 DEF Trimmed, Tri, NoneDead
  <2>6. Whole(P)
    BY <2>3, <2>5, WhenPropagating
  <2>7. Marked(P) = Marked(G)
    BY <1>2, <2>2, <2>5 DEF Marked, Whites
  <2>8. \A o \in DOMAIN G.heap : Contents(P, o) = Contents(G, o)
    BY <1>1, <2>2, <2>5, TrimmedHas
  <2>9. Lists(P)
    <3>1. \A o \in DOMAIN G.heap : Is(o) \in Listable => P.heap[o].mark = G.heap[o].mark
      BY <1>2, <2>2, <2>5 DEF Listable
    <3>2. \A o \in P.gray \cup P.grayagain \cup P.weak : o \in DOMAIN P.heap /\ Is(o) \in Listable /\ P.heap[o].mark = "gray"
      BY <2>2, <2>4, <2>5, <3>1 DEF Tri, Lists
    <3>3. \A o \in DOMAIN P.heap :
            Is(o) \in Listable /\ P.heap[o].mark = "gray" => o \in P.gray \cup P.grayagain \cup P.weak
      BY <2>2, <2>4, <2>5, <3>1 DEF Tri, Lists
    <3> QED BY <2>2, <2>4, <3>2, <3>3 DEF Tri, Lists
  <2>10. BlackDoneBut(P, G.tmudata \cup gray)
    <3>1. ASSUME NEW o \in DOMAIN P.heap \ (G.tmudata \cup gray), Black(P, o) PROVE Contents(P, o) \subseteq Marked(P)
      <4>1. Black(G, o)
        BY <2>2, <3>1 DEF Black
      <4> QED BY <2>4, <2>5, <2>7, <2>8, <3>1, <4>1 DEF Tri, BlackDone
    <3> QED BY <3>1 DEF BlackDoneBut
  <2>11. V \in SUBSET (DOMAIN P.heap \cup {Nil}) /\ \A u \in gray : u \in DOMAIN G.heap /\ ValueOf(G, u) \in V
    <3>1. ASSUME NEW u \in gray PROVE u \in DOMAIN G.heap /\ ValueOf(G, u) \in DOMAIN P.heap \cup {Nil}
      <4>1. u \in DOMAIN G.heap
        BY <1>2, <3>1
      <4>2. ValueOf(P, u) \in DOMAIN P.heap \cup {Nil} /\ ValueOf(P, u) = ValueOf(G, u)
        BY <1>1, <2>2, <2>3, <2>5, <2>6, <4>1, WholeHas, TrimmedHas
      <4> QED BY <4>1, <4>2
    <3> QED BY <3>1
  <2> HIDE DEF V
  <2>12. MarkedFrom(P, H, V) /\ Good(H)
    BY <2>1, <2>3, <2>6, <2>11, MarkObject
  <2>13. /\ DOMAIN H.heap = DOMAIN P.heap /\ Marked(P) \subseteq Marked(H) /\ NoneDead(H) /\ Lists(H)
         /\ BlackDoneBut(H, G.tmudata \cup gray)
    BY <2>3, <2>5, <2>9, <2>10, <2>12, MarksKept
  <2>14. SameShape(P, H) /\ SameRest(P, H) /\ \A v \in V : v # Nil => v \in Marked(H)
    BY <2>12 DEF MarkedFrom
  <2>15. Base(H, l) /\ InUse(H) = InUse(P)
    BY <2>3, <2>5, <2>12, <2>13, <2>14, PaintedBase
  <2>16. H.gcstate = G.gcstate /\ H.tmudata = G.tmudata
    BY <2>2, <2>14 DEF SameRest
  <2>17. ASSUME NEW u \in gray PROVE Contents(H, u) \subseteq Marked(H)
    <3>1. u \in DOMAIN G.heap /\ Is(u) = "upval" /\ u \in DOMAIN P.heap
      BY <1>2, <2>5
    <3>2. Contents(H, u) = Contents(G, u)
      BY <2>3, <2>8, <2>14, <3>1, ShapeKept
    <3>3. G.heap[u].key = Nil
      BY <1>1, <3>1, ObjectHas DEF Formed, KindOf
    <3> QED BY <2>11, <2>14, <3>2, <3>3 DEF Contents, Without
  <2>18. Tri(H)
    <3>1. BlackDone(H)
      BY <2>13, <2>16, <2>17 DEF BlackDone, BlackDoneBut
    <3>2. Main \in Marked(H)
      BY <2>4, <2>7, <2>13 DEF Tri
    <3> QED BY <2>13, <3>1, <3>2 DEF Tri
  <2> QED BY <1>4, <2>3, <2>5, <2>13, <2>15, <2>16, <2>18 DEF Phase
<1> QED BY <1>3, <1>4
(* The values on the running thread's stack. *)
LEMMA StackIs ==
  ASSUME NEW G, NEW l, Base(G, l), NEW s \in Slots
  PROVE  /\ G.heap[l][s] \in InUse(G) \cup {Nil} /\ (G.heap[l][s] # Nil => Is(G.heap[l][s]) # "upval")
         /\ l \in InUse(G) /\ l \in DOMAIN G.heap /\ Is(l) = "thread" /\ ~IsOpen(G, l) /\ Good(G)
<1>1. Good(G) /\ l \in InUse(G) /\ l \in DOMAIN G.heap /\ Is(l) = "thread"
  BY DEF Base, Rooted, InUse
<1>2. ~IsOpen(G, l) /\ ValueOf(G, l) = G.heap[l].val
  BY <1>1, ValueIs
<1>3. Contents(G, l) \subseteq InUse(G)
  BY <1>1 DEF Base, Safe
<1>4. G.heap[l].kind = "thread" /\ Formed(G, l)
  BY <1>1, ObjectHas DEF KindOf
<1> QED BY <1>1, <1>2, <1>3, <1>4 DEF Contents, Without, Formed, Slots

(* The three forms of new objects. *)
LEMMA AllocPlain ==
  ASSUME NEW G, NEW l, Base(G, l), Phase(G), NEW o \in Objs \ DOMAIN G.heap,
         Is(o) \in {"table", "weak", "udata", "thread", "string"},
         NEW H, H = Alloc(G, o, NewObject(Is(o), G.currentwhite))
  PROVE  /\ Base(H, l) /\ Phase(H) /\ InUse(H) = InUse(G) \cup {o} /\ SameRest(G, H)
<1> DEFINE x == NewObject(Is(o), G.currentwhite)
<1>1. Good(G) /\ G \in Global /\ G.currentwhite \in Whites /\ Is(o) \in Kinds
  BY GlobalHas DEF Base, Good, Kinds
<1>2. /\ x \in Object /\ x.kind = Is(o) /\ x.mark = G.currentwhite /\ x.key = Nil /\ x.val = Nil
      /\ x.mode = {} /\ x.at = <<>> /\ x.fin = FALSE /\ x.calls = 0
  BY ONLY <1>1 DEF NewObject, Object, Whites, Marks
<1> HIDE DEF x
<1>3. Fresh(G, o, x)
  BY <1>2 DEF Fresh
<1>4. H = Alloc(G, o, x)
  BY DEF x
<1>5. H.heap[o] = x
  BY <1>1, <1>3, <1>4, AllocIs
<1>6. Formed(H, o)
  BY <1>2, <1>5 DEF Formed
<1>7. Coloured(x)
  BY <1>1, <1>2 DEF Coloured, Whites
<1>8. Contents(H, o) \subseteq InUse(G)
  BY <1>2, <1>5 DEF Contents, Without, ValueOf, IsOpen
<1> QED BY <1>3, <1>4, <1>6, <1>7, <1>8, AllocBase

LEMMA AllocClosure ==
  ASSUME NEW G, NEW l, Base(G, l), Phase(G), NEW o \in Objs \ DOMAIN G.heap, Is(o) = "closure",
         NEW u \in InUse(G), Is(u) = "upval",
         NEW H, H = Alloc(G, o, [NewObject("closure", G.currentwhite) EXCEPT !.val = u])
  PROVE  /\ Base(H, l) /\ Phase(H) /\ InUse(H) = InUse(G) \cup {o} /\ SameRest(G, H)
<1> DEFINE n == NewObject("closure", G.currentwhite)
           x == [n EXCEPT !.val = u]
<1>1. Good(G) /\ G \in Global /\ G.currentwhite \in Whites /\ "closure" \in Kinds /\ u \in Addr /\ u # Nil
  BY ObjectHas, GlobalHas DEF Base, Good, Kinds, InUse
<1>2. /\ n \in Object /\ n.kind = "closure" /\ n.mark = G.currentwhite /\ n.key = Nil /\ n.val = Nil
      /\ n.mode = {} /\ n.at = <<>> /\ n.fin = FALSE /\ n.calls = 0
  BY ONLY <1>1 DEF NewObject, Object, Whites, Marks
<1> HIDE DEF n
<1>3. /\ x \in Object /\ x.kind = "closure" /\ x.mark = G.currentwhite /\ x.key = Nil /\ x.val = u
      /\ x.mode = {} /\ x.at = <<>> /\ x.fin = FALSE /\ x.calls = 0
  BY <1>1, <1>2 DEF Object
<1>4. H = Alloc(G, o, x)
  BY DEF n
<1> HIDE DEF x
<1>5. Fresh(G, o, x)
  BY <1>3 DEF Fresh
<1>6. H.heap[o] = x
  BY <1>1, <1>4, <1>5, AllocIs
<1>7. Formed(H, o)
  BY <1>1, <1>3, <1>6 DEF Formed
<1>8. Coloured(x)
  BY <1>1, <1>3 DEF Coloured, Whites
<1>9. Contents(H, o) \subseteq InUse(G)
  BY <1>3, <1>6 DEF Contents, Without, ValueOf, IsOpen, KindOf
<1>10. Base(G, l) /\ Phase(G)
  OBVIOUS
<1>11. Allocated(G, H, l, o)
  BY ONLY <1>4, <1>5, <1>7, <1>8, <1>9, <1>10, AllocDone
<1> QED BY <1>11 DEF Allocated

LEMMA AllocUpval ==
  ASSUME NEW G, NEW l, Base(G, l), Phase(G), NEW o \in Objs \ DOMAIN G.heap, Is(o) = "upval", NEW s \in Slots,
         NEW H, H = Alloc(G, o, [NewObject("upval", G.currentwhite) EXCEPT !.at = <<l, s>>])
  PROVE  /\ Base(H, l) /\ Phase(H) /\ InUse(H) = InUse(G) \cup {o} /\ SameRest(G, H)
<1> DEFINE n == NewObject("upval", G.currentwhite)
           x == [n EXCEPT !.at = <<l, s>>]
<1>1. Good(G) /\ G \in Global /\ G.currentwhite \in Whites /\ "upval" \in Kinds
  BY GlobalHas DEF Base, Good, Kinds
<1>2. /\ G.heap[l][s] \in InUse(G) \cup {Nil} /\ l \in DOMAIN G.heap /\ Is(l) = "thread" /\ l \in Addr
  BY <1>1, StackIs, ObjectHas
<1>3. /\ n \in Object /\ n.kind = "upval" /\ n.mark = G.currentwhite /\ n.key = Nil /\ n.val = Nil
      /\ n.mode = {} /\ n.at = <<>> /\ n.fin = FALSE /\ n.calls = 0
  BY ONLY <1>1 DEF NewObject, Object, Whites, Marks
<1> HIDE DEF n
<1>4. /\ x \in Object /\ x.kind = "upval" /\ x.mark = G.currentwhite /\ x.key = Nil /\ x.val = Nil
      /\ x.mode = {} /\ x.at = <<l, s>> /\ x.fin = FALSE /\ x.calls = 0
  BY <1>1, <1>2, <1>3 DEF Object
<1>5. H = Alloc(G, o, x)
  BY DEF n
<1> HIDE DEF x
<1>6. Fresh(G, o, x)
  BY <1>4 DEF Fresh
<1>7. H.heap[o] = x /\ H.heap[l] = G.heap[l] /\ DOMAIN H.heap = DOMAIN G.heap \cup {o}
  <2>1. H.heap[o] = x /\ DOMAIN H.heap = DOMAIN G.heap \cup {o} /\ \A p \in DOMAIN G.heap : H.heap[p] = G.heap[p]
    BY ONLY <1>1, <1>5, <1>6, AllocIs
  <2> QED BY <1>2, <2>1
<1>8. <<l, s>> # <<>> /\ <<l, s>>[1] = l /\ <<l, s>>[2] = s
  OBVIOUS
<1>9. Formed(H, o)
  BY <1>2, <1>4, <1>7, <1>8 DEF Formed
<1>10. Coloured(x)
  BY <1>1, <1>4 DEF Coloured, Whites
<1>11. Contents(H, o) \subseteq InUse(G)
  <2>1. ValueOf(H, o) = G.heap[l][s]
    BY <1>4, <1>7, <1>8 DEF ValueOf, IsOpen, KindOf
  <2> QED BY <1>2, <1>4, <1>7, <2>1 DEF Contents, Without
<1> QED BY ONLY <1>5, <1>6, <1>9, <1>10, <1>11, AllocBase, Base(G, l), Phase(G)
-----------------------------------------------------------------------------
(* The program's actions.                                                  *)

Kept(G, H, l) == Base(H, l) /\ Phase(H) /\ InUse(G) \subseteq InUse(H) /\ H.tmudata = G.tmudata

Running == family \in Families /\ Base(g, L) /\ Phase(g)

LEMMA HeldIs ==
  ASSUME Base(g, L), NEW v \in Held
  PROVE  v \in InUse(g) /\ v \in DOMAIN g.heap /\ v # Nil /\ Is(v) # "upval" /\ KindOf(g, v) = Is(v) /\ v \in Addr
         /\ Good(g) /\ Contents(g, v) \subseteq InUse(g)
<1>1. \A s \in Slots : g.heap[L][s] \in InUse(g) \cup {Nil} /\ (g.heap[L][s] # Nil => Is(g.heap[L][s]) # "upval")
  BY StackIs
<1>2. v \in InUse(g) /\ Is(v) # "upval" /\ v # Nil
  BY <1>1 DEF Held, Without
<1>3. v \in DOMAIN g.heap /\ Good(g)
  BY <1>2 DEF InUse, Base
<1>4. KindOf(g, v) = Is(v) /\ v \in Addr
  BY <1>3, ObjectHas
<1>5. Contents(g, v) \subseteq InUse(g)
  BY <1>2 DEF Base, Safe
<1> QED BY <1>2, <1>3, <1>4, <1>5

LEMMA FreeIs ==
  ASSUME family \in Families, NEW k, Free(k) # {}
  PROVE  OneOf(Free(k)) \in Objs \ DOMAIN g.heap /\ Is(OneOf(Free(k))) = k
<1>1. OneOf(Free(k)) \in Free(k)
  BY DEF OneOf
<1>2. Main \notin Objs
  BY LuaGCAssumption
<1> QED BY <1>1, <1>2 DEF Free, Is

(* A value put on the stack of the running thread, in a state that is kept.*)
LEMMA PutOnStack ==
  ASSUME NEW G, NEW H, NEW l, Kept(G, H, l), NEW s \in Slots, NEW v \in InUse(H) \cup {Nil},
         v # Nil => Is(v) # "upval",
         NEW K, K = [H EXCEPT !.heap[l] = [@ EXCEPT ![s] = v]]
  PROVE  Kept(G, K, l)
<1>1. Base(H, l) /\ Phase(H) /\ l \in DOMAIN H.heap /\ Is(l) = "thread"
  BY DEF Kept, Base, Rooted, InUse
<1>2. /\ Base(K, l) /\ InUse(K) = InUse(H) /\ K.tmudata = H.tmudata /\ (Phase(H) => Phase(K))
  BY <1>1, PutKeeps
<1> QED BY <1>1, <1>2 DEF Kept

LEMMA KeptSelf ==
  ASSUME NEW G, NEW l, Base(G, l), Phase(G)
  PROVE  Kept(G, G, l)
  BY DEF Kept

LEMMA NewKeeps ==
  ASSUME Running, New
  PROVE  Kept(g, g', L) /\ L' = L
<1>1. PICK k \in {"table", "weak", "udata", "thread"}, s \in Slots :
        /\ Free(k) # {}
        /\ Program(Put(Alloc(g, OneOf(Free(k)), NewObject(k, g.currentwhite)), s, OneOf(Free(k))))
  BY DEF New
<1> DEFINE o == OneOf(Free(k))
           H == Alloc(g, o, NewObject(k, g.currentwhite))
<1>2. o \in Objs \ DOMAIN g.heap /\ Is(o) = k
  BY <1>1, FreeIs DEF Running
<1>3. g' = [H EXCEPT !.heap[L] = [@ EXCEPT ![s] = o]] /\ L' = L
  BY <1>1 DEF Program, Put
<1>4. H = Alloc(g, o, NewObject(Is(o), g.currentwhite))
  BY <1>2
<1> HIDE DEF o, H
<1>5. Base(H, L) /\ Phase(H) /\ InUse(H) = InUse(g) \cup {o} /\ SameRest(g, H)
  BY <1>1, <1>2, <1>4, AllocPlain DEF Running
<1>6. Kept(g, H, L) /\ o \in InUse(H)
  BY <1>5 DEF Kept, SameRest
<1> QED BY <1>1, <1>2, <1>3, <1>6, PutOnStack

LEMMA NewStringKeeps ==
  ASSUME Running, NewString
  PROVE  Kept(g, g', L) /\ L' = L
<1> DEFINE H(o) == IF o \notin DOMAIN g.heap THEN Alloc(g, o, NewObject("string", g.currentwhite))
                   ELSE IF isdead(g, o) THEN makewhite(g, {o}) ELSE g
<1>1. PICK s \in Slots, o \in { p \in Objs : family[p] = "string" } : Program(Put(H(o), s, o))
  BY DEF NewString
<1>2. o \in Objs /\ Is(o) = "string"
  BY <1>1, LuaGCAssumption DEF Is
<1>3. g' = [H(o) EXCEPT !.heap[L] = [@ EXCEPT ![s] = o]] /\ L' = L
  BY <1>1 DEF Program, Put
<1>4. Base(g, L) /\ Phase(g) /\ Good(g)
  BY DEF Running, Base
<1>5. Kept(g, H(o), L) /\ o \in InUse(H(o))
  <2>1. CASE o \notin DOMAIN g.heap
    <3> DEFINE K == Alloc(g, o, NewObject(Is(o), g.currentwhite))
    <3>1. H(o) = K
      BY <1>2, <2>1
    <3> HIDE DEF K, H
    <3>2. Base(K, L) /\ Phase(K) /\ InUse(K) = InUse(g) \cup {o} /\ SameRest(g, K)
      BY <1>2, <1>4, <2>1, AllocPlain DEF K
    <3> QED BY <3>1, <3>2 DEF Kept, SameRest
  <2>2. CASE o \in DOMAIN g.heap /\ isdead(g, o)
    <3> DEFINE K == makewhite(g, {o})
    <3>1. H(o) = K
      BY <2>2
    <3>2. Contents(g, o) = {}
      <4>1. g.heap[o].key = Nil /\ g.heap[o].val = Nil /\ ~IsOpen(g, o)
        BY <1>2, <1>4, <2>2, ObjectHas, ValueIs DEF Formed, KindOf
      <4> QED BY <4>1 DEF Contents, Without, ValueOf
    <3> HIDE DEF K, H
    <3>3. Base(K, L) /\ Phase(K) /\ InUse(K) = InUse(g) \cup {o} /\ SameRest(g, K)
      BY <1>2, <1>4, <2>2, <3>2, Revived DEF K
    <3> QED BY <3>1, <3>3 DEF Kept, SameRest
  <2>3. CASE o \in DOMAIN g.heap /\ ~isdead(g, o)
    BY <1>4, <2>3 DEF Kept, InUse
  <2> QED BY <2>1, <2>2, <2>3
<1> HIDE DEF H
<1> QED BY <1>1, <1>2, <1>3, <1>5, PutOnStack

LEMMA PutClosureKeeps ==
  ASSUME Running, NEW G, Kept(g, G, L), \A o \in DOMAIN G.heap \ DOMAIN g.heap : Is(o) = "upval",
         NEW s \in Slots, NEW u \in InUse(G), Is(u) = "upval", PutClosure(G, s, u)
  PROVE  Kept(g, g', L) /\ L' = L
<1> DEFINE o == OneOf(Free("closure"))
           H == Alloc(G, o, [NewObject("closure", G.currentwhite) EXCEPT !.val = u])
<1>1. o \in Objs \ DOMAIN g.heap /\ Is(o) = "closure"
  BY FreeIs DEF PutClosure, Running
<1>2. g' = [H EXCEPT !.heap[L] = [@ EXCEPT ![s] = o]] /\ L' = L
  BY DEF PutClosure, Program, Put
<1> HIDE DEF o
<1>3. o \in Objs \ DOMAIN G.heap /\ Base(G, L) /\ Phase(G)
  BY <1>1 DEF Kept
<1>4. Base(H, L) /\ Phase(H) /\ InUse(H) = InUse(G) \cup {o} /\ SameRest(G, H)
  BY <1>1, <1>3, AllocClosure
<1> HIDE DEF H
<1>5. Kept(g, H, L) /\ o \in InUse(H)
  BY <1>4 DEF Kept, SameRest
<1> QED BY <1>1, <1>2, <1>5, PutOnStack

LEMMA NewClosureKeeps ==
  ASSUME Running, NewClosure
  PROVE  Kept(g, g', L) /\ L' = L
<1>1. PICK s \in Slots, v \in Slots :
        LET open == { u \in OpenAt(g, L) : g.heap[u].at[2] = v }
        IN \/ \E u \in open : PutClosure(luaF_findupval(g, u), s, u)
           \/ /\ open = {} /\ Free("upval") # {}
              /\ LET u == OneOf(Free("upval"))
                 IN PutClosure(Alloc(g, u, [NewObject("upval", g.currentwhite) EXCEPT !.at = <<L, v>>]), s, u)
  BY DEF NewClosure
<1>2. Base(g, L) /\ Phase(g) /\ Good(g)
  BY DEF Running, Base
<1>3. CASE \E u \in OpenAt(g, L) : g.heap[u].at[2] = v /\ PutClosure(luaF_findupval(g, u), s, u)
  <2>1. PICK u \in OpenAt(g, L) : g.heap[u].at[2] = v /\ PutClosure(luaF_findupval(g, u), s, u)
    BY <1>3
  <2> DEFINE G == luaF_findupval(g, u)
  <2>2. u \in DOMAIN g.heap /\ IsOpen(g, u) /\ g.heap[u].at[1] = L /\ Is(u) = "upval"
        /\ ValueOf(g, u) = g.heap[L][v]
    BY <1>2, <2>1, ValueIs DEF OpenAt
  <2>3. Contents(g, u) \subseteq InUse(g)
    <3>1. g.heap[u].key = Nil
      BY <1>2, <2>2, ObjectHas DEF Formed, KindOf
    <3>2. g.heap[L][v] \in InUse(g) \cup {Nil}
      BY <1>2, StackIs
    <3> QED BY <2>2, <3>1, <3>2 DEF Contents, Without
  <2>4. Kept(g, G, L) /\ u \in InUse(G) /\ DOMAIN G.heap = DOMAIN g.heap
    <3>1. CASE isdead(g, u)
      <4>1. G = makewhite(g, {u})
        BY <3>1 DEF luaF_findupval
      <4> HIDE DEF G
      <4>2. Base(G, L) /\ Phase(G) /\ InUse(G) = InUse(g) \cup {u} /\ SameShape(g, G) /\ SameRest(g, G)
        BY <1>2, <2>2, <2>3, <3>1, <4>1, Revived
      <4> QED BY <4>2 DEF Kept, SameRest, SameShape
    <3>2. CASE ~isdead(g, u)
      BY <1>2, <2>2, <3>2 DEF luaF_findupval, Kept, InUse
    <3> QED BY <3>1, <3>2
  <2> HIDE DEF G
  <2>5. PutClosure(G, s, u)
    BY <2>1 DEF G
  <2> QED BY <2>2, <2>4, <2>5, PutClosureKeeps
<1>4. CASE Free("upval") # {} /\ LET u == OneOf(Free("upval"))
                                 IN PutClosure(Alloc(g, u, [NewObject("upval", g.currentwhite) EXCEPT !.at = <<L, v>>]), s, u)
  <2> DEFINE u == OneOf(Free("upval"))
             G == Alloc(g, u, [NewObject("upval", g.currentwhite) EXCEPT !.at = <<L, v>>])
  <2>1. u \in Objs \ DOMAIN g.heap /\ Is(u) = "upval"
    BY <1>4, FreeIs DEF Running
  <2>2. PutClosure(G, s, u)
    BY <1>4
  <2> HIDE DEF u
  <2>3. Base(G, L) /\ Phase(G) /\ InUse(G) = InUse(g) \cup {u} /\ SameRest(g, G)
    BY <1>2, <2>1, AllocUpval
  <2>4. DOMAIN G.heap = DOMAIN g.heap \cup {u}
    BY DEF Alloc
  <2> HIDE DEF G
  <2>5. Kept(g, G, L) /\ u \in InUse(G)
    BY <2>3 DEF Kept, SameRest
  <2> QED BY <2>1, <2>2, <2>4, <2>5, PutClosureKeeps
<1> QED BY <1>1, <1>3, <1>4
LEMMA ShareUpvalKeeps ==
  ASSUME Running, ShareUpval
  PROVE  Kept(g, g', L) /\ L' = L
<1>1. PICK s \in Slots, d \in Held : KindOf(g, d) = "closure" /\ PutClosure(g, s, g.heap[d].val)
  BY DEF ShareUpval
<1>2. Base(g, L) /\ Phase(g)
  BY DEF Running
<1>3. d \in DOMAIN g.heap /\ Is(d) = "closure" /\ Good(g) /\ Contents(g, d) \subseteq InUse(g)
  BY <1>1, <1>2, HeldIs
<1>4. g.heap[d].val # Nil /\ Is(g.heap[d].val) = "upval" /\ ValueOf(g, d) = g.heap[d].val
  <2>1. Formed(g, d) /\ ~IsOpen(g, d)
    BY <1>3, ObjectHas, ValueIs
  <2> QED BY <1>1, <2>1 DEF Formed, ValueOf, KindOf
<1>5. g.heap[d].val \in InUse(g)
  BY <1>3, <1>4 DEF Contents, Without
<1>6. Kept(g, g, L)
  BY <1>2, KeptSelf
<1> QED BY <1>1, <1>4, <1>5, <1>6, PutClosureKeeps

LEMMA MoveKeeps ==
  ASSUME Running, Move
  PROVE  Kept(g, g', L) /\ L' = L
<1>1. PICK s \in Slots, r \in Slots : Program(Put(g, s, g.heap[L][r]))
  BY DEF Move
<1>2. Base(g, L) /\ Phase(g) /\ Kept(g, g, L)
  BY KeptSelf DEF Running
<1>3. g.heap[L][r] \in InUse(g) \cup {Nil} /\ (g.heap[L][r] # Nil => Is(g.heap[L][r]) # "upval")
  BY <1>2, StackIs
<1>4. g' = [g EXCEPT !.heap[L] = [@ EXCEPT ![s] = g.heap[L][r]]] /\ L' = L
  BY <1>1 DEF Program, Put
<1> QED BY <1>2, <1>3, <1>4, PutOnStack

LEMMA GetKeeps ==
  ASSUME Running, Get
  PROVE  Kept(g, g', L) /\ L' = L
<1>1. PICK s \in Slots, o \in Held : \E v \in Without(Entry(o)) : Program(Put(g, s, v))
  BY DEF Get
<1>2. PICK v \in Without(Entry(o)) : Program(Put(g, s, v))
  BY <1>1
<1>3. Base(g, L) /\ Phase(g) /\ Kept(g, g, L) /\ Good(g)
  BY KeptSelf DEF Running, Base
<1>4. o \in DOMAIN g.heap /\ KindOf(g, o) = Is(o) /\ Contents(g, o) \subseteq InUse(g) /\ Formed(g, o)
  BY <1>3, HeldIs, ObjectHas
<1>5. v # Nil /\ v \in Entry(o)
  BY DEF Without
<1>6. v \in InUse(g) /\ Is(v) # "upval"
  <2>1. CASE g.heap[o].kind = "closure"
    <3> DEFINE u == g.heap[o].val
    <3>1. u # Nil /\ Is(u) = "upval" /\ v = ValueOf(g, u) /\ ~IsOpen(g, o)
      BY <1>4, <1>5, <2>1 DEF Entry, Formed, IsOpen, KindOf
    <3>2. u \in InUse(g)
      BY <1>4, <3>1 DEF Contents, Without, ValueOf
    <3>3. u \in DOMAIN g.heap /\ Contents(g, u) \subseteq InUse(g)
      BY <1>3, <3>2 DEF InUse, Base, Safe
    <3>4. v \in InUse(g)
      BY <1>5, <3>1, <3>3 DEF Contents, Without
    <3>5. Is(v) # "upval"
      <4>1. CASE IsOpen(g, u)
        <5>1. g.heap[u].at[1] \in DOMAIN g.heap /\ g.heap[u].at[2] \in Slots /\ Is(g.heap[u].at[1]) = "thread"
              /\ v = g.heap[g.heap[u].at[1]][g.heap[u].at[2]]
          BY <1>3, <3>1, <3>3, <4>1, ValueIs
        <5>2. Formed(g, g.heap[u].at[1]) /\ g.heap[g.heap[u].at[1]].kind = "thread"
          BY <1>3, <5>1, ObjectHas DEF KindOf
        <5> QED BY <1>5, <5>1, <5>2 DEF Formed, Slots
      <4>2. CASE ~IsOpen(g, u)
        <5>1. v = g.heap[u].val /\ Formed(g, u) /\ g.heap[u].kind = "upval"
          BY <1>3, <3>1, <3>3, <4>2, ObjectHas, ValueIs DEF KindOf
        <5> QED BY <1>5, <5>1 DEF Formed
      <4> QED BY <4>1, <4>2
    <3> QED BY <3>4, <3>5
  <2>2. CASE g.heap[o].kind \in {"udata", "table", "weak"}
    <3>1. v \in {g.heap[o].key, g.heap[o].val}
      BY <1>5, <2>2 DEF Entry
    <3>2. ~IsOpen(g, o)
      BY <2>2 DEF IsOpen, KindOf
    <3>3. v \in Contents(g, o)
      BY <1>5, <3>1, <3>2 DEF Contents, Without, ValueOf
    <3> QED BY <1>4, <1>5, <2>2, <3>1, <3>3 DEF Formed
  <2>3. CASE g.heap[o].kind \notin {"closure", "udata", "table", "weak"}
    <3>1. Entry(o) = {}
      BY <2>3 DEF Entry
    <3> QED BY <1>5, <3>1
  <2> QED BY <2>1, <2>2, <2>3
<1>7. g' = [g EXCEPT !.heap[L] = [@ EXCEPT ![s] = v]] /\ L' = L
  BY <1>2 DEF Program, Put
<1> QED BY <1>3, <1>6, <1>7, PutOnStack

LEMMA SetTableKeeps ==
  ASSUME Running, SetTable
  PROVE  Kept(g, g', L) /\ L' = L
<1>1. PICK t \in Held, v \in Held \cup {Nil}, k \in Held \cup {Nil} :
        /\ KindOf(g, t) \in {"table", "weak"}
        /\ (KindOf(g, t) = "table" \/ v = Nil) => k = Nil
        /\ Program(luaC_barriert([g EXCEPT !.heap[t] = [@ EXCEPT !.key = k, !.val = v]], t, {k, v}))
  BY DEF SetTable
<1> DEFINE x == [g.heap[t] EXCEPT !.key = k, !.val = v]
           H == [g EXCEPT !.heap[t] = x]
<1>2. Base(g, L) /\ Phase(g) /\ Good(g) /\ g \in Global
  BY DEF Running, Base, Good
<1>3. t \in DOMAIN g.heap /\ t \in InUse(g) /\ Is(t) \in {"table", "weak"} /\ KindOf(g, t) = Is(t)
  BY <1>1, <1>2, HeldIs
<1>4. k \in InUse(g) \cup {Nil} /\ v \in InUse(g) \cup {Nil} /\ k \in Addr \cup {Nil} /\ v \in Addr \cup {Nil}
      /\ (k # Nil => Is(k) # "upval") /\ (v # Nil => Is(v) # "upval")
  BY <1>2, HeldIs
<1>5. g' = luaC_barriert(H, t, {k, v}) /\ L' = L
  BY <1>1 DEF Program
<1>6. Stored(g, H, t, k, v)
  <2>1. x = [g.heap[t] EXCEPT !.key = k, !.val = v] /\ H = [g EXCEPT !.heap[t] = x]
    OBVIOUS
  <2> QED BY ONLY <1>2, <1>3, <1>4, <2>1, StoreIs
<1> HIDE DEF H
<1>7. Written(g, H, t, k, v) /\ H.heap[t].mode = g.heap[t].mode
  BY <1>6 DEF Stored
<1>8. Formed(H, t)
  <2>1. Formed(g, t)
    BY <1>2, <1>3, ObjectHas
  <2>2. H.heap[t].key = k /\ H.heap[t].val = v /\ H.heap[t].kind = g.heap[t].kind /\ H.heap[t].at = g.heap[t].at
        /\ DOMAIN H.heap = DOMAIN g.heap
    BY <1>7 DEF Written
  <2> QED BY <1>1, <1>3, <1>4, <1>7, <2>1, <2>2 DEF Formed, KindOf
<1>10. Base(H, L) /\ InUse(H) = InUse(g) /\ H.tmudata = g.tmudata
  BY <1>2, <1>3, <1>4, <1>7, <1>8, WrittenBase
<1>11. PhaseBut(H, t)
  <2>1. Good(H)
    BY <1>10 DEF Base
  <2> QED BY <1>2, <1>3, <1>7, <2>1, WrittenPhase
<1>12. Contents(H, t) \subseteq {k, v}
  <2>1. ~IsOpen(H, t)
    BY <1>3, <1>7 DEF IsOpen, KindOf, Written
  <2> QED BY <1>7, <2>1 DEF Contents, Without, ValueOf, Written
<1>13. {k, v} \in SUBSET (InUse(H) \cup {Nil}) /\ t \in InUse(H)
  BY <1>3, <1>4, <1>10
<1>14. Base(g', L) /\ Phase(g') /\ InUse(g') = InUse(H) /\ SameRest(H, g')
  BY <1>3, <1>5, <1>10, <1>11, <1>12, <1>13, BarrierT
<1> QED BY <1>5, <1>10, <1>14 DEF Kept, SameRest

(* A value written into the place "val" of a userdata or a closed upvalue. *)
LEMMA WrittenWithBarrier ==
  ASSUME Running, NEW o \in InUse(g), Is(o) \in {"udata", "upval"}, ~IsOpen(g, o),
         NEW v \in InUse(g) \cup {Nil}, v # Nil => Is(v) # "upval",
         Is(o) = "udata" => v = Nil \/ Is(v) \in {"table", "weak"},
         g' = luaC_barrier([g EXCEPT !.heap[o].val = v], o, v)
  PROVE  Kept(g, g', L)
<1> DEFINE H == [g EXCEPT !.heap[o].val = v]
<1>1. Base(g, L) /\ Phase(g) /\ Good(g) /\ o \in DOMAIN g.heap /\ InUse(g) \subseteq DOMAIN g.heap
  BY DEF Running, Base, InUse
<1>2. v \in Addr \cup {Nil} /\ g.heap[o].key = Nil /\ Formed(g, o) /\ g.heap[o].kind = Is(o) /\ g.heap[o].at = <<>>
  BY <1>1, ObjectHas, ValueIs DEF Formed, KindOf
<1>3. H = [g EXCEPT !.heap[o] = [@ EXCEPT !["val"] = v]]
  OBVIOUS
<1>4. g' = luaC_barrier(H, o, v)
  OBVIOUS
<1> HIDE DEF H
<1>5. Stored(g, H, o, Nil, v)
  <2>1. "val" \in Slots /\ (IF "val" = "key" THEN v ELSE g.heap[o].key) = Nil /\ (IF "val" = "val" THEN v ELSE g.heap[o].val) = v
    BY <1>2 DEF Slots
  <2>2. Stored(g, H, o, IF "val" = "key" THEN v ELSE g.heap[o].key, IF "val" = "val" THEN v ELSE g.heap[o].val)
    BY ONLY <1>1, <1>2, <1>3, <2>1, StoreOne
  <2> QED BY <2>1, <2>2
<1>6. Written(g, H, o, Nil, v) /\ H.heap[o].mode = g.heap[o].mode
  BY <1>5 DEF Stored
<1>7. H.heap[o].key = Nil /\ H.heap[o].val = v /\ H.heap[o].kind = g.heap[o].kind /\ H.heap[o].at = <<>>
      /\ DOMAIN H.heap = DOMAIN g.heap
  BY <1>2, <1>6 DEF Written
<1>8. Formed(H, o)
  BY <1>2, <1>6, <1>7 DEF Formed
<1>10. Base(H, L) /\ InUse(H) = InUse(g) /\ H.tmudata = g.tmudata
  BY <1>1, <1>6, <1>8, WrittenBase
<1>11. PhaseBut(H, o)
  <2>1. Good(H)
    BY <1>10 DEF Base
  <2> QED BY <1>1, <1>6, <2>1, WrittenPhase
<1>12. ~IsOpen(H, o) /\ Contents(H, o) \subseteq {v}
  BY <1>7 DEF Contents, Without, ValueOf, IsOpen
<1>13. Is(o) # "thread" /\ o \in InUse(H) /\ v \in InUse(H) \cup {Nil}
  BY <1>10
<1>14. Base(g', L) /\ Phase(g') /\ InUse(g') = InUse(H) /\ SameRest(H, g')
  BY <1>4, <1>10, <1>11, <1>12, <1>13, Barrier
<1> QED BY <1>10, <1>14 DEF Kept, SameRest

LEMMA SetEnvKeeps ==
  ASSUME Running, SetEnv
  PROVE  Kept(g, g', L) /\ L' = L
<1>1. PICK u \in Held, t \in Held :
        /\ KindOf(g, u) = "udata" /\ KindOf(g, t) \in {"table", "weak"}
        /\ Program(luaC_barrier([g EXCEPT !.heap[u].val = t], u, t))
  BY DEF SetEnv
<1>2. Base(g, L)
  BY DEF Running
<1>3. u \in InUse(g) /\ Is(u) = "udata" /\ t \in InUse(g) /\ Is(t) \in {"table", "weak"}
  BY <1>1, <1>2, HeldIs
<1>4. ~IsOpen(g, u)
  BY <1>1 DEF IsOpen
<1>5. g' = luaC_barrier([g EXCEPT !.heap[u].val = t], u, t) /\ L' = L
  BY <1>1 DEF Program
<1> QED BY <1>3, <1>4, <1>5, WrittenWithBarrier

LEMMA SetUpvalKeeps ==
  ASSUME Running, SetUpval
  PROVE  Kept(g, g', L) /\ L' = L
<1> DEFINE u(c)    == g.heap[c].val
           H(c, v) == IF IsOpen(g, u(c)) THEN [g EXCEPT !.heap[g.heap[u(c)].at[1]] = [@ EXCEPT ![g.heap[u(c)].at[2]] = v]]
                      ELSE [g EXCEPT !.heap[u(c)].val = v]
<1>1. PICK c \in Held, v \in Held \cup {Nil} : KindOf(g, c) = "closure" /\ Program(luaC_barrier(H(c, v), u(c), v))
  BY DEF SetUpval
<1>2. Base(g, L) /\ Phase(g) /\ Good(g)
  BY DEF Running, Base
<1>3. c \in DOMAIN g.heap /\ Is(c) = "closure" /\ KindOf(g, c) = "closure" /\ Contents(g, c) \subseteq InUse(g)
  BY <1>1, <1>2, HeldIs
<1>4. v \in InUse(g) \cup {Nil} /\ (v # Nil => Is(v) # "upval")
  BY <1>2, HeldIs
<1>5. u(c) \in InUse(g) /\ Is(u(c)) = "upval"
  <2>1. Formed(g, c) /\ ~IsOpen(g, c)
    BY <1>2, <1>3, ObjectHas, ValueIs
  <2>2. g.heap[c].val # Nil /\ Is(g.heap[c].val) = "upval"
    BY <1>3, <2>1 DEF Formed, KindOf
  <2> QED BY <1>3, <2>1, <2>2 DEF Contents, Without, ValueOf
<1>6. g' = luaC_barrier(H(c, v), u(c), v) /\ L' = L
  BY <1>1 DEF Program
<1>7. CASE ~IsOpen(g, u(c))
  <2>1. g' = luaC_barrier([g EXCEPT !.heap[u(c)].val = v], u(c), v)
    BY <1>6, <1>7
  <2> HIDE DEF u
  <2> QED BY <1>4, <1>5, <1>6, <1>7, <2>1, WrittenWithBarrier
<1>8. CASE IsOpen(g, u(c))
  <2> DEFINE t == g.heap[u(c)].at[1]
             s == g.heap[u(c)].at[2]
             K == [g EXCEPT !.heap[t] = [@ EXCEPT ![s] = v]]
  <2>1. g' = luaC_barrier(K, u(c), v)
    BY <1>6, <1>8
  <2> HIDE DEF u
  <2>2. u(c) \in DOMAIN g.heap /\ g.heap[u(c)].at # <<>> /\ KindOf(g, u(c)) = "upval"
    BY <1>2, <1>5, <1>8, ObjectHas, ValueIs DEF InUse
  <2>3. t \in DOMAIN g.heap /\ s \in Slots /\ Is(t) = "thread"
    BY <1>2, <1>8, <2>2, ValueIs
  <2> HIDE DEF t, s
  <2>4. /\ Base(K, L) /\ InUse(K) = InUse(g) /\ K.tmudata = g.tmudata /\ Phase(K)
        /\ DOMAIN K.heap = DOMAIN g.heap
    BY <1>2, <1>4, <2>3, PutKeeps
  <2>5. ~Black(K, u(c))
    <3>1. K.heap[u(c)].mark = g.heap[u(c)].mark
      <4>1. K.heap = [g.heap EXCEPT ![t] = [g.heap[t] EXCEPT ![s] = v]]
        BY <1>2 DEF Good, Global
      <4>2. u(c) # t
        BY <1>5, <2>3
      <4> QED BY <2>2, <4>1, <4>2
    <3>2. g.heap[u(c)].mark # "black"
      BY <1>2, <2>2, ObjectHas DEF Coloured
    <3> QED BY <3>1, <3>2 DEF Black
  <2>6. g' = K
    BY <2>1, <2>5 DEF luaC_barrier
  <2> QED BY <1>6, <2>4, <2>6 DEF Kept
<1> QED BY <1>7, <1>8
LEMMA SetModeKeeps ==
  ASSUME Running, SetMode
  PROVE  Kept(g, g', L) /\ L' = L
<1>1. PICK t \in Held, m \in {{}, {"key"}, {"val"}, {"key", "val"}} :
        KindOf(g, t) = "weak" /\ Program([g EXCEPT !.heap[t].mode = m])
  BY DEF SetMode
<1> DEFINE x == [g.heap[t] EXCEPT !.mode = m]
           h == [g.heap EXCEPT ![t] = x]
           D == DOMAIN g.heap
<1>2. Base(g, L) /\ Phase(g) /\ Good(g) /\ g \in Global
  BY DEF Running, Base, Good
<1>3. t \in D /\ Is(t) = "weak" /\ g.heap[t].kind = "weak"
  BY <1>1, <1>2, HeldIs DEF KindOf
<1>4. g' = [g EXCEPT !.heap = h] /\ L' = L
  BY <1>1 DEF Program
<1>5. D \in SUBSET Addr /\ g.heap \in [D -> Object] /\ g.heap[t] \in Object
  BY <1>2, <1>3, GlobalHas
<1>6. /\ x \in Object /\ x.kind = g.heap[t].kind /\ x.mark = g.heap[t].mark /\ x.key = g.heap[t].key
      /\ x.val = g.heap[t].val /\ x.at = g.heap[t].at /\ x.fin = g.heap[t].fin /\ x.calls = g.heap[t].calls
  BY <1>5 DEF Object, Slots
<1> HIDE DEF x
<1>7. h \in [D -> Object] /\ h[t] = x /\ \A o \in D \ {t} : h[o] = g.heap[o]
  BY <1>3, <1>5, <1>6
<1> HIDE DEF h, D
<1>8. g' \in Global /\ g'.heap = h
  BY ONLY <1>2, <1>4, <1>5, <1>7, NewHeap
<1>9. SameRest(g, g') /\ g'.gray = g.gray /\ g'.grayagain = g.grayagain /\ g'.weak = g.weak
  BY ONLY <1>2, <1>4, <1>5, <1>7, NewHeap DEF SameRest
<1>10. Written(g, g', t, g.heap[t].key, g.heap[t].val)
  BY <1>6, <1>7, <1>8, <1>9 DEF Written, D
<1>11. Formed(g', t)
  <2>1. Formed(g, t) /\ g'.heap[t] = x /\ DOMAIN g'.heap = DOMAIN g.heap
    BY <1>2, <1>3, <1>7, <1>8, ObjectHas DEF D
  <2> QED BY <1>3, <1>6, <2>1 DEF Formed
<1>12. Base(g', L) /\ InUse(g') = InUse(g) /\ g'.tmudata = g.tmudata /\ g'.gcstate = g.gcstate
  BY <1>2, <1>3, <1>10, <1>11, WrittenBase DEF D
<1>13. PhaseBut(g', t)
  <2>1. Good(g') /\ Good(g) /\ Phase(g) /\ t \in DOMAIN g.heap
    BY <1>2, <1>3, <1>12 DEF Base, D
  <2> QED BY ONLY <1>10, <2>1, WrittenPhase
<1>14. Phase(g')
  <2>1. CASE g.gcstate = "propagate"
    <3>1. t \in DOMAIN g'.heap /\ Contents(g', t) = Contents(g, t) /\ (Black(g', t) <=> Black(g, t))
      <4>1. g'.heap[t] = x /\ DOMAIN g'.heap = DOMAIN g.heap
        BY <1>7, <1>8 DEF D
      <4> QED BY <1>3, <1>6, <4>1 DEF Contents, ValueOf, IsOpen, KindOf, Black, D
    <3>2. Marked(g') = Marked(g)
      <4>1. \A o \in D : g'.heap[o].mark = g.heap[o].mark
        BY <1>6, <1>7, <1>8
      <4>2. DOMAIN g'.heap = D
        BY <1>7, <1>8
      <4> QED BY <4>1, <4>2 DEF Marked, D
    <3>3. t \notin g.tmudata
      BY <1>2, <1>3 DEF Base, Rooted
    <3>4. Black(g, t) => Contents(g, t) \subseteq Marked(g)
      BY <1>2, <1>3, <2>1, <3>3 DEF Phase, Tri, BlackDone, D
    <3> QED BY <1>13, <3>1, <3>2, <3>4, BarrierNone
  <2>2. CASE g.gcstate # "propagate"
    BY <1>12, <1>13, <2>2 DEF PhaseBut, Phase
  <2> QED BY <2>1, <2>2
<1> QED BY <1>4, <1>12, <1>14 DEF Kept

LEMMA LeaveBlockKeeps ==
  ASSUME Running, LeaveBlock
  PROVE  Kept(g, g', L) /\ L' = L
<1>1. PICK slots \in {{"val"}, Slots} :
        LET G == luaF_close(g, L, slots)
        IN Program([G EXCEPT !.heap[L] = [@ EXCEPT !.val = Nil, !.key = IF "key" \in slots THEN Nil ELSE G.heap[L].key]])
  BY DEF LeaveBlock
<1> DEFINE G == luaF_close(g, L, slots)
           k == IF "key" \in slots THEN Nil ELSE G.heap[L].key
           y == [G.heap[L] EXCEPT !.val = Nil, !.key = k]
           x == [G.heap[L] EXCEPT !.key = k, !.val = Nil]
<1>2. Base(g, L) /\ Phase(g) /\ L \in InUse(g)
  BY DEF Running, Base, Rooted
<1>3. g' = [G EXCEPT !.heap[L] = y] /\ L' = L
  BY <1>1 DEF Program
<1> HIDE DEF G
<1>4. Base(G, L) /\ Phase(G) /\ InUse(G) = InUse(g) /\ G.tmudata = g.tmudata
  BY <1>2, CloseKeeps DEF G
<1>5. Good(G) /\ G \in Global /\ L \in DOMAIN G.heap /\ Is(L) = "thread" /\ G.heap[L] \in Object /\ Formed(G, L)
      /\ G.heap[L].kind = "thread" /\ k \in Addr \cup {Nil} /\ k \in {Nil, G.heap[L].key}
  <2>1. Good(G) /\ G \in Global /\ L \in DOMAIN G.heap /\ Is(L) = "thread"
    BY <1>4 DEF Base, Good, Rooted, InUse
  <2> QED BY <2>1, ObjectHas DEF KindOf
<1> HIDE DEF k
<1>6. y = x
  BY <1>5 DEF Object
<1>7. Stored(G, g', L, k, Nil)
  <2>1. x = [G.heap[L] EXCEPT !.key = k, !.val = Nil] /\ g' = [G EXCEPT !.heap[L] = x]
    BY <1>3, <1>6
  <2>2. Nil \in Addr \cup {Nil}
    OBVIOUS
  <2> HIDE DEF x
  <2> QED BY ONLY <1>5, <2>1, <2>2, StoreIs
<1>8. Written(G, g', L, k, Nil) /\ g'.heap[L].mode = G.heap[L].mode
  BY <1>7 DEF Stored
<1>9. Formed(g', L)
  <2>1. g'.heap[L].key = k /\ g'.heap[L].val = Nil /\ g'.heap[L].kind = "thread" /\ g'.heap[L].at = G.heap[L].at
    BY <1>5, <1>8 DEF Written
  <2>2. DOMAIN g'.heap = DOMAIN G.heap
    BY <1>8 DEF Written
  <2> QED BY <1>5, <1>8, <2>1, <2>2 DEF Formed
<1>10. Base(g', L) /\ InUse(g') = InUse(G) /\ g'.tmudata = G.tmudata
  BY <1>4, <1>5, <1>8, <1>9, WrittenBase
<1>11. Phase(g')
  <2>1. Good(g')
    BY <1>10 DEF Base
  <2> QED BY <1>4, <1>5, <1>8, <2>1, WrittenPhase
<1> QED BY <1>3, <1>4, <1>10, <1>11 DEF Kept

(* Another thread goes on. *)
LEMMA OtherThread ==
  ASSUME NEW G, NEW l, NEW t, Kept(G, G, l), t \in InUse(G), Is(t) = "thread"
  PROVE  Kept(G, G, t)
  BY DEF Kept, Base, Rooted

LEMMA ResumeKeeps ==
  ASSUME Running, Resume
  PROVE  Kept(g, g', L')
<1>1. PICK t \in Held, v \in Held \cup {Nil} :
        KindOf(g, t) = "thread" /\ L' = t /\ g' = [g EXCEPT !.heap[t].val = v]
  BY DEF Resume
<1>2. Base(g, L) /\ Phase(g) /\ Kept(g, g, L)
  BY KeptSelf DEF Running
<1>3. t \in InUse(g) /\ Is(t) = "thread" /\ v \in InUse(g) \cup {Nil} /\ (v # Nil => Is(v) # "upval")
  BY <1>1, <1>2, HeldIs
<1>4. Kept(g, g, t)
  BY <1>2, <1>3, OtherThread
<1>5. g' = [g EXCEPT !.heap[t] = [@ EXCEPT !["val"] = v]] /\ "val" \in Slots
  BY <1>1 DEF Slots
<1> QED BY <1>1, <1>3, <1>4, <1>5, PutOnStack

LEMMA YieldKeeps ==
  ASSUME Running, Yield
  PROVE  Kept(g, g', L')
<1>1. PICK v \in Held \cup {Nil} : L' = Main /\ g' = [g EXCEPT !.heap[Main].val = v]
  BY DEF Yield
<1>2. Base(g, L) /\ Phase(g) /\ Kept(g, g, L)
  BY KeptSelf DEF Running
<1>3. Main \in InUse(g) /\ Is(Main) = "thread" /\ v \in InUse(g) \cup {Nil} /\ (v # Nil => Is(v) # "upval")
  BY <1>2, HeldIs DEF Base, Rooted, Is
<1>4. Kept(g, g, Main)
  BY <1>2, <1>3, OtherThread
<1>5. g' = [g EXCEPT !.heap[Main] = [@ EXCEPT !["val"] = v]] /\ "val" \in Slots
  BY <1>1 DEF Slots
<1> QED BY <1>1, <1>3, <1>4, <1>5, PutOnStack

(* luaC_fullgc starts a sweep, or the marking. *)
LEMMA FullKeeps ==
  ASSUME Running, luaC_fullgc
  PROVE  Kept(g, g', L) /\ L' = L
<1>1. Base(g, L) /\ Phase(g) /\ g \in Global
  BY DEF Running, Base, Good
<1>2. L' = L
  BY DEF luaC_fullgc
<1>3. CASE g.gcstate \in {"pause", "propagate"}
  <2>1. g' = [g EXCEPT !.gray = {}, !.grayagain = {}, !.weak = {}, !.gcstate = "sweepstring", !.tosweep = Listed(g)]
    BY <1>3 DEF luaC_fullgc
  <2>2. Listed(g) \subseteq DOMAIN g.heap /\ Listed(g) \subseteq Addr
    BY <1>1, GlobalHas DEF Listed
  <2>3. Retuned(g, g') /\ g'.gcstate = "sweepstring" /\ g'.tosweep = Listed(g)
    BY <1>1, <2>1, <2>2 DEF Global, Retuned
  <2>4. /\ Base(g', L) /\ InUse(g') = InUse(g) /\ \A o : IsOpen(g', o) <=> IsOpen(g, o)
    BY <1>1, <2>3, RetunedBase
  <2>5. g'.heap = g.heap /\ g'.tmudata = g.tmudata /\ g'.currentwhite = g.currentwhite
    BY <2>3 DEF Retuned
  <2>6. \A o \in DOMAIN g.heap \ (Listed(g) \cup g.tmudata) : IsOpen(g, o) /\ g.heap[o].at[1] \in Listed(g)
    <3>1. ASSUME NEW o \in DOMAIN g.heap \ (Listed(g) \cup g.tmudata)
          PROVE  IsOpen(g, o) /\ g.heap[o].at[1] \in Listed(g)
      <4>1. IsOpen(g, o)
        BY DEF Listed
      <4>2. g.heap[o].at[1] \in DOMAIN g.heap /\ Is(g.heap[o].at[1]) = "thread" /\ Good(g)
        BY <1>1, <4>1, ValueIs DEF Base
      <4>3. ~IsOpen(g, g.heap[o].at[1])
        BY <4>2, ValueIs
      <4>4. g.heap[o].at[1] \notin g.tmudata
        BY <1>1, <4>2 DEF Base, Rooted
      <4> QED BY <4>1, <4>2, <4>3, <4>4 DEF Listed
    <3> QED BY <3>1
  <2>7. Swept(g')
    <3>1. g'.tosweep \cap g'.tmudata = {} /\ \A o \in g'.tosweep : ~IsOpen(g', o)
      BY <2>3, <2>4, <2>5 DEF Listed
    <3>2. \A o \in DOMAIN g'.heap \ (g'.tosweep \cup g'.tmudata) :
            g'.heap[o].mark = g'.currentwhite \/ (IsOpen(g', o) /\ g'.heap[o].at[1] \in g'.tosweep)
      BY <2>3, <2>4, <2>5, <2>6
    <3> QED BY <2>2, <2>3, <2>5, <3>1, <3>2 DEF Swept
  <2> QED BY <1>2, <2>3, <2>4, <2>5, <2>7 DEF Kept, Phase
<1>4. CASE g.gcstate = "finalize"
  <2>1. g' = markroot(g) /\ Swept(g)
    BY <1>1, <1>4 DEF luaC_fullgc, Phase
  <2>2. Base(g', L) /\ Tri(g') /\ g'.gcstate = "propagate" /\ g'.tmudata = g.tmudata /\ DOMAIN g'.heap = DOMAIN g.heap
    BY <1>1, <1>4, <2>1, MarkRoot
  <2>3. InUse(g') = DOMAIN g'.heap
    BY <2>2, AllInUse
  <2> QED BY <1>2, <2>2, <2>3 DEF Kept, Phase, InUse
<1>5. CASE g.gcstate \notin {"pause", "propagate", "finalize"}
  <2>1. g' = g
    BY <1>5 DEF luaC_fullgc
  <2> QED BY <1>1, <1>2, <2>1, KeptSelf
<1> QED BY <1>3, <1>4, <1>5
-----------------------------------------------------------------------------
(* The collector's steps together, and the end of the program.             *)

(* What a step of the collector does to the userdata. *)
FinalizersKept(G, H, l) ==
  /\ InUse(G) \subseteq DOMAIN H.heap
  /\ H.tmudata \subseteq G.tmudata
     \/ (Tri(G) /\ H.tmudata = G.tmudata \cup Separated(ProgramMarked(G, l), FALSE))

LEMMA SingleStep ==
  ASSUME NEW G, NEW l, Base(G, l), Phase(G), NEW H \in singlestep(G, l)
  PROVE  Base(H, l) /\ Phase(H) /\ FinalizersKept(G, H, l)
<1>1. Good(G) /\ InUse(G) \subseteq DOMAIN G.heap
  BY DEF Base, InUse
<1>2. G.gcstate \in {"pause", "propagate", "sweepstring", "sweep", "finalize"}
  BY <1>1, GlobalHas DEF Good
<1>3. CASE G.gcstate = "pause"
  <2>1. H = markroot(G) /\ Swept(G)
    BY <1>3 DEF singlestep, Phase
  <2>2. Base(H, l) /\ Tri(H) /\ H.gcstate = "propagate" /\ H.tmudata = G.tmudata /\ DOMAIN H.heap = DOMAIN G.heap
    BY <1>3, <2>1, MarkRoot
  <2> QED BY <1>1, <2>2 DEF Phase, FinalizersKept
<1>4. CASE G.gcstate = "propagate"
  <2>1. Tri(G)
    BY <1>4 DEF Phase
  <2>2. CASE G.gray = {}
    <3>1. H = atomic(G, l)
      BY <1>4, <2>2 DEF singlestep
    <3>2. /\ Base(H, l) /\ Swept(H) /\ H.gcstate = "sweepstring" /\ DOMAIN H.heap = DOMAIN G.heap
          /\ H.tmudata = G.tmudata \cup Separated(ProgramMarked(G, l), FALSE)
      BY <2>1, <3>1, Atomic
    <3> QED BY <1>1, <2>1, <3>2 DEF Phase, FinalizersKept
  <2>3. CASE G.gray # {}
    <3>1. PICK o \in G.gray : H = propagatemark(G, o)
      BY <1>4, <2>3 DEF singlestep
    <3>2. Base(H, l) /\ Tri(H) /\ SameRest(G, H) /\ DOMAIN H.heap = DOMAIN G.heap
      BY <2>1, <3>1, PropagateStep
    <3> QED BY <1>1, <1>4, <3>2 DEF Phase, FinalizersKept, SameRest
  <2> QED BY <2>2, <2>3
<1>5. CASE G.gcstate = "sweepstring"
  <2>1. H = sweepstrings(G) /\ Swept(G)
    BY <1>5 DEF singlestep, Phase
  <2>2. Base(H, l) /\ Swept(H) /\ H.gcstate = "sweep" /\ H.tmudata = G.tmudata /\ InUse(H) = InUse(G)
    BY <1>5, <2>1, SweepStrings
  <2> QED BY <2>2 DEF Phase, FinalizersKept, InUse
<1>6. CASE G.gcstate = "sweep" /\ G.tosweep # {}
  <2>1. Swept(G) /\ \E o \in G.tosweep : H = SweepStep(G, o)
    BY <1>6 DEF singlestep, Phase
  <2>2. PICK o \in G.tosweep : H = SweepStep(G, o)
    BY <2>1
  <2>3. Base(H, l) /\ Swept(H) /\ H.gcstate \in {"sweep", "finalize"} /\ H.tmudata = G.tmudata /\ InUse(H) = InUse(G)
    BY <1>6, <2>1, <2>2, SweepStepBase
  <2> QED BY <2>3 DEF Phase, FinalizersKept, InUse
<1>9. CASE G.gcstate = "sweep" /\ G.tosweep = {}
  <2>1. H = [G EXCEPT !.gcstate = "finalize"] /\ Swept(G)
    BY <1>9 DEF singlestep, Phase
  <2>2. Retuned(G, H) /\ H.gcstate = "finalize" /\ H.tosweep = G.tosweep
    BY <1>1, <2>1 DEF Retuned, Global, Good
  <2>3. /\ Base(H, l) /\ InUse(H) = InUse(G) /\ \A o : IsOpen(H, o) <=> IsOpen(G, o)
    BY <2>2, RetunedBase
  <2>4. Swept(H)
    BY <1>9, <2>1, <2>2, <2>3 DEF Swept, Retuned
  <2> QED BY <2>2, <2>3, <2>4 DEF Phase, FinalizersKept, Retuned, InUse
<1>7. CASE G.gcstate = "finalize" /\ G.tmudata = {}
  <2>1. H = [G EXCEPT !.gcstate = "pause"] /\ Swept(G)
    BY <1>7 DEF singlestep, Phase
  <2>2. Retuned(G, H) /\ H.gcstate = "pause" /\ H.tosweep = G.tosweep
    BY <1>1, <2>1 DEF Retuned, Global, Good
  <2>3. /\ Base(H, l) /\ InUse(H) = InUse(G) /\ \A o : IsOpen(H, o) <=> IsOpen(G, o)
    BY <2>2, RetunedBase
  <2>4. Swept(H)
    BY <1>7, <2>1, <2>2, <2>3 DEF Swept, Retuned
  <2> QED BY <2>2, <2>3, <2>4 DEF Phase, FinalizersKept, Retuned, InUse
<1>8. CASE G.gcstate = "finalize" /\ G.tmudata # {}
  <2>1. PICK u \in G.tmudata, keeps \in BOOLEAN : H = GCTM(G, u, l, keeps)
    BY <1>8 DEF singlestep
  <2>2. /\ Base(H, l) /\ InUse(H) = InUse(G) /\ H.tmudata = G.tmudata \ {u}
        /\ (Phase(G) /\ ~Exposed(G, u) => Phase(H))
    BY <2>1, Finalizer
  <2>3. ~Exposed(G, u)
    BY <1>8 DEF Exposed
  <2> QED BY <1>8, <2>2, <2>3 DEF FinalizersKept, InUse
<1> QED BY <1>2, <1>3, <1>4, <1>5, <1>6, <1>7, <1>8, <1>9

LEMMA StepKeeps ==
  ASSUME Running, Step
  PROVE  Base(g', L) /\ Phase(g') /\ L' = L /\ FinalizersKept(g, g', L)
<1>1. Base(g, L) /\ Phase(g) /\ L' = L
  BY DEF Running, Step
<1>2. CASE full = "finish" /\ g.gcstate = "finalize"
  <2>1. g' = markroot(g) /\ Swept(g)
    BY <1>1, <1>2 DEF Step, Phase
  <2>2. Base(g', L) /\ Tri(g') /\ g'.gcstate = "propagate" /\ g'.tmudata = g.tmudata /\ DOMAIN g'.heap = DOMAIN g.heap
    BY <1>1, <1>2, <2>1, MarkRoot
  <2> QED BY <1>1, <2>2 DEF Phase, FinalizersKept, InUse
<1>3. CASE ~(full = "finish" /\ g.gcstate = "finalize")
  <2>1. g' \in singlestep(g, L)
    BY <1>3 DEF Step
  <2> QED BY <1>1, <2>1, SingleStep
<1> QED BY <1>2, <1>3

LEMMA CloseSeparates ==
  ASSUME NEW G, NEW l, Base(G, l), NEW all \in BOOLEAN, all = TRUE, NEW H, H = luaC_separateudata(G, all)
  PROVE  Base(H, l) /\ AllFinalized(H) /\ InUse(H) = InUse(G)
<1>1. Good(G) /\ Safe(G) /\ Rooted(G, l) /\ Finalized(G)
  BY DEF Base
<1>2. /\ H \in Global /\ DOMAIN H.heap = DOMAIN G.heap /\ H.currentwhite = G.currentwhite
      /\ H.tmudata = G.tmudata \cup Separated(G, all)
      /\ SameRefs(G, H) /\ SameMarks(G, H)
  BY ONLY <1>1, SeparateIs, all \in BOOLEAN, H = luaC_separateudata(G, all)
<1>3. /\ \A o \in DOMAIN G.heap : H.heap[o].calls = G.heap[o].calls
      /\ \A o \in DOMAIN G.heap : H.heap[o].fin <=> G.heap[o].fin \/ o \in Separated(G, all)
  <2>1. \A o \in DOMAIN G.heap : H.heap[o].calls = G.heap[o].calls
    BY ONLY <1>1, SeparateIs, all \in BOOLEAN, H = luaC_separateudata(G, all)
  <2>2. \A o \in DOMAIN G.heap : H.heap[o].fin <=> G.heap[o].fin \/ o \in Separated(G, all)
    BY ONLY <1>1, SeparateIs, all \in BOOLEAN, H = luaC_separateudata(G, all)
  <2> QED BY <2>1, <2>2
<1>4. \A o \in DOMAIN G.heap : o \in Separated(G, all) <=> Is(o) = "udata" /\ ~G.heap[o].fin
  BY all = TRUE DEF Separated
<1>5. \A o \in DOMAIN G.heap : isdead(H, o) <=> isdead(G, o)
  BY <1>2 DEF isdead, SameMarks
<1>6. InUse(H) = InUse(G)
  BY <1>2, <1>5 DEF InUse
<1>7. \A o \in DOMAIN G.heap : Formed(H, o) /\ Contents(H, o) = Contents(G, o)
  BY <1>1, <1>2, RefsSame
<1>8. \A o \in DOMAIN G.heap : Coloured(H.heap[o])
  <2>1. \A o \in DOMAIN G.heap : H.heap[o].mark = G.heap[o].mark /\ H.heap[o].kind = G.heap[o].kind /\ H.heap[o].at = G.heap[o].at
    BY <1>2 DEF SameMarks, SameRefs
  <2> QED BY <1>1, <2>1 DEF Good, Coloured
<1>9. Good(H)
  BY <1>1, <1>2, <1>7, <1>8 DEF Good
<1>10. Safe(H)
  BY <1>1, <1>6, <1>7 DEF Safe, InUse
<1>11. Separated(G, all) \subseteq InUse(G) /\ \A u \in Separated(G, all) : Is(u) = "udata"
  BY <1>1 DEF Separated, Finalized, InUse
<1>12. Rooted(H, l)
  BY <1>1, <1>2, <1>6, <1>11 DEF Rooted
<1>13. Finalized(H)
  <2>1. ASSUME NEW u \in DOMAIN G.heap, Is(u) = "udata"
        PROVE  H.heap[u].fin /\ H.heap[u].calls = IF u \notin H.tmudata THEN 1 ELSE 0
    <3>1. /\ G.heap[u].fin \/ (u \notin G.tmudata /\ ~isdead(G, u))
          /\ G.heap[u].calls = IF G.heap[u].fin /\ u \notin G.tmudata THEN 1 ELSE 0
      BY <1>1, <2>1 DEF Finalized
    <3>2. H.heap[u].fin
      BY <1>3, <1>4, <2>1
    <3>3. H.heap[u].calls = G.heap[u].calls /\ (u \in H.tmudata <=> u \in G.tmudata \/ ~G.heap[u].fin)
      BY <1>2, <1>3, <1>4, <2>1
    <3> QED BY <3>1, <3>2, <3>3
  <2> QED BY <1>2, <2>1 DEF Finalized
<1>14. AllFinalized(H)
  BY <1>2, <1>3, <1>4 DEF AllFinalized
<1> QED BY <1>6, <1>9, <1>10, <1>12, <1>13, <1>14 DEF Base

(* The colours stay, and what is off the list is not swept. *)
LEMMA SeparatePhase ==
  ASSUME NEW G, NEW l, Base(G, l), Phase(G), NEW all \in BOOLEAN, NEW H, H = luaC_separateudata(G, all),
         Base(H, l), NEW K, Retuned(H, K), K.gcstate = H.gcstate, K.tosweep = H.tosweep \ H.tmudata,
         K.gray = H.gray, K.grayagain = H.grayagain, K.weak = H.weak
  PROVE  Phase(K)
<1>1. Good(G)
  BY DEF Base
<1>2. /\ DOMAIN H.heap = DOMAIN G.heap /\ H.currentwhite = G.currentwhite /\ H.gcstate = G.gcstate
      /\ H.gray = G.gray /\ H.grayagain = G.grayagain /\ H.weak = G.weak /\ H.tosweep = G.tosweep
      /\ H.tmudata = G.tmudata \cup Separated(G, all)
      /\ SameRefs(G, H) /\ SameMarks(G, H)
  BY ONLY <1>1, SeparateIs, all \in BOOLEAN, H = luaC_separateudata(G, all)
<1>3. /\ K.heap = H.heap /\ K.currentwhite = G.currentwhite /\ K.tmudata = H.tmudata
      /\ K.gcstate = G.gcstate /\ G.tmudata \subseteq K.tmudata
  BY <1>2 DEF Retuned
<1>4. \A o \in DOMAIN G.heap : /\ K.heap[o].mark = G.heap[o].mark /\ K.heap[o].at = G.heap[o].at
                               /\ isdead(K, o) <=> isdead(G, o)
                               /\ Contents(K, o) = Contents(G, o) /\ (IsOpen(K, o) <=> IsOpen(G, o))
  <2>1. \A o \in DOMAIN G.heap : Contents(H, o) = Contents(G, o) /\ (IsOpen(H, o) <=> IsOpen(G, o))
    BY <1>1, <1>2, RefsSame
  <2>2. \A o : Contents(K, o) = Contents(H, o) /\ (IsOpen(K, o) <=> IsOpen(H, o))
    BY <1>3 DEF Contents, ValueOf, IsOpen, KindOf
  <2>3. \A o \in DOMAIN G.heap : K.heap[o].mark = G.heap[o].mark /\ K.heap[o].at = G.heap[o].at
    BY <1>2, <1>3 DEF SameRefs, SameMarks
  <2> QED BY <1>3, <2>1, <2>2, <2>3 DEF isdead
<1>5. CASE G.gcstate = "propagate"
  <2>1. Tri(G)
    BY <1>5 DEF Phase
  <2>2. Marked(K) = Marked(G) /\ DOMAIN K.heap = DOMAIN G.heap
    BY <1>2, <1>3, <1>4 DEF Marked
  <2>3. NoneDead(K) /\ Main \in Marked(K)
    BY <1>4, <2>1, <2>2 DEF Tri, NoneDead
  <2>4. BlackDone(K)
    BY <1>3, <1>4, <2>1, <2>2 DEF Tri, BlackDone, Black
  <2>5. Lists(K)
    BY <1>2, <1>4, <2>1, <2>2 DEF Tri, Lists
  <2> QED BY <1>3, <1>5, <2>3, <2>4, <2>5 DEF Phase, Tri
<1>6. CASE G.gcstate # "propagate"
  <2>1. Swept(G)
    BY <1>6 DEF Phase
  <2>2. K.tosweep \subseteq DOMAIN K.heap /\ K.tosweep \cap K.tmudata = {} /\ \A o \in K.tosweep : ~IsOpen(K, o)
    BY <1>2, <1>3, <1>4, <2>1 DEF Swept
  <2>3. ASSUME NEW o \in DOMAIN K.heap \ (K.tosweep \cup K.tmudata)
        PROVE  K.heap[o].mark = K.currentwhite \/ (IsOpen(K, o) /\ K.heap[o].at[1] \in K.tosweep)
    <3>1. o \in DOMAIN G.heap \ (G.tosweep \cup G.tmudata)
      BY <1>2, <1>3, <2>3
    <3>2. CASE IsOpen(G, o) /\ G.heap[o].at[1] \in G.tosweep
      <4>1. Is(G.heap[o].at[1]) = "thread"
        BY <1>1, <3>1, <3>2, ValueIs
      <4>2. G.heap[o].at[1] \notin H.tmudata
        BY <4>1 DEF Base, Rooted
      <4> QED BY <1>2, <1>4, <3>1, <3>2, <4>2
    <3>3. CASE G.heap[o].mark = G.currentwhite
      BY <1>3, <1>4, <3>1, <3>3
    <3> QED BY <2>1, <3>1, <3>2, <3>3 DEF Swept
  <2>4. K.gcstate \in {"pause", "finalize"} => K.tosweep = {}
    BY <1>2, <1>3, <2>1 DEF Swept
  <2>5. Swept(K)
    BY <2>2, <2>3, <2>4 DEF Swept
  <2> QED BY <1>3, <1>6, <2>5 DEF Phase
<1> QED BY <1>5, <1>6

LEMMA LuaCloseKeeps ==
  ASSUME Running, lua_close
  PROVE  Base(g', L) /\ Phase(g') /\ AllFinalized(g') /\ L' = L /\ L = Main /\ InUse(g') = InUse(g)
<1> DEFINE G == luaF_close(g, Main, Slots)
           H == luaC_separateudata(G, TRUE)
<1>1. Base(g, L) /\ Phase(g) /\ Main \in InUse(g)
  BY DEF Running, Base, Rooted
<1>2. g' = [H EXCEPT !.tosweep = @ \ H.tmudata] /\ L' = L /\ L = Main
  BY DEF lua_close
<1>3. PICK all \in BOOLEAN : all = TRUE /\ H = luaC_separateudata(G, all)
  OBVIOUS
<1> HIDE DEF G, H
<1>4. Base(G, L) /\ Phase(G) /\ InUse(G) = InUse(g)
  BY <1>1, CloseKeeps DEF G
<1>5. Base(H, L) /\ AllFinalized(H) /\ InUse(H) = InUse(G)
  BY <1>3, <1>4, CloseSeparates
<1>6. H \in Global
  BY <1>5 DEF Base, Good
<1>7. /\ Retuned(H, g') /\ g'.gcstate = H.gcstate /\ g'.tosweep = H.tosweep \ H.tmudata
      /\ g'.gray = H.gray /\ g'.grayagain = H.grayagain /\ g'.weak = H.weak
  BY <1>2, <1>6 DEF Global, Retuned
<1>8. Base(g', L) /\ InUse(g') = InUse(H)
  BY <1>5, <1>7, RetunedBase
<1>9. Phase(g')
  BY <1>3, <1>4, <1>5, <1>7, SeparatePhase
<1>10. AllFinalized(g')
  BY <1>5, <1>7 DEF AllFinalized, Retuned
<1> QED BY <1>2, <1>4, <1>5, <1>8, <1>9, <1>10

LEMMA CallAllKeeps ==
  ASSUME Base(g, L), Phase(g), callallgcTM
  PROVE  /\ Base(g', L) /\ L' = L /\ InUse(g') = InUse(g) /\ g'.tmudata \subseteq g.tmudata
         /\ closing' # "unsafe" => Phase(g')
<1>1. PICK u \in g.tmudata, keeps \in BOOLEAN :
        /\ g' = GCTM(g, u, Main, keeps)
        /\ closing' = IF closing = "unsafe" \/ Exposed(g, u) THEN "unsafe" ELSE "calling"
  BY DEF callallgcTM
<1>2. L' = L /\ L = Main
  BY DEF callallgcTM
<1>3. /\ Base(g', L) /\ InUse(g') = InUse(g) /\ g'.tmudata = g.tmudata \ {u}
      /\ (Phase(g) /\ ~Exposed(g, u) => Phase(g'))
  BY <1>1, <1>2, Finalizer
<1> QED BY <1>1, <1>2, <1>3

LEMMA NewStateBase ==
  ASSUME family \in Families
  PROVE  Base(NewState, Main) /\ Phase(NewState) /\ InUse(NewState) = {Main}
<1> DEFINE N == NewState
           x == NewObject("thread", "w0")
<1>1. Main \in Addr /\ Main # Nil /\ Is(Main) = "thread"
  BY Constants DEF Is
<1>2. /\ x \in Object /\ x.kind = "thread" /\ x.mark = "w0" /\ x.key = Nil /\ x.val = Nil
      /\ x.mode = {} /\ x.at = <<>> /\ x.fin = FALSE /\ x.calls = 0
  BY DEF NewObject, Object, Marks, Kinds
<1> HIDE DEF x
<1>3. /\ N.heap = [o \in {Main} |-> x] /\ N.gcstate = "pause" /\ N.currentwhite = "w0"
      /\ N.gray = {} /\ N.grayagain = {} /\ N.weak = {} /\ N.tosweep = {} /\ N.tmudata = {}
  BY DEF NewState, x
<1>4. N \in Global
  <2>1. N.heap \in [{Main} -> Object] /\ {Main} \in SUBSET Addr
    BY <1>1, <1>2, <1>3
  <2>2. N.heap \in Heaps
    BY <2>1, HeapIs
  <2>3. N = [heap |-> N.heap, gcstate |-> "pause", currentwhite |-> "w0", gray |-> {}, grayagain |-> {},
             weak |-> {}, tosweep |-> {}, tmudata |-> {}]
    BY DEF NewState
  <2> HIDE DEF N
  <2>4. "w0" \in Whites
    BY DEF Whites
  <2> QED BY <2>2, <2>3, <2>4 DEF Global
<1>5. DOMAIN N.heap = {Main} /\ N.heap[Main] = x
  BY <1>3
<1> HIDE DEF N
<1>6. ~isdead(N, Main) /\ ~IsOpen(N, Main) /\ Contents(N, Main) = {}
  BY <1>2, <1>3, <1>5 DEF isdead, OtherWhite, IsOpen, Contents, ValueOf, Without
<1>7. InUse(N) = {Main}
  BY <1>5, <1>6 DEF InUse
<1>8. Good(N)
  <2>1. Formed(N, Main)
    BY <1>1, <1>2, <1>5 DEF Formed
  <2>2. Coloured(N.heap[Main])
    BY <1>2, <1>5 DEF Coloured
  <2> QED BY <1>4, <1>5, <2>1, <2>2 DEF Good
<1>9. Safe(N)
  BY <1>6, <1>7 DEF Safe
<1>10. Rooted(N, Main)
  BY <1>1, <1>3, <1>7 DEF Rooted
<1>11. Finalized(N)
  BY <1>1, <1>5 DEF Finalized
<1>12. Phase(N)
  BY <1>2, <1>3, <1>5 DEF Phase, Swept
<1> QED BY <1>7, <1>8, <1>9, <1>10, <1>11, <1>12 DEF Base, N
-----------------------------------------------------------------------------
(* What the program can reach.                                             *)

Following(G, through) == [o \in DOMAIN G.heap |-> IF o \in through THEN Points(G, o) \cap DOMAIN G.heap ELSE {}]

(* The sets after each round: the table of Reach exists. *)
Widen(next, S) == S \cup UNION { next[o] : o \in S }

Widened(f, next, roots, n) == f = [i \in 0..n |-> IF i = 0 THEN roots ELSE Widen(next, f[i - 1])]

LEMMA WidenedExist ==
  ASSUME NEW next, NEW roots
  PROVE  \A n \in Nat : \E f : Widened(f, next, roots, n)
<1> DEFINE A == {n \in Nat : \E f : Widened(f, next, roots, n)}
<1>1. 0 \in A
  <2> DEFINE f == [i \in 0..0 |-> roots]
  <2>1. f = [i \in 0..0 |-> IF i = 0 THEN roots ELSE Widen(next, f[i - 1])]
    OBVIOUS
  <2> QED BY <2>1 DEF Widened
<1>2. ASSUME NEW n \in Nat, n \in A PROVE n + 1 \in A
  <2>1. PICK f : Widened(f, next, roots, n)
    BY <1>2
  <2>2. \A i \in 0..n : f[i] = IF i = 0 THEN roots ELSE Widen(next, f[i - 1])
    BY <2>1 DEF Widened
  <2> DEFINE h == [i \in 0..(n + 1) |-> IF i = n + 1 THEN Widen(next, f[n]) ELSE f[i]]
  <2>4. \A i \in 0..(n + 1) : h[i] = IF i = 0 THEN roots ELSE Widen(next, h[i - 1])
    <3> SUFFICES ASSUME NEW i \in 0..(n + 1) PROVE h[i] = IF i = 0 THEN roots ELSE Widen(next, h[i - 1])
      OBVIOUS
    <3>1. i # 0 => i - 1 \in 0..n /\ h[i - 1] = f[i - 1]
      OBVIOUS
    <3>2. CASE i = n + 1
      BY <3>1, <3>2
    <3>3. CASE i # n + 1
      BY <2>2, <3>1, <3>3
    <3> QED BY <3>2, <3>3
  <2>5. h = [i \in 0..(n + 1) |-> h[i]]
    OBVIOUS
  <2> HIDE DEF h
  <2>6. h = [i \in 0..(n + 1) |-> IF i = 0 THEN roots ELSE Widen(next, h[i - 1])]
    BY <2>4, <2>5
  <2>7. Widened(h, next, roots, n + 1)
    BY <2>6 DEF Widened
  <2> QED BY <2>7
<1> HIDE DEF A
<1>3. \A n \in Nat : n \in A
  BY <1>1, <1>2, Induction
<1> QED BY <1>3 DEF A

(* A set that holds the roots and what its members point to holds all that *)
(* is reached.                                                             *)
LEMMA ReachWithin ==
  ASSUME NEW G, NEW roots, NEW through, NEW S \in SUBSET DOMAIN G.heap, roots \subseteq S,
         \A o \in S \cap through : Points(G, o) \cap DOMAIN G.heap \subseteq S
  PROVE  Reach(G, roots, through) \subseteq S
<1> DEFINE n == Cardinality(Objs)
           next == Following(G, through)
           after == CHOOSE f : f = [i \in 0..n |-> IF i = 0 THEN roots ELSE Widen(next, f[i - 1])]
<1>1. Reach(G, roots, through) = after[n]
  BY DEF Reach, Following, Widen
<1>2. n \in Nat
  BY LuaGCAssumption, FS_CardinalityType
<1>3. \A o \in S : next[o] \subseteq S
  BY DEF Following
<1> HIDE DEF n, next
<1>4. Widened(after, next, roots, n)
  BY <1>2, WidenedExist DEF Widened
<1>5. \A i \in 0..n : after[i] = IF i = 0 THEN roots ELSE Widen(next, after[i - 1])
  BY <1>4 DEF Widened
<1> HIDE DEF after
<1> DEFINE A == {i \in Nat : i <= n => after[i] \subseteq S}
<1>6. 0 \in A
  BY <1>2, <1>5
<1>7. ASSUME NEW i \in Nat, i \in A PROVE i + 1 \in A
  <2> SUFFICES ASSUME i + 1 <= n PROVE after[i + 1] \subseteq S
    OBVIOUS
  <2>1. after[i] \subseteq S
    BY <1>2, <1>7
  <2>2. after[i + 1] = Widen(next, after[i])
    BY <1>2, <1>5
  <2>3. UNION { next[o] : o \in after[i] } \subseteq S
    BY <1>3, <2>1
  <2> QED BY <2>1, <2>2, <2>3 DEF Widen
<1>8. \A i \in Nat : i \in A
  <2> HIDE DEF A
  <2> QED BY <1>6, <1>7, Induction
<1> QED BY <1>1, <1>2, <1>8

(* What an object points to, strongly or not. *)
LEMMA RefsAre ==
  ASSUME NEW G, Good(G), NEW o \in DOMAIN G.heap
  PROVE  /\ \A slots \in SUBSET Slots : Refs(G, o, slots) \subseteq Contents(G, o)
         /\ Points(G, o) \subseteq Contents(G, o)
         /\ Points(G, o) \subseteq Refs(G, o, Strong(G.heap[o])) \cup Strings(G) \cup (IF IsOpen(G, o) THEN Contents(G, o) ELSE {})
<1>1. ValueOf(G, o) = IF IsOpen(G, o) THEN ValueOf(G, o) ELSE G.heap[o].val
  BY ValueIs
<1>2. IsOpen(G, o) => G.heap[o].key = Nil /\ G.heap[o].val = Nil
  BY ValueIs, ObjectHas DEF Formed, KindOf
<1>3. \A slots \in SUBSET Slots : Refs(G, o, slots) \subseteq Without({G.heap[o].key, G.heap[o].val})
  BY DEF Refs, Slots, Without
<1>4. Without({G.heap[o].key, G.heap[o].val}) \subseteq Contents(G, o)
  BY <1>1, <1>2 DEF Contents, Without
<1>5. Strong(G.heap[o]) \in SUBSET Slots /\ Slots \in SUBSET Slots
  BY StrongIs
<1>6. IsOpen(G, o) => Without({ValueOf(G, o)}) \subseteq Contents(G, o)
  BY DEF Contents, Without
<1> QED BY <1>3, <1>4, <1>5, <1>6 DEF Points

LEMMA LiveInUse ==
  ASSUME NEW G, NEW l, Base(G, l)
  PROVE  Live(G, l) \subseteq InUse(G)
<1> DEFINE S == InUse(G)
           roots == {Main, l} \cup G.tmudata
<1>1. Good(G) /\ S \in SUBSET DOMAIN G.heap /\ roots \subseteq S
  BY DEF Base, Rooted, InUse
<1>2. \A o \in S \cap DOMAIN G.heap : Points(G, o) \cap DOMAIN G.heap \subseteq S
  <2>1. ASSUME NEW o \in S PROVE Points(G, o) \subseteq S
    <3>1. Contents(G, o) \subseteq S
      BY DEF Base, Safe
    <3>2. Points(G, o) \subseteq Contents(G, o)
      BY <1>1, RefsAre
    <3> QED BY <3>1, <3>2
  <2> QED BY <2>1
<1> HIDE DEF S, roots
<1>3. Reach(G, roots, DOMAIN G.heap) \subseteq S
  BY <1>1, <1>2, ReachWithin
<1> QED BY <1>3 DEF Live, roots, S

(* A userdata that is separated is not reached from the program. *)
LEMMA SeparatedUnreached ==
  ASSUME NEW G, NEW l, Base(G, l), Tri(G), NEW u \in Separated(ProgramMarked(G, l), FALSE)
  PROVE  u \notin Reach(G, {Main, l}, DOMAIN G.heap \ G.tmudata)
<1> DEFINE c == ProgramMarked(G, l)
           S == Marked(c) \cup Strings(G)
           D == DOMAIN G.heap
<1>1. Marking(G) /\ l \in D /\ Good(G) /\ Main \in Marked(G)
  BY AllInUse DEF Base, Tri
<1>2. Marking(c) /\ Later(G, c) /\ Done(c) /\ l \in Marked(c)
  BY <1>1, ProgramMarkedDone
<1>3. u \in DOMAIN c.heap /\ Is(u) = "udata" /\ White(c, u)
  BY DEF Separated
<1> HIDE DEF c
<1>4. Good(c) /\ DOMAIN c.heap = D /\ SameShape(G, c) /\ c.tmudata = G.tmudata /\ Main \in Marked(c)
  BY <1>1, <1>2 DEF Marking, Later, SameShape, SameRest
<1>5. u \notin S
  <2>1. u \notin Marked(c)
    BY <1>3 DEF White, Marked, Whites
  <2>2. u \notin Strings(G)
    BY <1>1, <1>3, ObjectHas DEF Strings
  <2> QED BY <2>1, <2>2
<1>6. ASSUME NEW o \in S \cap (D \ G.tmudata)
      PROVE  Points(G, o) \subseteq S
  <2>1. o \in D /\ o \notin G.tmudata /\ (o \in Marked(c) \/ Is(o) = "string")
    BY <1>1, <1>4, ObjectHas DEF Strings
  <2>2. /\ Contents(c, o) = Contents(G, o) /\ (IsOpen(c, o) <=> IsOpen(G, o))
        /\ Refs(c, o, Strong(c.heap[o])) = Refs(G, o, Strong(G.heap[o]))
    <3>1. Contents(c, o) = Contents(G, o) /\ (IsOpen(c, o) <=> IsOpen(G, o))
      BY <1>1, <1>4, <2>1, ShapeKept
    <3>2. Strong(c.heap[o]) = Strong(G.heap[o])
      BY <1>4, <2>1 DEF SameShape, SameObject, Strong
    <3>3. Strong(G.heap[o]) \in SUBSET Slots
      BY <1>1, <2>1, StrongIs
    <3> QED BY <1>1, <1>4, <2>1, <3>1, <3>2, <3>3, RefsKept
  <2>3. CASE Is(o) = "string"
    <3>1. G.heap[o].key = Nil /\ G.heap[o].val = Nil /\ ~IsOpen(G, o)
      BY <1>1, <2>1, <2>3, ObjectHas, ValueIs DEF Formed, KindOf
    <3>2. Contents(G, o) = {}
      BY <3>1 DEF Contents, Without, ValueOf
    <3> QED BY <1>1, <2>1, <3>2, RefsAre
  <2>4. CASE o \in Marked(c) /\ IsOpen(c, o)
    <3>1. Contents(c, o) \subseteq Marked(c)
      BY <1>2, <2>4 DEF Done, OpenDone
    <3> QED BY <1>1, <2>1, <2>2, <3>1, RefsAre
  <2>5. CASE Is(o) # "string" /\ o \in Marked(c) /\ ~IsOpen(c, o)
    <3>1. CASE Black(c, o)
      <4>1. Contents(c, o) \subseteq Marked(c)
        BY <1>2, <1>4, <2>1, <3>1 DEF Marking, Tri, BlackDone
      <4> QED BY <1>1, <2>1, <2>2, <4>1, RefsAre
    <3>2. CASE ~Black(c, o)
      <4>1. c.heap[o].mark = "gray" /\ Is(o) \in Listable
        <5>1. c.heap[o].mark = "gray"
          BY <1>4, <2>1, <2>5, <3>2, ObjectHas DEF Marked, Marks, Whites, Black
        <5>2. c.heap[o].kind \in Kinds /\ c.heap[o].kind = Is(o) /\ Coloured(c.heap[o]) /\ (IsOpen(c, o) <=> c.heap[o].at # <<>>)
          BY <1>4, <2>1, ObjectHas, ValueIs DEF KindOf
        <5> QED BY <2>5, <5>1, <5>2 DEF Coloured, Kinds, Listable
      <4>2. o \in c.grayagain \cup c.weak
        BY <1>2, <1>4, <2>1, <4>1 DEF Marking, Tri, Lists, Done
      <4>3. Refs(c, o, Strong(c.heap[o])) \subseteq Marked(c)
        <5>1. CASE o \in c.weak
          BY <1>2, <5>1 DEF Done, WeakDone
        <5>2. CASE o \in c.grayagain
          <6>1. Contents(c, o) \subseteq Marked(c)
            BY <1>2, <5>2 DEF Done, AgainDone
          <6> QED BY <1>4, <2>1, <6>1, RefsAre, StrongIs
        <5> QED BY <4>2, <5>1, <5>2
      <4> QED BY <1>1, <2>1, <2>2, <2>5, <4>3, RefsAre
    <3> QED BY <3>1, <3>2
  <2> QED BY <1>4, <2>1, <2>3, <2>4, <2>5
<1>7. S \in SUBSET D /\ {Main, l} \subseteq S
  BY <1>2, <1>4 DEF Marked, Strings
<1> HIDE DEF S
<1>8. Reach(G, {Main, l}, D \ G.tmudata) \subseteq S
  BY <1>6, <1>7, ReachWithin
<1> QED BY <1>5, <1>8
-----------------------------------------------------------------------------
(* The invariant.                                                          *)

(* The actions of the collector, and of the program in two parts. *)
Collecting == Step \/ lua_close \/ callallgcTM \/ close_state

FirstActions == New \/ NewString \/ NewClosure \/ ShareUpval \/ Move \/ Get \/ SetTable

OtherActions == SetEnv \/ SetUpval \/ SetMode \/ LeaveBlock \/ Resume \/ Yield \/ luaC_fullgc

LEMMA ProgramSteps ==
  ASSUME FirstActions \/ OtherActions
  PROVE  Runs /\ family' = family /\ closing' = closing /\ (full' = full \/ full' \in {"collect", "finish"})
<1>1. ASSUME NEW G, Program(G) PROVE Runs /\ family' = family /\ closing' = closing /\ full' = full
  BY <1>1 DEF Program
<1>2. CASE FirstActions
  BY <1>1, <1>2 DEF FirstActions, New, NewString, NewClosure, PutClosure, ShareUpval, Move, Get, SetTable
<1>3. CASE SetEnv \/ SetUpval \/ SetMode \/ LeaveBlock
  BY <1>1, <1>3 DEF SetEnv, SetUpval, SetMode, LeaveBlock
<1>4. CASE Resume \/ Yield \/ luaC_fullgc
  BY <1>4 DEF Resume, Yield, luaC_fullgc
<1> QED BY <1>2, <1>3, <1>4 DEF OtherActions

LEMMA ProgramKeeps ==
  ASSUME IInv, closing # "unsafe", FirstActions \/ OtherActions
  PROVE  Kept(g, g', L')
<1>2. Running
  BY DEF IInv, Intact, Running
<1>3. CASE FirstActions
  <2>1. Kept(g, g', L) /\ L' = L
    BY ONLY <1>2, <1>3, NewKeeps, NewStringKeeps, NewClosureKeeps, ShareUpvalKeeps, MoveKeeps, GetKeeps, SetTableKeeps
       DEF FirstActions
  <2> QED BY <2>1
<1>4. CASE OtherActions
  <2>1. CASE Resume \/ Yield
    BY <1>2, <2>1, ResumeKeeps, YieldKeeps
  <2>2. CASE SetEnv \/ SetUpval \/ SetMode \/ LeaveBlock \/ luaC_fullgc
    <3>1. Kept(g, g', L) /\ L' = L
      BY ONLY <1>2, <2>2, SetEnvKeeps, SetUpvalKeeps, SetModeKeeps, LeaveBlockKeeps, FullKeeps
    <3> QED BY <3>1
  <2> QED BY <1>4, <2>1, <2>2 DEF OtherActions
<1> QED BY <1>3, <1>4

(* What a step does to the finalizers, separated and ended saying what it  *)
(* is of lua_close.                                                        *)
FinalizersRight(G, H, l, separated, ended) ==
  /\ InUse(G) \subseteq DOMAIN H.heap \/ (G.tmudata = {} /\ (ended \/ AllFinalized(G)))
  /\ \/ H.tmudata \subseteq G.tmudata
     \/ separated
     \/ Tri(G) /\ H.tmudata = G.tmudata \cup Separated(ProgramMarked(G, l), FALSE)

Ended == closing = "calling" /\ closing' = "no"

LEMMA Inductive ==
  ASSUME IInv, Collecting \/ FirstActions \/ OtherActions
  PROVE  /\ family' = family /\ full' \in {"no", "finish", "collect"}
         /\ closing' \in {"no", "separated", "calling", "unsafe"}
         /\ closing' # "unsafe" => Base(g', L') /\ Phase(g')
         /\ closing' = "separated" => L' = Main /\ AllFinalized(g')
         /\ closing # "unsafe" => Base(g', L') /\ FinalizersRight(g, g', L, closing' = "separated", Ended)
<1>1. /\ family \in Families /\ full \in {"no", "finish", "collect"}
      /\ closing \in {"no", "separated", "calling", "unsafe"}
  BY DEF IInv
<1>2. CASE FirstActions \/ OtherActions
  <2>1. closing # "unsafe" => Kept(g, g', L')
    BY <1>2, ProgramKeeps
  <2>2. family' = family /\ closing' = closing /\ (full' = full \/ full' \in {"collect", "finish"})
    BY <1>2, ProgramSteps
  <2>3. closing # "separated"
    BY <1>2, ProgramSteps DEF Runs, Going
  <2>4. InUse(g') \subseteq DOMAIN g'.heap
    BY DEF InUse
  <2> QED BY <1>1, <2>1, <2>2, <2>3, <2>4 DEF Kept, FinalizersRight
<1>3. CASE Step
  <2>1. closing' = closing /\ closing # "separated" /\ family' = family
    BY <1>3 DEF Step, Going
  <2>2. full' \in {"no", "collect"} \cup {full}
    BY <1>3 DEF Step
  <2>3. closing # "unsafe" => Running
    BY <1>1 DEF Running, IInv, Intact
  <2>4. closing # "unsafe" => Base(g', L') /\ Phase(g') /\ FinalizersKept(g, g', L)
    BY <1>3, <2>3, StepKeeps
  <2> QED BY <1>1, <2>1, <2>2, <2>4 DEF FinalizersKept, FinalizersRight
<1>4. CASE lua_close
  <2>1. closing = "no" /\ closing' = "separated" /\ full' = full /\ family' = family
    BY <1>4 DEF lua_close
  <2>2. Running
    BY <1>1, <2>1 DEF Running, IInv, Intact
  <2>3. Base(g', L) /\ Phase(g') /\ AllFinalized(g') /\ L' = L /\ L = Main /\ InUse(g') = InUse(g)
    BY <1>4, <2>2, LuaCloseKeeps
  <2>4. InUse(g) \subseteq DOMAIN g'.heap
    BY <2>3 DEF InUse
  <2> QED BY <1>1, <2>1, <2>3, <2>4 DEF FinalizersRight
<1>5. CASE callallgcTM
  <2>1. closing' \in {"calling", "unsafe"} /\ full' = full /\ family' = family
    BY <1>5 DEF callallgcTM
  <2>2. closing = "unsafe" => closing' = "unsafe"
    BY <1>5 DEF callallgcTM
  <2>3. closing # "unsafe" =>
          /\ Base(g', L') /\ InUse(g) \subseteq DOMAIN g'.heap /\ g'.tmudata \subseteq g.tmudata
          /\ closing' # "unsafe" => Phase(g')
    <3> SUFFICES ASSUME closing # "unsafe"
                 PROVE  /\ Base(g', L') /\ InUse(g) \subseteq DOMAIN g'.heap /\ g'.tmudata \subseteq g.tmudata
                        /\ closing' # "unsafe" => Phase(g')
      OBVIOUS
    <3>1. Base(g, L) /\ Phase(g)
      BY DEF IInv, Intact
    <3>2. /\ Base(g', L) /\ L' = L /\ InUse(g') = InUse(g) /\ g'.tmudata \subseteq g.tmudata
          /\ closing' # "unsafe" => Phase(g')
      BY <1>5, <3>1, CallAllKeeps
    <3> QED BY <3>2 DEF InUse
  <2> QED BY <1>1, <2>1, <2>2, <2>3 DEF FinalizersRight
<1>6. CASE close_state
  <2>1. closing # "no" /\ closing' = "no" /\ full' = "no" /\ family' = family /\ L' = Main /\ g' = NewState
    BY <1>6 DEF close_state
  <2>2. closing # "unsafe" => g.tmudata = {} /\ (Ended \/ AllFinalized(g))
    BY <1>1, <1>6 DEF close_state, IInv, Ended
  <2>3. Base(NewState, Main) /\ Phase(NewState)
    BY <1>1, NewStateBase
  <2>4. NewState.tmudata = {}
    BY DEF NewState
  <2> QED BY <1>1, <2>1, <2>2, <2>3, <2>4 DEF FinalizersRight
<1> QED BY <1>2, <1>3, <1>4, <1>5, <1>6 DEF Collecting

(* The next state's invariant, the kinds being the same. *)
LEMMA NextInvariant ==
  ASSUME family' = family, family \in Families, full' \in {"no", "finish", "collect"},
         closing' \in {"no", "separated", "calling", "unsafe"},
         closing' # "unsafe" => Base(g', L') /\ Phase(g'),
         closing' = "separated" => L' = Main /\ AllFinalized(g'),
         closing' # "unsafe" => live' \subseteq InUse(g')
  PROVE  IInv'
<1>1. \A o : Is(o)' = Is(o)
  BY DEF Is
<1>2. closing' # "unsafe" => Base(g, L)'
  BY <1>1 DEF Base, Good, Formed, Rooted, Finalized
<1>3. closing' # "unsafe" => Phase(g)'
  BY <1>1 DEF Phase, Tri, Lists
<1>4. closing' = "separated" => AllFinalized(g)'
  BY <1>1 DEF AllFinalized
<1> QED BY <1>2, <1>3, <1>4 DEF IInv, Intact
-----------------------------------------------------------------------------
(* The theorems.                                                           *)

(* What the marking, the sweep, the barriers and the program's writes keep *)
(* true (lgc.c): no object in use refers to one that may be freed, what is *)
(* black refers to nothing white while objects are marked, what is behind  *)
(* the sweep has the current white, and what the program reaches is in use.*)
THEOREM CollectorInvariant == GCSpec => []IInv
<1>1. GCInit => IInv
  <2> SUFFICES ASSUME GCInit PROVE IInv
    OBVIOUS
  <2>1. family \in Families /\ L = Main /\ full = "no" /\ closing = "no" /\ g = NewState /\ live = {Main}
    BY DEF GCInit
  <2>2. Base(NewState, Main) /\ Phase(NewState) /\ InUse(NewState) = {Main}
    BY <2>1, NewStateBase
  <2> QED BY <2>1, <2>2 DEF IInv, Intact
<1>2. IInv /\ [GCNext]_lvars => IInv'
  <2> SUFFICES ASSUME IInv, [GCNext]_lvars PROVE IInv'
    OBVIOUS
  <2>1. family \in Families
    BY DEF IInv
  <2>2. CASE GCNext
    <3>1. Collecting \/ FirstActions \/ OtherActions
      BY <2>2 DEF GCNext, Collecting, FirstActions, OtherActions
    <3>2. /\ family' = family /\ full' \in {"no", "finish", "collect"}
          /\ closing' \in {"no", "separated", "calling", "unsafe"}
          /\ closing' # "unsafe" => Base(g', L') /\ Phase(g')
          /\ closing' = "separated" => L' = Main /\ AllFinalized(g')
      BY <3>1, Inductive
    <3>3. live' = Live(g', L')
      BY <2>2 DEF GCNext
    <3>4. closing' # "unsafe" => live' \subseteq InUse(g')
      BY <3>2, <3>3, LiveInUse
    <3> QED BY <2>1, <3>2, <3>4, NextInvariant
  <2>3. CASE UNCHANGED lvars
    <3>1. g' = g /\ L' = L /\ full' = full /\ closing' = closing /\ family' = family /\ live' = live
      BY <2>3 DEF lvars
    <3>2. /\ full' \in {"no", "finish", "collect"} /\ closing' \in {"no", "separated", "calling", "unsafe"}
          /\ closing' # "unsafe" => Base(g', L') /\ Phase(g') /\ live' \subseteq InUse(g')
          /\ closing' = "separated" => L' = Main /\ AllFinalized(g')
      BY <3>1 DEF IInv, Intact
    <3> QED BY <2>1, <3>1, <3>2, NextInvariant
  <2> QED BY <2>2, <2>3
<1> QED BY <1>1, <1>2, PTL DEF GCSpec

(* Whatever the program does between two steps of the collector, nothing   *)
(* it can still come to was freed, through its tables, its closures'       *)
(* upvalues, its coroutines or what waits for a finalizer, nor what a      *)
(* finalizer of lua_close does, as long as GCTM has not whitened what a    *)
(* black object holds.                                                     *)
THEOREM NothingDangles == GCSpec => []NoDangling
<1>1. IInv => NoDangling
  <2> SUFFICES ASSUME IInv, closing # "unsafe" PROVE NothingFreed
    BY DEF NoDangling
  <2>1. Good(g) /\ Safe(g) /\ L \in InUse(g) /\ live \subseteq InUse(g) /\ InUse(g) \subseteq DOMAIN g.heap
    BY DEF IInv, Intact, Base, Rooted, InUse
  <2>2. ASSUME NEW o \in live
        PROVE  Refs(g, o, Slots) \subseteq DOMAIN g.heap /\ (IsOpen(g, o) => g.heap[o].at[1] \in DOMAIN g.heap)
    <3>1. o \in DOMAIN g.heap /\ Contents(g, o) \subseteq DOMAIN g.heap
      BY <2>1 DEF Safe
    <3>2. Slots \in SUBSET Slots
      OBVIOUS
    <3>3. Refs(g, o, Slots) \subseteq Contents(g, o)
      BY <2>1, <3>1, <3>2, RefsAre
    <3>4. IsOpen(g, o) => g.heap[o].at[1] \in DOMAIN g.heap
      BY <2>1, <3>1, ValueIs
    <3> QED BY <3>1, <3>3, <3>4
  <2> QED BY <2>1, <2>2 DEF NothingFreed
<1> QED BY <1>1, CollectorInvariant, PTL

(* The barriers and the order of the marking: no black object refers to a  *)
(* white one, and each gray object that has a gclist is on one list.       *)
THEOREM ColoursRight == GCSpec => []TriColour
<1>1. IInv => TriColour
  <2> SUFFICES ASSUME IInv, g.gcstate = "propagate", closing # "unsafe"
               PROVE  /\ \A o \in DOMAIN g.heap \ g.tmudata :
                           Black(g, o) => \A p \in Refs(g, o, Strong(g.heap[o])) : ~White(g, p)
                      /\ \A o \in DOMAIN g.heap :
                           KindOf(g, o) \in {"table", "weak", "closure", "thread"} =>
                             (g.heap[o].mark = "gray") = (o \in g.gray \cup g.grayagain \cup g.weak)
                      /\ g.gray \cap g.grayagain = {} /\ g.gray \cap g.weak = {} /\ g.grayagain \cap g.weak = {}
    BY DEF TriColour
  <2>1. Good(g) /\ BlackDone(g) /\ Lists(g)
    BY DEF IInv, Intact, Base, Phase, Tri
  <2>2. ASSUME NEW o \in DOMAIN g.heap \ g.tmudata, Black(g, o), NEW p \in Refs(g, o, Strong(g.heap[o]))
        PROVE  ~White(g, p)
    <3>1. Contents(g, o) \subseteq Marked(g)
      BY <2>1, <2>2 DEF BlackDone
    <3>2. Refs(g, o, Strong(g.heap[o])) \subseteq Contents(g, o)
      BY <2>1, RefsAre, StrongIs
    <3> QED BY <3>1, <3>2 DEF Marked, White, Whites
  <2>3. ASSUME NEW o \in DOMAIN g.heap, KindOf(g, o) \in {"table", "weak", "closure", "thread"}
        PROVE  (g.heap[o].mark = "gray") <=> (o \in g.gray \cup g.grayagain \cup g.weak)
    <3>1. Is(o) \in Listable
      BY <2>1, <2>3, ObjectHas DEF Listable
    <3> QED BY <2>1, <3>1 DEF Lists
  <2>4. g.gray \cap g.grayagain = {} /\ g.gray \cap g.weak = {} /\ g.grayagain \cap g.weak = {}
    BY <2>1 DEF Lists
  <2> QED BY <2>2, <2>3, <2>4
<1> QED BY <1>1, CollectorInvariant, PTL

LEMMA FinalizersStep ==
  ASSUME IInv, [GCNext]_lvars, closing # "unsafe", NEW u \in DOMAIN g.heap, KindOf(g, u) = "udata"
  PROVE  /\ u \notin DOMAIN g'.heap =>
              g.heap[u].calls = 1 \/ (closing = "calling" /\ closing' = "no" /\ ~g.heap[u].fin)
         /\ u \in DOMAIN g'.heap => g'.heap[u].calls <= 1
         /\ u \in g'.tmudata \ g.tmudata =>
              closing' = "separated" \/ u \notin Reach(g, {Main, L}, DOMAIN g.heap \ g.tmudata)
<1>1. Good(g) /\ Finalized(g) /\ g.tmudata \subseteq InUse(g) /\ Base(g, L)
  BY DEF IInv, Intact, Base, Rooted
<1>2. Is(u) = "udata"
  BY <1>1, ObjectHas
<1>3. /\ g.heap[u].fin \/ (u \notin g.tmudata /\ ~isdead(g, u))
      /\ g.heap[u].calls = IF g.heap[u].fin /\ u \notin g.tmudata THEN 1 ELSE 0
  BY <1>1, <1>2 DEF Finalized
<1>4. CASE UNCHANGED lvars
  <2>1. g' = g
    BY <1>4 DEF lvars
  <2> QED BY <1>3, <2>1
<1>5. CASE GCNext
  <2>1. Collecting \/ FirstActions \/ OtherActions
    BY <1>5 DEF GCNext, Collecting, FirstActions, OtherActions
  <2>2. Base(g', L') /\ FinalizersRight(g, g', L, closing' = "separated", Ended)
    BY <2>1, Inductive
  <2>3. ASSUME u \notin DOMAIN g'.heap PROVE g.heap[u].calls = 1 \/ (Ended /\ ~g.heap[u].fin)
    <3>1. CASE InUse(g) \subseteq DOMAIN g'.heap
      <4>1. u \notin InUse(g)
        BY <2>3, <3>1
      <4>2. isdead(g, u) /\ u \notin g.tmudata
        BY <1>1, <4>1 DEF InUse
      <4> QED BY <1>3, <4>2
    <3>2. CASE g.tmudata = {} /\ Ended
      BY <1>3, <3>2
    <3>3. CASE g.tmudata = {} /\ AllFinalized(g)
      BY <1>2, <1>3, <3>3 DEF AllFinalized
    <3> QED BY <2>2, <3>1, <3>2, <3>3 DEF FinalizersRight
  <2>4. ASSUME u \in DOMAIN g'.heap PROVE g'.heap[u].calls <= 1
    <3>1. g'.heap[u].calls = IF g'.heap[u].fin /\ u \notin g'.tmudata THEN 1 ELSE 0
      BY <1>2, <2>2, <2>4 DEF Base, Finalized
    <3> QED BY <3>1
  <2>5. ASSUME u \in g'.tmudata \ g.tmudata, closing' # "separated"
        PROVE  u \notin Reach(g, {Main, L}, DOMAIN g.heap \ g.tmudata)
    <3>1. Tri(g) /\ u \in Separated(ProgramMarked(g, L), FALSE)
      BY <2>2, <2>5 DEF FinalizersRight
    <3> QED BY <1>1, <3>1, SeparatedUnreached
  <2> QED BY <2>3, <2>4, <2>5 DEF Ended
<1> QED BY <1>4, <1>5

(* A userdata's finalizer is called once, after the program can no longer  *)
(* come to it, and before it is freed; also by lua_close, but for a        *)
(* userdata that one of its finalizers has made.                           *)
THEOREM FinalizersRunOnce == GCSpec => FinalizedOnce
<1>1. IInv /\ [GCNext]_lvars =>
        [ closing # "unsafe" => \A u \in DOMAIN g.heap : KindOf(g, u) = "udata" =>
          /\ u \notin DOMAIN g'.heap =>
               g.heap[u].calls = 1 \/ (closing = "calling" /\ closing' = "no" /\ ~g.heap[u].fin)
          /\ u \in DOMAIN g'.heap => g'.heap[u].calls <= 1
          /\ u \in g'.tmudata \ g.tmudata =>
               closing' = "separated" \/ u \notin Reach(g, {Main, L}, DOMAIN g.heap \ g.tmudata) ]_lvars
  BY FinalizersStep
<1> QED BY <1>1, CollectorInvariant, PTL DEF GCSpec, FinalizedOnce
=============================================================================
