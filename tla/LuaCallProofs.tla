--------------------------- MODULE LuaCallProofs ---------------------------
(***************************************************************************)
(* For any set of coroutines and any limits: the two stacks of LuaCall     *)
(* stay in step, nCcalls is the depth, and coroutine.status tells the      *)
(* truth.                                                                  *)
(*                                                                         *)
(* The invariant is about a pair of stacks S.  Core(S) holds even in the   *)
(* middle of an operation, where luaD_throw may be called: the C stack is  *)
(* a pile of segments, each one thread's and begun by its lua_resume       *)
(* (Ordered, Segments); every jump buffer and every lua_resume has saved   *)
(* the depth, the handler and the chain of the place where it stands       *)
(* (Counted, Chained, Handlers).  Good(S) adds what holds between          *)
(* operations.  Each operation takes a good S to a good one, and Keeps     *)
(* what the other threads had; luaD_throw, lua_yield and lua_resume are    *)
(* then cuts, leavings and beginnings of a segment.  IInv adds what has    *)
(* become of each coroutine (Fated).                                       *)
(***************************************************************************)
EXTENDS LuaCall, FiniteSetTheorems, WellFoundedInduction, TLAPS

-----------------------------------------------------------------------------

(* A nonempty set of numbers has a least one. *)
LEMMA LeastNumber ==
  ASSUME NEW A \in SUBSET Nat, A # {}
  PROVE  \E x \in A : \A y \in A : x <= y
<1> DEFINE R == OpToRel(<, Nat)
<1>1. IsWellFoundedOn(R, Nat)
  BY NatLessThanWellFounded
<1>2. \A x, y \in Nat : <<x, y>> \in R <=> x < y
  BY DEF OpToRel
<1> HIDE DEF R
<1>3. PICK x \in A : \A y \in A : ~ (<<y, x>> \in R)
  BY <1>1, WFMin
<1>4. ASSUME NEW y \in A PROVE x <= y
  <2>1. x \in Nat /\ y \in Nat /\ ~ (<<y, x>> \in R)
    BY <1>3
  <2>2. ~ (y < x)
    BY <1>2, <2>1
  <2> QED BY <2>1, <2>2
<1> QED BY <1>3, <1>4

(* Induction, with the set of the numbers for which the claim holds. *)
LEMMA Induction ==
  ASSUME NEW A, 0 \in A, \A n \in Nat : n \in A => n + 1 \in A
  PROVE  \A n \in Nat : n \in A
<1> DEFINE B == Nat \ A
<1> SUFFICES ASSUME B # {} PROVE FALSE
  OBVIOUS
<1>1. PICK x \in B : \A y \in B : x <= y
  BY LeastNumber
<1>2. x # 0 /\ x - 1 \in Nat /\ x - 1 \notin B
  BY <1>1
<1> QED BY <1>1, <1>2

(* The greatest number of a set below a bound. *)
LEMMA Greatest ==
  ASSUME NEW n \in Nat, NEW A \in SUBSET (1..n), A # {}
  PROVE  \E x \in A : \A y \in A : y <= x
<1> DEFINE B == {n - x : x \in A}
<1>1. \A x \in A : x \in Nat /\ n - x \in Nat
  OBVIOUS
<1>0. B \in SUBSET Nat /\ B # {}
  BY <1>1
<1>2. PICK m \in B : \A y \in B : m <= y
  BY <1>0, LeastNumber
<1>3. PICK x \in A : m = n - x
  BY <1>2
<1>4. ASSUME NEW y \in A PROVE y <= x
  <2>1. n - x <= n - y
    BY <1>2, <1>3
  <2> QED BY <1>1, <2>1
<1> QED BY <1>4

(* FlattenSeq: what its recursion computes. *)
Flattens(f, s, n) ==
  f = [i \in 1..n |-> IF i = 1 THEN s[i] ELSE f[i - 1] \o s[i]]

(* Its table exists up to every index. *)
LEMMA FlattensExists ==
  ASSUME NEW s
  PROVE  \A n \in Nat : \E f : Flattens(f, s, n)
<1> DEFINE A == {n \in Nat : \E f : Flattens(f, s, n)}
<1>1. 0 \in A
  <2>1. Flattens([i \in 1..0 |-> <<>>], s, 0)
    BY DEF Flattens
  <2> QED BY <2>1
<1>2. ASSUME NEW n \in Nat, n \in A PROVE n + 1 \in A
  <2>1. PICK f : Flattens(f, s, n)
    BY <1>2
  <2> DEFINE g == [i \in 1..(n + 1) |-> IF i = n + 1 THEN IF i = 1 THEN s[i] ELSE f[i - 1] \o s[i]
                                        ELSE f[i]]
  <2>2. \A i \in 1..n : f[i] = IF i = 1 THEN s[i] ELSE f[i - 1] \o s[i]
    BY <2>1 DEF Flattens
  <2>3. \A i \in 1..(n + 1) : g[i] = IF i = 1 THEN s[i] ELSE g[i - 1] \o s[i]
    <3> SUFFICES ASSUME NEW i \in 1..(n + 1) PROVE g[i] = IF i = 1 THEN s[i] ELSE g[i - 1] \o s[i]
      OBVIOUS
    <3>1. i # 1 => i - 1 \in 1..n /\ g[i - 1] = f[i - 1]
      OBVIOUS
    <3>2. CASE i = n + 1
      BY <3>1, <3>2
    <3>3. CASE i # n + 1
      BY <2>2, <3>1, <3>3
    <3> QED BY <3>2, <3>3
  <2>4. g = [i \in 1..(n + 1) |-> g[i]]
    OBVIOUS
  <2> HIDE DEF g
  <2>5. g = [i \in 1..(n + 1) |-> IF i = 1 THEN s[i] ELSE g[i - 1] \o s[i]]
    BY <2>3, <2>4
  <2>6. Flattens(g, s, n + 1)
    BY <2>5 DEF Flattens
  <2> QED BY <2>6
<1> HIDE DEF A
<1>3. \A n \in Nat : n \in A
  BY <1>1, <1>2, Induction
<1> QED BY <1>3 DEF A

(* Two tables agree as far as the shorter one goes. *)
LEMMA FlattensUnique ==
  ASSUME NEW s, NEW n \in Nat, NEW m \in Nat, n <= m,
         NEW f, NEW g, Flattens(f, s, n), Flattens(g, s, m)
  PROVE  \A i \in 1..n : f[i] = g[i]
<1>1. \A i \in 1..n : f[i] = IF i = 1 THEN s[i] ELSE f[i - 1] \o s[i]
  BY DEF Flattens
<1>2. \A i \in 1..n : g[i] = IF i = 1 THEN s[i] ELSE g[i - 1] \o s[i]
  <2>1. \A i \in 1..m : g[i] = IF i = 1 THEN s[i] ELSE g[i - 1] \o s[i]
    BY DEF Flattens
  <2>2. \A i \in 1..n : i \in 1..m
    OBVIOUS
  <2> QED BY <2>1, <2>2
<1> DEFINE A == {i \in 1..n : f[i] # g[i]}
<1> SUFFICES ASSUME A # {} PROVE FALSE
  OBVIOUS
<1>0. A \in SUBSET Nat
  OBVIOUS
<1> HIDE DEF A
<1>3. PICK i \in A : \A j \in A : i <= j
  BY <1>0, LeastNumber
<1>4. CASE i = 1
  BY <1>1, <1>2, <1>3, <1>4 DEF A
<1>5. CASE i # 1
  <2>1. i - 1 \in 1..n
    BY <1>3, <1>5 DEF A
  <2>2. i - 1 \notin A
    BY <1>0, <1>3
  <2>3. f[i - 1] = g[i - 1]
    BY <2>1, <2>2 DEF A
  <2> QED BY <1>1, <1>2, <1>3, <1>5, <2>1, <2>3 DEF A
<1> QED BY <1>4, <1>5

(* FlattenSeq is the last entry of such a table. *)
LEMMA FlattenIs ==
  ASSUME NEW s, Len(s) \in Nat \ {0}
  PROVE  \E f : Flattens(f, s, Len(s)) /\ FlattenSeq(s) = f[Len(s)]
<1> DEFINE f == CHOOSE f : f = [i \in 1..Len(s) |-> IF i = 1 THEN s[i] ELSE f[i - 1] \o s[i]]
<1>1. \E g : g = [i \in 1..Len(s) |-> IF i = 1 THEN s[i] ELSE g[i - 1] \o s[i]]
  BY FlattensExists DEF Flattens
<1>2. f = [i \in 1..Len(s) |-> IF i = 1 THEN s[i] ELSE f[i - 1] \o s[i]]
  BY <1>1
<1>3. FlattenSeq(s) = f[Len(s)]
  BY DEF FlattenSeq
<1> QED BY <1>2, <1>3 DEF Flattens

Own(N, t, i) ==
  IF N[i].t # t \/ i = 1 THEN <<>>
  ELSE CASE N[i].k = "exec" -> [x \in 1..N[i].n |-> "Lua"]
         [] N[i].k = "C" -> <<"C">>
         [] OTHER -> <<>>

(* The CallInfo chain of t that the first i activations expect. *)
Chain(N, t, i) == IF i = 0 THEN <<>> ELSE FlattenSeq([x \in 1..i |-> Own(N, t, x)])

Counts(N, i) == \A x \in 1..i : N[x].n \in Nat

(* What an activation owns is a sequence of functions. *)
LEMMA OwnType == ASSUME NEW N, NEW t, NEW i, N[i].n \in Nat PROVE Own(N, t, i) \in Seq(Funs)
<1>1. [x \in 1..N[i].n |-> "Lua"] \in Seq(Funs)
  BY DEF Funs
<1>2. <<"C">> \in Seq(Funs) /\ <<>> \in Seq(Funs)
  BY DEF Funs
<1> QED BY <1>1, <1>2 DEF Own

(* One more activation appends what it owns. *)
LEMMA ChainStep ==
  ASSUME NEW N, NEW t, NEW i \in Nat, Counts(N, i + 1)
  PROVE  Chain(N, t, i + 1) = Chain(N, t, i) \o Own(N, t, i + 1)
<1> DEFINE s(n) == [x \in 1..n |-> Own(N, t, x)]
<1>0. \A n \in Nat : Len(s(n)) = n /\ \A x \in 1..n : s(n)[x] = Own(N, t, x)
  OBVIOUS
<1>7. \A n \in Nat \ {0} : Chain(N, t, n) = FlattenSeq(s(n))
  BY DEF Chain
<1> HIDE DEF s
<1>1. PICK f : Flattens(f, s(i + 1), i + 1) /\ FlattenSeq(s(i + 1)) = f[i + 1]
  <2>0. Len(s(i + 1)) \in Nat \ {0}
    BY <1>0
  <2>1. \E f : Flattens(f, s(i + 1), Len(s(i + 1))) /\ FlattenSeq(s(i + 1)) = f[Len(s(i + 1))]
    BY <2>0, FlattenIs
  <2> QED BY <1>0, <2>1
<1>2. Chain(N, t, i + 1) = f[i + 1]
  BY <1>1, <1>7
<1>3. f[i + 1] = IF i + 1 = 1 THEN s(i + 1)[i + 1] ELSE f[i] \o s(i + 1)[i + 1]
  <2>1. i + 1 \in 1..(i + 1) /\ (i + 1) - 1 = i
    OBVIOUS
  <2> QED BY <1>1, <2>1 DEF Flattens
<1>4. s(i + 1)[i + 1] = Own(N, t, i + 1)
  BY <1>0
<1>5. CASE i = 0
  <2>1. Own(N, t, 1) = <<>>
    BY DEF Own
  <2> QED BY <1>2, <1>3, <1>4, <1>5, <2>1 DEF Chain
<1>6. CASE i # 0
  <2>1. PICK g : Flattens(g, s(i), i) /\ FlattenSeq(s(i)) = g[i]
    <3>0. Len(s(i)) \in Nat \ {0}
      BY <1>0, <1>6
    <3>1. \E g : Flattens(g, s(i), Len(s(i))) /\ FlattenSeq(s(i)) = g[Len(s(i))]
      BY <3>0, FlattenIs
    <3> QED BY <1>0, <3>1
  <2>2. Chain(N, t, i) = g[i]
    BY <1>6, <1>7, <2>1
  <2>3. Flattens(g, s(i + 1), i)
    <3>1. \A x \in 1..i : s(i)[x] = s(i + 1)[x]
      BY <1>0
    <3>2. [x \in 1..i |-> IF x = 1 THEN s(i)[x] ELSE g[x - 1] \o s(i)[x]]
          = [x \in 1..i |-> IF x = 1 THEN s(i + 1)[x] ELSE g[x - 1] \o s(i + 1)[x]]
      BY <3>1
    <3> QED BY <2>1, <3>2 DEF Flattens
  <2>4. i \in 1..i /\ i <= i + 1 /\ i + 1 \in Nat
    BY <1>6
  <2>5. \A x \in 1..i : g[x] = f[x]
    BY <1>1, <2>3, <2>4, FlattensUnique
  <2>6. i + 1 # 1
    BY <1>6
  <2> QED BY <1>2, <1>3, <1>4, <2>2, <2>4, <2>5, <2>6
<1> QED BY <1>5, <1>6

(* No activation, no entry. *)
LEMMA ChainNone == \A N, t : Chain(N, t, 0) = <<>>
  BY DEF Chain

(* Concatenation is associative, on sequences of functions. *)
LEMMA Associative ==
  ASSUME NEW a \in Seq(Funs), NEW b \in Seq(Funs), NEW c \in Seq(Funs)
  PROVE  (a \o b) \o c = a \o (b \o c)
  OBVIOUS

(* A longer chain begins with a shorter one, and is that chain if the      *)
(* activations between are no entries of the thread's.                     *)
LEMMA ChainGrows ==
  ASSUME NEW N, NEW t, NEW j \in Nat, Chain(N, t, j) \in Seq(Funs), NEW m \in Nat, Counts(N, j + m)
  PROVE  /\ Chain(N, t, j + m) \in Seq(Funs)
         /\ \E s \in Seq(Funs) : /\ Chain(N, t, j + m) = Chain(N, t, j) \o s
                                 /\ (\A x \in (j + 1)..(j + m) : Own(N, t, x) = <<>>) => s = <<>>
<1> DEFINE P(n) == \E s \in Seq(Funs) :
                     /\ Chain(N, t, j + n) = Chain(N, t, j) \o s
                     /\ (\A x \in (j + 1)..(j + n) : Own(N, t, x) = <<>>) => s = <<>>
           A == {n \in Nat : n <= m => P(n)}
<1>1. 0 \in A
  <2>1. Chain(N, t, j + 0) = Chain(N, t, j) \o <<>> /\ <<>> \in Seq(Funs)
    OBVIOUS
  <2> QED BY <2>1
<1>2. ASSUME NEW n \in Nat, n \in A PROVE n + 1 \in A
  <2> HIDE DEF P
  <2> SUFFICES ASSUME n + 1 <= m PROVE P(n + 1)
    OBVIOUS
  <2>0. P(n)
    BY <1>2
  <2> USE DEF P
  <2>1. n <= m /\ j + n \in Nat /\ j + (n + 1) = (j + n) + 1
    OBVIOUS
  <2>2. PICK s \in Seq(Funs) :
           /\ Chain(N, t, j + n) = Chain(N, t, j) \o s
           /\ (\A x \in (j + 1)..(j + n) : Own(N, t, x) = <<>>) => s = <<>>
    BY <2>0
  <2>3. Counts(N, (j + n) + 1) /\ N[(j + n) + 1].n \in Nat
    BY DEF Counts
  <2> DEFINE o == Own(N, t, (j + n) + 1)
  <2>4. o \in Seq(Funs)
    BY <2>3, OwnType
  <2>5. Chain(N, t, (j + n) + 1) = Chain(N, t, j + n) \o o
    BY <2>1, <2>3, ChainStep
  <2> HIDE DEF o
  <2>6. s \o o \in Seq(Funs)
    BY <2>4
  <2>7. Chain(N, t, (j + n) + 1) = Chain(N, t, j) \o (s \o o)
    <3>1. (Chain(N, t, j) \o s) \o o = Chain(N, t, j) \o (s \o o)
      BY <2>2, <2>4, Associative
    <3> QED BY <2>2, <2>5, <3>1
  <2>8. ASSUME \A x \in (j + 1)..(j + (n + 1)) : Own(N, t, x) = <<>> PROVE s \o o = <<>>
    <3>1. s = <<>>
      BY <2>2, <2>8
    <3>2. o = <<>>
      BY <2>8 DEF o
    <3> QED BY <3>1, <3>2
  <2> HIDE DEF A
  <2> QED BY <2>1, <2>6, <2>7, <2>8
<1> HIDE DEF A
<1>3. m \in A
  BY <1>1, <1>2, Induction
<1>4. PICK s \in Seq(Funs) :
         /\ Chain(N, t, j + m) = Chain(N, t, j) \o s
         /\ (\A x \in (j + 1)..(j + m) : Own(N, t, x) = <<>>) => s = <<>>
  BY <1>3 DEF A
<1>5. Chain(N, t, j) \o s \in Seq(Funs)
  OBVIOUS
<1> QED BY <1>4, <1>5

(* A chain is a sequence of functions. *)
LEMMA ChainType ==
  ASSUME NEW N, NEW t, NEW i \in Nat, Counts(N, i)
  PROVE  Chain(N, t, i) \in Seq(Funs)
<1>1. <<>> \in Seq(Funs)
  OBVIOUS
<1>3. Chain(N, t, 0) \in Seq(Funs)
  BY <1>1, ChainNone
<1>2. 0 + i = i
  OBVIOUS
<1> QED BY <1>2, <1>3, ChainGrows

(* The chain of the lower activations is a prefix of the whole chain, and  *)
(* all of it when those above own nothing.                                 *)
LEMMA ChainPrefix ==
  ASSUME NEW N, NEW t, NEW i \in Nat, NEW j \in 0..i, Counts(N, i)
  PROVE  /\ Chain(N, t, j) \in Seq(Funs) /\ Chain(N, t, i) \in Seq(Funs)
         /\ Len(Chain(N, t, j)) <= Len(Chain(N, t, i))
         /\ SubSeq(Chain(N, t, i), 1, Len(Chain(N, t, j))) = Chain(N, t, j)
         /\ (\A x \in (j + 1)..i : Own(N, t, x) = <<>>) => Chain(N, t, i) = Chain(N, t, j)
<1>1. PICK m \in Nat : i = j + m
  <2>1. i - j \in Nat /\ i = j + (i - j)
    OBVIOUS
  <2> QED BY <2>1
<1>2. j \in Nat /\ Counts(N, j)
  BY DEF Counts
<1>3. Chain(N, t, j) \in Seq(Funs)
  BY <1>2, ChainType
<1>4. Chain(N, t, i) \in Seq(Funs)
  BY ChainType
<1>5. PICK s \in Seq(Funs) :
         /\ Chain(N, t, i) = Chain(N, t, j) \o s
         /\ (\A x \in (j + 1)..i : Own(N, t, x) = <<>>) => s = <<>>
  <2>1. j \in Nat /\ m \in Nat /\ Chain(N, t, j) \in Seq(Funs) /\ Counts(N, j + m)
    BY <1>1, <1>2, <1>3
  <2>2. \E s \in Seq(Funs) : /\ Chain(N, t, j + m) = Chain(N, t, j) \o s
                             /\ (\A x \in (j + 1)..(j + m) : Own(N, t, x) = <<>>) => s = <<>>
    BY ONLY <2>1, ChainGrows
  <2> QED BY ONLY <1>1, <2>2
<1>6. ASSUME NEW c \in Seq(Funs)
      PROVE  Len(c) <= Len(c \o s) /\ SubSeq(c \o s, 1, Len(c)) = c /\ c \o <<>> = c
  OBVIOUS
<1> QED BY <1>3, <1>4, <1>5, <1>6

(* The chain depends on what the activations own, and on nothing else. *)
LEMMA ChainSame ==
  ASSUME NEW N, NEW M, NEW t, NEW i \in Nat, \A x \in 1..i : Own(N, t, x) = Own(M, t, x)
  PROVE  Chain(N, t, i) = Chain(M, t, i)
<1>1. [x \in 1..i |-> Own(N, t, x)] = [x \in 1..i |-> Own(M, t, x)]
  OBVIOUS
<1> QED BY <1>1 DEF Chain

-----------------------------------------------------------------------------
DeepKinds == {"call", "resume", "level"}
DeepIn(N, i) == {x \in 1..i : N[x].k \in DeepKinds}
Depth(N, i) == Cardinality(DeepIn(N, i))

(* A depth is a number. *)
LEMMA DepthType == ASSUME NEW N, NEW i \in Nat PROVE Depth(N, i) \in Nat /\ IsFiniteSet(DeepIn(N, i))
<1>1. IsFiniteSet(1..i)
  BY FS_Interval
<1>2. DeepIn(N, i) \in SUBSET (1..i)
  BY DEF DeepIn
<1>3. IsFiniteSet(DeepIn(N, i))
  BY <1>1, <1>2, FS_Subset
<1> QED BY <1>3, FS_CardinalityType DEF Depth

(* One more activation counts if it is of a counted kind. *)
LEMMA DepthStep ==
  ASSUME NEW N, NEW i \in Nat
  PROVE  Depth(N, i + 1) = IF N[i + 1].k \in DeepKinds THEN Depth(N, i) + 1 ELSE Depth(N, i)
<1>1. IsFiniteSet(DeepIn(N, i))
  BY DepthType
<1>4. i + 1 \notin DeepIn(N, i)
  BY DEF DeepIn
<1>2. CASE N[i + 1].k \in DeepKinds
  <2>1. DeepIn(N, i + 1) = DeepIn(N, i) \cup {i + 1}
    BY <1>2 DEF DeepIn
  <2> QED BY <1>1, <1>2, <1>4, <2>1, FS_AddElement DEF Depth
<1>3. CASE N[i + 1].k \notin DeepKinds
  <2>1. DeepIn(N, i + 1) = DeepIn(N, i)
    BY <1>3 DEF DeepIn
  <2> QED BY <1>3, <2>1 DEF Depth
<1> QED BY <1>2, <1>3

(* The depth depends on the kinds of the activations only. *)
LEMMA DepthSame ==
  ASSUME NEW N, NEW M, NEW i \in Nat, \A x \in 1..i : N[x].k = M[x].k
  PROVE  Depth(N, i) = Depth(M, i)
<1>1. DeepIn(N, i) = DeepIn(M, i)
  BY DEF DeepIn
<1> QED BY <1>1 DEF Depth

(* No activation, no depth. *)
LEMMA DepthNone == \A N : Depth(N, 0) = 0
<1> SUFFICES ASSUME NEW N PROVE Depth(N, 0) = 0
  OBVIOUS
<1>1. DeepIn(N, 0) = {}
  BY DEF DeepIn
<1> QED BY <1>1, FS_EmptySet DEF Depth

(* Between equal depths nothing is deep. *)
LEMMA DepthFlat ==
  ASSUME NEW N, NEW i \in Nat, NEW j \in 0..i, Depth(N, i) <= Depth(N, j)
  PROVE  \A x \in (j + 1)..i : N[x].k \notin DeepKinds
<1>1. DeepIn(N, j) \in SUBSET DeepIn(N, i)
  BY DEF DeepIn
<1>2. IsFiniteSet(DeepIn(N, i)) /\ IsFiniteSet(DeepIn(N, j))
  BY DepthType
<1>3. Depth(N, j) <= Depth(N, i) /\ Depth(N, j) \in Nat /\ Depth(N, i) \in Nat
  BY <1>1, <1>2, FS_Subset, DepthType DEF Depth
<1>4. Depth(N, j) = Depth(N, i)
  BY <1>3
<1>5. DeepIn(N, j) = DeepIn(N, i)
  BY <1>1, <1>2, <1>4, FS_Subset DEF Depth
<1> QED BY <1>5 DEF DeepIn

Errs == {"none", "function", "other"}
Places == {"C", "pcall", "exec", "raise", "handler", "level", "call", "resume"}
Thread == [status : {"ok", "yield", "error"}, ci : Seq(Funs), size_ci : Nat, nCcalls : Nat,
           baseCcalls : Nat, errfunc : Errs, top : BOOLEAN]
Activation == [k : Places, t : Threads, n : Nat, nCcalls : Nat, ci : Nat, errfunc : Errs,
               wrap : BOOLEAN]
Stacks == [th : [Threads -> Thread], native : Seq(Activation)]

(* What may run on top of an activation. *)
Above(k) ==
  CASE k = "C"       -> {"call", "pcall", "resume", "raise"}
    [] k = "call"    -> {"C", "exec", "raise"}
    [] k = "exec"    -> {"C", "call", "raise"}
    [] k = "pcall"   -> {"call", "level"}
    [] k = "level"   -> {"level"}
    [] k = "resume"  -> {"exec", "C", "raise"}
    [] k = "raise"   -> {"handler"}
    [] k = "handler" -> {"call"}
    [] OTHER         -> {}
May(N, i) == IF i = 1 THEN {"pcall"} ELSE Above(N[i].k)

Me(S) == S.native[Len(S.native)].t
In(N, t) == \E i \in 1..Len(N) : N[i].t = t
Limit == LUAI_MAXCCALLS + EXTRACCALLS

Typed(S) ==
  /\ S \in Stacks /\ Len(S.native) >= 1 /\ S.native[1] = Frame("C", main)
  /\ \A t \in Threads : S.th[t].size_ci >= BASIC_CI_SIZE

Ordered(N) ==
  /\ \A i \in 2..Len(N) : N[i].k \in May(N, i - 1)
  /\ \A i \in 1..Len(N) : N[i].k = "exec" => N[i].n > 0

(* The activations of a thread lie side by side, over its lua_resume. *)
Begins(N, i) == N[i].t \in Coroutines /\ \A x \in 1..(i - 1) : N[x].t # N[i].t
Segments(N) ==
  /\ \A i \in 2..Len(N) : IF N[i].k = "resume" THEN Begins(N, i) ELSE N[i].t = N[i - 1].t
  /\ \A i, j \in 1..Len(N) :
       i <= j /\ (\A x \in (i + 1)..j : N[x].k # "resume") => N[i].t = N[j].t
  /\ \A i \in 1..Len(N) : N[i].t = main \/ \E r \in 2..i : N[r].k = "resume" /\ N[r].t = N[i].t

Counted(S) ==
  LET N == S.native
  IN  /\ S.th[Me(S)].nCcalls = Depth(N, Len(N))
      /\ S.th[main].baseCcalls = 0
      /\ \A i \in 2..Len(N) :
           /\ N[i].k = "pcall" => N[i].nCcalls = Depth(N, i - 1)
           /\ N[i].k = "resume" => /\ S.th[N[i - 1].t].nCcalls = Depth(N, i - 1)
                                   /\ S.th[N[i].t].baseCcalls = Depth(N, i)
           /\ N[i].k \in {"pcall", "resume"} => Depth(N, i - 1) < Limit

Yielded(c) == Len(c) > 0 /\ c[Len(c)] = "C" /\ \A x \in 1..(Len(c) - 1) : c[x] = "Lua"

Placed(L, N, t) ==
  CASE L.status = "ok" -> L.ci = Chain(N, t, Len(N))
    [] L.status = "yield" -> ~In(N, t) /\ Yielded(L.ci)
    [] OTHER -> ~In(N, t)

Chained(S) ==
  LET N == S.native
  IN  /\ \A t \in Threads : Placed(S.th[t], N, t)
      /\ \A i \in 2..Len(N) : N[i].k = "pcall" => N[i].ci = Len(Chain(N, N[i].t, i - 1))

Protected(N, t, i) == \E x \in 2..i : N[x].k = "pcall" /\ N[x].t = t
Handlers(S) ==
  LET N == S.native
  IN  /\ \A t \in Threads : S.th[t].status # "error" /\ ~Protected(N, t, Len(N)) =>
                              S.th[t].errfunc = "none"
      /\ \A i \in 2..Len(N) : N[i].k = "pcall" /\ ~Protected(N, N[i].t, i - 1) =>
                                N[i].errfunc = "none"

Core(S) ==
  Typed(S) /\ Ordered(S.native) /\ Segments(S.native) /\ Counted(S) /\ Chained(S) /\ Handlers(S)

(* The stacks with the running thread's lua_State and the C stack replaced. *)
With(S, L, M) == [th |-> [S.th EXCEPT ![Me(S)] = L], native |-> M]

-----------------------------------------------------------------------------
(* One more activation leaves those below as they were. *)
LEMMA Appended ==
  ASSUME NEW N \in Seq(Activation), NEW f \in Activation
  PROVE  /\ Append(N, f) \in Seq(Activation) /\ Len(Append(N, f)) = Len(N) + 1 /\ Len(N) \in Nat
         /\ Append(N, f)[Len(N) + 1] = f
         /\ \A x \in 1..Len(N) : Append(N, f)[x] = N[x]
  OBVIOUS

(* So does cutting the stack, below the cut. *)
LEMMA CutOff ==
  ASSUME NEW N \in Seq(Activation), NEW j \in 0..Len(N)
  PROVE  /\ SubSeq(N, 1, j) \in Seq(Activation) /\ Len(SubSeq(N, 1, j)) = j /\ Len(N) \in Nat
         /\ \A x \in 1..j : SubSeq(N, 1, j)[x] = N[x]
  OBVIOUS

(* The facts about the depth and the chains of a prefix. *)
LEMMA PrefixFacts ==
  ASSUME NEW N, NEW M, NEW n \in Nat, \A x \in 1..n : M[x] = N[x]
  PROVE  \A x \in 0..n : /\ Depth(M, x) = Depth(N, x)
                         /\ \A t : Chain(M, t, x) = Chain(N, t, x)
                         /\ \A t : Protected(M, t, x) <=> Protected(N, t, x)
<1> SUFFICES ASSUME NEW x \in 0..n
             PROVE /\ Depth(M, x) = Depth(N, x)
                   /\ \A t : Chain(M, t, x) = Chain(N, t, x)
                   /\ \A t : Protected(M, t, x) <=> Protected(N, t, x)
  OBVIOUS
<1>1. x \in Nat /\ \A y \in 1..x : M[y] = N[y]
  OBVIOUS
<1>2. Depth(M, x) = Depth(N, x)
  BY <1>1, DepthSame
<1>3. \A t : Chain(M, t, x) = Chain(N, t, x)
  <2> TAKE t
  <2>1. \A y \in 1..x : Own(M, t, y) = Own(N, t, y)
    BY <1>1 DEF Own
  <2> QED BY <1>1, <2>1, ChainSame
<1>4. \A t : Protected(M, t, x) <=> Protected(N, t, x)
  BY <1>1 DEF Protected
<1> QED BY <1>2, <1>3, <1>4

(* On a typed stack every chain is a sequence. *)
LEMMA Numbers ==
  ASSUME NEW N \in Seq(Activation)
  PROVE  Len(N) \in Nat /\ \A i \in 0..Len(N) : Counts(N, i) /\ \A t : Chain(N, t, i) \in Seq(Funs)
<1>1. Len(N) \in Nat /\ \A x \in 1..Len(N) : N[x].n \in Nat
  <2>1. Len(N) \in Nat /\ \A x \in 1..Len(N) : N[x] \in Activation
    OBVIOUS
  <2> QED BY <2>1 DEF Activation
<1>2. \A i \in 0..Len(N) : Counts(N, i)
  BY <1>1 DEF Counts
<1> QED BY <1>1, <1>2, ChainType

(* The running thread is running. *)
LEMMA Runs ==
  ASSUME NEW S, Core(S)
  PROVE  /\ Me(S) \in Threads /\ S.th[Me(S)].status = "ok"
         /\ S.native \in Seq(Activation) /\ S.th \in [Threads -> Thread]
         /\ Len(S.native) \in Nat \ {0}
         /\ S.th[Me(S)].ci = Chain(S.native, Me(S), Len(S.native))
         /\ \A t \in Threads : S.th[t].status # "ok" => ~In(S.native, t)
<1>1. /\ S.native \in Seq(Activation) /\ S.th \in [Threads -> Thread]
      /\ Len(S.native) \in Nat \ {0}
  BY DEF Core, Typed, Stacks
<1>2. S.native[Len(S.native)] \in Activation /\ Me(S) \in Threads
  <2>1. Len(S.native) \in 1..Len(S.native)
    BY <1>1
  <2>2. S.native[Len(S.native)] \in Activation
    BY <1>1, <2>1
  <2> QED BY <2>2 DEF Me, Activation
<1>3. In(S.native, Me(S))
  BY <1>1 DEF In, Me
<1>4. \A t \in Threads : S.th[t].status # "ok" => ~In(S.native, t)
  BY DEF Core, Chained, Placed
<1> QED BY <1>1, <1>2, <1>3, <1>4 DEF Core, Chained, Placed

(* What an activation adds to the chain of its thread. *)
Adds(f) ==
  CASE f.k = "exec" -> [x \in 1..f.n |-> "Lua"]
    [] f.k = "C" -> <<"C">>
    [] OTHER -> <<>>
Deeper(f) == IF f.k \in DeepKinds THEN 1 ELSE 0

(* What the topmost activation adds to each thread's chain. *)
LEMMA ChainPush ==
  ASSUME NEW N \in Seq(Activation), NEW i \in 2..Len(N), NEW t
  PROVE  Chain(N, t, i) = IF N[i].t = t THEN Chain(N, t, i - 1) \o Adds(N[i]) ELSE Chain(N, t, i - 1)
<1>1. i - 1 \in Nat /\ (i - 1) + 1 = i /\ i \in 0..Len(N) /\ i - 1 \in 0..Len(N) /\ i # 1
  OBVIOUS
<1>2. Counts(N, (i - 1) + 1) /\ Chain(N, t, i - 1) \in Seq(Funs)
  BY <1>1, Numbers
<1>3. Chain(N, t, i) = Chain(N, t, i - 1) \o Own(N, t, i)
  BY <1>1, <1>2, ChainStep
<1>4. CASE N[i].t = t
  <2>1. Own(N, t, i) = Adds(N[i])
    BY <1>1, <1>4 DEF Own, Adds
  <2> QED BY <1>3, <1>4, <2>1
<1>5. CASE N[i].t # t
  <2>1. Own(N, t, i) = <<>>
    BY <1>1, <1>5 DEF Own
  <2>2. Chain(N, t, i - 1) \o <<>> = Chain(N, t, i - 1)
    BY <1>2
  <2> QED BY <1>3, <1>5, <2>1, <2>2
<1> QED BY <1>4, <1>5

(* What it adds to the depth. *)
LEMMA DepthPush ==
  ASSUME NEW N, NEW i \in Nat \ {0}
  PROVE  Depth(N, i) = Depth(N, i - 1) + Deeper(N[i]) /\ Depth(N, i) \in Nat /\ Depth(N, i - 1) \in Nat
<1>1. i - 1 \in Nat /\ (i - 1) + 1 = i
  OBVIOUS
<1>2. Depth(N, i) \in Nat /\ Depth(N, i - 1) \in Nat
  BY <1>1, DepthType
<1>3. Depth(N, i) = IF N[i].k \in DeepKinds THEN Depth(N, i - 1) + 1 ELSE Depth(N, i - 1)
  BY <1>1, DepthStep
<1> QED BY <1>2, <1>3 DEF Deeper

(* The running thread begins activation f, and its lua_State becomes L. *)
Begun(S, f, L) ==
  /\ f.t = Me(S) /\ f.k # "resume" /\ f.k \in May(S.native, Len(S.native))
  /\ f.k = "exec" => f.n > 0
  /\ L.status = "ok" /\ L.baseCcalls = S.th[Me(S)].baseCcalls /\ L.size_ci >= BASIC_CI_SIZE
  /\ L.nCcalls = S.th[Me(S)].nCcalls + Deeper(f)
  /\ L.ci = S.th[Me(S)].ci \o Adds(f)
  /\ IF f.k = "pcall"
     THEN /\ f.nCcalls = S.th[Me(S)].nCcalls /\ f.nCcalls < Limit
          /\ f.ci = Len(S.th[Me(S)].ci) /\ f.errfunc = S.th[Me(S)].errfunc
     ELSE L.errfunc = S.th[Me(S)].errfunc

(* A new topmost activation of the running thread keeps Core, if the       *)
(* thread is what that activation needs.                                   *)
LEMMA PushCore ==
  ASSUME NEW S, Core(S), NEW f \in Activation, NEW L \in Thread, NEW R,
         R = With(S, L, Append(S.native, f)),
         Begun(S, f, L)
  PROVE  Core(R) /\ Me(R) = Me(S)
<1> R = [th |-> [S.th EXCEPT ![Me(S)] = L], native |-> Append(S.native, f)]
  BY DEF With
<1> /\ f.t = Me(S) /\ f.k # "resume" /\ f.k \in May(S.native, Len(S.native))
    /\ f.k = "exec" => f.n > 0
    /\ L.status = "ok" /\ L.baseCcalls = S.th[Me(S)].baseCcalls /\ L.size_ci >= BASIC_CI_SIZE
    /\ L.nCcalls = S.th[Me(S)].nCcalls + Deeper(f)
    /\ L.ci = S.th[Me(S)].ci \o Adds(f)
    /\ IF f.k = "pcall"
       THEN /\ f.nCcalls = S.th[Me(S)].nCcalls /\ f.nCcalls < Limit
            /\ f.ci = Len(S.th[Me(S)].ci) /\ f.errfunc = S.th[Me(S)].errfunc
       ELSE L.errfunc = S.th[Me(S)].errfunc
  BY DEF Begun
<1> DEFINE N == S.native
           M == R.native
           n == Len(N)
           t == Me(S)
           m == n + 1
<1>1. /\ N \in Seq(Activation) /\ S.th \in [Threads -> Thread] /\ n \in Nat \ {0}
      /\ t \in Threads /\ S.th[t].ci = Chain(N, t, n) /\ t = N[n].t
      /\ \A u \in Threads : S.th[u].status # "ok" => ~In(N, u)
  BY Runs DEF Me
<1>2. /\ M \in Seq(Activation) /\ Len(M) = m /\ M[m] = f /\ \A x \in 1..n : M[x] = N[x]
  <2>1. M = Append(N, f) /\ f \in Activation
    OBVIOUS
  <2> HIDE DEF M, N
  <2> QED BY ONLY <1>1, <2>1, Appended
<1>3. /\ R.th \in [Threads -> Thread] /\ R.th[t] = L
      /\ \A u \in Threads \ {t} : R.th[u] = S.th[u]
  <2>1. R.th = [S.th EXCEPT ![t] = L] /\ L \in Thread
    OBVIOUS
  <2> HIDE DEF N, t
  <2> QED BY ONLY <1>1, <2>1
<1>4. \A x \in 0..n : /\ Depth(M, x) = Depth(N, x)
                      /\ \A u : Chain(M, u, x) = Chain(N, u, x)
                      /\ \A u : Protected(M, u, x) <=> Protected(N, u, x)
  <2>1. n \in Nat /\ \A x \in 1..n : M[x] = N[x]
    BY <1>1, <1>2
  <2> HIDE DEF M, N, n
  <2> QED BY ONLY <2>1, PrefixFacts
<1>5. Me(R) = t
  BY <1>2 DEF Me
<1>6. R \in Stacks
  BY <1>2, <1>3 DEF Stacks
<1> HIDE DEF M, N, n, t, m
<1>7. m = n + 1 /\ m \in 2..m /\ n \in 0..n /\ m \in Nat \ {0} /\ m - 1 = n
  BY <1>1 DEF m
<1>8. Typed(R)
  <2>1. 1 \in 1..n
    BY <1>1
  <2>2. M[1] = Frame("C", main)
    BY <1>2, <2>1 DEF Core, Typed, N
  <2>3. \A u \in Threads : R.th[u].size_ci >= BASIC_CI_SIZE
    BY <1>3 DEF Core, Typed
  <2> QED BY <1>2, <1>6, <1>7, <2>2, <2>3 DEF Typed, M
<1>9. Ordered(M)
  <2>1. ASSUME NEW i \in 2..m PROVE M[i].k \in May(M, i - 1)
    <3>1. CASE i = m
      <4>1. M[n] = N[n]
        BY <1>1, <1>2
      <4> QED BY <1>2, <1>7, <3>1, <4>1 DEF May, N, n
    <3>2. CASE i # m
      <4>1. i \in 2..n /\ i - 1 \in 1..n /\ i \in 1..n
        BY <1>1, <1>7, <3>2
      <4>2. M[i] = N[i] /\ M[i - 1] = N[i - 1]
        BY <1>2, <4>1
      <4> QED BY <4>1, <4>2 DEF Core, Ordered, May, N, n
    <3> QED BY <3>1, <3>2
  <2>2. ASSUME NEW i \in 1..m, M[i].k = "exec" PROVE M[i].n > 0
    <3>1. CASE i = m
      BY <1>2, <2>2, <3>1
    <3>2. CASE i # m
      <4>1. i \in 1..n
        BY <1>1, <1>7, <3>2
      <4> QED BY <1>2, <2>2, <4>1 DEF Core, Ordered, N, n
    <3> QED BY <3>1, <3>2
  <2> QED BY <1>2, <2>1, <2>2 DEF Ordered
<1>10. Segments(M)
  <2>1. ASSUME NEW i \in 2..m PROVE IF M[i].k = "resume" THEN Begins(M, i) ELSE M[i].t = M[i - 1].t
    <3>1. CASE i = m
      BY <1>1, <1>2, <1>7, <3>1 DEF t
    <3>2. CASE i # m
      <4>1. i \in 2..n /\ i - 1 \in 1..n /\ i \in 1..n /\ \A x \in 1..(i - 1) : x \in 1..n
        BY <1>1, <1>7, <3>2
      <4>2. IF N[i].k = "resume" THEN Begins(N, i) ELSE N[i].t = N[i - 1].t
        BY <4>1 DEF Core, Segments, N, n
      <4> QED BY <1>2, <4>1, <4>2 DEF Begins
    <3> QED BY <3>1, <3>2
  <2>2. ASSUME NEW i \in 1..m, NEW j \in 1..m, i <= j, \A x \in (i + 1)..j : M[x].k # "resume"
        PROVE  M[i].t = M[j].t
    <3>1. CASE j # m
      <4>1. i \in 1..n /\ j \in 1..n /\ \A x \in (i + 1)..j : x \in 1..n
        BY <1>1, <1>7, <2>2, <3>1
      <4>2. N[i].t = N[j].t
        BY <1>2, <2>2, <4>1 DEF Core, Segments, N, n
      <4> QED BY <1>2, <4>1, <4>2
    <3>2. CASE j = m /\ i # m
      <4>1. i \in 1..n /\ n \in 1..n /\ i <= n /\ \A x \in (i + 1)..n : x \in 1..n /\ x \in (i + 1)..j
        BY <1>1, <1>7, <2>2, <3>2
      <4>3. \A x \in (i + 1)..n : N[x].k # "resume"
        BY <1>2, <2>2, <4>1
      <4>4. \A x, y \in 1..n : x <= y /\ (\A z \in (x + 1)..y : N[z].k # "resume") => N[x].t = N[y].t
        BY DEF Core, Segments, N, n
      <4>2. N[i].t = N[n].t
        BY ONLY <4>1, <4>3, <4>4
      <4> QED BY <1>1, <1>2, <3>2, <4>1, <4>2 DEF t
    <3> QED BY <3>1, <3>2
  <2>3. ASSUME NEW i \in 1..m
        PROVE  M[i].t = main \/ \E r \in 2..i : M[r].k = "resume" /\ M[r].t = M[i].t
    <3>1. ASSUME NEW l \in 1..n
          PROVE  N[l].t = main \/ \E r \in 2..l : M[r].k = "resume" /\ M[r].t = N[l].t
      <4>1. \A r \in 2..l : r \in 1..n
        BY <1>1
      <4>2. N[l].t = main \/ \E r \in 2..l : N[r].k = "resume" /\ N[r].t = N[l].t
        BY DEF Core, Segments, N, n
      <4> QED BY <1>2, <4>1, <4>2
    <3>2. CASE i = m
      <4>1. n \in 1..n /\ \A r \in 2..n : r \in 2..m
        BY <1>1, <1>7
      <4>2. N[n].t = main \/ \E r \in 2..n : M[r].k = "resume" /\ M[r].t = N[n].t
        BY <3>1, <4>1
      <4>3. M[m].t = N[n].t
        BY <1>1, <1>2 DEF t
      <4> QED BY ONLY <3>2, <4>1, <4>2, <4>3
    <3>3. CASE i # m
      <4>1. i \in 1..n
        BY <1>1, <1>7, <3>3
      <4> QED BY <1>2, <3>1, <4>1
    <3> QED BY <3>2, <3>3
  <2> QED BY <1>2, <2>1, <2>2, <2>3 DEF Segments
<1>11. Depth(M, m) = Depth(N, n) + Deeper(f) /\ Depth(N, n) = S.th[t].nCcalls
  <2>1. Depth(M, m) = Depth(M, n) + Deeper(f)
    BY <1>2, <1>7, DepthPush
  <2> QED BY <1>4, <1>7, <2>1 DEF Core, Counted, N, n, t
<1>12. Counted(R)
  <2>1. R.th[t].nCcalls = Depth(M, m)
    BY <1>3, <1>11 DEF t
  <2>2. R.th[main].baseCcalls = 0
    BY <1>3 DEF Core, Counted, Threads, t
  <2>3. ASSUME NEW i \in 2..m
        PROVE  /\ M[i].k = "pcall" => M[i].nCcalls = Depth(M, i - 1)
               /\ M[i].k = "resume" => /\ R.th[M[i - 1].t].nCcalls = Depth(M, i - 1)
                                       /\ R.th[M[i].t].baseCcalls = Depth(M, i)
               /\ M[i].k \in {"pcall", "resume"} => Depth(M, i - 1) < Limit
    <3>1. CASE i = m
      BY <1>2, <1>4, <1>7, <1>11, <3>1 DEF t
    <3>2. CASE i # m
      <4>1. i \in 2..n /\ i - 1 \in 1..n /\ i \in 1..n /\ i \in 0..n /\ i - 1 \in 0..n
        BY <1>1, <1>7, <3>2
      <4>2. M[i] = N[i] /\ M[i - 1] = N[i - 1] /\ Depth(M, i) = Depth(N, i)
            /\ Depth(M, i - 1) = Depth(N, i - 1)
        BY <1>2, <1>4, <4>1
      <4>3. /\ N[i].k = "pcall" => N[i].nCcalls = Depth(N, i - 1)
            /\ N[i].k = "resume" => /\ S.th[N[i - 1].t].nCcalls = Depth(N, i - 1)
                                    /\ S.th[N[i].t].baseCcalls = Depth(N, i)
            /\ N[i].k \in {"pcall", "resume"} => Depth(N, i - 1) < Limit
        BY <4>1 DEF Core, Counted, N, n
      <4>4. N[i].t \in Threads /\ N[i - 1].t \in Threads
        <5>1. N[i] \in Activation /\ N[i - 1] \in Activation
          BY <1>1, <4>1 DEF n
        <5> QED BY <5>1 DEF Activation
      <4>5. N[i].k = "resume" => N[i - 1].t # t
        <5> SUFFICES ASSUME N[i].k = "resume", N[i - 1].t = t PROVE FALSE
          OBVIOUS
        <5>1. N[n].t = t
          BY <1>1
        <5>2. PICK r \in 2..n : N[r].k = "resume" /\ r > i - 1 /\ \A x \in (r + 1)..n : N[x].k # "resume"
          <6> DEFINE A == {x \in 1..n : x > i - 1 /\ N[x].k = "resume"}
          <6>1. i \in A /\ A \in SUBSET (1..n)
            BY <4>1
          <6>2. PICK r \in A : \A y \in A : y <= r
            BY <1>1, <6>1, Greatest
          <6>3. r \in 2..n /\ r > i - 1 /\ N[r].k = "resume"
            BY <4>1, <6>2
          <6>4. ASSUME NEW x \in (r + 1)..n PROVE N[x].k # "resume"
            BY <4>1, <6>2, <6>3, <6>4
          <6> QED BY <6>3, <6>4
        <5>3. r \in 1..n /\ n \in 1..n /\ r <= n /\ i - 1 \in 1..(r - 1)
          BY <1>1, <4>1, <5>2
        <5>4. N[r].t = N[n].t
          BY <5>2, <5>3 DEF Core, Segments, N, n
        <5>5. N[i - 1].t # N[r].t
          BY <5>2, <5>3 DEF Core, Segments, Begins, N, n
        <5> QED BY <5>1, <5>4, <5>5
      <4>6. R.th[N[i].t].baseCcalls = S.th[N[i].t].baseCcalls
        BY <1>3, <4>4 DEF t
      <4> QED BY <1>3, <4>2, <4>3, <4>4, <4>5, <4>6
    <3> QED BY <3>1, <3>2
  <2> QED BY <1>2, <1>5, <2>1, <2>2, <2>3 DEF Counted, M
<1>13. \A u : Chain(M, u, m) = IF u = t THEN Chain(N, u, n) \o Adds(f) ELSE Chain(N, u, n)
  <2> TAKE u
  <2>0. m \in 2..Len(M)
    BY <1>2, <1>7
  <2>2. Chain(M, u, m) = IF M[m].t = u THEN Chain(M, u, m - 1) \o Adds(M[m]) ELSE Chain(M, u, m - 1)
    BY <1>2, <2>0, ChainPush
  <2>1. Chain(M, u, m) = IF f.t = u THEN Chain(M, u, n) \o Adds(f) ELSE Chain(M, u, n)
    BY <1>2, <1>7, <2>2
  <2> QED BY <1>4, <1>7, <2>1 DEF t
<1>14. \A u : In(M, u) <=> In(N, u)
  <2>1. In(N, t)
    BY <1>1 DEF In, n
  <2>2. \A x \in 1..n : x \in 1..m
    BY <1>7
  <2>3. ASSUME NEW x \in 1..m, x # m PROVE x \in 1..n
    BY <1>1, <1>7, <2>3
  <2>4. M[m].t = t /\ m \in 1..m
    BY <1>2, <1>7 DEF t
  <2> QED BY <1>2, <2>1, <2>2, <2>3, <2>4 DEF In, n
<1>15. Chained(R)
  <2>1. ASSUME NEW u \in Threads
        PROVE  Placed(R.th[u], M, u)
    <3>1. CASE u = t
      <4>1. R.th[u].status = "ok" /\ R.th[u].ci = Chain(N, t, n) \o Adds(f)
        BY <1>1, <1>3, <3>1 DEF t
      <4> QED BY <1>2, <1>13, <3>1, <4>1 DEF Placed
    <3>2. CASE u # t
      <4>1. R.th[u] = S.th[u] /\ Chain(M, u, m) = Chain(N, u, n)
        BY <1>3, <1>13, <3>2
      <4>2. Placed(S.th[u], N, u)
        BY DEF Core, Chained, N
      <4> QED BY <1>2, <1>14, <4>1, <4>2 DEF Placed, n
    <3> QED BY <3>1, <3>2
  <2>2. ASSUME NEW i \in 2..m, M[i].k = "pcall" PROVE M[i].ci = Len(Chain(M, M[i].t, i - 1))
    <3>1. CASE i = m
      <4>1. f.ci = Len(Chain(N, t, n)) /\ f.t = t
        BY <1>1, <1>2, <2>2, <3>1 DEF t
      <4> QED BY <1>2, <1>4, <1>7, <3>1, <4>1
    <3>2. CASE i # m
      <4>1. i \in 2..n /\ i - 1 \in 0..n /\ i \in 1..n
        BY <1>1, <1>7, <3>2
      <4>2. N[i].k = "pcall" => N[i].ci = Len(Chain(N, N[i].t, i - 1))
        BY <4>1 DEF Core, Chained, N, n
      <4> QED BY <1>2, <1>4, <2>2, <4>1, <4>2
    <3> QED BY <3>1, <3>2
  <2> QED BY <1>2, <2>1, <2>2 DEF Chained, M
<1>16. Handlers(R)
  <2>1. \A u : Protected(M, u, m) <=> Protected(N, u, n) \/ (u = t /\ f.k = "pcall")
    <3>1. \A x \in 2..n : x \in 1..n /\ x \in 2..m
      BY <1>7
    <3>2. ASSUME NEW x \in 2..m, x # m PROVE x \in 2..n
      BY <1>1, <1>7, <3>2
    <3>3. M[m] = f /\ m \in 2..m /\ f.t = t
      BY <1>2, <1>7 DEF t
    <3> QED BY <1>2, <3>1, <3>2, <3>3 DEF Protected
  <2>2. ASSUME NEW u \in Threads, R.th[u].status # "error", ~Protected(M, u, m)
        PROVE  R.th[u].errfunc = "none"
    <3>1. ~Protected(N, u, n)
      BY <2>1, <2>2
    <3>2. S.th[u].status # "error" => S.th[u].errfunc = "none"
      BY <3>1 DEF Core, Handlers, N, n
    <3>3. CASE u = t
      <4>1. f.k # "pcall" /\ L.errfunc = S.th[t].errfunc
        BY <2>1, <2>2, <3>3 DEF t
      <4>2. S.th[t].status = "ok"
        BY Runs DEF t
      <4> QED BY <1>3, <3>2, <3>3, <4>1, <4>2
    <3>4. CASE u # t
      BY <1>3, <2>2, <3>2, <3>4
    <3> QED BY <3>3, <3>4
  <2>3. ASSUME NEW i \in 2..m, M[i].k = "pcall", ~Protected(M, M[i].t, i - 1)
        PROVE  M[i].errfunc = "none"
    <3>1. CASE i = m
      <4>1. ~Protected(N, t, n)
        BY <1>2, <1>4, <1>7, <2>3, <3>1 DEF t
      <4>2. S.th[t].status = "ok"
        BY Runs DEF t
      <4>3. S.th[t].errfunc = "none"
        BY <1>1, <4>1, <4>2 DEF Core, Handlers, N, n
      <4> QED BY <1>2, <2>3, <3>1, <4>3 DEF t
    <3>2. CASE i # m
      <4>1. i \in 2..n /\ i - 1 \in 0..n /\ i \in 1..n
        BY <1>1, <1>7, <3>2
      <4>2. N[i].k = "pcall" /\ ~Protected(N, N[i].t, i - 1) => N[i].errfunc = "none"
        BY <4>1 DEF Core, Handlers, N, n
      <4> QED BY <1>2, <1>4, <2>3, <4>1, <4>2
    <3> QED BY <3>1, <3>2
  <2> QED BY <1>2, <2>2, <2>3 DEF Handlers, M
<1> QED BY <1>5, <1>8, <1>9, <1>10, <1>12, <1>15, <1>16 DEF Core, M, t

(* A thread that has resumed another one is not the running thread. *)
LEMMA Suspended ==
  ASSUME NEW S, Core(S), NEW i \in 2..Len(S.native), S.native[i].k = "resume"
  PROVE  S.native[i - 1].t # Me(S)
<1> DEFINE N == S.native
           n == Len(N)
<1>1. n \in Nat \ {0} /\ i - 1 \in 1..n /\ i \in 1..n
  BY Runs
<1> HIDE DEF N, n
<1>2. PICK r \in 2..n : N[r].k = "resume" /\ r > i - 1 /\ \A x \in (r + 1)..n : N[x].k # "resume"
  <2> DEFINE A == {x \in 1..n : x > i - 1 /\ N[x].k = "resume"}
  <2>1. i \in A /\ A \in SUBSET (1..n)
    BY <1>1 DEF N
  <2>2. PICK r \in A : \A y \in A : y <= r
    BY <1>1, <2>1, Greatest
  <2>3. r \in 2..n /\ r > i - 1 /\ N[r].k = "resume"
    BY <1>1, <2>2
  <2>4. ASSUME NEW x \in (r + 1)..n PROVE N[x].k # "resume"
    BY <1>1, <2>2, <2>3, <2>4
  <2> QED BY <2>3, <2>4
<1>3. r \in 1..n /\ n \in 1..n /\ r <= n /\ i - 1 \in 1..(r - 1)
  BY <1>1, <1>2
<1>4. N[r].t = N[n].t
  BY <1>2, <1>3 DEF Core, Segments, N, n
<1>5. N[i - 1].t # N[r].t
  BY <1>2, <1>3 DEF Core, Segments, Begins, N, n
<1> QED BY <1>4, <1>5 DEF Me, N, n

(* A cut stack is typed, ordered and in segments. *)
LEMMA PrefixShape ==
  ASSUME NEW S, Core(S), NEW m \in 1..Len(S.native), NEW M, M = SubSeq(S.native, 1, m)
  PROVE  /\ M \in Seq(Activation) /\ Len(M) = m /\ \A x \in 1..m : M[x] = S.native[x]
         /\ m \in Nat \ {0} /\ M[1] = Frame("C", main)
         /\ Ordered(M) /\ Segments(M)
<1> DEFINE N == S.native
           n == Len(N)
<1>1. n \in Nat \ {0} /\ N \in Seq(Activation)
  BY Runs
<1>2. M \in Seq(Activation) /\ Len(M) = m /\ \A x \in 1..m : M[x] = N[x]
  BY <1>1, CutOff
<1>3. m \in Nat \ {0} /\ 1 \in 1..m
  BY <1>1
<1>4. M[1] = Frame("C", main)
  BY <1>2, <1>3 DEF Core, Typed
<1> HIDE DEF N, n
<1>5. Ordered(M)
  <2>1. ASSUME NEW i \in 2..m PROVE M[i].k \in May(M, i - 1)
    <3>1. i \in 2..n /\ i \in 1..m /\ i - 1 \in 1..m
      BY <1>1, <1>3 DEF N, n
    <3> QED BY <1>2, <3>1 DEF Core, Ordered, May, N, n
  <2>2. ASSUME NEW i \in 1..m, M[i].k = "exec" PROVE M[i].n > 0
    <3>1. i \in 1..n
      BY <1>1, <1>3 DEF N, n
    <3> QED BY <1>2, <2>2, <3>1 DEF Core, Ordered, N, n
  <2> QED BY <1>2, <2>1, <2>2 DEF Ordered
<1>6. Segments(M)
  <2>1. ASSUME NEW i \in 2..m PROVE IF M[i].k = "resume" THEN Begins(M, i) ELSE M[i].t = M[i - 1].t
    <3>1. i \in 2..n /\ i \in 1..m /\ i - 1 \in 1..m /\ \A x \in 1..(i - 1) : x \in 1..m
      BY <1>1, <1>3 DEF N, n
    <3>2. IF N[i].k = "resume" THEN Begins(N, i) ELSE N[i].t = N[i - 1].t
      BY <3>1 DEF Core, Segments, N, n
    <3> QED BY <1>2, <3>1, <3>2 DEF Begins
  <2>2. ASSUME NEW i \in 1..m, NEW j \in 1..m, i <= j, \A x \in (i + 1)..j : M[x].k # "resume"
        PROVE  M[i].t = M[j].t
    <3>1. i \in 1..n /\ j \in 1..n /\ \A x \in (i + 1)..j : x \in 1..m
      BY <1>1, <1>3 DEF N, n
    <3>2. N[i].t = N[j].t
      BY <1>2, <2>2, <3>1 DEF Core, Segments, N, n
    <3> QED BY <1>2, <3>2
  <2>3. ASSUME NEW i \in 1..m
        PROVE  M[i].t = main \/ \E r \in 2..i : M[r].k = "resume" /\ M[r].t = M[i].t
    <3>1. i \in 1..n /\ \A r \in 2..i : r \in 1..m
      BY <1>1, <1>3 DEF N, n
    <3>2. N[i].t = main \/ \E r \in 2..i : N[r].k = "resume" /\ N[r].t = N[i].t
      BY <3>1 DEF Core, Segments, N, n
    <3> QED BY <1>2, <3>1, <3>2
  <2>4. Len(M) = m
    BY <1>2
  <2>5. /\ \A i \in 2..Len(M) : IF M[i].k = "resume" THEN Begins(M, i) ELSE M[i].t = M[i - 1].t
        /\ \A i, j \in 1..Len(M) :
             i <= j /\ (\A x \in (i + 1)..j : M[x].k # "resume") => M[i].t = M[j].t
        /\ \A i \in 1..Len(M) :
             M[i].t = main \/ \E r \in 2..i : M[r].k = "resume" /\ M[r].t = M[i].t
    BY <2>1, <2>2, <2>3, <2>4
  <2> QED BY <2>5 DEF Segments
<1> QED BY <1>2, <1>3, <1>4, <1>5, <1>6 DEF N

(* What the saved places say. *)
Saved(T, M) ==
  \A i \in 2..Len(M) :
     /\ M[i].k = "pcall" => M[i].nCcalls = Depth(M, i - 1)
     /\ M[i].k = "resume" => /\ T[M[i - 1].t].nCcalls = Depth(M, i - 1)
                             /\ T[M[i].t].baseCcalls = Depth(M, i)
     /\ M[i].k \in {"pcall", "resume"} => Depth(M, i - 1) < Limit
     /\ M[i].k = "pcall" => M[i].ci = Len(Chain(M, M[i].t, i - 1))
     /\ M[i].k = "pcall" /\ ~Protected(M, M[i].t, i - 1) => M[i].errfunc = "none"

(* What its activations have saved is right as before. *)
LEMMA PrefixSaved ==
  ASSUME NEW S, Core(S), NEW m \in 1..Len(S.native), NEW M, M = SubSeq(S.native, 1, m),
         NEW T \in [Threads -> Thread],
         \A u \in Threads \ {Me(S)} : T[u] = S.th[u],
         T[Me(S)].baseCcalls = S.th[Me(S)].baseCcalls \/ ~In(M, Me(S))
  PROVE  Saved(T, M)
<1> DEFINE N == S.native
           n == Len(N)
           t == Me(S)
<1>1. n \in Nat \ {0} /\ N \in Seq(Activation)
  BY Runs
<1>2. Len(M) = m /\ \A x \in 1..m : M[x] = N[x]
  BY PrefixShape
<1>3. m \in Nat
  BY <1>1
<1> HIDE DEF N, n, t
<1>4. \A x \in 0..m : /\ Depth(M, x) = Depth(N, x)
                      /\ \A u : Chain(M, u, x) = Chain(N, u, x)
                      /\ \A u : Protected(M, u, x) <=> Protected(N, u, x)
  <2>1. \A x \in 1..m : M[x] = N[x]
    BY <1>2
  <2> QED BY ONLY <2>1, <1>3, PrefixFacts
<1> SUFFICES ASSUME NEW i \in 2..m
             PROVE
           /\ M[i].k = "pcall" => M[i].nCcalls = Depth(M, i - 1)
           /\ M[i].k = "resume" => /\ T[M[i - 1].t].nCcalls = Depth(M, i - 1)
                                   /\ T[M[i].t].baseCcalls = Depth(M, i)
           /\ M[i].k \in {"pcall", "resume"} => Depth(M, i - 1) < Limit
           /\ M[i].k = "pcall" => M[i].ci = Len(Chain(M, M[i].t, i - 1))
           /\ M[i].k = "pcall" /\ ~Protected(M, M[i].t, i - 1) => M[i].errfunc = "none"
  BY <1>2 DEF Saved
<1>5. i \in 2..n /\ i \in 1..m /\ i - 1 \in 1..m /\ i \in 0..m /\ i - 1 \in 0..m
  BY <1>1, <1>3 DEF N, n
<1>6. /\ M[i] = N[i] /\ M[i - 1] = N[i - 1] /\ Depth(M, i) = Depth(N, i)
      /\ Depth(M, i - 1) = Depth(N, i - 1)
      /\ \A u : Chain(M, u, i - 1) = Chain(N, u, i - 1)
      /\ \A u : Protected(M, u, i - 1) <=> Protected(N, u, i - 1)
  BY <1>2, <1>4, <1>5
<1>7. /\ N[i].k = "pcall" => N[i].nCcalls = Depth(N, i - 1)
      /\ N[i].k = "resume" => /\ S.th[N[i - 1].t].nCcalls = Depth(N, i - 1)
                              /\ S.th[N[i].t].baseCcalls = Depth(N, i)
      /\ N[i].k \in {"pcall", "resume"} => Depth(N, i - 1) < Limit
  BY <1>5 DEF Core, Counted, N, n
<1>8. /\ N[i].k = "pcall" => N[i].ci = Len(Chain(N, N[i].t, i - 1))
      /\ N[i].k = "pcall" /\ ~Protected(N, N[i].t, i - 1) => N[i].errfunc = "none"
  BY <1>5 DEF Core, Chained, Handlers, N, n
<1>9. N[i].t \in Threads /\ N[i - 1].t \in Threads
  <2>1. N[i] \in Activation /\ N[i - 1] \in Activation
    BY <1>1, <1>5 DEF n
  <2> QED BY <2>1 DEF Activation
<1>10. N[i].k = "resume" => N[i - 1].t # t
  BY <1>5, Suspended DEF N, n, t
<1>11. In(M, N[i].t)
  BY <1>2, <1>5 DEF In
<1>12. T[N[i].t].baseCcalls = S.th[N[i].t].baseCcalls
  BY <1>9, <1>11 DEF t
<1> QED BY <1>6, <1>7, <1>8, <1>9, <1>10, <1>12 DEF t

SameThreads(S, R) == \A u : In(R.native, u) <=> In(S.native, u)

(* The running thread drops activation j and those on top, and its         *)
(* lua_State becomes L.                                                    *)
Dropped(S, j, L) ==
  /\ \A x \in j..Len(S.native) : S.native[x].k # "resume"
  /\ L.status = "ok" /\ L.baseCcalls = S.th[Me(S)].baseCcalls /\ L.size_ci >= BASIC_CI_SIZE
  /\ L.nCcalls = Depth(S.native, j - 1) /\ L.ci = Chain(S.native, Me(S), j - 1)
  /\ ~Protected(S.native, Me(S), j - 1) => L.errfunc = "none"

(* Cutting the stack within the running thread keeps Core, if the thread   *)
(* is what the rest needs.                                                 *)
LEMMA CutCore ==
  ASSUME NEW S, Core(S), NEW j \in 2..Len(S.native), NEW L \in Thread, NEW R,
         R = With(S, L, SubSeq(S.native, 1, j - 1)),
         Dropped(S, j, L)
  PROVE  Core(R) /\ Me(R) = Me(S) /\ SameThreads(S, R)
<1> R = [th |-> [S.th EXCEPT ![Me(S)] = L], native |-> SubSeq(S.native, 1, j - 1)]
  BY DEF With
<1> /\ \A x \in j..Len(S.native) : S.native[x].k # "resume"
    /\ L.status = "ok" /\ L.baseCcalls = S.th[Me(S)].baseCcalls /\ L.size_ci >= BASIC_CI_SIZE
    /\ L.nCcalls = Depth(S.native, j - 1) /\ L.ci = Chain(S.native, Me(S), j - 1)
    /\ ~Protected(S.native, Me(S), j - 1) => L.errfunc = "none"
  BY DEF Dropped
<1> DEFINE N == S.native
           M == R.native
           n == Len(N)
           t == Me(S)
           m == j - 1
<1>1. /\ N \in Seq(Activation) /\ S.th \in [Threads -> Thread] /\ n \in Nat \ {0}
      /\ t \in Threads /\ t = N[n].t
      /\ \A u \in Threads : S.th[u].status # "ok" => ~In(N, u)
  BY Runs DEF Me
<1>2. m \in 1..n /\ M = SubSeq(N, 1, m)
  <2>1. m \in 1..n
    BY <1>1
  <2> QED BY <2>1
<1>3. /\ M \in Seq(Activation) /\ Len(M) = m /\ \A x \in 1..m : M[x] = N[x]
      /\ m \in Nat \ {0} /\ M[1] = Frame("C", main)
      /\ Ordered(M) /\ Segments(M)
  BY <1>2, PrefixShape
<1>4. /\ R.th \in [Threads -> Thread] /\ R.th[t] = L
      /\ \A u \in Threads \ {t} : R.th[u] = S.th[u]
  BY <1>1
<1>5. \A x \in 0..m : /\ Depth(M, x) = Depth(N, x)
                      /\ \A u : Chain(M, u, x) = Chain(N, u, x)
                      /\ \A u : Protected(M, u, x) <=> Protected(N, u, x)
  BY <1>3, PrefixFacts
<1>6. R \in Stacks
  BY <1>3, <1>4 DEF Stacks
<1>7. Saved(R.th, M)
  <2>1. /\ m \in 1..Len(S.native) /\ M = SubSeq(S.native, 1, m) /\ R.th \in [Threads -> Thread]
        /\ \A u \in Threads \ {Me(S)} : R.th[u] = S.th[u]
        /\ R.th[Me(S)].baseCcalls = S.th[Me(S)].baseCcalls
    BY <1>2, <1>4
  <2> HIDE DEF M, N, n, t, m
  <2> QED BY <2>1, PrefixSaved
<1> HIDE DEF M, N, n, t, m
<1>8. \A x \in m..n : x \in 1..n /\ N[x].t = t
  <2> TAKE x \in m..n
  <2>1. x \in 1..n /\ n \in 1..n /\ x <= n /\ \A y \in (x + 1)..n : y \in j..Len(S.native)
    BY <1>1, <1>2 DEF m, n, N
  <2>2. \A y \in (x + 1)..n : N[y].k # "resume"
    BY <2>1 DEF N
  <2>3. N[x].t = N[n].t
    BY <2>1, <2>2 DEF Core, Segments, N, n
  <2> QED BY <1>1, <2>1, <2>3
<1>9. m \in 0..m /\ m \in 0..n /\ m \in m..n /\ m \in 1..m /\ n \in 0..n
  BY <1>1, <1>2, <1>3
<1>10. Me(R) = t
  BY <1>3, <1>8, <1>9 DEF Me, M
<1>11. Typed(R)
  <2>1. \A u \in Threads : R.th[u].size_ci >= BASIC_CI_SIZE
    BY <1>4 DEF Core, Typed, t
  <2> QED BY <1>3, <1>6, <2>1 DEF Typed, M
<1>12. Counted(R)
  <2>1. R.th[t].nCcalls = Depth(M, m)
    BY <1>4, <1>5, <1>9 DEF t, N, m
  <2>2. R.th[main].baseCcalls = 0
    BY <1>4 DEF Core, Counted, Threads, t
  <2> QED BY <1>3, <1>7, <1>10, <2>1, <2>2 DEF Counted, Saved, M
<1>13. \A u : In(M, u) <=> In(N, u)
  <2>1. \A x \in 1..m : x \in 1..n
    BY <1>1, <1>2
  <2>2. ASSUME NEW x \in 1..n, x \notin 1..m PROVE x \in m..n
    BY <1>1, <1>2, <2>2
  <2> QED BY <1>3, <1>8, <1>9, <2>1, <2>2 DEF In, n
<1>14. \A u : u # t => Chain(N, u, n) = Chain(N, u, m)
  <2> SUFFICES ASSUME NEW u, u # t PROVE Chain(N, u, n) = Chain(N, u, m)
    OBVIOUS
  <2>1. \A x \in (m + 1)..n : Own(N, u, x) = <<>>
    <3>1. \A x \in (m + 1)..n : x \in m..n
      BY <1>1, <1>2
    <3> QED BY <1>8, <3>1 DEF Own
  <2>2. Counts(N, n)
    BY <1>1, <1>9, Numbers DEF n
  <2> QED BY <1>1, <1>9, <2>1, <2>2, ChainPrefix
<1>15. Chained(R)
  <2>1. ASSUME NEW u \in Threads PROVE Placed(R.th[u], M, u)
    <3>1. CASE u = t
      <4>1. R.th[u].status = "ok" /\ R.th[u].ci = Chain(N, t, m)
        BY <1>4, <3>1 DEF t, N, m
      <4> QED BY <1>3, <1>5, <1>9, <3>1, <4>1 DEF Placed
    <3>2. CASE u # t
      <4>1. R.th[u] = S.th[u] /\ Chain(M, u, m) = Chain(N, u, n)
        BY <1>4, <1>5, <1>9, <1>14, <3>2
      <4>2. Placed(S.th[u], N, u)
        BY DEF Core, Chained, N
      <4> QED BY <1>3, <1>13, <4>1, <4>2 DEF Placed, n
    <3> QED BY <3>1, <3>2
  <2> QED BY <1>3, <1>7, <2>1 DEF Chained, Saved, M
<1>16. Handlers(R)
  <2>1. ASSUME NEW u \in Threads, R.th[u].status # "error", ~Protected(M, u, m)
        PROVE  R.th[u].errfunc = "none"
    <3>1. ~Protected(N, u, m)
      BY <1>5, <1>9, <2>1
    <3>2. CASE u = t
      BY <1>4, <3>1, <3>2 DEF t, N, m
    <3>3. CASE u # t
      <4>1. ~Protected(N, u, n)
        <5>1. ASSUME NEW x \in 2..n, N[x].t = u PROVE x \in 2..m
          <6>1. x \notin m..n
            BY <1>8, <3>3, <5>1
          <6> QED BY <1>1, <1>2, <6>1
        <5> QED BY <3>1, <5>1 DEF Protected
      <4>2. S.th[u].status # "error" => S.th[u].errfunc = "none"
        BY <4>1 DEF Core, Handlers, N, n
      <4> QED BY <1>4, <2>1, <3>3, <4>2
    <3> QED BY <3>2, <3>3
  <2> QED BY <1>3, <1>7, <2>1 DEF Handlers, Saved, M
<1> QED BY <1>3, <1>10, <1>11, <1>12, <1>13, <1>15, <1>16 DEF Core, SameThreads, M, N, t

OtherThreads(S, R) == \A u : In(R.native, u) <=> In(S.native, u) /\ u # Me(S)

(* The running thread, a coroutine, drops all its activations. *)
Left(S, j, L) ==
  /\ S.native[j].k = "resume"
  /\ \A x \in (j + 1)..Len(S.native) : S.native[x].k # "resume"
  /\ L.size_ci >= BASIC_CI_SIZE
  /\ \/ L.status = "error"
     \/ L.status = "yield" /\ Yielded(L.ci) /\ L.errfunc = "none"
     \/ L.status = "ok" /\ L.ci = <<>> /\ L.errfunc = "none"

(* Cutting the whole of the running thread off keeps Core: the thread that *)
(* resumed it runs.                                                        *)
LEMMA LeaveCore ==
  ASSUME NEW S, Core(S), NEW j \in 2..Len(S.native), NEW L \in Thread, NEW R,
         R = With(S, L, SubSeq(S.native, 1, j - 1)),
         Left(S, j, L)
  PROVE  Core(R) /\ Me(R) = S.native[j - 1].t /\ Me(S) \in Coroutines /\ OtherThreads(S, R)
<1> R = [th |-> [S.th EXCEPT ![Me(S)] = L], native |-> SubSeq(S.native, 1, j - 1)]
  BY DEF With
<1> /\ S.native[j].k = "resume"
    /\ \A x \in (j + 1)..Len(S.native) : S.native[x].k # "resume"
    /\ L.size_ci >= BASIC_CI_SIZE
    /\ \/ L.status = "error"
       \/ L.status = "yield" /\ Yielded(L.ci) /\ L.errfunc = "none"
       \/ L.status = "ok" /\ L.ci = <<>> /\ L.errfunc = "none"
  BY DEF Left
<1> DEFINE N == S.native
           M == R.native
           n == Len(N)
           t == Me(S)
           m == j - 1
<1>1. /\ N \in Seq(Activation) /\ S.th \in [Threads -> Thread] /\ n \in Nat \ {0}
      /\ t \in Threads /\ t = N[n].t
      /\ \A u \in Threads : S.th[u].status # "ok" => ~In(N, u)
  BY Runs DEF Me
<1>2. m \in 1..n /\ M = SubSeq(N, 1, m)
  <2>1. m \in 1..n
    BY <1>1
  <2> QED BY <2>1
<1>3. /\ M \in Seq(Activation) /\ Len(M) = m /\ \A x \in 1..m : M[x] = N[x]
      /\ m \in Nat \ {0} /\ M[1] = Frame("C", main)
      /\ Ordered(M) /\ Segments(M)
  BY <1>2, PrefixShape
<1>4. /\ R.th \in [Threads -> Thread] /\ R.th[t] = L
      /\ \A u \in Threads \ {t} : R.th[u] = S.th[u]
  BY <1>1
<1>5. \A x \in 0..m : /\ Depth(M, x) = Depth(N, x)
                      /\ \A u : Chain(M, u, x) = Chain(N, u, x)
                      /\ \A u : Protected(M, u, x) <=> Protected(N, u, x)
  BY <1>3, PrefixFacts
<1>6. R \in Stacks
  BY <1>3, <1>4 DEF Stacks
<1> HIDE DEF M, N, n, t, m
<1>8. \A x \in (m + 1)..n : x \in 1..n /\ N[x].t = t
  <2> TAKE x \in (m + 1)..n
  <2>1. /\ x \in 1..n /\ n \in 1..n /\ x <= n
        /\ \A y \in (x + 1)..n : y \in (j + 1)..Len(S.native)
    BY <1>1, <1>2 DEF m, n, N
  <2>2. \A y \in (x + 1)..n : N[y].k # "resume"
    BY <2>1 DEF N
  <2>3. N[x].t = N[n].t
    BY <2>1, <2>2 DEF Core, Segments, N, n
  <2> QED BY <1>1, <2>1, <2>3
<1>9. m \in 0..m /\ m \in 0..n /\ j \in (m + 1)..n /\ j \in 2..n /\ m \in 1..m /\ n \in 0..n /\ m = j - 1
  BY <1>1, <1>2, <1>3 DEF m, n, N
<1>10. t \in Coroutines /\ \A x \in 1..m : N[x].t # t
  <2>1. Begins(N, j)
    BY <1>9 DEF Core, Segments, N, n
  <2> QED BY <1>8, <1>9, <2>1 DEF Begins, m
<1>13. \A u : In(M, u) <=> In(N, u) /\ u # t
  <2>1. \A x \in 1..m : x \in 1..n
    BY <1>1, <1>2
  <2>2. ASSUME NEW x \in 1..n, x \notin 1..m PROVE x \in (m + 1)..n
    BY <1>1, <1>2, <2>2
  <2> QED BY <1>3, <1>8, <1>10, <2>1, <2>2 DEF In, n
<1>7. Saved(R.th, M)
  <2>1. /\ m \in 1..Len(S.native) /\ M = SubSeq(S.native, 1, m) /\ R.th \in [Threads -> Thread]
        /\ \A u \in Threads \ {Me(S)} : R.th[u] = S.th[u]
        /\ ~In(M, Me(S))
    BY <1>2, <1>4, <1>13 DEF N, n, t
  <2> QED BY <2>1, PrefixSaved
<1>14. Me(R) = N[m].t /\ Me(R) \in Threads /\ Me(R) # t
  <2>1. N[m] \in Activation
    BY <1>1, <1>2 DEF n
  <2>2. N[m].t \in Threads
    BY <2>1 DEF Activation
  <2> QED BY <1>3, <1>9, <1>10, <2>2 DEF Me, M
<1>11. Typed(R)
  <2>1. \A u \in Threads : R.th[u].size_ci >= BASIC_CI_SIZE
    BY <1>4 DEF Core, Typed, t
  <2> QED BY <1>3, <1>6, <2>1 DEF Typed, M
<1>12. Counted(R)
  <2>1. S.th[N[m].t].nCcalls = Depth(N, m)
    BY <1>9 DEF Core, Counted, N, n
  <2>2. R.th[Me(R)].nCcalls = Depth(M, m)
    BY <1>4, <1>5, <1>9, <1>14, <2>1
  <2>3. R.th[main].baseCcalls = 0
    BY <1>4, <1>10, LuaCallAssumption DEF Core, Counted, Threads
  <2> QED BY <1>3, <1>7, <2>2, <2>3 DEF Counted, Saved, M
<1>15. \A u : Chain(M, u, m) = IF u = t THEN <<>> ELSE Chain(N, u, n)
  <2> TAKE u
  <2>1. Counts(N, n) /\ Counts(N, m)
    BY <1>1, <1>9, Numbers DEF n
  <2>2. CASE u = t
    <3>1. \A x \in (0 + 1)..m : Own(N, u, x) = <<>>
      BY <1>10, <2>2 DEF Own
    <3>2. 0 \in 0..m /\ m \in Nat
      BY <1>9
    <3>3. Chain(N, u, m) = Chain(N, u, 0)
      BY <2>1, <3>1, <3>2, ChainPrefix
    <3> QED BY <1>5, <1>9, <2>2, <3>3, ChainNone
  <2>3. CASE u # t
    <3>1. \A x \in (m + 1)..n : Own(N, u, x) = <<>>
      BY <1>8, <2>3 DEF Own
    <3>2. Chain(N, u, n) = Chain(N, u, m)
      BY <1>1, <1>9, <2>1, <3>1, ChainPrefix
    <3> QED BY <1>5, <1>9, <2>3, <3>2
  <2> QED BY <2>2, <2>3
<1>16. Chained(R)
  <2>1. ASSUME NEW u \in Threads PROVE Placed(R.th[u], M, u)
    <3>1. CASE u = t
      BY <1>3, <1>4, <1>13, <1>15, <3>1 DEF Placed
    <3>2. CASE u # t
      <4>1. R.th[u] = S.th[u] /\ Chain(M, u, m) = Chain(N, u, n)
        BY <1>4, <1>15, <3>2
      <4>2. Placed(S.th[u], N, u)
        BY DEF Core, Chained, N
      <4> QED BY <1>3, <1>13, <4>1, <4>2 DEF Placed, n
    <3> QED BY <3>1, <3>2
  <2> QED BY <1>3, <1>7, <2>1 DEF Chained, Saved, M
<1>17. Handlers(R)
  <2>1. ASSUME NEW u \in Threads, R.th[u].status # "error", ~Protected(M, u, m)
        PROVE  R.th[u].errfunc = "none"
    <3>1. CASE u = t
      BY <1>4, <2>1, <3>1
    <3>2. CASE u # t
      <4>1. ~Protected(N, u, n)
        <5>1. ASSUME NEW x \in 2..n, N[x].t = u PROVE x \in 2..m
          <6>1. x \notin (m + 1)..n
            BY <1>8, <3>2, <5>1
          <6> QED BY <1>1, <1>2, <6>1
        <5>2. ~Protected(N, u, m)
          BY <1>5, <1>9, <2>1
        <5> QED BY <5>1, <5>2 DEF Protected
      <4>2. S.th[u].status # "error" => S.th[u].errfunc = "none"
        BY <4>1 DEF Core, Handlers, N, n
      <4> QED BY <1>4, <2>1, <3>2, <4>2
    <3> QED BY <3>1, <3>2
  <2> QED BY <1>3, <1>7, <2>1 DEF Handlers, Saved, M
<1> QED BY <1>3, <1>9, <1>10, <1>11, <1>12, <1>13, <1>14, <1>16, <1>17 DEF Core, OtherThreads, M, N, t, m

(* What the stacks say does not depend on the sizes of arrays, nor on the  *)
(* counts of threads that have no activation.                              *)
LEMMA TouchCore ==
  ASSUME NEW S, Core(S), NEW R, R \in Stacks, R.native = S.native,
         \A u \in Threads :
           /\ R.th[u].status = S.th[u].status /\ R.th[u].ci = S.th[u].ci
           /\ R.th[u].baseCcalls = S.th[u].baseCcalls /\ R.th[u].errfunc = S.th[u].errfunc
           /\ R.th[u].size_ci >= BASIC_CI_SIZE
           /\ R.th[u].nCcalls = S.th[u].nCcalls \/ ~In(S.native, u)
  PROVE  Core(R) /\ Me(R) = Me(S)
<1> DEFINE N == S.native
           n == Len(N)
<1>1. n \in Nat \ {0} /\ N \in Seq(Activation) /\ Me(S) \in Threads
  BY Runs
<1>2. \A i \in 1..n : N[i].t \in Threads /\ In(N, N[i].t)
  <2> TAKE i \in 1..n
  <2>1. N[i] \in Activation
    BY <1>1
  <2> QED BY <2>1 DEF Activation, In
<1> HIDE DEF N, n
<1>3. Me(R) = Me(S)
  BY DEF Me
<1>4. Typed(R)
  BY DEF Core, Typed
<1>5. Counted(R)
  <2>1. Me(S) = N[n].t /\ n \in 1..n /\ main \in Threads
    BY <1>1 DEF Me, N, n, Threads
  <2>2. \A i \in 2..n : i \in 1..n /\ i - 1 \in 1..n
    BY <1>1
  <2>3. R.th[Me(S)].nCcalls = S.th[Me(S)].nCcalls
    BY <1>2, <2>1 DEF N
  <2>4. \A i \in 2..n : /\ R.th[N[i - 1].t].nCcalls = S.th[N[i - 1].t].nCcalls
                        /\ R.th[N[i].t].baseCcalls = S.th[N[i].t].baseCcalls
    BY <1>2, <2>2 DEF N
  <2>5. Counted(S) /\ R.native = N
    BY DEF Core, N
  <2>6. R.th[main].baseCcalls = S.th[main].baseCcalls
    BY <2>1
  <2>7. N = S.native /\ Len(R.native) = n /\ Len(S.native) = n
    BY <2>5 DEF N, n
  <2> QED BY ONLY <1>3, <2>3, <2>4, <2>5, <2>6, <2>7 DEF Counted
<1>6. Chained(R)
  BY DEF Core, Chained, Placed
<1>7. Handlers(R)
  BY DEF Core, Handlers
<1> QED BY <1>3, <1>4, <1>5, <1>6, <1>7 DEF Core

(* lua_resume begins: an activation for a thread that had none. *)
LEMMA ResumeCore ==
  ASSUME NEW S, Core(S), NEW f \in Activation, f.k = "resume", NEW co \in Coroutines, f.t = co,
         ~In(S.native, co), "resume" \in May(S.native, Len(S.native)),
         S.th[Me(S)].nCcalls < Limit,
         NEW L \in Thread, NEW R,
         R = [th |-> [S.th EXCEPT ![co] = L], native |-> Append(S.native, f)],
         L.status = "ok", L.ci = <<>>, L.errfunc = "none", L.size_ci >= BASIC_CI_SIZE,
         L.nCcalls = S.th[Me(S)].nCcalls + 1, L.baseCcalls = L.nCcalls
  PROVE  Core(R) /\ Me(R) = co
<1> DEFINE N == S.native
           M == R.native
           n == Len(N)
           m == n + 1
<1>1. /\ N \in Seq(Activation) /\ S.th \in [Threads -> Thread] /\ n \in Nat \ {0}
      /\ Me(S) \in Threads /\ Me(S) = N[n].t /\ co \in Threads /\ co # main
      /\ \A u \in Threads : S.th[u].status # "ok" => ~In(N, u)
  BY Runs, LuaCallAssumption DEF Me, Threads
<1>2. /\ M \in Seq(Activation) /\ Len(M) = m /\ M[m] = f /\ \A x \in 1..n : M[x] = N[x]
  BY <1>1, Appended
<1>3. /\ R.th \in [Threads -> Thread] /\ R.th[co] = L
      /\ \A u \in Threads \ {co} : R.th[u] = S.th[u]
  BY <1>1
<1>6. R \in Stacks
  BY <1>2, <1>3 DEF Stacks
<1>5. Me(R) = co
  BY <1>2 DEF Me
<1>0. M = R.native /\ N = S.native
  OBVIOUS
<1> HIDE DEF M, N, n, m
<1>4. \A x \in 0..n : /\ Depth(M, x) = Depth(N, x)
                      /\ \A u : Chain(M, u, x) = Chain(N, u, x)
                      /\ \A u : Protected(M, u, x) <=> Protected(N, u, x)
  <2>1. n \in Nat /\ \A x \in 1..n : M[x] = N[x]
    BY <1>1, <1>2
  <2> QED BY <2>1, PrefixFacts
<1>7. m = n + 1 /\ m \in 2..m /\ n \in 0..n /\ n \in 1..n /\ m \in Nat \ {0} /\ m - 1 = n
  BY <1>1 DEF m
<1>8. Typed(R)
  <2>1. 1 \in 1..n
    BY <1>1
  <2>2. M[1] = Frame("C", main)
    BY <1>2, <2>1 DEF Core, Typed, N
  <2>3. \A u \in Threads : R.th[u].size_ci >= BASIC_CI_SIZE
    BY <1>3 DEF Core, Typed
  <2> QED BY <1>0, <1>2, <1>6, <1>7, <2>2, <2>3 DEF Typed
<1>20. ASSUME NEW i \in 2..m, i # m
       PROVE  i \in 2..n /\ i - 1 \in 1..n /\ i \in 1..n /\ i \in 0..n /\ i - 1 \in 0..n
  BY <1>1, <1>7, <1>20
<1>9. Ordered(M)
  <2>1. ASSUME NEW i \in 2..m PROVE M[i].k \in May(M, i - 1)
    <3>1. CASE i = m
      BY <1>2, <1>7, <3>1 DEF May, N, n
    <3>2. CASE i # m
      <4>1. N[i].k \in May(N, i - 1)
        BY <1>20, <3>2 DEF Core, Ordered, N, n
      <4> QED BY <1>2, <1>20, <3>2, <4>1 DEF May
    <3> QED BY <3>1, <3>2
  <2>2. ASSUME NEW i \in 1..m, M[i].k = "exec" PROVE M[i].n > 0
    <3>1. CASE i = m
      BY <1>2, <2>2, <3>1
    <3>2. CASE i # m
      <4>1. i \in 1..n
        BY <1>1, <1>7, <3>2
      <4> QED BY <1>2, <2>2, <4>1 DEF Core, Ordered, N, n
    <3> QED BY <3>1, <3>2
  <2> QED BY <1>2, <2>1, <2>2 DEF Ordered
<1>10. \A x \in 1..n : N[x].t # co
  BY DEF In, N, n
<1>11. Segments(M)
  <2>1. ASSUME NEW i \in 2..m PROVE IF M[i].k = "resume" THEN Begins(M, i) ELSE M[i].t = M[i - 1].t
    <3>1. CASE i = m
      BY <1>2, <1>7, <1>10, <3>1 DEF Begins
    <3>2. CASE i # m
      <4>1. \A x \in 1..(i - 1) : x \in 1..n
        BY <1>1, <1>20, <3>2
      <4>2. IF N[i].k = "resume" THEN Begins(N, i) ELSE N[i].t = N[i - 1].t
        BY <1>20, <3>2 DEF Core, Segments, N, n
      <4> QED BY <1>2, <1>20, <3>2, <4>1, <4>2 DEF Begins
    <3> QED BY <3>1, <3>2
  <2>2. ASSUME NEW i \in 1..m, NEW j \in 1..m, i <= j, \A x \in (i + 1)..j : M[x].k # "resume"
        PROVE  M[i].t = M[j].t
    <3>1. CASE j # m
      <4>1. i \in 1..n /\ j \in 1..n /\ \A x \in (i + 1)..j : x \in 1..n
        BY <1>1, <1>7, <2>2, <3>1
      <4>3. \A x \in (i + 1)..j : N[x].k # "resume"
        BY <1>2, <2>2, <4>1
      <4>2. N[i].t = N[j].t
        BY <2>2, <4>1, <4>3 DEF Core, Segments, N, n
      <4> QED BY <1>2, <4>1, <4>2
    <3>2. CASE j = m /\ i # m
      <4>1. m \in (i + 1)..j
        BY <1>1, <1>7, <2>2, <3>2
      <4> QED BY <1>2, <2>2, <4>1
    <3> QED BY <3>1, <3>2
  <2>3. ASSUME NEW i \in 1..m
        PROVE  M[i].t = main \/ \E r \in 2..i : M[r].k = "resume" /\ M[r].t = M[i].t
    <3>2. CASE i = m
      BY <1>2, <1>7, <3>2
    <3>3. CASE i # m
      <4>1. i \in 1..n /\ \A r \in 2..i : r \in 1..n
        BY <1>1, <1>7, <3>3
      <4>2. N[i].t = main \/ \E r \in 2..i : N[r].k = "resume" /\ N[r].t = N[i].t
        BY <4>1 DEF Core, Segments, N, n
      <4> QED BY <1>2, <4>1, <4>2
    <3> QED BY <3>2, <3>3
  <2>4. /\ \A i \in 2..Len(M) : IF M[i].k = "resume" THEN Begins(M, i) ELSE M[i].t = M[i - 1].t
        /\ \A i, j \in 1..Len(M) :
             i <= j /\ (\A x \in (i + 1)..j : M[x].k # "resume") => M[i].t = M[j].t
        /\ \A i \in 1..Len(M) :
             M[i].t = main \/ \E r \in 2..i : M[r].k = "resume" /\ M[r].t = M[i].t
    BY <1>2, <2>1, <2>2, <2>3
  <2> QED BY <2>4 DEF Segments
<1>12. Depth(M, m) = L.nCcalls /\ Depth(N, n) = S.th[Me(S)].nCcalls
  <2>1. Depth(M, m) = Depth(M, n) + 1
    BY <1>2, <1>7, DepthPush DEF Deeper, DeepKinds
  <2> QED BY <1>4, <1>7, <2>1 DEF Core, Counted, N, n
<1>13. Counted(R)
  <2>1. R.th[co].nCcalls = Depth(M, m)
    BY <1>3, <1>12
  <2>2. R.th[main].baseCcalls = 0
    BY <1>1, <1>3 DEF Core, Counted, Threads
  <2>3. ASSUME NEW i \in 2..m
        PROVE  /\ M[i].k = "pcall" => M[i].nCcalls = Depth(M, i - 1)
               /\ M[i].k = "resume" => /\ R.th[M[i - 1].t].nCcalls = Depth(M, i - 1)
                                       /\ R.th[M[i].t].baseCcalls = Depth(M, i)
               /\ M[i].k \in {"pcall", "resume"} => Depth(M, i - 1) < Limit
    <3>1. CASE i = m
      <4>1. M[n] = N[n] /\ Me(S) # co /\ Depth(M, n) = Depth(N, n)
        BY <1>1, <1>2, <1>4, <1>7, <1>10
      <4>2. R.th[Me(S)] = S.th[Me(S)]
        BY <1>1, <1>3, <4>1
      <4> QED BY <1>1, <1>2, <1>3, <1>7, <1>12, <3>1, <4>1, <4>2
    <3>2. CASE i # m
      <4>1. i \in 2..n /\ i - 1 \in 1..n /\ i \in 1..n /\ i \in 0..n /\ i - 1 \in 0..n
        BY <1>20, <3>2
      <4>2. M[i] = N[i] /\ M[i - 1] = N[i - 1] /\ Depth(M, i) = Depth(N, i)
            /\ Depth(M, i - 1) = Depth(N, i - 1)
        BY <1>2, <1>4, <4>1
      <4>3. /\ N[i].k = "pcall" => N[i].nCcalls = Depth(N, i - 1)
            /\ N[i].k = "resume" => /\ S.th[N[i - 1].t].nCcalls = Depth(N, i - 1)
                                    /\ S.th[N[i].t].baseCcalls = Depth(N, i)
            /\ N[i].k \in {"pcall", "resume"} => Depth(N, i - 1) < Limit
        BY <4>1 DEF Core, Counted, N, n
      <4>4. N[i].t \in Threads \ {co} /\ N[i - 1].t \in Threads \ {co}
        <5>1. N[i] \in Activation /\ N[i - 1] \in Activation
          BY <1>1, <4>1 DEF n
        <5> QED BY <1>10, <4>1, <5>1 DEF Activation
      <4>5. R.th[N[i].t] = S.th[N[i].t] /\ R.th[N[i - 1].t] = S.th[N[i - 1].t]
        BY ONLY <1>3, <4>4
      <4>6. M[i].t = N[i].t /\ M[i - 1].t = N[i - 1].t /\ M[i].k = N[i].k /\ M[i].nCcalls = N[i].nCcalls
        BY ONLY <4>2
      <4>7. /\ R.th[M[i - 1].t].nCcalls = S.th[N[i - 1].t].nCcalls
            /\ R.th[M[i].t].baseCcalls = S.th[N[i].t].baseCcalls
        BY ONLY <4>5, <4>6
      <4>8. Depth(M, i) = Depth(N, i) /\ Depth(M, i - 1) = Depth(N, i - 1)
        BY ONLY <4>2
      <4> HIDE DEF Depth, Limit
      <4> QED BY ONLY <4>3, <4>6, <4>7, <4>8, Zenon
    <3> QED BY <3>1, <3>2
  <2>4. Len(R.native) = m /\ R.native = M
    BY <1>0, <1>2
  <2> QED BY ONLY <1>5, <2>1, <2>2, <2>3, <2>4 DEF Counted
<1>14. \A u : Chain(M, u, m) = Chain(N, u, n)
  <2> TAKE u
  <2>0. m \in 2..Len(M)
    BY <1>2, <1>7
  <2>2. Chain(M, u, m) = IF M[m].t = u THEN Chain(M, u, m - 1) \o Adds(M[m]) ELSE Chain(M, u, m - 1)
    BY <1>2, <2>0, ChainPush
  <2>1. Adds(f) = <<>> /\ Chain(N, u, n) \in Seq(Funs)
    BY <1>1, <1>7, Numbers DEF Adds, n
  <2>3. Chain(N, u, n) \o <<>> = Chain(N, u, n)
    BY <2>1
  <2> QED BY <1>2, <1>4, <1>7, <2>1, <2>2, <2>3
<1>15. Chain(N, co, n) = <<>>
  <2>1. \A x \in (0 + 1)..n : Own(N, co, x) = <<>>
    BY <1>10 DEF Own
  <2>2. 0 \in 0..n /\ n \in Nat /\ Counts(N, n)
    BY <1>1, <1>7, Numbers DEF n
  <2>3. Chain(N, co, n) = Chain(N, co, 0)
    BY <2>1, <2>2, ChainPrefix
  <2> QED BY <2>3, ChainNone
<1>16. \A u : u # co => (In(M, u) <=> In(N, u))
  <2>2. \A x \in 1..n : x \in 1..m
    BY <1>7
  <2>3. ASSUME NEW x \in 1..m, x # m PROVE x \in 1..n
    BY <1>1, <1>7, <2>3
  <2> QED BY <1>2, <2>2, <2>3 DEF In, n
<1>17. Chained(R)
  <2>1. ASSUME NEW u \in Threads
        PROVE  Placed(R.th[u], M, u)
    <3>1. CASE u = co
      BY <1>2, <1>3, <1>14, <1>15, <3>1 DEF Placed
    <3>2. CASE u # co
      <4>1. R.th[u] = S.th[u] /\ Chain(M, u, m) = Chain(N, u, n)
        BY <1>3, <1>14, <3>2
      <4>2. Placed(S.th[u], N, u)
        BY DEF Core, Chained, N
      <4> QED BY <1>2, <1>16, <3>2, <4>1, <4>2 DEF Placed, n
    <3> QED BY <3>1, <3>2
  <2>2. ASSUME NEW i \in 2..m, M[i].k = "pcall" PROVE M[i].ci = Len(Chain(M, M[i].t, i - 1))
    <3>1. i # m
      BY <1>2, <2>2
    <3>2. N[i].k = "pcall" => N[i].ci = Len(Chain(N, N[i].t, i - 1))
      BY <1>20, <3>1 DEF Core, Chained, N, n
    <3> QED BY <1>2, <1>4, <1>20, <2>2, <3>1, <3>2
  <2> QED BY <1>0, <1>2, <2>1, <2>2 DEF Chained
<1>18. Handlers(R)
  <2>1. \A u : Protected(M, u, m) <=> Protected(N, u, n)
    <3>1. \A x \in 2..n : x \in 1..n /\ x \in 2..m
      BY <1>7
    <3>2. ASSUME NEW x \in 2..m, x # m PROVE x \in 2..n
      BY <1>1, <1>7, <3>2
    <3>3. M[m].k = "resume" /\ m \in 2..m
      BY <1>2, <1>7
    <3> QED BY <1>2, <3>1, <3>2, <3>3 DEF Protected
  <2>2. ASSUME NEW u \in Threads, R.th[u].status # "error", ~Protected(M, u, m)
        PROVE  R.th[u].errfunc = "none"
    <3>1. ~Protected(N, u, n)
      BY <2>1, <2>2
    <3>2. S.th[u].status # "error" => S.th[u].errfunc = "none"
      BY <3>1 DEF Core, Handlers, N, n
    <3> QED BY <1>3, <2>2, <3>2
  <2>3. ASSUME NEW i \in 2..m, M[i].k = "pcall", ~Protected(M, M[i].t, i - 1)
        PROVE  M[i].errfunc = "none"
    <3>1. i # m
      BY <1>2, <2>3
    <3>2. N[i].k = "pcall" /\ ~Protected(N, N[i].t, i - 1) => N[i].errfunc = "none"
      BY <1>20, <3>1 DEF Core, Handlers, N, n
    <3> QED BY <1>2, <1>4, <1>20, <2>3, <3>1, <3>2
  <2> QED BY <1>0, <1>2, <2>2, <2>3 DEF Handlers
<1> QED BY <1>0, <1>5, <1>8, <1>9, <1>11, <1>13, <1>17, <1>18 DEF Core

Top(S) == S.native[Len(S.native)]

(* A state between two steps. *)
Rest(S) ==
  /\ Top(S).k \in {"C", "exec", "raise", "pcall", "level"}
  /\ Depth(S.native, Len(S.native)) < Limit
Good(S) == Core(S) /\ Rest(S)

(* A coroutine without activations keeps its status and its stack. *)
Keeps(S, R) ==
  \A co \in Coroutines :
     ~In(S.native, co) =>
       ~In(R.native, co) /\ R.th[co].status = S.th[co].status /\ R.th[co].top = S.th[co].top

(* Push, as a record. *)
LEMMA PushIs ==
  ASSUME NEW S, S \in Stacks, NEW f
  PROVE  Push(S, f) = [th |-> S.th, native |-> Append(S.native, f)]
BY DEF Push, Stacks

(* What Core says of the running thread and the topmost activation. *)
LEMMA Parts ==
  ASSUME NEW S, Core(S)
  PROVE  /\ S = [th |-> S.th, native |-> S.native] /\ S \in Stacks
         /\ Me(S) \in Threads /\ S.th[Me(S)] \in Thread /\ S.th \in [Threads -> Thread]
         /\ S.native \in Seq(Activation) /\ Len(S.native) \in Nat \ {0}
         /\ Top(S) \in Activation /\ Me(S) = Top(S).t /\ Last(S.native) = Top(S)
         /\ S.th[Me(S)].nCcalls = Depth(S.native, Len(S.native))
         /\ S.th[Me(S)].size_ci >= BASIC_CI_SIZE
         /\ S.th[Me(S)].status = "ok"
         /\ S.native[1] = Frame("C", main)
         /\ In(S.native, Me(S))
<1>1. /\ S.native \in Seq(Activation) /\ S.th \in [Threads -> Thread]
      /\ Len(S.native) \in Nat \ {0} /\ Me(S) \in Threads /\ S.th[Me(S)].status = "ok"
  BY Runs
<1>2. S = [th |-> S.th, native |-> S.native]
  BY DEF Core, Typed, Stacks
<1>7. S \in Stacks
  BY DEF Core, Typed
<1>3. Len(S.native) \in 1..Len(S.native)
  BY <1>1
<1>4. Top(S) \in Activation
  BY <1>1, <1>3 DEF Top
<1>5. S.native[1] = Frame("C", main) /\ S.th[Me(S)].size_ci >= BASIC_CI_SIZE
  BY <1>1 DEF Core, Typed
<1>6. S.th[Me(S)].nCcalls = Depth(S.native, Len(S.native))
  BY DEF Core, Counted
<1> QED BY <1>1, <1>2, <1>3, <1>4, <1>5, <1>6, <1>7 DEF Top, Me, Last, In

(* A step keeps the other threads if it changes neither their status nor   *)
(* who has activations.                                                    *)
LEMMA KeepsAlike ==
  ASSUME NEW S, Core(S), NEW R, \A u : In(R.native, u) <=> In(S.native, u),
         \A u \in Coroutines \ {Me(S)} : R.th[u].status = S.th[u].status /\ R.th[u].top = S.th[u].top
  PROVE  Keeps(S, R)
BY Parts DEF Keeps

(* Keeps is transitive ... *)
LEMMA KeepsOn ==
  ASSUME NEW S, NEW R, NEW Q, Keeps(S, R), Keeps(R, Q)
  PROVE  Keeps(S, Q)
BY DEF Keeps

(* ... and reflexive. *)
LEMMA KeepsItself == ASSUME NEW S PROVE Keeps(S, S)
BY DEF Keeps

(* Who has activations after one more. *)
LEMMA InPush ==
  ASSUME NEW N \in Seq(Activation), NEW f \in Activation
  PROVE  \A u : In(Append(N, f), u) <=> In(N, u) \/ u = f.t
<1>1. /\ Len(Append(N, f)) = Len(N) + 1 /\ Len(N) \in Nat /\ Append(N, f)[Len(N) + 1] = f
      /\ \A x \in 1..Len(N) : Append(N, f)[x] = N[x]
  BY Appended
<1>2. \A x : x \in 1..(Len(N) + 1) <=> x \in 1..Len(N) \/ x = Len(N) + 1
  BY <1>1
<1> QED BY <1>1, <1>2 DEF In

(* A new frame is an activation. *)
LEMMA FrameType ==
  ASSUME NEW k \in Places, NEW t \in Threads
  PROVE  /\ Frame(k, t) \in Activation /\ Frame(k, t).k = k /\ Frame(k, t).t = t
         /\ Frame(k, t).n = 0
BY DEF Frame, Activation, Errs

(* ... and what becomes of the coroutines then. *)
LEMMA PushGood ==
  ASSUME NEW S, Core(S), NEW f \in Activation, NEW L \in Thread, NEW R,
         R = With(S, L, Append(S.native, f)),
         Begun(S, f, L)
  PROVE  /\ Core(R) /\ Me(R) = Me(S) /\ Keeps(S, R) /\ Top(R) = f
         /\ Len(R.native) = Len(S.native) + 1
         /\ R.th[Me(S)] = L
<1> R = [th |-> [S.th EXCEPT ![Me(S)] = L], native |-> Append(S.native, f)]
  BY DEF With
<1>1. Core(R) /\ Me(R) = Me(S)
  BY PushCore
<1>2. /\ S.native \in Seq(Activation) /\ In(S.native, Me(S)) /\ S.th \in [Threads -> Thread]
      /\ Me(S) \in Threads
  BY Parts
<1>3. \A u : In(R.native, u) <=> In(S.native, u)
  <2>1. f.t = Me(S) /\ R.native = Append(S.native, f)
    BY DEF Begun
  <2> QED BY <1>2, <2>1, InPush
<1>4. \A u \in Coroutines \ {Me(S)} :
        R.th[u].status = S.th[u].status /\ R.th[u].top = S.th[u].top
  BY <1>2 DEF Threads
<1>5. Keeps(S, R)
  BY <1>2, <1>3, <1>4 DEF Keeps
<1>6. Len(R.native) = Len(S.native) + 1 /\ R.native[Len(S.native) + 1] = f
  BY <1>2, Appended
<1> QED BY <1>1, <1>2, <1>5, <1>6 DEF Top

(* An error begins: the frame that raises it is added. *)
LEMMA RaiseGood ==
  ASSUME NEW S, Core(S), Top(S).k \in {"C", "call", "exec", "resume"}, Len(S.native) > 1,
         S.th[Me(S)].nCcalls < Limit
  PROVE  Good(Raise(S, Me(S))) /\ Keeps(S, Raise(S, Me(S)))
<1> DEFINE f == Frame("raise", Me(S))
           L == S.th[Me(S)]
           R == Raise(S, Me(S))
<1>1. /\ S \in Stacks
      /\ Me(S) \in Threads /\ L \in Thread /\ S.th \in [Threads -> Thread]
      /\ S.native \in Seq(Activation) /\ Len(S.native) \in Nat \ {0}
      /\ L.size_ci >= BASIC_CI_SIZE /\ L.status = "ok" /\ L.nCcalls \in Nat /\ L.ci \in Seq(Funs)
  <2>1. S.th[Me(S)] \in Thread
    BY Parts
  <2> QED BY <2>1, Parts DEF Thread
<1>2. f \in Activation /\ f.k = "raise" /\ f.t = Me(S)
  BY <1>1, FrameType DEF Places
<1>3. R = With(S, L, Append(S.native, f))
  <2>1. [S.th EXCEPT ![Me(S)] = L] = S.th
    BY <1>1
  <2>2. R = [th |-> S.th, native |-> Append(S.native, f)]
    BY <1>1, PushIs DEF Raise
  <2> QED BY <2>1, <2>2 DEF With
<1>4. f.k \in May(S.native, Len(S.native))
  BY <1>2 DEF May, Above, Top
<1>5. L.nCcalls = L.nCcalls + Deeper(f) /\ L.ci = L.ci \o Adds(f)
  BY <1>1, <1>2 DEF Deeper, DeepKinds, Adds
<1>6. /\ L = S.th[Me(S)] /\ R = Raise(S, Me(S))
      /\ f.k # "pcall" /\ f.k # "exec" /\ f.k # "resume"
  BY <1>2
<1> HIDE DEF f, R, L
<1>7. /\ Core(R) /\ Me(R) = Me(S) /\ Keeps(S, R) /\ Top(R) = f /\ R.th[Me(S)] = L
  <2>1. Begun(S, f, L)
    BY <1>1, <1>2, <1>4, <1>5, <1>6 DEF Begun
  <2> QED BY <1>1, <1>2, <1>3, <2>1, PushGood
<1>8. Depth(R.native, Len(R.native)) < Limit
  BY <1>6, <1>7, Parts
<1> QED BY <1>2, <1>6, <1>7, <1>8 DEF Good, Rest

(* The top and the depth of a cut stack. *)
LEMMA Shorter ==
  ASSUME NEW N \in Seq(Activation), NEW j \in 2..Len(N)
  PROVE  /\ Len(SubSeq(N, 1, j - 1)) = j - 1 /\ SubSeq(N, 1, j - 1)[j - 1] = N[j - 1]
         /\ j - 1 \in 1..Len(N) /\ j - 1 \in Nat \ {0}
         /\ Depth(SubSeq(N, 1, j - 1), j - 1) = Depth(N, j - 1)
<1>1. Len(N) \in Nat /\ j - 1 \in 0..Len(N) /\ j - 1 \in 1..Len(N) /\ j - 1 \in Nat \ {0}
      /\ j - 1 \in 1..(j - 1)
  OBVIOUS
<1>2. Len(SubSeq(N, 1, j - 1)) = j - 1 /\ \A x \in 1..(j - 1) : SubSeq(N, 1, j - 1)[x] = N[x]
  BY <1>1, CutOff
<1> DEFINE m == j - 1
           M == SubSeq(N, 1, j - 1)
<1>3. m \in Nat /\ \A x \in 1..m : N[x].k = M[x].k
  BY <1>1, <1>2
<1> HIDE DEF m, M
<1>4. Depth(N, m) = Depth(M, m)
  BY <1>3, DepthSame
<1> QED BY <1>1, <1>2, <1>4 DEF m, M

(* CutCore, with what the callers ask of the result. *)
LEMMA CutGood ==
  ASSUME NEW S, Core(S), NEW j \in 2..Len(S.native), NEW L \in Thread, NEW R,
         R = With(S, L, SubSeq(S.native, 1, j - 1)),
         Dropped(S, j, L)
  PROVE  /\ Core(R) /\ Me(R) = Me(S) /\ Keeps(S, R) /\ Top(R) = S.native[j - 1]
         /\ Len(R.native) = j - 1 /\ R.th[Me(S)] = L
<1> R = [th |-> [S.th EXCEPT ![Me(S)] = L], native |-> SubSeq(S.native, 1, j - 1)]
  BY DEF With
<1>1. Core(R) /\ Me(R) = Me(S) /\ SameThreads(S, R)
  BY CutCore
<1>2. S.native \in Seq(Activation) /\ In(S.native, Me(S)) /\ S.th \in [Threads -> Thread] /\ Me(S) \in Threads
  BY Parts
<1>3. \A u \in Coroutines \ {Me(S)} :
        R.th[u].status = S.th[u].status /\ R.th[u].top = S.th[u].top
  BY <1>2 DEF Threads
<1>4. Keeps(S, R)
  BY <1>1, <1>2, <1>3 DEF Keeps, SameThreads
<1>5. R.native = SubSeq(S.native, 1, j - 1)
  OBVIOUS
<1>6. Len(R.native) = j - 1 /\ R.native[j - 1] = S.native[j - 1]
  BY <1>2, <1>5, Shorter
<1> QED BY <1>1, <1>2, <1>4, <1>6 DEF Top

(* LeaveCore, with what the callers ask of the result. *)
LEMMA LeaveGood ==
  ASSUME NEW S, Core(S), NEW j \in 2..Len(S.native), NEW L \in Thread, NEW R,
         R = With(S, L, SubSeq(S.native, 1, j - 1)),
         Left(S, j, L)
  PROVE  /\ Good(R) /\ Keeps(S, R) /\ Top(R) = S.native[j - 1] /\ Top(R).k = "C"
         /\ Len(R.native) = j - 1 /\ Len(R.native) > 1
<1> R = [th |-> [S.th EXCEPT ![Me(S)] = L], native |-> SubSeq(S.native, 1, j - 1)]
  BY DEF With
<1>1. Core(R) /\ Me(S) \in Coroutines /\ OtherThreads(S, R)
  BY LeaveCore
<1>2. S.native \in Seq(Activation) /\ In(S.native, Me(S)) /\ S.th \in [Threads -> Thread] /\ Me(S) \in Threads
  BY Parts
<1>3. /\ R.th[Me(S)] = L
      /\ \A u \in Coroutines \ {Me(S)} :
           R.th[u].status = S.th[u].status /\ R.th[u].top = S.th[u].top
  BY <1>2 DEF Threads
<1>4. Keeps(S, R)
  BY <1>1, <1>2, <1>3 DEF Keeps, Left, OtherThreads
<1>5. R.native = SubSeq(S.native, 1, j - 1)
  OBVIOUS
<1>6. /\ Len(R.native) = j - 1 /\ R.native[j - 1] = S.native[j - 1] /\ j - 1 \in Nat \ {0}
      /\ Depth(R.native, j - 1) = Depth(S.native, j - 1)
  BY <1>2, <1>5, Shorter
<1>7. S.native[j].k = "resume"
  BY DEF Left
<1>8. S.native[j].k \in May(S.native, j - 1)
  BY DEF Core, Ordered
<1>9. S.native[j - 1].k = "C" /\ j - 1 # 1
  BY <1>7, <1>8 DEF May, Above
<1>10. Depth(S.native, j - 1) < Limit
  BY <1>7 DEF Core, Counted
<1> QED BY <1>1, <1>4, <1>6, <1>9, <1>10 DEF Good, Rest, Top

-----------------------------------------------------------------------------
(* The host's own call is protected. *)
LEMMA HostProtects ==
  ASSUME NEW S, Core(S), Len(S.native) > 1
  PROVE  S.native[2].k = "pcall" /\ 2 \in 2..Len(S.native)
<1>1. 2 \in 2..Len(S.native) /\ 2 - 1 = 1
  BY Parts
<1>2. S.native[2].k \in May(S.native, 2 - 1)
  BY <1>1 DEF Core, Ordered
<1> QED BY <1>1, <1>2 DEF May

(* The innermost setjmp. *)
Jmp(S, j) ==
  /\ S.native[j].k \in {"pcall", "resume"}
  /\ \A x \in (j + 1)..Len(S.native) : S.native[x].k \notin {"pcall", "resume"}

(* There is an innermost setjmp, it is the running thread's, and           *)
(* luaD_throw finds it.                                                    *)
LEMMA JmpExists ==
  ASSUME NEW S, Core(S), Len(S.native) > 1
  PROVE  \E j \in 2..Len(S.native) :
           /\ Jmp(S, j) /\ j = CHOOSE i \in DOMAIN S.native : Jmp(S, i)
           /\ S.native[j].t = Me(S)
<1> DEFINE N == S.native
           n == Len(N)
           A == {i \in 1..n : N[i].k \in {"pcall", "resume"}}
<1>1. n \in Nat \ {0} /\ DOMAIN N = 1..n /\ N[1].k = "C"
  BY Parts DEF Frame
<1>2. A \in SUBSET (1..n) /\ 2 \in A
  BY HostProtects
<1>3. PICK j \in A : \A y \in A : y <= j
  <2> HIDE DEF A
  <2> QED BY <1>1, <1>2, Greatest
<1>4. j \in 1..n /\ j # 1 /\ Jmp(S, j)
  <2>1. j \in 1..n /\ j # 1 /\ N[j].k \in {"pcall", "resume"}
    BY <1>1
  <2>2. ASSUME NEW x \in (j + 1)..n PROVE N[x].k \notin {"pcall", "resume"}
    BY <1>1, <1>3, <2>1, <2>2
  <2> QED BY <2>1, <2>2 DEF Jmp
<1>5. ASSUME NEW i \in 1..n, Jmp(S, i) PROVE i = j
  <2>1. i \in A
    BY <1>5 DEF Jmp
  <2>2. i <= j
    BY <1>3, <2>1
  <2>3. i < j => j \in (i + 1)..n
    BY <1>1, <1>4
  <2> QED BY <1>1, <1>4, <1>5, <2>2, <2>3 DEF Jmp
<1>6. j = CHOOSE i \in DOMAIN N : Jmp(S, i)
  BY <1>1, <1>4, <1>5
<1>7. N[j].t = N[n].t
  <2>1. /\ j \in 1..Len(S.native) /\ n \in 1..n /\ j <= n
        /\ \A x \in (j + 1)..n : N[x].k # "resume"
    BY <1>1, <1>4 DEF Jmp
  <2> HIDE DEF N, n
  <2> QED BY <2>1 DEF Core, Segments, N, n
<1>8. j \in 2..n
  BY <1>1, <1>4
<1> QED BY <1>4, <1>6, <1>7, <1>8 DEF Me

(* What luaD_pcall restores after an error, field by field. *)
LEMMA RestoredIs ==
  ASSUME NEW L \in Thread, NEW f \in Activation, f.ci <= Len(L.ci)
  PROVE  /\ Restored(L, f) \in Thread
         /\ Restored(L, f).status = L.status /\ Restored(L, f).baseCcalls = L.baseCcalls
         /\ Restored(L, f).nCcalls = f.nCcalls /\ Restored(L, f).errfunc = f.errfunc
         /\ Restored(L, f).ci = SubSeq(L.ci, 1, f.ci)
         /\ Restored(L, f).top = L.top
         /\ L.size_ci >= BASIC_CI_SIZE => Restored(L, f).size_ci >= BASIC_CI_SIZE
<1> DEFINE K == [L EXCEPT !.nCcalls = f.nCcalls, !.errfunc = f.errfunc, !.ci = SubSeq(@, 1, f.ci)]
<1>1. f.nCcalls \in Nat /\ f.ci \in Nat /\ f.errfunc \in Errs
  BY DEF Activation
<1>2. SubSeq(L.ci, 1, f.ci) \in Seq(Funs)
  <2>1. L.ci \in Seq(Funs)
    BY DEF Thread
  <2> QED BY <1>1, <2>1
<1>3. /\ K \in Thread /\ K.status = L.status /\ K.baseCcalls = L.baseCcalls
      /\ K.nCcalls = f.nCcalls /\ K.errfunc = f.errfunc /\ K.ci = SubSeq(L.ci, 1, f.ci)
      /\ K.size_ci = L.size_ci /\ K.top = L.top
  BY <1>1, <1>2 DEF Thread
<1>4. Restored(L, f) = restore_stack_limit(K)
  BY DEF Restored
<1> HIDE DEF K
<1>5. CASE Restored(L, f) = K
  BY ONLY <1>3, <1>5
<1>6. CASE Restored(L, f) = [K EXCEPT !.size_ci = LUAI_MAXCALLS]
  <2>1. LUAI_MAXCALLS \in Nat /\ LUAI_MAXCALLS >= BASIC_CI_SIZE
    BY LuaCallAssumption
  <2> DEFINE H == [K EXCEPT !.size_ci = LUAI_MAXCALLS]
  <2>2. /\ H \in Thread /\ H.status = K.status /\ H.baseCcalls = K.baseCcalls
        /\ H.nCcalls = K.nCcalls /\ H.errfunc = K.errfunc /\ H.ci = K.ci
        /\ H.size_ci = LUAI_MAXCALLS /\ H.top = K.top
    BY ONLY <1>3, <2>1 DEF Thread
  <2> HIDE DEF H
  <2>3. Restored(L, f) = H
    BY ONLY <1>6 DEF H
  <2> QED BY ONLY <1>3, <2>1, <2>2, <2>3
<1> QED BY ONLY <1>4, <1>5, <1>6 DEF restore_stack_limit

(* luaD_throw, with the place it jumps to named. *)
ThrownTo(S, j) ==
  LET f == S.native[j]
      L == S.th[f.t]
      cut == SubSeq(S.native, 1, j - 1)
  IN  IF f.k = "pcall"
      THEN [th |-> [S.th EXCEPT ![f.t] = Restored(L, f)], native |-> cut]
      ELSE LET R == [th |-> [S.th EXCEPT ![f.t] =
                                [lua_newthread EXCEPT !.status = "error"]],
                     native |-> cut]
           IN  IF f.wrap THEN Raise(R, Last(cut).t) ELSE R

(* luaD_throw, with the frame it jumps to named. *)
LEMMA ThrowIs ==
  ASSUME NEW S
  PROVE  luaD_throw(S) = ThrownTo(S, CHOOSE i \in DOMAIN S.native : Jmp(S, i))
BY DEF luaD_throw, ThrownTo, Jmp

(* A protected call was made by a C function. *)
LEMMA FromC ==
  ASSUME NEW S, Core(S), NEW j \in 2..Len(S.native), S.native[j].k = "pcall"
  PROVE  S.native[j - 1].k = "C"
<1>1. S.native[j].k \in May(S.native, j - 1) /\ S.native[1].k = "C"
  BY Parts DEF Core, Ordered, Frame
<1> QED BY <1>1 DEF May, Above

(* After an error in a protected call that C function runs. *)
LEMMA PcallGood ==
  ASSUME NEW S, Core(S), NEW j \in 2..Len(S.native), S.native[j].k = "pcall",
         NEW R, Core(R), Top(R) = S.native[j - 1], Len(R.native) = j - 1,
         R.th[Me(R)].nCcalls = Depth(S.native, j - 1)
  PROVE  Good(R)
<1>1. S.native[j - 1].k = "C"
  BY FromC
<1>2. Depth(S.native, j - 1) < Limit
  BY DEF Core, Counted
<1>3. Depth(R.native, Len(R.native)) = Depth(S.native, j - 1)
  BY Parts
<1> QED BY <1>1, <1>2, <1>3 DEF Good, Rest

(* luaD_throw: both stacks are cut to the same place, whether that is a    *)
(* protected call or the beginning of a coroutine.                         *)
LEMMA ThrowGood ==
  ASSUME NEW S, Core(S), Len(S.native) > 1
  PROVE  Good(luaD_throw(S)) /\ Keeps(S, luaD_throw(S))
<1>1. PICK j \in 2..Len(S.native) :
        /\ Jmp(S, j) /\ j = CHOOSE i \in DOMAIN S.native : Jmp(S, i)
        /\ S.native[j].t = Me(S)
  BY JmpExists
<1>2. luaD_throw(S) = ThrownTo(S, j)
  BY <1>1, ThrowIs
<1> DEFINE f == S.native[j]
           L == S.th[Me(S)]
<1>3. /\ S.native \in Seq(Activation) /\ S.th \in [Threads -> Thread] /\ Me(S) \in Threads
      /\ Len(S.native) \in Nat \ {0} /\ j \in 1..Len(S.native)
      /\ L \in Thread /\ L.size_ci >= BASIC_CI_SIZE /\ L.status = "ok"
  BY Parts
<1>4. f \in Activation
  BY <1>3
<1>5. CASE f.k = "pcall"
  <2> DEFINE K == Restored(L, f)
             R == With(S, K, SubSeq(S.native, 1, j - 1))
             n == Len(S.native)
  <2>1. R = ThrownTo(S, j)
    BY <1>1, <1>5 DEF ThrownTo, With
  <2>2. /\ f.nCcalls = Depth(S.native, j - 1)
        /\ f.ci = Len(Chain(S.native, Me(S), j - 1))
        /\ ~Protected(S.native, Me(S), j - 1) => f.errfunc = "none"
    BY <1>1, <1>5 DEF Core, Counted, Chained, Handlers
  <2>3. L.ci = Chain(S.native, Me(S), n)
    BY Runs
  <2>4. /\ f.ci <= Len(L.ci) /\ SubSeq(L.ci, 1, f.ci) = Chain(S.native, Me(S), j - 1)
    <3>1. n \in Nat /\ j - 1 \in 0..n /\ Counts(S.native, n)
      BY <1>3, Numbers
    <3>2. /\ Len(Chain(S.native, Me(S), j - 1)) <= Len(Chain(S.native, Me(S), n))
          /\ SubSeq(Chain(S.native, Me(S), n), 1, Len(Chain(S.native, Me(S), j - 1)))
               = Chain(S.native, Me(S), j - 1)
      BY <3>1, ChainPrefix
    <3> QED BY <2>2, <2>3, <3>2
  <2>5. /\ K \in Thread /\ K.status = L.status /\ K.baseCcalls = L.baseCcalls
        /\ K.nCcalls = f.nCcalls /\ K.errfunc = f.errfunc
        /\ K.ci = SubSeq(L.ci, 1, f.ci) /\ K.size_ci >= BASIC_CI_SIZE
    BY <1>3, <1>4, <2>4, RestoredIs
  <2>6. \A x \in j..n : S.native[x].k # "resume"
    <3>1. ASSUME NEW x \in j..n, x # j PROVE x \in (j + 1)..n
      BY <1>3, <3>1
    <3> QED BY <1>1, <1>5, <3>1 DEF Jmp
  <2> HIDE DEF K
  <2>7. Dropped(S, j, K)
    BY <1>3, <2>2, <2>4, <2>5, <2>6 DEF Dropped
  <2> HIDE DEF R, L, f
  <2>8. /\ Core(R) /\ Me(R) = Me(S) /\ Keeps(S, R) /\ Top(R) = S.native[j - 1]
        /\ Len(R.native) = j - 1 /\ R.th[Me(S)] = K
    BY <2>5, <2>7, CutGood DEF R
  <2>9. S.native[j].k = "pcall" /\ R.th[Me(R)].nCcalls = Depth(S.native, j - 1)
    BY <1>5, <2>2, <2>5, <2>8 DEF f
  <2>10. Good(R)
    BY <2>8, <2>9, PcallGood
  <2> QED BY <1>2, <2>1, <2>8, <2>10
<1>6. CASE f.k = "resume"
  <2> DEFINE K == [lua_newthread EXCEPT !.status = "error"]
             R == With(S, K, SubSeq(S.native, 1, j - 1))
  <2>1. ThrownTo(S, j) = IF f.wrap THEN Raise(R, Last(R.native).t) ELSE R
    BY <1>1, <1>6 DEF ThrownTo, With
  <2>2. /\ K \in Thread /\ K.status = "error" /\ K.size_ci = BASIC_CI_SIZE
    <3>1. <<>> \in Seq(Funs)
      OBVIOUS
    <3> QED BY <3>1, LuaCallAssumption DEF Thread, lua_newthread, Errs
  <2> HIDE DEF K
  <2>3. Left(S, j, K) /\ (K.status = "ok" => ~K.top)
    <3>1. S.native[j].k = "resume" /\ \A x \in (j + 1)..Len(S.native) : S.native[x].k # "resume"
      BY <1>1, <1>6 DEF Jmp
    <3>2. K.size_ci >= BASIC_CI_SIZE
      BY <2>2, LuaCallAssumption
    <3> QED BY ONLY <2>2, <3>1, <3>2 DEF Left
  <2> HIDE DEF R, L, f
  <2>4. /\ Good(R) /\ Keeps(S, R) /\ Top(R) = S.native[j - 1] /\ Top(R).k = "C"
        /\ Len(R.native) = j - 1 /\ Len(R.native) > 1
    BY <2>2, <2>3, LeaveGood DEF R
  <2>5. Last(R.native).t = Me(R) /\ R.th[Me(R)].nCcalls < Limit /\ Core(R)
    BY <2>4, Parts DEF Good, Rest
  <2>6. Good(Raise(R, Me(R))) /\ Keeps(R, Raise(R, Me(R)))
    BY <2>4, <2>5, RaiseGood
  <2>7. Keeps(S, Raise(R, Me(R)))
    BY <2>4, <2>6, KeepsOn
  <2> QED BY <1>2, <2>1, <2>4, <2>5, <2>6, <2>7
<1> QED BY <1>1, <1>5, <1>6 DEF Jmp

LuaCalls(m) == [x \in 1..m |-> "Lua"]

(* The entries of m Lua functions. *)
LEMMA CallsType == ASSUME NEW m \in Nat PROVE LuaCalls(m) \in Seq(Funs) /\ Len(LuaCalls(m)) = m
BY DEF LuaCalls, Funs

(* One more Lua function under the same luaV_execute ... *)
LEMMA Longer ==
  ASSUME NEW c \in Seq(Funs), NEW m \in Nat
  PROVE  Append(c \o LuaCalls(m), "Lua") = c \o LuaCalls(m + 1)
<1>1. LuaCalls(m) \in Seq(Funs) /\ Len(LuaCalls(m)) = m
      /\ LuaCalls(m + 1) \in Seq(Funs) /\ Len(LuaCalls(m + 1)) = m + 1
  BY CallsType
<1>2. /\ \A x \in 1..m : LuaCalls(m)[x] = "Lua"
      /\ \A x \in 1..(m + 1) : LuaCalls(m + 1)[x] = "Lua"
  BY DEF LuaCalls
<1> DEFINE A == Append(c \o LuaCalls(m), "Lua")
           B == c \o LuaCalls(m + 1)
<1>3. A \in Seq(Funs) /\ B \in Seq(Funs) /\ Len(A) = Len(c) + m + 1 /\ Len(B) = Len(c) + m + 1
  BY <1>1 DEF Funs
<1>4. \A x \in 1..(Len(c) + m + 1) : A[x] = B[x]
  BY <1>1, <1>2
<1> HIDE DEF A, B
<1>5. A = B
  BY <1>3, <1>4
<1> QED BY <1>5 DEF A, B

(* ... and one less. *)
LEMMA Shortened ==
  ASSUME NEW c \in Seq(Funs), NEW m \in Nat
  PROVE  Front(c \o LuaCalls(m + 1)) = c \o LuaCalls(m)
<1>1. LuaCalls(m) \in Seq(Funs) /\ Len(LuaCalls(m)) = m
      /\ LuaCalls(m + 1) \in Seq(Funs) /\ Len(LuaCalls(m + 1)) = m + 1
  BY CallsType
<1>2. /\ \A x \in 1..m : LuaCalls(m)[x] = "Lua"
      /\ \A x \in 1..(m + 1) : LuaCalls(m + 1)[x] = "Lua"
  BY DEF LuaCalls
<1> QED BY <1>1, <1>2 DEF Front

(* The last entry, taken off and put on. *)
LEMMA FrontAppend ==
  ASSUME NEW c \in Seq(Funs), NEW e \in Funs
  PROVE  Front(Append(c, e)) = c /\ Append(c, e) = c \o <<e>>
BY DEF Front

(* The top activation becomes f. *)
Put(N, f) == [N EXCEPT ![Len(N)] = f]

(* Replacing the topmost frame is a cut and a push. *)
LEMMA Replaced ==
  ASSUME NEW N \in Seq(Activation), NEW n, n = Len(N), n \in Nat \ {0}, NEW f \in Activation
  PROVE  Append(SubSeq(N, 1, n - 1), f) = Put(N, f)
<1>1. /\ SubSeq(N, 1, n - 1) \in Seq(Activation) /\ Len(SubSeq(N, 1, n - 1)) = n - 1
      /\ \A x \in 1..(n - 1) : SubSeq(N, 1, n - 1)[x] = N[x]
  BY CutOff
<1> DEFINE A == Append(SubSeq(N, 1, n - 1), f)
           B == [N EXCEPT ![n] = f]
<1>2. /\ Len(A) = n /\ A[n] = f /\ \A x \in 1..(n - 1) : A[x] = SubSeq(N, 1, n - 1)[x]
  BY <1>1
<1>3. DOMAIN A = 1..n /\ A = [x \in 1..n |-> A[x]]
  BY <1>1
<1>4. DOMAIN B = 1..n /\ B = [x \in 1..n |-> B[x]]
  <2>1. N \in [1..n -> Activation]
    OBVIOUS
  <2>2. B \in [1..n -> Activation]
    BY <2>1
  <2> QED BY <2>2
<1>5. \A x \in 1..n : A[x] = B[x]
  BY <1>1, <1>2
<1> HIDE DEF A, B
<1>6. A = B
  BY <1>3, <1>4, <1>5
<1> QED BY <1>6 DEF A, B, Put

(* The activation of a function ends. *)
Ended(S, n, K) ==
  /\ K.status = "ok" /\ K.baseCcalls = S.th[Me(S)].baseCcalls /\ K.size_ci >= BASIC_CI_SIZE
  /\ K.nCcalls = S.th[Me(S)].nCcalls /\ K.errfunc = S.th[Me(S)].errfunc
  /\ K.ci = Chain(S.native, Me(S), n - 1)

(* The topmost activation of a function ends. *)
LEMMA EndGood ==
  ASSUME NEW S, Core(S), Top(S).k \in {"exec", "C"}, NEW n, n = Len(S.native), n > 1,
         NEW K \in Thread, NEW Q,
         Q = With(S, K, SubSeq(S.native, 1, n - 1)),
         Ended(S, n, K)
  PROVE  /\ Core(Q) /\ Me(Q) = Me(S) /\ Keeps(S, Q) /\ Top(Q) = S.native[n - 1]
         /\ Len(Q.native) = n - 1 /\ Q.th[Me(S)] = K
<1> /\ K.status = "ok" /\ K.baseCcalls = S.th[Me(S)].baseCcalls /\ K.size_ci >= BASIC_CI_SIZE
    /\ K.nCcalls = S.th[Me(S)].nCcalls /\ K.errfunc = S.th[Me(S)].errfunc
    /\ K.ci = Chain(S.native, Me(S), n - 1)
  BY DEF Ended
<1> DEFINE N == S.native
           t == Me(S)
<1>1. /\ N \in Seq(Activation) /\ S.th \in [Threads -> Thread] /\ n \in Nat \ {0} /\ t \in Threads
      /\ N[1].k = "C" /\ Top(S) \in Activation /\ Top(S).t = t /\ Top(S) = N[n]
      /\ S.th[t].status = "ok"
  BY Parts DEF Top, Frame
<1>2. n \in 2..Len(S.native) /\ n - 1 \in Nat /\ n - 1 \in 0..n /\ n \in n..n
  BY <1>1
<1> HIDE DEF N, t
<1>7. Dropped(S, n, K)
  <2>1. \A x \in n..n : N[x].k # "resume"
    BY <1>1, <1>2
  <2>2. Depth(N, n) = Depth(N, n - 1) /\ Depth(N, n) = S.th[t].nCcalls
    <3>1. Depth(N, n) = Depth(N, n - 1) + Deeper(N[n]) /\ Depth(N, n - 1) \in Nat
      BY <1>1, DepthPush
    <3>2. Deeper(N[n]) = 0
      BY <1>1 DEF Deeper, DeepKinds
    <3>3. Depth(N, n) = S.th[t].nCcalls
      BY Parts DEF N, t
    <3> QED BY <3>1, <3>2, <3>3
  <2>3. ~Protected(N, t, n - 1) => K.errfunc = "none"
    <3>1. ASSUME Protected(N, t, n) PROVE Protected(N, t, n - 1)
      <4>1. PICK x \in 2..n : N[x].k = "pcall" /\ N[x].t = t
        BY <3>1 DEF Protected
      <4>2. x \in 2..(n - 1)
        BY <1>1, <4>1
      <4> QED BY <4>1, <4>2 DEF Protected
    <3> QED BY <1>1, <3>1 DEF Core, Handlers, N, t
  <2> QED BY <2>1, <2>2, <2>3 DEF Dropped, N, t
<1> QED BY <1>2, <1>7, CutGood

(* luaV_execute with another count of Lua calls. *)
Reran(S, f, L) ==
  /\ f.k = "exec" /\ f.t = Me(S) /\ f.n > 0
  /\ L.status = "ok" /\ L.baseCcalls = S.th[Me(S)].baseCcalls /\ L.size_ci >= BASIC_CI_SIZE
  /\ L.nCcalls = S.th[Me(S)].nCcalls /\ L.errfunc = S.th[Me(S)].errfunc
  /\ L.ci = Chain(S.native, Me(S), Len(S.native) - 1) \o LuaCalls(f.n)

(* luaV_execute goes on with another number of Lua functions. *)
LEMMA RunGood ==
  ASSUME NEW S, Core(S), Top(S).k = "exec", NEW f \in Activation, NEW L \in Thread, NEW R,
         R = With(S, L, Put(S.native, f)), Reran(S, f, L)
  PROVE  /\ Core(R) /\ Me(R) = Me(S) /\ Keeps(S, R) /\ Top(R).k = "exec"
         /\ Len(R.native) = Len(S.native) /\ R.th[Me(R)].nCcalls = S.th[Me(S)].nCcalls
<1> /\ f.k = "exec" /\ f.t = Me(S) /\ f.n > 0
    /\ L.status = "ok" /\ L.baseCcalls = S.th[Me(S)].baseCcalls /\ L.size_ci >= BASIC_CI_SIZE
    /\ L.nCcalls = S.th[Me(S)].nCcalls /\ L.errfunc = S.th[Me(S)].errfunc
    /\ L.ci = Chain(S.native, Me(S), Len(S.native) - 1) \o LuaCalls(f.n)
  BY DEF Reran
<1> DEFINE N == S.native
           n == Len(N)
           t == Me(S)
           K == [L EXCEPT !.ci = Chain(N, t, n - 1)]
           Q == With(S, K, SubSeq(N, 1, n - 1))
<1>1. /\ N \in Seq(Activation) /\ S.th \in [Threads -> Thread] /\ n \in Nat \ {0} /\ t \in Threads
      /\ N[1].k = "C" /\ Top(S) \in Activation /\ Top(S).t = t /\ Top(S) = N[n]
      /\ S.th[t].status = "ok"
  BY Parts DEF Top, Frame
<1>2. n \in 2..n /\ n - 1 \in Nat /\ n - 1 \in 0..n /\ n \in n..n
  BY <1>1
<1>3. Chain(N, t, n - 1) \in Seq(Funs)
  BY <1>1, <1>2, Numbers
<1>4. /\ K \in Thread /\ K.ci = Chain(N, t, n - 1) /\ K.status = "ok" /\ K.nCcalls = L.nCcalls
      /\ K.baseCcalls = L.baseCcalls /\ K.errfunc = L.errfunc /\ K.size_ci = L.size_ci
  BY <1>3 DEF Thread
<1>5. f \in Activation /\ f.k = "exec" /\ f.t = t /\ f.n > 0
  OBVIOUS
<1>6. Q.th = [S.th EXCEPT ![t] = K] /\ Q.native = SubSeq(N, 1, n - 1)
  BY DEF With
<1>0. t = Me(S) /\ N = S.native /\ n = Len(S.native)
      /\ Q = With(S, K, SubSeq(S.native, 1, n - 1))
      /\ R = With(S, L, Put(N, f))
  OBVIOUS
<1> HIDE DEF N, n, t, K, Q
<1>8. /\ Core(Q) /\ Me(Q) = t /\ Keeps(S, Q) /\ Top(Q) = N[n - 1]
      /\ Len(Q.native) = n - 1 /\ Q.th[t] = K
  <2>1. /\ Top(S).k \in {"exec", "C"} /\ n = Len(S.native) /\ n > 1
        /\ Q = With(S, K, SubSeq(S.native, 1, n - 1))
        /\ K \in Thread /\ Ended(S, n, K)
    BY <1>0, <1>2, <1>4 DEF Ended
  <2>2. /\ Core(Q) /\ Me(Q) = Me(S) /\ Keeps(S, Q) /\ Top(Q) = S.native[n - 1]
        /\ Len(Q.native) = n - 1 /\ Q.th[Me(S)] = K
    <3>1. Top(S).k \in {"exec", "C"} /\ n = Len(S.native) /\ n > 1
      BY <2>1
    <3>2. Q = With(S, K, SubSeq(S.native, 1, n - 1))
      BY <2>1
    <3>3. K \in Thread /\ Ended(S, n, K)
      BY <2>1
    <3> QED BY ONLY Core(S), <3>1, <3>2, <3>3, EndGood
  <2> QED BY <1>0, <2>2
<1>9. R = With(Q, L, Append(Q.native, f))
  <2>1. Append(Q.native, f) = Put(N, f)
    <3>1. n = Len(N)
      BY <1>0
    <3>2. Append(SubSeq(N, 1, n - 1), f) = Put(N, f)
      BY <1>1, <1>5, <3>1, Replaced
    <3> QED BY <1>6, <3>2
  <2>2. [Q.th EXCEPT ![Me(Q)] = L] = [S.th EXCEPT ![Me(S)] = L]
    <3>1. /\ Me(Q) = t /\ Me(S) = t /\ Q.th = [S.th EXCEPT ![t] = K]
          /\ S.th \in [Threads -> Thread] /\ t \in Threads
      BY <1>0, <1>1, <1>6, <1>8
    <3>2. [[S.th EXCEPT ![t] = K] EXCEPT ![t] = L] = [S.th EXCEPT ![t] = L]
      BY ONLY <3>1
    <3> QED BY ONLY <3>1, <3>2
  <2> QED BY <1>0, <2>1, <2>2 DEF With
<1>10. Begun(Q, f, L)
  <2>1. f.k \in May(Q.native, Len(Q.native))
    <3>1. N[n].k \in May(N, n - 1)
      BY <1>0, <1>2 DEF Core, Ordered
    <3> QED BY <1>1, <1>5, <1>8, <3>1 DEF May, Top
  <2>2. L.ci = Q.th[Me(Q)].ci \o Adds(f)
    BY <1>0, <1>4, <1>5, <1>8 DEF Adds, LuaCalls
  <2>3. L.nCcalls = Q.th[Me(Q)].nCcalls + Deeper(f)
    BY <1>4, <1>5, <1>8 DEF Deeper, DeepKinds, Thread
  <2>4. /\ L.baseCcalls = Q.th[Me(Q)].baseCcalls /\ L.errfunc = Q.th[Me(Q)].errfunc
        /\ f.t = Me(Q) /\ f.n > 0 /\ f.k # "resume" /\ f.k # "pcall"
    BY <1>4, <1>5, <1>8
  <2> QED BY <2>1, <2>2, <2>3, <2>4 DEF Begun
<1>11. /\ Core(R) /\ Me(R) = Me(Q) /\ Keeps(Q, R) /\ Top(R) = f
       /\ Len(R.native) = Len(Q.native) + 1 /\ R.th[Me(Q)] = L
  BY <1>5, <1>8, <1>9, <1>10, PushGood
<1>12. Keeps(S, R)
  BY <1>8, <1>11, KeepsOn
<1> QED BY <1>0, <1>1, <1>5, <1>8, <1>11, <1>12

(* A function on top of the chain of thread t. *)
Called(L, fun) == [L EXCEPT !.ci = Append(@, fun)]
Again(f) == [f EXCEPT !.n = @ + 1]
First(t) == [Frame("exec", t) EXCEPT !.n = 1]

(* One more CallInfo, field by field. *)
LEMMA CalledIs ==
  ASSUME NEW L \in Thread, NEW fun \in Funs
  PROVE  /\ Called(L, fun) \in Thread /\ Called(L, fun).status = L.status
         /\ Called(L, fun).baseCcalls = L.baseCcalls /\ Called(L, fun).size_ci = L.size_ci
         /\ Called(L, fun).nCcalls = L.nCcalls /\ Called(L, fun).errfunc = L.errfunc
         /\ Called(L, fun).top = L.top
         /\ Called(L, fun).ci = Append(L.ci, fun) /\ L.ci \in Seq(Funs) /\ L.nCcalls \in Nat
<1>1. L.ci \in Seq(Funs)
  BY DEF Thread
<1>2. Append(L.ci, fun) \in Seq(Funs)
  BY <1>1
<1> QED BY <1>1, <1>2 DEF Called, Thread

(* One more Lua function under luaV_execute, field by field. *)
LEMMA AgainIs ==
  ASSUME NEW f \in Activation
  PROVE  /\ Again(f) \in Activation /\ Again(f).k = f.k /\ Again(f).t = f.t
         /\ Again(f).n = f.n + 1 /\ f.n \in Nat
BY DEF Again, Activation

(* Enter, case by case. *)
LEMMA EnterIs ==
  ASSUME NEW S, S \in Stacks, Last(S.native) = Top(S), NEW fun
  PROVE  Enter(S, Me(S), fun) =
           LET L == Called(S.th[Me(S)], fun)
           IN  IF fun = "C" THEN With(S, L, Append(S.native, Frame("C", Me(S))))
               ELSE IF Top(S).k = "exec" THEN With(S, L, Put(S.native, Again(Top(S))))
               ELSE With(S, L, Append(S.native, First(Me(S))))
<1> DEFINE t == Me(S)
           T == S.th
           N == S.native
           U == [T EXCEPT ![t] = [T[t] EXCEPT !.ci = Append(@, fun)]]
           R == [S EXCEPT !.th[t].ci = Append(@, fun)]
<1>1. S = [th |-> T, native |-> N]
  BY DEF Stacks
<1>2. R = [th |-> U, native |-> N]
  <2> HIDE DEF T, N, t
  <2>1. [[th |-> T, native |-> N] EXCEPT !.th[t].ci = Append(@, fun)] = [th |-> U, native |-> N]
    OBVIOUS
  <2> QED BY <1>1, <2>1
<1>3. U = [T EXCEPT ![t] = Called(T[t], fun)]
  BY DEF Called
<1>4. \A M : [th |-> U, native |-> M] = With(S, Called(S.th[Me(S)], fun), M)
  BY <1>3 DEF With
<1> HIDE DEF T, N, t, U
<1>5. \A f : Push(R, f) = [th |-> U, native |-> Append(N, f)]
  <2>1. \A f : Push([th |-> U, native |-> N], f) = [th |-> U, native |-> Append(N, f)]
    BY DEF Push
  <2> QED BY <1>2, <2>1
<1>6. [R EXCEPT !.native[Len(R.native)].n = @ + 1] = [th |-> U, native |-> Put(N, Again(N[Len(N)]))]
  <2>1. [[th |-> U, native |-> N] EXCEPT !.native[Len(N)].n = @ + 1]
          = [th |-> U, native |-> [N EXCEPT ![Len(N)] = [N[Len(N)] EXCEPT !.n = @ + 1]]]
    OBVIOUS
  <2>2. R.native = N
    BY <1>2
  <2> QED BY <1>2, <2>1, <2>2 DEF Put, Again
<1> HIDE DEF R
<1>7. Enter(S, t, fun) =
        IF fun = "C" THEN Push(R, Frame("C", t))
        ELSE IF Last(S.native).k = "exec" THEN [R EXCEPT !.native[Len(R.native)].n = @ + 1]
        ELSE Push(R, [Frame("exec", t) EXCEPT !.n = 1])
  BY DEF Enter, R
<1>8. N = S.native /\ N[Len(N)] = Top(S) /\ t = Me(S)
  BY DEF N, Top, t
<1> HIDE DEF R
<1> QED BY <1>4, <1>5, <1>6, <1>7, <1>8 DEF First

(* A function is entered: one entry in the chain, one more function on the *)
(* stack that owns it.                                                     *)
LEMMA EnterGood ==
  ASSUME NEW S, Core(S), Top(S).k \in {"exec", "call", "resume"},
         Depth(S.native, Len(S.native)) < Limit, NEW fun \in Funs
  PROVE  Good(Enter(S, Me(S), fun)) /\ Keeps(S, Enter(S, Me(S), fun))
<1> DEFINE t == Me(S)
           L == Called(S.th[t], fun)
           E == Enter(S, t, fun)
<1> SUFFICES Good(E) /\ Keeps(S, E)
  OBVIOUS
<1>1. /\ S \in Stacks /\ t \in Threads /\ S.th[t] \in Thread /\ S.th \in [Threads -> Thread]
      /\ S.native \in Seq(Activation) /\ Len(S.native) \in Nat \ {0}
      /\ Top(S) \in Activation /\ Top(S).t = t /\ Last(S.native) = Top(S)
      /\ S.th[t].nCcalls = Depth(S.native, Len(S.native))
      /\ S.th[t].size_ci >= BASIC_CI_SIZE /\ S.th[t].status = "ok"
      /\ S.native[1].k = "C"
  BY Parts DEF Frame
<1>2. /\ L \in Thread /\ L.status = "ok" /\ L.baseCcalls = S.th[t].baseCcalls
      /\ L.size_ci >= BASIC_CI_SIZE /\ L.nCcalls = S.th[t].nCcalls /\ L.errfunc = S.th[t].errfunc
      /\ L.ci = Append(S.th[t].ci, fun)
  BY <1>1, CalledIs
<1>3. Len(S.native) > 1
  BY <1>1 DEF Top
<1>4. S.th[t].ci \in Seq(Funs) /\ S.th[t].nCcalls \in Nat
  BY <1>1 DEF Thread
<1>5. E = IF fun = "C" THEN With(S, L, Append(S.native, Frame("C", Me(S))))
           ELSE IF Top(S).k = "exec" THEN With(S, L, Put(S.native, Again(Top(S))))
           ELSE With(S, L, Append(S.native, First(Me(S))))
  BY <1>1, EnterIs
<1>6. t = Me(S)
  OBVIOUS
<1> HIDE DEF t, L, E
<1>7. ASSUME NEW f \in Activation, f.k \in {"C", "exec"}, f.t = t, E = With(S, L, Append(S.native, f)),
             f.k \in May(S.native, Len(S.native)), f.k = "exec" => f.n > 0,
             L.ci = S.th[t].ci \o Adds(f)
      PROVE  Good(E) /\ Keeps(S, E)
  <2>1. L.nCcalls = S.th[t].nCcalls + Deeper(f)
    BY <1>2, <1>4, <1>7 DEF Deeper, DeepKinds
  <2>2. Begun(S, f, L)
    BY <1>2, <1>6, <1>7, <2>1 DEF Begun
  <2>3. Core(E) /\ Me(E) = Me(S) /\ Keeps(S, E) /\ Top(E) = f /\ E.th[Me(S)] = L
    BY <1>2, <1>7, <2>2, PushGood
  <2>4. Depth(E.native, Len(E.native)) = L.nCcalls
    BY <2>3, Parts
  <2> QED BY <1>1, <1>2, <1>7, <2>3, <2>4 DEF Good, Rest
<1>8. CASE fun = "C"
  <2> DEFINE f == Frame("C", t)
  <2>1. f \in Activation /\ f.k = "C" /\ f.t = t
    BY <1>1, FrameType DEF Places
  <2>2. f.k \in May(S.native, Len(S.native))
    BY <1>3, <2>1 DEF May, Above, Top
  <2>3. L.ci = S.th[t].ci \o Adds(f)
    BY <1>2, <1>4, <1>8, <2>1, FrontAppend DEF Adds
  <2>4. E = With(S, L, Append(S.native, f))
    BY <1>5, <1>6, <1>8
  <2> HIDE DEF f
  <2> QED BY <1>7, <2>1, <2>2, <2>3, <2>4
<1>9. CASE fun # "C" /\ Top(S).k # "exec"
  <2> DEFINE f == First(t)
  <2>1. f \in Activation /\ f.k = "exec" /\ f.t = t /\ f.n = 1
    BY <1>1 DEF Places, First, Frame, Activation, Errs
  <2>2. f.k \in May(S.native, Len(S.native))
    BY <1>3, <1>9, <2>1 DEF May, Above, Top
  <2>3. L.ci = S.th[t].ci \o Adds(f)
    <3>1. Adds(f) = LuaCalls(1) /\ fun = "Lua"
      BY <1>9, <2>1 DEF Adds, LuaCalls, Funs
    <3>2. S.th[t].ci \o LuaCalls(0) = S.th[t].ci
      <4>1. LuaCalls(0) = <<>>
        BY DEF LuaCalls
      <4>2. S.th[t].ci \o <<>> = S.th[t].ci
        BY <1>4
      <4> QED BY <4>1, <4>2
    <3>3. Append(S.th[t].ci \o LuaCalls(0), "Lua") = S.th[t].ci \o LuaCalls(1)
      <4> DEFINE c == S.th[t].ci
      <4>2. c \in Seq(Funs)
        BY <1>4
      <4> HIDE DEF c
      <4>3. \A k \in Nat : Append(c \o LuaCalls(k), "Lua") = c \o LuaCalls(k + 1)
        BY <4>2, Longer
      <4>4. 0 \in Nat /\ 0 + 1 = 1
        OBVIOUS
      <4>1. Append(S.th[t].ci \o LuaCalls(0), "Lua") = S.th[t].ci \o LuaCalls(1)
        BY <4>3, <4>4 DEF c
      <4> QED BY <4>1
    <3> QED BY <1>2, <3>1, <3>2, <3>3
  <2>4. E = With(S, L, Append(S.native, f))
    BY <1>5, <1>6, <1>9
  <2> HIDE DEF f
  <2> QED BY <1>7, <2>1, <2>2, <2>3, <2>4
<1>10. CASE fun # "C" /\ Top(S).k = "exec"
  <2> DEFINE m == Top(S).n
             f == Again(Top(S))
             n == Len(S.native)
  <2>1. /\ m \in Nat /\ m + 1 \in Nat \ {0}
        /\ f \in Activation /\ f.k = "exec" /\ f.t = t /\ f.n = m + 1
    BY <1>1, <1>10, AgainIs
  <2>2. E = With(S, L, Put(S.native, f))
    BY <1>5, <1>10
  <2>3. Chain(S.native, t, n - 1) \in Seq(Funs) /\ n - 1 \in 0..n
    BY <1>1, Numbers
  <2>4. S.th[t].ci = Chain(S.native, t, n - 1) \o LuaCalls(m)
    <3>1. n \in 2..Len(S.native)
      BY <1>1, <1>3
    <3>2. Chain(S.native, t, n) = IF S.native[n].t = t THEN Chain(S.native, t, n - 1) \o Adds(S.native[n])
                                  ELSE Chain(S.native, t, n - 1)
      BY <1>1, <3>1, ChainPush
    <3>3. Adds(S.native[n]) = LuaCalls(m)
      BY <1>10 DEF Adds, LuaCalls, Top
    <3>4. S.th[t].ci = Chain(S.native, t, n)
      BY <1>6, Runs
    <3> QED BY <1>1, <3>2, <3>3, <3>4 DEF Top
  <2>5. L.ci = Chain(S.native, t, n - 1) \o LuaCalls(m + 1)
    <3>1. fun = "Lua"
      BY <1>10 DEF Funs
    <3> HIDE DEF m
    <3>2. Append(Chain(S.native, t, n - 1) \o LuaCalls(m), "Lua")
            = Chain(S.native, t, n - 1) \o LuaCalls(m + 1)
      BY <2>1, <2>3, Longer
    <3> QED BY <1>2, <2>4, <3>1, <3>2
  <2> HIDE DEF m, f
  <2>6. /\ Core(E) /\ Me(E) = Me(S) /\ Keeps(S, E) /\ Top(E).k = "exec"
        /\ E.th[Me(E)].nCcalls = S.th[Me(S)].nCcalls
    <3>1. Reran(S, f, L)
      <4>1. f.n > 0 /\ f.n = m + 1 /\ f.k = "exec" /\ f.t = Me(S)
        BY <1>6, <2>1
      <4>2. L.ci = Chain(S.native, Me(S), Len(S.native) - 1) \o LuaCalls(f.n)
        BY <1>6, <2>5, <4>1
      <4> QED BY <1>2, <1>6, <4>1, <4>2 DEF Reran
    <3> QED BY <1>2, <1>10, <2>1, <2>2, <3>1, RunGood
  <2>7. Depth(E.native, Len(E.native)) < Limit
    BY <1>1, <1>6, <2>6, Parts
  <2> QED BY <2>6, <2>7 DEF Good, Rest
<1> QED BY <1>8, <1>9, <1>10

Wider(L) == [L EXCEPT !.size_ci = 2 * @]

(* growCI changes the size of the array or nothing. *)
LEMMA GrownIs ==
  ASSUME NEW S, S \in Stacks
  PROVE  \/ Grown(S, Me(S)) = S
         \/ Grown(S, Me(S)) = With(S, Wider(S.th[Me(S)]), S.native)
<1> DEFINE t == Me(S)
           T == S.th
           N == S.native
<1>1. S = [th |-> T, native |-> N]
  BY DEF Stacks
<1>2. [S EXCEPT !.th[t].size_ci = 2 * @] = With(S, Wider(S.th[Me(S)]), S.native)
  <2> HIDE DEF T, N, t
  <2>1. [[th |-> T, native |-> N] EXCEPT !.th[t].size_ci = 2 * @]
          = [th |-> [T EXCEPT ![t] = [T[t] EXCEPT !.size_ci = 2 * @]], native |-> N]
    OBVIOUS
  <2> QED BY <1>1, <2>1 DEF With, Wider, T, N, t
<1> QED BY <1>2 DEF Grown

(* It changes nothing the stacks agree on. *)
LEMMA GrownGood ==
  ASSUME NEW S, Core(S), NEW R, R = Grown(S, Me(S))
  PROVE  Core(R) /\ Me(R) = Me(S) /\ Keeps(S, R) /\ R.native = S.native
<1>1. CASE R = S
  BY <1>1, KeepsItself
<1>2. CASE R = With(S, Wider(S.th[Me(S)]), S.native)
  <2> DEFINE L == Wider(S.th[Me(S)])
  <2>1. /\ Me(S) \in Threads /\ S.th[Me(S)] \in Thread /\ S.th \in [Threads -> Thread]
        /\ S.native \in Seq(Activation) /\ S.th[Me(S)].size_ci >= BASIC_CI_SIZE
    BY Parts
  <2>2. /\ L \in Thread /\ L.status = S.th[Me(S)].status /\ L.ci = S.th[Me(S)].ci
        /\ L.baseCcalls = S.th[Me(S)].baseCcalls /\ L.errfunc = S.th[Me(S)].errfunc
        /\ L.nCcalls = S.th[Me(S)].nCcalls /\ L.top = S.th[Me(S)].top
        /\ L.size_ci >= BASIC_CI_SIZE
    <3> DEFINE K == S.th[Me(S)]
    <3>1. K \in Thread /\ K.size_ci >= BASIC_CI_SIZE
      BY <2>1
    <3> HIDE DEF K
    <3>2. /\ Wider(K) \in Thread /\ Wider(K).status = K.status /\ Wider(K).ci = K.ci
          /\ Wider(K).baseCcalls = K.baseCcalls /\ Wider(K).errfunc = K.errfunc
          /\ Wider(K).nCcalls = K.nCcalls /\ Wider(K).top = K.top
          /\ Wider(K).size_ci >= BASIC_CI_SIZE
      BY <3>1, LuaCallAssumption DEF Wider, Thread
    <3> QED BY <3>2 DEF K
  <2> HIDE DEF L
  <2>3. /\ R.native = S.native /\ R.th = [S.th EXCEPT ![Me(S)] = L] /\ R = [th |-> R.th, native |-> R.native]
    BY <1>2 DEF With, L
  <2>4. /\ R.th \in [Threads -> Thread] /\ R.th[Me(S)] = L
        /\ \A u \in Threads \ {Me(S)} : R.th[u] = S.th[u]
    BY <2>1, <2>2, <2>3
  <2>5. R \in Stacks
    BY <2>1, <2>3, <2>4 DEF Stacks
  <2>6. \A u \in Threads :
          /\ R.th[u].status = S.th[u].status /\ R.th[u].ci = S.th[u].ci
          /\ R.th[u].baseCcalls = S.th[u].baseCcalls /\ R.th[u].errfunc = S.th[u].errfunc
          /\ R.th[u].size_ci >= BASIC_CI_SIZE
          /\ R.th[u].nCcalls = S.th[u].nCcalls
          /\ R.th[u].top = S.th[u].top
    BY <2>2, <2>4 DEF Core, Typed
  <2>7. Core(R) /\ Me(R) = Me(S)
    BY <2>3, <2>5, <2>6, TouchCore
  <2>8. Keeps(S, R)
    BY <2>3, <2>6 DEF Keeps, Threads
  <2> QED BY <2>3, <2>7, <2>8
<1> QED BY <1>1, <1>2, GrownIs, Parts

(* inc_ci, in front of anything that is good: it may be that, an overflow, *)
(* or an error in the handling of one.                                     *)
LEMMA IncCiGood ==
  ASSUME NEW S, Core(S), Top(S).k \in {"exec", "call"},
         Depth(S.native, Len(S.native)) < Limit,
         NEW after, Good(after), Keeps(S, after)
  PROVE  Good(IncCi(S, Me(S), after)) /\ Keeps(S, IncCi(S, Me(S), after))
<1> DEFINE R == Grown(S, Me(S))
<1>1. Core(R) /\ Me(R) = Me(S) /\ Keeps(S, R) /\ R.native = S.native
  BY GrownGood
<1>2. Len(S.native) > 1
  BY Parts DEF Top, Frame
<1>3. Good(luaD_throw(S)) /\ Keeps(S, luaD_throw(S))
  BY <1>2, ThrowGood
<1>4. /\ Top(R).k \in {"exec", "call"} /\ Len(R.native) > 1
      /\ R.th[Me(R)].nCcalls < Limit
  BY <1>1, <1>2, Parts DEF Top
<1> HIDE DEF R
<1>5. Good(Raise(R, Me(R))) /\ Keeps(R, Raise(R, Me(R)))
  BY <1>1, <1>4, RaiseGood
<1>6. Keeps(S, Raise(R, Me(S)))
  BY <1>1, <1>5, KeepsOn
<1>7. IncCi(S, Me(S), after) \in {after, luaD_throw(S), Raise(R, Me(S))}
  BY DEF IncCi, R
<1> QED BY <1>1, <1>3, <1>5, <1>6, <1>7

(* luaD_precall. *)
LEMMA PrecallGood ==
  ASSUME NEW S, Core(S), Top(S).k \in {"exec", "call"},
         Depth(S.native, Len(S.native)) < Limit, NEW fun \in Funs
  PROVE  Good(luaD_precall(S, Me(S), fun)) /\ Keeps(S, luaD_precall(S, Me(S), fun))
<1> DEFINE R == Grown(S, Me(S))
           A == Enter(R, Me(S), fun)
<1>1. Core(R) /\ Me(R) = Me(S) /\ Keeps(S, R) /\ R.native = S.native
  BY GrownGood
<1>2. Top(R).k \in {"exec", "call"} /\ Depth(R.native, Len(R.native)) < Limit
  BY <1>1 DEF Top
<1> HIDE DEF R
<1>3. Good(A) /\ Keeps(R, A)
  BY <1>1, <1>2, EnterGood
<1>4. Keeps(S, A)
  BY <1>1, <1>3, KeepsOn
<1> HIDE DEF A
<1>5. luaD_precall(S, Me(S), fun) = IncCi(S, Me(S), A)
  BY DEF luaD_precall, A, R
<1> QED BY <1>3, <1>4, <1>5, IncCiGood

Counting(L) == [L EXCEPT !.nCcalls = @ + 1]

(* nCcalls is one more, field by field. *)
LEMMA CountingIs ==
  ASSUME NEW L \in Thread
  PROVE  /\ Counting(L) \in Thread /\ Counting(L).status = L.status /\ Counting(L).ci = L.ci
         /\ Counting(L).baseCcalls = L.baseCcalls /\ Counting(L).errfunc = L.errfunc
         /\ Counting(L).nCcalls = L.nCcalls + 1 /\ Counting(L).size_ci = L.size_ci
         /\ L.ci \in Seq(Funs) /\ L.nCcalls \in Nat
BY DEF Counting, Thread

(* Counting an activation and making it, as one record. *)
LEMMA CountedPush ==
  ASSUME NEW S, S \in Stacks, NEW f
  PROVE  Push([S EXCEPT !.th[Me(S)].nCcalls = @ + 1], f)
           = With(S, Counting(S.th[Me(S)]), Append(S.native, f))
<1> DEFINE t == Me(S)
           T == S.th
           N == S.native
<1>1. S = [th |-> T, native |-> N]
  BY DEF Stacks
<1> HIDE DEF T, N, t
<1>2. [[th |-> T, native |-> N] EXCEPT !.th[t].nCcalls = @ + 1]
          = [th |-> [T EXCEPT ![t] = [T[t] EXCEPT !.nCcalls = @ + 1]], native |-> N]
  OBVIOUS
<1> DEFINE U == [T EXCEPT ![t] = [T[t] EXCEPT !.nCcalls = @ + 1]]
<1>3. U = [S.th EXCEPT ![Me(S)] = Counting(S.th[Me(S)])]
  BY DEF Counting, T, t
<1> HIDE DEF U
<1>4. [S EXCEPT !.th[t].nCcalls = @ + 1] = [th |-> U, native |-> N]
  BY <1>1, <1>2 DEF U
<1>5. Push([th |-> U, native |-> N], f) = [th |-> U, native |-> Append(N, f)]
  BY DEF Push
<1>6. Push([S EXCEPT !.th[t].nCcalls = @ + 1], f) = [th |-> U, native |-> Append(N, f)]
  BY <1>4, <1>5
<1> QED BY <1>3, <1>6 DEF With, N, t

(* luaD_call and enterlevel begin an activation that counts. *)
LEMMA DeeperGood ==
  ASSUME NEW S, Core(S), NEW f, f \in {Frame("call", Me(S)), Frame("level", Me(S))},
         f.k \in May(S.native, Len(S.native)),
         NEW R, R = Push([S EXCEPT !.th[Me(S)].nCcalls = @ + 1], f)
  PROVE  /\ Core(R) /\ Me(R) = Me(S) /\ Keeps(S, R) /\ Top(R) = f /\ Len(R.native) > 1
         /\ R.th[Me(S)].nCcalls = S.th[Me(S)].nCcalls + 1
<1> DEFINE L == Counting(S.th[Me(S)])
<1>1. /\ S \in Stacks /\ Me(S) \in Threads /\ S.th[Me(S)] \in Thread /\ S.th[Me(S)].status = "ok"
      /\ S.th[Me(S)].size_ci >= BASIC_CI_SIZE /\ Len(S.native) \in Nat \ {0}
  BY Parts
<1>2. /\ L \in Thread /\ L.status = "ok" /\ L.ci = S.th[Me(S)].ci
      /\ L.baseCcalls = S.th[Me(S)].baseCcalls /\ L.errfunc = S.th[Me(S)].errfunc
      /\ L.nCcalls = S.th[Me(S)].nCcalls + 1 /\ L.size_ci = S.th[Me(S)].size_ci
      /\ S.th[Me(S)].ci \in Seq(Funs)
  BY <1>1, CountingIs
<1>3. /\ f \in Activation /\ f.k \in {"call", "level"} /\ f.t = Me(S)
  BY <1>1, FrameType DEF Places
<1>4. R = With(S, L, Append(S.native, f))
  BY <1>1, CountedPush
<1> HIDE DEF L
<1>5. Begun(S, f, L)
  <2>1. L.ci = S.th[Me(S)].ci \o Adds(f)
    <3>1. Adds(f) = <<>>
      BY <1>3 DEF Adds
    <3>2. S.th[Me(S)].ci \o <<>> = S.th[Me(S)].ci
      BY <1>2
    <3> QED BY <1>2, <3>1, <3>2
  <2>2. Deeper(f) = 1
    BY <1>3 DEF Deeper, DeepKinds
  <2> QED BY <1>1, <1>2, <1>3, <2>1, <2>2 DEF Begun
<1>6. /\ Core(R) /\ Me(R) = Me(S) /\ Keeps(S, R) /\ Top(R) = f
      /\ Len(R.native) = Len(S.native) + 1 /\ R.th[Me(S)] = L
  BY <1>2, <1>3, <1>4, <1>5, PushGood
<1> QED BY <1>1, <1>2, <1>6

(* luaD_call: the activation is made and counted, or an error undoes both. *)
LEMMA CallGood ==
  ASSUME NEW S, Core(S), "call" \in May(S.native, Len(S.native)),
         Depth(S.native, Len(S.native)) < Limit, NEW fun \in Funs
  PROVE  Good(luaD_call(S, Me(S), fun)) /\ Keeps(S, luaD_call(S, Me(S), fun))
<1> DEFINE t == Me(S)
           R == Push([S EXCEPT !.th[t].nCcalls = @ + 1], Frame("call", t))
           n == R.th[t].nCcalls
<1>1. Me(S) \in Threads /\ S.th[Me(S)].nCcalls = Depth(S.native, Len(S.native))
      /\ S.th[Me(S)].nCcalls \in Nat
  BY Parts DEF Thread
<1>2. Frame("call", Me(S)).k = "call"
  BY <1>1, FrameType DEF Places
<1>3. /\ Core(R) /\ Me(R) = t /\ Keeps(S, R) /\ Top(R).k = "call" /\ Len(R.native) > 1
      /\ n = S.th[t].nCcalls + 1
  BY <1>2, DeeperGood
<1>4. luaD_call(S, t, fun) = IF n = LUAI_MAXCCALLS THEN Raise(R, t)
                             ELSE IF n >= LUAI_MAXCCALLS + EXTRACCALLS THEN luaD_throw(R)
                             ELSE luaD_precall(R, t, fun)
  BY DEF luaD_call
<1>5. n \in Nat /\ n = Depth(R.native, Len(R.native)) /\ Limit \in Nat /\ LUAI_MAXCCALLS < Limit
  BY <1>1, <1>3, Parts, LuaCallAssumption DEF Limit
<1> HIDE DEF R, n
<1>6. CASE n = LUAI_MAXCCALLS
  <2>1. Good(Raise(R, t)) /\ Keeps(R, Raise(R, t))
    <3>1. R.th[Me(R)].nCcalls < Limit
      BY <1>3, <1>5, <1>6 DEF n
    <3> QED BY <1>3, <3>1, RaiseGood
  <2>2. Keeps(S, Raise(R, t))
    BY <1>3, <2>1, KeepsOn
  <2> QED BY <1>4, <1>6, <2>1, <2>2
<1>7. CASE n # LUAI_MAXCCALLS /\ n >= Limit
  <2>1. Good(luaD_throw(R)) /\ Keeps(R, luaD_throw(R))
    BY <1>3, ThrowGood
  <2>2. Keeps(S, luaD_throw(R))
    BY <1>3, <2>1, KeepsOn
  <2> QED BY <1>4, <1>7, <2>1, <2>2 DEF Limit
<1>8. CASE n # LUAI_MAXCCALLS /\ ~(n >= Limit)
  <2>1. Good(luaD_precall(R, t, fun)) /\ Keeps(R, luaD_precall(R, t, fun))
    <3>1. Depth(R.native, Len(R.native)) < Limit
      BY <1>5, <1>8
    <3> QED BY <1>3, <3>1, PrecallGood
  <2>2. Keeps(S, luaD_precall(R, t, fun))
    BY <1>3, <2>1, KeepsOn
  <2> QED BY <1>4, <1>8, <2>1, <2>2 DEF Limit
<1> QED BY <1>6, <1>7, <1>8

Handled(L, ef) == [L EXCEPT !.errfunc = ef]
Setjmp(L, t) == [Frame("pcall", t) EXCEPT !.nCcalls = L.nCcalls, !.ci = Len(L.ci),
                                          !.errfunc = L.errfunc]

(* What luaD_pcall saves, and the thread that runs under it. *)
LEMMA SetjmpIs ==
  ASSUME NEW L \in Thread, NEW t \in Threads, NEW ef \in Errs
  PROVE  /\ Handled(L, ef) \in Thread /\ Handled(L, ef).status = L.status
         /\ Handled(L, ef).ci = L.ci /\ Handled(L, ef).baseCcalls = L.baseCcalls
         /\ Handled(L, ef).errfunc = ef /\ Handled(L, ef).nCcalls = L.nCcalls
         /\ Handled(L, ef).size_ci = L.size_ci
         /\ Setjmp(L, t) \in Activation /\ Setjmp(L, t).k = "pcall" /\ Setjmp(L, t).t = t
         /\ Setjmp(L, t).nCcalls = L.nCcalls /\ Setjmp(L, t).ci = Len(L.ci)
         /\ Setjmp(L, t).errfunc = L.errfunc
         /\ L.ci \in Seq(Funs) /\ L.nCcalls \in Nat
<1>1. L.ci \in Seq(Funs) /\ L.nCcalls \in Nat /\ L.errfunc \in Errs
  BY DEF Thread
<1>2. Len(L.ci) \in Nat
  BY <1>1
<1> QED BY <1>1, <1>2 DEF Handled, Setjmp, Thread, Activation, Frame, Places, Errs

(* luaD_pcall, as one record. *)
LEMMA PcallIs ==
  ASSUME NEW S, S \in Stacks, NEW ef
  PROVE  luaD_pcall(S, Me(S), ef)
           = With(S, Handled(S.th[Me(S)], ef), Append(S.native, Setjmp(S.th[Me(S)], Me(S))))
<1> DEFINE t == Me(S)
           T == S.th
           N == S.native
           f == Setjmp(T[t], t)
           U == [T EXCEPT ![t] = [T[t] EXCEPT !.errfunc = ef]]
<1>1. S = [th |-> T, native |-> N]
  BY DEF Stacks
<1>2. U = [S.th EXCEPT ![Me(S)] = Handled(S.th[Me(S)], ef)]
  BY DEF Handled
<1>3. luaD_pcall(S, t, ef) = Push([S EXCEPT !.th[t].errfunc = ef], f)
  BY DEF luaD_pcall, Setjmp
<1>4. f = Setjmp(S.th[Me(S)], Me(S)) /\ N = S.native /\ t = Me(S)
  OBVIOUS
<1> HIDE DEF f, T, N, t
<1>5. [[th |-> T, native |-> N] EXCEPT !.th[t].errfunc = ef] = [th |-> U, native |-> N]
  OBVIOUS
<1> HIDE DEF U
<1>6. Push([th |-> U, native |-> N], f) = [th |-> U, native |-> Append(N, f)]
  BY DEF Push
<1> QED BY <1>1, <1>2, <1>3, <1>4, <1>5, <1>6 DEF With

(* luaD_pcall begins. *)
LEMMA SetjmpGood ==
  ASSUME NEW S, Core(S), Top(S).k = "C", Depth(S.native, Len(S.native)) < Limit, NEW ef \in Errs,
         NEW R, R = luaD_pcall(S, Me(S), ef)
  PROVE  /\ Good(R) /\ Me(R) = Me(S) /\ Keeps(S, R) /\ Top(R).k = "pcall" /\ Len(R.native) > 1
         /\ Depth(R.native, Len(R.native)) < Limit
<1> DEFINE L == Handled(S.th[Me(S)], ef)
           f == Setjmp(S.th[Me(S)], Me(S))
<1>1. /\ S \in Stacks /\ Me(S) \in Threads /\ S.th[Me(S)] \in Thread /\ S.th[Me(S)].status = "ok"
      /\ S.th[Me(S)].size_ci >= BASIC_CI_SIZE /\ Len(S.native) \in Nat \ {0}
      /\ S.th[Me(S)].nCcalls = Depth(S.native, Len(S.native))
  BY Parts
<1>2. /\ L \in Thread /\ L.status = "ok" /\ L.ci = S.th[Me(S)].ci
      /\ L.baseCcalls = S.th[Me(S)].baseCcalls
      /\ L.nCcalls = S.th[Me(S)].nCcalls /\ L.size_ci = S.th[Me(S)].size_ci
      /\ f \in Activation /\ f.k = "pcall" /\ f.t = Me(S)
      /\ f.nCcalls = S.th[Me(S)].nCcalls /\ f.ci = Len(S.th[Me(S)].ci)
      /\ f.errfunc = S.th[Me(S)].errfunc
      /\ S.th[Me(S)].ci \in Seq(Funs) /\ S.th[Me(S)].nCcalls \in Nat
  BY <1>1, SetjmpIs
<1>3. R = With(S, L, Append(S.native, f))
  BY <1>1, PcallIs
<1> HIDE DEF L, f
<1>4. Begun(S, f, L)
  <2>1. L.ci = S.th[Me(S)].ci \o Adds(f)
    <3>1. Adds(f) = <<>>
      BY <1>2 DEF Adds
    <3>2. S.th[Me(S)].ci \o <<>> = S.th[Me(S)].ci
      BY <1>2
    <3> QED BY <1>2, <3>1, <3>2
  <2>2. L.nCcalls = S.th[Me(S)].nCcalls + Deeper(f)
    BY <1>2 DEF Deeper, DeepKinds
  <2>3. f.k \in May(S.native, Len(S.native))
    BY <1>2 DEF May, Above, Top
  <2>4. f.nCcalls < Limit
    BY <1>1, <1>2
  <2> QED BY <1>1, <1>2, <2>1, <2>2, <2>3, <2>4 DEF Begun
<1>5. /\ Core(R) /\ Me(R) = Me(S) /\ Keeps(S, R) /\ Top(R) = f
      /\ Len(R.native) = Len(S.native) + 1 /\ R.th[Me(S)] = L
  BY <1>2, <1>3, <1>4, PushGood
<1>6. Depth(R.native, Len(R.native)) < Limit
  BY <1>1, <1>2, <1>5, Parts
<1> QED BY <1>1, <1>2, <1>5, <1>6 DEF Good, Rest

-----------------------------------------------------------------------------
Uncounted(L) == [L EXCEPT !.nCcalls = @ - 1]

(* nCcalls is one less, field by field. *)
LEMMA UncountedIs ==
  ASSUME NEW L \in Thread, L.nCcalls > 0
  PROVE  /\ Uncounted(L) \in Thread /\ Uncounted(L).status = L.status /\ Uncounted(L).ci = L.ci
         /\ Uncounted(L).baseCcalls = L.baseCcalls /\ Uncounted(L).errfunc = L.errfunc
         /\ Uncounted(L).nCcalls = L.nCcalls - 1 /\ Uncounted(L).size_ci = L.size_ci
         /\ Uncounted(L).top = L.top
<1>1. L.nCcalls - 1 \in Nat
  BY DEF Thread
<1> QED BY <1>1 DEF Uncounted, Thread

(* A thread whose stack has been emptied, field by field. *)
LEMMA DeadIs ==
  ASSUME NEW L \in Thread
  PROVE  LET K == [L EXCEPT !.top = FALSE]
         IN  /\ K \in Thread /\ K.status = L.status /\ K.ci = L.ci /\ K.errfunc = L.errfunc
             /\ K.size_ci = L.size_ci /\ ~K.top
BY DEF Thread

(* Uncounting an activation and ending it, as one record. *)
LEMMA UncountedPop ==
  ASSUME NEW S, S \in Stacks
  PROVE  [Pop(S) EXCEPT !.th[Me(S)].nCcalls = @ - 1]
           = With(S, Uncounted(S.th[Me(S)]), SubSeq(S.native, 1, Len(S.native) - 1))
<1> DEFINE t == Me(S)
           T == S.th
           N == S.native
           M == Front(N)
           U == [T EXCEPT ![t] = [T[t] EXCEPT !.nCcalls = @ - 1]]
<1>1. S = [th |-> T, native |-> N]
  BY DEF Stacks
<1>2. U = [S.th EXCEPT ![Me(S)] = Uncounted(S.th[Me(S)])]
  BY DEF Uncounted
<1>3. M = SubSeq(S.native, 1, Len(S.native) - 1) /\ t = Me(S)
  BY DEF Front
<1> HIDE DEF T, t, N
<1>4. Pop([th |-> T, native |-> N]) = [th |-> T, native |-> M]
  BY DEF Pop
<1> HIDE DEF M
<1>5. [[th |-> T, native |-> M] EXCEPT !.th[t].nCcalls = @ - 1] = [th |-> U, native |-> M]
  OBVIOUS
<1> HIDE DEF U
<1> QED BY <1>1, <1>2, <1>3, <1>4, <1>5 DEF With

Silent(S, t) == [S EXCEPT !.th[t].top = FALSE]

(* Emptying a thread's stack, as a record. *)
LEMMA SilentIs ==
  ASSUME NEW T, NEW M, NEW t
  PROVE  Silent([th |-> T, native |-> M], t)
           = [th |-> [T EXCEPT ![t] = [T[t] EXCEPT !.top = FALSE]], native |-> M]
<1> DEFINE S == [th |-> T, native |-> M]
<1>1. Silent(S, t) = [S EXCEPT !.th = [S.th EXCEPT ![t] = [S.th[t] EXCEPT !.top = FALSE]]]
  BY DEF Silent
<1>2. S.th = T /\ S.native = M
  OBVIOUS
<1>3. [S EXCEPT !.th = [S.th EXCEPT ![t] = [S.th[t] EXCEPT !.top = FALSE]]]
        = [S EXCEPT !.th = [T EXCEPT ![t] = [T[t] EXCEPT !.top = FALSE]]]
  BY <1>2
<1> QED BY <1>1, <1>3

(* The places of Back. *)
LEMMA BackIs ==
  ASSUME NEW S, S \in Stacks, Last(S.native) = Top(S), Top(S).t = Me(S), NEW R,
         R = With(S, Uncounted(S.th[Me(S)]), SubSeq(S.native, 1, Len(S.native) - 1))
  PROVE  /\ Top(S).k = "resume" => Back(S) = Silent(R, Me(S))
         /\ Top(S).k \notin {"call", "resume"} => Back(S) = S
         /\ Top(S).k = "call" /\ Last(R.native).k = "pcall" =>
              Back(S) = [Pop(R) EXCEPT !.th[Me(S)].errfunc = Last(R.native).errfunc]
         /\ Top(S).k = "call" /\ Last(R.native).k = "handler" => Back(S) = luaD_throw(R)
         /\ Top(S).k = "call" /\ Last(R.native).k \notin {"pcall", "handler"} => Back(S) = R
<1>1. R = [Pop(S) EXCEPT !.th[Me(S)].nCcalls = @ - 1]
  BY UncountedPop
<1>2. Last(S.native).t = Me(S) /\ Last(S.native).k = Top(S).k
  OBVIOUS
<1> DEFINE k == Top(S).k
           j == Last(R.native).k
           ends == [Pop(R) EXCEPT !.th[Me(S)].errfunc = Last(R.native).errfunc]
<1>3. Back(S) = CASE k = "resume" -> Silent(R, Me(S))
                  [] k \notin {"call", "resume"} -> S
                  [] k = "call" /\ j = "pcall" -> ends
                  [] k = "call" /\ j = "handler" -> luaD_throw(R)
                  [] OTHER -> R
  BY <1>1, <1>2 DEF Back, Silent
<1> HIDE DEF k, j, ends
<1>4. /\ k = "resume" => Back(S) = Silent(R, Me(S))
      /\ k \notin {"call", "resume"} => Back(S) = S
      /\ k = "call" /\ j = "pcall" => Back(S) = ends
      /\ k = "call" /\ j = "handler" => Back(S) = luaD_throw(R)
      /\ k = "call" /\ j \notin {"pcall", "handler"} => Back(S) = R
  BY ONLY <1>3
<1> QED BY <1>4 DEF k, j, ends

-----------------------------------------------------------------------------
(* A protected call ends. *)
LEMMA PcallPop ==
  ASSUME NEW S, S \in Stacks, NEW ef
  PROVE  [Pop(S) EXCEPT !.th[Me(S)].errfunc = ef]
           = With(S, Handled(S.th[Me(S)], ef), SubSeq(S.native, 1, Len(S.native) - 1))
<1> DEFINE t == Me(S)
           T == S.th
           N == S.native
           M == Front(N)
           U == [T EXCEPT ![t] = [T[t] EXCEPT !.errfunc = ef]]
<1>1. S = [th |-> T, native |-> N]
  BY DEF Stacks
<1>2. U = [S.th EXCEPT ![Me(S)] = Handled(S.th[Me(S)], ef)]
  BY DEF Handled
<1>3. M = SubSeq(S.native, 1, Len(S.native) - 1) /\ t = Me(S)
  BY DEF Front
<1> HIDE DEF T, t, N
<1>4. Pop([th |-> T, native |-> N]) = [th |-> T, native |-> M]
  BY DEF Pop
<1> HIDE DEF M
<1>5. [[th |-> T, native |-> M] EXCEPT !.th[t].errfunc = ef] = [th |-> U, native |-> M]
  OBVIOUS
<1> HIDE DEF U
<1> QED BY <1>1, <1>2, <1>3, <1>4, <1>5 DEF With

(* What activation n, which is not the host's, adds to the others. *)
LEMMA LastAdds ==
  ASSUME NEW S, Core(S), NEW n, n = Len(S.native), n > 1
  PROVE  /\ n \in 2..Len(S.native) /\ n \in 2..n /\ n - 1 \in Nat \ {0} /\ n \in Nat \ {0}
         /\ Depth(S.native, n) = Depth(S.native, n - 1) + Deeper(Top(S))
         /\ Depth(S.native, n - 1) \in Nat
         /\ S.th[Me(S)].nCcalls = Depth(S.native, n)
         /\ Chain(S.native, Me(S), n - 1) \in Seq(Funs)
         /\ S.th[Me(S)].ci = Chain(S.native, Me(S), n - 1) \o Adds(Top(S))
         /\ Top(S).k \in May(S.native, n - 1) /\ Top(S) = S.native[n]
<1> DEFINE N == S.native
<1>1. n \in Nat \ {0} /\ N \in Seq(Activation) /\ Top(S) = N[n] /\ Top(S).t = Me(S)
  BY Parts DEF Top
<1>2. n \in 2..Len(S.native) /\ n \in 2..n /\ n - 1 \in Nat \ {0} /\ n - 1 \in 0..Len(S.native)
  BY <1>1
<1> HIDE DEF N
<1>3. Depth(N, n) = Depth(N, n - 1) + Deeper(N[n]) /\ Depth(N, n - 1) \in Nat
  BY <1>1, DepthPush
<1>4. Chain(N, Me(S), n - 1) \in Seq(Funs)
  BY <1>1, <1>2, Numbers DEF N
<1>5. Chain(N, Me(S), n) = IF N[n].t = Me(S) THEN Chain(N, Me(S), n - 1) \o Adds(N[n])
                           ELSE Chain(N, Me(S), n - 1)
  BY <1>1, <1>2, ChainPush DEF N
<1>6. S.th[Me(S)].ci = Chain(N, Me(S), n) /\ S.th[Me(S)].nCcalls = Depth(N, n)
  BY Runs, Parts DEF N
<1>7. N[n].k \in May(N, n - 1)
  BY <1>2 DEF Core, Ordered, N
<1> QED BY <1>1, <1>2, <1>3, <1>4, <1>5, <1>6, <1>7 DEF N

(* It protects only if it is a pcall. *)
LEMMA LastProtects ==
  ASSUME NEW S, Core(S), NEW n, n = Len(S.native), n > 1, Top(S).k # "pcall",
         ~Protected(S.native, Me(S), n - 1)
  PROVE  S.th[Me(S)].errfunc = "none"
<1> DEFINE N == S.native
<1>1. n \in Nat \ {0} /\ Top(S) = N[n] /\ Me(S) \in Threads /\ S.th[Me(S)].status = "ok"
  BY Parts DEF Top
<1>2. ~Protected(N, Me(S), n)
  <2> SUFFICES ASSUME NEW x \in 2..n, N[x].k = "pcall", N[x].t = Me(S) PROVE FALSE
    BY DEF Protected
  <2>1. x # n
    BY <1>1
  <2>2. x \in 2..(n - 1)
    BY <1>1, <2>1
  <2> QED BY <2>2 DEF Protected
<1> QED BY <1>1, <1>2 DEF Core, Handlers

(* A protected call returns without an error and restores errfunc. *)
LEMMA UnpcallGood ==
  ASSUME NEW S, Core(S), Top(S).k = "pcall",
         NEW R, R = [Pop(S) EXCEPT !.th[Me(S)].errfunc = Top(S).errfunc]
  PROVE  Good(R) /\ Keeps(S, R)
<1> DEFINE n == Len(S.native)
           L == S.th[Me(S)]
           K == Handled(L, Top(S).errfunc)
<1>0. n = Len(S.native) /\ L = S.th[Me(S)]
  OBVIOUS
<1>1. /\ S \in Stacks /\ L \in Thread /\ L.status = "ok" /\ L.size_ci >= BASIC_CI_SIZE
      /\ Top(S) \in Activation /\ Me(S) \in Threads /\ n > 1 /\ n \in Nat
  BY Parts DEF Top, Frame
<1>2. Top(S).errfunc \in Errs
  BY <1>1 DEF Activation
<1>3. R = With(S, K, SubSeq(S.native, 1, n - 1))
  BY <1>1, PcallPop
<1> HIDE DEF L
<1>4. /\ K \in Thread /\ K.status = "ok" /\ K.ci = L.ci /\ K.baseCcalls = L.baseCcalls
      /\ K.errfunc = Top(S).errfunc /\ K.nCcalls = L.nCcalls /\ K.size_ci = L.size_ci
      /\ L.ci \in Seq(Funs)
  BY <1>1, <1>2, SetjmpIs
<1> HIDE DEF K, n
<1>5. /\ n \in 2..Len(S.native) /\ Depth(S.native, n) = Depth(S.native, n - 1) + Deeper(Top(S))
      /\ Depth(S.native, n - 1) \in Nat /\ L.nCcalls = Depth(S.native, n)
      /\ Chain(S.native, Me(S), n - 1) \in Seq(Funs)
      /\ L.ci = Chain(S.native, Me(S), n - 1) \o Adds(Top(S)) /\ Top(S) = S.native[n]
  BY <1>0, <1>1, LastAdds
<1>6. Deeper(Top(S)) = 0 /\ Adds(Top(S)) = <<>>
  BY DEF Deeper, DeepKinds, Adds
<1>7. L.ci = Chain(S.native, Me(S), n - 1)
  <2>1. Chain(S.native, Me(S), n - 1) \o <<>> = Chain(S.native, Me(S), n - 1)
    BY <1>5
  <2> QED BY <1>5, <1>6, <2>1
<1>8. ~Protected(S.native, Me(S), n - 1) => K.errfunc = "none"
  <2>1. Top(S).t = Me(S)
    BY Parts
  <2> QED BY <1>4, <1>5, <2>1 DEF Core, Handlers
<1>9. Dropped(S, n, K)
  <2>1. \A x \in n..Len(S.native) : x = n
    BY <1>0, <1>1
  <2>2. \A x \in n..Len(S.native) : S.native[x].k # "resume"
    BY <1>5, <2>1
  <2>3. K.nCcalls = Depth(S.native, n - 1)
    BY <1>4, <1>5, <1>6
  <2> QED BY <1>0, <1>1, <1>4, <1>7, <1>8, <2>2, <2>3 DEF Dropped
<1>10. /\ Core(R) /\ Me(R) = Me(S) /\ Keeps(S, R) /\ Top(R) = S.native[n - 1]
       /\ Len(R.native) = n - 1 /\ R.th[Me(S)] = K
  <2>1. n \in 2..Len(S.native) /\ K \in Thread
    BY <1>4, <1>5
  <2> QED BY ONLY Core(S), <2>1, <1>3, <1>9, CutGood
<1>11. S.native[n].k = "pcall" /\ R.th[Me(R)].nCcalls = Depth(S.native, n - 1)
  <2>1. K.nCcalls = Depth(S.native, n - 1)
    BY <1>4, <1>5, <1>6
  <2>2. S.native[n].k = "pcall"
    BY <1>5
  <2> QED BY ONLY <2>1, <2>2, <1>10
<1> QED BY <1>5, <1>10, <1>11, PcallGood

(* An activation that counts ends. *)
LEMMA UncountGood ==
  ASSUME NEW S, Core(S), Top(S).k \in {"call", "level"}, NEW n, n = Len(S.native), NEW R,
         R = With(S, Uncounted(S.th[Me(S)]), SubSeq(S.native, 1, n - 1))
  PROVE  /\ Core(R) /\ Me(R) = Me(S) /\ Keeps(S, R) /\ Top(R) = S.native[n - 1]
         /\ Len(R.native) = n - 1
         /\ Depth(S.native, n) = Depth(R.native, n - 1) + 1 /\ Depth(R.native, n - 1) \in Nat
<1> DEFINE L == S.th[Me(S)]
           K == Uncounted(L)
<1>0. L = S.th[Me(S)]
  OBVIOUS
<1>1. /\ L \in Thread /\ L.status = "ok" /\ L.size_ci >= BASIC_CI_SIZE
      /\ n > 1 /\ n \in Nat
  BY Parts DEF Top, Frame
<1> HIDE DEF L
<1>2. /\ n \in 2..Len(S.native) /\ Depth(S.native, n) = Depth(S.native, n - 1) + Deeper(Top(S))
      /\ Depth(S.native, n - 1) \in Nat /\ L.nCcalls = Depth(S.native, n)
      /\ Chain(S.native, Me(S), n - 1) \in Seq(Funs)
      /\ L.ci = Chain(S.native, Me(S), n - 1) \o Adds(Top(S)) /\ Top(S) = S.native[n]
  BY <1>0, <1>1, LastAdds
<1>3. Deeper(Top(S)) = 1 /\ Adds(Top(S)) = <<>>
  BY DEF Deeper, DeepKinds, Adds
<1>4. L.ci = Chain(S.native, Me(S), n - 1)
  <2>1. Chain(S.native, Me(S), n - 1) \o <<>> = Chain(S.native, Me(S), n - 1)
    BY <1>2
  <2> QED BY <1>2, <1>3, <2>1
<1>5. L.nCcalls > 0 /\ L.nCcalls - 1 = Depth(S.native, n - 1)
  BY <1>2, <1>3
<1>6. /\ K \in Thread /\ K.status = "ok" /\ K.ci = L.ci /\ K.baseCcalls = L.baseCcalls
      /\ K.errfunc = L.errfunc /\ K.nCcalls = L.nCcalls - 1 /\ K.size_ci = L.size_ci
  BY <1>1, <1>5, UncountedIs
<1>7. R = With(S, K, SubSeq(S.native, 1, n - 1))
  BY <1>0
<1> HIDE DEF K
<1>8. ~Protected(S.native, Me(S), n - 1) => K.errfunc = "none"
  BY <1>0, <1>1, <1>6, LastProtects
<1>9. Dropped(S, n, K)
  <2>1. \A x \in n..Len(S.native) : x = n
    BY <1>1
  <2>2. \A x \in n..Len(S.native) : S.native[x].k # "resume"
    BY <1>2, <2>1
  <2> QED BY <1>0, <1>1, <1>4, <1>5, <1>6, <1>8, <2>2 DEF Dropped
<1>10. /\ Core(R) /\ Me(R) = Me(S) /\ Keeps(S, R) /\ Top(R) = S.native[n - 1]
       /\ Len(R.native) = n - 1 /\ R.th[Me(S)] = K
  <2>1. n \in 2..Len(S.native) /\ K \in Thread
    BY <1>2, <1>6
  <2> QED BY ONLY Core(S), <2>1, <1>7, <1>9, CutGood
<1>11. K.nCcalls = Depth(R.native, n - 1)
  BY <1>10, Parts
<1> QED BY <1>2, <1>3, <1>5, <1>6, <1>10, <1>11

SilentOn(L) == [Uncounted(L) EXCEPT !.top = FALSE]

(* The last activation of a coroutine ends. *)
LEMMA SilentGood ==
  ASSUME NEW S, S \in Stacks, S.th \in [Threads -> Thread], Me(S) \in Threads
  PROVE  Silent(With(S, Uncounted(S.th[Me(S)]), SubSeq(S.native, 1, Len(S.native) - 1)), Me(S))
           = With(S, SilentOn(S.th[Me(S)]), SubSeq(S.native, 1, Len(S.native) - 1))
<1> DEFINE L == Uncounted(S.th[Me(S)])
           K == SilentOn(S.th[Me(S)])
           T == [S.th EXCEPT ![Me(S)] = L]
           M == SubSeq(S.native, 1, Len(S.native) - 1)
           U == [T EXCEPT ![Me(S)] = [T[Me(S)] EXCEPT !.top = FALSE]]
<1>1. With(S, L, M) = [th |-> T, native |-> M]
  BY DEF With
<1>2. T[Me(S)] = L
  OBVIOUS
<1>3. U = [S.th EXCEPT ![Me(S)] = K]
  <2>1. U = [T EXCEPT ![Me(S)] = K]
    BY <1>2 DEF SilentOn
  <2> HIDE DEF K
  <2> QED BY <2>1
<1>4. M = SubSeq(S.native, 1, Len(S.native) - 1) /\ K = SilentOn(S.th[Me(S)])
      /\ L = Uncounted(S.th[Me(S)])
  OBVIOUS
<1> HIDE DEF T, M
<1>5. Silent([th |-> T, native |-> M], Me(S)) = [th |-> U, native |-> M]
  BY SilentIs
<1> HIDE DEF U, K, L
<1> QED BY <1>1, <1>3, <1>4, <1>5 DEF With

(* A coroutine that returns from its first function, field by field. *)
LEMMA SilentOnIs ==
  ASSUME NEW L \in Thread, L.nCcalls > 0
  PROVE  /\ SilentOn(L) \in Thread /\ SilentOn(L).status = L.status /\ SilentOn(L).ci = L.ci
         /\ SilentOn(L).errfunc = L.errfunc /\ SilentOn(L).size_ci = L.size_ci
         /\ ~SilentOn(L).top
<1> DEFINE K == Uncounted(L)
<1>1. /\ K \in Thread /\ K.status = L.status /\ K.ci = L.ci /\ K.errfunc = L.errfunc
      /\ K.size_ci = L.size_ci
  BY UncountedIs
<1>2. SilentOn(L) = [K EXCEPT !.top = FALSE]
  BY DEF SilentOn
<1> HIDE DEF K
<1> QED BY <1>1, <1>2, DeadIs

(* A coroutine below its lua_resume has no activations. *)
LEMMA Fresh ==
  ASSUME NEW S, Core(S), NEW j \in 2..Len(S.native), S.native[j].k = "resume",
         S.native[j].t = Me(S)
  PROVE  /\ Chain(S.native, Me(S), j - 1) = <<>>
         /\ \A x \in 1..(j - 1) : S.native[x].t # Me(S)
<1> DEFINE N == S.native
<1>1. N \in Seq(Activation) /\ Len(N) \in Nat /\ j - 1 \in 0..Len(N) /\ j - 1 \in Nat
  BY Parts
<1>2. \A x \in 1..(j - 1) : N[x].t # Me(S)
  BY DEF Core, Segments, Begins
<1>3. \A x \in (0 + 1)..(j - 1) : Own(N, Me(S), x) = <<>>
  BY <1>2 DEF Own
<1>4. 0 \in 0..(j - 1) /\ Counts(N, j - 1)
  BY <1>1, Numbers
<1>5. Chain(N, Me(S), j - 1) = Chain(N, Me(S), 0)
  BY <1>1, <1>3, <1>4, ChainPrefix
<1> QED BY <1>2, <1>5, ChainNone

(* A C activation under a protected call or a call ends. *)
LEMMA BackGood ==
  ASSUME NEW S, Core(S), Len(S.native) > 1, Top(S).k \in {"exec", "call", "resume"},
         Depth(S.native, Len(S.native)) < Limit
  PROVE  Good(Back(S)) /\ Keeps(S, Back(S))
<1> DEFINE n == Len(S.native)
           R == With(S, Uncounted(S.th[Me(S)]), SubSeq(S.native, 1, n - 1))
<1> SUFFICES Good(Back(S)) /\ Keeps(S, Back(S))
  OBVIOUS
<1>1. /\ S \in Stacks /\ Me(S) \in Threads /\ S.th[Me(S)] \in Thread /\ S.th \in [Threads -> Thread]
      /\ Top(S).t = Me(S) /\ Last(S.native) = Top(S) /\ Top(S) = S.native[n]
      /\ S.th[Me(S)].size_ci >= BASIC_CI_SIZE /\ S.th[Me(S)].status = "ok"
  BY Parts DEF Top
<1>2. n = Len(S.native) /\ R = With(S, Uncounted(S.th[Me(S)]), SubSeq(S.native, 1, Len(S.native) - 1))
  OBVIOUS
<1> HIDE DEF n, R
<1>3. /\ n \in 2..Len(S.native) /\ n - 1 \in Nat \ {0} /\ n \in Nat \ {0}
      /\ Depth(S.native, n) = Depth(S.native, n - 1) + Deeper(Top(S))
      /\ Depth(S.native, n - 1) \in Nat /\ S.th[Me(S)].nCcalls = Depth(S.native, n)
      /\ Chain(S.native, Me(S), n - 1) \in Seq(Funs)
      /\ S.th[Me(S)].ci = Chain(S.native, Me(S), n - 1) \o Adds(Top(S))
      /\ Top(S).k \in May(S.native, n - 1)
  BY <1>2, LastAdds
<1>4. CASE Top(S).k = "exec"
  <2>1. Back(S) = S
    BY <1>1, <1>4, BackIs
  <2> QED BY <1>4, <2>1, KeepsItself DEF Good, Rest
<1>5. CASE Top(S).k = "resume"
  <2> DEFINE K == SilentOn(S.th[Me(S)])
             Q == With(S, K, SubSeq(S.native, 1, n - 1))
  <2>1. S.th[Me(S)].nCcalls > 0
    <3>1. Deeper(Top(S)) = 1
      BY <1>5 DEF Deeper, DeepKinds
    <3> QED BY <1>3, <3>1
  <2>2. Back(S) = Q
    <3>1. Back(S) = Silent(R, Me(S))
      BY <1>1, <1>2, <1>5, BackIs
    <3> QED BY <1>1, <1>2, <3>1, SilentGood
  <2>3. /\ K \in Thread /\ K.status = "ok" /\ K.ci = S.th[Me(S)].ci
        /\ K.errfunc = S.th[Me(S)].errfunc /\ K.size_ci >= BASIC_CI_SIZE /\ ~K.top
    BY <1>1, <2>1, SilentOnIs
  <2>4. Chain(S.native, Me(S), n - 1) = <<>> /\ \A x \in 1..(n - 1) : S.native[x].t # Me(S)
    BY <1>1, <1>3, <1>5, Fresh
  <2>5. K.ci = <<>>
    <3>1. Adds(Top(S)) = <<>>
      BY <1>5 DEF Adds
    <3> QED BY <1>3, <2>3, <2>4, <3>1
  <2>6. K.errfunc = "none"
    <3>1. ~Protected(S.native, Me(S), n - 1)
      <4>1. \A x \in 2..(n - 1) : x \in 1..(n - 1)
        BY <1>3
      <4> QED BY <2>4, <4>1 DEF Protected
    <3>2. S.th[Me(S)].errfunc = "none"
      BY <1>2, <1>5, <3>1, LastProtects
    <3> QED BY <2>3, <3>2
  <2>7. Left(S, n, K) /\ (K.status = "ok" => ~K.top)
    <3>1. \A x \in (n + 1)..Len(S.native) : S.native[x].k # "resume"
      BY <1>2, <1>3
    <3> QED BY <1>1, <1>5, <2>3, <2>5, <2>6, <3>1 DEF Left
  <2>8. Q = With(S, K, SubSeq(S.native, 1, n - 1))
    OBVIOUS
  <2> HIDE DEF K, Q
  <2>9. Good(Q) /\ Keeps(S, Q)
    BY <1>3, <2>3, <2>7, <2>8, LeaveGood
  <2> QED BY <2>2, <2>9
<1>6. CASE Top(S).k = "call"
  <2>1. /\ Core(R) /\ Me(R) = Me(S) /\ Keeps(S, R) /\ Top(R) = S.native[n - 1]
        /\ Len(R.native) = n - 1
        /\ Depth(S.native, n) = Depth(R.native, n - 1) + 1 /\ Depth(R.native, n - 1) \in Nat
    BY <1>2, <1>6, UncountGood
  <2>2. Top(R).k \in {"C", "exec", "pcall", "handler"} /\ Len(R.native) > 1
    <3>1. n - 1 # 1
      BY <1>3, <1>6 DEF May
    <3>2. "call" \in Above(S.native[n - 1].k)
      BY <1>3, <1>6, <3>1 DEF May
    <3> QED BY <1>3, <2>1, <3>1, <3>2 DEF Above
  <2>3. Last(R.native) = Top(R)
    BY <2>1, Parts
  <2>4. CASE Top(R).k \in {"C", "exec"}
    <3>1. Back(S) = R
      BY <1>1, <1>2, <1>6, <2>3, <2>4, BackIs
    <3>2. Depth(R.native, Len(R.native)) < Limit
      BY <1>2, <2>1, LuaCallAssumption DEF Limit
    <3> QED BY <2>1, <2>4, <3>1, <3>2 DEF Good, Rest
  <2>5. CASE Top(R).k = "handler"
    <3>1. Back(S) = luaD_throw(R)
      BY <1>1, <1>2, <1>6, <2>3, <2>5, BackIs
    <3>2. Good(luaD_throw(R)) /\ Keeps(R, luaD_throw(R))
      BY <2>1, <2>2, ThrowGood
    <3> QED BY <2>1, <3>1, <3>2, KeepsOn
  <2>6. CASE Top(R).k = "pcall"
    <3>1. Back(S) = [Pop(R) EXCEPT !.th[Me(R)].errfunc = Top(R).errfunc]
      <4>1. Back(S) = [Pop(R) EXCEPT !.th[Me(S)].errfunc = Last(R.native).errfunc]
        BY <1>1, <1>2, <1>6, <2>3, <2>6, BackIs
      <4>2. Me(R) = Me(S) /\ Last(R.native) = Top(R)
        BY <2>1, <2>3
      <4> QED BY ONLY <4>1, <4>2
    <3>2. Good(Back(S)) /\ Keeps(R, Back(S))
      BY <2>1, <2>6, <3>1, UnpcallGood
    <3> QED BY <2>1, <3>2, KeepsOn
  <2> QED BY <2>2, <2>4, <2>5, <2>6
<1> QED BY <1>4, <1>5, <1>6

(* The entry of a function that returns is removed from the chain. *)
Returned(L) == [L EXCEPT !.ci = Front(@)]
Less(f) == [f EXCEPT !.n = @ - 1]

(* One CallInfo less, field by field. *)
LEMMA ReturnedIs ==
  ASSUME NEW L \in Thread, NEW c \in Seq(Funs), Front(L.ci) = c
  PROVE  /\ Returned(L) \in Thread /\ Returned(L).status = L.status
         /\ Returned(L).baseCcalls = L.baseCcalls /\ Returned(L).size_ci = L.size_ci
         /\ Returned(L).nCcalls = L.nCcalls /\ Returned(L).errfunc = L.errfunc
         /\ Returned(L).top = L.top /\ Returned(L).ci = c
BY DEF Returned, Thread

(* One Lua function less under luaV_execute, field by field. *)
LEMMA LessIs ==
  ASSUME NEW f \in Activation, f.n > 1
  PROVE  Less(f) \in Activation /\ Less(f).k = f.k /\ Less(f).t = f.t /\ Less(f).n = f.n - 1
BY DEF Less, Activation

(* luaD_poscall, and what the two kinds of return do after it. *)
LEMMA PoscallIs ==
  ASSUME NEW S, S \in Stacks
  PROVE  /\ luaD_poscall(S, Me(S)) = With(S, Returned(S.th[Me(S)]), S.native)
         /\ Pop(luaD_poscall(S, Me(S)))
              = With(S, Returned(S.th[Me(S)]), SubSeq(S.native, 1, Len(S.native) - 1))
         /\ [luaD_poscall(S, Me(S)) EXCEPT !.native[Len(S.native)].n = @ - 1]
              = With(S, Returned(S.th[Me(S)]), Put(S.native, Less(Top(S))))
<1> DEFINE t == Me(S)
           T == S.th
           N == S.native
           U == [T EXCEPT ![t] = [T[t] EXCEPT !.ci = Front(@)]]
           P == luaD_poscall(S, Me(S))
<1>1. S = [th |-> T, native |-> N]
  BY DEF Stacks
<1>2. P = [th |-> U, native |-> N]
  <2>1. P = [S EXCEPT !.th[t].ci = Front(@)]
    BY DEF luaD_poscall
  <2> HIDE DEF T, N, t, P
  <2>2. [[th |-> T, native |-> N] EXCEPT !.th[t].ci = Front(@)] = [th |-> U, native |-> N]
    OBVIOUS
  <2> QED BY <1>1, <2>1, <2>2
<1>3. U = [S.th EXCEPT ![Me(S)] = Returned(S.th[Me(S)])]
  BY DEF Returned
<1>4. N = S.native /\ P = luaD_poscall(S, Me(S)) /\ Top(S) = N[Len(N)]
  BY DEF Top
<1> HIDE DEF T, N, t, U, P
<1>5. Pop([th |-> U, native |-> N]) = [th |-> U, native |-> SubSeq(N, 1, Len(N) - 1)]
  BY DEF Pop, Front
<1>6. [[th |-> U, native |-> N] EXCEPT !.native[Len(N)].n = @ - 1]
        = [th |-> U, native |-> [N EXCEPT ![Len(N)] = [N[Len(N)] EXCEPT !.n = @ - 1]]]
  <2>1. \A V : [[th |-> U, native |-> N] EXCEPT !.native = V] = [th |-> U, native |-> V]
    BY ONLY TRUE
  <2>2. [th |-> U, native |-> N].native = N
    BY ONLY TRUE
  <2> DEFINE V == [N EXCEPT ![Len(N)] = [N[Len(N)] EXCEPT !.n = @ - 1]]
  <2>3. [[th |-> U, native |-> N] EXCEPT !.native[Len(N)].n = @ - 1]
          = [[th |-> U, native |-> N] EXCEPT !.native = V]
    BY ONLY <2>2 DEF V
  <2> QED BY <2>1, <2>3
<1>7. [P EXCEPT !.native[Len(N)].n = @ - 1] = [th |-> U, native |-> Put(N, Less(N[Len(N)]))]
  BY <1>2, <1>6 DEF Put, Less
<1> QED BY <1>2, <1>3, <1>4, <1>5, <1>7 DEF With

(* The last function of an activation returns. *)
LEMMA OverGood ==
  ASSUME NEW S, Good(S), Top(S).k \in {"exec", "C"}, NEW n, n = Len(S.native), n > 1,
         NEW K \in Thread, NEW Q, Q = With(S, K, SubSeq(S.native, 1, n - 1)), Ended(S, n, K)
  PROVE  Good(Back(Q)) /\ Keeps(S, Back(Q))
<1>1. /\ Core(Q) /\ Me(Q) = Me(S) /\ Keeps(S, Q) /\ Top(Q) = S.native[n - 1]
      /\ Len(Q.native) = n - 1 /\ Q.th[Me(S)] = K
  BY EndGood DEF Good
<1>2. Core(S)
  BY DEF Good
<1>3. /\ n - 1 \in Nat /\ n \in Nat /\ S.th[Me(S)].nCcalls = Depth(S.native, n)
      /\ Top(S).k \in May(S.native, n - 1)
  BY <1>2, LastAdds
<1>4. Depth(Q.native, Len(Q.native)) < Limit
  <2>1. Q.th[Me(Q)].nCcalls = Depth(Q.native, Len(Q.native))
    BY <1>1, Parts
  <2> QED BY <1>1, <1>3, <2>1 DEF Ended, Good, Rest
<1>5. n - 1 # 1 /\ Top(Q).k \in {"exec", "call", "resume"}
  BY <1>1, <1>3 DEF May, Above
<1>6. Good(Back(Q)) /\ Keeps(Q, Back(Q))
  <2>1. Core(Q) /\ Len(Q.native) > 1 /\ Top(Q).k \in {"exec", "call", "resume"}
    <3>1. n - 1 > 1
      BY ONLY n > 1, <1>3, <1>5
    <3> QED BY <1>1, <1>5, <3>1
  <2> QED BY ONLY <2>1, <1>4, BackGood
<1> QED BY <1>1, <1>6, KeepsOn

(* A function returns, to another one under the same luaV_execute or       *)
(* through Back.                                                           *)
LEMMA ReturnGood ==
  ASSUME NEW S, Good(S), Top(S).k \in {"exec", "C"}, Len(S.native) > 1
  PROVE  LET P == luaD_poscall(S, Me(S))
             R == [P EXCEPT !.native[Len(S.native)].n = @ - 1]
         IN  /\ Top(S).k = "C" \/ ~(Top(S).n > 1) => Good(Back(Pop(P))) /\ Keeps(S, Back(Pop(P)))
             /\ Top(S).k = "exec" /\ Top(S).n > 1 => Good(R) /\ Keeps(S, R)
<1> DEFINE P == luaD_poscall(S, Me(S))
           n == Len(S.native)
           L == S.th[Me(S)]
           K == Returned(L)
           c == Chain(S.native, Me(S), n - 1)
           f == Top(S)
           Q == Pop(P)
           R == [P EXCEPT !.native[n].n = @ - 1]
<1>0. n = Len(S.native) /\ L = S.th[Me(S)] /\ Core(S) /\ Top(S) = f
  BY DEF Good
<1>1. /\ S \in Stacks /\ L \in Thread /\ L.status = "ok" /\ L.size_ci >= BASIC_CI_SIZE
      /\ f \in Activation /\ Me(S) \in Threads /\ f.t = Me(S) /\ f.n \in Nat
  <2>1. f \in Activation
    BY <1>0, Parts
  <2> QED BY <1>0, <2>1, Parts DEF Activation
<1>2. Q = With(S, K, SubSeq(S.native, 1, n - 1)) /\ R = With(S, K, Put(S.native, Less(f)))
  BY <1>1, PoscallIs
<1> HIDE DEF n, L, f
<1>3. /\ n \in 2..Len(S.native) /\ n - 1 \in Nat \ {0} /\ n \in Nat /\ c \in Seq(Funs)
      /\ L.ci = c \o Adds(f) /\ f = S.native[n] /\ L.nCcalls = Depth(S.native, n)
  BY <1>0, LastAdds
<1> HIDE DEF c
<1>4. f.k = "exec" => f.n > 0
  BY <1>0, <1>3 DEF Core, Ordered
<1>5. /\ f.k = "C" => Front(L.ci) = c
      /\ f.k = "exec" => f.n - 1 \in Nat /\ Front(L.ci) = c \o LuaCalls(f.n - 1)
  <2>1. CASE f.k = "C"
    <3>1. Adds(f) = <<"C">> /\ "C" \in Funs
      BY <2>1 DEF Adds, Funs
    <3> QED BY <1>3, <2>1, <3>1, FrontAppend
  <2>2. CASE f.k = "exec"
    <3>1. f.n - 1 \in Nat /\ (f.n - 1) + 1 = f.n
      BY <1>1, <1>4, <2>2
    <3>2. Adds(f) = LuaCalls((f.n - 1) + 1)
      BY <2>2, <3>1 DEF Adds, LuaCalls
    <3>3. \A m \in Nat : Front(c \o LuaCalls(m + 1)) = c \o LuaCalls(m)
      BY <1>3, Shortened
    <3> QED BY <1>3, <2>2, <3>1, <3>2, <3>3
  <2> QED BY <1>0, <2>1, <2>2
<1> HIDE DEF K, Q, R
<1>6. ASSUME f.k = "C" \/ ~(f.n > 1) PROVE Good(Back(Q)) /\ Keeps(S, Back(Q))
  <2>1. Front(L.ci) = c
    <3>1. CASE f.k = "C"
      BY <1>5, <3>1
    <3>2. CASE f.k = "exec"
      <4>1. f.n - 1 = 0
        BY <1>1, <1>4, <1>6, <3>2
      <4>2. LuaCalls(0) = <<>>
        BY DEF LuaCalls
      <4>3. c \o <<>> = c
        BY <1>3
      <4> QED BY <1>5, <3>2, <4>1, <4>2, <4>3
    <3> QED BY <1>0, <3>1, <3>2
  <2>2. /\ K \in Thread /\ K.status = "ok" /\ K.baseCcalls = L.baseCcalls
        /\ K.size_ci >= BASIC_CI_SIZE /\ K.nCcalls = L.nCcalls /\ K.errfunc = L.errfunc /\ K.ci = c
    BY <1>1, <1>3, <2>1, ReturnedIs DEF K
  <2>3. Ended(S, n, K)
    BY <1>0, <2>2 DEF Ended, c
  <2>4. Top(S).k \in {"exec", "C"} /\ n = Len(S.native) /\ n > 1
    BY <1>0
  <2> QED BY ONLY Good(S), <1>2, <2>2, <2>3, <2>4, OverGood
<1>7. ASSUME f.k = "exec", f.n > 1 PROVE Good(R) /\ Keeps(S, R)
  <2> DEFINE g == Less(f)
  <2>1. g \in Activation /\ g.k = "exec" /\ g.t = Me(S) /\ g.n = f.n - 1 /\ g.n > 0
    BY <1>1, <1>7, LessIs
  <2>2. c \o LuaCalls(f.n - 1) \in Seq(Funs)
    <3>1. LuaCalls(f.n - 1) \in Seq(Funs)
      BY <1>5, <1>7, CallsType
    <3> QED BY <1>3, <3>1
  <2>3. /\ K \in Thread /\ K.status = "ok" /\ K.baseCcalls = L.baseCcalls
        /\ K.size_ci >= BASIC_CI_SIZE /\ K.nCcalls = L.nCcalls /\ K.errfunc = L.errfunc
        /\ K.ci = c \o LuaCalls(f.n - 1)
    BY <1>1, <1>5, <1>7, <2>2, ReturnedIs DEF K
  <2>4. Reran(S, g, K)
    BY <1>0, <2>1, <2>3 DEF Reran, c
  <2>5. R = With(S, K, Put(S.native, g)) /\ Top(S).k = "exec"
    BY <1>0, <1>2, <1>7
  <2> HIDE DEF g
  <2>6. /\ Core(R) /\ Me(R) = Me(S) /\ Keeps(S, R) /\ Top(R).k = "exec"
        /\ Len(R.native) = Len(S.native) /\ R.th[Me(R)].nCcalls = S.th[Me(S)].nCcalls
    BY <1>0, <2>1, <2>3, <2>4, <2>5, RunGood
  <2>7. Depth(R.native, Len(R.native)) < Limit
    BY <1>0, <2>6, Parts DEF Good, Rest
  <2> QED BY <2>6, <2>7 DEF Good, Rest
<1> QED BY <1>0, <1>6, <1>7 DEF P, Q, R, n

(* A tail call needs room for an entry that it gives back. *)
LEMMA TailGood ==
  ASSUME NEW S, Good(S), Top(S).k = "exec"
  PROVE  Good(IncCi(S, Me(S), Grown(S, Me(S)))) /\ Keeps(S, IncCi(S, Me(S), Grown(S, Me(S))))
<1> DEFINE R == Grown(S, Me(S))
<1>1. Core(S) /\ Depth(S.native, Len(S.native)) < Limit
  BY DEF Good, Rest
<1>2. Core(R) /\ Keeps(S, R) /\ R.native = S.native
  BY <1>1, GrownGood
<1> HIDE DEF R
<1>3. Good(R)
  BY <1>2 DEF Good, Rest, Top
<1>4. Good(IncCi(S, Me(S), R)) /\ Keeps(S, IncCi(S, Me(S), R))
  BY <1>1, <1>2, <1>3, IncCiGood
<1> QED BY <1>4 DEF R

(* luaG_errormsg calls the error function. *)
LEMMA HandlerGood ==
  ASSUME NEW S, Good(S), Top(S).k = "raise", NEW fun \in Funs
  PROVE  LET R == luaD_call(Push(S, Frame("handler", Me(S))), Me(S), fun)
         IN  Good(R) /\ Keeps(S, R)
<1> DEFINE f == Frame("handler", Me(S))
           Q == Push(S, f)
           L == S.th[Me(S)]
<1>1. Core(S) /\ Depth(S.native, Len(S.native)) < Limit
  BY DEF Good, Rest
<1>2. /\ S \in Stacks /\ Me(S) \in Threads /\ L \in Thread /\ S.th \in [Threads -> Thread]
      /\ S.native \in Seq(Activation) /\ Len(S.native) \in Nat \ {0}
      /\ L.size_ci >= BASIC_CI_SIZE /\ L.status = "ok" /\ L.nCcalls \in Nat /\ L.ci \in Seq(Funs)
      /\ L.nCcalls = Depth(S.native, Len(S.native))
      /\ S.native[1].k = "C" /\ L = S.th[Me(S)]
  <2>1. S.th[Me(S)] \in Thread
    BY <1>1, Parts
  <2> QED BY <1>1, <2>1, Parts DEF Thread, Frame
<1>3. Q = With(S, L, Append(S.native, f))
  <2>1. [S.th EXCEPT ![Me(S)] = L] = S.th
    BY <1>2
  <2> QED BY <1>2, <2>1, PushIs DEF With
<1>4. f \in Activation /\ f.k = "handler" /\ f.t = Me(S)
  BY <1>2, FrameType DEF Places
<1>5. f.k \in May(S.native, Len(S.native))
  BY <1>2, <1>4 DEF May, Above, Top
<1>6. L.nCcalls = L.nCcalls + Deeper(f) /\ L.ci = L.ci \o Adds(f)
  BY <1>2, <1>4 DEF Deeper, DeepKinds, Adds
<1> HIDE DEF f, Q, L
<1>7. Begun(S, f, L)
  <2>1. f.k # "exec" /\ f.k # "pcall" /\ f.k # "resume"
    BY <1>4
  <2> QED BY <1>2, <1>4, <1>5, <1>6, <2>1 DEF Begun
<1>8. /\ Core(Q) /\ Me(Q) = Me(S) /\ Keeps(S, Q) /\ Top(Q) = f
      /\ Len(Q.native) = Len(S.native) + 1 /\ Q.th[Me(S)] = L
  BY <1>1, <1>2, <1>3, <1>4, <1>7, PushGood
<1>9. "call" \in May(Q.native, Len(Q.native))
  BY <1>2, <1>4, <1>8 DEF May, Above, Top
<1>10. Depth(Q.native, Len(Q.native)) < Limit
  BY <1>1, <1>2, <1>8, Parts
<1>11. Good(luaD_call(Q, Me(Q), fun)) /\ Keeps(Q, luaD_call(Q, Me(Q), fun))
  BY <1>8, <1>9, <1>10, CallGood
<1>12. Keeps(S, luaD_call(Q, Me(S), fun))
  BY <1>8, <1>11, KeepsOn
<1> QED BY <1>8, <1>11, <1>12 DEF Q, f

(* luaD_pcall, alone and with the call under it. *)
LEMMA ProtectGood ==
  ASSUME NEW S, Good(S), Top(S).k = "C", NEW ef \in Errs
  PROVE  /\ Good(luaD_pcall(S, Me(S), ef)) /\ Keeps(S, luaD_pcall(S, Me(S), ef))
         /\ \A fun \in Funs : /\ Good(luaD_call(luaD_pcall(S, Me(S), ef), Me(S), fun))
                              /\ Keeps(S, luaD_call(luaD_pcall(S, Me(S), ef), Me(S), fun))
<1> DEFINE R == luaD_pcall(S, Me(S), ef)
<1>1. Core(S) /\ Depth(S.native, Len(S.native)) < Limit
  BY DEF Good, Rest
<1>2. /\ Good(R) /\ Me(R) = Me(S) /\ Keeps(S, R) /\ Top(R).k = "pcall" /\ Len(R.native) > 1
      /\ Depth(R.native, Len(R.native)) < Limit
  BY <1>1, SetjmpGood
<1> HIDE DEF R
<1>3. "call" \in May(R.native, Len(R.native)) /\ Core(R)
  BY <1>2 DEF May, Above, Top, Good
<1>4. ASSUME NEW fun \in Funs
      PROVE  Good(luaD_call(R, Me(R), fun)) /\ Keeps(S, luaD_call(R, Me(R), fun))
  <2>1. Good(luaD_call(R, Me(R), fun)) /\ Keeps(R, luaD_call(R, Me(R), fun))
    BY <1>2, <1>3, CallGood
  <2> QED BY <1>2, <2>1, KeepsOn
<1> QED BY <1>2, <1>4 DEF R

(* A function calls another one through luaD_call. *)
LEMMA CallBackGood ==
  ASSUME NEW S, Good(S), Top(S).k \in {"exec", "C"}, Len(S.native) > 1, NEW fun \in Funs
  PROVE  Good(luaD_call(S, Me(S), fun)) /\ Keeps(S, luaD_call(S, Me(S), fun))
<1>1. Core(S) /\ Depth(S.native, Len(S.native)) < Limit
  BY DEF Good, Rest
<1>2. "call" \in May(S.native, Len(S.native))
  BY DEF May, Above, Top
<1> QED BY <1>1, <1>2, CallGood

(* The host program is only in C. *)
LEMMA OutOfHost ==
  ASSUME NEW S, Core(S), Top(S).k # "C"
  PROVE  Len(S.native) > 1
BY Parts DEF Top, Frame

(* enterlevel: one more level of the parser, or too many. *)
LEMMA LevelGood ==
  ASSUME NEW S, Good(S), Top(S).k \in {"pcall", "level"},
         NEW R, R = Push([S EXCEPT !.th[Me(S)].nCcalls = @ + 1], Frame("level", Me(S)))
  PROVE  /\ R.th[Me(S)].nCcalls > LUAI_MAXCCALLS => Good(luaD_throw(R)) /\ Keeps(S, luaD_throw(R))
         /\ ~(R.th[Me(S)].nCcalls > LUAI_MAXCCALLS) => Good(R) /\ Keeps(S, R)
<1> DEFINE f == Frame("level", Me(S))
<1>1. Core(S) /\ Len(S.native) > 1 /\ Me(S) \in Threads
  BY OutOfHost, Parts DEF Good
<1>2. f.k = "level"
  BY <1>1, FrameType DEF Places
<1>3. f.k \in May(S.native, Len(S.native))
  BY <1>1, <1>2 DEF May, Above, Top
<1>4. R = Push([S EXCEPT !.th[Me(S)].nCcalls = @ + 1], f) /\ f = Frame("level", Me(S))
  OBVIOUS
<1> HIDE DEF f
<1>5. /\ Core(R) /\ Me(R) = Me(S) /\ Keeps(S, R) /\ Top(R) = f /\ Len(R.native) > 1
      /\ R.th[Me(S)].nCcalls = S.th[Me(S)].nCcalls + 1
  <2>1. f \in {Frame("call", Me(S)), Frame("level", Me(S))}
    BY <1>4
  <2> QED BY ONLY <2>1, <1>1, <1>3, <1>4, DeeperGood
<1>6. Good(luaD_throw(R)) /\ Keeps(S, luaD_throw(R))
  BY <1>5, ThrowGood, KeepsOn
<1>7. ~(R.th[Me(S)].nCcalls > LUAI_MAXCCALLS) => Good(R)
  <2>1. R.th[Me(R)].nCcalls = Depth(R.native, Len(R.native)) /\ Depth(R.native, Len(R.native)) \in Nat
    <3>1. Len(R.native) \in Nat /\ R.th[Me(R)].nCcalls = Depth(R.native, Len(R.native))
      BY <1>5, Parts
    <3>2. Depth(R.native, Len(R.native)) \in Nat
      BY ONLY <3>1, DepthType
    <3> QED BY <3>1, <3>2
  <2>2. ~(R.th[Me(S)].nCcalls > LUAI_MAXCCALLS) => Depth(R.native, Len(R.native)) < Limit
    BY <1>5, <2>1, LuaCallAssumption DEF Limit
  <2> QED BY <1>2, <1>5, <2>2 DEF Good, Rest
<1> QED BY <1>5, <1>6, <1>7

(* leavelevel. *)
LEMMA LeaveLevelGood ==
  ASSUME NEW S, Good(S), Top(S).k = "level"
  PROVE  LET R == [Pop(S) EXCEPT !.th[Me(S)].nCcalls = @ - 1] IN Good(R) /\ Keeps(S, R)
<1> DEFINE R == [Pop(S) EXCEPT !.th[Me(S)].nCcalls = @ - 1]
           n == Len(S.native)
<1>1. Core(S) /\ n > 1 /\ S \in Stacks /\ Depth(S.native, n) < Limit
  BY OutOfHost DEF Good, Rest, Core, Typed
<1>2. R = With(S, Uncounted(S.th[Me(S)]), SubSeq(S.native, 1, n - 1))
  BY <1>1, UncountedPop
<1>3. n = Len(S.native)
  OBVIOUS
<1> HIDE DEF R, n
<1>4. /\ Core(R) /\ Me(R) = Me(S) /\ Keeps(S, R) /\ Top(R) = S.native[n - 1]
      /\ Len(R.native) = n - 1
      /\ Depth(S.native, n) = Depth(R.native, n - 1) + 1 /\ Depth(R.native, n - 1) \in Nat
  BY <1>1, <1>2, <1>3, UncountGood
<1>5. Top(S).k \in May(S.native, n - 1)
  BY <1>1, <1>3, LastAdds
<1>6. Top(R).k \in {"pcall", "level"}
  <2>1. n - 1 # 1
    BY <1>5 DEF May
  <2>2. "level" \in Above(S.native[n - 1].k)
    BY <1>5, <2>1 DEF May
  <2> QED BY <1>4, <2>2 DEF Above
<1>7. Depth(R.native, Len(R.native)) < Limit
  <2>1. Depth(R.native, n - 1) < Limit
    BY <1>1, <1>4, LuaCallAssumption DEF Limit
  <2> QED BY <1>4, <2>1
<1> QED BY <1>4, <1>6, <1>7 DEF Good, Rest, R

(* A coroutine that yields: a C function called by the Lua functions that  *)
(* its lua_resume runs, and nothing else.                                  *)
LEMMA YieldPlace ==
  ASSUME NEW S, Core(S), Top(S).k = "C", NEW n, n = Len(S.native), n > 1,
         S.th[Me(S)].nCcalls <= S.th[Me(S)].baseCcalls
  PROVE  /\ n - 1 \in 2..n /\ n \in 2..n
         /\ \/ /\ n - 2 \in 2..n
               /\ S.native[n - 2].k = "resume" /\ S.native[n - 1].k = "exec"
               /\ S.native[n - 2].t = Me(S) /\ S.native[n - 1].t = Me(S)
            \/ S.native[n - 1].k = "resume" /\ S.native[n - 1].t = Me(S)
<1> DEFINE N == S.native
           t == Me(S)
<1>1. /\ n \in Nat /\ N \in Seq(Activation) /\ N[n].k = "C" /\ t \in Threads /\ N[n].t = t
      /\ S.th[t].nCcalls = Depth(N, n) /\ N[1].k = "C"
  BY Parts DEF Top, Frame
<1>2. N[2].k = "pcall" /\ 2 \in 2..n
  BY HostProtects
<1>3. \A i \in 2..n : N[i].k \in May(N, i - 1)
  BY DEF Core, Ordered
<1>4. \A i \in 2..n : IF N[i].k = "resume" THEN Begins(N, i) ELSE N[i].t = N[i - 1].t
  BY DEF Core, Segments
<1>5. N[n].t = main \/ \E r \in 2..n : N[r].k = "resume" /\ N[r].t = N[n].t
  BY <1>1 DEF Core, Segments
<1>6. S.th[main].baseCcalls = 0
  BY DEF Core, Counted
<1>7. \A r \in 2..n : N[r].k = "resume" => S.th[N[r].t].baseCcalls = Depth(N, r)
  BY DEF Core, Counted
<1>13. Depth(N, n) <= S.th[t].baseCcalls
  BY <1>1
<1> HIDE DEF N, t
<1>8. t # main
  <2> SUFFICES ASSUME t = main PROVE FALSE
    OBVIOUS
  <2>1. 0 \in 0..n /\ Depth(N, n) <= Depth(N, 0)
    BY <1>1, <1>6, <1>13, DepthNone
  <2>2. \A x \in (0 + 1)..n : N[x].k \notin DeepKinds
    BY <1>1, <2>1, DepthFlat
  <2>3. 3 \in 2..n /\ 3 \in (0 + 1)..n /\ 3 - 1 = 2 /\ 2 # 1
    BY <1>1, <1>2
  <2>4. N[3].k \in {"call", "level"}
    BY <1>2, <1>3, <2>3 DEF May, Above
  <2> QED BY <2>2, <2>3, <2>4 DEF DeepKinds
<1>9. PICK r \in 2..n : N[r].k = "resume" /\ N[r].t = t
  BY <1>1, <1>5, <1>8
<1>10. \A x \in (r + 1)..n : N[x].k \notin DeepKinds
  <2>1. Depth(N, n) <= Depth(N, r) /\ r \in 0..n
    BY <1>1, <1>7, <1>9, <1>13
  <2> QED BY <1>1, <2>1, DepthFlat
<1>11. n \in 2..n /\ n - 1 \in 2..n /\ n - 1 >= r /\ N[n - 1].k \in {"call", "exec", "resume"}
  <2>1. n \in 2..n
    BY <1>1
  <2>2. N[n].k \in May(N, n - 1)
    BY <1>3, <2>1
  <2>3. n - 1 # 1
    BY <1>1, <2>2 DEF May
  <2>4. "C" \in Above(N[n - 1].k)
    BY <1>1, <2>2, <2>3 DEF May
  <2>5. N[n - 1].k \in {"call", "exec", "resume"}
    BY <2>4 DEF Above
  <2>6. r # n
    BY <1>1, <1>9
  <2> QED BY <1>1, <2>1, <2>3, <2>5, <2>6
<1>12. ASSUME r # n - 1
       PROVE  n - 2 = r /\ N[n - 1].k = "exec" /\ N[n - 1].t = t
  <2>1. (n - 1) - 1 = n - 2 /\ n - 2 >= r /\ n - 1 \in (r + 1)..n
    BY <1>1, <1>11, <1>12
  <2>2. N[n - 1].k = "exec"
    BY <1>10, <1>11, <2>1 DEF DeepKinds
  <2>3. N[n - 1].k \in May(N, n - 2)
    BY <1>3, <1>11, <2>1
  <2>4. N[n - 2].k \in {"call", "resume"}
    <3>1. n - 2 # 1
      BY <2>2, <2>3 DEF May
    <3> QED BY <2>2, <2>3, <3>1 DEF May, Above
  <2>5. CASE n - 2 # r
    <3>1. n - 2 \in (r + 1)..n
      BY <1>1, <2>1, <2>5
    <3> QED BY <1>10, <2>4, <3>1 DEF DeepKinds
  <2>6. N[n - 1].t = N[n - 2].t
    BY <1>4, <1>11, <2>1, <2>2
  <2> QED BY <1>9, <2>2, <2>5, <2>6
<1> QED BY <1>9, <1>11, <1>12 DEF N, t

(* Its chain is then what lua_resume needs, and no handler is left. *)
LEMMA YieldChain ==
  ASSUME NEW S, Core(S), Top(S).k = "C", NEW n, n = Len(S.native), n > 1,
         NEW j \in 2..n, S.native[j].k = "resume", S.native[j].t = Me(S),
         j = n - 1 \/ (j = n - 2 /\ S.native[n - 1].k = "exec" /\ S.native[n - 1].t = Me(S))
  PROVE  /\ Yielded(S.th[Me(S)].ci) /\ S.th[Me(S)].errfunc = "none"
         /\ S.th[Me(S)].nCcalls > 0
<1> DEFINE N == S.native
           t == Me(S)
           m == N[n - 1].n
<1>2. /\ n \in Nat /\ N \in Seq(Activation) /\ N[n].k = "C" /\ t \in Threads /\ N[n].t = t
      /\ S.th[t].nCcalls = Depth(N, n) /\ S.th[t].status = "ok" /\ S.th[t].ci = Chain(N, t, n)
      /\ n = Len(N)
  BY Parts, Runs DEF Top
<1>1. N[j].k = "resume" /\ N[j].t = t /\ j \in 2..n /\ n \in 2..n
      /\ (j = n - 1 \/ (j = n - 2 /\ N[n - 1].k = "exec" /\ N[n - 1].t = t))
  BY <1>2
<1>3. Chain(N, t, j - 1) = <<>> /\ \A x \in 1..(j - 1) : N[x].t # t
  BY <1>1, <1>2, Fresh
<1>4. m \in Nat /\ (j = n - 2 => m > 0)
  <2>1. n - 1 \in 1..n
    BY <1>1
  <2>2. N[n - 1] \in Activation
    BY <1>2, <2>1
  <2>3. j = n - 2 => N[n - 1].n > 0
    BY <1>1, <1>2, <2>1 DEF Core, Ordered
  <2> QED BY <2>2, <2>3 DEF Activation
<1> HIDE DEF N, t, m
<1>5. (n - 1) - 1 = n - 2 /\ j \in Nat \ {0} /\ n - 1 \in Nat \ {0} /\ n \in Nat \ {0}
  BY <1>1, <1>2
<1>10. \A i \in 2..n : Chain(N, t, i) = IF N[i].t = t THEN Chain(N, t, i - 1) \o Adds(N[i])
                                          ELSE Chain(N, t, i - 1)
  BY <1>2, ChainPush
<1>11. Chain(N, t, j) = <<>>
  <2>1. Adds(N[j]) = <<>>
    BY <1>1 DEF Adds
  <2>2. Chain(N, t, j) = Chain(N, t, j - 1) \o Adds(N[j])
    BY <1>1, <1>10
  <2>3. <<>> \o <<>> = <<>>
    OBVIOUS
  <2> QED BY <1>3, <2>1, <2>2, <2>3
<1>12. Chain(N, t, n) = Chain(N, t, n - 1) \o <<"C">>
  <2>1. Adds(N[n]) = <<"C">>
    BY <1>2 DEF Adds
  <2>2. Chain(N, t, n) = Chain(N, t, n - 1) \o Adds(N[n])
    BY <1>1, <1>2, <1>10
  <2> QED BY <2>1, <2>2
<1>6. \E i \in Nat : Chain(N, t, n) = LuaCalls(i) \o <<"C">>
  <2>1. CASE j = n - 1
    <3>1. LuaCalls(0) = <<>> /\ 0 \in Nat
      BY DEF LuaCalls
    <3>2. Chain(N, t, n) = LuaCalls(0) \o <<"C">>
      BY <1>11, <1>12, <2>1, <3>1
    <3> QED BY <3>1, <3>2
  <2>2. CASE j = n - 2 /\ N[n - 1].k = "exec" /\ N[n - 1].t = t
    <3>1. Adds(N[n - 1]) = LuaCalls(m)
      BY <2>2 DEF Adds, LuaCalls, m
    <3>2. n - 1 \in 2..n
      BY <1>1, <1>2, <2>2
    <3>3. Chain(N, t, n - 1) = Chain(N, t, (n - 1) - 1) \o Adds(N[n - 1])
      BY <1>10, <2>2, <3>2
    <3>4. Chain(N, t, n - 1) = <<>> \o LuaCalls(m)
      BY <1>5, <1>11, <2>2, <3>1, <3>3
    <3>5. <<>> \o LuaCalls(m) = LuaCalls(m)
      <4>1. LuaCalls(m) \in Seq(Funs)
        BY <1>4, CallsType
      <4> QED BY <4>1
    <3> QED BY <1>4, <1>12, <3>4, <3>5
  <2> QED BY <1>1, <2>1, <2>2
<1>7. \A i \in Nat : Yielded(LuaCalls(i) \o <<"C">>)
  <2> TAKE i \in Nat
  <2> DEFINE c == LuaCalls(i) \o <<"C">>
  <2>1. LuaCalls(i) \in Seq(Funs) /\ Len(LuaCalls(i)) = i /\ \A x \in 1..i : LuaCalls(i)[x] = "Lua"
    BY CallsType DEF LuaCalls
  <2>2. Len(c) = i + 1 /\ c[i + 1] = "C" /\ \A x \in 1..i : c[x] = LuaCalls(i)[x]
    BY <2>1
  <2>3. Len(c) > 0 /\ Len(c) - 1 = i
    BY <2>2
  <2> QED BY <2>1, <2>2, <2>3 DEF Yielded
<1>8. Depth(N, n) > 0
  <2>1. Depth(N, n) = Depth(N, n - 1) + Deeper(N[n]) /\ Depth(N, n - 1) \in Nat
    BY <1>5, DepthPush
  <2>2. Depth(N, j) = Depth(N, j - 1) + Deeper(N[j]) /\ Depth(N, j - 1) \in Nat
    BY <1>5, DepthPush
  <2>3. Depth(N, n - 1) = Depth(N, n - 2) + Deeper(N[n - 1]) /\ Depth(N, n - 2) \in Nat
    BY <1>5, DepthPush
  <2>4. Deeper(N[n]) = 0 /\ Deeper(N[j]) = 1 /\ Deeper(N[n - 1]) \in {0, 1}
    BY <1>1, <1>2 DEF Deeper, DeepKinds
  <2>5. CASE j = n - 1
    BY <2>1, <2>2, <2>4, <2>5
  <2>6. CASE j = n - 2
    BY <2>1, <2>2, <2>3, <2>4, <2>6
  <2> QED BY <1>1, <2>5, <2>6
<1>9. S.th[t].errfunc = "none"
  <2>1. ~Protected(N, t, n)
    <3> SUFFICES ASSUME NEW x \in 2..n, N[x].k = "pcall", N[x].t = t PROVE FALSE
      BY DEF Protected
    <3>1. x # n /\ x # j /\ (j = n - 2 => x # n - 1)
      BY <1>1, <1>2
    <3>2. x \in 1..(j - 1)
      BY <1>1, <1>2, <3>1
    <3> QED BY <1>3, <3>2
  <2> QED BY <1>2, <2>1 DEF Core, Handlers, N, t
<1> QED BY <1>2, <1>6, <1>7, <1>8, <1>9 DEF t

-----------------------------------------------------------------------------
Yielding(L) == [L EXCEPT !.status = "yield"]

(* A thread that has yielded, field by field. *)
LEMMA YieldingIs ==
  ASSUME NEW L \in Thread
  PROVE  /\ Yielding(L) \in Thread /\ Yielding(L).status = "yield" /\ Yielding(L).ci = L.ci
         /\ Yielding(L).errfunc = L.errfunc /\ Yielding(L).size_ci = L.size_ci
         /\ Yielding(L).nCcalls = L.nCcalls
BY DEF Yielding, Thread

(* Activations are taken off. *)
LEMMA FrontTwice ==
  ASSUME NEW N \in Seq(Activation), NEW n, n = Len(N), NEW j \in 2..n, j < n, n \in Nat
  PROVE  /\ Front(N) = SubSeq(N, 1, n - 1)
         /\ Last(Front(N)) = N[n - 1]
         /\ j = n - 2 => Front(Front(N)) = SubSeq(N, 1, j)
         /\ SubSeq(SubSeq(N, 1, j), 1, j - 1) = SubSeq(N, 1, j - 1)
         /\ Len(SubSeq(N, 1, j)) = j /\ SubSeq(N, 1, j)[j] = N[j]
         /\ SubSeq(N, 1, j) \in Seq(Activation)
<1>1. /\ n - 1 \in 0..Len(N) /\ j \in 0..Len(N) /\ n - 1 \in 1..(n - 1) /\ j \in 1..j
      /\ j \in 0..(n - 1) /\ j - 1 \in 0..j /\ j \in 0..n /\ n - 1 \in 0..n
  OBVIOUS
<1>2. Front(N) = SubSeq(N, 1, n - 1)
  BY DEF Front
<1>3. /\ SubSeq(N, 1, n - 1) \in Seq(Activation) /\ Len(SubSeq(N, 1, n - 1)) = n - 1
      /\ SubSeq(N, 1, n - 1)[n - 1] = N[n - 1]
  BY <1>1, CutOff
<1>4. /\ SubSeq(N, 1, j) \in Seq(Activation) /\ Len(SubSeq(N, 1, j)) = j
      /\ SubSeq(N, 1, j)[j] = N[j]
  BY <1>1, CutOff
<1>5. Front(Front(N)) = SubSeq(SubSeq(N, 1, n - 1), 1, (n - 1) - 1)
  BY <1>1, <1>2, <1>3 DEF Front
<1>6. ASSUME NEW i \in 0..n, NEW k \in 0..i PROVE SubSeq(SubSeq(N, 1, i), 1, k) = SubSeq(N, 1, k)
  OBVIOUS
<1>7. j = n - 2 => Front(Front(N)) = SubSeq(N, 1, j)
  <2> SUFFICES ASSUME j = n - 2 PROVE Front(Front(N)) = SubSeq(N, 1, j)
    OBVIOUS
  <2>1. (n - 1) - 1 = j
    OBVIOUS
  <2>2. SubSeq(SubSeq(N, 1, n - 1), 1, j) = SubSeq(N, 1, j)
    BY <1>1, <1>6
  <2> QED BY <1>5, <2>1, <2>2
<1>8. SubSeq(SubSeq(N, 1, j), 1, j - 1) = SubSeq(N, 1, j - 1)
  BY <1>1, <1>6
<1> QED BY <1>2, <1>3, <1>4, <1>7, <1>8 DEF Last

(* The stacks as lua_yield leaves them for lua_resume's end. *)
LEMMA YieldIs ==
  ASSUME NEW S, S \in Stacks, NEW n, n = Len(S.native), n \in Nat, NEW j \in 2..n,
         S.native[j].k = "resume", j = n - 1 \/ (j = n - 2 /\ S.native[n - 1].k = "exec")
  PROVE  Unwound(S, Me(S)) = With(S, Yielding(S.th[Me(S)]), SubSeq(S.native, 1, j))
<1> DEFINE t == Me(S)
           T == S.th
           N == S.native
           U == [T EXCEPT ![t] = [T[t] EXCEPT !.status = "yield"]]
           P == [S EXCEPT !.th[t].status = "yield"]
<1>1. S = [th |-> T, native |-> N] /\ N \in Seq(Activation)
  BY DEF Stacks
<1>2. P = [th |-> U, native |-> N]
  <2> HIDE DEF T, N, t
  <2>1. [[th |-> T, native |-> N] EXCEPT !.th[t].status = "yield"] = [th |-> U, native |-> N]
    OBVIOUS
  <2> QED BY <1>1, <2>1
<1>3. U = [S.th EXCEPT ![Me(S)] = Yielding(S.th[Me(S)])]
  BY DEF Yielding
<1>4. /\ Last(Front(N)) = N[n - 1] /\ Front(N) = SubSeq(N, 1, n - 1)
      /\ j = n - 2 => Front(Front(N)) = SubSeq(N, 1, j)
  <2>1. j < n
    OBVIOUS
  <2> QED BY <1>1, <2>1, FrontTwice
<1>5. Unwound(S, t) = LET R == Pop(P) IN IF Last(R.native).k = "exec" THEN Pop(R) ELSE R
  BY DEF Unwound
<1>6. N = S.native /\ t = Me(S)
  OBVIOUS
<1> HIDE DEF T, N, t, U, P
<1>7. \A M : Pop([th |-> U, native |-> M]) = [th |-> U, native |-> Front(M)]
  BY DEF Pop
<1>9. Pop(P) = [th |-> U, native |-> Front(N)] /\ Last(Pop(P).native).k = N[n - 1].k
  <2>1. Pop(P) = [th |-> U, native |-> Front(N)]
    BY <1>2, <1>7
  <2>2. Pop(P).native = Front(N)
    BY <2>1
  <2> QED BY <1>4, <2>1, <2>2
<1>8. Unwound(S, t) = [th |-> U, native |-> SubSeq(N, 1, j)]
  <2>1. CASE j = n - 1
    BY <1>4, <1>5, <1>6, <1>9, <2>1
  <2>2. CASE j = n - 2 /\ N[n - 1].k = "exec"
    <3>1. Pop(Pop(P)) = [th |-> U, native |-> SubSeq(N, 1, j)]
      BY <1>4, <1>7, <1>9, <2>2
    <3> QED BY <1>5, <1>9, <2>2, <3>1
  <2> QED BY <1>6, <2>1, <2>2
<1> QED BY <1>3, <1>6, <1>8 DEF With

(* lua_yield: a coroutine gives up all of its activations, if it runs      *)
(* nothing but Lua functions and the C function that yields.               *)
LEMMA YieldGood ==
  ASSUME NEW S, Good(S), Top(S).k = "C", Len(S.native) > 1
  PROVE  /\ Good(lua_yield(S, Me(S))) /\ Keeps(S, lua_yield(S, Me(S)))
         /\ MayYield(S, Me(S)) =>
              \E j \in 2..Len(S.native) :
                 /\ S.native[j].k = "resume" /\ S.native[j].t = Me(S)
                 /\ Unwound(S, Me(S)).native = SubSeq(S.native, 1, j)
<1> DEFINE n == Len(S.native)
           L == S.th[Me(S)]
           Y == Yielding(L)
           K == SilentOn(Y)
<1>0. Core(S) /\ Depth(S.native, Len(S.native)) < Limit /\ n = Len(S.native)
  BY DEF Good, Rest
<1>1. /\ S \in Stacks /\ Me(S) \in Threads /\ L \in Thread /\ S.th \in [Threads -> Thread]
      /\ S.native \in Seq(Activation) /\ n \in Nat
      /\ L.size_ci >= BASIC_CI_SIZE /\ L.status = "ok" /\ L.nCcalls = Depth(S.native, n)
      /\ L.nCcalls \in Nat /\ L.baseCcalls \in Nat
  <2>1. L \in Thread
    BY <1>0, Parts
  <2> QED BY <1>0, <2>1, Parts DEF Thread
<1>2. CASE ~MayYield(S, Me(S))
  <2>1. lua_yield(S, Me(S)) = Raise(S, Me(S))
    BY <1>2 DEF lua_yield
  <2>2. Top(S).k \in {"C", "call", "exec"} /\ S.th[Me(S)].nCcalls < Limit
    BY <1>0, <1>1
  <2> QED BY <1>0, <1>2, <2>1, <2>2, RaiseGood
<1>3. CASE MayYield(S, Me(S))
  <2>0. L.nCcalls <= L.baseCcalls /\ n > 1
    BY <1>1, <1>3 DEF MayYield
  <2>1. PICK j \in 2..n :
          /\ S.native[j].k = "resume" /\ S.native[j].t = Me(S) /\ j < n
          /\ j = n - 1 \/ (j = n - 2 /\ S.native[n - 1].k = "exec" /\ S.native[n - 1].t = Me(S))
    <3>1. /\ n - 1 \in 2..n /\ n \in 2..n /\ n - 1 < n
          /\ \/ /\ n - 2 \in 2..n /\ n - 2 < n
                /\ S.native[n - 2].k = "resume" /\ S.native[n - 1].k = "exec"
                /\ S.native[n - 2].t = Me(S) /\ S.native[n - 1].t = Me(S)
             \/ S.native[n - 1].k = "resume" /\ S.native[n - 1].t = Me(S)
      <4>1. Core(S) /\ Top(S).k = "C" /\ n = Len(S.native) /\ n > 1
            /\ S.th[Me(S)].nCcalls <= S.th[Me(S)].baseCcalls
        BY <1>0, <2>0
      <4>2. n - 1 < n /\ n - 2 < n
        BY <1>1
      <4> HIDE DEF n, L
      <4>3. /\ n - 1 \in 2..n /\ n \in 2..n
            /\ \/ /\ n - 2 \in 2..n
                  /\ S.native[n - 2].k = "resume" /\ S.native[n - 1].k = "exec"
                  /\ S.native[n - 2].t = Me(S) /\ S.native[n - 1].t = Me(S)
               \/ S.native[n - 1].k = "resume" /\ S.native[n - 1].t = Me(S)
        BY <4>1, YieldPlace
      <4> QED BY <4>2, <4>3
    <3> QED BY <3>1
  <2> DEFINE Q == With(S, Y, SubSeq(S.native, 1, j))
             R == With(S, K, SubSeq(S.native, 1, j - 1))
  <2>2. Yielded(L.ci) /\ L.errfunc = "none" /\ L.nCcalls > 0
    BY <1>0, <2>0, <2>1, YieldChain
  <2>14. Unwound(S, Me(S)) = Q
    BY <1>1, <2>1, YieldIs
  <2>3. lua_yield(S, Me(S)) = Back(Q)
    BY <1>3, <2>14 DEF lua_yield
  <2>4. /\ SubSeq(SubSeq(S.native, 1, j), 1, j - 1) = SubSeq(S.native, 1, j - 1)
        /\ Len(SubSeq(S.native, 1, j)) = j
        /\ SubSeq(S.native, 1, j)[j] = S.native[j]
        /\ SubSeq(S.native, 1, j) \in Seq(Activation)
    BY <1>1, <2>1, FrontTwice
  <2>5. L = S.th[Me(S)] /\ Q = With(S, Y, SubSeq(S.native, 1, j))
        /\ R = With(S, K, SubSeq(S.native, 1, j - 1)) /\ n = Len(S.native)
    OBVIOUS
  <2> HIDE DEF n, L
  <2>6. Y \in Thread /\ Y.status = "yield" /\ Y.ci = L.ci /\ Y.errfunc = L.errfunc
        /\ Y.size_ci = L.size_ci /\ Y.nCcalls = L.nCcalls
    BY <1>1, YieldingIs
  <2> HIDE DEF Y
  <2>7. /\ K \in Thread /\ K.status = "yield" /\ K.ci = L.ci /\ K.errfunc = "none"
        /\ K.size_ci >= BASIC_CI_SIZE
    <3>1. Y.nCcalls > 0
      BY <2>2, <2>6
    <3>2. /\ K \in Thread /\ K.status = Y.status /\ K.ci = Y.ci
          /\ K.errfunc = Y.errfunc /\ K.size_ci = Y.size_ci
      BY <2>6, <3>1, SilentOnIs
    <3> QED BY <1>1, <2>2, <2>6, <3>2
  <2> HIDE DEF Q, R
  <2>8. /\ Q.native = SubSeq(S.native, 1, j) /\ Q.th = [S.th EXCEPT ![Me(S)] = Y]
        /\ Q = [th |-> Q.th, native |-> Q.native]
    BY <2>5 DEF With
  <2>9. /\ Q \in Stacks /\ Q.th \in [Threads -> Thread] /\ Q.th[Me(S)] = Y
        /\ Len(Q.native) = j /\ Top(Q) = S.native[j] /\ Last(Q.native) = Top(Q)
        /\ Me(Q) = Me(S) /\ Top(Q).t = Me(Q) /\ Top(Q).k = "resume"
    <3>1. Q.th \in [Threads -> Thread] /\ Q.th[Me(S)] = Y
      BY <1>1, <2>6, <2>8
    <3>2. Q \in Stacks
      BY <2>4, <2>8, <3>1 DEF Stacks
    <3>3. Len(Q.native) = j /\ Q.native[j] = S.native[j]
      BY <2>4, <2>8
    <3> QED BY <2>1, <3>1, <3>2, <3>3 DEF Top, Last, Me
  <2>10. Back(Q) = With(Q, K, SubSeq(Q.native, 1, Len(Q.native) - 1))
    <3> DEFINE W == With(Q, Uncounted(Q.th[Me(Q)]), SubSeq(Q.native, 1, Len(Q.native) - 1))
    <3>1. W = With(Q, Uncounted(Q.th[Me(Q)]), SubSeq(Q.native, 1, Len(Q.native) - 1))
      OBVIOUS
    <3> HIDE DEF W
    <3>2. Back(Q) = Silent(W, Me(Q))
      BY <2>9, <3>1, BackIs
    <3>3. Silent(W, Me(Q)) = With(Q, SilentOn(Q.th[Me(Q)]), SubSeq(Q.native, 1, Len(Q.native) - 1))
      BY <1>1, <2>9, <3>1, SilentGood
    <3> QED BY <2>9, <3>2, <3>3
  <2>11. Back(Q) = R
    <3>1. SubSeq(Q.native, 1, Len(Q.native) - 1) = SubSeq(S.native, 1, j - 1)
      BY <2>4, <2>8, <2>9
    <3>2. [Q.th EXCEPT ![Me(Q)] = K] = [S.th EXCEPT ![Me(S)] = K]
      BY <1>1, <2>8, <2>9
    <3> QED BY <2>5, <2>10, <3>1, <3>2 DEF With
  <2>12. Left(S, j, K)
    <3>1. \A x \in (j + 1)..n : (x = n - 1 /\ j = n - 2) \/ x = n
      BY <1>1, <2>1
    <3>2. S.native[n].k = "C"
      BY <1>0 DEF Top
    <3>3. \A x \in (j + 1)..Len(S.native) : S.native[x].k # "resume"
      BY <1>0, <2>1, <3>1, <3>2
    <3> QED BY <2>1, <2>2, <2>7, <3>3 DEF Left
  <2>13. Good(R) /\ Keeps(S, R)
    <3>1. j \in 2..Len(S.native) /\ K \in Thread
      BY <1>0, <2>1, <2>7
    <3> HIDE DEF K
    <3> QED BY ONLY <1>0, <2>5, <2>12, <3>1, LeaveGood
  <2>15. j \in 2..Len(S.native)
    BY <1>0, <2>1
  <2> QED BY <2>1, <2>3, <2>8, <2>11, <2>13, <2>14, <2>15
<1> QED BY <1>2, <1>3

(* A coroutine that has resumed another has a C function in its chain. *)
LEMMA NormalChain ==
  ASSUME NEW S, Core(S), NEW co \in Coroutines, co # Me(S), In(S.native, co)
  PROVE  S.th[co].status = "ok" /\ S.th[co].ci # <<>>
<1> DEFINE N == S.native
           n == Len(N)
           A == {x \in 1..n : N[x].t = co}
<1>1. /\ N \in Seq(Activation) /\ n \in Nat \ {0} /\ N[n].t = Me(S) /\ co \in Threads
      /\ N[1].t = main /\ co # main
  BY Parts, LuaCallAssumption DEF Frame, Me, Threads
<1>2. A # {} /\ A \in SUBSET (1..n)
  BY DEF In
<1>3. PICK i \in A : \A y \in A : y <= i
  <2> HIDE DEF A, n
  <2> QED BY <1>1, <1>2, Greatest
<1>4. i \in 1..n /\ N[i].t = co /\ i # n /\ i # 1
  BY <1>1, <1>3
<1>5. i + 1 \in 2..n /\ (i + 1) - 1 = i /\ i + 1 \in 1..n /\ i \in 2..n /\ i \in 0..n /\ n \in 0..n
  BY <1>1, <1>4
<1>6. N[i + 1].t # co
  <2>1. i + 1 \notin A
    BY <1>3, <1>5
  <2> QED BY <1>5, <2>1
<1> HIDE DEF A
<1>7. N[i + 1].k = "resume"
  <2>1. IF N[i + 1].k = "resume" THEN Begins(N, i + 1) ELSE N[i + 1].t = N[(i + 1) - 1].t
    BY <1>5 DEF Core, Segments
  <2> QED BY <1>4, <1>5, <1>6, <2>1
<1>8. N[i].k = "C"
  <2>1. N[i + 1].k \in May(N, (i + 1) - 1)
    BY <1>5 DEF Core, Ordered
  <2>2. "resume" \in Above(N[i].k)
    BY <1>4, <1>5, <1>7, <2>1 DEF May
  <2> QED BY <2>2 DEF Above
<1>9. S.th[co].status = "ok" /\ S.th[co].ci = Chain(N, co, n)
  <2>1. S.th[co].status \in {"ok", "yield", "error"}
    <3>1. S.th[co] \in Thread
      BY <1>1, Parts
    <3> QED BY <3>1 DEF Thread
  <2>2. Placed(S.th[co], N, co)
    BY <1>1 DEF Core, Chained
  <2> QED BY <2>1, <2>2 DEF Placed
<1> HIDE DEF N, n
<1>10. Chain(N, co, i) = Chain(N, co, i - 1) \o <<"C">> /\ Chain(N, co, i - 1) \in Seq(Funs)
  <2>1. i \in 2..Len(N) /\ i - 1 \in 0..Len(N)
    BY <1>1, <1>5 DEF n
  <2>2. Adds(N[i]) = <<"C">>
    BY <1>8 DEF Adds
  <2> QED BY <1>1, <1>4, <2>1, <2>2, ChainPush, Numbers
<1>11. Len(Chain(N, co, i)) > 0
  BY <1>10
<1>12. Len(Chain(N, co, i)) <= Len(Chain(N, co, n))
  <2>1. n \in Nat /\ i \in 0..n /\ Counts(N, n)
    BY <1>1, <1>5, Numbers DEF n
  <2> QED BY <2>1, ChainPrefix
<1>13. Chain(N, co, n) # <<>>
  <2> SUFFICES ASSUME Chain(N, co, n) = <<>> PROVE FALSE
    OBVIOUS
  <2>1. Len(Chain(N, co, n)) = 0
    OBVIOUS
  <2>2. Len(Chain(N, co, i)) \in Nat
    <3>1. Chain(N, co, i) \in Seq(Funs)
      BY <1>10 DEF Funs
    <3> QED BY <3>1
  <2> QED BY <1>11, <1>12, <2>1, <2>2
<1> QED BY <1>9, <1>13

-----------------------------------------------------------------------------
Woken(L, level) == [L EXCEPT !.nCcalls = level, !.baseCcalls = level, !.status = "ok"]
Emptied(L) == [L EXCEPT !.ci = <<>>]
Base(co, wrap) == [Frame("resume", co) EXCEPT !.wrap = wrap]
Many(co, m) == [Frame("exec", co) EXCEPT !.n = m]
Begin(S, co, K, f) == [th |-> [S.th EXCEPT ![co] = K], native |-> Append(S.native, f)]

(* What lua_resume sets, field by field. *)
LEMMA WokenIs ==
  ASSUME NEW L \in Thread, NEW level \in Nat
  PROVE  /\ Woken(L, level) \in Thread /\ Woken(L, level).status = "ok"
         /\ Woken(L, level).nCcalls = level /\ Woken(L, level).baseCcalls = level
         /\ Woken(L, level).ci = L.ci /\ Woken(L, level).errfunc = L.errfunc
         /\ Woken(L, level).size_ci = L.size_ci /\ L.ci \in Seq(Funs)
BY DEF Woken, Thread

(* A chain without entries, field by field. *)
LEMMA EmptiedIs ==
  ASSUME NEW L \in Thread
  PROVE  /\ Emptied(L) \in Thread /\ Emptied(L).status = L.status /\ Emptied(L).ci = <<>>
         /\ Emptied(L).nCcalls = L.nCcalls /\ Emptied(L).baseCcalls = L.baseCcalls
         /\ Emptied(L).errfunc = L.errfunc /\ Emptied(L).size_ci = L.size_ci
<1>1. <<>> \in Seq(Funs)
  OBVIOUS
<1> QED BY <1>1 DEF Emptied, Thread

(* The frame of lua_resume under its setjmp. *)
LEMMA BaseIs ==
  ASSUME NEW co \in Threads, NEW wrap \in BOOLEAN
  PROVE  Base(co, wrap) \in Activation /\ Base(co, wrap).k = "resume" /\ Base(co, wrap).t = co
BY DEF Base, Frame, Activation, Places, Errs

(* The luaV_execute that runs m Lua functions. *)
LEMMA ManyIs ==
  ASSUME NEW co \in Threads, NEW m \in Nat
  PROVE  /\ Many(co, m) \in Activation /\ Many(co, m).k = "exec" /\ Many(co, m).t = co
         /\ Many(co, m).n = m
BY DEF Many, Frame, Activation, Places, Errs

(* A thread's first activation. *)
LEMMA BeginIs ==
  ASSUME NEW S, S \in Stacks, NEW co \in Threads, NEW K \in Thread, NEW f \in Activation, f.t = co
  PROVE  /\ Begin(S, co, K, f) \in Stacks /\ Me(Begin(S, co, K, f)) = co
         /\ Begin(S, co, K, f).th[co] = K /\ Top(Begin(S, co, K, f)) = f
         /\ Last(Begin(S, co, K, f).native) = f
<1> DEFINE R == Begin(S, co, K, f)
<1>1. S.native \in Seq(Activation) /\ S.th \in [Threads -> Thread]
  BY DEF Stacks
<1>2. /\ R.native = Append(S.native, f) /\ R.th = [S.th EXCEPT ![co] = K]
      /\ R = [th |-> R.th, native |-> R.native]
  BY DEF Begin
<1> HIDE DEF R
<1>3. /\ R.native \in Seq(Activation) /\ Len(R.native) = Len(S.native) + 1
      /\ R.native[Len(S.native) + 1] = f
  BY <1>1, <1>2, Appended
<1>4. R.th \in [Threads -> Thread] /\ R.th[co] = K
  BY <1>1, <1>2
<1>5. R \in Stacks
  BY <1>2, <1>3, <1>4 DEF Stacks
<1>6. Me(R) = co /\ R.th[co] = K /\ Top(R) = f /\ Last(R.native) = f
  BY <1>2, <1>3, <1>4 DEF Me, Top, Last
<1> QED BY <1>5, <1>6 DEF R

(* lua_resume, with the stacks it makes named. *)
LEMMA ResumedIs ==
  ASSUME NEW S, S \in Stacks, NEW co \in Threads, NEW wrap \in BOOLEAN,
         NEW U, U = Woken(S.th[co], S.th[Me(S)].nCcalls + 1), U \in Thread,
         NEW R, R = Begin(S, co, U, Base(co, wrap)), NEW value
  PROVE  Resumed(S, Me(S), co, wrap, value) =
           IF S.th[co].status = "ok"
           THEN IF value \in Funs THEN luaD_precall(R, co, value) ELSE Raise(R, co)
           ELSE With(R, Returned(U), Append(R.native, Many(co, Len(Front(U.ci)))))
<1> DEFINE T == S.th
           N == S.native
           f == Base(co, wrap)
           up == [S.th[co] EXCEPT !.nCcalls = S.th[Me(S)].nCcalls + 1,
                                  !.baseCcalls = S.th[Me(S)].nCcalls + 1, !.status = "ok"]
           Q == Push([S EXCEPT !.th[co] = up], [Frame("resume", co) EXCEPT !.wrap = wrap])
           P == luaD_poscall(R, co)
<1>1. up = U
  BY DEF Woken
<1>2. Resumed(S, Me(S), co, wrap, value) =
        IF S.th[co].status = "ok"
        THEN IF value \in Funs THEN luaD_precall(Q, co, value) ELSE Raise(Q, co)
        ELSE Push(luaD_poscall(Q, co),
                  [Frame("exec", co) EXCEPT !.n = Len(luaD_poscall(Q, co).th[co].ci)])
  BY DEF Resumed, lua_setlevel
<1> HIDE DEF up
<1>3. Q = R
  <2>1. S = [th |-> T, native |-> N]
    BY DEF Stacks
  <2>2. R = [th |-> [T EXCEPT ![co] = U], native |-> Append(N, f)]
    BY DEF Begin
  <2>3. Q = Push([S EXCEPT !.th[co] = up], f)
    BY DEF Base
  <2> HIDE DEF T, N, f, Q
  <2>4. [[th |-> T, native |-> N] EXCEPT !.th[co] = U] = [th |-> [T EXCEPT ![co] = U], native |-> N]
    OBVIOUS
  <2>5. \A V : Push([th |-> V, native |-> N], f) = [th |-> V, native |-> Append(N, f)]
    BY DEF Push
  <2>6. [S EXCEPT !.th[co] = U] = [th |-> [T EXCEPT ![co] = U], native |-> N]
    BY ONLY <2>1, <2>4
  <2>7. Q = Push([th |-> [T EXCEPT ![co] = U], native |-> N], f)
    BY ONLY <1>1, <2>3, <2>6
  <2>8. Push([th |-> [T EXCEPT ![co] = U], native |-> N], f)
          = [th |-> [T EXCEPT ![co] = U], native |-> Append(N, f)]
    BY ONLY <2>5
  <2> QED BY ONLY <2>2, <2>7, <2>8
<1> HIDE DEF Q
<1>4. R \in Stacks /\ Me(R) = co /\ R.th[co] = U /\ R.th \in [Threads -> Thread]
  <2>1. f \in Activation /\ f.t = co
    BY BaseIs
  <2>2. R = Begin(S, co, U, f)
    OBVIOUS
  <2>0. S \in Stacks /\ co \in Threads /\ U \in Thread
    OBVIOUS
  <2> HIDE DEF f
  <2>3. R \in Stacks /\ Me(R) = co /\ R.th[co] = U
    BY ONLY <2>0, <2>1, <2>2, BeginIs
  <2> QED BY ONLY <2>3 DEF Stacks
<1>5. P = With(R, Returned(U), R.native)
  <2>1. luaD_poscall(R, Me(R)) = With(R, Returned(R.th[Me(R)]), R.native)
    BY ONLY <1>4, PoscallIs
  <2> QED BY ONLY <1>4, <2>1 DEF P
<1>6. P.th[co].ci = Front(U.ci)
  <2>1. P.th = [R.th EXCEPT ![co] = Returned(U)]
    BY ONLY <1>4, <1>5 DEF With
  <2>2. P.th[co] = Returned(U)
    <3>1. co \in Threads
      OBVIOUS
    <3> QED BY ONLY <1>4, <2>1, <3>1
  <2>3. U \in Thread
    OBVIOUS
  <2>4. Returned(U).ci = Front(U.ci)
    BY ONLY <2>3 DEF Returned, Thread
  <2> QED BY ONLY <2>2, <2>4
<1>7. \A m : Push(P, Many(co, m)) = With(R, Returned(U), Append(R.native, Many(co, m)))
  <2> TAKE m
  <2> HIDE DEF P
  <2>1. P = [th |-> [R.th EXCEPT ![Me(R)] = Returned(U)], native |-> R.native]
    BY <1>5 DEF With
  <2>2. \A V, M, g : Push([th |-> V, native |-> M], g) = [th |-> V, native |-> Append(M, g)]
    BY DEF Push
  <2> QED BY ONLY <2>1, <2>2 DEF With
<1> HIDE DEF P
<1>8. luaD_poscall(Q, co) = P
  BY <1>3 DEF P
<1> QED BY <1>2, <1>3, <1>6, <1>7, <1>8 DEF Many

(* luaV_execute begins in a coroutine, with m Lua functions to run. *)
Started(S, K, m) ==
  /\ S.th[Me(S)].ci = <<>> /\ K.ci = LuaCalls(m) /\ K.status = "ok"
  /\ K.size_ci >= BASIC_CI_SIZE /\ K.baseCcalls = S.th[Me(S)].baseCcalls
  /\ K.nCcalls = S.th[Me(S)].nCcalls /\ K.errfunc = S.th[Me(S)].errfunc

(* The first luaV_execute of a coroutine, with as many Lua functions as    *)
(* its chain has.                                                          *)
LEMMA StartGood ==
  ASSUME NEW S, Core(S), Top(S).k = "resume", Depth(S.native, Len(S.native)) < Limit,
         NEW m \in Nat, m > 0, NEW K \in Thread, Started(S, K, m),
         NEW R, R = With(S, K, Append(S.native, Many(Me(S), m)))
  PROVE  Good(R) /\ SameThreads(S, R)
<1> /\ S.th[Me(S)].ci = <<>> /\ K.ci = LuaCalls(m) /\ K.status = "ok"
    /\ K.size_ci >= BASIC_CI_SIZE /\ K.baseCcalls = S.th[Me(S)].baseCcalls
    /\ K.nCcalls = S.th[Me(S)].nCcalls /\ K.errfunc = S.th[Me(S)].errfunc
  BY DEF Started
<1> DEFINE f == Many(Me(S), m)
           t == Me(S)
<1>1. /\ t \in Threads /\ S.th[t] \in Thread /\ S.native \in Seq(Activation)
      /\ Len(S.native) \in Nat \ {0} /\ S.th[t].nCcalls = Depth(S.native, Len(S.native))
      /\ In(S.native, t)
  BY Parts
<1>2. f \in Activation /\ f.k = "exec" /\ f.t = t /\ f.n = m
  BY <1>1, ManyIs
<1>3. f.k \in May(S.native, Len(S.native))
  <2>1. Len(S.native) # 1
    BY Parts DEF Top, Frame
  <2> QED BY <1>2, <2>1 DEF May, Above, Top
<1>4. K.ci = S.th[t].ci \o Adds(f)
  <2>1. Adds(f) = LuaCalls(m) /\ LuaCalls(m) \in Seq(Funs)
    BY <1>2, CallsType DEF Adds, LuaCalls
  <2>2. <<>> \o LuaCalls(m) = LuaCalls(m)
    BY <2>1
  <2> QED BY <2>1, <2>2
<1>5. K.nCcalls = S.th[t].nCcalls + Deeper(f)
  <2>1. Deeper(f) = 0
    BY <1>2 DEF Deeper, DeepKinds
  <2> QED BY <1>1, <2>1 DEF Thread
<1>6. t = Me(S) /\ R = With(S, K, Append(S.native, f))
  OBVIOUS
<1> HIDE DEF f, t
<1>7. Begun(S, f, K)
  BY <1>2, <1>3, <1>4, <1>5, <1>6 DEF Begun
<1>8. /\ Core(R) /\ Me(R) = Me(S) /\ Top(R) = f
      /\ Len(R.native) = Len(S.native) + 1 /\ R.th[Me(S)] = K
  <2>1. f \in Activation /\ K \in Thread
    BY <1>2
  <2> QED BY ONLY Core(S), <1>6, <1>7, <2>1, PushGood
<1>9. Good(R)
  <2>1. Depth(R.native, Len(R.native)) < Limit
    BY <1>1, <1>6, <1>8, Parts
  <2> QED BY <1>2, <1>8, <2>1 DEF Good, Rest
<1>10. \A u : In(R.native, u) <=> In(S.native, u)
  <2>1. R.native = Append(S.native, f)
    BY <1>6 DEF With
  <2> QED BY <1>1, <1>2, <2>1, InPush
<1> QED BY <1>9, <1>10 DEF SameThreads

(* What a yield left is the chain of Lua functions without the C function  *)
(* that yielded.                                                           *)
LEMMA YieldedIs ==
  ASSUME NEW c \in Seq(Funs), Yielded(c), Len(c) > 1
  PROVE  LET m == Len(Front(c)) IN m \in Nat /\ m > 0 /\ Front(c) = LuaCalls(m)
<1> DEFINE m == Len(c) - 1
<1>1. m \in Nat /\ m > 0 /\ Len(c) \in Nat /\ \A x \in 1..m : c[x] = "Lua"
  BY DEF Yielded
<1>2. Front(c) = SubSeq(c, 1, m)
  BY DEF Front
<1> HIDE DEF m
<1>4. m <= Len(c)
  BY <1>1 DEF m
<1>5. Front(c) = [x \in 1..m |-> c[x]] /\ Len(Front(c)) = m
  BY <1>1, <1>2, <1>4
<1>6. Front(c) = LuaCalls(m)
  BY <1>1, <1>5 DEF LuaCalls
<1> QED BY <1>1, <1>5, <1>6

(* The two stacks differ only in the lua_State of a thread that is given   *)
(* another one.                                                            *)
LEMMA SameWith ==
  ASSUME NEW S, S \in Stacks, NEW co \in Threads, NEW U \in Thread, NEW E \in Thread,
         NEW f \in Activation, f.t = co, NEW K, NEW g
  PROVE  With(Begin(S, co, U, f), K, Append(Begin(S, co, U, f).native, g))
           = With(Begin(S, co, E, f), K, Append(Begin(S, co, E, f).native, g))
<1>1. Me(Begin(S, co, U, f)) = co /\ Me(Begin(S, co, E, f)) = co
  BY BeginIs
<1>2. S.th \in [Threads -> Thread]
  BY DEF Stacks
<1>3. [[S.th EXCEPT ![co] = U] EXCEPT ![co] = K] = [[S.th EXCEPT ![co] = E] EXCEPT ![co] = K]
  BY <1>2
<1>4. /\ Begin(S, co, U, f).native = Append(S.native, f)
      /\ Begin(S, co, E, f).native = Append(S.native, f)
      /\ Begin(S, co, U, f).th = [S.th EXCEPT ![co] = U]
      /\ Begin(S, co, E, f).th = [S.th EXCEPT ![co] = E]
  BY DEF Begin
<1> QED BY <1>1, <1>3, <1>4 DEF With

(* The first call of a coroutine needs no growth of its CallInfo array. *)
LEMMA FirstCall ==
  ASSUME NEW R, R \in Stacks, Top(R).k = "resume", Last(R.native) = Top(R), NEW fun,
         R.th[Me(R)].ci = <<>>, R.th[Me(R)].size_ci \in Nat, R.th[Me(R)].size_ci >= BASIC_CI_SIZE
  PROVE  /\ luaD_precall(R, Me(R), fun) = Enter(R, Me(R), fun)
         /\ \E f : /\ f \in {Frame("C", Me(R)), First(Me(R))}
                  /\ Enter(R, Me(R), fun) = With(R, Called(R.th[Me(R)], fun), Append(R.native, f))
<1>1. Len(R.th[Me(R)].ci) = 0
  OBVIOUS
<1>2. Grown(R, Me(R)) = R
  BY <1>1, LuaCallAssumption DEF Grown
<1>3. luaD_precall(R, Me(R), fun) = Enter(R, Me(R), fun)
  BY <1>2 DEF luaD_precall, IncCi
<1>4. Enter(R, Me(R), fun) =
        LET L == Called(R.th[Me(R)], fun)
        IN  IF fun = "C" THEN With(R, L, Append(R.native, Frame("C", Me(R))))
            ELSE With(R, L, Append(R.native, First(Me(R))))
  BY EnterIs
<1> QED BY <1>3, <1>4

(* What a resume leaves of the coroutines. *)
Starts(S, R, co) ==
  /\ In(R.native, co)
  /\ \A u \in Coroutines \ {co} : (In(R.native, u) <=> In(S.native, u)) /\ R.th[u] = S.th[u]

(* lua_resume: a coroutine begins, or goes on where it yielded. *)
LEMMA ResumeGood ==
  ASSUME NEW S, Good(S), Top(S).k = "C", Len(S.native) > 1, NEW co \in Coroutines,
         ~In(S.native, co), NEW wrap \in BOOLEAN,
         \/ S.th[co].status = "yield" /\ Len(S.th[co].ci) > 1
         \/ S.th[co].status = "ok" /\ S.th[co].ci = <<>>,
         S.th[Me(S)].nCcalls < LUAI_MAXCCALLS, NEW value
  PROVE  /\ Good(Resumed(S, Me(S), co, wrap, value))
         /\ Starts(S, Resumed(S, Me(S), co, wrap, value), co)
<1> DEFINE L == S.th[co]
           level == S.th[Me(S)].nCcalls + 1
           U == Woken(L, level)
           f == Base(co, wrap)
           R == Begin(S, co, U, f)
           E == Emptied(U)
           Q == Begin(S, co, E, f)
           Z == Resumed(S, Me(S), co, wrap, value)
<1> SUFFICES Good(Z) /\ Starts(S, Z, co)
  OBVIOUS
<1>0. Core(S) /\ L = S.th[co] /\ level = S.th[Me(S)].nCcalls + 1
  BY DEF Good
<1>1. /\ S \in Stacks /\ co \in Threads /\ L \in Thread /\ S.th \in [Threads -> Thread]
      /\ S.native \in Seq(Activation) /\ level \in Nat /\ S.th[Me(S)].nCcalls \in Nat
  <2>1. S.th[Me(S)] \in Thread /\ S.th \in [Threads -> Thread] /\ co \in Threads
    BY <1>0, Parts DEF Threads
  <2>2. S.th[Me(S)].nCcalls \in Nat
    BY <2>1 DEF Thread
  <2>3. S \in Stacks /\ S.native \in Seq(Activation)
    BY <1>0, Parts
  <2> QED BY <2>1, <2>2, <2>3
<1>2. L.errfunc = "none" /\ L.size_ci >= BASIC_CI_SIZE /\ Placed(L, S.native, co)
  <2>1. ~Protected(S.native, co, Len(S.native))
    <3>1. \A x \in 2..Len(S.native) : x \in 1..Len(S.native)
      BY <1>1
    <3> QED BY <3>1 DEF Protected, In
  <2> QED BY <1>0, <1>1, <2>1 DEF Core, Handlers, Typed, Chained
<1>3. /\ L.status = "yield" => Yielded(L.ci) /\ Len(L.ci) > 1
      /\ L.status = "yield" \/ (L.status = "ok" /\ L.ci = <<>>)
  BY <1>2 DEF Placed
<1> HIDE DEF L, level
<1>4. /\ U \in Thread /\ U.status = "ok" /\ U.nCcalls = level /\ U.baseCcalls = level
      /\ U.ci = L.ci /\ U.errfunc = "none" /\ U.size_ci = L.size_ci /\ L.ci \in Seq(Funs)
  BY <1>1, <1>2, WokenIs
<1>5. f \in Activation /\ f.k = "resume" /\ f.t = co
  BY <1>1, BaseIs
<1>6. Z = IF L.status = "ok"
          THEN IF value \in Funs THEN luaD_precall(R, co, value) ELSE Raise(R, co)
          ELSE With(R, Returned(U), Append(R.native, Many(co, Len(Front(U.ci)))))
  <2>1. U = Woken(S.th[co], S.th[Me(S)].nCcalls + 1) /\ R = Begin(S, co, U, Base(co, wrap))
    BY <1>0
  <2> HIDE DEF U, R
  <2> QED BY <1>0, <1>1, <1>4, <2>1, ResumedIs
<1> HIDE DEF U, f
<1>7. /\ E \in Thread /\ E.status = "ok" /\ E.ci = <<>> /\ E.nCcalls = level
      /\ E.baseCcalls = level /\ E.errfunc = "none" /\ E.size_ci = L.size_ci
  BY <1>4, EmptiedIs
<1> HIDE DEF E
<1>8. /\ R \in Stacks /\ Me(R) = co /\ R.th[co] = U /\ Top(R) = f /\ Last(R.native) = f
      /\ Q \in Stacks /\ Me(Q) = co /\ Q.th[co] = E /\ Top(Q) = f /\ Last(Q.native) = f
  BY <1>1, <1>4, <1>5, <1>7, BeginIs
<1>9. Q = [th |-> [S.th EXCEPT ![co] = E], native |-> Append(S.native, f)]
  BY DEF Begin
<1>10. \A K, g : With(R, K, Append(R.native, g)) = With(Q, K, Append(Q.native, g))
  <2> TAKE K, g
  <2> HIDE DEF R, Q
  <2>1. S \in Stacks /\ co \in Threads /\ U \in Thread /\ E \in Thread /\ f \in Activation /\ f.t = co
    BY <1>1, <1>4, <1>5, <1>7
  <2> QED BY ONLY <2>1, SameWith DEF R, Q
<1> HIDE DEF R, Q, Z
<1>11. Core(Q)
  <2>1. "resume" \in May(S.native, Len(S.native))
    BY DEF May, Above, Top
  <2>2. S.th[Me(S)].nCcalls < Limit
    BY <1>1, LuaCallAssumption DEF Limit
  <2>3. E.nCcalls = S.th[Me(S)].nCcalls + 1 /\ E.baseCcalls = E.nCcalls
    BY <1>0, <1>7
  <2>4. E.size_ci >= BASIC_CI_SIZE
    BY <1>2, <1>7
  <2> QED BY <1>0, <1>5, <1>7, <1>9, <2>1, <2>2, <2>3, <2>4, ResumeCore
<1>12. Depth(Q.native, Len(Q.native)) < Limit
  <2>1. Depth(Q.native, Len(Q.native)) = level
    BY <1>7, <1>8, <1>11, Parts
  <2> QED BY <1>0, <1>1, <2>1, LuaCallAssumption DEF Limit
<1>13. ASSUME NEW m \in Nat, m > 0, NEW K \in Thread, K.ci = LuaCalls(m), K.status = "ok",
              K.size_ci = L.size_ci, K.baseCcalls = level, K.nCcalls = level, K.errfunc = "none",
              Z = With(R, K, Append(R.native, Many(co, m)))
       PROVE  Good(Z) /\ Starts(S, Z, co)
  <2>1. Z = With(Q, K, Append(Q.native, Many(Me(Q), m)))
    BY <1>8, <1>10, <1>13
  <2>2. /\ Core(Q) /\ Top(Q).k = "resume" /\ Depth(Q.native, Len(Q.native)) < Limit
        /\ Q.th[Me(Q)].ci = <<>>
    BY <1>5, <1>7, <1>8, <1>11, <1>12
  <2>3. /\ K.size_ci >= BASIC_CI_SIZE /\ K.baseCcalls = Q.th[Me(Q)].baseCcalls
        /\ K.nCcalls = Q.th[Me(Q)].nCcalls /\ K.errfunc = Q.th[Me(Q)].errfunc
    BY <1>2, <1>7, <1>8, <1>13
  <2>4. m \in Nat /\ m > 0 /\ K \in Thread /\ K.ci = LuaCalls(m) /\ K.status = "ok"
    BY <1>13
  <2>5. Good(Z) /\ SameThreads(Q, Z)
    <3>1. Started(Q, K, m)
      BY <2>2, <2>3, <2>4 DEF Started
    <3> QED BY ONLY <2>1, <2>2, <2>4, <3>1, StartGood
  <2>6. \A u : In(Q.native, u) <=> In(S.native, u) \/ u = co
    <3>1. Q.native = Append(S.native, f)
      BY <1>9
    <3> QED BY <1>1, <1>5, <3>1, InPush
  <2>7. Z.th = [Q.th EXCEPT ![co] = K]
    BY <1>8, <2>1 DEF With
  <2>8. Q.th = [S.th EXCEPT ![co] = E]
    BY <1>9
  <2>9. \A u \in Coroutines \ {co} : Z.th[u] = S.th[u]
    BY <1>1, <2>7, <2>8 DEF Threads
  <2> QED BY <2>5, <2>6, <2>9 DEF Starts, SameThreads
<1>14. CASE L.status = "ok"
  <2>1. R = Q
    <3>1. L.ci = <<>>
      BY <1>3, <1>14
    <3>2. E = U
      BY <1>4, <3>1 DEF E, Emptied, Thread
    <3> QED BY <3>2 DEF R, Q
  <2>2. /\ Core(R) /\ Top(R).k = "resume" /\ Depth(R.native, Len(R.native)) < Limit
        /\ R.native = Append(S.native, f) /\ Me(R) = co /\ Last(R.native) = Top(R)
        /\ R.th[Me(R)] = E
    BY <1>5, <1>8, <1>9, <1>11, <1>12, <2>1
  <2>3. /\ R.native \in Seq(Activation) /\ R.th \in [Threads -> Thread] /\ Len(R.native) > 1
        /\ R.th[Me(R)].nCcalls < Limit
    <3>1. /\ R.native \in Seq(Activation) /\ R.th \in [Threads -> Thread]
          /\ Len(R.native) \in Nat \ {0} /\ R.native[1] = Frame("C", main)
          /\ R.th[Me(R)].nCcalls = Depth(R.native, Len(R.native))
      BY <2>2, Parts
    <3>2. Len(R.native) # 1
      BY <2>2, <3>1 DEF Top, Frame
    <3> QED BY <2>2, <3>1, <3>2
  <2>4. ASSUME NEW g \in Activation, g.t = co, NEW K, NEW W,
               W = With(R, K, Append(R.native, g))
        PROVE  Starts(S, W, co)
    <3>1. \A u : In(W.native, u) <=> In(S.native, u) \/ u = co
      <4>1. \A u : In(R.native, u) <=> In(S.native, u) \/ u = co
        BY <1>1, <1>5, <2>2, InPush
      <4>2. W.native = Append(R.native, g)
        BY <2>4 DEF With
      <4> QED BY <2>3, <2>4, <4>1, <4>2, InPush
    <3>2. \A u \in Coroutines \ {co} : W.th[u] = S.th[u]
      <4>1. W.th = [R.th EXCEPT ![co] = K]
        BY <2>2, <2>4 DEF With
      <4>2. R.th = [S.th EXCEPT ![co] = U]
        BY DEF R, Begin
      <4>3. \A u \in Coroutines : u \in Threads
        BY DEF Threads
      <4> QED BY <1>1, <4>1, <4>2, <4>3
    <3> QED BY <3>1, <3>2 DEF Starts
  <2>5. CASE value \in Funs
    <3>1. Z = luaD_precall(R, Me(R), value)
      BY <1>6, <1>14, <2>2, <2>5
    <3>2. /\ R \in Stacks /\ R.th[Me(R)].ci = <<>> /\ R.th[Me(R)].size_ci \in Nat
          /\ R.th[Me(R)].size_ci >= BASIC_CI_SIZE
      BY <1>2, <1>7, <1>8, <2>2 DEF Thread
    <3>3. /\ Z = Enter(R, Me(R), value)
          /\ \E g : /\ g \in {Frame("C", Me(R)), First(Me(R))}
                   /\ Z = With(R, Called(R.th[Me(R)], value), Append(R.native, g))
      BY <2>2, <3>1, <3>2, FirstCall
    <3>4. Good(Z)
      BY <2>2, <2>5, <3>3, EnterGood
    <3>5. PICK g \in {Frame("C", Me(R)), First(Me(R))} :
            Z = With(R, Called(R.th[Me(R)], value), Append(R.native, g))
      BY <3>3
    <3>6. g \in Activation /\ g.t = co
      <4>1. co \in Threads /\ "C" \in Places /\ "exec" \in Places
        BY <1>1 DEF Places
      <4>2. /\ Frame("C", co) \in Activation /\ Frame("C", co).t = co
            /\ Frame("exec", co) \in Activation /\ Frame("exec", co).t = co
        BY <4>1, FrameType
      <4>3. First(co) \in Activation /\ First(co).t = co
        BY <4>2 DEF First, Activation
      <4>4. g = Frame("C", co) \/ g = First(co)
        BY <2>2, <3>5
      <4> QED BY <4>2, <4>3, <4>4
    <3> QED BY <2>4, <3>4, <3>5, <3>6
  <2>6. CASE value \notin Funs
    <3>1. Z = Raise(R, Me(R))
      BY <1>6, <1>14, <2>2, <2>6
    <3>2. Good(Z)
      BY <2>2, <2>3, <3>1, RaiseGood
    <3>3. Z = With(R, R.th[co], Append(R.native, Frame("raise", co)))
      <4>1. Z = [th |-> R.th, native |-> Append(R.native, Frame("raise", co))]
        BY <1>8, <2>2, <3>1, PushIs DEF Raise
      <4>2. [R.th EXCEPT ![co] = R.th[co]] = R.th
        BY <2>3
      <4> QED BY <2>2, <4>1, <4>2 DEF With
    <3>4. Frame("raise", co) \in Activation /\ Frame("raise", co).t = co
      BY <1>1, FrameType DEF Places
    <3> QED BY <2>4, <3>2, <3>3, <3>4
  <2> QED BY <2>5, <2>6
<1>15. CASE L.status # "ok"
  <2> DEFINE K == Returned(U)
             m == Len(Front(U.ci))
  <2>1. m \in Nat /\ m > 0 /\ Front(U.ci) = LuaCalls(m)
    BY <1>0, <1>3, <1>4, <1>15, YieldedIs
  <2>2. LuaCalls(m) \in Seq(Funs)
    BY <2>1, CallsType
  <2>3. Z = With(R, K, Append(R.native, Many(co, m)))
    BY <1>6, <1>15
  <2> HIDE DEF m
  <2>4. /\ K \in Thread /\ K.status = "ok" /\ K.baseCcalls = level /\ K.size_ci = L.size_ci
        /\ K.nCcalls = level /\ K.errfunc = "none" /\ K.ci = LuaCalls(m)
    BY <1>4, <2>1, <2>2, ReturnedIs
  <2> HIDE DEF K
  <2> QED BY <1>13, <2>1, <2>3, <2>4
<1> QED BY <1>14, <1>15

(* What a coroutine's lua_State says of what has become of it.             *)
Fates == {"none", "made", "refused", "over", "kept", "begun"}
Fate(S, co, l) ==
  LET L == S.th[co]
      in == In(S.native, co)
  IN  CASE l = "none"    -> ~in /\ L.status = "ok" /\ ~L.top
        [] l = "made"    -> ~in /\ L.status = "ok" /\ L.top
        [] l = "refused" -> ~in /\ L.status = "ok" /\ ~L.top
        [] l = "over"    -> ~in /\ (L.status = "error" \/ (L.status = "ok" /\ ~L.top))
        [] l = "kept"    -> ~in /\ L.status = "ok" /\ L.top
        [] l = "begun"   -> in \/ L.status = "yield"

Fated(S, lives) ==
  /\ lives \in [Coroutines -> Fates]
  /\ \A co \in Coroutines : Fate(S, co, lives[co])

IInv == Good(State) /\ Fated(State, life)

(* Become's value of life. *)
NewLife(R, co, l) ==
  IF l \in {"none", "refused", "over"} THEN l
  ELSE IF R.th[co].status = "error" THEN "over"
  ELSE IF \E i \in DOMAIN R.native : R.native[i].t = co THEN "begun"
  ELSE IF l = "begun" /\ R.th[co].status = "ok"
  THEN IF R.th[co].top THEN "kept" ELSE "over"
  ELSE l

Kept(S, R, co) ==
  ~In(S.native, co) =>
    ~In(R.native, co) /\ R.th[co].status = S.th[co].status /\ R.th[co].top = S.th[co].top

(* A thread that was not begun keeps its history, or it ends. *)
LEMMA FateKept ==
  ASSUME NEW S, NEW R, Core(R), NEW co \in Coroutines, NEW l \in Fates, Fate(S, co, l),
         Kept(S, R, co)
  PROVE  NewLife(R, co, l) \in Fates /\ Fate(R, co, NewLife(R, co, l))
<1> DEFINE L == R.th[co]
           m == NewLife(R, co, l)
<1>1. /\ L \in Thread /\ L.status \in {"ok", "yield", "error"}
      /\ L.status # "ok" => ~In(R.native, co)
  <2>1. L \in Thread /\ R.native \in Seq(Activation) /\ co \in Threads
    BY Parts DEF Threads
  <2>2. L.status # "ok" => ~In(R.native, co)
    BY <2>1, Runs
  <2> QED BY <2>1, <2>2 DEF Thread
<1>2. In(R.native, co) <=> \E i \in DOMAIN R.native : R.native[i].t = co
  <2>1. R.native \in Seq(Activation)
    BY Parts
  <2>2. DOMAIN R.native = 1..Len(R.native)
    BY <2>1
  <2> QED BY <2>2 DEF In
<1>3. CASE l \in {"none", "refused", "over"}
  <2>1. m = l
    BY <1>3 DEF NewLife
  <2>2. ~In(S.native, co)
    BY <1>3 DEF Fate
  <2>3. ~In(R.native, co) /\ L.status = S.th[co].status /\ L.top = S.th[co].top
    BY <2>2 DEF Kept
  <2> QED BY <1>3, <2>1, <2>3 DEF Fate
<1>4. CASE l \in {"made", "kept"}
  <2>1. ~In(S.native, co) /\ S.th[co].status = "ok" /\ S.th[co].top
    BY <1>4 DEF Fate
  <2>2. ~In(R.native, co) /\ L.status = "ok" /\ L.top
    BY <2>1 DEF Kept
  <2>3. m = l
    BY <1>2, <1>4, <2>2 DEF NewLife
  <2> QED BY <1>4, <2>2, <2>3 DEF Fate, Fates
<1>5. CASE l = "begun"
  <2>1. CASE In(R.native, co)
    <3>1. m = "begun"
      BY <1>1, <1>2, <1>5, <2>1 DEF NewLife
    <3> QED BY <2>1, <3>1 DEF Fate, Fates
  <2>2. CASE ~In(R.native, co) /\ L.status = "error"
    <3>1. m = "over"
      BY <1>5, <2>2 DEF NewLife
    <3> QED BY <2>2, <3>1 DEF Fate, Fates
  <2>3. CASE ~In(R.native, co) /\ L.status = "yield"
    <3>1. m = "begun"
      BY <1>2, <1>5, <2>3 DEF NewLife
    <3> QED BY <2>3, <3>1 DEF Fate, Fates
  <2>4. CASE ~In(R.native, co) /\ L.status = "ok"
    <3>1. m = IF L.top THEN "kept" ELSE "over"
      BY <1>2, <1>5, <2>4 DEF NewLife
    <3> QED BY <2>4, <3>1 DEF Fate, Fates
  <2> QED BY <1>1, <2>1, <2>2, <2>3, <2>4
<1> QED BY <1>3, <1>4, <1>5 DEF Fates

(* A thread that is resumed has begun. *)
LEMMA FateBegins ==
  ASSUME NEW R, Core(R), NEW co \in Coroutines, NEW l \in {"made", "kept", "begun"}, In(R.native, co)
  PROVE  NewLife(R, co, l) = "begun" /\ Fate(R, co, "begun")
<1>1. R.th[co].status = "ok"
  BY Runs DEF Threads
<1>2. \E i \in DOMAIN R.native : R.native[i].t = co
  <2>1. R.native \in Seq(Activation)
    BY Parts
  <2>2. DOMAIN R.native = 1..Len(R.native)
    BY <2>1
  <2> QED BY <2>2 DEF In
<1> QED BY <1>1, <1>2 DEF NewLife, Fate

(* What the invariant says of the running thread. *)
LEMMA StateIs ==
  ASSUME IInv
  PROVE  /\ Core(State) /\ Good(State) /\ State.th = th /\ State.native = native
         /\ Me(State) = me /\ Top(State) = top /\ State \in Stacks
         /\ Depth(native, Len(native)) < Limit
         /\ me \in Threads /\ th[me] \in Thread
<1>1. Good(State) /\ Core(State) /\ Rest(State)
  BY DEF IInv, Good
<1>2. State.th = th /\ State.native = native
  BY DEF State
<1>3. /\ State \in Stacks /\ Me(State) \in Threads /\ State.th[Me(State)] \in Thread
      /\ Me(State) = Top(State).t
  BY <1>1, Parts
<1>4. Me(State) = me /\ Top(State) = top
  BY <1>2, <1>3 DEF me, top, Top, Last
<1>5. Depth(native, Len(native)) < Limit
  BY <1>1, <1>2 DEF Rest
<1> QED BY <1>1, <1>2, <1>3, <1>4, <1>5

(* Become replaces both stacks and what follows for life. *)
LEMMA BecomeIs ==
  ASSUME NEW R, R \in Stacks, Become(R)
  PROVE  State' = R /\ life' = [co \in Coroutines |-> NewLife(R, co, life[co])]
<1>1. R = [th |-> R.th, native |-> R.native]
  BY DEF Stacks
<1> QED BY <1>1 DEF Become, State, NewLife

(* A step of the machine. *)
LEMMA Lands ==
  ASSUME IInv, NEW R, Good(R), Keeps(State, R), Become(R)
  PROVE  IInv'
<1>1. State' = R /\ life' = [co \in Coroutines |-> NewLife(R, co, life[co])]
  BY BecomeIs DEF Good, Core, Typed
<1>2. Core(R) /\ life \in [Coroutines -> Fates] /\ \A co \in Coroutines : Fate(State, co, life[co])
  BY DEF IInv, Fated, Good
<1>3. ASSUME NEW co \in Coroutines
      PROVE  NewLife(R, co, life[co]) \in Fates /\ Fate(R, co, NewLife(R, co, life[co]))
  <2>1. Kept(State, R, co) /\ life[co] \in Fates /\ Fate(State, co, life[co])
    BY <1>2 DEF Kept, Keeps
  <2> QED BY <1>2, <2>1, FateKept
<1>4. Fated(R, [co \in Coroutines |-> NewLife(R, co, life[co])])
  BY <1>3 DEF Fated
<1> QED BY <1>1, <1>4 DEF IInv

(* A resume. *)
LEMMA Resumes ==
  ASSUME IInv, NEW R, Good(R), NEW co \in Coroutines, life[co] \in {"made", "kept", "begun"},
         Starts(State, R, co), Become(R)
  PROVE  IInv'
<1>1. State' = R /\ life' = [u \in Coroutines |-> NewLife(R, u, life[u])]
  BY BecomeIs DEF Good, Core, Typed
<1>2. Core(R) /\ life \in [Coroutines -> Fates] /\ \A u \in Coroutines : Fate(State, u, life[u])
  BY DEF IInv, Fated, Good
<1>3. ASSUME NEW u \in Coroutines
      PROVE  NewLife(R, u, life[u]) \in Fates /\ Fate(R, u, NewLife(R, u, life[u]))
  <2>1. CASE u = co
    BY <1>2, <2>1, FateBegins DEF Starts, Fates
  <2>2. CASE u # co
    <3>1. (In(R.native, u) <=> In(State.native, u)) /\ R.th[u] = State.th[u]
      BY <2>2 DEF Starts
    <3>2. Kept(State, R, u) /\ life[u] \in Fates /\ Fate(State, u, life[u])
      BY <1>2, <3>1 DEF Kept
    <3> QED BY <1>2, <3>2, FateKept
  <2> QED BY <2>1, <2>2
<1>4. Fated(R, [u \in Coroutines |-> NewLife(R, u, life[u])])
  BY <1>3 DEF Fated
<1> QED BY <1>1, <1>4 DEF IInv

-----------------------------------------------------------------------------
(* OP_CALL. *)
LEMMA CallFromLuaKeeps == ASSUME IInv, CallFromLua PROVE IInv'
<1>1. PICK fun \in Funs : Become(luaD_precall(State, me, fun))
  BY DEF CallFromLua
<1>2. Top(State).k \in {"exec", "call"}
  BY StateIs DEF CallFromLua, InLua
<1>3. Good(luaD_precall(State, Me(State), fun)) /\ Keeps(State, luaD_precall(State, Me(State), fun))
  BY <1>2, StateIs, PrecallGood
<1> QED BY <1>1, <1>3, StateIs, Lands

(* OP_TAILCALL. *)
LEMMA TailCallKeeps == ASSUME IInv, TailCall PROVE IInv'
<1>1. Become(IncCi(State, me, Grown(State, me))) /\ Top(State).k = "exec"
  BY StateIs DEF TailCall, InLua
<1>2. /\ Good(IncCi(State, Me(State), Grown(State, Me(State))))
      /\ Keeps(State, IncCi(State, Me(State), Grown(State, Me(State))))
  BY <1>1, StateIs, TailGood
<1> QED BY <1>1, <1>2, StateIs, Lands

(* A function that the host program has called runs. *)
LEMMA InLuaOrC ==
  ASSUME IInv, InLua \/ InC
  PROVE  Top(State).k \in {"exec", "C"} /\ Len(State.native) > 1
<1>1. CASE InLua
  <2>1. Top(State).k = "exec"
    BY <1>1, StateIs DEF InLua
  <2> QED BY <2>1, StateIs, OutOfHost
<1>2. CASE InC
  BY <1>2, StateIs DEF InC
<1> QED BY <1>1, <1>2

(* A metamethod or lua_call. *)
LEMMA CallBackKeeps == ASSUME IInv, CallBack PROVE IInv'
<1>1. PICK fun \in Funs : Become(luaD_call(State, me, fun))
  BY DEF CallBack
<1>2. Good(luaD_call(State, Me(State), fun)) /\ Keeps(State, luaD_call(State, Me(State), fun))
  BY StateIs, InLuaOrC, CallBackGood DEF CallBack
<1> QED BY <1>1, <1>2, StateIs, Lands

(* OP_RETURN. *)
LEMMA ReturnFromLuaKeeps == ASSUME IInv, ReturnFromLua PROVE IInv'
<1> DEFINE P == luaD_poscall(State, me)
           R == [P EXCEPT !.native[Len(native)].n = @ - 1]
<1>1. Top(State).k \in {"exec", "C"} /\ Len(State.native) > 1 /\ Top(State).k = "exec"
  BY StateIs, InLuaOrC DEF ReturnFromLua, InLua
<1>2. /\ ~(Top(State).n > 1) => Good(Back(Pop(P))) /\ Keeps(State, Back(Pop(P)))
      /\ Top(State).n > 1 => Good(R) /\ Keeps(State, R)
  BY <1>1, StateIs, ReturnGood
<1>3. Become(IF top.n > 1 THEN R ELSE Back(Pop(P)))
  BY DEF ReturnFromLua
<1> HIDE DEF P, R
<1>4. CASE top.n > 1
  BY <1>2, <1>3, <1>4, StateIs, Lands
<1>5. CASE ~(top.n > 1)
  BY <1>2, <1>3, <1>5, StateIs, Lands
<1> QED BY <1>4, <1>5

(* A C function returns. *)
LEMMA ReturnFromCKeeps == ASSUME IInv, ReturnFromC PROVE IInv'
<1> DEFINE R == Back(Pop(luaD_poscall(State, me)))
<1>1. Top(State).k \in {"exec", "C"} /\ Len(State.native) > 1 /\ Top(State).k = "C"
  BY StateIs, InLuaOrC DEF ReturnFromC, InC
<1>2. Good(R) /\ Keeps(State, R)
  BY <1>1, StateIs, ReturnGood
<1>3. Become(R)
  BY DEF ReturnFromC
<1> HIDE DEF R
<1> QED BY <1>2, <1>3, Lands

(* An error begins. *)
LEMMA ErrorKeeps == ASSUME IInv, Error PROVE IInv'
<1>1. Become(Raise(State, me))
  BY DEF Error
<1>2. Top(State).k \in {"C", "call", "exec"} /\ Len(State.native) > 1
  BY InLuaOrC DEF Error
<1>3. State.th[Me(State)].nCcalls < Limit
  BY StateIs, Parts
<1>4. Good(Raise(State, Me(State))) /\ Keeps(State, Raise(State, Me(State)))
  BY <1>2, <1>3, StateIs, RaiseGood
<1> QED BY <1>1, <1>4, StateIs, Lands

(* The error function is called, or luaD_throw. *)
LEMMA luaG_errormsgKeeps == ASSUME IInv, luaG_errormsg PROVE IInv'
<1>1. Top(State).k = "raise"
  BY StateIs DEF luaG_errormsg
<1>2. CASE th[me].errfunc = "function"
  <2>1. PICK fun \in Funs : Become(luaD_call(Push(State, Frame("handler", me)), me, fun))
    BY <1>2 DEF luaG_errormsg
  <2>2. LET R == luaD_call(Push(State, Frame("handler", Me(State))), Me(State), fun)
        IN  Good(R) /\ Keeps(State, R)
    BY <1>1, StateIs, HandlerGood
  <2> QED BY <2>1, <2>2, StateIs, Lands
<1>3. CASE th[me].errfunc # "function"
  <2>1. Become(luaD_throw(State))
    BY <1>3 DEF luaG_errormsg
  <2>2. Good(luaD_throw(State)) /\ Keeps(State, luaD_throw(State))
    BY <1>1, StateIs, OutOfHost, ThrowGood
  <2> QED BY <2>1, <2>2, Lands
<1> QED BY <1>2, <1>3

(* A protected call. *)
LEMMA lua_pcallKeeps == ASSUME IInv, lua_pcall PROVE IInv'
<1>1. PICK fun \in Funs, ef \in Errs : Become(luaD_call(luaD_pcall(State, me, ef), me, fun))
  BY DEF lua_pcall, Errs
<1>2. Top(State).k = "C"
  BY StateIs, Parts DEF lua_pcall, InC, Host, Top, Frame
<1>3. LET R == luaD_call(luaD_pcall(State, Me(State), ef), Me(State), fun)
      IN  Good(R) /\ Keeps(State, R)
  BY <1>2, StateIs, ProtectGood
<1> QED BY <1>1, <1>3, StateIs, Lands

(* The parser starts. *)
LEMMA luaD_protectedparserKeeps == ASSUME IInv, luaD_protectedparser PROVE IInv'
<1>1. Become(luaD_pcall(State, me, th[me].errfunc))
  BY DEF luaD_protectedparser
<1>2. Top(State).k = "C"
  BY StateIs, Parts DEF luaD_protectedparser, InC, Host, Top, Frame
<1>3. th[me].errfunc \in Errs
  BY StateIs DEF Thread
<1>4. LET R == luaD_pcall(State, Me(State), th[me].errfunc) IN Good(R) /\ Keeps(State, R)
  BY <1>2, <1>3, StateIs, ProtectGood
<1> QED BY <1>1, <1>4, StateIs, Lands

(* The parser goes one level down. *)
LEMMA enterlevelKeeps == ASSUME IInv, enterlevel PROVE IInv'
<1> DEFINE R == Push([State EXCEPT !.th[me].nCcalls = @ + 1], Frame("level", me))
<1>1. Become(IF R.th[me].nCcalls > LUAI_MAXCCALLS THEN luaD_throw(R) ELSE R)
  BY DEF enterlevel
<1>2. Top(State).k \in {"pcall", "level"} /\ me = Me(State) /\ Good(State)
  BY StateIs DEF enterlevel, Parsing
<1>3. R = Push([State EXCEPT !.th[Me(State)].nCcalls = @ + 1], Frame("level", Me(State)))
  BY <1>2
<1> HIDE DEF R
<1>4. /\ R.th[me].nCcalls > LUAI_MAXCCALLS => Good(luaD_throw(R)) /\ Keeps(State, luaD_throw(R))
      /\ ~(R.th[me].nCcalls > LUAI_MAXCCALLS) => Good(R) /\ Keeps(State, R)
  BY <1>2, <1>3, LevelGood
<1>5. CASE R.th[me].nCcalls > LUAI_MAXCCALLS
  BY <1>1, <1>4, <1>5, Lands
<1>6. CASE ~(R.th[me].nCcalls > LUAI_MAXCCALLS)
  BY <1>1, <1>4, <1>6, Lands
<1> QED BY <1>5, <1>6

(* The parser fails. *)
LEMMA luaX_syntaxerrorKeeps == ASSUME IInv, luaX_syntaxerror PROVE IInv'
<1>1. Become(luaD_throw(State)) /\ Top(State).k \in {"pcall", "level"}
  BY StateIs DEF luaX_syntaxerror, Parsing
<1>2. Good(luaD_throw(State)) /\ Keeps(State, luaD_throw(State))
  BY <1>1, StateIs, OutOfHost, ThrowGood
<1> QED BY <1>1, <1>2, Lands

(* The parser goes up, or has finished. *)
LEMMA leavelevelKeeps == ASSUME IInv, leavelevel PROVE IInv'
<1> DEFINE Q == [Pop(State) EXCEPT !.th[me].nCcalls = @ - 1]
           R == [Pop(State) EXCEPT !.th[me].errfunc = top.errfunc]
<1>1. Become(IF top.k = "level" THEN Q ELSE R) /\ top.k \in {"pcall", "level"}
  BY DEF leavelevel, Parsing
<1>2. me = Me(State) /\ top = Top(State) /\ Good(State) /\ Core(State)
  BY StateIs
<1>3. CASE top.k = "level"
  <2>1. Good(Q) /\ Keeps(State, Q)
    BY <1>2, <1>3, LeaveLevelGood
  <2> HIDE DEF Q
  <2> QED BY <1>1, <1>3, <2>1, Lands
<1>4. CASE top.k = "pcall"
  <2>1. Good(R) /\ Keeps(State, R)
    BY <1>2, <1>4, UnpcallGood
  <2> HIDE DEF R
  <2> QED BY <1>1, <1>4, <2>1, Lands
<1> QED BY <1>1, <1>3, <1>4

(* coroutine.yield. *)
LEMMA luaB_yieldKeeps == ASSUME IInv, luaB_yield PROVE IInv'
<1>1. Become(lua_yield(State, me)) /\ Top(State).k = "C" /\ Len(State.native) > 1
  BY StateIs DEF luaB_yield, InC
<1>2. Good(lua_yield(State, Me(State))) /\ Keeps(State, lua_yield(State, Me(State)))
  BY <1>1, StateIs, YieldGood
<1> QED BY <1>1, <1>2, StateIs, Lands

(* A lua_resume was called by a C function of another thread. *)
LEMMA BelowResume ==
  ASSUME NEW S, Core(S), NEW j \in 2..Len(S.native), S.native[j].k = "resume"
  PROVE  S.native[j - 1].k = "C" /\ j - 1 > 1 /\ j - 1 \in 1..Len(S.native)
         /\ S.native[j].t \in Coroutines
<1>1. S.native[j].k \in May(S.native, j - 1)
  BY DEF Core, Ordered
<1>2. S.native[j - 1].k = "C" /\ j - 1 # 1
  BY <1>1 DEF May, Above
<1>3. S.native[j].t \in Coroutines
  BY DEF Core, Segments, Begins
<1> QED BY <1>2, <1>3, Parts

(* What a coroutine that has ended or yielded left on its stack is refused,*)
(* with an error of the thread that resumed it.                            *)
LEMMA RefusedGood ==
  ASSUME NEW S, Core(S), NEW j \in 2..Len(S.native), S.native[j].k = "resume",
         S.native[j].t = Me(S),
         NEW W, W.native = SubSeq(S.native, 1, j), Good(Back(W)), Keeps(S, Back(W))
  PROVE  Good(Refused(W)) /\ Keeps(S, Refused(W)) /\ Last(W.native).k = "resume"
<1> DEFINE Q == Back(W)
           co == Me(S)
           T == [Q.th EXCEPT ![co] = [Q.th[co] EXCEPT !.top = TRUE]]
           R == [th |-> T, native |-> Q.native]
<1>1. /\ S.native \in Seq(Activation) /\ co \in Coroutines /\ co \in Threads /\ j \in Nat
      /\ S.native[j - 1].k = "C" /\ j - 1 > 1 /\ j - 1 \in 1..Len(S.native) /\ j - 1 \in Nat
      /\ j \in 0..Len(S.native) /\ j \in 1..j /\ In(S.native, co)
  BY BelowResume, Parts DEF Threads
<1>2. /\ Len(W.native) = j /\ W.native[j] = S.native[j] /\ W.native \in Seq(Activation)
      /\ Last(W.native) = S.native[j]
  <2>1. /\ Len(W.native) = j /\ W.native[j] = S.native[j] /\ W.native \in Seq(Activation)
    BY <1>1, CutOff
  <2> QED BY <2>1 DEF Last
<1>3. Q.native = SubSeq(S.native, 1, j - 1)
  <2>1. Last(W.native).k = "resume"
    BY <1>2
  <2>2. Q = [[Pop(W) EXCEPT !.th[Last(W.native).t].nCcalls = @ - 1]
                     EXCEPT !.th[Last(W.native).t].top = FALSE]
    BY <2>1 DEF Back
  <2>3. Q.native = Pop(W).native
    BY <2>2
  <2>4. Pop(W).native = Front(W.native)
    BY DEF Pop
  <2>5. Front(W.native) = SubSeq(SubSeq(S.native, 1, j), 1, j - 1)
    BY <1>2 DEF Front
  <2>6. SubSeq(SubSeq(S.native, 1, j), 1, j - 1) = SubSeq(S.native, 1, j - 1)
    BY <1>1
  <2> QED BY <2>3, <2>4, <2>5, <2>6
<1>4. /\ Core(Q) /\ Rest(Q) /\ Q \in Stacks /\ Q = [th |-> Q.th, native |-> Q.native]
      /\ Q.th \in [Threads -> Thread] /\ Running(Q) = Me(Q)
      /\ \A u \in Threads : Q.th[u].size_ci >= BASIC_CI_SIZE
  <2>1. Core(Q) /\ Rest(Q)
    BY DEF Good
  <2>2. \A u \in Threads : Q.th[u].size_ci >= BASIC_CI_SIZE
    BY <2>1 DEF Core, Typed
  <2> HIDE DEF Q
  <2>3. /\ Q \in Stacks /\ Q = [th |-> Q.th, native |-> Q.native]
        /\ Q.th \in [Threads -> Thread] /\ Last(Q.native) = Top(Q) /\ Me(Q) = Top(Q).t
    BY <2>1, Parts
  <2> QED BY <2>1, <2>2, <2>3 DEF Running
<1>5. Len(Q.native) = j - 1 /\ Top(Q).k = "C"
  BY <1>1, <1>3, Shorter DEF Top
<1>6. Refused(W) = Raise([Q EXCEPT !.th[co].top = TRUE], Running(Q))
  BY <1>2 DEF Refused
<1> HIDE DEF Q
<1>7. [Q EXCEPT !.th[co].top = TRUE] = R
  <2> HIDE DEF co
  <2>1. [Q EXCEPT !.th[co].top = TRUE] = [Q EXCEPT !.th = T]
    OBVIOUS
  <2>2. \A A, M, B : [[th |-> A, native |-> M] EXCEPT !.th = B] = [th |-> B, native |-> M]
    OBVIOUS
  <2> HIDE DEF T
  <2>3. [[th |-> Q.th, native |-> Q.native] EXCEPT !.th = T] = [th |-> T, native |-> Q.native]
    BY <2>2
  <2> QED BY <1>4, <2>1, <2>3
<1>8. /\ T \in [Threads -> Thread]
      /\ \A u \in Threads :
           /\ T[u].status = Q.th[u].status /\ T[u].ci = Q.th[u].ci
           /\ T[u].baseCcalls = Q.th[u].baseCcalls /\ T[u].errfunc = Q.th[u].errfunc
           /\ T[u].size_ci >= BASIC_CI_SIZE /\ T[u].nCcalls = Q.th[u].nCcalls
           /\ u # co => T[u] = Q.th[u]
  <2>1. Q.th[co] \in Thread
    BY <1>1, <1>4
  <2> HIDE DEF co
  <2> QED BY <1>1, <1>4, <2>1 DEF Thread
<1> HIDE DEF T
<1>9. R.th = T /\ R.native = Q.native /\ R \in Stacks
  <2>1. Q.native \in Seq(Activation)
    BY <1>4, Parts
  <2> QED BY <1>8, <2>1 DEF Stacks
<1> HIDE DEF R
<1>10. Core(R) /\ Me(R) = Me(Q)
  BY <1>4, <1>8, <1>9, TouchCore
<1>11. /\ Top(R).k = "C" /\ Len(R.native) > 1 /\ R.th[Me(R)].nCcalls < Limit
  <2>1. R.th[Me(R)].nCcalls = Depth(Q.native, Len(Q.native))
    BY <1>9, <1>10, Parts
  <2> QED BY <1>1, <1>4, <1>5, <1>9, <2>1 DEF Rest, Top
<1>12. Good(Raise(R, Me(R))) /\ Keeps(R, Raise(R, Me(R)))
  BY <1>10, <1>11, RaiseGood
<1>13. Refused(W) = Raise(R, Me(R))
  BY <1>4, <1>6, <1>7, <1>10
<1>14. Keeps(S, R)
  <2>1. \A u \in Coroutines \ {co} : R.th[u].status = Q.th[u].status /\ R.th[u].top = Q.th[u].top
    BY <1>8, <1>9 DEF Threads
  <2>2. Keeps(S, Q)
    BY DEF Q
  <2> QED BY <1>1, <1>9, <2>1, <2>2 DEF Keeps
<1>15. Keeps(S, Raise(R, Me(R)))
  BY <1>12, <1>14, KeepsOn
<1> QED BY <1>2, <1>12, <1>13, <1>15

(* There is no room for the results of a coroutine. *)
LEMMA TooManyResultsKeeps == ASSUME IInv, TooManyResults PROVE IInv'
<1> DEFINE P == Pop(luaD_poscall(State, me))
           n == Len(native)
<1>1. /\ Top(State).k \in {"exec", "C"} /\ Len(State.native) > 1
      /\ Top(State).k = "C" \/ ~(Top(State).n > 1)
  <2>1. CASE InC
    BY <2>1, InLuaOrC, StateIs DEF InC
  <2>2. CASE InLua /\ top.n = 1
    BY <2>2, InLuaOrC, StateIs DEF InLua
  <2> QED BY <2>1, <2>2 DEF TooManyResults
<1>2. /\ Core(State) /\ Good(State) /\ Me(State) = me /\ State.native = native
      /\ native \in Seq(Activation) /\ n \in Nat /\ n > 1 /\ State \in Stacks
      /\ Last(native) = native[n] /\ native[n].t = me
  BY <1>1, StateIs, Parts DEF Top, Last, me
<1>3. PICK W \in {P} \union IF InC /\ MayYield(State, me) THEN {Unwound(State, me)} ELSE {} :
        Last(W.native).k = "resume" /\ Become(Refused(W))
  BY DEF TooManyResults
<1>4. CASE W = P
  <2>1. Good(Back(P)) /\ Keeps(State, Back(P))
    BY <1>1, <1>2, ReturnGood
  <2>2. P.native = SubSeq(native, 1, n - 1)
    <3>1. luaD_poscall(State, me).native = native
      BY <1>2 DEF luaD_poscall
    <3> QED BY <1>2, <3>1 DEF Pop, Front
  <2> HIDE DEF P
  <2>3. n - 1 \in 2..n /\ native[n - 1].k = "resume" /\ native[n - 1].t = me
    <3>1. n - 1 \in 0..n /\ n - 1 \in 1..(n - 1) /\ n \in 2..n
      BY <1>2
    <3>2. /\ Len(SubSeq(native, 1, n - 1)) = n - 1
          /\ SubSeq(native, 1, n - 1)[n - 1] = native[n - 1]
      BY <1>2, <3>1, CutOff
    <3>3. native[n - 1].k = "resume"
      BY <1>3, <1>4, <2>2, <3>2 DEF Last
    <3>4. n - 1 # 1
      BY <1>2, <3>3, Parts DEF Frame
    <3>5. native[n].k # "resume"
      BY <1>1, <1>2 DEF Top
    <3>6. native[n].t = native[n - 1].t
      <4>1. \A i \in 2..Len(State.native) :
               IF State.native[i].k = "resume" THEN Begins(State.native, i)
               ELSE State.native[i].t = State.native[i - 1].t
        BY <1>2 DEF Core, Segments
      <4> HIDE DEF P
      <4> QED BY <1>2, <3>1, <3>5, <4>1
    <3>7. n - 1 \in 2..n
      <4>1. n \in Nat /\ n > 1
        BY <1>2
      <4> HIDE DEF n, P
      <4> QED BY <3>4, <4>1
    <3>8. native[n - 1].t = me
      BY <1>2, <3>6
    <3> QED BY <3>3, <3>7, <3>8
  <2>4. Good(Refused(P)) /\ Keeps(State, Refused(P))
    BY <1>2, <2>1, <2>2, <2>3, RefusedGood
  <2> QED BY <1>3, <1>4, <2>4, Lands
<1>5. CASE W # P
  <2>1. W = Unwound(State, me) /\ InC /\ MayYield(State, me)
    BY <1>3, <1>5
  <2>2. Top(State).k = "C"
    BY <2>1, StateIs DEF InC
  <2>3. /\ Good(lua_yield(State, me)) /\ Keeps(State, lua_yield(State, me))
        /\ lua_yield(State, me) = Back(W)
        /\ \E j \in 2..Len(native) :
             /\ native[j].k = "resume" /\ native[j].t = me
             /\ W.native = SubSeq(native, 1, j)
    <3>1. /\ Good(lua_yield(State, Me(State))) /\ Keeps(State, lua_yield(State, Me(State)))
          /\ MayYield(State, Me(State)) =>
               \E j \in 2..Len(State.native) :
                  /\ State.native[j].k = "resume" /\ State.native[j].t = Me(State)
                  /\ Unwound(State, Me(State)).native = SubSeq(State.native, 1, j)
      BY <1>1, <1>2, <2>2, YieldGood
    <3>2. lua_yield(State, me) = Back(W)
      BY <2>1 DEF lua_yield
    <3> QED BY <1>2, <2>1, <3>1, <3>2
  <2>4. Good(Refused(W)) /\ Keeps(State, Refused(W))
    BY <1>2, <2>3, RefusedGood
  <2> QED BY <1>3, <2>4, Lands
<1> QED BY <1>4, <1>5

(* A coroutine that is not running and has no entry in its chain has no    *)
(* activation, and one that may be resumed has none.                       *)
LEMMA Out ==
  ASSUME IInv, NEW co \in Coroutines, ~In(native, co)
  PROVE  th[co].status = "ok" => th[co].ci = <<>>
<1>1. Core(State) /\ State.th = th /\ State.native = native /\ co \in Threads
  BY StateIs DEF Threads
<1>2. native \in Seq(Activation) /\ Placed(th[co], native, co)
  BY <1>1, Parts DEF Core, Chained
<1>3. Len(native) \in Nat /\ 0 \in 0..Len(native) /\ Counts(native, Len(native))
  BY <1>2, Numbers
<1>4. \A x \in (0 + 1)..Len(native) : Own(native, co, x) = <<>>
  <2>1. \A x \in (0 + 1)..Len(native) : native[x].t # co
    BY DEF In
  <2> QED BY <2>1 DEF Own
<1>5. Chain(native, co, Len(native)) = Chain(native, co, 0)
  BY <1>3, <1>4, ChainPrefix
<1> QED BY <1>2, <1>5, ChainNone DEF Placed

(* A coroutine that coroutine.status calls suspended has no activation,    *)
(* and has yielded or never run.                                           *)
LEMMA SuspendedIs ==
  ASSUME IInv, NEW co \in Coroutines, costatus(me, co) = "suspended"
  PROVE  /\ co # me /\ ~In(native, co)
         /\ th[co].status = "yield" \/ (th[co].status = "ok" /\ th[co].ci = <<>> /\ th[co].top)
<1>1. /\ Core(State) /\ State.th = th /\ State.native = native /\ co \in Threads
      /\ Me(State) = me
  BY StateIs DEF Threads
<1>2. th[co].status \in {"ok", "yield", "error"}
  <2>1. th[co] \in Thread
    BY <1>1, Parts
  <2> QED BY <2>1 DEF Thread
<1>5. costatus(me, co) =
        IF me = co THEN "running"
        ELSE IF th[co].status = "yield" THEN "suspended"
        ELSE IF th[co].status = "error" THEN "dead"
        ELSE IF th[co].ci # <<>> THEN "normal"
        ELSE IF th[co].top THEN "suspended" ELSE "dead"
  BY DEF costatus
<1>3. /\ co # me
      /\ th[co].status = "yield" \/ (th[co].status = "ok" /\ th[co].ci = <<>> /\ th[co].top)
  BY <1>2, <1>5
<1>4. ~In(native, co)
  BY <1>1, <1>3, Runs, NormalChain
<1> QED BY <1>3, <1>4

(* A step that leaves the C stack alone. *)
LEMMA Stays ==
  ASSUME IInv, native' = native, th' \in [Threads -> Thread],
         \A u \in Threads :
           /\ th'[u].status = th[u].status /\ th'[u].ci = th[u].ci
           /\ th'[u].baseCcalls = th[u].baseCcalls /\ th'[u].errfunc = th[u].errfunc
           /\ th'[u].size_ci >= BASIC_CI_SIZE
           /\ th'[u].nCcalls = th[u].nCcalls \/ ~In(native, u)
  PROVE  Good(State') /\ Me(State') = me
<1> DEFINE R == State'
<1>1. R = [th |-> th', native |-> native]
  BY DEF State
<1>2. /\ Core(State) /\ State.th = th /\ State.native = native /\ Me(State) = me
      /\ Rest(State) /\ native \in Seq(Activation)
  BY StateIs, Parts DEF Good
<1>3. R.th = th' /\ R.native = native /\ R \in Stacks
  BY <1>1, <1>2 DEF Stacks
<1> HIDE DEF R
<1>4. \A u \in Threads :
           /\ R.th[u].status = State.th[u].status /\ R.th[u].ci = State.th[u].ci
           /\ R.th[u].baseCcalls = State.th[u].baseCcalls /\ R.th[u].errfunc = State.th[u].errfunc
           /\ R.th[u].size_ci >= BASIC_CI_SIZE
           /\ R.th[u].nCcalls = State.th[u].nCcalls \/ ~In(State.native, u)
  BY <1>2, <1>3
<1>5. Core(R) /\ Me(R) = Me(State)
  BY <1>2, <1>3, <1>4, TouchCore
<1> QED BY <1>2, <1>3, <1>5 DEF Good, Rest, Top, R

(* coroutine.create. *)
LEMMA luaB_cocreateKeeps == ASSUME IInv, luaB_cocreate PROVE IInv'
<1>1. PICK co \in Coroutines :
        /\ life[co] = "none" /\ th' = [th EXCEPT ![co].top = TRUE]
        /\ life' = [life EXCEPT ![co] = "made"] /\ native' = native
  BY DEF luaB_cocreate
<1>2. /\ Core(State) /\ State.th = th /\ State.native = native
      /\ life \in [Coroutines -> Fates] /\ \A u \in Coroutines : Fate(State, u, life[u])
  BY StateIs DEF IInv, Fated
<1>3. th \in [Threads -> Thread] /\ co \in Threads /\ \A u \in Threads : th[u].size_ci >= BASIC_CI_SIZE
  BY <1>2, Parts DEF Core, Typed, Threads
<1>4. /\ th' \in [Threads -> Thread]
      /\ \A u \in Threads :
           /\ th'[u].status = th[u].status /\ th'[u].ci = th[u].ci
           /\ th'[u].baseCcalls = th[u].baseCcalls /\ th'[u].errfunc = th[u].errfunc
           /\ th'[u].size_ci >= BASIC_CI_SIZE /\ th'[u].nCcalls = th[u].nCcalls
           /\ u # co => th'[u].top = th[u].top
           /\ u = co => th'[u].top
  BY <1>1, <1>3 DEF Thread
<1>5. Good(State')
  BY <1>1, <1>4, Stays
<1>6. State'.th = th' /\ State'.native = native
  BY <1>1 DEF State
<1>7. ASSUME NEW u \in Coroutines PROVE Fate(State', u, life'[u])
  <2>1. u \in Threads /\ Fate(State, u, life[u])
    BY <1>2 DEF Threads
  <2>2. CASE u = co
    BY <1>1, <1>2, <1>4, <1>6, <2>1, <2>2 DEF Fate
  <2>3. CASE u # co
    <3>1. life'[u] = life[u]
      BY <1>1, <1>2, <2>3
    <3> QED BY <1>2, <1>4, <1>6, <2>1, <2>3, <3>1 DEF Fate
  <2> QED BY <2>2, <2>3
<1>8. life' \in [Coroutines -> Fates]
  BY <1>1, <1>2 DEF Fates
<1> QED BY <1>5, <1>7, <1>8 DEF IInv, Fated

(* The collector shrinks a CallInfo array, which nothing depends on. *)
LEMMA checkstacksizesKeeps == ASSUME IInv, checkstacksizes PROVE IInv'
<1>1. PICK t \in Threads :
        /\ 2 * BASIC_CI_SIZE < th[t].size_ci
        /\ Become([State EXCEPT !.th[t].size_ci = @ \div 2])
  BY DEF checkstacksizes
<1>2. Core(State) /\ State.th = th /\ State.native = native /\ State \in Stacks
  BY StateIs
<1>3. th \in [Threads -> Thread] /\ \A u \in Threads : th[u].size_ci >= BASIC_CI_SIZE
  BY <1>2, Parts DEF Core, Typed
<1> DEFINE R == [State EXCEPT !.th[t].size_ci = @ \div 2]
           T == [th EXCEPT ![t] = [th[t] EXCEPT !.size_ci = @ \div 2]]
<1>4. R = [th |-> T, native |-> native]
  BY DEF State
<1>5. /\ T \in [Threads -> Thread]
      /\ \A u \in Threads :
           /\ T[u].status = th[u].status /\ T[u].ci = th[u].ci /\ T[u].top = th[u].top
           /\ T[u].baseCcalls = th[u].baseCcalls /\ T[u].errfunc = th[u].errfunc
           /\ T[u].size_ci >= BASIC_CI_SIZE /\ T[u].nCcalls = th[u].nCcalls
  <2>1. th[t] \in Thread /\ th[t].size_ci \in Nat
    BY <1>3 DEF Thread
  <2>2. th[t].size_ci \div 2 \in Nat /\ th[t].size_ci \div 2 >= BASIC_CI_SIZE
    BY <1>1, <2>1, LuaCallAssumption
  <2> QED BY <1>3, <2>1, <2>2 DEF Thread
<1>6. Become(R)
  BY <1>1
<1> HIDE DEF R, T
<1>7. R.th = T /\ R.native = native /\ native \in Seq(Activation)
  BY <1>2, <1>4, Parts
<1>8. R \in Stacks
  BY <1>4, <1>5, <1>7 DEF Stacks
<1>9. Core(R) /\ Me(R) = Me(State)
  <2>1. \A u \in Threads :
           /\ R.th[u].status = State.th[u].status /\ R.th[u].ci = State.th[u].ci
           /\ R.th[u].baseCcalls = State.th[u].baseCcalls /\ R.th[u].errfunc = State.th[u].errfunc
           /\ R.th[u].size_ci >= BASIC_CI_SIZE
           /\ R.th[u].nCcalls = State.th[u].nCcalls \/ ~In(State.native, u)
    BY <1>2, <1>5, <1>7
  <2> QED BY <1>2, <1>7, <1>8, <2>1, TouchCore
<1>10. Good(R)
  BY <1>2, <1>7, <1>9, StateIs DEF Good, Rest, Top
<1>11. Keeps(State, R)
  BY <1>2, <1>5, <1>7, KeepsAlike DEF Threads
<1> QED BY <1>6, <1>10, <1>11, Lands

(* coroutine.resume and the function of coroutine.wrap: refused, out of    *)
(* depth, or lua_resume.                                                   *)
LEMMA auxresumeKeeps == ASSUME IInv, auxresume PROVE IInv'
<1>0. PICK co \in Coroutines, wrap \in BOOLEAN :
        LET refuse == IF wrap THEN Raise(State, me) ELSE State
        IN  /\ life[co] # "none" /\ Defined(co)
            /\ IF costatus(me, co) # "suspended" THEN Become(refuse)
               ELSE IF th[me].nCcalls >= LUAI_MAXCCALLS
               THEN /\ th' = [th EXCEPT ![co].top = FALSE, ![co].nCcalls = th[me].nCcalls]
                    /\ native' = refuse.native
                    /\ life' = [life EXCEPT ![co] = CASE @ = "made" -> "refused"
                                                      [] @ = "kept" -> "over"
                                                      [] OTHER -> @]
               ELSE \E value \in IF life[co] = "made" THEN {"Lua"} ELSE Values :
                       Become(Resumed(State, me, co, wrap, value))
  BY DEF auxresume
<1> DEFINE refuse == IF wrap THEN Raise(State, me) ELSE State
<1>1. /\ Core(State) /\ Good(State) /\ State.th = th /\ State.native = native
      /\ Me(State) = me /\ me \in Threads /\ th[me] \in Thread
      /\ life \in [Coroutines -> Fates] /\ \A u \in Coroutines : Fate(State, u, life[u])
  BY StateIs DEF IInv, Fated
<1>2. Top(State).k = "C" /\ Len(State.native) > 1
  BY StateIs DEF auxresume, InC
<1>3. ASSUME NEW S, Good(S), Me(S) = me, Top(S).k = "C", Len(S.native) > 1
      PROVE  Good(Raise(S, me)) /\ Keeps(S, Raise(S, me))
  <2>1. Core(S) /\ S.th[Me(S)].nCcalls < Limit
    BY <1>3, Parts DEF Good, Rest
  <2> QED BY <1>3, <2>1, RaiseGood
<1>4. CASE costatus(me, co) # "suspended"
  <2>1. Become(refuse)
    BY <1>0, <1>4
  <2>2. Good(refuse) /\ Keeps(State, refuse)
    BY <1>1, <1>2, <1>3, KeepsItself
  <2> HIDE DEF refuse
  <2> QED BY <2>1, <2>2, Lands
<1>5. CASE costatus(me, co) = "suspended" /\ th[me].nCcalls < LUAI_MAXCCALLS
  <2>1. th[me].nCcalls \in Nat
    BY <1>1 DEF Thread
  <2>2. PICK value \in Values : Become(Resumed(State, me, co, wrap, value))
    BY <1>0, <1>5, <2>1, LuaCallAssumption DEF Values, Funs
  <2>3. /\ co # me /\ ~In(native, co)
        /\ th[co].status = "yield" \/ (th[co].status = "ok" /\ th[co].ci = <<>> /\ th[co].top)
    BY <1>5, SuspendedIs
  <2>4. /\ Good(Resumed(State, Me(State), co, wrap, value))
        /\ Starts(State, Resumed(State, Me(State), co, wrap, value), co)
    BY <1>0, <1>1, <1>2, <1>5, <2>3, ResumeGood DEF Defined
  <2>5. life[co] \in {"made", "kept", "begun"}
    <3>1. life[co] \in Fates /\ Fate(State, co, life[co]) /\ life[co] # "none"
      BY <1>0, <1>1
    <3> QED BY <1>1, <2>3, <3>1 DEF Fate, Fates
  <2> QED BY <1>1, <2>2, <2>4, <2>5, Resumes
<1>6. CASE costatus(me, co) = "suspended" /\ ~(th[me].nCcalls < LUAI_MAXCCALLS)
  <2> DEFINE T == [th EXCEPT ![co].top = FALSE, ![co].nCcalls = th[me].nCcalls]
             Q == [th |-> T, native |-> native]
  <2>1. /\ th' = T /\ native' = refuse.native
        /\ life' = [life EXCEPT ![co] = CASE @ = "made" -> "refused"
                                          [] @ = "kept" -> "over"
                                          [] OTHER -> @]
        /\ th[me].nCcalls \in Nat
    <3>1. th[me].nCcalls \in Nat
      BY <1>1 DEF Thread
    <3>2. th[me].nCcalls >= LUAI_MAXCCALLS /\ costatus(me, co) = "suspended"
      BY <1>6, <3>1, LuaCallAssumption
    <3>3. /\ th' = [th EXCEPT ![co].top = FALSE, ![co].nCcalls = th[me].nCcalls]
          /\ native' = refuse.native
          /\ life' = [life EXCEPT ![co] = CASE @ = "made" -> "refused"
                                            [] @ = "kept" -> "over"
                                            [] OTHER -> @]
      BY <1>0, <3>2, Zenon
    <3> QED BY <3>1, <3>3
  <2>2. /\ co # me /\ ~In(native, co) /\ co \in Threads
        /\ th[co].status = "yield" \/ (th[co].status = "ok" /\ th[co].ci = <<>> /\ th[co].top)
    BY <1>6, SuspendedIs DEF Threads
  <2>3. /\ th \in [Threads -> Thread] /\ \A u \in Threads : th[u].size_ci >= BASIC_CI_SIZE
        /\ native \in Seq(Activation)
    BY <1>1, Parts DEF Core, Typed
  <2>4. /\ T \in [Threads -> Thread]
        /\ \A u \in Threads :
             /\ T[u].status = th[u].status /\ T[u].ci = th[u].ci
             /\ T[u].baseCcalls = th[u].baseCcalls /\ T[u].errfunc = th[u].errfunc
             /\ T[u].size_ci >= BASIC_CI_SIZE
             /\ u # co => T[u].nCcalls = th[u].nCcalls /\ T[u].top = th[u].top
             /\ u = co => ~T[u].top
    <3> DEFINE c == th[me].nCcalls
    <3>1. c \in Nat
      BY <2>1
    <3> HIDE DEF c
    <3>2. T = [th EXCEPT ![co] = [th[co] EXCEPT !.top = FALSE, !.nCcalls = c]]
      BY <2>2, <2>3 DEF c
    <3>3. th[co] \in Thread
      BY <2>2, <2>3
    <3> HIDE DEF T
    <3> QED BY <2>2, <2>3, <3>1, <3>2, <3>3 DEF Thread
  <2> HIDE DEF T
  <2>5. Q.th = T /\ Q.native = native /\ Q \in Stacks
    BY <2>3, <2>4 DEF Stacks
  <2>6. Raise(State, me).native = Append(native, Frame("raise", me))
        /\ Raise(Q, me) = [th |-> T, native |-> Append(native, Frame("raise", me))]
    <3>1. State \in Stacks /\ State.native = native
      BY StateIs
    <3> HIDE DEF Q
    <3>2. Push(State, Frame("raise", me)).native = Append(native, Frame("raise", me))
      BY ONLY <3>1, PushIs
    <3>3. Push(Q, Frame("raise", me)) = [th |-> T, native |-> Append(native, Frame("raise", me))]
      BY ONLY <2>5, PushIs
    <3> QED BY ONLY <3>2, <3>3 DEF Raise
  <2>7. State' = IF wrap THEN Raise(Q, me) ELSE Q
    BY <1>1, <2>1, <2>6 DEF State
  <2> HIDE DEF Q
  <2>8. Core(Q) /\ Me(Q) = me
    <3>1. \A u \in Threads :
           /\ Q.th[u].status = State.th[u].status /\ Q.th[u].ci = State.th[u].ci
           /\ Q.th[u].baseCcalls = State.th[u].baseCcalls /\ Q.th[u].errfunc = State.th[u].errfunc
           /\ Q.th[u].size_ci >= BASIC_CI_SIZE
           /\ Q.th[u].nCcalls = State.th[u].nCcalls \/ ~In(State.native, u)
      BY <1>1, <2>2, <2>4, <2>5
    <3>2. Q.native = State.native
      BY <1>1, <2>5
    <3> QED BY <1>1, <2>5, <3>1, <3>2, TouchCore
  <2>9. Good(Q) /\ Top(Q).k = "C" /\ Len(Q.native) > 1
    BY <1>1, <1>2, <2>5, <2>8 DEF Good, Rest, Top
  <2>10. Good(State') /\ Keeps(Q, State')
    BY <1>3, <2>7, <2>8, <2>9, KeepsItself
  <2>11. ASSUME NEW u \in Coroutines PROVE Fate(State', u, life'[u])
    <3>1. Kept(Q, State', u)
      BY <2>10 DEF Keeps, Kept
    <3>2. Core(State') /\ u \in Threads
      BY <2>10 DEF Good, Threads
    <3>3. CASE u = co
      <4>1. ~In(State'.native, co) /\ State'.th[co].status = th[co].status /\ ~State'.th[co].top
        BY <2>2, <2>4, <2>5, <3>1, <3>3 DEF Kept
      <4>2. /\ life[co] \in {"made", "kept", "begun"}
            /\ life[co] \in {"made", "kept"} => th[co].status = "ok"
            /\ life[co] = "begun" => th[co].status = "yield"
        <5>1. life[co] \in Fates /\ Fate(State, co, life[co]) /\ life[co] # "none"
          BY <1>0, <1>1
        <5> QED BY <1>1, <2>2, <5>1 DEF Fate, Fates
      <4>3. life'[co] = CASE life[co] = "made" -> "refused"
                          [] life[co] = "kept" -> "over"
                          [] OTHER -> life[co]
        BY <1>1, <2>1
      <4> QED BY <3>3, <4>1, <4>2, <4>3 DEF Fate
    <3>4. CASE u # co
      <4>1. life'[u] = life[u] /\ Fate(State, u, life[u]) /\ life[u] \in Fates
        BY <1>1, <2>1, <3>4
      <4>2. /\ In(Q.native, u) <=> In(State.native, u)
            /\ Q.th[u].status = State.th[u].status /\ Q.th[u].top = State.th[u].top
        BY <1>1, <2>4, <2>5, <3>2, <3>4
      <4>3. In(State'.native, u) <=> In(State.native, u)
        <5>1. In(State'.native, u) <=> In(Q.native, u)
          <6>1. CASE wrap
            <7>1. State'.native = Append(native, Frame("raise", me)) /\ Frame("raise", me) \in Activation
              BY <1>1, <2>6, <2>7, <6>1, FrameType DEF Places
            <7>2. Frame("raise", me).t = me /\ In(native, me)
              BY <1>1, FrameType, Parts DEF Places
            <7> QED BY <2>3, <2>5, <7>1, <7>2, InPush
          <6>2. CASE ~wrap
            BY <2>7, <6>2
          <6> QED BY <6>1, <6>2
        <5> QED BY <4>2, <5>1
      <4>4. State'.th[u] = Q.th[u]
        BY <2>5, <2>6, <2>7
      <4> QED BY <4>1, <4>2, <4>3, <4>4 DEF Fate
    <3> QED BY <3>3, <3>4
  <2>12. life' \in [Coroutines -> Fates]
    BY <1>1, <2>1 DEF Fates
  <2> QED BY <2>10, <2>11, <2>12 DEF IInv, Fated
<1> QED BY <1>4, <1>5, <1>6

(* In the first state the host program runs, and no coroutine has been made. *)
LEMMA Starting == ASSUME Init PROVE IInv
<1> DEFINE N == <<Frame("C", main)>>
           T == [t \in Threads |-> lua_newthread]
           S == [th |-> T, native |-> N]
<1>1. State = S /\ life = [co \in Coroutines |-> "none"]
  BY DEF Init, State
<1>2. main \in Threads /\ Frame("C", main) \in Activation /\ Frame("C", main).k = "C"
      /\ Frame("C", main).t = main
  BY FrameType DEF Threads, Places
<1>3. /\ lua_newthread \in Thread /\ lua_newthread.status = "ok" /\ lua_newthread.ci = <<>>
      /\ lua_newthread.size_ci = BASIC_CI_SIZE /\ lua_newthread.nCcalls = 0
      /\ lua_newthread.baseCcalls = 0 /\ lua_newthread.errfunc = "none" /\ ~lua_newthread.top
  <2>1. <<>> \in Seq(Funs)
    OBVIOUS
  <2> QED BY <2>1, LuaCallAssumption DEF lua_newthread, Thread, Errs
<1>4. N \in Seq(Activation) /\ Len(N) = 1 /\ N[1] = Frame("C", main)
  BY <1>2
<1>5. T \in [Threads -> Thread] /\ \A t \in Threads : T[t] = lua_newthread
  BY <1>3
<1>6. S.th = T /\ S.native = N /\ S \in Stacks
  BY <1>4, <1>5 DEF Stacks
<1> HIDE DEF N, T, S
<1>7. Me(S) = main /\ Top(S) = Frame("C", main)
  BY <1>2, <1>4, <1>6 DEF Me, Top
<1>8. Depth(N, 1) = 0
  <2>1. 1 - 1 = 0 /\ 1 \in Nat \ {0}
    OBVIOUS
  <2>2. Depth(N, 1) = Depth(N, 0) + Deeper(N[1])
    BY <2>1, DepthPush
  <2>3. Deeper(N[1]) = 0
    BY <1>2, <1>4 DEF Deeper, DeepKinds
  <2> QED BY <2>2, <2>3, DepthNone
<1>9. \A t : Chain(N, t, 1) = <<>>
  <2> TAKE t
  <2>1. 1 \in Nat /\ 0 \in 0..1 /\ Counts(N, 1) /\ \A x \in (0 + 1)..1 : x = 1
    BY <1>4, Numbers
  <2>2. \A x \in (0 + 1)..1 : Own(N, t, x) = <<>>
    BY <2>1 DEF Own
  <2>3. Chain(N, t, 1) = Chain(N, t, 0)
    BY <2>1, <2>2, ChainPrefix
  <2> QED BY <2>3, ChainNone
<1>10. 2..Len(N) = {} /\ 1..Len(N) = {1}
  BY <1>4
<1>11. Typed(S)
  <2>1. \A t \in Threads : S.th[t].size_ci >= BASIC_CI_SIZE
    BY <1>3, <1>5, <1>6, LuaCallAssumption
  <2>2. Len(S.native) >= 1 /\ S.native[1] = Frame("C", main)
    BY <1>4, <1>6
  <2> QED BY <1>6, <2>1, <2>2 DEF Typed
<1>12. Ordered(N)
  BY <1>2, <1>4, <1>10 DEF Ordered
<1>13. Segments(N)
  BY <1>2, <1>4, <1>10 DEF Segments
<1>14. Counted(S)
  BY <1>2, <1>3, <1>4, <1>5, <1>6, <1>7, <1>8, <1>10 DEF Counted
<1>15. Chained(S)
  BY <1>3, <1>4, <1>5, <1>6, <1>9, <1>10 DEF Chained, Placed
<1>16. Handlers(S)
  BY <1>3, <1>5, <1>6, <1>10 DEF Handlers
<1>17. Good(S)
  <2>1. Depth(S.native, Len(S.native)) < Limit
    <3>1. 0 < Limit
      BY LuaCallAssumption DEF Limit
    <3> QED BY <1>4, <1>6, <1>8, <3>1
  <2> QED BY <1>2, <1>6, <1>7, <1>11, <1>12, <1>13, <1>14, <1>15, <1>16, <2>1 DEF Good, Rest, Core
<1>18. Fated(S, life)
  <2>1. ASSUME NEW co \in Coroutines PROVE Fate(S, co, "none")
    <3>1. co \in Threads /\ co # main
      BY LuaCallAssumption DEF Threads
    <3>2. ~In(N, co)
      BY <1>2, <1>4, <1>10, <3>1 DEF In
    <3> QED BY <1>3, <1>5, <1>6, <3>1, <3>2 DEF Fate
  <2> QED BY <1>1, <2>1 DEF Fated, Fates
<1> QED BY <1>1, <1>17, <1>18 DEF IInv

(* Every action keeps the invariant. *)
LEMMA Stepping == ASSUME IInv, [Next]_callvars PROVE IInv'
<1>1. CASE Next
  BY <1>1, CallFromLuaKeeps, TailCallKeeps, CallBackKeeps, ReturnFromLuaKeeps, ReturnFromCKeeps,
     ErrorKeeps, luaG_errormsgKeeps, lua_pcallKeeps, luaD_protectedparserKeeps, enterlevelKeeps,
     luaX_syntaxerrorKeeps, leavelevelKeeps, luaB_cocreateKeeps, auxresumeKeeps, luaB_yieldKeeps,
     TooManyResultsKeeps, checkstacksizesKeeps DEF Next
<1>2. CASE UNCHANGED callvars
  BY <1>2 DEF callvars, IInv, State
<1> QED BY <1>1, <1>2

(* The inductive invariant is an invariant. *)
LEMMA Invariant == Spec => []IInv
<1>1. Init => IInv
  BY Starting
<1>2. IInv /\ [Next]_callvars => IInv'
  BY Stepping
<1> QED BY <1>1, <1>2, PTL DEF Spec

(* What it says of the running thread's depth is DepthCounted ... *)
LEMMA CountedHolds == IInv => DepthCounted
<1> SUFFICES ASSUME IInv PROVE DepthCounted
  OBVIOUS
<1>1. /\ Core(State) /\ State.th = th /\ State.native = native /\ Me(State) = me
      /\ Depth(native, Len(native)) < Limit /\ native \in Seq(Activation)
      /\ th[me].nCcalls = Depth(native, Len(native))
  BY StateIs, Parts
<1>2. DeepIn(native, Len(native)) = {i \in DOMAIN native : native[i].k \in {"call", "resume", "level"}}
  <2>1. DOMAIN native = 1..Len(native)
    BY <1>1
  <2> QED BY <2>1 DEF DeepIn, DeepKinds
<1> QED BY <1>1, <1>2 DEF DepthCounted, Depth, Limit

(* ... of the chains and the handlers, StacksAgree ... *)
LEMMA AgreeHolds == IInv => StacksAgree
<1> SUFFICES ASSUME IInv PROVE StacksAgree
  OBVIOUS
<1> SUFFICES ASSUME NEW t \in Threads, Live(t)
             PROVE  /\ IF th[t].status = "yield" THEN Yielded(th[t].ci)
                       ELSE th[t].ci = FlattenSeq([i \in DOMAIN native |-> Own(native, t, i)])
                    /\ Frames(t, {"pcall"}) = {} => th[t].errfunc = "none"
  <2>1. \A u \in Threads : th[u].status = "yield" /\ Yielded(th[u].ci) => th[u].ci # <<>>
    BY DEF Yielded
  <2> QED BY <2>1 DEF StacksAgree, Own, Yielded, Last
<1>1. /\ Core(State) /\ State.th = th /\ State.native = native
      /\ native \in Seq(Activation) /\ Len(native) \in Nat \ {0} /\ th[t] \in Thread
  BY StateIs, Parts
<1>2. th[t].status \in {"ok", "yield"} /\ Placed(th[t], native, t) /\ DOMAIN native = 1..Len(native)
  BY <1>1 DEF Live, Thread, Core, Chained
<1>3. Frames(t, {"pcall"}) = {} => th[t].errfunc = "none"
  <2>1. ASSUME Frames(t, {"pcall"}) = {} PROVE ~Protected(native, t, Len(native))
    <3>1. \A x \in 2..Len(native) : x \in DOMAIN native
      BY <1>1, <1>2
    <3> QED BY <2>1, <3>1 DEF Frames, Protected
  <2> QED BY <1>1, <1>2, <2>1 DEF Core, Handlers
<1>4. CASE th[t].status = "yield"
  BY <1>2, <1>3, <1>4 DEF Placed
<1>5. CASE th[t].status = "ok"
  <2>1. th[t].ci = Chain(native, t, Len(native))
    BY <1>2, <1>5 DEF Placed
  <2>2. Chain(native, t, Len(native)) = FlattenSeq([i \in DOMAIN native |-> Own(native, t, i)])
    BY <1>1, <1>2 DEF Chain
  <2> QED BY <1>3, <1>5, <2>1, <2>2
<1> QED BY <1>2, <1>4, <1>5

(* ... and of the fates, StatusHonest. *)
LEMMA HonestHolds == IInv => StatusHonest
<1> SUFFICES ASSUME IInv, NEW co \in Coroutines, life[co] # "none"
             PROVE  costatus(me, co) =
                      CASE co = me -> "running"
                        [] co # me /\ Frames(co, {"resume"}) # {} -> "normal"
                        [] life[co] = "made" -> "suspended"
                        [] life[co] = "begun" /\ Frames(co, {"resume"}) = {} -> "suspended"
                        [] life[co] = "kept" -> "suspended"
                        [] OTHER -> "dead"
  BY DEF StatusHonest
<1>1. /\ Core(State) /\ State.th = th /\ State.native = native /\ Me(State) = me
      /\ co \in Threads /\ co # main /\ native \in Seq(Activation) /\ Len(native) \in Nat \ {0}
      /\ th[co] \in Thread /\ life[co] \in Fates /\ Fate(State, co, life[co])
  BY StateIs, Parts, LuaCallAssumption DEF Threads, IInv, Fated
<1>2. DOMAIN native = 1..Len(native)
  BY <1>1
<1>3. In(native, co) <=> Frames(co, {"resume"}) # {}
  <2>1. ASSUME In(native, co) PROVE Frames(co, {"resume"}) # {}
    <3>1. PICK i \in 1..Len(native) : native[i].t = co
      BY <2>1 DEF In
    <3>2. PICK r \in 2..i : native[r].k = "resume" /\ native[r].t = co
      BY <1>1, <3>1 DEF Core, Segments
    <3>3. r \in DOMAIN native
      BY <1>1, <1>2
    <3> QED BY <3>2, <3>3 DEF Frames
  <2>2. ASSUME Frames(co, {"resume"}) # {} PROVE In(native, co)
    BY <1>2, <2>2 DEF Frames, In
  <2> QED BY <2>1, <2>2
<1>4. costatus(me, co) =
        IF me = co THEN "running"
        ELSE IF th[co].status = "yield" THEN "suspended"
        ELSE IF th[co].status = "error" THEN "dead"
        ELSE IF th[co].ci # <<>> THEN "normal"
        ELSE IF th[co].top THEN "suspended" ELSE "dead"
  BY DEF costatus
<1>8. ASSUME In(native, co) PROVE life[co] = "begun"
  BY <1>1, <1>8 DEF Fate, Fates
<1>5. CASE co = me
  <2>1. In(native, co)
    BY <1>1, <1>5, Parts
  <2>2. life[co] = "begun" /\ Frames(co, {"resume"}) # {}
    BY <1>3, <1>8, <2>1
  <2> QED BY <1>4, <1>5, <2>2
<1>6. CASE co # me /\ In(native, co)
  <2>1. th[co].status = "ok" /\ th[co].ci # <<>>
    BY <1>1, <1>6, NormalChain
  <2>2. life[co] = "begun" /\ Frames(co, {"resume"}) # {} /\ th[co].status # "yield"
        /\ th[co].status # "error"
    BY <1>3, <1>6, <1>8, <2>1
  <2>3. costatus(me, co) = "normal"
    BY <1>4, <1>6, <2>1, <2>2
  <2> QED BY <1>6, <2>2, <2>3
<1>7. CASE co # me /\ ~In(native, co)
  <2>1. th[co].status = "ok" => th[co].ci = <<>>
    BY <1>7, Out
  <2>2. /\ life[co] \in {"made", "kept"} => th[co].status = "ok" /\ th[co].top
        /\ life[co] = "refused" => th[co].status = "ok" /\ ~th[co].top
        /\ life[co] = "over" => th[co].status = "error" \/ (th[co].status = "ok" /\ ~th[co].top)
        /\ life[co] = "begun" => th[co].status = "yield"
    BY <1>1, <1>7 DEF Fate
  <2>3. life[co] \in {"made", "refused", "over", "kept", "begun"}
    BY <1>1 DEF Fates
  <2>4. Frames(co, {"resume"}) = {}
    BY <1>3, <1>7
  <2>5. CASE life[co] \in {"made", "kept", "begun"}
    <3>1. costatus(me, co) = "suspended"
      BY <1>4, <1>7, <2>1, <2>2, <2>5
    <3> QED BY <1>7, <2>4, <2>5, <3>1
  <2>6. CASE life[co] \in {"refused", "over"}
    <3>1. costatus(me, co) = "dead"
      BY <1>4, <1>7, <2>1, <2>2, <2>6
    <3> QED BY <1>7, <2>4, <2>6, <3>1
  <2> QED BY <2>3, <2>5, <2>6
<1> QED BY <1>5, <1>6, <1>7

-----------------------------------------------------------------------------
(* The running thread's nCcalls is the number of activations of luaD_call, *)
(* lua_resume and the parser on the C stack, those of the threads that     *)
(* resumed it included, and it never reaches LUAI_MAXCCALLS + EXTRACCALLS: *)
(* luaD_pcall restores it after an error, and lua_resume takes it over.    *)
THEOREM DepthIsCounted == Spec => []DepthCounted
  BY Invariant, CountedHolds, PTL

(* The CallInfo chain of a live thread is the one its activations on the C *)
(* stack expect, after any errors, yields and resumes (luaD_pcall,         *)
(* lua_yield, lua_resume); a thread that has yielded has the chain that    *)
(* lua_resume can run with one luaV_execute; and the error function of a   *)
(* protected call does not outlive it.                                     *)
THEOREM StacksAlwaysAgree == Spec => []StacksAgree
  BY Invariant, AgreeHolds, PTL

(* coroutine.status (costatus), which asks a thread's status, its chain    *)
(* and its stack, answers what has become of the coroutine: running,       *)
(* waiting for one that it resumed, never begun or yielded, or over.       *)
THEOREM StatusIsHonest == Spec => []StatusHonest
  BY Invariant, HonestHolds, PTL
=============================================================================
