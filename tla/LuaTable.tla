------------------------------ MODULE LuaTable ------------------------------
(***************************************************************************)
(* The tables of the Lua interpreter (ltable.c): an array part for some of *)
(* the keys 1, 2, ... and a hash part in which a key that collides goes to *)
(* the next free node and is chained.  A program sets fields and goes      *)
(* through the table with next, while the collector marks the keys of      *)
(* empty fields as dead.                                                   *)
(***************************************************************************)
EXTENDS Integers, Sequences, SequencesExt, FiniteSets

CONSTANTS
  Numbers,        (* keys that are numbers                                 *)
  Objects,        (* keys that are collectable objects                     *)
  Hash,           (* of each key, before it is reduced to the nodes        *)
  MAX_INT

Nil   == -1
Keys  == Numbers \cup Objects
Vals  == {1}

VARIABLES
  t,              (* the table                                             *)
  fields,         (* what the program has put into it                      *)
  at,             (* where a traversal is, a key or one of these:          *)
  seen, must      (* what it has come by, and what it must come by         *)

Start == -1
End   == -2
Wrong == -3       (* "invalid key to 'next'"                               *)

tabvars == <<t, fields, at, seen, must>>

sizenode(h) == Cardinality(DOMAIN h.node)

(* hashmod for numbers, by an odd number, and hashpow2.                    *)
mainposition(h, k) ==
  IF k = 0 THEN 0
  ELSE IF k \in Numbers THEN Hash[k] % (IF sizenode(h) = 1 THEN 1 ELSE sizenode(h) - 1)
  ELSE Hash[k] % sizenode(h)

Chain(h, p) ==
  FoldLeft(LAMBDA c, i : IF h.node[Last(c)].next = Nil THEN c ELSE Append(c, h.node[Last(c)].next),
           <<p>>, [i \in 1..sizenode(h) - 1 |-> i])

(* The node with a key; next accepts a key that is dead, if dead is.       *)
NodeOf(h, k, dead) ==
  LET c == Chain(h, mainposition(h, k))
      i == SelectInSeq(c, LAMBDA n : h.node[n].key = k /\ (~h.node[n].dead \/ dead))
  IN IF i = 0 THEN Nil ELSE c[i]

InArray(h, k) == k \in Numbers /\ k \in 1..Len(h.array)

luaH_get(h, k) ==
  IF InArray(h, k) THEN h.array[k]
  ELSE LET n == NodeOf(h, k, FALSE) IN IF n = Nil THEN Nil ELSE h.node[n].val

-----------------------------------------------------------------------------
(* setnodevector: dummynode if there is nothing to hash.                   *)
Empty == [key |-> Nil, val |-> Nil, next |-> Nil, dead |-> FALSE]

ceillog2(n) == CHOOSE i \in 0..n : 2 ^ i >= n /\ \A j \in 0..i - 1 : 2 ^ j < n

NewNodes(h, size) ==
  LET nodes == IF size = 0 THEN 1 ELSE 2 ^ ceillog2(size)
  IN [h EXCEPT !.node = [n \in 0..nodes - 1 |-> Empty], !.lastfree = IF size = 0 THEN 0 ELSE nodes,
               !.dummy = (size = 0)]

(* lastfree only goes down; a dead key does not make a node free.          *)
getfreepos(h) ==
  LET free == { n \in 0..h.lastfree - 1 : h.node[n].key = Nil }
  IN IF free = {} THEN Nil ELSE CHOOSE n \in free : \A m \in free : m <= n

PutKey(h, n, k, v, next) == [h EXCEPT !.node[n] = [key |-> k, val |-> v, next |-> next, dead |-> FALSE]]

(* Faulty: the chain of the node that is moved is not redone.              *)
MovedOnly(h, n, mp, k, v) ==
  PutKey([h EXCEPT !.lastfree = n, !.node[n] = h.node[mp]], mp, k, v, Nil)

(* The node mp is moved to n, out of the way of key k.                     *)
MoveNode(h, n, mp, k, v) ==
  LET prev == CHOOSE m \in DOMAIN h.node : h.node[m].next = mp
                /\ m \in ToSet(Chain(h, mainposition(h, h.node[mp].key)))
  IN PutKey([h EXCEPT !.lastfree = n, !.node[n] = h.node[mp], !.node[prev].next = n], mp, k, v, Nil)

(* newkey and the assignment of the value; << >> if there is no free node. *)
newkey(h, k, v) ==
  LET mp == mainposition(h, k)
      n  == getfreepos(h)
  IN IF h.node[mp].val = Nil /\ ~h.dummy THEN << PutKey(h, mp, k, v, h.node[mp].next) >>
     ELSE IF h.dummy \/ n = Nil THEN << >>
     ELSE IF mainposition(h, h.node[mp].key) # mp THEN << MoveNode(h, n, mp, k, v) >>
     ELSE << PutKey([h EXCEPT !.lastfree = n, !.node[mp].next = n], n, k, v, h.node[mp].next) >>

SetHere(h, k, v) ==
  IF InArray(h, k) THEN << [h EXCEPT !.array[k] = v] >>
  ELSE IF NodeOf(h, k, FALSE) # Nil THEN << [h EXCEPT !.node[NodeOf(h, k, FALSE)].val = v] >>
  ELSE newkey(h, k, v)

-----------------------------------------------------------------------------
(* Rehash.                                                                 *)

(* numusearray, numusehash and countint: the integer keys in use.          *)
UsedNodes(h) == { n \in DOMAIN h.node : h.node[n].val # Nil }
Ints(h) == { i \in DOMAIN h.array : h.array[i] # Nil }
           \cup { h.node[n].key : n \in { m \in UsedNodes(h) : h.node[m].key \in Numbers \ {0} } }
nums(ints, i) == Cardinality({ k \in ints : ceillog2(k) = i })

(* The array's size and how many keys go into it, slice by slice.          *)
computesizes(ints) ==
  LET narray == Cardinality(ints)
      Slice(s, i) ==
        LET a == s.a + nums(ints, i)
        IN IF 2 ^ i \div 2 >= narray \/ s.a = narray THEN s
           ELSE IF nums(ints, i) > 0 /\ a > 2 ^ i \div 2 THEN [a |-> a, na |-> a, n |-> 2 ^ i]
           ELSE [s EXCEPT !.a = a]
  IN FoldLeft(Slice, [a |-> 0, na |-> 0, n |-> 0], [i \in 1..narray + 1 |-> i - 1])

(* The vanishing slice of the array, then the nodes from the last one on,  *)
(* are inserted again.                                                     *)
resize(h, nasize, nhsize) ==
  LET old   == Len(h.array)
      kept  == [i \in 1..nasize |-> IF i <= old THEN h.array[i] ELSE Nil]
      slice == IF nasize >= old THEN << >>
               ELSE [i \in 1..old - nasize |-> <<nasize + i, h.array[nasize + i]>>]
      nodes == [i \in 1..sizenode(h) |-> LET n == h.node[sizenode(h) - i] IN <<n.key, n.val>>]
      again == SelectSeq(slice \o nodes, LAMBDA p : p[2] # Nil)
  IN FoldLeft(LAMBDA s, p : IF s = << >> THEN s ELSE SetHere(s[1], p[1], p[2]),
              << NewNodes([h EXCEPT !.array = kept], nhsize) >>, again)

rehash(h, k) ==
  LET ints  == Ints(h) \cup (IF k \in Numbers \ {0} THEN {k} ELSE {})
      total == Cardinality({ i \in DOMAIN h.array : h.array[i] # Nil }) + Cardinality(UsedNodes(h)) + 1
      size  == computesizes(ints)
  IN resize(h, size.n, total - size.na)

(* luaH_set and the assignment.  After a rehash there is room for the key; *)
(* otherwise there would be << >>.                                         *)
luaH_set(h, k, v) ==
  IF SetHere(h, k, v) # << >> THEN SetHere(h, k, v)
  ELSE LET r == rehash(h, k) IN IF r = << >> THEN r ELSE SetHere(r[1], k, v)

(* luaH_new, with room for what a constructor has.                         *)
luaH_new(narray, nhash) ==
  NewNodes([array |-> [i \in 1..narray |-> Nil], node |-> << >>, lastfree |-> 0, dummy |-> TRUE], nhash)

-----------------------------------------------------------------------------
(* luaH_getn.                                                              *)

(* A number that was never a key has no node wherever it would be.         *)
present(h, i) == i \in Numbers /\ luaH_get(h, i) # Nil

(* Between i, which is 0 or present, and j, which is not.                  *)
BinarySearch(h, i0, j0) ==
  FoldLeft(LAMBDA p, n : LET m == (p[1] + p[2]) \div 2
                         IN IF p[2] - p[1] <= 1 THEN p ELSE IF present(h, m) THEN <<m, p[2]>> ELSE <<p[1], m>>,
           <<i0, j0>>, [n \in 1..j0 - i0 |-> n])[1]

unbound_search(h, j0) ==
  LET Double(p, n) == IF present(h, p[2]) THEN <<p[2], 2 * p[2]>> ELSE p
      stop == FoldLeft(Double, <<j0, j0 + 1>>, [n \in 1..Cardinality(Numbers) + 1 |-> n])
  IN IF stop[2] > MAX_INT THEN (CHOOSE i \in 1..Cardinality(Numbers) + 1 : ~present(h, i) /\ \A m \in 1..i - 1 : present(h, m)) - 1
     ELSE BinarySearch(h, stop[1], stop[2])

luaH_getn(h) ==
  LET j == Len(h.array)
  IN IF j > 0 /\ h.array[j] = Nil THEN BinarySearch(h, 0, j)
     ELSE IF h.dummy THEN j ELSE unbound_search(h, j)

-----------------------------------------------------------------------------
(* Faulty: a key that has died is not found again.                         *)
IndexAlive(h, k) ==
  IF k = Start THEN 0 ELSE IF InArray(h, k) THEN k
  ELSE LET n == NodeOf(h, k, FALSE) IN IF n = Nil THEN Wrong ELSE Len(h.array) + n + 1

(* luaH_next: array first, then the nodes, numbered on.                    *)
Index(h, k) ==
  IF k = Start THEN 0 ELSE IF InArray(h, k) THEN k
  ELSE LET n == NodeOf(h, k, TRUE) IN IF n = Nil THEN Wrong ELSE Len(h.array) + n + 1

luaH_next(h, k) ==
  LET size == Len(h.array)
      val(i)  == IF i <= size THEN h.array[i] ELSE h.node[i - size - 1].val
      rest == { i \in Index(h, k) + 1..size + sizenode(h) : val(i) # Nil }
      i    == CHOOSE i \in rest : \A j \in rest : i <= j
  IN IF Index(h, k) = Wrong THEN Wrong ELSE IF rest = {} THEN End
     ELSE IF i <= size THEN i ELSE h.node[i - size - 1].key

-----------------------------------------------------------------------------
TabInit ==
  /\ t \in { luaH_new(0, 0), luaH_new(3, 0) }
  /\ fields = [k \in Keys |-> Nil] /\ at = End /\ seen = {} /\ must = {}

(* luaV_settable, lua_rawset: nil too makes a field.  During a traversal   *)
(* only fields that are there may be set.                                  *)
SetField ==
  \E k \in Keys, v \in Vals \cup {Nil} :
    /\ at = End \/ fields[k] # Nil
    /\ t' = luaH_set(t, k, v)[1]
    /\ fields' = [fields EXCEPT ![k] = v]
    /\ must' = IF v = Nil THEN must \ {k} ELSE must
    /\ UNCHANGED <<at, seen>>

(* removeentry of lgc.c.                                                   *)
Mark ==
  /\ t' = [t EXCEPT !.node = [n \in DOMAIN @ |-> [@[n] EXCEPT !.dead = @ \/ (t.node[n].val = Nil /\ t.node[n].key \in Objects)]]]
  /\ UNCHANGED <<fields, at, seen, must>>

Traverse ==
  /\ at = End /\ at' = luaH_next(t, Start)
  /\ must' = { k \in Keys : fields[k] # Nil } \ {at'} /\ seen' = {at'} \cap Keys
  /\ UNCHANGED <<t, fields>>

Next ==
  /\ at \in Keys /\ at' = luaH_next(t, at)
  /\ seen' = (IF at' = End THEN {} ELSE seen \cup {at'}) /\ must' = must \ {at'}
  /\ UNCHANGED <<t, fields>>

TabNext == SetField \/ Mark \/ Traverse \/ Next

-----------------------------------------------------------------------------
(* The table is the function from keys to values that the program made it, *)
(* and its length is a border of it.                                       *)
IsTheMap == \A k \in Keys : luaH_get(t, k) = fields[k]

Border ==
  LET n == luaH_getn(t)
  IN (n = 0 \/ (n \in Numbers /\ fields[n] # Nil)) /\ (n + 1 \in Numbers => fields[n + 1] = Nil)

(* The array is the largest of those sizes that are powers of two of which *)
(* more than half is in use, as computesizes asks ("more than half elements*)
(* present?"; the comment on top of ltable.c says "at least half", and is  *)
(* wrong about tables of which just half is), and what does not go there   *)
(* has room.                                                               *)
SizedWell ==
  \A k \in Keys : fields[k] = Nil =>
    LET ints == Ints(t) \cup (IF k \in Numbers \ {0} THEN {k} ELSE {})
        good == { n \in {1, 2, 4, 8} : 2 * Cardinality(ints \cap 1..n) > n }
        size == computesizes(ints)
    IN /\ size.n = (IF good = {} THEN 0 ELSE CHOOSE n \in good : \A m \in good : m <= n)
       /\ rehash(t, k) # << >> /\ luaH_set(t, k, 1) # << >>

(* A traversal comes by every field that stays there, by none twice, and   *)
(* by none that is not there, though fields are cleared meanwhile.         *)
VisitsOnce ==
  [][ /\ at' = End => must' = {}
      /\ at' \notin {at, End} => at' \notin seen /\ at' # Wrong /\ fields[at'] # Nil ]_tabvars
=============================================================================
