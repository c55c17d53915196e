------------------------------- MODULE Stdlib -------------------------------
(***************************************************************************)
(* stdio.c: the functions of the C library that Canon's firmware lacks.    *)
(* A string is the sequence of its character codes, without the final 0.   *)
(***************************************************************************)
EXTENDS Integers, Sequences, SequencesExt, FiniteSets

CONSTANT ULONG_MAX          (* 2^32 - 1 on the camera                       *)

StdlibAssumption == ULONG_MAX \in Nat /\ ULONG_MAX % 2 = 1 /\ ULONG_MAX > 36

LONG_MAX == ULONG_MAX \div 2
LONG_MIN == -LONG_MAX - 1

At(str, i) == IF i \in DOMAIN str THEN str[i] ELSE 0

ISSPACE == {32, 9, 13, 10}

(* 0x20 | c *)
Lower(c) == IF (c \div 32) % 2 = 1 THEN c ELSE c + 32

(* What strto_l takes a character for: a bad one is worth 40, or more.     *)
Digit(c) == IF c \in 48..57 THEN c - 48
            ELSE IF Lower(c) >= 97 THEN Lower(c) - 87 ELSE 40

-----------------------------------------------------------------------------

(* One more digit; or ULONG_MAX, which no digit fits behind, and for an    *)
(* unsigned result no sign.                                                *)
Push(t, digit, base, sflag) ==
  IF \/ t.number > ULONG_MAX \div base
     \/ t.number = ULONG_MAX \div base /\ digit > ULONG_MAX % base
    THEN [number |-> ULONG_MAX, negative |-> t.negative /\ sflag]
    ELSE [t EXCEPT !.number = @ * base + digit]

(* The first place from i on that does not satisfy the test.               *)
Skip(str, i, chars) ==
  CHOOSE j \in i..Len(str) + 1 : At(str, j) \notin chars /\ \A k \in i..j - 1 : str[k] \in chars

(* The base and where the digits begin.  A base of 0 is found from the     *)
(* prefix; a base of 16 may have one.                                      *)
Prefix(str, i, base) ==
  IF base \notin {0, 16} THEN <<base, i>>
  ELSE IF At(str, i) # 48 THEN <<IF base = 0 THEN 10 ELSE 16, i>>
  ELSE IF Lower(At(str, i + 1)) = 120 THEN <<16, i + 2>>
  ELSE <<IF base = 0 THEN 8 ELSE 16, i + 1>>

(* sflag is set for signed results, which are clipped.                    *)
strto_l(str, base0, sflag) ==
  LET start  == Skip(str, 1, ISSPACE)
      prefix == Prefix(str, IF At(str, start) \in {43, 45} THEN start + 1 ELSE start, base0)
      base   == prefix[1]
      end    == Skip(str, prefix[2], { c \in 1..255 : Digit(c) < base })
      digits == IF base \in 2..36 THEN SubSeq(str, prefix[2], end - 1) ELSE <<>>
      read   == FoldLeft(LAMBDA t, c : Push(t, Digit(c), base, sflag),
                         [number |-> 0, negative |-> At(str, start) = 45], digits)
      limit  == IF read.negative THEN -LONG_MIN ELSE LONG_MAX
      value  == IF sflag /\ read.number > limit THEN limit ELSE read.number
  IN IF ~read.negative THEN value
     ELSE IF sflag THEN -value ELSE (-value) % (ULONG_MAX + 1)

strtol(str, base)  == strto_l(str, base, TRUE)
strtoul(str, base) == strto_l(str, base, FALSE)

(* streq goes along both strings as long as neither has ended.             *)
streq(a, b) ==
  LET n == CHOOSE n \in 1..Len(a) + 1 :
             /\ At(a, n) = 0 \/ At(b, n) = 0 \/ At(a, n) # At(b, n)
             /\ \A k \in 1..n - 1 : At(a, k) # 0 /\ At(b, k) # 0 /\ At(a, k) = At(b, k)
  IN At(a, n) = At(b, n)

-----------------------------------------------------------------------------
(* realloc over DryOS' malloc.  A block is its words, before which malloc  *)
(* keeps its size in bytes; a block that is not found in heap is free.     *)

NULL == 0

(* Without a buffer it is malloc, without a size free.  A block that is    *)
(* large enough stays; another is copied and, free() being commented out,  *)
(* not freed.  A size that is no number of words is taken for a block of   *)
(* someone else's.                                                         *)
realloc(heap, buf, new_size, new) ==
  LET size    == heap[buf].size
      fresh   == [size |-> new_size, words |-> [i \in 0..(new_size - 1) \div 4 |-> "junk"]]
      copied  == [fresh EXCEPT !.words = [i \in DOMAIN @ |-> IF i < size \div 4 THEN heap[buf].words[i] ELSE @[i]]]
  IN CASE buf = NULL -> IF new = NULL THEN <<NULL, heap>> ELSE <<new, heap @@ (new :> fresh)>>
       [] buf # NULL /\ new_size = 0 -> <<NULL, [b \in DOMAIN heap \ {buf} |-> heap[b]]>>
       [] buf # NULL /\ new_size # 0 /\ size % 4 # 0 -> <<NULL, heap>>
       [] buf # NULL /\ new_size # 0 /\ size % 4 = 0 /\ new_size < size -> <<buf, heap>>
       [] OTHER -> IF new = NULL THEN <<NULL, heap>> ELSE <<new, heap @@ (new :> copied)>>

-----------------------------------------------------------------------------
(* What C says of strtol and strtoul, from the exact value of the digits.  *)
Exact(digits, base) ==
  FoldLeft(LAMBDA t, n : t + Digit(digits[n]) * base ^ (Len(digits) - n), 0, [n \in DOMAIN digits |-> n])

Clamp(v, low, high) == IF v < low THEN low ELSE IF v > high THEN high ELSE v

(* The text before the digits: white space, sign, prefix.                  *)
Before(base) ==
  LET prefixes == IF base = 16 THEN {<<>>, <<48, 120>>, <<48, 88>>} ELSE {<<>>}
  IN { w \o s \o p : w \in {<<>>, <<32>>, <<9, 32>>}, s \in {<<>>, <<43>>, <<45>>}, p \in prefixes }

ReadsNumber(before, digits, rest, base) ==
  LET v    == Exact(digits, base)
      sign == IF \E i \in DOMAIN before : before[i] = 45 THEN -1 ELSE 1
      str  == before \o digits \o rest
      hex  == base = 16 /\ 48 \in ToSet(before)
      zero == digits # <<>> /\ digits[1] = 48
      said == IF hex \/ (base = 8 /\ zero) \/ (base = 10 /\ ~zero) THEN {0, base} ELSE {base}
  IN \A b \in said :
       /\ strtol(str, b) = Clamp(sign * v, LONG_MIN, LONG_MAX)
       /\ strtoul(str, b) = IF v > ULONG_MAX THEN ULONG_MAX ELSE (sign * v) % (ULONG_MAX + 1)

(* realloc never loses words that fit, and never touches another block.    *)
ReallocKeeps(heap, buf, new_size, new) ==
  LET r == realloc(heap, buf, new_size, new)
  IN /\ \A b \in DOMAIN heap \ {buf} : b \in DOMAIN r[2] /\ r[2][b] = heap[b]
     /\ r[1] # NULL /\ buf # NULL =>
          \A i \in DOMAIN heap[buf].words :
             4 * (i + 1) <= heap[buf].size /\ 4 * (i + 1) <= new_size => r[2][r[1]].words[i] = heap[buf].words[i]
     /\ r[1] = NULL /\ new_size # 0 => r[2] = heap
=============================================================================
