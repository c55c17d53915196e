----------------------------- MODULE LuaPattern -----------------------------
(***************************************************************************)
(* Strings and patterns of lstrlib.c: the backtracking matcher, find,      *)
(* match, gmatch and gsub, sub and byte.  The reference is at the end: a   *)
(* pattern is a sequence of items, a match a way through them, and the one *)
(* to be found is the first in the order of preference.                    *)
(*                                                                         *)
(* A character is its code; positions count from 1, and what is beyond the *)
(* end of a string is its '\0'.                                            *)
(***************************************************************************)
EXTENDS Integers, Sequences, FiniteSets, SequencesExt

LOCAL F == INSTANCE FiniteSetsExt

LUA_MAXCAPTURES == 32
CAP_UNFINISHED  == -1
CAP_POSITION    == -2

NUL == 0
L_ESC == 37
Open == 40
Close == 41
Dot == 46
Dollar == 36
Caret == 94
Query == 63
Star == 42
Plus == 43
Minus == 45
LBracket == 91
RBracket == 93
SPECIALS == {Caret, Dollar, Star, Plus, Query, Dot, Open, LBracket, L_ESC, Minus}

Char(x, i) == IF i \in 1..Len(x) THEN x[i] ELSE NUL

(* What a C function that takes a MatchState returns: a position, NULL, or *)
(* the error it raises, and the state it leaves behind.                    *)
NULL  == 0
ERROR == -1
At(end, ms) == [end |-> end, ms |-> ms]

-----------------------------------------------------------------------------
(* Classes *)

islower(c) == c \in 97..122
isupper(c) == c \in 65..90
isdigit(c) == c \in 48..57
isalpha(c) == islower(c) \/ isupper(c)
isspace(c) == c \in {32} \cup 9..13
iscntrl(c) == c \in 0..31 \cup {127}
ispunct(c) == c \in 33..126 /\ ~isalpha(c) /\ ~isdigit(c)
tolower(c) == IF isupper(c) THEN c + 32 ELSE c

(* The classes are letters: a, c, d, l, p, s, u, w, x, z. *)
ClassOf(cl) ==
  {c \in 0..127 :
     CASE cl = 97  -> isalpha(c)   [] cl = 99  -> iscntrl(c) [] cl = 100 -> isdigit(c)
       [] cl = 108 -> islower(c)   [] cl = 112 -> ispunct(c) [] cl = 115 -> isspace(c)
       [] cl = 117 -> isupper(c)   [] cl = 119 -> isalpha(c) \/ isdigit(c)
       [] cl = 120 -> isdigit(c) \/ c \in 97..102 \cup 65..70
       [] cl = 122 -> c = NUL}
ClassLetters == {97, 99, 100, 108, 112, 115, 117, 119, 120, 122}

match_class(c, cl) ==
  IF tolower(cl) \in ClassLetters THEN islower(cl) <=> c \in ClassOf(tolower(cl)) ELSE cl = c

(* The scan for the end of a set, one turn of the loop at a time.          *)
RECURSIVE SetEnd(_, _)
SetEnd(pat, p) ==
  IF Char(pat, p) = NUL THEN ERROR
  ELSE LET q == IF Char(pat, p) = L_ESC /\ Char(pat, p + 1) # NUL THEN p + 2 ELSE p + 1
       IN IF Char(pat, q) = RBracket THEN q + 1 ELSE SetEnd(pat, q)

classend(pat, p) ==
  CASE Char(pat, p) = L_ESC    -> IF Char(pat, p + 1) = NUL THEN ERROR ELSE p + 2
    [] Char(pat, p) = LBracket -> SetEnd(pat, IF Char(pat, p + 1) = Caret THEN p + 2 ELSE p + 1)
    [] OTHER -> p + 1

(* The members of the set from p on, up to its end ec: is c one of them?   *)
RECURSIVE InSet(_, _, _, _)
InSet(c, pat, p, ec) ==
  /\ p < ec
  /\ IF Char(pat, p) = L_ESC
     THEN match_class(c, Char(pat, p + 1)) \/ InSet(c, pat, p + 2, ec)
     ELSE IF Char(pat, p + 1) = Minus /\ p + 2 < ec
     THEN c \in Char(pat, p)..Char(pat, p + 2) \/ InSet(c, pat, p + 3, ec)
     ELSE Char(pat, p) = c \/ InSet(c, pat, p + 1, ec)

matchbracketclass(c, pat, p, ec) ==
  IF Char(pat, p + 1) = Caret THEN ~InSet(c, pat, p + 2, ec) ELSE InSet(c, pat, p + 1, ec)

singlematch(c, pat, p, ep) ==
  CASE Char(pat, p) = Dot      -> TRUE
    [] Char(pat, p) = L_ESC    -> match_class(c, Char(pat, p + 1))
    [] Char(pat, p) = LBracket -> matchbracketclass(c, pat, p, ep - 1)
    [] OTHER -> Char(pat, p) = c

-----------------------------------------------------------------------------
(* The matcher.  ms holds the source, the pattern, and the captures up to  *)
(* ms->level.                                                              *)

src_end(ms) == Len(ms.src) + 1

check_capture(ms, c) ==
  LET l == c - 48 IN IF l \in 1..Len(ms.capture) /\ ms.capture[l].len # CAP_UNFINISHED THEN l ELSE ERROR

capture_to_close(ms) ==
  LET open == {l \in 1..Len(ms.capture) : ms.capture[l].len = CAP_UNFINISHED}
  IN IF open = {} THEN ERROR ELSE F!Max(open)

RECURSIVE Balance(_, _, _, _, _)
Balance(ms, s, b, e, cont) ==
  IF s >= src_end(ms) THEN NULL
  ELSE IF ms.src[s] = e THEN (IF cont = 1 THEN s + 1 ELSE Balance(ms, s + 1, b, e, cont - 1))
  ELSE Balance(ms, s + 1, b, e, IF ms.src[s] = b THEN cont + 1 ELSE cont)

matchbalance(ms, s, p) ==
  IF Char(ms.pat, p) = NUL \/ Char(ms.pat, p + 1) = NUL THEN ERROR
  ELSE IF Char(ms.src, s) # ms.pat[p] THEN NULL
  ELSE Balance(ms, s + 1, ms.pat[p], ms.pat[p + 1], 1)

(* The length of a position capture is, unsigned, longer than any source.  *)
match_capture(ms, s, c) ==
  LET l == check_capture(ms, c)
      cap == ms.capture[l]
      text(from) == SubSeq(ms.src, from, from + cap.len - 1)
  IN IF l = ERROR THEN ERROR
     ELSE IF cap.len # CAP_POSITION /\ src_end(ms) - s >= cap.len /\ text(cap.init) = text(s)
     THEN s + cap.len ELSE NULL

RECURSIVE match(_, _, _), max_expand(_, _, _, _, _), min_expand(_, _, _, _)

(* From the i repetitions that were found down to none. *)
max_expand(ms, s, p, ep, i) ==
  LET r == match(ms, s + i, ep + 1)
  IN IF r.end # NULL \/ i = 0 THEN r ELSE max_expand(r.ms, s, p, ep, i - 1)

Expand(ms, s, p, ep) ==
  LET stops == {i \in s..src_end(ms) :
                  i = src_end(ms) \/ ~singlematch(ms.src[i], ms.pat, p, ep)}
  IN max_expand(ms, s, p, ep, F!Min(stops) - s)

min_expand(ms, s, p, ep) ==
  LET r == match(ms, s, ep + 1)
  IN IF r.end # NULL \/ s >= src_end(ms) \/ ~singlematch(Char(ms.src, s), ms.pat, p, ep) THEN r
     ELSE min_expand(r.ms, s + 1, p, ep)

start_capture(ms, s, p, what) ==
  IF Len(ms.capture) >= LUA_MAXCAPTURES THEN At(ERROR, ms)
  ELSE LET r == match([ms EXCEPT !.capture = Append(@, [init |-> s, len |-> what])], s, p)
       IN IF r.end = NULL THEN [r EXCEPT !.ms.capture = Front(@)] ELSE r

end_capture(ms, s, p) ==
  LET l == capture_to_close(ms)
      r == match([ms EXCEPT !.capture[l].len = s - ms.capture[l].init], s, p)
  IN IF l = ERROR THEN At(ERROR, ms)
     ELSE IF r.end = NULL THEN [r EXCEPT !.ms.capture[l].len = CAP_UNFINISHED] ELSE r

(* One item of the pattern and what follows its repetitions. *)
Item(ms, s, p) ==
  LET ep == classend(ms.pat, p)
      m  == s < src_end(ms) /\ singlematch(ms.src[s], ms.pat, p, ep)
      rep == Char(ms.pat, ep)
      once == match(ms, s + 1, ep + 1)
  IN CASE ep = ERROR  -> At(ERROR, ms)
       [] rep = Query -> IF ~m THEN match(ms, s, ep + 1)
                         ELSE IF once.end # NULL THEN once ELSE match(once.ms, s, ep + 1)
       [] rep = Star  -> Expand(ms, s, p, ep)
       [] rep = Plus  -> IF m THEN Expand(ms, s + 1, p, ep) ELSE At(NULL, ms)
       [] rep = Minus -> min_expand(ms, s, p, ep)
       [] OTHER       -> IF m THEN match(ms, s + 1, ep) ELSE At(NULL, ms)

Frontier(ms, s, p) ==
  LET ep == classend(ms.pat, p)
      In(c) == matchbracketclass(c, ms.pat, p, ep - 1)
  IN IF Char(ms.pat, p) # LBracket \/ ep = ERROR THEN At(ERROR, ms)
     ELSE IF In(Char(ms.src, s - 1)) \/ ~In(Char(ms.src, s)) THEN At(NULL, ms)
     ELSE match(ms, s, ep)

(* After %b, %f and %1 the pattern goes on from p. *)
Then(ms, s, p) == IF s \in {NULL, ERROR} THEN At(s, ms) ELSE match(ms, s, p)

match(ms, s, p) ==
  LET c == Char(ms.pat, p)
      d == Char(ms.pat, p + 1)
  IN CASE c = Open  -> IF d = Close THEN start_capture(ms, s, p + 2, CAP_POSITION)
                       ELSE start_capture(ms, s, p + 1, CAP_UNFINISHED)
       [] c = Close -> end_capture(ms, s, p + 1)
       [] c = L_ESC /\ d = 98   -> Then(ms, matchbalance(ms, s, p + 2), p + 4)
       [] c = L_ESC /\ d = 102  -> Frontier(ms, s, p + 2)
       [] c = L_ESC /\ isdigit(d) -> Then(ms, match_capture(ms, s, d), p + 2)
       [] c = NUL -> At(s, ms)
       [] c = Dollar /\ d = NUL -> At(IF s = src_end(ms) THEN s ELSE NULL, ms)
       [] OTHER -> Item(ms, s, p)

-----------------------------------------------------------------------------
(* string.sub, string.byte, string.find, string.match, string.gmatch and   *)
(* string.gsub.  Results are sequences: of characters, or of one number.   *)

posrelat(pos, len) == F!Max({0, IF pos < 0 THEN pos + len + 1 ELSE pos})

str_sub(s, start, end) ==
  SubSeq(s, F!Max({1, posrelat(start, Len(s))}), F!Min({Len(s), posrelat(end, Len(s))}))

str_byte(s, posi, pose) ==
  LET from == F!Max({1, posrelat(posi, Len(s))})
      to   == F!Min({Len(s), posrelat(pose, Len(s))})
  IN [i \in 1..F!Max({0, to - from + 1}) |-> s[from + i - 1]]

(* memchr for the first character, memcmp for the rest. *)
lmemfind(s, init, p) ==
  LET hits == {i \in init..(Len(s) - Len(p) + 1) : s[i] = p[1] /\ SubSeq(s, i, i + Len(p) - 1) = p}
  IN IF p = <<>> THEN init ELSE IF hits = {} THEN NULL ELSE F!Min(hits)

(* i = 1 with no captures stands for the whole match, from s to e. *)
push_onecapture(ms, i, s, e) ==
  IF i > Len(ms.capture) THEN (IF i = 1 THEN SubSeq(ms.src, s, e - 1) ELSE << ERROR >>)
  ELSE LET cap == ms.capture[i]
       IN CASE cap.len = CAP_UNFINISHED -> << ERROR >>
            [] cap.len = CAP_POSITION   -> << cap.init >>
            [] OTHER -> SubSeq(ms.src, cap.init, cap.init + cap.len - 1)

push_captures(ms, whole, s, e) ==
  [i \in 1..(IF Len(ms.capture) = 0 /\ whole THEN 1 ELSE Len(ms.capture)) |-> push_onecapture(ms, i, s, e)]

Anchored(p) == Char(p, 1) = Caret
State(s, p) == [src |-> s, pat |-> p, capture |-> <<>>]

(* The first match at s1 or after it, with where it begins. *)
RECURSIVE Scan(_, _, _, _)
Scan(ms, s1, p, anchor) ==
  LET r == match([ms EXCEPT !.capture = <<>>], s1, p)
  IN IF r.end # NULL \/ s1 >= src_end(ms) \/ anchor THEN [from |-> s1, r |-> r]
     ELSE Scan(r.ms, s1 + 1, p, anchor)

str_find_aux(find, s, p, start) ==
  LET init == F!Min({F!Max({posrelat(start, Len(s)), 1}), Len(s) + 1})
      hit  == Scan(State(s, p), init, IF Anchored(p) THEN 2 ELSE 1, Anchored(p))
      s2   == lmemfind(s, init, p)
  IN IF find /\ ToSet(p) \cap SPECIALS = {}
     THEN (IF s2 = NULL THEN <<>> ELSE << << s2 >>, << s2 + Len(p) - 1 >> >>)
     ELSE CASE hit.r.end = NULL  -> <<>>
            [] hit.r.end = ERROR -> << << ERROR >> >>
            [] find  -> << << hit.from >>, << hit.r.end - 1 >> >> \o push_captures(hit.r.ms, FALSE, 0, 0)
            [] OTHER -> push_captures(hit.r.ms, TRUE, hit.from, hit.r.end)

(* One call of the iterator of string.gmatch; then all of them, each with  *)
(* the position it goes on from.                                           *)
gmatch_aux(s, p, start) == Scan(State(s, p), start, 1, FALSE)

RECURSIVE gmatch(_, _, _)
gmatch(s, p, start) ==
  LET hit == gmatch_aux(s, p, start)
      e   == hit.r.end
  IN IF start > Len(s) + 1 \/ e = NULL THEN <<>>
     ELSE IF e = ERROR THEN << << << ERROR >> >> >>
     ELSE << push_captures(hit.r.ms, TRUE, hit.from, e) >> \o gmatch(s, p, IF e = hit.from THEN e + 1 ELSE e)

(* A position becomes text as the number it is.                            *)
RECURSIVE Decimal(_)
Decimal(n) == (IF n < 10 THEN <<>> ELSE Decimal(n \div 10)) \o << 48 + (n % 10) >>

AddCapture(ms, i, s, e) ==
  LET v == push_onecapture(ms, i, s, e)
  IN IF i <= Len(ms.capture) /\ ms.capture[i].len = CAP_POSITION THEN Decimal(v[1]) ELSE v

(* The replacement string from i on, for the match from s to e. *)
RECURSIVE add_s(_, _, _, _, _)
add_s(ms, news, i, s, e) ==
  LET c == Char(news, i + 1)
  IN IF i > Len(news) THEN <<>>
     ELSE IF news[i] # L_ESC THEN << news[i] >> \o add_s(ms, news, i + 1, s, e)
     ELSE (CASE ~isdigit(c) -> << c >>
             [] c = 48      -> SubSeq(ms.src, s, e - 1)
             [] OTHER       -> AddCapture(ms, c - 48, s, e)) \o add_s(ms, news, i + 2, s, e)

(* string.gsub from src on, with left replacements to go: the result and   *)
(* the number of replacements.                                             *)
RECURSIVE Gsub(_, _, _, _, _)
Gsub(ms, src, p, news, left) ==
  LET r     == match([ms EXCEPT !.capture = <<>>], src, IF Anchored(p) THEN 2 ELSE 1)
      hit   == r.end # NULL
      moved == hit /\ r.end > src
      next  == IF moved THEN r.end ELSE F!Min({src + 1, src_end(ms)})
      added == (IF hit THEN add_s(r.ms, news, 1, src, r.end) ELSE <<>>)
               \o (IF moved THEN <<>> ELSE SubSeq(ms.src, src, next - 1))
      tail(from) == [text |-> SubSeq(ms.src, from, Len(ms.src)), n |-> 0]
      rest  == IF Anchored(p) \/ (~moved /\ src = next) THEN tail(next)
               ELSE Gsub(r.ms, next, p, news, IF hit THEN left - 1 ELSE left)
  IN IF left = 0 THEN tail(src)
     ELSE IF r.end = ERROR \/ ERROR \in ToSet(added) \/ rest.n = ERROR THEN [text |-> <<>>, n |-> ERROR]
     ELSE [text |-> added \o rest.text, n |-> rest.n + (IF hit THEN 1 ELSE 0)]

str_gsub(s, p, news, max_s) == Gsub(State(s, p), 1, p, news, max_s)

-----------------------------------------------------------------------------
(* Reference: a pattern as a sequence of items.  An item of one character  *)
(* has the set of its characters and perhaps a repetition; the others are  *)
(* one way on from where they stand, or none.                              *)

Complement(S) == (0..127) \ S
Class(cl) == IF isupper(cl) /\ tolower(cl) \in ClassLetters THEN Complement(ClassOf(tolower(cl)))
             ELSE IF cl \in ClassLetters THEN ClassOf(cl) ELSE {cl}

(* The elements of a set, from i up to its bracket at q. *)
RECURSIVE Elements(_, _, _)
Elements(pat, i, q) ==
  CASE i = q -> {}
    [] i < q /\ pat[i] = L_ESC -> Class(pat[i + 1]) \cup Elements(pat, i + 2, q)
    [] i + 2 < q /\ pat[i] # L_ESC /\ pat[i + 1] = Minus -> pat[i]..pat[i + 2] \cup Elements(pat, i + 3, q)
    [] OTHER -> {pat[i]} \cup Elements(pat, i + 1, q)

(* The bracket that closes a set: the first that is neither the first      *)
(* element nor escaped.                                                    *)
Escaped(pat, from, q) ==
  \E n \in 1..(q - from) :
    n % 2 = 1 /\ (\A i \in (q - n)..(q - 1) : pat[i] = L_ESC) /\ (q - n = from \/ pat[q - n - 1] # L_ESC)
Closing(pat, from) ==
  {q \in from + 1..Len(pat) : pat[q] = RBracket /\ ~Escaped(pat, from, q)}

From(pat, p)   == IF Char(pat, p + 1) = Caret THEN p + 2 ELSE p + 1
IsSet(pat, p)  == Char(pat, p) = LBracket /\ Closing(pat, From(pat, p)) # {}
EndOf(pat, p)  == F!Min(Closing(pat, From(pat, p)))
SetAt(pat, p)  ==
  LET S == Elements(pat, From(pat, p), EndOf(pat, p))
  IN IF Char(pat, p + 1) = Caret THEN Complement(S) ELSE S

RECURSIVE Items(_, _)
Items(pat, p) ==
  LET c == Char(pat, p)
      d == Char(pat, p + 1)
      Plain(item, next) == << item >> \o Items(pat, next)
      One(S, next) ==
        LET rep == Char(pat, next) \in {Query, Star, Plus, Minus}
        IN Plain([kind |-> "one", set |-> S, rep |-> IF rep THEN pat[next] ELSE NUL],
                 IF rep THEN next + 1 ELSE next)
      Bad == << [kind |-> "bad"] >>
  IN CASE p > Len(pat)          -> <<>>
       [] c = Open /\ d = Close -> Plain([kind |-> "position"], p + 2)
       [] c = Open              -> Plain([kind |-> "open"], p + 1)
       [] c = Close             -> Plain([kind |-> "close"], p + 1)
       [] c = Dollar /\ d = NUL -> Plain([kind |-> "end"], p + 1)
       [] c = Dot               -> One(0..127, p + 1)
       [] c = LBracket          -> IF IsSet(pat, p) THEN One(SetAt(pat, p), EndOf(pat, p) + 1) ELSE Bad
       [] c = L_ESC /\ d = NUL  -> Bad
       [] c = L_ESC /\ d = 98   -> IF p + 3 > Len(pat) THEN Bad
                                   ELSE Plain([kind |-> "balance", b |-> pat[p + 2], e |-> pat[p + 3]], p + 4)
       [] c = L_ESC /\ d = 102  -> IF IsSet(pat, p + 2)
                                   THEN Plain([kind |-> "frontier", set |-> SetAt(pat, p + 2)], EndOf(pat, p + 2) + 1)
                                   ELSE Bad
       [] c = L_ESC /\ isdigit(d) -> Plain([kind |-> "back", l |-> d - 48], p + 2)
       [] c = L_ESC             -> One(Class(d), p + 2)
       [] OTHER                 -> One({c}, p + 1)

(* The items that begin a capture, in their order; where one ends.         *)
Captures(items) == SelectSeq([i \in DOMAIN items |-> i], LAMBDA i : items[i].kind \in {"open", "position"})
Number(items, kind, i, j) == Cardinality({n \in i..j : items[n].kind = kind})
Closers(items, i) == {j \in i..Len(items) : Number(items, "open", i, j) = Number(items, "close", i, j)}
CloseOf(items, i) == F!Min(Closers(items, i))

WellFormed(items) ==
  \A i \in DOMAIN items :
    /\ items[i].kind # "bad"
    /\ items[i].kind = "open" => Closers(items, i) # {}
    /\ items[i].kind = "close" => Number(items, "close", 1, i) <= Number(items, "open", 1, i)
    /\ items[i].kind = "back" =>
         /\ items[i].l \in DOMAIN Captures(items)
         /\ LET c == Captures(items)[items[i].l]
            IN c < i /\ (items[c].kind = "open" => CloseOf(items, c) < i)

(* A way through the items: the position before each and after the last.   *)
Captured(items, way, src, l) ==
  LET i == Captures(items)[l]
  IN IF items[i].kind = "position" THEN << way[i] >>
     ELSE SubSeq(src, way[i], way[CloseOf(items, i)] - 1)

(* How many more of the one character than of the other there are.         *)
Depth(src, s, e, it) ==
  1 + Cardinality({i \in s + 1..e : src[i] = it.b /\ it.b # it.e}) - Cardinality({i \in s + 1..e : src[i] = it.e})

Onwards(items, src, way) ==
  LET it == items[Len(way)]
      s  == Last(way)
      end == Len(src) + 1
      run == {e \in s..end : \A i \in s..(e - 1) : src[i] \in it.set}
      closed == {e \in s + 1..Len(src) : Depth(src, s, e, it) = 0}
      text == Captured(items, way, src, it.l)
  IN CASE it.kind = "one" ->
            CASE it.rep = NUL   -> {s + 1} \cap run
              [] it.rep = Query -> {s, s + 1} \cap run
              [] it.rep = Plus  -> run \ {s}
              [] OTHER          -> run
       [] it.kind = "balance" -> IF Char(src, s) = it.b /\ closed # {} THEN {F!Min(closed) + 1} ELSE {}
       [] it.kind = "frontier" -> IF Char(src, s - 1) \notin it.set /\ Char(src, s) \in it.set THEN {s} ELSE {}
       [] it.kind = "back" ->
            IF items[Captures(items)[it.l]].kind = "open" /\ SubSeq(src, s, F!Min({end, s + Len(text)}) - 1) = text
            THEN {s + Len(text)} ELSE {}
       [] it.kind = "end" -> {s} \cap {end}
       [] OTHER -> {s}

Ways(items, src, s) ==
  LET RECURSIVE Through(_, _)
      Through(ways, i) ==
        IF i > Len(items) THEN ways
        ELSE Through(UNION { {Append(w, e) : e \in Onwards(items, src, w)} : w \in ways }, i + 1)
  IN Through({<< s >>}, 1)

(* Repetitions are as long as can be, from the left; those of - as short.  *)
Preferred(items, v, w) ==
  LET i == F!Min({n \in DOMAIN v : v[n] # w[n]})
  IN IF items[i - 1].kind = "one" /\ items[i - 1].rep = Minus THEN v[i] < w[i] ELSE v[i] > w[i]
Best(items, ways) == CHOOSE v \in ways : \A w \in ways \ {v} : Preferred(items, v, w)

(* string.match and string.find give the captures and the place of the     *)
(* preferred match, from the first position where there is one.            *)
FindsTheFirst(pat, srcs) ==
  LET items == Items(pat, IF Anchored(pat) THEN 2 ELSE 1)
      Starts(src, init) ==
        {s \in IF Anchored(pat) THEN {init} ELSE init..(Len(src) + 1) : Ways(items, src, s) # {}}
      Caps(src, way) == [l \in DOMAIN Captures(items) |-> Captured(items, way, src, l)]
  IN WellFormed(items) =>
       \A src \in srcs : \A init \in 1..F!Min({2, Len(src) + 1}) :
         LET starts == Starts(src, init)
             way  == Best(items, Ways(items, src, F!Min(starts)))
             caps == Caps(src, way)
             found   == str_find_aux(TRUE, src, pat, init)
             matched == str_find_aux(FALSE, src, pat, init)
         IN IF starts = {} THEN found = <<>> /\ matched = <<>>
            ELSE /\ found = << << way[1] >>, << Last(way) - 1 >> >> \o caps
                 /\ matched = IF caps = <<>> THEN << SubSeq(src, way[1], Last(way) - 1) >> ELSE caps

(* string.gsub finds what string.gmatch finds, up to the limit, and puts   *)
(* back what is not replaced.                                              *)
SubstitutesEach(pat, srcs) ==
  WellFormed(Items(pat, 1)) /\ ~Anchored(pat) =>
    \A src \in srcs : \A max_s \in {1, Len(src) + 1} :
      LET whole == str_gsub(src, pat, << L_ESC, 48 >>, max_s)
      IN whole.text = src /\ whole.n = F!Min({max_s, Len(gmatch(src, pat, 1))})

(* string.sub and string.byte give the characters between two places, of   *)
(* which a negative one counts from the end.                               *)
CutsBetween(s, i, j) ==
  LET Place(n) == IF n < 0 THEN Len(s) + 1 + n ELSE n
      between == SelectSeq([k \in DOMAIN s |-> k], LAMBDA k : Place(i) <= k /\ k <= Place(j))
      cut == [k \in DOMAIN between |-> s[between[k]]]
  IN str_sub(s, i, j) = cut /\ str_byte(s, i, j) = cut
=============================================================================
