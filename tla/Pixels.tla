------------------------------- MODULE Pixels -------------------------------
(***************************************************************************)
(* What bmp.c and zebra.c compute for the bitmap display: the clipping of  *)
(* bmp_fill, glyph lookup and text, the loading of a bitmap file, the      *)
(* gradient of the edge detector, the histogram and the spot meter.        *)
(***************************************************************************)
EXTENDS Integers, Sequences, SequencesExt, FiniteSets

CONSTANTS
  Word,              (* unsigned arithmetic is modulo this: 2^32           *)
  Short,             (* the modulus of uint16_t                            *)
  Width, Height,     (* bmp_width() and bmp_height()                       *)
  HistWidth, HistHeight,
  Levels             (* the values of a pixel: 65536                       *)

ASSUME PixelAssumption ==
  /\ {Word, Short, Width, Height, HistWidth, HistHeight, Levels} \subseteq Nat \ {0}
  /\ Width % 4 = 0 /\ Width < Word /\ Height < Short

-----------------------------------------------------------------------------
(* bmp_fill: the bytes <<row, column>> it writes.  It stores w/4 words a   *)
(* row, and the core stores a word at the aligned address.                 *)

(* Faulty: the width is clipped as if the box began at the left.           *)
ClipAtLeft(x, w) == IF w > Width THEN Width ELSE w

Clip(x, w) == IF (x + w) % Word > Width THEN (Width - x) % Word ELSE w

bmp_fill(x, y, w, h) ==
  LET columns == Clip(x, w)
      top     == IF y > Height THEN Height ELSE y
      end     == (top + h) % Short
      bottom  == IF end > Height THEN Height ELSE end
  IN IF columns = 0 \/ h = 0 THEN {}
     ELSE (top..bottom - 1) \X (4 * (x \div 4) .. 4 * (x \div 4) + 4 * (columns \div 4) - 1)

(* The box on the grid of four pixels, as far as it is on the screen.      *)
Box(x, y, w, h) ==
  { p \in (0..Height - 1) \X (0..Width - 1) :
      y <= p[1] /\ p[1] < y + h /\ 4 * (x \div 4) <= p[2] /\ p[2] < x + w }

(* Nothing is written outside the box, and no more than three columns and  *)
(* what alignment shifted out are missing.                                 *)
FillsTheBox(x, y, w, h) ==
  x <= Width /\ x + w < Word /\ y + h < Short =>
    /\ bmp_fill(x, y, w, h) \subseteq Box(x, y, w, h)
    /\ \A p \in Box(x, y, w, h) : p[2] + 6 < x + w /\ p[2] + 6 < Width
                                   => p \in bmp_fill(x, y, w, h)

-----------------------------------------------------------------------------
(* canon_char_lookup in a font with a character map, offsets and a limit.  *)
(* charmap[0] is the slot of the space, 32.                                *)

Null == -1

Glyph(font, i) == IF font.offsets[i] > font.bitmap_size THEN Null ELSE font.offsets[i]

canon_char_lookup(font, c) ==
  LET fast == c - 31
      hits == { i \in DOMAIN font.charmap : font.charmap[i] = c }
  IN IF ~font.magic THEN Null
     ELSE IF 32 <= c /\ c <= 127 /\ fast \in hits THEN Glyph(font, fast)
     ELSE IF hits = {} THEN Null
     ELSE Glyph(font, CHOOSE i \in hits : \A j \in hits : i <= j)

(* bmp_puts: the cursor and the glyphs drawn with their places.  A newline *)
(* goes down by the height of the space's bitmap, not by font->height.     *)
bmp_puts(font, x, y, s) ==
  FoldLeft(LAMBDA st, c :
             IF c = 10 THEN [st EXCEPT !.x = x, !.y = @ + font.tall[canon_char_lookup(font, 32)]]
             ELSE LET g == canon_char_lookup(font, c)
                  IN IF g = Null THEN st
                     ELSE [st EXCEPT !.x = @ + font.width[g],
                                     !.drawn = Append(@, <<g, st.x, st.y>>)],
           [x |-> x, y |-> y, drawn |-> <<>>], s)

(* What is on the screen is the text, without what the font does not have. *)
TextIsDrawn(font, x, y, s) ==
  LET has(c)  == c # 10 /\ \E i \in DOMAIN font.charmap :
                   font.charmap[i] = c /\ font.offsets[i] <= font.bitmap_size
      r == bmp_puts(font, x, y, s)
  IN font.magic =>
       /\ Len(r.drawn) = Len(SelectSeq(s, has))
       /\ \A i, j \in DOMAIN r.drawn : i < j =>
            \/ r.drawn[i][3] < r.drawn[j][3]
            \/ r.drawn[i][3] = r.drawn[j][3] /\ r.drawn[i][2] + font.width[r.drawn[i][1]] <= r.drawn[j][2]

-----------------------------------------------------------------------------
(* edge_detect, on the three pixels of a row and the three below: the      *)
(* gradients of two neighbours in one word.                                *)

(* d ^ m for the masks that d >> 15 can be.                                *)
Flip(d)   == IF d % 2 = 0 THEN d + 1 ELSE d - 1
Xor(d, m) == CASE m = 0 -> d [] m = -1 -> -d - 1 [] m = 1 -> Flip(d) [] m = -2 -> -Flip(d) - 1

(* The shift is by 15, but the difference of two 16-bit values has 17 bits.*)
Abs(d) == Xor(d, d \div 32768) - d \div 32768

Gradient(sx, sy) == (Abs(sx) + Abs(sy)) \div 512

edge_detect(p0, p1) ==
  [second |-> (Abs(p0[2] - p1[3]) + Abs(p0[3] - p1[2])) \div 512,
   first  |-> Gradient(p0[1] - p1[2], p0[2] - p1[1])]

(* check_edge: the colours of the two pixels, or none.  The five bits of a *)
(* gradient are or-ed to 0x70, so that the highest is lost; a gradient that*)
(* does not fit its byte is taken for none.                                *)
check_edge(p0, p1) ==
  LET g == edge_detect(p0, p1)
      v == << (g.first % 256) \div 8, (g.second % 256) \div 8 >>
  IN IF v = <<0, 0>> THEN <<>> ELSE << 112 + (v[1] % 16), 112 + (v[2] % 16) >>

Magnitude(d) == IF d < 0 THEN -d ELSE d
Exact(p0, p1) == << (Magnitude(p0[1] - p1[2]) + Magnitude(p0[2] - p1[1])) \div 512,
                    (Magnitude(p0[2] - p1[3]) + Magnitude(p0[3] - p1[2])) \div 512 >>


(* Two gradients that fit their bytes are those of the picture, give or    *)
(* take one, and what is seen as an edge is one.                           *)
EdgesAreEdges(p0, p1) ==
  LET g == edge_detect(p0, p1)  e == Exact(p0, p1)
  IN /\ g.first - e[1] \in -1..1 /\ g.second - e[2] \in -1..1
     /\ e[1] < 7 /\ e[2] < 7 => check_edge(p0, p1) = <<>>
     /\ e[1] \in 9..254 => check_edge(p0, p1) # <<>>

-----------------------------------------------------------------------------
(* hist_build over the pairs of a picture, and HistogramBars             *)

Level(pair)  == (((pair[1] + pair[2]) \div 2) * HistWidth) \div Levels

(* hist_max: the greatest bin but the first.                               *)
HistMax(hist) == CHOOSE m \in {0} \cup { hist[b] : b \in DOMAIN hist \ {0} } :
                   \A b \in DOMAIN hist \ {0} : hist[b] <= m

hist_build(picture) ==
  [b \in 0..HistWidth - 1 |-> Cardinality({ i \in DOMAIN picture : Level(picture[i]) = b })]

(* The white part of each column: the loop stops at the height of the box. *)
HistogramBars(picture) ==
  LET hist == hist_build(picture)
      max  == IF HistMax(hist) = 0 THEN 1 ELSE HistMax(hist)
      size(b) == (hist[b] * HistHeight) \div max
  IN [b \in DOMAIN hist |-> IF size(b) > HistHeight THEN HistHeight ELSE size(b)]

(* The histogram is drawn on the scale of its largest bin but the first:   *)
(* that bin fills the box, however large the first one is, and the columns *)
(* are ordered as the bins are.                                            *)
HistogramFills(picture) ==
  LET bars == HistogramBars(picture)  hist == hist_build(picture)
  IN /\ (\E b \in 1..HistWidth - 1 : hist[b] > 0) => \E b \in 1..HistWidth - 1 : bars[b] = HistHeight
     /\ \A b, c \in 1..HistWidth - 1 : hist[b] <= hist[c] => bars[b] <= bars[c]

-----------------------------------------------------------------------------
(* spotmeter_task: the percentage around the centre of a picture of the    *)
(* given size.  The first row and column wrap when dx is too large, and    *)
(* then the loops do nothing.                                              *)
spotmeter(pixel, width, height, dx) ==
  LET rows == (height \div 2 - dx) % Word .. height \div 2 + dx
      cols == (width \div 2 - dx) % Word .. width \div 2 + dx
      sum  == FoldSet(LAMBDA p, t : (t + pixel[p]) % Word, 0, rows \X cols)
  IN (100 * (sum \div ((2 * dx + 1) * (2 * dx + 1)))) \div Levels

(* As long as the square lies in the picture and its sum in a word, the    *)
(* meter shows no less than the darkest and no more than the brightest     *)
(* pixel of the square.                                                    *)
SpotIsInside(pixel, width, height, dx) ==
  LET square == { pixel[y, x] : y \in height \div 2 - dx .. height \div 2 + dx,
                                x \in width \div 2 - dx .. width \div 2 + dx }
      shown  == spotmeter(pixel, width, height, dx)
  IN dx <= width \div 2 /\ dx <= height \div 2 /\ (2 * dx + 1) * (2 * dx + 1) * Levels <= Word =>
       /\ \E p \in square : (100 * p) \div Levels <= shown
       /\ \E p \in square : shown <= (100 * p) \div Levels
=============================================================================
