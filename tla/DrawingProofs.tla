---------------------------- MODULE DrawingProofs ---------------------------
(***************************************************************************)
(* Proofs about the displays: the windows and strokes of the colour        *)
(* display, the frame buffer and the pages of the black and white panel,   *)
(* and the lines of text of hx-oled, for any size and any coordinates.     *)
(***************************************************************************)
EXTENDS St7735, OledPanel, OledLesson, WellFoundedInduction, TLAPS

-----------------------------------------------------------------------------
(* The colour display.                                                      *)

LEMMA MinOfTwo ==
    ASSUME NEW a \in Int, NEW b \in Int
    PROVE  Min({a, b}) = IF a <= b THEN a ELSE b
<1>1. \E x \in {a, b} : \A y \in {a, b} : x <= y
  <2>1. CASE a <= b
    BY <2>1
  <2>2. CASE ~(a <= b)
    BY <2>2
  <2> QED BY <2>1, <2>2
<1>2. Min({a, b}) \in {a, b} /\ \A y \in {a, b} : Min({a, b}) <= y
  BY <1>1, Zenon DEF Min
<1> QED BY <1>2

\* A set of numbers that is not empty has a least one, and Min chooses it.
LEMMA MinOfNats ==
    ASSUME NEW S, S \subseteq Nat, S # {}
    PROVE  Min(S) \in S
<1>1. PICK x \in S : \A y \in S : ~(<<y, x>> \in OpToRel(<, Nat))
  BY NatLessThanWellFounded, WFMin
<1>2. \A y \in S : x <= y
  <2> SUFFICES ASSUME NEW y \in S PROVE x <= y
    OBVIOUS
  <2>1. x \in Nat /\ y \in Nat
    OBVIOUS
  <2>2. ~(y < x)
    BY <1>1, <2>1 DEF OpToRel
  <2> QED BY <2>1, <2>2
<1> QED BY <1>2, Zenon DEF Min

LEMMA CornerIsByte == \A v \in Int, offset \in {1, 2} : Corner(v, offset) \in 0..255
BY DEF Corner

\* The offset makes up for the byte of a negative coordinate.
LEMMA CornerIsTrue ==
    ASSUME NEW v \in Int, NEW offset \in {1, 2}, -offset <= v, v < 128
    PROVE  Corner(v, offset) = v + offset
<1>1. CASE v >= 0
  <2>1. (v % 256) = v
    BY <1>1
  <2>2. ((v + offset) % 256) = v + offset
    BY <1>1
  <2> QED BY <2>1, <2>2 DEF Corner
<1>2. CASE v < 0
  <2>1. (v % 256) = v + 256
    BY <1>2
  <2>2. ((v + 256 + offset) % 256) = v + offset
    BY <1>2
  <2> QED BY <2>1, <2>2 DEF Corner
<1> QED BY <1>1, <1>2

LEMMA WindowIsBytes ==
    ASSUME NEW x0 \in Int, NEW x1 \in Int, NEW y0 \in Int, NEW y1 \in Int
    PROVE  Window(x0, x1, y0, y1) \in [1..4 -> 0..255]
<1>1. /\ Corner(x0, 2) \in 0..255 /\ Corner(x1, 2) \in 0..255
      /\ Corner(y0, 1) \in 0..255 /\ Corner(y1, 1) \in 0..255
  BY CornerIsByte
<1>2. \A a, b, c, d \in 0..255 : <<a, b, c, d>> \in [1..4 -> 0..255]
  OBVIOUS
<1> QED BY <1>1, <1>2 DEF Window

StrokeGood(s) == s.memory \in [1..4 -> 0..255] /\ ShowsAsked(s)

\* The part on the screen: never more than the side, and where it ends.
LEMMA ClipIs ==
    ASSUME NEW v \in Int, NEW side \in Nat, NEW screen \in Nat, v < screen
    PROVE  /\ Clip(v, side, screen) \in Nat /\ Clip(v, side, screen) <= side
           /\ v + Clip(v, side, screen) - 1 =
                  IF v + side - 1 <= screen - 1 THEN v + side - 1 ELSE screen - 1
BY DEF Clip

LEMMA RectGood ==
    ASSUME NEW x \in Int, NEW y \in Int, NEW w \in Nat, NEW h \in Nat,
           NEW s \in RectStrokes(x, y, w, h)
    PROVE  StrokeGood(s)
<1> DEFINE x1 == x + Clip(x, w, LcdWidth) - 1
           y1 == y + Clip(y, h, LcdHeight) - 1
<1>0. LcdWidth \in 1..128 /\ LcdHeight \in 1..128
  BY LcdAssumption
<1>1. /\ x < LcdWidth /\ y < LcdHeight /\ x1 >= x /\ y1 >= y
      /\ s = [memory |-> Window(x, x1, y, y1), asked |-> <<x, x + w - 1, y, y + h - 1>>,
               pixels |-> (x1 - x + 1) * (y1 - y + 1)]
  <2>1. ~(x >= LcdWidth \/ y >= LcdHeight \/ x1 < x \/ y1 < y)
    BY DEF RectStrokes
  <2>2. x1 \in Int /\ y1 \in Int
    BY <1>0 DEF Clip
  <2> QED BY <1>0, <2>1, <2>2 DEF RectStrokes
<1>2. /\ x1 \in Int /\ y1 \in Int
      /\ x1 = (IF x + w - 1 <= LcdWidth - 1 THEN x + w - 1 ELSE LcdWidth - 1)
      /\ y1 = (IF y + h - 1 <= LcdHeight - 1 THEN y + h - 1 ELSE LcdHeight - 1)
  <2>1. x < LcdWidth /\ y < LcdHeight /\ LcdWidth \in Nat /\ LcdHeight \in Nat
    BY <1>0, <1>1
  <2>2. x1 \in Int /\ x1 = IF x + w - 1 <= LcdWidth - 1 THEN x + w - 1 ELSE LcdWidth - 1
    BY <2>1, ClipIs
  <2>3. y1 \in Int /\ y1 = IF y + h - 1 <= LcdHeight - 1 THEN y + h - 1 ELSE LcdHeight - 1
    BY <2>1, ClipIs
  <2> QED BY <2>2, <2>3
<1>3. x1 < 128 /\ y1 < 128 /\ x < 128 /\ y < 128
  BY <1>0, <1>1, <1>2
<1>4. Min({x + w - 1, LcdWidth - 1}) = x1 /\ Min({y + h - 1, LcdHeight - 1}) = y1
  BY <1>0, <1>2, MinOfTwo
<1> HIDE DEF x1, y1
<1>5. s.memory \in [1..4 -> 0..255]
  BY <1>1, <1>2, WindowIsBytes
<1>6. ASSUME x >= -2, y >= -1
      PROVE  /\ Corner(x, 2) = x + 2 /\ Corner(x1, 2) = x1 + 2
             /\ Corner(y, 1) = y + 1 /\ Corner(y1, 1) = y1 + 1
  <2>1. -2 <= x1 /\ -1 <= y1
    BY <1>1, <1>2, <1>6
  <2> QED BY <1>2, <1>3, <1>6, <2>1, CornerIsTrue
<1>7. /\ s.asked[1] = x /\ s.asked[2] = x + w - 1 /\ s.asked[3] = y /\ s.asked[4] = y + h - 1
      /\ s.memory[1] = Corner(x, 2) /\ s.memory[2] = Corner(x1, 2)
      /\ s.memory[3] = Corner(y, 1) /\ s.memory[4] = Corner(y1, 1)
      /\ s.pixels = (x1 - x + 1) * (y1 - y + 1)
  BY <1>1 DEF Window
<1>8. ShowsAsked(s)
  <2> SUFFICES ASSUME x >= -2, y >= -1
               PROVE  /\ s.memory[1] = x + 2 /\ s.memory[3] = y + 1
                      /\ s.memory[2] = x1 + 2 /\ s.memory[4] = y1 + 1
                      /\ s.pixels = (s.memory[2] - s.memory[1] + 1) * (s.memory[4] - s.memory[3] + 1)
    BY <1>4, <1>7 DEF ShowsAsked
  <2>1. /\ s.memory[1] = x + 2 /\ s.memory[3] = y + 1
        /\ s.memory[2] = x1 + 2 /\ s.memory[4] = y1 + 1
    BY <1>6, <1>7
  <2>2. (x1 + 2) - (x + 2) + 1 = x1 - x + 1 /\ (y1 + 1) - (y + 1) + 1 = y1 - y + 1
    BY <1>2
  <2> QED BY <1>7, <2>1, <2>2
<1> QED BY <1>5, <1>8 DEF StrokeGood

LEMMA PixelGood ==
    ASSUME NEW x \in Int, NEW y \in Int, NEW s \in PixelStrokes(x, y)
    PROVE  StrokeGood(s)
<1>0. LcdWidth \in 1..128 /\ LcdHeight \in 1..128
  BY LcdAssumption
<1>1. /\ x \in 0..LcdWidth - 1 /\ y \in 0..LcdHeight - 1
      /\ s = [memory |-> Window(x, 1, y, 1), asked |-> <<x, x, y, y>>, pixels |-> 1]
  BY DEF PixelStrokes
<1>2. s.memory \in [1..4 -> 0..255]
  <2>1. Window(x, 1, y, 1) \in [1..4 -> 0..255]
    <3>1. 1 \in Int
      OBVIOUS
    <3> QED BY <3>1, WindowIsBytes
  <2>2. s.memory = Window(x, 1, y, 1)
    BY <1>1
  <2> QED BY <2>1, <2>2
<1>3. Corner(x, 2) = x + 2 /\ Corner(y, 1) = y + 1
  <2>1. -2 <= x /\ x < 128 /\ -1 <= y /\ y < 128
    BY <1>0, <1>1
  <2> QED BY <2>1, CornerIsTrue
<1>4. /\ s.asked[1] = x /\ s.asked[3] = y /\ s.pixels = 1
      /\ s.memory[1] = Corner(x, 2) /\ s.memory[3] = Corner(y, 1)
  BY <1>1 DEF Window
<1> QED BY <1>2, <1>3, <1>4 DEF StrokeGood, ShowsAsked

LEMMA CharGood ==
    ASSUME NEW x \in Int, NEW y \in Int, NEW size \in 1..10, NEW s \in CharStrokes(x, y, size)
    PROVE  StrokeGood(s)
<1>1. PICK i \in 0..4, j \in 0..7 :
           s \in IF size = 1 THEN PixelStrokes(x + i, y + j)
                 ELSE RectStrokes(x + i * size, y + j * size, size, size)
  BY DEF CharStrokes
<1>2. /\ x + i \in Int /\ y + j \in Int /\ size \in Nat
      /\ x + i * size \in Int /\ y + j * size \in Int
  OBVIOUS
<1>3. CASE size = 1
  BY <1>1, <1>2, <1>3, PixelGood
<1>4. CASE size # 1
  <2>1. s \in RectStrokes(x + i * size, y + j * size, size, size)
    BY <1>1, <1>4
  <2> QED BY <1>2, <2>1, RectGood
<1> QED BY <1>3, <1>4

LEMMA StringGood ==
    ASSUME NEW column \in Int, NEW row \in Int, NEW size \in 1..10, NEW length \in Nat,
           NEW s \in StringStrokes(column, row, size, length)
    PROVE  StrokeGood(s)
<1>1. PICK k \in 0..Drawn(column, size, length) - 1 :
           s \in CharStrokes((column + k * size) * 6, row * 7, size)
  BY DEF StringStrokes
<1>2. (column + k * size) * 6 \in Int /\ row * 7 \in Int
  OBVIOUS
<1> QED BY <1>1, <1>2, CharGood

LEMMA ProductBound ==
    ASSUME NEW a \in Nat, NEW b \in Nat, NEW c \in Nat, NEW d \in Nat, a <= c, b <= d
    PROVE  a * b <= c * d
OBVIOUS

\* A text that ends before the edge is not cut.
LEMMA CountGood ==
    ASSUME NEW column \in Int, NEW row \in Int, NEW size \in 1..10, NEW length \in Nat
    PROVE  LET count == StringCount(column, row, size, length)
           IN /\ count \in [drawn : Nat, told : Nat, end : Int]
              /\ count.end <= 20 => count.told = count.drawn
<1> DEFINE cuts == Cuts(column, size, length)
<1>1. CASE row > 15
  BY <1>1 DEF StringCount
<1>2. CASE ~(row > 15) /\ cuts = {}
  <2>1. StringCount(column, row, size, length) =
           [drawn |-> length, told |-> length, end |-> column + length * size]
    BY <1>2 DEF StringCount, Drawn
  <2> QED BY <2>1
<1>3. CASE ~(row > 15) /\ cuts # {}
  <2>1. cuts \subseteq 1..length
    BY DEF Cuts
  <2>2. Min(cuts) \in 1..length
    <3>1. cuts \subseteq Nat
      BY <2>1
    <3> HIDE DEF cuts
    <3>2. Min(cuts) \in cuts
      BY <1>3, <3>1, MinOfNats
    <3> QED BY <2>1, <3>2
  <2>3. StringCount(column, row, size, length) =
           [drawn |-> Min(cuts), told |-> Min(cuts) - 1, end |-> column + length * size]
    BY <1>3 DEF StringCount, Drawn
  <2>4. column + length * size > 20
    <3>1. PICK n \in 1..length : column + n * size > 20
      BY <1>3 DEF Cuts
    <3>2. n * size <= length * size
      BY ProductBound
    <3>3. n * size \in Int /\ length * size \in Int
      OBVIOUS
    <3> QED BY <3>1, <3>2, <3>3
  <2>5. column + length * size \in Int
    OBVIOUS
  <2> HIDE DEF cuts
  <2>6. \A n \in 1..length : n \in Nat /\ n - 1 \in Nat
    OBVIOUS
  <2>7. Min(cuts) \in Nat /\ Min(cuts) - 1 \in Nat
    BY <2>2, <2>6
  <2>8. ~(column + length * size <= 20)
    BY <2>4, <2>5
  <2> QED BY <2>3, <2>5, <2>7, <2>8
<1> QED BY <1>1, <1>2, <1>3

LEMMA OverrunSeen ==
    ASSUME NEW x \in Int, NEW y \in Int, NEW w \in Nat, NEW h \in Nat, RectOverrun(x, y, w, h)
    PROVE  \E s \in RectStrokes(x, y, w, h) :
               (s.asked[2] - s.asked[1] + 1) * (s.asked[4] - s.asked[3] + 1) >= LcdWidth * LcdHeight
<1> DEFINE cx == Clip(x, w, LcdWidth)
           cy == Clip(y, h, LcdHeight)
           r  == [memory |-> Window(x, x + cx - 1, y, y + cy - 1),
                  asked |-> <<x, x + w - 1, y, y + h - 1>>,
                  pixels |-> ((x + cx - 1) - x + 1) * ((y + cy - 1) - y + 1)]
<1>0. LcdWidth \in 1..128 /\ LcdHeight \in 1..128
  BY LcdAssumption
<1>1. x < LcdWidth /\ y < LcdHeight /\ cx * cy >= LcdWidth * LcdHeight
  BY DEF RectOverrun
<1>2. cx \in Nat /\ cy \in Nat /\ cx <= w /\ cy <= h
  <2>1. LcdWidth \in Nat /\ LcdHeight \in Nat
    BY <1>0
  <2>2. cx \in Nat /\ cx <= w
    BY <1>1, <2>1, ClipIs
  <2>3. cy \in Nat /\ cy <= h
    BY <1>1, <2>1, ClipIs
  <2> QED BY <2>2, <2>3
<1>3. ASSUME cx # 0, cy # 0
      PROVE  r \in RectStrokes(x, y, w, h)
  <2>1. ~(x >= LcdWidth \/ y >= LcdHeight \/ x + cx - 1 < x \/ y + cy - 1 < y)
    <3> HIDE DEF cx, cy
    <3> QED BY <1>0, <1>1, <1>2, <1>3
  <2> QED BY <2>1, Zenon DEF RectStrokes
<1> HIDE DEF cx, cy, r
<1>4. LcdWidth * LcdHeight >= 1
  BY <1>0
<1>5. cx # 0 /\ cy # 0
  <2>1. \A n \in Nat : 0 * n = 0 /\ n * 0 = 0
    OBVIOUS
  <2>2. cx * cy >= 1
    BY <1>0, <1>1, <1>2, <1>4
  <2> QED BY <1>2, <2>1, <2>2
<1>6. r \in RectStrokes(x, y, w, h)
  BY <1>3, <1>5
<1>7. r.asked[2] - r.asked[1] + 1 = w /\ r.asked[4] - r.asked[3] + 1 = h
  BY DEF r
<1>8. w * h >= cx * cy
  BY <1>2, ProductBound
<1>9. w * h >= LcdWidth * LcdHeight
  <2>1. cx * cy \in Int /\ w * h \in Int /\ LcdWidth * LcdHeight \in Int
    BY <1>0, <1>2
  <2> QED BY <1>1, <1>8, <2>1
<1> QED BY <1>6, <1>7, <1>9

LcdInv == LcdTypeOK /\ LcdExact

LEMMA LcdStart0 == LcdInit => LcdInv
<1> SUFFICES ASSUME LcdInit PROVE LcdInv
  OBVIOUS
<1>1. lcd_count \in [drawn : Nat, told : Nat, end : Int] /\ lcd_count.told = lcd_count.drawn
  BY DEF LcdInit
<1> QED BY <1>1 DEF LcdInit, LcdInv, LcdTypeOK, LcdExact

LEMMA LcdStep == LcdInv /\ [LcdNext]_lcd_vars => LcdInv'
<1> SUFFICES ASSUME LcdInv, [LcdNext]_lcd_vars PROVE LcdInv'
  OBVIOUS
<1> USE DEF LcdInv
<1>0. LcdWidth \in 1..128 /\ LcdHeight \in 1..128 /\ LcdSides \subseteq Nat
      /\ LcdSizes \subseteq 1..10 /\ LcdLengths \subseteq Nat /\ Xs \subseteq Int /\ Ys \subseteq Int
  BY LcdAssumption DEF Xs, Ys
<1>1. CASE UNCHANGED lcd_vars
  BY <1>1 DEF lcd_vars, LcdTypeOK, LcdExact, ShowsAsked
<1>2. CASE LcdNext
  <2>1. /\ lcd_at' \in {"init", "ready", "drawn"} /\ lcd_overrun' \in BOOLEAN
        /\ \A s \in lcd' : StrokeGood(s)
        /\ lcd_overrun' => \E s \in lcd' :
             (s.asked[2] - s.asked[1] + 1) * (s.asked[4] - s.asked[3] + 1) >= LcdWidth * LcdHeight
    <3>1. CASE LcdStart
      <4> DEFINE r == [memory |-> Window(0, LcdWidth - 1, 0, LcdHeight - 1),
                       asked  |-> <<0, LcdWidth - 1, 0, LcdHeight - 1>>,
                       pixels |-> LcdWidth * LcdHeight]
      <4>1. lcd' = {r} /\ lcd_overrun' = FALSE /\ lcd_at' = "ready"
        BY <3>1 DEF LcdStart, FillScreen
      <4>2. r \in RectStrokes(0, 0, LcdWidth, LcdHeight)
        <5>1. Clip(0, LcdWidth, LcdWidth) = LcdWidth /\ Clip(0, LcdHeight, LcdHeight) = LcdHeight
          BY <1>0 DEF Clip
        <5>2. /\ 0 + LcdWidth - 1 = LcdWidth - 1 /\ 0 + LcdHeight - 1 = LcdHeight - 1
              /\ (LcdWidth - 1) - 0 + 1 = LcdWidth /\ (LcdHeight - 1) - 0 + 1 = LcdHeight
              /\ ~(0 >= LcdWidth \/ 0 >= LcdHeight \/ LcdWidth - 1 < 0 \/ LcdHeight - 1 < 0)
          BY <1>0
        <5> QED BY <5>1, <5>2 DEF RectStrokes
      <4>3. StrokeGood(r)
        BY <1>0, <4>2, RectGood
      <4> QED BY <4>1, <4>3
    <3>2. CASE DrawRect
      <4>1. PICK x \in Xs, y \in Ys, w \in LcdSides, h \in LcdSides :
                 lcd' = RectStrokes(x, y, w, h) /\ lcd_overrun' = RectOverrun(x, y, w, h)
        BY <3>2 DEF DrawRect
      <4>2. x \in Int /\ y \in Int /\ w \in Nat /\ h \in Nat
        BY <1>0
      <4>3. \A s \in lcd' : StrokeGood(s)
        BY <4>1, <4>2, RectGood
      <4>4. lcd_overrun' \in BOOLEAN
        BY <4>1 DEF RectOverrun
      <4>5. lcd_overrun' => \E s \in lcd' :
             (s.asked[2] - s.asked[1] + 1) * (s.asked[4] - s.asked[3] + 1) >= LcdWidth * LcdHeight
        BY <4>1, <4>2, OverrunSeen
      <4> QED BY <3>2, <4>3, <4>4, <4>5 DEF DrawRect
    <3>3. CASE DrawPixel
      <4>1. \A s \in lcd' : StrokeGood(s)
        BY <1>0, <3>3, PixelGood DEF DrawPixel
      <4> QED BY <3>3, <4>1 DEF DrawPixel
    <3>4. CASE DrawChar
      <4>1. \A s \in lcd' : StrokeGood(s)
        BY <1>0, <3>4, CharGood DEF DrawChar
      <4> QED BY <3>4, <4>1 DEF DrawChar
    <3>5. CASE DrawString
      <4>1. \A s \in lcd' : StrokeGood(s)
        BY <1>0, <3>5, StringGood DEF DrawString
      <4> QED BY <3>5, <4>1 DEF DrawString
    <3> QED BY <1>2, <3>1, <3>2, <3>3, <3>4, <3>5 DEF LcdNext
  <2>2. /\ lcd_count' \in [drawn : Nat, told : Nat, end : Int]
        /\ lcd_count'.end <= 20 => lcd_count'.told = lcd_count'.drawn
    <3>1. CASE DrawString
      <4>1. PICK column \in {0, 1, 10, 20, 21}, row \in {0, 15, 16}, size \in LcdSizes,
                 length \in LcdLengths : lcd_count' = StringCount(column, row, size, length)
        BY <3>1 DEF DrawString
      <4>2. column \in Int /\ row \in Int /\ size \in 1..10 /\ length \in Nat
        BY <1>0
      <4> QED BY <4>1, <4>2, CountGood
    <3>2. CASE lcd_count' = lcd_count
      BY <3>2 DEF LcdTypeOK, LcdExact
    <3> QED BY <1>2, <3>1, <3>2 DEF LcdNext, LcdStart, DrawRect, DrawPixel, DrawChar
  <2> QED BY <2>1, <2>2 DEF LcdTypeOK, LcdExact, StrokeGood
<1> QED BY <1>1, <1>2

-----------------------------------------------------------------------------
(* The black and white panel, page by page.                                 *)

Cells == (0..8 * OledWidth - 1) \X (0..7)

LEMMA WidthOfOled == OledWidth \in Nat /\ OledWidth >= 1
BY OledPanelAssumption

\* A place of the buffer lies in one page.
LEMMA PageOfPlace ==
    ASSUME NEW p \in Pages, NEW m \in Nat, m < OledWidth
    PROVE  p * OledWidth + m \in 0..8 * OledWidth - 1 /\ (p * OledWidth + m) \div OledWidth = p
<1> DEFINE w == OledWidth
           a == p * w + m
<1>0. w \in Nat /\ w >= 1 /\ p \in 0..7 /\ m < w
  BY WidthOfOled DEF Pages
<1>1. p * w \in Nat /\ p * w <= 7 * w
  <2> HIDE DEF w
  <2> QED BY <1>0
<1>2. a \in 0..8 * w - 1
  <2> HIDE DEF w
  <2> QED BY <1>0, <1>1
<1> DEFINE q == a \div w
<1>3. q \in Nat /\ w * q + (a % w) = a /\ (a % w) \in 0..w - 1
  <2> HIDE DEF w
  <2>1. a \in Nat
    BY <1>2
  <2> HIDE DEF a
  <2> QED BY <1>0, <2>1
<1> HIDE DEF q
<1>4. ~(q < p)
  <2> SUFFICES ASSUME q + 1 <= p PROVE FALSE
    BY <1>0, <1>3
  <2>1. w * (q + 1) <= w * p
    <3> HIDE DEF w
    <3> QED BY <1>0, <1>3
  <2>2. w * (q + 1) = w * q + w /\ w * p = p * w
    <3> HIDE DEF w
    <3> QED BY <1>0, <1>3
  <2>3. w * q \in Nat
    <3> HIDE DEF w
    <3> QED BY <1>0, <1>3
  <2> HIDE DEF w
  <2> QED BY <1>0, <1>1, <1>3, <2>1, <2>2, <2>3
<1>5. ~(q > p)
  <2> SUFFICES ASSUME q >= p + 1 PROVE FALSE
    BY <1>0, <1>3
  <2>1. w * q >= w * (p + 1)
    <3> HIDE DEF w
    <3> QED BY <1>0, <1>3
  <2>2. w * (p + 1) = p * w + w
    <3> HIDE DEF w
    <3> QED BY <1>0
  <2>3. w * q \in Nat
    <3> HIDE DEF w
    <3> QED BY <1>0, <1>3
  <2> HIDE DEF w
  <2> QED BY <1>0, <1>1, <1>3, <2>1, <2>2, <2>3
<1>6. q = p
  BY <1>0, <1>3, <1>4, <1>5
<1> QED BY <1>2, <1>6 DEF q

LEMMA PlaceOfPage ==
    ASSUME NEW n \in 0..8 * OledWidth - 1
    PROVE  /\ n \div OledWidth \in Pages /\ (n % OledWidth) \in Nat /\ (n % OledWidth) < OledWidth
           /\ (n \div OledWidth) * OledWidth + (n % OledWidth) = n
<1> DEFINE w == OledWidth
           q == n \div w
<1>0. w \in Nat /\ w >= 1
  BY WidthOfOled
<1> HIDE DEF w
<1>1. n \in Nat /\ n < 8 * w
  BY <1>0 DEF w
<1>2. q \in Nat /\ w * q + (n % w) = n /\ (n % w) \in 0..w - 1
  BY <1>0, <1>1
<1>3. q * w = w * q
  BY <1>0, <1>2
<1>4. q < 8
  BY <1>0, <1>1, <1>2
<1> HIDE DEF q
<1>5. q \in Pages
  BY <1>2, <1>4 DEF Pages
<1>6. q * w + (n % w) = n
  BY <1>2, <1>3
<1>7. (n % w) \in Nat /\ (n % w) < w
  BY <1>0, <1>2
<1> QED BY <1>5, <1>6, <1>7 DEF q, w

LEMMA PageSent ==
    ASSUME NEW dots \in SUBSET Cells, NEW p \in Pages, NEW q \in Pages
    PROVE  /\ ToPage(OfPage(dots, p), q) \subseteq Cells
           /\ \A d \in ToPage(OfPage(dots, p), q) : d[1] \div OledWidth = q
           /\ ToPage(OfPage(dots, p), p) = OfPage(dots, p)
<1>1. ASSUME NEW d \in Cells
      PROVE  /\ d = <<d[1], d[2]>> /\ d[1] \in 0..8 * OledWidth - 1 /\ d[2] \in 0..7
             /\ (d[1] % OledWidth) \in Nat /\ (d[1] % OledWidth) < OledWidth
             /\ d[1] \div OledWidth = p => p * OledWidth + (d[1] % OledWidth) = d[1]
  <2>1. d = <<d[1], d[2]>> /\ d[1] \in 0..8 * OledWidth - 1 /\ d[2] \in 0..7
    BY DEF Cells
  <2> QED BY <2>1, PlaceOfPage
<1>2. ASSUME NEW d \in OfPage(dots, p)
      PROVE  /\ <<q * OledWidth + (d[1] % OledWidth), d[2]>> \in Cells
             /\ (q * OledWidth + (d[1] % OledWidth)) \div OledWidth = q
             /\ <<p * OledWidth + (d[1] % OledWidth), d[2]>> = d
  <2>1. d \in Cells /\ d[1] \div OledWidth = p
    BY DEF OfPage
  <2>2. d = <<d[1], d[2]>> /\ d[2] \in 0..7 /\ p * OledWidth + (d[1] % OledWidth) = d[1]
        /\ (d[1] % OledWidth) \in Nat /\ (d[1] % OledWidth) < OledWidth
    BY <1>1, <2>1
  <2>3. /\ q * OledWidth + (d[1] % OledWidth) \in 0..8 * OledWidth - 1
        /\ (q * OledWidth + (d[1] % OledWidth)) \div OledWidth = q
    <3>1. \A m \in Nat : m < OledWidth =>
               /\ q * OledWidth + m \in 0..8 * OledWidth - 1
               /\ (q * OledWidth + m) \div OledWidth = q
      BY PageOfPlace
    <3> QED BY <2>2, <3>1, Zenon
  <2>4. <<q * OledWidth + (d[1] % OledWidth), d[2]>> \in Cells
    BY <2>2, <2>3 DEF Cells
  <2>5. <<p * OledWidth + (d[1] % OledWidth), d[2]>> = d
    BY <2>2, Zenon
  <2> QED BY <2>3, <2>4, <2>5
<1>3. ToPage(OfPage(dots, p), q) \subseteq Cells
  BY <1>2 DEF ToPage
<1>4. ASSUME NEW e \in ToPage(OfPage(dots, p), q) PROVE e[1] \div OledWidth = q
  <2>1. PICK d \in OfPage(dots, p) : e = <<q * OledWidth + (d[1] % OledWidth), d[2]>>
    BY Zenon DEF ToPage
  <2>2. e[1] = q * OledWidth + (d[1] % OledWidth)
    BY <2>1
  <2> QED BY <1>2, <2>2
<1>5. ToPage(OfPage(dots, p), p) = OfPage(dots, p)
  <2>1. \A d \in OfPage(dots, p) : <<p * OledWidth + (d[1] % OledWidth), d[2]>> = d
    BY <1>2
  <2> QED BY <2>1, Zenon DEF ToPage
<1> QED BY <1>3, <1>4, <1>5

\* What one line of the update does to the panel.
LEMMA LineSent ==
    ASSUME NEW shown \in SUBSET Cells, NEW dots \in SUBSET Cells, NEW p \in Pages, NEW q \in Pages,
           NEW now, now = (shown \ OfPage(shown, q)) \cup ToPage(OfPage(dots, p), q)
    PROVE  /\ now \subseteq Cells
           /\ \A r \in Pages : r # q => OfPage(now, r) = OfPage(shown, r)
           /\ p = q => OfPage(now, p) = OfPage(dots, p)
<1>1. /\ ToPage(OfPage(dots, p), q) \subseteq Cells
      /\ \A d \in ToPage(OfPage(dots, p), q) : d[1] \div OledWidth = q
      /\ p = q => ToPage(OfPage(dots, p), q) = OfPage(dots, p)
  BY PageSent
<1> DEFINE new == ToPage(OfPage(dots, p), q)
<1> HIDE DEF new
<1>2. /\ new \subseteq Cells /\ \A d \in new : d[1] \div OledWidth = q
      /\ p = q => new = OfPage(dots, p)
      /\ now = (shown \ OfPage(shown, q)) \cup new
  BY <1>1 DEF new
<1>3. now \subseteq Cells
  BY <1>2
<1>4. ASSUME NEW r \in Pages, r # q PROVE OfPage(now, r) = OfPage(shown, r)
  BY <1>2, <1>4, Zenon DEF OfPage
<1>5. OfPage(now, q) = new
  BY <1>2, Zenon DEF OfPage
<1> QED BY <1>2, <1>3, <1>4, <1>5

\* The pages make up the panel.
LEMMA PagesMakePanel ==
    ASSUME NEW shown \in SUBSET Cells, NEW dots \in SUBSET Cells,
           \A p \in Pages : OfPage(shown, p) = OfPage(dots, p)
    PROVE  shown = dots
<1>1. \A d \in Cells : d[1] \in 0..8 * OledWidth - 1
  BY DEF Cells
<1>2. \A d \in Cells : d[1] \div OledWidth \in Pages
  BY <1>1, PlaceOfPage
<1> QED BY <1>2 DEF OfPage

\* A dot that is drawn lies in the buffer.
LEMMA DotInBuffer ==
    ASSUME NEW x \in Nat, NEW y \in Nat PROVE DrawPixelDot(x, y) \subseteq Cells
<1>1. CASE x >= OledWidth \/ y >= OledHeight
  BY <1>1 DEF DrawPixelDot
<1>2. CASE ~(x >= OledWidth \/ y >= OledHeight)
  <2>1. x < OledWidth /\ y < 64
    BY <1>2, WidthOfOled DEF OledHeight
  <2>2. y \div 8 \in Pages /\ (y % 8) \in 0..7
    BY <2>1 DEF Pages
  <2>3. (y \div 8) * OledWidth + x \in 0..8 * OledWidth - 1
    BY <2>1, <2>2, PageOfPlace
  <2>4. x + (y \div 8) * OledWidth = (y \div 8) * OledWidth + x
    BY <2>2, WidthOfOled DEF Pages
  <2>5. <<x + (y \div 8) * OledWidth, (y % 8)>> \in Cells
    BY <2>2, <2>3, <2>4 DEF Cells
  <2> QED BY <1>2, <2>5 DEF DrawPixelDot
<1> QED BY <1>1, <1>2

\* Counting from 1 or from 0 names the same dot, inside the panel.
LEMMA PoxelIsDot ==
    ASSUME NEW x \in Nat, NEW y \in Nat, x >= 1, y >= 1, x < OledWidth, y < OledHeight
    PROVE  SetPoxel(x, y) = DrawPixelDot(x - 1, y - 1)
<1> DEFINE row == (y - 1) \div 8
<1>0. OledHeight \div 8 = 8
  BY DEF OledHeight
<1>1. row \in Nat
  OBVIOUS
<1> HIDE DEF row
<1>2. row * OledWidth + x - 1 = x - 1 + row * OledWidth
  BY <1>1, WidthOfOled
<1>3. SetPoxel(x, y) = {<<row * OledWidth + x - 1, ((y - 1) % 8)>>}
  BY <1>0 DEF SetPoxel, row
<1>4. ~(x - 1 >= OledWidth \/ y - 1 >= OledHeight)
  BY WidthOfOled DEF OledHeight
<1>5. DrawPixelDot(x - 1, y - 1) = {<<x - 1 + row * OledWidth, ((y - 1) % 8)>>}
  BY <1>4 DEF DrawPixelDot, row
<1> QED BY <1>2, <1>3, <1>5

\* While the panel is written without an error, the pages written so far show
\* the buffer; and the buffer is empty while a rectangle waits for its update.
OledInv ==
    /\ OledPanelTypeOK /\ OledShows
    /\ oled_then \in [x : Nat, y : Nat, l : Nat, h : Nat]
    /\ oled_at # Idle /\ update_ok =>
            \A p \in Pages : p < oled_at => OfPage(panel, p) = OfPage(frame, p)
    /\ oled_then # NoRect => frame = {} /\ oled_asked = {} /\ ~astray
    /\ oled_at = Idle => oled_then = NoRect

LEMMA OledStart == OledPanelInit => OledInv
<1> SUFFICES ASSUME OledPanelInit PROVE OledInv
  OBVIOUS
<1>1a. astray = FALSE /\ update_ok = TRUE
  BY DEF OledPanelInit
<1>1b. oled_before = {} /\ frame = {} /\ oled_at = 0 /\ oled_then = NoRect /\ oled_asked = {} /\ oled_at # Idle
  BY DEF OledPanelInit, Idle
<1>1. /\ frame = {} /\ oled_at = 0 /\ oled_then = NoRect /\ ~astray /\ oled_asked = {}
      /\ oled_before = {}
      /\ oled_at # Idle /\ astray \in BOOLEAN /\ update_ok \in BOOLEAN
  BY <1>1a, <1>1b
<1>2. panel \subseteq Cells
  <2>1. 0 \in 0..8 * OledWidth - 1 /\ OledWidth \in 0..8 * OledWidth - 1
    BY WidthOfOled
  <2>2. <<0, 0>> \in Cells /\ <<OledWidth, 1>> \in Cells
    BY <2>1 DEF Cells
  <2> QED BY <2>2 DEF OledPanelInit
<1>3. page \in Pages /\ bus_errors \in 0..MaxBusErrors /\ drawings \in 0..MaxDrawings
      /\ oled_at \in 0..Idle
  BY OledPanelAssumption DEF OledPanelInit, Pages, Idle
<1>4. NoRect \in [x : Nat, y : Nat, l : Nat, h : Nat]
  BY DEF NoRect
<1>5. OledPanelTypeOK
  BY <1>1, <1>2, <1>3 DEF OledPanelTypeOK, Cells
<1>6. OledShows
  BY <1>1 DEF OledShows
<1>7. \A p \in Pages : ~(p < oled_at)
  BY <1>1 DEF Pages
<1> QED BY <1>1, <1>4, <1>5, <1>6, <1>7 DEF OledInv

LEMMA LineStep == OledInv /\ UpdateLine => OledInv'
<1> SUFFICES ASSUME OledInv, UpdateLine PROVE OledInv'
  OBVIOUS
<1>0. /\ OledPanelTypeOK /\ OledShows /\ frame \in SUBSET Cells /\ panel \in SUBSET Cells
      /\ oled_at \in Pages /\ oled_at' = oled_at + 1 /\ oled_at # Idle
      /\ UNCHANGED <<oled_then, frame, astray, current_x, current_y, oled_asked, oled_before, drawings>>
  BY DEF OledInv, OledPanelTypeOK, UpdateLine, Cells, Pages, Idle
<1>1. PICK told \in BOOLEAN, sent \in BOOLEAN :
        LET lost == (IF told THEN 0 ELSE 1) + (IF sent THEN 0 ELSE 1)
        IN /\ bus_errors + lost <= MaxBusErrors
           /\ BusErrors(lost)
           /\ page' \in IF told THEN {oled_at} ELSE {page, (page + 1) % 8}
           /\ panel' = IF sent
                       THEN (panel \ OfPage(panel, page'))
                               \cup ToPage(OfPage(frame, oled_at), page')
                       ELSE panel
  BY DEF UpdateLine
<1>2. bus_errors' \in 0..MaxBusErrors
  BY <1>0, <1>1, OledPanelAssumption DEF BusErrors, OledPanelTypeOK
<1>3. page' \in Pages
  <2>1. page \in 0..7 /\ oled_at \in 0..7
    BY <1>0 DEF OledPanelTypeOK, Pages
  <2>2. page' \in {oled_at, page, (page + 1) % 8}
    BY <1>1
  <2>3. ((page + 1) % 8) \in 0..7
    BY <2>1
  <2> QED BY <2>1, <2>2, <2>3 DEF Pages
<1>4. update_ok' => update_ok /\ told /\ sent
  <2>1. update_ok' => update_ok /\ (IF told THEN 0 ELSE 1) + (IF sent THEN 0 ELSE 1) = 0
    BY <1>1 DEF BusErrors
  <2>2. CASE ~told
    BY <2>1, <2>2
  <2>3. CASE told
    BY <2>1, <2>3
  <2> QED BY <2>2, <2>3
<1>4a. update_ok' \in BOOLEAN
  BY <1>0, <1>1 DEF BusErrors, OledPanelTypeOK
<1>5. panel' \subseteq Cells
  <2>1. CASE sent
    <3>1. panel' = (panel \ OfPage(panel, page')) \cup ToPage(OfPage(frame, oled_at), page')
      BY <1>1, <2>1
    <3>2. PICK q \in Pages : q = page'
      BY <1>3
    <3>3. panel' = (panel \ OfPage(panel, q)) \cup ToPage(OfPage(frame, oled_at), q)
      BY <3>1, <3>2
    <3>4. ToPage(OfPage(frame, oled_at), q) \subseteq Cells
      BY <1>0, PageSent
    <3> QED BY <1>0, <3>3, <3>4
  <2>2. CASE ~sent
    BY <1>0, <1>1, <2>2
  <2> QED BY <2>1, <2>2
<1>6. OledPanelTypeOK'
  <2>1. oled_at' \in 0..Idle
    BY <1>0 DEF Pages, Idle
  <2> QED BY <1>0, <1>2, <1>3, <1>4a, <1>5, <2>1 DEF OledPanelTypeOK, Cells
<1>7. ASSUME update_ok', NEW p \in Pages, p < oled_at'
      PROVE  OfPage(panel', p) = OfPage(frame, p)
  <2>1. page' = oled_at /\ page' \in Pages
        /\ panel' = (panel \ OfPage(panel, page')) \cup ToPage(OfPage(frame, oled_at), page')
    BY <1>1, <1>3, <1>4, <1>7
  <2>2. /\ \A r \in Pages : r # oled_at => OfPage(panel', r) = OfPage(panel, r)
        /\ OfPage(panel', oled_at) = OfPage(frame, oled_at)
    <3>1. panel' = (panel \ OfPage(panel, oled_at)) \cup ToPage(OfPage(frame, oled_at), oled_at)
      BY <2>1
    <3> QED BY <1>0, <3>1, LineSent
  <2>3. p # oled_at => p < oled_at
    BY <1>0, <1>7 DEF Pages
  <2>4. p # oled_at => OfPage(panel, p) = OfPage(frame, p)
    BY <1>0, <1>4, <1>7, <2>3 DEF OledInv
  <2> QED BY <2>2, <2>4
<1>8. oled_at' # Idle
  BY <1>0 DEF Pages, Idle
<1>9. OledShows'
  BY <1>0, <1>8 DEF OledShows
<1> QED BY <1>0, <1>6, <1>7, <1>8, <1>9 DEF OledInv

\* An update that begins has written no page yet.
LEMMA UpdateBegins ==
    ASSUME OledInv, StartUpdate, frame' \subseteq Cells, oled_before' \subseteq Cells,
           astray' \in BOOLEAN,
           drawings' \in 0..MaxDrawings, oled_then' \in [x : Nat, y : Nat, l : Nat, h : Nat],
           oled_then' # NoRect => frame' = {} /\ oled_asked' = {} /\ ~astray',
           oled_asked' # {} /\ (\A d \in oled_asked' : d[1] > 0) =>
                frame' = UNION {DrawPixelDot(d[1] - 1, d[2] - 1) : d \in oled_asked'},
           astray' => \E d \in oled_asked' : d[1] = 0
    PROVE  OledInv'
<1>1. /\ oled_at' = 0 /\ oled_at' # Idle /\ oled_at' \in 0..Idle /\ update_ok' = TRUE
      /\ UNCHANGED <<panel, page, bus_errors>>
  BY DEF StartUpdate, Idle
<1>2. OledPanelTypeOK'
  BY <1>1 DEF OledInv, OledPanelTypeOK, Cells
<1>3. OledShows'
  BY <1>1 DEF OledShows
<1>4. \A p \in Pages : ~(p < oled_at')
  BY <1>1 DEF Pages
<1> QED BY <1>1, <1>2, <1>3, <1>4 DEF OledInv

LEMMA RectangleStep == OledInv /\ DrawRectangle => OledInv'
<1> SUFFICES ASSUME OledInv, DrawRectangle PROVE OledInv'
  OBVIOUS
<1> DEFINE r == oled_then
           dots == Rectangle(r.x, r.y, r.l, r.h)
           asked == {d \in (r.x..r.x + r.l - 1) \X (r.y..r.y + r.h - 1) : d[2] > 0}
<1>1. /\ oled_then # NoRect /\ RectFits(oled_then) /\ oled_then' = NoRect /\ StartUpdate
      /\ frame' = frame \cup {d \in dots : InBuffer(d)}
      /\ astray' = (\E d \in dots : ~InBuffer(d))
      /\ oled_asked' = asked /\ oled_before' = oled_before
      /\ drawings' = drawings
  BY DEF DrawRectangle
<1>2. /\ r.x \in Nat /\ r.y \in Nat /\ r.l \in Nat /\ r.h \in Nat
      /\ r.x + r.l < OledWidth - 1 /\ r.y + r.h < OledHeight - 1
      /\ frame' = {d \in dots : InBuffer(d)} /\ drawings' \in 0..MaxDrawings
      /\ oled_before' \subseteq Cells
  BY <1>1 DEF OledInv, RectFits, OledPanelTypeOK, Cells
<1>3. astray' \in BOOLEAN
  BY <1>1
<1>4. ASSUME NEW i \in 0..r.l - 1, NEW j \in 0..r.h - 1
      PROVE  /\ r.x + i \in Nat /\ r.y + j \in Nat /\ r.x + i < OledWidth /\ r.y + j < OledHeight
             /\ r.x + i \in r.x..r.x + r.l - 1 /\ r.y + j \in r.y..r.y + r.h - 1
  BY <1>2, WidthOfOled DEF OledHeight
<1>5. ASSUME NEW X \in Nat, NEW Y \in Nat, X >= 1, Y >= 1, X < OledWidth, Y < OledHeight
      PROVE  /\ SetPoxel(X, Y) = DrawPixelDot(X - 1, Y - 1)
             /\ \A d \in SetPoxel(X, Y) : d \in Cells /\ InBuffer(d)
  <2>1. SetPoxel(X, Y) = DrawPixelDot(X - 1, Y - 1)
    BY <1>5, PoxelIsDot
  <2>2. DrawPixelDot(X - 1, Y - 1) \subseteq Cells
    BY <1>5, DotInBuffer
  <2> QED BY <2>1, <2>2 DEF Cells, InBuffer
<1>6. \A X \in Nat : SetPoxel(X, 0) = {}
  BY DEF SetPoxel
<1>7. ASSUME NEW d \in dots
      PROVE  \E c \in asked : d \in SetPoxel(c[1], c[2]) /\ c[1] \in Nat /\ c[2] \in Nat
                              /\ c[2] >= 1 /\ c[1] < OledWidth /\ c[2] < OledHeight
  <2>1. PICK i \in 0..r.l - 1, j \in 0..r.h - 1 : d \in SetPoxel(r.x + i, r.y + j)
    BY DEF Rectangle
  <2>2. r.y + j # 0
    BY <1>4, <1>6, <2>1
  <2>3. <<r.x + i, r.y + j>> \in asked
    BY <1>4, <2>2
  <2> DEFINE c == <<r.x + i, r.y + j>>
  <2>4. c[1] = r.x + i /\ c[2] = r.y + j
    OBVIOUS
  <2>5. r.y + j >= 1
    BY <1>4, <2>2
  <2> QED BY <1>4, <2>1, <2>3, <2>4, <2>5
<1>8. ASSUME NEW c \in asked
      PROVE  /\ c[1] \in Nat /\ c[2] \in Nat /\ c[2] >= 1 /\ c[1] < OledWidth /\ c[2] < OledHeight
             /\ SetPoxel(c[1], c[2]) \subseteq dots
  <2>1. c[1] \in r.x..r.x + r.l - 1 /\ c[2] \in r.y..r.y + r.h - 1 /\ c[2] > 0
    OBVIOUS
  <2>2. PICK i \in 0..r.l - 1 : c[1] = r.x + i
    <3>1. c[1] - r.x \in 0..r.l - 1 /\ c[1] = r.x + (c[1] - r.x)
      BY <1>2, <2>1
    <3> QED BY <3>1
  <2>3. PICK j \in 0..r.h - 1 : c[2] = r.y + j
    <3>1. c[2] - r.y \in 0..r.h - 1 /\ c[2] = r.y + (c[2] - r.y)
      BY <1>2, <2>1
    <3> QED BY <3>1
  <2>4. SetPoxel(c[1], c[2]) \subseteq dots
    BY <2>2, <2>3 DEF Rectangle
  <2>5. c[2] >= 1 /\ c[1] \in Nat /\ c[2] \in Nat
    BY <1>2, <2>1
  <2> QED BY <1>4, <2>2, <2>3, <2>4, <2>5
<1> HIDE DEF asked, dots
<1>9. frame' \subseteq Cells
  <2> SUFFICES ASSUME NEW d \in dots, InBuffer(d) PROVE d \in Cells
    BY <1>2
  <2>1. PICK c \in asked : d \in SetPoxel(c[1], c[2]) /\ c[1] \in Nat /\ c[2] \in Nat
                              /\ c[2] >= 1 /\ c[1] < OledWidth /\ c[2] < OledHeight
    BY <1>7
  <2>2. d[2] \in 0..7 /\ d = <<d[1], d[2]>>
    <3>1. OledHeight \div 8 = 8 /\ c[2] # 0
      BY <2>1 DEF OledHeight
    <3>2. d = <<((c[2] - 1) \div 8) * OledWidth + c[1] - 1, ((c[2] - 1) % 8)>>
      BY <2>1, <3>1 DEF SetPoxel
    <3>3. ((c[2] - 1) % 8) \in 0..7
      BY <2>1
    <3> QED BY <3>2, <3>3
  <2> QED BY <2>2 DEF InBuffer, Cells
<1>10. ASSUME \A c \in asked : c[1] > 0
       PROVE  frame' = UNION {DrawPixelDot(c[1] - 1, c[2] - 1) : c \in asked}
  <2>1. \A c \in asked : /\ SetPoxel(c[1], c[2]) = DrawPixelDot(c[1] - 1, c[2] - 1)
                         /\ \A d \in SetPoxel(c[1], c[2]) : InBuffer(d)
                         /\ SetPoxel(c[1], c[2]) \subseteq dots
    <3> SUFFICES ASSUME NEW c \in asked
                 PROVE  /\ SetPoxel(c[1], c[2]) = DrawPixelDot(c[1] - 1, c[2] - 1)
                        /\ \A d \in SetPoxel(c[1], c[2]) : InBuffer(d)
                        /\ SetPoxel(c[1], c[2]) \subseteq dots
      OBVIOUS
    <3>1. c[1] \in Nat /\ c[2] \in Nat /\ c[1] >= 1 /\ c[2] >= 1 /\ c[1] < OledWidth
          /\ c[2] < OledHeight /\ SetPoxel(c[1], c[2]) \subseteq dots
      BY <1>8, <1>10
    <3> QED BY <1>5, <3>1
  <2>2. \A d \in dots : \E c \in asked : d \in SetPoxel(c[1], c[2])
    BY <1>7
  <2> QED BY <1>2, <2>1, <2>2, Zenon
<1>11. astray' => \E c \in asked : c[1] = 0
  <2> SUFFICES ASSUME NEW d \in dots, ~InBuffer(d) PROVE \E c \in asked : c[1] = 0
    BY <1>1
  <2>1. PICK c \in asked : d \in SetPoxel(c[1], c[2]) /\ c[1] \in Nat /\ c[2] \in Nat
                              /\ c[2] >= 1 /\ c[1] < OledWidth /\ c[2] < OledHeight
    BY <1>7
  <2>2. ~(c[1] >= 1)
    BY <1>5, <2>1
  <2> QED BY <2>1, <2>2
<1>12. NoRect \in [x : Nat, y : Nat, l : Nat, h : Nat]
  BY DEF NoRect
<1> QED BY <1>1, <1>2, <1>3, <1>9, <1>10, <1>11, <1>12, UpdateBegins

LEMMA OledStep == OledInv /\ [OledPanelNext]_oled_vars => OledInv'
<1> SUFFICES ASSUME OledInv, [OledPanelNext]_oled_vars PROVE OledInv'
  OBVIOUS
<1>0. /\ OledPanelTypeOK /\ OledShows /\ frame \in SUBSET Cells /\ panel \in SUBSET Cells
      /\ drawings \in 0..MaxDrawings /\ astray \in BOOLEAN /\ oled_before \in SUBSET Cells
      /\ oled_then \in [x : Nat, y : Nat, l : Nat, h : Nat]
      /\ OledFontW \in Nat
  BY OledPanelAssumption DEF OledInv, OledPanelTypeOK, Cells
<1>0a. drawings < MaxDrawings => drawings + 1 \in 0..MaxDrawings
  BY <1>0, OledPanelAssumption
<1>0b. NoRect \in [x : Nat, y : Nat, l : Nat, h : Nat]
  BY DEF NoRect
<1>1. CASE UNCHANGED oled_vars
  BY <1>1 DEF oled_vars, OledInv, OledPanelTypeOK, OledShows
<1>2. CASE UpdateLine
  BY <1>2, LineStep
<1>3. CASE UpdateOver
  <2>1. /\ oled_at = 8 /\ oled_then = NoRect /\ oled_at' = Idle
        /\ UNCHANGED <<oled_then, frame, astray, panel, page, oled_asked, oled_before, bus_errors,
                       update_ok, drawings>>
    BY <1>3 DEF UpdateOver
  <2>2. update_ok => panel = frame
    <3> SUFFICES ASSUME update_ok PROVE panel = frame
      OBVIOUS
    <3>1. \A p \in Pages : p < oled_at /\ oled_at # Idle
      BY <2>1 DEF Pages, Idle
    <3>2. \A p \in Pages : OfPage(panel, p) = OfPage(frame, p)
      BY <3>1, <2>1 DEF OledInv, Idle
    <3> QED BY <1>0, <3>2, PagesMakePanel
  <2>3. OledShows'
    BY <1>0, <2>1, <2>2 DEF OledShows
  <2>4. OledPanelTypeOK'
    BY <1>0, <2>1 DEF OledPanelTypeOK, Idle
  <2> QED BY <2>1, <2>3, <2>4 DEF OledInv
<1>4. CASE ShowRectangle
  <2>1. /\ drawings < MaxDrawings /\ drawings' = drawings + 1 /\ frame' = {} /\ StartUpdate
        /\ oled_asked' = {} /\ oled_before' = frame /\ astray' = FALSE
    BY <1>4 DEF ShowRectangle
  <2>2. oled_then' \in [x : Nat, y : Nat, l : Nat, h : Nat]
    <3>1. PICK x \in OledXs, y \in OledYs, l \in OledSides, h \in OledSides :
               oled_then' = [x |-> x, y |-> y, l |-> l, h |-> h]
      BY <1>4 DEF ShowRectangle
    <3> QED BY <3>1, OledPanelAssumption
  <2> QED BY <1>0, <1>0a, <2>1, <2>2, UpdateBegins
<1>5. CASE DrawRectangle
  BY <1>5, RectangleStep
<1>6. CASE RefuseRectangle
  <2>1. /\ oled_then # NoRect /\ frame' = frame \cup HelpDots /\ oled_then' = NoRect /\ StartUpdate
        /\ UNCHANGED <<astray, oled_asked, oled_before, drawings>>
    BY <1>6 DEF RefuseRectangle
  <2>2. HelpDots \subseteq Cells
    <3>1. ASSUME NEW n \in 1..6, NEW i \in HelpShown(n), NEW dx \in 0..OledFontW - 1,
                 NEW dy \in 0..OledFontH - 1
          PROVE  DrawPixelDot(i * OledFontW + dx, (n - 1) * OledFontH + dy) \subseteq Cells
      <4>1. i \in Nat
        BY DEF HelpShown
      <4>2. i * OledFontW + dx \in Nat
        BY <1>0, <4>1
      <4>3. (n - 1) * OledFontH + dy \in Nat
        BY DEF OledFontH
      <4> QED BY <4>2, <4>3, DotInBuffer
    <3>2. ASSUME NEW n \in 1..6, NEW d \in HelpLine(n) PROVE d \in Cells
      <4>1. PICK i \in HelpShown(n), dx \in 0..OledFontW - 1, dy \in 0..OledFontH - 1 :
                 d \in DrawPixelDot(i * OledFontW + dx, (n - 1) * OledFontH + dy)
        BY DEF HelpLine
      <4> QED BY <3>1, <4>1
    <3> QED BY <3>2, Zenon DEF HelpDots
  <2>3. oled_asked = {} /\ ~astray
    BY <2>1 DEF OledInv
  <2>4. frame' \subseteq Cells
    BY <1>0, <2>1, <2>2
  <2> QED BY <1>0, <1>0b, <2>1, <2>3, <2>4, UpdateBegins
<1>7. CASE ShowChar
  <2>1. PICK x \in OledXs, y \in OledYs :
             frame' = frame \cup CharDots(x, y)
    BY <1>7 DEF ShowChar
  <2>2. \A i \in 0..OledFontH - 1, j \in 0..OledFontW - 1 : DrawPixelDot(x + j, y + i) \subseteq Cells
    <3> SUFFICES ASSUME NEW i \in 0..OledFontH - 1, NEW j \in 0..OledFontW - 1
                 PROVE  DrawPixelDot(x + j, y + i) \subseteq Cells
      OBVIOUS
    <3>1. x \in Nat /\ y \in Nat
      BY OledPanelAssumption
    <3>2. x + j \in Nat /\ y + i \in Nat
      BY <3>1
    <3> QED BY <3>2, DotInBuffer
  <2>3. frame' \subseteq Cells
    <3>1. CharDots(x, y) \subseteq Cells
      BY <2>2 DEF CharDots
    <3> QED BY <1>0, <2>1, <3>1
  <2>4. /\ drawings < MaxDrawings /\ drawings' = drawings + 1 /\ StartUpdate
        /\ oled_asked' = {} /\ oled_before' = {} /\ astray' = FALSE /\ UNCHANGED oled_then
        /\ oled_at = Idle
    BY <1>7 DEF ShowChar
  <2>5. oled_then = NoRect
    BY <2>4 DEF OledInv
  <2> QED BY <1>0a, <1>0b, <2>3, <2>4, <2>5, UpdateBegins
<1>8. CASE FillOled
  <2>1. /\ drawings < MaxDrawings /\ drawings' = drawings + 1 /\ StartUpdate
        /\ oled_asked' = {} /\ oled_before' = {} /\ astray' = FALSE /\ UNCHANGED oled_then
        /\ oled_at = Idle
    BY <1>8 DEF FillOled
  <2>2. frame' \subseteq Cells
    BY <1>0, <1>8 DEF FillOled, Cells
  <2>3. oled_then = NoRect
    BY <2>1 DEF OledInv
  <2> QED BY <1>0a, <1>0b, <2>1, <2>2, <2>3, UpdateBegins
<1> QED BY <1>1, <1>2, <1>3, <1>4, <1>5, <1>6, <1>7, <1>8 DEF OledPanelNext

-----------------------------------------------------------------------------
(* The lines of text.                                                       *)

\* The buffer holds every line so far, whole; and an update without an error
\* shows the buffer up to the page it has reached, unless the last line was cut.
OlInv ==
    /\ OledLessonTypeOK
    /\ ol_panel = [p \in OlPages |-> ol_panel[p]]
    /\ ol_frame = UNION {OlDrawn(line) : line \in 1..ol_line}
    /\ ol_ok /\ (ol_line > 0 => ~OlCut(ol_line)) =>
            \A p \in OlPages : p < ol_update => ol_panel[p] = OlPageOf(p)

LEMMA OlRowsAre ==
    /\ Len(OlRows) = 4
    /\ \A m \in 1..4, n \in 1..4 : m < n => OlRows[m] \in Nat /\ OlRows[n] \in Nat /\ OlRows[n] > OlRows[m] + 9
<1>1. Len(OlRows) = 4 /\ OlRows[1] = 0 /\ OlRows[2] = 15 /\ OlRows[3] = 30 /\ OlRows[4] = 45
  BY DEF OlRows
<1> QED BY <1>1

LEMMA OlStart == OledLessonInit => OlInv
<1> SUFFICES ASSUME OledLessonInit PROVE OlInv
  OBVIOUS
<1>1. OledLessonTypeOK
  <2>1. \A p \in OlPages : ol_panel[p].of = 0
    BY DEF OledLessonInit
  <2> QED BY <2>1, OlRowsAre, OledLessonAssumption DEF OledLessonInit, OledLessonTypeOK, OlPages
<1>2. ol_panel = [p \in OlPages |-> ol_panel[p]]
  BY DEF OledLessonInit
<1>3. ol_frame = UNION {OlDrawn(line) : line \in 1..ol_line}
  <2>1. 1..0 = {}
    OBVIOUS
  <2> QED BY <2>1 DEF OledLessonInit
<1>4. \A p \in OlPages : ~(p < ol_update)
  BY DEF OledLessonInit, OlPages
<1> QED BY <1>1, <1>2, <1>3, <1>4 DEF OlInv

LEMMA OlLineStep == OlInv /\ OlUpdateLine => OlInv'
<1> SUFFICES ASSUME OlInv, OlUpdateLine PROVE OlInv'
  OBVIOUS
<1>0. /\ OledLessonTypeOK /\ ol_panel = [p \in OlPages |-> ol_panel[p]]
      /\ ol_update \in OlPages /\ ol_update' = ol_update + 1
      /\ UNCHANGED <<ol_line, ol_lengths, ol_frame>>
  BY DEF OlInv, OlUpdateLine
<1>1. PICK told \in BOOLEAN, sent \in BOOLEAN :
         /\ ol_errors' = ol_errors + (IF told THEN 0 ELSE 1) + (IF sent THEN 0 ELSE 1)
         /\ ol_errors' <= OlErrors
         /\ ol_page' \in IF told THEN {ol_update} ELSE {ol_page, (ol_page + 1) % 8}
         /\ ol_panel' = IF sent THEN [ol_panel EXCEPT ![ol_page'] = OlPageOf(ol_update)]
                                ELSE ol_panel
         /\ ol_ok' = (told /\ sent /\ (ol_ok \/ ol_update = 0))
  BY DEF OlUpdateLine
<1>2. PICK q \in OlPages : ol_page' = q
  <2>1. ol_page \in 0..7 /\ ol_update \in 0..7
    BY <1>0 DEF OledLessonTypeOK, OlPages
  <2>2. ol_page' \in {ol_update, ol_page, (ol_page + 1) % 8}
    BY <1>1
  <2>3. ((ol_page + 1) % 8) \in 0..7
    BY <2>1
  <2> QED BY <2>1, <2>2, <2>3 DEF OlPages
<1>3. ol_panel' = IF sent THEN [ol_panel EXCEPT ![q] = OlPageOf(ol_update)] ELSE ol_panel
  BY <1>1, <1>2
<1>4. OlPageOf(ol_update).of \in OlPages
  BY <1>0 DEF OlPageOf
<1>5. /\ ol_panel' = [p \in OlPages |-> ol_panel'[p]]
      /\ \A p \in OlPages : ol_panel'[p] = IF sent /\ p = q THEN OlPageOf(ol_update) ELSE ol_panel[p]
  BY <1>0, <1>3
<1>6. OledLessonTypeOK'
  <2>1. \A p \in OlPages : ol_panel'[p].of \in OlPages
    BY <1>0, <1>4, <1>5 DEF OledLessonTypeOK
  <2>2. ol_update' \in 0..8
    BY <1>0 DEF OlPages
  <2>3. ol_errors' \in 0..OlErrors
    BY <1>0, <1>1, OledLessonAssumption DEF OledLessonTypeOK
  <2>4. ol_ok' \in BOOLEAN
    BY <1>0, <1>1 DEF OledLessonTypeOK
  <2> QED BY <1>0, <1>2, <2>1, <2>2, <2>3, <2>4 DEF OledLessonTypeOK
<1>7. ASSUME ol_ok', ol_line > 0 => ~OlCut(ol_line), NEW p \in OlPages, p < ol_update'
      PROVE  ol_panel'[p] = OlPageOf(p)
  <2>1. told /\ sent /\ (ol_ok \/ ol_update = 0)
    BY <1>1, <1>7
  <2>2. q = ol_update
    BY <1>1, <1>2, <2>1
  <2>3. CASE p = ol_update
    BY <1>5, <2>1, <2>2, <2>3
  <2>4. CASE p # ol_update
    <3>1. p < ol_update /\ ol_update # 0
      BY <1>0, <1>7, <2>4 DEF OlPages
    <3> QED BY <1>5, <1>7, <2>1, <2>2, <2>4, <3>1 DEF OlInv
  <2> QED BY <2>3, <2>4
<1>8. \A p \in OlPages : OlPageOf(p)' = OlPageOf(p)
  BY <1>0 DEF OlPageOf
<1>9. (\A line \in 1..ol_line : OlDrawn(line)' = OlDrawn(line)) /\ OlCut(ol_line)' = OlCut(ol_line)
  BY <1>0 DEF OlDrawn, OlFit, OlCut
<1>10. (ol_frame = UNION {OlDrawn(line) : line \in 1..ol_line})'
  BY <1>0, <1>9 DEF OlInv
<1> QED BY <1>0, <1>5, <1>6, <1>7, <1>8, <1>9, <1>10 DEF OlInv

LEMMA OlStrStep == OlInv /\ OlShowStr => OlInv'
<1> SUFFICES ASSUME OlInv, OlShowStr PROVE OlInv'
  OBVIOUS
<1> DEFINE n == ol_line + 1
<1>0. /\ OledLessonTypeOK /\ ol_panel = [p \in OlPages |-> ol_panel[p]]
      /\ ol_line \in 0..3 /\ ol_line' = n /\ ol_frame' = OlDraw(n)
      /\ ol_update' = (IF OlCut(n) THEN 8 ELSE 0)
      /\ UNCHANGED <<ol_lengths, ol_panel, ol_page, ol_ok, ol_errors>>
  BY OlRowsAre DEF OlInv, OlShowStr, OledLessonTypeOK
<1>1. n \in 1..4 /\ n > 0 /\ \A m \in 1..ol_line : m \in 1..4 /\ m < n
  BY <1>0
<1>2. OledLessonTypeOK'
  <2>1. ol_line' \in 0..Len(OlRows) /\ ol_update' \in 0..8
    BY <1>0, <1>1, OlRowsAre
  <2> QED BY <1>0, <2>1 DEF OledLessonTypeOK
<1>3. \A line \in Nat : OlDrawn(line)' = OlDrawn(line)
  BY <1>0 DEF OlDrawn, OlFit
<1>4. ASSUME NEW m \in 1..ol_line, NEW d \in OlDrawn(m), NEW c \in OlDrawn(n)
      PROVE  ~OlCovers(c, d)
  <2>1. c.y = OlRows[n] /\ d.y = OlRows[m]
    BY DEF OlDrawn
  <2>2. OlRows[m] \in Nat /\ OlRows[n] \in Nat /\ OlRows[n] > OlRows[m] + 9
    BY <1>1, OlRowsAre
  <2>3. ~(c.y - 9 <= d.y)
    BY <2>1, <2>2
  <2> QED BY <2>3 DEF OlCovers
<1>5. OlDraw(n) = ol_frame \cup OlDrawn(n)
  <2>1. \A d \in ol_frame : \E m \in 1..ol_line : d \in OlDrawn(m)
    BY DEF OlInv
  <2> HIDE DEF n
  <2>2. \A d \in ol_frame : \A c \in OlDrawn(n) : ~OlCovers(c, d)
    BY <1>4, <2>1
  <2> QED BY <2>2 DEF OlDraw
<1>6. 1..n = (1..ol_line) \cup {n}
  BY <1>0
<1>7. ol_frame' = UNION {OlDrawn(line) : line \in 1..n}
  <2>1. ol_frame = UNION {OlDrawn(line) : line \in 1..ol_line}
    BY DEF OlInv
  <2> HIDE DEF n
  <2> QED BY <1>0, <1>5, <1>6, <2>1
<1>8. (ol_frame = UNION {OlDrawn(line) : line \in 1..ol_line})'
  BY <1>0, <1>3, <1>7
<1>9. (ol_ok /\ (ol_line > 0 => ~OlCut(ol_line)))' => \A p \in OlPages : ~(p < ol_update')
  BY <1>0, <1>1 DEF OlPages, OlCut
<1> QED BY <1>0, <1>2, <1>3, <1>8, <1>9 DEF OlInv

LEMMA OlStep == OlInv /\ [OledLessonNext]_ol_vars => OlInv'
<1> SUFFICES ASSUME OlInv, UNCHANGED ol_vars PROVE OlInv'
  BY OlLineStep, OlStrStep DEF OledLessonNext
<1>1. UNCHANGED <<ol_line, ol_update, ol_lengths, ol_frame, ol_panel, ol_page, ol_ok, ol_errors>>
  BY DEF ol_vars
<1> QED BY <1>1 DEF OlInv, OledLessonTypeOK, OlDrawn, OlFit, OlCut, OlPageOf

LEMMA OlHolds == OlInv => OlShows
<1>1. \A p \in OlPages : ol_update = 8 => p < ol_update
  BY DEF OlPages
<1> QED BY <1>1 DEF OlInv, OlShows
=============================================================================
