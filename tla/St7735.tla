------------------------------- MODULE St7735 -------------------------------
(***************************************************************************)
(* The drawing of components/hans_st7735/bsp_st7735.c.  Every operation    *)
(* sets a window in the memory of the panel and sends the pixels that fill *)
(* it.  The memory has two columns and one row before the visible part,    *)
(* and a window's corners are bytes.                                       *)
(*                                                                         *)
(* A drawing is a set of strokes: the block of the panel's memory that is  *)
(* filled and the block of the screen that was asked for.  A block is      *)
(* given by its first and last column and its first and last row.  Colours *)
(* are left out.                                                           *)
(***************************************************************************)
EXTENDS Integers, FiniteSetsExt

CONSTANTS
    LcdWidth, LcdHeight, \* 128 and 128 in the code
    LcdXs, LcdYs,        \* coordinates to try, on the screen and beyond it
    LcdBefore,           \* how many columns and rows before the screen to try
    LcdSides,            \* widths and heights to try
    LcdSizes,            \* sizes of characters to try
    LcdLengths           \* lengths of texts to try

ASSUME LcdAssumption ==
    /\ LcdWidth \in 1..128 /\ LcdHeight \in 1..128
    /\ LcdXs \subseteq Nat /\ LcdYs \subseteq Nat /\ LcdBefore \in Nat
    /\ LcdSides \subseteq Nat /\ LcdSizes \subseteq 1..10 /\ LcdLengths \subseteq Nat

Xs == (-LcdBefore..-1) \cup LcdXs
Ys == (-LcdBefore..-1) \cup LcdYs

VARIABLES
    lcd_at,      \* init, ready, drawn: a run has one drawing, they share nothing
    lcd,         \* the strokes of the last drawing
    lcd_overrun, \* it wrote past the end of display_buff
    lcd_count    \* st7735_draw_string: characters drawn, the count returned, and
                 \* the column behind the text

lcd_vars == <<lcd_at, lcd, lcd_overrun, lcd_count>>

LcdTypeOK ==
    /\ lcd_at \in {"init", "ready", "drawn"} /\ lcd_overrun \in BOOLEAN
    /\ \A s \in lcd : s.memory \in [1..4 -> 0..255]
    /\ lcd_count \in [drawn : Nat, told : Nat, end : Int]

LcdInit ==
    /\ lcd_at = "init" /\ lcd = {} /\ lcd_overrun = FALSE
    /\ lcd_count = [drawn |-> 0, told |-> 0, end |-> 0]

-----------------------------------------------------------------------------
(* Strokes.                                                                 *)

\* st7735_set_address_window: a coordinate is cut to a byte, the offset of the
\* visible part is added, and the sum is cut again.
Corner(v, offset) == ((v % 256) + offset) % 256

Window(x0, x1, y0, y1) == <<Corner(x0, 2), Corner(x1, 2), Corner(y0, 1), Corner(y1, 1)>>

\* The part of a side that is on the screen; it is cut at the far end only.
Clip(v, side, screen) == IF v + side - 1 >= screen THEN screen - v ELSE side

\* st7735_rect.
RectStrokes(x, y, w, h) ==
    LET x1 == x + Clip(x, w, LcdWidth) - 1
        y1 == y + Clip(y, h, LcdHeight) - 1
    IN IF x >= LcdWidth \/ y >= LcdHeight \/ x1 < x \/ y1 < y THEN {}
       ELSE {[memory |-> Window(x, x1, y, y1), asked |-> <<x, x + w - 1, y, y + h - 1>>,
               pixels |-> (x1 - x + 1) * (y1 - y + 1)]}

\* Its loop fills display_buff byte by byte, two at a time: one byte more than
\* it sends.
RectOverrun(x, y, w, h) ==
    /\ x < LcdWidth /\ y < LcdHeight
    /\ Clip(x, w, LcdWidth) * Clip(y, h, LcdHeight) >= LcdWidth * LcdHeight

\* st7735_draw_pixel: one pixel goes to the first corner of a window whose
\* other corner is always (1, 1).
PixelStrokes(x, y) ==
    IF x \in 0..LcdWidth - 1 /\ y \in 0..LcdHeight - 1
    THEN {[memory |-> Window(x, 1, y, 1), asked |-> <<x, x, y, y>>, pixels |-> 1]}
    ELSE {}

\* st7735_draw_char: five columns of eight dots, lit or of another background.
CharStrokes(x, y, size) ==
    IF x >= LcdWidth \/ y >= LcdHeight \/ x + 6 * size - 1 < 0 \/ y + 8 * size - 1 < 0
    THEN {}
    ELSE UNION {IF size = 1 THEN PixelStrokes(x + i, y + j)
                ELSE RectStrokes(x + i * size, y + j * size, size, size) : i \in 0..4, j \in 0..7}

\* st7735_draw_string stops behind the character that reaches the edge, and does
\* not count that one.
Cuts(column, size, length) == {n \in 1..length : column + n * size > 20}

Drawn(column, size, length) ==
    IF Cuts(column, size, length) = {} THEN length ELSE Min(Cuts(column, size, length))

StringStrokes(column, row, size, length) ==
    IF row > 15 THEN {}
    ELSE UNION {CharStrokes((column + k * size) * 6, row * 7, size) :
                    k \in 0..Drawn(column, size, length) - 1}

StringCount(column, row, size, length) ==
    IF row > 15 THEN [drawn |-> 0, told |-> 0, end |-> column]
    ELSE [drawn |-> Drawn(column, size, length),
          told  |-> IF Cuts(column, size, length) = {} THEN length
                    ELSE Drawn(column, size, length) - 1,
          end   |-> column + length * size]

-----------------------------------------------------------------------------
\* A white screen; st7735_fill_screen fills display_buff pixel by pixel.
FillScreen ==
    /\ lcd' = {[memory |-> Window(0, LcdWidth - 1, 0, LcdHeight - 1),
                asked  |-> <<0, LcdWidth - 1, 0, LcdHeight - 1>>,
                pixels |-> LcdWidth * LcdHeight]}
    /\ lcd_overrun' = FALSE

\* st7735_init: the bus, the reset, the table of commands, and a white screen.
LcdStart ==
    /\ lcd_at = "init" /\ lcd_at' = "ready"
    /\ FillScreen
    /\ UNCHANGED lcd_count

DrawRect ==
    /\ lcd_at = "ready" /\ lcd_at' = "drawn"
    /\ \E x \in Xs, y \in Ys, w, h \in LcdSides :
            lcd' = RectStrokes(x, y, w, h) /\ lcd_overrun' = RectOverrun(x, y, w, h)
    /\ UNCHANGED lcd_count

DrawPixel ==
    /\ lcd_at = "ready" /\ lcd_at' = "drawn"
    /\ \E x \in Xs, y \in Ys : lcd' = PixelStrokes(x, y)
    /\ lcd_overrun' = FALSE
    /\ UNCHANGED lcd_count

DrawChar ==
    /\ lcd_at = "ready" /\ lcd_at' = "drawn"
    /\ \E x \in Xs, y \in Ys, size \in LcdSizes : lcd' = CharStrokes(x, y, size)
    /\ lcd_overrun' = FALSE
    /\ UNCHANGED lcd_count

DrawString ==
    /\ lcd_at = "ready" /\ lcd_at' = "drawn"
    /\ \E column \in {0, 1, 10, 20, 21}, row \in {0, 15, 16}, size \in LcdSizes, length \in LcdLengths :
            /\ lcd' = StringStrokes(column, row, size, length)
            /\ lcd_count' = StringCount(column, row, size, length)
    /\ lcd_overrun' = FALSE

LcdNext == LcdStart \/ DrawRect \/ DrawPixel \/ DrawChar \/ DrawString

-----------------------------------------------------------------------------
\* A stroke that starts no further than the hidden columns and row begins where
\* was asked, the byte of a negative corner and the offset making up for each
\* other; and, unless it is one pixel, it ends there or at the edge, with as many
\* pixels as its window has places.
ShowsAsked(s) ==
    s.asked[1] >= -2 /\ s.asked[3] >= -1 =>
        /\ s.memory[1] = s.asked[1] + 2 /\ s.memory[3] = s.asked[3] + 1
        /\ s.pixels # 1 =>
              /\ s.memory[2] = Min({s.asked[2], LcdWidth - 1}) + 2
              /\ s.memory[4] = Min({s.asked[4], LcdHeight - 1}) + 1
              /\ s.pixels = (s.memory[2] - s.memory[1] + 1) * (s.memory[4] - s.memory[3] + 1)

\* The panel shows what was asked for and the window stays in the memory the
\* program knows; only a rectangle no smaller than the screen overruns
\* display_buff; and a text that ends before the edge returns the number of
\* characters drawn.  (One that reaches the edge returns one less than it drew.)
LcdExact ==
    /\ \A s \in lcd : ShowsAsked(s)
    /\ lcd_overrun => \E s \in lcd :
            (s.asked[2] - s.asked[1] + 1) * (s.asked[4] - s.asked[3] + 1) >= LcdWidth * LcdHeight
    /\ lcd_count.end <= 20 => lcd_count.told = lcd_count.drawn
=============================================================================
