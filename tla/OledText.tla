------------------------------ MODULE OledText ------------------------------
(***************************************************************************)
(* How the OLED shows a text: bsp_oled_queue_str cuts it into rows of an   *)
(* array str_6 on its stack and bsp_oled_show_str draws each row into      *)
(* g_oled_buffer, which bsp_oled_update_screen sends to the display.       *)
(*                                                                         *)
(* A text of n characters is 1..n: a character is its position, 0 is the   *)
(* terminating NUL.  A write outside str_6 is recorded and has no other    *)
(* effect here; what it does in C is undefined, so nothing is claimed of   *)
(* the state after it.                                                     *)
(***************************************************************************)
EXTENDS Integers, Sequences

CONSTANTS
    Rows, Cols,     \* str_6[6][19]: six rows of eighteen characters and a NUL
    CharW, CharH,   \* Font_7x10
    RowStep,        \* distance of the rows on the display, 10
    ScreenW, ScreenH,
    MaxText         \* the longest text to consider (a message holds 1023)

ASSUME OledTextAssumption ==
    /\ Rows \in Nat \ {0} /\ Cols \in Nat \ {0}
    /\ CharW \in Nat /\ CharH \in Nat /\ RowStep \in Nat
    /\ ScreenW \in Nat /\ ScreenH \in Nat /\ MaxText \in Nat

VARIABLES
    text_n,        \* the length of the text
    text_at,       \* where the function is
    text_i,        \* index into the text
    str_6_h,
    str_6_l,
    str_6,
    text_outside,  \* something was written outside str_6
    text_row,      \* the next row to show
    text_frame,    \* the rows in g_oled_buffer
    text_screen    \* the rows on the display

index_vars == <<text_i, str_6_h, str_6_l>>
show_vars  == <<text_row, text_frame, text_screen>>
text_vars == <<text_n, text_at, index_vars, str_6, text_outside, show_vars>>

RowIndex == 0..(Rows - 1)
ColIndex == 0..Cols

TextTypeOK ==
    /\ text_n \in Nat
    /\ text_at \in {"fill", "pad", "show", "done"}
    /\ text_i \in Nat /\ str_6_h \in Nat /\ str_6_l \in Nat
    /\ str_6 \in [RowIndex -> [ColIndex -> Nat]]
    /\ text_outside \in BOOLEAN
    /\ text_row \in 0..Rows
    /\ text_frame \in [RowIndex -> Seq(Nat)]
    /\ text_screen \in [RowIndex -> Seq(Nat)]

-----------------------------------------------------------------------------
(* Deliberate faults, used by no specification.                             *)

\* The row is ended where its NUL belongs, or one further.
RowFullAtNul == str_6_l + 1 > Cols

RowFullPastNul == str_6_l + 1 > Cols + 1

-----------------------------------------------------------------------------
\* bsp_oled_clear has blanked the frame and the display.
TextInit ==
    /\ text_n \in 1..MaxText
    /\ text_at = "fill"
    /\ text_i = 0 /\ str_6_h = 0 /\ str_6_l = 0
    /\ str_6 = [r \in RowIndex |-> [c \in ColIndex |-> 0]]
    /\ text_outside = FALSE
    /\ text_row = 0
    /\ text_frame = [r \in RowIndex |-> <<>>]
    /\ text_screen = [r \in RowIndex |-> <<>>]

-----------------------------------------------------------------------------
InArray(r, c) == r \in RowIndex /\ c \in ColIndex

Put(a, r, c, chr) == [q \in RowIndex |-> [d \in ColIndex |->
                         IF q = r /\ d = c THEN chr ELSE a[q][d]]]

\* "height out of bounds": the loop is left one row too late.
TooHigh == str_6_h > Rows

\* A row is full after its last column.
RowFull == str_6_l + 1 > Cols - 1

Fill ==
    /\ text_at = "fill"
    /\ text_i < text_n /\ ~TooHigh
    /\ text_i' = text_i + 1
    /\ IF RowFull
       THEN /\ str_6' = Put(Put(str_6, str_6_h, str_6_l, text_i + 1), str_6_h, Cols, 0)
            /\ str_6_h' = str_6_h + 1
            /\ str_6_l' = 0
       ELSE /\ str_6' = Put(str_6, str_6_h, str_6_l, text_i + 1)
            /\ str_6_l' = str_6_l + 1
            /\ UNCHANGED str_6_h
    /\ text_outside' = (text_outside \/ ~InArray(str_6_h, str_6_l))
    /\ UNCHANGED <<text_n, text_at, show_vars>>

FillEnd ==
    /\ text_at = "fill"
    /\ text_i = text_n \/ TooHigh
    /\ text_at' = "pad"
    /\ UNCHANGED <<text_n, index_vars, str_6, text_outside, show_vars>>

\* The final NUL goes one column past the next free one.
Pad ==
    /\ text_at = "pad"
    /\ str_6' = Put(str_6, str_6_h, str_6_l + 1, 0)
    /\ text_outside' = (text_outside \/ ~InArray(str_6_h, str_6_l + 1))
    /\ text_at' = "show"
    /\ UNCHANGED <<text_n, index_vars, show_vars>>

-----------------------------------------------------------------------------
(* bsp_oled_show_str(0, 10 * row, str_6[row]).                              *)

\* bsp_oled_show_char draws the character at column c, or refuses.
CharFits(r, c) == ScreenW > c * CharW + CharW /\ ScreenH > r * RowStep + CharH

\* The array is no larger than the display: 18 * 7 < 128 and 5 * 10 + 10 < 64.
ASSUME FontFits == \A r \in RowIndex : \A c \in 0..(Cols - 1) : CharFits(r, c)

\* The string ends at its first NUL.
StrEnd(r) == CHOOSE c \in ColIndex : str_6[r][c] = 0 /\ \A d \in 0..(c - 1) : str_6[r][d] # 0

TextDrawn(r) ==
    IF \A c \in 0..(StrEnd(r) - 1) : CharFits(r, c) THEN StrEnd(r)
    ELSE CHOOSE c \in 0..(StrEnd(r) - 1) : ~CharFits(r, c) /\ \A d \in 0..(c - 1) : CharFits(r, d)

\* A refused character ends the function before it updates the display.
ShowStr ==
    /\ text_at = "show"
    /\ text_row < Rows
    /\ text_frame' = [text_frame EXCEPT ![text_row] =
                          [c \in 1..TextDrawn(text_row) |-> str_6[text_row][c - 1]]]
    /\ text_screen' = IF TextDrawn(text_row) = StrEnd(text_row) THEN text_frame' ELSE text_screen
    /\ text_row' = text_row + 1
    /\ UNCHANGED <<text_n, text_at, index_vars, str_6, text_outside>>

TextReturn ==
    /\ text_at = "show"
    /\ text_row = Rows
    /\ text_at' = "done"
    /\ UNCHANGED <<text_n, index_vars, str_6, text_outside, show_vars>>

TextNext == Fill \/ FillEnd \/ Pad \/ ShowStr \/ TextReturn

TextSpec == TextInit /\ [][TextNext]_text_vars

-----------------------------------------------------------------------------
(* Properties.                                                              *)

\* A text that leaves the last cell of the last row free is never written
\* outside the array, neither by the loop nor by the final NUL.
InBounds == text_n < Rows * Cols => ~text_outside

\* The text of row r: the characters whose position falls in it.
RowLen(r) ==
    IF text_n < r * Cols THEN 0 ELSE IF text_n < r * Cols + Cols THEN text_n - r * Cols ELSE Cols

RowText(r) == [c \in 1..RowLen(r) |-> r * Cols + c]

\* What such a text looks like when the function returns: every character is
\* on the display, row after row, none lost at a row end or left undisplayed.
TextShown ==
    text_at = "done" /\ text_n < Rows * Cols =>
        text_screen = [r \in RowIndex |-> RowText(r)]

\* Comment on the guard of the loop: a text too high for the display ends
\* the loop ("height out of bounds"), so no text is written outside.
HeightGuarded == ~text_outside
=============================================================================
