--------------------------- MODULE OledTextProofs ---------------------------
(***************************************************************************)
(* Proofs about OledText, for every size of the array and every text: a    *)
(* text that leaves a cell of the last row free is written in bounds and   *)
(* shown completely.  The cell that character i goes to is (h, l) with     *)
(* h * Cols + l = i; everything follows from that.                         *)
(***************************************************************************)
EXTENDS OledText, TLAPS

USE OledTextAssumption DEF RowIndex, ColIndex

\* A greater row number means a greater position, by a row at least.
LEMMA RowOrder ==
    ASSUME NEW r \in Nat, NEW h \in Nat, r < h
    PROVE  r * Cols + Cols <= h * Cols
<1>1. (r + 1) * Cols <= h * Cols
  <2>1. PICK k \in Nat : h = (r + 1) + k
    BY SMT
  <2>2. h * Cols = (r + 1) * Cols + k * Cols
    BY <2>1, SMT
  <2>3. k * Cols >= 0 /\ k * Cols \in Int
    BY SMT
  <2> QED
    BY <2>2, <2>3, SMT
<1>2. (r + 1) * Cols = r * Cols + Cols
  BY SMT
<1> QED
  BY <1>1, <1>2, SMT

\* Two cells for the same position are the same cell.
LEMMA SameCell ==
    ASSUME NEW r \in Nat, NEW c \in 0..(Cols - 1), NEW h \in Nat, NEW l \in 0..(Cols - 1),
           r * Cols + c = h * Cols + l
    PROVE  r = h /\ c = l
<1>1. r * Cols \in Nat /\ h * Cols \in Nat
  BY SMT
<1>2. ~(r < h)
  BY RowOrder, <1>1, SMT
<1>3. ~(h < r)
  BY RowOrder, <1>1, SMT
<1> QED
  BY <1>1, <1>2, <1>3, SMT

\* A position that is below Rows * Cols is in one of the rows.
LEMMA InRows ==
    ASSUME NEW h \in Nat, NEW l \in Nat, h * Cols + l < Rows * Cols
    PROVE  h \in RowIndex
<1>1. h * Cols \in Nat /\ Rows * Cols \in Nat
  BY SMT
<1>2. ~(Rows < h)
  BY RowOrder, <1>1, SMT
<1>3. h # Rows
  BY <1>1, SMT
<1> QED
  BY <1>2, <1>3, SMT

-----------------------------------------------------------------------------
(* The inductive invariant.                                                 *)

\* What a cell holds once the first k characters have been placed.
CellAt(r, c, k) == IF c < Cols /\ r * Cols + c < k THEN r * Cols + c + 1 ELSE 0

\* Where the next character goes, and what the array holds so far.  Writes
\* outside the array change nothing in it, so this is true of any text.
TextPlaced ==
    /\ str_6_l < Cols
    /\ text_i <= text_n
    /\ str_6_h * Cols + str_6_l = text_i
    /\ str_6 = [r \in RowIndex |-> [c \in ColIndex |-> CellAt(r, c, text_i)]]

\* The characters of row r when k of them have been placed.
LenAt(r, k) ==
    IF k < r * Cols THEN 0 ELSE IF k < r * Cols + Cols THEN k - r * Cols ELSE Cols

\* The rows shown so far, and nothing below them.
TextRowsShown ==
    /\ text_screen = text_frame
    /\ text_frame = [r \in RowIndex |->
                   [c \in 1..(IF r < text_row THEN LenAt(r, text_i) ELSE 0) |-> r * Cols + c]]

\* No row is shown before the text is cut, and all have been at the end.
TextCounted ==
    /\ text_at \in {"fill", "pad"} => text_row = 0
    /\ text_at = "done" => text_row = Rows

TextSafe == text_n < Rows * Cols => ~text_outside /\ (text_at # "fill" => text_i = text_n)

TextInv ==
    /\ TextTypeOK
    /\ TextPlaced
    /\ TextRowsShown
    /\ TextCounted
    /\ TextSafe

-----------------------------------------------------------------------------
LEMMA RowLenType ==
    ASSUME NEW r \in Nat, NEW k \in Nat
    PROVE  LenAt(r, k) \in 0..Cols
<1>1. r * Cols \in Nat
  BY SMT
<1> QED
  BY <1>1, SMT DEF LenAt

\* The empty sequence, as a function.
LEMMA EmptyRow ==
    ASSUME NEW r \in RowIndex
    PROVE  [c \in 1..0 |-> r * Cols + c] = <<>>
  BY SMT

LEMMA TextStart == TextInit => TextInv
<1> SUFFICES ASSUME TextInit PROVE TextInv
  OBVIOUS
<1>1. TextTypeOK
  <2>1. text_n \in Nat /\ text_row \in 0..Rows
    BY OledTextAssumption DEF TextInit
  <2>2. str_6 \in [RowIndex -> [ColIndex -> Nat]]
    BY DEF TextInit
  <2>3. <<>> \in Seq(Nat)
    OBVIOUS
  <2>4. text_frame \in [RowIndex -> Seq(Nat)] /\ text_screen \in [RowIndex -> Seq(Nat)]
    BY <2>3 DEF TextInit
  <2> QED
    BY <2>1, <2>2, <2>4 DEF TextInit, TextTypeOK
<1>2. \A r \in Nat : r * Cols \in Nat
  BY SMT
<1>3. TextPlaced
  <2>1. 0 * Cols + 0 = 0
    BY SMT
  <2>2. \A r \in RowIndex : \A c \in ColIndex : CellAt(r, c, 0) = 0
    BY <1>2, SMT DEF CellAt
  <2> QED
    BY <2>1, <2>2 DEF TextInit, TextPlaced
<1>4. TextRowsShown
  <2>1. \A r \in RowIndex : ~(r < 0)
    BY SMT
  <2> QED
    BY <2>1, EmptyRow DEF TextInit, TextRowsShown
<1> QED
  BY <1>1, <1>3, <1>4 DEF TextInit, TextInv, TextSafe, TextCounted

\* One more character is placed at cell (h, l) of position k.
LEMMA PlaceOne ==
    ASSUME NEW k \in Nat, NEW h \in Nat, NEW l \in 0..(Cols - 1), h * Cols + l = k
    PROVE  Put([r \in RowIndex |-> [c \in ColIndex |-> CellAt(r, c, k)]], h, l, k + 1)
             = [r \in RowIndex |-> [c \in ColIndex |-> CellAt(r, c, k + 1)]]
<1> SUFFICES ASSUME NEW r \in RowIndex, NEW c \in ColIndex
             PROVE  (IF r = h /\ c = l THEN k + 1 ELSE CellAt(r, c, k)) = CellAt(r, c, k + 1)
  BY DEF Put
<1>1. r * Cols \in Nat
  BY SMT
<1>2. CASE r = h /\ c = l
  BY <1>2, SMT DEF CellAt
<1>3. CASE ~(r = h /\ c = l)
  <2>1. CASE c = Cols
    BY <2>1, <1>3, SMT DEF CellAt
  <2>2. CASE c \in 0..(Cols - 1)
    <3>1. r * Cols + c # k
      BY <2>2, <1>3, SameCell, SMT
    <3> QED
      BY <3>1, <1>1, <1>3, SMT DEF CellAt
  <2> QED
    BY <2>1, <2>2, SMT
<1> QED
  BY <1>2, <1>3

\* A NUL in the last column, or past the last character, changes nothing.
LEMMA PlaceNul ==
    ASSUME NEW k \in Nat, NEW h \in Nat, NEW d \in Nat,
           d >= Cols \/ h * Cols + d >= k
    PROVE  Put([r \in RowIndex |-> [c \in ColIndex |-> CellAt(r, c, k)]], h, d, 0)
             = [r \in RowIndex |-> [c \in ColIndex |-> CellAt(r, c, k)]]
<1> SUFFICES ASSUME NEW r \in RowIndex, NEW c \in ColIndex, r = h, c = d
             PROVE  CellAt(r, c, k) = 0
  BY DEF Put
<1> QED
  BY SMT DEF CellAt

-----------------------------------------------------------------------------
LEMMA FillInv == TextInv /\ Fill => TextInv'
<1> SUFFICES ASSUME TextInv, Fill PROVE TextInv'
  OBVIOUS
<1> USE DEF TextInv
<1>1. str_6_l \in 0..(Cols - 1) /\ text_i \in Nat /\ str_6_h \in Nat /\ text_n \in Nat
  BY DEF TextTypeOK, TextPlaced
<1>2. Put(str_6, str_6_h, str_6_l, text_i + 1)
        = [r \in RowIndex |-> [c \in ColIndex |-> CellAt(r, c, text_i + 1)]]
  BY <1>1, PlaceOne DEF TextPlaced
<1>3. str_6' = [r \in RowIndex |-> [c \in ColIndex |-> CellAt(r, c, text_i + 1)]]
  <2>1. text_i + 1 \in Nat /\ Cols \in Nat /\ Cols >= Cols
    BY <1>1, SMT
  <2>2. Put([r \in RowIndex |-> [c \in ColIndex |-> CellAt(r, c, text_i + 1)]], str_6_h, Cols, 0)
          = [r \in RowIndex |-> [c \in ColIndex |-> CellAt(r, c, text_i + 1)]]
    BY <2>1, <1>1, PlaceNul
  <2> QED
    BY <1>2, <2>2 DEF Fill
<1>4. str_6_h' * Cols + str_6_l' = text_i + 1
  <2>1. CASE RowFull
    <3>1. str_6_l = Cols - 1
      BY <2>1, <1>1, SMT DEF RowFull
    <3>2. str_6_h' = str_6_h + 1 /\ str_6_l' = 0
      BY <2>1 DEF Fill
    <3>3. str_6_h' * Cols = str_6_h * Cols + Cols
      BY <3>2, <1>1, SMT
    <3>4. str_6_h * Cols \in Nat
      BY <1>1, SMT
    <3> QED
      BY <3>1, <3>2, <3>3, <3>4, <1>1, SMT DEF TextPlaced
  <2>2. CASE ~RowFull
    <3>1. str_6_h' = str_6_h /\ str_6_l' = str_6_l + 1
      BY <2>2 DEF Fill
    <3>2. str_6_h * Cols \in Nat
      BY <1>1, SMT
    <3> QED
      BY <3>1, <3>2, <1>1, SMT DEF TextPlaced
  <2> QED
    BY <2>1, <2>2
<1>5. TextPlaced'
  <2>1. str_6_l' < Cols
    BY <1>1, SMT DEF Fill, RowFull
  <2>2. text_i' = text_i + 1 /\ text_i' <= text_n'
    BY <1>1, SMT DEF Fill
  <2> QED
    BY <1>3, <1>4, <2>1, <2>2 DEF TextPlaced, CellAt
<1>6. TextTypeOK'
  <2>1. \A r \in RowIndex : \A c \in ColIndex : CellAt(r, c, text_i + 1) \in Nat
    <3>1. \A r \in RowIndex : r * Cols \in Nat
      BY SMT
    <3> QED
      BY <3>1, <1>1, SMT DEF CellAt
  <2>2. str_6' \in [RowIndex -> [ColIndex -> Nat]]
    BY <1>3, <2>1
  <2>3. str_6_h' \in Nat /\ str_6_l' \in Nat /\ text_i' \in Nat
    BY <1>1, SMT DEF Fill
  <2> QED
    BY <2>2, <2>3 DEF TextTypeOK, Fill, show_vars
<1>7. TextRowsShown' /\ TextCounted'
  <2>1. text_row = 0 /\ text_row' = 0 /\ text_frame' = text_frame /\ text_screen' = text_screen /\ text_at' = "fill"
    BY DEF Fill, TextCounted, show_vars
  <2>2. \A r \in RowIndex : ~(r < 0)
    BY SMT
  <2> QED
    BY <2>1, <2>2 DEF TextRowsShown, TextCounted
<1>8. TextSafe'
  <2> SUFFICES ASSUME text_n < Rows * Cols PROVE text_outside' = FALSE
    BY DEF TextSafe, Fill
  <2>1. str_6_h * Cols + str_6_l < Rows * Cols
    <3>1. Rows * Cols \in Nat
      BY SMT
    <3> QED
      BY <3>1, <1>1, SMT DEF Fill, TextPlaced
  <2>2. InArray(str_6_h, str_6_l)
    BY <2>1, <1>1, InRows, SMT DEF InArray
  <2> QED
    BY <2>2 DEF Fill, TextSafe, TextTypeOK
<1> QED
  BY <1>6, <1>5, <1>7, <1>8

LEMMA FillEndInv == TextInv /\ FillEnd => TextInv'
<1> SUFFICES ASSUME TextInv, FillEnd PROVE TextInv'
  OBVIOUS
<1> USE DEF TextInv
<1>1. TextTypeOK'
  BY DEF TextTypeOK, FillEnd, index_vars, show_vars
<1>2. TextPlaced' /\ TextRowsShown' /\ TextCounted'
  BY DEF TextPlaced, CellAt, TextRowsShown, LenAt, TextCounted, FillEnd, index_vars, show_vars
<1>3. TextSafe'
  <2> SUFFICES ASSUME text_n < Rows * Cols PROVE text_i = text_n /\ ~text_outside
    BY DEF TextSafe, FillEnd, index_vars
  <2>1. ~TooHigh
    <3>1. str_6_h * Cols + str_6_l < Rows * Cols
      <4>1. Rows * Cols \in Nat
        BY SMT
      <4> QED
        BY <4>1, SMT DEF TextPlaced, TextTypeOK
    <3>2. str_6_h \in RowIndex
      BY <3>1, InRows DEF TextTypeOK
    <3> QED
      BY <3>2, SMT DEF TooHigh
  <2> QED
    BY <2>1 DEF FillEnd, TextSafe
<1> QED
  BY <1>1, <1>2, <1>3

LEMMA PadInv == TextInv /\ Pad => TextInv'
<1> SUFFICES ASSUME TextInv, Pad PROVE TextInv'
  OBVIOUS
<1> USE DEF TextInv
<1>1. TextTypeOK'
  BY DEF TextTypeOK, Pad, Put, index_vars, show_vars
<1>2. str_6_h \in Nat /\ str_6_l + 1 \in Nat /\ text_i \in Nat /\ str_6_h * Cols + (str_6_l + 1) >= text_i
  <2>1. str_6_h * Cols \in Nat
    BY SMT DEF TextTypeOK
  <2> QED
    BY <2>1, SMT DEF TextTypeOK, TextPlaced
<1>3. str_6' = str_6
  BY <1>2, PlaceNul DEF Pad, TextPlaced
<1>4. TextPlaced' /\ TextRowsShown' /\ TextCounted'
  <2>1. text_row = 0
    BY DEF Pad, TextCounted
  <2>2. TextPlaced' /\ TextRowsShown'
    BY <1>3 DEF TextPlaced, CellAt, TextRowsShown, LenAt, Pad, index_vars, show_vars
  <2> QED
    BY <2>1, <2>2 DEF Pad, TextCounted, show_vars
<1>5. TextSafe'
  <2> SUFFICES ASSUME text_n < Rows * Cols PROVE text_i = text_n /\ text_outside' = FALSE
    BY DEF TextSafe, Pad, index_vars
  <2>1. text_i = text_n /\ ~text_outside
    BY DEF TextSafe, Pad
  <2>2. str_6_h \in RowIndex
    <3>1. Rows * Cols \in Nat
      BY SMT
    <3>2. str_6_h * Cols + str_6_l < Rows * Cols
      BY <2>1, <3>1, SMT DEF TextPlaced, TextTypeOK
    <3> QED
      BY <3>2, InRows DEF TextTypeOK
  <2>3. str_6_l + 1 \in ColIndex
    BY SMT DEF TextPlaced, TextTypeOK
  <2> QED
    BY <2>1, <2>2, <2>3 DEF Pad, InArray
<1> QED
  BY <1>1, <1>4, <1>5

\* The NUL that ends row r is where its last character has been placed.
LEMMA EndOfRow ==
    ASSUME TextTypeOK, TextPlaced, NEW r \in RowIndex
    PROVE  StrEnd(r) = LenAt(r, text_i)
<1> DEFINE e == LenAt(r, text_i)
           P(c) == str_6[r][c] = 0 /\ \A d \in 0..(c - 1) : str_6[r][d] # 0
<1>1. r * Cols \in Nat /\ text_i \in Nat /\ r \in Nat
  BY SMT DEF TextTypeOK
<1>2. e \in ColIndex
  BY <1>1, RowLenType
<1>3. \A c \in ColIndex : str_6[r][c] = CellAt(r, c, text_i)
  BY DEF TextPlaced
<1>4. CellAt(r, e, text_i) = 0
  BY <1>1, SMT DEF CellAt, LenAt
<1>5. \A d \in 0..(e - 1) : d \in ColIndex /\ CellAt(r, d, text_i) # 0
  BY <1>1, SMT DEF CellAt, LenAt
<1>6. P(e)
  BY <1>2, <1>3, <1>4, <1>5
<1>7. ASSUME NEW c \in ColIndex, P(c) PROVE c = e
  <2>1. ~(c < e)
    BY <1>3, <1>5, <1>2, <1>7, SMT
  <2>2. ~(e < c)
    BY <1>6, <1>2, <1>7, SMT
  <2> QED
    BY <2>1, <2>2, <1>2, SMT
<1> HIDE DEF e, P
<1>8. (CHOOSE c \in ColIndex : P(c)) = e
  BY <1>2, <1>6, <1>7
<1> QED
  BY <1>8 DEF StrEnd, e, P

LEMMA ShowStrInv == TextInv /\ ShowStr => TextInv'
<1> SUFFICES ASSUME TextInv, ShowStr PROVE TextInv'
  OBVIOUS
<1> USE DEF TextInv
<1> DEFINE e == LenAt(text_row, text_i)
           rowText(r, k) == [c \in 1..k |-> r * Cols + c]
<1>1. text_row \in RowIndex /\ text_row \in Nat /\ text_i \in Nat
  BY DEF ShowStr, TextTypeOK
<1>2. e \in 0..Cols
  BY <1>1, RowLenType
<1>3. StrEnd(text_row) = e
  BY <1>1, EndOfRow
<1>4. TextDrawn(text_row) = e
  <2>1. \A c \in 0..(e - 1) : c \in 0..(Cols - 1)
    BY <1>2, SMT
  <2>2. \A c \in 0..(StrEnd(text_row) - 1) : CharFits(text_row, c)
    BY <1>1, <1>3, <2>1, FontFits
  <2> QED
    BY <1>3, <2>2 DEF TextDrawn
<1>5. [c \in 1..e |-> str_6[text_row][c - 1]] = rowText(text_row, e)
  <2> SUFFICES ASSUME NEW c \in 1..e PROVE str_6[text_row][c - 1] = text_row * Cols + c
    BY Zenon
  <2>1. c - 1 \in ColIndex /\ c - 1 < Cols
    BY <1>2, SMT
  <2>2. str_6[text_row][c - 1] = CellAt(text_row, c - 1, text_i)
    BY <1>1, <2>1 DEF TextPlaced
  <2>3. text_row * Cols \in Nat
    BY <1>1, SMT
  <2>4. text_row * Cols + (c - 1) < text_i
    BY <2>3, <1>1, SMT DEF LenAt
  <2> QED
    BY <2>1, <2>2, <2>3, <2>4, SMT DEF CellAt
<1>6. text_frame' = [text_frame EXCEPT ![text_row] = rowText(text_row, e)] /\ text_screen' = text_frame'
  BY <1>3, <1>4, <1>5 DEF ShowStr
<1>7. TextRowsShown'
  <2>1. text_row' = text_row + 1 /\ text_i' = text_i
    BY DEF ShowStr, index_vars
  <2>2. text_frame' = [r \in RowIndex |-> IF r = text_row THEN rowText(text_row, e)
                                     ELSE rowText(r, IF r < text_row THEN LenAt(r, text_i) ELSE 0)]
    BY <1>6 DEF TextRowsShown
  <2>3. \A r \in RowIndex : (r < text_row + 1) <=> (r = text_row \/ r < text_row)
    BY <1>1, SMT
  <2>4. \A r \in RowIndex :
          (IF r = text_row THEN rowText(text_row, e) ELSE rowText(r, IF r < text_row THEN LenAt(r, text_i) ELSE 0))
            = rowText(r, IF r < text_row + 1 THEN LenAt(r, text_i) ELSE 0)
    BY <2>3
  <2>5. text_frame' = [r \in RowIndex |-> rowText(r, IF r < text_row + 1 THEN LenAt(r, text_i) ELSE 0)]
    BY <2>2, <2>4
  <2> QED
    BY <2>1, <2>5, <1>6 DEF TextRowsShown, LenAt
<1>8. TextTypeOK'
  <2>1. rowText(text_row, e) \in Seq(Nat)
    <3>1. \A c \in 1..e : text_row * Cols + c \in Nat
      BY <1>1, SMT
    <3> QED
      BY <1>2, <3>1, SMT
  <2>2. text_frame' \in [RowIndex -> Seq(Nat)]
    BY <1>6, <2>1 DEF TextTypeOK
  <2>3. text_screen' = text_frame'
    BY <1>6
  <2>4. text_row' \in 0..Rows
    BY <1>1, SMT DEF ShowStr
  <2>5. /\ text_n' = text_n /\ text_at' = text_at /\ text_i' = text_i /\ str_6_h' = str_6_h /\ str_6_l' = str_6_l
        /\ str_6' = str_6 /\ text_outside' = text_outside
    BY DEF ShowStr, index_vars
  <2> HIDE DEF e
  <2> QED
    BY <2>2, <2>3, <2>4, <2>5 DEF TextTypeOK
<1>9. TextPlaced' /\ TextCounted' /\ TextSafe'
  BY DEF TextPlaced, CellAt, TextCounted, TextSafe, ShowStr, index_vars
<1> QED
  BY <1>7, <1>8, <1>9

LEMMA ReturnInv == TextInv /\ (TextReturn \/ UNCHANGED text_vars) => TextInv'
<1> SUFFICES ASSUME TextInv, TextReturn \/ UNCHANGED text_vars PROVE TextInv'
  OBVIOUS
<1> USE DEF TextInv
<1>1. /\ text_n' = text_n /\ text_i' = text_i /\ str_6_h' = str_6_h /\ str_6_l' = str_6_l /\ str_6' = str_6
      /\ text_outside' = text_outside /\ text_row' = text_row /\ text_frame' = text_frame /\ text_screen' = text_screen
      /\ text_at' = text_at \/ (text_at = "show" /\ text_at' = "done" /\ text_row = Rows)
  BY DEF TextReturn, text_vars, index_vars, show_vars
<1>2. TextTypeOK'
  BY <1>1 DEF TextTypeOK
<1>3. TextPlaced' /\ TextRowsShown'
  BY <1>1 DEF TextPlaced, CellAt, TextRowsShown, LenAt
<1>4. TextCounted' /\ TextSafe'
  BY <1>1 DEF TextCounted, TextSafe
<1> QED
  BY <1>2, <1>3, <1>4

LEMMA TextStep == TextInv /\ [TextNext]_text_vars => TextInv'
  BY FillInv, FillEndInv, PadInv, ShowStrInv, ReturnInv DEF TextNext

-----------------------------------------------------------------------------
\* No text shorter than the array makes bsp_oled_queue_str write outside it.
LEMMA TextInArray == TextInv => InBounds
  BY DEF TextInv, TextSafe, InBounds

\* Such a text is on the display, whole and in order, when the function
\* returns.
LEMMA TextOnDisplay == TextInv => TextShown
<1> SUFFICES ASSUME TextInv, text_at = "done", text_n < Rows * Cols
             PROVE  text_screen = [r \in RowIndex |-> RowText(r)]
  BY DEF TextShown
<1>1. text_i = text_n /\ text_row = Rows
  BY DEF TextInv, TextSafe, TextCounted
<1>2. \A r \in RowIndex : r < text_row /\ LenAt(r, text_i) = RowLen(r)
  BY <1>1, SMT DEF LenAt, RowLen
<1>3. \A r \in RowIndex :
         [c \in 1..(IF r < text_row THEN LenAt(r, text_i) ELSE 0) |-> r * Cols + c] = RowText(r)
  BY <1>2 DEF RowText
<1> QED
  BY <1>3 DEF TextInv, TextRowsShown
=============================================================================
