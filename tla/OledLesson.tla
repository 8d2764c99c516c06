------------------------------ MODULE OledLesson -----------------------------
(***************************************************************************)
(* hx-oled: the program main/hx_oled.c, which shows four lines of text,    *)
(* over its driver components/bsp/oled.c.  A character of the font covers  *)
(* 7 columns and 10 rows, its background included.  The panel has pages of *)
(* eight rows, and a page shows the characters with a row in it.           *)
(*                                                                         *)
(* The program has one task, and nobody sees the frame buffer between two  *)
(* updates: a string is one step.                                          *)
(***************************************************************************)
EXTENDS Integers, Sequences

CONSTANTS
    OlLengths, \* lengths of a line to try
    OlErrors   \* how many transfers fail in a run

ASSUME OledLessonAssumption == OlLengths \subseteq Nat /\ OlErrors \in Nat

OlRows == <<0, 15, 30, 45>> \* where app_main puts its lines
OlColumns == 128
OlPages == 0..7

VARIABLES
    ol_line,     \* the line shown last; 0 for the clear screen
    ol_update,   \* line_index of oled_update_screen, 8 when it is over
    ol_lengths,  \* how long each line is
    ol_frame,    \* g_oled_buffer: the whole characters, each [x, y, line]
    ol_panel,    \* what each page shows: [of |-> page of the buffer, chars |-> set]
    ol_page,     \* the page that the panel is told to write
    ol_ok,       \* history: no transfer failed since the last update began
    ol_errors

ol_vars == <<ol_line, ol_update, ol_lengths, ol_frame, ol_panel, ol_page, ol_ok, ol_errors>>

OledLessonTypeOK ==
    /\ ol_line \in 0..Len(OlRows) /\ ol_update \in 0..8
    /\ ol_lengths \in [1..Len(OlRows) -> OlLengths]
    /\ ol_page \in OlPages /\ \A p \in OlPages : ol_panel[p].of \in OlPages
    /\ ol_ok \in BOOLEAN /\ ol_errors \in 0..OlErrors

\* oled_init has cleared the buffer and updates the panel, which may show
\* anything.
OledLessonInit ==
    /\ ol_line = 0 /\ ol_update = 0
    /\ ol_lengths \in [1..Len(OlRows) -> OlLengths]
    /\ ol_frame = {}
    /\ ol_panel = [p \in OlPages |-> [of |-> 0, chars |-> {[x |-> 0, y |-> 0, line |-> 0]}]]
    /\ ol_page = 0 /\ ol_ok = TRUE /\ ol_errors = 0

-----------------------------------------------------------------------------
\* A page of the buffer: the characters that have one of its rows.
OlPageOf(p) ==
    [of |-> p, chars |-> {c \in ol_frame : c.y <= 8 * p + 7 /\ 8 * p <= c.y + 9}]

\* One page, by three commands and a transfer whose results nobody looks at.
OlUpdateLine ==
    /\ ol_update \in OlPages /\ ol_update' = ol_update + 1
    /\ \E told, sent \in BOOLEAN :
         /\ ol_errors' = ol_errors + (IF told THEN 0 ELSE 1) + (IF sent THEN 0 ELSE 1)
         /\ ol_errors' <= OlErrors
         /\ ol_page' \in IF told THEN {ol_update} ELSE {ol_page, (ol_page + 1) % 8}
         /\ ol_panel' = IF sent THEN [ol_panel EXCEPT ![ol_page'] = OlPageOf(ol_update)]
                                ELSE ol_panel
         /\ ol_ok' = (told /\ sent /\ (ol_ok \/ ol_update = 0))
    /\ UNCHANGED <<ol_line, ol_lengths, ol_frame>>

\* The columns at which oled_show_char still finds room; the first character
\* without ends the string.
OlFit(line) ==
    {7 * (i - 1) : i \in {j \in 1..ol_lengths[line] : OlColumns > 7 * j}}

OlDrawn(line) == {[x |-> x, y |-> OlRows[line], line |-> line] : x \in OlFit(line)}

\* A character wipes out what it covers: that is no longer whole.
OlCovers(c, d) == c.x - 6 <= d.x /\ d.x <= c.x + 6 /\ c.y - 9 <= d.y /\ d.y <= c.y + 9
OlDraw(line) ==
    {d \in ol_frame : \A c \in OlDrawn(line) : ~OlCovers(c, d)} \cup OlDrawn(line)

OlCut(line) == 7 * ol_lengths[line] >= OlColumns

\* oled_show_str: a string that is cut returns without the update.
OlShowStr ==
    /\ ol_update = 8 /\ ol_line < Len(OlRows)
    /\ ol_line' = ol_line + 1
    /\ ol_frame' = OlDraw(ol_line + 1)
    /\ ol_update' = IF OlCut(ol_line + 1) THEN 8 ELSE 0
    /\ UNCHANGED <<ol_lengths, ol_panel, ol_page, ol_ok, ol_errors>>

OledLessonNext == OlUpdateLine \/ OlShowStr

-----------------------------------------------------------------------------
\* Every line is there when the program rests, as far as the screen is wide: no
\* line wipes out another, a line that was cut appears with the next one that
\* is not, and nothing is left of what an error put into the wrong page.
OlShows ==
    /\ ol_frame = UNION {OlDrawn(line) : line \in 1..ol_line}
    /\ ol_update = 8 /\ ol_ok /\ (ol_line > 0 => ~OlCut(ol_line)) =>
         \A p \in OlPages : ol_panel[p] = OlPageOf(p)
=============================================================================
