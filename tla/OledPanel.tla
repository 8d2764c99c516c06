----------------------------- MODULE OledPanel ------------------------------
(***************************************************************************)
(* The frame buffer of components/hans_oled/bsp_oled.c and the panel that  *)
(* is written from it, page by page, over a bus whose errors nobody looks  *)
(* at.  A page is eight rows.  A lit dot of the buffer is a pair of its    *)
(* index and its bit; (module OledText lays texts out in the buffer).      *)
(***************************************************************************)
EXTENDS Integers, FiniteSets

CONSTANTS
    OledWidth,         \* 128 in the code
    OledFontW,         \* 7
    OledXs, OledYs,    \* coordinates to try
    OledSides,         \* sides of a rectangle to try
    MaxDrawings,       \* how many drawings a run has
    MaxBusErrors       \* how many transfers fail in a run

ASSUME OledPanelAssumption ==
    /\ {OledWidth, OledFontW} \subseteq Nat \ {0}
    /\ OledXs \subseteq Nat /\ OledYs \subseteq Nat /\ OledSides \subseteq Nat
    /\ {MaxDrawings, MaxBusErrors} \subseteq Nat

OledHeight == 64
OledFontH == 10
Pages == 0..7
Idle == 9

VARIABLES
    oled_at,     \* Idle, or the line_index of bsp_oled_update_screen
    oled_then,   \* the rectangle that bsp_oled_init clears the screen for
    frame,       \* g_oled_buffer: the lit dots
    astray,      \* history: the last drawing set a dot outside the buffer
    panel,       \* the lit dots the panel shows
    page,        \* the page the panel is told to write
    current_x,   \* oled.CurrentX
    current_y,
    oled_asked,  \* history: the dots of the rectangle that was drawn last
    oled_before, \* history: what the buffer showed when it was asked for
    bus_errors,  \* transfers that failed so far
    update_ok,   \* history: none failed since the update began
    drawings     \* drawings so far

oled_vars == <<oled_at, oled_then, frame, astray, panel, page, current_x, current_y,
               oled_asked, oled_before, bus_errors, update_ok, drawings>>

NoRect == [x |-> 0, y |-> 0, l |-> 0, h |-> 0]

OledPanelTypeOK ==
    /\ oled_at \in 0..Idle
    /\ panel \subseteq (0..8 * OledWidth - 1) \X (0..7)
    /\ frame \subseteq (0..8 * OledWidth - 1) \X (0..7)
    /\ oled_before \subseteq (0..8 * OledWidth - 1) \X (0..7)
    /\ page \in Pages
    /\ {astray, update_ok} \subseteq BOOLEAN
    /\ bus_errors \in 0..MaxBusErrors /\ drawings \in 0..MaxDrawings

\* bsp_oled_init clears the screen; the panel may show anything before.
OledPanelInit ==
    /\ oled_at = 0 /\ oled_then = NoRect /\ frame = {} /\ astray = FALSE
    /\ panel \in {{}, {<<0, 0>>, <<OledWidth, 1>>}} /\ page = 0
    /\ current_x = 0 /\ current_y = 0
    /\ oled_asked = {} /\ oled_before = {} /\ bus_errors = 0 /\ update_ok = TRUE /\ drawings = 0

-----------------------------------------------------------------------------
(* bsp_oled_update_screen.                                                  *)

OfPage(dots, p) == {d \in dots : d[1] \div OledWidth = p}
ToPage(dots, p) == {<<p * OledWidth + (d[1] % OledWidth), d[2]>> : d \in dots}

BusErrors(n) == bus_errors' = bus_errors + n /\ update_ok' = (update_ok /\ n = 0)

\* The command that names the page, the two for the column, and the row of the
\* buffer.  When the first one is lost the row goes to the page before, or to
\* the next one if the panel counts the pages itself.
UpdateLine ==
    /\ oled_at \in Pages
    /\ oled_at' = oled_at + 1
    /\ \E told, sent \in BOOLEAN :
         LET lost == (IF told THEN 0 ELSE 1) + (IF sent THEN 0 ELSE 1)
         IN /\ bus_errors + lost <= MaxBusErrors
            /\ BusErrors(lost)
            /\ page' \in IF told THEN {oled_at} ELSE {page, (page + 1) % 8}
            /\ panel' = IF sent
                        THEN (panel \ OfPage(panel, page'))
                                \cup ToPage(OfPage(frame, oled_at), page')
                        ELSE panel
    /\ UNCHANGED <<oled_then, frame, astray, current_x, current_y, oled_asked, oled_before, drawings>>

StartUpdate == oled_at' = 0 /\ update_ok' = TRUE /\ UNCHANGED <<panel, page, bus_errors>>

-----------------------------------------------------------------------------
(* The dots of the buffer.                                                  *)

\* bsp_oled_to_set_poxel counts from 1: x = 0 is the last column of the page
\* above, y = 0 sets nothing.
SetPoxel(x, y) ==
    IF y = 0 THEN {}
    ELSE {<<((y - 1) \div (OledHeight \div 8)) * OledWidth + x - 1, (y - 1) % (OledHeight \div 8)>>}

\* bsp_oled_drawpixel counts from 0, and ignores what is outside.
DrawPixelDot(x, y) ==
    IF x >= OledWidth \/ y >= OledHeight THEN {}
    ELSE {<<x + (y \div 8) * OledWidth, y % 8>>}

InBuffer(d) == d[1] \in 0..8 * OledWidth - 1

Rectangle(x, y, l, h) == UNION {SetPoxel(x + i, y + j) : i \in 0..l - 1, j \in 0..h - 1}

RectFits(r) == r.x + r.l < OledWidth - 1 /\ r.y + r.h < OledHeight - 1

\* The six lines of help that are shown instead of a rectangle that does not
\* fit, in a font that is all lit: as many characters as fit.
HelpLengths == <<12, 16, 11, 10, 9, 13>>
HelpShown(n) == {i \in 0..HelpLengths[n] - 1 : OledWidth > (i + 1) * OledFontW}
HelpLine(n) ==
    UNION {DrawPixelDot(i * OledFontW + dx, (n - 1) * OledFontH + dy) :
               i \in HelpShown(n), dx \in 0..OledFontW - 1, dy \in 0..OledFontH - 1}
HelpDots == UNION {HelpLine(n) : n \in 1..6}

\* bsp_oled_to_show_rectangle: bsp_oled_init clears the buffer and the screen,
\* then the rectangle or the help is drawn.
ShowRectangle ==
    /\ oled_at = Idle /\ drawings < MaxDrawings
    /\ drawings' = drawings + 1
    /\ frame' = {} /\ StartUpdate
    /\ \E x \in OledXs, y \in OledYs, l, h \in OledSides :
            oled_then' = [x |-> x, y |-> y, l |-> l, h |-> h]
    /\ oled_asked' = {} /\ oled_before' = frame /\ astray' = FALSE
    /\ UNCHANGED <<current_x, current_y>>

DrawRectangle ==
    /\ oled_at = 8 /\ oled_then # NoRect /\ RectFits(oled_then)
    /\ LET r    == oled_then
           dots == Rectangle(r.x, r.y, r.l, r.h)
       IN /\ frame' = frame \cup {d \in dots : InBuffer(d)}
          /\ astray' = \E d \in dots : ~InBuffer(d)
          /\ oled_asked' = {d \in (r.x..r.x + r.l - 1) \X (r.y..r.y + r.h - 1) : d[2] > 0}
    /\ oled_then' = NoRect
    /\ StartUpdate
    /\ UNCHANGED <<current_x, current_y, oled_before, drawings>>

\* (The update after each line of help is left out: one follows them all.)
RefuseRectangle ==
    /\ oled_at = 8 /\ oled_then # NoRect /\ ~RectFits(oled_then)
    /\ frame' = frame \cup HelpDots
    /\ current_x' = Cardinality(HelpShown(6)) * OledFontW /\ current_y' = 50
    /\ oled_then' = NoRect
    /\ StartUpdate
    /\ UNCHANGED <<astray, oled_asked, oled_before, drawings>>

\* A character that is all lit.
CharDots(x, y) == UNION {DrawPixelDot(x + j, y + i) : i \in 0..OledFontH - 1, j \in 0..OledFontW - 1}

\* bsp_oled_show_char: whether it fits is judged
\* where the cursor was left, not at (x, y).
ShowChar ==
    /\ oled_at = Idle /\ drawings < MaxDrawings
    /\ \E x \in OledXs, y \in OledYs :
         /\ OledWidth > current_x + OledFontW /\ OledHeight > current_y + OledFontH
         /\ frame' = frame \cup CharDots(x, y)
         /\ current_x' = x + OledFontW /\ current_y' = y
    /\ oled_asked' = {} /\ oled_before' = {} /\ astray' = FALSE
    /\ drawings' = drawings + 1
    /\ StartUpdate
    /\ UNCHANGED oled_then

\* bsp_oled_all_on, bsp_oled_clear and bsp_oled_update_screen.
FillOled ==
    /\ oled_at = Idle /\ drawings < MaxDrawings
    /\ frame' \in {{}, (0..8 * OledWidth - 1) \X (0..7), frame}
    /\ oled_asked' = {} /\ oled_before' = {} /\ astray' = FALSE
    /\ drawings' = drawings + 1
    /\ StartUpdate
    /\ UNCHANGED <<oled_then, current_x, current_y>>

UpdateOver ==
    /\ oled_at = 8 /\ oled_then = NoRect
    /\ oled_at' = Idle
    /\ UNCHANGED <<oled_then, frame, astray, panel, page, current_x, current_y, oled_asked,
                   oled_before, bus_errors, update_ok, drawings>>

OledPanelNext ==
    \/ UpdateLine \/ UpdateOver
    \/ ShowRectangle \/ DrawRectangle \/ RefuseRectangle
    \/ ShowChar \/ FillOled

-----------------------------------------------------------------------------
\* An update without an error shows the whole buffer, whatever errors left on
\* the panel before; and a rectangle that is drawn lights all of its dots and no
\* other that was not lit before - counted from 1, where x = 0 is outside.
\* Whether the rest is kept or cleared, and which rectangles are refused, is not
\* said: the code and its documentation disagree on both.
OledShows ==
    /\ oled_at = Idle /\ update_ok => panel = frame
    /\ oled_asked # {} /\ (\A d \in oled_asked : d[1] > 0) =>
            LET lit == UNION {DrawPixelDot(d[1] - 1, d[2] - 1) : d \in oled_asked}
            IN lit \subseteq frame /\ frame \ oled_before \subseteq lit
    /\ astray => \E d \in oled_asked : d[1] = 0
=============================================================================
