------------------------------- MODULE LedLamp ------------------------------
(***************************************************************************)
(* The running light of components/hans_led_rgb/bsp_led_rgb.c.  The task   *)
(* bsp_led_rgb_pipeline_lamp gets the address of a local of the function   *)
(* that creates it, which returns at once.                                 *)
(***************************************************************************)
LedColours == {"r", "g", "b"}

VARIABLES
    ll_creator, \* start, created, gone: bsp_led_rgb_pipeline_lamp_task
    ll_at,      \* none, begin, wait, or the pin that is set next
    ll_delay,   \* delay_ms: none, given, junk
    ll_colour,  \* the colour to show
    ll_pins     \* the pins that are on

ll_vars == <<ll_creator, ll_at, ll_delay, ll_colour, ll_pins>>

LedLampTypeOK ==
    /\ ll_creator \in {"start", "created", "gone"}
    /\ ll_at \in {"none", "begin", "wait"} \cup LedColours
    /\ ll_delay \in {"none", "given", "junk"}
    /\ ll_colour \in LedColours /\ ll_pins \subseteq LedColours

LedLampInit ==
    /\ ll_creator = "start" /\ ll_at = "none" /\ ll_delay = "none"
    /\ ll_colour = "r" /\ ll_pins \in SUBSET LedColours

\* bsp_led_rgb_init, and xTaskCreate, whose failure nobody notices.
PipelineLampTask ==
    /\ ll_creator = "start" /\ ll_creator' = "created"
    /\ ll_at' \in {"begin", "none"}
    /\ UNCHANGED <<ll_delay, ll_colour, ll_pins>>

PipelineLampTaskReturns ==
    /\ ll_creator = "created" /\ ll_creator' = "gone"
    /\ UNCHANGED <<ll_at, ll_delay, ll_colour, ll_pins>>

\* The task reads the argument: what is left of it.
ReadDelay ==
    /\ ll_at = "begin" /\ ll_at' = "r"
    /\ ll_delay' \in IF ll_creator = "gone" THEN {"given", "junk"} ELSE {"given"}
    /\ UNCHANGED <<ll_creator, ll_colour, ll_pins>>

\* bsp_led_rgb_set_rgb sets one pin after the other, red, green and blue.
SetPin(pin, next) ==
    /\ ll_at = pin /\ ll_at' = next
    /\ ll_pins' = IF pin = ll_colour THEN ll_pins \cup {pin} ELSE ll_pins \ {pin}
    /\ UNCHANGED <<ll_creator, ll_delay, ll_colour>>

SetRgb == SetPin("r", "g") \/ SetPin("g", "b") \/ SetPin("b", "wait")

\* vTaskDelay is over, however long it was.
NextColour ==
    /\ ll_at = "wait" /\ ll_at' = "r"
    /\ ll_colour' = CASE ll_colour = "r" -> "g" [] ll_colour = "g" -> "b" [] ll_colour = "b" -> "r"
    /\ UNCHANGED <<ll_creator, ll_delay, ll_pins>>

LedLampNext == PipelineLampTask \/ PipelineLampTaskReturns \/ ReadDelay \/ SetRgb \/ NextColour

\* While the task waits one lamp is on, the one whose turn it is, whatever the
\* pins were at power-on; and the delay is junk only if the task was late.
LampWalks ==
    /\ ll_at = "wait" => ll_pins = {ll_colour}
    /\ ll_delay = "junk" => ll_creator = "gone"
=============================================================================
