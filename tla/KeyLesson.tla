----------------------------- MODULE KeyLesson ------------------------------
(***************************************************************************)
(* hx-key: a key is polled without a pause; a press toggles the red lamp,  *)
(* a release the green one.  Both parts of key_status start at 0, which    *)
(* means pressed.                                                          *)
(***************************************************************************)
EXTENDS Integers

VARIABLES
    kl_pin,      \* the level of the key: 0 when it is pressed
    kl_at,       \* poll, judge
    key_status,  \* the level read, and the one before it
    led_r, led_g \* led_r_status and led_g_status

kl_vars == <<kl_pin, kl_at, key_status, led_r, led_g>>

KeyLessonTypeOK ==
    /\ kl_at \in {"poll", "judge"} /\ {kl_pin, led_r, led_g} \subseteq 0..1
    /\ key_status \in [1..2 -> 0..1]

KeyLessonInit ==
    /\ kl_pin \in 0..1 /\ kl_at = "poll" /\ key_status = <<0, 0>> /\ led_r = 0 /\ led_g = 0

KlPress == kl_pin' = 1 - kl_pin /\ UNCHANGED <<kl_at, key_status, led_r, led_g>>

\* key_read1 reads the key, and judges what it has read.
KlPoll ==
    /\ kl_at = "poll" /\ kl_at' = "judge"
    /\ key_status' = [key_status EXCEPT ![1] = kl_pin]
    /\ UNCHANGED <<kl_pin, led_r, led_g>>

KlJudge ==
    /\ kl_at = "judge" /\ kl_at' = "poll"
    /\ key_status' = <<key_status[1], key_status[1]>>
    /\ led_r' = IF key_status[1] = 0 /\ key_status[2] = 1 THEN 1 - led_r ELSE led_r
    /\ led_g' = IF key_status[1] = 1 /\ key_status[2] = 0 THEN 1 - led_g ELSE led_g
    /\ UNCHANGED kl_pin

KeyLessonNext == KlPress \/ KlPoll \/ KlJudge

\* Presses and releases are seen in turn, so the lamps differ while the key is
\* seen up and agree while it is seen down, however fast it moves.  (The first
\* poll of a key that is up counts as a release.)
LampsInTurn == key_status[2] = 1 <=> led_r # led_g
=============================================================================
