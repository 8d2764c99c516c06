------------------------------- MODULE Pca9685 ------------------------------
(***************************************************************************)
(* The LED driver of esp32_t_pca9685: components/pca9685/pca9685.c and the *)
(* task of main/pca9685Test.c.  An output is given by two words, when it   *)
(* goes on and when off; the value Off is "off for good".  The chip takes  *)
(* the four bytes of a write for four registers only after setFrequency    *)
(* has told it to count; before, all four go to the first register.        *)
(***************************************************************************)
EXTENDS Integers

CONSTANTS
    PcaPins,     \* 16 in the code
    FadeSteps,   \* 255 in the code
    MaxI2cErrors

Off == 4096

ASSUME PcaAssumption == PcaPins \in Nat \ {0} /\ FadeSteps \in 1..Off /\ MaxI2cErrors \in Nat

VARIABLES
    pca_at,     \* reset, freq1 .. freq4, alloff, fade, dark, blink, unblink
    pca_pin,    \* the pin the loop is at
    pca_i,      \* fade: 0 .. 2 * FadeSteps - 1, first up, then down
    pca_counts, \* MODE1 has auto increment
    pca_led,    \* the outputs: [on, off]
    pca_errors

pca_vars == <<pca_at, pca_pin, pca_i, pca_counts, pca_led, pca_errors>>

Pins == 0..PcaPins - 1

PcaTypeOK ==
    /\ pca_at \in {"reset", "freq1", "freq2", "freq3", "freq4", "alloff", "fade", "dark",
                   "blink", "unblink"}
    /\ pca_pin \in Pins /\ pca_i \in 0..2 * FadeSteps
    /\ pca_counts \in BOOLEAN
    /\ pca_led \in [Pins -> [on : 0..Off, off : 0..Off]]
    /\ pca_errors \in 0..MaxI2cErrors

\* After power-on the outputs are off; a restart of the program leaves the chip
\* as it was.
PcaInit ==
    /\ pca_at = "reset" /\ pca_pin = 0 /\ pca_i = 0 /\ pca_errors = 0
    /\ pca_counts \in BOOLEAN
    /\ \E led \in {[on |-> 0, off |-> Off], [on |-> 400, off |-> 2000]} : pca_led = [p \in Pins |-> led]

-----------------------------------------------------------------------------
\* A transfer is done or fails.
Transferred == UNCHANGED pca_errors
TransferFails == pca_errors < MaxI2cErrors /\ pca_errors' = pca_errors + 1

\* generic_write_i2c_register_two_words to an output, or to all of them.  The
\* bytes that all went to one register leave the last of them in it.
TwoWords(pins, on, off) ==
    pca_led' = [p \in Pins |->
                   IF p \notin pins THEN pca_led[p]
                   ELSE IF pca_counts THEN [on |-> on, off |-> off]
                   ELSE [pca_led[p] EXCEPT !.on = (@ \div 256) * 256 + off \div 256]]

SetPWM(pin, on, off) == TwoWords({pin}, on, off)

\* A write whose result nobody looks at.
SetOrNot(pins, on, off) ==
    \/ Transferred /\ TwoWords(pins, on, off)
    \/ TransferFails /\ UNCHANGED pca_led

-----------------------------------------------------------------------------
(* The task.                                                                *)

\* resetPCA9685, which writes MODE1 without the sleep and the auto increment.
ResetMode1 ==
    \/ Transferred /\ pca_counts' = FALSE
    \/ TransferFails /\ UNCHANGED pca_counts

ResetPCA9685 ==
    /\ pca_at = "reset" /\ pca_at' = "freq1"
    /\ ResetMode1
    /\ UNCHANGED <<pca_pin, pca_i, pca_led>>

\* setFrequencyPCA9685: to sleep, and the prescaler; a failed transfer ends it,
\* and the task goes on without looking at the result.
Sleep(from, to) ==
    /\ pca_at = from
    /\ \/ Transferred /\ pca_counts' = FALSE /\ pca_at' = to
       \/ TransferFails /\ pca_at' = "alloff" /\ UNCHANGED pca_counts
    /\ UNCHANGED <<pca_pin, pca_i, pca_led>>

\* The prescaler, and another reset, whose result is ignored.
Prescale ==
    /\ pca_at = "freq2"
    /\ \/ pca_at' = "freq3" /\ ResetMode1
       \/ pca_at' = "alloff" /\ TransferFails /\ UNCHANGED pca_counts
    /\ UNCHANGED <<pca_pin, pca_i, pca_led>>

AutoIncrement ==
    /\ pca_at = "freq4" /\ pca_at' = "alloff"
    /\ \/ Transferred /\ pca_counts' = TRUE
       \/ TransferFails /\ UNCHANGED pca_counts
    /\ UNCHANGED <<pca_pin, pca_i, pca_led>>

SetFrequency == Sleep("freq1", "freq2") \/ Prescale \/ Sleep("freq3", "freq4") \/ AutoIncrement

TurnAllOff ==
    /\ pca_at = "alloff" /\ pca_at' = "fade"
    /\ pca_pin' = 0 /\ pca_i' = 0
    /\ SetOrNot(Pins, 0, Off)
    /\ UNCHANGED pca_counts

\* fade_all_up_down: up by the word `off', down by the word `on'.  The value of
\* the table at a step is abstracted to the step.
FadeStep ==
    /\ pca_at = "fade" /\ pca_i < 2 * FadeSteps
    /\ \/ Transferred /\ pca_i' = pca_i + 1 /\ UNCHANGED <<pca_at, pca_pin>>
          /\ IF pca_i < FadeSteps THEN SetPWM(pca_pin, 0, pca_i)
                                  ELSE SetPWM(pca_pin, pca_i - FadeSteps, 0)
       \/ TransferFails /\ pca_at' = "blink" /\ pca_i' = 0 /\ pca_pin' = 0 /\ UNCHANGED pca_led
    /\ UNCHANGED pca_counts

\* "ensure it's really off", and the next pin.
FadeEnd ==
    /\ pca_at = "fade" /\ pca_i = 2 * FadeSteps
    /\ pca_i' = 0
    /\ \/ /\ Transferred /\ SetPWM(pca_pin, 0, Off)
          /\ IF pca_pin = PcaPins - 1 THEN pca_at' = "dark" /\ UNCHANGED pca_pin
             ELSE pca_pin' = pca_pin + 1 /\ UNCHANGED pca_at
       \/ TransferFails /\ pca_at' = "blink" /\ pca_pin' = 0 /\ UNCHANGED pca_led
    /\ UNCHANGED pca_counts

\* A second's pause with all outputs dark, and the blink begins.
Pause ==
    /\ pca_at = "dark" /\ pca_at' = "blink" /\ pca_pin' = 0
    /\ UNCHANGED <<pca_i, pca_counts, pca_led, pca_errors>>

\* "Turn LED on" and "Turn LED off"; the results are ignored.
Blink ==
    /\ pca_at = "blink" /\ pca_at' = "unblink"
    /\ SetOrNot({pca_pin}, 400, 800)
    /\ UNCHANGED <<pca_pin, pca_i, pca_counts>>

Unblink ==
    /\ pca_at = "unblink"
    /\ SetOrNot({pca_pin}, 400, 2000)
    /\ IF pca_pin = PcaPins - 1 THEN pca_at' = "fade" /\ pca_pin' = 0
       ELSE pca_at' = "blink" /\ pca_pin' = pca_pin + 1
    /\ UNCHANGED <<pca_i, pca_counts>>

PcaNext ==
    \/ ResetPCA9685 \/ SetFrequency \/ TurnAllOff
    \/ FadeStep \/ FadeEnd \/ Pause \/ Blink \/ Unblink

-----------------------------------------------------------------------------
\* When fade_all_up_down returns ESP_OK every output is off for good, although
\* the blink before left all of them on - if the chip was told to count: else
\* the writes succeed as well and do nothing of the kind.
PcaDark == pca_at = "dark" /\ pca_counts => \A p \in Pins : pca_led[p].off = Off
=============================================================================
