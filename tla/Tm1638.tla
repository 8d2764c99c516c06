------------------------------- MODULE Tm1638 -------------------------------
(***************************************************************************)
(* The keys and digits of hx-tm1638.  A key counts the digit above it up,  *)
(* from 15 back to 0; the counts are not initialised.                      *)
(***************************************************************************)
EXTENDS Integers, FiniteSets

CONSTANTS
    TmKeys,  \* 0..7 in the code
    TmJunk   \* values of an uninitialised byte to try

ASSUME TmAssumption == TmKeys \subseteq 0..7 /\ TmJunk \subseteq 0..255

NoDigit == 16

VARIABLES
    tm_at,      \* init, scan, held, show
    tm_pressed, \* the keys that are down
    tm_key,     \* key
    tm_num,     \* num
    tm_digit,   \* what the digits show; NoDigit stands for the dash at the start
    tm_lamps    \* the lamps that are on

tm_vars == <<tm_at, tm_pressed, tm_key, tm_num, tm_digit, tm_lamps>>

TmTypeOK ==
    /\ tm_at \in {"init", "scan", "held", "show"}
    /\ tm_pressed \subseteq TmKeys /\ tm_lamps \subseteq TmKeys /\ tm_key \in 0..8
    /\ tm_num \in [TmKeys -> 0..255]
    /\ tm_digit \in [TmKeys -> 0..255]

TmInit ==
    /\ tm_at = "init" /\ tm_pressed = {} /\ tm_key = 8
    /\ tm_num \in [TmKeys -> TmJunk]
    /\ tm_digit = [k \in TmKeys |-> NoDigit] /\ tm_lamps = {}

TmFingers ==
    /\ tm_pressed' \in SUBSET TmKeys
    /\ UNCHANGED <<tm_at, tm_key, tm_num, tm_digit, tm_lamps>>

\* Read_key puts the scanned bytes together; two keys at once are none.
Read_key == IF Cardinality(tm_pressed) = 1 THEN CHOOSE k \in tm_pressed : TRUE ELSE 8

\* init_gpio, init_TM1638, and the digits and lamps one after the other.
TmStart ==
    /\ tm_at = "init" /\ tm_at' = "scan"
    /\ UNCHANGED <<tm_pressed, tm_key, tm_num, tm_digit, tm_lamps>>

\* A key: its count goes on.
TmScan ==
    /\ tm_at = "scan" /\ Read_key < 8
    /\ tm_at' = "held" /\ tm_key' = Read_key
    /\ tm_num' = [tm_num EXCEPT ![Read_key] = (@ + 1) % 256]
    /\ UNCHANGED <<tm_pressed, tm_digit, tm_lamps>>

\* It was let go, or another came to it.
TmReleased ==
    /\ tm_at = "held" /\ Read_key # tm_key /\ tm_at' = "show"
    /\ tm_num' = [tm_num EXCEPT ![tm_key] = IF @ > 15 THEN 0 ELSE @]
    /\ UNCHANGED <<tm_pressed, tm_key, tm_digit, tm_lamps>>

\* The digit, from the table of sixteen, and the lamp.
TmShow ==
    /\ tm_at = "show" /\ tm_at' = "scan"
    /\ tm_digit' = [tm_digit EXCEPT ![tm_key] = tm_num[tm_key]]
    /\ tm_lamps' = {tm_key}
    /\ UNCHANGED <<tm_pressed, tm_key, tm_num>>

TmNext == TmFingers \/ TmStart \/ TmScan \/ TmReleased \/ TmShow

\* The table of digits is never read past its end, whatever was in the counts
\* at the start, and a digit shows its count as soon as no key is looked at.
TmInTable ==
    /\ tm_at = "show" => tm_num[tm_key] <= 15
    /\ tm_at = "scan" => \A k \in TmKeys : tm_digit[k] \in {NoDigit, tm_num[k]}
=============================================================================
