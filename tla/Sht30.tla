------------------------------- MODULE Sht30 --------------------------------
(***************************************************************************)
(* The humidity sensor of hx-sht30: two words, each followed by a checksum *)
(* of eight bits.  A reading is used when both checksums are right.  A     *)
(* byte is the set of its bits that are 1.                                 *)
(***************************************************************************)
EXTENDS Integers

CONSTANTS
    ShtBytes,    \* the bytes of the words the sensor sends
    MaxShtLinks  \* bound on command links that were not deleted

Bits == 0..7

ASSUME ShtAssumption == ShtBytes \subseteq SUBSET Bits /\ MaxShtLinks \in Nat \ {0}

VARIABLES
    sht_at,     \* start, read, shown
    sht_sent,   \* what the sensor sent: six bytes
    sht_buf,    \* sht30_buf: the same, as they arrived
    sht_ok,     \* sht30_get_value returned ESP_OK
    sht_links   \* command links that were never deleted

sht_vars == <<sht_at, sht_sent, sht_buf, sht_ok, sht_links>>

Xor(a, b) == (a \ b) \cup (b \ a)

\* SHT3X_CalcCrc.  The polynomial is 0x131, and its bit 8 meets the one that is
\* shifted out.
CrcShift(crc) == Xor({b + 1 : b \in crc \ {7}}, IF 7 \in crc THEN {0, 4, 5} ELSE {})

CrcByte(crc, byte) ==
    LET shifted4(c) == CrcShift(CrcShift(CrcShift(CrcShift(c))))
    IN shifted4(shifted4(Xor(crc, byte)))

CalcCrc(byte1, byte2) == CrcByte(CrcByte(Bits, byte1), byte2)

\* SHT3X_CheckCrc returns 0 when the checksum is right.
CrcRight(buf, i) == CalcCrc(buf[i], buf[i + 1]) = buf[i + 2]

NoReading == [i \in 1..6 |-> {}]

ShtTypeOK ==
    /\ sht_at \in {"start", "read", "shown"}
    /\ {sht_sent, sht_buf} \subseteq [1..6 -> SUBSET Bits]
    /\ sht_ok \in BOOLEAN /\ sht_links \in 0..MaxShtLinks

ShtInit ==
    /\ sht_at = "start" /\ sht_sent = NoReading /\ sht_buf = NoReading
    /\ sht_ok = FALSE /\ sht_links = 0

\* i2c_init and sht30_init, whose result is ignored.
ShtStart ==
    /\ sht_at = "start" /\ sht_at' = "read"
    /\ UNCHANGED <<sht_sent, sht_buf, sht_ok, sht_links>>

\* The sensor sends two words, each with its checksum.
Sent(w) == <<w[1], w[2], CalcCrc(w[1], w[2]), w[3], w[4], CalcCrc(w[3], w[4])>>

\* The bits at some places, each a byte and a bit, are wrong when they arrive.
Places == (1..6) \X Bits
Arrived(sent, wrong) == [i \in 1..6 |-> Xor(sent[i], {b \in Bits : <<i, b>> \in wrong})]

\* sht30_get_value, with up to two wrong bits.
GetValue ==
    /\ sht_at = "read" /\ sht_at' = "shown"
    /\ \E w \in [1..4 -> ShtBytes] : sht_sent' = Sent(w)
    /\ \/ sht_buf' = sht_sent'
       \/ \E f, g \in Places : sht_buf' = Arrived(sht_sent', {f, g})
    /\ sht_ok' = (CrcRight(sht_buf', 1) /\ CrcRight(sht_buf', 4))
    /\ UNCHANGED sht_links

\* The bus fails: the function returns before the command link is deleted.
GetValueFails ==
    /\ sht_at = "read" /\ sht_at' = "shown"
    /\ sht_links < MaxShtLinks /\ sht_links' = sht_links + 1
    /\ sht_ok' = FALSE
    /\ UNCHANGED <<sht_sent, sht_buf>>

\* The reading is printed if there is one; two seconds later the next is taken.
ShtPause ==
    /\ sht_at = "shown" /\ sht_at' = "read"
    /\ sht_sent' = NoReading /\ sht_buf' = NoReading /\ sht_ok' = FALSE
    /\ UNCHANGED sht_links

ShtNext == ShtStart \/ GetValue \/ GetValueFails \/ ShtPause

\* A reading is used exactly when it arrived as it was sent, for up to two wrong
\* bits, wherever they are - also when one of them is in a checksum.
ShtChecked == sht_at = "shown" /\ sht_sent # NoReading => (sht_ok <=> sht_buf = sht_sent)
=============================================================================
