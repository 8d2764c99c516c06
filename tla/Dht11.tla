------------------------------- MODULE Dht11 --------------------------------
(***************************************************************************)
(* The temperature sensor of esp32_dht11-master/main/dht11.c, read bit by  *)
(* bit on one wire.  A bit is judged by how long the wire stays high, and  *)
(* every wait has a limit.  A bit is abstracted to the byte it belongs to. *)
(***************************************************************************)
EXTENDS Integers, Sequences

CONSTANT DhtBytes \* values of a byte to try

ASSUME DhtAssumption == DhtBytes \subseteq 0..255 /\ DhtBytes # {}

TIMEOUT_ERROR == -2
CHECKSUM_ERROR == -1

Getters == {"getTemp", "getFtemp", "getHumidity"}

VARIABLES
    dht_at,      \* idle, answer, bytes, sum
    dht_getter,  \* which function called getData
    dht_bits,    \* the bytes so far: humidity, -, temperature, -, sum
    humidity, temperature, Ftemperature,
    dht_returned \* what getData returned

dht_vars == <<dht_at, dht_getter, dht_bits, humidity, temperature, Ftemperature, dht_returned>>

DhtTypeOK ==
    /\ dht_at \in {"idle", "answer", "bytes", "sum"}
    /\ dht_getter \in Getters /\ Len(dht_bits) <= 5
    /\ {humidity, temperature} \subseteq 0..255 /\ Ftemperature \in 0..491
    /\ dht_returned \in -2..491

DhtInit ==
    /\ dht_at = "idle" /\ dht_getter = "getHumidity" /\ dht_bits = <<>>
    /\ humidity = 0 /\ temperature = 0 /\ Ftemperature = 0 /\ dht_returned = CHECKSUM_ERROR

\* What a getter asks getData for: 0 is the humidity, 1 the temperature and 2
\* the temperature in Fahrenheit.
TypeOf(getter) ==
    CASE getter = "getFtemp" -> 0 [] getter = "getTemp" -> 1 [] getter = "getHumidity" -> 2

\* DHT_task asks for one reading after the other.
NextGetter(getter) ==
    CASE getter = "getHumidity" -> "getTemp"
      [] getter = "getTemp" -> "getFtemp"
      [] getter = "getFtemp" -> "getHumidity"

\* sendStart.
GetData ==
    /\ dht_at = "idle" /\ dht_at' = "answer"
    /\ dht_getter' = NextGetter(dht_getter)
    /\ dht_bits' = <<>>
    /\ UNCHANGED <<humidity, temperature, Ftemperature, dht_returned>>

\* One of the waits is over its limit: the globals stay as they are.
DhtTimeout ==
    /\ dht_at \in {"answer", "bytes"} /\ dht_at' = "idle"
    /\ dht_returned' = TIMEOUT_ERROR
    /\ UNCHANGED <<dht_getter, dht_bits, humidity, temperature, Ftemperature>>

\* The sensor pulls the wire down and up again.
DhtAnswers ==
    /\ dht_at = "answer" /\ dht_at' = "bytes"
    /\ UNCHANGED <<dht_getter, dht_bits, humidity, temperature, Ftemperature, dht_returned>>

DhtByte ==
    /\ dht_at = "bytes"
    /\ \E b \in DhtBytes : dht_bits' = Append(dht_bits, b)
    /\ dht_at' = IF Len(dht_bits) = 4 THEN "sum" ELSE "bytes"
    /\ UNCHANGED <<dht_getter, humidity, temperature, Ftemperature, dht_returned>>

\* The sum of the two bytes that are used, in a byte.
DhtSum(bits) == (bits[1] + bits[3]) % 256

Fahrenheit(celsius) == (celsius * 9) \div 5 + 32

\* The globals are set before the sum is looked at.
DhtCheck ==
    /\ dht_at = "sum" /\ dht_at' = "idle"
    /\ humidity' = dht_bits[1] /\ temperature' = dht_bits[3]
    /\ Ftemperature' = Fahrenheit(dht_bits[3])
    /\ dht_returned' = IF dht_bits[5] # DhtSum(dht_bits) THEN CHECKSUM_ERROR
                       ELSE <<humidity', temperature', Ftemperature'>>[TypeOf(dht_getter) + 1]
    /\ UNCHANGED <<dht_getter, dht_bits>>

DhtNext == GetData \/ DhtTimeout \/ DhtAnswers \/ DhtByte \/ DhtCheck

DhtSpec == DhtInit /\ [][DhtNext]_dht_vars

-----------------------------------------------------------------------------
\* A reading that is not an error is of a frame that came whole and whose sum
\* is right, whatever a broken frame before it left in the globals; and getTemp
\* returns the temperature of that frame.  What the other two return is the
\* matter of GettersNamed.
DhtChecked ==
    dht_at = "idle" /\ dht_returned >= 0 =>
        /\ Len(dht_bits) = 5 /\ dht_bits[5] = DhtSum(dht_bits)
        /\ dht_getter = "getTemp" => dht_returned = dht_bits[3]

\* The usage at the top of dht11.c and dht11.h: getFtemp() returns the
\* temperature in F; and DHT_task prints what getHumidity returns as the
\* humidity.
GettersNamed ==
    dht_at = "idle" /\ dht_returned >= 0 =>
        /\ dht_getter = "getFtemp" => dht_returned = Fahrenheit(dht_bits[3])
        /\ dht_getter = "getHumidity" => dht_returned = dht_bits[1]
=============================================================================
