---------------------------- MODULE DevicesProofs ---------------------------
(***************************************************************************)
(* Proofs about the programs that module Devices runs.  Each keeps an      *)
(* invariant of its own; those of the displays are in DrawingProofs and    *)
(* OledTextProofs.  A step of the board is a step or a stutter of every    *)
(* program, so that all the invariants hold together.                      *)
(***************************************************************************)
EXTENDS Devices, DrawingProofs, OledTextProofs, SequenceTheorems, FiniteSetTheorems, TLAPS

-----------------------------------------------------------------------------
(* The checksum of the humidity sensor.  It is linear: what wrong bits do to *)
(* it does not depend on the bytes.                                          *)

Byte == SUBSET Bits

LEMMA XorByte == \A a, b \in Byte : Xor(a, b) \in Byte
BY DEF Byte, Xor

\* One shift, bit by bit.
LEMMA ShiftBits ==
    ASSUME NEW a \in Byte, NEW x
    PROVE  x \in CrcShift(a) <=>
             (x \in 1..7 /\ x - 1 \in a) # (x \in {0, 4, 5} /\ 7 \in a)
<1>1. x \in {b + 1 : b \in a \ {7}} <=> x \in 1..7 /\ x - 1 \in a
  BY DEF Byte, Bits
<1>2. x \in (IF 7 \in a THEN {0, 4, 5} ELSE {}) <=> x \in {0, 4, 5} /\ 7 \in a
  OBVIOUS
<1> QED BY <1>1, <1>2 DEF CrcShift, Xor

LEMMA ShiftByte == \A a \in Byte : CrcShift(a) \in Byte
<1> SUFFICES ASSUME NEW a \in Byte, NEW x \in CrcShift(a) PROVE x \in Bits
  BY DEF Byte
<1> QED BY ShiftBits DEF Bits

LEMMA ShiftLinear ==
    ASSUME NEW a \in Byte, NEW b \in Byte
    PROVE  CrcShift(Xor(a, b)) = Xor(CrcShift(a), CrcShift(b))
<1> SUFFICES ASSUME NEW x PROVE x \in CrcShift(Xor(a, b)) <=> x \in Xor(CrcShift(a), CrcShift(b))
  OBVIOUS
<1>1. x \in CrcShift(Xor(a, b)) <=>
         (x \in 1..7 /\ x - 1 \in Xor(a, b)) # (x \in {0, 4, 5} /\ 7 \in Xor(a, b))
  BY ShiftBits, XorByte
<1>2. /\ x \in CrcShift(a) <=> (x \in 1..7 /\ x - 1 \in a) # (x \in {0, 4, 5} /\ 7 \in a)
      /\ x \in CrcShift(b) <=> (x \in 1..7 /\ x - 1 \in b) # (x \in {0, 4, 5} /\ 7 \in b)
  BY ShiftBits
<1> QED BY <1>1, <1>2 DEF Xor

LEMMA CrcByteByte == \A a, b \in Byte : CrcByte(a, b) \in Byte
BY XorByte, ShiftByte DEF CrcByte

\* Eight shifts are linear as well.
LEMMA CrcByteLinear ==
    ASSUME NEW a \in Byte, NEW b \in Byte, NEW c \in Byte, NEW d \in Byte
    PROVE  CrcByte(Xor(a, c), Xor(b, d)) = Xor(CrcByte(a, b), CrcByte(c, d))
<1> DEFINE Shift2(s) == CrcShift(CrcShift(s))
           Shift4(s) == Shift2(Shift2(s))
<1>1. ASSUME NEW s \in Byte, NEW t \in Byte
      PROVE  Shift2(s) \in Byte /\ Shift2(Xor(s, t)) = Xor(Shift2(s), Shift2(t))
  BY ShiftByte, ShiftLinear, XorByte
<1> HIDE DEF Shift2
<1>2. ASSUME NEW s \in Byte, NEW t \in Byte
      PROVE  Shift4(s) \in Byte /\ Shift4(Xor(s, t)) = Xor(Shift4(s), Shift4(t))
  BY <1>1, XorByte
<1>3. \A s, t : CrcByte(s, t) = Shift4(Shift4(Xor(s, t)))
  BY DEF CrcByte, Shift2
<1> HIDE DEF Shift4
<1>4. Xor(Xor(a, c), Xor(b, d)) = Xor(Xor(a, b), Xor(c, d))
  BY DEF Xor
<1>5. Shift4(Xor(Xor(a, b), Xor(c, d))) = Xor(Shift4(Xor(a, b)), Shift4(Xor(c, d)))
  BY <1>2, XorByte
<1> QED BY <1>2, <1>3, <1>4, <1>5, XorByte

\* The same for each bit.
LEMMA ShiftEach ==
    ASSUME NEW a \in Byte
    PROVE  /\ 0 \in CrcShift(a) <=> 7 \in a
           /\ 1 \in CrcShift(a) <=> 0 \in a
           /\ 2 \in CrcShift(a) <=> 1 \in a
           /\ 3 \in CrcShift(a) <=> 2 \in a
           /\ 4 \in CrcShift(a) <=> (3 \in a) # (7 \in a)
           /\ 5 \in CrcShift(a) <=> (4 \in a) # (7 \in a)
           /\ 6 \in CrcShift(a) <=> 5 \in a
           /\ 7 \in CrcShift(a) <=> 6 \in a
BY ShiftBits

LEMMA SameByte ==
    ASSUME NEW a \in Byte, NEW b \in Byte,
           0 \in a <=> 0 \in b, 1 \in a <=> 1 \in b, 2 \in a <=> 2 \in b, 3 \in a <=> 3 \in b,
           4 \in a <=> 4 \in b, 5 \in a <=> 5 \in b, 6 \in a <=> 6 \in b, 7 \in a <=> 7 \in b
    PROVE  a = b
<1>1. \A x \in Bits : x \in a <=> x \in b
  BY DEF Bits
<1> QED BY <1>1 DEF Byte

\* What a wrong bit 0 does to the checksum after 0, 1, .. 23 shifts.
Syndrome(n) ==
    CASE n = 0 -> {0}
      [] n = 1 -> {1}
      [] n = 2 -> {2}
      [] n = 3 -> {3}
      [] n = 4 -> {4}
      [] n = 5 -> {5}
      [] n = 6 -> {6}
      [] n = 7 -> {7}
      [] n = 8 -> {0, 4, 5}
      [] n = 9 -> {1, 5, 6}
      [] n = 10 -> {2, 6, 7}
      [] n = 11 -> {0, 3, 4, 5, 7}
      [] n = 12 -> {0, 1, 6}
      [] n = 13 -> {1, 2, 7}
      [] n = 14 -> {0, 2, 3, 4, 5}
      [] n = 15 -> {1, 3, 4, 5, 6}
      [] n = 16 -> {2, 4, 5, 6, 7}
      [] n = 17 -> {0, 3, 4, 6, 7}
      [] n = 18 -> {0, 1, 7}
      [] n = 19 -> {0, 1, 2, 4, 5}
      [] n = 20 -> {1, 2, 3, 5, 6}
      [] n = 21 -> {2, 3, 4, 6, 7}
      [] n = 22 -> {0, 3, 7}
      [] n = 23 -> {0, 1, 5}

LEMMA SyndromeByte == \A n \in 0..23 : Syndrome(n) \in Byte
BY DEF Syndrome, Byte, Bits

LEMMA SyndromeStep == \A n \in 0..22 : CrcShift(Syndrome(n)) = Syndrome(n + 1)
<1> USE ShiftEach, ShiftByte, SameByte DEF Byte, Bits
<1>1. CrcShift({0}) = {1}
  OBVIOUS
<1>2. CrcShift({1}) = {2}
  OBVIOUS
<1>3. CrcShift({2}) = {3}
  OBVIOUS
<1>4. CrcShift({3}) = {4}
  OBVIOUS
<1>5. CrcShift({4}) = {5}
  OBVIOUS
<1>6. CrcShift({5}) = {6}
  OBVIOUS
<1>7. CrcShift({6}) = {7}
  OBVIOUS
<1>8. CrcShift({7}) = {0, 4, 5}
  OBVIOUS
<1>9. CrcShift({0, 4, 5}) = {1, 5, 6}
  OBVIOUS
<1>10. CrcShift({1, 5, 6}) = {2, 6, 7}
  OBVIOUS
<1>11. CrcShift({2, 6, 7}) = {0, 3, 4, 5, 7}
  OBVIOUS
<1>12. CrcShift({0, 3, 4, 5, 7}) = {0, 1, 6}
  OBVIOUS
<1>13. CrcShift({0, 1, 6}) = {1, 2, 7}
  OBVIOUS
<1>14. CrcShift({1, 2, 7}) = {0, 2, 3, 4, 5}
  OBVIOUS
<1>15. CrcShift({0, 2, 3, 4, 5}) = {1, 3, 4, 5, 6}
  OBVIOUS
<1>16. CrcShift({1, 3, 4, 5, 6}) = {2, 4, 5, 6, 7}
  OBVIOUS
<1>17. CrcShift({2, 4, 5, 6, 7}) = {0, 3, 4, 6, 7}
  OBVIOUS
<1>18. CrcShift({0, 3, 4, 6, 7}) = {0, 1, 7}
  OBVIOUS
<1>19. CrcShift({0, 1, 7}) = {0, 1, 2, 4, 5}
  OBVIOUS
<1>20. CrcShift({0, 1, 2, 4, 5}) = {1, 2, 3, 5, 6}
  OBVIOUS
<1>21. CrcShift({1, 2, 3, 5, 6}) = {2, 3, 4, 6, 7}
  OBVIOUS
<1>22. CrcShift({2, 3, 4, 6, 7}) = {0, 3, 7}
  OBVIOUS
<1>23. CrcShift({0, 3, 7}) = {0, 1, 5}
  OBVIOUS
<1> QED BY <1>1, <1>2, <1>3, <1>4, <1>5, <1>6, <1>7, <1>8, <1>9, <1>10, <1>11, <1>12, <1>13, <1>14, <1>15, <1>16, <1>17, <1>18, <1>19, <1>20, <1>21, <1>22, <1>23 DEF Syndrome

\* The number of a byte.
Weight(a) ==
    LET w(b, p) == IF b \in a THEN p ELSE 0
    IN w(0, 1) + w(1, 2) + w(2, 4) + w(3, 8) + w(4, 16) + w(5, 32) + w(6, 64) + w(7, 128)

\* All of them are different, and none is empty.
LEMMA SyndromesDiffer ==
    ASSUME NEW m \in 0..23, NEW n \in 0..23, m # n
    PROVE  Syndrome(m) # Syndrome(n) /\ Syndrome(m) # {}
<1> DEFINE Number(k) ==
        CASE k = 0 -> 1
          [] k = 1 -> 2
          [] k = 2 -> 4
          [] k = 3 -> 8
          [] k = 4 -> 16
          [] k = 5 -> 32
          [] k = 6 -> 64
          [] k = 7 -> 128
          [] k = 8 -> 49
          [] k = 9 -> 98
          [] k = 10 -> 196
          [] k = 11 -> 185
          [] k = 12 -> 67
          [] k = 13 -> 134
          [] k = 14 -> 61
          [] k = 15 -> 122
          [] k = 16 -> 244
          [] k = 17 -> 217
          [] k = 18 -> 131
          [] k = 19 -> 55
          [] k = 20 -> 110
          [] k = 21 -> 220
          [] k = 22 -> 137
          [] k = 23 -> 35
<1>1. \A k \in 0..23 : Weight(Syndrome(k)) = Number(k)
  <2>1. Weight({0}) = 1
    BY DEF Weight
  <2>2. Weight({1}) = 2
    BY DEF Weight
  <2>3. Weight({2}) = 4
    BY DEF Weight
  <2>4. Weight({3}) = 8
    BY DEF Weight
  <2>5. Weight({4}) = 16
    BY DEF Weight
  <2>6. Weight({5}) = 32
    BY DEF Weight
  <2>7. Weight({6}) = 64
    BY DEF Weight
  <2>8. Weight({7}) = 128
    BY DEF Weight
  <2>9. Weight({0, 4, 5}) = 49
    BY DEF Weight
  <2>10. Weight({1, 5, 6}) = 98
    BY DEF Weight
  <2>11. Weight({2, 6, 7}) = 196
    BY DEF Weight
  <2>12. Weight({0, 3, 4, 5, 7}) = 185
    BY DEF Weight
  <2>13. Weight({0, 1, 6}) = 67
    BY DEF Weight
  <2>14. Weight({1, 2, 7}) = 134
    BY DEF Weight
  <2>15. Weight({0, 2, 3, 4, 5}) = 61
    BY DEF Weight
  <2>16. Weight({1, 3, 4, 5, 6}) = 122
    BY DEF Weight
  <2>17. Weight({2, 4, 5, 6, 7}) = 244
    BY DEF Weight
  <2>18. Weight({0, 3, 4, 6, 7}) = 217
    BY DEF Weight
  <2>19. Weight({0, 1, 7}) = 131
    BY DEF Weight
  <2>20. Weight({0, 1, 2, 4, 5}) = 55
    BY DEF Weight
  <2>21. Weight({1, 2, 3, 5, 6}) = 110
    BY DEF Weight
  <2>22. Weight({2, 3, 4, 6, 7}) = 220
    BY DEF Weight
  <2>23. Weight({0, 3, 7}) = 137
    BY DEF Weight
  <2>24. Weight({0, 1, 5}) = 35
    BY DEF Weight
  <2> QED BY <2>1, <2>2, <2>3, <2>4, <2>5, <2>6, <2>7, <2>8, <2>9, <2>10, <2>11, <2>12, <2>13, <2>14, <2>15, <2>16, <2>17, <2>18, <2>19, <2>20, <2>21, <2>22, <2>23, <2>24 DEF Syndrome
<1>2. \A k, l \in 0..23 : Number(k) = Number(l) => k = l
  OBVIOUS
<1>3. Weight({}) = 0 /\ \A k \in 0..23 : Number(k) # 0
  BY DEF Weight
<1> QED BY <1>1, <1>2, <1>3

\* Eight shifts move a wrong bit by a byte.
LEMMA SyndromeOfByte ==
    /\ CrcByte({}, {}) = {}
    /\ \A n \in 0..15 : CrcByte({}, Syndrome(n)) = Syndrome(n + 8)
<1>1. CrcShift({}) = {}
  BY DEF CrcShift, Xor
<1>2. ASSUME NEW n \in 0..15 PROVE CrcByte({}, Syndrome(n)) = Syndrome(n + 8)
  <2>1. CrcByte({}, Syndrome(n)) =
           CrcShift(CrcShift(CrcShift(CrcShift(CrcShift(CrcShift(CrcShift(CrcShift(Syndrome(n)))))))))
    <3>1. Xor({}, Syndrome(n)) = Syndrome(n)
      BY DEF Xor
    <3> QED BY <3>1 DEF CrcByte
  <2>2. /\ CrcShift(Syndrome(n)) = Syndrome(n + 1)
        /\ CrcShift(Syndrome(n + 1)) = Syndrome(n + 2)
        /\ CrcShift(Syndrome(n + 2)) = Syndrome(n + 3)
        /\ CrcShift(Syndrome(n + 3)) = Syndrome(n + 4)
        /\ CrcShift(Syndrome(n + 4)) = Syndrome(n + 5)
        /\ CrcShift(Syndrome(n + 5)) = Syndrome(n + 6)
        /\ CrcShift(Syndrome(n + 6)) = Syndrome(n + 7)
        /\ CrcShift(Syndrome(n + 7)) = Syndrome(n + 8)
    BY SyndromeStep
  <2> QED BY <2>1, <2>2
<1>3. CrcByte({}, {}) = {}
  <2>1. Xor({}, {}) = {}
    BY DEF Xor
  <2> QED BY <1>1, <2>1 DEF CrcByte
<1> QED BY <1>2, <1>3

\* What wrong bits of a word and its checksum come to.
Residue(e) == Xor(CrcByte(CrcByte({}, e[1]), e[2]), e[3])

Word == [1..3 -> Byte]

LEMMA EmptyByte == {} \in Byte /\ Bits \in Byte
BY DEF Byte

LEMMA ResidueLinear ==
    ASSUME NEW d \in Word, NEW e \in Word
    PROVE  Residue([k \in 1..3 |-> Xor(d[k], e[k])]) = Xor(Residue(d), Residue(e))
<1>1. d[1] \in Byte /\ d[2] \in Byte /\ d[3] \in Byte /\ e[1] \in Byte /\ e[2] \in Byte /\ e[3] \in Byte
  BY DEF Word
<1>2. Xor({}, {}) = {}
  BY DEF Xor
<1>3. CrcByte({}, Xor(d[1], e[1])) = Xor(CrcByte({}, d[1]), CrcByte({}, e[1]))
  <2>1. CrcByte(Xor({}, {}), Xor(d[1], e[1])) = Xor(CrcByte({}, d[1]), CrcByte({}, e[1]))
    BY <1>1, CrcByteLinear, EmptyByte
  <2> QED BY <1>2, <2>1
<1>4. CrcByte(CrcByte({}, Xor(d[1], e[1])), Xor(d[2], e[2])) =
         Xor(CrcByte(CrcByte({}, d[1]), d[2]), CrcByte(CrcByte({}, e[1]), e[2]))
  <2>1. CrcByte({}, d[1]) \in Byte /\ CrcByte({}, e[1]) \in Byte
    BY <1>1, CrcByteByte, EmptyByte
  <2> QED BY <1>1, <1>3, <2>1, CrcByteLinear
<1>5. \A a, b, c, g : Xor(Xor(a, b), Xor(c, g)) = Xor(Xor(a, c), Xor(b, g))
  BY DEF Xor
<1>6. Residue([k \in 1..3 |-> Xor(d[k], e[k])]) =
         Xor(CrcByte(CrcByte({}, Xor(d[1], e[1])), Xor(d[2], e[2])), Xor(d[3], e[3]))
  BY DEF Residue
<1> QED BY <1>4, <1>5, <1>6 DEF Residue

\* The checksum is right exactly when that is nothing.
LEMMA RightIfNoResidue ==
    ASSUME NEW x \in Byte, NEW y \in Byte, NEW e \in Word
    PROVE  CalcCrc(Xor(x, e[1]), Xor(y, e[2])) = Xor(CalcCrc(x, y), e[3]) <=> Residue(e) = {}
<1>1. e[1] \in Byte /\ e[2] \in Byte /\ e[3] \in Byte
  BY DEF Word
<1>2. Xor(Bits, {}) = Bits
  BY DEF Xor
<1>3. CrcByte(Bits, Xor(x, e[1])) = Xor(CrcByte(Bits, x), CrcByte({}, e[1]))
  <2>1. CrcByte(Xor(Bits, {}), Xor(x, e[1])) = Xor(CrcByte(Bits, x), CrcByte({}, e[1]))
    BY <1>1, CrcByteLinear, EmptyByte
  <2> QED BY <1>2, <2>1
<1>4. CalcCrc(Xor(x, e[1]), Xor(y, e[2])) = Xor(CalcCrc(x, y), CrcByte(CrcByte({}, e[1]), e[2]))
  <2>1. CrcByte(Bits, x) \in Byte /\ CrcByte({}, e[1]) \in Byte
    BY <1>1, CrcByteByte, EmptyByte
  <2>2. CrcByte(Xor(CrcByte(Bits, x), CrcByte({}, e[1])), Xor(y, e[2])) =
           Xor(CrcByte(CrcByte(Bits, x), y), CrcByte(CrcByte({}, e[1]), e[2]))
    BY <1>1, <2>1, CrcByteLinear
  <2> QED BY <1>3, <2>2 DEF CalcCrc
<1>5. \A a, b, c : Xor(a, b) = Xor(a, c) <=> Xor(b, c) = {}
  BY DEF Xor
<1> QED BY <1>4, <1>5 DEF Residue

\* The part of the wrong places that is in the word at byte i.
In(wrong, i) == [k \in 1..3 |-> {b \in Bits : <<i + k - 1, b>> \in wrong}]

LEMMA InWord == \A wrong, i : In(wrong, i) \in Word
BY DEF In, Word, Byte

\* One wrong bit.
LEMMA OneResidue ==
    ASSUME NEW p \in 1..6, NEW c \in Bits, NEW i \in {1, 4}
    PROVE  Residue(In({<<p, c>>}, i)) = IF p \in i..i + 2 THEN Syndrome(c + 8 * (i + 2 - p)) ELSE {}
<1> DEFINE e == In({<<p, c>>}, i)
<1>1. \A k \in 1..3 : e[k] = IF i + k - 1 = p THEN {c} ELSE {}
  BY DEF In
<1>2. {c} = Syndrome(c)
  BY DEF Bits, Syndrome
<1>3. c \in 0..7
  BY DEF Bits
<1> HIDE DEF e
<1>4. \A a : Xor(a, {}) = a /\ Xor({}, a) = a
  BY DEF Xor
<1>5. /\ CrcByte({}, {}) = {}
      /\ \A n \in 0..15 : CrcByte({}, Syndrome(n)) = Syndrome(n + 8)
      /\ \A n \in 0..15 : CrcByte(Syndrome(n + 8), {}) = CrcByte({}, Syndrome(n + 8))
  BY <1>4, SyndromeOfByte DEF CrcByte
<1>6. CASE p = i
  <2>1. e[1] = Syndrome(c) /\ e[2] = {} /\ e[3] = {}
    BY <1>1, <1>2, <1>6
  <2>2. CrcByte({}, e[1]) = Syndrome(c + 8)
    BY <1>3, <1>5, <2>1
  <2>3. CrcByte(Syndrome(c + 8), {}) = Syndrome(c + 8 + 8)
    BY <1>3, <1>5
  <2>4. c + 8 + 8 = c + 8 * (i + 2 - p)
    BY <1>3, <1>6
  <2> QED BY <2>1, <2>2, <2>3, <2>4, <1>4, <1>6 DEF Residue, e
<1>7. CASE p = i + 1
  <2>1. e[1] = {} /\ e[2] = Syndrome(c) /\ e[3] = {}
    BY <1>1, <1>2, <1>7
  <2>2. c + 8 = c + 8 * (i + 2 - p) /\ p \in i..i + 2
    BY <1>3, <1>7
  <2>3. CrcByte(CrcByte({}, e[1]), e[2]) = Syndrome(c + 8)
    BY <1>3, <1>5, <2>1
  <2> QED BY <2>1, <2>2, <2>3, <1>4 DEF Residue, e
<1>8. CASE p = i + 2
  <2>1. e[1] = {} /\ e[2] = {} /\ e[3] = Syndrome(c)
    BY <1>1, <1>2, <1>8
  <2>2. c = c + 8 * (i + 2 - p) /\ p \in i..i + 2
    BY <1>3, <1>8
  <2> QED BY <2>1, <2>2, <1>3, <1>4, <1>5 DEF Residue, e
<1>9. CASE p \notin i..i + 2
  <2>1. e[1] = {} /\ e[2] = {} /\ e[3] = {}
    BY <1>1, <1>9
  <2> QED BY <2>1, <1>4, <1>5, <1>9 DEF Residue, e
<1> QED BY <1>6, <1>7, <1>8, <1>9

\* One or two wrong bits of a word, none elsewhere, or none at all.
LEMMA ResidueSeen ==
    ASSUME NEW f \in Places, NEW g \in Places, NEW i \in {1, 4}
    PROVE  Residue(In({f, g}, i)) = {} <=> f[1] \notin i..i + 2 /\ g[1] \notin i..i + 2
<1> DEFINE At(h) == h[2] + 8 * (i + 2 - h[1])
           Here(h) == h[1] \in i..i + 2
           R(h) == Residue(In({h}, i))
<1>1. ASSUME NEW h \in Places PROVE R(h) = IF Here(h) THEN Syndrome(At(h)) ELSE {}
  <2>1. PICK p \in 1..6, c \in Bits : h = <<p, c>>
    BY DEF Places
  <2>2. h[1] = p /\ h[2] = c
    BY <2>1
  <2> QED BY <2>1, <2>2, OneResidue
<1>2. ASSUME NEW h \in Places, Here(h) PROVE At(h) \in 0..23
  BY <1>2 DEF Places, Bits
<1>3. ASSUME NEW n \in 0..23 PROVE Syndrome(n) # {}
  <2>1. CASE n = 0
    BY <2>1, SyndromesDiffer, 1 \in 0..23, 0 \in 0..23
  <2>2. CASE n # 0
    BY <2>2, SyndromesDiffer, 0 \in 0..23
  <2> QED BY <2>1, <2>2
<1>4. CASE f = g
  <2>1. In({f, g}, i) = In({f}, i)
    BY <1>4
  <2> QED BY <2>1, <1>1, <1>2, <1>3, <1>4
<1>5. CASE f # g
  <2>1. In({f, g}, i) = [k \in 1..3 |-> Xor(In({f}, i)[k], In({g}, i)[k])]
    <3>1. \A k \in 1..3 : In({f, g}, i)[k] = Xor(In({f}, i)[k], In({g}, i)[k])
      BY <1>5 DEF In, Xor
    <3> QED BY <3>1 DEF In
  <2>2. Residue(In({f, g}, i)) = Xor(R(f), R(g))
    BY <2>1, InWord, ResidueLinear
  <2>3. Xor(R(f), R(g)) = {} <=> R(f) = R(g)
    BY DEF Xor
  <2>4. ASSUME Here(f), Here(g) PROVE At(f) # At(g)
    <3>1. f = <<f[1], f[2]>> /\ g = <<g[1], g[2]>>
      BY DEF Places
    <3>2. f[1] # g[1] \/ f[2] # g[2]
      BY <1>5, <3>1
    <3>3. {f[1], g[1], i} \subseteq 1..6 /\ {f[2], g[2]} \subseteq 0..7
      BY DEF Places, Bits
    <3> QED BY <3>2, <3>3
  <2>6. CASE Here(f) /\ Here(g)
    <3>1. R(f) # R(g)
      BY <1>1, <1>2, <2>4, <2>6, SyndromesDiffer
    <3> QED BY <3>1, <2>2, <2>3, <2>6
  <2>7. CASE ~Here(f) /\ ~Here(g)
    BY <1>1, <2>2, <2>3, <2>7
  <2>8. CASE Here(f) /\ ~Here(g)
    BY <1>1, <1>2, <1>3, <2>2, <2>3, <2>8
  <2>9. CASE ~Here(f) /\ Here(g)
    BY <1>1, <1>2, <1>3, <2>2, <2>3, <2>9
  <2> QED BY <2>6, <2>7, <2>8, <2>9
<1> QED BY <1>4, <1>5

\* The sensor is read anew, and a failed transfer leaves nothing in the buffer.
ShtInv ==
    /\ ShtTypeOK /\ ShtChecked
    /\ sht_at # "shown" => sht_sent = NoReading

LEMMA SentIs ==
    ASSUME NEW w \in [1..4 -> ShtBytes]
    PROVE  Sent(w) \in [1..6 -> Byte] /\ \A i \in {1, 4} : CrcRight(Sent(w), i)
<1>1. w[1] \in Byte /\ w[2] \in Byte /\ w[3] \in Byte /\ w[4] \in Byte
  BY ShtAssumption DEF Byte
<1>2. CalcCrc(w[1], w[2]) \in Byte /\ CalcCrc(w[3], w[4]) \in Byte
  BY <1>1, CrcByteByte, EmptyByte DEF CalcCrc
<1> HIDE DEF Byte
<1>3. \A a, b, c, d, e, f \in Byte : <<a, b, c, d, e, f>> \in [1..6 -> Byte]
  OBVIOUS
<1>4. /\ Sent(w)[1] = w[1] /\ Sent(w)[2] = w[2] /\ Sent(w)[3] = CalcCrc(w[1], w[2])
      /\ Sent(w)[4] = w[3] /\ Sent(w)[5] = w[4] /\ Sent(w)[6] = CalcCrc(w[3], w[4])
  BY DEF Sent
<1>5. CrcRight(Sent(w), 1) /\ CrcRight(Sent(w), 4)
  BY <1>4 DEF CrcRight
<1> QED BY <1>1, <1>2, <1>3, <1>5 DEF Sent

\* One wrong bit or two, wherever they are in the six bytes, are seen by one of
\* the two checksums, whatever the bytes are (hx_sht30.c).
THEOREM WrongBitsSeen ==
    ASSUME NEW sent \in [1..6 -> Byte], NEW f \in Places, NEW g \in Places,
           \A i \in {1, 4} : CrcRight(sent, i)
    PROVE  /\ Arrived(sent, {f, g}) \in [1..6 -> Byte]
           /\ Arrived(sent, {f, g}) # sent
           /\ ~(CrcRight(Arrived(sent, {f, g}), 1) /\ CrcRight(Arrived(sent, {f, g}), 4))
<1> DEFINE wrong == {f, g}
           buf == Arrived(sent, wrong)
           E(j) == {b \in Bits : <<j, b>> \in wrong}
<1>1. \A j \in 1..6 : buf[j] = Xor(sent[j], E(j)) /\ E(j) \in Byte
  BY DEF Arrived, Byte
<1>2. buf \in [1..6 -> Byte]
  BY XorByte DEF Arrived, Byte
<1>3. f[1] \in 1..6 /\ f[2] \in Bits /\ f = <<f[1], f[2]>>
  BY DEF Places
<1>4. buf # sent
  <2>1. f[2] \in E(f[1])
    BY <1>3
  <2>2. buf[f[1]] # sent[f[1]]
    BY <1>1, <1>3, <2>1 DEF Xor
  <2> QED BY <2>2
<1>5. ASSUME NEW i \in {1, 4}
      PROVE  CrcRight(buf, i) <=> Residue(In(wrong, i)) = {}
  <2>1. In(wrong, i)[1] = E(i) /\ In(wrong, i)[2] = E(i + 1) /\ In(wrong, i)[3] = E(i + 2)
    <3>1. i + 1 - 1 = i /\ i + 2 - 1 = i + 1 /\ i + 3 - 1 = i + 2
      OBVIOUS
    <3> QED BY <3>1 DEF In
  <2>2. /\ buf[i] = Xor(sent[i], In(wrong, i)[1])
        /\ buf[i + 1] = Xor(sent[i + 1], In(wrong, i)[2])
        /\ buf[i + 2] = Xor(CalcCrc(sent[i], sent[i + 1]), In(wrong, i)[3])
    <3>1. i \in 1..6 /\ i + 1 \in 1..6 /\ i + 2 \in 1..6
      OBVIOUS
    <3> QED BY <3>1, <1>1, <2>1 DEF CrcRight
  <2>3. sent[i] \in Byte /\ sent[i + 1] \in Byte
    OBVIOUS
  <2> QED BY <2>2, <2>3, InWord, RightIfNoResidue DEF CrcRight
<1>6. f[1] \in 1..1 + 2 \/ f[1] \in 4..4 + 2
  BY <1>3
<1>7. ~(CrcRight(buf, 1) /\ CrcRight(buf, 4))
  BY <1>5, <1>6, ResidueSeen
<1> QED BY <1>2, <1>4, <1>7

LEMMA ShtStep == ShtInv /\ [ShtNext]_sht_vars => ShtInv'
<1> SUFFICES ASSUME ShtInv, [ShtNext]_sht_vars PROVE ShtInv'
  OBVIOUS
<1> USE DEF ShtInv, ShtTypeOK, ShtChecked
<1>1. CASE UNCHANGED sht_vars
  BY <1>1 DEF sht_vars
<1>2. CASE ShtStart
  BY <1>2 DEF ShtStart
<1>3. CASE GetValue
  <2>1. PICK w \in [1..4 -> ShtBytes] : sht_sent' = Sent(w)
    BY <1>3 DEF GetValue
  <2>2. sht_sent' \in [1..6 -> Byte] /\ \A i \in {1, 4} : CrcRight(sht_sent', i)
    BY <2>1, SentIs
  <2>3. sht_ok' <=> CrcRight(sht_buf', 1) /\ CrcRight(sht_buf', 4)
    BY <1>3 DEF GetValue
  <2>4. sht_ok' \in BOOLEAN
    BY <1>3 DEF GetValue
  <2>5. sht_buf' \in [1..6 -> Byte] /\ (sht_ok' <=> sht_buf' = sht_sent')
    <3>1. CASE sht_buf' = sht_sent'
      BY <3>1, <2>2, <2>3
    <3>2. CASE \E f, g \in Places : sht_buf' = Arrived(sht_sent', {f, g})
      <4>1. PICK f \in Places, g \in Places : sht_buf' = Arrived(sht_sent', {f, g})
        BY <3>2
      <4> QED BY <4>1, <2>2, <2>3, WrongBitsSeen
    <3> QED BY <1>3, <3>1, <3>2 DEF GetValue
  <2>6. sht_at' = "shown" /\ sht_links' = sht_links
    BY <1>3 DEF GetValue
  <2> QED BY <2>2, <2>4, <2>5, <2>6 DEF Byte
<1>4. CASE GetValueFails
  <2>1. sht_links' \in 0..MaxShtLinks
    BY <1>4, ShtAssumption DEF GetValueFails
  <2>2. sht_ok' = FALSE /\ sht_at' = "shown" /\ sht_sent' = sht_sent /\ sht_buf' = sht_buf
        /\ sht_sent = NoReading
    BY <1>4 DEF GetValueFails
  <2> QED BY <2>1, <2>2
<1>5. CASE ShtPause
  BY <1>5 DEF ShtPause, NoReading
<1> QED BY <1>1, <1>2, <1>3, <1>4, <1>5 DEF ShtNext

LEMMA ShtStart0 == ShtInit => ShtInv
<1>1. NoReading \in [1..6 -> SUBSET Bits]
  BY DEF NoReading
<1>2. 0 \in 0..MaxShtLinks
  BY ShtAssumption
<1> QED BY <1>1, <1>2 DEF ShtInit, ShtInv, ShtTypeOK, ShtChecked

-----------------------------------------------------------------------------
(* The temperature sensor.                                                  *)

\* The frame grows byte by byte, and is looked at when it is whole.
DhtInv ==
    /\ DhtTypeOK /\ DhtChecked
    /\ dht_bits \in Seq(0..255)
    /\ dht_at = "answer" => Len(dht_bits) = 0
    /\ dht_at = "bytes" => Len(dht_bits) <= 4
    /\ dht_at = "sum" => Len(dht_bits) = 5

LEMMA DhtStart == DhtInit => DhtInv
BY DEF DhtInit, DhtInv, DhtTypeOK, DhtChecked, Getters, CHECKSUM_ERROR

LEMMA BelowFour == \A n \in Nat : n <= 4 /\ n # 4 => n + 1 <= 4
OBVIOUS

LEMMA FahrenheitRange == \A t \in 0..255 : Fahrenheit(t) \in 0..491
BY DEF Fahrenheit

LEMMA DhtStep == DhtInv /\ [DhtNext]_dht_vars => DhtInv'
<1> SUFFICES ASSUME DhtInv, [DhtNext]_dht_vars PROVE DhtInv'
  OBVIOUS
<1> USE DEF DhtInv, CHECKSUM_ERROR, TIMEOUT_ERROR
<1>1. CASE UNCHANGED dht_vars
  BY <1>1 DEF dht_vars, DhtTypeOK, DhtChecked, DhtSum
<1>2. CASE GetData
  BY <1>2 DEF GetData, NextGetter, Getters, DhtTypeOK, DhtChecked
<1>3. CASE DhtTimeout
  BY <1>3 DEF DhtTimeout, DhtTypeOK, DhtChecked
<1>4. CASE DhtAnswers
  BY <1>4 DEF DhtAnswers, DhtTypeOK, DhtChecked
<1>5. CASE DhtByte
  <2>1. PICK b \in DhtBytes : dht_bits' = Append(dht_bits, b)
    BY <1>5 DEF DhtByte
  <2>2. dht_bits' \in Seq(0..255) /\ Len(dht_bits') = Len(dht_bits) + 1
    BY <2>1, DhtAssumption
  <2>3. Len(dht_bits) \in Nat
    BY LenProperties
  <2>4. /\ dht_at = "bytes" /\ dht_at' = IF Len(dht_bits) = 4 THEN "sum" ELSE "bytes"
        /\ UNCHANGED <<dht_getter, humidity, temperature, Ftemperature, dht_returned>>
    BY <1>5 DEF DhtByte
  <2>5. DhtTypeOK'
    BY <2>2, <2>3, <2>4 DEF DhtTypeOK
  <2>6. DhtChecked'
    BY <2>3, <2>4 DEF DhtChecked
  <2>7. /\ dht_at' = "sum" => Len(dht_bits') = 5
        /\ dht_at' = "bytes" => Len(dht_bits') <= 4
        /\ dht_at' # "answer"
    <3> HIDE DEF DhtInv
    <3>1. Len(dht_bits) <= 4
      BY <2>4 DEF DhtInv
    <3>2. CASE Len(dht_bits) = 4
      BY <2>2, <2>4, <3>2
    <3>3. CASE Len(dht_bits) # 4
      <4>1. Len(dht_bits) + 1 <= 4
        BY <2>3, <3>1, <3>3, BelowFour
      <4> QED BY <2>2, <2>4, <3>3, <4>1
    <3> QED BY <3>2, <3>3
  <2> QED BY <2>2, <2>5, <2>6, <2>7, Zenon
<1>6. CASE DhtCheck
  <2>1. dht_bits[1] \in 0..255 /\ dht_bits[3] \in 0..255 /\ Len(dht_bits) = 5
    <3>1. dht_bits \in Seq(0..255) /\ Len(dht_bits) = 5
      BY <1>6 DEF DhtCheck
    <3>2. \A n \in 1..5 : dht_bits[n] \in 0..255
      BY <3>1, ElementOfSeq
    <3> QED BY <3>1, <3>2
  <2>2. Fahrenheit(dht_bits[3]) \in 0..491
    BY <2>1, FahrenheitRange
  <2>3. humidity' = dht_bits[1] /\ temperature' = dht_bits[3]
        /\ Ftemperature' = Fahrenheit(dht_bits[3])
    BY <1>6 DEF DhtCheck
  <2>4. /\ dht_returned' \in {CHECKSUM_ERROR, humidity', temperature', Ftemperature'}
        /\ dht_returned' # CHECKSUM_ERROR =>
              /\ dht_bits[5] = DhtSum(dht_bits)
              /\ dht_getter = "getTemp" => dht_returned' = temperature'
    <3>1. dht_returned' = IF dht_bits[5] # DhtSum(dht_bits) THEN CHECKSUM_ERROR
                          ELSE <<humidity', temperature', Ftemperature'>>[TypeOf(dht_getter) + 1]
      BY <1>6 DEF DhtCheck
    <3>2. TypeOf(dht_getter) \in 0..2
      BY DEF DhtTypeOK, Getters, TypeOf
    <3>3. <<humidity', temperature', Ftemperature'>>[TypeOf(dht_getter) + 1] \in {humidity', temperature', Ftemperature'}
      BY <3>2
    <3>4. dht_getter = "getTemp" =>
             <<humidity', temperature', Ftemperature'>>[TypeOf(dht_getter) + 1] = temperature'
      BY DEF TypeOf
    <3> QED BY <3>1, <3>3, <3>4
  <2>5. dht_at' = "idle" /\ UNCHANGED <<dht_getter, dht_bits>>
    BY <1>6 DEF DhtCheck
  <2>6. DhtTypeOK' /\ dht_bits' \in Seq(0..255)
    <3>1. dht_getter \in Getters
      BY DEF DhtTypeOK
    <3>2. dht_returned' \in -2..491
      <4>1. -1 \in -2..491 /\ 0..255 \subseteq -2..491 /\ 0..491 \subseteq -2..491
        OBVIOUS
      <4>2. humidity' \in 0..255 /\ temperature' \in 0..255 /\ Ftemperature' \in 0..491
        BY <2>1, <2>2, <2>3
      <4> QED BY <2>4, <4>1, <4>2
    <3> QED BY <3>1, <3>2, <2>1, <2>2, <2>3, <2>5 DEF DhtTypeOK
  <2>7. DhtSum(dht_bits)' = DhtSum(dht_bits)
    BY <2>5 DEF DhtSum
  <2>8. DhtChecked'
    BY <2>1, <2>3, <2>4, <2>5, <2>7 DEF DhtChecked
  <2> QED BY <2>5, <2>6, <2>8
<1> QED BY <1>1, <1>2, <1>3, <1>4, <1>5, <1>6 DEF DhtNext

-----------------------------------------------------------------------------
(* The infrared receiver.                                                   *)

IrInv == IrTypeOK /\ IrWhole

LEMMA NoBytes == <<0, 0, 0, 0>> \in [1..4 -> 0..255]
OBVIOUS

LEMMA IrStart == IrInit => IrInv
<1> SUFFICES ASSUME IrInit PROVE IrInv
  OBVIOUS
<1>1. ir_bytes \in [1..4 -> 0..255]
  BY NoBytes DEF IrInit
<1>2. ir_at = "wait" /\ ir_header = FALSE /\ ir_items = 1 /\ ir_command = 0
  BY DEF IrInit
<1>3. ir_items \in 1..41 /\ ir_command \in 0..255
  BY <1>2
<1>4. IrWhole
  BY <1>2 DEF IrWhole
<1> QED BY <1>1, <1>2, <1>3, <1>4 DEF IrInv, IrTypeOK

LEMMA IrStep == IrInv /\ [IrNext]_ir_vars => IrInv'
<1> SUFFICES ASSUME IrInv, [IrNext]_ir_vars PROVE IrInv'
  OBVIOUS
<1> USE DEF IrInv, IrTypeOK, IrWhole
<1>1. CASE UNCHANGED ir_vars
  BY <1>1 DEF ir_vars
<1>2. CASE IrFrame
  <2>1. ir_bytes' \in [1..4 -> 0..255]
    <3>1. ir_bytes' \in [1..4 -> IrBytes]
      BY <1>2 DEF IrFrame
    <3> HIDE DEF IrTypeOK, IrWhole
    <3> QED BY <3>1, IrAssumption
  <2> QED BY <1>2, <2>1 DEF IrFrame
<1>3. CASE IrDecode
  <2>1. \A n \in 1..4 : Decoded(n) \in 0..255
    BY DEF Decoded
  <2>2. ir_command' \in 0..255
    BY <1>3, <2>1 DEF IrDecode
  <2>3. ASSUME ir_command' \notin {0, 255}
        PROVE  /\ ir_header /\ ir_items >= 33
               /\ ir_bytes[1] + ir_bytes[2] = 255 /\ ir_bytes[3] + ir_bytes[4] = 255
               /\ ir_command' = ir_bytes[3]
    <3>1. /\ ir_header /\ ir_command' = Decoded(3)
          /\ Decoded(1) = 255 - Decoded(2) /\ Decoded(3) = 255 - Decoded(4)
      BY <1>3, <2>3 DEF IrDecode
    <3>2. ir_items > 32
      <4>1. Decoded(4) # 0
        BY <2>1, <2>3, <3>1
      <4> QED BY <4>1 DEF Decoded
    <3>3. Decoded(1) = ir_bytes[1] /\ Decoded(2) = ir_bytes[2]
          /\ Decoded(3) = ir_bytes[3] /\ Decoded(4) = ir_bytes[4]
      BY <3>2 DEF Decoded
    <3> QED BY <3>1, <3>2, <3>3
  <2> QED BY <1>3, <2>2, <2>3 DEF IrDecode
<1>4. CASE IrReadAgain
  <2>1. ir_bytes' \in [1..4 -> 0..255]
    BY <1>4, NoBytes DEF IrReadAgain
  <2>2. ir_at' = "wait" /\ ir_header' = FALSE /\ ir_items' = 1 /\ ir_command' = 0
    BY <1>4 DEF IrReadAgain
  <2>3. ir_items' \in 1..41 /\ ir_command' \in 0..255
    BY <2>2
  <2>4. IrWhole'
    BY <2>2
  <2> QED BY <2>1, <2>2, <2>3, <2>4, Zenon
<1> QED BY <1>1, <1>2, <1>3, <1>4 DEF IrNext

-----------------------------------------------------------------------------
(* The keys and digits.                                                     *)

\* A digit other than that of the key in hand shows its count; before the first
\* scan all show the dash.
TmInv ==
    /\ TmTypeOK
    /\ tm_at \in {"held", "show"} => tm_key \in TmKeys
    /\ tm_at = "init" => \A k \in TmKeys : tm_digit[k] = NoDigit
    /\ \A k \in TmKeys : ~(tm_at \in {"held", "show"} /\ k = tm_key) =>
            tm_digit[k] \in {NoDigit, tm_num[k]}
    /\ tm_at = "show" => tm_num[tm_key] <= 15

LEMMA TmStart0 == TmInit => TmInv
<1> SUFFICES ASSUME TmInit PROVE TmInv
  OBVIOUS
<1>1. tm_num \in [TmKeys -> 0..255]
  BY TmAssumption DEF TmInit
<1>2. tm_digit \in [TmKeys -> 0..255] /\ \A k \in TmKeys : tm_digit[k] = NoDigit
  BY DEF TmInit, NoDigit
<1> QED BY <1>1, <1>2 DEF TmInit, TmInv, TmTypeOK

LEMMA KeyIsDown ==
    ASSUME tm_pressed \subseteq TmKeys, Read_key < 8
    PROVE  Read_key \in TmKeys
<1>1. Cardinality(tm_pressed) = 1
  BY DEF Read_key
<1>2. tm_pressed # {}
  BY <1>1, FS_EmptySet
<1> QED BY <1>1, <1>2 DEF Read_key

LEMMA TmStep == TmInv /\ [TmNext]_tm_vars => TmInv'
<1> SUFFICES ASSUME TmInv, [TmNext]_tm_vars PROVE TmInv'
  OBVIOUS
<1> USE TmAssumption DEF TmInv, TmTypeOK, NoDigit
<1>1. CASE UNCHANGED tm_vars
  BY <1>1 DEF tm_vars
<1>2. CASE TmFingers
  BY <1>2 DEF TmFingers
<1>3. CASE TmStart
  BY <1>3 DEF TmStart
<1>4. CASE TmScan
  <2>1. Read_key \in TmKeys
    BY <1>4, KeyIsDown DEF TmScan
  <2>2. tm_num' \in [TmKeys -> 0..255]
    BY <1>4, <2>1 DEF TmScan
  <2>3. tm_key' = Read_key /\ tm_at' = "held" /\ UNCHANGED <<tm_pressed, tm_digit, tm_lamps>>
    BY <1>4 DEF TmScan
  <2>4. \A k \in TmKeys \ {Read_key} : tm_num'[k] = tm_num[k]
    BY <1>4, <2>1 DEF TmScan
  <2> QED BY <1>4, <2>1, <2>2, <2>3, <2>4 DEF TmScan
<1>5. CASE TmReleased
  BY <1>5 DEF TmReleased
<1>6. CASE TmShow
  BY <1>6 DEF TmShow
<1> QED BY <1>1, <1>2, <1>3, <1>4, <1>5, <1>6 DEF TmNext

-----------------------------------------------------------------------------
(* The LED driver.                                                          *)

\* While the outputs are faded one after the other, those before the one in
\* hand are off for good, if the chip counts; and none was ever set to go on
\* at the value that means off.
PcaInv ==
    /\ PcaTypeOK
    /\ \A p \in Pins : pca_led[p].on < Off
    /\ pca_at = "fade" /\ pca_counts => \A p \in Pins : p < pca_pin => pca_led[p].off = Off
    /\ PcaDark

LEMMA PcaStart == PcaInit => PcaInv
<1> SUFFICES ASSUME PcaInit PROVE PcaInv
  OBVIOUS
<1>1. PICK led \in {[on |-> 0, off |-> Off], [on |-> 400, off |-> 2000]} :
           pca_led = [p \in Pins |-> led]
  BY DEF PcaInit
<1>2. led \in [on : 0..Off, off : 0..Off] /\ led.on < Off
  BY DEF Off
<1> QED BY <1>1, <1>2, PcaAssumption DEF PcaInit, PcaInv, PcaTypeOK, PcaDark, Pins

LEMMA OffIs == 0 \in 0..Off - 1 /\ 0 \in 0..Off /\ Off \in 0..Off
BY DEF Off

LEMMA LastByte ==
    ASSUME NEW on \in 0..Off - 1, NEW off \in 0..Off
    PROVE  (on \div 256) * 256 + off \div 256 \in 0..Off - 1
<1>1. on \div 256 \in 0..15
  BY DEF Off
<1>2. off \div 256 \in 0..16
  BY DEF Off
<1> QED BY <1>1, <1>2 DEF Off

\* A write to some outputs.
LEMMA WordsWritten ==
    ASSUME PcaTypeOK, \A p \in Pins : pca_led[p].on < Off,
           NEW pins, NEW on \in 0..Off - 1, NEW off \in 0..Off, TwoWords(pins, on, off)
    PROVE  /\ pca_led' \in [Pins -> [on : 0..Off, off : 0..Off]]
           /\ \A p \in Pins : pca_led'[p].on < Off
           /\ \A p \in Pins \ pins : pca_led'[p] = pca_led[p]
           /\ pca_counts => \A p \in Pins \cap pins : pca_led'[p].off = off
<1> DEFINE Led == [on : 0..Off, off : 0..Off]
<1>1. ASSUME NEW p \in Pins
      PROVE  /\ pca_led'[p] \in Led /\ pca_led'[p].on < Off
             /\ p \notin pins => pca_led'[p] = pca_led[p]
             /\ pca_counts /\ p \in pins => pca_led'[p].off = off
  <2> DEFINE kept == (pca_led[p].on \div 256) * 256 + off \div 256
  <2>1. pca_led[p] \in Led /\ pca_led[p].on < Off
    BY DEF PcaTypeOK
  <2>2. pca_led[p].on \in 0..Off - 1 /\ pca_led[p].on \in 0..Off
    <3>1. \A n \in 0..Off : n < Off => n \in 0..Off - 1
      BY DEF Off
    <3> QED BY <2>1, <3>1
  <2>3. kept \in 0..Off - 1
    BY <2>2, LastByte
  <2>4. pca_led'[p] = IF p \notin pins THEN pca_led[p]
                      ELSE IF pca_counts THEN [on |-> on, off |-> off]
                      ELSE [pca_led[p] EXCEPT !.on = kept]
    BY DEF TwoWords
  <2> HIDE DEF kept
  <2>5. \A n \in 0..Off - 1 : n \in 0..Off
    BY DEF Off
  <2>6. \A n \in 0..Off - 1 : n < Off
    BY DEF Off
  <2>7. /\ [on |-> on, off |-> off] \in Led
        /\ [pca_led[p] EXCEPT !.on = kept] \in Led
        /\ [pca_led[p] EXCEPT !.on = kept].on = kept
    BY <2>1, <2>3, <2>5
  <2> QED BY <2>1, <2>3, <2>4, <2>6, <2>7
<1>2. pca_led' = [p \in Pins |-> pca_led'[p]]
  BY DEF TwoWords
<1> QED BY <1>1, <1>2

LEMMA ErrorsCounted ==
    ASSUME PcaTypeOK, Transferred \/ TransferFails
    PROVE  pca_errors' \in 0..MaxI2cErrors
BY PcaAssumption DEF PcaTypeOK, Transferred, TransferFails

LEMMA PcaStep == PcaInv /\ [PcaNext]_pca_vars => PcaInv'
<1> SUFFICES ASSUME PcaInv, [PcaNext]_pca_vars PROVE PcaInv'
  OBVIOUS
<1> DEFINE Writes == /\ pca_led' \in [Pins -> [on : 0..Off, off : 0..Off]]
                     /\ \A p \in Pins : pca_led'[p].on < Off
<1>1. PcaTypeOK /\ (\A p \in Pins : pca_led[p].on < Off) /\ PcaDark
      /\ (pca_at = "fade" /\ pca_counts => \A p \in Pins : p < pca_pin => pca_led[p].off = Off)
  BY DEF PcaInv
<1>2. /\ pca_errors' \in 0..MaxI2cErrors
      /\ pca_at' \in {"reset", "freq1", "freq2", "freq3", "freq4", "alloff", "fade", "dark",
                      "blink", "unblink"}
      /\ pca_counts' \in BOOLEAN
  <2> USE <1>1, ErrorsCounted DEF ResetMode1, SetOrNot
  <2>0. pca_counts \in BOOLEAN /\ pca_errors \in 0..MaxI2cErrors
    BY DEF PcaTypeOK
  <2>1. CASE UNCHANGED pca_vars
    BY <2>1 DEF pca_vars, PcaTypeOK
  <2>2. CASE ResetPCA9685 \/ AutoIncrement
    BY <2>0, <2>2 DEF ResetPCA9685, AutoIncrement
  <2>7. CASE Sleep("freq1", "freq2")
    BY <2>0, <2>7 DEF Sleep
  <2>8. CASE Sleep("freq3", "freq4")
    BY <2>0, <2>8 DEF Sleep
  <2>9. CASE Prescale
    BY <2>0, <2>9 DEF Prescale
  <2>3. CASE TurnAllOff \/ Pause
    BY <2>0, <2>3 DEF TurnAllOff, Pause
  <2>4. CASE FadeStep
    BY <2>0, <2>4 DEF FadeStep
  <2>5. CASE FadeEnd
    BY <2>0, <2>5 DEF FadeEnd
  <2>6. CASE Blink \/ Unblink
    BY <2>0, <2>6 DEF Blink, Unblink
  <2> QED BY <2>1, <2>2, <2>3, <2>4, <2>5, <2>6, <2>7, <2>8, <2>9 DEF PcaNext, SetFrequency
<1>3. CASE UNCHANGED pca_vars
  BY <1>1, <1>3 DEF pca_vars, PcaInv, PcaTypeOK, PcaDark
<1>4. CASE ResetPCA9685 \/ SetFrequency
  BY <1>1, <1>2, <1>4
  DEF PcaInv, PcaTypeOK, PcaDark, ResetPCA9685, SetFrequency, Sleep, Prescale, AutoIncrement
<1>5. CASE TurnAllOff
  <2>1. Writes
    <3>1. CASE TwoWords(Pins, 0, Off)
      BY <1>1, <3>1, WordsWritten, OffIs
    <3> QED BY <1>1, <1>5, <3>1 DEF TurnAllOff, SetOrNot, PcaTypeOK
  <2> QED BY <1>2, <1>5, <2>1, PcaAssumption DEF TurnAllOff, PcaInv, PcaTypeOK, PcaDark, Pins
<1>6. CASE FadeStep
  <2>1. Writes /\ (\A p \in Pins : p # pca_pin => pca_led'[p] = pca_led[p])
    <3>1. CASE UNCHANGED pca_led
      BY <1>1, <3>1 DEF PcaTypeOK
    <3>2. CASE pca_i < FadeSteps /\ TwoWords({pca_pin}, 0, pca_i)
      <4>1. pca_i \in 0..Off /\ 0 \in 0..Off - 1
        BY <1>1, <3>2, PcaAssumption DEF PcaTypeOK, Off
      <4> QED BY <1>1, <3>2, <4>1, WordsWritten
    <3>3. CASE pca_i >= FadeSteps /\ TwoWords({pca_pin}, pca_i - FadeSteps, 0)
      <4>1. pca_i - FadeSteps \in 0..Off - 1 /\ 0 \in 0..Off
        BY <1>1, <1>6, <3>3, PcaAssumption DEF PcaTypeOK, Off, FadeStep
      <4> QED BY <1>1, <3>3, <4>1, WordsWritten
    <3> QED BY <1>1, <1>6, <3>1, <3>2, <3>3, PcaAssumption DEF FadeStep, SetPWM, PcaTypeOK
  <2>2. pca_i' \in 0..2 * FadeSteps
    BY <1>1, <1>6, PcaAssumption DEF FadeStep, PcaTypeOK
  <2>3. /\ (pca_at' = "fade" /\ pca_pin' = pca_pin) \/ (pca_at' = "blink" /\ pca_pin' = 0)
        /\ pca_at = "fade" /\ pca_counts' = pca_counts
    BY <1>6 DEF FadeStep
  <2>4. pca_pin' \in Pins /\ (pca_at' = "fade" => pca_pin' = pca_pin) /\ pca_at' # "dark"
    BY <1>1, <2>3, PcaAssumption DEF PcaTypeOK, Pins
  <2>5. pca_at' = "fade" /\ pca_counts' => \A p \in Pins : p < pca_pin' => pca_led'[p].off = Off
    <3>1. \A p \in Pins : p < pca_pin => p # pca_pin
      BY <1>1 DEF PcaTypeOK, Pins
    <3> QED BY <1>1, <2>1, <2>3, <2>4, <3>1
  <2> QED BY <1>2, <2>1, <2>2, <2>4, <2>5 DEF PcaInv, PcaTypeOK, PcaDark
<1>7. CASE FadeEnd
  <2>1. Writes /\ (\A p \in Pins : p # pca_pin => pca_led'[p] = pca_led[p])
    <3>1. CASE TwoWords({pca_pin}, 0, Off)
      BY <1>1, <3>1, WordsWritten, OffIs
    <3> QED BY <1>1, <1>7, <3>1 DEF FadeEnd, SetPWM, PcaTypeOK
  <2>2. pca_i' = 0 /\ pca_at = "fade" /\ pca_counts' = pca_counts
    BY <1>7 DEF FadeEnd
  <2>3. CASE pca_at' = "blink"
    BY <1>2, <1>7, <2>1, <2>2, <2>3, PcaAssumption DEF FadeEnd, PcaInv, PcaTypeOK, PcaDark, Pins
  <2>4. CASE pca_at' # "blink"
    <3>1. TwoWords({pca_pin}, 0, Off)
      BY <1>7, <2>4 DEF FadeEnd, SetPWM
    <3>2. pca_counts => pca_led'[pca_pin].off = Off
      <4>1. pca_counts => \A p \in Pins \cap {pca_pin} : pca_led'[p].off = Off
        BY <1>1, <3>1, WordsWritten, OffIs
      <4> QED BY <1>1, <4>1 DEF PcaTypeOK
    <3>3. IF pca_pin = PcaPins - 1 THEN pca_at' = "dark" /\ pca_pin' = pca_pin
          ELSE pca_pin' = pca_pin + 1 /\ pca_at' = "fade"
      BY <1>7, <2>4 DEF FadeEnd
    <3>4. pca_pin \in 0..PcaPins - 1
      BY <1>1 DEF PcaTypeOK, Pins
    <3>5. pca_counts => \A p \in Pins : p <= pca_pin => pca_led'[p].off = Off
      BY <1>1, <2>1, <2>2, <3>2, <3>4 DEF Pins
    <3>6. pca_pin' \in Pins
      BY <3>3, <3>4, PcaAssumption DEF Pins
    <3>7. CASE pca_pin = PcaPins - 1
      <4>1. \A p \in Pins : p <= pca_pin
        BY <3>7, PcaAssumption DEF Pins
      <4> QED BY <1>2, <2>1, <2>2, <3>3, <3>5, <3>6, <3>7, <4>1, PcaAssumption
              DEF PcaInv, PcaTypeOK, PcaDark
    <3>8. CASE pca_pin # PcaPins - 1
      <4>1. \A p \in Pins : p < pca_pin' => p <= pca_pin
        BY <3>3, <3>4, <3>8 DEF Pins
      <4> QED BY <1>2, <2>1, <2>2, <3>3, <3>5, <3>6, <3>8, <4>1, PcaAssumption
              DEF PcaInv, PcaTypeOK, PcaDark
    <3> QED BY <3>7, <3>8
  <2> QED BY <2>3, <2>4
<1>8. CASE Pause
  BY <1>1, <1>2, <1>8, PcaAssumption DEF Pause, PcaInv, PcaTypeOK, PcaDark, Pins
<1>9. CASE Blink \/ Unblink
  <2>1. Writes
    <3>1. CASE TwoWords({pca_pin}, 400, 800) \/ TwoWords({pca_pin}, 400, 2000)
      <4>1. 400 \in 0..Off - 1 /\ 800 \in 0..Off /\ 2000 \in 0..Off
        BY DEF Off
      <4>2. CASE TwoWords({pca_pin}, 400, 800)
        BY <1>1, <4>1, <4>2, WordsWritten
      <4>3. CASE TwoWords({pca_pin}, 400, 2000)
        BY <1>1, <4>1, <4>3, WordsWritten
      <4> QED BY <3>1, <4>2, <4>3
    <3> QED BY <1>1, <1>9, <3>1 DEF Blink, Unblink, SetOrNot, PcaTypeOK
  <2>2. /\ (pca_at' \in {"blink", "unblink"} \/ (pca_at' = "fade" /\ pca_pin' = 0))
        /\ pca_pin' \in Pins /\ pca_i' = pca_i
    BY <1>1, <1>9, PcaAssumption DEF Blink, Unblink, PcaTypeOK, Pins
  <2> QED BY <1>1, <1>2, <2>1, <2>2, PcaAssumption DEF PcaInv, PcaTypeOK, PcaDark, Pins
<1> QED BY <1>3, <1>4, <1>5, <1>6, <1>7, <1>8, <1>9 DEF PcaNext

-----------------------------------------------------------------------------
(* The web server.                                                          *)

\* The error handler stands exactly after a PUT of 0, and what has been echoed
\* and what is left make up the body as long as every piece could be sent.
HttpInv ==
    /\ http_left \in Nat /\ http_sent \in Nat /\ http_body \in Nat
    /\ err_404 <=> last_put = "0"
    /\ http_at \in {"wait", "start", "off"} => last_put = "none" /\ http_answer.status = 0
    /\ last_put = "0" => "/hello" \notin uris /\ "/echo" \notin uris
    /\ http_answer.status = 404 => (http_answer.open <=> last_put = "0" /\ http_answer.uri = "/hello")
    /\ http_at = "echo" => /\ http_left + http_sent <= http_body
                           /\ ~http_unsent => http_left + http_sent = http_body
    /\ http_at = "idle" /\ http_answer.uri = "/echo" /\ http_answer.status = 200 =>
            http_sent = http_body \/ http_unsent

LEMMA HttpStep == HttpInv /\ [HttpNext]_http_vars => HttpInv'
<1> SUFFICES ASSUME HttpInv, [HttpNext]_http_vars PROVE HttpInv'
  OBVIOUS
<1> USE DEF HttpInv
<1>1. CASE UNCHANGED http_vars
  BY <1>1 DEF http_vars, echo_vars
<1>2. CASE HttpWait
  BY <1>2 DEF HttpWait, echo_vars
<1>3. CASE StartWebserver
  BY <1>3 DEF StartWebserver, RegisterUris, echo_vars
<1>4. CASE HelloGet
  BY <1>4 DEF HelloGet, HttpAnswer, echo_vars
<1>5. CASE EchoPost
  <2>1. http_body' \in Nat /\ http_left' = http_body' /\ http_sent' = 0
    BY <1>5, BodyChunksAssumption DEF EchoPost
  <2>2. \A n \in Nat : n + 0 = n
    OBVIOUS
  <2>3. http_at' = "echo" /\ UNCHANGED <<uris, err_404, last_put, http_answer>>
    BY <1>5 DEF EchoPost
  <2>4. http_left' + http_sent' = http_body'
    BY <2>1, <2>2, Zenon
  <2>5. http_left' \in Nat /\ http_sent' \in Nat
    BY <2>1
  <2>6. http_left' + http_sent' <= http_body'
    <3>1. http_body' <= http_body'
      BY <2>1
    <3> QED BY <2>4, <3>1
  <2> QED BY <2>1, <2>3, <2>4, <2>5, <2>6
<1>6. CASE EchoChunk
  BY <1>6 DEF EchoChunk, HttpAnswer
<1>7. CASE EchoEnd
  <2>1. /\ http_at' = "idle" /\ http_answer' = [uri |-> "/echo", status |-> 200, open |-> TRUE]
        /\ UNCHANGED <<uris, err_404, last_put, http_left, http_sent, http_body>>
    BY <1>7 DEF EchoEnd, HttpAnswer
  <2>2. http_unsent \/ http_sent = http_body
    BY <1>7 DEF EchoEnd
  <2>3. http_unsent => http_unsent'
    BY <1>7, Zenon DEF EchoEnd
  <2>4. http_sent' = http_body' \/ http_unsent'
    BY <2>1, <2>2, <2>3
  <2> QED BY <2>1, <2>4
<1>8. CASE NotFound
  <2>1. PICK uri \in Uris \ uris :
             http_answer' = [uri |-> uri, status |-> 404, open |-> err_404 /\ uri = "/hello"]
    BY <1>8 DEF NotFound, HttpAnswer
  <2>2. http_answer'.open <=> err_404 /\ http_answer'.uri = "/hello"
    BY <2>1
  <2> QED BY <1>8, <2>1, <2>2 DEF NotFound, echo_vars
<1>9. CASE CtrlPut
  BY <1>9 DEF CtrlPut, echo_vars
<1>10. CASE CtrlNoByte
  BY <1>10 DEF CtrlNoByte, HttpAnswer, echo_vars
<1>11. CASE CtrlOff
  BY <1>11 DEF CtrlOff, HttpAnswer, echo_vars
<1>12. CASE CtrlOn
  BY <1>12 DEF CtrlOn, HttpAnswer, RegisterUris, echo_vars
<1> QED
  BY <1>1, <1>2, <1>3, <1>4, <1>5, <1>6, <1>7, <1>8, <1>9, <1>10, <1>11, <1>12 DEF HttpNext

LEMMA HttpStart == HttpInit => HttpInv
BY DEF HttpInit, HttpInv, NoAnswer404

LEMMA HttpHolds == HttpInv => HttpInfers
BY DEF HttpInv, HttpInfers

-----------------------------------------------------------------------------
(* The card reader.                                                         *)

\* A block is held exactly by a result that is not NULL, and by a serial number
\* that is not, which is there from the anticollision to the callback.
RcInv ==
    /\ rc_n \in -1..255 /\ rc_heap \in Nat
    /\ rc_result \in -1..255 /\ rc_serial \in {-1, 5}
    /\ rc_heap = (IF rc_result = NULL THEN 0 ELSE 1) + (IF rc_serial = NULL THEN 0 ELSE 1)
    /\ rc_at \notin {"check", "dead"} => rc_result = NULL
    /\ rc_result # NULL => rc_result = rc_n
    /\ rc_at \in {"idle", "start", "timer"} => rc_serial = NULL
    /\ rc_at \in {"send", "poll", "read", "check"} => (rc_cmd = "halt" <=> rc_serial = 5)
    /\ rc_at \in {"crc", "tag"} => rc_serial = 5

LEMMA ResultIsByte ==
    ASSUME NEW nn \in FifoLevels, NEW last_bits \in LastBits
    PROVE  ResultLength(nn, last_bits) \in 0..255
BY Rc522Assumption DEF ResultLength

LEMMA RcStep == RcInv /\ [RcNext]_rc_vars => RcInv'
<1> SUFFICES ASSUME RcInv, [RcNext]_rc_vars PROVE RcInv'
  OBVIOUS
<1> USE DEF RcInv, NULL
<1>1. CASE UNCHANGED rc_vars
  BY <1>1 DEF rc_vars
<1>2. CASE RcStart \/ RcTimer \/ RcTick
  BY <1>2 DEF RcStart, RcTimer, RcTick
<1>3. CASE CardSend
  BY <1>3 DEF CardSend
<1>4. CASE CardPoll
  BY <1>4 DEF CardPoll
<1>5. CASE CardRead
  BY <1>5, ResultIsByte DEF CardRead
<1>6. CASE RequestCheck
  BY <1>6 DEF RequestCheck, FreeResult, AnswerToRequest
<1>7. CASE AnticollCheck
  BY <1>7 DEF AnticollCheck, FreeResult
<1>8. CASE RcCrc
  BY <1>8 DEF RcCrc
<1>9. CASE HaltCheck
  BY <1>9 DEF HaltCheck, FreeResult
<1>10. CASE TagHandler
  BY <1>10 DEF TagHandler
<1> QED
  BY <1>1, <1>2, <1>3, <1>4, <1>5, <1>6, <1>7, <1>8, <1>9, <1>10 DEF RcNext

LEMMA RcStart0 == RcInit => RcInv
BY DEF RcInit, RcInv, NULL

LEMMA RcHolds == RcInv => TagWhole
BY DEF RcInv, TagWhole, NULL

-----------------------------------------------------------------------------
(* The counters in the flash.                                               *)

Counters == [i8 : Nat, u64 : Nat, str : Nat]

\* What is written but not committed is the flash, or the counters of this
\* start where a set succeeded; these are one more than what the start found,
\* or 1 where it could not read.
NvsInv ==
    /\ nvs_flash \in Counters /\ nvs_unsure \in Counters
    /\ nvs_ram \in Counters /\ nvs_found \in Counters
    /\ nvs_next \in 1..3 /\ nvs_starts \in Nat
    /\ nvs_at \in {"start", "read", "set", "commit", "restart"}
    /\ nvs_flash.u64 <= nvs_starts
    /\ nvs_at # "start" => nvs_found.u64 + 1 <= nvs_starts
    /\ nvs_at \in {"read", "set", "commit"} => nvs_flash = nvs_found
    /\ nvs_at = "read" => nvs_unsure = nvs_found /\ nvs_next = 1
    /\ nvs_at \in {"set", "commit"} =>
            /\ "i8" \notin nvs_unread => nvs_ram.i8 = (nvs_found.i8 + 1) % NvsWrap
            /\ "u64" \notin nvs_unread => nvs_ram.u64 = nvs_found.u64 + 1
            /\ nvs_ram.u64 <= nvs_found.u64 + 1 /\ nvs_ram.str = nvs_ram.u64
    /\ nvs_at = "set" /\ ~nvs_failed =>
            /\ nvs_next > 1 => nvs_unsure.i8 = nvs_ram.i8
            /\ nvs_next > 2 => nvs_unsure.u64 = nvs_ram.u64
    /\ nvs_at = "commit" /\ ~nvs_failed => nvs_unsure = nvs_ram
    /\ nvs_flash.u64 <= nvs_found.u64 + 1 /\ nvs_unsure.u64 <= nvs_found.u64 + 1
    /\ "u64" \notin nvs_unread => nvs_flash.u64 >= nvs_found.u64 /\ nvs_unsure.u64 >= nvs_found.u64
    /\ nvs_at = "start" => nvs_unsure = nvs_flash
    /\ nvs_unsure.u64 <= nvs_starts
    /\ nvs_at = "restart" /\ ~nvs_failed =>
            /\ "i8" \notin nvs_unread => nvs_flash.i8 = (nvs_found.i8 + 1) % NvsWrap
            /\ "u64" \notin nvs_unread => nvs_flash.u64 = nvs_found.u64 + 1
            /\ nvs_flash.str = nvs_flash.u64

LEMMA NvsStep == NvsInv /\ [NvsNext]_nvs_vars => NvsInv'
<1> SUFFICES ASSUME NvsInv, [NvsNext]_nvs_vars PROVE NvsInv'
  OBVIOUS
<1> USE DEF NvsInv, Counters
<1>1. CASE UNCHANGED nvs_vars
  BY <1>1 DEF nvs_vars
<1>2. CASE NvsOpen
  <2>1. nvs_flash' \in Counters /\ nvs_flash'.u64 <= nvs_starts
    BY <1>2 DEF NvsOpen, Zeros
  <2> QED BY <1>2, <2>1 DEF NvsOpen, Zeros
<1>3. CASE NvsRead
  <2> DEFINE got(key) == IF key \in nvs_unread' THEN 0 ELSE nvs_flash[key]
  <2>1. /\ nvs_ram' = [i8  |-> (got("i8") + 1) % NvsWrap,
                       u64 |-> got("u64") + 1, str |-> got("u64") + 1]
        /\ nvs_at' = "set" /\ nvs_at = "read"
        /\ UNCHANGED <<nvs_flash, nvs_unsure, nvs_next, nvs_found, nvs_failed, nvs_starts>>
    BY <1>3 DEF NvsRead
  <2>2. /\ got("i8") \in Nat /\ got("u64") \in Nat /\ got("u64") <= nvs_flash.u64
        /\ "i8" \notin nvs_unread' => got("i8") = nvs_flash.i8
        /\ "u64" \notin nvs_unread' => got("u64") = nvs_flash.u64
    OBVIOUS
  <2> HIDE DEF got
  <2>3. (got("i8") + 1) % NvsWrap \in Nat
    BY <2>2, NvsAssumption
  <2>4. nvs_ram' \in Counters
    BY <2>1, <2>2, <2>3
  <2>5. nvs_flash = nvs_found /\ nvs_unsure = nvs_found /\ nvs_next = 1
    BY <2>1
  <2>6. /\ "i8" \notin nvs_unread' => nvs_ram'.i8 = (nvs_found.i8 + 1) % NvsWrap
        /\ "u64" \notin nvs_unread' => nvs_ram'.u64 = nvs_found.u64 + 1
        /\ nvs_ram'.u64 <= nvs_found.u64 + 1 /\ nvs_ram'.str = nvs_ram'.u64
    BY <2>1, <2>2, <2>5
  <2>7. nvs_found.u64 >= nvs_found.u64 /\ nvs_found.u64 <= nvs_found.u64 + 1
    OBVIOUS
  <2> QED BY <2>1, <2>4, <2>5, <2>6, <2>7
<1>4. CASE NvsSet
  <2>1. /\ nvs_at = "set"
        /\ IF nvs_next = 3 THEN nvs_at' = "commit" /\ nvs_next' = 1
           ELSE nvs_next' = nvs_next + 1 /\ UNCHANGED nvs_at
        /\ UNCHANGED <<nvs_flash, nvs_ram, nvs_found, nvs_unread, nvs_starts>>
    BY <1>4 DEF NvsSet
  <2>2. nvs_next' \in 1..3 /\ nvs_at' \in {"set", "commit"} /\ nvs_flash = nvs_found
    BY <2>1
  <2>3. CASE nvs_failed' /\ UNCHANGED nvs_unsure
    BY <2>1, <2>2, <2>3
  <2>4. ASSUME nvs_unsure' = [nvs_unsure EXCEPT ![NvsKeys[nvs_next]] = nvs_ram[NvsKeys[nvs_next]]],
               UNCHANGED nvs_failed
        PROVE  NvsInv'
    <3>1. NvsKeys[1] = "i8" /\ NvsKeys[2] = "u64" /\ NvsKeys[3] = "str"
      BY DEF NvsKeys
    <3>2. nvs_unsure' \in Counters /\ nvs_unsure'.u64 \in {nvs_unsure.u64, nvs_ram.u64}
      BY <2>4, <3>1
    <3>3. /\ nvs_unsure'.u64 <= nvs_found.u64 + 1 /\ nvs_unsure'.u64 <= nvs_starts
          /\ "u64" \notin nvs_unread => nvs_unsure'.u64 >= nvs_found.u64
      BY <2>1, <3>2
    <3>4. /\ nvs_at' = "set" /\ ~nvs_failed =>
                /\ nvs_next' > 1 => nvs_unsure'.i8 = nvs_ram.i8
                /\ nvs_next' > 2 => nvs_unsure'.u64 = nvs_ram.u64
          /\ nvs_at' = "commit" /\ ~nvs_failed => nvs_unsure' = nvs_ram
      BY <2>1, <2>4, <3>1
    <3> QED BY <2>1, <2>2, <2>4, <3>2, <3>3, <3>4
  <2> QED BY <1>4, <2>3, <2>4 DEF NvsSet
<1>5. CASE NvsCommit
  <2>1. /\ nvs_at = "commit" /\ nvs_at' = "restart"
        /\ UNCHANGED <<nvs_unsure, nvs_ram, nvs_next, nvs_found, nvs_unread, nvs_starts>>
    BY <1>5 DEF NvsCommit
  <2>2. CASE nvs_failed' /\ UNCHANGED nvs_flash
    BY <2>1, <2>2
  <2>3. CASE nvs_flash' = nvs_unsure /\ UNCHANGED nvs_failed
    BY <2>1, <2>3
  <2> QED BY <1>5, <2>2, <2>3 DEF NvsCommit
<1>6. CASE NvsStops
  BY <1>6 DEF NvsStops, Zeros
<1> QED BY <1>1, <1>2, <1>3, <1>4, <1>5, <1>6 DEF NvsNext

LEMMA NvsStart == NvsInit => NvsInv
<1>1. Zeros \in Counters /\ Zeros.u64 = 0
  BY DEF Zeros, Counters
<1> QED BY <1>1 DEF NvsInit, NvsInv

LEMMA NvsHolds == NvsInv => NvsCounted
BY DEF NvsInv, NvsCounted

-----------------------------------------------------------------------------
(* The wait for the time, the key, and the running light.                   *)

SntpInv ==
    /\ sntp_retry \in Nat
    /\ sntp_completed => sntp_set
    /\ sntp_at = "start" => ~sntp_set /\ sntp_retry = 0
    /\ sntp_at = "poll" => sntp_retry < RetryAttempts
    /\ SntpWaits

LEMMA SntpStart == SntpInit => SntpInv
BY SntpAssumption DEF SntpInit, SntpInv, SntpWaits

LEMMA SntpStep == SntpInv /\ [SntpNext]_sntp_vars => SntpInv'
<1> SUFFICES ASSUME SntpInv, [SntpNext]_sntp_vars PROVE SntpInv'
  OBVIOUS
<1> USE SntpAssumption DEF SntpInv, SntpWaits
<1>1. CASE UNCHANGED sntp_vars
  BY <1>1 DEF sntp_vars
<1>2. CASE SntpHelperInit
  BY <1>2 DEF SntpHelperInit
<1>3. CASE TimeSyncNotificationCb
  BY <1>3 DEF TimeSyncNotificationCb
<1>4. CASE SntpPoll
  BY <1>4 DEF SntpPoll
<1> QED BY <1>1, <1>2, <1>3, <1>4 DEF SntpNext

KeyInTurn == KeyLessonTypeOK /\ LampsInTurn

LEMMA KeyStart == KeyLessonInit => KeyInTurn
BY DEF KeyLessonInit, KeyInTurn, KeyLessonTypeOK, LampsInTurn

LEMMA KeyStep == KeyInTurn /\ [KeyLessonNext]_kl_vars => KeyInTurn'
BY DEF KeyInTurn, KeyLessonTypeOK, LampsInTurn, KeyLessonNext, KlPress, KlPoll, KlJudge, kl_vars

LampInTurn ==
    /\ LedLampTypeOK /\ LampWalks
    /\ ll_at \in {"g", "b"} => ("r" \in ll_pins <=> ll_colour = "r")
    /\ ll_at = "b" => ("g" \in ll_pins <=> ll_colour = "g")

LEMMA LampStart == LedLampInit => LampInTurn
BY DEF LedLampInit, LampInTurn, LedLampTypeOK, LampWalks, LedColours

LEMMA LampStep == LampInTurn /\ [LedLampNext]_ll_vars => LampInTurn'
BY DEF LampInTurn, LedLampTypeOK, LampWalks, LedColours, LedLampNext, PipelineLampTask,
       PipelineLampTaskReturns, ReadDelay, SetRgb, SetPin, NextColour, ll_vars

-----------------------------------------------------------------------------
(* Types.                                                                   *)

LEMMA HttpTypes == HttpInv /\ HttpTypeOK /\ [HttpNext]_http_vars => HttpTypeOK'
<1> SUFFICES ASSUME HttpInv, HttpTypeOK, [HttpNext]_http_vars PROVE HttpTypeOK'
  OBVIOUS
<1>1. /\ http_at' \in {"wait", "start", "off", "idle", "ctrl", "echo"}
      /\ uris' \subseteq Uris /\ {err_404, http_unsent}' \subseteq BOOLEAN
      /\ last_put' \in {"none", "0", "1"}
      /\ http_answer'.status \in {0, 200, 404, 408}
  <2> USE DEF HttpTypeOK, HttpAnswer, RegisterUris, echo_vars
  <2>1. CASE UNCHANGED http_vars
    BY <2>1 DEF http_vars
  <2>2. CASE HttpWait
    BY <2>2 DEF HttpWait
  <2>8. CASE StartWebserver
    <3>1. \A new \in SUBSET {"/hello", "/echo", "/ctrl"} : uris \cup new \subseteq Uris
      BY DEF Uris
    <3>2. uris' \subseteq Uris
      BY <2>8, <3>1 DEF StartWebserver
    <3> QED BY <2>8, <3>2 DEF StartWebserver
  <2>3. CASE HelloGet
    BY <2>3 DEF HelloGet
  <2>10. CASE EchoPost
    <3>1. http_unsent' = FALSE /\ UNCHANGED <<uris, err_404, last_put, http_answer>>
      BY <2>10 DEF EchoPost
    <3>2. err_404' \in BOOLEAN /\ http_unsent' \in BOOLEAN
      BY <3>1
    <3> QED BY <2>10, <3>1, <3>2 DEF EchoPost
  <2>11. CASE EchoChunk
    <3>1. http_unsent' = TRUE \/ UNCHANGED http_unsent
      BY <2>11 DEF EchoChunk
    <3>2. http_unsent' \in BOOLEAN
      BY <3>1
    <3> QED BY <2>11, <3>2 DEF EchoChunk
  <2>9. CASE EchoEnd
    <3>1. http_unsent' \in {http_unsent, TRUE} /\ http_unsent \in BOOLEAN
      BY <2>9 DEF EchoEnd
    <3>2. http_unsent' \in BOOLEAN
      BY <3>1
    <3> QED BY <2>9, <3>2 DEF EchoEnd
  <2>4. CASE NotFound
    <3>1. http_answer'.status = 404
      BY <2>4 DEF NotFound
    <3> QED BY <2>4, <3>1 DEF NotFound
  <2>5. CASE CtrlPut \/ CtrlNoByte
    BY <2>5 DEF CtrlPut, CtrlNoByte
  <2>6. CASE CtrlOff
    BY <2>6 DEF CtrlOff
  <2>7. CASE CtrlOn
    BY <2>7 DEF CtrlOn, Uris
  <2> QED BY <2>1, <2>2, <2>3, <2>4, <2>5, <2>6, <2>7, <2>8, <2>9, <2>10, <2>11 DEF HttpNext
<1>2. {http_left, http_sent, http_body}' \subseteq 0..BodyChunks
  <2>0. http_left \in 0..BodyChunks /\ http_sent \in 0..BodyChunks /\ http_body \in 0..BodyChunks
    BY DEF HttpTypeOK
  <2>1. CASE EchoPost
    <3>1. http_body' \in 0..BodyChunks /\ http_left' = http_body' /\ http_sent' = 0
      BY <2>1 DEF EchoPost
    <3>2. 0 \in 0..BodyChunks
      BY BodyChunksAssumption
    <3> QED BY <3>1, <3>2
  <2>2. CASE EchoChunk
    <3>1. http_left + http_sent <= http_body /\ http_left > 0
      BY <2>2 DEF EchoChunk, HttpInv
    <3>2. http_left - 1 \in 0..BodyChunks /\ http_sent + 1 \in 0..BodyChunks
      BY <2>0, <3>1, BodyChunksAssumption
    <3> QED BY <2>0, <2>2, <3>2 DEF EchoChunk
  <2>3. CASE UNCHANGED <<http_left, http_sent, http_body>>
    BY <2>0, <2>3
  <2> QED BY <2>1, <2>2, <2>3
          DEF HttpNext, http_vars, echo_vars, HttpWait, StartWebserver, HelloGet, EchoEnd, NotFound, CtrlPut,
              CtrlNoByte, CtrlOff, CtrlOn
<1> QED BY <1>1, <1>2 DEF HttpTypeOK

RcTypes == RcTypeOK /\ (rc_at = "poll" => rc_i # 0)

LEMMA RcTypesStep == RcInv /\ RcTypes /\ [RcNext]_rc_vars => RcTypes'
<1> SUFFICES ASSUME RcInv, RcTypes, [RcNext]_rc_vars PROVE RcTypes'
  OBVIOUS
<1>0. RcInv'
  BY RcStep
<1>1. /\ rc_at' \in {"start", "timer", "idle", "send", "poll", "read", "check", "crc", "tag",
                     "dead", "over"}
      /\ rc_cmd' \in {"request", "anticoll", "halt"}
  BY DEF RcTypes, RcTypeOK, RcNext, rc_vars, RcStart, RcTimer, RcTick, CardSend, CardPoll, CardRead,
         RequestCheck, AnticollCheck, RcCrc, HaltCheck, TagHandler
<1>2. rc_i' \in 0..MaxPolls /\ (rc_at' = "poll" => rc_i' # 0)
  <2>0. rc_i \in 0..MaxPolls /\ (rc_at = "poll" => rc_i # 0)
    BY DEF RcTypes, RcTypeOK
  <2>1. CASE CardSend
    BY <2>1, Rc522Assumption DEF CardSend
  <2>2. CASE CardPoll
    <3>1. rc_i' \in 0..MaxPolls
      BY <2>0, <2>2, Rc522Assumption DEF CardPoll
    <3> QED BY <2>2, <3>1 DEF CardPoll
  <2>3. CASE UNCHANGED rc_i /\ rc_at' # "poll"
    BY <2>0, <2>3
  <2>4. CASE UNCHANGED rc_vars
    BY <2>0, <2>4 DEF rc_vars
  <2> QED BY <2>1, <2>2, <2>3, <2>4
          DEF RcNext, RcStart, RcTimer, RcTick, CardRead, RequestCheck, AnticollCheck, RcCrc,
              HaltCheck, TagHandler
<1>3. {rc_n, rc_result, rc_serial}' \subseteq NULL..255
  BY <1>0 DEF RcInv, NULL
<1>4. rc_heap' \in 0..2
  BY <1>0 DEF RcInv
<1> QED BY <1>1, <1>2, <1>3, <1>4 DEF RcTypes, RcTypeOK

LEMMA NvsTypes == NvsTypeOK /\ [NvsNext]_nvs_vars => NvsTypeOK'
<1> SUFFICES ASSUME NvsTypeOK, [NvsNext]_nvs_vars PROVE NvsTypeOK'
  OBVIOUS
<1> DEFINE C == [i8 : 0..NvsWrap - 1, u64 : Nat, str : Nat]
<1>0. /\ nvs_flash \in C /\ nvs_unsure \in C /\ nvs_ram \in C /\ nvs_found \in C
      /\ nvs_at \in {"start", "read", "set", "commit", "restart"}
      /\ nvs_next \in 1..3 /\ nvs_failed \in BOOLEAN /\ nvs_starts \in 0..MaxStarts
      /\ nvs_unread \subseteq {"i8", "u64"}
      /\ Zeros \in C
  BY NvsAssumption DEF NvsTypeOK, Zeros
<1>1. /\ nvs_flash' \in C /\ nvs_unsure' \in C /\ nvs_ram' \in C /\ nvs_found' \in C
  <2>1. CASE UNCHANGED nvs_vars
    BY <1>0, <2>1 DEF nvs_vars
  <2>2. CASE NvsOpen
    BY <1>0, <2>2 DEF NvsOpen
  <2>3. CASE NvsRead
    <3> DEFINE got(key) == IF key \in nvs_unread' THEN 0 ELSE nvs_flash[key]
    <3>1. got("i8") \in Nat /\ got("u64") \in Nat
      BY <1>0
    <3>2. nvs_ram' = [i8  |-> (got("i8") + 1) % NvsWrap,
                      u64 |-> got("u64") + 1, str |-> got("u64") + 1]
      BY <2>3 DEF NvsRead
    <3> HIDE DEF got
    <3>3. (got("i8") + 1) % NvsWrap \in 0..NvsWrap - 1 /\ got("u64") + 1 \in Nat
      BY <3>1, NvsAssumption
    <3>4. nvs_ram' \in C
      BY <3>2, <3>3
    <3> QED BY <1>0, <2>3, <3>4 DEF NvsRead
  <2>4. CASE NvsSet
    <3>1. NvsKeys[nvs_next] \in {"i8", "u64", "str"}
      BY <1>0 DEF NvsKeys
    <3>2. \A key \in {"i8", "u64", "str"} : [nvs_unsure EXCEPT ![key] = nvs_ram[key]] \in C
      BY <1>0
    <3> QED BY <1>0, <2>4, <3>1, <3>2 DEF NvsSet
  <2>5. CASE NvsCommit
    BY <1>0, <2>5 DEF NvsCommit
  <2>6. CASE NvsStops
    <3>1. PICK kept \in SUBSET DOMAIN Zeros :
               nvs_flash' = [k \in DOMAIN Zeros |-> IF k \in kept THEN nvs_unsure[k] ELSE nvs_flash[k]]
      BY <2>6 DEF NvsStops
    <3>2. DOMAIN Zeros = {"i8", "u64", "str"}
      BY DEF Zeros
    <3>3. nvs_flash' \in C
      BY <1>0, <3>1, <3>2
    <3> QED BY <1>0, <2>6, <3>3 DEF NvsStops
  <2> QED BY <2>1, <2>2, <2>3, <2>4, <2>5, <2>6 DEF NvsNext
<1>2. nvs_starts' \in 0..MaxStarts
  BY <1>0, NvsAssumption DEF nvs_vars, NvsNext, NvsOpen, NvsRead, NvsSet, NvsCommit, NvsStops
<1>3. nvs_next' \in 1..3
  BY <1>0 DEF nvs_vars, NvsNext, NvsOpen, NvsRead, NvsSet, NvsCommit, NvsStops
<1>4. nvs_at' \in {"start", "read", "set", "commit", "restart"} /\ nvs_failed' \in BOOLEAN
  BY <1>0 DEF nvs_vars, NvsNext, NvsOpen, NvsRead, NvsSet, NvsCommit, NvsStops
<1>5. nvs_unread' \subseteq {"i8", "u64"}
  <2>1. nvs_unread' \in {nvs_unread, {}} \/ nvs_unread' \in SUBSET {"i8", "u64"}
    BY DEF nvs_vars, NvsNext, NvsOpen, NvsRead, NvsSet, NvsCommit, NvsStops
  <2> QED BY <1>0, <2>1
<1> QED BY <1>1, <1>2, <1>3, <1>4, <1>5 DEF NvsTypeOK

LEMMA SntpTypes == SntpInv /\ SntpTypeOK /\ [SntpNext]_sntp_vars => SntpTypeOK'
<1> SUFFICES ASSUME SntpInv, SntpTypeOK, [SntpNext]_sntp_vars PROVE SntpTypeOK'
  OBVIOUS
<1>1. sntp_retry' \in 0..RetryAttempts
  <2>1. sntp_at = "poll" => sntp_retry + 1 \in 0..RetryAttempts
    BY SntpAssumption DEF SntpTypeOK, SntpInv
  <2> QED BY <2>1 DEF SntpTypeOK, SntpNext, SntpHelperInit, TimeSyncNotificationCb, SntpPoll, sntp_vars
<1> QED BY <1>1 DEF SntpTypeOK, SntpNext, SntpHelperInit, TimeSyncNotificationCb, SntpPoll, sntp_vars

-----------------------------------------------------------------------------
(* The board: one program runs, and the invariant of each holds.            *)

LEMMA Parts ==
    ASSUME [Next]_vars
    PROVE  /\ [HttpNext]_http_vars /\ [RcNext]_rc_vars /\ [LcdNext]_lcd_vars
           /\ [OledPanelNext]_oled_vars /\ [PcaNext]_pca_vars /\ [DhtNext]_dht_vars
           /\ [ShtNext]_sht_vars /\ [IrNext]_ir_vars /\ [TmNext]_tm_vars /\ [NvsNext]_nvs_vars
           /\ [KeyLessonNext]_kl_vars /\ [SntpNext]_sntp_vars /\ [LedLampNext]_ll_vars
           /\ [OledLessonNext]_ol_vars /\ [TextNext]_text_vars
BY DEF Next, vars, Only

DevicesInv ==
    /\ image \in Images
    /\ HttpInv /\ HttpTypeOK /\ RcInv /\ RcTypes /\ LcdInv /\ OledInv /\ PcaInv /\ DhtInv
    /\ ShtInv /\ IrInv /\ TmInv /\ NvsInv /\ NvsTypeOK /\ KeyInTurn /\ SntpInv /\ SntpTypeOK
    /\ LampInTurn /\ OlInv /\ TextInv

LEMMA DevicesStart == Init => DevicesInv
<1> SUFFICES ASSUME Init PROVE DevicesInv
  OBVIOUS
<1>1. /\ image \in Images
      /\ HttpInit /\ RcInit /\ LcdInit /\ OledPanelInit /\ PcaInit /\ DhtInit
      /\ ShtInit /\ IrInit /\ TmInit /\ NvsInit /\ KeyLessonInit
      /\ SntpInit /\ LedLampInit /\ OledLessonInit /\ TextInit
  BY DEF Init
<1>2. HttpTypeOK
  <2>1. 0 \in 0..BodyChunks
    BY BodyChunksAssumption
  <2> QED BY <1>1, <2>1 DEF HttpInit, HttpTypeOK, NoAnswer404
<1>3. RcTypes
  <2>1. MaxPolls \in 0..MaxPolls
    BY Rc522Assumption
  <2>2. /\ rc_at = "start" /\ rc_cmd = "request" /\ rc_i = MaxPolls /\ rc_heap = 0
        /\ rc_n = NULL /\ rc_result = NULL /\ rc_serial = NULL
    BY <1>1 DEF RcInit
  <2>3. NULL \in NULL..255 /\ 0 \in 0..2
    BY DEF NULL
  <2> QED BY <2>1, <2>2, <2>3 DEF RcTypes, RcTypeOK
<1>4. NvsTypeOK
  <2>1. 0 \in 0..NvsWrap - 1 /\ 0 \in 0..MaxStarts
    BY NvsAssumption
  <2>2. Zeros \in [i8 : 0..NvsWrap - 1, u64 : Nat, str : Nat]
    BY <2>1 DEF Zeros
  <2>3. /\ nvs_flash = Zeros /\ nvs_unsure = Zeros /\ nvs_ram = Zeros /\ nvs_found = Zeros
        /\ nvs_at = "start" /\ nvs_next = 1 /\ nvs_failed = FALSE /\ nvs_starts = 0
        /\ nvs_unread = {}
    BY <1>1 DEF NvsInit
  <2>4. {nvs_flash, nvs_unsure, nvs_ram, nvs_found} \subseteq [i8 : 0..NvsWrap - 1, u64 : Nat, str : Nat]
    BY <2>2, <2>3
  <2>5. nvs_failed \in BOOLEAN
    BY <1>1 DEF NvsInit
  <2>6. nvs_next \in 1..3
    BY <1>1 DEF NvsInit
  <2> QED BY <2>1, <2>3, <2>4, <2>5, <2>6 DEF NvsTypeOK
<1>5. SntpTypeOK
  <2>1. 0 \in 0..RetryAttempts
    BY SntpAssumption
  <2>2. sntp_completed = FALSE /\ sntp_set = FALSE /\ sntp_told = FALSE
    BY <1>1 DEF SntpInit
  <2>3. {sntp_completed, sntp_set, sntp_told} \subseteq BOOLEAN
    BY <2>2
  <2> QED BY <1>1, <2>1, <2>3 DEF SntpInit, SntpTypeOK
<1> QED
  BY <1>1, <1>2, <1>3, <1>4, <1>5, HttpStart, RcStart0, LcdStart0, OledStart, PcaStart, DhtStart,
     ShtStart0, IrStart, TmStart0, NvsStart, KeyStart, SntpStart, LampStart, OlStart,
     TextStart
  DEF DevicesInv

LEMMA DevicesStep == DevicesInv /\ [Next]_vars => DevicesInv'
<1> SUFFICES ASSUME DevicesInv, [Next]_vars PROVE DevicesInv'
  OBVIOUS
<1>1. image' \in Images
  BY DEF DevicesInv, Next, vars, Only
<1>2. HttpInv' /\ HttpTypeOK' /\ RcInv' /\ RcTypes' /\ LcdInv' /\ OledInv' /\ PcaInv' /\ DhtInv'
  BY Parts, HttpStep, HttpTypes, RcStep, RcTypesStep, LcdStep, OledStep, PcaStep, DhtStep
  DEF DevicesInv
<1>3. ShtInv' /\ IrInv' /\ TmInv' /\ NvsInv' /\ NvsTypeOK' /\ KeyInTurn' /\ SntpInv' /\ SntpTypeOK'
  BY Parts, ShtStep, IrStep, TmStep, NvsStep, NvsTypes, KeyStep, SntpStep, SntpTypes
  DEF DevicesInv
<1>4. LampInTurn' /\ OlInv' /\ TextInv'
  BY Parts, LampStep, OlStep, TextStep DEF DevicesInv
<1> QED BY <1>1, <1>2, <1>3, <1>4 DEF DevicesInv

LEMMA DevicesInvariant == Spec => []DevicesInv
<1> QED BY DevicesStart, DevicesStep, PTL DEF Spec

\* Every variable of every program keeps its type, for all values of the
\* constants that the assumptions of the modules allow.
THEOREM TypeCorrect == Spec => []TypeOK
<1>1. DevicesInv => TypeOK
  BY DEF DevicesInv, TypeOK, RcTypes, LcdInv, OledInv, PcaInv, DhtInv, ShtInv, IrInv, TmInv,
         KeyInTurn, LampInTurn, OlInv, TextInv
<1> QED BY <1>1, DevicesInvariant, PTL

\* A client learns from a 404 and from its socket what the last PUT to /ctrl
\* did, and an echo that ends well is whole or has lost a piece that could not
\* be sent, for bodies of any length (bsp_http.c).
THEOREM InfersCorrect == Spec => []HttpInfers
<1>1. DevicesInv => HttpInfers
  BY HttpHolds DEF DevicesInv
<1> QED BY <1>1, DevicesInvariant, PTL

\* The callback of the card reader is given a serial number of five bytes and
\* nothing stays on the heap, however many polls a command may take and
\* whatever the FIFO holds (bsp_mfrc522.c).
THEOREM TagCorrect == Spec => []TagWhole
<1>1. DevicesInv => TagWhole
  BY RcHolds DEF DevicesInv
<1> QED BY <1>1, DevicesInvariant, PTL

\* The program goes on before all attempts only when the time has been set, for
\* any number of attempts (sntp_helper.c).
THEOREM WaitsCorrect == Spec => []SntpWaits
<1>1. DevicesInv => SntpWaits
  BY DEF DevicesInv, SntpInv
<1> QED BY <1>1, DevicesInvariant, PTL

\* No reading is reported that was cut short or garbled, and getTemp, the
\* sensor of hx-sht30, the card reader and the remote control report what was
\* sent: any bytes of the sensors, any answer of a card, any pulses of a remote
\* control (dht11.c, hx_sht30.c, bsp_mfrc522.c, IRRemote.c, sntp_helper.c).
THEOREM ReadingsCorrect == Spec => []ReadingsTrue
<1>1. DevicesInv => ReadingsTrue
  BY RcHolds DEF DevicesInv, ReadingsTrue, DhtInv, ShtInv, IrInv, SntpInv
<1> QED BY <1>1, DevicesInvariant, PTL

\* The colour display shows what was asked for, and a text that ends before the
\* edge returns the number of characters drawn, for any size up to 128 by 128
\* and any coordinates (bsp_st7735.c).
THEOREM LcdCorrect == Spec => []LcdExact
<1>1. DevicesInv => LcdExact
  BY DEF DevicesInv, LcdInv
<1> QED BY <1>1, DevicesInvariant, PTL

\* An update of the panel without an error shows the buffer, and a rectangle that
\* is drawn lights its dots and adds no other, for any width, any coordinates and
\* any number of drawings and errors (bsp_oled.c).
THEOREM OledCorrect == Spec => []OledShows
<1>1. DevicesInv => OledShows
  BY DEF DevicesInv, OledInv
<1> QED BY <1>1, DevicesInvariant, PTL

\* No text that leaves the last cell free makes bsp_oled_queue_str write outside
\* str_6, for arrays of any size and texts of any length (bsp_oled.c).
THEOREM BoundsCorrect == Spec => []InBounds
<1>1. DevicesInv => InBounds
  BY TextInArray DEF DevicesInv
<1> QED BY <1>1, DevicesInvariant, PTL

\* Such a text is on the display when the function returns, whole and in order,
\* for arrays of any size that the display has room for (bsp_oled.c).
THEOREM ShownCorrect == Spec => []TextShown
<1>1. DevicesInv => TextShown
  BY TextOnDisplay DEF DevicesInv
<1> QED BY <1>1, DevicesInvariant, PTL

\* Every line of text is there when the program rests, for lines of any length
\* and any number of errors (hx_oled.c, oled.c).
THEOREM LinesCorrect == Spec => []OlShows
<1>1. DevicesInv => OlShows
  BY OlHolds DEF DevicesInv
<1> QED BY <1>1, DevicesInvariant, PTL

\* When the fade returns without an error every output is off, if the chip was
\* told to count, for any number of pins, steps and errors (pca9685.c).
THEOREM DarkCorrect == Spec => []PcaDark
<1>1. DevicesInv => PcaDark
  BY DEF DevicesInv, PcaInv
<1> QED BY <1>1, DevicesInvariant, PTL

\* A start that reaches its restart without an error has counted once in every
\* counter it could read, and none counts twice, wherever the power fails, for
\* any width of the counter and any number of starts (hx-nvs.c).
THEOREM CountedCorrect == Spec => []NvsCounted
<1>1. DevicesInv => NvsCounted
  BY NvsHolds DEF DevicesInv
<1> QED BY <1>1, DevicesInvariant, PTL

\* The lamps differ while the key is seen up and agree while it is seen down,
\* at whatever speed it is pressed (hx_key.c).
THEOREM TurnsCorrect == Spec => []LampsInTurn
<1>1. DevicesInv => LampsInTurn
  BY DEF DevicesInv, KeyInTurn
<1> QED BY <1>1, DevicesInvariant, PTL

\* One lamp is on while the task waits, whatever was on before
\* (bsp_led_rgb.c).
THEOREM WalksCorrect == Spec => []LampWalks
<1>1. DevicesInv => LampWalks
  BY DEF DevicesInv, LampInTurn
<1> QED BY <1>1, DevicesInvariant, PTL

\* What a display, a lamp or a counter in the flash shows is what the program
\* was told to show, for all sizes, lengths and numbers of errors.
THEOREM OutputsCorrect == Spec => []OutputsTrue
<1>1. DevicesInv => TmInTable
  BY DEF DevicesInv, TmInv, TmInTable
<1> QED
  BY <1>1, DevicesInvariant, LcdCorrect, OledCorrect, DarkCorrect, CountedCorrect, TurnsCorrect,
     WalksCorrect, LinesCorrect, PTL DEF OutputsTrue
=============================================================================
