----------------------------- MODULE AluProofs -----------------------------
(***************************************************************************)
(* What the instructions compute, for all operands, all programs and all   *)
(* registers, at the width of the code: bytes of eight bits and decimal    *)
(* digits in four.  The provers evaluate powers of numerals only, which is *)
(* why the width is an assumption here and a parameter of the runs.        *)
(***************************************************************************)
EXTENDS Alu, WellFoundedInduction, TLAPS

\* The width in XMakina_Emulator_entities.h, and BCD_VALUE_LIMIT.
CodeWidth == ByteBits = 8 /\ BCD_VALUE_LIMIT = 10

-----------------------------------------------------------------------------
(***************************************************************************)
(* The widths, and the parts of a word, in numerals.                       *)
(***************************************************************************)

\* A power is known when its exponent is a numeral.
LEMMA Power4  == \A n : n = 4 => 2^n = 16
OBVIOUS

\* The powers of two that the registers, bytes and sign bits are bounded by.
LEMMA Power7  == \A n : n = 7 => 2^n = 128
OBVIOUS
LEMMA Power8  == \A n : n = 8 => 2^n = 256
OBVIOUS
LEMMA Power15 == \A n : n = 15 => 2^n = 32768
OBVIOUS
LEMMA Power16 == \A n : n = 16 => 2^n = 65536
OBVIOUS

\* The width of the machine, in numerals.
LEMMA Exponents ==
  ASSUME CodeWidth
  PROVE  /\ ByteBits = 8 /\ 2 * ByteBits = 16 /\ ByteBits \div 2 = 4
         /\ Bits(WORD) = 16 /\ Bits(BYTE) = 8 /\ MSBi(WORD) = 15 /\ MSBi(BYTE) = 7
         /\ WORD # BYTE
<1>1. ByteBits = 8 /\ 2 * ByteBits = 16 /\ ByteBits \div 2 = 4
  BY DEF CodeWidth
<1>. QED BY <1>1 DEF Bits, MSBi, WORD, BYTE

\* The powers of two, at the width of the machine.
LEMMA Powers ==
  ASSUME CodeWidth
  PROVE  /\ 2^ByteBits = 256 /\ 2^(2 * ByteBits) = 65536 /\ 2^(ByteBits \div 2) = 16
         /\ 2^Bits(WORD) = 65536 /\ 2^Bits(BYTE) = 256
         /\ 2^MSBi(WORD) = 32768 /\ 2^MSBi(BYTE) = 128
  BY Exponents, Power4, Power7, Power8, Power15, Power16

\* Bytes and words are the numbers below 256 and 65536.
LEMMA Ranges ==
  ASSUME CodeWidth, NEW x
  PROVE  /\ x \in Bytes <=> x \in Nat /\ x < 256
         /\ x \in Words <=> x \in Nat /\ x < 65536
<1>1. 2^ByteBits = 256 /\ 2^(2 * ByteBits) = 65536
  BY Powers
<1>. QED BY <1>1 DEF Bytes, Words

\* A byte of a word.
LEMMA TwoBytes ==
  ASSUME NEW x \in Nat, x < 65536
  PROVE  /\ x \div 256 \in Nat /\ x \div 256 < 256 /\ x % 256 \in Nat /\ x % 256 < 256
         /\ x = 256 * (x \div 256) + (x % 256)
         /\ (x \div 128) % 2 = IF x % 256 < 128 THEN 0 ELSE 1
<1>1. /\ x \div 256 \in Nat /\ x \div 256 < 256 /\ x % 256 \in Nat /\ x % 256 < 256
      /\ x = 256 * (x \div 256) + (x % 256)
  OBVIOUS
<1>2. ASSUME NEW q \in Nat, NEW r \in Nat, r < 256, x = 256 * q + r
      PROVE  (x \div 128) % 2 = IF r < 128 THEN 0 ELSE 1
  <2>1. x \div 128 = IF r < 128 THEN 2 * q ELSE 2 * q + 1
    BY <1>2
  <2>. QED BY <2>1
<1>. QED BY <1>1, <1>2

\* The two bytes of a word.
LEMMA Parts ==
  ASSUME CodeWidth, NEW x \in Words
  PROVE  /\ LSB(x) = x % 256 /\ LSB(x) \in Bytes
         /\ MSB(x) = x \div 256 /\ MSB(x) \in Bytes
         /\ x = Join(MSB(x), LSB(x)) /\ x = 256 * MSB(x) + LSB(x)
         /\ Not(x) = 65535 - x /\ Not(x) \in Words
<1>1. x \in Nat /\ x < 65536
  BY Ranges
<1>2. LSB(x) = x % 256 /\ MSB(x) = x \div 256 /\ Not(x) = 65536 - 1 - x
  BY Powers DEF LSB, MSB, Not
<1>3. Join(MSB(x), LSB(x)) = MSB(x) * 256 + LSB(x)
  BY Powers DEF Join
<1>4. 65536 - 1 - x = 65535 - x /\ 65535 - x \in Nat /\ 65535 - x < 65536
  BY ONLY <1>1
<1>5. /\ x \div 256 \in Nat /\ x \div 256 < 256 /\ x % 256 \in Nat /\ x % 256 < 256
      /\ x = 256 * (x \div 256) + (x % 256)
  BY <1>1, TwoBytes
<1>. QED BY <1>1, <1>2, <1>3, <1>4, <1>5, Ranges

\* A word made of two bytes.
LEMMA Joined ==
  ASSUME CodeWidth, NEW h \in Bytes, NEW l \in Bytes
  PROVE  /\ Join(h, l) = 256 * h + l /\ Join(h, l) \in Words
         /\ MSB(Join(h, l)) = h /\ LSB(Join(h, l)) = l
<1>1. h \in Nat /\ h < 256 /\ l \in Nat /\ l < 256
  BY Ranges
<1>2. Join(h, l) = h * 256 + l
  BY Powers DEF Join
<1>3. \A x : MSB(x) = x \div 256 /\ LSB(x) = x % 256
  BY Powers DEF MSB, LSB
<1>4. /\ h * 256 + l = 256 * h + l /\ h * 256 + l \in Nat /\ h * 256 + l < 65536
      /\ (h * 256 + l) \div 256 = h /\ (h * 256 + l) % 256 = l
  BY ONLY <1>1
<1>. QED BY <1>2, <1>3, <1>4, Ranges

\* What a result of either size replaces.
LEMMA Replaced ==
  ASSUME CodeWidth, NEW x \in Words, NEW y \in Words
  PROVE  /\ Replace(x, y, WORD) = y
         /\ Replace(x, y, BYTE) = Join(MSB(x), LSB(y))
         /\ \A size \in Sizes : Replace(x, y, size) \in Words
         /\ MSB(Replace(x, y, BYTE)) = MSB(x) /\ LSB(Replace(x, y, BYTE)) = LSB(y)
<1>1. Replace(x, y, WORD) = y /\ Replace(x, y, BYTE) = Join(MSB(x), LSB(y))
  BY Exponents DEF Replace
<1>2. MSB(x) \in Bytes /\ LSB(y) \in Bytes
  BY Parts
<1>. QED BY <1>1, <1>2, Joined DEF Sizes

\* The sign bits.
LEMMA SignBits ==
  ASSUME CodeWidth, NEW x \in Words
  PROVE  /\ BIT_CHECK(x, MSBi(WORD)) = IF x < 32768 THEN 0 ELSE 1
         /\ BIT_CHECK(x, MSBi(BYTE)) = IF x % 256 < 128 THEN 0 ELSE 1
<1>1. BIT_CHECK(x, MSBi(WORD)) = (x \div 32768) % 2 /\ BIT_CHECK(x, MSBi(BYTE)) = (x \div 128) % 2
  BY Powers DEF BIT_CHECK
<1>2. x \in Nat /\ x < 65536
  BY Ranges
<1>3. (x \div 32768) % 2 = IF x < 32768 THEN 0 ELSE 1
  BY ONLY <1>2
<1>. QED BY <1>1, <1>2, <1>3, TwoBytes

-----------------------------------------------------------------------------
(***************************************************************************)
(* The bitwise operators.                                                  *)
(***************************************************************************)

\* BIT_CHECK of the eight bits, in numerals.
LEMMA BitValues ==
  ASSUME NEW x \in Nat
  PROVE  /\ BIT_CHECK(x, 0) = x % 2 /\ BIT_CHECK(x, 1) = (x \div 2) % 2
         /\ BIT_CHECK(x, 2) = (x \div 4) % 2 /\ BIT_CHECK(x, 3) = (x \div 8) % 2
         /\ BIT_CHECK(x, 4) = (x \div 16) % 2 /\ BIT_CHECK(x, 5) = (x \div 32) % 2
         /\ BIT_CHECK(x, 6) = (x \div 64) % 2 /\ BIT_CHECK(x, 7) = (x \div 128) % 2
  BY DEF BIT_CHECK

\* Every choice of eight bits is the bits of a byte.
Bit == 0..1

\* A number made of its lowest bit and the rest.
LEMMA LowestBit ==
  ASSUME NEW y, NEW a \in Nat, a < 2, NEW q \in Nat, y = a + 2 * q
  PROVE  y \in Nat /\ y % 2 = a /\ y \div 2 = q
  OBVIOUS

\* Dividing by a power of two is halving again and again.
LEMMA Halves ==
  ASSUME NEW x \in Nat
  PROVE  /\ x \div 4 = (x \div 2) \div 2 /\ x \div 8 = (x \div 4) \div 2
         /\ x \div 16 = (x \div 8) \div 2 /\ x \div 32 = (x \div 16) \div 2
         /\ x \div 64 = (x \div 32) \div 2 /\ x \div 128 = (x \div 64) \div 2
  OBVIOUS

\* Any eight bits are those of a byte.
LEMMA ByteOfBits ==
  ASSUME NEW h \in [0..7 -> Bit]
  PROVE  \E z \in Nat : z < 256 /\ \A b \in 0..7 : BIT_CHECK(z, b) = h[b]
<1>. DEFINE q7 == h[7]
            q6 == h[6] + 2 * q7
            q5 == h[5] + 2 * q6
            q4 == h[4] + 2 * q5
            q3 == h[3] + 2 * q4
            q2 == h[2] + 2 * q3
            q1 == h[1] + 2 * q2
            z  == h[0] + 2 * q1
<1>h. \A b \in 0..7 : h[b] \in Nat /\ h[b] < 2
  BY DEF Bit
<1>7. q7 \in Nat /\ q7 < 2
  BY <1>h
<1>. HIDE DEF q7
<1>6. q6 \in Nat /\ q6 < 4 /\ q6 % 2 = h[6] /\ q6 \div 2 = q7
  <2>1. h[6] \in Nat /\ h[6] < 2
    BY <1>h
  <2>2. q6 = h[6] + 2 * q7
    OBVIOUS
  <2>3. q6 \in Nat /\ q6 % 2 = h[6] /\ q6 \div 2 = q7
    <3>1. q7 \in Nat
      BY <1>7
    <3>. QED BY ONLY <3>1, <2>1, <2>2, LowestBit
  <2>4. q6 < 4
    BY ONLY <1>7, <2>1, <2>2
  <2>. QED BY <2>3, <2>4
<1>. HIDE DEF q6
<1>5. q5 \in Nat /\ q5 < 8 /\ q5 % 2 = h[5] /\ q5 \div 2 = q6
  <2>1. h[5] \in Nat /\ h[5] < 2
    BY <1>h
  <2>2. q5 = h[5] + 2 * q6
    OBVIOUS
  <2>3. q5 \in Nat /\ q5 % 2 = h[5] /\ q5 \div 2 = q6
    <3>1. q6 \in Nat
      BY <1>6
    <3>. QED BY ONLY <3>1, <2>1, <2>2, LowestBit
  <2>4. q5 < 8
    BY ONLY <1>6, <2>1, <2>2
  <2>. QED BY <2>3, <2>4
<1>. HIDE DEF q5
<1>4. q4 \in Nat /\ q4 < 16 /\ q4 % 2 = h[4] /\ q4 \div 2 = q5
  <2>1. h[4] \in Nat /\ h[4] < 2
    BY <1>h
  <2>2. q4 = h[4] + 2 * q5
    OBVIOUS
  <2>3. q4 \in Nat /\ q4 % 2 = h[4] /\ q4 \div 2 = q5
    <3>1. q5 \in Nat
      BY <1>5
    <3>. QED BY ONLY <3>1, <2>1, <2>2, LowestBit
  <2>4. q4 < 16
    BY ONLY <1>5, <2>1, <2>2
  <2>. QED BY <2>3, <2>4
<1>. HIDE DEF q4
<1>3. q3 \in Nat /\ q3 < 32 /\ q3 % 2 = h[3] /\ q3 \div 2 = q4
  <2>1. h[3] \in Nat /\ h[3] < 2
    BY <1>h
  <2>2. q3 = h[3] + 2 * q4
    OBVIOUS
  <2>3. q3 \in Nat /\ q3 % 2 = h[3] /\ q3 \div 2 = q4
    <3>1. q4 \in Nat
      BY <1>4
    <3>. QED BY ONLY <3>1, <2>1, <2>2, LowestBit
  <2>4. q3 < 32
    BY ONLY <1>4, <2>1, <2>2
  <2>. QED BY <2>3, <2>4
<1>. HIDE DEF q3
<1>2. q2 \in Nat /\ q2 < 64 /\ q2 % 2 = h[2] /\ q2 \div 2 = q3
  <2>1. h[2] \in Nat /\ h[2] < 2
    BY <1>h
  <2>2. q2 = h[2] + 2 * q3
    OBVIOUS
  <2>3. q2 \in Nat /\ q2 % 2 = h[2] /\ q2 \div 2 = q3
    <3>1. q3 \in Nat
      BY <1>3
    <3>. QED BY ONLY <3>1, <2>1, <2>2, LowestBit
  <2>4. q2 < 64
    BY ONLY <1>3, <2>1, <2>2
  <2>. QED BY <2>3, <2>4
<1>. HIDE DEF q2
<1>1. q1 \in Nat /\ q1 < 128 /\ q1 % 2 = h[1] /\ q1 \div 2 = q2
  <2>1. h[1] \in Nat /\ h[1] < 2
    BY <1>h
  <2>2. q1 = h[1] + 2 * q2
    OBVIOUS
  <2>3. q1 \in Nat /\ q1 % 2 = h[1] /\ q1 \div 2 = q2
    <3>1. q2 \in Nat
      BY <1>2
    <3>. QED BY ONLY <3>1, <2>1, <2>2, LowestBit
  <2>4. q1 < 128
    BY ONLY <1>2, <2>1, <2>2
  <2>. QED BY <2>3, <2>4
<1>. HIDE DEF q1
<1>0. z \in Nat /\ z < 256 /\ z % 2 = h[0] /\ z \div 2 = q1
  <2>1. h[0] \in Nat /\ h[0] < 2
    BY <1>h
  <2>2. z = h[0] + 2 * q1
    OBVIOUS
  <2>3. z \in Nat /\ z % 2 = h[0] /\ z \div 2 = q1
    <3>1. q1 \in Nat
      BY <1>1
    <3>. QED BY ONLY <3>1, <2>1, <2>2, LowestBit
  <2>4. z < 256
    BY ONLY <1>1, <2>1, <2>2
  <2>. QED BY <2>3, <2>4
<1>. HIDE DEF z
<1>8. /\ z \div 4 = q2 /\ z \div 8 = q3 /\ z \div 16 = q4
      /\ z \div 32 = q5 /\ z \div 64 = q6 /\ z \div 128 = q7
  BY SMTT(30), <1>0, <1>1, <1>2, <1>3, <1>4, <1>5, <1>6, Halves
<1>9. q7 % 2 = h[7]
  BY <1>h DEF q7
<1>10. /\ BIT_CHECK(z, 0) = h[0] /\ BIT_CHECK(z, 1) = h[1] /\ BIT_CHECK(z, 2) = h[2]
       /\ BIT_CHECK(z, 3) = h[3] /\ BIT_CHECK(z, 4) = h[4] /\ BIT_CHECK(z, 5) = h[5]
       /\ BIT_CHECK(z, 6) = h[6] /\ BIT_CHECK(z, 7) = h[7]
  BY <1>0, <1>1, <1>2, <1>3, <1>4, <1>5, <1>6, <1>8, <1>9 DEF BIT_CHECK
<1>11. \A b \in 0..7 : BIT_CHECK(z, b) = h[b]
  BY <1>10
<1>. QED BY <1>0, <1>11

\* A byte has no more than its bits.
LEMMA BitsDetermine ==
  ASSUME NEW x \in Nat, NEW y \in Nat, x < 256, y < 256,
         \A b \in 0..7 : BIT_CHECK(x, b) = BIT_CHECK(y, b)
  PROVE  x = y
<1>1. ASSUME NEW z \in Nat, z < 256
      PROVE  z = (z % 2) + 2 * ((z \div 2) % 2) + 4 * ((z \div 4) % 2) + 8 * ((z \div 8) % 2)
                   + 16 * ((z \div 16) % 2) + 32 * ((z \div 32) % 2) + 64 * ((z \div 64) % 2)
                   + 128 * ((z \div 128) % 2)
  BY ONLY z \in Nat, z < 256
<1>2. /\ BIT_CHECK(x, 0) = BIT_CHECK(y, 0) /\ BIT_CHECK(x, 1) = BIT_CHECK(y, 1)
      /\ BIT_CHECK(x, 2) = BIT_CHECK(y, 2) /\ BIT_CHECK(x, 3) = BIT_CHECK(y, 3)
      /\ BIT_CHECK(x, 4) = BIT_CHECK(y, 4) /\ BIT_CHECK(x, 5) = BIT_CHECK(y, 5)
      /\ BIT_CHECK(x, 6) = BIT_CHECK(y, 6) /\ BIT_CHECK(x, 7) = BIT_CHECK(y, 7)
  OBVIOUS
<1>3. /\ x % 2 = y % 2 /\ (x \div 2) % 2 = (y \div 2) % 2 /\ (x \div 4) % 2 = (y \div 4) % 2
      /\ (x \div 8) % 2 = (y \div 8) % 2 /\ (x \div 16) % 2 = (y \div 16) % 2
      /\ (x \div 32) % 2 = (y \div 32) % 2 /\ (x \div 64) % 2 = (y \div 64) % 2
      /\ (x \div 128) % 2 = (y \div 128) % 2
  BY <1>2 DEF BIT_CHECK
<1>. QED BY <1>1, <1>3

\* A bit is 0 or 1.
LEMMA BitIsBit ==
  ASSUME NEW x \in Nat, NEW b \in 0..7
  PROVE  BIT_CHECK(x, b) \in Bit
<1>1. \A y \in Nat : y % 2 \in Bit
  BY DEF Bit
<1>2. /\ x \div 2 \in Nat /\ x \div 4 \in Nat /\ x \div 8 \in Nat /\ x \div 16 \in Nat
      /\ x \div 32 \in Nat /\ x \div 64 \in Nat /\ x \div 128 \in Nat
  OBVIOUS
<1>3. /\ BIT_CHECK(x, 0) \in Bit /\ BIT_CHECK(x, 1) \in Bit /\ BIT_CHECK(x, 2) \in Bit
      /\ BIT_CHECK(x, 3) \in Bit /\ BIT_CHECK(x, 4) \in Bit /\ BIT_CHECK(x, 5) \in Bit
      /\ BIT_CHECK(x, 6) \in Bit /\ BIT_CHECK(x, 7) \in Bit
  BY <1>1, <1>2 DEF BIT_CHECK
<1>. QED BY <1>3

\* Exclusive or of bytes: a byte, bit by bit.
LEMMA XorByte ==
  ASSUME CodeWidth, NEW x \in Bytes, NEW y \in Bytes
  PROVE  /\ BitwiseByte(XorBits, x, y) \in Bytes
         /\ \A b \in 0..7 : BIT_CHECK(BitwiseByte(XorBits, x, y), b)
                              = XorBits(BIT_CHECK(x, b), BIT_CHECK(y, b))
<1>. DEFINE h == [b \in 0..7 |-> XorBits(BIT_CHECK(x, b), BIT_CHECK(y, b))]
<1>1. \A p, q \in Bit : XorBits(p, q) \in Bit
  BY DEF Bit, XorBits
<1>2. h \in [0..7 -> Bit]
  BY <1>1, BitIsBit, Ranges
<1>3. \E z \in Bytes : \A b \in 0..7 : BIT_CHECK(z, b) = h[b]
  <2>1. PICK z \in Nat : z < 256 /\ \A b \in 0..7 : BIT_CHECK(z, b) = h[b]
    BY <1>2, ByteOfBits
  <2>2. z \in Bytes
    BY <2>1, Ranges
  <2>. QED BY <2>1, <2>2
<1>4. BitwiseByte(XorBits, x, y)
        = CHOOSE z \in Bytes : \A b \in 0..7 :
            BIT_CHECK(z, b) = XorBits(BIT_CHECK(x, b), BIT_CHECK(y, b))
  BY Exponents DEF BitwiseByte
<1>. QED BY <1>3, <1>4

\* And of bytes is a byte.
LEMMA AndByte ==
  ASSUME CodeWidth, NEW x \in Bytes, NEW y \in Bytes
  PROVE  BitwiseByte(AndBits, x, y) \in Bytes
<1>. DEFINE h == [b \in 0..7 |-> AndBits(BIT_CHECK(x, b), BIT_CHECK(y, b))]
<1>1. \A p, q \in Bit : AndBits(p, q) \in Bit
  BY DEF Bit, AndBits
<1>2. h \in [0..7 -> Bit]
  BY <1>1, BitIsBit, Ranges
<1>3. \E z \in Bytes : \A b \in 0..7 : BIT_CHECK(z, b) = h[b]
  <2>1. PICK z \in Nat : z < 256 /\ \A b \in 0..7 : BIT_CHECK(z, b) = h[b]
    BY <1>2, ByteOfBits
  <2>2. z \in Bytes
    BY <2>1, Ranges
  <2>. QED BY <2>1, <2>2
<1>4. BitwiseByte(AndBits, x, y)
        = CHOOSE z \in Bytes : \A b \in 0..7 :
            BIT_CHECK(z, b) = AndBits(BIT_CHECK(x, b), BIT_CHECK(y, b))
  BY Exponents DEF BitwiseByte
<1>. QED BY <1>3, <1>4

\* Or of bytes is a byte.
LEMMA OrByte ==
  ASSUME CodeWidth, NEW x \in Bytes, NEW y \in Bytes
  PROVE  BitwiseByte(OrBits, x, y) \in Bytes
<1>. DEFINE h == [b \in 0..7 |-> OrBits(BIT_CHECK(x, b), BIT_CHECK(y, b))]
<1>1. \A p, q \in Bit : OrBits(p, q) \in Bit
  BY DEF Bit, OrBits
<1>2. h \in [0..7 -> Bit]
  BY <1>1, BitIsBit, Ranges
<1>3. \E z \in Bytes : \A b \in 0..7 : BIT_CHECK(z, b) = h[b]
  <2>1. PICK z \in Nat : z < 256 /\ \A b \in 0..7 : BIT_CHECK(z, b) = h[b]
    BY <1>2, ByteOfBits
  <2>2. z \in Bytes
    BY <2>1, Ranges
  <2>. QED BY <2>1, <2>2
<1>4. BitwiseByte(OrBits, x, y)
        = CHOOSE z \in Bytes : \A b \in 0..7 :
            BIT_CHECK(z, b) = OrBits(BIT_CHECK(x, b), BIT_CHECK(y, b))
  BY Exponents DEF BitwiseByte
<1>. QED BY <1>3, <1>4

\* A bitwise operator makes words of words, byte by byte.
LEMMA BitwiseWords ==
  ASSUME CodeWidth, NEW x \in Words, NEW y \in Words
  PROVE  /\ Bitwise(XorBits, x, y) \in Words
         /\ Bitwise(AndBits, x, y) \in Words
         /\ Bitwise(OrBits, x, y) \in Words
<1>1. MSB(x) \in Bytes /\ LSB(x) \in Bytes /\ MSB(y) \in Bytes /\ LSB(y) \in Bytes
  BY Parts
<1>2. Bitwise(XorBits, x, y) \in Words
  BY <1>1, XorByte, Joined DEF Bitwise
<1>3. Bitwise(AndBits, x, y) \in Words
  BY <1>1, AndByte, Joined DEF Bitwise
<1>4. Bitwise(OrBits, x, y) \in Words
  BY <1>1, OrByte, Joined DEF Bitwise
<1>. QED BY <1>2, <1>3, <1>4
-----------------------------------------------------------------------------
(***************************************************************************)
(* Type correctness.                                                       *)
(***************************************************************************)

CPU == [REG : [Regs -> Words], PSW : Flags, high : Bytes]

\* A flag is 0 or 1.
LEMMA FlagIsBit == \A p : Flag(p) \in 0..1
  BY DEF Flag

\* update_PSW gives flags.
LEMMA FlagsOfResult ==
  ASSUME CodeWidth, NEW src \in Words, NEW dst \in Words, NEW res \in Words, NEW size \in Sizes
  PROVE  update_PSW(src, dst, res, size) \in Flags
<1>1. BIT_CHECK(res, MSBi(size)) \in 0..1
  BY SignBits DEF Sizes
<1>. QED BY <1>1, FlagIsBit DEF update_PSW, Flags

\* Writing a result gives a CPU.
LEMMA WriteType ==
  ASSUME CodeWidth, NEW m \in CPU, NEW dst \in Regs, NEW res \in Words, NEW PSW \in Flags
  PROVE  Write(m, dst, res, PSW) \in CPU
<1>1. MSB(res) \in Bytes
  BY Parts
<1>. QED BY <1>1 DEF Write, CPU

\* An operand, of a register or of the table of constants, is a word.
LEMMA OperandType ==
  ASSUME CodeWidth, NEW m \in CPU,
         NEW from \in {<<REGISTER, r>> : r \in Regs} \cup {<<CONSTANT_, k>> : k \in Constants}
  PROVE  Operand(m, from[1], from[2]) \in Words
<1>1. CASE \E r \in Regs : from = <<REGISTER, r>>
  BY <1>1 DEF Operand, CPU
<1>2. CASE \E k \in Constants : from = <<CONSTANT_, k>>
  <2>1. PICK k \in Constants : from = <<CONSTANT_, k>>
    BY <1>2
  <2>2. k \in 0..7
    BY AluAssumption
  <2>3. Const_table[k + 1] \in Int
    BY <2>2 DEF Const_table
  <2>4. Operand(m, from[1], from[2]) = Const_table[k + 1] % 65536
    BY <2>1, Powers DEF Operand, REGISTER, CONSTANT_
  <2>5. \A i \in Int : i % 65536 \in Nat /\ i % 65536 < 65536
    OBVIOUS
  <2>. QED BY <2>3, <2>4, <2>5, Ranges
<1>. QED BY <1>1, <1>2

\* A sum is a word.
LEMMA SumType ==
  ASSUME CodeWidth, NEW src \in Words, NEW dst \in Words, NEW c \in 0..1, NEW size \in Sizes
  PROVE  Sum(src, dst, c, size) \in Words
<1>1. src \in Nat /\ dst \in Nat
  BY Ranges
<1>2. (dst + src + c) % 65536 \in Nat /\ (dst + src + c) % 65536 < 65536
  BY ONLY <1>1, c \in 0..1
<1>3. (dst + src + c) % 2^(2 * ByteBits) \in Words
  BY <1>2, Powers, Ranges
<1>. QED BY <1>3, Replaced DEF Sum

\* ADD, SUB and their kin give a CPU.
LEMMA ArithmeticType ==
  ASSUME CodeWidth, NEW m \in CPU, NEW src \in Words, NEW dst \in Regs, NEW c \in 0..1,
         NEW size \in Sizes
  PROVE  arrithmetic(m, src, dst, c, size) \in CPU
<1>1. m.REG[dst] \in Words
  BY DEF CPU
<1>2. Sum(src, m.REG[dst], c, size) \in Words
  BY <1>1, SumType
<1>. QED BY <1>1, <1>2, FlagsOfResult, WriteType DEF arrithmetic

\* One decimal digit: the sum of two digits of four bits.
LEMMA DigitType ==
  ASSUME CodeWidth, NEW x \in Words
  PROVE  /\ Digit(x, 0) = x % 16 /\ Digit(x, 1) = (x \div 16) % 16
         /\ Digit(x, 2) = (x \div 256) % 16 /\ Digit(x, 3) = (x \div 4096) % 16
         /\ \A k \in 0..3 : Digit(x, k) \in Nat /\ Digit(x, k) < 16
<1>1. x \in Nat
  BY Ranges
<1>2. /\ Digit(x, 0) = (x \div 2^(0 * 4)) % 16 /\ Digit(x, 1) = (x \div 2^(1 * 4)) % 16
      /\ Digit(x, 2) = (x \div 2^(2 * 4)) % 16 /\ Digit(x, 3) = (x \div 2^(3 * 4)) % 16
  BY Exponents, Powers DEF Digit
<1>3. x \div 2^(0 * 4) = x
  BY ONLY <1>1
<1>4. x \div 2^(1 * 4) = x \div 16 /\ x \div 2^(2 * 4) = x \div 256 /\ x \div 2^(3 * 4) = x \div 4096
  BY ONLY <1>1
<1>5. /\ x % 16 \in Nat /\ x % 16 < 16 /\ (x \div 16) % 16 \in Nat /\ (x \div 16) % 16 < 16
      /\ (x \div 256) % 16 \in Nat /\ (x \div 256) % 16 < 16
      /\ (x \div 4096) % 16 \in Nat /\ (x \div 4096) % 16 < 16
  BY ONLY <1>1
<1>. QED BY <1>2, <1>3, <1>4, <1>5

\* bcd_add adds one digit, and carries at ten.
LEMMA BcdAddType ==
  ASSUME CodeWidth, NEW x \in Nat, NEW y \in Nat, NEW c \in 0..1
  PROVE  /\ bcd_add(x, y, c).res \in Nat /\ bcd_add(x, y, c).carry \in 0..1
         /\ bcd_add(x, y, c).res + 10 * bcd_add(x, y, c).carry = x + y + c
         /\ x < 10 /\ y < 10 => bcd_add(x, y, c).res < 10
<1>1. BCD_VALUE_LIMIT = 10
  BY DEF CodeWidth
<1>2. bcd_add(x, y, c) = IF x + y + c >= 10 THEN [res |-> x + y + c - 10, carry |-> 1]
                                            ELSE [res |-> x + y + c, carry |-> 0]
  BY <1>1 DEF bcd_add
<1>3. CASE x + y + c >= 10
  BY <1>2, <1>3
<1>4. CASE ~(x + y + c >= 10)
  BY <1>2, <1>4
<1>. QED BY <1>3, <1>4

\* A word made of four digits.
LEMMA DigitsType ==
  ASSUME CodeWidth, NEW n0 \in Nat, NEW n1 \in Nat, NEW n2 \in Nat, NEW n3 \in Nat
  PROVE  /\ Digits(n0, n1, n2, n3) \in Words
         /\ Digits(n0, n1, n2, n3)
              = Join((n3 % 16) * 16 + (n2 % 16), (n1 % 16) * 16 + (n0 % 16))
         /\ (n3 % 16) * 16 + (n2 % 16) \in Bytes
         /\ (n1 % 16) * 16 + (n0 % 16) \in Bytes
<1>1. Digits(n0, n1, n2, n3) = Join((n3 % 16) * 16 + (n2 % 16), (n1 % 16) * 16 + (n0 % 16))
  BY Powers DEF Digits
<1>2. \A p, q \in Nat : (p % 16) * 16 + (q % 16) \in Nat /\ (p % 16) * 16 + (q % 16) < 256
  OBVIOUS
<1>3. /\ (n3 % 16) * 16 + (n2 % 16) \in Bytes
      /\ (n1 % 16) * 16 + (n0 % 16) \in Bytes
  BY <1>2, Ranges
<1>. QED BY <1>1, <1>3, Joined

\* DADD gives a CPU.
LEMMA DaddType ==
  ASSUME CodeWidth, NEW m \in CPU, NEW s \in Words, NEW dst \in Regs, NEW size \in Sizes
  PROVE  DADD(m, s, dst, size) \in CPU
<1>. DEFINE d  == m.REG[dst]
            n0 == bcd_add(Digit(s, 0), Digit(d, 0), m.PSW.C)
            n1 == bcd_add(Digit(s, 1), Digit(d, 1), n0.carry)
            n2 == bcd_add(Digit(s, 2), Digit(d, 2), n1.carry)
            n3 == bcd_add(Digit(s, 3), Digit(d, 3), n2.carry)
            PSW == [m.PSW EXCEPT !.C = IF size = WORD THEN n3.carry ELSE n1.carry]
<1>1. d \in Words /\ m.PSW.C \in 0..1
  BY DEF CPU, Flags
<1>d. /\ Digit(s, 0) \in Nat /\ Digit(s, 1) \in Nat /\ Digit(s, 2) \in Nat /\ Digit(s, 3) \in Nat
      /\ Digit(d, 0) \in Nat /\ Digit(d, 1) \in Nat /\ Digit(d, 2) \in Nat /\ Digit(d, 3) \in Nat
  BY <1>1, DigitType
<1>6. DADD(m, s, dst, size) = Write(m, dst, Replace(d, Digits(n0.res, n1.res, n2.res, n3.res), size), PSW)
  BY DEF DADD
<1>. HIDE DEF d
<1>2. n0.res \in Nat /\ n0.carry \in 0..1
  BY <1>1, <1>d, BcdAddType
<1>. HIDE DEF n0
<1>3. n1.res \in Nat /\ n1.carry \in 0..1
  BY <1>2, <1>d, BcdAddType
<1>. HIDE DEF n1
<1>4. n2.res \in Nat /\ n2.carry \in 0..1
  BY <1>3, <1>d, BcdAddType
<1>. HIDE DEF n2
<1>5. n3.res \in Nat /\ n3.carry \in 0..1
  BY <1>4, <1>d, BcdAddType
<1>. HIDE DEF n3
<1>7. PSW \in Flags
  BY <1>3, <1>5 DEF CPU, Flags
<1>8. Replace(d, Digits(n0.res, n1.res, n2.res, n3.res), size) \in Words
  BY <1>1, <1>2, <1>3, <1>4, <1>5, DigitsType, Replaced
<1>. QED BY <1>6, <1>7, <1>8, WriteType

\* What a byte operation that goes through temp_reg_A stores.
LEMMA ThroughTempType ==
  ASSUME CodeWidth, NEW m \in CPU, NEW x \in Words, NEW size \in Sizes
  PROVE  (IF size = WORD THEN x ELSE Join(m.high, LSB(x))) \in Words
  BY Parts, Joined DEF CPU

\* XOR gives a CPU.
LEMMA XorType ==
  ASSUME CodeWidth, NEW m \in CPU, NEW s \in Words, NEW dst \in Regs, NEW size \in Sizes
  PROVE  XOR(m, s, dst, size) \in CPU
<1>1. m.REG[dst] \in Words
  BY DEF CPU
<1>. DEFINE x   == Bitwise(XorBits, m.REG[dst], s)
            res == IF size = WORD THEN x ELSE Join(m.high, LSB(x))
<1>2. res \in Words
  BY <1>1, BitwiseWords, ThroughTempType
<1>. HIDE DEF res
<1>3. XOR(m, s, dst, size) = Write(m, dst, res, update_PSW(s, m.REG[dst], res, size))
  BY DEF XOR, res
<1>. QED BY <1>1, <1>2, <1>3, FlagsOfResult, WriteType

\* AND gives a CPU.
LEMMA AndType ==
  ASSUME CodeWidth, NEW m \in CPU, NEW s \in Words, NEW dst \in Regs, NEW size \in Sizes
  PROVE  AND(m, s, dst, size) \in CPU
<1>1. m.REG[dst] \in Words
  BY DEF CPU
<1>. DEFINE res == Replace(m.REG[dst], Bitwise(AndBits, m.REG[dst], s), size)
<1>2. res \in Words
  BY <1>1, BitwiseWords, Replaced
<1>. HIDE DEF res
<1>3. AND(m, s, dst, size) = Write(m, dst, res, update_PSW(s, m.REG[dst], res, size))
  BY DEF AND, res
<1>. QED BY <1>1, <1>2, <1>3, FlagsOfResult, WriteType

\* BIT gives a CPU.
LEMMA BitType ==
  ASSUME CodeWidth, NEW m \in CPU, NEW s \in Words, NEW dst \in Regs, NEW size \in Sizes
  PROVE  BIT(m, s, dst, size) \in CPU
<1>1. m.REG[dst] \in Words
  BY DEF CPU
<1>. DEFINE x   == Bitwise(AndBits, m.REG[dst], s)
            res == IF size = WORD THEN x ELSE Join(m.high, LSB(x))
<1>2. res \in Words
  BY <1>1, BitwiseWords, ThroughTempType
<1>. HIDE DEF res
<1>3. BIT(m, s, dst, size)
        = [m EXCEPT !.PSW = update_PSW(s, m.REG[dst], res, size), !.high = MSB(res)]
  BY DEF BIT, res
<1>4. MSB(res) \in Bytes
  BY <1>2, Parts
<1>5. update_PSW(s, m.REG[dst], res, size) \in Flags
  BY <1>1, <1>2, FlagsOfResult
<1>. QED BY <1>3, <1>4, <1>5 DEF CPU

\* BIC and BIS give a CPU.
LEMMA StoreBitsType ==
  ASSUME CodeWidth, NEW m \in CPU, NEW dst \in Regs, NEW res \in Words, NEW size \in Sizes
  PROVE  StoreBits(m, dst, res, size) \in CPU
<1>1. BIT_CHECK(res, MSBi(size)) \in 0..1
  BY SignBits DEF Sizes
<1>. QED BY <1>1, FlagIsBit DEF StoreBits, CPU, Flags

\* Every instruction of two operands gives a CPU.
LEMMA TwoOperandType ==
  ASSUME CodeWidth, NEW m \in CPU, NEW inst \in TwoOperand, NEW size \in Sizes, NEW dst \in Regs,
         NEW from \in Sources(inst)
  PROVE  two_operand_execution(m, inst, from[1], size, from[2], dst) \in CPU
<1>. DEFINE s == Operand(m, from[1], from[2])
            after == two_operand_execution(m, inst, from[1], size, from[2], dst)
<1>1. s \in Words
  BY OperandType DEF Sources
<1>2. Not(s) \in Words
  BY <1>1, Parts
<1>3. /\ m.REG[dst] \in Words /\ m.PSW.C \in 0..1
      /\ 0 \in 0..1 /\ 1 \in 0..1
  BY DEF CPU, Flags
<1>. HIDE DEF s
<1>. HIDE DEF s
<1>5. CASE inst = "ADD"
  <2>1. after = arrithmetic(m, s, dst, 0, size)
    BY <1>5 DEF two_operand_execution, ADD, s
  <2>. QED BY <1>1, <1>3, <2>1, ArithmeticType
<1>6. CASE inst = "ADDC"
  <2>1. after = arrithmetic(m, s, dst, m.PSW.C, size)
    BY <1>6 DEF two_operand_execution, ADDC, s
  <2>. QED BY <1>1, <1>3, <2>1, ArithmeticType
<1>7. CASE inst = "SUB"
  <2>1. after = arrithmetic(m, Not(s), dst, 1, size)
    BY <1>7 DEF two_operand_execution, SUB, s
  <2>. QED BY <1>2, <1>3, <2>1, ArithmeticType
<1>8. CASE inst = "SUBC"
  <2>1. after = arrithmetic(m, Not(s), dst, m.PSW.C, size)
    BY <1>8 DEF two_operand_execution, SUBC, s
  <2>. QED BY <1>2, <1>3, <2>1, ArithmeticType
<1>9. CASE inst = "DADD"
  <2>1. after = DADD(m, s, dst, size)
    BY <1>9 DEF two_operand_execution, s
  <2>. QED BY <1>1, <2>1, DaddType
<1>10. CASE inst = "CMP"
  <2>1. after = [arrithmetic(m, Not(s), dst, 1, size) EXCEPT !.REG = m.REG]
    BY <1>10 DEF two_operand_execution, CMP, s
  <2>2. arrithmetic(m, Not(s), dst, 1, size) \in CPU
    BY <1>2, <1>3, ArithmeticType
  <2>. QED BY <2>1, <2>2 DEF CPU
<1>11. CASE inst = "XOR"
  <2>1. after = XOR(m, s, dst, size)
    BY <1>11 DEF two_operand_execution, s
  <2>. QED BY <1>1, <2>1, XorType
<1>12. CASE inst = "AND"
  <2>1. after = AND(m, s, dst, size)
    BY <1>12 DEF two_operand_execution, s
  <2>. QED BY <1>1, <2>1, AndType
<1>13. CASE inst = "BIT"
  <2>1. after = BIT(m, s, dst, size)
    BY <1>13 DEF two_operand_execution, s
  <2>. QED BY <1>1, <2>1, BitType
<1>14. CASE inst = "BIC"
  <2>1. after = StoreBits(m, dst, Replace(m.REG[dst], Bitwise(AndBits, m.REG[dst], Not(s)), size), size)
    BY <1>14 DEF two_operand_execution, BIC, s
  <2>2. Replace(m.REG[dst], Bitwise(AndBits, m.REG[dst], Not(s)), size) \in Words
    BY <1>2, <1>3, BitwiseWords, Replaced
  <2>. QED BY <2>1, <2>2, StoreBitsType
<1>15. CASE inst = "BIS"
  <2>1. after = StoreBits(m, dst, Replace(m.REG[dst], Bitwise(OrBits, m.REG[dst], s), size), size)
    BY <1>15 DEF two_operand_execution, BIS, s
  <2>2. Replace(m.REG[dst], Bitwise(OrBits, m.REG[dst], s), size) \in Words
    BY <1>1, <1>3, BitwiseWords, Replaced
  <2>. QED BY <2>1, <2>2, StoreBitsType
<1>16. CASE inst = "MOV"
  <2>1. after = [m EXCEPT !.REG[dst] = Replace(m.REG[dst], s, size)]
    BY <1>16 DEF two_operand_execution, MOV, s
  <2>2. Replace(m.REG[dst], s, size) \in Words
    BY <1>1, <1>3, Replaced
  <2>. QED BY <2>1, <2>2 DEF CPU
<1>17. CASE inst = "SWAP"
  <2>1. after = [m EXCEPT
                   !.REG = [m.REG EXCEPT ![dst] = m.REG[from[2]], ![from[2]] = m.REG[dst]],
                   !.high = MSB(m.REG[dst])]
    BY <1>17 DEF two_operand_execution, SWAP, CPU
  <2>2. from[2] \in Regs
    BY <1>17 DEF Sources
  <2>3. MSB(m.REG[dst]) \in Bytes
    BY <1>3, Parts
  <2>4. [m.REG EXCEPT ![dst] = m.REG[from[2]], ![from[2]] = m.REG[dst]] \in [Regs -> Words]
    BY <2>2 DEF CPU
  <2>. QED BY <2>1, <2>3, <2>4 DEF CPU
<1>. QED
  BY <1>5, <1>6, <1>7, <1>8, <1>9, <1>10, <1>11, <1>12, <1>13, <1>14, <1>15, <1>16, <1>17,
     AluAssumption

\* A shifted word is a word.
LEMMA ShiftType ==
  ASSUME CodeWidth, NEW x \in Words, NEW top \in 0..1, NEW size \in Sizes
  PROVE  ShiftRight(x, top, size) \in Words
<1>1. x \in Nat /\ x < 65536
  BY Ranges
<1>2. CASE size = WORD
  <2>1. (x % 65536) \div 2 + top * 32768 \in Nat /\ (x % 65536) \div 2 + top * 32768 < 65536
    BY ONLY <1>1, top \in 0..1
  <2>. QED BY <1>2, <2>1, Powers, Ranges, Replaced DEF ShiftRight
<1>3. CASE size = BYTE
  <2>1. (x % 256) \div 2 + top * 128 \in Nat /\ (x % 256) \div 2 + top * 128 < 65536
    BY ONLY <1>1, top \in 0..1
  <2>. QED BY <1>3, <2>1, Powers, Ranges, Replaced DEF ShiftRight
<1>. QED BY <1>2, <1>3 DEF Sizes

\* SRA and RRC give a CPU.
LEMMA ShiftedType ==
  ASSUME CodeWidth, NEW m \in CPU, NEW dst \in Regs, NEW res \in Words, NEW size \in Sizes
  PROVE  Shifted(m, dst, res, size) \in CPU
<1>1. m.REG[dst] \in Words
  BY DEF CPU
<1>2. update_PSW(m.REG[dst], m.REG[dst], res, size) \in Flags
  BY <1>1, FlagsOfResult
<1>3. m.REG[dst] % 2 \in 0..1
  BY <1>1, Ranges
<1>. DEFINE PSW == [update_PSW(m.REG[dst], m.REG[dst], res, size) EXCEPT !.C = m.REG[dst] % 2]
<1>4. PSW \in Flags
  BY <1>2, <1>3 DEF Flags
<1>. QED BY <1>4, WriteType DEF Shifted

\* Every instruction of one register gives a CPU.
LEMMA SingleRegisterType ==
  ASSUME CodeWidth, NEW m \in CPU, NEW inst \in SingleRegister, NEW size \in Sizes, NEW dst \in Regs
  PROVE  single_register_execution(m, inst, size, dst) \in CPU
<1>. DEFINE x == m.REG[dst]
            after == single_register_execution(m, inst, size, dst)
<1>1. x \in Words /\ m.PSW.C \in 0..1
  BY DEF CPU, Flags
<1>2. BIT_CHECK(x, MSBi(size)) \in 0..1 /\ BIT_CHECK(x, MSBi(BYTE)) \in 0..1
  BY <1>1, SignBits DEF Sizes
<1>3. MSB(x) \in Bytes /\ LSB(x) \in Bytes
  BY <1>1, Parts
<1>4. CASE inst = "SRA"
  <2>1. after = Shifted(m, dst, ShiftRight(x, BIT_CHECK(x, MSBi(size)), size), size)
    BY <1>4 DEF single_register_execution, SRA
  <2>2. ShiftRight(x, BIT_CHECK(x, MSBi(size)), size) \in Words
    BY <1>1, <1>2, ShiftType
  <2>. QED BY <2>1, <2>2, ShiftedType
<1>5. CASE inst = "RRC"
  <2>1. after = Shifted(m, dst, ShiftRight(x, m.PSW.C, size), size)
    BY <1>5 DEF single_register_execution, RRC
  <2>2. ShiftRight(x, m.PSW.C, size) \in Words
    BY <1>1, ShiftType
  <2>. QED BY <2>1, <2>2, ShiftedType
<1>6. CASE inst = "SWPB"
  <2>1. after = [m EXCEPT !.REG[dst] = Join(LSB(x), MSB(x)), !.high = MSB(x)]
    BY <1>6 DEF single_register_execution, SWPB
  <2>2. Join(LSB(x), MSB(x)) \in Words
    BY <1>3, Joined
  <2>. QED BY <1>3, <2>1, <2>2 DEF CPU
<1>7. CASE inst = "SXT"
  <2>. DEFINE res == Join(IF BIT_CHECK(x, MSBi(BYTE)) = 1 THEN 2^ByteBits - 1 ELSE 0, LSB(x))
  <2>1. after = Write(m, dst, res, update_PSW(x, x, res, size))
    BY <1>7 DEF single_register_execution, SXT
  <2>2. (IF BIT_CHECK(x, MSBi(BYTE)) = 1 THEN 2^ByteBits - 1 ELSE 0) \in Bytes
    BY Powers, Ranges
  <2>3. res \in Words
    BY <1>3, <2>2, Joined
  <2>. HIDE DEF res
  <2>. QED BY <1>1, <2>1, <2>3, FlagsOfResult, WriteType
<1>. QED BY <1>4, <1>5, <1>6, <1>7, AluAssumption

TypeOKStep == TypeOK /\ [Next]_vars => TypeOK'

\* Every instruction keeps the type invariant.
LEMMA TypeStep ==
  ASSUME CodeWidth
  PROVE  TypeOKStep
<1>. SUFFICES ASSUME cpu \in CPU, [Next]_vars PROVE cpu' \in CPU
  BY DEF TypeOKStep, TypeOK, CPU
<1>1. CASE two_operand
  BY <1>1, TwoOperandType DEF two_operand
<1>2. CASE single_register
  BY <1>2, SingleRegisterType DEF single_register
<1>3. CASE register_initialization
  <2>1. PICK dst \in Regs, value \in Values :
          cpu' \in {MOVL(cpu, dst, value), MOVLZ(cpu, dst, value), MOVH(cpu, dst, value)}
    BY <1>3 DEF register_initialization
  <2>2. value \in Bytes
    BY AluAssumption DEF Bytes
  <2>3. cpu.REG[dst] \in Words
    BY DEF CPU
  <2>4. /\ Join(MSB(cpu.REG[dst]), value) \in Words /\ Join(value, LSB(cpu.REG[dst])) \in Words
        /\ value \in Words
    BY <2>2, <2>3, Parts, Joined, Ranges
  <2>. QED BY <2>1, <2>4 DEF CPU, MOVL, MOVLZ, MOVH
<1>4. CASE interrupt
  <2>1. 0 \in Bytes
    BY Ranges
  <2>. QED BY <1>4, <2>1 DEF interrupt, CPU
<1>5. CASE UNCHANGED vars
  BY <1>5 DEF vars
<1>. QED BY <1>1, <1>2, <1>3, <1>4, <1>5 DEF Next

\* Registers, flags and temp_reg_A keep their width, whatever program runs: every
\* instruction gives words, flags of one bit and a byte, for all its operands.
THEOREM TypeCorrect ==
  ASSUME CodeWidth
  PROVE  Spec => []TypeOK
<1>1. Init => TypeOK
  <2>1. 0 \in Words /\ 0 \in Bytes
    BY Ranges
  <2>. QED BY <2>1 DEF Init, TypeOK, Flags
<1>2. TypeOK /\ [Next]_vars => TypeOK'
  BY TypeStep DEF TypeOKStep
<1>. QED BY <1>1, <1>2, PTL DEF Spec
-----------------------------------------------------------------------------
(***************************************************************************)
(* Addition, subtraction and comparison.                                   *)
(***************************************************************************)

Full(size) == 2^Bits(size)
Half(size) == 2^MSBi(size)

\* The numbers of a size: Half of them are negative.
LEMMA SizeFacts ==
  ASSUME CodeWidth, NEW size \in Sizes
  PROVE  /\ Half(size) \in Nat /\ Half(size) > 0 /\ Full(size) \in Nat
         /\ Full(size) = 2 * Half(size)
<1>1. \/ Half(size) = 32768 /\ Full(size) = 65536
      \/ Half(size) = 128 /\ Full(size) = 256
  BY Powers DEF Half, Full, Sizes
<1>. QED BY <1>1

\* The part an operation works on, and its sign bit.
LEMMA PartFacts ==
  ASSUME CodeWidth, NEW x \in Words, NEW size \in Sizes
  PROVE  /\ Part(x, size) \in Nat /\ Part(x, size) < Full(size)
         /\ Part(Part(x, size), size) = Part(x, size)
         /\ BIT_CHECK(x, MSBi(size)) = IF Part(x, size) < Half(size) THEN 0 ELSE 1
<1>1. x \in Nat /\ x < 65536
  BY Ranges
<1>2. CASE size = WORD
  <2>1. Part(x, size) = x % 65536 /\ Full(size) = 65536 /\ Half(size) = 32768
    BY <1>2, Powers DEF Part, Full, Half
  <2>2. x % 65536 = x
    BY ONLY <1>1
  <2>3. Part(Part(x, size), size) = x
    BY <1>2, <2>1, <2>2, Powers DEF Part
  <2>. QED BY <1>1, <1>2, <2>1, <2>2, <2>3, SignBits
<1>3. CASE size = BYTE
  <2>1. Part(x, size) = x % 256 /\ Full(size) = 256 /\ Half(size) = 128
    BY <1>3, Powers DEF Part, Full, Half
  <2>2. x % 256 \in Nat /\ x % 256 < 256 /\ (x % 256) % 256 = x % 256
    BY ONLY <1>1
  <2>3. Part(Part(x, size), size) = (x % 256) % 256
    BY <1>3, <2>1, Powers DEF Part
  <2>. QED BY <1>3, <2>1, <2>2, <2>3, SignBits
<1>. QED BY <1>2, <1>3 DEF Sizes

\* The signed value of a word or byte.
LEMMA SignedFacts ==
  ASSUME CodeWidth, NEW x \in Words, NEW size \in Sizes
  PROVE  /\ Signed(x, size) = IF Part(x, size) < Half(size) THEN Part(x, size)
                              ELSE Part(x, size) - Full(size)
         /\ Signed(Part(x, size), size) = Signed(x, size)
  BY PartFacts DEF Signed, Full, Half

\* What the sum of two parts and a carry wraps to.
LEMMA Wrapped ==
  ASSUME CodeWidth, NEW size \in Sizes, NEW n \in Nat, n < 2 * Full(size)
  PROVE  /\ n % Full(size) = IF n >= Full(size) THEN n - Full(size) ELSE n
         /\ n \div Full(size) = IF n >= Full(size) THEN 1 ELSE 0
<1>1. CASE Full(size) = 65536
  <2>1. /\ n < 2 * 65536 => n % 65536 = IF n >= 65536 THEN n - 65536 ELSE n
        /\ n < 2 * 65536 => n \div 65536 = IF n >= 65536 THEN 1 ELSE 0
    BY ONLY n \in Nat
  <2>. QED BY <1>1, <2>1
<1>2. CASE Full(size) = 256
  <2>1. /\ n < 2 * 256 => n % 256 = IF n >= 256 THEN n - 256 ELSE n
        /\ n < 2 * 256 => n \div 256 = IF n >= 256 THEN 1 ELSE 0
    BY ONLY n \in Nat
  <2>. QED BY <1>2, <2>1
<1>3. Full(size) = 65536 \/ Full(size) = 256
  BY Powers DEF Full, Sizes
<1>. QED BY <1>1, <1>2, <1>3

\* A sum, in the size of the instruction, is the sum modulo that size.
LEMMA SumPart ==
  ASSUME CodeWidth, NEW src \in Words, NEW dst \in Words, NEW c \in Nat, c < 2,
         NEW size \in Sizes
  PROVE  Part(Sum(src, dst, c, size), size) = (Part(dst, size) + Part(src, size) + c) % Full(size)
<1>1. src \in Nat /\ src < 65536 /\ dst \in Nat /\ dst < 65536
  BY Ranges
<1>. DEFINE n == (dst + src + c) % 65536
<1>2. n \in Nat /\ n < 65536
  BY ONLY <1>1, c \in Nat, c < 2
<1>3. n \in Words
  BY <1>2, Ranges
<1>4. Sum(src, dst, c, size) = Replace(dst, n, size)
  BY Powers DEF Sum
<1>5. CASE size = WORD
  <2>1. Part(Sum(src, dst, c, size), size) = n % 65536
    BY <1>3, <1>4, <1>5, Replaced, Powers DEF Part
  <2>2. (Part(dst, size) + Part(src, size) + c) % Full(size)
          = ((dst % 65536) + (src % 65536) + c) % 65536
    BY <1>5, Powers DEF Part, Full
  <2>3. dst % 65536 = dst /\ src % 65536 = src /\ n % 65536 = n
    BY ONLY <1>1, <1>2
  <2>. QED BY <2>1, <2>2, <2>3
<1>6. CASE size = BYTE
  <2>1. Part(Sum(src, dst, c, size), size) = LSB(Replace(dst, n, BYTE))
    BY <1>4, <1>6, Powers DEF Part, LSB
  <2>2. LSB(Replace(dst, n, BYTE)) = n % 256
    BY <1>3, Replaced, Parts
  <2>3. (Part(dst, size) + Part(src, size) + c) % Full(size)
          = ((dst % 256) + (src % 256) + c) % 256
    BY <1>6, Powers DEF Part, Full
  <2>4. n % 256 = ((dst % 256) + (src % 256) + c) % 256
    BY ONLY <1>1, c \in Nat, c < 2
  <2>. QED BY <2>1, <2>2, <2>3, <2>4
<1>. QED BY <1>5, <1>6 DEF Sizes
\* An addition into a register is exact.
LEMMA AdditionExact ==
  ASSUME CodeWidth, NEW m \in CPU, NEW src \in Words, NEW dst \in Regs, NEW c \in Nat, c < 2,
         NEW size \in Sizes
  PROVE  ExactSum(arrithmetic(m, src, dst, c, size), dst,
                  Part(m.REG[dst], size), Part(src, size), c, size)
<1>. DEFINE x == m.REG[dst]
            a == Part(x, size)
            b == Part(src, size)
            res == Sum(src, x, c, size)
            r == Part(res, size)
            h == Half(size)
            PSW == update_PSW(src, x, res, size)
            after == arrithmetic(m, src, dst, c, size)
<1>1. x \in Words /\ c \in 0..1
  BY DEF CPU
<1>2. res \in Words
  BY <1>1, SumType
<1>3. after.REG[dst] = res /\ after.PSW = PSW
  BY DEF arrithmetic, Write, CPU
<1>4. r = (a + b + c) % Full(size)
  BY <1>1, SumPart
<1>5. /\ PSW.C = Flag(<<BIT_CHECK(src, MSBi(size)), BIT_CHECK(x, MSBi(size)),
                        BIT_CHECK(res, MSBi(size))>> \in carry)
      /\ PSW.V = Flag(<<BIT_CHECK(src, MSBi(size)), BIT_CHECK(x, MSBi(size)),
                        BIT_CHECK(res, MSBi(size))>> \in overflow)
      /\ PSW.N = BIT_CHECK(res, MSBi(size))
      /\ PSW.Z = Flag(r = 0)
  BY DEF update_PSW, Part
<1>6. /\ BIT_CHECK(src, MSBi(size)) = IF b < h THEN 0 ELSE 1
      /\ BIT_CHECK(x, MSBi(size)) = IF a < h THEN 0 ELSE 1
      /\ BIT_CHECK(res, MSBi(size)) = IF r < h THEN 0 ELSE 1
      /\ a \in Nat /\ b \in Nat /\ r \in Nat
      /\ a < Full(size) /\ b < Full(size) /\ r < Full(size)
  BY <1>1, <1>2, PartFacts
<1>7. h \in Nat /\ h > 0 /\ Full(size) = 2 * h
  BY SizeFacts
<1>8. /\ Signed(a, size) = IF a < h THEN a ELSE a - 2 * h
      /\ Signed(b, size) = IF b < h THEN b ELSE b - 2 * h
      /\ Signed(res, size) = IF r < h THEN r ELSE r - 2 * h
  BY <1>1, <1>2, <1>7, SignedFacts
<1>. HIDE DEF x, a, b, res, r, h, PSW, after
<1>9. /\ a + b + c \in Nat /\ a + b + c < 2 * Full(size)
  BY ONLY <1>6, <1>7, c \in Nat, c < 2
<1>10. /\ r = IF a + b + c >= 2 * h THEN a + b + c - 2 * h ELSE a + b + c
       /\ (a + b + c) \div Full(size) = IF a + b + c >= 2 * h THEN 1 ELSE 0
  <2>. DEFINE n == a + b + c
  <2>1. n \in Nat /\ n < 2 * Full(size) /\ n = a + b + c /\ r = n % Full(size)
    BY <1>4, <1>9
  <2>. HIDE DEF n
  <2>2. /\ n % Full(size) = IF n >= Full(size) THEN n - Full(size) ELSE n
        /\ n \div Full(size) = IF n >= Full(size) THEN 1 ELSE 0
    BY <2>1, Wrapped
  <2>3. /\ r = IF n >= 2 * h THEN n - 2 * h ELSE n
        /\ n \div Full(size) = IF n >= 2 * h THEN 1 ELSE 0
    BY <1>7, <2>1, <2>2
  <2>. QED BY ONLY <1>6, <1>7, <2>1, <2>3, c \in Nat
<1>11. /\ PSW.C = Flag(a + b + c >= 2 * h)
       /\ PSW.V = Flag(Signed(a, size) + Signed(b, size) + c < -h
                         \/ Signed(a, size) + Signed(b, size) + c >= h)
  <2>. DEFINE sa == BIT_CHECK(x, MSBi(size))
              sb == BIT_CHECK(src, MSBi(size))
              sr == BIT_CHECK(res, MSBi(size))
  <2>1. /\ sb = IF b < h THEN 0 ELSE 1
        /\ sa = IF a < h THEN 0 ELSE 1
        /\ sr = IF r < h THEN 0 ELSE 1
    BY <1>6
  <2>2. PSW.C = Flag(<<sb, sa, sr>> \in carry) /\ PSW.V = Flag(<<sb, sa, sr>> \in overflow)
    BY <1>5
  <2>. HIDE DEF sa, sb, sr
  <2>3. /\ <<sb, sa, sr>> \in carry <=> (b >= h /\ a >= h) \/ (r < h /\ (a >= h \/ b >= h))
        /\ <<sb, sa, sr>> \in overflow <=> (b < h /\ a < h /\ r >= h) \/ (b >= h /\ a >= h /\ r < h)
    BY <1>6, <1>7, <2>1 DEF carry, overflow
  <2>4. (b >= h /\ a >= h) \/ (r < h /\ (a >= h \/ b >= h)) <=> a + b + c >= 2 * h
    BY ONLY <1>6, <1>7, <1>10, c \in Nat, c < 2
  <2>5. (b < h /\ a < h /\ r >= h) \/ (b >= h /\ a >= h /\ r < h)
          <=> \/ Signed(a, size) + Signed(b, size) + c < -h
              \/ Signed(a, size) + Signed(b, size) + c >= h
    BY ONLY <1>6, <1>7, <1>8, <1>10, c \in Nat, c < 2
  <2>. QED BY <2>2, <2>3, <2>4, <2>5
<1>12. PSW.C = (a + b + c) \div Full(size)
  BY <1>10, <1>11 DEF Flag
<1>13. PSW.N = Flag(Signed(res, size) < 0)
  BY <1>5, <1>6, <1>7, <1>8 DEF Flag
<1>14. ExactSum(after, dst, a, b, c, size)
  BY <1>3, <1>4, <1>5, <1>11, <1>12, <1>13 DEF ExactSum, Full, h, Half, r
<1>. QED BY <1>14 DEF after, a, b, x

\* The complement, in the size of the instruction.
LEMMA NotPart ==
  ASSUME CodeWidth, NEW x \in Words, NEW size \in Sizes
  PROVE  Part(Not(x), size) = Full(size) - 1 - Part(x, size)
<1>1. x \in Nat /\ x < 65536 /\ Not(x) = 65535 - x
  BY Ranges, Parts
<1>2. CASE size = WORD
  <2>1. Part(Not(x), size) = (65535 - x) % 65536 /\ Part(x, size) = x % 65536 /\ Full(size) = 65536
    BY <1>1, <1>2, Powers DEF Part, Full
  <2>2. (65535 - x) % 65536 = 65536 - 1 - (x % 65536)
    BY ONLY <1>1
  <2>. QED BY <2>1, <2>2
<1>3. CASE size = BYTE
  <2>1. Part(Not(x), size) = (65535 - x) % 256 /\ Part(x, size) = x % 256 /\ Full(size) = 256
    BY <1>1, <1>3, Powers DEF Part, Full
  <2>2. (65535 - x) % 256 = 256 - 1 - (x % 256)
    BY ONLY <1>1
  <2>. QED BY <2>1, <2>2
<1>. QED BY <1>2, <1>3 DEF Sizes

\* Sums, differences and flags are exact on every CPU.
LEMMA ArithmeticFromType == CodeWidth /\ TypeOK => ArithmeticExact
<1>. SUFFICES ASSUME CodeWidth, cpu \in CPU, NEW size \in Sizes, NEW dst \in Regs, NEW src \in Regs
              PROVE  LET a == Part(cpu.REG[dst], size)
                         b == Part(cpu.REG[src], size)
                         minus == 2^Bits(size) - 1 - b
                         Result(inst) == two_operand_execution(cpu, inst, REGISTER, size, src, dst)
                     IN  /\ ExactSum(Result("ADD"), dst, a, b, 0, size)
                         /\ ExactSum(Result("ADDC"), dst, a, b, cpu.PSW.C, size)
                         /\ ExactSum(Result("SUB"), dst, a, minus, 1, size)
                         /\ ExactSum(Result("SUBC"), dst, a, minus, cpu.PSW.C, size)
  BY DEF ArithmeticExact, TypeOK, CPU
<1>. DEFINE a == Part(cpu.REG[dst], size)
            s == cpu.REG[src]
            Result(inst) == two_operand_execution(cpu, inst, REGISTER, size, src, dst)
<1>1. /\ s \in Words /\ Not(s) \in Words
      /\ cpu.PSW.C \in Nat /\ cpu.PSW.C < 2
  BY Parts DEF CPU, Flags
<1>2. Operand(cpu, REGISTER, src) = s
  BY DEF Operand
<1>3. /\ Result("ADD") = arrithmetic(cpu, s, dst, 0, size)
      /\ Result("ADDC") = arrithmetic(cpu, s, dst, cpu.PSW.C, size)
      /\ Result("SUB") = arrithmetic(cpu, Not(s), dst, 1, size)
      /\ Result("SUBC") = arrithmetic(cpu, Not(s), dst, cpu.PSW.C, size)
  BY <1>2 DEF two_operand_execution, ADD, ADDC, SUB, SUBC
<1>4. Part(Not(s), size) = 2^Bits(size) - 1 - Part(s, size)
  BY <1>1, NotPart DEF Full
<1>5. ExactSum(arrithmetic(cpu, s, dst, 0, size), dst, a, Part(s, size), 0, size)
  BY <1>1, AdditionExact
<1>6. ExactSum(arrithmetic(cpu, s, dst, cpu.PSW.C, size), dst, a, Part(s, size), cpu.PSW.C, size)
  BY <1>1, AdditionExact
<1>7. ExactSum(arrithmetic(cpu, Not(s), dst, 1, size), dst, a, Part(Not(s), size), 1, size)
  BY <1>1, AdditionExact
<1>8. ExactSum(arrithmetic(cpu, Not(s), dst, cpu.PSW.C, size), dst, a, Part(Not(s), size),
               cpu.PSW.C, size)
  BY <1>1, AdditionExact
<1>. QED BY <1>3, <1>4, <1>5, <1>6, <1>7, <1>8

\* Addition and subtraction, with or without the carry, give the exact sum modulo the
\* size, the carry out of it and its signed overflow, for all registers' contents.
THEOREM ArithmeticExactHolds ==
  ASSUME CodeWidth
  PROVE  Spec => []ArithmeticExact
<1>1. TypeOK => ArithmeticExact
  BY ArithmeticFromType
<1>. QED BY <1>1, TypeCorrect, PTL

\* The flags of CMP order unsigned numbers on every CPU.
LEMMA ComparisonFromType == CodeWidth /\ TypeOK => UnsignedBranches
<1>. SUFFICES ASSUME CodeWidth, cpu \in CPU, NEW size \in Sizes, NEW dst \in Regs, NEW src \in Regs
              PROVE  LET PSW == Compared(size, dst, src)
                         a   == Part(cpu.REG[dst], size)
                         b   == Part(cpu.REG[src], size)
                     IN  /\ Branches("BEQ_BZ", PSW) <=> a = b
                         /\ Branches("BNE_BNZ", PSW) <=> a # b
                         /\ Branches("BC_BHS", PSW) <=> a >= b
                         /\ Branches("BNC_BLO", PSW) <=> a < b
  BY DEF UnsignedBranches, TypeOK, CPU
<1>. DEFINE PSW == Compared(size, dst, src)
            s == cpu.REG[src]
            a == Part(cpu.REG[dst], size)
            b == Part(s, size)
            sum == arrithmetic(cpu, Not(s), dst, 1, size)
<1>1. cpu.REG[dst] \in Words /\ s \in Words /\ Not(s) \in Words
  BY Parts DEF CPU
<1>2. PSW = sum.PSW
  BY ZenonT(60), <1>1 DEF Compared, two_operand_execution, CMP, Operand, arrithmetic, Write, CPU
<1>3. ExactSum(sum, dst, a, Part(Not(s), size), 1, size)
  BY <1>1, AdditionExact
<1>4. Part(Not(s), size) = Full(size) - 1 - b
  BY <1>1, NotPart
<1>5. a \in Nat /\ b \in Nat /\ a < Full(size) /\ b < Full(size) /\ Full(size) \in Nat
  BY <1>1, PartFacts, SizeFacts
<1>6. /\ PSW.C = (a + (Full(size) - 1 - b) + 1) \div Full(size)
      /\ PSW.Z = Flag((a + (Full(size) - 1 - b) + 1) % Full(size) = 0)
  BY <1>2, <1>3, <1>4 DEF ExactSum, Full
<1>. HIDE DEF a, b, PSW
<1>7. PSW.C = Flag(a >= b) /\ PSW.Z = Flag(a = b)
  <2>. DEFINE n == a + (Full(size) - 1 - b) + 1
  <2>1. /\ n \in Nat /\ n < 2 * Full(size)
        /\ n >= Full(size) <=> a >= b
        /\ n = Full(size) <=> a = b
        /\ n # 0
    BY ONLY <1>5
  <2>2. PSW.C = n \div Full(size) /\ PSW.Z = Flag(n % Full(size) = 0)
    BY <1>6
  <2>. HIDE DEF n
  <2>3. /\ n % Full(size) = IF n >= Full(size) THEN n - Full(size) ELSE n
        /\ n \div Full(size) = IF n >= Full(size) THEN 1 ELSE 0
    BY <2>1, Wrapped
  <2>4. n % Full(size) = 0 <=> n = Full(size)
    BY ONLY <1>5, <2>1, <2>3
  <2>. QED BY <2>1, <2>2, <2>3, <2>4 DEF Flag
<1>8. /\ Branches("BEQ_BZ", PSW) <=> a = b
      /\ Branches("BNE_BNZ", PSW) <=> a # b
  BY <1>7 DEF Branches, Flag
<1>9. /\ Branches("BC_BHS", PSW) <=> a >= b
      /\ Branches("BNC_BLO", PSW) <=> ~(a >= b)
  BY <1>7 DEF Branches, Flag
<1>. QED BY <1>5, <1>8, <1>9 DEF a, b, PSW

\* After CMP the unsigned branches follow the order of the operands, all of them.
THEOREM UnsignedBranchesHold ==
  ASSUME CodeWidth
  PROVE  Spec => []UnsignedBranches
<1>1. TypeOK => UnsignedBranches
  BY ComparisonFromType
<1>. QED BY <1>1, TypeCorrect, PTL
-----------------------------------------------------------------------------
(***************************************************************************)
(* Bytes, and the exchange by exclusive or.                                *)
(***************************************************************************)

\* Byte instructions keep the high byte on every CPU.
LEMMA BytesFromType == CodeWidth /\ TypeOK => ByteKeepsHigh
<1>. SUFFICES ASSUME CodeWidth, cpu \in CPU, NEW inst \in TwoOperand \ {"XOR", "SWAP"},
                     NEW dst \in Regs, NEW src \in Regs
              PROVE  MSB(two_operand_execution(cpu, inst, REGISTER, BYTE, src, dst).REG[dst])
                       = MSB(cpu.REG[dst])
  BY DEF ByteKeepsHigh, TypeOK, CPU
<1>. DEFINE s == cpu.REG[src]
            x == cpu.REG[dst]
            after == two_operand_execution(cpu, inst, REGISTER, BYTE, src, dst)
<1>1. s \in Words /\ Not(s) \in Words /\ x \in Words /\ cpu.PSW.C \in 0..1 /\ BYTE \in Sizes
  BY Parts DEF CPU, Flags, Sizes
<1>2. Operand(cpu, REGISTER, src) = s
  BY DEF Operand
<1>3. \A y \in Words : MSB(Replace(x, y, BYTE)) = MSB(x)
  BY <1>1, Replaced
<1>4. ASSUME NEW y \in Words, NEW c \in 0..1
      PROVE  MSB(arrithmetic(cpu, y, dst, c, BYTE).REG[dst]) = MSB(x)
  <2>1. arrithmetic(cpu, y, dst, c, BYTE).REG[dst] = Sum(y, x, c, BYTE)
    BY DEF arrithmetic, Write, CPU
  <2>2. y \in Nat /\ x \in Nat
    BY <1>1, Ranges
  <2>3. (x + y + c) % 65536 \in Nat /\ (x + y + c) % 65536 < 65536
    BY ONLY <2>2, c \in 0..1
  <2>4. (x + y + c) % 2^(2 * ByteBits) \in Words
    BY <2>3, Powers, Ranges
  <2>. QED BY <1>3, <2>1, <2>4 DEF Sum
<1>5. CASE inst \in {"ADD", "ADDC", "SUB", "SUBC"}
  <2>1. \/ after = arrithmetic(cpu, s, dst, 0, BYTE)
        \/ after = arrithmetic(cpu, s, dst, cpu.PSW.C, BYTE)
        \/ after = arrithmetic(cpu, Not(s), dst, 1, BYTE)
        \/ after = arrithmetic(cpu, Not(s), dst, cpu.PSW.C, BYTE)
    BY <1>2, <1>5 DEF two_operand_execution, ADD, ADDC, SUB, SUBC
  <2>2. 0 \in 0..1 /\ 1 \in 0..1
    OBVIOUS
  <2>. HIDE DEF after
  <2>. QED BY <1>1, <1>4, <2>1, <2>2 DEF after
<1>6. CASE inst = "DADD"
  <2>1. PICK y : after.REG[dst] = Replace(x, y, BYTE) /\ y \in Words
    <3>. DEFINE n0 == bcd_add(Digit(s, 0), Digit(x, 0), cpu.PSW.C)
                n1 == bcd_add(Digit(s, 1), Digit(x, 1), n0.carry)
                n2 == bcd_add(Digit(s, 2), Digit(x, 2), n1.carry)
                n3 == bcd_add(Digit(s, 3), Digit(x, 3), n2.carry)
    <3>1. after.REG[dst] = Replace(x, Digits(n0.res, n1.res, n2.res, n3.res), BYTE)
      <4>. DEFINE res == Replace(x, Digits(n0.res, n1.res, n2.res, n3.res), BYTE)
      <4>1. after = DADD(cpu, s, dst, BYTE)
        BY <1>2, <1>6 DEF two_operand_execution
      <4>2. DADD(cpu, s, dst, BYTE)
              = Write(cpu, dst, res, [cpu.PSW EXCEPT !.C = IF BYTE = WORD THEN n3.carry ELSE n1.carry])
        BY DEF DADD
      <4>. HIDE DEF res, n0, n1, n2, n3, after
      <4>3. \A PSW : Write(cpu, dst, res, PSW).REG[dst] = res
        BY DEF Write, CPU
      <4>. QED BY <4>1, <4>2, <4>3 DEF res
    <3>2. /\ Digit(s, 0) \in Nat /\ Digit(s, 1) \in Nat /\ Digit(s, 2) \in Nat /\ Digit(s, 3) \in Nat
          /\ Digit(x, 0) \in Nat /\ Digit(x, 1) \in Nat /\ Digit(x, 2) \in Nat /\ Digit(x, 3) \in Nat
      BY <1>1, DigitType
    <3>3. n0.res \in Nat /\ n0.carry \in 0..1
      BY <1>1, <3>2, BcdAddType
    <3>. HIDE DEF n0
    <3>4. n1.res \in Nat /\ n1.carry \in 0..1
      BY <3>2, <3>3, BcdAddType
    <3>. HIDE DEF n1
    <3>5. n2.res \in Nat /\ n2.carry \in 0..1
      BY <3>2, <3>4, BcdAddType
    <3>. HIDE DEF n2
    <3>6. n3.res \in Nat
      BY <3>2, <3>5, BcdAddType
    <3>. HIDE DEF n3
    <3>7. Digits(n0.res, n1.res, n2.res, n3.res) \in Words
      BY <3>3, <3>4, <3>5, <3>6, DigitsType
    <3>. QED BY <3>1, <3>7
  <2>. QED BY <1>3, <2>1
<1>7. CASE inst \in {"CMP", "BIT"}
  <2>1. after = CMP(cpu, s, dst, BYTE) \/ after = BIT(cpu, s, dst, BYTE)
    BY <1>2, <1>7 DEF two_operand_execution
  <2>. HIDE DEF after
  <2>2. CMP(cpu, s, dst, BYTE).REG = cpu.REG
    <3>1. \A y, c : "REG" \in DOMAIN arrithmetic(cpu, y, dst, c, BYTE)
      BY DEF arrithmetic, Write, CPU
    <3>. QED BY <3>1 DEF CMP
  <2>3. BIT(cpu, s, dst, BYTE).REG = cpu.REG
    BY DEF BIT, CPU
  <2>4. after.REG = cpu.REG
    BY <2>1, <2>2, <2>3
  <2>. QED BY <2>4 DEF after
<1>8. CASE inst = "AND"
  <2>1. after.REG[dst] = Replace(x, Bitwise(AndBits, x, s), BYTE)
    BY <1>2, <1>8 DEF two_operand_execution, AND, Write, CPU
  <2>. QED BY <1>1, <1>3, <2>1, BitwiseWords
<1>9. CASE inst = "BIC"
  <2>1. after.REG[dst] = Replace(x, Bitwise(AndBits, x, Not(s)), BYTE)
    <3>1. after = BIC(cpu, s, dst, BYTE)
      BY <1>2, <1>9 DEF two_operand_execution
    <3>2. \A res : StoreBits(cpu, dst, res, BYTE).REG[dst] = res
      BY DEF StoreBits, CPU
    <3>. HIDE DEF after
    <3>. QED BY <3>1, <3>2 DEF BIC
  <2>. QED BY <1>1, <1>3, <2>1, BitwiseWords
<1>10. CASE inst = "BIS"
  <2>1. after.REG[dst] = Replace(x, Bitwise(OrBits, x, s), BYTE)
    <3>1. after = BIS(cpu, s, dst, BYTE)
      BY <1>2, <1>10 DEF two_operand_execution
    <3>2. \A res : StoreBits(cpu, dst, res, BYTE).REG[dst] = res
      BY DEF StoreBits, CPU
    <3>. HIDE DEF after
    <3>. QED BY <3>1, <3>2 DEF BIS
  <2>. QED BY <1>1, <1>3, <2>1, BitwiseWords
<1>11. CASE inst = "MOV"
  <2>1. after.REG[dst] = Replace(x, s, BYTE)
    BY <1>2, <1>11 DEF two_operand_execution, MOV, CPU
  <2>. QED BY <1>1, <1>3, <2>1
<1>. QED BY <1>5, <1>6, <1>7, <1>8, <1>9, <1>10, <1>11, AluAssumption

\* A byte operation other than XOR leaves the high byte of its register alone.
THEOREM ByteKeepsHighHolds ==
  ASSUME CodeWidth
  PROVE  Spec => []ByteKeepsHigh
<1>1. TypeOK => ByteKeepsHigh
  BY BytesFromType
<1>. QED BY <1>1, TypeCorrect, PTL

\* Exclusive or of two bytes with the first gives the second, and the other way round.
LEMMA XorBack ==
  ASSUME CodeWidth, NEW x \in Bytes, NEW y \in Bytes
  PROVE  /\ BitwiseByte(XorBits, y, BitwiseByte(XorBits, x, y)) = x
         /\ BitwiseByte(XorBits, BitwiseByte(XorBits, x, y), x) = y
<1>. DEFINE z == BitwiseByte(XorBits, x, y)
            u == BitwiseByte(XorBits, y, z)
            v == BitwiseByte(XorBits, z, x)
<1>1. z \in Bytes /\ \A b \in 0..7 : BIT_CHECK(z, b) = XorBits(BIT_CHECK(x, b), BIT_CHECK(y, b))
  BY XorByte
<1>. HIDE DEF z
<1>2. u \in Bytes /\ \A b \in 0..7 : BIT_CHECK(u, b) = XorBits(BIT_CHECK(y, b), BIT_CHECK(z, b))
  BY <1>1, XorByte
<1>3. v \in Bytes /\ \A b \in 0..7 : BIT_CHECK(v, b) = XorBits(BIT_CHECK(z, b), BIT_CHECK(x, b))
  BY <1>1, XorByte
<1>. HIDE DEF u, v
<1>4. \A p, q \in Bit : XorBits(q, XorBits(p, q)) = p /\ XorBits(XorBits(p, q), p) = q
  BY DEF Bit, XorBits
<1>5. \A b \in 0..7 : BIT_CHECK(u, b) = BIT_CHECK(x, b) /\ BIT_CHECK(v, b) = BIT_CHECK(y, b)
  <2>1. x \in Nat /\ y \in Nat
    BY Ranges
  <2>. SUFFICES ASSUME NEW b \in 0..7
                PROVE  BIT_CHECK(u, b) = BIT_CHECK(x, b) /\ BIT_CHECK(v, b) = BIT_CHECK(y, b)
    OBVIOUS
  <2>2. BIT_CHECK(x, b) \in Bit /\ BIT_CHECK(y, b) \in Bit
    BY <2>1, BitIsBit
  <2>. QED BY <1>1, <1>2, <1>3, <1>4, <2>2
<1>6. /\ x \in Nat /\ x < 256 /\ y \in Nat /\ y < 256
      /\ u \in Nat /\ u < 256 /\ v \in Nat /\ v < 256
  BY <1>2, <1>3, Ranges
<1>7. u = x
  BY <1>5, <1>6, BitsDetermine
<1>8. v = y
  BY <1>5, <1>6, BitsDetermine
<1>. QED BY <1>7, <1>8 DEF u, v, z

\* Exclusive or undoes itself.
LEMMA XorBackWords ==
  ASSUME CodeWidth, NEW x \in Words, NEW y \in Words
  PROVE  /\ Bitwise(XorBits, y, Bitwise(XorBits, x, y)) = x
         /\ Bitwise(XorBits, Bitwise(XorBits, x, y), x) = y
<1>1. /\ MSB(x) \in Bytes /\ LSB(x) \in Bytes /\ MSB(y) \in Bytes /\ LSB(y) \in Bytes
      /\ x = Join(MSB(x), LSB(x)) /\ y = Join(MSB(y), LSB(y))
  BY Parts
<1>. DEFINE h == BitwiseByte(XorBits, MSB(x), MSB(y))
            l == BitwiseByte(XorBits, LSB(x), LSB(y))
<1>2. h \in Bytes /\ l \in Bytes
  BY <1>1, XorByte
<1>3. /\ BitwiseByte(XorBits, MSB(y), h) = MSB(x) /\ BitwiseByte(XorBits, h, MSB(x)) = MSB(y)
      /\ BitwiseByte(XorBits, LSB(y), l) = LSB(x) /\ BitwiseByte(XorBits, l, LSB(x)) = LSB(y)
  BY <1>1, XorBack
<1>4. Bitwise(XorBits, x, y) = Join(h, l)
  BY DEF Bitwise
<1>. HIDE DEF h, l
<1>5. MSB(Join(h, l)) = h /\ LSB(Join(h, l)) = l
  BY <1>2, Joined
<1>6. /\ Bitwise(XorBits, y, Join(h, l))
           = Join(BitwiseByte(XorBits, MSB(y), h), BitwiseByte(XorBits, LSB(y), l))
      /\ Bitwise(XorBits, Join(h, l), x)
           = Join(BitwiseByte(XorBits, h, MSB(x)), BitwiseByte(XorBits, l, LSB(x)))
  BY <1>5 DEF Bitwise
<1>. QED BY <1>1, <1>3, <1>4, <1>6

\* Three XORs exchange two registers on every CPU.
LEMMA ExchangeFromType == CodeWidth /\ TypeOK => XorSwaps
<1>. SUFFICES ASSUME CodeWidth, cpu \in CPU, NEW r \in Regs, NEW s \in Regs, r # s
              PROVE  LET X(m, dst, src) == two_operand_execution(m, "XOR", REGISTER, WORD, src, dst)
                     IN  X(X(X(cpu, r, s), s, r), r, s).REG
                           = two_operand_execution(cpu, "SWAP", REGISTER, WORD, s, r).REG
  BY DEF XorSwaps, TypeOK, CPU
<1>. DEFINE X(m, dst, src) == two_operand_execution(m, "XOR", REGISTER, WORD, src, dst)
            a == cpu.REG[r]
            b == cpu.REG[s]
            w == Bitwise(XorBits, a, b)
<1>1. ASSUME NEW m \in CPU, NEW dst \in Regs, NEW src \in Regs
      PROVE  /\ X(m, dst, src) \in CPU
             /\ X(m, dst, src).REG
                  = [m.REG EXCEPT ![dst] = Bitwise(XorBits, m.REG[dst], m.REG[src])]
  <2>1. X(m, dst, src) = XOR(m, m.REG[src], dst, WORD)
    BY DEF two_operand_execution, Operand
  <2>2. m.REG[src] \in Words /\ WORD \in Sizes
    BY DEF CPU, Sizes
  <2>3. XOR(m, m.REG[src], dst, WORD).REG
          = [m.REG EXCEPT ![dst] = Bitwise(XorBits, m.REG[dst], m.REG[src])]
    BY DEF XOR, Write, CPU
  <2>. QED BY <2>1, <2>2, <2>3, XorType
<1>2. a \in Words /\ b \in Words /\ cpu.REG \in [Regs -> Words]
  BY DEF CPU
<1>3. Bitwise(XorBits, b, w) = a /\ Bitwise(XorBits, w, a) = b
  BY <1>2, XorBackWords
<1>. HIDE DEF w
<1>. DEFINE m1 == X(cpu, r, s)
            m2 == X(m1, s, r)
            m3 == X(m2, r, s)
<1>4. m1 \in CPU /\ m1.REG = [cpu.REG EXCEPT ![r] = w]
  BY <1>1 DEF w
<1>. HIDE DEF m1
<1>5. m2 \in CPU /\ m2.REG = [cpu.REG EXCEPT ![r] = w, ![s] = a]
  <2>1. m2 \in CPU /\ m2.REG = [m1.REG EXCEPT ![s] = Bitwise(XorBits, m1.REG[s], m1.REG[r])]
    <3>1. m1 \in CPU
      BY <1>4
    <3>. QED BY <1>1, <3>1
  <2>2. m1.REG[s] = b /\ m1.REG[r] = w
    BY <1>2, <1>4
  <2>. QED BY <1>3, <1>4, <2>1, <2>2
<1>. HIDE DEF m2
<1>6. m3.REG = [cpu.REG EXCEPT ![r] = b, ![s] = a]
  <2>1. m3.REG = [m2.REG EXCEPT ![r] = Bitwise(XorBits, m2.REG[r], m2.REG[s])]
    BY <1>1, <1>5
  <2>2. m2.REG[s] = a /\ m2.REG[r] = w
    BY <1>2, <1>5
  <2>. QED BY <1>2, <1>3, <1>5, <2>1, <2>2
<1>7. two_operand_execution(cpu, "SWAP", REGISTER, WORD, s, r).REG
        = [cpu.REG EXCEPT ![r] = b, ![s] = a]
  BY DEF two_operand_execution, SWAP, CPU
<1>. QED BY <1>6, <1>7 DEF m1, m2

\* Three exclusive ors exchange two registers as SWAP does, whatever they hold.
THEOREM XorSwapsHolds ==
  ASSUME CodeWidth
  PROVE  Spec => []XorSwaps
<1>1. TypeOK => XorSwaps
  BY ExchangeFromType
<1>. QED BY <1>1, TypeCorrect, PTL
-----------------------------------------------------------------------------
(***************************************************************************)
(* Decimal addition.                                                       *)
(***************************************************************************)

\* The powers of ten of the decimal digits.
LEMMA TenSquared == \A b : b = 10 => b^2 = 100
OBVIOUS
LEMMA TenCubed   == \A b : b = 10 => b^3 = 1000
OBVIOUS
LEMMA TenFourth  == \A b : b = 10 => b^4 = 10000
OBVIOUS

\* The value of a decimal number, digit by digit.
LEMMA DecimalValue ==
  ASSUME CodeWidth, NEW x, NEW size
  PROVE  Decimal(x, size) = Digit(x, 0) + 10 * Digit(x, 1)
           + (IF size = WORD THEN 100 * Digit(x, 2) + 1000 * Digit(x, 3) ELSE 0)
<1>1. BCD_VALUE_LIMIT = 10 /\ BCD_VALUE_LIMIT^2 = 100 /\ BCD_VALUE_LIMIT^3 = 1000
  BY TenSquared, TenCubed DEF CodeWidth
<1>. QED BY <1>1 DEF Decimal

\* The digits by bytes.
LEMMA DigitsOfBytes ==
  ASSUME CodeWidth, NEW x \in Words
  PROVE  /\ Digit(x, 0) = LSB(x) % 16 /\ Digit(x, 1) = (LSB(x) \div 16) % 16
         /\ Digit(x, 2) = MSB(x) % 16 /\ Digit(x, 3) = (MSB(x) \div 16) % 16
<1>1. /\ MSB(x) \in Nat /\ LSB(x) \in Nat /\ LSB(x) < 256 /\ x = 256 * MSB(x) + LSB(x)
  BY Parts, Ranges
<1>2. ASSUME NEW q \in Nat, NEW r \in Nat, r < 256, NEW y, y = 256 * q + r
      PROVE  /\ y % 16 = r % 16 /\ (y \div 16) % 16 = (r \div 16) % 16
             /\ y \div 256 = q /\ y \div 4096 = q \div 16
  <2>1. y \div 16 = 16 * q + (r \div 16)
    BY <1>2
  <2>2. y % 16 = r % 16
    BY <1>2
  <2>3. \A t \in Nat : (16 * q + t) % 16 = t % 16
    OBVIOUS
  <2>4. r \div 16 \in Nat
    BY <1>2
  <2>5. y \div 256 = q /\ y \div 4096 = q \div 16
    BY <1>2
  <2>. QED BY <2>1, <2>2, <2>3, <2>4, <2>5
<1>3. /\ x % 16 = LSB(x) % 16 /\ (x \div 16) % 16 = (LSB(x) \div 16) % 16
      /\ x \div 256 = MSB(x) /\ x \div 4096 = MSB(x) \div 16
  BY <1>1, <1>2
<1>. QED BY <1>3, DigitType

\* A word made of four decimal digits has those digits.
LEMMA DigitsBack ==
  ASSUME CodeWidth, NEW n0 \in Nat, NEW n1 \in Nat, NEW n2 \in Nat, NEW n3 \in Nat,
         n0 < 10, n1 < 10, n2 < 10, n3 < 10
  PROVE  LET x == Digits(n0, n1, n2, n3) IN
         /\ x \in Words
         /\ Digit(x, 0) = n0 /\ Digit(x, 1) = n1 /\ Digit(x, 2) = n2 /\ Digit(x, 3) = n3
<1>. DEFINE x == Digits(n0, n1, n2, n3)
            h == (n3 % 16) * 16 + (n2 % 16)
            l == (n1 % 16) * 16 + (n0 % 16)
<1>1. x \in Words /\ x = Join(h, l) /\ h \in Bytes /\ l \in Bytes
  BY DigitsType
<1>2. MSB(x) = h /\ LSB(x) = l
  BY <1>1, Joined
<1>3. ASSUME NEW p \in Nat, NEW q \in Nat, p < 10, q < 10, NEW y, y = (p % 16) * 16 + (q % 16)
      PROVE  y % 16 = q /\ (y \div 16) % 16 = p
  <2>1. p % 16 = p /\ q % 16 = q
    BY ONLY <1>3
  <2>2. y = p * 16 + q
    BY <1>3, <2>1
  <2>3. y % 16 = q /\ y \div 16 = p
    BY ONLY <1>3, <2>2
  <2>. QED BY <2>1, <2>3
<1>4. h % 16 = n2 /\ (h \div 16) % 16 = n3 /\ l % 16 = n0 /\ (l \div 16) % 16 = n1
  BY <1>3
<1>. HIDE DEF x, h, l
<1>5. /\ x \in Words
      /\ Digit(x, 0) = n0 /\ Digit(x, 1) = n1 /\ Digit(x, 2) = n2 /\ Digit(x, 3) = n3
  BY <1>1, <1>2, <1>4, DigitsOfBytes
<1>. QED BY <1>5 DEF x

\* DADD is exact on every CPU with decimal operands.
LEMMA DecimalFromType == CodeWidth /\ TypeOK => DecimalExact
<1>. SUFFICES ASSUME CodeWidth, cpu \in CPU, NEW size \in Sizes, NEW dst \in Regs, NEW src \in Regs,
                     IsDecimal(cpu.REG[dst]), IsDecimal(cpu.REG[src])
              PROVE  LET m     == two_operand_execution(cpu, "DADD", REGISTER, size, src, dst)
                         sum   == Decimal(cpu.REG[dst], size) + Decimal(cpu.REG[src], size) + cpu.PSW.C
                         limit == BCD_VALUE_LIMIT^(IF size = WORD THEN 4 ELSE 2)
                     IN  /\ IsDecimal(m.REG[dst])
                         /\ Decimal(m.REG[dst], size) + m.PSW.C * limit = sum
  BY DEF DecimalExact, TypeOK, CPU
<1>. DEFINE s == cpu.REG[src]
            d == cpu.REG[dst]
            c == cpu.PSW.C
            n0 == bcd_add(Digit(s, 0), Digit(d, 0), c)
            n1 == bcd_add(Digit(s, 1), Digit(d, 1), n0.carry)
            n2 == bcd_add(Digit(s, 2), Digit(d, 2), n1.carry)
            n3 == bcd_add(Digit(s, 3), Digit(d, 3), n2.carry)
            x  == Digits(n0.res, n1.res, n2.res, n3.res)
            m  == two_operand_execution(cpu, "DADD", REGISTER, size, src, dst)
            res == Replace(d, x, size)
            limit == BCD_VALUE_LIMIT^(IF size = WORD THEN 4 ELSE 2)
<1>1. s \in Words /\ d \in Words /\ c \in 0..1
  BY DEF CPU, Flags
<1>2. m.REG[dst] = res /\ m.PSW.C = IF size = WORD THEN n3.carry ELSE n1.carry
  <2>. DEFINE PSW == [cpu.PSW EXCEPT !.C = IF size = WORD THEN n3.carry ELSE n1.carry]
  <2>1. m = DADD(cpu, s, dst, size)
    BY DEF two_operand_execution, Operand
  <2>2. DADD(cpu, s, dst, size) = Write(cpu, dst, res, PSW)
    BY DEF DADD
  <2>3. PSW.C = IF size = WORD THEN n3.carry ELSE n1.carry
    <3>. HIDE DEF n1, n3
    <3>. QED BY DEF CPU, Flags
  <2>. HIDE DEF res, PSW, m, n1, n3
  <2>4. Write(cpu, dst, res, PSW).REG[dst] = res /\ Write(cpu, dst, res, PSW).PSW = PSW
    BY DEF Write, CPU
  <2>. QED BY <2>1, <2>2, <2>3, <2>4
<1>3. /\ Digit(s, 0) \in Nat /\ Digit(s, 1) \in Nat /\ Digit(s, 2) \in Nat /\ Digit(s, 3) \in Nat
      /\ Digit(d, 0) \in Nat /\ Digit(d, 1) \in Nat /\ Digit(d, 2) \in Nat /\ Digit(d, 3) \in Nat
  BY <1>1, DigitType
<1>4. /\ Digit(s, 0) < 10 /\ Digit(s, 1) < 10 /\ Digit(s, 2) < 10 /\ Digit(s, 3) < 10
      /\ Digit(d, 0) < 10 /\ Digit(d, 1) < 10 /\ Digit(d, 2) < 10 /\ Digit(d, 3) < 10
  BY DEF IsDecimal, CodeWidth
<1>. HIDE DEF s, d, c, m
<1>5. /\ n0.res \in Nat /\ n0.res < 10 /\ n0.carry \in 0..1
      /\ n0.res + 10 * n0.carry = Digit(s, 0) + Digit(d, 0) + c
  BY ZenonT(60), <1>1, <1>3, <1>4, BcdAddType
<1>. HIDE DEF n0
<1>6. /\ n1.res \in Nat /\ n1.res < 10 /\ n1.carry \in 0..1
      /\ n1.res + 10 * n1.carry = Digit(s, 1) + Digit(d, 1) + n0.carry
  BY ZenonT(60), <1>3, <1>4, <1>5, BcdAddType
<1>. HIDE DEF n1
<1>7. /\ n2.res \in Nat /\ n2.res < 10 /\ n2.carry \in 0..1
      /\ n2.res + 10 * n2.carry = Digit(s, 2) + Digit(d, 2) + n1.carry
  BY ZenonT(60), <1>3, <1>4, <1>6, BcdAddType
<1>. HIDE DEF n2
<1>8. /\ n3.res \in Nat /\ n3.res < 10 /\ n3.carry \in 0..1
      /\ n3.res + 10 * n3.carry = Digit(s, 3) + Digit(d, 3) + n2.carry
  <2>1. /\ Digit(s, 3) \in Nat /\ Digit(s, 3) < 10 /\ Digit(d, 3) \in Nat /\ Digit(d, 3) < 10
        /\ n2.carry \in 0..1
    BY <1>3, <1>4, <1>7
  <2>. QED BY <2>1, BcdAddType
<1>. HIDE DEF n3
<1>9. /\ x \in Words
      /\ Digit(x, 0) = n0.res /\ Digit(x, 1) = n1.res /\ Digit(x, 2) = n2.res /\ Digit(x, 3) = n3.res
  BY <1>5, <1>6, <1>7, <1>8, DigitsBack
<1>. HIDE DEF x
<1>10. /\ res \in Words
       /\ Digit(res, 0) = n0.res /\ Digit(res, 1) = n1.res
       /\ Digit(res, 2) = IF size = WORD THEN n2.res ELSE Digit(d, 2)
       /\ Digit(res, 3) = IF size = WORD THEN n3.res ELSE Digit(d, 3)
  <2>1. CASE size = WORD
    BY <1>1, <1>9, <2>1, Replaced
  <2>2. CASE size = BYTE
    <3>1. res \in Words /\ LSB(res) = LSB(x) /\ MSB(res) = MSB(d)
      BY <1>1, <1>9, <2>2, Replaced DEF Sizes
    <3>. QED BY <1>1, <1>9, <2>2, <3>1, DigitsOfBytes, Exponents
  <2>. QED BY <2>1, <2>2 DEF Sizes
<1>. HIDE DEF res
<1>11. IsDecimal(res)
  <2>1. Digit(res, 0) < 10 /\ Digit(res, 1) < 10 /\ Digit(res, 2) < 10 /\ Digit(res, 3) < 10
    BY <1>4, <1>5, <1>6, <1>7, <1>8, <1>10
  <2>2. BCD_VALUE_LIMIT = 10
    BY DEF CodeWidth
  <2>. QED BY <2>1, <2>2 DEF IsDecimal
<1>12. Decimal(res, size) + m.PSW.C * limit = Decimal(d, size) + Decimal(s, size) + c
  <2>1. CASE size = WORD
    <3>1. limit = 10000
      BY <2>1, TenFourth DEF CodeWidth
    <3>2. /\ Decimal(res, size) = n0.res + 10 * n1.res + (100 * n2.res + 1000 * n3.res)
          /\ Decimal(d, size) = Digit(d, 0) + 10 * Digit(d, 1) + (100 * Digit(d, 2) + 1000 * Digit(d, 3))
          /\ Decimal(s, size) = Digit(s, 0) + 10 * Digit(s, 1) + (100 * Digit(s, 2) + 1000 * Digit(s, 3))
          /\ m.PSW.C = n3.carry
      BY <1>2, <1>10, <2>1, DecimalValue
    <3>3. /\ n0.carry \in Nat /\ n1.carry \in Nat /\ n2.carry \in Nat /\ n3.carry \in Nat
          /\ c \in Nat
          /\ n0.res \in Nat /\ n1.res \in Nat /\ n2.res \in Nat /\ n3.res \in Nat
      BY <1>1, <1>5, <1>6, <1>7, <1>8
    <3>4. m.PSW.C * limit = 10000 * n3.carry
      BY <3>1, <3>2, <3>3
    <3>5. /\ n0.res + 10 * n0.carry = Digit(s, 0) + Digit(d, 0) + c
          /\ n1.res + 10 * n1.carry = Digit(s, 1) + Digit(d, 1) + n0.carry
          /\ n2.res + 10 * n2.carry = Digit(s, 2) + Digit(d, 2) + n1.carry
          /\ n3.res + 10 * n3.carry = Digit(s, 3) + Digit(d, 3) + n2.carry
      BY <1>5, <1>6, <1>7, <1>8
    <3>6. n0.res + 10 * n1.res + (100 * n2.res + 1000 * n3.res) + 10000 * n3.carry
            = (Digit(d, 0) + 10 * Digit(d, 1) + (100 * Digit(d, 2) + 1000 * Digit(d, 3)))
                + (Digit(s, 0) + 10 * Digit(s, 1) + (100 * Digit(s, 2) + 1000 * Digit(s, 3))) + c
      <4>. DEFINE r0 == n0.res          r1 == n1.res          r2 == n2.res          r3 == n3.res
                  k1 == n0.carry        k2 == n1.carry        k3 == n2.carry        k4 == n3.carry
                  s0 == Digit(s, 0)     s1 == Digit(s, 1)     s2 == Digit(s, 2)     s3 == Digit(s, 3)
                  d0 == Digit(d, 0)     d1 == Digit(d, 1)     d2 == Digit(d, 2)     d3 == Digit(d, 3)
      <4>1. /\ r0 \in Int /\ r1 \in Int /\ r2 \in Int /\ r3 \in Int
            /\ k1 \in Int /\ k2 \in Int /\ k3 \in Int /\ k4 \in Int
            /\ s0 \in Int /\ s1 \in Int /\ s2 \in Int /\ s3 \in Int
            /\ d0 \in Int /\ d1 \in Int /\ d2 \in Int /\ d3 \in Int
            /\ c \in Int
        BY ONLY <1>3, <3>3
      <4>2. /\ r0 + 10 * k1 = s0 + d0 + c   /\ r1 + 10 * k2 = s1 + d1 + k1
            /\ r2 + 10 * k3 = s2 + d2 + k2  /\ r3 + 10 * k4 = s3 + d3 + k3
        BY ONLY <3>5
      <4>. HIDE DEF r0, r1, r2, r3, k1, k2, k3, k4, s0, s1, s2, s3, d0, d1, d2, d3
      <4>3. r0 + 10 * r1 + (100 * r2 + 1000 * r3) + 10000 * k4
              = (d0 + 10 * d1 + (100 * d2 + 1000 * d3)) + (s0 + 10 * s1 + (100 * s2 + 1000 * s3)) + c
        BY ONLY <4>1, <4>2
      <4>. QED BY <4>3 DEF r0, r1, r2, r3, k1, k2, k3, k4, s0, s1, s2, s3, d0, d1, d2, d3
    <3>. QED BY <3>2, <3>4, <3>6
  <2>2. CASE size = BYTE
    <3>1. limit = 100
      BY <2>2, TenSquared, Exponents DEF CodeWidth
    <3>2. /\ Decimal(res, size) = n0.res + 10 * n1.res + 0
          /\ Decimal(d, size) = Digit(d, 0) + 10 * Digit(d, 1) + 0
          /\ Decimal(s, size) = Digit(s, 0) + 10 * Digit(s, 1) + 0
          /\ m.PSW.C = n1.carry
      BY <1>2, <1>10, <2>2, DecimalValue, Exponents
    <3>. QED BY <1>1, <1>3, <1>5, <1>6, <3>1, <3>2
  <2>. QED BY <2>1, <2>2 DEF Sizes
<1>. QED BY <1>2, <1>11, <1>12 DEF s, d, c, m

\* DADD adds decimal numbers of two and of four digits, with the carry in and out, for
\* all of them.
THEOREM DecimalExactHolds ==
  ASSUME CodeWidth
  PROVE  Spec => []DecimalExact
<1>1. TypeOK => DecimalExact
  BY DecimalFromType
<1>. QED BY <1>1, TypeCorrect, PTL

\* A shift halves the part, puts in the bit from the left and leaves the lowest in C.
LEMMA ShiftParts ==
  ASSUME CodeWidth, NEW m \in CPU, NEW dst \in Regs, NEW size \in Sizes, NEW top \in 0..1,
         NEW after, after = Shifted(m, dst, ShiftRight(m.REG[dst], top, size), size)
  PROVE  /\ after \in CPU
         /\ Part(after.REG[dst], size)
              = Part(m.REG[dst], size) \div 2 + (IF top = 0 THEN 0 ELSE Half(size))
         /\ after.PSW.C = Part(m.REG[dst], size) % 2
         /\ \A r \in Regs : r # dst => after.REG[r] = m.REG[r]
         /\ size = BYTE => MSB(after.REG[dst]) = MSB(m.REG[dst])
<1>. DEFINE x == m.REG[dst]
            res == ShiftRight(x, top, size)
<1>1. x \in Words /\ res \in Words
  BY ShiftType DEF CPU
<1>2. after \in CPU
  BY <1>1, ShiftedType
<1>3. after.REG[dst] = res /\ \A r \in Regs : r # dst => after.REG[r] = m.REG[r]
  BY DEF Shifted, Write, CPU
<1>4. after.PSW.C = x % 2
  BY DEF Shifted, Write, update_PSW
<1>5. x \in Nat /\ x < 65536
  BY <1>1, Ranges
<1>. DEFINE y == (x % 2^Bits(size)) \div 2 + top * 2^MSBi(size)
<1>6. res = Replace(x, y, size)
  BY DEF ShiftRight
<1>. HIDE DEF x, res
<1>7. CASE size = WORD
  <2>1. y = (x % 65536) \div 2 + top * 32768 /\ Part(x, size) = x % 65536
        /\ Half(size) = 32768 /\ Part(res, size) = res % 65536
    BY <1>7, Powers DEF Part, Half
  <2>. HIDE DEF y
  <2>2. y \in Nat /\ y < 65536 /\ y % 65536 = y /\ (x % 65536) % 2 = x % 2
    BY ONLY <1>5, <2>1, top \in 0..1
  <2>3. res = y
    BY <1>1, <1>6, <1>7, <2>2, Replaced, Ranges
  <2>. QED BY <1>2, <1>3, <1>4, <1>7, <2>1, <2>2, <2>3, Exponents DEF x
<1>8. CASE size = BYTE
  <2>1. y = (x % 256) \div 2 + top * 128 /\ Part(x, size) = x % 256
        /\ Half(size) = 128 /\ Part(res, size) = res % 256
    BY <1>8, Powers DEF Part, Half
  <2>. HIDE DEF y
  <2>2. y \in Nat /\ y < 256 /\ y < 65536 /\ y % 256 = y /\ (x % 256) % 2 = x % 2
    BY ONLY <1>5, <2>1, top \in 0..1
  <2>3. y \in Words
    BY <2>2, Ranges
  <2>4. MSB(res) = MSB(x) /\ LSB(res) = LSB(y)
    BY <1>1, <1>6, <1>8, <2>3, Replaced
  <2>5. LSB(res) = res % 256 /\ LSB(y) = y % 256
    BY <1>1, <2>3, Parts
  <2>. QED BY <1>2, <1>3, <1>4, <1>8, <2>1, <2>2, <2>4, <2>5 DEF x
<1>. QED BY <1>7, <1>8 DEF Sizes

\* One shift, and n of them one after the other.
Turn(inst, m, dst, size) == IF inst = "RRC" THEN RRC(m, dst, size) ELSE SRA(m, dst, size)

Turns(inst, dst, size, after, n) ==
  after = [k \in 0..n |-> IF k = 0 THEN cpu ELSE Turn(inst, after[k - 1], dst, size)]

\* A non-empty set of naturals has a least element.
LEMMA LeastElement ==
  ASSUME NEW S \in SUBSET Nat, S # {}
  PROVE  \E n \in S : \A k \in S : n <= k
<1>. DEFINE R == {p \in Nat \X Nat : p[1] < p[2]}
<1>1. IsWellFoundedOn(R, Nat)
  BY NatLessThanWellFounded DEF OpToRel
<1>2. PICK x \in S : \A y \in S : ~(<<y, x>> \in R)
  <2>. HIDE DEF R
  <2>. QED BY <1>1, WFMin
<1>3. ASSUME NEW y \in S PROVE x <= y
  <2>1. x \in Nat /\ y \in Nat /\ ~(y < x)
    BY <1>2
  <2>. QED BY <2>1
<1>. QED BY <1>3

\* Repeat is a recursive function, CHOOSEn to satisfy the recursion: there is one.
LEMMA TurnsExist ==
  ASSUME NEW inst, NEW dst, NEW size, NEW n \in Nat
  PROVE  \E after : Turns(inst, dst, size, after, n)
<1>. DEFINE T(after, k) == Turns(inst, dst, size, after, k)
            Next1(m) == Turn(inst, m, dst, size)
            Bad == {k \in Nat : ~\E after : T(after, k)}
<1>0. \A after, k : T(after, k) <=> after = [i \in 0..k |-> IF i = 0 THEN cpu ELSE Next1(after[i - 1])]
  BY DEF Turns
<1>. HIDE DEF T, Next1
<1>1. ASSUME Bad # {} PROVE FALSE
  <2>1. PICK k \in Bad : \A j \in Bad : k <= j
    BY <1>1, LeastElement
  <2>2. k \in Nat /\ ~\E after : T(after, k)
    OBVIOUS
  <2>3. CASE k = 0
    <3>. DEFINE f == [i \in 0..0 |-> cpu]
    <3>1. f = [i \in 0..0 |-> IF i = 0 THEN cpu ELSE Next1(f[i - 1])]
      <4>1. \A i \in 0..0 : i = 0
        OBVIOUS
      <4>. QED BY <4>1
    <3>2. T(f, 0)
      BY <1>0, <3>1
    <3>. QED BY <2>2, <2>3, <3>2
  <2>4. CASE k # 0
    <3>1. k - 1 \in Nat /\ ~(k <= k - 1)
      BY <2>2, <2>4
    <3>2. PICK f : T(f, k - 1)
      BY <2>1, <3>1
    <3>. DEFINE g == [i \in 0..k |-> IF i = k THEN Next1(f[k - 1]) ELSE f[i]]
    <3>3. \A i \in 0..k : g[i] = IF i = 0 THEN cpu ELSE Next1(g[i - 1])
      <4>. TAKE i \in 0..k
      <4>1. CASE i = k
        <5>1. g[i] = Next1(f[k - 1]) /\ g[k - 1] = f[k - 1]
          BY <2>2, <3>1, <4>1
        <5>. QED BY <2>4, <4>1, <5>1
      <4>2. CASE i # k
        <5>1. i \in 0..(k - 1)
          BY <2>2, <4>2
        <5>2. f[i] = IF i = 0 THEN cpu ELSE Next1(f[i - 1])
          BY <1>0, <3>2, <5>1
        <5>3. g[i] = f[i]
          BY <4>2
        <5>4. i # 0 => i - 1 \in 0..k /\ i - 1 # k
          BY <2>2, <5>1
        <5>5. i # 0 => g[i - 1] = f[i - 1]
          BY <5>4
        <5>. QED BY <5>2, <5>3, <5>5
      <4>. QED BY <4>1, <4>2
    <3>4. DOMAIN g = 0..k /\ g = [i \in 0..k |-> g[i]]
      OBVIOUS
    <3>. HIDE DEF g
    <3>5. T(g, k)
      BY <1>0, <3>3, <3>4
    <3>. QED BY <2>2, <3>5
  <2>. QED BY <2>3, <2>4
<1>2. \E after : T(after, n)
  BY <1>1
<1>. QED BY <1>2 DEF T

\* n shifts, unfolded.
Rotated(dst, size, n) == Repeat(LAMBDA m : RRC(m, dst, size), n)
Signs(dst, size, n)   == Repeat(LAMBDA m : SRA(m, dst, size), n)

\* after[k] is the machine after k shifts.
Chain(inst, dst, size, after, n) ==
  /\ after[0] = cpu
  /\ \A k \in Nat : k < n => after[k + 1] = Turn(inst, after[k], dst, size)

\* Repeated turns are a chain of single ones.
LEMMA TurnSteps ==
  ASSUME NEW inst, NEW dst, NEW size, NEW n \in Nat
  PROVE  \E after :
           /\ inst = "RRC" => Rotated(dst, size, n) = after[n]
           /\ inst = "SRA" => Signs(dst, size, n) = after[n]
           /\ Chain(inst, dst, size, after, n)
<1>. DEFINE after == CHOOSE f : Turns(inst, dst, size, f, n)
<1>1. Turns(inst, dst, size, after, n)
  BY TurnsExist
<1>2. inst = "RRC" => Rotated(dst, size, n) = after[n]
  <2>. SUFFICES ASSUME inst = "RRC" PROVE Rotated(dst, size, n) = after[n]
    OBVIOUS
  <2>1. \A f : Turns(inst, dst, size, f, n)
                <=> f = [k \in 0..n |-> IF k = 0 THEN cpu ELSE RRC(f[k - 1], dst, size)]
    BY DEF Turns, Turn
  <2>. QED BY <2>1 DEF Rotated, Repeat
<1>3. inst = "SRA" => Signs(dst, size, n) = after[n]
  <2>. SUFFICES ASSUME inst = "SRA" PROVE Signs(dst, size, n) = after[n]
    OBVIOUS
  <2>1. \A f : Turns(inst, dst, size, f, n)
                <=> f = [k \in 0..n |-> IF k = 0 THEN cpu ELSE SRA(f[k - 1], dst, size)]
    BY DEF Turns, Turn
  <2>. QED BY <2>1 DEF Signs, Repeat
<1>. HIDE DEF after
<1>4. \A k \in 0..n : after[k] = IF k = 0 THEN cpu ELSE Turn(inst, after[k - 1], dst, size)
  BY <1>1 DEF Turns
<1>5. \A k \in Nat : k < n => after[k + 1] = Turn(inst, after[k], dst, size)
  <2>. TAKE k \in Nat
  <2>. HAVE k < n
  <2>1. k + 1 \in 0..n /\ k + 1 # 0 /\ (k + 1) - 1 = k
    OBVIOUS
  <2>. QED BY <1>4, <2>1
<1>6. after[0] = cpu
  BY <1>4
<1>. QED BY <1>2, <1>3, <1>5, <1>6 DEF Chain

\* What one shift does to the machine, whatever its instruction.
LEMMA TurnParts ==
  ASSUME CodeWidth, NEW m \in CPU, NEW inst, NEW dst \in Regs, NEW size \in Sizes,
         NEW after, after = Turn(inst, m, dst, size)
  PROVE  /\ after \in CPU
         /\ \A r \in Regs : r # dst => after.REG[r] = m.REG[r]
         /\ size = BYTE => MSB(after.REG[dst]) = MSB(m.REG[dst])
         /\ inst = "RRC" => /\ Part(after.REG[dst], size)
                                 = Part(m.REG[dst], size) \div 2
                                     + (IF m.PSW.C = 0 THEN 0 ELSE Half(size))
                            /\ after.PSW.C = Part(m.REG[dst], size) % 2
         /\ inst = "SRA" => Signed(after.REG[dst], size) = Signed(m.REG[dst], size) \div 2
<1>. DEFINE x == m.REG[dst]
            sign == BIT_CHECK(x, MSBi(size))
            a == Part(x, size)
            b == Part(after.REG[dst], size)
            h == Half(size)
<1>1. x \in Words /\ m.PSW.C \in 0..1
  BY DEF CPU, Flags
<1>2. /\ a \in Nat /\ a < 2 * h /\ h \in Nat /\ h > 0 /\ h \div 2 = h - h \div 2
      /\ sign = IF a < h THEN 0 ELSE 1
  <2>1. h = 32768 \/ h = 128
    BY Powers DEF Half, Sizes
  <2>2. h \div 2 = h - h \div 2
    BY <2>1
  <2>. QED BY <1>1, <2>2, PartFacts, SizeFacts
<1>3. sign \in 0..1
  BY <1>2
<1>4. CASE inst = "RRC"
  <2>. DEFINE c == m.PSW.C
  <2>1. after = Shifted(m, dst, ShiftRight(x, c, size), size) /\ c \in 0..1
    BY <1>1, <1>4 DEF Turn, RRC
  <2>. HIDE DEF c
  <2>2. /\ after \in CPU
        /\ b = a \div 2 + (IF c = 0 THEN 0 ELSE h)
        /\ after.PSW.C = a % 2
        /\ \A r \in Regs : r # dst => after.REG[r] = m.REG[r]
        /\ size = BYTE => MSB(after.REG[dst]) = MSB(m.REG[dst])
    BY <2>1, ShiftParts
  <2>. QED BY <1>4, <2>2 DEF c
<1>5. CASE inst # "RRC"
  <2>1. after = Shifted(m, dst, ShiftRight(x, sign, size), size)
    BY <1>5 DEF Turn, SRA
  <2>. HIDE DEF sign
  <2>2. /\ after \in CPU
        /\ b = a \div 2 + (IF sign = 0 THEN 0 ELSE h)
        /\ \A r \in Regs : r # dst => after.REG[r] = m.REG[r]
        /\ size = BYTE => MSB(after.REG[dst]) = MSB(m.REG[dst])
    BY SMTT(30), <1>3, <2>1, ShiftParts
  <2>3. after.REG[dst] \in Words
    BY <2>2 DEF CPU
  <2>4. /\ Signed(x, size) = IF a < h THEN a ELSE a - 2 * h
        /\ Signed(after.REG[dst], size) = IF b < h THEN b ELSE b - 2 * h
    BY <1>1, <2>3, SignedFacts, SizeFacts
  <2>. HIDE DEF x, a, b, h
  <2>5. CASE a < h
    <3>1. b = a \div 2
      BY <1>2, <2>2, <2>5
    <3>2. b < h
      BY ONLY <1>2, <2>5, <3>1
    <3>. QED BY <1>5, <2>2, <2>4, <2>5, <3>2, <3>1 DEF x
  <2>6. CASE ~(a < h)
    <3>1. b = a \div 2 + h
      BY <1>2, <2>2, <2>6
    <3>2. ~(b < h) /\ b - 2 * h = (a - 2 * h) \div 2
      BY ONLY <1>2, <2>6, <3>1
    <3>. QED BY <1>5, <2>2, <2>4, <2>6, <3>2 DEF x
  <2>. QED BY <2>5, <2>6
<1>. QED BY <1>4, <1>5

\* What n shifts leave as it was.
Kept(m, dst, size) ==
  /\ m \in CPU
  /\ \A r \in Regs : r # dst => m.REG[r] = cpu.REG[r]
  /\ size = BYTE => MSB(m.REG[dst]) = MSB(cpu.REG[dst])

\* Turns keep what is outside the register and the size.
LEMMA TurnsKeep ==
  ASSUME CodeWidth, cpu \in CPU, NEW inst, NEW dst \in Regs, NEW size \in Sizes, NEW n \in Nat,
         NEW after, Chain(inst, dst, size, after, n)
  PROVE  \A k \in Nat : k <= n => Kept(after[k], dst, size)
<1>. DEFINE Bad == {k \in Nat : k <= n /\ ~Kept(after[k], dst, size)}
<1>1. ASSUME Bad # {} PROVE FALSE
  <2>1. PICK k \in Bad : \A j \in Bad : k <= j
    BY <1>1, LeastElement
  <2>2. k \in Nat /\ k <= n /\ ~Kept(after[k], dst, size)
    OBVIOUS
  <2>3. k # 0
    BY <2>2 DEF Kept, Chain
  <2>. DEFINE i == k - 1
  <2>4. i \in Nat /\ i < n /\ i + 1 = k /\ ~(k <= i)
    BY <2>2, <2>3
  <2>. HIDE DEF i
  <2>5. Kept(after[i], dst, size)
    BY <2>1, <2>2, <2>4
  <2>6. after[k] = Turn(inst, after[i], dst, size)
    BY <2>4 DEF Chain
  <2>7. after[i] \in CPU
    BY <2>5 DEF Kept
  <2>8. /\ after[k] \in CPU
        /\ \A r \in Regs : r # dst => after[k].REG[r] = after[i].REG[r]
        /\ size = BYTE => MSB(after[k].REG[dst]) = MSB(after[i].REG[dst])
    BY <2>6, <2>7, TurnParts
  <2>9. Kept(after[k], dst, size)
    BY <2>5, <2>8 DEF Kept
  <2>. QED BY <2>2, <2>9
<1>. QED BY <1>1

-----------------------------------------------------------------------------
(***************************************************************************)
(* Shifts.  A ring of n bits is restored by n rotations: with the ring as  *)
(* a number r below 2^n, twice the next is r plus its lowest bit times     *)
(* 2^n - 1, so that 2^n times the n-th is r plus a multiple s of 2^n - 1,  *)
(* made of the bits that came round, which leaves no choice.               *)
(***************************************************************************)

\* Powers of two, from 2^0.
Twos == <<1, 2, 4, 8, 16, 32, 64, 128, 256, 512, 1024, 2048, 4096, 8192, 16384, 32768,
          65536, 131072>>

\* The table of powers of two.
LEMMA TwosDouble ==
  /\ \A k \in Nat : k <= 17 => Twos[k + 1] \in Nat /\ Twos[k + 1] > 0
  /\ \A k \in Nat : k < 17 => Twos[k + 2] = 2 * Twos[k + 1]
<1>1. \A k \in Nat : k <= 17 => \/ k = 0 \/ k = 1 \/ k = 2 \/ k = 3 \/ k = 4 \/ k = 5
                                \/ k = 6 \/ k = 7 \/ k = 8 \/ k = 9 \/ k = 10 \/ k = 11
                                \/ k = 12 \/ k = 13 \/ k = 14 \/ k = 15 \/ k = 16 \/ k = 17
  OBVIOUS
<1>. QED BY <1>1 DEF Twos

\* Facts of multiplication that the provers take one at a time.
LEMMA Doubling ==
  ASSUME NEW p \in Nat, NEW q \in Nat
  PROVE  (2 * p) * q = p * (2 * q)
  OBVIOUS

LEMMA Distributed ==
  ASSUME NEW p \in Nat, NEW a \in Nat, NEW b \in Nat
  PROVE  p * (a + b) = p * a + p * b
  OBVIOUS

LEMMA Product ==
  ASSUME NEW p \in Nat, NEW a \in Nat
  PROVE  p * a \in Nat /\ p * a = a * p /\ p * 0 = 0 /\ p * 1 = p
  OBVIOUS

IsRing(r, n, M) ==
  /\ \A k \in Nat : k <= n => r[k] \in Nat
  /\ \A k \in Nat : k < n => 2 * r[k + 1] = r[k] + M * (r[k] % 2)

\* s is made of the bits that came round in k rotations.
Came(r, k, M) ==
  \E s \in Nat : s < Twos[k + 1] /\ Twos[k + 1] * r[k] = r[0] + M * s

\* What a rotation by n places makes of the number.
LEMMA Ring ==
  ASSUME NEW n \in Nat, n <= 17, NEW M \in Nat, NEW r, IsRing(r, n, M)
  PROVE  Came(r, n, M)
<1>. DEFINE Bad == {k \in Nat : k <= n /\ ~Came(r, k, M)}
<1>1. ASSUME Bad # {} PROVE FALSE
  <2>1. PICK k \in Bad : \A j \in Bad : k <= j
    BY <1>1, LeastElement
  <2>2. k \in Nat /\ k <= n /\ ~Came(r, k, M)
    OBVIOUS
  <2>3. Came(r, 0, M)
    <3>1. Twos[0 + 1] = 1 /\ r[0] \in Nat
      BY DEF Twos, IsRing
    <3>2. 1 * r[0] = r[0] /\ M * 0 = 0 /\ r[0] + 0 = r[0] /\ 0 < 1
      BY <3>1
    <3>. QED BY <3>1, <3>2 DEF Came
  <2>. DEFINE i == k - 1
  <2>4. i \in Nat /\ i < n /\ i <= 16 /\ i + 1 = k /\ ~(k <= i)
    BY <2>2, <2>3
  <2>. HIDE DEF i
  <2>5. Came(r, i, M)
    BY <2>1, <2>2, <2>4
  <2>. DEFINE p == Twos[i + 1]
              q == Twos[k + 1]
              x == r[i]
              y == r[k]
              z == r[0]
  <2>6. PICK s \in Nat : s < p /\ p * x = z + M * s
    BY <2>5 DEF Came
  <2>7. p \in Nat /\ q = 2 * p /\ x \in Nat /\ y \in Nat /\ z \in Nat /\ p > 0
        /\ 2 * y = x + M * (x % 2)
    <3>1. k + 1 = i + 2
      BY <2>2, <2>4
    <3>2. 2 * r[i + 1] = r[i] + M * (r[i] % 2)
      BY <2>4 DEF IsRing
    <3>3. r[i] \in Nat /\ r[k] \in Nat /\ r[0] \in Nat
      BY <2>2, <2>4 DEF IsRing
    <3>. QED BY <2>2, <2>4, <3>1, <3>2, <3>3, TwosDouble
  <2>. HIDE DEF p, q, x, y, z
  <2>8. q * y = p * (2 * y)
    BY <2>7, Doubling
  <2>9. CASE x % 2 = 0
    <3>1. 2 * y = x
      BY <2>7, <2>9
    <3>2. q * y = z + M * s /\ s < q
      BY <2>6, <2>7, <2>8, <3>1
    <3>. QED BY <2>2, <3>2 DEF Came, q, y, z
  <2>10. CASE x % 2 = 1
    <3>1. 2 * y = x + M
      BY <2>7, <2>10, Product
    <3>2. q * y = p * x + p * M
      BY <2>7, <2>8, <3>1, Distributed
    <3>3. M * (s + p) = M * s + M * p
      BY <2>7, Distributed
    <3>4. p * M = M * p /\ M * p \in Nat /\ M * s \in Nat
      BY <2>7, Product
    <3>. DEFINE qy  == q * y
                ms  == M * s
                mp  == M * p
                msp == M * (s + p)
    <3>5. qy = (z + ms) + mp /\ msp = ms + mp /\ ms \in Nat /\ mp \in Nat
      BY <2>6, <3>2, <3>3, <3>4
    <3>. HIDE DEF qy, ms, mp, msp
    <3>6. qy = z + msp
      BY ONLY <2>7, <3>5
    <3>7. s + p < q /\ s + p \in Nat
      BY <2>6, <2>7
    <3>. QED BY <2>2, <3>7, <3>6 DEF Came, q, y, z, qy, msp
  <2>. QED BY <2>7, <2>9, <2>10
<1>2. Came(r, n, M)
  BY <1>1
<1>. QED BY <1>2

\* A register of n bits with a sign, halved n - 1 times, is down to its sign.
IsHalved(v, n) == \A k \in Nat : k < n => v[k + 1] = v[k] \div 2

\* Halving often enough leaves the sign.
LEMMA Halved ==
  ASSUME NEW n \in Nat, n <= 17, NEW v, v[0] \in Int,
         -Twos[n + 1] <= v[0], v[0] < Twos[n + 1], IsHalved(v, n)
  PROVE  v[n] = IF v[0] < 0 THEN -1 ELSE 0
<1>. DEFINE b(k) == Twos[(n - k) + 1]
            Down(k) == /\ v[k] \in Int /\ -b(k) <= v[k] /\ v[k] < b(k)
                       /\ v[k] < 0 <=> v[0] < 0
            Bad == {k \in Nat : k <= n /\ ~Down(k)}
<1>1. ASSUME Bad # {} PROVE FALSE
  <2>. HIDE DEF Down
  <2>1. PICK k \in Bad : \A j \in Bad : k <= j
    BY <1>1, LeastElement
  <2>2. k \in Nat /\ k <= n /\ ~Down(k)
    OBVIOUS
  <2>3. Down(0)
    <3>1. (n - 0) + 1 = n + 1
      OBVIOUS
    <3>. QED BY <3>1 DEF Down
  <2>. DEFINE i == k - 1
  <2>4. i \in Nat /\ i < n /\ i + 1 = k /\ ~(k <= i)
    BY <2>2, <2>3
  <2>. HIDE DEF i
  <2>5. Down(i)
    BY <2>1, <2>2, <2>4
  <2>. DEFINE p == b(k)
              q == b(i)
              x == v[i]
              y == v[k]
              z == v[0]
  <2>6. p \in Nat /\ q = 2 * p
    <3>. DEFINE j == n - k
    <3>1. j \in Nat /\ j < 17 /\ (n - i) + 1 = j + 2
      BY <2>2, <2>4
    <3>2. p = Twos[j + 1] /\ q = Twos[j + 2]
      BY <3>1
    <3>. HIDE DEF j, p, q
    <3>. QED BY <3>1, <3>2, TwosDouble
  <2>7. x \in Int /\ -q <= x /\ x < q /\ (x < 0 <=> z < 0) /\ y = x \div 2
    <3>1. v[i + 1] = v[i] \div 2
      BY <2>4 DEF IsHalved
    <3>. QED BY <2>4, <2>5, <3>1 DEF Down
  <2>. HIDE DEF p, q, x, y, z
  <2>8. y \in Int /\ -p <= y /\ y < p /\ (y < 0 <=> z < 0)
    BY ONLY <2>6, <2>7
  <2>. QED BY <2>2, <2>8 DEF Down, p, y, z
<1>2. Down(n)
  BY <1>1
<1>3. b(n) = 1
  <2>1. (n - n) + 1 = 1
    OBVIOUS
  <2>. QED BY <2>1 DEF Twos
<1>. QED BY <1>2, <1>3

\* The ring of a register and C: the part shifted, and C above it.
Rung(m, dst, size) == Part(m.REG[dst], size) + (IF m.PSW.C = 0 THEN 0 ELSE Full(size))

\* One RRC is one place of a rotation with the carry in the ring.
LEMMA RungTurns ==
  ASSUME CodeWidth, NEW m \in CPU, NEW dst \in Regs, NEW size \in Sizes,
         NEW after, after = Turn("RRC", m, dst, size)
  PROVE  /\ Rung(m, dst, size) \in Nat /\ Rung(m, dst, size) < 2 * Full(size)
         /\ 2 * Rung(after, dst, size)
              = Rung(m, dst, size) + (2 * Full(size) - 1) * (Rung(m, dst, size) % 2)
<1>. DEFINE a == Part(m.REG[dst], size)
            c == m.PSW.C
            b == Part(after.REG[dst], size)
            d == after.PSW.C
            h == Half(size)
            f == Full(size)
            x == Rung(m, dst, size)
            y == Rung(after, dst, size)
<1>1. /\ b = a \div 2 + (IF c = 0 THEN 0 ELSE h)
      /\ d = a % 2
  BY TurnParts
<1>2. a \in Nat /\ a < f /\ c \in 0..1
  <2>1. m.REG[dst] \in Words /\ c \in 0..1
    BY DEF CPU, Flags
  <2>. QED BY <2>1, PartFacts
<1>3. h \in Nat /\ h > 0 /\ f \in Nat /\ f = 2 * h /\ h % 2 = 0
  <2>1. h = 32768 \/ h = 128
    BY Powers DEF Half, Sizes
  <2>. QED BY <2>1, SizeFacts
<1>4. x = a + (IF c = 0 THEN 0 ELSE f) /\ y = b + (IF d = 0 THEN 0 ELSE f)
  BY DEF Rung
<1>. HIDE DEF a, b, c, d, h, f, x, y
<1>5. x \in Nat /\ x < 2 * f /\ x % 2 = a % 2
  BY ONLY <1>2, <1>3, <1>4
<1>6. CASE a % 2 = 0
  <2>1. 2 * y = x
    BY ONLY <1>1, <1>2, <1>3, <1>4, <1>6
  <2>. QED BY <1>3, <1>5, <1>6, <2>1 DEF x, y, f
<1>7. CASE a % 2 = 1
  <2>1. 2 * y = x + (2 * f - 1)
    BY ONLY <1>1, <1>2, <1>3, <1>4, <1>7
  <2>. QED BY <1>3, <1>5, <1>7, <2>1 DEF x, y, f
<1>. QED BY <1>2, <1>6, <1>7

\* The machine is what its ring, the rest of the register and the other registers say.
LEMMA RungDetermines ==
  ASSUME CodeWidth, NEW m \in CPU, NEW o \in CPU, NEW dst \in Regs, NEW size \in Sizes,
         Rung(m, dst, size) = Rung(o, dst, size),
         \A r \in Regs : r # dst => m.REG[r] = o.REG[r],
         size = BYTE => MSB(m.REG[dst]) = MSB(o.REG[dst])
  PROVE  m.REG = o.REG /\ m.PSW.C = o.PSW.C
<1>. DEFINE x == m.REG[dst]
            y == o.REG[dst]
            a == Part(x, size)
            b == Part(y, size)
            c == m.PSW.C
            d == o.PSW.C
            f == Full(size)
<1>1. x \in Words /\ y \in Words /\ c \in 0..1 /\ d \in 0..1
  BY DEF CPU, Flags
<1>2. a \in Nat /\ a < f /\ b \in Nat /\ b < f /\ f \in Nat
  BY <1>1, PartFacts, SizeFacts
<1>3. a + (IF c = 0 THEN 0 ELSE f) = b + (IF d = 0 THEN 0 ELSE f)
  BY DEF Rung
<1>. HIDE DEF a, b, c, d, f
<1>4. a = b /\ c = d
  BY ONLY <1>1, <1>2, <1>3
<1>5. x = y
  <2>1. CASE size = WORD
    <3>1. a = x % 65536 /\ b = y % 65536
      BY <2>1, Powers DEF Part, a, b
    <3>2. x \in Nat /\ x < 65536 /\ y \in Nat /\ y < 65536
      BY <1>1, Ranges
    <3>. HIDE DEF x, y
    <3>3. a = x
      BY ONLY <3>1, <3>2
    <3>4. b = y
      BY ONLY <3>1, <3>2
    <3>. QED BY <1>4, <3>3, <3>4
  <2>2. CASE size = BYTE
    <3>1. a = LSB(x) /\ b = LSB(y) /\ MSB(x) = MSB(y)
      BY <2>2, Powers DEF Part, LSB, a, b
    <3>2. x = Join(MSB(x), LSB(x)) /\ y = Join(MSB(y), LSB(y))
      BY <1>1, Parts
    <3>. QED BY <1>4, <3>1, <3>2
  <2>. QED BY <2>1, <2>2 DEF Sizes
<1>6. \A r \in Regs : m.REG[r] = o.REG[r]
  BY <1>5
<1>7. m.REG = o.REG
  BY <1>6 DEF CPU
<1>. QED BY <1>4, <1>7 DEF c, d

\* A full round of RRC restores register and carry on every CPU.
LEMMA RotationFromType == CodeWidth /\ TypeOK => RotationRestores
<1>. SUFFICES ASSUME CodeWidth, cpu \in CPU, NEW size \in Sizes, NEW dst \in Regs
              PROVE  LET m == Rotated(dst, size, Bits(size) + 1)
                     IN  m.REG = cpu.REG /\ m.PSW.C = cpu.PSW.C
  BY DEF RotationRestores, TypeOK, CPU, Rotated, Repeat
<1>. DEFINE n == Bits(size) + 1
            f == Full(size)
            M == 2 * f - 1
<1>1. n \in Nat /\ n <= 17 /\ Twos[n + 1] = 2 * f /\ f \in Nat /\ f > 0
  <2>1. \/ Bits(size) = 16 /\ f = 65536
        \/ Bits(size) = 8 /\ f = 256
    <3>1. CASE size = WORD
      BY <3>1, Exponents, Powers DEF Full
    <3>2. CASE size = BYTE
      BY <3>2, Exponents, Powers DEF Full
    <3>. QED BY <3>1, <3>2 DEF Sizes
  <2>2. Twos[18] = 131072 /\ Twos[10] = 512
    BY DEF Twos
  <2>. QED BY <2>1, <2>2
<1>. HIDE DEF n
<1>2. PICK after : Rotated(dst, size, n) = after[n] /\ Chain("RRC", dst, size, after, n)
  BY <1>1, TurnSteps
<1>3. /\ after[0] = cpu
      /\ \A k \in Nat : k < n => after[k + 1] = Turn("RRC", after[k], dst, size)
      /\ \A k \in Nat : k <= n => Kept(after[k], dst, size)
  <2>1. \A k \in Nat : k <= n => Kept(after[k], dst, size)
    <3>. HIDE DEF f, M
    <3>. QED BY <1>1, <1>2, TurnsKeep
  <2>. QED BY <1>2, <2>1 DEF Chain
<1>. DEFINE r == [k \in Nat |-> Rung(after[k], dst, size)]
<1>4. \A k \in Nat : r[k] = Rung(after[k], dst, size)
  OBVIOUS
<1>5. \A k \in Nat : k <= n => r[k] \in Nat /\ r[k] < 2 * f
  BY <1>3, <1>4, RungTurns DEF Kept
<1>6. \A k \in Nat : k < n => 2 * r[k + 1] = r[k] + M * (r[k] % 2)
  <2>. TAKE k \in Nat
  <2>. HAVE k < n
  <2>1. after[k] \in CPU /\ after[k + 1] = Turn("RRC", after[k], dst, size)
    BY <1>1, <1>3 DEF Kept
  <2>2. 2 * Rung(after[k + 1], dst, size)
          = Rung(after[k], dst, size) + M * (Rung(after[k], dst, size) % 2)
    BY <2>1, RungTurns
  <2>. QED BY <1>4, <2>2
<1>. HIDE DEF r
<1>7. M \in Nat
  BY <1>1
<1>8. r[n] = r[0]
  <2>. HIDE DEF M, f
  <2>1. PICK s \in Nat : s < Twos[n + 1] /\ Twos[n + 1] * r[n] = r[0] + M * s
    <3>1. IsRing(r, n, M)
      BY <1>5, <1>6 DEF IsRing
    <3>2. Came(r, n, M)
      BY <1>1, <1>7, <3>1, Ring
    <3>. QED BY <3>2 DEF Came
  <2>. DEFINE x == r[n]
              z == r[0]
  <2>2. /\ x \in Nat /\ x < 2 * f /\ z \in Nat /\ z < 2 * f /\ s < 2 * f
        /\ (2 * f) * x = z + M * s
    BY <1>1, <1>5, <2>1
  <2>. HIDE DEF x, z
  <2>3. f = 65536 \/ f = 256
    BY Powers DEF f, Full, Sizes
  <2>4. CASE f = 65536
    <3>1. 131072 * x = z + 131071 * s /\ x < 131072 /\ z < 131072 /\ s < 131072
      BY <2>2, <2>4 DEF M
    <3>2. x = z
      BY ONLY <2>2, <3>1
    <3>. QED BY <3>2 DEF x, z
  <2>5. CASE f = 256
    <3>1. 512 * x = z + 511 * s /\ x < 512 /\ z < 512 /\ s < 512
      BY <2>2, <2>5 DEF M
    <3>2. x = z
      BY ONLY <2>2, <3>1
    <3>. QED BY <3>2 DEF x, z
  <2>. QED BY <2>3, <2>4, <2>5
<1>9. after[n].REG = cpu.REG /\ after[n].PSW.C = cpu.PSW.C
  <2>1. /\ after[n] \in CPU
        /\ \A i \in Regs : i # dst => after[n].REG[i] = cpu.REG[i]
        /\ size = BYTE => MSB(after[n].REG[dst]) = MSB(cpu.REG[dst])
    BY <1>1, <1>3 DEF Kept
  <2>2. Rung(after[n], dst, size) = Rung(cpu, dst, size)
    BY <1>1, <1>3, <1>4, <1>8
  <2>. QED BY <2>1, <2>2, RungDetermines
<1>. QED BY <1>2, <1>9 DEF n

\* A register and C are a ring: as many rotations as it has bits, 17 or 9, restore
\* them, for every content, and touch no other register and no other byte on the way.
THEOREM RotationRestoresHolds ==
  ASSUME CodeWidth
  PROVE  Spec => []RotationRestores
<1>1. TypeOK => RotationRestores
  BY RotationFromType
<1>. QED BY <1>1, TypeCorrect, PTL

\* The bounds of a signed value.
LEMMA SignedRange ==
  ASSUME CodeWidth, NEW x \in Words, NEW size \in Sizes
  PROVE  /\ Signed(x, size) \in Int
         /\ -Half(size) <= Signed(x, size) /\ Signed(x, size) < Half(size)
         /\ Signed(x, size) < 0 <=> ~(Part(x, size) < Half(size))
<1>. DEFINE a == Part(x, size)
            h == Half(size)
            v == Signed(x, size)
<1>1. /\ a \in Nat /\ a < 2 * h /\ h \in Nat
      /\ v = IF a < h THEN a ELSE a - 2 * h
  BY PartFacts, SignedFacts, SizeFacts
<1>. HIDE DEF a, h, v
<1>2. v \in Int /\ -h <= v /\ v < h /\ (v < 0 <=> ~(a < h))
  BY ONLY <1>1
<1>. QED BY <1>2 DEF a, h, v

\* SRA halves, and as many shifts as there are bits but the sign leave the sign.
LEMMA SignOfShifts ==
  ASSUME CodeWidth, cpu \in CPU, NEW dst \in Regs, NEW size \in Sizes
  PROVE  /\ Signed(SRA(cpu, dst, size).REG[dst], size) = Signed(cpu.REG[dst], size) \div 2
         /\ Signed(Signs(dst, size, MSBi(size)).REG[dst], size)
              = IF Signed(cpu.REG[dst], size) < 0 THEN -1 ELSE 0
<1>1. \A m \in CPU : Signed(SRA(m, dst, size).REG[dst], size) = Signed(m.REG[dst], size) \div 2
  <2>. TAKE m \in CPU
  <2>1. SRA(m, dst, size) = Turn("SRA", m, dst, size)
    BY DEF Turn
  <2>. QED BY <2>1, TurnParts
<1>. DEFINE n == MSBi(size)
            h == Half(size)
<1>2. n \in Nat /\ n <= 17 /\ Twos[n + 1] = h
  <2>1. \/ MSBi(size) = 15 /\ h = 32768
        \/ MSBi(size) = 7 /\ h = 128
    <3>1. CASE size = WORD
      BY <3>1, Exponents, Powers DEF Half
    <3>2. CASE size = BYTE
      BY <3>2, Exponents, Powers DEF Half
    <3>. QED BY <3>1, <3>2 DEF Sizes
  <2>2. Twos[16] = 32768 /\ Twos[8] = 128
    BY DEF Twos
  <2>. QED BY <2>1, <2>2
<1>. HIDE DEF n, h
<1>3. PICK after : Signs(dst, size, n) = after[n] /\ Chain("SRA", dst, size, after, n)
  BY <1>2, TurnSteps
<1>4. \A k \in Nat : k <= n => Kept(after[k], dst, size)
  BY <1>2, <1>3, TurnsKeep
<1>. DEFINE v == [k \in Nat |-> Signed(after[k].REG[dst], size)]
<1>5. \A k \in Nat : v[k] = Signed(after[k].REG[dst], size)
  OBVIOUS
<1>6. IsHalved(v, n)
  <2>. HIDE DEF v
  <2>1. \A k \in Nat : k < n => v[k + 1] = v[k] \div 2
    <3>. TAKE k \in Nat
    <3>. HAVE k < n
    <3>1. after[k] \in CPU /\ after[k + 1] = SRA(after[k], dst, size)
      BY <1>2, <1>3, <1>4 DEF Chain, Turn, Kept
    <3>. QED BY <1>1, <1>5, <3>1
  <2>. QED BY <2>1 DEF IsHalved
<1>7. v[0] = Signed(cpu.REG[dst], size) /\ v[n] = Signed(Signs(dst, size, n).REG[dst], size)
  BY <1>2, <1>3, <1>5 DEF Chain
<1>. HIDE DEF v
<1>8. v[0] \in Int /\ -Twos[n + 1] <= v[0] /\ v[0] < Twos[n + 1]
  <2>1. cpu.REG[dst] \in Words
    BY DEF CPU
  <2>. QED BY <1>2, <1>7, <2>1, SignedRange DEF h
<1>9. v[n] = IF v[0] < 0 THEN -1 ELSE 0
  BY <1>2, <1>6, <1>8, Halved
<1>. QED BY <1>1, <1>7, <1>9 DEF n

\* SXT makes a word of the signed value of the low byte.
LEMMA ExtensionExact ==
  ASSUME CodeWidth, NEW m \in CPU, NEW dst \in Regs,
         NEW wide, wide = SXT(m, dst, WORD)
  PROVE  /\ wide \in CPU
         /\ Signed(wide.REG[dst], WORD) = Signed(m.REG[dst], BYTE)
         /\ wide.PSW.N = Flag(Signed(wide.REG[dst], WORD) < 0)
         /\ wide.PSW.Z = Flag(wide.REG[dst] = 0)
<1>. DEFINE x == m.REG[dst]
            l == LSB(x)
            top == IF BIT_CHECK(x, MSBi(BYTE)) = 1 THEN 2^ByteBits - 1 ELSE 0
            res == Join(top, l)
<1>0. WORD \in Sizes /\ BYTE \in Sizes
  BY DEF Sizes
<1>1. x \in Words
  BY DEF CPU
<1>2. l \in Bytes /\ l = x % 256 /\ l \in Nat /\ l < 256
  BY <1>1, Parts, Ranges
<1>3. top = IF l < 128 THEN 0 ELSE 255
  <2>1. 2^ByteBits - 1 = 255
    BY Powers
  <2>. QED BY <1>1, <1>2, <2>1, SignBits
<1>. HIDE DEF top
<1>4. top \in Bytes /\ top \in Nat
  BY <1>3, Ranges
<1>5. res \in Words /\ res = 256 * top + l
  BY <1>2, <1>4, Joined
<1>6. wide = Write(m, dst, res, update_PSW(x, x, res, WORD))
  BY DEF SXT, top
<1>. HIDE DEF res
<1>7. wide \in CPU
  <2>. DEFINE PSW == update_PSW(x, x, res, WORD)
  <2>1. PSW \in Flags
    BY <1>0, <1>1, <1>5, FlagsOfResult
  <2>2. wide = Write(m, dst, res, PSW)
    BY <1>6
  <2>. HIDE DEF PSW
  <2>. QED BY <1>5, <2>1, <2>2, WriteType
<1>8. wide.REG[dst] = res /\ wide.PSW = update_PSW(x, x, res, WORD)
  BY <1>6 DEF Write, CPU
<1>9. /\ Part(res, WORD) = res % 65536 /\ Half(WORD) = 32768 /\ Full(WORD) = 65536
      /\ Part(x, BYTE) = l /\ Half(BYTE) = 128 /\ Full(BYTE) = 256
  BY <1>2, Powers DEF Part, Half, Full
<1>10. res \in Nat /\ res < 65536 /\ res % 65536 = res
  <2>1. res \in Nat /\ res < 65536
    BY <1>5, Ranges
  <2>. HIDE DEF x, l
  <2>2. res % 65536 = res
    BY ONLY <2>1
  <2>. QED BY <2>1, <2>2
<1>11. Signed(res, WORD) = IF res < 32768 THEN res ELSE res - 65536
  BY <1>0, <1>5, <1>9, <1>10, SignedFacts
<1>12. Signed(x, BYTE) = IF l < 128 THEN l ELSE l - 256
  BY <1>0, <1>1, <1>9, SignedFacts
<1>13. Signed(res, WORD) = Signed(x, BYTE)
  <2>. DEFINE p == Signed(res, WORD)
              q == Signed(x, BYTE)
  <2>1. /\ p = IF res < 32768 THEN res ELSE res - 65536
        /\ q = IF l < 128 THEN l ELSE l - 256
    BY <1>11, <1>12
  <2>. HIDE DEF p, q, x, l
  <2>2. p = q
    BY ONLY <1>2, <1>3, <1>5, <2>1
  <2>. QED BY <2>2 DEF p, q
<1>14. /\ wide.PSW.N = BIT_CHECK(res, MSBi(WORD))
       /\ wide.PSW.Z = Flag(res % 65536 = 0)
  BY <1>8, Powers DEF update_PSW
<1>15. wide.PSW.N = Flag(Signed(res, WORD) < 0)
  <2>1. wide.PSW.N = IF res < 32768 THEN 0 ELSE 1
    BY <1>5, <1>14, SignBits
  <2>2. Signed(res, WORD) < 0 <=> ~(res < 32768)
    <3>. DEFINE p == Signed(res, WORD)
    <3>1. p = IF res < 32768 THEN res ELSE res - 65536
      BY <1>11
    <3>. HIDE DEF p
    <3>2. p < 0 <=> ~(res < 32768)
      BY ONLY <1>10, <3>1
    <3>. QED BY <3>2 DEF p
  <2>. QED BY <2>1, <2>2 DEF Flag
<1>. QED BY <1>7, <1>8, <1>10, <1>13, <1>14, <1>15

\* SRA keeps the sign on every CPU.
LEMMA SignsFromType == CodeWidth /\ TypeOK => SignSurvives
<1>. SUFFICES ASSUME CodeWidth, cpu \in CPU, NEW dst \in Regs
              PROVE  LET wide == SXT(cpu, dst, WORD)
                     IN  /\ \A size \in Sizes :
                              LET x == Signed(cpu.REG[dst], size)
                              IN  /\ Signed(SRA(cpu, dst, size).REG[dst], size) = x \div 2
                                  /\ Signed(Signs(dst, size, MSBi(size)).REG[dst], size)
                                       = IF x < 0 THEN -1 ELSE 0
                         /\ Signed(wide.REG[dst], WORD) = Signed(cpu.REG[dst], BYTE)
                         /\ wide.PSW.N = Flag(Signed(wide.REG[dst], WORD) < 0)
                         /\ wide.PSW.Z = Flag(wide.REG[dst] = 0)
                         /\ Signed(SRA(wide, dst, WORD).REG[dst], WORD)
                              = Signed(SRA(cpu, dst, BYTE).REG[dst], BYTE)
  BY DEF SignSurvives, TypeOK, CPU, Signs, Repeat
<1>. DEFINE wide == SXT(cpu, dst, WORD)
<1>0. WORD \in Sizes /\ BYTE \in Sizes
  BY DEF Sizes
<1>1. /\ wide \in CPU
      /\ Signed(wide.REG[dst], WORD) = Signed(cpu.REG[dst], BYTE)
      /\ wide.PSW.N = Flag(Signed(wide.REG[dst], WORD) < 0)
      /\ wide.PSW.Z = Flag(wide.REG[dst] = 0)
  BY ExtensionExact
<1>2. Signed(SRA(wide, dst, WORD).REG[dst], WORD) = Signed(wide.REG[dst], WORD) \div 2
  <2>. HIDE DEF wide
  <2>1. SRA(wide, dst, WORD) = Turn("SRA", wide, dst, WORD)
    BY DEF Turn
  <2>. QED BY <1>0, <1>1, <2>1, TurnParts
<1>3. \A size \in Sizes :
        /\ Signed(SRA(cpu, dst, size).REG[dst], size) = Signed(cpu.REG[dst], size) \div 2
        /\ Signed(Signs(dst, size, MSBi(size)).REG[dst], size)
             = IF Signed(cpu.REG[dst], size) < 0 THEN -1 ELSE 0
  BY SignOfShifts
<1>. HIDE DEF wide
<1>4. Signed(SRA(wide, dst, WORD).REG[dst], WORD) = Signed(SRA(cpu, dst, BYTE).REG[dst], BYTE)
  BY <1>0, <1>1, <1>2, <1>3
<1>. QED BY <1>1, <1>3, <1>4 DEF wide

\* The sign survives: SRA halves, enough of them leave 0 or -1, SXT keeps the value of
\* the byte and its flags tell the sign, for every content of the register.
THEOREM SignSurvivesHolds ==
  ASSUME CodeWidth
  PROVE  Spec => []SignSurvives
<1>1. TypeOK => SignSurvives
  BY SignsFromType
<1>. QED BY <1>1, TypeCorrect, PTL

-----------------------------------------------------------------------------
(***************************************************************************)
(* What an instruction does with the high byte it finds in temp_reg_A.     *)
(***************************************************************************)

\* What is written does not depend on the high byte of temp_reg_A.
LEMMA WriteSame ==
  ASSUME NEW m \in CPU, NEW n, NEW h, n = [m EXCEPT !.high = h], NEW dst, NEW res, NEW P
  PROVE  /\ Write(n, dst, res, P).REG = Write(m, dst, res, P).REG
         /\ Write(n, dst, res, P).PSW = Write(m, dst, res, P).PSW
         /\ StoreBits(n, dst, res, P).REG = StoreBits(m, dst, res, P).REG
         /\ StoreBits(n, dst, res, P).PSW = StoreBits(m, dst, res, P).PSW
<1>1. n \in [REG : {m.REG}, PSW : {m.PSW}, high : {h}]
  BY DEF CPU
<1>2. m \in [REG : {m.REG}, PSW : {m.PSW}, high : {m.high}]
  BY DEF CPU
<1>3. ASSUME NEW reg, NEW psw, NEW z
      PROVE  /\ [n EXCEPT !.REG = reg, !.PSW = psw, !.high = z].REG
                  = [m EXCEPT !.REG = reg, !.PSW = psw, !.high = z].REG
             /\ [n EXCEPT !.REG = reg, !.PSW = psw, !.high = z].PSW
                  = [m EXCEPT !.REG = reg, !.PSW = psw, !.high = z].PSW
  BY <1>1, <1>2
<1>. DEFINE reg == [m.REG EXCEPT ![dst] = res]
            psw == [m.PSW EXCEPT !.N = BIT_CHECK(res, MSBi(P)), !.Z = Flag(res = 0)]
<1>4. /\ Write(n, dst, res, P) = [n EXCEPT !.REG = reg, !.PSW = P, !.high = MSB(res)]
      /\ Write(m, dst, res, P) = [m EXCEPT !.REG = reg, !.PSW = P, !.high = MSB(res)]
  BY <1>1 DEF Write
<1>5. /\ StoreBits(n, dst, res, P) = [n EXCEPT !.REG = reg, !.PSW = psw]
      /\ StoreBits(m, dst, res, P) = [m EXCEPT !.REG = reg, !.PSW = psw]
  BY <1>1 DEF StoreBits
<1>. DEFINE z == MSB(res)
<1>6. /\ Write(n, dst, res, P) = [n EXCEPT !.REG = reg, !.PSW = P, !.high = z]
      /\ Write(m, dst, res, P) = [m EXCEPT !.REG = reg, !.PSW = P, !.high = z]
  BY <1>4
<1>. HIDE DEF reg, psw, z
<1>7. /\ Write(n, dst, res, P).REG = Write(m, dst, res, P).REG
      /\ Write(n, dst, res, P).PSW = Write(m, dst, res, P).PSW
  BY <1>3, <1>6
<1>8. /\ StoreBits(n, dst, res, P).REG = StoreBits(m, dst, res, P).REG
      /\ StoreBits(n, dst, res, P).PSW = StoreBits(m, dst, res, P).PSW
  <2>1. ASSUME NEW k \in {m, n}
        PROVE  [k EXCEPT !.REG = reg, !.PSW = psw].REG = reg /\ [k EXCEPT !.REG = reg, !.PSW = psw].PSW = psw
    BY <1>1, <1>2
  <2>. QED BY <1>5, <2>1
<1>. QED BY <1>7, <1>8

\* The flags of a byte do not depend on the other byte.
LEMMA FlagsOfByte ==
  ASSUME CodeWidth, NEW src, NEW dst, NEW l \in Bytes, NEW g \in Bytes, NEW h \in Bytes
  PROVE  update_PSW(src, dst, Join(g, l), BYTE) = update_PSW(src, dst, Join(h, l), BYTE)
<1>1. ASSUME NEW k \in Bytes
      PROVE  /\ BIT_CHECK(Join(k, l), MSBi(BYTE)) = IF l < 128 THEN 0 ELSE 1
             /\ Join(k, l) % 2^Bits(BYTE) = l
  <2>1. Join(k, l) \in Words /\ Join(k, l) % 256 = l
    BY Joined, Parts
  <2>. QED BY <2>1, SignBits, Powers
<1>. QED BY <1>1 DEF update_PSW

\* The high byte that an instruction finds in temp_reg_A, left by the one before, shows in no
\* register and no flag, unless the instruction is the byte form of XOR
\* (Two_Operand_instructions.cpp).
THEOREM HighByteUnread ==
  ASSUME CodeWidth, NEW m \in CPU, NEW h \in Bytes, NEW n, n = [m EXCEPT !.high = h],
         NEW inst \in {"ADD", "ADDC", "SUB", "SUBC", "DADD", "CMP", "XOR", "AND", "BIT", "BIC",
                       "BIS", "MOV", "SWAP"},
         NEW rc \in {REGISTER, CONSTANT_}, NEW size \in Sizes, NEW source, NEW dst \in Regs,
         source \in IF rc = REGISTER THEN Regs ELSE Constants,
         inst = "XOR" => size = WORD
  PROVE  /\ two_operand_execution(n, inst, rc, size, source, dst).REG
              = two_operand_execution(m, inst, rc, size, source, dst).REG
         /\ two_operand_execution(n, inst, rc, size, source, dst).PSW
              = two_operand_execution(m, inst, rc, size, source, dst).PSW
<1>. DEFINE s == Operand(m, rc, source)
            x == m.REG[dst]
<1>1. n.REG = m.REG /\ n.PSW = m.PSW /\ n.high = h
  BY DEF CPU
<1>2. Operand(n, rc, source) = s
  BY <1>1 DEF Operand
<1>n. n \in [REG : {m.REG}, PSW : {m.PSW}, high : {h}]
  BY DEF CPU
<1>m. m \in [REG : {m.REG}, PSW : {m.PSW}, high : {m.high}]
  BY DEF CPU
<1>s. s \in Words /\ x \in Words
  <2>. DEFINE from == <<rc, source>>
  <2>1. from \in {<<REGISTER, r>> : r \in Regs} \cup {<<CONSTANT_, k>> : k \in Constants}
    BY DEF REGISTER, CONSTANT_
  <2>2. from[1] = rc /\ from[2] = source
    OBVIOUS
  <2>. HIDE DEF from
  <2>3. s \in Words
    BY <2>1, <2>2, OperandType
  <2>. QED BY <2>3 DEF CPU
<1>. HIDE DEF s
<1>3. ASSUME NEW y, NEW b
      PROVE  /\ arrithmetic(n, y, dst, b, size).REG = arrithmetic(m, y, dst, b, size).REG
             /\ arrithmetic(n, y, dst, b, size).PSW = arrithmetic(m, y, dst, b, size).PSW
  BY <1>1, WriteSame DEF arrithmetic
<1>4. CASE inst \in {"ADD", "ADDC", "SUB", "SUBC"}
  BY <1>1, <1>2, <1>3, <1>4 DEF two_operand_execution, ADD, ADDC, SUB, SUBC, s
<1>5. CASE inst = "CMP"
  <2>. DEFINE a == arrithmetic(n, Not(s), dst, 1, size)
              c == arrithmetic(m, Not(s), dst, 1, size)
  <2>1. /\ two_operand_execution(n, inst, rc, size, source, dst) = [a EXCEPT !.REG = m.REG]
        /\ two_operand_execution(m, inst, rc, size, source, dst) = [c EXCEPT !.REG = m.REG]
    BY <1>1, <1>2, <1>5 DEF two_operand_execution, CMP, s
  <2>2. a.PSW = c.PSW
    BY <1>3
  <2>3. /\ a \in [REG : {a.REG}, PSW : {a.PSW}, high : {a.high}]
        /\ c \in [REG : {c.REG}, PSW : {c.PSW}, high : {c.high}]
    <3>1. ASSUME NEW k \in {m, n}, NEW res, NEW P, NEW w, w = Write(k, dst, res, P)
          PROVE  w \in [REG : {w.REG}, PSW : {w.PSW}, high : {w.high}]
      <4>. DEFINE reg == [k.REG EXCEPT ![dst] = res]
                  z == MSB(res)
      <4>1. w = [k EXCEPT !.REG = reg, !.PSW = P, !.high = z]
        BY <3>1 DEF Write
      <4>. HIDE DEF reg, z
      <4>. QED BY <4>1, <1>n, <1>m
    <3>. QED BY <3>1 DEF arrithmetic
  <2>. HIDE DEF a, c
  <2>. QED BY <2>1, <2>2, <2>3
<1>6. CASE inst = "DADD"
  <2>. DEFINE n0 == bcd_add(Digit(s, 0), Digit(x, 0), m.PSW.C)
              n1 == bcd_add(Digit(s, 1), Digit(x, 1), n0.carry)
              n2 == bcd_add(Digit(s, 2), Digit(x, 2), n1.carry)
              n3 == bcd_add(Digit(s, 3), Digit(x, 3), n2.carry)
              res == Replace(x, Digits(n0.res, n1.res, n2.res, n3.res), size)
              P == [m.PSW EXCEPT !.C = IF size = WORD THEN n3.carry ELSE n1.carry]
  <2>1. /\ two_operand_execution(n, inst, rc, size, source, dst) = Write(n, dst, res, P)
        /\ two_operand_execution(m, inst, rc, size, source, dst) = Write(m, dst, res, P)
    <3>1. /\ two_operand_execution(n, inst, rc, size, source, dst) = DADD(n, s, dst, size)
          /\ two_operand_execution(m, inst, rc, size, source, dst) = DADD(m, s, dst, size)
      BY <1>2, <1>6 DEF two_operand_execution, s
    <3>2. DADD(n, s, dst, size) = Write(n, dst, res, P) /\ DADD(m, s, dst, size) = Write(m, dst, res, P)
      BY <1>1 DEF DADD
    <3>. QED BY <3>1, <3>2
  <2>. HIDE DEF res, P
  <2>. QED BY <2>1, WriteSame
<1>7. CASE inst \in {"XOR", "AND"}
  <2>. DEFINE xor == Bitwise(XorBits, x, s)
              and == Replace(x, Bitwise(AndBits, x, s), size)
              res == IF inst = "XOR" THEN xor ELSE and
              P == update_PSW(s, x, res, size)
  <2>1. ASSUME NEW k \in {m, n}
        PROVE  two_operand_execution(k, inst, rc, size, source, dst) = Write(k, dst, res, P)
    <3>1. CASE inst = "XOR"
      <4>1. two_operand_execution(k, inst, rc, size, source, dst) = XOR(k, s, dst, size)
        BY <1>2, <3>1 DEF two_operand_execution, s
      <4>. QED BY <1>1, <3>1, <4>1 DEF XOR
    <3>2. CASE inst = "AND"
      <4>1. two_operand_execution(k, inst, rc, size, source, dst) = AND(k, s, dst, size)
        BY <1>2, <3>2 DEF two_operand_execution, s
      <4>. QED BY <1>1, <3>2, <4>1 DEF AND
    <3>. QED BY <1>7, <3>1, <3>2
  <2>. HIDE DEF res, P
  <2>. QED BY <2>1, WriteSame
<1>8. CASE inst = "BIT"
  <2>. DEFINE y == Bitwise(AndBits, x, s)
              Res(k) == IF size = WORD THEN y ELSE Join(k.high, LSB(y))
              P(k) == update_PSW(s, x, Res(k), size)
              z(k) == MSB(Res(k))
  <2>1. ASSUME NEW k \in {m, n}
        PROVE  two_operand_execution(k, inst, rc, size, source, dst)
                 = [k EXCEPT !.PSW = P(k), !.high = z(k)]
    <3>1. two_operand_execution(k, inst, rc, size, source, dst) = BIT(k, s, dst, size)
      BY <1>2, <1>8 DEF two_operand_execution, s
    <3>. QED BY <1>1, <3>1 DEF BIT
  <2>2. P(m) = P(n)
    <3>1. CASE size = WORD
      BY <3>1
    <3>2. CASE size = BYTE
      <4>1. y \in Words
        BY <1>s, BitwiseWords
      <4>2. LSB(y) \in Bytes /\ m.high \in Bytes /\ n.high \in Bytes
        BY <1>1, <4>1, Parts DEF CPU
      <4>3. size # WORD
        BY <3>2, Exponents
      <4>4. Res(m) = Join(m.high, LSB(y)) /\ Res(n) = Join(n.high, LSB(y))
        BY <4>3
      <4>. HIDE DEF y, Res
      <4>. QED BY <3>2, <4>2, <4>4, FlagsOfByte
    <3>. QED BY <3>1, <3>2 DEF Sizes
  <2>. HIDE DEF P, z
  <2>3. ASSUME NEW k \in {m, n}
        PROVE  /\ two_operand_execution(k, inst, rc, size, source, dst).REG = m.REG
               /\ two_operand_execution(k, inst, rc, size, source, dst).PSW = P(k)
    <3>1. ASSUME NEW psw, NEW w
          PROVE  /\ [k EXCEPT !.PSW = psw, !.high = w].REG = m.REG
                 /\ [k EXCEPT !.PSW = psw, !.high = w].PSW = psw
      BY <1>n, <1>m
    <3>2. \E psw, w : /\ psw = P(k)
                      /\ two_operand_execution(k, inst, rc, size, source, dst)
                           = [k EXCEPT !.PSW = psw, !.high = w]
      BY <2>1
    <3>. QED BY <3>1, <3>2
  <2>. QED BY <2>2, <2>3
<1>9. CASE inst \in {"BIC", "BIS"}
  <2>. DEFINE bic == Replace(x, Bitwise(AndBits, x, Not(s)), size)
              bis == Replace(x, Bitwise(OrBits, x, s), size)
              res == IF inst = "BIC" THEN bic ELSE bis
  <2>1. ASSUME NEW k \in {m, n}
        PROVE  two_operand_execution(k, inst, rc, size, source, dst) = StoreBits(k, dst, res, size)
    <3>1. CASE inst = "BIC"
      <4>1. two_operand_execution(k, inst, rc, size, source, dst) = BIC(k, s, dst, size)
        BY <1>2, <3>1 DEF two_operand_execution, s
      <4>. QED BY <1>1, <3>1, <4>1 DEF BIC
    <3>2. CASE inst = "BIS"
      <4>1. two_operand_execution(k, inst, rc, size, source, dst) = BIS(k, s, dst, size)
        BY <1>2, <3>2 DEF two_operand_execution, s
      <4>. QED BY <1>1, <3>2, <4>1 DEF BIS
    <3>. QED BY <1>9, <3>1, <3>2
  <2>. HIDE DEF res
  <2>. QED BY <2>1, WriteSame
<1>10. CASE inst = "MOV"
  <2>. DEFINE reg == [m.REG EXCEPT ![dst] = Replace(x, s, size)]
  <2>1. ASSUME NEW k \in {m, n}
        PROVE  two_operand_execution(k, inst, rc, size, source, dst) = [k EXCEPT !.REG = reg]
    BY <1>1, <1>2, <1>10 DEF two_operand_execution, MOV, s
  <2>. HIDE DEF reg
  <2>. QED BY <1>n, <1>m, <2>1
<1>11. CASE inst = "SWAP"
  <2>. DEFINE reg == [m.REG EXCEPT ![dst] = m.REG[source], ![source] = x]
              z == MSB(x)
  <2>1. ASSUME NEW k \in {m, n}
        PROVE  two_operand_execution(k, inst, rc, size, source, dst)
                 = [k EXCEPT !.REG = reg, !.high = z]
    <3>1. two_operand_execution(k, inst, rc, size, source, dst) = SWAP(k, source, dst)
      BY <1>11 DEF two_operand_execution
    <3>2. SWAP(k, source, dst)
            = [k EXCEPT !.REG = [k.REG EXCEPT ![dst] = k.REG[source], ![source] = k.REG[dst]],
                        !.high = MSB(k.REG[dst])]
      BY <1>n, <1>m DEF SWAP
    <3>. QED BY <1>1, <3>1, <3>2
  <2>. HIDE DEF reg, z
  <2>. QED BY <1>n, <1>m, <2>1
<1>. QED BY <1>4, <1>5, <1>6, <1>7, <1>8, <1>9, <1>10, <1>11

\* Of the instructions of one register none reads the high byte.
LEMMA HighByteUnreadAlone ==
  ASSUME NEW m \in CPU, NEW h, NEW n, n = [m EXCEPT !.high = h],
         NEW inst \in {"SRA", "RRC", "SWPB", "SXT"}, NEW size, NEW dst
  PROVE  /\ single_register_execution(n, inst, size, dst).REG
              = single_register_execution(m, inst, size, dst).REG
         /\ single_register_execution(n, inst, size, dst).PSW
              = single_register_execution(m, inst, size, dst).PSW
<1>. DEFINE x == m.REG[dst]
<1>1. n.REG = m.REG /\ n.PSW = m.PSW
  BY DEF CPU
<1>n. n \in [REG : {m.REG}, PSW : {m.PSW}, high : {h}]
  BY DEF CPU
<1>m. m \in [REG : {m.REG}, PSW : {m.PSW}, high : {m.high}]
  BY DEF CPU
<1>2. CASE inst \in {"SRA", "RRC", "SXT"}
  BY <1>1, <1>2, WriteSame DEF single_register_execution, SRA, RRC, SXT, Shifted
<1>3. CASE inst = "SWPB"
  <2>. DEFINE reg == [m.REG EXCEPT ![dst] = Join(LSB(x), MSB(x))]
              z == MSB(x)
  <2>1. ASSUME NEW k \in {m, n}
        PROVE  single_register_execution(k, inst, size, dst) = [k EXCEPT !.REG = reg, !.high = z]
    BY <1>1, <1>3 DEF single_register_execution, SWPB
  <2>. HIDE DEF reg, z
  <2>. QED BY <1>n, <1>m, <2>1
<1>. QED BY <1>2, <1>3
=============================================================================
