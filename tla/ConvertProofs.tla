---------------------------- MODULE ConvertProofs ----------------------------
(***************************************************************************)
(* convert-ng, for every set of command lines and of inputs: the buffer    *)
(* holds bytes through any chain, a chain that undoes itself gives the     *)
(* input back, a search finds what it searches, which codecs can leave no  *)
(* result, and what a notation writes its decoder reads back.              *)
(***************************************************************************)
EXTENDS Convert, NaturalRecursion, SequenceTheorems, FiniteSetTheorems

-----------------------------------------------------------------------------
(***************************************************************************)
(* Bytes and their bits.                                                   *)
(***************************************************************************)
Bit == 0 .. 1

\* The k-th bit of a byte, the lowest one first.
BitAt(b, k) == (b \div 2 ^ (k - 1)) % 2

LEMMA PowersOf2 ==
  2 ^ 0 = 1 /\ 2 ^ 1 = 2 /\ 2 ^ 2 = 4 /\ 2 ^ 3 = 8 /\ 2 ^ 4 = 16 /\ 2 ^ 5 = 32 /\ 2 ^ 6 = 64 /\ 2 ^ 7 = 128
BY SMT

\* A bit is 0 or 1, and the eight bits of a byte make the byte.
LEMMA BitAtIs ==
  ASSUME NEW b \in Byte
  PROVE  /\ BitAt(b, 1) = b % 2 /\ BitAt(b, 2) = (b \div 2) % 2
         /\ BitAt(b, 3) = (b \div 4) % 2 /\ BitAt(b, 4) = (b \div 8) % 2
         /\ BitAt(b, 5) = (b \div 16) % 2 /\ BitAt(b, 6) = (b \div 32) % 2
         /\ BitAt(b, 7) = (b \div 64) % 2 /\ BitAt(b, 8) = (b \div 128) % 2
         /\ \A k \in 1 .. 8 : BitAt(b, k) \in Bit
<1>1. b \in Int /\ b \div 1 = b
  BY DEF Byte
<1>2. /\ BitAt(b, 1) = (b \div 2 ^ 0) % 2 /\ BitAt(b, 2) = (b \div 2 ^ 1) % 2
      /\ BitAt(b, 3) = (b \div 2 ^ 2) % 2 /\ BitAt(b, 4) = (b \div 2 ^ 3) % 2
      /\ BitAt(b, 5) = (b \div 2 ^ 4) % 2 /\ BitAt(b, 6) = (b \div 2 ^ 5) % 2
      /\ BitAt(b, 7) = (b \div 2 ^ 6) % 2 /\ BitAt(b, 8) = (b \div 2 ^ 7) % 2
  BY DEF BitAt
<1>3. /\ BitAt(b, 1) = b % 2 /\ BitAt(b, 2) = (b \div 2) % 2
      /\ BitAt(b, 3) = (b \div 4) % 2 /\ BitAt(b, 4) = (b \div 8) % 2
      /\ BitAt(b, 5) = (b \div 16) % 2 /\ BitAt(b, 6) = (b \div 32) % 2
      /\ BitAt(b, 7) = (b \div 64) % 2 /\ BitAt(b, 8) = (b \div 128) % 2
  BY <1>1, <1>2, PowersOf2
<1>4. \A k \in 1 .. 8 : BitAt(b, k) \in Bit
  BY <1>1, <1>3 DEF Bit
<1> QED BY <1>3, <1>4

LEMMA ByteOfBits ==
  ASSUME NEW b \in Byte
  PROVE  ByteOf([k \in 1 .. 8 |-> BitAt(b, k)]) = b
<1> DEFINE c == [k \in 1 .. 8 |-> BitAt(b, k)]
<1>1. /\ c[1] = b % 2 /\ c[2] = (b \div 2) % 2 /\ c[3] = (b \div 4) % 2 /\ c[4] = (b \div 8) % 2
      /\ c[5] = (b \div 16) % 2 /\ c[6] = (b \div 32) % 2 /\ c[7] = (b \div 64) % 2 /\ c[8] = (b \div 128) % 2
  BY BitAtIs
<1> HIDE DEF c
<1>2. ByteOf(c) = b
  <2>1. ByteOf(c) = (b % 2) + 2 * ((b \div 2) % 2) + 4 * ((b \div 4) % 2) + 8 * ((b \div 8) % 2)
                    + 16 * ((b \div 16) % 2) + 32 * ((b \div 32) % 2) + 64 * ((b \div 64) % 2)
                    + 128 * ((b \div 128) % 2)
    BY <1>1 DEF ByteOf
  <2> QED BY <2>1 DEF Byte
<1> QED BY <1>2 DEF c

LEMMA BitsOfByte ==
  ASSUME NEW c \in [1 .. 8 -> Bit]
  PROVE  ByteOf(c) \in Byte /\ \A k \in 1 .. 8 : BitAt(ByteOf(c), k) = c[k]
<1>1. /\ c[1] \in 0 .. 1 /\ c[2] \in 0 .. 1 /\ c[3] \in 0 .. 1 /\ c[4] \in 0 .. 1
      /\ c[5] \in 0 .. 1 /\ c[6] \in 0 .. 1 /\ c[7] \in 0 .. 1 /\ c[8] \in 0 .. 1
  BY DEF Bit
<1>2. ByteOf(c) \in Byte
  BY <1>1 DEF ByteOf, Byte
<1>3. /\ ByteOf(c) % 2 = c[1] /\ (ByteOf(c) \div 2) % 2 = c[2]
      /\ (ByteOf(c) \div 4) % 2 = c[3] /\ (ByteOf(c) \div 8) % 2 = c[4]
  BY <1>1 DEF ByteOf
<1>4. /\ (ByteOf(c) \div 16) % 2 = c[5] /\ (ByteOf(c) \div 32) % 2 = c[6]
      /\ (ByteOf(c) \div 64) % 2 = c[7] /\ (ByteOf(c) \div 128) % 2 = c[8]
  BY <1>1 DEF ByteOf
<1>5. ASSUME NEW k \in 1 .. 8 PROVE BitAt(ByteOf(c), k) = c[k]
  BY <1>2, <1>3, <1>4, BitAtIs
<1> QED BY <1>2, <1>5

\* Where the k-th bit of the i-th byte is.
LEMMA Place ==
  ASSUME NEW n \in Nat, NEW j \in 1 .. 8 * n
  PROVE  \E i \in 1 .. n, k \in 1 .. 8 :
           j = 8 * (i - 1) + k /\ i = ((j - 1) \div 8) + 1 /\ k = ((j - 1) % 8) + 1
<1> DEFINE i == ((j - 1) \div 8) + 1
           k == ((j - 1) % 8) + 1
<1>1. i \in 1 .. n /\ k \in 1 .. 8 /\ j = 8 * (i - 1) + k
  OBVIOUS
<1> QED BY <1>1

LEMMA PlaceIs ==
  ASSUME NEW n \in Nat, NEW i \in 1 .. n, NEW k \in 1 .. 8
  PROVE  /\ 8 * (i - 1) + k \in 1 .. 8 * n
         /\ ((8 * (i - 1) + k - 1) \div 8) + 1 = i /\ ((8 * (i - 1) + k - 1) % 8) + 1 = k
OBVIOUS

\* The bits of a word are those of its bytes.
LEMMA BitsAre ==
  ASSUME NEW word \in Seq(Byte)
  PROVE  /\ Bits(word) \in [1 .. 8 * Len(word) -> Bit]
         /\ \A i \in 1 .. Len(word), k \in 1 .. 8 : Bits(word)[8 * (i - 1) + k] = BitAt(word[i], k)
<1>1. ASSUME NEW j \in 1 .. 8 * Len(word), NEW i, NEW k, i = ((j - 1) \div 8) + 1, k = ((j - 1) % 8) + 1
      PROVE  Bits(word)[j] = BitAt(word[i], k)
  <2>1. k - 1 = (j - 1) % 8
    BY <1>1
  <2> QED BY <1>1, <2>1 DEF Bits, BitAt
<1>2. ASSUME NEW i \in 1 .. Len(word), NEW k \in 1 .. 8
      PROVE  Bits(word)[8 * (i - 1) + k] = BitAt(word[i], k)
  <2> DEFINE j == 8 * (i - 1) + k
  <2>1. j \in 1 .. 8 * Len(word) /\ ((j - 1) \div 8) + 1 = i /\ ((j - 1) % 8) + 1 = k
    BY PlaceIs
  <2> HIDE DEF j
  <2>2. Bits(word)[j] = BitAt(word[i], k)
    BY <1>1, <2>1
  <2> QED BY <2>2 DEF j
<1>3. ASSUME NEW j \in 1 .. 8 * Len(word) PROVE Bits(word)[j] \in Bit
  <2>1. PICK i \in 1 .. Len(word), k \in 1 .. 8 : i = ((j - 1) \div 8) + 1 /\ k = ((j - 1) % 8) + 1
    BY Place
  <2>2. Bits(word)[j] = BitAt(word[i], k)
    BY <1>1, <2>1
  <2> QED BY <2>2, BitAtIs
<1>4. Bits(word) = [j \in 1 .. 8 * Len(word) |-> Bits(word)[j]]
  BY DEF Bits
<1> QED BY <1>2, <1>3, <1>4

\* Words of the same size with the same bits are the same.
LEMMA SameBits ==
  ASSUME NEW v \in Seq(Byte), NEW w \in Seq(Byte), Len(v) = Len(w),
         \A j \in 1 .. 8 * Len(v) : Bits(v)[j] = Bits(w)[j]
  PROVE  v = w
<1>1. ASSUME NEW i \in 1 .. Len(v) PROVE v[i] = w[i]
  <2>1. ASSUME NEW k \in 1 .. 8 PROVE BitAt(v[i], k) = BitAt(w[i], k)
    <3>1. Bits(v)[8 * (i - 1) + k] = BitAt(v[i], k)
      BY BitsAre
    <3>2. Bits(w)[8 * (i - 1) + k] = BitAt(w[i], k)
      BY BitsAre
    <3>3. 8 * (i - 1) + k \in 1 .. 8 * Len(v)
      BY PlaceIs
    <3> QED BY <3>1, <3>2, <3>3
  <2>2. [k \in 1 .. 8 |-> BitAt(v[i], k)] = [k \in 1 .. 8 |-> BitAt(w[i], k)]
    BY <2>1
  <2>3. v[i] \in Byte /\ w[i] \in Byte
    OBVIOUS
  <2> QED BY <2>2, <2>3, ByteOfBits
<1> QED BY <1>1

\* Bits in groups of eight make a word with these bits.
LEMMA FromBitsAre ==
  ASSUME NEW n \in Nat, NEW bits \in [1 .. 8 * n -> Bit]
  PROVE  FromBits(bits) \in Seq(Byte) /\ Len(FromBits(bits)) = n /\ Bits(FromBits(bits)) = bits
<1> DEFINE c(i) == [k \in 1 .. 8 |-> bits[8 * (i - 1) + k]]
           word == FromBits(bits)
<1>1. 8 * n \in Nat /\ (8 * n) \div 8 = n
  OBVIOUS
<1>2. Len(bits) = 8 * n
  BY <1>1
<1>3. word = [i \in 1 .. n |-> ByteOf(c(i))]
  BY <1>1, <1>2 DEF FromBits
<1>4. ASSUME NEW i \in 1 .. n PROVE c(i) \in [1 .. 8 -> Bit]
  BY PlaceIs
<1>5. \A i \in 1 .. n : ByteOf(c(i)) \in Byte
  BY <1>4, BitsOfByte
<1>6. word \in Seq(Byte) /\ Len(word) = n
  <2>1. word \in [1 .. n -> Byte]
    BY <1>3, <1>5
  <2> HIDE DEF word
  <2> QED BY <2>1
<1>7. ASSUME NEW j \in 1 .. 8 * n PROVE Bits(word)[j] = bits[j]
  <2>1. PICK i \in 1 .. n, k \in 1 .. 8 : j = 8 * (i - 1) + k
    BY Place
  <2>2. Bits(word)[j] = BitAt(word[i], k)
    BY <1>6, <2>1, BitsAre
  <2>3. BitAt(word[i], k) = c(i)[k]
    BY <1>3, <1>4, BitsOfByte
  <2> QED BY <2>1, <2>2, <2>3
<1>8. Bits(word) \in [1 .. 8 * n -> Bit]
  BY <1>6, BitsAre
<1> HIDE DEF word
<1>9. Bits(word) = bits
  BY <1>7, <1>8
<1> QED BY <1>6, <1>9 DEF word

-----------------------------------------------------------------------------
(***************************************************************************)
(* Words and what is done to one.                                          *)
(***************************************************************************)
Width == {1, 2, 4}

Word(w) == {word \in Seq(Byte) : Len(word) = w}

LEMMA PowersOf256 ==
  256 ^ 0 = 1 /\ 256 ^ 1 = 256 /\ 256 ^ 2 = 65536 /\ 256 ^ 3 = 16777216 /\ 256 ^ 4 = 4294967296
BY SMT

\* The lowest byte of an integer, and the next ones.
IsLow(d, x, n) ==
  /\ d \in Word(n)
  /\ n >= 1 => d[1] = x % 256
  /\ n >= 2 => d[2] = (x \div 256) % 256
  /\ n >= 3 => d[3] = (x \div 65536) % 256
  /\ n >= 4 => d[4] = (x \div 16777216) % 256

LEMMA LowBytes ==
  ASSUME NEW x \in Int, NEW n \in 0 .. 4
  PROVE  IsLow(LowDigits(x, n, 256), x, n)
<1> DEFINE d == LowDigits(x, n, 256)
           P(i) == 256 ^ (i - 1)
<1>1. d = [i \in 1 .. n |-> (x \div P(i)) % 256]
  BY DEF LowDigits
<1>2. P(1) = 256 ^ 0 /\ P(2) = 256 ^ 1 /\ P(3) = 256 ^ 2 /\ P(4) = 256 ^ 3
  OBVIOUS
<1>3. P(1) = 1 /\ P(2) = 256 /\ P(3) = 65536 /\ P(4) = 16777216
  BY <1>2, PowersOf256
<1> HIDE DEF d, P
<1>4. x \div 1 = x
  OBVIOUS
<1>5. /\ n >= 1 => d[1] = x % 256
      /\ n >= 2 => d[2] = (x \div 256) % 256
      /\ n >= 3 => d[3] = (x \div 65536) % 256
      /\ n >= 4 => d[4] = (x \div 16777216) % 256
  <2>1. n \in Int
    OBVIOUS
  <2>2. n >= 1 => d[1] = (x \div P(1)) % 256
    BY <1>1, <2>1
  <2>3. n >= 2 => d[2] = (x \div P(2)) % 256
    BY <1>1, <2>1
  <2>4. n >= 3 => d[3] = (x \div P(3)) % 256
    BY <1>1, <2>1
  <2>5. n >= 4 => d[4] = (x \div P(4)) % 256
    BY <1>1, <2>1
  <2> QED BY <1>3, <1>4, <2>2, <2>3, <2>4, <2>5
<1>6. \A i \in 1 .. n : i = 1 \/ i = 2 \/ i = 3 \/ i = 4
  OBVIOUS
<1>7. \A i \in 1 .. n : (x \div P(i)) % 256 \in Byte
  BY <1>3, <1>6 DEF Byte
<1>8. d \in [1 .. n -> Byte]
  BY <1>1, <1>7
<1>9. d \in Seq(Byte) /\ Len(d) = n
  BY <1>8
<1> QED BY <1>5, <1>9 DEF d, Word, IsLow

LEMMA KeyBytesAre ==
  ASSUME NEW key \in Int, NEW w \in Width
  PROVE  KeyBytes(key, w) \in Word(w)
<1>1. w \in 0 .. 4
  BY DEF Width
<1>2. IsLow(LowDigits(key, w, 256), key, w)
  BY <1>1, LowBytes
<1> QED BY <1>2 DEF KeyBytes, IsLow

\* Each bit of the sum is the bit of the word or its complement.
LEMMA XorIs ==
  ASSUME NEW w \in Width, NEW word \in Word(w), NEW key \in Int
  PROVE  /\ Xor(word, key) \in Word(w)
         /\ Bits(Xor(word, key)) =
              [j \in 1 .. 8 * w |-> (Bits(word)[j] + Bits(KeyBytes(key, w))[j]) % 2]
<1> DEFINE a == Bits(word)
           b == Bits(KeyBytes(key, w))
           c == [j \in 1 .. 8 * w |-> (a[j] + b[j]) % 2]
<1>1. w \in Nat /\ word \in Seq(Byte) /\ Len(word) = w
  BY DEF Width, Word
<1>2. KeyBytes(key, w) \in Seq(Byte) /\ Len(KeyBytes(key, w)) = w
  BY KeyBytesAre DEF Word
<1>3. a \in [1 .. 8 * w -> Bit] /\ b \in [1 .. 8 * w -> Bit]
  BY <1>1, <1>2, BitsAre
<1>4. Xor(word, key) = FromBits(c)
  <2>1. DOMAIN a = 1 .. 8 * w
    BY <1>3
  <2> QED BY <1>1, <2>1 DEF Xor
<1> HIDE DEF a, b
<1>5. c \in [1 .. 8 * w -> Bit]
  <2>1. \A j \in 1 .. 8 * w : (a[j] + b[j]) % 2 \in Bit
    <3>1. \A x, y \in Bit : (x + y) % 2 \in Bit
      BY DEF Bit
    <3> QED BY <1>3, <3>1
  <2> QED BY <2>1
<1> HIDE DEF c
<1>6. FromBits(c) \in Seq(Byte) /\ Len(FromBits(c)) = w /\ Bits(FromBits(c)) = c
  BY <1>1, <1>5, FromBitsAre
<1> QED BY <1>4, <1>6 DEF Word, c, a, b

\* The same key takes the change back.
LEMMA XorTwice ==
  ASSUME NEW w \in Width, NEW word \in Word(w), NEW key \in Int
  PROVE  Xor(Xor(word, key), key) = word
<1> DEFINE a == Bits(word)
           b == Bits(KeyBytes(key, w))
           v == Xor(word, key)
           u == Xor(v, key)
<1>1. v \in Word(w) /\ Bits(v) = [j \in 1 .. 8 * w |-> (a[j] + b[j]) % 2]
  BY XorIs
<1> HIDE DEF v
<1>2. u \in Word(w) /\ Bits(u) = [j \in 1 .. 8 * w |-> (Bits(v)[j] + b[j]) % 2]
  BY <1>1, XorIs
<1>3. word \in Seq(Byte) /\ Len(word) = w /\ u \in Seq(Byte) /\ Len(u) = w
  BY <1>2 DEF Word
<1>4. KeyBytes(key, w) \in Seq(Byte) /\ Len(KeyBytes(key, w)) = w
  BY KeyBytesAre DEF Word
<1>5. a \in [1 .. 8 * w -> Bit] /\ b \in [1 .. 8 * w -> Bit]
  BY <1>3, <1>4, BitsAre
<1> HIDE DEF a, b, u
<1>6. ASSUME NEW j \in 1 .. 8 * w PROVE Bits(u)[j] = a[j]
  <2>1. \A x, y \in Bit : (((x + y) % 2) + y) % 2 = x
    BY DEF Bit
  <2>2. Bits(u)[j] = (((a[j] + b[j]) % 2) + b[j]) % 2
    BY <1>1, <1>2
  <2> QED BY <1>5, <2>1, <2>2
<1>7. u = word
  BY <1>3, <1>6, SameBits DEF a
<1> QED BY <1>7 DEF u, v

\* A bit moves up by k places, or down.
LEMMA ShlIs ==
  ASSUME NEW w \in Width, NEW word \in Word(w), NEW k \in Int
  PROVE  /\ Shl(word, k) \in Word(w)
         /\ Bits(Shl(word, k)) = [j \in 1 .. 8 * w |-> IF j - k \in 1 .. 8 * w THEN Bits(word)[j - k] ELSE 0]
<1> DEFINE a == Bits(word)
           c == [j \in 1 .. 8 * w |-> IF j - k \in 1 .. 8 * w THEN a[j - k] ELSE 0]
<1>1. w \in Nat /\ word \in Seq(Byte) /\ Len(word) = w
  BY DEF Width, Word
<1>2. a \in [1 .. 8 * w -> Bit]
  BY <1>1, BitsAre
<1>3. Shl(word, k) = FromBits(c)
  <2>1. DOMAIN a = 1 .. 8 * w
    BY <1>2
  <2> QED BY <2>1 DEF Shl
<1> HIDE DEF a
<1>4. c \in [1 .. 8 * w -> Bit]
  BY <1>2 DEF Bit
<1> HIDE DEF c
<1>5. FromBits(c) \in Seq(Byte) /\ Len(FromBits(c)) = w /\ Bits(FromBits(c)) = c
  BY <1>1, <1>4, FromBitsAre
<1> QED BY <1>3, <1>5 DEF Word, c, a

LEMMA ShrIs ==
  ASSUME NEW w \in Width, NEW word \in Word(w), NEW k \in Int
  PROVE  /\ Shr(word, k) \in Word(w)
         /\ Bits(Shr(word, k)) = [j \in 1 .. 8 * w |-> IF j + k \in 1 .. 8 * w THEN Bits(word)[j + k] ELSE 0]
<1> DEFINE a == Bits(word)
           c == [j \in 1 .. 8 * w |-> IF j + k \in 1 .. 8 * w THEN a[j + k] ELSE 0]
<1>1. w \in Nat /\ word \in Seq(Byte) /\ Len(word) = w
  BY DEF Width, Word
<1>2. a \in [1 .. 8 * w -> Bit]
  BY <1>1, BitsAre
<1>3. Shr(word, k) = FromBits(c)
  <2>1. DOMAIN a = 1 .. 8 * w
    BY <1>2
  <2> QED BY <2>1 DEF Shr
<1> HIDE DEF a
<1>4. c \in [1 .. 8 * w -> Bit]
  BY <1>2 DEF Bit
<1> HIDE DEF c
<1>5. FromBits(c) \in Seq(Byte) /\ Len(FromBits(c)) = w /\ Bits(FromBits(c)) = c
  BY <1>1, <1>4, FromBitsAre
<1> QED BY <1>3, <1>5 DEF Word, c, a

LEMMA OrIs ==
  ASSUME NEW w \in Width, NEW u \in Word(w), NEW v \in Word(w)
  PROVE  /\ Or(u, v) \in Word(w)
         /\ Bits(Or(u, v)) = [j \in 1 .. 8 * w |-> IF Bits(u)[j] = 1 \/ Bits(v)[j] = 1 THEN 1 ELSE 0]
<1> DEFINE a == Bits(u)
           b == Bits(v)
           c == [j \in 1 .. 8 * w |-> IF a[j] = 1 \/ b[j] = 1 THEN 1 ELSE 0]
<1>1. w \in Nat /\ u \in Seq(Byte) /\ Len(u) = w
  BY DEF Width, Word
<1>2. Or(u, v) = FromBits(c)
  <2>1. DOMAIN a = 1 .. 8 * w
    BY <1>1, BitsAre
  <2>2. \A x, y : 1 \in {x, y} <=> x = 1 \/ y = 1
    OBVIOUS
  <2>3. Or(u, v) = FromBits([j \in DOMAIN a |-> IF 1 \in {a[j], b[j]} THEN 1 ELSE 0])
    BY DEF Or
  <2> HIDE DEF a, b
  <2> QED BY <2>1, <2>2, <2>3
<1> HIDE DEF a, b
<1>3. c \in [1 .. 8 * w -> Bit]
  BY DEF Bit
<1> HIDE DEF c
<1>4. FromBits(c) \in Seq(Byte) /\ Len(FromBits(c)) = w /\ Bits(FromBits(c)) = c
  BY <1>1, <1>3, FromBitsAre
<1> QED BY <1>2, <1>4 DEF Word, c, a, b

\* A rotation by at most the width keeps every bit.
LEMMA RolIs ==
  ASSUME NEW w \in Width, NEW word \in Word(w), NEW k \in 0 .. 8 * w
  PROVE  /\ Rol(word, k) \in Word(w)
         /\ \A j \in 1 .. 8 * w :
              Bits(Rol(word, k))[j] = IF j - k >= 1 THEN Bits(word)[j - k] ELSE Bits(word)[j - k + 8 * w]
<1> DEFINE a == Bits(word)
           u == Shl(word, k)
           v == Shr(word, 8 * w - k)
<1>1. w \in Nat /\ word \in Seq(Byte) /\ Len(word) = w
  BY DEF Width, Word
<1>2. a \in [1 .. 8 * w -> Bit]
  BY <1>1, BitsAre
<1>3. u \in Word(w) /\ Bits(u) = [j \in 1 .. 8 * w |-> IF j - k \in 1 .. 8 * w THEN a[j - k] ELSE 0]
  BY <1>1, ShlIs, SMTT(30)
<1>4. v \in Word(w) /\ Bits(v) = [j \in 1 .. 8 * w |-> IF j + (8 * w - k) \in 1 .. 8 * w THEN a[j + (8 * w - k)] ELSE 0]
  <2>1. 8 * w - k \in Int
    BY <1>1
  <2> QED BY <2>1, ShrIs, ZenonT(60)
<1>5. Rol(word, k) = Or(u, v)
  BY <1>1 DEF Rol
<1> HIDE DEF u, v, a
<1>6. /\ Or(u, v) \in Word(w)
      /\ Bits(Or(u, v)) = [j \in 1 .. 8 * w |-> IF Bits(u)[j] = 1 \/ Bits(v)[j] = 1 THEN 1 ELSE 0]
  <2>1. u \in Word(w) /\ v \in Word(w)
    BY <1>3, <1>4
  <2> QED BY <2>1, OrIs
<1>7. ASSUME NEW j \in 1 .. 8 * w
      PROVE  Bits(Or(u, v))[j] = IF j - k >= 1 THEN a[j - k] ELSE a[j - k + 8 * w]
  <2>1. Bits(Or(u, v))[j] = IF Bits(u)[j] = 1 \/ Bits(v)[j] = 1 THEN 1 ELSE 0
    BY <1>6
  <2>2. CASE j - k >= 1
    <3>1. j - k \in 1 .. 8 * w /\ (j + (8 * w - k) \in 1 .. 8 * w => k = 8 * w \/ j + (8 * w - k) = j - k)
      BY <1>1, <2>2
    <3>2. ~(j + (8 * w - k) \in 1 .. 8 * w)
      BY <1>1, <2>2
    <3>3. Bits(u)[j] = a[j - k] /\ Bits(v)[j] = 0
      BY <1>3, <1>4, <3>1, <3>2
    <3>4. a[j - k] = 0 \/ a[j - k] = 1
      BY <1>2, <3>1 DEF Bit
    <3> QED BY <2>1, <2>2, <3>3, <3>4
  <2>3. CASE ~(j - k >= 1)
    <3>1. ~(j - k \in 1 .. 8 * w) /\ j + (8 * w - k) \in 1 .. 8 * w /\ j + (8 * w - k) = j - k + 8 * w
      BY <1>1, <2>3
    <3>2. Bits(u)[j] = 0 /\ Bits(v)[j] = a[j + (8 * w - k)]
      BY <1>3, <1>4, <3>1
    <3>3. a[j + (8 * w - k)] = 0 \/ a[j + (8 * w - k)] = 1
      BY <1>2, <3>1 DEF Bit
    <3> QED BY <2>1, <2>3, <3>1, <3>2, <3>3
  <2> QED BY <2>2, <2>3
<1> QED BY <1>5, <1>6, <1>7 DEF a

LEMMA RorIs ==
  ASSUME NEW w \in Width, NEW word \in Word(w), NEW k \in 0 .. 8 * w
  PROVE  /\ Ror(word, k) \in Word(w)
         /\ \A j \in 1 .. 8 * w :
              Bits(Ror(word, k))[j] = IF j + k <= 8 * w THEN Bits(word)[j + k] ELSE Bits(word)[j + k - 8 * w]
<1> DEFINE a == Bits(word)
           u == Shr(word, k)
           v == Shl(word, 8 * w - k)
<1>1. w \in Nat /\ word \in Seq(Byte) /\ Len(word) = w
  BY DEF Width, Word
<1>2. a \in [1 .. 8 * w -> Bit]
  BY <1>1, BitsAre
<1>3. u \in Word(w) /\ Bits(u) = [j \in 1 .. 8 * w |-> IF j + k \in 1 .. 8 * w THEN a[j + k] ELSE 0]
  BY <1>1, ShrIs, SMTT(30)
<1>4. v \in Word(w) /\ Bits(v) = [j \in 1 .. 8 * w |-> IF j - (8 * w - k) \in 1 .. 8 * w THEN a[j - (8 * w - k)] ELSE 0]
  <2>1. 8 * w - k \in Int
    BY <1>1
  <2> QED BY <2>1, ShlIs, ZenonT(60)
<1>5. Ror(word, k) = Or(u, v)
  BY <1>1 DEF Ror
<1> HIDE DEF u, v, a
<1>6. /\ Or(u, v) \in Word(w)
      /\ Bits(Or(u, v)) = [j \in 1 .. 8 * w |-> IF Bits(u)[j] = 1 \/ Bits(v)[j] = 1 THEN 1 ELSE 0]
  <2>1. u \in Word(w) /\ v \in Word(w)
    BY <1>3, <1>4
  <2> QED BY <2>1, OrIs
<1>7. ASSUME NEW j \in 1 .. 8 * w
      PROVE  Bits(Or(u, v))[j] = IF j + k <= 8 * w THEN a[j + k] ELSE a[j + k - 8 * w]
  <2>1. Bits(Or(u, v))[j] = IF Bits(u)[j] = 1 \/ Bits(v)[j] = 1 THEN 1 ELSE 0
    BY <1>6
  <2>2. CASE j + k <= 8 * w
    <3>1. j + k \in 1 .. 8 * w /\ ~(j - (8 * w - k) \in 1 .. 8 * w)
      BY <1>1, <2>2
    <3>2. Bits(u)[j] = a[j + k] /\ Bits(v)[j] = 0
      BY <1>3, <1>4, <3>1
    <3>3. a[j + k] = 0 \/ a[j + k] = 1
      BY <1>2, <3>1 DEF Bit
    <3> QED BY <2>1, <2>2, <3>2, <3>3
  <2>3. CASE ~(j + k <= 8 * w)
    <3>1. ~(j + k \in 1 .. 8 * w) /\ j - (8 * w - k) \in 1 .. 8 * w /\ j - (8 * w - k) = j + k - 8 * w
      BY <1>1, <2>3
    <3>2. Bits(u)[j] = 0 /\ Bits(v)[j] = a[j - (8 * w - k)]
      BY <1>3, <1>4, <3>1
    <3>3. a[j - (8 * w - k)] = 0 \/ a[j - (8 * w - k)] = 1
      BY <1>2, <3>1 DEF Bit
    <3> QED BY <2>1, <2>3, <3>1, <3>2, <3>3
  <2> QED BY <2>2, <2>3
<1> QED BY <1>5, <1>6, <1>7 DEF a

\* One rotation takes the other one back.
LEMMA RotateBack ==
  ASSUME NEW w \in Width, NEW word \in Word(w), NEW k \in 0 .. 8 * w
  PROVE  Ror(Rol(word, k), k) = word /\ Rol(Ror(word, k), k) = word
<1> DEFINE n == 8 * w
           l == Rol(word, k)
           r == Ror(word, k)
<1>1. w \in Nat /\ n \in Nat /\ word \in Seq(Byte) /\ Len(word) = w
  BY DEF Width, Word
<1>2. Bits(word) \in [1 .. n -> Bit]
  BY <1>1, BitsAre
<1>3. /\ l \in Word(w)
      /\ \A j \in 1 .. n : Bits(l)[j] = IF j - k >= 1 THEN Bits(word)[j - k] ELSE Bits(word)[j - k + n]
  BY RolIs
<1>4. /\ r \in Word(w)
      /\ \A j \in 1 .. n : Bits(r)[j] = IF j + k <= n THEN Bits(word)[j + k] ELSE Bits(word)[j + k - n]
  BY RorIs
<1> HIDE DEF l, r
<1>5. /\ Ror(l, k) \in Word(w)
      /\ \A j \in 1 .. n : Bits(Ror(l, k))[j] = IF j + k <= n THEN Bits(l)[j + k] ELSE Bits(l)[j + k - n]
  BY <1>3, RorIs
<1>6. /\ Rol(r, k) \in Word(w)
      /\ \A j \in 1 .. n : Bits(Rol(r, k))[j] = IF j - k >= 1 THEN Bits(r)[j - k] ELSE Bits(r)[j - k + n]
  BY <1>4, RolIs
<1>7. /\ Len(Ror(l, k)) = w /\ Ror(l, k) \in Seq(Byte) /\ Bits(Ror(l, k)) \in [1 .. n -> Bit]
      /\ Len(Rol(r, k)) = w /\ Rol(r, k) \in Seq(Byte) /\ Bits(Rol(r, k)) \in [1 .. n -> Bit]
  BY <1>5, <1>6, BitsAre DEF Word
<1> HIDE DEF n
<1>8. ASSUME NEW j \in 1 .. n PROVE Bits(Ror(l, k))[j] = Bits(word)[j]
  <2>1. CASE j + k <= n
    <3>1. j + k \in 1 .. n /\ (j + k) - k = j /\ j >= 1
      BY <1>1, <2>1
    <3> QED BY <1>3, <1>5, <2>1, <3>1
  <2>2. CASE ~(j + k <= n)
    <3>1. j + k - n \in 1 .. n /\ (j + k - n) - k + n = j /\ ~((j + k - n) - k >= 1)
      BY <1>1, <2>2 DEF n
    <3> QED BY <1>3, <1>5, <2>2, <3>1
  <2> QED BY <2>1, <2>2
<1>9. ASSUME NEW j \in 1 .. n PROVE Bits(Rol(r, k))[j] = Bits(word)[j]
  <2>1. CASE j - k >= 1
    <3>1. j - k \in 1 .. n /\ (j - k) + k = j /\ j <= n
      BY <1>1, <2>1
    <3> QED BY <1>4, <1>6, <2>1, <3>1
  <2>2. CASE ~(j - k >= 1)
    <3>1. j - k + n \in 1 .. n /\ (j - k + n) + k - n = j /\ ~((j - k + n) + k <= n)
      BY <1>1, <2>2 DEF n
    <3> QED BY <1>4, <1>6, <2>2, <3>1
  <2> QED BY <2>1, <2>2
<1>10. Ror(l, k) = word /\ Rol(r, k) = word
  BY <1>1, <1>7, <1>8, <1>9, SameBits DEF n
<1> QED BY <1>10 DEF l, r

LEMMA WordIs ==
  ASSUME NEW w \in Width, NEW word \in Word(w)
  PROVE  /\ w \in Nat /\ word \in Seq(Byte) /\ Len(word) = w
         /\ \A i \in 1 .. w : word[i] \in Int /\ word[i] >= 0 /\ word[i] <= 255
<1>1. w \in Nat /\ word \in Seq(Byte) /\ Len(word) = w
  BY DEF Width, Word
<1>2. \A i \in 1 .. w : word[i] \in Byte
  BY <1>1
<1>3. \A x \in Byte : x \in Int /\ x >= 0 /\ x <= 255
  BY DEF Byte
<1> QED BY <1>1, <1>2, <1>3

\* The other operations return a word of the same size.
LEMMA NotIs ==
  ASSUME NEW w \in Width, NEW word \in Word(w)
  PROVE  Not(word) \in Word(w) /\ Not(Not(word)) = word
<1>1. /\ w \in Nat /\ word \in Seq(Byte) /\ Len(word) = w
      /\ \A i \in 1 .. w : word[i] \in Int /\ word[i] >= 0 /\ word[i] <= 255
  BY WordIs
<1>2. Not(word) = [i \in 1 .. w |-> 255 - word[i]]
  BY <1>1 DEF Not
<1>3. Not(word) \in Seq(Byte) /\ Len(Not(word)) = w
  <2>1. ASSUME NEW i \in 1 .. w PROVE 255 - word[i] \in Byte
    <3>1. word[i] \in Int /\ word[i] >= 0 /\ word[i] <= 255
      BY <1>1
    <3> QED BY <3>1 DEF Byte
  <2>2. Not(word) \in [1 .. w -> Byte] /\ w \in Nat
    BY <1>1, <1>2, <2>1
  <2> QED BY <2>2
<1>4. Not(Not(word)) = [i \in 1 .. w |-> 255 - Not(word)[i]]
  BY <1>3 DEF Not
<1>5. ASSUME NEW i \in 1 .. w PROVE 255 - Not(word)[i] = word[i]
  <2>1. Not(word)[i] = 255 - word[i]
    BY <1>2
  <2>2. word[i] \in Int
    BY <1>1
  <2> QED BY <2>1, <2>2
<1>6. Not(Not(word)) = word
  BY <1>1, <1>4, <1>5
<1> QED BY <1>3, <1>6 DEF Word

\* The carry is a number at every byte.
LEMMA WrapAddIs ==
  ASSUME NEW w \in Width, NEW word \in Word(w), NEW key \in Int
  PROVE  WrapAdd(word, key) \in Word(w)
<1> DEFINE b == KeyBytes(key, w)
           Eq(f) == f = [i \in 0 .. w |-> IF i = 0 THEN 0 ELSE (word[i] + b[i] + f[i - 1]) \div 256]
           carry == CHOOSE f : Eq(f)
           I == Int
           z == 0
           up == [i \in 0 + 1 .. w |-> [v \in I |-> (word[i] + b[i] + v) \div 256]]
<1>1. w \in Nat /\ word \in Seq(Byte) /\ Len(word) = w
  BY WordIs
<1>2. \A i \in 1 .. w : word[i] \in Int /\ b[i] \in Int
  <2>1. \A i \in 1 .. w : word[i] \in Int
    BY WordIs
  <2>2. b \in Word(w)
    BY KeyBytesAre
  <2> HIDE DEF b
  <2>3. \A i \in 1 .. w : b[i] \in Int
    BY <2>2, WordIs
  <2> QED BY <2>1, <2>3
<1>3. WrapAdd(word, key) = [i \in 1 .. w |-> (word[i] + b[i] + carry[i - 1]) % 256]
  BY <1>1 DEF WrapAdd
<1> HIDE DEF b
<1>4. up \in [0 + 1 .. w -> [I -> I]] /\ z \in I /\ 0 \in Int /\ w \in Int /\ 0 <= w
  BY <1>1, <1>2
<1>5. \A i \in 1 .. w : \A v \in I : up[i][v] = (word[i] + b[i] + v) \div 256
  OBVIOUS
<1> HIDE DEF up, z, I
<1>6. PICK g : Follows(g, 0, w, I, z, up)
  BY <1>4, FollowsExists
<1>7. Eq(g)
  <2>1. g \in [0 .. w -> I] /\ g[0] = z /\ \A i \in 0 + 1 .. w : g[i] = up[i][g[i - 1]]
    BY <1>6 DEF Follows
  <2>2. ASSUME NEW i \in 0 .. w, i # 0 PROVE g[i] = (word[i] + b[i] + g[i - 1]) \div 256
    <3>1. i \in 0 + 1 .. w /\ i \in 1 .. w /\ i - 1 \in 0 .. w
      BY <1>1, <2>2
    <3>2. g[i - 1] \in I
      BY <2>1, <3>1
    <3> QED BY <1>5, <2>1, <3>1, <3>2
  <2> QED BY <2>1, <2>2 DEF z
<1>8. Eq(carry)
  BY <1>7, ZenonT(60)
<1> HIDE DEF carry
<1>9. Follows(carry, 0, w, I, z, up)
  <2>1. carry = [i \in 0 .. w |-> carry[i]] /\ carry[0] = z
    BY <1>1, <1>8 DEF z
  <2>2. ASSUME NEW i \in 0 + 1 .. w, carry[i - 1] \in I PROVE carry[i] = up[i][carry[i - 1]]
    <3>1. i \in 1 .. w /\ i \in 0 .. w /\ i # 0
      BY <1>1
    <3>2. carry[i] = (word[i] + b[i] + carry[i - 1]) \div 256
      BY <1>8, <3>1
    <3>3. up[i][carry[i - 1]] = (word[i] + b[i] + carry[i - 1]) \div 256
      BY <1>5, <2>2, <3>1
    <3> QED BY <3>2, <3>3
  <2> QED BY <1>4, <2>1, <2>2, FollowsIf
<1>10. \A i \in 0 .. w : carry[i] \in Int
  BY <1>9 DEF Follows, I
<1>11. \A i \in 1 .. w : (word[i] + b[i] + carry[i - 1]) % 256 \in Byte
  <2>1. ASSUME NEW i \in 1 .. w PROVE (word[i] + b[i] + carry[i - 1]) % 256 \in Byte
    <3>1. i - 1 \in 0 .. w
      BY <1>1
    <3>2. word[i] + b[i] + carry[i - 1] \in Int
      BY <1>2, <1>10, <3>1
    <3> QED BY <3>2 DEF Byte
  <2> QED BY <2>1
<1>12. WrapAdd(word, key) \in [1 .. w -> Byte]
  BY <1>3, <1>11
<1> QED BY <1>1, <1>12 DEF Word

LEMMA AddIs ==
  ASSUME NEW w \in Width, NEW word \in Word(w), NEW key \in Int
  PROVE  Add(word, key) \in Word(w) /\ Sub(word, key) \in Word(w)
<1>1. word \in Seq(Byte) /\ Len(word) = w
  BY DEF Word
<1>2. CASE w = 4
  <2>1. -key \in Int
    OBVIOUS
  <2> QED BY <1>1, <1>2, <2>1, WrapAddIs DEF Add, Sub
<1>3. CASE w # 4
  <2> DEFINE a == Value(word)
             b == Value(KeyBytes(key, Len(word)))
             m == Limit(word)
             u == IF a + b > m THEN (a + b) - m ELSE a + b
             v == IF a - b < 0 THEN m + (a - b) ELSE a - b
  <2>1. w = 1 \/ w = 2
    BY <1>3 DEF Width
  <2>2. KeyBytes(key, w) \in Seq(Byte) /\ Len(KeyBytes(key, w)) = w
    BY KeyBytesAre DEF Word
  <2>3. ASSUME NEW x \in Seq(Byte), Len(x) = w PROVE Value(x) \in Int
    <3>1. x \in Word(w)
      BY <2>3 DEF Word
    <3>2. \A i \in 1 .. w : x[i] \in Int
      BY <3>1, WordIs
    <3>3. x[1] \in Int /\ (w = 2 => x[2] \in Int)
      BY <2>1, <3>2
    <3> QED BY <2>1, <2>3, <3>3 DEF Value
  <2>4. m \in Int
    BY <1>1, <2>1, PowersOf256 DEF Limit
  <2>5. Add(word, key) = LowDigits(u, w, 256) /\ Sub(word, key) = LowDigits(v, w, 256)
    <3>1. Len(word) # 4
      BY <1>1, <1>3
    <3>2. Add(word, key) = LowDigits(u, Len(word), 256)
      BY <3>1 DEF Add
    <3>3. Sub(word, key) = LowDigits(v, Len(word), 256)
      BY <3>1 DEF Sub
    <3> QED BY <1>1, <3>2, <3>3
  <2>6. a \in Int /\ b \in Int
    BY <1>1, <2>2, <2>3
  <2> HIDE DEF a, b, m
  <2>7. u \in Int /\ v \in Int /\ w \in 0 .. 4
    BY <2>1, <2>4, <2>6
  <2> HIDE DEF u, v
  <2>8. IsLow(LowDigits(u, w, 256), u, w) /\ IsLow(LowDigits(v, w, 256), v, w)
    BY <2>7, LowBytes
  <2> QED BY <2>5, <2>8 DEF IsLow
<1> QED BY <1>2, <1>3

LEMMA RotationIs ==
  ASSUME NEW w \in Width, NEW word \in Word(w), NEW k \in Int
  PROVE  Rol(word, k) \in Word(w) /\ Ror(word, k) \in Word(w)
<1>1. w \in Nat /\ Len(word) = w /\ 8 * w - k \in Int
  BY DEF Width, Word
<1>2. /\ Shl(word, k) \in Word(w) /\ Shr(word, 8 * w - k) \in Word(w)
      /\ Shr(word, k) \in Word(w) /\ Shl(word, 8 * w - k) \in Word(w)
  BY <1>1, ShlIs, ShrIs
<1>3. Or(Shl(word, k), Shr(word, 8 * w - k)) \in Word(w) /\ Or(Shr(word, k), Shl(word, 8 * w - k)) \in Word(w)
  BY <1>2, OrIs
<1> QED BY <1>1, <1>3 DEF Rol, Ror

-----------------------------------------------------------------------------
(***************************************************************************)
(* The loop over the words of a buffer.                                    *)
(***************************************************************************)
WordOf(data, w, i) == SubSeq(data, w * i + 1, w * i + w)

\* The buffer with its words replaced, and what is left behind the last one.
Joined(data, w, new) ==
  [j \in DOMAIN data |->
     IF j > w * Words(data, w) THEN data[j] ELSE new[(j - 1) \div w][((j - 1) % w) + 1]]

LEMMA WordPlace ==
  ASSUME NEW n \in Nat, NEW w \in Width, NEW i \in 0 .. (n \div w) - 1, NEW k \in 1 .. w
  PROVE  /\ w * i + k \in 1 .. n /\ ~(w * i + k > w * (n \div w))
         /\ ((w * i + k) - 1) \div w = i /\ (((w * i + k) - 1) % w) + 1 = k
<1>1. CASE w = 1
  BY <1>1
<1>2. CASE w = 2
  BY <1>2
<1>3. CASE w = 4
  BY <1>3
<1> QED BY <1>1, <1>2, <1>3 DEF Width

LEMMA WordAt ==
  ASSUME NEW n \in Nat, NEW w \in Width, NEW j \in 1 .. n, ~(j > w * (n \div w))
  PROVE  /\ (j - 1) \div w \in 0 .. (n \div w) - 1 /\ ((j - 1) % w) + 1 \in 1 .. w
         /\ w * ((j - 1) \div w) + ((j - 1) % w) + 1 = j
<1>1. CASE w = 1
  BY <1>1
<1>2. CASE w = 2
  BY <1>2
<1>3. CASE w = 4
  BY <1>3
<1> QED BY <1>1, <1>2, <1>3 DEF Width

LEMMA WordOfIs ==
  ASSUME NEW data \in Seq(Byte), NEW w \in Width, NEW i \in 0 .. Words(data, w) - 1
  PROVE  WordOf(data, w, i) \in Word(w) /\ \A k \in 1 .. w : WordOf(data, w, i)[k] = data[w * i + k]
<1> DEFINE n == Len(data)
           m == w * i + 1
           l == w * i + w
<1>1. n \in Nat /\ i \in 0 .. (n \div w) - 1 /\ w \in Nat \ {0} /\ i \in Nat
  BY DEF Words, Width
<1>2. \A k \in 1 .. w : w * i + k \in 1 .. n
  BY <1>1, WordPlace
<1>3. m \in Int /\ l \in Int /\ l - m + 1 = w /\ m <= l
  BY <1>1
<1>4. ASSUME NEW j \in m .. l PROVE data[j] \in Byte
  <2>1. w * i \in Int
    BY <1>1
  <2>2. j - w * i \in 1 .. w /\ w * i + (j - w * i) = j
    BY <1>1, <2>1
  <2> QED BY <1>2, <2>2
<1> HIDE DEF m, l
<1>5. /\ SubSeq(data, m, l) \in Seq(Byte)
      /\ Len(SubSeq(data, m, l)) = w
      /\ \A k \in 1 .. w : SubSeq(data, m, l)[k] = data[m + k - 1]
  BY <1>3, <1>4, SubSeqProperties
<1>6. \A k \in 1 .. w : m + k - 1 = w * i + k
  BY <1>1 DEF m
<1> QED BY <1>5, <1>6 DEF WordOf, Word, m, l

NewWords(data, w) == [0 .. Words(data, w) - 1 -> Word(w)]

LEMMA JoinedIs ==
  ASSUME NEW data \in Seq(Byte), NEW w \in Width, NEW new \in NewWords(data, w)
  PROVE  /\ Joined(data, w, new) \in Seq(Byte) /\ Len(Joined(data, w, new)) = Len(data)
         /\ \A i \in 0 .. Words(data, w) - 1 : WordOf(Joined(data, w, new), w, i) = new[i]
<1> DEFINE n == Len(data)
           d == Joined(data, w, new)
<1>1. n \in Nat /\ Words(data, w) = n \div w /\ DOMAIN data = 1 .. n
  BY DEF Words
<1>2. ASSUME NEW j \in 1 .. n
      PROVE  (IF j > w * (n \div w) THEN data[j] ELSE new[(j - 1) \div w][((j - 1) % w) + 1]) \in Byte
  <2>1. CASE ~(j > w * (n \div w))
    <3>1. (j - 1) \div w \in 0 .. (n \div w) - 1 /\ ((j - 1) % w) + 1 \in 1 .. w
      BY <1>1, <2>1, WordAt
    <3>2. new[(j - 1) \div w] \in Word(w)
      BY <1>1, <3>1 DEF NewWords
    <3> QED BY <2>1, <3>1, <3>2 DEF Word
  <2> QED BY <2>1
<1>3. d = [j \in 1 .. n |-> IF j > w * (n \div w) THEN data[j] ELSE new[(j - 1) \div w][((j - 1) % w) + 1]]
  BY <1>1 DEF Joined
<1> HIDE DEF d
<1>4. d \in [1 .. n -> Byte]
  BY <1>2, <1>3
<1>5. d \in Seq(Byte) /\ Len(d) = n
  BY <1>1, <1>4
<1>6. ASSUME NEW i \in 0 .. (n \div w) - 1 PROVE WordOf(d, w, i) = new[i]
  <2>1. WordOf(d, w, i) \in Word(w) /\ \A k \in 1 .. w : WordOf(d, w, i)[k] = d[w * i + k]
    BY <1>5, WordOfIs DEF Words
  <2>2. new[i] \in Word(w)
    BY <1>1 DEF NewWords
  <2>3. ASSUME NEW k \in 1 .. w PROVE d[w * i + k] = new[i][k]
    <3> DEFINE j == w * i + k
    <3>1. j \in 1 .. n /\ ~(j > w * (n \div w)) /\ (j - 1) \div w = i /\ ((j - 1) % w) + 1 = k
      <4> HIDE DEF n
      <4> QED BY <1>1, WordPlace
    <3> HIDE DEF j
    <3>2. d[j] = new[i][k]
      BY <1>3, <3>1
    <3> QED BY <3>2 DEF j
  <2>4. \A k \in 1 .. w : WordOf(d, w, i)[k] = new[i][k]
    BY <2>1, <2>3
  <2> QED BY <2>1, <2>2, <2>4 DEF Word
<1> QED BY <1>1, <1>5, <1>6 DEF d

\* To put the words back where they were is to undo the change.
LEMMA JoinedBack ==
  ASSUME NEW data \in Seq(Byte), NEW w \in Width, NEW new \in NewWords(data, w),
         NEW back, \A i \in 0 .. Words(data, w) - 1 : back[i] = WordOf(data, w, i)
  PROVE  Joined(Joined(data, w, new), w, back) = data
<1> DEFINE n == Len(data)
           d == Joined(data, w, new)
<1>1. n \in Nat /\ Words(data, w) = n \div w /\ DOMAIN data = 1 .. n
  BY DEF Words
<1>2. d \in Seq(Byte) /\ Len(d) = n /\ DOMAIN d = 1 .. n /\ Words(d, w) = n \div w
  BY JoinedIs DEF Words
<1>3. \A j \in 1 .. n : j > w * (n \div w) => d[j] = data[j]
  BY <1>1 DEF Joined
<1> HIDE DEF d
<1>4. Joined(d, w, back) = [j \in 1 .. n |-> IF j > w * (n \div w) THEN d[j] ELSE back[(j - 1) \div w][((j - 1) % w) + 1]]
  BY <1>2 DEF Joined
<1>5. ASSUME NEW j \in 1 .. n, ~(j > w * (n \div w)) PROVE back[(j - 1) \div w][((j - 1) % w) + 1] = data[j]
  <2> DEFINE i == (j - 1) \div w
             k == ((j - 1) % w) + 1
  <2>1. i \in 0 .. (n \div w) - 1 /\ k \in 1 .. w /\ w * i + k = j
    <3>1. i \in 0 .. (n \div w) - 1 /\ k \in 1 .. w /\ w * i + ((j - 1) % w) + 1 = j
      BY <1>1, <1>5, WordAt
    <3>2. w \in Int /\ w * i \in Int /\ (j - 1) % w \in Int
      BY <3>1 DEF Width
    <3> QED BY <3>1, <3>2
  <2> HIDE DEF i, k
  <2>2. back[i] = WordOf(data, w, i)
    BY <1>1, <2>1
  <2>3. WordOf(data, w, i)[k] = data[w * i + k]
    BY <1>1, <2>1, WordOfIs
  <2>4. back[i][k] = data[j]
    BY <2>1, <2>2, <2>3
  <2> QED BY <2>4 DEF i, k
<1>6. \A j \in 1 .. n : Joined(d, w, back)[j] = data[j]
  BY <1>3, <1>4, <1>5
<1>7. Joined(d, w, back) = data
  BY <1>1, <1>4, <1>6
<1> QED BY <1>7 DEF d

-----------------------------------------------------------------------------
(***************************************************************************)
(* An action that changes the buffer in place.                             *)
(***************************************************************************)
LEMMA KeyLimit ==
  ASSUME NEW w \in Width
  PROVE  256 ^ w = 256 \/ 256 ^ w = 65536 \/ 256 ^ w = 4294967296
<1>1. CASE w = 1
  BY <1>1, PowersOf256
<1>2. CASE w = 2
  BY <1>2, PowersOf256
<1>3. CASE w = 4
  BY <1>3, PowersOf256
<1> QED BY <1>1, <1>2, <1>3 DEF Width

LEMMA KeyRange ==
  ASSUME NEW w \in Width, NEW x \in Int
  PROVE  256 ^ w \in Int /\ x % 256 ^ w \in 0 .. 256 ^ w - 1
<1> DEFINE n == 256 ^ w
<1>1. n = 256 \/ n = 65536 \/ n = 4294967296
  BY KeyLimit
<1> HIDE DEF n
<1>2. n \in Int /\ x % n \in Int /\ x % n >= 0 /\ x % n < n
  BY <1>1, SMT
<1>3. x % n \in 0 .. n - 1
  BY <1>2
<1> QED BY <1>2, <1>3 DEF n

LEMMA MovedKey ==
  ASSUME NEW w \in Width, NEW x \in Int, NEW s \in Int
  PROVE  ((x % 256 ^ w) + s) % 256 ^ w = (x + s) % 256 ^ w
<1> DEFINE n == 256 ^ w
<1>1. n = 256 \/ n = 65536 \/ n = 4294967296
  BY KeyLimit
<1> HIDE DEF n
<1>2. ((x % n) + s) % n = (x + s) % n
  BY <1>1, SMT
<1> QED BY <1>2 DEF n

\* The key of a word is an integer, and that of the first one, given as the key,
\* moves in the same way.
LEMMA KeyAtIs ==
  ASSUME NEW w \in Width, NEW key \in Int, NEW inc \in Int
  PROVE  /\ \A i \in Int : KeyAt(key, inc, i, w) \in Int
         /\ \A i \in Int : KeyAt(KeyAt(key, inc, 0, w), inc, i, w) = KeyAt(key, inc, i, w)
<1> DEFINE first == KeyAt(key, inc, 0, w)
<1>1. 0 * inc = 0 /\ \A i \in Int : i * inc \in Int
  OBVIOUS
<1>2. CASE w = 4
  <2>1. first = key
    BY <1>1, <1>2 DEF KeyAt
  <2> HIDE DEF first
  <2>2. \A i \in Int : KeyAt(key, inc, i, w) = key + i * inc
    BY <1>2 DEF KeyAt
  <2>3. \A i \in Int : key + i * inc \in Int
    BY <1>1
  <2> QED BY <2>1, <2>2, <2>3 DEF first
<1>3. CASE w # 4
  <2>1. \A x \in Int : x % 256 ^ w \in Int
    BY KeyRange
  <2>2. \A x, y \in Int : ((x % 256 ^ w) + y) % 256 ^ w = (x + y) % 256 ^ w
    BY MovedKey, ZenonT(60)
  <2>3. first = key % 256 ^ w
    BY <1>1, <1>3 DEF KeyAt
  <2> HIDE DEF first
  <2>4. first \in Int
    BY <2>1, <2>3
  <2>5. ASSUME NEW i \in Int
        PROVE  KeyAt(key, inc, i, w) \in Int /\ KeyAt(first, inc, i, w) = KeyAt(key, inc, i, w)
    <3> DEFINE m == i * inc
    <3>1. m \in Int
      BY <1>1
    <3>2. KeyAt(key, inc, i, w) = (key + m) % 256 ^ w /\ KeyAt(first, inc, i, w) = (first + m) % 256 ^ w
      BY <1>3 DEF KeyAt
    <3> HIDE DEF m
    <3>3. (key + m) % 256 ^ w \in Int /\ (first + m) % 256 ^ w = (key + m) % 256 ^ w
      <4>1. \A y \in Int : key + y \in Int /\ (first + y) % 256 ^ w = (key + y) % 256 ^ w
        BY <2>2, <2>3
      <4> QED BY <2>1, <3>1, <4>1
    <3> QED BY <3>2, <3>3
  <2> QED BY <2>5 DEF first
<1> QED BY <1>2, <1>3

WordOps == {"not", "add", "sub", "xor", "shl", "shr", "rol", "ror"}

\* What it does to one word; k is the key as the step has moved it.
Changed(op, word, key, k) ==
  CASE op = "not" -> Not(word)
    [] op = "add" -> Add(word, key)
    [] op = "sub" -> Sub(word, key)
    [] op = "xor" -> Xor(word, k)
    [] op = "shl" -> Shl(word, k)
    [] op = "shr" -> Shr(word, k)
    [] op = "rol" -> Rol(word, k)
    [] op = "ror" -> Ror(word, k)

NewOf(op, w, key, inc, data) ==
  [i \in 0 .. Words(data, w) - 1 |-> Changed(op, WordOf(data, w, i), key, KeyAt(key, inc, i, w))]

LEMMA InPlaceWords ==
  ASSUME NEW data, NEW w, NEW key, NEW inc, NEW op \in WordOps
  PROVE  InPlace(op, w, key, inc, data) = Joined(data, w, NewOf(op, w, key, inc, data))
<1>1. CASE op = "not"
  BY <1>1 DEF InPlace, EachWord, Joined, NewOf, Changed, WordOf
<1>2. CASE op = "add"
  BY <1>2 DEF InPlace, EachWord, Joined, NewOf, Changed, WordOf
<1>3. CASE op = "sub"
  BY <1>3 DEF InPlace, EachWord, Joined, NewOf, Changed, WordOf
<1>4. CASE op = "xor"
  BY <1>4 DEF InPlace, EachWord, Joined, NewOf, Changed, WordOf
<1>5. CASE op = "shl"
  BY <1>5 DEF InPlace, EachWord, Joined, NewOf, Changed, WordOf
<1>6. CASE op = "shr"
  BY <1>6 DEF InPlace, EachWord, Joined, NewOf, Changed, WordOf
<1>7. CASE op = "rol"
  BY <1>7 DEF InPlace, EachWord, Joined, NewOf, Changed, WordOf
<1>8. CASE op = "ror"
  BY <1>8 DEF InPlace, EachWord, Joined, NewOf, Changed, WordOf
<1> QED BY <1>1, <1>2, <1>3, <1>4, <1>5, <1>6, <1>7, <1>8 DEF WordOps

LEMMA ChangedIs ==
  ASSUME NEW w \in Width, NEW word \in Word(w), NEW key \in Int, NEW k \in Int, NEW op \in WordOps
  PROVE  Changed(op, word, key, k) \in Word(w)
<1>1. Not(word) \in Word(w) /\ Add(word, key) \in Word(w) /\ Sub(word, key) \in Word(w)
  BY NotIs, AddIs
<1>2. Xor(word, k) \in Word(w) /\ Shl(word, k) \in Word(w) /\ Shr(word, k) \in Word(w)
  BY XorIs, ShlIs, ShrIs
<1>3. Rol(word, k) \in Word(w) /\ Ror(word, k) \in Word(w)
  BY RotationIs
<1> QED BY <1>1, <1>2, <1>3 DEF Changed, WordOps

LEMMA NewOfIs ==
  ASSUME NEW data \in Seq(Byte), NEW w \in Width, NEW key \in Int, NEW inc \in Int, NEW op \in WordOps
  PROVE  NewOf(op, w, key, inc, data) \in NewWords(data, w)
<1>1. ASSUME NEW i \in 0 .. Words(data, w) - 1
      PROVE  Changed(op, WordOf(data, w, i), key, KeyAt(key, inc, i, w)) \in Word(w)
  <2>1. WordOf(data, w, i) \in Word(w)
    BY WordOfIs
  <2>2. KeyAt(key, inc, i, w) \in Int
    <3>1. i \in Int
      OBVIOUS
    <3> QED BY <3>1, KeyAtIs
  <2> QED BY <2>1, <2>2, ChangedIs
<1> QED BY <1>1 DEF NewOf, NewWords

\* The alphabets.
LEMMA RotIs ==
  ASSUME NEW c \in Byte
  PROVE  /\ Rot5(c) \in Byte /\ Rot13(c) \in Byte /\ Rot18(c) \in Byte /\ Rot47(c) \in Byte
         /\ Rot13(Rot13(c)) = c /\ Rot18(Rot18(c)) = c /\ Rot47(Rot47(c)) = c
<1>1. c \in 0 .. 255
  BY DEF Byte
<1>2. \A x \in 0 .. 255 : Rot5(x) \in 0 .. 255 /\ Rot13(x) \in 0 .. 255 /\ Rot47(x) \in 0 .. 255
  BY DEF Rot5, Rot13, Rot47, zap
<1>3. \A x \in 0 .. 255 : Rot5(Rot5(x)) = x /\ Rot47(Rot47(x)) = x
  BY DEF Rot5, Rot47, zap
<1>4. ASSUME NEW x \in 0 .. 255 PROVE Rot13(Rot13(x)) = x
  <2>1. CASE x \in 65 .. 90
    <3>1. Rot13(x) \in 65 .. 90 /\ (x + 13 <= 90 => Rot13(x) = x + 13) /\ (x + 13 > 90 => Rot13(x) = x - 13)
      BY <2>1 DEF Rot13, zap
    <3>2. \A y \in 65 .. 90 : Rot13(y) = IF y + 13 > 90 THEN y - 13 ELSE y + 13
      BY DEF Rot13, zap
    <3> QED BY <2>1, <3>1, <3>2
  <2>2. CASE x \in 97 .. 122
    <3>1. Rot13(x) \in 97 .. 122 /\ (x + 13 <= 122 => Rot13(x) = x + 13) /\ (x + 13 > 122 => Rot13(x) = x - 13)
      BY <2>2 DEF Rot13, zap
    <3>2. \A y \in 97 .. 122 : Rot13(y) = IF y + 13 > 122 THEN y - 13 ELSE y + 13
      BY DEF Rot13, zap
    <3> QED BY <2>2, <3>1, <3>2
  <2>3. CASE ~(x \in 65 .. 90) /\ ~(x \in 97 .. 122)
    BY <2>3 DEF Rot13, zap
  <2> QED BY <2>1, <2>2, <2>3
<1>5. \A x \in 0 .. 255 : Rot5(Rot13(x)) = Rot13(Rot5(x))
  BY DEF Rot13, Rot5, zap
<1>6. Rot18(c) \in Byte
  BY <1>1, <1>2 DEF Rot18, Byte
<1>7. Rot18(Rot18(c)) = c
  <2> DEFINE d == Rot13(c)
             e == Rot5(d)
  <2>1. d \in 0 .. 255 /\ Rot13(d) = c
    BY <1>1, <1>2, <1>4
  <2>2. Rot13(e) = Rot5(Rot13(d))
    BY <1>5, <2>1
  <2>3. Rot5(Rot13(e)) = Rot5(Rot5(c))
    BY <2>1, <2>2
  <2> QED BY <1>1, <1>3, <2>3 DEF Rot18
<1> QED BY <1>1, <1>2, <1>3, <1>4, <1>6, <1>7, ZenonT(60) DEF Byte

\* Whatever the action, the buffer keeps its size and holds bytes.
LEMMA InPlaceIs ==
  ASSUME NEW data \in Seq(Byte), NEW w \in Width, NEW key \in Int, NEW inc \in Int, NEW op
  PROVE  InPlace(op, w, key, inc, data) \in Seq(Byte) /\ Len(InPlace(op, w, key, inc, data)) = Len(data)
<1>1. CASE op \in WordOps
  BY <1>1, InPlaceWords, NewOfIs, JoinedIs
<1>2. CASE op \notin WordOps
  <2>1. \A i \in DOMAIN data : /\ Rot5(data[i]) \in Byte /\ Rot13(data[i]) \in Byte
                               /\ Rot18(data[i]) \in Byte /\ Rot47(data[i]) \in Byte
    BY RotIs
  <2>2. CASE op = "rot5"
    BY <2>1, <2>2 DEF InPlace
  <2>3. CASE op = "rot13"
    BY <2>1, <2>3 DEF InPlace
  <2>4. CASE op = "rot18"
    BY <2>1, <2>4 DEF InPlace
  <2>5. CASE op = "rot47"
    BY <2>1, <2>5 DEF InPlace
  <2>6. CASE op \notin {"rot5", "rot13", "rot18", "rot47"}
    <3>1. InPlace(op, w, key, inc, data) = data
      BY <1>2, <2>6 DEF InPlace, WordOps
    <3> QED BY <3>1
  <2> QED BY <2>2, <2>3, <2>4, <2>5, <2>6
<1> QED BY <1>1, <1>2

LEMMA OppositeIs ==
  ASSUME NEW op \in Invertible
  PROVE  /\ Opposite(op) \in Invertible /\ (op \in WordOps <=> Opposite(op) \in WordOps)
         /\ (op \notin {"rol", "ror"} => Opposite(op) = op)
         /\ (op = "rol" => Opposite(op) = "ror") /\ (op = "ror" => Opposite(op) = "rol")
         /\ (op \in {"rol", "ror"} <=> Opposite(op) \in {"rol", "ror"})
         /\ Opposite(Opposite(op)) = op
BY DEF Opposite, Invertible, WordOps

\* A word that an operation has changed is what it was after the opposite one.
LEMMA ChangedBack ==
  ASSUME NEW w \in Width, NEW word \in Word(w), NEW key \in Int, NEW k \in Int,
         NEW op \in Invertible \cap WordOps, op \in {"rol", "ror"} => k \in 0 .. 8 * w
  PROVE  Changed(Opposite(op), Changed(op, word, key, k), key, k) = word
<1>1. CASE op = "not"
  <2>1. Changed(op, word, key, k) = Not(word)
    BY <1>1 DEF Changed
  <2>2. \A v : Changed(Opposite(op), v, key, k) = Not(v)
    BY <1>1 DEF Changed, Opposite
  <2> QED BY <2>1, <2>2, NotIs
<1>2. CASE op = "xor"
  <2>1. Changed(op, word, key, k) = Xor(word, k)
    BY <1>2 DEF Changed
  <2>2. \A v : Changed(Opposite(op), v, key, k) = Xor(v, k)
    BY <1>2 DEF Changed, Opposite
  <2> QED BY <2>1, <2>2, XorTwice
<1>3. CASE op = "rol"
  <2>1. Changed(op, word, key, k) = Rol(word, k)
    BY <1>3 DEF Changed
  <2>2. \A v : Changed(Opposite(op), v, key, k) = Ror(v, k)
    BY <1>3 DEF Changed, Opposite
  <2> QED BY <1>3, <2>1, <2>2, RotateBack
<1>4. CASE op = "ror"
  <2>1. Changed(op, word, key, k) = Ror(word, k)
    BY <1>4 DEF Changed
  <2>2. \A v : Changed(Opposite(op), v, key, k) = Rol(v, k)
    BY <1>4 DEF Changed, Opposite
  <2> QED BY <1>4, <2>1, <2>2, RotateBack
<1> QED BY <1>1, <1>2, <1>3, <1>4 DEF Invertible, WordOps

\* An action that can be taken back is: the opposite one, with the same key and
\* step, gives the buffer back.
LEMMA InPlaceBack ==
  ASSUME NEW data \in Seq(Byte), NEW w \in Width, NEW key \in Int, NEW inc \in Int,
         NEW op \in Invertible, ShiftDefined(op, w, key, inc, data)
  PROVE  InPlace(Opposite(op), w, key, inc, InPlace(op, w, key, inc, data)) = data
<1> DEFINE d == InPlace(op, w, key, inc, data)
<1>0. d \in Seq(Byte) /\ Len(d) = Len(data)
  BY InPlaceIs
<1>1. CASE op \in WordOps
  <2> DEFINE new  == NewOf(op, w, key, inc, data)
             back == NewOf(Opposite(op), w, key, inc, d)
  <2>1. d = Joined(data, w, new) /\ new \in NewWords(data, w)
    BY <1>1, InPlaceWords, NewOfIs
  <2>2. Opposite(op) \in WordOps
    BY <1>1, OppositeIs
  <2>3. InPlace(Opposite(op), w, key, inc, d) = Joined(d, w, back)
    BY <2>2, InPlaceWords
  <2>4. Words(d, w) = Words(data, w)
    BY <1>0 DEF Words
  <2>5. ASSUME NEW i \in 0 .. Words(data, w) - 1 PROVE back[i] = WordOf(data, w, i)
    <3> DEFINE k == KeyAt(key, inc, i, w)
               word == WordOf(data, w, i)
    <3>1. WordOf(d, w, i) = new[i]
      BY <2>1, JoinedIs
    <3>2. new[i] = Changed(op, word, key, k)
      BY DEF NewOf
    <3>3. back[i] = Changed(Opposite(op), WordOf(d, w, i), key, k)
      BY <2>4 DEF NewOf
    <3>4. word \in Word(w) /\ k \in Int
      <4>1. i \in Int
        OBVIOUS
      <4>2. word \in Word(w)
        BY WordOfIs
      <4>3. KeyAt(key, inc, i, w) \in Int
        BY <4>1, KeyAtIs
      <4> QED BY <4>2, <4>3
    <3>5. op \in {"rol", "ror"} => k \in 0 .. 8 * w
      <4>1. op \in {"rol", "ror"} => k \in 0 .. 31 /\ 8 * w - k \in 0 .. 31
        BY DEF ShiftDefined
      <4>2. w \in Int
        BY DEF Width
      <4> HIDE DEF k
      <4> QED BY <3>4, <4>1, <4>2
    <3> HIDE DEF k, word, new, back, d
    <3>6. Changed(Opposite(op), Changed(op, word, key, k), key, k) = word
      BY <1>1, <3>4, <3>5, ChangedBack
    <3> QED BY <3>1, <3>2, <3>3, <3>6 DEF word
  <2> HIDE DEF new, back, d
  <2>6. Joined(d, w, back) = data
    BY <2>1, <2>5, JoinedBack
  <2> QED BY <2>3, <2>6 DEF d
<1>2. CASE op \notin WordOps
  <2>1. op \in {"rot13", "rot18", "rot47"} /\ Opposite(op) = op
    BY <1>2, OppositeIs DEF Invertible, WordOps
  <2>2. DOMAIN d = DOMAIN data
    BY <1>0
  <2>3. \A i \in DOMAIN data : /\ Rot13(Rot13(data[i])) = data[i]
                               /\ Rot18(Rot18(data[i])) = data[i]
                               /\ Rot47(Rot47(data[i])) = data[i]
    BY RotIs
  <2>4. CASE op = "rot13"
    <3>1. \A e : InPlace(op, w, key, inc, e) = [i \in DOMAIN e |-> Rot13(e[i])]
      BY <2>4 DEF InPlace
    <3>2. d = [i \in DOMAIN data |-> Rot13(data[i])]
      BY <3>1
    <3> HIDE DEF d
    <3>3. InPlace(op, w, key, inc, d) = data
      BY <2>2, <2>3, <3>1, <3>2
    <3> QED BY <2>1, <3>3 DEF d
  <2>5. CASE op = "rot18"
    <3>1. \A e : InPlace(op, w, key, inc, e) = [i \in DOMAIN e |-> Rot18(e[i])]
      BY <2>5 DEF InPlace
    <3>2. d = [i \in DOMAIN data |-> Rot18(data[i])]
      BY <3>1
    <3> HIDE DEF d
    <3>3. InPlace(op, w, key, inc, d) = data
      BY <2>2, <2>3, <3>1, <3>2
    <3> QED BY <2>1, <3>3 DEF d
  <2>6. CASE op = "rot47"
    <3>1. \A e : InPlace(op, w, key, inc, e) = [i \in DOMAIN e |-> Rot47(e[i])]
      BY <2>6 DEF InPlace
    <3>2. d = [i \in DOMAIN data |-> Rot47(data[i])]
      BY <3>1
    <3> HIDE DEF d
    <3>3. InPlace(op, w, key, inc, d) = data
      BY <2>2, <2>3, <3>1, <3>2
    <3> QED BY <2>1, <3>3 DEF d
  <2> QED BY <2>1, <2>4, <2>5, <2>6
<1> QED BY <1>1, <1>2

-----------------------------------------------------------------------------
(***************************************************************************)
(* A search tries a key that takes the change back.                        *)
(***************************************************************************)

\* A word takes the low bytes of a key, so keys that differ in the others only
\* are the same to it, also after they are moved.
LEMMA SameLowBytes ==
  ASSUME NEW w \in Width, NEW x \in Int, NEW y \in Int, x % 256 ^ w = y % 256 ^ w
  PROVE  KeyBytes(x, w) = KeyBytes(y, w)
<1>1. KeyBytes(x, w) \in Word(w) /\ KeyBytes(y, w) \in Word(w)
  BY KeyBytesAre
<1>2. IsLow(KeyBytes(x, w), x, w) /\ IsLow(KeyBytes(y, w), y, w)
  BY LowBytes DEF KeyBytes, Width
<1>3. CASE w = 1
  <2>1. x % 256 = y % 256
    BY <1>3, PowersOf256
  <2>2. KeyBytes(x, w)[1] = KeyBytes(y, w)[1]
    BY <1>2, <1>3, <2>1 DEF IsLow
  <2>3. \A i \in 1 .. w : i = 1
    BY <1>3
  <2> QED BY <1>1, <2>2, <2>3 DEF Word
<1>4. CASE w = 2
  <2>1. x % 65536 = y % 65536
    BY <1>4, PowersOf256
  <2>2. x % 256 = y % 256 /\ (x \div 256) % 256 = (y \div 256) % 256
    BY <2>1
  <2>3. KeyBytes(x, w)[1] = KeyBytes(y, w)[1] /\ KeyBytes(x, w)[2] = KeyBytes(y, w)[2]
    BY <1>2, <1>4, <2>2 DEF IsLow
  <2>4. \A i \in 1 .. w : i = 1 \/ i = 2
    BY <1>4
  <2> QED BY <1>1, <2>3, <2>4 DEF Word
<1>5. CASE w = 4
  <2>1. x % 4294967296 = y % 4294967296
    BY <1>5, PowersOf256
  <2>2. /\ x % 256 = y % 256 /\ (x \div 256) % 256 = (y \div 256) % 256
        /\ (x \div 65536) % 256 = (y \div 65536) % 256
        /\ (x \div 16777216) % 256 = (y \div 16777216) % 256
    <3>1. \A z \in Int : (z \div 16777216) % 256 = (z % 4294967296) \div 16777216
      BY SMT
    <3>2. x % 256 = y % 256 /\ (x \div 256) % 256 = (y \div 256) % 256
      BY <2>1, SMT
    <3>3. (x \div 65536) % 256 = (y \div 65536) % 256
      BY <2>1, SMT
    <3> QED BY <2>1, <3>1, <3>2, <3>3, SMT
  <2>3. /\ KeyBytes(x, w)[1] = KeyBytes(y, w)[1] /\ KeyBytes(x, w)[2] = KeyBytes(y, w)[2]
        /\ KeyBytes(x, w)[3] = KeyBytes(y, w)[3] /\ KeyBytes(x, w)[4] = KeyBytes(y, w)[4]
    BY <1>2, <1>5, <2>2 DEF IsLow
  <2>4. \A i \in 1 .. w : i = 1 \/ i = 2 \/ i = 3 \/ i = 4
    BY <1>5
  <2> QED BY <1>1, <2>3, <2>4 DEF Word
<1> QED BY <1>3, <1>4, <1>5 DEF Width

LEMMA SameXor ==
  ASSUME NEW data \in Seq(Byte), NEW w \in Width, NEW key \in Int, NEW inc \in Int
  PROVE  InPlace("xor", w, key % 256 ^ w, inc, data) = InPlace("xor", w, key, inc, data)
<1> DEFINE k == key % 256 ^ w
<1>1. k \in Int
  BY KeyRange
<1>2. ASSUME NEW i \in 0 .. Words(data, w) - 1
      PROVE  Changed("xor", WordOf(data, w, i), k, KeyAt(k, inc, i, w))
             = Changed("xor", WordOf(data, w, i), key, KeyAt(key, inc, i, w))
  <2> DEFINE s == i * inc
             word == WordOf(data, w, i)
  <2>1. s \in Int /\ word \in Word(w)
    BY WordOfIs
  <2> HIDE DEF s
  <2>2. (k + s) % 256 ^ w = (key + s) % 256 ^ w
    <3>1. \A x, y \in Int : ((x % 256 ^ w) + y) % 256 ^ w = (x + y) % 256 ^ w
      BY MovedKey, ZenonT(60)
    <3>2. s \in Int
      BY <2>1
    <3> HIDE DEF word
    <3> QED BY <3>1, <3>2
  <2>3. k + s \in Int /\ key + s \in Int
    BY <1>1, <2>1
  <2> HIDE DEF k
  <2>4. KeyBytes(k + s, w) = KeyBytes(key + s, w)
    BY <2>2, <2>3, SameLowBytes
  <2>5. Xor(word, k + s) = Xor(word, key + s)
    <3>1. Len(word) = w
      BY <2>1 DEF Word
    <3> HIDE DEF word
    <3> QED BY <2>4, <3>1 DEF Xor
  <2>6. CASE w = 4
    BY <2>5, <2>6 DEF Changed, KeyAt, s
  <2>7. CASE w # 4
    BY <2>2, <2>7 DEF Changed, KeyAt, s
  <2> QED BY <2>6, <2>7
<1> HIDE DEF k
<1>3. NewOf("xor", w, k, inc, data) = NewOf("xor", w, key, inc, data)
  BY <1>2 DEF NewOf
<1>4. "xor" \in WordOps
  BY DEF WordOps
<1>5. InPlace("xor", w, k, inc, data) = InPlace("xor", w, key, inc, data)
  BY <1>3, <1>4, InPlaceWords
<1> QED BY <1>5 DEF k

\* What moves the key of the first word as the key moves it does the same.
LEMMA SameFirst ==
  ASSUME NEW data \in Seq(Byte), NEW w \in Width, NEW key \in Int, NEW inc \in Int, NEW op \in {"rol", "ror"}
  PROVE  InPlace(op, w, KeyAt(key, inc, 0, w), inc, data) = InPlace(op, w, key, inc, data)
<1> DEFINE k == KeyAt(key, inc, 0, w)
<1>1. ASSUME NEW i \in 0 .. Words(data, w) - 1
      PROVE  Changed(op, WordOf(data, w, i), k, KeyAt(k, inc, i, w))
             = Changed(op, WordOf(data, w, i), key, KeyAt(key, inc, i, w))
  <2>1. KeyAt(k, inc, i, w) = KeyAt(key, inc, i, w)
    BY KeyAtIs
  <2> HIDE DEF k
  <2> QED BY <2>1 DEF Changed
<1> HIDE DEF k
<1>2. NewOf(op, w, k, inc, data) = NewOf(op, w, key, inc, data)
  BY <1>1 DEF NewOf
<1>3. op \in WordOps
  BY DEF WordOps
<1>4. InPlace(op, w, k, inc, data) = InPlace(op, w, key, inc, data)
  BY <1>2, <1>3, InPlaceWords
<1> QED BY <1>4 DEF k

\* A rotation by nothing, or once around.
LEMMA AllAround ==
  ASSUME NEW w \in Width, NEW word \in Word(w)
  PROVE  /\ Rol(word, 0) = word /\ Rol(word, 8 * w) = word
         /\ Ror(word, 0) = word /\ Ror(word, 8 * w) = word
<1> DEFINE n == 8 * w
<1>1. w \in Nat /\ n \in Nat /\ 0 \in 0 .. n /\ n \in 0 .. n /\ word \in Seq(Byte) /\ Len(word) = w
  BY DEF Width, Word
<1>2. ASSUME NEW u \in Word(w), \A j \in 1 .. n : Bits(u)[j] = Bits(word)[j] PROVE u = word
  BY <1>1, <1>2, SameBits DEF Word
<1>3. \A j \in 1 .. n : j - 0 >= 1 /\ j - 0 = j /\ ~(j - n >= 1) /\ j - n + n = j
                        /\ j + 0 <= n /\ j + 0 = j /\ ~(j + n <= n) /\ j + n - n = j
  BY <1>1
<1>4. ASSUME NEW k \in {0, n} PROVE Rol(word, k) = word
  <2>0. k \in 0 .. 8 * w
    BY <1>1
  <2>1. Rol(word, k) \in Word(w)
        /\ \A j \in 1 .. n : Bits(Rol(word, k))[j] = IF j - k >= 1 THEN Bits(word)[j - k] ELSE Bits(word)[j - k + n]
    BY <2>0, RolIs
  <2> HIDE DEF n
  <2>2. \A j \in 1 .. n : Bits(Rol(word, k))[j] = Bits(word)[j]
    BY <1>3, <2>1
  <2> QED BY <1>2, <2>1, <2>2
<1>5. ASSUME NEW k \in {0, n} PROVE Ror(word, k) = word
  <2>0. k \in 0 .. 8 * w
    BY <1>1
  <2>1. Ror(word, k) \in Word(w)
        /\ \A j \in 1 .. n : Bits(Ror(word, k))[j] = IF j + k <= n THEN Bits(word)[j + k] ELSE Bits(word)[j + k - n]
    BY <2>0, RorIs
  <2> HIDE DEF n
  <2>2. \A j \in 1 .. n : Bits(Ror(word, k))[j] = Bits(word)[j]
    BY <1>3, <2>1
  <2> QED BY <1>2, <2>1, <2>2
<1> QED BY <1>4, <1>5

\* A buffer whose words an action leaves as they are stays as it is.
LEMMA InPlaceStill ==
  ASSUME NEW data \in Seq(Byte), NEW w \in Width, NEW key, NEW inc, NEW op \in WordOps,
         \A i \in 0 .. Words(data, w) - 1 :
           Changed(op, WordOf(data, w, i), key, KeyAt(key, inc, i, w)) = WordOf(data, w, i)
  PROVE  InPlace(op, w, key, inc, data) = data
<1> DEFINE new == [i \in 0 .. Words(data, w) - 1 |-> WordOf(data, w, i)]
<1>1. NewOf(op, w, key, inc, data) = new /\ new \in NewWords(data, w)
  <2>1. new \in NewWords(data, w)
    BY WordOfIs DEF NewWords
  <2> QED BY <2>1 DEF NewOf
<1> HIDE DEF new
<1>2. InPlace(op, w, key, inc, data) = Joined(data, w, new)
  BY <1>1, InPlaceWords
<1>3. Joined(Joined(data, w, new), w, new) = data
  BY <1>1, JoinedBack DEF new
<1>4. Joined(Joined(data, w, new), w, new) = Joined(data, w, new)
  <2> DEFINE d == Joined(data, w, new)
  <2>1. Len(d) = Len(data) /\ DOMAIN d = DOMAIN data /\ d \in Seq(Byte)
    BY <1>1, JoinedIs
  <2>2. \A j \in DOMAIN data :
          d[j] = IF j > w * Words(data, w) THEN data[j] ELSE new[(j - 1) \div w][((j - 1) % w) + 1]
    BY DEF Joined
  <2>3. d = [j \in DOMAIN data |-> d[j]]
    BY DEF Joined
  <2> HIDE DEF d, new
  <2>4. Joined(d, w, new) =
          [j \in DOMAIN data |-> IF j > w * Words(data, w) THEN d[j] ELSE new[(j - 1) \div w][((j - 1) % w) + 1]]
    BY <2>1 DEF Joined, Words
  <2>5. Joined(d, w, new) = d
    BY <2>2, <2>3, <2>4
  <2> QED BY <2>5 DEF d
<1> QED BY <1>2, <1>3, <1>4

\* Whatever key a change was made with, a search of the opposite operation has
\* the data among its solutions, as long as it leaves the key out that changes
\* nothing.
LEMMA SearchFinds ==
  ASSUME NEW data \in Seq(Byte), NEW w \in Width, NEW key \in Int, NEW s \in Int,
         NEW op \in {"xor", "rol", "ror"}, ShiftDefined(op, w, key, s, data),
         NEW x, x.w = w, x.op \in Brutes, Searched(x) = Opposite(op),
         (x.op = "xorbrute") <=> (op = "xor"),
         op = "xor" => key % 256 ^ w # 0,
         \A k \in Keys(x) : ShiftDefined(Searched(x), w, k, s, InPlace(op, w, key, s, data))
  PROVE  \E k \in Keys(x) : InPlace(Searched(x), w, k, s, InPlace(op, w, key, s, data)) = data
<1> DEFINE d == InPlace(op, w, key, s, data)
<1>1. d \in Seq(Byte) /\ Len(d) = Len(data) /\ Words(d, w) = Words(data, w)
  BY InPlaceIs DEF Words
<1>2. op \in Invertible /\ op \in WordOps
  BY DEF Invertible, WordOps
<1>3. InPlace(Opposite(op), w, key, s, d) = data
  BY <1>2, InPlaceBack
<1>4. CASE op = "xor"
  <2>1. key % 256 ^ w \in Keys(x)
    <3> DEFINE n == 256 ^ w
    <3>1. n \in Int /\ key % n \in 0 .. n - 1 /\ key % n # 0
      BY <1>4, KeyRange
    <3>2. Keys(x) = 1 .. n - 1
      BY <1>4 DEF Keys
    <3> HIDE DEF n
    <3>3. key % n \in Keys(x)
      BY <3>1, <3>2
    <3> QED BY <3>3 DEF n
  <2>2. Searched(x) = "xor" /\ Opposite(op) = "xor"
    BY <1>4 DEF Opposite
  <2> HIDE DEF d
  <2>3. InPlace("xor", w, key % 256 ^ w, s, d) = data
    BY <1>1, <1>3, <2>2, SameXor
  <2> QED BY <2>1, <2>2, <2>3 DEF d
<1>5. CASE op \in {"rol", "ror"}
  <2>1. Keys(x) = 1 .. 8 * w /\ 8 * w \in Keys(x) /\ w \in Int
    BY <1>5 DEF Keys, Width
  <2> DEFINE first == KeyAt(key, s, 0, w)
  <2>0. Opposite(op) \in {"rol", "ror"} /\ Opposite(op) \in WordOps
    BY <1>2, <1>5, OppositeIs
  <2>2. CASE first \in 1 .. 8 * w
    <3> HIDE DEF d
    <3>1. InPlace(Opposite(op), w, first, s, d) = data
      BY <1>1, <1>3, <2>0, SameFirst
    <3> HIDE DEF first
    <3> QED BY <2>1, <2>2, <3>1 DEF d
  <2>3. CASE first \notin 1 .. 8 * w
    <3>1. Opposite(op) \in {"rol", "ror"} /\ Opposite(op) \in WordOps
      BY <2>0
    <3>2. ASSUME NEW i \in 0 .. Words(data, w) - 1
          PROVE  KeyAt(key, s, i, w) = 0 /\ KeyAt(8 * w, s, i, w) = 8 * w
      <4>1. Words(data, w) \in Nat /\ 0 \in 0 .. Words(data, w) - 1
        BY DEF Words, Width
      <4> DEFINE m  == i * s
                 kk == KeyAt(key, s, i, w)
                 kw == KeyAt(8 * w, s, i, w)
      <4>2. m \in Int /\ first \in Int /\ kk \in Int /\ kw \in Int
        <5>1. i \in Int /\ 0 \in Int /\ 8 * w \in Int
          BY <2>1
        <5>2. m \in Int
          BY <5>1
        <5>3. \A y \in Int : \A j \in Int : KeyAt(y, s, j, w) \in Int
          BY KeyAtIs
        <5> HIDE DEF m, d
        <5> QED BY <5>1, <5>2, <5>3
      <4>3. first \in 0 .. 31 /\ 8 * w - first \in 0 .. 31 /\ kk \in 0 .. 31 /\ 8 * w - kk \in 0 .. 31
        BY <1>5, <4>1 DEF ShiftDefined
      <4>4. first = 0 /\ kk = KeyAt(first, s, i, w)
        <5>1. kk = KeyAt(first, s, i, w)
          BY KeyAtIs
        <5> HIDE DEF first, kk
        <5>2. first = 0
          BY <2>1, <2>3, <4>2, <4>3
        <5> QED BY <5>1, <5>2
      <4>5. ShiftDefined(Searched(x), w, 8 * w, s, d) /\ Searched(x) \in {"rol", "ror"}
        BY <2>1, <3>1
      <4>6. 8 * w - kw \in 0 .. 31
        <5> HIDE DEF d
        <5> QED BY <1>1, <4>5 DEF ShiftDefined
      <4>7. kk = KeyAt(0, s, i, w)
        BY <4>4
      <4>8. CASE w = 4
        <5>1. kk = 0 + m /\ kw = 32 + m
          BY <4>7, <4>8 DEF KeyAt
        <5> HIDE DEF m, kk, kw, first, d
        <5>2. kk = 0 /\ kw = 8 * w
          BY <4>2, <4>3, <4>6, <4>8, <5>1
        <5> QED BY <5>2 DEF kk, kw
      <4>9. CASE w # 4
        <5>1. kk = (0 + m) % 256 ^ w /\ kw = (8 * w + m) % 256 ^ w
          BY <4>7, <4>9 DEF KeyAt
        <5> HIDE DEF m, kk, kw, first, d
        <5>2. \A v \in {8, 16} :
                /\ m % 256 <= v /\ (v + m) % 256 <= v => m % 256 = 0 /\ (v + m) % 256 = v
                /\ m % 65536 <= v /\ (v + m) % 65536 <= v => m % 65536 = 0 /\ (v + m) % 65536 = v
          BY <4>2
        <5>3. w = 1 \/ w = 2
          BY <4>9 DEF Width
        <5>4. (256 ^ w = 256 \/ 256 ^ w = 65536) /\ (8 * w = 8 \/ 8 * w = 16)
          <6>1. CASE w = 1
            BY <6>1, PowersOf256
          <6>2. CASE w = 2
            BY <6>2, PowersOf256
          <6> QED BY <5>3, <6>1, <6>2
        <5>5. kk = m % 256 ^ w
          BY <4>2, <5>1
        <5>6. kk <= 8 * w /\ kw <= 8 * w
          <6>1. \A u, v \in Int : v - u \in 0 .. 31 => u <= v
            OBVIOUS
          <6>2. 8 * w \in Int
            BY <2>1
          <6> QED BY <4>2, <4>3, <4>6, <6>1, <6>2
        <5>7. kk = 0 /\ kw = 8 * w
          BY <5>1, <5>2, <5>4, <5>5, <5>6, SMT
        <5> QED BY <5>7 DEF kk, kw
      <4> QED BY <4>8, <4>9
    <3>3. ASSUME NEW i \in 0 .. Words(data, w) - 1
          PROVE  Changed(op, WordOf(data, w, i), key, KeyAt(key, s, i, w)) = WordOf(data, w, i)
      <4>1. WordOf(data, w, i) \in Word(w)
        BY WordOfIs
      <4> QED BY <1>5, <3>2, <4>1, AllAround DEF Changed
    <3>4. d = data
      BY <1>2, <3>3, InPlaceStill
    <3>5. ASSUME NEW i \in 0 .. Words(data, w) - 1
          PROVE  Changed(Opposite(op), WordOf(data, w, i), 8 * w, KeyAt(8 * w, s, i, w)) = WordOf(data, w, i)
      <4>1. WordOf(data, w, i) \in Word(w)
        BY WordOfIs
      <4> QED BY <3>1, <3>2, <4>1, AllAround DEF Changed
    <3>6. InPlace(Opposite(op), w, 8 * w, s, data) = data
      BY <3>1, <3>5, InPlaceStill
    <3> HIDE DEF d
    <3>7. InPlace(Searched(x), w, 8 * w, s, d) = data
      BY <3>4, <3>6
    <3> QED BY <2>1, <3>7 DEF d
  <2> QED BY <2>2, <2>3
<1> QED BY <1>4, <1>5

-----------------------------------------------------------------------------
(***************************************************************************)
(* Sequences.                                                              *)
(***************************************************************************)

\* Sequences in a row, put together one after the other.
Flattens(f, S, seqs) ==
  /\ f \in [0 .. Len(seqs) -> Seq(S)] /\ f[0] = <<>> /\ f[Len(seqs)] = FlattenSeq(seqs)
  /\ \A i \in 1 .. Len(seqs) : /\ f[i] = f[i - 1] \o seqs[i]
                               /\ Len(f[i]) = Len(f[i - 1]) + Len(seqs[i]) /\ Len(f[i - 1]) \in Nat

LEMMA FlattenWalk ==
  ASSUME NEW S, NEW seqs \in Seq(Seq(S))
  PROVE  \E f : Flattens(f, S, seqs)
<1> DEFINE n == Len(seqs)
           Eq(f) == f = [i \in 1 .. n |-> IF i = 1 THEN seqs[i] ELSE f[i - 1] \o seqs[i]]
           flatten == CHOOSE f : Eq(f)
           Q == Seq(S)
           more == [i \in 1 .. n |-> [v \in Q |-> v \o seqs[i]]]
           from == <<>>
<1>1. CASE n = 0
  <2>1. seqs = <<>> /\ FlattenSeq(seqs) = <<>>
    BY <1>1 DEF FlattenSeq
  <2> DEFINE f == [i \in 0 .. n |-> from]
  <2>2. f \in [0 .. n -> Seq(S)] /\ f[0] = <<>> /\ f[n] = <<>>
    BY <1>1
  <2> HIDE DEF f
  <2>3. Flattens(f, S, seqs)
    BY <1>1, <2>1, <2>2 DEF Flattens
  <2> QED BY <2>3
<1>2. CASE n # 0
  <2>1. n \in Nat /\ n >= 1 /\ FlattenSeq(seqs) = flatten[n]
    BY <1>2 DEF FlattenSeq
  <2>2. \A i \in 1 .. n : seqs[i] \in Q
    OBVIOUS
  <2>3. \A i \in 1 .. n : \A v \in Q : v \o seqs[i] \in Q /\ Len(v \o seqs[i]) = Len(v) + Len(seqs[i])
    BY <2>2, ConcatProperties
  <2>4. more \in [1 .. n -> [Q -> Q]] /\ from \in Q
    BY <2>3
  <2>5. \A i \in 1 .. n : \A v \in Q : more[i][v] = v \o seqs[i]
    OBVIOUS
  <2>0. from = <<>> /\ \A v \in Q : Len(v) \in Nat /\ <<>> \o v = v
    OBVIOUS
  <2> HIDE DEF n, more, flatten, Q, from
  <2>6. PICK g : Iterates(g, Q, n, from, more)
    BY <2>1, <2>4, IteratesExist
  <2>61. g \in [0 .. n -> Q] /\ g[0] = from /\ \A i \in 1 .. n : g[i] = more[i][g[i - 1]]
    BY <2>6 DEF Iterates
  <2> DEFINE h == [i \in 1 .. n |-> g[i]]
  <2>7. Eq(h)
    <3>1. ASSUME NEW i \in 1 .. n PROVE h[i] = IF i = 1 THEN seqs[i] ELSE h[i - 1] \o seqs[i]
      <4>1. g[i] = g[i - 1] \o seqs[i]
        <5>1. i - 1 \in 0 .. n
          BY <2>1
        <5> QED BY <2>5, <2>61, <5>1
      <4>2. CASE i = 1
        <5>1. g[i - 1] = <<>>
          BY <2>0, <2>61, <4>2
        <5>2. <<>> \o seqs[i] = seqs[i]
          BY <2>0, <2>2
        <5> QED BY <4>1, <4>2, <5>1, <5>2
      <4>3. CASE i # 1
        <5>1. i - 1 \in 1 .. n
          BY <2>1, <4>3
        <5> QED BY <4>1, <4>3, <5>1
      <4> QED BY <4>2, <4>3
    <3> HIDE DEF h
    <3>2. h = [i \in 1 .. n |-> h[i]]
      BY DEF h
    <3> QED BY <3>1, <3>2
  <2>8. Eq(flatten)
    <3> HIDE DEF h
    <3> QED BY <2>7 DEF flatten
  <2> DEFINE f == [i \in 0 .. n |-> IF i = 0 THEN from ELSE flatten[i]]
  <2>9. f = [i \in 0 .. n |-> f[i]] /\ f[0] = from /\ \A i \in 1 .. n : f[i] = flatten[i]
    BY <2>1
  <2> HIDE DEF f
  <2>10. ASSUME NEW i \in 1 .. n, f[i - 1] \in Q PROVE f[i] = f[i - 1] \o seqs[i]
    <3>1. f[i] = flatten[i]
      BY <2>9
    <3>2. CASE i = 1
      <4>1. f[i - 1] = <<>> /\ flatten[i] = seqs[i]
        BY <2>0, <2>8, <2>9, <3>2
      <4>2. <<>> \o seqs[i] = seqs[i]
        BY <2>0, <2>2
      <4> QED BY <3>1, <4>1, <4>2
    <3>3. CASE i # 1
      <4>1. i - 1 \in 1 .. n
        BY <2>1, <3>3
      <4>2. f[i - 1] = flatten[i - 1]
        BY <2>9, <4>1
      <4> QED BY <2>8, <3>1, <3>3, <4>2
    <3> QED BY <3>2, <3>3
  <2>11. f \in [0 .. n -> Q]
    <3>1. ASSUME NEW i \in 1 .. n, f[i - 1] \in Q PROVE f[i] \in Q
      BY <2>2, <2>3, <2>10, <3>1
    <3>2. StepsStay(f, Q, n)
      BY <2>4, <2>9, <3>1 DEF StepsStay
    <3> QED BY <2>1, <3>2, IteratesStay
  <2>12. \A i \in 1 .. n : f[i - 1] \in Q /\ f[i] = f[i - 1] \o seqs[i]
    <3>1. \A i \in 1 .. n : i - 1 \in 0 .. n
      BY <2>1
    <3> QED BY <2>10, <2>11, <3>1
  <2>13. \A i \in 1 .. n : Len(f[i]) = Len(f[i - 1]) + Len(seqs[i]) /\ Len(f[i - 1]) \in Nat
    BY <2>0, <2>3, <2>12
  <2>14. f[n] = FlattenSeq(seqs)
    <3>1. n \in 1 .. n /\ n \in 0 .. n
      BY <2>1
    <3> QED BY <2>1, <2>9, <2>11, <3>1 DEF Q
  <2>15. Flattens(f, S, seqs)
    BY <2>9, <2>11, <2>12, <2>13, <2>14 DEF Flattens, n, Q, from
  <2> QED BY <2>15
<1> QED BY <1>1, <1>2

\* Sequences in a row make a sequence, which is at least as long as there are
\* parts when none of them is empty, and a multiple of n when all have length n.
LEMMA FlattenIs ==
  ASSUME NEW S, NEW seqs \in Seq(Seq(S))
  PROVE  /\ FlattenSeq(seqs) \in Seq(S)
         /\ (\A i \in 1 .. Len(seqs) : Len(seqs[i]) >= 1) => Len(FlattenSeq(seqs)) >= Len(seqs)
         /\ (\A i \in 1 .. Len(seqs) : Len(seqs[i]) = 5) => Len(FlattenSeq(seqs)) = 5 * Len(seqs)
<1> DEFINE n == Len(seqs)
<1>1. n \in Nat /\ \A i \in 1 .. n : Len(seqs[i]) \in Nat
  OBVIOUS
<1>2. PICK f : Flattens(f, S, seqs)
  BY FlattenWalk
<1>3. /\ f \in [0 .. n -> Seq(S)] /\ f[0] = <<>> /\ f[n] = FlattenSeq(seqs)
      /\ \A i \in 1 .. n : Len(f[i]) = Len(f[i - 1]) + Len(seqs[i]) /\ Len(f[i - 1]) \in Nat
  BY <1>2 DEF Flattens
<1>4. \A i \in 0 .. n : Len(f[i]) \in Nat
  BY <1>3
<1>5. Len(f[0]) = 0
  BY <1>3
<1> HIDE DEF n
<1>6. ASSUME \A i \in 1 .. n : Len(seqs[i]) >= 1 PROVE Len(f[n]) >= n
  <2> DEFINE P == {v \in Nat \X Nat : v[1] >= v[2]}
             d == [i \in 0 .. n |-> <<Len(f[i]), i>>]
  <2>1. \A i \in 0 .. n : Len(f[i]) \in Nat
    BY <1>4
  <2>2. d[0] \in P
    BY <1>1, <1>4, <1>5
  <2>3. ASSUME NEW i \in 1 .. n, d[i - 1] \in P PROVE d[i] \in P
    <3>1. i - 1 \in 0 .. n /\ i \in 0 .. n
      BY <1>1
    <3>2. Len(f[i - 1]) >= i - 1
      BY <2>3, <3>1
    <3>3. Len(f[i]) >= Len(f[i - 1]) + 1 /\ Len(f[i - 1]) \in Nat /\ Len(f[i]) \in Nat
      <4>1. Len(seqs[i]) >= 1 /\ Len(seqs[i]) \in Nat
        BY <1>1, <1>6
      <4>2. Len(f[i]) = Len(f[i - 1]) + Len(seqs[i]) /\ Len(f[i - 1]) \in Nat
        BY <1>3
      <4>3. \A x, y \in Nat : y >= 1 => x + y >= x + 1 /\ x + y \in Nat
        OBVIOUS
      <4> QED BY <4>1, <4>2, <4>3
    <3>4. Len(f[i]) >= i
      BY <3>2, <3>3
    <3> QED BY <2>1, <3>1, <3>4
  <2>4. d = [i \in 0 .. n |-> d[i]]
    OBVIOUS
  <2> HIDE DEF d, P
  <2>5. d \in [0 .. n -> P]
    BY <1>1, <2>2, <2>3, <2>4, IteratesStay DEF StepsStay
  <2>6. n \in 0 .. n
    BY <1>1
  <2>7. d[n] \in P
    BY <2>5, <2>6
  <2> QED BY <2>6, <2>7 DEF d, P
<1>7. ASSUME \A i \in 1 .. n : Len(seqs[i]) = 5 PROVE Len(f[n]) = 5 * n
  <2> DEFINE P == {v \in Nat \X Nat : v[1] = 5 * v[2]}
             d == [i \in 0 .. n |-> <<Len(f[i]), i>>]
  <2>1. \A i \in 0 .. n : Len(f[i]) \in Nat
    BY <1>4
  <2>2. d[0] \in P
    BY <1>1, <1>4, <1>5
  <2>3. ASSUME NEW i \in 1 .. n, d[i - 1] \in P PROVE d[i] \in P
    <3>1. i - 1 \in 0 .. n /\ i \in 0 .. n
      BY <1>1
    <3>2. Len(f[i - 1]) = 5 * (i - 1)
      BY <2>3, <3>1
    <3>3. Len(f[i]) = Len(f[i - 1]) + 5
      BY <1>3, <1>7
    <3>4. Len(f[i]) = 5 * i
      BY <3>2, <3>3
    <3> QED BY <2>1, <3>1, <3>4
  <2>4. d = [i \in 0 .. n |-> d[i]]
    OBVIOUS
  <2> HIDE DEF d, P
  <2>5. d \in [0 .. n -> P]
    BY <1>1, <2>2, <2>3, <2>4, IteratesStay DEF StepsStay
  <2>6. n \in 0 .. n
    BY <1>1
  <2>7. d[n] \in P
    BY <2>5, <2>6
  <2> QED BY <2>6, <2>7 DEF d, P
<1> QED
  <2>1. n \in 0 .. n
    BY <1>1
  <2> QED BY <1>3, <1>6, <1>7, <2>1 DEF n

LEMMA FunctionIsSeq ==
  ASSUME NEW S, NEW n \in Nat, NEW f \in [1 .. n -> S]
  PROVE  f \in Seq(S) /\ Len(f) = n
OBVIOUS

LEMMA ReverseIs ==
  ASSUME NEW S, NEW s \in Seq(S)
  PROVE  Reverse(s) \in Seq(S) /\ Len(Reverse(s)) = Len(s)
<1>1. \A i \in 1 .. Len(s) : (Len(s) - i) + 1 \in 1 .. Len(s)
  OBVIOUS
<1>2. Reverse(s) \in [1 .. Len(s) -> S]
  BY <1>1 DEF Reverse
<1> QED BY <1>2

LEMMA WithLastIs ==
  ASSUME NEW S, NEW s \in Seq(S), s # <<>>, NEW x \in S
  PROVE  /\ Last(s) \in S
         /\ WithLast(s, x) \in Seq(S) /\ WithLast(s, x) # <<>> /\ Len(WithLast(s, x)) = Len(s)
<1>1. Len(s) \in 1 .. Len(s) /\ Last(s) \in S
  BY DEF Last
<1>2. Front(s) \in Seq(S) /\ Len(Front(s)) = Len(s) - 1
  <2>1. 1 \in Int /\ Len(s) - 1 \in Int /\ \A i \in 1 .. Len(s) - 1 : s[i] \in S
    OBVIOUS
  <2>2. /\ SubSeq(s, 1, Len(s) - 1) \in Seq(S)
        /\ Len(SubSeq(s, 1, Len(s) - 1)) = IF 1 <= Len(s) - 1 THEN Len(s) - 1 - 1 + 1 ELSE 0
    BY <2>1, SubSeqProperties
  <2>3. Len(s) \in Nat /\ Len(s) >= 1
    BY <1>1
  <2>4. Front(s) \in Seq(S)
    BY <2>2 DEF Front
  <2>5. Len(Front(s)) = Len(s) - 1
    <3>1. \A n \in Nat : n >= 1 => (IF 1 <= n - 1 THEN n - 1 - 1 + 1 ELSE 0) = n - 1
      OBVIOUS
    <3> QED BY <2>2, <2>3, <3>1 DEF Front
  <2> QED BY <2>4, <2>5
<1> HIDE DEF Front
<1> QED BY <1>1, <1>2, AppendProperties DEF WithLast

-----------------------------------------------------------------------------
(***************************************************************************)
(* Numbers of any length in one base and in another.                       *)
(***************************************************************************)
Bases == {10, 58, 85, 256}

Digit(base) == 0 .. base - 1

LEMMA DivideByBase ==
  ASSUME NEW base \in Bases, NEW x \in Int
  PROVE  x % base \in Digit(base) /\ x \div base \in Int
BY DEF Bases, Digit

LEMMA PowersOfBases ==
  ASSUME NEW base \in Bases
  PROVE  base ^ 0 = 1 /\ base ^ 1 = base /\ base ^ 2 \in {100, 3364, 7225, 65536}
<1>1. 10 ^ 0 = 1 /\ 10 ^ 1 = 10 /\ 10 ^ 2 = 100
  BY SMT
<1>2. 58 ^ 0 = 1 /\ 58 ^ 1 = 58 /\ 58 ^ 2 = 3364
  BY SMT
<1>3. 85 ^ 0 = 1 /\ 85 ^ 1 = 85 /\ 85 ^ 2 = 7225
  BY SMT
<1>4. 256 ^ 0 = 1 /\ 256 ^ 1 = 256 /\ 256 ^ 2 = 65536
  BY SMT
<1>5. base = 10 \/ base = 58 \/ base = 85 \/ base = 256
  BY DEF Bases
<1>6. CASE base = 10
  BY <1>1, <1>6
<1>7. CASE base = 58
  BY <1>2, <1>7
<1>8. CASE base = 85
  BY <1>3, <1>8
<1>9. CASE base = 256
  BY <1>4, <1>9
<1> QED BY <1>5, <1>6, <1>7, <1>8, <1>9

LEMMA NewDigits ==
  ASSUME NEW base \in Bases, NEW x \in Int
  PROVE  LowDigits(x, DigitsOf(x, base), base) \in Seq(Digit(base))
<1> DEFINE n == DigitsOf(x, base)
           P(i) == base ^ (i - 1)
           d == LowDigits(x, n, base)
<1>1. n \in 0 .. 3
  BY DEF DigitsOf
<1>2. P(1) = base ^ 0 /\ P(2) = base ^ 1 /\ P(3) = base ^ 2
  OBVIOUS
<1>3. d = [i \in 1 .. n |-> (x \div P(i)) % base]
  BY DEF LowDigits
<1> HIDE DEF n, d, P
<1>4. P(1) = 1 /\ P(2) = base /\ P(3) \in {100, 3364, 7225, 65536}
  BY <1>2, PowersOfBases
<1>5. x \div P(1) \in Int /\ x \div P(2) \in Int /\ x \div P(3) \in Int
  BY <1>4 DEF Bases
<1>6. \A i \in 1 .. n : i = 1 \/ i = 2 \/ i = 3
  BY <1>1
<1>7. \A i \in 1 .. n : (x \div P(i)) % base \in Digit(base)
  BY <1>5, <1>6, DivideByBase
<1>8. d \in [1 .. n -> Digit(base)]
  BY <1>3, <1>7
<1>9. d \in Seq(Digit(base))
  BY <1>1, <1>8
<1> QED BY <1>9 DEF d, n

\* The digits of a product stay digits, and none gets lost.
LEMMA MulAddIs ==
  ASSUME NEW base \in Bases, NEW digits \in Seq(Digit(base)), NEW m \in Nat, NEW a \in Int
  PROVE  /\ MulAdd(digits, m, a, base) \in Seq(Digit(base))
         /\ Len(MulAdd(digits, m, a, base)) >= Len(digits)
<1> DEFINE n == Len(digits)
           Eq(f) == f = [i \in 0 .. n |-> IF i = 0 THEN a ELSE (digits[i] * m + f[i - 1]) \div base]
           carry == CHOOSE f : Eq(f)
           I == Int
           up == [i \in 1 .. n |-> [v \in I |-> (digits[i] * m + v) \div base]]
           low == [i \in DOMAIN digits |-> (digits[i] * m + carry[i - 1]) % base]
<1>1. n \in Nat /\ DOMAIN digits = 1 .. n
  OBVIOUS
<1>2. MulAdd(digits, m, a, base) = low \o LowDigits(carry[n], DigitsOf(carry[n], base), base)
  BY DEF MulAdd
<1>3. ASSUME NEW i \in 1 .. n, NEW v \in Int
      PROVE  digits[i] * m + v \in Int /\ (digits[i] * m + v) \div base \in Int
  <2>1. digits[i] \in Digit(base)
    OBVIOUS
  <2>2. digits[i] \in Int /\ m \in Int
    BY <2>1 DEF Digit
  <2>3. digits[i] * m \in Int
    BY <2>2
  <2>4. digits[i] * m + v \in Int
    BY <2>3
  <2> QED BY <2>4, DivideByBase
<1>4. up \in [1 .. n -> [I -> I]] /\ a \in I
  BY <1>3
<1>5. \A i \in 1 .. n : \A v \in I : up[i][v] = (digits[i] * m + v) \div base
  OBVIOUS
<1> HIDE DEF n, up, I
<1>6. PICK g : Iterates(g, I, n, a, up)
  BY <1>1, <1>4, IteratesExist
<1>7. Eq(g)
  <2>1. g \in [0 .. n -> I] /\ g[0] = a /\ \A i \in 1 .. n : g[i] = up[i][g[i - 1]]
    BY <1>6 DEF Iterates
  <2>2. ASSUME NEW i \in 0 .. n, i # 0 PROVE g[i] = (digits[i] * m + g[i - 1]) \div base
    <3>1. i \in 1 .. n /\ i - 1 \in 0 .. n
      BY <1>1, <2>2
    <3>2. g[i - 1] \in I /\ g[i] = up[i][g[i - 1]]
      BY <2>1, <3>1
    <3> QED BY <1>5, <3>1, <3>2
  <2> QED BY <2>1, <2>2
<1>8. Eq(carry)
  BY <1>7
<1> HIDE DEF carry
<1>9. carry \in [0 .. n -> I]
  <2>1. carry = [i \in 0 .. n |-> carry[i]] /\ carry[0] = a
    BY <1>1, <1>8
  <2>2. ASSUME NEW i \in 1 .. n, carry[i - 1] \in I PROVE carry[i] \in I
    <3>1. i \in 0 .. n /\ i # 0
      BY <1>1
    <3>2. carry[i] = (digits[i] * m + carry[i - 1]) \div base
      BY <1>8, <3>1
    <3> QED BY <1>3, <2>2, <3>2 DEF I
  <2>3. StepsStay(carry, I, n)
    BY <1>4, <2>1, <2>2 DEF StepsStay
  <2> QED BY <1>1, <2>3, IteratesStay
<1>10. low \in [1 .. n -> Digit(base)]
  <2>1. ASSUME NEW i \in 1 .. n PROVE (digits[i] * m + carry[i - 1]) % base \in Digit(base)
    <3>1. carry[i - 1] \in Int
      <4>1. i - 1 \in 0 .. n
        BY <1>1
      <4> QED BY <1>9, <4>1 DEF I
    <3> QED BY <1>3, <3>1, DivideByBase
  <2> QED BY <1>1, <2>1
<1>11. LowDigits(carry[n], DigitsOf(carry[n], base), base) \in Seq(Digit(base))
  <2>1. carry[n] \in Int
    BY <1>1, <1>9 DEF I
  <2> QED BY <2>1, NewDigits
<1> HIDE DEF low
<1>12. low \in Seq(Digit(base)) /\ Len(low) = n
  BY <1>1, <1>10
<1> QED BY <1>2, <1>11, <1>12, ConcatProperties DEF n

\* So the new number has the digits of its base, and as many as it starts with.
LEMMA RebaseIs ==
  ASSUME NEW digits \in Seq(Int), NEW to \in Bases, NEW first \in Seq(Digit(to)), NEW from \in Nat
  PROVE  Rebase(digits, first, from, to) \in Seq(Digit(to)) /\ Len(Rebase(digits, first, from, to)) >= Len(first)
<1> DEFINE n == Len(digits)
           Eq(f) == f = [i \in 0 .. n |-> IF i = 0 THEN first ELSE MulAdd(f[i - 1], from, digits[i], to)]
           acc == CHOOSE f : Eq(f)
           I == {d \in Seq(Digit(to)) : Len(d) >= Len(first)}
           up == [i \in 1 .. n |-> [v \in I |-> MulAdd(v, from, digits[i], to)]]
<1>1. n \in Nat
  OBVIOUS
<1>2. Rebase(digits, first, from, to) = acc[n]
  BY DEF Rebase
<1>3. ASSUME NEW i \in 1 .. n, NEW v \in I PROVE MulAdd(v, from, digits[i], to) \in I
  <2>1. digits[i] \in Int /\ v \in Seq(Digit(to)) /\ Len(v) >= Len(first)
    OBVIOUS
  <2>2. MulAdd(v, from, digits[i], to) \in Seq(Digit(to)) /\ Len(MulAdd(v, from, digits[i], to)) >= Len(v)
    BY <2>1, MulAddIs
  <2>3. Len(MulAdd(v, from, digits[i], to)) >= Len(first)
    BY <2>1, <2>2
  <2> QED BY <2>2, <2>3
<1>4. up \in [1 .. n -> [I -> I]] /\ first \in I
  BY <1>3
<1>5. \A i \in 1 .. n : \A v \in I : up[i][v] = MulAdd(v, from, digits[i], to)
  OBVIOUS
<1> HIDE DEF n, up, I
<1>6. PICK g : Iterates(g, I, n, first, up)
  BY <1>1, <1>4, IteratesExist
<1>7. Eq(g)
  <2>1. g \in [0 .. n -> I] /\ g[0] = first /\ \A i \in 1 .. n : g[i] = up[i][g[i - 1]]
    BY <1>6 DEF Iterates
  <2>2. ASSUME NEW i \in 0 .. n, i # 0 PROVE g[i] = MulAdd(g[i - 1], from, digits[i], to)
    <3>1. i \in 1 .. n /\ i - 1 \in 0 .. n
      BY <1>1, <2>2
    <3>2. g[i - 1] \in I /\ g[i] = up[i][g[i - 1]]
      BY <2>1, <3>1
    <3> QED BY <1>5, <3>1, <3>2
  <2> QED BY <2>1, <2>2
<1>8. Eq(acc)
  BY <1>7
<1> HIDE DEF acc
<1>9. acc \in [0 .. n -> I]
  <2>1. acc = [i \in 0 .. n |-> acc[i]] /\ acc[0] = first
    BY <1>1, <1>8
  <2>2. ASSUME NEW i \in 1 .. n, acc[i - 1] \in I PROVE acc[i] \in I
    <3>1. i \in 0 .. n /\ i # 0
      BY <1>1
    <3>2. acc[i] = MulAdd(acc[i - 1], from, digits[i], to)
      BY <1>8, <3>1
    <3> QED BY <1>3, <2>2, <3>2
  <2>3. StepsStay(acc, I, n)
    BY <1>4, <2>1, <2>2 DEF StepsStay
  <2> QED BY <1>1, <2>3, IteratesStay
<1>10. acc[n] \in I
  BY <1>1, <1>9
<1> QED BY <1>2, <1>10 DEF I

-----------------------------------------------------------------------------
(***************************************************************************)
(* The encoders write bytes, and at least the NUL.                         *)
(***************************************************************************)
Text(s) == s \in Seq(Byte) /\ s # <<>>

LEMMA Closed ==
  ASSUME NEW s \in Seq(Byte)
  PROVE  Text(s \o <<NUL>>) /\ Len(s \o <<NUL>>) = Len(s) + 1
<1>1. <<NUL>> \in Seq(Byte) /\ Len(<<NUL>>) = 1
  <2>1. NUL \in Byte
    BY DEF NUL, Byte
  <2> QED BY <2>1
<1>2. s \o <<NUL>> \in Seq(Byte) /\ Len(s \o <<NUL>>) = Len(s) + 1
  BY <1>1, ConcatProperties
<1>3. Len(s) + 1 # 0
  OBVIOUS
<1>4. s \o <<NUL>> # <<>>
  BY <1>2, <1>3
<1> QED BY <1>2, <1>4 DEF Text

\* One byte as a word.
LEMMA BitsOfOne ==
  ASSUME NEW b \in Byte
  PROVE  Bits(<<b>>) \in [1 .. 8 -> Bit]
<1>1. <<b>> \in Seq(Byte) /\ Len(<<b>>) = 1 /\ 8 * 1 = 8
  OBVIOUS
<1>2. Bits(<<b>>) \in [1 .. 8 * Len(<<b>>) -> Bit]
  BY <1>1, BitsAre
<1> QED BY <1>1, <1>2

LEMMA Separators ==
  Separator \in Seq(Byte) /\ HexPrefix \in Seq(Byte) /\ <<>> \in Seq(Byte)
<1>1. Comma \in Byte /\ Space \in Byte /\ Zero \in Byte /\ LowX \in Byte
  BY DEF Comma, Space, Zero, LowX, Byte
<1> QED BY <1>1 DEF Separator, HexPrefix

\* A group of digits with what stands in front of it.
LEMMA GroupIs ==
  ASSUME NEW p \in Seq(Byte), NEW d \in Seq(Byte), NEW c1 \in BOOLEAN, NEW c2 \in BOOLEAN,
         NEW g, g = (IF c1 THEN <<>> ELSE IF c2 THEN p ELSE Separator \o p) \o d
  PROVE  g \in Seq(Byte) /\ (Len(d) >= 1 => Len(g) >= 1)
<1> DEFINE front == IF c1 THEN <<>> ELSE IF c2 THEN p ELSE Separator \o p
<1>1. Separator \o p \in Seq(Byte)
  BY Separators, ConcatProperties
<1>2. front \in Seq(Byte)
  BY <1>1, Separators
<1> HIDE DEF front
<1>3. front \o d \in Seq(Byte) /\ Len(front \o d) = Len(front) + Len(d)
  BY <1>2, ConcatProperties
<1>4. Len(front) \in Nat /\ Len(d) \in Nat
  BY <1>2
<1> QED BY <1>3, <1>4 DEF front

\* A text that has something to say is longer than its NUL.
Long(src, t) == src # <<>> => Len(t) >= 2

LEMMA LongText ==
  ASSUME NEW src \in Seq(Byte), NEW t \in Seq(Byte), src # <<>> => Len(t) >= 1
  PROVE  Long(src, t \o <<NUL>>)
<1>1. Len(t \o <<NUL>>) = Len(t) + 1 /\ Len(t) \in Nat
  BY Closed
<1> QED BY <1>1 DEF Long

\* What is written byte by byte, something for each.
LEMMA LongParts ==
  ASSUME NEW src \in Seq(Byte), NEW seqs \in Seq(Seq(Byte)), src # <<>> => Len(seqs) >= 1,
         \A i \in 1 .. Len(seqs) : Len(seqs[i]) >= 1
  PROVE  Text(FlattenSeq(seqs) \o <<NUL>>) /\ Long(src, FlattenSeq(seqs) \o <<NUL>>)
<1>1. FlattenSeq(seqs) \in Seq(Byte) /\ Len(FlattenSeq(seqs)) >= Len(seqs)
  BY FlattenIs
<1>2. src # <<>> => Len(FlattenSeq(seqs)) >= 1
  <2>1. Len(seqs) \in Nat /\ Len(FlattenSeq(seqs)) \in Nat
    BY <1>1
  <2> QED BY <1>1, <2>1
<1> QED BY <1>1, <1>2, LongText, Closed

LEMMA LenAtLeastOne ==
  ASSUME NEW S, NEW s \in Seq(S), s # <<>>
  PROVE  Len(s) >= 1
<1>1. Len(s) \in Nat /\ Len(s) # 0
  BY EmptySeq
<1> QED BY <1>1

LEMMA bin_encodeIs ==
  ASSUME NEW src \in Seq(Byte), NEW w \in Width
  PROVE  Text(bin_encode(src, w)) /\ Long(src, bin_encode(src, w))
<1> DEFINE Group(i) == (IF (i - 1) % w # 0 THEN <<>> ELSE IF i = 1 THEN <<>> ELSE Separator \o <<>>)
                       \o BinDigits(src[i])
           seqs == [i \in DOMAIN src |-> Group(i)]
<1>1. bin_encode(src, w) = FlattenSeq(seqs) \o <<NUL>>
  BY DEF bin_encode, Grouped
<1>2. ASSUME NEW b \in Byte PROVE BinDigits(b) \in Seq(Byte) /\ Len(BinDigits(b)) >= 1
  <2> DEFINE d == [k \in 1 .. 8 |-> Zero + Bits(<<b>>)[k]]
  <2>1. \A k \in 1 .. 8 : Bits(<<b>>)[k] \in Bit
    BY BitsOfOne
  <2>2. \A k \in 1 .. 8 : Zero + Bits(<<b>>)[k] \in Byte
    <3>1. \A x \in Bit : Zero + x \in Byte
      BY DEF Bit, Zero, Byte
    <3> QED BY <2>1, <3>1
  <2>3. d \in Seq(Byte) /\ Len(d) = 8
    BY <2>2
  <2> HIDE DEF d
  <2>4. Reverse(d) \in Seq(Byte) /\ Len(Reverse(d)) >= 1
    <3>1. Reverse(d) \in Seq(Byte) /\ Len(Reverse(d)) = Len(d)
      BY <2>3, ReverseIs
    <3> QED BY <2>3, <3>1
  <2> QED BY <2>4 DEF BinDigits, d
<1>3. ASSUME NEW i \in DOMAIN src PROVE Group(i) \in Seq(Byte) /\ Len(Group(i)) >= 1
  <2>1. BinDigits(src[i]) \in Seq(Byte) /\ Len(BinDigits(src[i])) >= 1
    BY <1>2
  <2> QED BY <2>1, Separators, GroupIs
<1>4. /\ seqs \in Seq(Seq(Byte)) /\ Len(seqs) = Len(src)
      /\ \A i \in 1 .. Len(seqs) : Len(seqs[i]) >= 1
  <2> HIDE DEF Group
  <2> QED BY <1>3
<1> HIDE DEF seqs
<1> QED BY <1>1, <1>4, LongParts, LenAtLeastOne

LEMMA hex_encodeIs ==
  ASSUME NEW src \in Seq(Byte), NEW w \in Width
  PROVE  Text(hex_encode(src, w)) /\ Long(src, hex_encode(src, w))
<1> DEFINE Group(i) == (IF (i - 1) % w # 0 THEN <<>> ELSE IF i = 1 THEN HexPrefix ELSE Separator \o HexPrefix)
                       \o HexDigits(src[i])
           seqs == [i \in DOMAIN src |-> Group(i)]
<1>1. hex_encode(src, w) = FlattenSeq(seqs) \o <<NUL>>
  BY DEF hex_encode, Grouped
<1>2. ASSUME NEW b \in Byte PROVE HexDigits(b) \in Seq(Byte) /\ Len(HexDigits(b)) >= 1
  <2>1. b % 16 \in 0 .. 15 /\ b \div 16 \in 0 .. 15
    BY DEF Byte
  <2>2. \A x \in 0 .. 15 : hexN(x) \in Byte
    BY DEF hexN, Zero, Byte
  <2> QED BY <2>1, <2>2 DEF HexDigits
<1>3. ASSUME NEW i \in DOMAIN src PROVE Group(i) \in Seq(Byte) /\ Len(Group(i)) >= 1
  <2>1. HexDigits(src[i]) \in Seq(Byte) /\ Len(HexDigits(src[i])) >= 1
    BY <1>2
  <2> QED BY <2>1, Separators, GroupIs
<1>4. /\ seqs \in Seq(Seq(Byte)) /\ Len(seqs) = Len(src)
      /\ \A i \in 1 .. Len(seqs) : Len(seqs[i]) >= 1
  <2> HIDE DEF Group
  <2> QED BY <1>3
<1> HIDE DEF seqs
<1> QED BY <1>1, <1>4, LongParts, LenAtLeastOne

LEMMA dec_putIs ==
  ASSUME NEW word \in Seq(Byte)
  PROVE  dec_put(word) \in Seq(Byte)
<1> DEFINE digits == Rebase(Reverse(word), <<>>, 256, 10)
           n == Len(digits)
<1>1. Reverse(word) \in Seq(Int)
  <2>1. Reverse(word) \in Seq(Byte)
    BY ReverseIs
  <2>2. Byte \subseteq Int
    BY DEF Byte
  <2> HIDE DEF digits
  <2> QED BY <2>1, <2>2, SeqMonotonic
<1>2. 10 \in Bases /\ <<>> \in Seq(Digit(10)) /\ 256 \in Nat
  BY DEF Bases
<1>3. digits \in Seq(Digit(10))
  BY <1>1, <1>2, RebaseIs
<1>4. dec_put(word) = [i \in DOMAIN digits |-> Zero + digits[n + 1 - i]]
  BY DEF dec_put
<1> HIDE DEF digits
<1>5. \A i \in 1 .. n : Zero + digits[n + 1 - i] \in Byte
  <2>1. ASSUME NEW i \in 1 .. n PROVE Zero + digits[n + 1 - i] \in Byte
    <3>1. n + 1 - i \in 1 .. n
      BY <1>3
    <3>2. digits[n + 1 - i] \in Digit(10)
      BY <1>3, <3>1
    <3>3. \A x \in Digit(10) : Zero + x \in Byte
      BY DEF Digit, Zero, Byte
    <3> QED BY <3>2, <3>3
  <2> QED BY <2>1
<1>6. n \in Nat /\ DOMAIN digits = 1 .. n
  BY <1>3
<1>7. dec_put(word) \in [1 .. n -> Byte]
  BY <1>4, <1>5, <1>6
<1> QED BY <1>6, <1>7

LEMMA dec_encodeIs ==
  ASSUME NEW src \in Seq(Byte), NEW w \in Width
  PROVE  Text(dec_encode(src, w))
<1> DEFINE Part(i) == (IF i = 1 THEN <<>> ELSE Separator) \o dec_put(SubSeq(src, w * (i - 1) + 1, w * i))
           n == Words(src, w)
           seqs == [i \in 1 .. n |-> Part(i)]
<1>1. dec_encode(src, w) = FlattenSeq(seqs) \o Rest(src, w) \o <<NUL>>
  BY DEF dec_encode
<1>2. n \in Nat /\ n = Len(src) \div w
  BY DEF Words, Width
<1>3. ASSUME NEW i \in 1 .. n PROVE Part(i) \in Seq(Byte)
  <2>1. i - 1 \in 0 .. n - 1
    BY <1>2
  <2>2. WordOf(src, w, i - 1) \in Seq(Byte)
    BY <2>1, WordOfIs DEF Word
  <2>3. w * (i - 1) + w = w * i
    BY <2>1 DEF Width
  <2>4. SubSeq(src, w * (i - 1) + 1, w * i) \in Seq(Byte)
    BY <2>2, <2>3 DEF WordOf
  <2>5. dec_put(SubSeq(src, w * (i - 1) + 1, w * i)) \in Seq(Byte)
    BY <2>4, dec_putIs
  <2> QED BY <2>5, Separators, ConcatProperties
<1>4. seqs \in Seq(Seq(Byte))
  <2> HIDE DEF Part, n
  <2> QED BY <1>2, <1>3
<1>5. Rest(src, w) \in Seq(Byte)
  <2> DEFINE at0  == w * n
             left == Len(src) - at0
  <2>1. left \in 0 .. 3 /\ at0 \in Nat
    BY <1>2 DEF Width
  <2>2. \A k \in 1 .. 3 : k <= left => at0 + k \in 1 .. Len(src)
    BY <2>1
  <2>3. \A k \in 1 .. 3 : k <= left => src[at0 + k] \in Byte
    BY <2>2
  <2>4. Rest(src, w) =
          CASE left = 0 -> <<>>
            [] left = 1 -> Separator \o dec_put(<<src[at0 + 1]>>)
            [] left = 2 -> Separator \o dec_put(<<src[at0 + 1], src[at0 + 2]>>)
            [] left = 3 -> Separator \o dec_put(<<src[at0 + 1], src[at0 + 2]>>)
                           \o Separator \o dec_put(<<src[at0 + 3]>>)
    BY DEF Rest
  <2> HIDE DEF left, at0
  <2>5. ASSUME NEW b \in Byte PROVE Separator \o dec_put(<<b>>) \in Seq(Byte)
    <3>1. <<b>> \in Seq(Byte)
      OBVIOUS
    <3> QED BY <3>1, dec_putIs, Separators, ConcatProperties
  <2>6. ASSUME NEW b \in Byte, NEW c \in Byte PROVE Separator \o dec_put(<<b, c>>) \in Seq(Byte)
    <3>1. <<b, c>> \in Seq(Byte)
      OBVIOUS
    <3> QED BY <3>1, dec_putIs, Separators, ConcatProperties
  <2>7. CASE left = 0
    BY <2>4, <2>7, Separators
  <2>8. CASE left = 1
    BY <2>3, <2>4, <2>5, <2>8
  <2>9. CASE left = 2
    BY <2>3, <2>4, <2>6, <2>9
  <2>10. CASE left = 3
    <3>1. src[at0 + 1] \in Byte /\ src[at0 + 2] \in Byte /\ src[at0 + 3] \in Byte
      BY <2>3, <2>10
    <3>2. Rest(src, w) = Separator \o dec_put(<<src[at0 + 1], src[at0 + 2]>>)
                         \o Separator \o dec_put(<<src[at0 + 3]>>)
      BY <2>4, <2>10
    <3>3. Separator \o dec_put(<<src[at0 + 1], src[at0 + 2]>>) \in Seq(Byte)
      BY <2>6, <3>1
    <3>4. Separator \o dec_put(<<src[at0 + 1], src[at0 + 2]>>) \o Separator \in Seq(Byte)
      BY <3>3, Separators, ConcatProperties
    <3>5. dec_put(<<src[at0 + 3]>>) \in Seq(Byte)
      BY <3>1, dec_putIs
    <3> QED BY <3>2, <3>4, <3>5, ConcatProperties
  <2>11. left = 0 \/ left = 1 \/ left = 2 \/ left = 3
    BY <2>1
  <2> QED BY <2>7, <2>8, <2>9, <2>10, <2>11
<1> HIDE DEF seqs
<1>6. FlattenSeq(seqs) \o Rest(src, w) \in Seq(Byte)
  BY <1>4, <1>5, FlattenIs, ConcatProperties
<1> QED BY <1>1, <1>6, Closed


\* The stream of bits, and a number of a few of them.
LEMMA BitStreamIs ==
  ASSUME NEW src \in Seq(Byte)
  PROVE  BitStream(src) \in Seq(Bit) /\ (src # <<>> => Len(BitStream(src)) >= 1)
<1> DEFINE seqs == [i \in DOMAIN src |-> Reverse(Bits(<<src[i]>>))]
<1>1. ASSUME NEW i \in DOMAIN src PROVE Reverse(Bits(<<src[i]>>)) \in Seq(Bit) /\ Len(Reverse(Bits(<<src[i]>>))) >= 1
  <2>1. Bits(<<src[i]>>) \in [1 .. 8 -> Bit]
    BY BitsOfOne
  <2>2. Bits(<<src[i]>>) \in Seq(Bit) /\ Len(Bits(<<src[i]>>)) = 8
    <3>1. 8 \in Nat
      OBVIOUS
    <3>2. Bits(<<src[i]>>) \in Seq(Bit)
      BY <2>1, <3>1, FunctionIsSeq
    <3> QED BY <2>1, <3>1, <3>2
  <2> DEFINE b == Bits(<<src[i]>>)
  <2> HIDE DEF b
  <2>3. Reverse(b) \in Seq(Bit) /\ Len(Reverse(b)) = Len(b)
    BY <2>2, ReverseIs DEF b
  <2> QED BY <2>2, <2>3 DEF b
<1>2. /\ seqs \in Seq(Seq(Bit)) /\ Len(seqs) = Len(src)
      /\ \A i \in 1 .. Len(seqs) : Len(seqs[i]) >= 1
  <2> DEFINE Part(i) == Reverse(Bits(<<src[i]>>))
             parts   == [i \in DOMAIN src |-> Part(i)]
  <2>1. \A i \in DOMAIN src : Part(i) \in Seq(Bit) /\ Len(Part(i)) >= 1
    BY <1>1
  <2> HIDE DEF Part
  <2>2. /\ parts \in Seq(Seq(Bit)) /\ Len(parts) = Len(src)
        /\ \A i \in 1 .. Len(parts) : Len(parts[i]) >= 1
    BY <2>1
  <2> QED BY <2>2 DEF Part
<1>3. BitStream(src) = FlattenSeq(seqs)
  BY DEF BitStream
<1> HIDE DEF seqs
<1>4. FlattenSeq(seqs) \in Seq(Bit) /\ Len(FlattenSeq(seqs)) >= Len(seqs)
  BY <1>2, FlattenIs
<1>5. src # <<>> => Len(FlattenSeq(seqs)) >= 1
  <2>1. Len(FlattenSeq(seqs)) \in Nat /\ Len(seqs) \in Nat
    BY <1>2, <1>4
  <2> QED BY <1>2, <1>4, <2>1, LenAtLeastOne
<1> QED BY <1>3, <1>4, <1>5

\* A few bits are a small number.
Few(n) == IF n = 5 THEN 0 .. 31 ELSE 0 .. 63

LEMMA FewBits ==
  ASSUME NEW c \in [1 .. 8 -> Bit]
  PROVE  /\ c[6] = 0 /\ c[7] = 0 /\ c[8] = 0 => ByteOf(c) \in Few(5)
         /\ c[7] = 0 /\ c[8] = 0 => ByteOf(c) \in Few(6)
<1>1. /\ c[1] \in 0 .. 1 /\ c[2] \in 0 .. 1 /\ c[3] \in 0 .. 1 /\ c[4] \in 0 .. 1
      /\ c[5] \in 0 .. 1 /\ c[6] \in 0 .. 1 /\ c[7] \in 0 .. 1 /\ c[8] \in 0 .. 1
  BY DEF Bit
<1>2. Few(5) = 0 .. 31 /\ Few(6) = 0 .. 63
  BY DEF Few
<1>3. c[6] = 0 /\ c[7] = 0 /\ c[8] = 0 => ByteOf(c) \in 0 .. 31
  BY <1>1 DEF ByteOf
<1>4. c[7] = 0 /\ c[8] = 0 => ByteOf(c) \in 0 .. 63
  BY <1>1 DEF ByteOf
<1> QED BY <1>2, <1>3, <1>4

LEMMA NumberIs ==
  ASSUME NEW bits \in Seq(Bit)
  PROVE  /\ Number(bits) \in Byte
         /\ \A n \in {5, 6} : Len(bits) = n => Number(bits) \in Few(n)
<1> DEFINE c == [k \in 1 .. 8 |-> IF k <= Len(bits) THEN bits[Len(bits) + 1 - k] ELSE 0]
<1>1. ASSUME NEW k \in 1 .. 8 PROVE (IF k <= Len(bits) THEN bits[Len(bits) + 1 - k] ELSE 0) \in Bit
  <2>1. CASE k <= Len(bits)
    <3>1. Len(bits) + 1 - k \in 1 .. Len(bits)
      BY <2>1
    <3>2. bits[Len(bits) + 1 - k] \in Bit
      BY <3>1
    <3> QED BY <2>1, <3>2
  <2>2. CASE ~(k <= Len(bits))
    BY <2>2 DEF Bit
  <2> QED BY <2>1, <2>2
<1>2. c \in [1 .. 8 -> Bit] /\ Number(bits) = ByteOf(c)
  BY <1>1 DEF Number
<1>3. \A k \in 1 .. 8 : ~(k <= Len(bits)) => c[k] = 0
  OBVIOUS
<1> HIDE DEF c
<1>4. Number(bits) \in Byte
  BY <1>2, BitsOfByte
<1>5. ASSUME Len(bits) = 5 PROVE Number(bits) \in Few(5)
  <2>1. ~(6 <= Len(bits)) /\ ~(7 <= Len(bits)) /\ ~(8 <= Len(bits))
    BY <1>5
  <2>2. c[6] = 0 /\ c[7] = 0 /\ c[8] = 0
    BY <1>3, <2>1
  <2> QED BY <1>2, <2>2, FewBits
<1>6. ASSUME Len(bits) = 6 PROVE Number(bits) \in Few(6)
  <2>1. ~(7 <= Len(bits)) /\ ~(8 <= Len(bits))
    BY <1>6
  <2>2. c[7] = 0 /\ c[8] = 0
    BY <1>3, <2>1
  <2> QED BY <1>2, <2>2, FewBits
<1> QED BY <1>4, <1>5, <1>6

LEMMA GroupsAre ==
  ASSUME NEW bits \in Seq(Bit), NEW n \in {5, 6}
  PROVE  Groups(bits, n) \in Seq(Few(n)) /\ (Len(bits) >= 1 => Len(Groups(bits, n)) >= 1)
<1> DEFINE count == (Len(bits) + n - 1) \div n
           zeros == [i \in 1 .. n |-> 0]
           full  == bits \o zeros
           R == Few(n)
<1>1. count \in Nat /\ zeros \in Seq(Bit) /\ Len(zeros) = n
  BY DEF Bit
<1>2. Groups(bits, n) = [i \in 1 .. count |-> Number(SubSeq(full, n * (i - 1) + 1, n * i))]
  BY DEF Groups
<1> HIDE DEF zeros
<1>3. full \in Seq(Bit) /\ Len(full) = Len(bits) + n
  BY <1>1, ConcatProperties
<1> HIDE DEF full
<1>4. ASSUME NEW i \in 1 .. count PROVE Number(SubSeq(full, n * (i - 1) + 1, n * i)) \in R
  <2> DEFINE a == n * (i - 1) + 1
             b == n * i
             s == SubSeq(full, a, b)
  <2>1. a \in Int /\ b \in Int /\ a >= 1 /\ b <= Len(bits) + n /\ a <= b /\ b - a + 1 = n
    BY <1>1
  <2> HIDE DEF a, b
  <2>2. \A j \in a .. b : full[j] \in Bit
    BY <1>3, <2>1
  <2>3. s \in Seq(Bit) /\ Len(s) = n
    BY <2>1, <2>2, SubSeqProperties
  <2> HIDE DEF s
  <2>4. Number(s) \in R
    BY <2>3, NumberIs
  <2> QED BY <2>4 DEF s, a, b
<1>7. Len(bits) >= 1 => count >= 1
  OBVIOUS
<1> HIDE DEF count, R
<1>5. Groups(bits, n) \in [1 .. count -> R]
  BY <1>2, <1>4
<1>6. Groups(bits, n) \in Seq(R) /\ Len(Groups(bits, n)) = count
  BY <1>1, <1>5
<1> QED BY <1>6, <1>7 DEF R

\* Letters of an alphabet of 64, padded.
LEMMA base64_mapIs ==
  ASSUME NEW v \in Few(6)
  PROVE  base64_map(v) \in Byte
<1>1. v \in 0 .. 63
  BY DEF Few
<1>2. CASE v \in 0 .. 25
  BY <1>2 DEF base64_map, Byte
<1>3. CASE v \in 26 .. 51
  BY <1>3 DEF base64_map, Byte
<1>4. CASE v \in 52 .. 61
  BY <1>4 DEF base64_map, Byte
<1>5. CASE v = 62 \/ v = 63
  BY <1>5 DEF base64_map, Byte
<1> QED BY <1>1, <1>2, <1>3, <1>4, <1>5

LEMMA Base64MapIs ==
  ASSUME NEW groups \in Seq(Few(6)), NEW n \in Nat, NEW src \in Seq(Byte), src # <<>> => Len(groups) >= 1,
         NEW t, t = [i \in DOMAIN groups |-> base64_map(groups[i])] \o [i \in 1 .. n |-> Equal] \o <<NUL>>
  PROVE  Text(t) /\ Long(src, t)
<1> DEFINE a == [i \in DOMAIN groups |-> base64_map(groups[i])]
           b == [i \in 1 .. n |-> Equal]
<1>2. a \in Seq(Byte) /\ Len(a) = Len(groups)
  <2>1. DOMAIN groups = 1 .. Len(groups) /\ Len(groups) \in Nat
    OBVIOUS
  <2>2. \A i \in DOMAIN groups : groups[i] \in Few(6)
    OBVIOUS
  <2>3. a \in [1 .. Len(groups) -> Byte]
    BY <2>1, <2>2, base64_mapIs
  <2> HIDE DEF a
  <2> QED BY <2>1, <2>3, FunctionIsSeq
<1>3. b \in Seq(Byte)
  <2>1. Equal \in Byte
    BY DEF Equal, Byte
  <2> QED BY <2>1
<1> HIDE DEF a, b
<1>4. a \o b \in Seq(Byte) /\ Len(a \o b) = Len(a) + Len(b)
  BY <1>2, <1>3, ConcatProperties
<1>5. src # <<>> => Len(a \o b) >= 1
  <2>1. Len(a) \in Nat /\ Len(b) \in Nat
    BY <1>2, <1>3
  <2> QED BY <1>2, <1>4, <2>1
<1>6. Text(a \o b \o <<NUL>>) /\ Long(src, a \o b \o <<NUL>>)
  BY <1>4, <1>5, Closed, LongText
<1> QED BY <1>6 DEF a, b

LEMMA base32_encodeIs ==
  ASSUME NEW src \in Seq(Byte)
  PROVE  Text(base32_encode(src)) /\ Long(src, base32_encode(src))
<1> DEFINE groups == Groups(BitStream(src), 5)
           npad   == ((Len(src) % 5) * 8) \div 5 + 1
<1>1. base32_encode(src) = [i \in DOMAIN groups |-> base64_map(groups[i])] \o [i \in 1 .. 8 - npad |-> Equal] \o <<NUL>>
  BY DEF base32_encode
<1>2. 8 - npad \in Nat
  OBVIOUS
<1>3. groups \in Seq(Few(5)) /\ (src # <<>> => Len(groups) >= 1)
  BY BitStreamIs, GroupsAre
<1> HIDE DEF groups, npad
<1>4. groups \in Seq(Few(6)) /\ (src # <<>> => Len(groups) >= 1)
  <2>1. Few(5) \subseteq Few(6)
    BY DEF Few
  <2> QED BY <1>3, <2>1, SeqMonotonic
<1> QED BY <1>1, <1>2, <1>4, Base64MapIs

LEMMA base64_encodeIs ==
  ASSUME NEW src \in Seq(Byte)
  PROVE  Text(base64_encode(src)) /\ Long(src, base64_encode(src))
<1> DEFINE groups == Groups(BitStream(src), 6)
           npad   == (3 - (Len(src) % 3)) % 3
<1>1. base64_encode(src) = [i \in DOMAIN groups |-> base64_map(groups[i])] \o [i \in 1 .. npad |-> Equal] \o <<NUL>>
  BY DEF base64_encode
<1>2. npad \in Nat
  OBVIOUS
<1>3. groups \in Seq(Few(6)) /\ (src # <<>> => Len(groups) >= 1)
  BY BitStreamIs, GroupsAre
<1> HIDE DEF groups, npad
<1> QED BY <1>1, <1>2, <1>3, Base64MapIs

LEMMA LeadingIs ==
  ASSUME NEW src \in Seq(Int), NEW ch \in Nat
  PROVE  Leading(src, ch) \in Nat
<1> DEFINE s == Append(src, -1)
           I == {i \in 1 .. Len(s) : s[i] # ch}
<1>1. s \in Seq(Int) /\ Len(s) = Len(src) + 1 /\ s[Len(src) + 1] = -1
  <2>1. -1 \in Int
    OBVIOUS
  <2> QED BY <2>1, AppendProperties
<1>2. Leading(src, ch) = (IF I # {} THEN Min(I) ELSE 0) - 1
  BY DEF Leading, SelectInSeq
<1> HIDE DEF s
<1>3. Len(s) \in I
  BY <1>1
<1>4. I \subseteq Nat /\ I # {} /\ \A i \in I : i >= 1
  BY <1>3
<1> HIDE DEF I
<1>5. \E x \in I : \A y \in I : x <= y
  BY <1>4, LeastNatural
<1>6. Min(I) \in I
  BY <1>5 DEF Min
<1>7. Min(I) \in Nat /\ Min(I) >= 1
  BY <1>4, <1>6
<1> QED BY <1>2, <1>4, <1>7

LEMMA Base58MapIs == \A d \in 0 .. 57 : base58_map[d] \in Byte
<1>1. SUFFICES ASSUME NEW d \in 0 .. 57 PROVE base58_map[d] \in Byte
  OBVIOUS
<1> DEFINE A1 == d \in 0 .. 8
           A2 == d \in 9 .. 16
           A3 == d \in 17 .. 21
           A4 == d \in 22 .. 32
           A5 == d \in 33 .. 43
           A6 == d \in 44 .. 57
<1>2. base58_map[d] = (CASE A1 -> 49 + d
                         [] A2 -> 65 + d - 9
                         [] A3 -> 74 + d - 17
                         [] A4 -> 80 + d - 22
                         [] A5 -> 97 + d - 33
                         [] A6 -> 109 + d - 44)
  BY DEF base58_map
<1>3. /\ A1 => ~A2 /\ ~A3 /\ ~A4 /\ ~A5 /\ ~A6
      /\ A2 => ~A3 /\ ~A4 /\ ~A5 /\ ~A6
      /\ A3 => ~A4 /\ ~A5 /\ ~A6
      /\ A4 => ~A5 /\ ~A6
      /\ A5 => ~A6
      /\ A1 \/ A2 \/ A3 \/ A4 \/ A5 \/ A6
  OBVIOUS
<1>4. /\ A1 => 49 + d \in 0 .. 255
      /\ A2 => 65 + d - 9 \in 0 .. 255
      /\ A3 => 74 + d - 17 \in 0 .. 255
      /\ A4 => 80 + d - 22 \in 0 .. 255
      /\ A5 => 97 + d - 33 \in 0 .. 255
      /\ A6 => 109 + d - 44 \in 0 .. 255
  OBVIOUS
<1> HIDE DEF A1, A2, A3, A4, A5, A6
<1> QED BY <1>2, <1>3, <1>4 DEF Byte

LEMMA BytesAreInts ==
  ASSUME NEW src \in Seq(Byte)
  PROVE  src \in Seq(Int)
<1>1. Byte \subseteq Int
  BY DEF Byte
<1> QED BY <1>1, SeqMonotonic

LEMMA base58_encodeIs ==
  ASSUME NEW src \in Seq(Byte)
  PROVE  Text(base58_encode(src)) /\ Long(src, base58_encode(src))
<1> DEFINE digits == Rebase(src, <<0>>, 256, 58)
           n == Len(digits)
           l == Leading(src, 0)
           a == [i \in 1 .. l |-> base58_map[0]]
           b == [i \in DOMAIN digits |-> base58_map[digits[n + 1 - i]]]
<1>1. base58_encode(src) = a \o b \o <<NUL>>
  BY DEF base58_encode
<1>2. digits \in Seq(Digit(58)) /\ Len(digits) >= 1
  <2>1. 58 \in Bases /\ <<0>> \in Seq(Digit(58)) /\ 256 \in Nat /\ Len(<<0>>) = 1
    BY DEF Bases, Digit
  <2> QED BY <2>1, BytesAreInts, RebaseIs, ZenonT(60)
<1>3. l \in Nat
  BY BytesAreInts, LeadingIs
<1> HIDE DEF digits, l
<1>4. \A i \in 1 .. n : base58_map[digits[n + 1 - i]] \in Byte
  <2>1. ASSUME NEW i \in 1 .. n PROVE base58_map[digits[n + 1 - i]] \in Byte
    <3>1. n + 1 - i \in 1 .. n
      BY <1>2
    <3>2. digits[n + 1 - i] \in Digit(58)
      BY <1>2, <3>1
    <3>3. Digit(58) = 0 .. 57
      BY DEF Digit
    <3> QED BY <3>2, <3>3, Base58MapIs
  <2> QED BY <2>1
<1>5. b \in Seq(Byte) /\ Len(b) >= 1
  <2>1. DOMAIN digits = 1 .. n /\ n \in Nat /\ n >= 1
    BY <1>2
  <2>2. b \in [1 .. n -> Byte]
    BY <1>4, <2>1
  <2> HIDE DEF b
  <2> QED BY <2>1, <2>2
<1>6. a \in Seq(Byte)
  BY <1>3, Base58MapIs
<1> HIDE DEF a, b
<1>7. a \o b \in Seq(Byte) /\ Len(a \o b) = Len(a) + Len(b)
  BY <1>5, <1>6, ConcatProperties
<1>8. Len(a \o b) >= 1
  <2>1. Len(a) \in Nat /\ Len(b) \in Nat
    BY <1>5, <1>6
  <2> QED BY <1>5, <1>7, <2>1
<1> QED BY <1>1, <1>7, <1>8, Closed, LongText

LEMMA base85_encodeIs ==
  ASSUME NEW src \in Seq(Byte)
  PROVE  Text(base85_encode(src)) /\ Long(src, base85_encode(src))
<1> DEFINE bytes(k)  == SubSeq(src, 4 * k - 3, Min({4 * k, Len(src)}))
           zeros(k)  == [i \in 1 .. 4 - Len(bytes(k)) |-> 0]
           digits(k) == Rebase(bytes(k) \o zeros(k), <<0, 0, 0, 0, 0>>, 256, 85)
           Block(k)  == IF bytes(k) = <<0, 0, 0, 0>> THEN <<LowZ>>
                        ELSE [i \in 1 .. Len(bytes(k)) + 1 |-> Digit85(digits(k)[6 - i])]
           n == (Len(src) + 3) \div 4
           seqs == [k \in 1 .. n |-> Block(k)]
<1>1. base85_encode(src) = FlattenSeq(seqs) \o <<NUL>>
  BY DEF base85_encode
<1>2. n \in Nat
  OBVIOUS
<1>3. ASSUME NEW k \in 1 .. n PROVE Block(k) \in Seq(Byte) /\ Len(Block(k)) >= 1
  <2> DEFINE a == 4 * k - 3
             b == Min({4 * k, Len(src)})
  <2>1. b = IF 4 * k <= Len(src) THEN 4 * k ELSE Len(src)
    <3>1. \E x \in {4 * k, Len(src)} : \A y \in {4 * k, Len(src)} : x <= y
      OBVIOUS
    <3>2. b \in {4 * k, Len(src)} /\ \A y \in {4 * k, Len(src)} : b <= y
      BY <3>1 DEF Min
    <3> HIDE DEF b
    <3> QED BY <3>2
  <2> HIDE DEF b
  <2>2. a \in Int /\ b \in Int /\ a >= 1 /\ b <= Len(src) /\ a <= b /\ b - a + 1 \in 1 .. 4
    BY <1>2, <2>1
  <2> HIDE DEF a
  <2>3. \A j \in a .. b : src[j] \in Byte
    BY <2>2
  <2>4. SubSeq(src, a, b) \in Seq(Byte) /\ Len(SubSeq(src, a, b)) \in 1 .. 4
    BY <2>2, <2>3, SubSeqProperties
  <2>5. bytes(k) \in Seq(Byte) /\ Len(bytes(k)) \in 1 .. 4
    BY <2>4 DEF a, b
  <2> HIDE DEF bytes
  <2>6. bytes(k) \o zeros(k) \in Seq(Int)
    <3>1. zeros(k) \in Seq(Int)
      BY <2>5
    <3>2. bytes(k) \in Seq(Int)
      BY <2>5, BytesAreInts
    <3> HIDE DEF zeros
    <3> QED BY <3>1, <3>2, ConcatProperties
  <2> HIDE DEF zeros
  <2>7. digits(k) \in Seq(Digit(85)) /\ Len(digits(k)) >= 5
    <3>1. 85 \in Bases /\ <<0, 0, 0, 0, 0>> \in Seq(Digit(85)) /\ 256 \in Nat /\ Len(<<0, 0, 0, 0, 0>>) = 5
      BY DEF Bases, Digit
    <3> QED BY <2>6, <3>1, RebaseIs, ZenonT(60)
  <2> HIDE DEF digits
  <2>8. ASSUME NEW i \in 1 .. Len(bytes(k)) + 1 PROVE Digit85(digits(k)[6 - i]) \in Byte
    <3>1. 6 - i \in 1 .. Len(digits(k))
      <4>1. Len(digits(k)) \in Nat /\ Len(bytes(k)) \in 1 .. 4 /\ Len(digits(k)) >= 5
        BY <2>5, <2>7
      <4>2. i >= 1 /\ i <= 5 /\ i \in Int
        <5>1. \A x \in 1 .. 4 : \A y \in 1 .. x + 1 : y >= 1 /\ y <= 5 /\ y \in Int
          OBVIOUS
        <5> QED BY <4>1, <5>1
      <4> QED BY <4>1, <4>2
    <3>2. digits(k)[6 - i] \in Digit(85)
      BY <2>7, <3>1
    <3>3. \A x \in Digit(85) : Digit85(x) \in Byte
      BY DEF Digit, Digit85, Byte
    <3> QED BY <3>2, <3>3
  <2>9. /\ [i \in 1 .. Len(bytes(k)) + 1 |-> Digit85(digits(k)[6 - i])] \in Seq(Byte)
        /\ Len([i \in 1 .. Len(bytes(k)) + 1 |-> Digit85(digits(k)[6 - i])]) >= 1
    BY <2>5, <2>8
  <2>10. <<LowZ>> \in Seq(Byte) /\ Len(<<LowZ>>) >= 1
    <3>1. LowZ \in Byte
      BY DEF LowZ, Byte
    <3> QED BY <3>1
  <2> QED BY <2>9, <2>10
<1>4. /\ seqs \in Seq(Seq(Byte)) /\ Len(seqs) = n
      /\ \A i \in 1 .. Len(seqs) : Len(seqs[i]) >= 1
  <2> HIDE DEF Block, n
  <2> QED BY <1>2, <1>3
<1>5. src # <<>> => n >= 1
  <2>1. Len(src) >= 1 => n >= 1
    OBVIOUS
  <2> QED BY <2>1, LenAtLeastOne
<1> HIDE DEF seqs, n
<1> QED BY <1>1, <1>4, <1>5, LongParts

LEMMA VigenereIs ==
  ASSUME NEW src \in Seq(Byte), NEW key \in Seq(Byte), key # <<>>, NEW sign \in {1, -1}
  PROVE  Text(Vigenere(src, key, sign)) /\ Long(src, Vigenere(src, key, sign))
<1> DEFINE IsLetter(ch) == ch \in Capitals \cup Smalls
           used(i) == Cardinality({j \in 1 .. i - 1 : IsLetter(src[j])})
           Shift(i) == sign * vigenere_code(key[(used(i) % Len(key)) + 1])
           first(ch) == IF ch \in Smalls THEN 97 ELSE 65
           Code(i) == IF IsLetter(src[i])
                      THEN first(src[i]) + ((vigenere_code(src[i]) + Shift(i)) % 26)
                      ELSE src[i]
           a == [i \in DOMAIN src |-> Code(i)]
<1>1. Vigenere(src, key, sign) = a \o <<NUL>>
  BY DEF Vigenere
<1>2. ASSUME NEW ch \in Byte PROVE vigenere_code(ch) \in Int
  <2>1. ch \in Int
    BY DEF Byte
  <2>2. CASE ch \in Capitals
    BY <2>1, <2>2 DEF vigenere_code
  <2>3. CASE ch \notin Capitals /\ ch \in Smalls
    BY <2>1, <2>3 DEF vigenere_code
  <2>4. CASE ch \notin Capitals /\ ch \notin Smalls
    BY <2>4 DEF vigenere_code
  <2> QED BY <2>2, <2>3, <2>4
<1>3. ASSUME NEW i \in DOMAIN src PROVE Code(i) \in Byte
  <2>1. used(i) \in Nat
    <3>1. 1 \in Int /\ i - 1 \in Int
      OBVIOUS
    <3>2. {j \in 1 .. i - 1 : IsLetter(src[j])} \in SUBSET (1 .. i - 1)
      OBVIOUS
    <3>3. IsFiniteSet({j \in 1 .. i - 1 : IsLetter(src[j])})
      BY <3>1, <3>2, FS_Interval, FS_Subset
    <3> QED BY <3>3, FS_CardinalityType
  <2> HIDE DEF used
  <2>2. (used(i) % Len(key)) + 1 \in 1 .. Len(key)
    <3>1. Len(key) \in Nat /\ Len(key) > 0
      BY EmptySeq
    <3> QED BY <2>1, <3>1
  <2>3. key[(used(i) % Len(key)) + 1] \in Byte
    BY <2>2
  <2>4. Shift(i) \in Int
    BY <1>2, <2>3
  <2> HIDE DEF Shift
  <2>5. vigenere_code(src[i]) + Shift(i) \in Int
    BY <1>2, <2>4
  <2>6. (vigenere_code(src[i]) + Shift(i)) % 26 \in 0 .. 25
    <3>1. \A x \in Int : x % 26 \in 0 .. 25
      OBVIOUS
    <3> QED BY <2>5, <3>1
  <2>7. ASSUME NEW x \in 0 .. 25, NEW ch PROVE first(ch) + x \in Byte
    BY DEF Byte
  <2> HIDE DEF first
  <2>8. src[i] \in Byte
    OBVIOUS
  <2>9. first(src[i]) + ((vigenere_code(src[i]) + Shift(i)) % 26) \in Byte
    BY <2>6, <2>7
  <2> HIDE DEF IsLetter
  <2> QED BY <2>8, <2>9
<1> HIDE DEF Code
<1>4. a \in Seq(Byte) /\ Len(a) = Len(src)
  BY <1>3
<1> HIDE DEF a
<1> QED BY <1>1, <1>4, Closed, LongText, LenAtLeastOne

-----------------------------------------------------------------------------
(***************************************************************************)
(* The decoders write bytes.  What a walk keeps between two characters:    *)
(* the output so far, which has a last byte inside a run of digits.        *)
(***************************************************************************)
Taken == {a \in [out : Seq(Byte), isok : Nat] : a.isok # 0 => a.out # <<>>}

LEMMA NothingTaken == [out |-> <<>>, isok |-> 0] \in Taken
<1>1. <<>> \in Seq(Byte)
  OBVIOUS
<1> QED BY <1>1 DEF Taken

\* The run ends, or it goes on in the last byte, in a new one after every q.
LEMMA TakenNext ==
  ASSUME NEW acc \in Taken, NEW q \in {2, 8}, NEW out,
         out = IF acc.isok % q = 0 THEN Append(acc.out, 0) ELSE acc.out
  PROVE  /\ [acc EXCEPT !.isok = 0] \in Taken
         /\ Last(out) \in Byte
         /\ \A x \in Byte : [out |-> WithLast(out, x), isok |-> acc.isok + 1] \in Taken
<1>1. acc.out \in Seq(Byte) /\ acc.isok \in Nat /\ (acc.isok # 0 => acc.out # <<>>)
  BY DEF Taken
<1>2. [acc EXCEPT !.isok = 0] \in Taken
  BY DEF Taken
<1>3. 0 \in Byte
  BY DEF Byte
<1>4. Append(acc.out, 0) \in Seq(Byte) /\ Append(acc.out, 0) # <<>>
  BY <1>1, <1>3, AppendProperties
<1>5. 0 % q = 0
  OBVIOUS
<1>6. out \in Seq(Byte) /\ out # <<>>
  BY <1>1, <1>4, <1>5
<1>7. Last(out) \in Byte
  BY <1>3, <1>6, WithLastIs
<1>8. ASSUME NEW x \in Byte PROVE [out |-> WithLast(out, x), isok |-> acc.isok + 1] \in Taken
  <2>1. WithLast(out, x) \in Seq(Byte) /\ WithLast(out, x) # <<>>
    BY <1>6, WithLastIs
  <2>2. acc.isok + 1 \in Nat
    BY <1>1
  <2> QED BY <2>1, <2>2 DEF Taken
<1> QED BY <1>2, <1>7, <1>8

LEMMA InByte ==
  ASSUME NEW x \in Int
  PROVE  x % 256 \in Byte
BY DEF Byte

LEMMA Shifted ==
  ASSUME NEW x \in Byte, NEW y \in Int
  PROVE  2 * x + y - Zero \in Int /\ 16 * x + y \in Int
BY DEF Byte, Zero

LEMMA hex8Is ==
  ASSUME NEW ch, IsHex(ch)
  PROVE  hex8(ch) \in Int
<1>1. CASE ch \in Digits
  BY <1>1 DEF hex8, Digits, Zero
<1>2. CASE ch \in 65 .. 70
  BY <1>2 DEF hex8, Digits
<1>3. CASE ch \in 97 .. 102
  BY <1>3 DEF hex8, Digits
<1> QED BY <1>1, <1>2, <1>3 DEF IsHex

LEMMA TakeBitIs ==
  ASSUME NEW acc \in Taken, NEW ch \in Byte
  PROVE  TakeBit(acc, ch) \in Taken
<1> DEFINE out == IF acc.isok % 8 = 0 THEN Append(acc.out, 0) ELSE acc.out
           x == (2 * Last(out) + ch - Zero) % 256
<1>1. /\ [acc EXCEPT !.isok = 0] \in Taken
      /\ Last(out) \in Byte
      /\ \A b \in Byte : [out |-> WithLast(out, b), isok |-> acc.isok + 1] \in Taken
  <2> HIDE DEF x
  <2> QED BY TakenNext
<1>2. TakeBit(acc, ch) = IF ch \notin {Zero, Zero + 1} THEN [acc EXCEPT !.isok = 0]
                         ELSE [out |-> WithLast(out, x), isok |-> acc.isok + 1]
  BY DEF TakeBit
<1> HIDE DEF out
<1>3. x \in Byte
  <2>1. ch \in Int
    BY DEF Byte
  <2>2. 2 * Last(out) + ch - Zero \in Int
    BY <1>1, <2>1, Shifted
  <2> QED BY <2>2, InByte
<1> HIDE DEF x
<1> QED BY <1>1, <1>2, <1>3

\* The walk of the decoder over a text.
BitsWalk(acc, src) ==
  /\ acc \in [0 .. Len(src) -> Taken] /\ acc[0] = [out |-> <<>>, isok |-> 0] /\ acc[Len(src)].out = BitsTaken(src)
  /\ \A i \in 1 .. Len(src) : acc[i] = TakeBit(acc[i - 1], src[i])

LEMMA BitsWalked ==
  ASSUME NEW src \in Seq(Byte)
  PROVE  \E acc : BitsWalk(acc, src)
<1> DEFINE n == Len(src)
           a == [out |-> <<>>, isok |-> 0]
           Eq(f) == f = [i \in 0 .. n |-> IF i = 0 THEN a ELSE TakeBit(f[i - 1], src[i])]
           acc == CHOOSE f : Eq(f)
           up == [i \in 1 .. n |-> [v \in Taken |-> TakeBit(v, src[i])]]
<1>1. n \in Nat /\ BitsTaken(src) = acc[n].out
  BY DEF BitsTaken
<1>2. \A i \in 1 .. n : \A v \in Taken : TakeBit(v, src[i]) \in Taken
  BY TakeBitIs
<1>3. up \in [1 .. n -> [Taken -> Taken]] /\ a \in Taken
  BY <1>2, NothingTaken
<1>4. \A i \in 1 .. n : \A v \in Taken : up[i][v] = TakeBit(v, src[i])
  OBVIOUS
<1> HIDE DEF n, up, a
<1>5. PICK g : Iterates(g, Taken, n, a, up)
  BY <1>1, <1>3, IteratesExist
<1>6. Eq(g)
  <2>1. g \in [0 .. n -> Taken] /\ g[0] = a /\ \A i \in 1 .. n : g[i] = up[i][g[i - 1]]
    BY <1>5 DEF Iterates
  <2>2. ASSUME NEW i \in 0 .. n, i # 0 PROVE g[i] = TakeBit(g[i - 1], src[i])
    <3>1. i \in 1 .. n /\ i - 1 \in 0 .. n
      BY <1>1, <2>2
    <3>2. g[i - 1] \in Taken /\ g[i] = up[i][g[i - 1]]
      BY <2>1, <3>1
    <3> QED BY <1>4, <3>1, <3>2
  <2> QED BY <2>1, <2>2
<1>7. Eq(acc)
  BY <1>6
<1> HIDE DEF acc
<1>8. acc \in [0 .. n -> Taken]
  <2>1. acc = [i \in 0 .. n |-> acc[i]] /\ acc[0] = a
    BY <1>1, <1>7
  <2>2. ASSUME NEW i \in 1 .. n, acc[i - 1] \in Taken PROVE acc[i] \in Taken
    <3>1. i \in 0 .. n /\ i # 0
      BY <1>1
    <3>2. acc[i] = TakeBit(acc[i - 1], src[i])
      BY <1>7, <3>1
    <3> QED BY <1>2, <2>2, <3>2
  <2>3. StepsStay(acc, Taken, n)
    BY <1>3, <2>1, <2>2 DEF StepsStay
  <2> QED BY <1>1, <2>3, IteratesStay
<1>9. \A i \in 1 .. n : acc[i] = TakeBit(acc[i - 1], src[i])
  <2>1. \A i \in 1 .. n : i \in 0 .. n /\ i # 0
    BY <1>1
  <2> QED BY <1>7, <2>1
<1>10. acc[0] = a
  BY <1>1, <1>7
<1>11. BitsWalk(acc, src)
  BY <1>1, <1>8, <1>9, <1>10 DEF BitsWalk, n, a
<1> QED BY <1>11

LEMMA BitsTakenIs ==
  ASSUME NEW src \in Seq(Byte)
  PROVE  BitsTaken(src) \in Seq(Byte)
<1>1. PICK acc : BitsWalk(acc, src)
  BY BitsWalked
<1>2. Len(src) \in 0 .. Len(src)
  OBVIOUS
<1>3. acc[Len(src)] \in Taken /\ acc[Len(src)].out = BitsTaken(src)
  BY <1>1, <1>2 DEF BitsWalk
<1> QED BY <1>3 DEF Taken

LEMMA bin_decodeIs ==
  ASSUME NEW src \in Seq(Byte)
  PROVE  Text(bin_decode(src))
BY BitsTakenIs, Closed DEF bin_decode

LEMMA TakeHexIs ==
  ASSUME NEW src \in Seq(Byte), NEW acc \in Taken, NEW i \in 1 .. Len(src)
  PROVE  TakeHex(src, acc, i) \in Taken
<1> DEFINE out == IF acc.isok % 2 = 0 THEN Append(acc.out, 0) ELSE acc.out
           ch == src[i]
           x == (16 * Last(out) + hex8(ch)) % 256
<1>1. /\ [acc EXCEPT !.isok = 0] \in Taken
      /\ Last(out) \in Byte
      /\ \A b \in Byte : [out |-> WithLast(out, b), isok |-> acc.isok + 1] \in Taken
  <2> HIDE DEF x
  <2> QED BY TakenNext
<1>2. TakeHex(src, acc, i) \in
        {acc, [acc EXCEPT !.isok = 0]}
        \cup (IF IsHex(ch) THEN {[out |-> WithLast(out, x), isok |-> acc.isok + 1]} ELSE {})
  BY DEF TakeHex
<1> HIDE DEF out, ch
<1>3. ASSUME IsHex(ch) PROVE x \in Byte
  <2>1. hex8(ch) \in Int
    BY <1>3, hex8Is
  <2>2. 16 * Last(out) + hex8(ch) \in Int
    BY <1>1, <2>1, Shifted
  <2> QED BY <2>2, InByte
<1> HIDE DEF x
<1> QED BY <1>1, <1>2, <1>3

\* The walk of the decoder over a text.
HexWalk(acc, src) ==
  /\ acc \in [0 .. Len(src) -> Taken] /\ acc[0] = [out |-> <<>>, isok |-> 0] /\ acc[Len(src)].out = hex_decode(src)
  /\ \A i \in 1 .. Len(src) : acc[i] = TakeHex(src, acc[i - 1], i)

LEMMA HexWalked ==
  ASSUME NEW src \in Seq(Byte)
  PROVE  \E acc : HexWalk(acc, src)
<1> DEFINE n == Len(src)
           a == [out |-> <<>>, isok |-> 0]
           Eq(f) == f = [i \in 0 .. n |-> IF i = 0 THEN a ELSE TakeHex(src, f[i - 1], i)]
           acc == CHOOSE f : Eq(f)
           up == [i \in 1 .. n |-> [v \in Taken |-> TakeHex(src, v, i)]]
<1>1. n \in Nat /\ hex_decode(src) = acc[n].out
  BY DEF hex_decode
<1>2. \A i \in 1 .. n : \A v \in Taken : TakeHex(src, v, i) \in Taken
  BY TakeHexIs
<1>3. up \in [1 .. n -> [Taken -> Taken]] /\ a \in Taken
  BY <1>2, NothingTaken
<1>4. \A i \in 1 .. n : \A v \in Taken : up[i][v] = TakeHex(src, v, i)
  OBVIOUS
<1> HIDE DEF n, up, a
<1>5. PICK g : Iterates(g, Taken, n, a, up)
  BY <1>1, <1>3, IteratesExist
<1>6. Eq(g)
  <2>1. g \in [0 .. n -> Taken] /\ g[0] = a /\ \A i \in 1 .. n : g[i] = up[i][g[i - 1]]
    BY <1>5 DEF Iterates
  <2>2. ASSUME NEW i \in 0 .. n, i # 0 PROVE g[i] = TakeHex(src, g[i - 1], i)
    <3>1. i \in 1 .. n /\ i - 1 \in 0 .. n
      BY <1>1, <2>2
    <3>2. g[i - 1] \in Taken /\ g[i] = up[i][g[i - 1]]
      BY <2>1, <3>1
    <3> QED BY <1>4, <3>1, <3>2
  <2> QED BY <2>1, <2>2
<1>7. Eq(acc)
  BY <1>6
<1> HIDE DEF acc
<1>8. acc \in [0 .. n -> Taken]
  <2>1. acc = [i \in 0 .. n |-> acc[i]] /\ acc[0] = a
    BY <1>1, <1>7
  <2>2. ASSUME NEW i \in 1 .. n, acc[i - 1] \in Taken PROVE acc[i] \in Taken
    <3>1. i \in 0 .. n /\ i # 0
      BY <1>1
    <3>2. acc[i] = TakeHex(src, acc[i - 1], i)
      BY <1>7, <3>1
    <3> QED BY <1>2, <2>2, <3>2
  <2>3. StepsStay(acc, Taken, n)
    BY <1>3, <2>1, <2>2 DEF StepsStay
  <2> QED BY <1>1, <2>3, IteratesStay
<1>9. \A i \in 1 .. n : acc[i] = TakeHex(src, acc[i - 1], i)
  <2>1. \A i \in 1 .. n : i \in 0 .. n /\ i # 0
    BY <1>1
  <2> QED BY <1>7, <2>1
<1>10. acc[0] = a
  BY <1>1, <1>7
<1>11. HexWalk(acc, src)
  BY <1>1, <1>8, <1>9, <1>10 DEF HexWalk, n, a
<1> QED BY <1>11

LEMMA hex_decodeIs ==
  ASSUME NEW src \in Seq(Byte)
  PROVE  hex_decode(src) \in Seq(Byte)
<1>1. PICK acc : HexWalk(acc, src)
  BY HexWalked
<1>2. Len(src) \in 0 .. Len(src)
  OBVIOUS
<1>3. acc[Len(src)] \in Taken /\ acc[Len(src)].out = hex_decode(src)
  BY <1>1, <1>2 DEF HexWalk
<1> QED BY <1>3 DEF Taken

\* A number of a text, which is as long as a word of the decoder while it grows.
SomeNumbers(n) == {a \in [out : Seq(Word(n)), isok : BOOLEAN] : a.isok => a.out # <<>>}

LEMMA NoNumbers ==
  ASSUME NEW n
  PROVE  [out |-> <<>>, isok |-> FALSE] \in SomeNumbers(n)
<1>1. <<>> \in Seq(Word(n))
  OBVIOUS
<1> QED BY <1>1 DEF SomeNumbers

LEMMA TakeDigitIs ==
  ASSUME NEW bytes \in Nat, NEW acc \in SomeNumbers(bytes), NEW ch \in Byte
  PROVE  TakeDigit(acc, ch, bytes) \in SomeNumbers(bytes)
<1> DEFINE none == [k \in 1 .. bytes |-> 0]
           out == IF acc.isok THEN acc.out ELSE Append(acc.out, none)
           last == Last(out)
           sum == MulAdd(last, 10, ch - Zero, 256)
           s == SubSeq(sum, 1, bytes)
           R == Word(bytes)
<1>1. acc.out \in Seq(R) /\ acc.isok \in BOOLEAN /\ (acc.isok => acc.out # <<>>)
  BY DEF SomeNumbers
<1>2. TakeDigit(acc, ch, bytes) =
        IF ch \notin Digits THEN [acc EXCEPT !.isok = FALSE]
        ELSE [out |-> WithLast(out, s), isok |-> TRUE]
  BY DEF TakeDigit
<1>3. none \in R
  <2>1. 0 \in Byte
    BY DEF Byte
  <2>2. none \in [1 .. bytes -> Byte]
    BY <2>1
  <2> HIDE DEF none
  <2> QED BY <2>2, FunctionIsSeq DEF Word
<1> HIDE DEF none, R
<1>4. out \in Seq(R) /\ out # <<>>
  <2>1. Append(acc.out, none) \in Seq(R) /\ Append(acc.out, none) # <<>>
    BY <1>1, <1>3, AppendProperties
  <2> QED BY <1>1, <2>1
<1> HIDE DEF out
<1>5. last \in R
  BY <1>3, <1>4, WithLastIs
<1> HIDE DEF last
<1>6. sum \in Seq(Byte) /\ Len(sum) >= bytes
  <2>1. last \in Seq(Digit(256)) /\ Len(last) = bytes /\ Digit(256) = Byte
    BY <1>5 DEF R, Word, Digit, Byte
  <2>2. ch - Zero \in Int /\ 256 \in Bases /\ 10 \in Nat
    BY DEF Byte, Zero, Bases
  <2> QED BY <2>1, <2>2, MulAddIs
<1> HIDE DEF sum
<1>7. s \in R
  <2>1. Len(sum) \in Nat /\ 1 \in Int /\ bytes \in Int
    BY <1>6
  <2>2. \A i \in 1 .. bytes : sum[i] \in Byte
    BY <1>6, <2>1
  <2>3. s \in Seq(Byte) /\ Len(s) = bytes
    BY <2>1, <2>2, SubSeqProperties
  <2> QED BY <2>3 DEF R, Word
<1> HIDE DEF s
<1>8. WithLast(out, s) \in Seq(R) /\ WithLast(out, s) # <<>>
  BY <1>4, <1>7, WithLastIs
<1>9. SomeNumbers(bytes) = {a \in [out : Seq(R), isok : BOOLEAN] : a.isok => a.out # <<>>}
  BY DEF SomeNumbers, R
<1>10. [acc EXCEPT !.isok = FALSE] \in SomeNumbers(bytes)
  BY <1>9
<1>11. [out |-> WithLast(out, s), isok |-> TRUE] \in SomeNumbers(bytes)
  BY <1>8, <1>9
<1> QED BY <1>2, <1>10, <1>11

\* The walk of the decoder over a text.
NumberWalk(acc, src, bytes) ==
  /\ acc \in [0 .. Len(src) -> SomeNumbers(bytes)] /\ acc[0] = [out |-> <<>>, isok |-> FALSE] /\ acc[Len(src)].out = Numbers(src, bytes)
  /\ \A i \in 1 .. Len(src) : acc[i] = TakeDigit(acc[i - 1], src[i], bytes)

LEMMA NumbersWalked ==
  ASSUME NEW src \in Seq(Byte), NEW bytes \in Nat
  PROVE  \E acc : NumberWalk(acc, src, bytes)
<1> DEFINE S == SomeNumbers(bytes)
           n == Len(src)
           a == [out |-> <<>>, isok |-> FALSE]
           Eq(f) == f = [i \in 0 .. n |-> IF i = 0 THEN a ELSE TakeDigit(f[i - 1], src[i], bytes)]
           acc == CHOOSE f : Eq(f)
           up == [i \in 1 .. n |-> [v \in S |-> TakeDigit(v, src[i], bytes)]]
<1>1. n \in Nat /\ Numbers(src, bytes) = acc[n].out
  BY DEF Numbers
<1>2. \A i \in 1 .. n : \A v \in S : TakeDigit(v, src[i], bytes) \in S
  BY TakeDigitIs
<1>3. up \in [1 .. n -> [S -> S]] /\ a \in S
  BY <1>2, NoNumbers
<1>4. \A i \in 1 .. n : \A v \in S : up[i][v] = TakeDigit(v, src[i], bytes)
  OBVIOUS
<1> HIDE DEF n, up, a, S
<1>5. PICK g : Iterates(g, S, n, a, up)
  BY <1>1, <1>3, IteratesExist
<1>6. Eq(g)
  <2>1. g \in [0 .. n -> S] /\ g[0] = a /\ \A i \in 1 .. n : g[i] = up[i][g[i - 1]]
    BY <1>5 DEF Iterates
  <2>2. ASSUME NEW i \in 0 .. n, i # 0 PROVE g[i] = TakeDigit(g[i - 1], src[i], bytes)
    <3>1. i \in 1 .. n /\ i - 1 \in 0 .. n
      BY <1>1, <2>2
    <3>2. g[i - 1] \in S /\ g[i] = up[i][g[i - 1]]
      BY <2>1, <3>1
    <3> QED BY <1>4, <3>1, <3>2
  <2> QED BY <2>1, <2>2
<1>7. Eq(acc)
  BY <1>6
<1> HIDE DEF acc
<1>8. acc \in [0 .. n -> S]
  <2>1. acc = [i \in 0 .. n |-> acc[i]] /\ acc[0] = a
    BY <1>1, <1>7
  <2>2. ASSUME NEW i \in 1 .. n, acc[i - 1] \in S PROVE acc[i] \in S
    <3>1. i \in 0 .. n /\ i # 0
      BY <1>1
    <3>2. acc[i] = TakeDigit(acc[i - 1], src[i], bytes)
      BY <1>7, <3>1
    <3> QED BY <1>2, <2>2, <3>2
  <2>3. StepsStay(acc, S, n)
    BY <1>3, <2>1, <2>2 DEF StepsStay
  <2> QED BY <1>1, <2>3, IteratesStay
<1>9. \A i \in 1 .. n : acc[i] = TakeDigit(acc[i - 1], src[i], bytes)
  <2>1. \A i \in 1 .. n : i \in 0 .. n /\ i # 0
    BY <1>1
  <2> QED BY <1>7, <2>1
<1>10. acc[0] = a
  BY <1>1, <1>7
<1>11. NumberWalk(acc, src, bytes)
  BY <1>1, <1>8, <1>9, <1>10 DEF NumberWalk, n, a, S
<1> QED BY <1>11

LEMMA NumbersIs ==
  ASSUME NEW src \in Seq(Byte), NEW bytes \in Nat
  PROVE  Numbers(src, bytes) \in Seq(Word(bytes))
<1>1. PICK acc : NumberWalk(acc, src, bytes)
  BY NumbersWalked
<1>2. Len(src) \in 0 .. Len(src)
  OBVIOUS
<1>3. acc[Len(src)] \in SomeNumbers(bytes) /\ acc[Len(src)].out = Numbers(src, bytes)
  BY <1>1, <1>2 DEF NumberWalk
<1> QED BY <1>3 DEF SomeNumbers

LEMMA dec_decodeIs ==
  ASSUME NEW src \in Seq(Byte), NEW w \in Width
  PROVE  dec_decode(src, w) \in Seq(Byte)
<1> DEFINE bytes == WordSize(w)
           numbers == Numbers(src, bytes)
           flat == FlattenSeq(numbers)
           n == Len(numbers)
<1>1. dec_decode(src, w) = SubSeq(flat, 1, n)
  BY DEF dec_decode
<1>2. bytes \in Nat /\ bytes >= 1
  BY DEF WordSize, Width
<1> HIDE DEF bytes
<1>3. numbers \in Seq(Word(bytes))
  BY <1>2, NumbersIs
<1> HIDE DEF numbers
<1>4. Word(bytes) \subseteq Seq(Byte) /\ \A x \in Word(bytes) : Len(x) >= 1
  BY <1>2 DEF Word
<1>5. numbers \in Seq(Seq(Byte))
  BY <1>3, <1>4, SeqMonotonic
<1>6. \A i \in 1 .. n : Len(numbers[i]) >= 1
  BY <1>3, <1>4
<1>7. flat \in Seq(Byte) /\ Len(flat) >= n
  BY <1>5, <1>6, FlattenIs
<1>8. n \in Nat
  BY <1>5
<1> HIDE DEF flat, n
<1>9. \A i \in 1 .. n : flat[i] \in Byte
  BY <1>7, <1>8
<1> QED BY <1>1, <1>8, <1>9, SubSeqProperties

LEMMA base58_idxIs ==
  ASSUME NEW ch
  PROVE  base58_idx(ch) \in Int
<1>1. CASE \E d \in 0 .. 57 : base58_map[d] = ch
  <2> DEFINE d0 == CHOOSE d \in 0 .. 57 : base58_map[d] = ch
  <2>1. d0 \in 0 .. 57
    BY <1>1
  <2>2. base58_idx(ch) = d0
    BY <1>1 DEF base58_idx
  <2> HIDE DEF d0
  <2> QED BY <2>1, <2>2
<1>2. CASE ~\E d \in 0 .. 57 : base58_map[d] = ch
  BY <1>2 DEF base58_idx
<1> QED BY <1>1, <1>2

LEMMA base58_decodeIs ==
  ASSUME NEW src \in Seq(Byte)
  PROVE  Text(base58_decode(src)) /\ Long(src, base58_decode(src))
<1> DEFINE in == [i \in DOMAIN src |-> base58_idx(src[i])]
           number == Rebase(in, <<0>>, 58, 256)
           l == Leading(src, base58_map[0])
           zeros == [i \in 1 .. l |-> 0]
           all == number \o zeros
<1>1. base58_decode(src) = Reverse(all) \o <<NUL>>
  BY DEF base58_decode
<1>2. in \in Seq(Int)
  BY base58_idxIs
<1> HIDE DEF in
<1>3. number \in Seq(Byte) /\ Len(number) >= 1
  <2>1. 256 \in Bases /\ <<0>> \in Seq(Digit(256)) /\ 58 \in Nat /\ Digit(256) = Byte /\ Len(<<0>>) = 1
    BY DEF Bases, Digit, Byte
  <2> QED BY <1>2, <2>1, RebaseIs, ZenonT(60)
<1>4. l \in Nat
  <2>1. base58_map[0] \in Nat
    BY DEF base58_map
  <2> QED BY <2>1, BytesAreInts, LeadingIs
<1> HIDE DEF number, l
<1>5. zeros \in Seq(Byte)
  <2>1. 0 \in Byte
    BY DEF Byte
  <2> QED BY <1>4, <2>1
<1> HIDE DEF zeros
<1>6. all \in Seq(Byte) /\ Len(all) >= 1
  <2>1. all \in Seq(Byte) /\ Len(all) = Len(number) + Len(zeros)
    BY <1>3, <1>5, ConcatProperties
  <2>2. Len(number) \in Nat /\ Len(zeros) \in Nat
    BY <1>3, <1>5
  <2> QED BY <1>3, <2>1, <2>2
<1> HIDE DEF all
<1>7. Reverse(all) \in Seq(Byte) /\ Len(Reverse(all)) >= 1
  BY <1>6, ReverseIs
<1> QED BY <1>1, <1>7, Closed, LongText

LEMMA base64_indexIs ==
  ASSUME NEW ch \in Byte
  PROVE  base64_index(ch) \in Int
<1>1. ch \in Int
  BY DEF Byte
<1>2. CASE ch \in Capitals
  BY <1>1, <1>2 DEF base64_index
<1>3. CASE ch \notin Capitals /\ ch \in Smalls
  BY <1>1, <1>3 DEF base64_index
<1>4. CASE ch \notin Capitals /\ ch \notin Smalls /\ ch \in Digits
  BY <1>1, <1>4 DEF base64_index
<1>5. CASE ch \notin Capitals /\ ch \notin Smalls /\ ch \notin Digits /\ ch = 43
  BY <1>5 DEF base64_index
<1>6. CASE ch \notin Capitals /\ ch \notin Smalls /\ ch \notin Digits /\ ch # 43 /\ ch = 47
  BY <1>6 DEF base64_index
<1>7. CASE ch \notin Capitals /\ ch \notin Smalls /\ ch \notin Digits /\ ch # 43 /\ ch # 47
  BY <1>7 DEF base64_index
<1> QED BY <1>2, <1>3, <1>4, <1>5, <1>6, <1>7

\* A block of four characters is at most three bytes.
LEMMA base64_decodeIs ==
  ASSUME NEW src \in Seq(Byte)
  PROVE  Text(base64_decode(src))
<1> DEFINE Block(t) ==
             <<(t[1] * 4 + t[2] \div 16) % 256>>
             \o (IF t[3] # 64 THEN <<(t[2] * 16 + t[3] \div 4) % 256>> ELSE <<>>)
             \o (IF t[4] # 64 THEN <<(t[3] * 64 + t[4]) % 256>> ELSE <<>>)
           n == Len(src) \div 4
           tmp(k) == [j \in 1 .. 4 |-> base64_index(src[4 * k - 4 + j])]
           seqs == [k \in 1 .. n |-> Block(tmp(k))]
<1>1. base64_decode(src) = FlattenSeq(seqs) \o <<NUL>>
  BY DEF base64_decode
<1>2. n \in Nat
  OBVIOUS
<1>3. \A ch \in Byte : base64_index(ch) \in Int
  BY base64_indexIs
<1>4. ASSUME NEW k \in 1 .. n PROVE tmp(k) \in [1 .. 4 -> Int]
  <2>1. ASSUME NEW j \in 1 .. 4 PROVE src[4 * k - 4 + j] \in Byte
    <3>1. 4 * k - 4 + j \in 1 .. Len(src)
      OBVIOUS
    <3> QED BY <3>1
  <2> QED BY <1>3, <2>1
<1>5. ASSUME NEW t \in [1 .. 4 -> Int] PROVE Block(t) \in Seq(Byte)
  <2> DEFINE x == (t[1] * 4 + t[2] \div 16) % 256
             y == (t[2] * 16 + t[3] \div 4) % 256
             z == (t[3] * 64 + t[4]) % 256
             b == IF t[3] # 64 THEN <<y>> ELSE <<>>
             c == IF t[4] # 64 THEN <<z>> ELSE <<>>
  <2>1. t[1] \in Int /\ t[2] \in Int /\ t[3] \in Int /\ t[4] \in Int
    OBVIOUS
  <2>2. \A p, q \in Int : p * 4 + q \div 16 \in Int /\ p * 16 + q \div 4 \in Int /\ p * 64 + q \in Int
    OBVIOUS
  <2>3. x \in Byte
    <3>1. t[1] * 4 + t[2] \div 16 \in Int
      BY <2>1, <2>2
    <3> QED BY <3>1, InByte
  <2>4. y \in Byte
    <3>1. t[2] * 16 + t[3] \div 4 \in Int
      BY <2>1, <2>2
    <3> QED BY <3>1, InByte
  <2>5. z \in Byte
    <3>1. t[3] * 64 + t[4] \in Int
      BY <2>1, <2>2
    <3> QED BY <3>1, InByte
  <2>6. Block(t) = <<x>> \o b \o c
    OBVIOUS
  <2> HIDE DEF x, y, z, Block
  <2>7. <<x>> \in Seq(Byte) /\ b \in Seq(Byte) /\ c \in Seq(Byte)
    BY <2>3, <2>4, <2>5
  <2> HIDE DEF b, c
  <2>8. <<x>> \o b \in Seq(Byte)
    BY <2>7, ConcatProperties
  <2> QED BY <2>6, <2>7, <2>8, ConcatProperties
<1> HIDE DEF tmp, Block
<1>6. \A k \in 1 .. n : Block(tmp(k)) \in Seq(Byte)
  BY <1>4, <1>5
<1> HIDE DEF n
<1>7. seqs \in Seq(Seq(Byte))
  BY <1>2, <1>6
<1> HIDE DEF seqs
<1> QED BY <1>1, <1>7, FlattenIs, Closed


\* As many whole bytes as the groups of a block have bits for.
LEMMA BytesIs ==
  ASSUME NEW groups \in Seq(Few(5)), NEW count \in Nat, 8 * count <= 5 * Len(groups)
  PROVE  Bytes(groups, 5, count) \in Seq(Byte)
<1> DEFINE n == Len(groups)
           Group(i) == Reverse(SubSeq(Bits(<<groups[i]>>), 1, 5))
           seqs == [i \in DOMAIN groups |-> Group(i)]
           bits == FlattenSeq(seqs)
           R == Few(5)
<1>1. Bytes(groups, 5, count) = [i \in 1 .. count |-> Number(SubSeq(bits, 8 * i - 7, 8 * i))]
  BY DEF Bytes
<1>2. ASSUME NEW i \in DOMAIN groups PROVE Group(i) \in Seq(Bit) /\ Len(Group(i)) = 5
  <2> DEFINE b == Bits(<<groups[i]>>)
  <2>1. groups[i] \in Byte
    <3>1. groups[i] \in Few(5)
      OBVIOUS
    <3> QED BY <3>1 DEF Few, Byte
  <2>2. b \in [1 .. 8 -> Bit]
    BY <2>1, BitsOfOne
  <2>3. b \in Seq(Bit) /\ Len(b) = 8
    BY <2>2, FunctionIsSeq, ZenonT(60)
  <2> HIDE DEF b
  <2>4. SubSeq(b, 1, 5) \in Seq(Bit) /\ Len(SubSeq(b, 1, 5)) = 5
    BY <2>2, <2>3, SubSeqProperties
  <2>5. Reverse(SubSeq(b, 1, 5)) \in Seq(Bit) /\ Len(Reverse(SubSeq(b, 1, 5))) = 5
    BY <2>4, ReverseIs
  <2> QED BY <2>5 DEF b
<1> HIDE DEF Group
<1>3. DOMAIN groups = 1 .. n /\ n \in Nat
  OBVIOUS
<1>4. seqs \in [1 .. n -> Seq(Bit)] /\ \A i \in 1 .. n : seqs[i] = Group(i)
  BY <1>2, <1>3
<1> HIDE DEF seqs
<1>5. seqs \in Seq(Seq(Bit)) /\ Len(seqs) = n
  BY <1>3, <1>4, FunctionIsSeq
<1>6. \A i \in 1 .. Len(seqs) : Len(seqs[i]) = 5
  BY <1>2, <1>3, <1>4, <1>5
<1>7. bits \in Seq(Bit) /\ Len(bits) = 5 * n
  BY <1>5, <1>6, FlattenIs
<1> HIDE DEF bits
<1>8. ASSUME NEW i \in 1 .. count PROVE Number(SubSeq(bits, 8 * i - 7, 8 * i)) \in Byte
  <2> DEFINE a == 8 * i - 7
             b == 8 * i
             s == SubSeq(bits, a, b)
  <2>1. a \in Int /\ b \in Int /\ a >= 1 /\ b <= 5 * n
    BY <1>3
  <2> HIDE DEF a, b
  <2>2. \A j \in a .. b : bits[j] \in Bit
    BY <1>7, <2>1
  <2>3. s \in Seq(Bit)
    BY <2>1, <2>2, SubSeqProperties
  <2> HIDE DEF s
  <2>4. Number(s) \in Byte
    BY <2>3, NumberIs
  <2> QED BY <2>4 DEF s, a, b
<1> QED BY <1>1, <1>8

LEMMA base32_decode0Is ==
  ASSUME NEW ch, base32_decode0(ch) # NoDigit
  PROVE  base32_decode0(ch) \in Few(5)
<1>1. CASE ch \in Capitals
  BY <1>1 DEF base32_decode0, Capitals, Few
<1>2. CASE ch \notin Capitals /\ ch \in 50 .. 55
  BY <1>2 DEF base32_decode0, Few
<1>3. CASE ch \notin Capitals /\ ch \notin 50 .. 55
  BY <1>3 DEF base32_decode0
<1> QED BY <1>1, <1>2, <1>3

\* A block is flushed with its eighth digit at the latest.
Block32(n) == {a \in [out : Seq(Byte), tmp : Seq(Few(5)), go : BOOLEAN] : Len(a.tmp) <= n}

LEMMA NoBlock32 == [out |-> <<>>, tmp |-> <<>>, go |-> TRUE] \in Block32(7)
<1>1. <<>> \in Seq(Byte) /\ <<>> \in Seq(Few(5)) /\ Len(<<>>) = 0
  OBVIOUS
<1> QED BY <1>1 DEF Block32

LEMMA Flush32Is ==
  ASSUME NEW acc \in Block32(8), NEW go \in BOOLEAN
  PROVE  Flush32(acc, go) \in Block32(7)
<1> DEFINE l == Len(acc.tmp)
           more == Bytes(acc.tmp, 5, base32_ext[l])
<1>1. acc.out \in Seq(Byte) /\ acc.tmp \in Seq(Few(5)) /\ l \in Nat /\ l <= 8
  BY DEF Block32
<1>2. \A k \in 0 .. 8 : base32_ext[k] \in Nat /\ 8 * base32_ext[k] <= 5 * k
  BY DEF base32_ext
<1>3. more \in Seq(Byte)
  <2>1. l \in 0 .. 8
    <3> HIDE DEF l
    <3> QED BY <1>1
  <2>2. base32_ext[l] \in Nat /\ 8 * base32_ext[l] <= 5 * l
    BY <1>2, <2>1
  <2> HIDE DEF more
  <2> QED BY <1>1, <2>2, BytesIs DEF more
<1> HIDE DEF l, more
<1>4. acc.out \o more \in Seq(Byte)
  BY <1>1, <1>3, ConcatProperties
<1>5. <<>> \in Seq(Few(5)) /\ Len(<<>>) = 0
  OBVIOUS
<1>6. Flush32(acc, go) = [out |-> acc.out \o more, tmp |-> <<>>, go |-> go]
  BY DEF Flush32, more, l
<1> QED BY <1>4, <1>5, <1>6 DEF Block32

LEMMA Take32Is ==
  ASSUME NEW src, NEW acc \in Block32(7), NEW i
  PROVE  Take32(src, acc, i) \in Block32(7)
<1> DEFINE v == base32_decode0(src[i])
           longer == [acc EXCEPT !.tmp = Append(@, v)]
           t == Append(acc.tmp, v)
<1>0. acc = [out |-> acc.out, tmp |-> acc.tmp, go |-> acc.go]
  BY DEF Block32
<1>1. Take32(src, acc, i) \in
        {acc, Die(acc), Flush32(acc, TRUE), Flush32(acc, FALSE)}
        \cup (IF v # NoDigit
              THEN {IF Len(acc.tmp) < 7 THEN longer ELSE Flush32(longer, TRUE)} ELSE {})
  BY DEF Take32
<1>2. /\ acc.out \in Seq(Byte) /\ acc.tmp \in Seq(Few(5)) /\ acc.go \in BOOLEAN
      /\ Len(acc.tmp) \in Nat /\ Len(acc.tmp) <= 7
  BY DEF Block32
<1>3. acc \in Block32(8)
  BY <1>0, <1>2 DEF Block32
<1>4. Die(acc) \in Block32(7)
  BY DEF Die, Block32
<1>5. ASSUME v # NoDigit
      PROVE  (IF Len(acc.tmp) < 7 THEN longer ELSE Flush32(longer, TRUE)) \in Block32(7)
  <2>1. v \in Few(5)
    BY <1>5, base32_decode0Is
  <2> HIDE DEF v
  <2>2. t \in Seq(Few(5)) /\ Len(t) = Len(acc.tmp) + 1
    BY <1>2, <2>1, AppendProperties
  <2>3. longer = [out |-> acc.out, tmp |-> t, go |-> acc.go]
    BY <1>0, SMTT(30)
  <2> HIDE DEF t, longer
  <2>4. longer \in Block32(8) /\ (Len(acc.tmp) < 7 => longer \in Block32(7))
    BY <1>2, <2>2, <2>3 DEF Block32
  <2> QED BY <2>4, Flush32Is
<1> HIDE DEF v, longer
<1>6. Flush32(acc, TRUE) \in Block32(7) /\ Flush32(acc, FALSE) \in Block32(7)
  BY <1>3, Flush32Is
<1> QED BY <1>1, <1>4, <1>5, <1>6

LEMMA base32_decodeIs ==
  ASSUME NEW src \in Seq(Byte)
  PROVE  base32_decode(src) \in Seq(Byte)
<1> DEFINE S == Block32(7)
           n == Len(src)
           a == [out |-> <<>>, tmp |-> <<>>, go |-> TRUE]
           Eq(f) == f = [i \in 0 .. n |-> IF i = 0 THEN a ELSE Take32(src, f[i - 1], i)]
           acc == CHOOSE f : Eq(f)
           up == [i \in 1 .. n |-> [v \in S |-> Take32(src, v, i)]]
<1>1. n \in Nat /\ base32_decode(src) = acc[n].out
  BY DEF base32_decode
<1>2. \A i \in 1 .. n : \A v \in S : Take32(src, v, i) \in S
  BY Take32Is
<1>3. up \in [1 .. n -> [S -> S]] /\ a \in S
  BY <1>2, NoBlock32
<1>4. \A i \in 1 .. n : \A v \in S : up[i][v] = Take32(src, v, i)
  OBVIOUS
<1> HIDE DEF n, up, a, S
<1>5. PICK g : Iterates(g, S, n, a, up)
  BY <1>1, <1>3, IteratesExist
<1>6. Eq(g)
  <2>1. g \in [0 .. n -> S] /\ g[0] = a /\ \A i \in 1 .. n : g[i] = up[i][g[i - 1]]
    BY <1>5 DEF Iterates
  <2>2. ASSUME NEW i \in 0 .. n, i # 0 PROVE g[i] = Take32(src, g[i - 1], i)
    <3>1. i \in 1 .. n /\ i - 1 \in 0 .. n
      BY <1>1, <2>2
    <3>2. g[i - 1] \in S /\ g[i] = up[i][g[i - 1]]
      BY <2>1, <3>1
    <3> QED BY <1>4, <3>1, <3>2
  <2> QED BY <2>1, <2>2
<1>7. Eq(acc)
  BY <1>6
<1> HIDE DEF acc
<1>8. acc \in [0 .. n -> S]
  <2>1. acc = [i \in 0 .. n |-> acc[i]] /\ acc[0] = a
    BY <1>1, <1>7
  <2>2. ASSUME NEW i \in 1 .. n, acc[i - 1] \in S PROVE acc[i] \in S
    <3>1. i \in 0 .. n /\ i # 0
      BY <1>1
    <3>2. acc[i] = Take32(src, acc[i - 1], i)
      BY <1>7, <3>1
    <3> QED BY <1>2, <2>2, <3>2
  <2>3. StepsStay(acc, S, n)
    BY <1>3, <2>1, <2>2 DEF StepsStay
  <2> QED BY <1>1, <2>3, IteratesStay
<1>9. acc[n] \in S
  BY <1>1, <1>8
<1> QED BY <1>1, <1>9 DEF S, Block32


\* A block is flushed with its fifth digit, or at the end.
Blocks85 == [out : Seq(Byte), tmp : Seq(Digit(85)), go : BOOLEAN]
Block85  == {a \in Blocks85 : a.go => Len(a.tmp) <= 4}

LEMMA NoBlock85 == [out |-> <<>>, tmp |-> <<>>, go |-> TRUE] \in Block85
<1>1. <<>> \in Seq(Byte) /\ <<>> \in Seq(Digit(85)) /\ Len(<<>>) = 0
  OBVIOUS
<1> QED BY <1>1 DEF Block85, Blocks85

LEMMA Flush85Is ==
  ASSUME NEW acc \in Blocks85, Len(acc.tmp) >= 1, Len(acc.tmp) <= 5
  PROVE  Flush85(acc) \in Block85
<1> DEFINE out == acc.out
           tmp == acc.tmp
           count == Len(tmp)
           pad == [i \in 1 .. 5 - count |-> 84]
           five == tmp \o pad
           bytes == Rebase(five, <<0, 0, 0, 0>>, 85, 256)
           more == SubSeq(Reverse(bytes), 1, count - 1)
<1>1. Flush85(acc) = IF Len(bytes) > 4 THEN [acc EXCEPT !.go = FALSE]
                     ELSE [acc EXCEPT !.out = out \o more, !.tmp = <<>>]
  BY DEF Flush85
<1>0. out \in Seq(Byte) /\ tmp \in Seq(Digit(85))
  BY DEF Blocks85
<1> HIDE DEF out, tmp
<1>2. five \in Seq(Int)
  <2>1. pad \in Seq(Int)
    <3>1. 5 - count \in Nat
      BY <1>0 DEF tmp
    <3> QED BY <3>1
  <2>2. tmp \in Seq(Int)
    <3>1. Digit(85) \subseteq Int
      BY DEF Digit
    <3> QED BY <1>0, <3>1, SeqMonotonic
  <2> HIDE DEF pad
  <2> QED BY <2>1, <2>2, ConcatProperties
<1> HIDE DEF five
<1>3. bytes \in Seq(Byte) /\ Len(bytes) >= 4
  <2> DEFINE first == <<0, 0, 0, 0>>
  <2>1. 256 \in Bases /\ 85 \in Nat /\ Digit(256) = Byte
    BY DEF Bases, Digit, Byte
  <2>2. first \in Seq(Digit(256)) /\ Len(first) = 4
    BY DEF Digit
  <2> HIDE DEF first
  <2>3. Rebase(five, first, 85, 256) \in Seq(Digit(256)) /\ Len(Rebase(five, first, 85, 256)) >= Len(first)
    BY <1>2, <2>1, <2>2, RebaseIs, ZenonT(60)
  <2>4. bytes = Rebase(five, first, 85, 256)
    BY DEF first
  <2> HIDE DEF bytes
  <2> QED BY <2>1, <2>2, <2>3, <2>4
<1> HIDE DEF bytes
<1>4. Reverse(bytes) \in Seq(Byte) /\ Len(Reverse(bytes)) = Len(bytes)
  BY <1>3, ReverseIs
<1>5. more \in Seq(Byte)
  <2> DEFINE r == Reverse(bytes)
  <2>1. r \in Seq(Byte) /\ Len(r) \in Nat /\ Len(r) >= 4
    BY <1>3, <1>4
  <2> HIDE DEF r
  <2>2. 1 \in Int /\ count - 1 \in Int /\ count - 1 <= 4
    <3>1. count \in Int /\ count <= 5
      BY <1>0 DEF tmp
    <3> HIDE DEF count
    <3> QED BY <3>1
  <2> HIDE DEF count
  <2>3. \A i \in 1 .. count - 1 : i \in 1 .. Len(r)
    BY <2>1, <2>2
  <2>4. \A i \in 1 .. count - 1 : r[i] \in Byte
    BY <2>1, <2>3
  <2>5. SubSeq(r, 1, count - 1) \in Seq(Byte)
    BY <2>1, <2>2, <2>4, SubSeqProperties
  <2> QED BY <2>5 DEF r
<1> HIDE DEF more
<1>6. out \o more \in Seq(Byte)
  BY <1>0, <1>5, ConcatProperties
<1>7. <<>> \in Seq(Digit(85)) /\ Len(<<>>) = 0
  OBVIOUS
<1>8. [acc EXCEPT !.go = FALSE] \in Block85
  BY DEF Block85, Blocks85
<1>9. [acc EXCEPT !.out = out \o more, !.tmp = <<>>] \in Block85
  <2> DEFINE o == out \o more
             next == [acc EXCEPT !.out = o, !.tmp = <<>>]
  <2> HIDE DEF o
  <2>1. o \in Seq(Byte)
    BY <1>6 DEF o
  <2>2. next \in Blocks85
    BY <1>7, <2>1 DEF Blocks85
  <2>3. next.tmp = <<>>
    BY DEF Blocks85
  <2> HIDE DEF next
  <2>4. next \in Block85
    BY <1>7, <2>2, <2>3 DEF Block85
  <2> QED BY <2>4 DEF next, o
<1> QED BY <1>1, <1>8, <1>9

LEMMA Digit85Is ==
  ASSUME NEW ch \in 33 .. 117
  PROVE  ch - 33 \in Digit(85)
BY DEF Digit

LEMMA FourZeros == <<0, 0, 0, 0>> \in Seq(Byte)
<1>1. 0 \in Byte
  BY DEF Byte
<1> QED BY <1>1

LEMMA Take85Is ==
  ASSUME NEW acc \in Block85, NEW ch
  PROVE  Take85(acc, ch) \in Block85
<1> DEFINE o == acc.out
           t == acc.tmp
           longer == Append(t, ch - 33)
<1>2. o \in Seq(Byte) /\ t \in Seq(Digit(85)) /\ acc.go \in BOOLEAN
      /\ Len(t) \in Nat /\ (acc.go => Len(t) <= 4)
  BY DEF Block85, Blocks85
<1>3. Take85(acc, ch) =
        IF ~acc.go THEN acc
        ELSE IF ch = LowZ /\ t = <<>> THEN [acc EXCEPT !.out = o \o <<0, 0, 0, 0>>]
        ELSE IF ch \notin 33 .. 117 THEN [acc EXCEPT !.go = FALSE, !.tmp = <<>>]
        ELSE IF Len(t) < 4 THEN [acc EXCEPT !.tmp = longer]
        ELSE Flush85([acc EXCEPT !.tmp = longer])
  BY DEF Take85
<1>4. [acc EXCEPT !.out = o \o <<0, 0, 0, 0>>] \in Block85
  <2>1. o \o <<0, 0, 0, 0>> \in Seq(Byte)
    BY <1>2, FourZeros, ConcatProperties
  <2> QED BY <2>1 DEF Block85, Blocks85
<1>5. [acc EXCEPT !.go = FALSE, !.tmp = <<>>] \in Block85
  <2>1. <<>> \in Seq(Digit(85))
    OBVIOUS
  <2> QED BY <2>1 DEF Block85, Blocks85
<1>6. ASSUME acc.go, ch \in 33 .. 117
      PROVE  (IF Len(t) < 4 THEN [acc EXCEPT !.tmp = longer]
              ELSE Flush85([acc EXCEPT !.tmp = longer])) \in Block85
  <2>1. longer \in Seq(Digit(85)) /\ Len(longer) = Len(t) + 1
    <3> DEFINE x == ch - 33
    <3>1. x \in Digit(85)
      BY <1>6, Digit85Is
    <3> HIDE DEF x
    <3>2. Append(t, x) \in Seq(Digit(85)) /\ Len(Append(t, x)) = Len(t) + 1
      BY <1>2, <3>1, AppendProperties
    <3> QED BY <3>2 DEF x
  <2> HIDE DEF longer
  <2> DEFINE next == [acc EXCEPT !.tmp = longer]
  <2>2. next \in Blocks85 /\ next.tmp = longer
    BY <2>1 DEF Block85, Blocks85
  <2> HIDE DEF next
  <2>3. CASE Len(t) < 4
    <3>1. Len(longer) <= 4
      BY <1>2, <2>1, <2>3
    <3>2. next \in Block85
      BY <2>2, <3>1 DEF Block85
    <3> QED BY <2>3, <3>2 DEF next
  <2>4. CASE ~(Len(t) < 4)
    <3>1. Len(longer) >= 1 /\ Len(longer) <= 5
      BY <1>2, <1>6, <2>1
    <3>2. Flush85(next) \in Block85
      BY <2>2, <3>1, Flush85Is
    <3> QED BY <2>4, <3>2 DEF next
  <2> QED BY <2>3, <2>4
<1> HIDE DEF longer
<1> QED BY <1>2, <1>3, <1>4, <1>5, <1>6

LEMMA base85_decodeIs ==
  ASSUME NEW src \in Seq(Byte)
  PROVE  Text(base85_decode(src))
<1> DEFINE n == Len(src)
           a == [out |-> <<>>, tmp |-> <<>>, go |-> TRUE]
           Eq(f) == f = [i \in 0 .. n |-> IF i = 0 THEN a ELSE Take85(f[i - 1], src[i])]
           acc == CHOOSE f : Eq(f)
           up == [i \in 1 .. n |-> [v \in Block85 |-> Take85(v, src[i])]]
<1>0. base85_decode(src) =
        (IF acc[n].go /\ acc[n].tmp # <<>> THEN Flush85(acc[n]) ELSE acc[n]).out \o <<NUL>>
  BY DEF base85_decode
<1>1. n \in Nat
  OBVIOUS
<1>2. \A i \in 1 .. n : \A v \in Block85 : Take85(v, src[i]) \in Block85
  BY Take85Is
<1>3. up \in [1 .. n -> [Block85 -> Block85]] /\ a \in Block85
  BY <1>2, NoBlock85
<1>4. \A i \in 1 .. n : \A v \in Block85 : up[i][v] = Take85(v, src[i])
  OBVIOUS
<1> HIDE DEF n, up, a
<1>5. PICK g : Iterates(g, Block85, n, a, up)
  BY <1>1, <1>3, IteratesExist
<1>6. Eq(g)
  <2>1. g \in [0 .. n -> Block85] /\ g[0] = a /\ \A i \in 1 .. n : g[i] = up[i][g[i - 1]]
    BY <1>5 DEF Iterates
  <2>2. ASSUME NEW i \in 0 .. n, i # 0 PROVE g[i] = Take85(g[i - 1], src[i])
    <3>1. i \in 1 .. n /\ i - 1 \in 0 .. n
      BY <1>1, <2>2
    <3>2. g[i - 1] \in Block85 /\ g[i] = up[i][g[i - 1]]
      BY <2>1, <3>1
    <3> QED BY <1>4, <3>1, <3>2
  <2> QED BY <2>1, <2>2
<1>7. Eq(acc)
  BY <1>6
<1> HIDE DEF acc
<1>8. acc \in [0 .. n -> Block85]
  <2>1. acc = [i \in 0 .. n |-> acc[i]] /\ acc[0] = a
    BY <1>1, <1>7
  <2>2. ASSUME NEW i \in 1 .. n, acc[i - 1] \in Block85 PROVE acc[i] \in Block85
    <3>1. i \in 0 .. n /\ i # 0
      BY <1>1
    <3>2. acc[i] = Take85(acc[i - 1], src[i])
      BY <1>7, <3>1
    <3> QED BY <1>2, <2>2, <3>2
  <2>3. StepsStay(acc, Block85, n)
    BY <1>3, <2>1, <2>2 DEF StepsStay
  <2> QED BY <1>1, <2>3, IteratesStay
<1>9. acc[n] \in Block85
  BY <1>1, <1>8
<1> DEFINE all == acc[n]
<1> HIDE DEF all
<1>10. ASSUME all.go, all.tmp # <<>> PROVE Flush85(all) \in Block85
  <2>1. all \in Block85
    BY <1>9 DEF all
  <2>3. all.out \in Seq(Byte) /\ all.tmp \in Seq(Digit(85)) /\ all.go \in BOOLEAN /\ Len(all.tmp) <= 4
    BY <1>10, <2>1 DEF Block85, Blocks85
  <2>4. Len(all.tmp) >= 1 /\ Len(all.tmp) <= 5
    <3>1. Len(all.tmp) \in Nat /\ Len(all.tmp) # 0
      BY <1>10, <2>3, EmptySeq
    <3> DEFINE l == Len(all.tmp)
    <3>2. l \in Nat /\ l # 0 /\ l <= 4
      BY <2>3, <3>1
    <3> HIDE DEF l
    <3>3. l >= 1 /\ l <= 5
      BY <3>2
    <3> QED BY <3>3 DEF l
  <2>5. all \in Blocks85
    BY <2>1 DEF Block85
  <2> QED BY <2>4, <2>5, Flush85Is
<1>11. (IF all.go /\ all.tmp # <<>> THEN Flush85(all) ELSE all) \in Block85
  BY <1>9, <1>10 DEF all
<1>12. (IF all.go /\ all.tmp # <<>> THEN Flush85(all) ELSE all).out \in Seq(Byte)
  BY <1>11 DEF Block85, Blocks85
<1> QED BY <1>0, <1>12, Closed DEF all

-----------------------------------------------------------------------------
(***************************************************************************)
(* The chain.                                                              *)
(***************************************************************************)
Ops     == zSCRIPTCOMMANDS \cup zSCRIPTCOMMANDSEX \cup {"nothing"}
Action  == [op : Ops, w : Width, key : Int, text : Seq(Byte)]

\* A codec that has a result answers bytes: at least one unless its text may be
\* worth none, and two unless it may be worth one.
LEMMA CodedIs ==
  ASSUME NEW x \in Action, x.op \in Codings, NEW data \in Seq(Byte), HasResult(x, data)
  PROVE  /\ Coded(x, data) \in Seq(Byte)
         /\ x.op \notin Emptying => Coded(x, data) # <<>>
         /\ x.op \notin Short => Len(Coded(x, data)) >= 2
<1>1. x.w \in Width /\ x.text \in Seq(Byte) /\ (x.op \in Ciphers => x.text # <<>>) /\ data # <<>>
  BY DEF Action, HasResult
<1>2. CASE x.op = "bine"
  <2>1. Coded(x, data) = bin_encode(data, x.w)
    BY <1>2 DEF Coded
  <2>2. Text(bin_encode(data, x.w)) /\ Long(data, bin_encode(data, x.w))
    BY <1>1, bin_encodeIs
  <2> QED BY <1>1, <1>2, <2>1, <2>2 DEF Text, Long
<1>3. CASE x.op = "bind"
  <2>1. Coded(x, data) = bin_decode(data)
    BY <1>3 DEF Coded
  <2>2. Text(bin_decode(data))
    BY <1>1, bin_decodeIs
  <2> QED BY <1>3, <2>1, <2>2 DEF Text, Short, Emptying
<1>4. CASE x.op = "hexe"
  <2>1. Coded(x, data) = hex_encode(data, x.w)
    BY <1>4 DEF Coded
  <2>2. Text(hex_encode(data, x.w)) /\ Long(data, hex_encode(data, x.w))
    BY <1>1, hex_encodeIs
  <2> QED BY <1>1, <1>4, <2>1, <2>2 DEF Text, Long
<1>5. CASE x.op = "hexd"
  <2>1. Coded(x, data) = hex_decode(data)
    BY <1>5 DEF Coded
  <2>2. hex_decode(data) \in Seq(Byte)
    BY <1>1, hex_decodeIs
  <2> QED BY <1>5, <2>1, <2>2 DEF Short, Emptying
<1>6. CASE x.op = "dece"
  <2>1. Coded(x, data) = dec_encode(data, x.w)
    BY <1>6 DEF Coded
  <2>2. Text(dec_encode(data, x.w))
    BY <1>1, dec_encodeIs
  <2> QED BY <1>6, <2>1, <2>2 DEF Text, Short, Emptying
<1>7. CASE x.op = "decd"
  <2>1. Coded(x, data) = dec_decode(data, x.w)
    BY <1>7 DEF Coded
  <2>2. dec_decode(data, x.w) \in Seq(Byte)
    BY <1>1, dec_decodeIs
  <2> QED BY <1>7, <2>1, <2>2 DEF Short, Emptying
<1>8. CASE x.op = "base32e"
  <2>1. Coded(x, data) = base32_encode(data)
    BY <1>8 DEF Coded
  <2>2. Text(base32_encode(data)) /\ Long(data, base32_encode(data))
    BY <1>1, base32_encodeIs
  <2> QED BY <1>1, <1>8, <2>1, <2>2 DEF Text, Long
<1>9. CASE x.op = "base32d"
  <2>1. Coded(x, data) = base32_decode(data)
    BY <1>9 DEF Coded
  <2>2. base32_decode(data) \in Seq(Byte)
    BY <1>1, base32_decodeIs
  <2> QED BY <1>9, <2>1, <2>2 DEF Short, Emptying
<1>10. CASE x.op = "base58e"
  <2>1. Coded(x, data) = base58_encode(data)
    BY <1>10 DEF Coded
  <2>2. Text(base58_encode(data)) /\ Long(data, base58_encode(data))
    BY <1>1, base58_encodeIs
  <2> QED BY <1>1, <1>10, <2>1, <2>2 DEF Text, Long
<1>11. CASE x.op = "base58d"
  <2>1. Coded(x, data) = base58_decode(data)
    BY <1>11 DEF Coded
  <2>2. Text(base58_decode(data)) /\ Long(data, base58_decode(data))
    BY <1>1, base58_decodeIs
  <2> QED BY <1>1, <1>11, <2>1, <2>2 DEF Text, Long
<1>12. CASE x.op = "base64e"
  <2>1. Coded(x, data) = base64_encode(data)
    BY <1>12 DEF Coded
  <2>2. Text(base64_encode(data)) /\ Long(data, base64_encode(data))
    BY <1>1, base64_encodeIs
  <2> QED BY <1>1, <1>12, <2>1, <2>2 DEF Text, Long
<1>13. CASE x.op = "base64d"
  <2>1. Coded(x, data) = base64_decode(data)
    BY <1>13 DEF Coded
  <2>2. Text(base64_decode(data))
    BY <1>1, base64_decodeIs
  <2> QED BY <1>13, <2>1, <2>2 DEF Text, Short, Emptying
<1>14. CASE x.op = "base85e"
  <2>1. Coded(x, data) = base85_encode(data)
    BY <1>14 DEF Coded
  <2>2. Text(base85_encode(data)) /\ Long(data, base85_encode(data))
    BY <1>1, base85_encodeIs
  <2> QED BY <1>1, <1>14, <2>1, <2>2 DEF Text, Long
<1>15. CASE x.op = "base85d"
  <2>1. Coded(x, data) = base85_decode(data)
    BY <1>15 DEF Coded
  <2>2. Text(base85_decode(data))
    BY <1>1, base85_decodeIs
  <2> QED BY <1>15, <2>1, <2>2 DEF Text, Short, Emptying
<1>16. CASE x.op = "vigeneree"
  <2>1. Coded(x, data) = vigenere_encode(data, x.text)
    BY <1>16 DEF Coded
  <2>2. Text(vigenere_encode(data, x.text)) /\ Long(data, vigenere_encode(data, x.text))
    BY <1>1, <1>16, VigenereIs DEF vigenere_encode, Ciphers
  <2> QED BY <1>1, <1>16, <2>1, <2>2 DEF Text, Long
<1>17. CASE x.op = "vigenered"
  <2>1. Coded(x, data) = vigenere_decode(data, x.text)
    BY <1>17 DEF Coded
  <2>2. Text(vigenere_decode(data, x.text)) /\ Long(data, vigenere_decode(data, x.text))
    BY <1>1, <1>17, VigenereIs DEF vigenere_decode, Ciphers
  <2> QED BY <1>1, <1>17, <2>1, <2>2 DEF Text, Long
<1> QED BY <1>2, <1>3, <1>4, <1>5, <1>6, <1>7, <1>8, <1>9, <1>10, <1>11, <1>12, <1>13, <1>14, <1>15, <1>16, <1>17 DEF Codings, Encoders, Decoders, Ciphers

\* What the scripts of an argument become.
LEMMA ActionOf ==
  ASSUME NEW c \in Command, NEW n \in Seq(Byte)
  PROVE  /\ c.op \in zSCRIPTCOMMANDS => ByValue(c) \in Action
         /\ c.op \in zSCRIPTCOMMANDSEX => ByName(c, n) \in Action
         /\ Nothing \in Action
<1>1. /\ c.w \in Width /\ c.key \in Int /\ c.text \in Seq(Byte)
      /\ (IF c.braces THEN c.text ELSE n) \in Seq(Byte)
  BY DEF Command, Width
<1>2. <<>> \in Seq(Byte)
  OBVIOUS
<1>3. ASSUME c.op \in zSCRIPTCOMMANDS PROVE ByValue(c) \in Action
  BY <1>1, <1>2, <1>3 DEF ByValue, Action, Ops
<1>4. ASSUME c.op \in zSCRIPTCOMMANDSEX PROVE ByName(c, n) \in Action
  <2> DEFINE t == IF c.braces THEN c.text ELSE n
  <2>1. ByName(c, n) = [op |-> c.op, w |-> c.w, key |-> 0, text |-> t]
    BY DEF ByName
  <2>2. t \in Seq(Byte)
    BY <1>1
  <2> HIDE DEF t
  <2> QED BY <1>1, <1>4, <2>1, <2>2 DEF Action, Ops
<1>5. Nothing \in Action
  BY <1>2 DEF Nothing, Action, Ops, Width
<1> QED BY <1>3, <1>4, <1>5

LEMMA OneAction ==
  ASSUME NEW a \in Action
  PROVE  <<a>> \in Seq(Action)
OBVIOUS

LEMMA sprocessIs ==
  ASSUME NEW script, script.commands \in Commands, NEW n \in Seq(Byte)
  PROVE  sprocess(script, n) \in Seq(Action)
<1> DEFINE cs == script.commands
           seen == IF script.closed THEN cs ELSE Front(cs)
           seqs == [i \in DOMAIN seen |-> Separated(seen[i])]
<1>1. cs \in Seq(Command) /\ cs # <<>>
  BY DEF Commands
<1>2. sprocess(script, n) = IF Len(cs) = 1 /\ ~script.closed THEN Single(cs[1], n) ELSE FlattenSeq(seqs)
  BY DEF sprocess
<1> HIDE DEF cs
<1>3. <<>> \in Seq(Action)
  OBVIOUS
<1>4. Single(cs[1], n) \in Seq(Action)
  <2>1. cs[1] \in Command
    <3>1. Len(cs) \in Nat /\ Len(cs) # 0
      BY <1>1, EmptySeq
    <3> QED BY <1>1, <3>1
  <2> QED BY <1>3, <2>1, ActionOf, OneAction DEF Single
<1>5. seen \in Seq(Command)
  <2>1. Len(cs) \in Nat /\ Len(cs) >= 1
    <3>1. Len(cs) \in Nat /\ Len(cs) # 0
      BY <1>1, EmptySeq
    <3> QED BY <3>1
  <2>2. \A i \in 1 .. Len(cs) - 1 : cs[i] \in Command
    BY <1>1, <2>1
  <2>3. SubSeq(cs, 1, Len(cs) - 1) \in Seq(Command)
    BY <2>1, <2>2, SubSeqProperties
  <2> QED BY <1>1, <2>3 DEF Front
<1> HIDE DEF seen
<1>6. ASSUME NEW c \in Command PROVE Separated(c) \in Seq(Action)
  BY <1>3, ActionOf, OneAction DEF Separated
<1>7. seqs \in Seq(Seq(Action))
  <2>1. \A i \in DOMAIN seen : Separated(seen[i]) \in Seq(Action)
    BY <1>5, <1>6
  <2> QED BY <1>5, <2>1
<1> HIDE DEF seqs
<1> QED BY <1>2, <1>4, <1>7, FlattenIs

LEMMA ScriptFileIs ==
  ASSUME NEW lines \in Seq(FileLine), NEW n \in Seq(Byte)
  PROVE  ScriptFile(lines, n) \in Seq(Action)
<1> DEFINE seqs == [i \in DOMAIN lines |-> LineOf(lines[i], n)]
<1>1. ScriptFile(lines, n) = FlattenSeq(seqs)
  BY DEF ScriptFile
<1>2. ASSUME NEW line \in FileLine PROVE LineOf(line, n) \in Seq(Action)
  <2>1. line.commands \in Commands
    BY DEF FileLine
  <2>2. sprocess(line, n) \in Seq(Action)
    BY <2>1, sprocessIs
  <2>3. <<>> \in Seq(Action)
    OBVIOUS
  <2> QED BY <2>2, <2>3 DEF LineOf
<1>3. seqs \in Seq(Seq(Action))
  <2>1. \A i \in DOMAIN lines : LineOf(lines[i], n) \in Seq(Action)
    BY <1>2
  <2> QED BY <2>1
<1> HIDE DEF seqs
<1> QED BY <1>1, <1>3, FlattenIs

-----------------------------------------------------------------------------
(***************************************************************************)
(* What the actions that were run have done, one after the other.  The     *)
(* buffers v and the steps t that the n - 1 first actions of a chain have  *)
(* left: v[i] is what action i has found in the buffer.                    *)
(***************************************************************************)
InPlaceOps == (zSCRIPTCOMMANDS \cup {"nothing"}) \ {"inc", "dec"}

Buffer == Seq(Byte) \cup {NULL}

StepTo(x, s) == IF x.op = "inc" THEN x.key ELSE IF x.op = "dec" THEN -x.key ELSE s

CodedTo(x, from, to) ==
  /\ from # NULL
  /\ to = IF HasResult(x, from) THEN Coded(x, from) ELSE NULL

Moves(x, s, from, to) ==
  /\ x.op \notin Brutes
  /\ x.op \in Codings => CodedTo(x, from, to)
  /\ x.op \in {"inc", "dec"} => to = from
  /\ x.op \in InPlaceOps => /\ from \in Seq(Byte)
                            /\ ShiftDefined(x.op, x.w, x.key, s, from)
                            /\ to = InPlace(x.op, x.w, x.key, s, from)

Trace(v, t, n, chain, first, b, s) ==
  /\ v \in [1 .. n -> Buffer] /\ t \in [1 .. n -> Int]
  /\ v[1] = first /\ v[n] = b
  /\ t[1] = 0 /\ t[n] = s
  /\ \A i \in 1 .. n - 1 : /\ t[i + 1] = StepTo(chain[i], t[i])
                           /\ Moves(chain[i], t[i], v[i], v[i + 1])

Reached(n, chain, first, b, s) == \E v, t : Trace(v, t, n, chain, first, b, s)

LEMMA ReachedFirst ==
  ASSUME NEW chain, NEW first \in Seq(Byte)
  PROVE  Reached(1, chain, first, first, 0)
<1> DEFINE v == [i \in 1 .. 1 |-> first]
           t == [i \in 1 .. 1 |-> 0]
<1>1. v \in [1 .. 1 -> Buffer] /\ t \in [1 .. 1 -> Int] /\ v[1] = first /\ t[1] = 0
  BY DEF Buffer
<1>2. 1 .. 1 - 1 = {}
  OBVIOUS
<1> HIDE DEF v, t
<1>3. Trace(v, t, 1, chain, first, first, 0)
  BY <1>1, <1>2 DEF Trace
<1> QED BY <1>3 DEF Reached

LEMMA ReachedNext ==
  ASSUME NEW n \in Nat, n >= 1, NEW chain, NEW first, NEW b, NEW s,
         Reached(n, chain, first, b, s),
         NEW to \in Buffer, NEW up \in Int,
         up = StepTo(chain[n], s), Moves(chain[n], s, b, to)
  PROVE  Reached(n + 1, chain, first, to, up)
<1>1. PICK v, t : Trace(v, t, n, chain, first, b, s)
  BY DEF Reached
<1>2. /\ v \in [1 .. n -> Buffer] /\ t \in [1 .. n -> Int]
      /\ v[1] = first /\ v[n] = b
      /\ t[1] = 0 /\ t[n] = s
  BY <1>1 DEF Trace
<1>3. \A i \in 1 .. n - 1 : t[i + 1] = StepTo(chain[i], t[i]) /\ Moves(chain[i], t[i], v[i], v[i + 1])
  BY <1>1 DEF Trace
<1> DEFINE v2 == [i \in 1 .. n + 1 |-> IF i = n + 1 THEN to ELSE v[i]]
           t2 == [i \in 1 .. n + 1 |-> IF i = n + 1 THEN up ELSE t[i]]
<1>4. v2 \in [1 .. n + 1 -> Buffer] /\ t2 \in [1 .. n + 1 -> Int]
  BY <1>2
<1>5. v2[n + 1] = to /\ t2[n + 1] = up /\ \A i \in 1 .. n : v2[i] = v[i] /\ t2[i] = t[i]
  OBVIOUS
<1> HIDE DEF v2, t2
<1>6. v2[1] = first /\ t2[1] = 0
  BY <1>2, <1>5
<1>7. ASSUME NEW i \in 1 .. (n + 1) - 1
      PROVE  t2[i + 1] = StepTo(chain[i], t2[i]) /\ Moves(chain[i], t2[i], v2[i], v2[i + 1])
  <2>1. CASE i = n
    <3>1. v2[i] = b /\ t2[i] = s /\ v2[i + 1] = to /\ t2[i + 1] = up
      BY <1>2, <1>5, <2>1
    <3> QED BY <2>1, <3>1
  <2>2. CASE i # n
    <3>1. i \in 1 .. n - 1 /\ i \in 1 .. n /\ i + 1 \in 1 .. n
      BY <2>2
    <3>2. v2[i] = v[i] /\ t2[i] = t[i] /\ v2[i + 1] = v[i + 1] /\ t2[i + 1] = t[i + 1]
      BY <1>5, <3>1
    <3> QED BY <1>3, <3>1, <3>2
  <2> QED BY <2>1, <2>2
<1>8. Trace(v2, t2, n + 1, chain, first, to, up)
  BY <1>4, <1>5, <1>6, <1>7 DEF Trace
<1> QED BY <1>8 DEF Reached

\* From the action k on the step is the one that the last action has found.
LEMMA StepStays ==
  ASSUME NEW n \in Nat, NEW chain, NEW v, NEW t, NEW first, NEW b, NEW s,
         Trace(v, t, n, chain, first, b, s),
         NEW k \in 1 .. n, \A i \in k .. n - 1 : chain[i].op \notin {"inc", "dec"}
  PROVE  \A i \in k .. n : t[i] = t[k]
<1> DEFINE T == {i \in k .. n : t[i] = t[k]}
<1>1. k \in T
  OBVIOUS
<1>2. ASSUME NEW i \in k .. n - 1, i \in T PROVE i + 1 \in T
  <2>1. i \in 1 .. n - 1 /\ i + 1 \in k .. n
    OBVIOUS
  <2>2. t[i + 1] = StepTo(chain[i], t[i])
    BY <2>1 DEF Trace
  <2>3. t[i + 1] = t[i]
    BY <2>2 DEF StepTo
  <2> QED BY <1>2, <2>1, <2>3
<1> HIDE DEF T
<1>3. k .. n \subseteq T
  BY <1>1, <1>2, Upwards
<1> QED BY <1>3 DEF T

\* A chain that is mirrored from k on ends in what it has found there.
Steady(chain, k, n) == \A i \in k .. n : chain[i].op \notin {"inc", "dec"}

MirroredFrom(chain, k, m) ==
  \A i \in 1 .. m :
    LET x == chain[k + i - 1]
        y == chain[k + 2 * m - i]
    IN  /\ x \in Action /\ x.op \in Invertible /\ y.op = Opposite(x.op)
        /\ x.w = y.w /\ x.key = y.key

LEMMA MirrorBack ==
  ASSUME NEW m \in Nat, NEW k \in Nat, k >= 1, NEW chain, NEW v, NEW t, NEW first, NEW b, NEW s,
         Trace(v, t, k + 2 * m, chain, first, b, s),
         MirroredFrom(chain, k, m), Steady(chain, k, k + 2 * m - 1)
  PROVE  b = v[k]
<1> DEFINE n == k + 2 * m
           T == {d \in 0 .. m : v[k + m + d] = v[k + m - d]}
<1>1. 0 \in T
  OBVIOUS
<1>2. ASSUME NEW d \in 0 .. m - 1, d \in T PROVE d + 1 \in T
  <2> DEFINE i == m - d
             p == k + i - 1
             q == k + 2 * m - i
             x == chain[p]
             y == chain[q]
  <2>1. i \in 1 .. m
    OBVIOUS
  <2>2. /\ x \in Action /\ x.op \in Invertible /\ y.op = Opposite(x.op)
        /\ x.w = y.w /\ x.key = y.key
    BY <2>1 DEF MirroredFrom
  <2>3. p \in 1 .. n - 1 /\ q \in 1 .. n - 1 /\ p \in k .. n /\ q \in k .. n
    OBVIOUS
  <2>4. q = k + m + d /\ q + 1 = k + m + (d + 1) /\ p + 1 = k + m - d /\ p = k + m - (d + 1)
    OBVIOUS
  <2>5. Moves(x, t[p], v[p], v[p + 1]) /\ Moves(y, t[q], v[q], v[q + 1])
    BY <2>3 DEF Trace
  <2>6. t[p] = t[k] /\ t[q] = t[k]
    <3>1. n \in Nat /\ k \in 1 .. n
      OBVIOUS
    <3>2. \A j \in k .. n : t[j] = t[k]
      BY <3>1, StepStays DEF Steady
    <3> QED BY <2>3, <3>2
  <2>7. t[p] \in Int
    BY <2>3 DEF Trace
  <2> HIDE DEF p, q, i, n
  <2>8. v[q] = v[p + 1]
    BY <1>2, <2>4
  <2>9. x.op \in InPlaceOps /\ y.op \in InPlaceOps
    BY <2>2 DEF Invertible, InPlaceOps, zSCRIPTCOMMANDS, Opposite
  <2>10. x.w \in Width /\ x.key \in Int
    BY <2>2 DEF Action
  <2> HIDE DEF x, y
  <2>11. /\ v[p] \in Seq(Byte)
         /\ ShiftDefined(x.op, x.w, x.key, t[p], v[p])
         /\ v[p + 1] = InPlace(x.op, x.w, x.key, t[p], v[p])
    BY <2>5, <2>9 DEF Moves
  <2>12. v[q + 1] = InPlace(Opposite(x.op), x.w, x.key, t[p], v[p + 1])
    BY <2>2, <2>5, <2>6, <2>8, <2>9 DEF Moves
  <2>13. v[q + 1] = v[p]
    BY <2>2, <2>7, <2>10, <2>11, <2>12, InPlaceBack
  <2>14. d + 1 \in 0 .. m
    OBVIOUS
  <2> QED BY <2>4, <2>13, <2>14
<1> HIDE DEF T
<1>3. 0 .. m \subseteq T
  BY <1>1, <1>2, Upwards
<1>4. m \in T
  BY <1>3
<1>5. v[k + m + m] = v[k + m - m]
  BY <1>4 DEF T
<1>6. k + m + m = n /\ k + m - m = k
  OBVIOUS
<1> HIDE DEF n
<1>7. v[n] = b
  BY DEF Trace, n
<1> QED BY <1>5, <1>6, <1>7

\* A chain that undoes itself, behind one step or none, ends in its input.
LEMMA ChainBack ==
  ASSUME NEW chain \in Seq(Action), chain # <<>>, NEW first, NEW b, NEW s,
         Reached(Len(chain) + 1, chain, first, b, s),
         \A i \in 2 .. Len(chain) : chain[i].op \notin {"inc", "dec"},
         Mirrored(IF chain[1].op \in {"inc", "dec"} THEN Tail(chain) ELSE chain)
  PROVE  b = first
<1> DEFINE l == Len(chain)
           ahead == chain[1].op \in {"inc", "dec"}
           half == IF ahead THEN Tail(chain) ELSE chain
           k == IF ahead THEN 2 ELSE 1
           m == Len(half) \div 2
<1>1. PICK v, t : Trace(v, t, l + 1, chain, first, b, s)
  BY DEF Reached
<1>2. l \in Nat /\ l >= 1
  <2>1. l \in Nat /\ l # 0
    BY EmptySeq
  <2> QED BY <2>1
<1>3. /\ Len(half) \in Nat /\ l = Len(half) + k - 1
      /\ \A i \in 1 .. Len(half) : half[i] = chain[k + i - 1]
  BY <1>2
<1>4. /\ Len(half) % 2 = 0
      /\ \A i \in 1 .. m :
           LET x == half[i]
               y == half[Len(half) + 1 - i]
           IN  /\ x.op \in Invertible /\ y.op = Opposite(x.op)
               /\ x.w = y.w /\ x.key = y.key
  BY DEF Mirrored
<1> HIDE DEF half, l
<1>5. m \in Nat /\ Len(half) = 2 * m
  BY <1>3, <1>4
<1> HIDE DEF m
<1>6. k \in Nat /\ k >= 1 /\ l + 1 = k + 2 * m
  BY <1>2, <1>3, <1>5
<1>7. ASSUME NEW i \in 1 .. m
      PROVE  LET x == chain[k + i - 1]
                 y == chain[k + 2 * m - i]
             IN  /\ x \in Action /\ x.op \in Invertible /\ y.op = Opposite(x.op)
                 /\ x.w = y.w /\ x.key = y.key
  <2>1. i \in 1 .. Len(half) /\ Len(half) + 1 - i \in 1 .. Len(half)
    BY <1>5
  <2>2. half[i] = chain[k + i - 1] /\ half[Len(half) + 1 - i] = chain[k + (Len(half) + 1 - i) - 1]
    BY <1>3, <2>1
  <2>3. k + (Len(half) + 1 - i) - 1 = k + 2 * m - i
    BY <1>5, <1>6
  <2>4. chain[k + i - 1] \in Action
    <3>1. k + i - 1 \in 1 .. l
      <4> HIDE DEF k, ahead
      <4> QED BY <1>2, <1>5, <1>6
    <3> QED BY <3>1 DEF l
  <2> QED BY <1>4, <2>2, <2>3, <2>4
<1>8. Steady(chain, k, k + 2 * m - 1)
  <2>1. ASSUME NEW i \in k .. k + 2 * m - 1 PROVE chain[i].op \notin {"inc", "dec"}
    <3>0. k = 1 => ~ahead
      OBVIOUS
    <3>1. i \in 1 .. l /\ (i = 1 => ~ahead)
      <4> HIDE DEF k, ahead
      <4> QED BY <1>2, <1>5, <1>6, <3>0
    <3>2. CASE i = 1
      BY <3>1, <3>2
    <3>3. CASE i # 1
      <4>1. i \in 2 .. l
        BY <1>2, <3>1, <3>3
      <4> QED BY <4>1 DEF l
    <3> QED BY <3>2, <3>3
  <2> QED BY <2>1 DEF Steady
<1>9. v[k] = first
  <2>1. v[1] = first /\ 1 \in 1 .. (l + 1) - 1
    BY <1>1, <1>2 DEF Trace
  <2>2. CASE ahead
    <3>1. Moves(chain[1], t[1], v[1], v[1 + 1])
      BY <1>1, <2>1 DEF Trace
    <3>2. v[2] = v[1]
      BY <2>2, <3>1 DEF Moves
    <3> QED BY <2>1, <2>2, <3>2
  <2>3. CASE ~ahead
    BY <2>1, <2>3
  <2> QED BY <2>2, <2>3
<1>10. Trace(v, t, k + 2 * m, chain, first, b, s)
  BY <1>1, <1>6
<1> HIDE DEF k, ahead
<1>11. b = v[k]
  <2>1. MirroredFrom(chain, k, m)
    BY <1>7 DEF MirroredFrom
  <2> QED BY <1>5, <1>6, <1>8, <1>10, <2>1, MirrorBack
<1> QED BY <1>9, <1>11

\* What a search finds in the buffer, and prints, behind one operation and the
\* steps in front of it.
SearchAfter(chain, i) ==
  /\ i + 1 = Len(chain) /\ chain[i + 1].op \in Brutes
  /\ \A j \in 1 .. i - 1 : chain[j].op \in {"inc", "dec"}
  /\ chain[i].w = chain[i + 1].w
  /\ chain[i].op \in {"xor", "rol", "ror"}
  /\ Searched(chain[i + 1]) = Opposite(chain[i].op)
  /\ chain[i].op = "xor" => chain[i].key % 256 ^ chain[i].w # 0

LEMMA ChainFound ==
  ASSUME NEW chain \in Seq(Action), NEW i \in DOMAIN chain, SearchAfter(chain, i),
         NEW first \in Seq(Byte), first # <<>>, NEW b, NEW s,
         Reached(i + 1, chain, first, b, s),
         \A key \in Keys(chain[i + 1]) :
           ShiftDefined(Searched(chain[i + 1]), chain[i + 1].w, key, s, b)
  PROVE  b # <<>> /\ \E key \in Keys(chain[i + 1]) :
                        InPlace(Searched(chain[i + 1]), chain[i + 1].w, key, s, b) = first
<1> DEFINE x == chain[i]
           y == chain[i + 1]
<1>1. PICK v, t : Trace(v, t, i + 1, chain, first, b, s)
  BY DEF Reached
<1>2. i \in Nat /\ i >= 1 /\ i \in 1 .. (i + 1) - 1 /\ i + 1 \in Nat
  OBVIOUS
<1>3. \A j \in 1 .. i : t[j + 1] = StepTo(chain[j], t[j]) /\ Moves(chain[j], t[j], v[j], v[j + 1])
  BY <1>1, <1>2 DEF Trace
<1>4. v[1] = first /\ v[i + 1] = b /\ t[i + 1] = s /\ t[i] \in Int
  BY <1>1, <1>2 DEF Trace
<1>5. v[i] = first
  <2> DEFINE T == {j \in 1 .. i : v[j] = first}
  <2>1. 1 \in T
    BY <1>2, <1>4
  <2>2. ASSUME NEW j \in 1 .. i - 1, j \in T PROVE j + 1 \in T
    <3>1. j \in 1 .. i /\ j + 1 \in 1 .. i
      OBVIOUS
    <3>2. chain[j].op \in {"inc", "dec"}
      BY DEF SearchAfter
    <3>3. v[j + 1] = v[j]
      BY <1>3, <3>1, <3>2 DEF Moves
    <3> QED BY <2>2, <3>1, <3>3
  <2> HIDE DEF T
  <2>3. 1 .. i \subseteq T
    <3>1. 1 \in Int /\ i \in Int /\ 1 <= i
      BY <1>2
    <3>2. \A j \in 1 .. i - 1 : j \in T => j + 1 \in T
      BY <2>2
    <3> QED BY <2>1, <3>1, <3>2, Upwards
  <2> QED BY <1>2, <2>3 DEF T
<1>6. x \in Action /\ x.w \in Width /\ x.key \in Int
  <2>1. x \in Action
    OBVIOUS
  <2> HIDE DEF x
  <2> QED BY <2>1 DEF Action
<1>7. /\ y.op \in Brutes /\ x.w = y.w /\ x.op \in {"xor", "rol", "ror"}
      /\ Searched(y) = Opposite(x.op)
      /\ x.op = "xor" => x.key % 256 ^ x.w # 0
  BY DEF SearchAfter
<1>8. (y.op = "xorbrute") <=> (x.op = "xor")
  <2>1. CASE y.op = "xorbrute"
    BY <1>7, <2>1 DEF Searched, Opposite
  <2>2. CASE y.op = "rolbrute"
    BY <1>7, <2>2 DEF Searched, Opposite
  <2>3. CASE y.op = "rorbrute"
    BY <1>7, <2>3 DEF Searched, Opposite
  <2>4. CASE y.op = "shlbrute"
    BY <1>7, <2>4 DEF Searched, Opposite
  <2>5. CASE y.op = "shrbrute"
    BY <1>7, <2>5 DEF Searched, Opposite
  <2> QED BY <1>7, <2>1, <2>2, <2>3, <2>4, <2>5 DEF Brutes
<1>9. t[i + 1] = t[i] /\ Moves(x, t[i], first, b)
  <2>1. t[i + 1] = StepTo(x, t[i]) /\ Moves(x, t[i], first, b)
    BY <1>2, <1>3, <1>4, <1>5
  <2> HIDE DEF x
  <2>2. StepTo(x, t[i]) = t[i]
    BY <1>7 DEF StepTo
  <2> QED BY <2>1, <2>2
<1> HIDE DEF x, y
<1>10. x.op \in InPlaceOps
  BY <1>7 DEF InPlaceOps, zSCRIPTCOMMANDS
<1>11. ShiftDefined(x.op, x.w, x.key, s, first) /\ b = InPlace(x.op, x.w, x.key, s, first)
  BY <1>4, <1>9, <1>10 DEF Moves
<1>12. s \in Int
  BY <1>4, <1>9
<1>13. b # <<>>
  <2>1. Len(b) = Len(first)
    BY <1>6, <1>11, <1>12, InPlaceIs
  <2>2. Len(first) # 0
    BY EmptySeq
  <2> QED BY <2>1, <2>2
<1>14. \A key \in Keys(y) : ShiftDefined(Searched(y), y.w, key, s, b)
  BY DEF y
<1>15. \E key \in Keys(y) : InPlace(Searched(y), x.w, key, s, b) = first
  BY <1>6, <1>7, <1>8, <1>11, <1>12, <1>14, SearchFinds
<1> QED BY <1>7, <1>13, <1>15 DEF y

-----------------------------------------------------------------------------
(***************************************************************************)
(* The inductive invariant.  TypeInv says of each variable what it is;     *)
(* ReachInv that the actions before at have led from the input to the      *)
(* buffer; ShownInv what a search has left; EmptyInv where a buffer        *)
(* without a byte, or with a single one, comes from.                       *)
(***************************************************************************)
States  == {"options", "run", "output"} \cup Ended
Started == {"run", "output", "done", "crashed"}

TypeInv ==
  /\ args \in Seq(Argument) /\ actions \in Seq(Action) /\ file \in Seq(Byte)
  /\ inpname \in BOOLEAN /\ outname \in BOOLEAN /\ isok \in BOOLEAN
  /\ pc \in States
  /\ at \in 1 .. Len(actions) + 1
  /\ b0 \in Buffer /\ written \in Buffer
  /\ step \in Int

FreshInv == pc = "options" => at = 1 /\ b0 = NULL /\ step = 0

ReachInv == pc \in Started => file # <<>> /\ Reached(at, actions, file, b0, step)

Searches(x, s, b) == \A key \in Keys(x) : ShiftDefined(Searched(x), x.w, key, s, b)

ShownInv ==
  pc \in {"output", "done"} /\ at <= Len(actions) =>
    /\ actions[at].op \in Brutes
    /\ b0 # NULL
    /\ Searches(actions[at], step, b0)
    /\ shown = IF b0 = <<>> THEN {} ELSE Solutions(actions[at], b0)

\* The last codec before the action at i is one of ops; or the action finds a
\* single byte at most.
FedBy(ops, i) == \E j \in DOMAIN actions : Feeds(j, i) /\ actions[j].op \in ops
FedShort(i)   == FedBy(Short, i) \/ (First(i) /\ Len(file) = 1)

Lacking(i) ==
  /\ actions[i].op \in Codings
  /\ \/ actions[i].op \in Ciphers /\ actions[i].text = <<>>
     \/ FedBy(Emptying, i)
     \/ actions[i].op \in Narrow /\ FedShort(i)

Lacks == \E i \in DOMAIN actions : Lacking(i)

\* Where the buffers of no byte, and those of a single one, come from.
Fed(b, i) ==
  /\ b = NULL => Lacks
  /\ b = <<>> => FedBy(Emptying, i)
  /\ b # NULL /\ Len(b) = 1 => FedShort(i)

EmptyInv ==
  /\ pc \in Started => Fed(b0, at)
  /\ pc = "crashed" => Lacks

IInv == TypeInv /\ FreshInv /\ ReachInv /\ ShownInv /\ EmptyInv

LEMMA LacksSame ==
  ASSUME UNCHANGED <<actions, file>>
  PROVE  /\ \A b, i : Fed(b, i)' <=> Fed(b', i')
         /\ Lacks' <=> Lacks
BY DEF Fed, FedBy, FedShort, Feeds, First, Lacks, Lacking

\* What an action that is no codec finds, the next one finds.
LEMMA FedOn ==
  ASSUME NEW i \in Nat, i >= 1, actions[i].op \notin Codings
  PROVE  /\ \A ops : FedBy(ops, i) => FedBy(ops, i + 1)
         /\ FedShort(i) => FedShort(i + 1)
<1>1. ASSUME NEW j \in DOMAIN actions, Feeds(j, i) PROVE Feeds(j, i + 1)
  <2>1. /\ j \in 1 .. i - 1 /\ actions[j].op \in Codings
        /\ \A k \in j + 1 .. i - 1 : actions[k].op \notin Codings
    BY <1>1 DEF Feeds
  <2>2. \A k \in j + 1 .. (i + 1) - 1 : k \in j + 1 .. i - 1 \/ k = i
    BY <2>1
  <2>3. j \in 1 .. (i + 1) - 1
    BY <2>1
  <2> QED BY <2>1, <2>2, <2>3 DEF Feeds
<1>2. First(i) => First(i + 1)
  <2>1. \A k \in 1 .. (i + 1) - 1 : k \in 1 .. i - 1 \/ k = i
    OBVIOUS
  <2> QED BY <2>1 DEF First
<1>3. \A ops : FedBy(ops, i) => FedBy(ops, i + 1)
  BY <1>1 DEF FedBy
<1> QED BY <1>2, <1>3 DEF FedShort

LEMMA FedNext ==
  ASSUME NEW i \in Nat, i >= 1, i \in DOMAIN actions, actions[i].op \in Codings, NEW ops, actions[i].op \in ops
  PROVE  FedBy(ops, i + 1)
<1>1. i \in 1 .. (i + 1) - 1 /\ \A k \in i + 1 .. (i + 1) - 1 : FALSE
  OBVIOUS
<1>2. Feeds(i, i + 1)
  BY <1>1 DEF Feeds
<1> QED BY <1>2 DEF FedBy

LEMMA OpKinds ==
  ASSUME NEW op
  PROVE  /\ op \in Codings => op \notin Brutes /\ op \notin {"inc", "dec"} /\ op \notin InPlaceOps
         /\ op \in InPlaceOps => op \notin Brutes /\ op \notin {"inc", "dec"}
         /\ op \in {"inc", "dec"} => op \notin Brutes /\ op \notin InPlaceOps
BY DEF Codings, Encoders, Decoders, Ciphers, Brutes, InPlaceOps, zSCRIPTCOMMANDS

LEMMA InitHolds == Init => IInv
<1> SUFFICES ASSUME Init PROVE IInv
  OBVIOUS
<1>1. args \in Seq(Argument) /\ file \in Seq(Byte)
  BY CommandLinesAssumption, InputsAssumption DEF Init
<1>2. actions \in Seq(Action) /\ Len(actions) = 0
  BY DEF Init
<1>3. TypeInv
  <2>1. at \in 1 .. Len(actions) + 1 /\ step \in Int
    BY <1>2 DEF Init
  <2>2. NULL \in Buffer
    BY DEF Buffer
  <2>3. pc \in States
    BY DEF Init, States
  <2> QED BY <1>1, <1>2, <2>1, <2>2, <2>3 DEF Init, TypeInv
<1> QED BY <1>3 DEF Init, IInv, FreshInv, ReachInv, ShownInv, EmptyInv, Started

\* One argument: the chain grows, and nothing else of what the run needs changes.
LEMMA ArgumentKeeps ==
  ASSUME IInv, ScriptArgument \/ LinesArgument \/ OutputArgument \/ NameArgument
  PROVE  IInv'
<1>1. args # <<>> /\ args \in Seq(Argument) /\ actions \in Seq(Action) /\ pc = "options"
      /\ args' = Tail(args)
  BY DEF IInv, TypeInv, ScriptArgument, LinesArgument, OutputArgument, NameArgument, NextArgument
<1>2. args' \in Seq(Argument) /\ Head(args) \in Argument
  BY <1>1
<1>3. pc' \in {"options", "refused"} /\ inpname' \in BOOLEAN /\ outname' \in BOOLEAN
  BY <1>1 DEF IInv, TypeInv, ScriptArgument, LinesArgument, OutputArgument, NameArgument
<1>4. actions' \in Seq(Action)
  <2>1. CASE ScriptArgument
    <3>1. PICK n \in Leftovers : actions' = actions \o sprocess(Head(args), n)
      BY <2>1 DEF ScriptArgument, Insert
    <3>2. Head(args).commands \in Commands
      <4>1. Head(args).kind = "script"
        BY <2>1 DEF ScriptArgument
      <4>2. Head(args) \in [kind : {"script"}, commands : Commands, closed : BOOLEAN]
        BY <1>2, <4>1 DEF Argument
      <4> QED BY <4>2
    <3>3. n \in Seq(Byte)
      BY LeftoversAssumption
    <3>4. sprocess(Head(args), n) \in Seq(Action)
      BY <3>2, <3>3, sprocessIs
    <3> QED BY <1>1, <3>1, <3>4, ConcatProperties
  <2>2. CASE LinesArgument
    <3>1. PICK n \in Leftovers : actions' = actions \o ScriptFile(Head(args).lines, n)
      BY <2>2 DEF LinesArgument, Insert
    <3>2. Head(args).lines \in Seq(FileLine)
      <4>1. Head(args).kind = "lines"
        BY <2>2 DEF LinesArgument
      <4>2. Head(args) \in [kind : {"lines"}, lines : Seq(FileLine)]
        BY <1>2, <4>1 DEF Argument
      <4> QED BY <4>2
    <3>3. n \in Seq(Byte)
      BY LeftoversAssumption
    <3>4. ScriptFile(Head(args).lines, n) \in Seq(Action)
      BY <3>2, <3>3, ScriptFileIs
    <3> QED BY <1>1, <3>1, <3>4, ConcatProperties
  <2>3. CASE OutputArgument \/ NameArgument
    BY <1>1, <2>3 DEF OutputArgument, NameArgument
  <2> QED BY <2>1, <2>2, <2>3
<1>5. UNCHANGED <<file, at, b0, step, isok, shown, written>>
  BY DEF ScriptArgument, LinesArgument, OutputArgument, NameArgument, Rest1
<1>6. at = 1 /\ b0 = NULL /\ step = 0
  BY <1>1 DEF IInv, FreshInv
<1>7. TypeInv'
  <2>1. at' \in 1 .. Len(actions') + 1
    BY <1>4, <1>5, <1>6
  <2>2. pc' \in States
    BY <1>3 DEF States, Ended
  <2> QED BY <1>2, <1>3, <1>4, <1>5, <2>1, <2>2 DEF IInv, TypeInv
<1>8. pc' \notin Started /\ pc' \notin {"output", "done"} /\ pc' # "crashed"
  BY <1>3 DEF Started
<1> QED BY <1>5, <1>6, <1>7, <1>8 DEF IInv, FreshInv, ReachInv, ShownInv, EmptyInv

LEMMA OpenKeeps ==
  ASSUME IInv, Open
  PROVE  IInv'
<1>1. /\ args \in Seq(Argument) /\ actions \in Seq(Action) /\ file \in Seq(Byte)
      /\ at = 1 /\ b0 = NULL /\ step = 0
  BY DEF IInv, TypeInv, FreshInv, Open
<1>2. UNCHANGED <<args, inpname, outname, actions, file, at, step, isok, shown, written>>
  BY DEF Open
<1>3. CASE pc' = "run" /\ b0' = file /\ file # <<>>
  <2>1. file \in Buffer /\ file # NULL
    BY <1>1, NULLAssumption DEF Buffer
  <2>2. TypeInv'
    BY <1>2, <1>3, <2>1 DEF IInv, TypeInv, States
  <2>3. Reached(1, actions, file, file, 0)
    BY <1>1, ReachedFirst
  <2>4. ReachInv'
    BY <1>1, <1>2, <1>3, <2>3 DEF ReachInv
  <2>5. Fed(file, 1)
    <3>1. First(1)
      BY DEF First
    <3> QED BY <1>3, <2>1, <3>1 DEF Fed, FedShort
  <2>6. EmptyInv'
    BY <1>1, <1>2, <1>3, <2>5, LacksSame DEF EmptyInv
  <2> QED BY <1>2, <1>3, <2>1, <2>2, <2>4, <2>6 DEF IInv, FreshInv, ShownInv
<1>4. CASE pc' = "idle" /\ b0' = b0
  <2>1. TypeInv'
    BY <1>2, <1>4 DEF IInv, TypeInv, States, Ended
  <2> QED BY <1>4, <2>1 DEF IInv, FreshInv, ReachInv, ShownInv, EmptyInv, Started
<1> QED BY <1>3, <1>4 DEF Open

LEMMA CrashKeeps ==
  ASSUME IInv, Crash
  PROVE  IInv'
<1>1. pc = "run" /\ b0 = NULL /\ pc' = "crashed" /\ UNCHANGED <<at, b0, step, isok, shown>>
  BY DEF Crash, Running
<1>2. UNCHANGED <<args, inpname, outname, actions, file, written>>
  BY DEF Crash, Same
<1>3. Fed(b0, at) /\ Lacks
  BY <1>1 DEF IInv, EmptyInv, Started, Fed
<1>6. EmptyInv'
  BY <1>1, <1>2, <1>3, LacksSame DEF EmptyInv
<1>4. TypeInv'
  BY <1>1, <1>2 DEF IInv, TypeInv, States, Ended
<1>5. ReachInv'
  BY <1>1, <1>2 DEF IInv, ReachInv, Started
<1> QED BY <1>1, <1>2, <1>4, <1>5, <1>6 DEF IInv, FreshInv, ShownInv

\* One turn of the loop that leaves the buffer to and the step up behind.
LEMMA TurnReached ==
  ASSUME IInv, pc = "run", at <= Len(actions),
         NEW to \in Buffer, NEW up \in Int,
         up = StepTo(actions[at], step), Moves(actions[at], step, b0, to)
  PROVE  Reached(at + 1, actions, file, to, up)
<1>1. Reached(at, actions, file, b0, step)
  BY DEF IInv, ReachInv, Started
<1>2. at \in Nat /\ at >= 1
  BY DEF IInv, TypeInv
<1> QED BY <1>1, <1>2, ReachedNext

LEMMA AtAction ==
  ASSUME IInv, pc = "run", at <= Len(actions)
  PROVE  at \in DOMAIN actions /\ actions[at] \in Action /\ at + 1 \in 1 .. Len(actions) + 1
<1>1. actions \in Seq(Action) /\ at \in 1 .. Len(actions) + 1
  BY DEF IInv, TypeInv
<1> QED BY <1>1

\* A turn that does not leave the loop.
Turns == pc = "run" /\ pc' = "run" /\ at <= Len(actions) /\ at' = at + 1

LEMMA TurnKeeps ==
  ASSUME IInv, Turns, b0' \in Buffer, step' \in Int, UNCHANGED <<isok, shown>>, Same,
         Reached(at + 1, actions, file, b0', step'),
         Fed(b0', at + 1)
  PROVE  IInv'
<1>1. UNCHANGED <<args, inpname, outname, actions, file, written>>
  BY DEF Same
<1>2. at' = at + 1 /\ pc' = "run" /\ pc = "run" /\ at + 1 \in 1 .. Len(actions) + 1
  BY AtAction DEF Turns
<1>3. TypeInv'
  BY <1>1, <1>2 DEF IInv, TypeInv
<1>4. ReachInv'
  BY <1>1, <1>2 DEF IInv, ReachInv, Started
<1>5. EmptyInv'
  BY <1>1, <1>2, LacksSame DEF EmptyInv
<1> QED BY <1>1, <1>2, <1>3, <1>4, <1>5 DEF IInv, FreshInv, ShownInv

LEMMA SwapKeeps ==
  ASSUME IInv, Swap
  PROVE  IInv'
<1> DEFINE x == actions[at]
<1>1. /\ pc = "run" /\ at <= Len(actions) /\ x.op \in Codings /\ b0 # NULL
      /\ pc' = pc /\ at' = at + 1
      /\ UNCHANGED <<isok, shown>> /\ Same /\ step' = step
      /\ b0' = IF HasResult(x, b0) THEN Coded(x, b0) ELSE NULL
  BY DEF Swap, Running, Codings
<1>2. at \in DOMAIN actions /\ x \in Action
  BY <1>1, AtAction
<1> HIDE DEF x
<1>3. b0 \in Seq(Byte) /\ step \in Int
  BY <1>1 DEF IInv, TypeInv, Buffer
<1>4. ASSUME HasResult(x, b0)
      PROVE  /\ Coded(x, b0) \in Seq(Byte)
             /\ x.op \notin Emptying => Coded(x, b0) # <<>>
             /\ x.op \notin Short => Len(Coded(x, b0)) >= 2
  BY <1>1, <1>2, <1>3, <1>4, CodedIs
<1>5. b0' \in Buffer
  BY <1>1, <1>4 DEF Buffer
<1>6. step' = StepTo(x, step) /\ Moves(x, step, b0, b0')
  BY <1>1, OpKinds DEF StepTo, Moves, CodedTo
<1>7. Reached(at + 1, actions, file, b0', step')
  BY <1>1, <1>3, <1>5, <1>6, TurnReached DEF x
<1>8. Fed(b0', at + 1)
  <2>0. at \in Nat /\ at >= 1 /\ Fed(b0, at)
    BY <1>1 DEF IInv, TypeInv, EmptyInv, Started
  <2>1. CASE HasResult(x, b0)
    <3>1. b0' = Coded(x, b0) /\ b0' \in Seq(Byte) /\ b0' # NULL
      BY <1>1, <1>4, <2>1, NULLAssumption
    <3>2. ASSUME b0' = <<>> PROVE FedBy(Emptying, at + 1)
      <4>1. x.op \in Emptying
        BY <1>4, <2>1, <3>1, <3>2
      <4> QED BY <1>1, <1>2, <2>0, <4>1, FedNext DEF x
    <3>3. ASSUME Len(b0') = 1 PROVE FedShort(at + 1)
      <4>1. x.op \in Short
        BY <1>4, <2>1, <3>1, <3>3
      <4>2. FedBy(Short, at + 1)
        BY <1>1, <1>2, <2>0, <4>1, FedNext DEF x
      <4> QED BY <4>2 DEF FedShort
    <3> QED BY <3>1, <3>2, <3>3 DEF Fed
  <2>2. CASE ~HasResult(x, b0)
    <3>1. b0' = NULL /\ NULL # <<>>
      <4>1. <<>> \in Seq(Byte)
        OBVIOUS
      <4> QED BY <1>1, <2>2, <4>1, NULLAssumption
    <3>2. \/ b0 = <<>>
          \/ x.op \in Ciphers /\ x.text = <<>>
          \/ x.op \in Narrow /\ ~(Len(b0) > 1)
      BY <2>2 DEF HasResult
    <3>3. CASE b0 = <<>>
      <4>1. FedBy(Emptying, at)
        BY <2>0, <3>3 DEF Fed
      <4> QED BY <1>1, <1>2, <3>1, <4>1 DEF Fed, Lacks, Lacking, x
    <3>4. CASE x.op \in Ciphers /\ x.text = <<>>
      BY <1>1, <1>2, <3>1, <3>4 DEF Fed, Lacks, Lacking, x
    <3>5. CASE x.op \in Narrow /\ ~(Len(b0) > 1) /\ b0 # <<>>
      <4>1. Len(b0) = 1
        <5>1. Len(b0) >= 1 /\ Len(b0) \in Nat
          BY <1>3, <3>5, LenAtLeastOne
        <5> DEFINE l == Len(b0)
        <5>2. l >= 1 /\ l \in Nat /\ ~(l > 1)
          BY <3>5, <5>1
        <5> HIDE DEF l
        <5>3. l = 1
          BY <5>2
        <5> QED BY <5>3 DEF l
      <4>2. FedShort(at)
        BY <1>1, <2>0, <4>1 DEF Fed
      <4> QED BY <1>1, <1>2, <3>1, <3>5, <4>2 DEF Fed, Lacks, Lacking, x
    <3> QED BY <3>2, <3>3, <3>4, <3>5
  <2> QED BY <2>1, <2>2
<1>9. Turns
  BY <1>1 DEF Turns
<1> QED BY <1>1, <1>3, <1>5, <1>7, <1>8, <1>9, TurnKeeps

LEMMA SetStepKeeps ==
  ASSUME IInv, SetStep
  PROVE  IInv'
<1> DEFINE x == actions[at]
<1>1. /\ pc = "run" /\ at <= Len(actions) /\ x.op \in {"inc", "dec"}
      /\ pc' = pc /\ at' = at + 1
      /\ UNCHANGED <<isok, shown>> /\ Same /\ b0' = b0
      /\ step' = IF x.op = "inc" THEN x.key ELSE -x.key
  BY DEF SetStep, Running
<1>2. at \in DOMAIN actions /\ x \in Action
  BY <1>1, AtAction
<1> HIDE DEF x
<1>3. b0' \in Buffer /\ x.key \in Int
  BY <1>1, <1>2 DEF IInv, TypeInv, Action
<1>4. step' \in Int
  BY <1>1, <1>3
<1>5. step' = StepTo(x, step) /\ Moves(x, step, b0, b0')
  BY <1>1, OpKinds DEF StepTo, Moves
<1>6. Reached(at + 1, actions, file, b0', step')
  BY <1>1, <1>3, <1>4, <1>5, TurnReached DEF x
<1>7. Fed(b0', at + 1)
  <2>1. at \in Nat /\ at >= 1 /\ Fed(b0, at)
    BY <1>1 DEF IInv, TypeInv, EmptyInv, Started
  <2>2. actions[at].op \notin Codings
    BY <1>1, OpKinds DEF x
  <2> QED BY <1>1, <2>1, <2>2, FedOn DEF Fed
<1>8. Turns
  BY <1>1 DEF Turns
<1> QED BY <1>1, <1>3, <1>4, <1>6, <1>7, <1>8, TurnKeeps

LEMMA ChangeKeeps ==
  ASSUME IInv, Change
  PROVE  IInv'
<1> DEFINE x == actions[at]
           b == InPlace(x.op, x.w, x.key, step, b0)
<1>1. /\ pc = "run" /\ at <= Len(actions) /\ x.op \in InPlaceOps /\ b0 # NULL
      /\ pc' = pc /\ at' = at + 1
      /\ UNCHANGED <<isok, shown>> /\ Same /\ step' = step
      /\ ShiftDefined(x.op, x.w, x.key, step, b0)
      /\ b0' = b
  BY DEF Change, Running, InPlaceOps
<1>2. at \in DOMAIN actions /\ x \in Action
  BY <1>1, AtAction
<1> HIDE DEF x
<1>3. b0 \in Seq(Byte) /\ step \in Int /\ x.w \in Width /\ x.key \in Int
  BY <1>1, <1>2 DEF IInv, TypeInv, Buffer, Action
<1>4. b \in Seq(Byte) /\ Len(b) = Len(b0)
  BY <1>3, InPlaceIs
<1>5. step' = StepTo(x, step) /\ Moves(x, step, b0, b0')
  BY <1>1, <1>3, OpKinds DEF StepTo, Moves
<1> HIDE DEF b
<1>6. b0' \in Buffer
  BY <1>1, <1>4 DEF Buffer
<1>7. Reached(at + 1, actions, file, b0', step')
  BY <1>1, <1>3, <1>5, <1>6, TurnReached DEF x
<1>8. Fed(b0', at + 1)
  <2>1. at \in Nat /\ at >= 1 /\ Fed(b0, at)
    BY <1>1 DEF IInv, TypeInv, EmptyInv, Started
  <2>2. actions[at].op \notin Codings
    BY <1>1, OpKinds DEF x
  <2>3. b0' # NULL /\ b0' \in Seq(Byte) /\ Len(b0') = Len(b0)
    BY <1>1, <1>4, NULLAssumption
  <2>4. b0' = <<>> => b0 = <<>>
    <3>1. ASSUME b0' = <<>> PROVE Len(b0) = 0
      BY <2>3, <3>1
    <3> QED BY <1>3, <3>1, EmptySeq
  <2> QED BY <1>1, <2>1, <2>2, <2>3, <2>4, FedOn DEF Fed
<1>9. Turns
  BY <1>1 DEF Turns
<1> QED BY <1>1, <1>3, <1>6, <1>7, <1>8, <1>9, TurnKeeps

LEMMA BruteKeeps ==
  ASSUME IInv, Brute
  PROVE  IInv'
<1>1. /\ pc = "run" /\ at <= Len(actions) /\ actions[at].op \in Brutes /\ b0 # NULL
      /\ pc' = "output" /\ UNCHANGED <<at, b0, step>> /\ isok' = FALSE
      /\ UNCHANGED <<args, inpname, outname, actions, file, written>>
  BY DEF Brute, Running, Same
<1>2. /\ Keys(actions[at]) \subseteq
           {key \in Nat : ShiftDefined(Searched(actions[at]), actions[at].w, key, step, b0)}
      /\ shown' = IF b0 = <<>> THEN {} ELSE Solutions(actions[at], b0)
  BY DEF Brute
<1>3. Searches(actions[at], step, b0)
  BY <1>2 DEF Searches
<1>4. Solutions(actions[at], b0)' = Solutions(actions[at], b0)
  BY <1>1 DEF Solutions
<1>5. ShownInv'
  BY <1>1, <1>2, <1>3, <1>4 DEF ShownInv
<1>6. TypeInv'
  BY <1>1 DEF IInv, TypeInv, States
<1>7. ReachInv'
  BY <1>1 DEF IInv, ReachInv, Started
<1>8. EmptyInv'
  BY <1>1, LacksSame DEF IInv, EmptyInv, Started
<1> QED BY <1>1, <1>5, <1>6, <1>7, <1>8 DEF IInv, FreshInv

LEMMA LoopEndsKeeps ==
  ASSUME IInv, LoopEnds
  PROVE  IInv'
<1>1. /\ pc = "run" /\ at > Len(actions) /\ pc' = "output"
      /\ UNCHANGED <<at, b0, step, isok, shown>>
      /\ UNCHANGED <<args, inpname, outname, actions, file, written>>
  BY DEF LoopEnds, Same
<1>2. TypeInv'
  BY <1>1 DEF IInv, TypeInv, States
<1>3. ReachInv'
  BY <1>1 DEF IInv, ReachInv, Started
<1>4. EmptyInv'
  BY <1>1, LacksSame DEF IInv, EmptyInv, Started
<1>5. ShownInv'
  <2>1. at \in Int /\ Len(actions) \in Int
    BY DEF IInv, TypeInv
  <2>2. ~(at <= Len(actions))
    BY <1>1, <2>1
  <2> QED BY <1>1, <2>2 DEF ShownInv
<1> QED BY <1>1, <1>2, <1>3, <1>4, <1>5 DEF IInv, FreshInv

LEMMA OutputKeeps ==
  ASSUME IInv, Output
  PROVE  IInv'
<1>1. /\ pc = "output"
      /\ pc' = IF b0 = NULL /\ (outname \/ isok) THEN "crashed" ELSE "done"
      /\ written' = IF outname THEN b0 ELSE NULL
      /\ UNCHANGED <<args, inpname, outname, actions, file, at, b0, step, isok, shown>>
  BY DEF Output
<1>2. TypeInv'
  <2>1. written' \in Buffer
    BY <1>1 DEF IInv, TypeInv, Buffer
  <2>2. pc' \in States
    BY <1>1 DEF States, Ended
  <2> QED BY <1>1, <2>1, <2>2 DEF IInv, TypeInv
<1>3. ReachInv'
  BY <1>1 DEF IInv, ReachInv, Started
<1>4. EmptyInv'
  <2>1. Fed(b0, at) /\ (b0 = NULL => Lacks)
    BY <1>1 DEF IInv, EmptyInv, Started, Fed
  <2> QED BY <1>1, <2>1, LacksSame DEF EmptyInv
<1>5. ShownInv'
  <2>1. Solutions(actions[at], b0)' = Solutions(actions[at], b0)
    BY <1>1 DEF Solutions
  <2> QED BY <1>1, <2>1 DEF IInv, ShownInv
<1> QED BY <1>1, <1>2, <1>3, <1>4, <1>5 DEF IInv, FreshInv

LEMMA NothingKeeps ==
  ASSUME IInv, UNCHANGED vars
  PROVE  IInv'
<1>1. UNCHANGED <<args, inpname, outname, actions, file, pc, at, b0, step, isok, shown, written>>
  BY DEF vars
<1>2. Solutions(actions[at], b0)' = Solutions(actions[at], b0)
  BY <1>1 DEF Solutions
<1>3. TypeInv'
  BY <1>1 DEF IInv, TypeInv
<1>4. ShownInv'
  BY <1>1, <1>2 DEF IInv, ShownInv
<1>5. EmptyInv'
  BY <1>1, LacksSame DEF IInv, EmptyInv
<1> QED BY <1>1, <1>3, <1>4, <1>5 DEF IInv, FreshInv, ReachInv

LEMMA NextKeeps == IInv /\ [Next]_vars => IInv'
<1> SUFFICES ASSUME IInv, [Next]_vars PROVE IInv'
  OBVIOUS
<1>1. CASE ScriptArgument \/ LinesArgument \/ OutputArgument \/ NameArgument
  BY <1>1, ArgumentKeeps
<1>2. CASE Open
  BY <1>2, OpenKeeps
<1>3. CASE Crash
  BY <1>3, CrashKeeps
<1>4. CASE Swap
  BY <1>4, SwapKeeps
<1>5. CASE Brute
  BY <1>5, BruteKeeps
<1>6. CASE SetStep
  BY <1>6, SetStepKeeps
<1>7. CASE Change
  BY <1>7, ChangeKeeps
<1>8. CASE LoopEnds
  BY <1>8, LoopEndsKeeps
<1>9. CASE Output
  BY <1>9, OutputKeeps
<1>10. CASE Stop \/ UNCHANGED vars
  BY <1>10, NothingKeeps DEF Stop
<1> QED BY <1>1, <1>2, <1>3, <1>4, <1>5, <1>6, <1>7, <1>8, <1>9, <1>10 DEF Next

THEOREM Inductive == Spec => []IInv
<1>1. Init => IInv
  BY InitHolds
<1>2. IInv /\ [Next]_vars => IInv'
  BY NextKeeps
<1> QED BY <1>1, <1>2, PTL DEF Spec

-----------------------------------------------------------------------------
(***************************************************************************)
(* Where the parts of a text are.                                          *)
(***************************************************************************)
\* What two sequences in a row hold.
LEMMA InARow ==
  ASSUME NEW S, NEW a \in Seq(S), NEW b \in Seq(S)
  PROVE  /\ Len(a) \in Nat /\ Len(b) \in Nat /\ Len(a \o b) = Len(a) + Len(b)
         /\ \A p \in 1 .. Len(a) : p \in 1 .. Len(a \o b) /\ (a \o b)[p] = a[p]
         /\ \A j \in 1 .. Len(b) : Len(a) + j \in 1 .. Len(a \o b) /\ (a \o b)[Len(a) + j] = b[j]
OBVIOUS

\* Where each part of a flattened sequence is.
Laid(loc, seqs, t) ==
  /\ loc \in [0 .. Len(seqs) -> Nat] /\ loc[0] = 0 /\ loc[Len(seqs)] = Len(t)
  /\ \A i \in 1 .. Len(seqs) : /\ loc[i] = loc[i - 1] + Len(seqs[i])
                               /\ \A j \in 1 .. Len(seqs[i]) : t[loc[i - 1] + j] = seqs[i][j]

LEMMA FlattenLaid ==
  ASSUME NEW S, NEW seqs \in Seq(Seq(S))
  PROVE  \E loc : Laid(loc, seqs, FlattenSeq(seqs))
<1> DEFINE n == Len(seqs)
<1>1. n \in Nat /\ \A i \in 1 .. n : seqs[i] \in Seq(S) /\ Len(seqs[i]) \in Nat
  OBVIOUS
<1>2. PICK f : Flattens(f, S, seqs)
  BY FlattenWalk
<1>3. /\ f \in [0 .. n -> Seq(S)] /\ f[0] = <<>> /\ f[n] = FlattenSeq(seqs)
      /\ \A i \in 1 .. n : f[i] = f[i - 1] \o seqs[i] /\ Len(f[i]) = Len(f[i - 1]) + Len(seqs[i])
  BY <1>2 DEF Flattens
<1> DEFINE loc == [i \in 0 .. n |-> Len(f[i])]
<1>4. loc \in [0 .. n -> Nat] /\ loc[0] = 0 /\ loc[n] = Len(f[n])
  BY <1>1, <1>3
<1> HIDE DEF n
<1>41. \A i \in 1 .. n : i - 1 \in 0 .. n /\ i \in 0 .. n
  BY <1>1
<1>5. \A i \in 1 .. n : loc[i] = loc[i - 1] + Len(seqs[i])
  BY <1>3, <1>41
\* A sequence begins with what was put together first.
<1> DEFINE Kept(k) == \A p \in 1 .. Len(f[k]) : f[n][p] = f[k][p]
           T == {d \in 0 .. n : Kept(n - d)}
<1>6. 0 <= n => 0 \in T
  BY <1>1
<1>7. ASSUME NEW d \in 0 .. n - 1, d \in T PROVE d + 1 \in T
  <2>1. n - d \in 1 .. n /\ d + 1 \in 0 .. n /\ n - (d + 1) = (n - d) - 1 /\ n - (d + 1) \in 0 .. n
    BY <1>1
  <2>2. Kept(n - d)
    BY <1>7
  <2> DEFINE k == n - d
  <2>3. k \in 1 .. n /\ f[k] = f[k - 1] \o seqs[k] /\ f[k - 1] \in Seq(S) /\ seqs[k] \in Seq(S)
    BY <1>1, <1>3, <1>41, <2>1
  <2>4. Len(f[k]) = Len(f[k - 1]) + Len(seqs[k]) /\ Len(f[k - 1]) \in Nat /\ Len(seqs[k]) \in Nat
    BY <1>1, <1>3, <2>3
  <2> HIDE DEF k
  <2>5. \A p \in 1 .. Len(f[k - 1]) : p \in 1 .. Len(f[k]) /\ f[k][p] = f[k - 1][p]
    <3> DEFINE a == f[k - 1]
               b == seqs[k]
    <3>1. a \in Seq(S) /\ b \in Seq(S) /\ f[k] = a \o b
      BY <2>3
    <3> HIDE DEF a, b
    <3>2. \A p \in 1 .. Len(a) : p \in 1 .. Len(a \o b) /\ (a \o b)[p] = a[p]
      BY <3>1, InARow
    <3>3. \A p \in 1 .. Len(a) : p \in 1 .. Len(f[k]) /\ f[k][p] = a[p]
      BY <3>1, <3>2, Zenon
    <3> QED BY <3>3 DEF a
  <2>6. Kept(k - 1)
    BY <2>2, <2>5 DEF k
  <2> QED BY <2>1, <2>6 DEF k
<1> HIDE DEF T
<1>8. 0 .. n \subseteq T
  <2>1. 0 \in Int /\ n \in Int
    BY <1>1
  <2> QED BY <1>6, <1>7, <2>1, Upwards
<1>9. ASSUME NEW i \in 1 .. n PROVE \A j \in 1 .. Len(seqs[i]) : f[n][loc[i - 1] + j] = seqs[i][j]
  <2>1. n - i \in 0 .. n /\ n - (n - i) = i
    BY <1>1
  <2>2. Kept(i)
    BY <1>8, <2>1 DEF T
  <2>3. f[i] = f[i - 1] \o seqs[i] /\ f[i - 1] \in Seq(S) /\ seqs[i] \in Seq(S)
    BY <1>1, <1>3, <1>41
  <2>4. loc[i - 1] = Len(f[i - 1])
    BY <1>41 DEF loc
  <2>5. ASSUME NEW j \in 1 .. Len(seqs[i]) PROVE f[n][Len(f[i - 1]) + j] = seqs[i][j]
    <3> DEFINE a == f[i - 1]
               b == seqs[i]
    <3>1. a \in Seq(S) /\ b \in Seq(S) /\ f[i] = a \o b /\ j \in 1 .. Len(b)
      BY <2>3
    <3> HIDE DEF a, b
    <3>2. Len(a) + j \in 1 .. Len(a \o b) /\ (a \o b)[Len(a) + j] = b[j]
      <4>1. \A q \in 1 .. Len(b) : Len(a) + q \in 1 .. Len(a \o b) /\ (a \o b)[Len(a) + q] = b[q]
        BY <3>1, InARow
      <4> QED BY <3>1, <4>1, Zenon
    <3>3. Len(a) + j \in 1 .. Len(f[i]) /\ f[i][Len(a) + j] = b[j]
      BY <3>1, <3>2, Zenon
    <3> QED BY <2>2, <3>3 DEF a, b
  <2> QED BY <2>4, <2>5
<1> HIDE DEF loc
<1>10. Laid(loc, seqs, FlattenSeq(seqs))
  BY <1>3, <1>4, <1>5, <1>9 DEF Laid, n
<1> QED BY <1>10

LEMMA LaidIn ==
  ASSUME NEW S, NEW seqs \in Seq(Seq(S)), NEW t, NEW loc, Laid(loc, seqs, t)
  PROVE  \A i \in 0 .. Len(seqs) : loc[i] <= Len(t)
<1> DEFINE n == Len(seqs)
           T == {d \in 0 .. n : loc[n - d] <= Len(t)}
<1>1. n \in Nat /\ \A i \in 1 .. n : Len(seqs[i]) \in Nat
  OBVIOUS
<1>2. /\ loc \in [0 .. n -> Nat] /\ loc[n] = Len(t)
      /\ \A i \in 1 .. n : loc[i] = loc[i - 1] + Len(seqs[i])
  BY DEF Laid
<1> HIDE DEF n
<1>3. 0 <= n => 0 \in T
  <2>1. n - 0 = n /\ n \in 0 .. n
    BY <1>1
  <2>2. loc[n] <= Len(t)
    BY <1>2, <2>1
  <2> QED BY <1>1, <2>1, <2>2
<1>4. ASSUME NEW d \in 0 .. n - 1, d \in T PROVE d + 1 \in T
  <2>1. n - d \in 1 .. n /\ d + 1 \in 0 .. n /\ n - (d + 1) = (n - d) - 1 /\ n - (d + 1) \in 0 .. n /\ n - d \in 0 .. n
    BY <1>1
  <2>2. loc[n - d] = loc[(n - d) - 1] + Len(seqs[n - d]) /\ Len(seqs[n - d]) \in Nat
    BY <1>1, <1>2, <2>1
  <2>3. loc[n - d] \in Nat /\ loc[(n - d) - 1] \in Nat /\ Len(t) \in Nat /\ loc[n - d] <= Len(t)
    <3>1. n \in 0 .. n
      BY <1>1
    <3> QED BY <1>2, <1>4, <2>1, <3>1
  <2>4. loc[(n - d) - 1] <= Len(t)
    BY <2>2, <2>3
  <2> QED BY <2>1, <2>4
<1> HIDE DEF T
<1>5. 0 .. n \subseteq T
  <2>1. 0 \in Int /\ n \in Int
    BY <1>1
  <2> QED BY <1>3, <1>4, <2>1, Upwards
<1>6. ASSUME NEW i \in 0 .. n PROVE loc[i] <= Len(t)
  <2>1. n - i \in 0 .. n /\ n - (n - i) = i
    BY <1>1
  <2> QED BY <1>5, <2>1 DEF T
<1> QED BY <1>6 DEF n

\* The parts have lengths.
Parted(seqs) == Len(seqs) \in Nat /\ \A i \in 1 .. Len(seqs) : Len(seqs[i]) \in Nat

\* Place p of the text lies in part i.
PlaceIn(i, p, loc, seqs, t) ==
  p - loc[i - 1] \in 1 .. Len(seqs[i]) /\ t[p] = seqs[i][p - loc[i - 1]]

Placed(p, loc, seqs, t) == \E i \in 1 .. Len(seqs) : PlaceIn(i, p, loc, seqs, t)

\* Each place belongs to one part.
LEMMA LaidWhole ==
  ASSUME NEW seqs, Parted(seqs), NEW t, NEW loc, Laid(loc, seqs, t), NEW p \in 1 .. Len(t)
  PROVE  Placed(p, loc, seqs, t)
<1>0. Len(seqs) \in Nat /\ \A i \in 1 .. Len(seqs) : Len(seqs[i]) \in Nat
  BY DEF Parted
<1> SUFFICES \E i \in 1 .. Len(seqs) : p - loc[i - 1] \in 1 .. Len(seqs[i]) /\ t[p] = seqs[i][p - loc[i - 1]]
  BY DEF Placed, PlaceIn
<1> DEFINE n == Len(seqs)
           T == {i \in 0 .. n : p <= loc[i]}
<1>1. /\ loc \in [0 .. n -> Nat] /\ loc[0] = 0 /\ loc[n] = Len(t)
      /\ \A i \in 1 .. n : /\ loc[i] = loc[i - 1] + Len(seqs[i])
                           /\ \A j \in 1 .. Len(seqs[i]) : t[loc[i - 1] + j] = seqs[i][j]
  BY DEF Laid
<1>2. n \in T /\ T \subseteq Nat /\ T # {}
  BY <1>0, <1>1
<1>3. PICK i \in T : \A k \in T : i <= k
  <2> HIDE DEF T
  <2> QED BY <1>2, LeastNatural
<1>4. i \in 0 .. n /\ p <= loc[i] /\ p \in Int /\ p >= 1
  BY <1>0, <1>1
<1>5. i # 0
  BY <1>0, <1>1, <1>4
<1>6. i \in 1 .. n /\ i - 1 \in 0 .. n
  BY <1>0, <1>4, <1>5
<1>7. ~(p <= loc[i - 1])
  <2>1. ~(i <= i - 1)
    BY <1>0, <1>4
  <2> QED BY <1>3, <1>6, <2>1
<1> HIDE DEF T
<1>8. loc[i] = loc[i - 1] + Len(seqs[i]) /\ loc[i - 1] \in Nat /\ Len(seqs[i]) \in Nat
  BY <1>0, <1>1, <1>6
<1> DEFINE j == p - loc[i - 1]
<1>9. j \in 1 .. Len(seqs[i]) /\ loc[i - 1] + j = p
  <2> DEFINE a == loc[i - 1]
             c == loc[i]
             l == Len(seqs[i])
  <2>1. /\ c = a + l /\ a \in Nat /\ l \in Nat
        /\ p <= c /\ ~(p <= a) /\ p \in Int
    BY <1>4, <1>7, <1>8
  <2> HIDE DEF a, c, l
  <2>2. p - a \in 1 .. l /\ a + (p - a) = p
    BY <2>1
  <2> QED BY <2>2 DEF a, l
<1>10. t[p] = seqs[i][j]
  BY <1>1, <1>6, <1>9
<1> QED BY <1>6, <1>9, <1>10

\* What has the same parts loc the same places is the same.
LEMMA LaidSame ==
  ASSUME NEW S, NEW seqs \in Seq(Seq(S)), NEW t \in Seq(S), NEW loc, Laid(loc, seqs, t)
  PROVE  t = FlattenSeq(seqs)
<1> DEFINE n == Len(seqs)
           u == FlattenSeq(seqs)
<1>1. n \in Nat /\ \A i \in 1 .. n : seqs[i] \in Seq(S) /\ Len(seqs[i]) \in Nat
  OBVIOUS
<1>2. PICK bt : Laid(bt, seqs, u)
  BY FlattenLaid
<1>3. /\ loc \in [0 .. n -> Nat] /\ loc[0] = 0 /\ loc[n] = Len(t)
      /\ \A i \in 1 .. n : /\ loc[i] = loc[i - 1] + Len(seqs[i])
                           /\ \A j \in 1 .. Len(seqs[i]) : t[loc[i - 1] + j] = seqs[i][j]
  BY DEF Laid
<1>4. /\ bt \in [0 .. n -> Nat] /\ bt[0] = 0 /\ bt[n] = Len(u)
      /\ \A i \in 1 .. n : /\ bt[i] = bt[i - 1] + Len(seqs[i])
                           /\ \A j \in 1 .. Len(seqs[i]) : u[bt[i - 1] + j] = seqs[i][j]
  BY <1>2 DEF Laid
<1>5. u \in Seq(S)
  BY FlattenIs
<1> HIDE DEF n, u
<1>6. \A i \in 0 .. n : loc[i] = bt[i]
  <2> DEFINE T == {i \in 0 .. n : loc[i] = bt[i]}
  <2>1. 0 <= n => 0 \in T
    BY <1>3, <1>4
  <2>2. ASSUME NEW i \in 0 .. n - 1, i \in T PROVE i + 1 \in T
    <3>1. i + 1 \in 1 .. n /\ (i + 1) - 1 = i
      BY <1>1
    <3>2. loc[i + 1] = loc[i] + Len(seqs[i + 1]) /\ bt[i + 1] = bt[i] + Len(seqs[i + 1])
      BY <1>3, <1>4, <3>1
    <3> QED BY <2>2, <3>1, <3>2
  <2> HIDE DEF T
  <2>3. 0 \in Int /\ n \in Int
    BY <1>1
  <2>4. 0 .. n \subseteq T
    BY <2>1, <2>2, <2>3, Upwards
  <2> QED BY <2>4 DEF T
<1>7. Len(t) = Len(u)
  <2>1. n \in 0 .. n
    BY <1>1
  <2> QED BY <1>3, <1>4, <1>6, <2>1
<1>8. ASSUME NEW p \in 1 .. Len(t) PROVE t[p] = u[p]
  <2>1. PICK i \in 1 .. n : p - loc[i - 1] \in 1 .. Len(seqs[i]) /\ t[p] = seqs[i][p - loc[i - 1]]
    <3>1. Parted(seqs)
      BY <1>1 DEF n, Parted
    <3>2. Placed(p, loc, seqs, t)
      BY <3>1, LaidWhole, Zenon
    <3> QED BY <3>2 DEF n, Placed, PlaceIn
  <2>2. i - 1 \in 0 .. n
    BY <1>1
  <2>3. loc[i - 1] = bt[i - 1] /\ bt[i - 1] \in Nat
    BY <1>4, <1>6, <2>2
  <2> DEFINE j == p - loc[i - 1]
  <2>4. j \in 1 .. Len(seqs[i]) /\ bt[i - 1] + j = p
    BY <2>1, <2>3
  <2>5. u[p] = seqs[i][j]
    BY <1>4, <2>4
  <2> QED BY <2>1, <2>5
<1> QED BY <1>5, <1>7, <1>8 DEF u

-----------------------------------------------------------------------------
(***************************************************************************)
(* Binary digits read back.                                                *)
(***************************************************************************)
LEMMA WithLastOf ==
  ASSUME NEW S, NEW o \in Seq(S), NEW x \in S, NEW y \in S
  PROVE  Last(Append(o, x)) = x /\ WithLast(Append(o, x), y) = Append(o, y)
<1> DEFINE s == Append(o, x)
<1>1. s \in Seq(S) /\ Len(s) = Len(o) + 1 /\ Len(o) \in Nat /\ s[Len(o) + 1] = x
      /\ \A i \in 1 .. Len(o) : s[i] = o[i]
  OBVIOUS
<1> HIDE DEF s
<1>2. Last(s) = x
  BY <1>1 DEF Last
<1>3. SubSeq(s, 1, Len(o)) = o
  <2>1. 1 \in Int /\ Len(o) \in Int /\ \A i \in 1 .. Len(o) : s[i] \in S
    BY <1>1
  <2>2. /\ SubSeq(s, 1, Len(o)) \in Seq(S)
        /\ Len(SubSeq(s, 1, Len(o))) = (IF 1 <= Len(o) THEN Len(o) - 1 + 1 ELSE 0)
        /\ \A i \in 1 .. Len(o) - 1 + 1 : SubSeq(s, 1, Len(o))[i] = s[1 + i - 1]
    BY <2>1, SubSeqProperties
  <2>3. Len(SubSeq(s, 1, Len(o))) = Len(o)
    BY <1>1, <2>2
  <2>4. ASSUME NEW i \in 1 .. Len(o) PROVE SubSeq(s, 1, Len(o))[i] = o[i]
    <3>1. i \in 1 .. Len(o) - 1 + 1 /\ 1 + i - 1 = i
      BY <1>1
    <3> QED BY <1>1, <2>2, <3>1
  <2> QED BY <2>2, <2>3, <2>4, SeqEqual
<1>4. Front(s) = o
  <2>1. Len(s) - 1 = Len(o)
    BY <1>1
  <2> QED BY <1>3, <2>1 DEF Front
<1>5. WithLast(s, y) = Append(o, y)
  BY <1>4 DEF WithLast
<1> QED BY <1>2, <1>5 DEF s

\* A digit starts a byte or is put behind the ones it has.
LEMMA TakeBitOn ==
  ASSUME NEW o \in Seq(Byte), NEW i \in Nat, NEW x \in Byte, NEW bit \in Bit
  PROVE  /\ i % 8 = 0 => TakeBit([out |-> o, isok |-> i], Zero + bit) = [out |-> Append(o, bit), isok |-> i + 1]
         /\ i % 8 # 0 /\ 2 * x + bit \in Byte =>
              TakeBit([out |-> Append(o, x), isok |-> i], Zero + bit) = [out |-> Append(o, 2 * x + bit), isok |-> i + 1]
<1>1. Zero + bit \in {Zero, Zero + 1} /\ bit \in Byte /\ 0 \in Byte /\ Zero \in Int
  BY DEF Bit, Zero, Byte
<1>2. ASSUME NEW y \in Byte, 2 * y + bit \in Byte PROVE (2 * y + (Zero + bit) - Zero) % 256 = 2 * y + bit
  <2>1. 2 * y + (Zero + bit) - Zero = 2 * y + bit
    BY DEF Byte, Bit, Zero
  <2>2. \A z \in Byte : z % 256 = z
    BY DEF Byte
  <2> QED BY <1>2, <2>1, <2>2
<1>3. ASSUME i % 8 = 0
      PROVE  TakeBit([out |-> o, isok |-> i], Zero + bit) = [out |-> Append(o, bit), isok |-> i + 1]
  <2>1. TakeBit([out |-> o, isok |-> i], Zero + bit) =
          [out |-> WithLast(Append(o, 0), (2 * Last(Append(o, 0)) + (Zero + bit) - Zero) % 256), isok |-> i + 1]
    BY <1>1, <1>3 DEF TakeBit
  <2>2. Last(Append(o, 0)) = 0 /\ WithLast(Append(o, 0), bit) = Append(o, bit)
    BY <1>1, WithLastOf
  <2>3. (2 * 0 + (Zero + bit) - Zero) % 256 = bit
    BY DEF Bit, Zero
  <2> QED BY <2>1, <2>2, <2>3
<1>4. ASSUME i % 8 # 0, 2 * x + bit \in Byte
      PROVE  TakeBit([out |-> Append(o, x), isok |-> i], Zero + bit) = [out |-> Append(o, 2 * x + bit), isok |-> i + 1]
  <2>1. TakeBit([out |-> Append(o, x), isok |-> i], Zero + bit) =
          [out |-> WithLast(Append(o, x), (2 * Last(Append(o, x)) + (Zero + bit) - Zero) % 256), isok |-> i + 1]
    BY <1>1, <1>4 DEF TakeBit
  <2>2. Last(Append(o, x)) = x /\ WithLast(Append(o, x), 2 * x + bit) = Append(o, 2 * x + bit)
    BY <1>4, WithLastOf
  <2>3. (2 * x + (Zero + bit) - Zero) % 256 = 2 * x + bit
    BY <1>2, <1>4
  <2> QED BY <2>1, <2>2, <2>3
<1> QED BY <1>3, <1>4

\* The bytes that the first digits of a byte make.
Begun(b) == <<b \div 128, b \div 64, b \div 32, b \div 16, b \div 8, b \div 4, b \div 2, b>>

LEMMA HighestFirst ==
  ASSUME NEW b \in Byte
  PROVE  /\ b \div 128 = (b \div 128) % 2 /\ b \div 64 = 2 * (b \div 128) + ((b \div 64) % 2)
         /\ b \div 32 = 2 * (b \div 64) + ((b \div 32) % 2) /\ b \div 16 = 2 * (b \div 32) + ((b \div 16) % 2)
         /\ b \div 8 = 2 * (b \div 16) + ((b \div 8) % 2) /\ b \div 4 = 2 * (b \div 8) + ((b \div 4) % 2)
         /\ b \div 2 = 2 * (b \div 4) + ((b \div 2) % 2) /\ b = 2 * (b \div 2) + (b % 2)
         /\ b \div 128 \in Byte /\ b \div 64 \in Byte /\ b \div 32 \in Byte /\ b \div 16 \in Byte
         /\ b \div 8 \in Byte /\ b \div 4 \in Byte /\ b \div 2 \in Byte
BY DEF Byte

LEMMA BegunIs ==
  ASSUME NEW b \in Byte
  PROVE  /\ Begun(b)[1] = BitAt(b, 8) /\ Begun(b)[8] = b
         /\ \A k \in 1 .. 8 : Begun(b)[k] \in Byte
         /\ \A k \in 1 .. 7 : Begun(b)[k + 1] = 2 * Begun(b)[k] + BitAt(b, 8 - k)
<1> DEFINE h == Begun(b)
<1>1. /\ h[1] = b \div 128 /\ h[2] = b \div 64 /\ h[3] = b \div 32 /\ h[4] = b \div 16
      /\ h[5] = b \div 8 /\ h[6] = b \div 4 /\ h[7] = b \div 2 /\ h[8] = b
  BY DEF Begun
<1> HIDE DEF h
<1>2. /\ BitAt(b, 1) = b % 2 /\ BitAt(b, 2) = (b \div 2) % 2
      /\ BitAt(b, 3) = (b \div 4) % 2 /\ BitAt(b, 4) = (b \div 8) % 2
      /\ BitAt(b, 5) = (b \div 16) % 2 /\ BitAt(b, 6) = (b \div 32) % 2
      /\ BitAt(b, 7) = (b \div 64) % 2 /\ BitAt(b, 8) = (b \div 128) % 2
  BY BitAtIs
<1>3. h[1] \in Byte /\ h[2] \in Byte /\ h[3] \in Byte /\ h[4] \in Byte /\ h[5] \in Byte /\ h[6] \in Byte
      /\ h[7] \in Byte /\ h[8] \in Byte
  BY <1>1, HighestFirst
<1>4. /\ h[1] = BitAt(b, 8) /\ h[2] = 2 * h[1] + BitAt(b, 7) /\ h[3] = 2 * h[2] + BitAt(b, 6)
      /\ h[4] = 2 * h[3] + BitAt(b, 5) /\ h[5] = 2 * h[4] + BitAt(b, 4) /\ h[6] = 2 * h[5] + BitAt(b, 3)
      /\ h[7] = 2 * h[6] + BitAt(b, 2) /\ h[8] = 2 * h[7] + BitAt(b, 1)
  BY <1>1, <1>2, HighestFirst
<1>5. \A k \in 1 .. 8 : h[k] \in Byte
  BY <1>3
<1>6. \A k \in 1 .. 7 : h[k + 1] = 2 * h[k] + BitAt(b, 8 - k)
  <2>1. ASSUME NEW k \in 1 .. 7 PROVE h[k + 1] = 2 * h[k] + BitAt(b, 8 - k)
    <3>1. k = 1 \/ k = 2 \/ k = 3 \/ k = 4 \/ k = 5 \/ k = 6 \/ k = 7
      OBVIOUS
    <3>2. 1 + 1 = 2 /\ 2 + 1 = 3 /\ 3 + 1 = 4 /\ 4 + 1 = 5 /\ 5 + 1 = 6 /\ 6 + 1 = 7 /\ 7 + 1 = 8
          /\ 8 - 1 = 7 /\ 8 - 2 = 6 /\ 8 - 3 = 5 /\ 8 - 4 = 4 /\ 8 - 5 = 3 /\ 8 - 6 = 2 /\ 8 - 7 = 1
      OBVIOUS
    <3> QED BY <1>4, <3>1, <3>2
  <2> QED BY <2>1
<1> QED BY <1>1, <1>4, <1>5, <1>6 DEF h

LEMMA InARun ==
  ASSUME NEW i \in Nat, i % 8 = 0, NEW k \in 1 .. 7
  PROVE  i + k \in Nat /\ (i + k) % 8 # 0 /\ (i + k) + 1 = i + (k + 1)
OBVIOUS

\* Eight digits are one byte of the output.
LEMMA BinByte ==
  ASSUME NEW t \in Seq(Byte), NEW acc, BitsWalk(acc, t), NEW b \in Byte, NEW p \in Nat, p + 8 <= Len(t),
         \A j \in 1 .. 8 : t[p + j] = Zero + BitAt(b, 9 - j), acc[p].isok % 8 = 0
  PROVE  acc[p + 8].out = Append(acc[p].out, b) /\ acc[p + 8].isok % 8 = 0
<1> DEFINE o == acc[p].out
           i == acc[p].isok
           h == Begun(b)
           T == {k \in 1 .. 8 : acc[p + k] = [out |-> Append(o, h[k]), isok |-> i + k]}
<1>1. acc \in [0 .. Len(t) -> Taken] /\ \A k \in 1 .. Len(t) : acc[k] = TakeBit(acc[k - 1], t[k])
  BY DEF BitsWalk
<1>2. acc[p] \in Taken
  <2>1. p \in 0 .. Len(t)
    OBVIOUS
  <2> QED BY <1>1, <2>1
<1>3. acc[p] = [out |-> o, isok |-> i] /\ o \in Seq(Byte) /\ i \in Nat /\ i % 8 = 0
  BY <1>2 DEF Taken
<1>4. ASSUME NEW k \in 1 .. 8 PROVE acc[p + k] = TakeBit(acc[p + (k - 1)], Zero + BitAt(b, 9 - k))
  <2>1. p + k \in 1 .. Len(t) /\ (p + k) - 1 = p + (k - 1)
    OBVIOUS
  <2>2. acc[p + k] = TakeBit(acc[(p + k) - 1], t[p + k])
    BY <1>1, <2>1
  <2> QED BY <2>1, <2>2
<1>5. \A k \in 1 .. 8 : BitAt(b, k) \in Bit /\ h[k] \in Byte
  BY BitAtIs, BegunIs
<1>6. h[1] = BitAt(b, 8) /\ h[8] = b /\ \A k \in 1 .. 7 : h[k + 1] = 2 * h[k] + BitAt(b, 8 - k)
  BY BegunIs
<1> HIDE DEF o, i, h
<1>7. 1 <= 8 => 1 \in T
  <2>1. p + (1 - 1) = p /\ 9 - 1 = 8 /\ 1 \in 1 .. 8 /\ 8 \in 1 .. 8
    OBVIOUS
  <2>2. acc[p + 1] = TakeBit([out |-> o, isok |-> i], Zero + BitAt(b, 8))
    BY <1>3, <1>4, <2>1
  <2>3. BitAt(b, 8) \in Bit /\ b \in Byte
    BY <1>5, <2>1
  <2>4. acc[p + 1] = [out |-> Append(o, BitAt(b, 8)), isok |-> i + 1]
    BY <1>3, <2>2, <2>3, TakeBitOn
  <2> QED BY <1>6, <2>1, <2>4
<1>8. ASSUME NEW k \in 1 .. 8 - 1, k \in T PROVE k + 1 \in T
  <2>1. k + 1 \in 1 .. 8 /\ k \in 1 .. 8 /\ k \in 1 .. 7 /\ p + ((k + 1) - 1) = p + k /\ 9 - (k + 1) = 8 - k /\ 8 - k \in 1 .. 8
    BY SMTT(30)
  <2>2. i + k \in Nat /\ (i + k) % 8 # 0 /\ (i + k) + 1 = i + (k + 1)
    BY <1>3, <2>1, InARun
  <2>3. acc[p + (k + 1)] = TakeBit([out |-> Append(o, h[k]), isok |-> i + k], Zero + BitAt(b, 8 - k))
    BY <1>4, <1>8, <2>1
  <2>4. h[k] \in Byte /\ BitAt(b, 8 - k) \in Bit /\ h[k + 1] = 2 * h[k] + BitAt(b, 8 - k) /\ h[k + 1] \in Byte
    BY <1>5, <1>6, <2>1
  <2>5. TakeBit([out |-> Append(o, h[k]), isok |-> i + k], Zero + BitAt(b, 8 - k))
          = [out |-> Append(o, 2 * h[k] + BitAt(b, 8 - k)), isok |-> (i + k) + 1]
    BY <1>3, <2>2, <2>4, TakeBitOn
  <2> QED BY <2>1, <2>2, <2>3, <2>4, <2>5
<1> HIDE DEF T
<1>9. 1 .. 8 \subseteq T
  <2>1. 1 \in Int /\ 8 \in Int
    OBVIOUS
  <2> QED BY <1>7, <1>8, <2>1, Upwards
<1>10. acc[p + 8] = [out |-> Append(o, b), isok |-> i + 8]
  <2>1. 8 \in 1 .. 8
    OBVIOUS
  <2> QED BY <1>6, <1>9, <2>1 DEF T
<1>11. (i + 8) % 8 = 0
  BY <1>3
<1>12. acc[p + 8].out = Append(o, b) /\ acc[p + 8].isok = i + 8
  BY <1>10
<1> QED BY <1>11, <1>12 DEF o

\* A sequence of k elements that are the first ones of another.
Front1(o, src, k) == Len(o) = k /\ \A j \in 1 .. k : o[j] = src[j]

LEMMA OneMore ==
  ASSUME NEW S, NEW o \in Seq(S), NEW src \in Seq(S), NEW k \in Nat, k + 1 <= Len(src), Front1(o, src, k)
  PROVE  Front1(Append(o, src[k + 1]), src, k + 1)
<1> DEFINE s == Append(o, src[k + 1])
<1>1. Len(o) = k /\ \A j \in 1 .. k : o[j] = src[j]
  BY DEF Front1
<1>2. src[k + 1] \in S
  OBVIOUS
<1>3. Len(s) = k + 1 /\ s[k + 1] = src[k + 1] /\ \A j \in 1 .. k : s[j] = o[j]
  BY <1>1, <1>2, AppendProperties
<1> HIDE DEF s
<1>4. ASSUME NEW j \in 1 .. k + 1 PROVE s[j] = src[j]
  <2>1. j = k + 1 \/ j \in 1 .. k
    OBVIOUS
  <2> QED BY <1>1, <1>3, <2>1
<1> QED BY <1>3, <1>4 DEF Front1, s

LEMMA AllFront ==
  ASSUME NEW S, NEW o \in Seq(S), NEW src \in Seq(S), Front1(o, src, Len(src))
  PROVE  o = src
BY SeqEqual DEF Front1

LEMMA BinDigitsAre ==
  ASSUME NEW b \in Byte
  PROVE  BinDigits(b) \in Seq(Byte) /\ Len(BinDigits(b)) = 8 /\ \A j \in 1 .. 8 : BinDigits(b)[j] = Zero + BitAt(b, 9 - j)
<1> DEFINE d == [k \in 1 .. 8 |-> Zero + Bits(<<b>>)[k]]
<1>1. ASSUME NEW k \in 1 .. 8 PROVE d[k] = Zero + BitAt(b, k) /\ d[k] \in Byte
  <2>1. <<b>> \in Seq(Byte) /\ Len(<<b>>) = 1 /\ <<b>>[1] = b /\ 1 \in 1 .. 1 /\ 8 * (1 - 1) + k = k
    OBVIOUS
  <2>2. Bits(<<b>>)[8 * (1 - 1) + k] = BitAt(<<b>>[1], k)
    BY <2>1, BitsAre
  <2>3. Bits(<<b>>)[k] = BitAt(b, k)
    BY <2>1, <2>2
  <2>4. BitAt(b, k) \in Bit
    BY BitAtIs
  <2>5. \A x \in Bit : Zero + x \in Byte
    BY DEF Bit, Zero, Byte
  <2> QED BY <2>3, <2>4, <2>5
<1>2. d = [k \in 1 .. 8 |-> d[k]]
  OBVIOUS
<1>3. BinDigits(b) = Reverse(d)
  BY DEF BinDigits
<1> HIDE DEF d
<1>4. d \in Seq(Byte) /\ Len(d) = 8
  <2>1. d \in [1 .. 8 -> Byte] /\ 8 \in Nat
    BY <1>1, <1>2
  <2> QED BY <2>1, FunctionIsSeq, ZenonT(60)
<1>5. Reverse(d) \in Seq(Byte) /\ Len(Reverse(d)) = 8
  BY <1>4, ReverseIs
<1>6. ASSUME NEW j \in 1 .. 8 PROVE Reverse(d)[j] = Zero + BitAt(b, 9 - j)
  <2>1. Reverse(d)[j] = d[(8 - j) + 1]
    BY <1>4 DEF Reverse
  <2>2. (8 - j) + 1 = 9 - j /\ 9 - j \in 1 .. 8
    OBVIOUS
  <2> QED BY <1>1, <2>1, <2>2
<1> QED BY <1>3, <1>5, <1>6

\* What stands in front of a group ends the run.
LEMMA SeparatorIs ==
  Len(Separator) = 2 /\ Separator[1] = Comma /\ Separator[2] = Space /\ Comma = 44 /\ Space = 32
BY DEF Separator, Comma, Space

LEMMA SeparatedIs ==
  ASSUME NEW d \in Seq(Byte), NEW q, q = Separator \o d
  PROVE  Len(q) = Len(d) + 2 /\ q[1] = Comma /\ q[2] = Space /\ \A j \in 1 .. Len(d) : q[2 + j] = d[j]
<1> DEFINE a == Separator
<1>1. a \in Seq(Byte)
  BY Separators
<1>2. Len(a) = 2 /\ a[1] = Comma /\ a[2] = Space /\ q = a \o d
  BY SeparatorIs
<1> HIDE DEF a
<1>3. Len(a) \in Nat /\ Len(d) \in Nat /\ Len(a \o d) = Len(a) + Len(d)
  BY <1>1, InARow
<1>4. \A p \in 1 .. Len(a) : p \in 1 .. Len(a \o d) /\ (a \o d)[p] = a[p]
  BY <1>1, InARow
<1>5. \A j \in 1 .. Len(d) : Len(a) + j \in 1 .. Len(a \o d) /\ (a \o d)[Len(a) + j] = d[j]
  BY <1>1, InARow
<1>6. 1 \in 1 .. Len(a) /\ 2 \in 1 .. Len(a)
  BY <1>2
<1>7. q[1] = Comma /\ q[2] = Space
  <2>1. (a \o d)[1] = a[1] /\ (a \o d)[2] = a[2]
    BY <1>4, <1>6, Zenon
  <2>2. a[1] = Comma /\ a[2] = Space /\ q = a \o d
    BY <1>2, Zenon
  <2> QED BY <2>1, <2>2, Zenon
<1>8. Len(q) = Len(d) + 2 /\ \A j \in 1 .. Len(d) : q[2 + j] = d[j]
  BY <1>2, <1>3, <1>5
<1> QED BY <1>7, <1>8

LEMMA NoBit ==
  ASSUME NEW acc \in Taken, NEW ch, ch \in {Comma, Space, NUL}
  PROVE  TakeBit(acc, ch).out = acc.out /\ TakeBit(acc, ch).isok = 0
<1>1. ch \notin {Zero, Zero + 1}
  BY DEF Comma, Space, NUL, Zero
<1> QED BY <1>1 DEF TakeBit, Taken

\* The next digit starts a byte.
NewByte(x) == x.isok % 8 = 0

\* What t has behind its first p elements.
Here(t, p, q) == p + Len(q) <= Len(t) /\ \A j \in 1 .. Len(q) : t[p + j] = q[j]

LEMMA BinPart ==
  ASSUME NEW t \in Seq(Byte), NEW acc, BitsWalk(acc, t), NEW b \in Byte, NEW p \in Nat, NEW q,
         q = BinDigits(b) \/ q = Separator \o BinDigits(b), Here(t, p, q), NewByte(acc[p])
  PROVE  acc[p + Len(q)].out = Append(acc[p].out, b) /\ NewByte(acc[p + Len(q)])
<1> DEFINE d == BinDigits(b)
<1>1. d \in Seq(Byte) /\ Len(d) = 8 /\ \A j \in 1 .. 8 : d[j] = Zero + BitAt(b, 9 - j)
  BY BinDigitsAre
<1>2. acc \in [0 .. Len(t) -> Taken] /\ \A k \in 1 .. Len(t) : acc[k] = TakeBit(acc[k - 1], t[k])
  BY DEF BitsWalk
<1>3. q = d \/ q = Separator \o d
  OBVIOUS
<1>31. p + Len(q) <= Len(t) /\ \A j \in 1 .. Len(q) : t[p + j] = q[j]
  BY DEF Here
<1> HIDE DEF d
<1>4. CASE q = d
  <2>1. p + 8 <= Len(t) /\ \A j \in 1 .. 8 : t[p + j] = Zero + BitAt(b, 9 - j)
    BY <1>1, <1>31, <1>4
  <2>2. acc[p + 8].out = Append(acc[p].out, b) /\ acc[p + 8].isok % 8 = 0
    BY <2>1, BinByte DEF NewByte
  <2> QED BY <1>1, <1>4, <2>2 DEF NewByte
<1>5. CASE q = Separator \o d
  <2>1. /\ Len(q) = 10 /\ q[1] = Comma /\ q[2] = Space
        /\ \A j \in 1 .. 8 : q[2 + j] = d[j]
    <3>1. Len(q) = Len(d) + 2 /\ q[1] = Comma /\ q[2] = Space /\ \A j \in 1 .. Len(d) : q[2 + j] = d[j]
      BY <1>1, <1>5, SeparatedIs
    <3> QED BY <1>1, <3>1
  <2>2. p + 10 <= Len(t) /\ t[p + 1] = Comma /\ t[p + 2] = Space
        /\ \A j \in 1 .. 8 : t[p + (2 + j)] = d[j]
    <3>1. 1 \in 1 .. 10 /\ 2 \in 1 .. 10 /\ \A j \in 1 .. 8 : 2 + j \in 1 .. 10
      OBVIOUS
    <3> QED BY <1>31, <2>1, <3>1
  <2>0. p + 10 <= Len(t) /\ Len(t) \in Nat
    BY <2>2
  <2>3. p \in 0 .. Len(t) /\ p + 1 \in 1 .. Len(t) /\ p + 1 \in 0 .. Len(t) /\ p + 2 \in 1 .. Len(t)
        /\ (p + 1) - 1 = p /\ (p + 2) - 1 = p + 1 /\ p + 2 \in Nat /\ (p + 2) + 8 = p + 10
    BY <2>0
  <2>4. acc[p + 1].out = acc[p].out
    <3>1. acc[p] \in Taken /\ acc[p + 1] = TakeBit(acc[p], Comma)
      BY <1>2, <2>2, <2>3
    <3> QED BY <3>1, NoBit
  <2>5. acc[p + 2].out = acc[p].out /\ acc[p + 2].isok = 0
    <3>1. acc[p + 1] \in Taken /\ acc[p + 2] = TakeBit(acc[p + 1], Space)
      BY <1>2, <2>2, <2>3
    <3> QED BY <2>4, <3>1, NoBit
  <2>6. \A j \in 1 .. 8 : t[(p + 2) + j] = Zero + BitAt(b, 9 - j)
    <3>1. \A j \in 1 .. 8 : (p + 2) + j = p + (2 + j)
      OBVIOUS
    <3> QED BY <1>1, <2>2, <3>1
  <2>7. (p + 2) + 8 <= Len(t) /\ acc[p + 2].isok % 8 = 0
    BY <2>2, <2>3, <2>5
  <2>8. acc[(p + 2) + 8].out = Append(acc[p + 2].out, b) /\ acc[(p + 2) + 8].isok % 8 = 0
    BY <2>3, <2>6, <2>7, BinByte
  <2> QED BY <2>1, <2>3, <2>5, <2>8 DEF NewByte
<1> QED BY <1>3, <1>4, <1>5

\* What is written in binary digits reads back.
LEMMA BinReadsBack ==
  ASSUME NEW src \in Seq(Byte), NEW w \in Width
  PROVE  bin_decode(bin_encode(src, w)) = src \o <<NUL>>
<1> DEFINE Part(i) == (IF (i - 1) % w # 0 THEN <<>> ELSE IF i = 1 THEN <<>> ELSE Separator \o <<>>)
                      \o BinDigits(src[i])
           seqs == [i \in DOMAIN src |-> Part(i)]
           u == FlattenSeq(seqs)
           t == bin_encode(src, w)
           n == Len(src)
<1>1. t = u \o <<NUL>> /\ t \in Seq(Byte)
  BY bin_encodeIs DEF bin_encode, Grouped, Text
<1>2. n \in Nat /\ \A i \in 1 .. n : src[i] \in Byte
  OBVIOUS
<1>3. ASSUME NEW i \in 1 .. n PROVE Part(i) \in {BinDigits(src[i]), Separator \o BinDigits(src[i])}
  <2> DEFINE d == BinDigits(src[i])
             sep == Separator
  <2>1. d \in Seq(Byte) /\ sep \in Seq(Byte)
    BY <1>2, BinDigitsAre, Separators
  <2> HIDE DEF d, sep
  <2>2. <<>> \o d = d /\ sep \o <<>> = sep
    BY <2>1, ConcatEmptySeq
  <2> QED BY <2>2 DEF d, sep
<1>4. ASSUME NEW i \in 1 .. n PROVE Part(i) \in Seq(Byte)
  <2> HIDE DEF Part
  <2>1. BinDigits(src[i]) \in Seq(Byte) /\ Separator \o BinDigits(src[i]) \in Seq(Byte)
    BY <1>2, BinDigitsAre, Separators, ConcatProperties
  <2> QED BY <1>3, <2>1
<1>5. seqs \in Seq(Seq(Byte)) /\ Len(seqs) = n /\ \A i \in 1 .. n : seqs[i] = Part(i)
  <2> HIDE DEF Part
  <2> QED BY <1>4, SMTT(30)
<1> HIDE DEF Part, seqs
<1>6. PICK loc : Laid(loc, seqs, u)
  BY <1>5, FlattenLaid
<1>7. u \in Seq(Byte)
  BY <1>5, FlattenIs
<1>8. PICK acc : BitsWalk(acc, t)
  BY <1>1, BitsWalked
<1>9. /\ acc \in [0 .. Len(t) -> Taken] /\ acc[0] = [out |-> <<>>, isok |-> 0] /\ acc[Len(t)].out = BitsTaken(t)
      /\ \A i \in 1 .. Len(t) : acc[i] = TakeBit(acc[i - 1], t[i])
  BY <1>8 DEF BitsWalk
<1>10. /\ loc \in [0 .. n -> Nat] /\ loc[0] = 0 /\ loc[n] = Len(u)
       /\ \A i \in 1 .. n : /\ loc[i] = loc[i - 1] + Len(seqs[i])
                            /\ \A j \in 1 .. Len(seqs[i]) : u[loc[i - 1] + j] = seqs[i][j]
  BY <1>5, <1>6 DEF Laid
<1>11. Len(t) = Len(u) + 1 /\ Len(u) \in Nat /\ t[Len(t)] = NUL /\ \A p \in 1 .. Len(u) : t[p] = u[p]
  BY <1>1, <1>7
<1>111. \A i \in 0 .. n : loc[i] <= Len(u)
  BY <1>5, <1>6, LaidIn
<1> HIDE DEF t, u, n
<1> DEFINE T == {k \in 0 .. n : Front1(acc[loc[k]].out, src, k) /\ NewByte(acc[loc[k]])}
<1>12. 0 <= n => 0 \in T
  BY <1>9, <1>10, <1>11 DEF Front1, NewByte
<1>13. ASSUME NEW k \in 0 .. n - 1, k \in T PROVE k + 1 \in T
  <2> DEFINE p == loc[k]
             q == seqs[k + 1]
             b == src[k + 1]
  <2>1. k + 1 \in 1 .. n /\ (k + 1) - 1 = k /\ k \in 0 .. n /\ k + 1 \in 0 .. n /\ k \in Nat
    BY <1>2
  <2>2. b \in Byte /\ p \in Nat /\ loc[k + 1] = p + Len(q) /\ loc[k + 1] <= Len(u)
        /\ \A j \in 1 .. Len(q) : u[p + j] = q[j]
    BY <1>2, <1>10, <1>111, <2>1
  <2>3. q \in {BinDigits(b), Separator \o BinDigits(b)} /\ Len(q) \in Nat
    <3>1. q = Part(k + 1) /\ Part(k + 1) \in Seq(Byte)
      BY <1>4, <1>5, <2>1
    <3> QED BY <1>3, <2>1, <3>1
  <2>4. NewByte(acc[p]) /\ Front1(acc[p].out, src, k)
    BY <1>13
  <2>5. acc[p] \in Taken
    <3>1. p <= Len(u) /\ p \in Nat /\ Len(u) \in Nat /\ Len(t) = Len(u) + 1
      BY <1>11, <1>111, <2>1, <2>2
    <3> HIDE DEF p
    <3>2. p \in 0 .. Len(t)
      BY <3>1
    <3> QED BY <1>9, <3>2
  <2> HIDE DEF p, q, b
  <2>6. Here(t, p, q)
    <3>1. p + Len(q) <= Len(u) /\ Len(u) \in Nat /\ Len(t) = Len(u) + 1
      BY <1>11, <2>2
    <3>2. \A j \in 1 .. Len(q) : p + j \in 1 .. Len(u)
      BY <2>2, <2>3, <3>1
    <3>3. p + Len(q) <= Len(t)
      BY <2>2, <2>3, <3>1
    <3> QED BY <1>11, <2>2, <3>2, <3>3 DEF Here
  <2>7. acc[p + Len(q)].out = Append(acc[p].out, b) /\ NewByte(acc[p + Len(q)])
    <3>1. t \in Seq(Byte) /\ BitsWalk(acc, t) /\ b \in Byte /\ p \in Nat
      BY <1>1, <1>8, <2>2
    <3>2. q = BinDigits(b) \/ q = Separator \o BinDigits(b)
      BY <2>3
    <3> HIDE DEF T
    <3> QED BY <2>4, <2>6, <3>1, <3>2, BinPart
  <2>8. Front1(Append(acc[p].out, b), src, k + 1)
    <3>1. k + 1 <= Len(src) /\ acc[p].out \in Seq(Byte)
      BY <2>1, <2>5 DEF n, Taken
    <3> QED BY <2>1, <2>4, <3>1, OneMore DEF b
  <2> QED BY <2>1, <2>2, <2>7, <2>8
<1> HIDE DEF T
<1>14. n \in T
  <2>1. 0 \in Int /\ n \in Int /\ n \in 0 .. n
    BY <1>2
  <2> QED BY <1>12, <1>13, <2>1, Upwards
<1>15. acc[Len(u)].out = src
  <2>1. acc[Len(u)] \in Taken /\ Front1(acc[Len(u)].out, src, n)
    BY <1>9, <1>10, <1>11, <1>14 DEF T
  <2> QED BY <2>1, AllFront DEF Taken, n
<1>16. acc[Len(t)].out = src
  <2>1. acc[Len(t)] = TakeBit(acc[Len(u)], NUL) /\ acc[Len(u)] \in Taken
    <3>1. Len(t) \in 1 .. Len(t) /\ Len(t) - 1 = Len(u) /\ Len(u) \in 0 .. Len(t)
      BY <1>11
    <3> QED BY <1>9, <1>11, <3>1
  <2> QED BY <1>15, <2>1, NoBit
<1> QED BY <1>9, <1>16 DEF bin_decode, t

-----------------------------------------------------------------------------
(***************************************************************************)
(* What the cipher of Vigenere moves reads back.                           *)
(***************************************************************************)
\* What an encoder and a decoder give back: the data, and nothing but NULs behind it.
ReadBack(src, out) ==
  /\ Len(src) <= Len(out)
  /\ \A i \in 1 .. Len(src) : out[i] = src[i]
  /\ \A i \in Len(src) + 1 .. Len(out) : out[i] = NUL

LEMMA ReadBackOne ==
  ASSUME NEW src \in Seq(Byte)
  PROVE  ReadBack(src, src \o <<NUL>>)
<1> DEFINE o == src \o <<NUL>>
<1>1. Len(o) = Len(src) + 1 /\ o[Len(src) + 1] = NUL /\ \A i \in 1 .. Len(src) : o[i] = src[i]
  OBVIOUS
<1> HIDE DEF o
<1>2. Len(src) \in Nat
  OBVIOUS
<1>3. \A i \in Len(src) + 1 .. Len(o) : i = Len(src) + 1
  BY <1>1, <1>2
<1>4. Len(src) <= Len(o)
  BY <1>1, <1>2
<1> QED BY <1>1, <1>3, <1>4 DEF ReadBack, o

Letter(ch) == ch \in Capitals \cup Smalls

\* The letters in front of a place, and how far the key moves the one there.
Used(src, i) == Cardinality({j \in 1 .. i - 1 : Letter(src[j])})
KeyCode(src, key, i) == vigenere_code(key[(Used(src, i) % Len(key)) + 1])

Moved(ch, by) ==
  IF Letter(ch) THEN (IF ch \in Smalls THEN 97 ELSE 65) + ((vigenere_code(ch) + by) % 26) ELSE ch

LEMMA VigenereMoves ==
  ASSUME NEW src, NEW key, NEW sign
  PROVE  Vigenere(src, key, sign) = [i \in DOMAIN src |-> Moved(src[i], sign * KeyCode(src, key, i))] \o <<NUL>>
BY Zenon DEF Vigenere, Moved, KeyCode, Used, Letter

LEMMA CodeOf ==
  ASSUME NEW ch
  PROVE  /\ ch \in Capitals => vigenere_code(ch) = ch - 65
         /\ ch \in Smalls => vigenere_code(ch) = ch - 97
         /\ ch \notin Capitals /\ ch \notin Smalls => vigenere_code(ch) = 0
<1>1. \A x \in Capitals : x \notin Smalls
  BY DEF Capitals, Smalls
<1>2. CASE ch \in Capitals
  BY <1>1, <1>2 DEF vigenere_code
<1>3. CASE ch \in Smalls
  BY <1>1, <1>3 DEF vigenere_code
<1>4. CASE ch \notin Capitals /\ ch \notin Smalls
  BY <1>4 DEF vigenere_code
<1> QED BY <1>1, <1>2, <1>3, <1>4

LEMMA CodeRange ==
  ASSUME NEW ch
  PROVE  vigenere_code(ch) \in 0 .. 25
<1>1. CASE ch \in Capitals
  BY <1>1, CodeOf DEF Capitals
<1>2. CASE ch \in Smalls
  BY <1>2, CodeOf DEF Smalls
<1>3. CASE ch \notin Capitals /\ ch \notin Smalls
  BY <1>3, CodeOf
<1> QED BY <1>1, <1>2, <1>3

LEMMA AroundAndBack ==
  ASSUME NEW x \in 0 .. 25, NEW s \in 0 .. 25
  PROVE  (x + s) % 26 \in 0 .. 25 /\ (((x + s) % 26) + (-1) * s) % 26 = x
<1>1. CASE x + s < 26
  <2>1. (x + s) % 26 = x + s
    BY <1>1
  <2>2. (x + s) + (-1) * s = x /\ x % 26 = x
    OBVIOUS
  <2> QED BY <2>1, <2>2, <1>1
<1>2. CASE ~(x + s < 26)
  <2>1. (x + s) % 26 = x + s - 26 /\ x + s - 26 \in 0 .. 25
    BY <1>2
  <2>2. (x + s - 26) + (-1) * s = x - 26 /\ (x - 26) % 26 = x
    OBVIOUS
  <2> QED BY <2>1, <2>2
<1> QED BY <1>1, <1>2

Away(ch, s) == Moved(ch, 1 * s)
Home(ch, s) == Moved(ch, (-1) * s)

LEMMA LetterBack ==
  ASSUME NEW ch, NEW s \in 0 .. 25
  PROVE  (Letter(Away(ch, s)) <=> Letter(ch)) /\ Home(Away(ch, s), s) = ch
<1> DEFINE m == Moved(ch, 1 * s)
           c == (vigenere_code(ch) + s) % 26
<1>1. vigenere_code(ch) \in 0 .. 25
  BY CodeRange
<1>2. c \in 0 .. 25 /\ (c + (-1) * s) % 26 = vigenere_code(ch)
  BY <1>1, AroundAndBack
<1>3. 1 * s = s
  OBVIOUS
<1>4. \A x \in Capitals : x \notin Smalls
  BY DEF Capitals, Smalls
<1>5. CASE ch \in Smalls
  <2>1. m = 97 + c
    BY <1>3, <1>5 DEF Moved, Letter
  <2> HIDE DEF m
  <2>2. m \in Smalls /\ vigenere_code(m) = c
    <3>1. m \in Smalls
      BY <1>2, <2>1 DEF Smalls
    <3>2. vigenere_code(m) = m - 97
      BY <3>1, CodeOf
    <3> QED BY <1>2, <2>1, <3>1, <3>2
  <2>3. Letter(m) /\ Letter(ch)
    BY <1>5, <2>2 DEF Letter
  <2> HIDE DEF c
  <2>4. Moved(m, (-1) * s) = 97 + ((c + (-1) * s) % 26)
    BY <2>2, <2>3 DEF Moved
  <2>5. Moved(m, (-1) * s) = 97 + (ch - 97)
    BY <1>2, <1>5, <2>4, CodeOf
  <2>6. 97 + (ch - 97) = ch
    BY <1>5 DEF Smalls
  <2> QED BY <2>3, <2>5, <2>6 DEF m, Away, Home
<1>6. CASE ch \in Capitals
  <2>1. m = 65 + c
    BY <1>3, <1>4, <1>6 DEF Moved, Letter
  <2> HIDE DEF m
  <2>2. m \in Capitals /\ m \notin Smalls /\ vigenere_code(m) = c
    <3>1. m \in Capitals
      BY <1>2, <2>1 DEF Capitals
    <3>2. vigenere_code(m) = m - 65
      BY <3>1, CodeOf
    <3> QED BY <1>2, <1>4, <2>1, <3>1, <3>2
  <2>3. Letter(m) /\ Letter(ch)
    BY <1>6, <2>2 DEF Letter
  <2> HIDE DEF c
  <2>4. Moved(m, (-1) * s) = 65 + ((c + (-1) * s) % 26)
    BY <2>2, <2>3 DEF Moved
  <2>5. Moved(m, (-1) * s) = 65 + (ch - 65)
    BY <1>2, <1>6, <2>4, CodeOf
  <2>6. 65 + (ch - 65) = ch
    BY <1>6 DEF Capitals
  <2> QED BY <2>3, <2>5, <2>6 DEF m, Away, Home
<1>7. CASE ~Letter(ch)
  BY <1>7 DEF Moved, Away, Home
<1> QED BY <1>5, <1>6, <1>7 DEF Letter

LEMMA VigenereReadsBack ==
  ASSUME NEW src \in Seq(Byte), NEW key \in Seq(Byte), key # <<>>
  PROVE  ReadBack(src, vigenere_decode(vigenere_encode(src, key), key))
<1> DEFINE n == Len(src)
           K(i) == KeyCode(src, key, i)
           a == [i \in DOMAIN src |-> Away(src[i], K(i))]
           e == vigenere_encode(src, key)
           b == [i \in DOMAIN e |-> Home(e[i], KeyCode(e, key, i))]
           d == vigenere_decode(e, key)
<1>1. e = a \o <<NUL>> /\ e \in Seq(Byte)
  BY VigenereIs, VigenereMoves DEF vigenere_encode, Text, Away
<1>2. d = b \o <<NUL>> /\ d \in Seq(Byte)
  <2>1. d = b \o <<NUL>>
    BY VigenereMoves DEF vigenere_decode, Home
  <2> HIDE DEF e
  <2>2. d \in Seq(Byte)
    BY <1>1, VigenereIs DEF vigenere_decode, Text
  <2> QED BY <2>1, <2>2
<1>3. n \in Nat /\ DOMAIN src = 1 .. n
  OBVIOUS
<1>4. \A i : K(i) \in 0 .. 25
  BY CodeRange DEF KeyCode
<1> HIDE DEF K
<1>5. \A i \in 1 .. n : e[i] = Away(src[i], K(i))
  BY <1>1, <1>3
<1>6. Len(e) = n + 1 /\ e[n + 1] = NUL /\ DOMAIN e = 1 .. n + 1
  BY <1>1, <1>3
<1> HIDE DEF e, n
<1>7. \A i \in 1 .. n : Letter(e[i]) <=> Letter(src[i])
  BY <1>4, <1>5, LetterBack
<1>8. ASSUME NEW i \in 1 .. n PROVE KeyCode(e, key, i) = K(i)
  <2>1. \A j \in 1 .. i - 1 : j \in 1 .. n
    BY <1>3
  <2>2. {j \in 1 .. i - 1 : Letter(e[j])} = {j \in 1 .. i - 1 : Letter(src[j])}
    BY <1>7, <2>1
  <2>3. Used(e, i) = Used(src, i)
    BY <2>2 DEF Used
  <2> QED BY <2>3 DEF KeyCode, K
<1>9. ASSUME NEW i \in 1 .. n PROVE b[i] = src[i]
  <2>1. i \in DOMAIN e
    BY <1>3, <1>6
  <2>2. b[i] = Home(e[i], K(i))
    BY <1>8, <2>1
  <2> QED BY <1>4, <1>5, <2>2, LetterBack
<1>10. b[n + 1] = NUL
  <2>1. ~Letter(NUL)
    BY DEF Letter, NUL, Capitals, Smalls
  <2>2. n + 1 \in DOMAIN e
    BY <1>3, <1>6
  <2> QED BY <1>6, <2>1, <2>2 DEF Moved, Home
<1>11. Len(b) = n + 1 /\ b \in Seq(Byte)
  <2>1. \A i \in 1 .. n + 1 : b[i] \in Byte
    <3>1. ASSUME NEW i \in 1 .. n + 1 PROVE b[i] \in Byte
      <4>1. i \in 1 .. n \/ i = n + 1
        BY <1>3
      <4>2. \A j \in 1 .. n : src[j] \in Byte
        BY <1>3
      <4>3. NUL \in Byte
        BY DEF NUL, Byte
      <4> HIDE DEF b
      <4> QED BY <1>9, <1>10, <4>1, <4>2, <4>3
    <3> QED BY <3>1
  <2>2. b = [i \in 1 .. n + 1 |-> b[i]]
    BY <1>6
  <2> HIDE DEF b
  <2>3. b \in [1 .. n + 1 -> Byte] /\ n + 1 \in Nat
    BY <1>3, <2>1, <2>2
  <2> QED BY <2>3, FunctionIsSeq
<1> HIDE DEF b, d
<1>12. Len(d) = n + 2 /\ d[n + 2] = NUL /\ \A i \in 1 .. n + 1 : d[i] = b[i]
  <2>1. Len(d) = Len(b) + 1 /\ d[Len(b) + 1] = NUL /\ \A i \in 1 .. Len(b) : d[i] = b[i]
    BY <1>2, <1>11
  <2>2. (n + 1) + 1 = n + 2
    BY <1>3
  <2> QED BY <1>11, <2>1, <2>2
<1>13. \A i \in n + 1 .. n + 2 : d[i] = NUL
  <2>1. \A i \in n + 1 .. n + 2 : i = n + 1 \/ i = n + 2
    BY <1>3
  <2>2. n + 1 \in 1 .. n + 1
    BY <1>3
  <2> QED BY <1>10, <1>12, <2>1, <2>2
<1>14. \A i \in 1 .. n : d[i] = src[i]
  <2>1. \A i \in 1 .. n : i \in 1 .. n + 1
    BY <1>3
  <2> QED BY <1>9, <1>12, <2>1
<1>15. n <= Len(d)
  BY <1>3, <1>12
<1> QED BY <1>12, <1>13, <1>14, <1>15 DEF ReadBack, n, d, e

-----------------------------------------------------------------------------
(***************************************************************************)
(* Base 64 reads back.                                                     *)
(***************************************************************************)
\* Parts of one length are laid at its multiples.
LEMMA LaidEvenly ==
  ASSUME NEW S, NEW seqs \in Seq(Seq(S)), NEW t, NEW loc, Laid(loc, seqs, t),
         \A i \in 1 .. Len(seqs) : Len(seqs[i]) = 8
  PROVE  \A i \in 0 .. Len(seqs) : loc[i] = 8 * i
<1> DEFINE n == Len(seqs)
           T == {i \in 0 .. n : loc[i] = 8 * i}
<1>1. n \in Nat
  OBVIOUS
<1>2. /\ loc \in [0 .. n -> Nat] /\ loc[0] = 0
      /\ \A i \in 1 .. n : loc[i] = loc[i - 1] + 8
  BY DEF Laid
<1> HIDE DEF n
<1>3. 0 <= n => 0 \in T
  BY <1>1, <1>2
<1>4. ASSUME NEW i \in 0 .. n - 1, i \in T PROVE i + 1 \in T
  <2>1. i + 1 \in 1 .. n /\ (i + 1) - 1 = i /\ i + 1 \in 0 .. n /\ 8 * (i + 1) = 8 * i + 8
    BY <1>1
  <2> QED BY <1>2, <1>4, <2>1
<1> HIDE DEF T
<1>5. 0 .. n \subseteq T
  <2>1. 0 \in Int /\ n \in Int
    BY <1>1
  <2> QED BY <1>3, <1>4, <2>1, Upwards
<1> QED BY <1>5 DEF T, n

LEMMA StreamBits ==
  ASSUME NEW src \in Seq(Byte)
  PROVE  /\ Len(BitStream(src)) = 8 * Len(src)
         /\ \A i \in 1 .. Len(src), k \in 1 .. 8 : BitStream(src)[8 * (i - 1) + k] = BitAt(src[i], 9 - k)
<1> DEFINE Part(i) == Reverse(Bits(<<src[i]>>))
           seqs == [i \in DOMAIN src |-> Part(i)]
           n == Len(src)
           u == BitStream(src)
<1>1. n \in Nat /\ DOMAIN src = 1 .. n /\ \A i \in 1 .. n : src[i] \in Byte
  OBVIOUS
<1>2. ASSUME NEW i \in 1 .. n
      PROVE  Part(i) \in Seq(Bit) /\ Len(Part(i)) = 8 /\ \A k \in 1 .. 8 : Part(i)[k] = BitAt(src[i], 9 - k)
  <2> DEFINE b == src[i]
             d == Bits(<<b>>)
  <2>1. b \in Byte
    BY <1>1
  <2> HIDE DEF b
  <2>2. d \in [1 .. 8 -> Bit] /\ 8 \in Nat
    BY <2>1, BitsOfOne
  <2>3. ASSUME NEW k \in 1 .. 8 PROVE d[k] = BitAt(b, k)
    <3>1. <<b>> \in Seq(Byte) /\ Len(<<b>>) = 1 /\ <<b>>[1] = b /\ 1 \in 1 .. 1 /\ 8 * (1 - 1) + k = k
      BY <2>1
    <3>2. d[8 * (1 - 1) + k] = BitAt(<<b>>[1], k)
      BY <3>1, BitsAre
    <3> QED BY <3>1, <3>2
  <2> HIDE DEF d
  <2>4. d \in Seq(Bit) /\ Len(d) = 8
    BY <2>2, FunctionIsSeq, ZenonT(60)
  <2>5. Reverse(d) \in Seq(Bit) /\ Len(Reverse(d)) = 8
    BY <2>4, ReverseIs
  <2>6. ASSUME NEW k \in 1 .. 8 PROVE Reverse(d)[k] = BitAt(b, 9 - k)
    <3>1. Reverse(d)[k] = d[(8 - k) + 1]
      BY <2>4 DEF Reverse
    <3>2. (8 - k) + 1 = 9 - k /\ 9 - k \in 1 .. 8
      OBVIOUS
    <3> QED BY <2>3, <3>1, <3>2
  <2> QED BY <2>5, <2>6 DEF d, b
<1> HIDE DEF Part
<1>3. seqs \in Seq(Seq(Bit)) /\ Len(seqs) = n /\ \A i \in 1 .. n : seqs[i] = Part(i)
  BY <1>1, <1>2
<1>4. u = FlattenSeq(seqs)
  BY DEF BitStream, Part
<1> HIDE DEF seqs, u, n
<1>5. PICK loc : Laid(loc, seqs, u)
  BY <1>3, <1>4, FlattenLaid
<1>6. \A i \in 0 .. n : loc[i] = 8 * i
  <2>1. \A i \in 1 .. Len(seqs) : Len(seqs[i]) = 8
    BY <1>2, <1>3
  <2>2. \A i \in 0 .. Len(seqs) : loc[i] = 8 * i
    BY <1>3, <1>5, <2>1, LaidEvenly
  <2> QED BY <1>3, <2>2
<1>7. /\ loc[n] = Len(u)
      /\ \A i \in 1 .. n : \A j \in 1 .. Len(seqs[i]) : u[loc[i - 1] + j] = seqs[i][j]
  BY <1>3, <1>5 DEF Laid
<1>8. Len(u) = 8 * n
  <2>1. n \in 0 .. n
    BY <1>1
  <2> QED BY <1>6, <1>7, <2>1
<1>9. ASSUME NEW i \in 1 .. n, NEW k \in 1 .. 8 PROVE u[8 * (i - 1) + k] = BitAt(src[i], 9 - k)
  <2>1. i - 1 \in 0 .. n
    BY <1>1
  <2>2. loc[i - 1] = 8 * (i - 1)
    BY <1>6, <2>1
  <2>3. Len(seqs[i]) = 8 /\ seqs[i][k] = BitAt(src[i], 9 - k)
    <3>1. seqs[i] = Part(i)
      BY <1>3
    <3>2. Len(Part(i)) = 8 /\ Part(i)[k] = BitAt(src[i], 9 - k)
      BY <1>2
    <3> QED BY <3>1, <3>2, Zenon
  <2>4. u[loc[i - 1] + k] = seqs[i][k]
    BY <1>7, <2>3
  <2> QED BY <2>2, <2>3, <2>4
<1> QED BY <1>8, <1>9 DEF u, n

\* The byte at a place, and 0 behind the last one.
ByteIn(src, i) == IF i \in 1 .. Len(src) THEN src[i] ELSE 0

LEMMA ByteInIs ==
  ASSUME NEW src \in Seq(Byte), NEW i
  PROVE  ByteIn(src, i) \in Byte
<1>1. 0 \in Byte
  BY DEF Byte
<1> QED BY <1>1 DEF ByteIn

Six == [i \in 1 .. 6 |-> 0]
Full(src) == BitStream(src) \o Six

LEMMA FullBits ==
  ASSUME NEW src \in Seq(Byte)
  PROVE  /\ Full(src) \in Seq(Bit) /\ Len(Full(src)) = 8 * Len(src) + 6
         /\ \A i \in 1 .. Len(src) + 1, k \in 1 .. 8 :
              8 * (i - 1) + k <= 8 * Len(src) + 6 => Full(src)[8 * (i - 1) + k] = BitAt(ByteIn(src, i), 9 - k)
<1> DEFINE u == BitStream(src)
           n == Len(src)
           f == Full(src)
<1>1. u \in Seq(Bit) /\ n \in Nat
  BY BitStreamIs
<1>2. Len(u) = 8 * n /\ \A i \in 1 .. n, k \in 1 .. 8 : u[8 * (i - 1) + k] = BitAt(src[i], 9 - k)
  BY StreamBits
<1>3. Six \in Seq(Bit) /\ Len(Six) = 6 /\ \A j \in 1 .. 6 : Six[j] = 0
  <2>1. Six \in [1 .. 6 -> Bit] /\ 6 \in Nat
    BY DEF Six, Bit
  <2>2. \A j \in 1 .. 6 : Six[j] = 0
    BY DEF Six
  <2> QED BY <2>1, <2>2, FunctionIsSeq, ZenonT(60)
<1>4. f = u \o Six
  BY DEF Full
<1> HIDE DEF u, n, f
<1>5. f \in Seq(Bit) /\ Len(f) = 8 * n + 6
  <2>1. Six \in Seq(Bit) /\ Len(Six) = 6
    BY <1>3
  <2>2. Len(u \o Six) = Len(u) + Len(Six) /\ u \o Six \in Seq(Bit)
    BY <1>1, <2>1, ConcatProperties
  <2> QED BY <1>2, <1>4, <2>1, <2>2
<1>6. \A p \in 1 .. Len(u) : f[p] = u[p]
  BY <1>1, <1>3, <1>4, InARow
<1>7. \A j \in 1 .. 6 : f[Len(u) + j] = 0
  <2>1. \A j \in 1 .. Len(Six) : Len(u) + j \in 1 .. Len(u \o Six) /\ (u \o Six)[Len(u) + j] = Six[j]
    <3>1. Six \in Seq(Bit)
      BY <1>3
    <3> QED BY <1>1, <3>1, InARow
  <2> QED BY <1>3, <1>4, <2>1
<1>8. ASSUME NEW i \in 1 .. n + 1, NEW k \in 1 .. 8, 8 * (i - 1) + k <= 8 * n + 6
      PROVE  f[8 * (i - 1) + k] = BitAt(ByteIn(src, i), 9 - k)
  <2>1. CASE i \in 1 .. n
    <3>1. 8 * (i - 1) + k \in 1 .. Len(u)
      BY <1>1, <1>2, <2>1
    <3> QED BY <1>2, <1>6, <2>1, <3>1 DEF ByteIn, n
  <2>2. CASE i = n + 1
    <3>1. k \in 1 .. 6 /\ 8 * (i - 1) + k = Len(u) + k
      BY <1>1, <1>2, <1>8, <2>2
    <3>2. ByteIn(src, i) = 0
      <4>1. ~(i \in 1 .. n)
        BY <1>1, <2>2
      <4> QED BY <4>1 DEF ByteIn, n
    <3>3. 0 \in Byte /\ 9 - k \in 1 .. 8
      BY DEF Byte
    <3>4. BitAt(0, 9 - k) = 0
      <4>1. /\ BitAt(0, 1) = 0 % 2 /\ BitAt(0, 2) = (0 \div 2) % 2
            /\ BitAt(0, 3) = (0 \div 4) % 2 /\ BitAt(0, 4) = (0 \div 8) % 2
            /\ BitAt(0, 5) = (0 \div 16) % 2 /\ BitAt(0, 6) = (0 \div 32) % 2
            /\ BitAt(0, 7) = (0 \div 64) % 2 /\ BitAt(0, 8) = (0 \div 128) % 2
        BY <3>3, BitAtIs
      <4>2. \A j \in 1 .. 8 : BitAt(0, j) = 0
        BY <4>1
      <4> QED BY <3>3, <4>2
    <3> QED BY <1>7, <3>1, <3>2, <3>4
  <2>3. i \in 1 .. n \/ i = n + 1
    BY <1>1
  <2> QED BY <2>1, <2>2, <2>3
<1> QED BY <1>5, <1>8 DEF f, n

\* Six bits, highest first, as a number.
LEMMA SixBits ==
  ASSUME NEW s \in Seq(Bit), Len(s) = 6
  PROVE  Number(s) = 32 * s[1] + 16 * s[2] + 8 * s[3] + 4 * s[4] + 2 * s[5] + s[6]
<1> DEFINE c == [k \in 1 .. 8 |-> IF k <= Len(s) THEN s[Len(s) + 1 - k] ELSE 0]
<1>1. Number(s) = ByteOf(c)
  BY DEF Number
<1>2. \A j \in 1 .. 6 : s[j] \in Int
  <2>0. \A j \in 1 .. Len(s) : s[j] \in Bit
    BY ElementOfSeq
  <2>1. \A j \in 1 .. 6 : s[j] \in Bit
    BY <2>0
  <2>2. \A y \in Bit : y \in Int
    BY DEF Bit
  <2> QED BY <2>1, <2>2
<1>3. /\ 6 + 1 - 1 = 6 /\ 6 + 1 - 2 = 5 /\ 6 + 1 - 3 = 4 /\ 6 + 1 - 4 = 3 /\ 6 + 1 - 5 = 2 /\ 6 + 1 - 6 = 1
  OBVIOUS
<1>4. c[1] = s[6] /\ c[2] = s[5] /\ c[3] = s[4] /\ c[4] = s[3] /\ c[5] = s[2] /\ c[6] = s[1] /\ c[7] = 0 /\ c[8] = 0
  BY <1>3
<1> HIDE DEF c
<1> DEFINE x1 == s[1]
           x2 == s[2]
           x3 == s[3]
           x4 == s[4]
           x5 == s[5]
           x6 == s[6]
<1>5. x1 \in Int /\ x2 \in Int /\ x3 \in Int /\ x4 \in Int /\ x5 \in Int /\ x6 \in Int
  BY <1>2
<1>6. ByteOf(c) = x6 + 2 * x5 + 4 * x4 + 8 * x3 + 16 * x2 + 32 * x1 + 64 * 0 + 128 * 0
  BY <1>4 DEF ByteOf
<1> HIDE DEF x1, x2, x3, x4, x5, x6
<1>7. ByteOf(c) = 32 * x1 + 16 * x2 + 8 * x3 + 4 * x4 + 2 * x5 + x6
  BY <1>5, <1>6
<1> QED BY <1>1, <1>7 DEF x1, x2, x3, x4, x5, x6

\* What the four groups of three bytes hold.
LEMMA SextetSums ==
  ASSUME NEW a \in Byte, NEW b \in Byte, NEW c \in Byte
  PROVE  /\ 32 * BitAt(a, 8) + 16 * BitAt(a, 7) + 8 * BitAt(a, 6) + 4 * BitAt(a, 5) + 2 * BitAt(a, 4) + BitAt(a, 3)
              = a \div 4
         /\ 32 * BitAt(a, 2) + 16 * BitAt(a, 1) + 8 * BitAt(b, 8) + 4 * BitAt(b, 7) + 2 * BitAt(b, 6) + BitAt(b, 5)
              = 16 * (a % 4) + b \div 16
         /\ 32 * BitAt(b, 4) + 16 * BitAt(b, 3) + 8 * BitAt(b, 2) + 4 * BitAt(b, 1) + 2 * BitAt(c, 8) + BitAt(c, 7)
              = 4 * (b % 16) + c \div 64
         /\ 32 * BitAt(c, 6) + 16 * BitAt(c, 5) + 8 * BitAt(c, 4) + 4 * BitAt(c, 3) + 2 * BitAt(c, 2) + BitAt(c, 1)
              = c % 64
<1>1. ASSUME NEW x \in Byte
      PROVE  /\ x \div 64 = 2 * BitAt(x, 8) + BitAt(x, 7)
             /\ x \div 16 = 8 * BitAt(x, 8) + 4 * BitAt(x, 7) + 2 * BitAt(x, 6) + BitAt(x, 5)
             /\ x \div 4 = 32 * BitAt(x, 8) + 16 * BitAt(x, 7) + 8 * BitAt(x, 6) + 4 * BitAt(x, 5) + 2 * BitAt(x, 4) + BitAt(x, 3)
             /\ x % 4 = 2 * BitAt(x, 2) + BitAt(x, 1)
             /\ x % 16 = 8 * BitAt(x, 4) + 4 * BitAt(x, 3) + 2 * BitAt(x, 2) + BitAt(x, 1)
             /\ x % 64 = 32 * BitAt(x, 6) + 16 * BitAt(x, 5) + 8 * BitAt(x, 4) + 4 * BitAt(x, 3) + 2 * BitAt(x, 2) + BitAt(x, 1)
             /\ \A k \in 1 .. 8 : BitAt(x, k) \in Int
  <2>1. /\ BitAt(x, 1) = x % 2 /\ BitAt(x, 2) = (x \div 2) % 2
        /\ BitAt(x, 3) = (x \div 4) % 2 /\ BitAt(x, 4) = (x \div 8) % 2
        /\ BitAt(x, 5) = (x \div 16) % 2 /\ BitAt(x, 6) = (x \div 32) % 2
        /\ BitAt(x, 7) = (x \div 64) % 2 /\ BitAt(x, 8) = (x \div 128) % 2
        /\ \A k \in 1 .. 8 : BitAt(x, k) \in Bit
    BY BitAtIs
  <2>2. x \in Int /\ 0 <= x /\ x <= 255
    BY DEF Byte
  <2>3. x \div 64 = 2 * ((x \div 128) % 2) + ((x \div 64) % 2)
    BY <2>2
  <2>4. x \div 16 = 8 * ((x \div 128) % 2) + 4 * ((x \div 64) % 2) + 2 * ((x \div 32) % 2) + ((x \div 16) % 2)
    BY <2>2
  <2>5. x \div 4 = 32 * ((x \div 128) % 2) + 16 * ((x \div 64) % 2) + 8 * ((x \div 32) % 2) + 4 * ((x \div 16) % 2)
                   + 2 * ((x \div 8) % 2) + ((x \div 4) % 2)
    BY <2>2
  <2>6. x % 4 = 2 * ((x \div 2) % 2) + (x % 2)
    BY <2>2
  <2>7. x % 16 = 8 * ((x \div 8) % 2) + 4 * ((x \div 4) % 2) + 2 * ((x \div 2) % 2) + (x % 2)
    BY <2>2
  <2>8. x % 64 = 32 * ((x \div 32) % 2) + 16 * ((x \div 16) % 2) + 8 * ((x \div 8) % 2) + 4 * ((x \div 4) % 2)
                 + 2 * ((x \div 2) % 2) + (x % 2)
    BY <2>2
  <2>9. \A y \in Bit : y \in Int
    BY DEF Bit
  <2> QED BY <2>1, <2>3, <2>4, <2>5, <2>6, <2>7, <2>8, <2>9
<1>2. \A k \in 1 .. 8 : BitAt(a, k) \in Int /\ BitAt(b, k) \in Int /\ BitAt(c, k) \in Int
  BY <1>1
<1> DEFINE A(k) == BitAt(a, k)
           B(k) == BitAt(b, k)
           C(k) == BitAt(c, k)
<1>3. 32 * A(8) + 16 * A(7) + 8 * A(6) + 4 * A(5) + 2 * A(4) + A(3) = a \div 4
  BY <1>1
<1>4. 32 * A(2) + 16 * A(1) + 8 * B(8) + 4 * B(7) + 2 * B(6) + B(5) = 16 * (a % 4) + b \div 16
  <2>1. a % 4 = 2 * A(2) + A(1) /\ b \div 16 = 8 * B(8) + 4 * B(7) + 2 * B(6) + B(5)
    BY <1>1
  <2>2. A(2) \in Int /\ A(1) \in Int /\ B(8) \in Int /\ B(7) \in Int /\ B(6) \in Int /\ B(5) \in Int
    BY <1>2
  <2> HIDE DEF A, B
  <2> QED BY <2>1, <2>2
<1>5. 32 * B(4) + 16 * B(3) + 8 * B(2) + 4 * B(1) + 2 * C(8) + C(7) = 4 * (b % 16) + c \div 64
  <2>1. b % 16 = 8 * B(4) + 4 * B(3) + 2 * B(2) + B(1) /\ c \div 64 = 2 * C(8) + C(7)
    BY <1>1
  <2>2. B(4) \in Int /\ B(3) \in Int /\ B(2) \in Int /\ B(1) \in Int /\ C(8) \in Int /\ C(7) \in Int
    BY <1>2
  <2> HIDE DEF C, B
  <2> QED BY <2>1, <2>2
<1>6. 32 * C(6) + 16 * C(5) + 8 * C(4) + 4 * C(3) + 2 * C(2) + C(1) = c % 64
  BY <1>1
<1> QED BY <1>3, <1>4, <1>5, <1>6

\* The number of groups of six bits, and the groups.
Count6(src) == (8 * Len(src) + 5) \div 6
Groups6(src) == Groups(BitStream(src), 6)

\* Group i consists of the six bits behind place p.
SextetAt(src, i, p) ==
  /\ 6 * i <= 8 * Len(src) + 5
  /\ Groups6(src)[i] = 32 * Full(src)[p + 1] + 16 * Full(src)[p + 2] + 8 * Full(src)[p + 3]
                       + 4 * Full(src)[p + 4] + 2 * Full(src)[p + 5] + Full(src)[p + 6]

LEMMA GroupAt ==
  ASSUME NEW src \in Seq(Byte), NEW i \in 1 .. Count6(src), NEW p, p = 6 * (i - 1)
  PROVE  SextetAt(src, i, p)
<1> SUFFICES /\ 6 * i <= 8 * Len(src) + 5
             /\ Groups6(src)[i] = 32 * Full(src)[p + 1] + 16 * Full(src)[p + 2] + 8 * Full(src)[p + 3]
                                  + 4 * Full(src)[p + 4] + 2 * Full(src)[p + 5] + Full(src)[p + 6]
  BY DEF SextetAt
<1> DEFINE n == Len(src)
           f == Full(src)
           s == SubSeq(f, 6 * (i - 1) + 1, 6 * i)
<1>1. n \in Nat /\ i \in Int /\ i >= 1 /\ i <= (8 * n + 5) \div 6
  BY DEF Count6
<1>2. Len(BitStream(src)) = 8 * n
  BY StreamBits
<1>3. f \in Seq(Bit) /\ Len(f) = 8 * n + 6
  BY FullBits
<1>4. Groups6(src)[i] = Number(s)
  <2>1. Groups6(src) = [j \in 1 .. (Len(BitStream(src)) + 6 - 1) \div 6 |->
                          Number(SubSeq(f, 6 * (j - 1) + 1, 6 * j))]
    BY DEF Groups6, Groups, Full, Six
  <2>2. Len(BitStream(src)) + 6 - 1 = 8 * n + 5
    BY <1>1, <1>2
  <2>3. i \in 1 .. (Len(BitStream(src)) + 6 - 1) \div 6
    BY <1>1, <2>2
  <2> QED BY <2>1, <2>3
<1> HIDE DEF n, f
<1>5. 6 * i <= 8 * n + 5
  BY <1>1
<1>6. /\ 6 * (i - 1) + 1 \in Int /\ 6 * i \in Int /\ 6 * (i - 1) + 1 >= 1 /\ 6 * i <= Len(f)
      /\ 6 * (i - 1) + 1 <= 6 * i /\ 6 * i - (6 * (i - 1) + 1) + 1 = 6
  BY <1>1, <1>3, <1>5
<1>7. s \in Seq(Bit) /\ Len(s) = 6 /\ \A q \in 1 .. 6 : s[q] = f[(6 * (i - 1) + 1) + q - 1]
  <2> DEFINE x == 6 * (i - 1) + 1
             y == 6 * i
  <2>1. x \in Int /\ y \in Int /\ x <= y /\ y - x + 1 = 6 /\ x >= 1 /\ y <= Len(f) /\ Len(f) \in Nat
    BY <1>3, <1>6
  <2> HIDE DEF x, y
  <2>2. \A j \in x .. y : f[j] \in Bit
    <3>1. \A j \in x .. y : j \in 1 .. Len(f)
      BY <2>1
    <3> QED BY <1>3, <3>1, ElementOfSeq
  <2>3. /\ SubSeq(f, x, y) \in Seq(Bit)
        /\ Len(SubSeq(f, x, y)) = IF x <= y THEN y - x + 1 ELSE 0
        /\ \A q \in 1 .. y - x + 1 : SubSeq(f, x, y)[q] = f[x + q - 1]
    BY <2>1, <2>2, SubSeqProperties, SMTT(30)
  <2>4. \A q \in 1 .. 6 : SubSeq(f, x, y)[q] = f[x + q - 1]
    BY <2>1, <2>3
  <2> QED BY <2>1, <2>3, <2>4 DEF x, y
<1> HIDE DEF s
<1>8. Number(s) = 32 * s[1] + 16 * s[2] + 8 * s[3] + 4 * s[4] + 2 * s[5] + s[6]
  BY <1>7, SixBits
<1>9. \A q \in 1 .. 6 : s[q] = f[p + q]
  <2>1. \A q \in 1 .. 6 : (6 * (i - 1) + 1) + q - 1 = p + q
    BY <1>1
  <2> QED BY <1>7, <2>1
<1>10. s[1] = f[p + 1] /\ s[2] = f[p + 2] /\ s[3] = f[p + 3] /\ s[4] = f[p + 4] /\ s[5] = f[p + 5] /\ s[6] = f[p + 6]
  BY <1>9
<1> QED BY <1>4, <1>5, <1>8, <1>10 DEF n, f

LEMMA FullAt ==
  ASSUME NEW src \in Seq(Byte), NEW x \in Nat \ {0}, NEW y \in 1 .. 8, 8 * (x - 1) + y <= 8 * Len(src) + 5,
         NEW p, p = 8 * (x - 1) + y
  PROVE  Full(src)[p] = BitAt(ByteIn(src, x), 9 - y)
<1>1. Len(src) \in Nat
  OBVIOUS
<1>2. x \in 1 .. Len(src) + 1 /\ 8 * (x - 1) + y <= 8 * Len(src) + 6
  BY <1>1
<1> QED BY <1>2, FullBits

\* The four groups of the k-th three bytes.
LEMMA Quads ==
  ASSUME NEW src \in Seq(Byte), NEW k \in Nat \ {0}, NEW a, NEW b, NEW c,
         a = ByteIn(src, 3 * k - 2), b = ByteIn(src, 3 * k - 1), c = ByteIn(src, 3 * k)
  PROVE  /\ 4 * k - 3 <= Count6(src) => Groups6(src)[4 * k - 3] = a \div 4
         /\ 4 * k - 2 <= Count6(src) => Groups6(src)[4 * k - 2] = 16 * (a % 4) + b \div 16
         /\ 4 * k - 1 <= Count6(src) => Groups6(src)[4 * k - 1] = 4 * (b % 16) + c \div 64
         /\ 4 * k <= Count6(src) => Groups6(src)[4 * k] = c % 64
<1> DEFINE f == Full(src)
           n == Len(src)
           N == Count6(src)
           g == Groups6(src)
           at0 == 24 * (k - 1)
           A(j) == BitAt(a, j)
           B(j) == BitAt(b, j)
           C(j) == BitAt(c, j)
<1>1. a \in Byte /\ b \in Byte /\ c \in Byte
  BY ByteInIs
<1>2. /\ 32 * A(8) + 16 * A(7) + 8 * A(6) + 4 * A(5) + 2 * A(4) + A(3) = a \div 4
      /\ 32 * A(2) + 16 * A(1) + 8 * B(8) + 4 * B(7) + 2 * B(6) + B(5) = 16 * (a % 4) + b \div 16
      /\ 32 * B(4) + 16 * B(3) + 8 * B(2) + 4 * B(1) + 2 * C(8) + C(7) = 4 * (b % 16) + c \div 64
      /\ 32 * C(6) + 16 * C(5) + 8 * C(4) + 4 * C(3) + 2 * C(2) + C(1) = c % 64
  BY <1>1, SextetSums
<1>3. n \in Nat /\ k \in Int /\ k >= 1 /\ N = (8 * n + 5) \div 6 /\ N \in Int
  BY DEF Count6
<1>4. ASSUME NEW y \in 1 .. 8, at0 + y <= 8 * n + 5 PROVE f[at0 + y] = A(9 - y)
  <2>1. 3 * k - 2 \in Nat \ {0} /\ 8 * ((3 * k - 2) - 1) + y = at0 + y
    BY <1>3
  <2>2. Full(src)[at0 + y] = BitAt(ByteIn(src, 3 * k - 2), 9 - y)
    BY <1>4, <2>1, FullAt
  <2> QED BY <2>2
<1>5. ASSUME NEW y \in 1 .. 8, at0 + (8 + y) <= 8 * n + 5 PROVE f[at0 + (8 + y)] = B(9 - y)
  <2>1. 3 * k - 1 \in Nat \ {0} /\ 8 * ((3 * k - 1) - 1) + y = at0 + (8 + y)
    BY <1>3
  <2>2. Full(src)[at0 + (8 + y)] = BitAt(ByteIn(src, 3 * k - 1), 9 - y)
    BY <1>5, <2>1, FullAt
  <2> QED BY <2>2
<1>6. ASSUME NEW y \in 1 .. 8, at0 + (16 + y) <= 8 * n + 5 PROVE f[at0 + (16 + y)] = C(9 - y)
  <2>1. 3 * k \in Nat \ {0} /\ 8 * ((3 * k) - 1) + y = at0 + (16 + y)
    BY <1>3
  <2>2. Full(src)[at0 + (16 + y)] = BitAt(ByteIn(src, 3 * k), 9 - y)
    BY <1>6, <2>1, FullAt
  <2> QED BY <2>2
<1>61. at0 \in Int
  BY <1>3
<1>7. ASSUME 4 * k - 3 <= N PROVE g[4 * k - 3] = a \div 4
  <2>1. 4 * k - 3 \in 1 .. N /\ at0 = 6 * ((4 * k - 3) - 1) /\ 6 * (4 * k - 3) = at0 + 6
    BY <1>3, <1>7
  <2>10. SextetAt(src, 4 * k - 3, at0)
    BY <2>1, GroupAt, Zenon
  <2>2. at0 + 6 <= 8 * n + 5
        /\ g[4 * k - 3] = 32 * f[at0 + 1] + 16 * f[at0 + 2] + 8 * f[at0 + 3] + 4 * f[at0 + 4] + 2 * f[at0 + 5] + f[at0 + 6]
    BY <2>1, <2>10 DEF SextetAt
  <2>20. at0 + 6 <= 8 * n + 5 /\ n \in Nat /\ at0 \in Int
    BY <1>3, <1>61, <2>2
  <2> HIDE DEF at0, n
  <2>3. \A y \in 1 .. 6 : f[at0 + y] = A(9 - y)
    <3>1. \A y \in 1 .. 6 : y \in 1 .. 8 /\ at0 + y <= 8 * n + 5
      BY <2>20
    <3> QED BY <1>4, <3>1
  <2>4. 9 - 1 = 8 /\ 9 - 2 = 7 /\ 9 - 3 = 6 /\ 9 - 4 = 5 /\ 9 - 5 = 4 /\ 9 - 6 = 3
    OBVIOUS
  <2> HIDE DEF A, f, g
  <2>5. f[at0 + 1] = A(8) /\ f[at0 + 2] = A(7) /\ f[at0 + 3] = A(6) /\ f[at0 + 4] = A(5) /\ f[at0 + 5] = A(4) /\ f[at0 + 6] = A(3)
    BY <2>3, <2>4
  <2> QED BY <1>2, <2>2, <2>5
<1>8. ASSUME 4 * k - 2 <= N PROVE g[4 * k - 2] = 16 * (a % 4) + b \div 16
  <2>1. 4 * k - 2 \in 1 .. N /\ at0 + 6 = 6 * ((4 * k - 2) - 1) /\ 6 * (4 * k - 2) = at0 + 12
    BY <1>3, <1>8
  <2>10. SextetAt(src, 4 * k - 2, at0 + 6)
    BY <2>1, GroupAt, Zenon
  <2>2. at0 + 12 <= 8 * n + 5
        /\ g[4 * k - 2] = 32 * f[(at0 + 6) + 1] + 16 * f[(at0 + 6) + 2] + 8 * f[(at0 + 6) + 3]
                          + 4 * f[(at0 + 6) + 4] + 2 * f[(at0 + 6) + 5] + f[(at0 + 6) + 6]
    BY <2>1, <2>10 DEF SextetAt
  <2>20. at0 + 12 <= 8 * n + 5 /\ n \in Nat /\ at0 \in Int
    BY <1>3, <1>61, <2>2
  <2> HIDE DEF at0, n
  <2>3. f[at0 + 7] = A(9 - 7) /\ f[at0 + 8] = A(9 - 8)
    <3>1. at0 + 7 <= 8 * n + 5 /\ at0 + 8 <= 8 * n + 5 /\ 7 \in 1 .. 8 /\ 8 \in 1 .. 8
      BY <2>20
    <3> QED BY <1>4, <3>1
  <2>4. \A y \in 1 .. 4 : f[at0 + (8 + y)] = B(9 - y)
    <3>1. \A y \in 1 .. 4 : y \in 1 .. 8 /\ at0 + (8 + y) <= 8 * n + 5
      BY <2>20
    <3> QED BY <1>5, <3>1
  <2>5. /\ 9 - 7 = 2 /\ 9 - 8 = 1 /\ 9 - 1 = 8 /\ 9 - 2 = 7 /\ 9 - 3 = 6 /\ 9 - 4 = 5
        /\ (at0 + 6) + 1 = at0 + 7 /\ (at0 + 6) + 2 = at0 + 8 /\ (at0 + 6) + 3 = at0 + (8 + 1)
        /\ (at0 + 6) + 4 = at0 + (8 + 2) /\ (at0 + 6) + 5 = at0 + (8 + 3) /\ (at0 + 6) + 6 = at0 + (8 + 4)
    BY <1>61
  <2>6. 1 \in 1 .. 4 /\ 2 \in 1 .. 4 /\ 3 \in 1 .. 4 /\ 4 \in 1 .. 4
    OBVIOUS
  <2> HIDE DEF A, B, f, g
  <2>7. f[(at0 + 6) + 1] = A(2) /\ f[(at0 + 6) + 2] = A(1)
    BY <2>3, <2>5
  <2>8. f[(at0 + 6) + 3] = B(8) /\ f[(at0 + 6) + 4] = B(7) /\ f[(at0 + 6) + 5] = B(6) /\ f[(at0 + 6) + 6] = B(5)
    BY <2>4, <2>5, <2>6
  <2> QED BY <1>2, <2>2, <2>7, <2>8
<1>9. ASSUME 4 * k - 1 <= N PROVE g[4 * k - 1] = 4 * (b % 16) + c \div 64
  <2>1. 4 * k - 1 \in 1 .. N /\ at0 + 12 = 6 * ((4 * k - 1) - 1) /\ 6 * (4 * k - 1) = at0 + 18
    BY <1>3, <1>9
  <2>10. SextetAt(src, 4 * k - 1, at0 + 12)
    BY <2>1, GroupAt, Zenon
  <2>2. at0 + 18 <= 8 * n + 5
        /\ g[4 * k - 1] = 32 * f[(at0 + 12) + 1] + 16 * f[(at0 + 12) + 2] + 8 * f[(at0 + 12) + 3]
                          + 4 * f[(at0 + 12) + 4] + 2 * f[(at0 + 12) + 5] + f[(at0 + 12) + 6]
    BY <2>1, <2>10 DEF SextetAt
  <2>20. at0 + 18 <= 8 * n + 5 /\ n \in Nat /\ at0 \in Int
    BY <1>3, <1>61, <2>2
  <2> HIDE DEF at0, n
  <2>3. \A y \in 5 .. 8 : f[at0 + (8 + y)] = B(9 - y)
    <3>1. \A y \in 5 .. 8 : y \in 1 .. 8 /\ at0 + (8 + y) <= 8 * n + 5
      BY <2>20
    <3> QED BY <1>5, <3>1
  <2>4. \A y \in 1 .. 2 : f[at0 + (16 + y)] = C(9 - y)
    <3>1. \A y \in 1 .. 2 : y \in 1 .. 8 /\ at0 + (16 + y) <= 8 * n + 5
      BY <2>20
    <3> QED BY <1>6, <3>1
  <2>5. /\ 9 - 5 = 4 /\ 9 - 6 = 3 /\ 9 - 7 = 2 /\ 9 - 8 = 1 /\ 9 - 1 = 8 /\ 9 - 2 = 7
        /\ (at0 + 12) + 1 = at0 + (8 + 5) /\ (at0 + 12) + 2 = at0 + (8 + 6) /\ (at0 + 12) + 3 = at0 + (8 + 7)
        /\ (at0 + 12) + 4 = at0 + (8 + 8) /\ (at0 + 12) + 5 = at0 + (16 + 1) /\ (at0 + 12) + 6 = at0 + (16 + 2)
    BY <1>61
  <2>6. 5 \in 5 .. 8 /\ 6 \in 5 .. 8 /\ 7 \in 5 .. 8 /\ 8 \in 5 .. 8 /\ 1 \in 1 .. 2 /\ 2 \in 1 .. 2
    OBVIOUS
  <2> HIDE DEF B, C, f, g
  <2>7. f[(at0 + 12) + 1] = B(4) /\ f[(at0 + 12) + 2] = B(3) /\ f[(at0 + 12) + 3] = B(2) /\ f[(at0 + 12) + 4] = B(1)
    BY <2>3, <2>5, <2>6
  <2>8. f[(at0 + 12) + 5] = C(8) /\ f[(at0 + 12) + 6] = C(7)
    BY <2>4, <2>5, <2>6
  <2> QED BY <1>2, <2>2, <2>7, <2>8
<1>10. ASSUME 4 * k <= N PROVE g[4 * k] = c % 64
  <2>1. 4 * k \in 1 .. N /\ at0 + 18 = 6 * ((4 * k) - 1) /\ 6 * (4 * k) = at0 + 24
    BY <1>3, <1>10
  <2>10. SextetAt(src, 4 * k, at0 + 18)
    BY <2>1, GroupAt, Zenon
  <2>2. at0 + 24 <= 8 * n + 5
        /\ g[4 * k] = 32 * f[(at0 + 18) + 1] + 16 * f[(at0 + 18) + 2] + 8 * f[(at0 + 18) + 3]
                      + 4 * f[(at0 + 18) + 4] + 2 * f[(at0 + 18) + 5] + f[(at0 + 18) + 6]
    BY <2>1, <2>10 DEF SextetAt
  <2>20. at0 + 24 <= 8 * n + 5 /\ n \in Nat /\ at0 \in Int
    BY <1>3, <1>61, <2>2
  <2> HIDE DEF at0, n
  <2>3. \A y \in 3 .. 8 : f[at0 + (16 + y)] = C(9 - y)
    <3>1. \A y \in 3 .. 8 : y \in 1 .. 8 /\ at0 + (16 + y) <= 8 * n + 5
      BY <2>20
    <3> QED BY <1>6, <3>1
  <2>4. /\ 9 - 3 = 6 /\ 9 - 4 = 5 /\ 9 - 5 = 4 /\ 9 - 6 = 3 /\ 9 - 7 = 2 /\ 9 - 8 = 1
        /\ (at0 + 18) + 1 = at0 + (16 + 3) /\ (at0 + 18) + 2 = at0 + (16 + 4) /\ (at0 + 18) + 3 = at0 + (16 + 5)
        /\ (at0 + 18) + 4 = at0 + (16 + 6) /\ (at0 + 18) + 5 = at0 + (16 + 7) /\ (at0 + 18) + 6 = at0 + (16 + 8)
    BY <1>61
  <2>5. 3 \in 3 .. 8 /\ 4 \in 3 .. 8 /\ 5 \in 3 .. 8 /\ 6 \in 3 .. 8 /\ 7 \in 3 .. 8 /\ 8 \in 3 .. 8
    OBVIOUS
  <2> HIDE DEF C, f, g
  <2>6. /\ f[(at0 + 18) + 1] = C(6) /\ f[(at0 + 18) + 2] = C(5) /\ f[(at0 + 18) + 3] = C(4)
        /\ f[(at0 + 18) + 4] = C(3) /\ f[(at0 + 18) + 5] = C(2) /\ f[(at0 + 18) + 6] = C(1)
    BY <2>3, <2>4, <2>5
  <2> QED BY <1>2, <2>2, <2>6
<1> QED BY <1>7, <1>8, <1>9, <1>10

LEMMA IndexOfMap ==
  ASSUME NEW v \in 0 .. 63
  PROVE  base64_index(base64_map(v)) = v
<1>1. CASE v \in 0 .. 25
  <2>1. base64_map(v) = 65 + v
    BY <1>1 DEF base64_map
  <2>2. 65 + v \in Capitals
    BY <1>1 DEF Capitals
  <2> DEFINE ch == 65 + v
  <2>3. base64_index(ch) = ch - 65
    <3>1. ch \in Capitals /\ ch \notin Smalls /\ ch \notin Digits /\ ch # 43 /\ ch # 47 /\ ch \in Int
      BY <1>1, <2>2 DEF Capitals, Smalls, Digits
    <3> HIDE DEF ch
    <3> QED BY <3>1 DEF base64_index
  <2>4. ch - 65 = v
    OBVIOUS
  <2> QED BY <2>1, <2>3, <2>4
<1>2. CASE v \in 26 .. 51
  <2>1. base64_map(v) = 97 + v - 26
    BY <1>2 DEF base64_map
  <2>2. 97 + v - 26 \notin Capitals /\ 97 + v - 26 \in Smalls
    BY <1>2 DEF Capitals, Smalls
  <2> DEFINE ch == 97 + v - 26
  <2>3. base64_index(ch) = ch - 97 + 26
    <3>1. ch \notin Capitals /\ ch \in Smalls /\ ch \notin Digits /\ ch # 43 /\ ch # 47 /\ ch \in Int
      BY <1>2, <2>2 DEF Capitals, Smalls, Digits
    <3> HIDE DEF ch
    <3> QED BY <3>1 DEF base64_index
  <2>4. ch - 97 + 26 = v
    OBVIOUS
  <2> QED BY <2>1, <2>3, <2>4
<1>3. CASE v \in 52 .. 61
  <2>1. base64_map(v) = 48 + v - 52
    BY <1>3 DEF base64_map
  <2>2. 48 + v - 52 \notin Capitals /\ 48 + v - 52 \notin Smalls /\ 48 + v - 52 \in Digits
    BY <1>3 DEF Capitals, Smalls, Digits
  <2> DEFINE ch == 48 + v - 52
  <2>3. base64_index(ch) = ch - 48 + 52
    <3>1. ch \notin Capitals /\ ch \notin Smalls /\ ch \in Digits /\ ch # 43 /\ ch # 47 /\ ch \in Int
      BY <1>3, <2>2 DEF Capitals, Smalls, Digits
    <3> HIDE DEF ch
    <3> QED BY <3>1 DEF base64_index
  <2>4. ch - 48 + 52 = v
    OBVIOUS
  <2> QED BY <2>1, <2>3, <2>4
<1>4. CASE v = 62
  <2>1. base64_map(v) = 43
    BY <1>4 DEF base64_map
  <2>2. 43 \notin Capitals /\ 43 \notin Smalls /\ 43 \notin Digits
    BY DEF Capitals, Smalls, Digits
  <2>3. base64_index(43) = 62
    BY <2>2 DEF base64_index
  <2> QED BY <1>4, <2>1, <2>3
<1>5. CASE v = 63
  <2>1. base64_map(v) = 47
    BY <1>5 DEF base64_map
  <2>2. 47 \notin Capitals /\ 47 \notin Smalls /\ 47 \notin Digits
    BY DEF Capitals, Smalls, Digits
  <2>3. base64_index(47) = 63
    BY <2>2 DEF base64_index
  <2> QED BY <1>5, <2>1, <2>3
<1> QED BY <1>1, <1>2, <1>3, <1>4, <1>5

LEMMA IndexOfEqual == base64_index(Equal) = 64
<1>1. Equal \notin Capitals /\ Equal \notin Smalls /\ Equal \notin Digits /\ Equal # 43 /\ Equal # 47
  BY DEF Equal, Capitals, Smalls, Digits
<1> QED BY <1>1 DEF base64_index

\* The number of blocks, and how many groups and signs of padding they are made of.
Blocks64(src) == (Len(src) + 2) \div 3

LEMMA Padding ==
  ASSUME NEW n \in Nat
  PROVE  (8 * n + 5) \div 6 + ((3 - (n % 3)) % 3) = 4 * ((n + 2) \div 3)
<1> DEFINE m == n \div 3
<1>1. m \in Nat /\ (n = 3 * m \/ n = 3 * m + 1 \/ n = 3 * m + 2)
  OBVIOUS
<1> HIDE DEF m
<1>2. CASE n = 3 * m
  <2>1. (8 * n + 5) \div 6 = 4 * m /\ n % 3 = 0 /\ (n + 2) \div 3 = m /\ (3 - 0) % 3 = 0
    BY <1>1, <1>2
  <2> QED BY <1>1, <2>1
<1>3. CASE n = 3 * m + 1
  <2>1. (8 * n + 5) \div 6 = 4 * m + 2 /\ n % 3 = 1 /\ (n + 2) \div 3 = m + 1 /\ (3 - 1) % 3 = 2
    BY <1>1, <1>3
  <2> QED BY <1>1, <2>1
<1>4. CASE n = 3 * m + 2
  <2>1. (8 * n + 5) \div 6 = 4 * m + 3 /\ n % 3 = 2 /\ (n + 2) \div 3 = m + 1 /\ (3 - 2) % 3 = 1
    BY <1>1, <1>4
  <2> QED BY <1>1, <2>1
<1> QED BY <1>1, <1>2, <1>3, <1>4

\* What the decoder sees in the text: the groups, the padding as 64, a NUL.
LEMMA TextOf64 ==
  ASSUME NEW src \in Seq(Byte), NEW t, t = base64_encode(src)
  PROVE  /\ t \in Seq(Byte) /\ Len(t) = 4 * Blocks64(src) + 1
         /\ Count6(src) \in Nat /\ Count6(src) <= 4 * Blocks64(src)
         /\ \A i \in 1 .. Count6(src) : base64_index(t[i]) = Groups6(src)[i]
         /\ \A i \in Count6(src) + 1 .. 4 * Blocks64(src) : base64_index(t[i]) = 64
<1> DEFINE n == Len(src)
           g == Groups6(src)
           N == Count6(src)
           P == (3 - (n % 3)) % 3
           a == [i \in DOMAIN g |-> base64_map(g[i])]
           b == [i \in 1 .. P |-> Equal]
           z == <<NUL>>
           M == Blocks64(src)
<1>1. t = a \o b \o z
  BY DEF base64_encode, Groups6
<1>2. t \in Seq(Byte)
  BY base64_encodeIs DEF Text
<1>3. n \in Nat /\ P \in Nat /\ N \in Nat /\ M \in Nat /\ N + P = 4 * M
  BY Padding DEF Count6, Blocks64
<1>4. g \in Seq(0 .. 63) /\ DOMAIN g = 1 .. N
  <2>1. g \in Seq(Few(6)) /\ Few(6) = 0 .. 63
    BY BitStreamIs, GroupsAre DEF Groups6, Few
  <2>2. g = [i \in 1 .. (Len(BitStream(src)) + 6 - 1) \div 6 |->
                Number(SubSeq(BitStream(src) \o [j \in 1 .. 6 |-> 0], 6 * (i - 1) + 1, 6 * i))]
    BY DEF Groups6, Groups
  <2>3. Len(BitStream(src)) + 6 - 1 = 8 * n + 5
    <3>1. Len(BitStream(src)) = 8 * Len(src)
      BY StreamBits
    <3> QED BY <1>3, <3>1
  <2>4. DOMAIN g = 1 .. (Len(BitStream(src)) + 6 - 1) \div 6
    BY <2>2
  <2> QED BY <2>1, <2>3, <2>4 DEF Count6
<1>5. \A i \in 1 .. N : g[i] \in 0 .. 63
  <2>1. Len(g) = N
    BY <1>3, <1>4
  <2> QED BY <1>4, <2>1, ElementOfSeq
<1>6. a \in Seq(Byte) /\ Len(a) = N /\ \A i \in 1 .. N : a[i] = base64_map(g[i])
  <2>1. \A i \in 1 .. N : base64_map(g[i]) \in Byte
    <3>1. Few(6) = 0 .. 63
      BY DEF Few
    <3>2. \A v \in 0 .. 63 : base64_map(v) \in Byte
      BY <3>1, base64_mapIs
    <3> QED BY <1>5, <3>2
  <2> HIDE DEF N, g
  <2>2. a \in [1 .. N -> Byte]
    BY <1>4, <2>1
  <2>3. \A i \in 1 .. N : a[i] = base64_map(g[i])
    BY <1>4
  <2> QED BY <1>3, <2>2, <2>3, FunctionIsSeq
<1>7. b \in Seq(Byte) /\ Len(b) = P /\ \A i \in 1 .. P : b[i] = Equal
  <2>1. Equal \in Byte
    BY DEF Equal, Byte
  <2> HIDE DEF P
  <2>2. b \in [1 .. P -> Byte] /\ \A i \in 1 .. P : b[i] = Equal
    BY <2>1
  <2> QED BY <1>3, <2>2, FunctionIsSeq
<1>8. z \in Seq(Byte) /\ Len(z) = 1
  <2>1. NUL \in Byte
    BY DEF NUL, Byte
  <2> QED BY <2>1
<1> HIDE DEF a, b, z, n, P, N, g, M
<1> DEFINE ab == a \o b
<1>9. ab \in Seq(Byte) /\ Len(ab) = N + P
  BY <1>6, <1>7, ConcatProperties
<1>10. \A i \in 1 .. N : i \in 1 .. Len(ab) /\ ab[i] = a[i]
  <2>1. \A i \in 1 .. Len(a) : i \in 1 .. Len(a \o b) /\ (a \o b)[i] = a[i]
    <3>1. a \in Seq(Byte) /\ b \in Seq(Byte)
      BY <1>6, <1>7
    <3> QED BY <3>1, InARow
  <2> QED BY <1>6, <2>1
<1>11. \A j \in 1 .. P : N + j \in 1 .. Len(ab) /\ ab[N + j] = b[j]
  <2>1. \A j \in 1 .. Len(b) : Len(a) + j \in 1 .. Len(a \o b) /\ (a \o b)[Len(a) + j] = b[j]
    <3>1. a \in Seq(Byte) /\ b \in Seq(Byte)
      BY <1>6, <1>7
    <3> QED BY <3>1, InARow
  <2> QED BY <1>6, <1>7, <2>1
<1> HIDE DEF ab
<1>12. t = ab \o z
  BY <1>1 DEF ab
<1>13. Len(t) = (N + P) + 1
  <2>1. Len(ab \o z) = Len(ab) + Len(z)
    BY <1>8, <1>9, ConcatProperties
  <2> QED BY <1>8, <1>9, <1>12, <2>1
<1>14. \A i \in 1 .. Len(ab) : t[i] = ab[i]
  BY <1>8, <1>9, <1>12, InARow
<1>15. ASSUME NEW i \in 1 .. N PROVE base64_index(t[i]) = g[i]
  <2>1. t[i] = base64_map(g[i])
    BY <1>6, <1>10, <1>14
  <2> QED BY <1>5, <2>1, IndexOfMap
<1>16. ASSUME NEW i \in N + 1 .. 4 * M PROVE base64_index(t[i]) = 64
  <2>1. i - N \in 1 .. P /\ N + (i - N) = i
    BY <1>3
  <2>2. ab[i] = Equal /\ i \in 1 .. Len(ab)
    BY <1>7, <1>11, <2>1
  <2>3. t[i] = Equal
    BY <1>14, <2>2
  <2> QED BY <2>3, IndexOfEqual
<1>17. N <= 4 * M
  BY <1>3
<1> QED BY <1>2, <1>3, <1>13, <1>15, <1>16, <1>17 DEF N, M, g

\* What four groups are put together to.
LEMMA FromSextets ==
  ASSUME NEW a \in Byte, NEW b \in Byte, NEW c \in Byte
  PROVE  /\ ((a \div 4) * 4 + (16 * (a % 4) + b \div 16) \div 16) % 256 = a
         /\ ((16 * (a % 4) + b \div 16) * 16 + (4 * (b % 16) + c \div 64) \div 4) % 256 = b
         /\ ((4 * (b % 16) + c \div 64) * 64 + (c % 64)) % 256 = c
         /\ 4 * (b % 16) + c \div 64 # 64 /\ c % 64 # 64
<1>1. a \in 0 .. 255 /\ b \in 0 .. 255 /\ c \in 0 .. 255
  BY DEF Byte
<1>2. (16 * (a % 4) + b \div 16) \div 16 = a % 4
  BY <1>1
<1>3. (4 * (b % 16) + c \div 64) \div 4 = b % 16
  BY <1>1
<1>4. ((a \div 4) * 4 + (a % 4)) % 256 = a
  BY <1>1
<1>5. ((16 * (a % 4) + b \div 16) * 16 + (b % 16)) % 256 = b
  BY <1>1
<1>6. ((4 * (b % 16) + c \div 64) * 64 + (c % 64)) % 256 = c
  BY <1>1
<1>7. 4 * (b % 16) + c \div 64 # 64 /\ c % 64 # 64
  BY <1>1
<1> QED BY <1>2, <1>3, <1>4, <1>5, <1>6, <1>7

\* A block of the decoder.
Block64(tmp) ==
  <<(tmp[1] * 4 + tmp[2] \div 16) % 256>>
  \o (IF tmp[3] # 64 THEN <<(tmp[2] * 16 + tmp[3] \div 4) % 256>> ELSE <<>>)
  \o (IF tmp[4] # 64 THEN <<(tmp[3] * 64 + tmp[4]) % 256>> ELSE <<>>)

LEMMA OneByOne ==
  ASSUME NEW S, NEW a \in S, NEW b \in S, NEW c \in S
  PROVE  <<a>> \o <<b>> \o <<c>> = <<a, b, c>> /\ <<a>> \o <<b>> \o <<>> = <<a, b>> /\ <<a>> \o <<>> \o <<>> = <<a>>
<1>1. <<a>> \o <<b>> = <<a, b>>
  <2> DEFINE s == <<a>>
             t == <<b>>
             u == <<a, b>>
  <2>1. s \in Seq(S) /\ Len(s) = 1 /\ s[1] = a /\ t \in Seq(S) /\ Len(t) = 1 /\ t[1] = b
    OBVIOUS
  <2>2. u \in Seq(S) /\ Len(u) = 2 /\ u[1] = a /\ u[2] = b
    OBVIOUS
  <2> HIDE DEF s, t, u
  <2>3. /\ s \o t \in Seq(S) /\ Len(s \o t) = Len(s) + Len(t)
        /\ \A i \in 1 .. Len(s) + Len(t) : (s \o t)[i] = IF i <= Len(s) THEN s[i] ELSE t[i - Len(s)]
    BY <2>1, ConcatProperties
  <2>4. \A i \in 1 .. 2 : (s \o t)[i] = u[i]
    <3>1. \A i \in 1 .. 2 : i = 1 \/ i = 2
      OBVIOUS
    <3>2. 2 - 1 = 1 /\ 1 \in 1 .. 1 + 1 /\ 2 \in 1 .. 1 + 1 /\ 1 <= 1 /\ ~(2 <= 1)
      OBVIOUS
    <3>3. (s \o t)[1] = a /\ (s \o t)[2] = b
      BY <2>1, <2>3, <3>2
    <3> QED BY <2>2, <3>1, <3>3
  <2>5. Len(s \o t) = 2
    BY <2>1, <2>3
  <2>6. s \o t = u
    BY <2>2, <2>3, <2>4, <2>5, SeqEqual
  <2> QED BY <2>6 DEF s, t, u
<1>2. <<a, b>> \o <<c>> = <<a, b, c>>
  <2> DEFINE s == <<a, b>>
             t == <<c>>
             u == <<a, b, c>>
  <2>1. s \in Seq(S) /\ Len(s) = 2 /\ s[1] = a /\ s[2] = b /\ t \in Seq(S) /\ Len(t) = 1 /\ t[1] = c
    OBVIOUS
  <2>2. u \in Seq(S) /\ Len(u) = 3 /\ u[1] = a /\ u[2] = b /\ u[3] = c
    OBVIOUS
  <2> HIDE DEF s, t, u
  <2>3. /\ s \o t \in Seq(S) /\ Len(s \o t) = Len(s) + Len(t)
        /\ \A i \in 1 .. Len(s) + Len(t) : (s \o t)[i] = IF i <= Len(s) THEN s[i] ELSE t[i - Len(s)]
    BY <2>1, ConcatProperties
  <2>4. \A i \in 1 .. 3 : (s \o t)[i] = u[i]
    <3>1. \A i \in 1 .. 3 : i = 1 \/ i = 2 \/ i = 3
      OBVIOUS
    <3>2. 3 - 2 = 1 /\ 1 \in 1 .. 2 + 1 /\ 2 \in 1 .. 2 + 1 /\ 3 \in 1 .. 2 + 1 /\ 1 <= 2 /\ 2 <= 2 /\ ~(3 <= 2)
      OBVIOUS
    <3>3. (s \o t)[1] = a /\ (s \o t)[2] = b /\ (s \o t)[3] = c
      BY <2>1, <2>3, <3>2
    <3> QED BY <2>2, <3>1, <3>3
  <2>5. Len(s \o t) = 3
    BY <2>1, <2>3
  <2>6. s \o t = u
    BY <2>2, <2>3, <2>4, <2>5, SeqEqual
  <2> QED BY <2>6 DEF s, t, u
<1>3. <<a, b>> \o <<>> = <<a, b>> /\ <<a>> \o <<>> = <<a>>
  BY ConcatEmptySeq
<1> QED BY <1>1, <1>2, <1>3

\* The groups of three bytes.
Sextet1(a) == a \div 4
Sextet2(a, b) == 16 * (a % 4) + b \div 16
Sextet3(b, c) == 4 * (b % 16) + c \div 64
Sextet4(c) == c % 64

LEMMA InARowOf ==
  ASSUME NEW S, NEW a \in S, NEW b \in S, NEW c \in S
  PROVE  /\ <<a, b, c>> \in Seq(S) /\ Len(<<a, b, c>>) = 3
         /\ <<a, b, c>>[1] = a /\ <<a, b, c>>[2] = b /\ <<a, b, c>>[3] = c
         /\ <<a, b>> \in Seq(S) /\ Len(<<a, b>>) = 2 /\ <<a, b>>[1] = a /\ <<a, b>>[2] = b
         /\ <<a>> \in Seq(S) /\ Len(<<a>>) = 1 /\ <<a>>[1] = a
OBVIOUS

LEMMA BlockIs ==
  ASSUME NEW a \in Byte, NEW b \in Byte, NEW c \in Byte, NEW tmp,
         tmp[1] = Sextet1(a), tmp[2] = Sextet2(a, b)
  PROVE  /\ tmp[3] = Sextet3(b, c) /\ tmp[4] = Sextet4(c) => Block64(tmp) = <<a, b, c>>
         /\ c = 0 /\ tmp[3] = Sextet3(b, c) /\ tmp[4] = 64 => Block64(tmp) = <<a, b>>
         /\ tmp[3] = 64 /\ tmp[4] = 64 => Block64(tmp) = <<a>>
<1>0. tmp[1] = a \div 4 /\ tmp[2] = 16 * (a % 4) + b \div 16
  BY DEF Sextet1, Sextet2
<1>1. (tmp[1] * 4 + tmp[2] \div 16) % 256 = a
  BY <1>0, FromSextets
<1>2. tmp[3] = 4 * (b % 16) + c \div 64 => (tmp[2] * 16 + tmp[3] \div 4) % 256 = b /\ tmp[3] # 64
  BY <1>0, FromSextets
<1>3. tmp[3] = 4 * (b % 16) + c \div 64 /\ tmp[4] = c % 64 => (tmp[3] * 64 + tmp[4]) % 256 = c /\ tmp[4] # 64
  <2>1. ((4 * (b % 16) + c \div 64) * 64 + (c % 64)) % 256 = c /\ c % 64 # 64
    BY FromSextets
  <2> QED BY <2>1
<1> DEFINE x == (tmp[1] * 4 + tmp[2] \div 16) % 256
           y == (tmp[2] * 16 + tmp[3] \div 4) % 256
           v == (tmp[3] * 64 + tmp[4]) % 256
<1>4. Block64(tmp) = <<x>> \o (IF tmp[3] # 64 THEN <<y>> ELSE <<>>) \o (IF tmp[4] # 64 THEN <<v>> ELSE <<>>)
  BY DEF Block64
<1> DEFINE three == tmp[3] = 4 * (b % 16) + c \div 64
           four == tmp[4] = c % 64
<1>5. x = a /\ (three => y = b /\ tmp[3] # 64) /\ (three /\ four => v = c /\ tmp[4] # 64)
  BY <1>1, <1>2, <1>3
<1> HIDE DEF x, y, v, three, four
<1>6. ASSUME three, four PROVE Block64(tmp) = <<a, b, c>>
  <2>1. Block64(tmp) = <<a>> \o <<b>> \o <<c>>
    BY <1>4, <1>5, <1>6
  <2> QED BY <2>1, OneByOne
<1>7. ASSUME three, tmp[4] = 64 PROVE Block64(tmp) = <<a, b>>
  <2>1. Block64(tmp) = <<a>> \o <<b>> \o <<>>
    BY <1>4, <1>5, <1>7
  <2> QED BY <2>1, OneByOne
<1>8. ASSUME tmp[3] = 64, tmp[4] = 64 PROVE Block64(tmp) = <<a>>
  <2>1. Block64(tmp) = <<a>> \o <<>> \o <<>>
    BY <1>4, <1>5, <1>8
  <2> QED BY <2>1, OneByOne
<1> QED BY <1>6, <1>7, <1>8 DEF three, four, Sextet3, Sextet4

LEMMA ThreesOf ==
  ASSUME NEW n \in Nat, NEW k \in 1 .. (n + 2) \div 3, NEW N, N = (8 * n + 5) \div 6
  PROVE  /\ 3 * k <= n \/ 3 * k - 1 = n \/ 3 * k - 2 = n
         /\ k \in Nat \ {0}
         /\ 3 * k <= n => 4 * k <= N
         /\ 3 * k - 1 = n => N = 4 * k - 1
         /\ 3 * k - 2 = n => N = 4 * k - 2
<1>1. k \in Int /\ k >= 1 /\ 3 * k <= n + 2
  OBVIOUS
<1>2. 3 * k <= n => 4 * k <= N
  BY <1>1
<1>3. 3 * k - 1 = n => N = 4 * k - 1
  BY <1>1
<1>4. 3 * k - 2 = n => N = 4 * k - 2
  BY <1>1
<1> QED BY <1>1, <1>2, <1>3, <1>4

\* How many bytes a block holds, and which.
SizeOfBlock(src, k) == IF 3 * k <= Len(src) THEN 3 ELSE Len(src) - 3 * (k - 1)

Block64At(t, k) == Block64([j \in 1 .. 4 |-> base64_index(t[4 * k - 4 + j])])

\* The bytes that belong into the k-th block.
BytesOfBlock(src, k, s) ==
  /\ s \in Seq(Byte) /\ Len(s) = SizeOfBlock(src, k)
  /\ \A j \in 1 .. Len(s) : s[j] = src[3 * (k - 1) + j]

LEMMA BlockReadsBack ==
  ASSUME NEW src \in Seq(Byte), NEW k \in 1 .. Blocks64(src)
  PROVE  BytesOfBlock(src, k, Block64At(base64_encode(src), k))
<1> DEFINE t == base64_encode(src)
           s == Block64At(t, k)
           n == Len(src)
           N == Count6(src)
           M == Blocks64(src)
           g == Groups6(src)
           I(i) == base64_index(t[i])
           tmp == [j \in 1 .. 4 |-> base64_index(t[4 * k - 4 + j])]
           a == ByteIn(src, 3 * k - 2)
           b == ByteIn(src, 3 * k - 1)
           c == ByteIn(src, 3 * k)
<1>1. n \in Nat /\ N = (8 * n + 5) \div 6 /\ M = (n + 2) \div 3 /\ k \in 1 .. M /\ k \in 1 .. (n + 2) \div 3
  BY DEF Count6, Blocks64
<1>2. /\ N \in Nat
      /\ \A i \in 1 .. N : I(i) = g[i]
      /\ \A i \in N + 1 .. 4 * M : I(i) = 64
  <2> HIDE DEF t
  <2>1. t = base64_encode(src)
    BY DEF t
  <2> QED BY <2>1, TextOf64
<1>3. /\ 3 * k <= n \/ 3 * k - 1 = n \/ 3 * k - 2 = n
      /\ k \in Nat \ {0}
      /\ 3 * k <= n => 4 * k <= N
      /\ 3 * k - 1 = n => N = 4 * k - 1
      /\ 3 * k - 2 = n => N = 4 * k - 2
  <2> HIDE DEF n, N, M
  <2> QED BY <1>1, ThreesOf
<1>4. /\ 4 * k - 3 <= N => g[4 * k - 3] = a \div 4
      /\ 4 * k - 2 <= N => g[4 * k - 2] = 16 * (a % 4) + b \div 16
      /\ 4 * k - 1 <= N => g[4 * k - 1] = 4 * (b % 16) + c \div 64
      /\ 4 * k <= N => g[4 * k] = c % 64
  <2> HIDE DEF n, N, M
  <2> QED BY <1>3, Quads DEF N
<1>5. a \in Byte /\ b \in Byte /\ c \in Byte
  BY ByteInIs
<1>6. tmp[1] = I(4 * k - 3) /\ tmp[2] = I(4 * k - 2) /\ tmp[3] = I(4 * k - 1) /\ tmp[4] = I(4 * k)
  <2>1. 4 * k - 4 + 1 = 4 * k - 3 /\ 4 * k - 4 + 2 = 4 * k - 2 /\ 4 * k - 4 + 3 = 4 * k - 1 /\ 4 * k - 4 + 4 = 4 * k
    BY <1>3
  <2> HIDE DEF I
  <2>2. tmp = [j \in 1 .. 4 |-> I(4 * k - 4 + j)]
    BY DEF I
  <2> HIDE DEF tmp
  <2> QED BY <2>1, <2>2
<1>7. 4 * k - 2 <= N /\ 4 * k - 3 <= N /\ 4 * k - 3 \in 1 .. N /\ 4 * k - 2 \in 1 .. N /\ 4 * k <= 4 * M /\ M \in Int
  BY <1>1, <1>2, <1>3
<1>71. s = Block64(tmp)
  BY DEF Block64At
<1> HIDE DEF I, tmp, n, N, M, g, a, b, c, s, t
<1>8. tmp[1] = Sextet1(a) /\ tmp[2] = Sextet2(a, b)
  BY <1>2, <1>4, <1>6, <1>7 DEF Sextet1, Sextet2
<1>9. ASSUME 3 * k <= n PROVE BytesOfBlock(src, k, s)
  <2>1. 4 * k - 1 \in 1 .. N /\ 4 * k \in 1 .. N
    BY <1>2, <1>3, <1>9
  <2>2. tmp[3] = Sextet3(b, c) /\ tmp[4] = Sextet4(c)
    BY <1>2, <1>4, <1>6, <2>1 DEF Sextet3, Sextet4
  <2>3. s = <<a, b, c>>
    BY <1>5, <1>71, <1>8, <2>2, BlockIs
  <2>4. a = src[3 * (k - 1) + 1] /\ b = src[3 * (k - 1) + 2] /\ c = src[3 * (k - 1) + 3]
    <3>1. /\ 3 * k - 2 \in 1 .. n /\ 3 * k - 1 \in 1 .. n /\ 3 * k \in 1 .. n
          /\ 3 * (k - 1) + 1 = 3 * k - 2 /\ 3 * (k - 1) + 2 = 3 * k - 1 /\ 3 * (k - 1) + 3 = 3 * k
      BY <1>1, <1>3, <1>9
    <3> QED BY <3>1 DEF a, b, c, n, ByteIn
  <2>5. SizeOfBlock(src, k) = 3
    BY <1>9 DEF SizeOfBlock, n
  <2>6. s \in Seq(Byte) /\ Len(s) = 3 /\ s[1] = a /\ s[2] = b /\ s[3] = c
    <3>1. <<a, b, c>> \in Seq(Byte) /\ Len(<<a, b, c>>) = 3
          /\ <<a, b, c>>[1] = a /\ <<a, b, c>>[2] = b /\ <<a, b, c>>[3] = c
      BY <1>5, InARowOf, Zenon
    <3> QED BY <2>3, <3>1, Zenon
  <2>7. \A j \in 1 .. 3 : j = 1 \/ j = 2 \/ j = 3
    OBVIOUS
  <2>8. \A j \in 1 .. 3 : s[j] = src[3 * (k - 1) + j]
    BY <2>4, <2>6, <2>7
  <2> QED BY <2>5, <2>6, <2>8 DEF BytesOfBlock
<1>10. ASSUME 3 * k - 1 = n PROVE BytesOfBlock(src, k, s)
  <2>1. 4 * k - 1 \in 1 .. N /\ 4 * k \in N + 1 .. 4 * M
    BY <1>2, <1>3, <1>7, <1>10
  <2>2. tmp[3] = Sextet3(b, c) /\ tmp[4] = 64
    BY <1>2, <1>4, <1>6, <2>1 DEF Sextet3
  <2>3. c = 0
    <3>1. ~(3 * k \in 1 .. n)
      BY <1>1, <1>3, <1>10
    <3> QED BY <3>1 DEF c, n, ByteIn
  <2>4. s = <<a, b>>
    BY <1>5, <1>71, <1>8, <2>2, <2>3, BlockIs
  <2>5. a = src[3 * (k - 1) + 1] /\ b = src[3 * (k - 1) + 2]
    <3>1. /\ 3 * k - 2 \in 1 .. n /\ 3 * k - 1 \in 1 .. n
          /\ 3 * (k - 1) + 1 = 3 * k - 2 /\ 3 * (k - 1) + 2 = 3 * k - 1
      BY <1>1, <1>3, <1>10
    <3> QED BY <3>1 DEF a, b, n, ByteIn
  <2>6. SizeOfBlock(src, k) = 2
    <3>1. ~(3 * k <= n) /\ n - 3 * (k - 1) = 2
      BY <1>1, <1>3, <1>10
    <3> QED BY <3>1 DEF SizeOfBlock, n
  <2>7. s \in Seq(Byte) /\ Len(s) = 2 /\ s[1] = a /\ s[2] = b
    <3>1. <<a, b>> \in Seq(Byte) /\ Len(<<a, b>>) = 2 /\ <<a, b>>[1] = a /\ <<a, b>>[2] = b
      BY <1>5, InARowOf, Zenon
    <3> QED BY <2>4, <3>1, Zenon
  <2>8. \A j \in 1 .. 2 : j = 1 \/ j = 2
    OBVIOUS
  <2>9. \A j \in 1 .. 2 : s[j] = src[3 * (k - 1) + j]
    BY <2>5, <2>7, <2>8
  <2> QED BY <2>6, <2>7, <2>9 DEF BytesOfBlock
<1>11. ASSUME 3 * k - 2 = n PROVE BytesOfBlock(src, k, s)
  <2>1. 4 * k - 1 \in N + 1 .. 4 * M /\ 4 * k \in N + 1 .. 4 * M
    BY <1>2, <1>3, <1>7, <1>11
  <2>2. tmp[3] = 64 /\ tmp[4] = 64
    BY <1>2, <1>6, <2>1
  <2>3. s = <<a>>
    BY <1>5, <1>71, <1>8, <2>2, BlockIs
  <2>4. a = src[3 * (k - 1) + 1]
    <3>1. 3 * k - 2 \in 1 .. n /\ 3 * (k - 1) + 1 = 3 * k - 2
      BY <1>1, <1>3, <1>11
    <3> QED BY <3>1 DEF a, n, ByteIn
  <2>5. SizeOfBlock(src, k) = 1
    <3>1. ~(3 * k <= n) /\ n - 3 * (k - 1) = 1
      BY <1>1, <1>3, <1>11
    <3> QED BY <3>1 DEF SizeOfBlock, n
  <2>6. s \in Seq(Byte) /\ Len(s) = 1 /\ s[1] = a
    BY <1>5, <2>3, InARowOf
  <2>7. \A j \in 1 .. 1 : j = 1
    OBVIOUS
  <2>8. \A j \in 1 .. 1 : s[j] = src[3 * (k - 1) + j]
    BY <2>4, <2>6, <2>7
  <2> QED BY <2>5, <2>6, <2>8 DEF BytesOfBlock
<1> QED BY <1>3, <1>9, <1>10, <1>11 DEF s, t

LEMMA BlockPlaces ==
  ASSUME NEW n \in Nat, NEW k \in 1 .. (n + 2) \div 3, NEW x, NEW y,
         x = (IF 3 * (k - 1) <= n THEN 3 * (k - 1) ELSE n), y = (IF 3 * k <= n THEN 3 * k ELSE n)
  PROVE  x = 3 * (k - 1) /\ y = x + (IF 3 * k <= n THEN 3 ELSE n - 3 * (k - 1))
<1>1. k \in Int /\ k >= 1 /\ 3 * k <= n + 2
  OBVIOUS
<1>2. 3 * (k - 1) <= n /\ 3 * k = 3 * (k - 1) + 3
  BY <1>1
<1> QED BY <1>1, <1>2

LEMMA Base64ReadsBack ==
  ASSUME NEW src \in Seq(Byte)
  PROVE  base64_decode(base64_encode(src)) = src \o <<NUL>>
<1> DEFINE t == base64_encode(src)
           n == Len(src)
           M == Blocks64(src)
           Part(k) == Block64At(t, k)
           seqs == [k \in 1 .. Len(t) \div 4 |-> Part(k)]
           loc == [k \in 0 .. M |-> IF 3 * k <= n THEN 3 * k ELSE n]
<1>1. base64_decode(t) = FlattenSeq(seqs) \o <<NUL>>
  BY DEF base64_decode, Block64, Block64At
<1>2. n \in Nat /\ M = (n + 2) \div 3 /\ M \in Nat
  BY DEF Blocks64
<1>3. Len(t) \div 4 = M
  <2>1. Len(t) = 4 * M + 1
    BY TextOf64
  <2> HIDE DEF M
  <2> QED BY <1>2, <2>1
<1>4. ASSUME NEW k \in 1 .. M
      PROVE  /\ Part(k) \in Seq(Byte) /\ Len(Part(k)) = SizeOfBlock(src, k)
             /\ \A j \in 1 .. Len(Part(k)) : Part(k)[j] = src[3 * (k - 1) + j]
  <2>1. BytesOfBlock(src, k, Part(k))
    BY BlockReadsBack
  <2> HIDE DEF Part
  <2> QED BY <2>1 DEF BytesOfBlock
<1> HIDE DEF Part, t
<1>5. seqs \in Seq(Seq(Byte)) /\ Len(seqs) = M /\ \A k \in 1 .. M : seqs[k] = Part(k)
  <2>1. seqs = [k \in 1 .. M |-> Part(k)]
    BY <1>3
  <2> HIDE DEF M, seqs
  <2>2. seqs \in [1 .. M -> Seq(Byte)] /\ \A k \in 1 .. M : seqs[k] = Part(k)
    BY <1>4, <2>1
  <2> QED BY <1>2, <2>2, FunctionIsSeq
<1> HIDE DEF seqs, M
<1>6. loc \in [0 .. M -> Nat] /\ loc[0] = 0 /\ loc[M] = n
  <2>1. \A k \in 0 .. M : (IF 3 * k <= n THEN 3 * k ELSE n) \in Nat
    BY <1>2
  <2>2. 0 \in 0 .. M /\ M \in 0 .. M /\ 3 * 0 = 0 /\ 0 <= n /\ (3 * M <= n => 3 * M = n)
    BY <1>2
  <2> HIDE DEF n
  <2>3. loc \in [0 .. M -> Nat]
    BY <2>1
  <2>4. loc[0] = 0
    BY <2>2
  <2>5. loc[M] = n
    BY <2>2
  <2> QED BY <2>3, <2>4, <2>5
<1>7. ASSUME NEW k \in 1 .. M
      PROVE  /\ loc[k] = loc[k - 1] + Len(seqs[k])
             /\ \A j \in 1 .. Len(seqs[k]) : src[loc[k - 1] + j] = seqs[k][j]
  <2>1. k \in 0 .. M /\ k - 1 \in 0 .. M /\ k \in 1 .. (n + 2) \div 3
    BY <1>2
  <2> DEFINE x == loc[k - 1]
             y == loc[k]
  <2>2. x = (IF 3 * (k - 1) <= n THEN 3 * (k - 1) ELSE n) /\ y = (IF 3 * k <= n THEN 3 * k ELSE n)
    BY <2>1
  <2> HIDE DEF x, y, loc
  <2>3. x = 3 * (k - 1) /\ y = x + (IF 3 * k <= n THEN 3 ELSE n - 3 * (k - 1))
    <3> HIDE DEF n
    <3> QED BY <1>2, <2>1, <2>2, BlockPlaces
  <2>4. y = x + SizeOfBlock(src, k)
    BY <2>3 DEF SizeOfBlock
  <2>5. seqs[k] = Part(k)
    BY <1>5
  <2> HIDE DEF n
  <2>6. y = x + Len(seqs[k])
    BY <1>4, <2>4, <2>5
  <2>7. \A j \in 1 .. Len(seqs[k]) : seqs[k][j] = src[3 * (k - 1) + j]
    BY <1>4, <2>5
  <2> QED BY <2>3, <2>6, <2>7 DEF x, y
<1> HIDE DEF loc
<1>8. Laid(loc, seqs, src)
  BY <1>5, <1>6, <1>7 DEF Laid
<1>9. src = FlattenSeq(seqs)
  BY <1>5, <1>8, LaidSame
<1> QED BY <1>1, <1>9 DEF t

-----------------------------------------------------------------------------
(***************************************************************************)
(* Hexadecimal digits read back, with the halves of each byte swapped.     *)
(***************************************************************************)
HalvesSwapped(b) == 16 * (b % 16) + b \div 16
AllSwapped(src) == [i \in DOMAIN src |-> HalvesSwapped(src[i])]

LEMMA SwapIs ==
  ASSUME NEW b \in Byte
  PROVE  /\ HalvesSwapped(b) \in Byte /\ HalvesSwapped(HalvesSwapped(b)) = b
         /\ b % 16 \in 0 .. 15 /\ b \div 16 \in 0 .. 15
<1>1. b \in 0 .. 255
  BY DEF Byte
<1>2. HalvesSwapped(b) \in 0 .. 255
  BY <1>1 DEF HalvesSwapped
<1>3. HalvesSwapped(b) % 16 = b \div 16 /\ HalvesSwapped(b) \div 16 = b % 16
  BY <1>1 DEF HalvesSwapped
<1>4. 16 * (b \div 16) + (b % 16) = b /\ b % 16 \in 0 .. 15 /\ b \div 16 \in 0 .. 15
  BY <1>1
<1>5. HalvesSwapped(HalvesSwapped(b)) = b
  <2> DEFINE c == HalvesSwapped(b)
  <2>1. HalvesSwapped(c) = 16 * (c % 16) + c \div 16
    BY DEF HalvesSwapped
  <2>2. c % 16 = b \div 16 /\ c \div 16 = b % 16
    BY <1>3
  <2> HIDE DEF c
  <2>3. HalvesSwapped(c) = 16 * (b \div 16) + (b % 16)
    BY <2>1, <2>2
  <2> QED BY <1>4, <2>3 DEF c
<1>6. HalvesSwapped(b) \in Byte
  BY <1>2 DEF Byte
<1> QED BY <1>4, <1>5, <1>6

LEMMA SwappedIs ==
  ASSUME NEW src \in Seq(Byte)
  PROVE  AllSwapped(src) \in Seq(Byte) /\ Len(AllSwapped(src)) = Len(src) /\ AllSwapped(AllSwapped(src)) = src
<1> DEFINE n == Len(src)
           s == AllSwapped(src)
<1>1. n \in Nat /\ DOMAIN src = 1 .. n /\ \A i \in 1 .. n : src[i] \in Byte
  OBVIOUS
<1>2. \A i \in 1 .. n : HalvesSwapped(src[i]) \in Byte /\ HalvesSwapped(HalvesSwapped(src[i])) = src[i]
  BY <1>1, SwapIs
<1>3. s = [i \in 1 .. n |-> HalvesSwapped(src[i])]
  BY <1>1 DEF AllSwapped
<1> HIDE DEF n, s
<1>4. s \in [1 .. n -> Byte]
  BY <1>2, <1>3
<1>5. s \in Seq(Byte) /\ Len(s) = n
  BY <1>1, <1>4, FunctionIsSeq
<1>6. \A i \in 1 .. n : s[i] = HalvesSwapped(src[i])
  BY <1>3
<1> DEFINE u == AllSwapped(s)
<1>7. DOMAIN s = 1 .. n
  BY <1>3
<1>8. u = [i \in 1 .. n |-> HalvesSwapped(s[i])]
  BY <1>7 DEF AllSwapped
<1> HIDE DEF u
<1>9. \A i \in 1 .. n : u[i] = src[i]
  BY <1>2, <1>6, <1>8
<1>10. u \in [1 .. n -> Byte]
  BY <1>1, <1>2, <1>6, <1>8
<1>11. u \in Seq(Byte) /\ Len(u) = n
  BY <1>1, <1>10, FunctionIsSeq
<1>12. u = src
  BY <1>9, <1>11, SeqEqual DEF n
<1> QED BY <1>5, <1>12 DEF u, s, n

LEMMA HereBoth ==
  ASSUME NEW t \in Seq(Byte), NEW a \in Seq(Byte), NEW b \in Seq(Byte), NEW p \in Nat, Here(t, p, a \o b)
  PROVE  Here(t, p, a) /\ Here(t, p + Len(a), b)
<1>1. Len(a) \in Nat /\ Len(b) \in Nat /\ Len(a \o b) = Len(a) + Len(b) /\ Len(t) \in Nat
  BY InARow
<1>2. \A i \in 1 .. Len(a) : i \in 1 .. Len(a \o b) /\ (a \o b)[i] = a[i]
  BY InARow
<1>3. \A j \in 1 .. Len(b) : Len(a) + j \in 1 .. Len(a \o b) /\ (a \o b)[Len(a) + j] = b[j]
  BY InARow
<1> DEFINE q == a \o b
<1> HIDE DEF q
<1>4. p + Len(q) <= Len(t) /\ \A j \in 1 .. Len(q) : t[p + j] = q[j]
  BY DEF Here, q
<1>5. Here(t, p, a)
  <2>1. p + Len(a) <= Len(t)
    BY <1>1, <1>4 DEF q
  <2>2. \A j \in 1 .. Len(a) : t[p + j] = a[j]
    BY <1>2, <1>4 DEF q
  <2> QED BY <2>1, <2>2 DEF Here
<1>6. Here(t, p + Len(a), b)
  <2>1. (p + Len(a)) + Len(b) <= Len(t)
    BY <1>1, <1>4 DEF q
  <2>2. ASSUME NEW j \in 1 .. Len(b) PROVE t[(p + Len(a)) + j] = b[j]
    <3>1. Len(a) + j \in 1 .. Len(q) /\ q[Len(a) + j] = b[j]
      BY <1>3 DEF q
    <3>2. t[p + (Len(a) + j)] = b[j]
      BY <1>4, <3>1
    <3>3. p + (Len(a) + j) = (p + Len(a)) + j
      BY <1>1
    <3> QED BY <3>2, <3>3
  <2> QED BY <2>1, <2>2 DEF Here
<1> QED BY <1>5, <1>6

LEMMA HereTwo ==
  ASSUME NEW t, NEW p, NEW q, Here(t, p, q), Len(q) = 2
  PROVE  p + 2 <= Len(t) /\ t[p + 1] = q[1] /\ t[p + 2] = q[2]
<1>1. 1 \in 1 .. 2 /\ 2 \in 1 .. 2
  OBVIOUS
<1> QED BY <1>1 DEF Here

\* The digits of the encoder.
NotX(ch) == ch # LowX /\ ch # 88

LEMMA hexNIs ==
  ASSUME NEW v \in 0 .. 15
  PROVE  IsHex(hexN(v)) /\ hex8(hexN(v)) = v /\ NotX(hexN(v)) /\ hexN(v) \in Byte
<1>1. CASE v <= 9
  <2>1. hexN(v) = Zero + v
    BY <1>1 DEF hexN
  <2> DEFINE ch == Zero + v
  <2>2. ch \in Digits /\ ch \notin 65 .. 70 /\ ch \notin 97 .. 102 /\ ch \in Int /\ ch - Zero = v /\ NotX(ch) /\ ch \in Byte
    BY <1>1 DEF Zero, Digits, NotX, LowX, Byte
  <2> HIDE DEF ch
  <2>3. hex8(ch) = ch - Zero
    BY <2>2 DEF hex8
  <2>4. IsHex(ch)
    BY <2>2 DEF IsHex
  <2> QED BY <2>1, <2>2, <2>3, <2>4 DEF ch
<1>2. CASE ~(v <= 9)
  <2>1. hexN(v) = v - 10 + 97
    BY <1>2 DEF hexN
  <2> DEFINE ch == v - 10 + 97
  <2>2. ch \notin Digits /\ ch \notin 65 .. 70 /\ ch \in 97 .. 102 /\ ch \in Int /\ ch - 97 + 10 = v /\ NotX(ch) /\ ch \in Byte
    BY <1>2 DEF Digits, NotX, LowX, Byte
  <2> HIDE DEF ch
  <2>3. hex8(ch) = ch - 97 + 10
    BY <2>2 DEF hex8
  <2>4. IsHex(ch)
    BY <2>2 DEF IsHex
  <2> QED BY <2>1, <2>2, <2>3, <2>4 DEF ch
<1> QED BY <1>1, <1>2

\* The next digit starts a byte.
Paired(m) == m % 2 = 0
NewPair(x) == x.isok % 2 = 0
Ahead(t, i) == i < Len(t) => NotX(t[i + 1])

Half == 0 .. 15
DigitThere(t, i, v) == t[i] = hexN(v) /\ Ahead(t, i)
Doubled(x, v) == 16 * x + v

LEMMA DigitIs ==
  ASSUME NEW t, NEW i, NEW v \in Half, DigitThere(t, i, v)
  PROVE  IsHex(t[i]) /\ hex8(t[i]) = v /\ ~(t[i] = Zero /\ i < Len(t) /\ t[i + 1] \in {LowX, 88})
<1>1. IsHex(t[i]) /\ hex8(t[i]) = v
  BY hexNIs DEF Half, DigitThere
<1>2. ~(t[i] = Zero /\ i < Len(t) /\ t[i + 1] \in {LowX, 88})
  BY DEF Ahead, NotX, DigitThere
<1> QED BY <1>1, <1>2

LEMMA FirstHexOn ==
  ASSUME NEW t, NEW i, NEW v \in Half, DigitThere(t, i, v), NEW o \in Seq(Byte), NEW m \in Nat, Paired(m)
  PROVE  TakeHex(t, [out |-> o, isok |-> m], i) = [out |-> Append(o, v), isok |-> m + 1]
<1>1. IsHex(t[i]) /\ hex8(t[i]) = v /\ ~(t[i] = Zero /\ i < Len(t) /\ t[i + 1] \in {LowX, 88})
  BY DigitIs
<1>2. v \in Byte /\ 0 \in Byte /\ \A z \in Byte : z % 256 = z
  BY DEF Byte, Half
<1>3. TakeHex(t, [out |-> o, isok |-> m], i) =
        [out |-> WithLast(Append(o, 0), (16 * Last(Append(o, 0)) + v) % 256), isok |-> m + 1]
  BY <1>1 DEF TakeHex, Paired
<1>4. Last(Append(o, 0)) = 0 /\ WithLast(Append(o, 0), v) = Append(o, v)
  BY <1>2, WithLastOf
<1>5. (16 * 0 + v) % 256 = v
  BY <1>2 DEF Half
<1> QED BY <1>3, <1>4, <1>5

LEMMA ByteOver == \A z \in Byte : z % 256 = z
BY DEF Byte

LEMMA SecondHexOn ==
  ASSUME NEW t, NEW i, NEW v \in Half, DigitThere(t, i, v), NEW o \in Seq(Byte), NEW m \in Nat, ~Paired(m),
         NEW x \in Byte, Doubled(x, v) \in Byte
  PROVE  TakeHex(t, [out |-> Append(o, x), isok |-> m], i) = [out |-> Append(o, Doubled(x, v)), isok |-> m + 1]
<1>1. IsHex(t[i]) /\ hex8(t[i]) = v /\ ~(t[i] = Zero /\ i < Len(t) /\ t[i + 1] \in {LowX, 88})
  BY DigitIs
<1>2. (16 * x + v) % 256 = 16 * x + v
  BY ByteOver DEF Doubled
<1>3. TakeHex(t, [out |-> Append(o, x), isok |-> m], i) =
        [out |-> WithLast(Append(o, x), (16 * Last(Append(o, x)) + v) % 256), isok |-> m + 1]
  BY <1>1 DEF TakeHex, Paired
<1>4. Last(Append(o, x)) = x /\ WithLast(Append(o, x), Doubled(x, v)) = Append(o, Doubled(x, v))
  BY WithLastOf
<1>5. (16 * x + v) % 256 = Doubled(x, v)
  BY <1>2 DEF Doubled
<1> QED BY <1>3, <1>4, <1>5

LEMMA NoHex ==
  ASSUME NEW t, NEW i, NEW acc \in Taken, t[i] \in {Comma, Space, NUL, LowX}
  PROVE  TakeHex(t, acc, i).out = acc.out /\ NewPair(TakeHex(t, acc, i))
<1>1. t[i] # Zero /\ ~IsHex(t[i])
  BY DEF Comma, Space, NUL, LowX, Zero, IsHex, Digits
<1>2. TakeHex(t, acc, i) = [acc EXCEPT !.isok = 0]
  BY <1>1 DEF TakeHex
<1>3. TakeHex(t, acc, i).out = acc.out /\ TakeHex(t, acc, i).isok = 0
  BY <1>2 DEF Taken
<1>4. 0 % 2 = 0
  OBVIOUS
<1> QED BY <1>3, <1>4 DEF NewPair

LEMMA AfterOne ==
  ASSUME NEW m \in Nat, Paired(m)
  PROVE  ~Paired(m + 1) /\ Paired(m + 2) /\ (m + 1) + 1 = m + 2 /\ m + 1 \in Nat
BY DEF Paired

\* Two digits are one byte of the output.
LEMMA HexPair ==
  ASSUME NEW t \in Seq(Byte), NEW acc, HexWalk(acc, t), NEW b \in Byte, NEW p \in Nat,
         Here(t, p, HexDigits(b)), Ahead(t, p + 2), NewPair(acc[p])
  PROVE  acc[p + 2].out = Append(acc[p].out, HalvesSwapped(b)) /\ NewPair(acc[p + 2])
<1> DEFINE v1 == b % 16
           v2 == b \div 16
           o == acc[p].out
           m == acc[p].isok
<1>1. v1 \in 0 .. 15 /\ v2 \in 0 .. 15 /\ HalvesSwapped(b) = 16 * v1 + v2 /\ HalvesSwapped(b) \in Byte
  BY SwapIs DEF HalvesSwapped
<1>2. Len(HexDigits(b)) = 2 /\ HexDigits(b)[1] = hexN(v1) /\ HexDigits(b)[2] = hexN(v2)
  BY DEF HexDigits
<1>3. p + 2 <= Len(t) /\ t[p + 1] = hexN(v1) /\ t[p + 2] = hexN(v2)
  BY <1>2, HereTwo
<1>4. acc \in [0 .. Len(t) -> Taken] /\ \A k \in 1 .. Len(t) : acc[k] = TakeHex(t, acc[k - 1], k)
  BY DEF HexWalk
<1>5. /\ p \in 0 .. Len(t) /\ p + 1 \in 1 .. Len(t) /\ p + 2 \in 1 .. Len(t)
      /\ (p + 1) - 1 = p /\ (p + 2) - 1 = p + 1 /\ (p + 1) + 1 = p + 2
  <2>1. p + 2 <= Len(t) /\ Len(t) \in Nat
    BY <1>3
  <2> QED BY <2>1
<1>6. acc[p] = [out |-> o, isok |-> m] /\ o \in Seq(Byte) /\ m \in Nat
  <2>1. acc[p] \in Taken
    BY <1>4, <1>5
  <2> QED BY <2>1 DEF Taken
<1>7. Paired(m)
  BY DEF NewPair, Paired
<1> HIDE DEF v1, v2, o, m
<1>8. Ahead(t, p + 1)
  <2>1. NotX(t[p + 2])
    BY <1>1, <1>3, hexNIs
  <2> QED BY <1>5, <2>1 DEF Ahead
<1>9. v1 \in Byte
  BY <1>1 DEF Byte
<1>10. acc[p + 1] = [out |-> Append(o, v1), isok |-> m + 1]
  <2>1. acc[p + 1] = TakeHex(t, [out |-> o, isok |-> m], p + 1)
    BY <1>4, <1>5, <1>6
  <2>2. TakeHex(t, [out |-> o, isok |-> m], p + 1) = [out |-> Append(o, v1), isok |-> m + 1]
    <3>1. v1 \in Half /\ DigitThere(t, p + 1, v1)
      BY <1>1, <1>3, <1>8 DEF Half, DigitThere
    <3>2. o \in Seq(Byte) /\ m \in Nat
      BY <1>6
    <3> QED BY <1>7, <3>1, <3>2, FirstHexOn
  <2> QED BY <2>1, <2>2
<1>11. ~Paired(m + 1) /\ Paired(m + 2) /\ (m + 1) + 1 = m + 2 /\ m + 1 \in Nat
  BY <1>6, <1>7, AfterOne
<1>12. acc[p + 2] = [out |-> Append(o, Doubled(v1, v2)), isok |-> (m + 1) + 1]
  <2>1. acc[p + 2] = TakeHex(t, [out |-> Append(o, v1), isok |-> m + 1], p + 2)
    BY <1>4, <1>5, <1>10
  <2>2. Doubled(v1, v2) \in Byte
    BY <1>1 DEF Doubled
  <2>3. TakeHex(t, [out |-> Append(o, v1), isok |-> m + 1], p + 2) = [out |-> Append(o, Doubled(v1, v2)), isok |-> (m + 1) + 1]
    <3>1. v2 \in Half /\ DigitThere(t, p + 2, v2)
      BY <1>1, <1>3 DEF Half, DigitThere
    <3>2. o \in Seq(Byte) /\ m + 1 \in Nat /\ v1 \in Byte
      BY <1>6, <1>9, <1>11
    <3> DEFINE y == m + 1
    <3>3. y \in Nat /\ ~Paired(y)
      BY <1>11
    <3> HIDE DEF y
    <3>4. TakeHex(t, [out |-> Append(o, v1), isok |-> y], p + 2) = [out |-> Append(o, Doubled(v1, v2)), isok |-> y + 1]
      <4> DEFINE i == p + 2
      <4>1. v2 \in Half /\ DigitThere(t, i, v2)
        BY <3>1
      <4> HIDE DEF i
      <4>2. \A m0 \in Nat : ~Paired(m0) => TakeHex(t, [out |-> Append(o, v1), isok |-> m0], i) = [out |-> Append(o, Doubled(v1, v2)), isok |-> m0 + 1]
        BY <2>2, <3>2, <4>1, SecondHexOn, SMTT(30)
      <4> QED BY <3>3, <4>2 DEF i
    <3> QED BY <3>4 DEF y
  <2> QED BY <2>1, <2>3
<1>13. acc[p + 2].out = Append(o, HalvesSwapped(b)) /\ acc[p + 2].isok = m + 2
  BY <1>1, <1>11, <1>12 DEF Doubled
<1> QED BY <1>11, <1>13 DEF o, NewPair, Paired

\* What the walk passes over: a separator, and the prefix of a group.
LEMMA OverSeparator ==
  ASSUME NEW t \in Seq(Byte), NEW acc, HexWalk(acc, t), NEW p \in Nat, Here(t, p, Separator)
  PROVE  acc[p + 2].out = acc[p].out /\ NewPair(acc[p + 2])
<1>1. p + 2 <= Len(t) /\ t[p + 1] = Comma /\ t[p + 2] = Space
  BY SeparatorIs, HereTwo
<1>2. acc \in [0 .. Len(t) -> Taken] /\ \A k \in 1 .. Len(t) : acc[k] = TakeHex(t, acc[k - 1], k)
  BY DEF HexWalk
<1>3. /\ p \in 0 .. Len(t) /\ p + 1 \in 1 .. Len(t) /\ p + 1 \in 0 .. Len(t) /\ p + 2 \in 1 .. Len(t)
      /\ (p + 1) - 1 = p /\ (p + 2) - 1 = p + 1
  <2>1. p + 2 <= Len(t) /\ Len(t) \in Nat
    BY <1>1
  <2> QED BY <2>1
<1>4. acc[p] \in Taken /\ acc[p + 1] = TakeHex(t, acc[p], p + 1)
  BY <1>2, <1>3
<1>5. acc[p + 1] \in Taken /\ acc[p + 2] = TakeHex(t, acc[p + 1], p + 2)
  BY <1>2, <1>3
<1>6. acc[p + 1].out = acc[p].out
  BY <1>1, <1>4, NoHex
<1>7. acc[p + 2].out = acc[p + 1].out /\ NewPair(acc[p + 2])
  BY <1>1, <1>5, NoHex
<1> QED BY <1>6, <1>7

LEMMA HexPrefixIs == Len(HexPrefix) = 2 /\ HexPrefix[1] = Zero /\ HexPrefix[2] = LowX
BY DEF HexPrefix

LEMMA OverPrefix ==
  ASSUME NEW t \in Seq(Byte), NEW acc, HexWalk(acc, t), NEW p \in Nat, Here(t, p, HexPrefix)
  PROVE  acc[p + 2].out = acc[p].out /\ NewPair(acc[p + 2])
<1>1. p + 2 <= Len(t) /\ t[p + 1] = Zero /\ t[p + 2] = LowX
  BY HexPrefixIs, HereTwo
<1>2. acc \in [0 .. Len(t) -> Taken] /\ \A k \in 1 .. Len(t) : acc[k] = TakeHex(t, acc[k - 1], k)
  BY DEF HexWalk
<1>3. /\ p \in 0 .. Len(t) /\ p + 1 \in 1 .. Len(t) /\ p + 1 \in 0 .. Len(t) /\ p + 2 \in 1 .. Len(t)
      /\ (p + 1) - 1 = p /\ (p + 2) - 1 = p + 1 /\ (p + 1) + 1 = p + 2 /\ p + 1 < Len(t)
  <2>1. p + 2 <= Len(t) /\ Len(t) \in Nat
    BY <1>1
  <2> QED BY <2>1
<1>4. acc[p + 1] = TakeHex(t, acc[p], p + 1)
  BY <1>2, <1>3
<1>5. acc[p + 1] \in Taken /\ acc[p + 2] = TakeHex(t, acc[p + 1], p + 2)
  BY <1>2, <1>3
<1>6. acc[p + 1] = acc[p]
  BY <1>1, <1>3, <1>4 DEF TakeHex
<1>7. acc[p + 2].out = acc[p + 1].out /\ NewPair(acc[p + 2])
  BY <1>1, <1>5, NoHex
<1> QED BY <1>6, <1>7

LEMMA HexDigitsAre ==
  ASSUME NEW b \in Byte
  PROVE  HexDigits(b) \in Seq(Byte) /\ Len(HexDigits(b)) = 2 /\ NotX(HexDigits(b)[1])
<1>1. b % 16 \in 0 .. 15 /\ b \div 16 \in 0 .. 15
  BY SwapIs
<1>2. hexN(b % 16) \in Byte /\ hexN(b \div 16) \in Byte /\ NotX(hexN(b % 16))
  BY <1>1, hexNIs
<1> QED BY <1>2 DEF HexDigits

\* The parts of the text.
HexParts(b) == {HexDigits(b), HexPrefix \o HexDigits(b), (Separator \o HexPrefix) \o HexDigits(b)}

LEMMA HexPartsAre ==
  ASSUME NEW b \in Byte, NEW q \in HexParts(b)
  PROVE  q \in Seq(Byte) /\ Len(q) >= 2 /\ NotX(q[1])
<1> DEFINE d == HexDigits(b)
           h == HexPrefix
           sep == Separator
           sh == Separator \o HexPrefix
<1>1. d \in Seq(Byte) /\ Len(d) = 2 /\ NotX(d[1])
  BY HexDigitsAre
<1>2. h \in Seq(Byte) /\ Len(h) = 2 /\ NotX(h[1])
  <2>1. NotX(Zero)
    BY DEF NotX, Zero, LowX
  <2> QED BY <2>1, HexPrefixIs, Separators
<1>3. sep \in Seq(Byte) /\ Len(sep) = 2 /\ NotX(sep[1])
  <2>1. NotX(Comma)
    BY DEF NotX, Comma, LowX
  <2> QED BY <2>1, SeparatorIs, Separators
<1>4. q = d \/ q = h \o d \/ q = sh \o d
  BY DEF HexParts
<1>5. sh = sep \o h
  OBVIOUS
<1> HIDE DEF d, h, sep, sh
<1>6. sh \in Seq(Byte) /\ Len(sh) = Len(sep) + Len(h)
  BY <1>2, <1>3, <1>5, ConcatProperties
<1>7. sh[1] = sep[1]
  <2>1. 1 \in 1 .. Len(sep) /\ sep \in Seq(Byte) /\ h \in Seq(Byte)
    BY <1>2, <1>3
  <2>2. \A i \in 1 .. Len(sep) : i \in 1 .. Len(sep \o h) /\ (sep \o h)[i] = sep[i]
    BY <2>1, InARow
  <2> QED BY <1>5, <2>1, <2>2
<1>8. ASSUME NEW a \in Seq(Byte), Len(a) >= 2, NotX(a[1]), q = a \o d
      PROVE  q \in Seq(Byte) /\ Len(q) >= 2 /\ NotX(q[1])
  <2>0. d \in Seq(Byte)
    BY <1>1
  <2>1. q \in Seq(Byte) /\ Len(q) = Len(a) + Len(d) /\ Len(d) \in Nat /\ Len(a) \in Nat
    BY <1>8, <2>0, ConcatProperties
  <2>2. \A i \in 1 .. Len(a) : i \in 1 .. Len(a \o d) /\ (a \o d)[i] = a[i]
    BY <2>0, InARow
  <2>3. 1 \in 1 .. Len(a)
    BY <1>8, <2>1
  <2>4. q[1] = a[1]
    BY <1>8, <2>2, <2>3
  <2>5. Len(q) >= 2
    BY <1>8, <2>1
  <2> QED BY <1>8, <2>1, <2>4, <2>5
<1>9. CASE q = d
  BY <1>1, <1>9
<1>10. CASE q = h \o d
  <2>1. h \in Seq(Byte) /\ Len(h) >= 2 /\ NotX(h[1])
    BY <1>2
  <2> QED BY <1>8, <1>10, <2>1
<1>11. CASE q = sh \o d
  <2>1. Len(sh) >= 2
    BY <1>2, <1>3, <1>6
  <2>2. sh \in Seq(Byte) /\ Len(sh) >= 2 /\ NotX(sh[1])
    BY <1>3, <1>6, <1>7, <2>1
  <2> QED BY <1>8, <1>11, <2>2
<1> QED BY <1>4, <1>9, <1>10, <1>11

LEMMA HexPart ==
  ASSUME NEW t \in Seq(Byte), NEW acc, HexWalk(acc, t), NEW b \in Byte, NEW p \in Nat, NEW q \in HexParts(b),
         Here(t, p, q), Ahead(t, p + Len(q)), NewPair(acc[p])
  PROVE  acc[p + Len(q)].out = Append(acc[p].out, HalvesSwapped(b)) /\ NewPair(acc[p + Len(q)])
<1> DEFINE d == HexDigits(b)
           h == HexPrefix
           sep == Separator
<1>1. d \in Seq(Byte) /\ Len(d) = 2 /\ h \in Seq(Byte) /\ Len(h) = 2 /\ sep \in Seq(Byte) /\ Len(sep) = 2
  BY HexDigitsAre, Separators, SeparatorIs, HexPrefixIs
<1>2. q = d \/ q = h \o d \/ q = (sep \o h) \o d
  BY DEF HexParts
<1>3. ASSUME NEW r \in Nat, Here(t, r, d), Ahead(t, r + 2), NewPair(acc[r])
      PROVE  acc[r + 2].out = Append(acc[r].out, HalvesSwapped(b)) /\ NewPair(acc[r + 2])
  BY <1>3, HexPair
<1>4. ASSUME NEW r \in Nat, Here(t, r, h)
      PROVE  acc[r + 2].out = acc[r].out /\ NewPair(acc[r + 2])
  BY <1>4, OverPrefix
<1>5. ASSUME NEW r \in Nat, Here(t, r, sep)
      PROVE  acc[r + 2].out = acc[r].out /\ NewPair(acc[r + 2])
  BY <1>5, OverSeparator
<1> HIDE DEF d, h, sep
<1>6. CASE q = d
  BY <1>1, <1>3, <1>6
<1>7. CASE q = h \o d
  <2>1. Len(q) = 4
    <3>1. Len(h \o d) = Len(h) + Len(d)
      BY <1>1, ConcatProperties
    <3> QED BY <1>1, <1>7, <3>1
  <2>2. Here(t, p, h) /\ Here(t, p + 2, d)
    <3>1. Here(t, p, h) /\ Here(t, p + Len(h), d)
      BY <1>1, <1>7, HereBoth
    <3> QED BY <1>1, <3>1
  <2>3. p + 2 \in Nat /\ (p + 2) + 2 = p + 4
    OBVIOUS
  <2>4. acc[p + 2].out = acc[p].out /\ NewPair(acc[p + 2])
    BY <1>4, <2>2
  <2>5. Ahead(t, (p + 2) + 2)
    BY <2>1, <2>3
  <2>6. acc[(p + 2) + 2].out = Append(acc[p + 2].out, HalvesSwapped(b)) /\ NewPair(acc[(p + 2) + 2])
    BY <1>3, <2>2, <2>3, <2>4, <2>5
  <2> QED BY <2>1, <2>3, <2>4, <2>6
<1>8. CASE q = (sep \o h) \o d
  <2>0. sep \o h \in Seq(Byte) /\ Len(sep \o h) = 4
    <3>1. sep \o h \in Seq(Byte) /\ Len(sep \o h) = Len(sep) + Len(h)
      BY <1>1, ConcatProperties
    <3> QED BY <1>1, <3>1
  <2>1. Len(q) = 6
    <3>1. Len((sep \o h) \o d) = Len(sep \o h) + Len(d)
      BY <1>1, <2>0, ConcatProperties
    <3> QED BY <1>1, <1>8, <2>0, <3>1
  <2>2. Here(t, p, sep) /\ Here(t, p + 2, h) /\ Here(t, p + 4, d)
    <3>1. Here(t, p, sep \o h) /\ Here(t, p + Len(sep \o h), d)
      BY <1>1, <1>8, <2>0, HereBoth
    <3>2. Here(t, p, sep) /\ Here(t, p + Len(sep), h)
      BY <1>1, <3>1, HereBoth
    <3> QED BY <1>1, <2>0, <3>1, <3>2
  <2>3. p + 2 \in Nat /\ p + 4 \in Nat /\ (p + 2) + 2 = p + 4 /\ (p + 4) + 2 = p + 6
    OBVIOUS
  <2>4. acc[p + 2].out = acc[p].out
    BY <1>5, <2>2
  <2>5. acc[(p + 2) + 2].out = acc[p + 2].out /\ NewPair(acc[(p + 2) + 2])
    BY <1>4, <2>2, <2>3
  <2>6. Ahead(t, (p + 4) + 2)
    BY <2>1, <2>3
  <2>7. acc[(p + 4) + 2].out = Append(acc[p + 4].out, HalvesSwapped(b)) /\ NewPair(acc[(p + 4) + 2])
    BY <1>3, <2>2, <2>3, <2>5, <2>6
  <2> QED BY <2>1, <2>3, <2>4, <2>5, <2>7
<1> QED BY <1>2, <1>6, <1>7, <1>8

LEMMA HexTextBack ==
  ASSUME NEW src \in Seq(Byte), NEW w \in Width
  PROVE  hex_decode(hex_encode(src, w)) = AllSwapped(src)
<1> DEFINE Part(i) == (IF (i - 1) % w # 0 THEN <<>> ELSE IF i = 1 THEN HexPrefix ELSE Separator \o HexPrefix)
                      \o HexDigits(src[i])
           seqs == [i \in DOMAIN src |-> Part(i)]
           u == FlattenSeq(seqs)
           t == hex_encode(src, w)
           n == Len(src)
<1>1. t = u \o <<NUL>> /\ t \in Seq(Byte)
  BY hex_encodeIs DEF hex_encode, Grouped, Text
<1>2. n \in Nat /\ \A i \in 1 .. n : src[i] \in Byte
  OBVIOUS
<1>3. ASSUME NEW i \in 1 .. n PROVE Part(i) \in HexParts(src[i])
  <2> DEFINE d == HexDigits(src[i])
             h == HexPrefix
             sep == Separator
  <2>1. d \in Seq(Byte)
    BY <1>2, HexDigitsAre
  <2> HIDE DEF d, h, sep
  <2>2. <<>> \o d = d
    BY <2>1, ConcatEmptySeq
  <2> QED BY <2>2 DEF d, h, sep, HexParts
<1>4. ASSUME NEW i \in 1 .. n PROVE Part(i) \in Seq(Byte) /\ Len(Part(i)) >= 2 /\ NotX(Part(i)[1])
  <2> HIDE DEF Part
  <2> QED BY <1>2, <1>3, HexPartsAre
<1>5. seqs \in Seq(Seq(Byte)) /\ Len(seqs) = n /\ \A i \in 1 .. n : seqs[i] = Part(i)
  <2> HIDE DEF Part
  <2> QED BY <1>4
<1> HIDE DEF Part, seqs
<1>6. PICK loc : Laid(loc, seqs, u)
  BY <1>5, FlattenLaid
<1>7. u \in Seq(Byte)
  BY <1>5, FlattenIs
<1>8. PICK acc : HexWalk(acc, t)
  BY <1>1, HexWalked
<1>9. /\ acc \in [0 .. Len(t) -> Taken] /\ acc[0] = [out |-> <<>>, isok |-> 0] /\ acc[Len(t)].out = hex_decode(t)
      /\ \A i \in 1 .. Len(t) : acc[i] = TakeHex(t, acc[i - 1], i)
  BY <1>8 DEF HexWalk
<1>10. /\ loc \in [0 .. n -> Nat] /\ loc[0] = 0 /\ loc[n] = Len(u)
       /\ \A i \in 1 .. n : /\ loc[i] = loc[i - 1] + Len(seqs[i])
                            /\ \A j \in 1 .. Len(seqs[i]) : u[loc[i - 1] + j] = seqs[i][j]
  BY <1>5, <1>6 DEF Laid
<1>11. Len(t) = Len(u) + 1 /\ Len(u) \in Nat /\ t[Len(t)] = NUL /\ \A p \in 1 .. Len(u) : t[p] = u[p]
  BY <1>1, <1>7
<1>111. \A i \in 0 .. n : loc[i] <= Len(u)
  BY <1>5, <1>6, LaidIn
<1>112. ASSUME NEW i \in 1 .. n PROVE Ahead(t, loc[i])
  <2>1. CASE i = n
    <3>1. t[loc[i] + 1] = NUL
      BY <1>10, <1>11, <2>1
    <3>2. NotX(NUL)
      BY DEF NotX, NUL, LowX
    <3> QED BY <3>1, <3>2 DEF Ahead
  <2>2. CASE i # n
    <3>1. i + 1 \in 1 .. n /\ (i + 1) - 1 = i /\ i \in 0 .. n /\ i + 1 \in 0 .. n
      BY <1>2, <2>2
    <3> DEFINE q == seqs[i + 1]
               k == i + 1
    <3>2. q \in Seq(Byte) /\ Len(q) >= 2 /\ NotX(q[1])
      <4>1. k \in 1 .. n /\ q = Part(k)
        BY <1>5, <3>1
      <4> HIDE DEF q, k
      <4> QED BY <1>4, <4>1
    <3>3. \A j \in 1 .. Len(q) : u[loc[i] + j] = q[j]
      BY <1>10, <3>1
    <3>31. loc[i] \in Nat /\ loc[k] = loc[i] + Len(q) /\ loc[k] <= Len(u)
      BY <1>10, <1>111, <3>1
    <3> HIDE DEF q, k
    <3>4. 1 \in 1 .. Len(q) /\ loc[i] + 1 \in 1 .. Len(u)
      BY <1>11, <3>2, <3>31
    <3>5. t[loc[i] + 1] = q[1]
      BY <1>11, <3>3, <3>4
    <3> QED BY <3>2, <3>5 DEF Ahead
  <2> QED BY <2>1, <2>2
<1>113. AllSwapped(src) \in Seq(Byte) /\ Len(AllSwapped(src)) = n /\ \A i \in 1 .. n : AllSwapped(src)[i] = HalvesSwapped(src[i])
  BY SwappedIs DEF AllSwapped
<1> DEFINE s == AllSwapped(src)
<1> HIDE DEF t, u, n, s
<1> DEFINE T == {k \in 0 .. n : Front1(acc[loc[k]].out, s, k) /\ NewPair(acc[loc[k]])}
<1>12. 0 <= n => 0 \in T
  BY <1>9, <1>10, <1>11 DEF Front1, NewPair
<1>13. ASSUME NEW k \in 0 .. n - 1, k \in T PROVE k + 1 \in T
  <2> DEFINE p == loc[k]
             q == seqs[k + 1]
             b == src[k + 1]
  <2>1. k + 1 \in 1 .. n /\ (k + 1) - 1 = k /\ k \in 0 .. n /\ k + 1 \in 0 .. n /\ k \in Nat
    BY <1>2
  <2>2. b \in Byte /\ p \in Nat /\ loc[k + 1] = p + Len(q) /\ loc[k + 1] <= Len(u)
        /\ \A j \in 1 .. Len(q) : u[p + j] = q[j]
    BY <1>2, <1>10, <1>111, <2>1
  <2>3. q \in HexParts(b) /\ Len(q) \in Nat
    <3>1. q = Part(k + 1) /\ Part(k + 1) \in Seq(Byte)
      BY <1>4, <1>5, <2>1
    <3> QED BY <1>3, <2>1, <3>1
  <2>4. NewPair(acc[p]) /\ Front1(acc[p].out, s, k)
    BY <1>13
  <2>5. acc[p] \in Taken
    <3>1. p <= Len(u) /\ p \in Nat /\ Len(u) \in Nat /\ Len(t) = Len(u) + 1
      BY <1>11, <1>111, <2>1, <2>2
    <3> HIDE DEF p
    <3>2. p \in 0 .. Len(t)
      BY <3>1
    <3> QED BY <1>9, <3>2
  <2> HIDE DEF p, q, b
  <2>6. Here(t, p, q)
    <3>1. p + Len(q) <= Len(u) /\ Len(u) \in Nat /\ Len(t) = Len(u) + 1
      BY <1>11, <2>2
    <3>2. \A j \in 1 .. Len(q) : p + j \in 1 .. Len(u)
      BY <2>2, <2>3, <3>1
    <3>3. p + Len(q) <= Len(t)
      BY <2>2, <2>3, <3>1
    <3> QED BY <1>11, <2>2, <3>2, <3>3 DEF Here
  <2>61. Ahead(t, p + Len(q))
    BY <1>112, <2>1, <2>2
  <2>7. acc[p + Len(q)].out = Append(acc[p].out, HalvesSwapped(b)) /\ NewPair(acc[p + Len(q)])
    <3>1. t \in Seq(Byte) /\ HexWalk(acc, t) /\ b \in Byte /\ p \in Nat
      BY <1>1, <1>8, <2>2
    <3> HIDE DEF T
    <3> QED BY <2>3, <2>4, <2>6, <2>61, <3>1, HexPart
  <2>8. Front1(Append(acc[p].out, HalvesSwapped(b)), s, k + 1)
    <3>1. k + 1 <= Len(s) /\ s \in Seq(Byte) /\ acc[p].out \in Seq(Byte) /\ s[k + 1] = HalvesSwapped(b)
      BY <1>113, <2>1, <2>5 DEF s, b, Taken
    <3> QED BY <2>1, <2>4, <3>1, OneMore
  <2> QED BY <2>1, <2>2, <2>7, <2>8
<1> HIDE DEF T
<1>14. n \in T
  <2>1. 0 \in Int /\ n \in Int /\ n \in 0 .. n
    BY <1>2
  <2> QED BY <1>12, <1>13, <2>1, Upwards
<1>15. acc[Len(u)].out = s
  <2>1. acc[Len(u)] \in Taken /\ Front1(acc[Len(u)].out, s, n)
    BY <1>9, <1>10, <1>11, <1>14 DEF T
  <2>2. s \in Seq(Byte) /\ Len(s) = n
    BY <1>113 DEF s
  <2> QED BY <2>1, <2>2, AllFront DEF Taken
<1>16. acc[Len(t)].out = s
  <2>1. acc[Len(t)] = TakeHex(t, acc[Len(u)], Len(t)) /\ acc[Len(u)] \in Taken
    <3>1. Len(t) \in 1 .. Len(t) /\ Len(t) - 1 = Len(u) /\ Len(u) \in 0 .. Len(t)
      BY <1>11
    <3> QED BY <1>9, <1>11, <3>1
  <2>2. t[Len(t)] \in {Comma, Space, NUL, LowX}
    BY <1>11
  <2> QED BY <1>15, <2>1, <2>2, NoHex
<1> QED BY <1>9, <1>16 DEF t, s

-----------------------------------------------------------------------------
(***************************************************************************)
(* Decimal numbers of one byte read back.                                  *)
(***************************************************************************)
LEMMA NoDigits ==
  ASSUME NEW m, NEW a \in Int, NEW base \in Bases
  PROVE  MulAdd(<<>>, m, a, base) = LowDigits(a, DigitsOf(a, base), base)
<1> DEFINE none == <<>>
           Eq(f) == f = [i \in 0 .. Len(none) |-> IF i = 0 THEN a ELSE (none[i] * m + f[i - 1]) \div base]
           carry == CHOOSE f : Eq(f)
           low == [i \in DOMAIN none |-> (none[i] * m + carry[i - 1]) % base]
<1>1. MulAdd(<<>>, m, a, base) = low \o LowDigits(carry[Len(none)], DigitsOf(carry[Len(none)], base), base)
  BY DEF MulAdd
<1>2. Len(none) = 0 /\ DOMAIN none = {}
  OBVIOUS
<1>3. low = <<>>
  BY <1>2
<1> HIDE DEF none
<1>4. Eq([i \in 0 .. 0 |-> a])
  BY <1>2
<1>5. Eq(carry)
  BY <1>4
<1> HIDE DEF carry, low
<1>6. carry[Len(none)] = a
  BY <1>2, <1>5
<1> DEFINE new == LowDigits(a, DigitsOf(a, base), base)
<1>7. new \in Seq(Digit(base))
  BY NewDigits
<1>8. MulAdd(<<>>, m, a, base) = <<>> \o new
  BY <1>1, <1>3, <1>6
<1> HIDE DEF new
<1>9. <<>> \o new = new
  BY <1>7, ConcatEmptySeq
<1> QED BY <1>8, <1>9 DEF new

LEMMA FirstOf ==
  ASSUME NEW S, NEW s \in Seq(S), Len(s) >= 1
  PROVE  SubSeq(s, 1, 1) = <<s[1]>>
<1> DEFINE u == SubSeq(s, 1, 1)
<1>1. 1 \in 1 .. Len(s) /\ s[1] \in S
  OBVIOUS
<1>2. u = [i \in 1 .. (1 - 1) + 1 |-> s[(i + 1) - 1]]
  BY <1>1
<1>3. u = [i \in 1 .. 1 |-> s[i]]
  BY <1>2
<1> HIDE DEF u
<1>4. u \in [1 .. 1 -> S] /\ u[1] = s[1]
  BY <1>1, <1>3
<1>5. u \in Seq(S) /\ Len(u) = 1
  BY <1>4, FunctionIsSeq
<1>6. <<s[1]>> \in Seq(S) /\ Len(<<s[1]>>) = 1 /\ <<s[1]>>[1] = s[1]
  BY <1>1
<1> DEFINE v == <<s[1]>>
<1> HIDE DEF v
<1>7. \A i \in 1 .. Len(u) : u[i] = v[i]
  BY <1>4, <1>5, <1>6 DEF v
<1>8. u = v
  BY <1>5, <1>6, <1>7, SeqEqual DEF v
<1> QED BY <1>8 DEF u, v

LEMMA OneDigit ==
  ASSUME NEW v \in Byte, NEW d \in Int
  PROVE  SubSeq(MulAdd(<<v>>, 10, d, 256), 1, 1) = <<(v * 10 + d) % 256>>
<1> DEFINE one == <<v>>
           Eq(f) == f = [i \in 0 .. Len(one) |-> IF i = 0 THEN d ELSE (one[i] * 10 + f[i - 1]) \div 256]
           carry == CHOOSE f : Eq(f)
           low == [i \in DOMAIN one |-> (one[i] * 10 + carry[i - 1]) % 256]
           new == LowDigits(carry[Len(one)], DigitsOf(carry[Len(one)], 256), 256)
<1>1. MulAdd(<<v>>, 10, d, 256) = low \o new
  BY DEF MulAdd
<1>2. Len(one) = 1 /\ DOMAIN one = 1 .. 1 /\ one[1] = v
  OBVIOUS
<1> HIDE DEF one
<1>3. Eq([i \in 0 .. 1 |-> IF i = 0 THEN d ELSE (v * 10 + d) \div 256])
  BY <1>2
<1>4. Eq(carry)
  BY <1>3
<1> HIDE DEF carry
<1>5. carry[0] = d /\ carry[1] = (v * 10 + d) \div 256
  BY <1>2, <1>4
<1>6. carry[Len(one)] \in Int
  <2>1. v * 10 + d \in Int
    BY DEF Byte
  <2> QED BY <1>2, <1>5, <2>1
<1>7. new \in Seq(Digit(256))
  <2> DEFINE out == carry[Len(one)]
  <2>1. 256 \in Bases /\ out \in Int
    BY <1>6 DEF Bases
  <2> HIDE DEF out
  <2>2. LowDigits(out, DigitsOf(out, 256), 256) \in Seq(Digit(256))
    BY <2>1, NewDigits
  <2> QED BY <2>2 DEF out
<1> HIDE DEF new
<1>8. low[1] = (v * 10 + d) % 256 /\ DOMAIN low = 1 .. 1
  BY <1>2, <1>5
<1> DEFINE x == (v * 10 + d) % 256
<1>9. x \in Digit(256)
  BY DEF Byte, Digit
<1>10. low \in [1 .. 1 -> Digit(256)]
  <2> HIDE DEF x
  <2> QED BY <1>2, <1>8, <1>9 DEF x
<1> HIDE DEF low, x
<1>11. low \in Seq(Digit(256)) /\ Len(low) = 1
  BY <1>10, FunctionIsSeq, ZenonT(60)
<1> DEFINE s == low \o new
<1>12. s \in Seq(Digit(256)) /\ Len(s) = 1 + Len(new) /\ Len(new) \in Nat /\ s[1] = x
  <2>0. Len(new) \in Nat
    BY <1>7
  <2>01. low \o new \in Seq(Digit(256)) /\ Len(low \o new) = Len(low) + Len(new)
    BY <1>7, <1>11, ConcatProperties, SMTT(30)
  <2>1. s \in Seq(Digit(256)) /\ Len(s) = Len(low) + Len(new) /\ Len(new) \in Nat
    BY <2>0, <2>01
  <2>2. \A i \in 1 .. Len(low) : i \in 1 .. Len(low \o new) /\ (low \o new)[i] = low[i]
    BY <1>7, <1>11, InARow
  <2>3. 1 \in 1 .. Len(low) /\ low[1] = x
    BY <1>8, <1>11 DEF x
  <2> QED BY <1>11, <2>1, <2>2, <2>3
<1> HIDE DEF s
<1>13. SubSeq(s, 1, 1) = <<s[1]>>
  <2>1. Len(s) >= 1
    BY <1>12
  <2> QED BY <1>12, <2>1, FirstOf
<1> QED BY <1>1, <1>12, <1>13 DEF s, x

\* The digits of a byte, highest first, none of a zero.
Decimal(d, b) ==
  /\ d \in Seq(Byte)
  /\ b = 0 => Len(d) = 0
  /\ b \in 1 .. 9 => Len(d) = 1 /\ d[1] = Zero + b
  /\ b \in 10 .. 99 => Len(d) = 2 /\ d[1] = Zero + b \div 10 /\ d[2] = Zero + (b % 10)
  /\ b \in 100 .. 255 => Len(d) = 3 /\ d[1] = Zero + b \div 100 /\ d[2] = Zero + ((b \div 10) % 10) /\ d[3] = Zero + (b % 10)

LEMMA DecimalIs ==
  ASSUME NEW b \in Byte
  PROVE  Decimal(dec_put(<<b>>), b)
<1> DEFINE one == Reverse(<<b>>)
           Eq(f) == f = [i \in 0 .. Len(one) |-> IF i = 0 THEN <<>> ELSE MulAdd(f[i - 1], 256, one[i], 10)]
           acc == CHOOSE f : Eq(f)
           N == DigitsOf(b, 10)
           low == LowDigits(b, N, 10)
           d == dec_put(<<b>>)
<1> SUFFICES Decimal(d, b)
  OBVIOUS
<1>1. Rebase(one, <<>>, 256, 10) = acc[Len(one)]
  BY DEF Rebase
<1>2. Len(one) = 1 /\ one[1] = b
  <2>1. <<b>> \in Seq(Byte) /\ Len(<<b>>) = 1 /\ <<b>>[1] = b
    OBVIOUS
  <2>2. one = [i \in 1 .. 1 |-> <<b>>[(1 - i) + 1]]
    BY <2>1 DEF Reverse
  <2>3. (1 - 1) + 1 = 1 /\ 1 \in 1 .. 1
    OBVIOUS
  <2> QED BY <2>1, <2>2, <2>3
<1> HIDE DEF one
<1>3. Eq([i \in 0 .. 1 |-> IF i = 0 THEN <<>> ELSE MulAdd(<<>>, 256, b, 10)])
  BY <1>2
<1>4. Eq(acc)
  BY <1>3
<1> HIDE DEF acc
<1>5. acc[0] = <<>> /\ acc[1] = MulAdd(acc[0], 256, b, 10)
  BY <1>2, <1>4
<1>6. MulAdd(<<>>, 256, b, 10) = low
  BY NoDigits DEF Bases, Byte
<1>7. Rebase(one, <<>>, 256, 10) = low
  BY <1>1, <1>2, <1>5, <1>6
<1>8. d = [i \in DOMAIN low |-> Zero + low[Len(low) + 1 - i]]
  BY <1>7 DEF dec_put, one
<1>9. low = [i \in 1 .. N |-> (b \div 10 ^ (i - 1)) % 10]
  BY DEF LowDigits
<1>10. b \in 0 .. 255
  BY DEF Byte
<1>11. N = IF b = 0 THEN 0 ELSE IF b < 10 THEN 1 ELSE IF b < 100 THEN 2 ELSE 3
  BY <1>10 DEF DigitsOf
<1>12. d \in Seq(Byte)
  <2>1. <<b>> \in Seq(Byte)
    OBVIOUS
  <2> QED BY <2>1, dec_putIs
<1> HIDE DEF low, d, N
<1>13. N \in 0 .. 3
  BY <1>11
<1>14. Len(low) = N /\ DOMAIN low = 1 .. N
  BY <1>9, <1>13
<1>15. DOMAIN d = 1 .. N /\ Len(d) = N /\ \A i \in 1 .. N : d[i] = Zero + low[(N + 1) - i]
  BY <1>8, <1>13, <1>14
<1> DEFINE P(i) == 10 ^ (i - 1)
<1>16. \A i \in 1 .. N : low[i] = (b \div P(i)) % 10
  BY <1>9
<1>17. P(1) = 1 /\ P(2) = 10 /\ P(3) = 100
  BY SMT
<1> HIDE DEF P
<1>18. CASE b = 0
  BY <1>11, <1>12, <1>15, <1>18 DEF Decimal
<1>19. CASE b \in 1 .. 9
  <2>1. N = 1 /\ 1 \in 1 .. N /\ (N + 1) - 1 = 1
    BY <1>11, <1>19
  <2>2. low[1] = (b \div 1) % 10 /\ d[1] = Zero + low[1]
    BY <1>15, <1>16, <1>17, <2>1
  <2>3. (b \div 1) % 10 = b
    BY <1>19
  <2> QED BY <1>12, <1>15, <1>19, <2>1, <2>2, <2>3 DEF Decimal
<1>20. CASE b \in 10 .. 99
  <2>1. N = 2 /\ 1 \in 1 .. N /\ 2 \in 1 .. N /\ (N + 1) - 1 = 2 /\ (N + 1) - 2 = 1
    BY <1>11, <1>20
  <2>2. low[1] = (b \div 1) % 10 /\ low[2] = (b \div 10) % 10 /\ d[1] = Zero + low[2] /\ d[2] = Zero + low[1]
    BY <1>15, <1>16, <1>17, <2>1
  <2>3. (b \div 1) % 10 = b % 10 /\ (b \div 10) % 10 = b \div 10
    BY <1>20
  <2>4. d[1] = Zero + b \div 10 /\ d[2] = Zero + (b % 10)
    BY <2>2, <2>3
  <2>5. ~(b = 0) /\ ~(b \in 1 .. 9) /\ ~(b \in 100 .. 255)
    BY <1>20
  <2> QED BY <1>12, <1>15, <2>1, <2>4, <2>5 DEF Decimal
<1>21. CASE b \in 100 .. 255
  <2>1. /\ N = 3 /\ 1 \in 1 .. N /\ 2 \in 1 .. N /\ 3 \in 1 .. N
        /\ (N + 1) - 1 = 3 /\ (N + 1) - 2 = 2 /\ (N + 1) - 3 = 1
    BY <1>11, <1>21
  <2>2. low[1] = (b \div 1) % 10 /\ low[2] = (b \div 10) % 10 /\ low[3] = (b \div 100) % 10
        /\ d[1] = Zero + low[3] /\ d[2] = Zero + low[2] /\ d[3] = Zero + low[1]
    BY <1>15, <1>16, <1>17, <2>1
  <2>3. (b \div 1) % 10 = b % 10 /\ (b \div 100) % 10 = b \div 100
    BY <1>21
  <2>4. d[1] = Zero + b \div 100 /\ d[2] = Zero + ((b \div 10) % 10) /\ d[3] = Zero + (b % 10)
    BY <2>2, <2>3
  <2>5. ~(b = 0) /\ ~(b \in 1 .. 9) /\ ~(b \in 10 .. 99)
    BY <1>21
  <2> QED BY <1>12, <1>15, <2>1, <2>4, <2>5 DEF Decimal
<1> QED BY <1>10, <1>18, <1>19, <1>20, <1>21

\* One more digit, and what is none.
Tens(x, v) == 10 * x + v

LEMMA FirstDigitOn ==
  ASSUME NEW o \in Seq(Word(1)), NEW v \in Digit(10), NEW ch, ch = Zero + v
  PROVE  TakeDigit([out |-> o, isok |-> FALSE], ch, 1) = [out |-> Append(o, <<v>>), isok |-> TRUE]
<1> DEFINE none == [k \in 1 .. 1 |-> 0]
           zero == <<0>>
           new == <<v>>
<1>1. ch \in Digits /\ ch - Zero = v /\ v \in Byte /\ 0 \in Byte /\ v \in Int
  BY DEF Digits, Digit, Zero, Byte
<1>2. none = zero
  <2>1. none \in Seq(Byte) /\ Len(none) = 1 /\ none[1] = 0
    <3>1. none \in [1 .. 1 -> Byte] /\ none[1] = 0
      BY <1>1
    <3> HIDE DEF none
    <3> QED BY <3>1, FunctionIsSeq
  <2>2. zero \in Seq(Byte) /\ Len(zero) = 1 /\ zero[1] = 0
    BY <1>1
  <2> HIDE DEF none, zero
  <2> QED BY <2>1, <2>2, SeqEqual
<1>3. SubSeq(MulAdd(zero, 10, v, 256), 1, 1) = <<(0 * 10 + v) % 256>>
  BY <1>1, OneDigit, ZenonT(60)
<1>4. (0 * 10 + v) % 256 = v
  BY DEF Digit
<1>5. zero \in Word(1) /\ new \in Word(1)
  BY <1>1 DEF Word
<1> HIDE DEF none, zero
<1>6. Last(Append(o, zero)) = zero /\ WithLast(Append(o, zero), new) = Append(o, new)
  <2> HIDE DEF new
  <2> QED BY <1>5, WithLastOf
<1>7. TakeDigit([out |-> o, isok |-> FALSE], ch, 1)
        = [out |-> WithLast(Append(o, none), SubSeq(MulAdd(Last(Append(o, none)), 10, ch - Zero, 256), 1, 1)), isok |-> TRUE]
  BY <1>1 DEF TakeDigit, none
<1>8. SubSeq(MulAdd(zero, 10, v, 256), 1, 1) = new
  BY <1>3, <1>4
<1> HIDE DEF new
<1> QED BY <1>1, <1>2, <1>6, <1>7, <1>8 DEF new

LEMMA NextDigitOn ==
  ASSUME NEW o \in Seq(Word(1)), NEW v \in Digit(10), NEW ch, ch = Zero + v, NEW x \in Byte, Tens(x, v) \in Byte
  PROVE  TakeDigit([out |-> Append(o, <<x>>), isok |-> TRUE], ch, 1) = [out |-> Append(o, <<Tens(x, v)>>), isok |-> TRUE]
<1> DEFINE old == <<x>>
           y == Tens(x, v)
           new == <<y>>
<1>1. ch \in Digits /\ ch - Zero = v /\ v \in Int
  BY DEF Digits, Digit, Zero
<1>2. SubSeq(MulAdd(old, 10, v, 256), 1, 1) = <<(x * 10 + v) % 256>>
  BY <1>1, OneDigit
<1>3. (x * 10 + v) % 256 = y
  <2>1. x * 10 + v = y
    BY <1>1 DEF Tens, Byte
  <2>2. y % 256 = y
    BY ByteOver
  <2> QED BY <2>1, <2>2
<1>4. old \in Word(1) /\ new \in Word(1)
  <2> HIDE DEF y
  <2>1. y \in Byte
    BY DEF y
  <2> QED BY <2>1 DEF Word
<1>5. SubSeq(MulAdd(old, 10, v, 256), 1, 1) = new
  BY <1>2, <1>3
<1> HIDE DEF old, new
<1>6. Last(Append(o, old)) = old /\ WithLast(Append(o, old), new) = Append(o, new)
  BY <1>4, WithLastOf
<1>7. TakeDigit([out |-> Append(o, old), isok |-> TRUE], ch, 1)
        = [out |-> WithLast(Append(o, old), SubSeq(MulAdd(Last(Append(o, old)), 10, ch - Zero, 256), 1, 1)), isok |-> TRUE]
  BY <1>1 DEF TakeDigit
<1>8. TakeDigit([out |-> Append(o, old), isok |-> TRUE], ch, 1) = [out |-> Append(o, new), isok |-> TRUE]
  BY <1>1, <1>5, <1>6, <1>7, ZenonT(60)
<1> QED BY <1>8 DEF old, new, y

LEMMA NoDigitOn ==
  ASSUME NEW acc \in SomeNumbers(1), NEW ch \in {Comma, Space, NUL}
  PROVE  TakeDigit(acc, ch, 1).out = acc.out /\ TakeDigit(acc, ch, 1).isok = FALSE
<1>1. ch \notin Digits
  BY DEF Comma, Space, NUL, Digits
<1>2. TakeDigit(acc, ch, 1) = [acc EXCEPT !.isok = FALSE]
  BY <1>1 DEF TakeDigit
<1> QED BY <1>2 DEF SomeNumbers

\* What a byte adds to the numbers.
Added(o, b) == IF b = 0 THEN o ELSE Append(o, <<b>>)

LEMMA DecimalOn ==
  ASSUME NEW t \in Seq(Byte), NEW acc, NumberWalk(acc, t, 1), NEW b \in Byte, NEW d, Decimal(d, b),
         NEW p \in Nat, Here(t, p, d), acc[p].isok = FALSE
  PROVE  acc[p + Len(d)].out = Added(acc[p].out, b)
<1> DEFINE o == acc[p].out
<1>1. d \in Seq(Byte) /\ Len(d) \in Nat
  BY DEF Decimal
<1>2. p + Len(d) <= Len(t) /\ \A j \in 1 .. Len(d) : t[p + j] = d[j]
  BY DEF Here
<1>3. acc \in [0 .. Len(t) -> SomeNumbers(1)] /\ \A i \in 1 .. Len(t) : acc[i] = TakeDigit(acc[i - 1], t[i], 1)
  BY DEF NumberWalk
<1>4. acc[p] = [out |-> o, isok |-> FALSE] /\ o \in Seq(Word(1))
  <2>1. p \in 0 .. Len(t)
    BY <1>1, <1>2
  <2>2. acc[p] \in SomeNumbers(1)
    BY <1>3, <2>1
  <2> QED BY <2>2 DEF SomeNumbers
<1>5. b \in 0 .. 255
  BY DEF Byte
<1>6. ASSUME NEW j \in 1 .. Len(d)
      PROVE  acc[p + j] = TakeDigit(acc[p + (j - 1)], d[j], 1)
  <2>1. p + j \in 1 .. Len(t) /\ (p + j) - 1 = p + (j - 1)
    BY <1>1, <1>2
  <2>2. acc[p + j] = TakeDigit(acc[(p + j) - 1], t[p + j], 1)
    BY <1>3, <2>1
  <2> QED BY <1>2, <2>1, <2>2
<1> DEFINE q(j) == acc[p + j]
<1>7. q(0) = [out |-> o, isok |-> FALSE]
  BY <1>4
<1>8. /\ Len(d) >= 1 => q(1) = TakeDigit(q(0), d[1], 1)
      /\ Len(d) >= 2 => q(2) = TakeDigit(q(1), d[2], 1)
      /\ Len(d) >= 3 => q(3) = TakeDigit(q(2), d[3], 1)
  <2>1. /\ Len(d) >= 1 => 1 \in 1 .. Len(d)
        /\ Len(d) >= 2 => 2 \in 1 .. Len(d)
        /\ Len(d) >= 3 => 3 \in 1 .. Len(d)
    BY <1>1
  <2>2. 1 - 1 = 0 /\ 2 - 1 = 1 /\ 3 - 1 = 2
    OBVIOUS
  <2> QED BY <1>6, <2>1, <2>2
<1>9. acc[p + Len(d)] = q(Len(d))
  OBVIOUS
<1> HIDE DEF q, o
<1> SUFFICES q(Len(d)).out = Added(o, b)
  BY <1>9 DEF o
<1>10. CASE b = 0
  BY <1>7, <1>10 DEF Decimal, Added
<1>11. ASSUME NEW v \in Digit(10), d[1] = Zero + v, Len(d) >= 1
       PROVE  q(1) = [out |-> Append(o, <<v>>), isok |-> TRUE]
  <2>1. TakeDigit([out |-> o, isok |-> FALSE], d[1], 1) = [out |-> Append(o, <<v>>), isok |-> TRUE]
    BY <1>4, <1>11, FirstDigitOn
  <2> QED BY <1>7, <1>8, <1>11, <2>1
<1>12. ASSUME NEW x \in Byte, NEW v \in Digit(10), NEW ch, ch = Zero + v, Tens(x, v) \in Byte
       PROVE  TakeDigit([out |-> Append(o, <<x>>), isok |-> TRUE], ch, 1) = [out |-> Append(o, <<Tens(x, v)>>), isok |-> TRUE]
  BY <1>4, <1>12, NextDigitOn
<1>13. CASE b \in 1 .. 9
  <2>1. Len(d) = 1 /\ d[1] = Zero + b /\ b \in Digit(10) /\ b # 0
    BY <1>13 DEF Decimal, Digit
  <2>2. q(1) = [out |-> Append(o, <<b>>), isok |-> TRUE]
    BY <1>11, <2>1
  <2> QED BY <2>1, <2>2 DEF Added
<1>14. CASE b \in 10 .. 99
  <2> DEFINE v1 == b \div 10
             v2 == b % 10
  <2>1. Len(d) = 2 /\ d[1] = Zero + v1 /\ d[2] = Zero + v2 /\ b # 0
    BY <1>14 DEF Decimal
  <2>2. v1 \in Digit(10) /\ v2 \in Digit(10) /\ v1 \in Byte /\ Tens(v1, v2) = b
    BY <1>14 DEF Digit, Byte, Tens
  <2> HIDE DEF v1, v2
  <2>3. q(1) = [out |-> Append(o, <<v1>>), isok |-> TRUE]
    <3>1. Len(d) >= 1
      BY <2>1
    <3> QED BY <1>11, <2>1, <2>2, <3>1
  <2>4. TakeDigit([out |-> Append(o, <<v1>>), isok |-> TRUE], d[2], 1) = [out |-> Append(o, <<Tens(v1, v2)>>), isok |-> TRUE]
    <3>1. Tens(v1, v2) \in Byte
      BY <2>2
    <3> QED BY <1>12, <2>1, <2>2, <3>1
  <2>5. q(2) = [out |-> Append(o, <<b>>), isok |-> TRUE]
    <3>1. q(2) = TakeDigit(q(1), d[2], 1)
      BY <1>8, <2>1
    <3> QED BY <2>2, <2>3, <2>4, <3>1
  <2> QED BY <2>1, <2>5 DEF Added
<1>15. CASE b \in 100 .. 255
  <2> DEFINE v1 == b \div 100
             v2 == (b \div 10) % 10
             v3 == b % 10
             y == Tens(v1, v2)
  <2>1. Len(d) = 3 /\ d[1] = Zero + v1 /\ d[2] = Zero + v2 /\ d[3] = Zero + v3 /\ b # 0
    BY <1>15 DEF Decimal
  <2>2. v1 \in Digit(10) /\ v2 \in Digit(10) /\ v3 \in Digit(10) /\ v1 \in Byte
    BY <1>15 DEF Digit, Byte
  <2>3. y = b \div 10 /\ y \in Byte
    BY <1>15 DEF Byte, Tens
  <2>4. Tens(b \div 10, v3) = b
    BY <1>15 DEF Tens
  <2>5. Tens(y, v3) = b
    BY <2>3, <2>4
  <2> HIDE DEF v1, v2, v3, y
  <2>6. q(1) = [out |-> Append(o, <<v1>>), isok |-> TRUE]
    <3>1. Len(d) >= 1
      BY <2>1
    <3> QED BY <1>11, <2>1, <2>2, <3>1
  <2>7. TakeDigit([out |-> Append(o, <<v1>>), isok |-> TRUE], d[2], 1) = [out |-> Append(o, <<y>>), isok |-> TRUE]
    <3>1. Tens(v1, v2) \in Byte
      BY <2>3 DEF y
    <3>2. TakeDigit([out |-> Append(o, <<v1>>), isok |-> TRUE], d[2], 1) = [out |-> Append(o, <<Tens(v1, v2)>>), isok |-> TRUE]
      BY <1>12, <2>1, <2>2, <3>1
    <3> QED BY <3>2 DEF y
  <2>8. TakeDigit([out |-> Append(o, <<y>>), isok |-> TRUE], d[3], 1) = [out |-> Append(o, <<Tens(y, v3)>>), isok |-> TRUE]
    <3>1. Tens(y, v3) \in Byte
      BY <2>5
    <3> QED BY <1>12, <2>1, <2>2, <2>3, <3>1
  <2>9. q(2) = [out |-> Append(o, <<y>>), isok |-> TRUE]
    <3>1. q(2) = TakeDigit(q(1), d[2], 1)
      BY <1>8, <2>1
    <3> QED BY <2>6, <2>7, <3>1
  <2>10. q(3) = [out |-> Append(o, <<b>>), isok |-> TRUE]
    <3>1. q(3) = TakeDigit(q(2), d[3], 1)
      BY <1>8, <2>1
    <3> QED BY <2>5, <2>8, <2>9, <3>1
  <2> QED BY <2>1, <2>10 DEF Added
<1> QED BY <1>5, <1>10, <1>13, <1>14, <1>15

LEMMA OneOf ==
  ASSUME NEW S, NEW s \in Seq(S), NEW i \in 1 .. Len(s)
  PROVE  SubSeq(s, i, i) = <<s[i]>>
<1> DEFINE u == SubSeq(s, i, i)
           v == <<s[i]>>
<1>1. s[i] \in S /\ i \in Int /\ (i - i) + 1 = 1 /\ (1 + i) - 1 = i
  OBVIOUS
<1>2. u \in Seq(S) /\ Len(u) = 1 /\ u[1] = s[i]
  <2>1. \A j \in i .. i : s[j] \in S
    BY <1>1
  <2>2. u \in Seq(S) /\ Len(u) = IF i <= i THEN i - i + 1 ELSE 0
    BY <1>1, <2>1, SubSeqProperties
  <2>3. \A j \in 1 .. i - i + 1 : u[j] = s[i + j - 1]
    BY <1>1, <2>1, SubSeqProperties
  <2>4. i - i + 1 = 1 /\ i + 1 - 1 = i /\ 1 \in 1 .. 1 /\ i <= i
    BY <1>1
  <2> HIDE DEF u
  <2> QED BY <2>2, <2>3, <2>4
<1>3. v \in Seq(S) /\ Len(v) = 1 /\ v[1] = s[i]
  BY <1>1
<1> HIDE DEF u, v
<1>4. \A j \in 1 .. Len(u) : u[j] = v[j]
  BY <1>2, <1>3
<1>5. u = v
  BY <1>2, <1>3, <1>4, SeqEqual
<1> QED BY <1>5 DEF u, v

\* Each byte as a number of its own.
Singles(s) == [j \in DOMAIN s |-> <<s[j]>>]

LEMMA SinglesAre ==
  ASSUME NEW s \in Seq(Byte)
  PROVE  Singles(s) \in Seq(Word(1)) /\ Len(Singles(s)) = Len(s) /\ \A j \in 1 .. Len(s) : Singles(s)[j] = <<s[j]>>
<1> DEFINE n == Len(s)
           u == Singles(s)
<1>1. n \in Nat /\ DOMAIN s = 1 .. n /\ \A j \in 1 .. n : s[j] \in Byte
  OBVIOUS
<1>2. ASSUME NEW b \in Byte PROVE <<b>> \in Word(1)
  BY DEF Word
<1>3. u = [j \in 1 .. n |-> <<s[j]>>]
  BY <1>1 DEF Singles
<1>4. \A j \in 1 .. n : <<s[j]>> \in Word(1)
  BY <1>1, <1>2
<1> DEFINE R == Word(1)
<1> HIDE DEF n, u, R
<1>5. u \in [1 .. n -> R] /\ \A j \in 1 .. n : u[j] = <<s[j]>>
  BY <1>3, <1>4 DEF R
<1>6. u \in Seq(R) /\ Len(u) = n
  BY <1>1, <1>5, FunctionIsSeq
<1> QED BY <1>5, <1>6 DEF n, u, R

LEMMA SinglesBack ==
  ASSUME NEW s \in Seq(Byte)
  PROVE  FlattenSeq(Singles(s)) = s
<1> DEFINE n == Len(s)
           u == Singles(s)
           loc == [i \in 0 .. n |-> i]
<1>1. n \in Nat
  OBVIOUS
<1>2. u \in Seq(Word(1)) /\ Len(u) = n /\ \A j \in 1 .. n : u[j] = <<s[j]>>
  BY SinglesAre
<1>3. u \in Seq(Seq(Byte))
  <2>1. Word(1) \subseteq Seq(Byte)
    BY DEF Word
  <2> HIDE DEF u
  <2> QED BY <1>2, <2>1, SeqMonotonic
<1>4. \A j \in 1 .. n : s[j] \in Byte
  OBVIOUS
<1> HIDE DEF u
<1>5. Laid(loc, u, s)
  <2>1. loc \in [0 .. n -> Nat] /\ loc[0] = 0 /\ loc[n] = n
    BY <1>1
  <2>2. ASSUME NEW i \in 1 .. n
        PROVE  loc[i] = loc[i - 1] + Len(u[i]) /\ \A j \in 1 .. Len(u[i]) : s[loc[i - 1] + j] = u[i][j]
    <3>1. i \in 0 .. n /\ i - 1 \in 0 .. n /\ loc[i] = i /\ loc[i - 1] = i - 1 /\ (i - 1) + 1 = i
      BY <1>1
    <3>2. Len(u[i]) = 1 /\ u[i][1] = s[i]
      <4>1. Len(<<s[i]>>) = 1 /\ <<s[i]>>[1] = s[i]
        OBVIOUS
      <4>2. u[i] = <<s[i]>>
        BY <1>2
      <4> QED BY <4>1, <4>2
    <3> HIDE DEF loc
    <3>3. \A j \in 1 .. 1 : j = 1
      OBVIOUS
    <3> QED BY <3>1, <3>2, <3>3
  <2> HIDE DEF loc
  <2> QED BY <1>2, <2>1, <2>2 DEF Laid
<1> HIDE DEF loc
<1> QED BY <1>3, <1>5, LaidSame DEF u

\* What decimal keeps of a byte.
NotNone(b) == IF b = 0 THEN <<>> ELSE <<b>>

LEMMA SinglesMore ==
  ASSUME NEW s \in Seq(Byte), NEW b \in Byte
  PROVE  Singles(s \o NotNone(b)) = Added(Singles(s), b)
<1>1. CASE b = 0
  <2>1. s \o <<>> = s
    BY ConcatEmptySeq
  <2> QED BY <1>1, <2>1 DEF NotNone, Added
<1>2. CASE b # 0
  <2> DEFINE n == Len(s)
             a == Append(s, b)
             u == Singles(a)
             v == Append(Singles(s), <<b>>)
  <2>1. n \in Nat /\ a \in Seq(Byte) /\ Len(a) = n + 1 /\ a[n + 1] = b /\ \A j \in 1 .. n : a[j] = s[j]
    OBVIOUS
  <2>2. s \o <<b>> = a
    OBVIOUS
  <2>3. Singles(s) \in Seq(Word(1)) /\ Len(Singles(s)) = n /\ \A j \in 1 .. n : Singles(s)[j] = <<s[j]>>
    BY SinglesAre
  <2> HIDE DEF a
  <2>4. u \in Seq(Word(1)) /\ Len(u) = n + 1 /\ \A j \in 1 .. n + 1 : u[j] = <<a[j]>>
    BY <2>1, SinglesAre
  <2>5. <<b>> \in Word(1)
    BY DEF Word
  <2> DEFINE w == <<b>>
             p == Singles(s)
  <2>6. w = <<b>> /\ p = Singles(s)
    OBVIOUS
  <2> HIDE DEF w, p, n
  <2>7. Append(p, w) \in Seq(Word(1)) /\ Len(Append(p, w)) = n + 1 /\ Append(p, w)[n + 1] = w /\ \A j \in 1 .. n : Append(p, w)[j] = p[j]
    BY <2>3, <2>5, <2>6, AppendProperties
  <2>8. ASSUME NEW j \in 1 .. n + 1 PROVE u[j] = Append(p, w)[j]
    <3>1. j = n + 1 \/ j \in 1 .. n
      BY <2>1
    <3>2. CASE j = n + 1
      BY <2>1, <2>4, <2>6, <2>7, <3>2
    <3>3. CASE j \in 1 .. n
      BY <2>1, <2>3, <2>4, <2>6, <2>7, <3>3, ZenonT(60)
    <3> QED BY <3>1, <3>2, <3>3
  <2> HIDE DEF u
  <2>9. u = Append(p, w)
    BY <2>4, <2>7, <2>8, SeqEqual
  <2> QED BY <1>2, <2>2, <2>6, <2>9 DEF NotNone, Added, u
<1> QED BY <1>1, <1>2

\* The separator ends a number.
LEMMA OverSeparatorTo ==
  ASSUME NEW t \in Seq(Byte), NEW acc, NumberWalk(acc, t, 1), NEW p \in Nat, Here(t, p, Separator)
  PROVE  acc[p + 2].out = acc[p].out /\ acc[p + 2].isok = FALSE
<1>1. p + 2 <= Len(t) /\ t[p + 1] = Comma /\ t[p + 2] = Space
  BY SeparatorIs, HereTwo
<1>2. acc \in [0 .. Len(t) -> SomeNumbers(1)] /\ \A k \in 1 .. Len(t) : acc[k] = TakeDigit(acc[k - 1], t[k], 1)
  BY DEF NumberWalk
<1>3. /\ p \in 0 .. Len(t) /\ p + 1 \in 1 .. Len(t) /\ p + 1 \in 0 .. Len(t) /\ p + 2 \in 1 .. Len(t)
      /\ (p + 1) - 1 = p /\ (p + 2) - 1 = p + 1
  <2>1. p + 2 <= Len(t) /\ Len(t) \in Nat
    BY <1>1
  <2> QED BY <2>1
<1>4. acc[p] \in SomeNumbers(1) /\ acc[p + 1] = TakeDigit(acc[p], Comma, 1)
  BY <1>1, <1>2, <1>3
<1>5. acc[p + 1] \in SomeNumbers(1) /\ acc[p + 2] = TakeDigit(acc[p + 1], Space, 1)
  BY <1>1, <1>2, <1>3
<1>6. acc[p + 1].out = acc[p].out
  BY <1>4, NoDigitOn
<1>7. acc[p + 2].out = acc[p + 1].out /\ acc[p + 2].isok = FALSE
  BY <1>5, NoDigitOn
<1> QED BY <1>6, <1>7

\* A number in front of which there is none, or a separator.
NumberPart(q, d, before) == (q = d /\ before.isok = FALSE) \/ q = Separator \o d

LEMMA DecimalPart ==
  ASSUME NEW t \in Seq(Byte), NEW acc, NumberWalk(acc, t, 1), NEW b \in Byte, NEW d, Decimal(d, b),
         NEW p \in Nat, NEW q, Here(t, p, q),
         NumberPart(q, d, acc[p])
  PROVE  acc[p + Len(q)].out = Added(acc[p].out, b)
<1>1. CASE q = d /\ acc[p].isok = FALSE
  BY <1>1, DecimalOn, ZenonT(60)
<1>2. CASE q = Separator \o d
  <2> DEFINE sep == Separator
  <2>1. sep \in Seq(Byte) /\ Len(sep) = 2 /\ d \in Seq(Byte) /\ Len(d) \in Nat
    BY Separators, SeparatorIs DEF Decimal
  <2>2. q = sep \o d
    BY <1>2
  <2>3. \A r \in Nat : Here(t, r, sep) => acc[r + 2].out = acc[r].out /\ acc[r + 2].isok = FALSE
    BY OverSeparatorTo
  <2> HIDE DEF sep
  <2>4. Len(q) = 2 + Len(d)
    <3>1. Len(sep \o d) = Len(sep) + Len(d)
      BY <2>1, ConcatProperties
    <3> QED BY <2>1, <2>2, <3>1
  <2>5. Here(t, p, sep) /\ Here(t, p + 2, d)
    <3>1. Here(t, p, sep) /\ Here(t, p + Len(sep), d)
      BY <2>1, <2>2, HereBoth
    <3> QED BY <2>1, <3>1
  <2>6. acc[p + 2].out = acc[p].out /\ acc[p + 2].isok = FALSE
    BY <2>3, <2>5
  <2>7. p + 2 \in Nat /\ (p + 2) + Len(d) = p + Len(q)
    BY <2>1, <2>4
  <2>8. acc[(p + 2) + Len(d)].out = Added(acc[p + 2].out, b)
    BY <2>5, <2>6, <2>7, DecimalOn, ZenonT(60)
  <2> QED BY <2>6, <2>7, <2>8
<1> QED BY <1>1, <1>2 DEF NumberPart

LEMMA DecTextBack ==
  ASSUME NEW src \in Seq(Byte)
  PROVE  dec_decode(dec_encode(src, 1), 1) = FlattenSeq([i \in DOMAIN src |-> IF src[i] = 0 THEN <<>> ELSE <<src[i]>>])
<1> DEFINE Part(i) == (IF i = 1 THEN <<>> ELSE Separator) \o dec_put(SubSeq(src, 1 * (i - 1) + 1, 1 * i))
           n == Len(src)
           seqs == [i \in 1 .. n |-> Part(i)]
           u == FlattenSeq(seqs)
           t == dec_encode(src, 1)
           pieces == [i \in DOMAIN src |-> IF src[i] = 0 THEN <<>> ELSE <<src[i]>>]
           kept == FlattenSeq(pieces)
<1>0. n \in Nat /\ \A i \in 1 .. n : src[i] \in Byte
  OBVIOUS
<1>1. Words(src, 1) = n
  BY <1>0 DEF Words
<1>2. Rest(src, 1) = <<>>
  <2>1. Len(src) - 1 * Words(src, 1) = 0
    BY <1>0, <1>1
  <2> QED BY <2>1 DEF Rest
<1>3. t = u \o <<>> \o <<NUL>> /\ t \in Seq(Byte)
  <2>1. 1 \in Width
    BY DEF Width
  <2>2. t \in Seq(Byte)
    BY <2>1, dec_encodeIs DEF Text
  <2>3. t = FlattenSeq([i \in 1 .. Words(src, 1) |-> Part(i)]) \o Rest(src, 1) \o <<NUL>>
    BY DEF dec_encode
  <2> HIDE DEF Part, t
  <2> QED BY <1>1, <1>2, <2>2, <2>3
<1>4. ASSUME NEW i \in 1 .. n
      PROVE  /\ Part(i) = (IF i = 1 THEN <<>> ELSE Separator) \o dec_put(<<src[i]>>)
             /\ dec_put(<<src[i]>>) \in Seq(Byte) /\ Decimal(dec_put(<<src[i]>>), src[i])
  <2>1. 1 * (i - 1) + 1 = i /\ 1 * i = i
    BY <1>0
  <2>2. SubSeq(src, i, i) = <<src[i]>>
    BY OneOf
  <2>3. Part(i) = (IF i = 1 THEN <<>> ELSE Separator) \o dec_put(<<src[i]>>)
    BY <2>1, <2>2
  <2>4. Decimal(dec_put(<<src[i]>>), src[i])
    BY <1>0, DecimalIs
  <2> QED BY <2>3, <2>4 DEF Decimal
<1> HIDE DEF Part
<1>5. ASSUME NEW i \in 1 .. n
      PROVE  Part(i) \in Seq(Byte) /\ Part(i) = IF i = 1 THEN dec_put(<<src[i]>>) ELSE Separator \o dec_put(<<src[i]>>)
  <2> DEFINE d == dec_put(<<src[i]>>)
             sep == Separator
  <2>1. d \in Seq(Byte) /\ sep \in Seq(Byte) /\ Part(i) = (IF i = 1 THEN <<>> ELSE sep) \o d
    BY <1>4, Separators
  <2> HIDE DEF d, sep
  <2>2. <<>> \o d = d /\ sep \o d \in Seq(Byte)
    BY <2>1, ConcatEmptySeq, ConcatProperties
  <2>3. Part(i) \in Seq(Byte) /\ Part(i) = IF i = 1 THEN d ELSE sep \o d
    BY <2>1, <2>2
  <2> QED BY <2>3 DEF d, sep
<1>6. seqs \in Seq(Seq(Byte)) /\ Len(seqs) = n /\ \A i \in 1 .. n : seqs[i] = Part(i)
  <2> DEFINE Q == Seq(Byte)
  <2>1. \A i \in 1 .. n : Part(i) \in Q
    BY <1>5
  <2>2. \A i \in 1 .. n : seqs[i] = Part(i)
    OBVIOUS
  <2> HIDE DEF n, Q
  <2>3. seqs \in [1 .. n -> Q]
    BY <2>1
  <2> HIDE DEF seqs
  <2>4. seqs \in Seq(Q) /\ Len(seqs) = n
    BY <1>0, <2>3, FunctionIsSeq
  <2> QED BY <2>2, <2>4 DEF Q
<1> HIDE DEF seqs
<1>7. PICK loc : Laid(loc, seqs, u)
  BY <1>6, FlattenLaid
<1>8. u \in Seq(Byte)
  BY <1>6, FlattenIs
<1>9. t = u \o <<NUL>>
  <2> HIDE DEF u, t
  <2>1. u \o <<>> = u
    BY <1>8, ConcatEmptySeq
  <2> QED BY <1>3, <2>1
<1>10. PICK acc : NumberWalk(acc, t, 1)
  BY <1>3, NumbersWalked
<1>11. /\ acc \in [0 .. Len(t) -> SomeNumbers(1)] /\ acc[0] = [out |-> <<>>, isok |-> FALSE]
       /\ acc[Len(t)].out = Numbers(t, 1)
       /\ \A i \in 1 .. Len(t) : acc[i] = TakeDigit(acc[i - 1], t[i], 1)
  BY <1>10 DEF NumberWalk
<1>12. /\ loc \in [0 .. n -> Nat] /\ loc[0] = 0 /\ loc[n] = Len(u)
       /\ \A i \in 1 .. n : /\ loc[i] = loc[i - 1] + Len(seqs[i])
                            /\ \A j \in 1 .. Len(seqs[i]) : u[loc[i - 1] + j] = seqs[i][j]
  BY <1>6, <1>7 DEF Laid
<1>13. Len(t) = Len(u) + 1 /\ Len(u) \in Nat /\ t[Len(t)] = NUL /\ \A p \in 1 .. Len(u) : t[p] = u[p]
  <2> HIDE DEF u, t
  <2> QED BY <1>8, <1>9
<1>14. \A i \in 0 .. n : loc[i] <= Len(u)
  BY <1>6, <1>7, LaidIn
<1>15. pieces \in Seq(Seq(Byte)) /\ Len(pieces) = n /\ \A i \in 1 .. n : pieces[i] = NotNone(src[i])
  <2>1. ASSUME NEW i \in 1 .. n PROVE NotNone(src[i]) \in Seq(Byte)
    <3>1. <<>> \in Seq(Byte) /\ <<src[i]>> \in Seq(Byte)
      BY <1>0
    <3> QED BY <3>1 DEF NotNone
  <2>2. pieces = [i \in 1 .. n |-> NotNone(src[i])]
    <3>1. DOMAIN src = 1 .. n
      OBVIOUS
    <3> QED BY <3>1 DEF NotNone
  <2> DEFINE Q == Seq(Byte)
  <2> HIDE DEF pieces, n, Q
  <2>3. pieces \in [1 .. n -> Q]
    BY <2>1, <2>2 DEF Q
  <2>4. pieces \in Seq(Q) /\ Len(pieces) = n
    BY <1>0, <2>3, FunctionIsSeq
  <2> QED BY <2>2, <2>4 DEF Q
<1> HIDE DEF pieces
<1>16. PICK f : Flattens(f, Byte, pieces)
  BY <1>15, FlattenWalk
<1>17. /\ f \in [0 .. n -> Seq(Byte)] /\ f[0] = <<>> /\ f[n] = kept
       /\ \A i \in 1 .. n : f[i] = f[i - 1] \o NotNone(src[i])
  BY <1>15, <1>16 DEF Flattens
<1>18. Singles(<<>>) = <<>>
  BY DEF Singles
<1> HIDE DEF t, u, n, kept
<1> DEFINE T == {k \in 0 .. n : acc[loc[k]].out = Singles(f[k]) /\ (k = 0 => acc[loc[k]].isok = FALSE)}
<1>19. 0 <= n => 0 \in T
  <2>1. acc[loc[0]] = [out |-> <<>>, isok |-> FALSE] /\ f[0] = <<>>
    BY <1>11, <1>12, <1>17
  <2>2. acc[loc[0]].out = Singles(f[0]) /\ acc[loc[0]].isok = FALSE
    BY <1>18, <2>1
  <2> QED BY <1>0, <2>2
<1>20. ASSUME NEW k \in 0 .. n - 1, k \in T PROVE k + 1 \in T
  <2> DEFINE p == loc[k]
             q == seqs[k + 1]
             b == src[k + 1]
             d == dec_put(<<b>>)
  <2>1. k + 1 \in 1 .. n /\ (k + 1) - 1 = k /\ k \in 0 .. n /\ k + 1 \in 0 .. n /\ k \in Nat /\ k + 1 # 0 /\ (k + 1 = 1 => k = 0)
    BY <1>0
  <2>2. b \in Byte /\ p \in Nat /\ loc[k + 1] = p + Len(q) /\ loc[k + 1] <= Len(u)
        /\ \A j \in 1 .. Len(q) : u[p + j] = q[j]
    BY <1>0, <1>12, <1>14, <2>1
  <2>3. q \in Seq(Byte) /\ q = (IF k + 1 = 1 THEN d ELSE Separator \o d) /\ Decimal(d, b)
    BY <1>4, <1>5, <1>6, <2>1
  <2>4. acc[p].out = Singles(f[k]) /\ (k = 0 => acc[p].isok = FALSE)
    BY <1>20
  <2> HIDE DEF p, q, b, d, T
  <2>5. Here(t, p, q)
    <3>0. Len(q) \in Nat
      BY <2>3
    <3>1. p + Len(q) <= Len(u) /\ Len(u) \in Nat /\ Len(t) = Len(u) + 1
      BY <1>13, <2>2
    <3>2. \A j \in 1 .. Len(q) : p + j \in 1 .. Len(u)
      BY <2>2, <3>0, <3>1
    <3>3. p + Len(q) <= Len(t)
      BY <2>2, <3>0, <3>1
    <3> QED BY <1>13, <2>2, <3>2, <3>3 DEF Here
  <2>6. acc[p + Len(q)].out = Added(acc[p].out, b)
    <3>1. NumberPart(q, d, acc[p])
      BY <2>1, <2>3, <2>4 DEF NumberPart
    <3>2. t \in Seq(Byte) /\ NumberWalk(acc, t, 1) /\ b \in Byte /\ Decimal(d, b) /\ p \in Nat /\ Here(t, p, q)
      BY <1>3, <1>10, <2>2, <2>3, <2>5
    <3> QED BY <3>1, <3>2, DecimalPart
  <2>7. Singles(f[k + 1]) = Added(Singles(f[k]), b)
    <3>1. f[k + 1] = f[k] \o NotNone(b) /\ f[k] \in Seq(Byte)
      BY <1>17, <2>1 DEF b
    <3> QED BY <2>2, <3>1, SinglesMore
  <2>8. acc[loc[k + 1]].out = Singles(f[k + 1])
    BY <2>2, <2>4, <2>6, <2>7
  <2> QED BY <2>1, <2>8 DEF T
<1> HIDE DEF T
<1>21. n \in T
  <2>1. 0 \in Int /\ n \in Int /\ n \in 0 .. n
    BY <1>0
  <2> QED BY <1>19, <1>20, <2>1, Upwards
<1>22. acc[Len(u)].out = Singles(kept)
  BY <1>12, <1>17, <1>21 DEF T
<1>23. acc[Len(t)].out = Singles(kept)
  <2>1. acc[Len(t)] = TakeDigit(acc[Len(u)], NUL, 1) /\ acc[Len(u)] \in SomeNumbers(1)
    <3>1. Len(t) \in 1 .. Len(t) /\ Len(t) - 1 = Len(u) /\ Len(u) \in 0 .. Len(t)
      BY <1>13
    <3> QED BY <1>11, <1>13, <3>1
  <2> QED BY <1>22, <2>1, NoDigitOn
<1>24. kept \in Seq(Byte)
  <2>1. n \in 0 .. n
    BY <1>0
  <2> QED BY <1>17, <2>1
<1>25. Numbers(t, 1) = Singles(kept) /\ FlattenSeq(Singles(kept)) = kept /\ Len(Singles(kept)) = Len(kept)
  BY <1>11, <1>23, <1>24, SinglesBack, SinglesAre
<1>26. WordSize(1) = 1
  BY DEF WordSize
<1>27. SubSeq(kept, 1, Len(kept)) = kept
  BY <1>24
<1>28. dec_decode(t, 1) = kept
  BY <1>25, <1>26, <1>27 DEF dec_decode
<1> QED BY <1>28 DEF t, kept, pieces

-----------------------------------------------------------------------------
(***************************************************************************)
(* Chains of notations.                                                    *)
(***************************************************************************)
LEMMA SameEnd ==
  ASSUME NEW n \in Nat, NEW m \in Nat, 1 .. n = 1 .. m
  PROVE  n = m
<1>1. n \in 1 .. n \/ n = 0
  OBVIOUS
<1>2. m \in 1 .. m \/ m = 0
  OBVIOUS
<1>3. n <= m
  BY <1>1
<1>4. m <= n
  BY <1>2
<1> QED BY <1>3, <1>4

OpsOf(chain) == [i \in DOMAIN chain |-> chain[i].op]

LEMMA PairIs ==
  ASSUME NEW chain \in Seq(Action), NEW a, NEW b, OpsOf(chain) = <<a, b>>
  PROVE  Len(chain) = 2 /\ chain[1].op = a /\ chain[2].op = b
<1> DEFINE ops == OpsOf(chain)
           n == Len(chain)
<1>1. n \in Nat /\ DOMAIN chain = 1 .. n
  OBVIOUS
<1>2. ops = [i \in 1 .. n |-> chain[i].op]
  BY <1>1 DEF OpsOf
<1>3. DOMAIN <<a, b>> = 1 .. 2 /\ <<a, b>>[1] = a /\ <<a, b>>[2] = b
  OBVIOUS
<1> DEFINE two == <<a, b>>
<1>4. ops = two
  OBVIOUS
<1> HIDE DEF ops, n, two
<1>5. DOMAIN ops = 1 .. n
  BY <1>2
<1>6. 1 .. n = 1 .. 2
  BY <1>3, <1>4, <1>5 DEF two
<1>7. n = 2
  <2>1. 2 \in Nat
    OBVIOUS
  <2> QED BY <1>1, <1>6, <2>1, SameEnd
<1>8. 1 \in 1 .. n /\ 2 \in 1 .. n
  BY <1>7
<1>9. ops[1] = chain[1].op /\ ops[2] = chain[2].op
  BY <1>2, <1>8
<1> QED BY <1>3, <1>4, <1>7, <1>9 DEF n, two

\* An action that codes has been given the buffer before it.
LEMMA CodedAt ==
  ASSUME NEW chain, NEW first, NEW b, NEW s, NEW v, NEW t, NEW n \in Nat,
         Trace(v, t, n, chain, first, b, s), NEW i \in 1 .. n - 1, chain[i].op \in Codings
  PROVE  v[i] \in Seq(Byte) /\ CodedTo(chain[i], v[i], v[i + 1])
<1>1. Moves(chain[i], t[i], v[i], v[i + 1]) /\ v \in [1 .. n -> Buffer]
  BY DEF Trace
<1>2. CodedTo(chain[i], v[i], v[i + 1])
  BY <1>1 DEF Moves
<1>3. v[i] \in Buffer
  <2>1. i \in 1 .. n
    OBVIOUS
  <2> QED BY <1>1, <2>1
<1> QED BY <1>2, <1>3 DEF CodedTo, Buffer

LEMMA TwoCoded ==
  ASSUME NEW chain, NEW first, NEW b, NEW s, Reached(3, chain, first, b, s),
         chain[1].op \in Codings, chain[2].op \in Codings
  PROVE  \E mid \in Seq(Byte) : first \in Seq(Byte) /\ CodedTo(chain[1], first, mid) /\ CodedTo(chain[2], mid, b)
<1>1. PICK v, t : Trace(v, t, 3, chain, first, b, s)
  BY DEF Reached
<1>2. v[1] = first /\ v[3] = b
  BY <1>1 DEF Trace
<1>3. v[1] \in Seq(Byte) /\ CodedTo(chain[1], v[1], v[1 + 1])
  <2>1. 1 \in 1 .. 3 - 1 /\ 3 \in Nat
    OBVIOUS
  <2> QED BY <1>1, <2>1, CodedAt
<1>4. v[2] \in Seq(Byte) /\ CodedTo(chain[2], v[2], v[2 + 1])
  <2>1. 2 \in 1 .. 3 - 1 /\ 3 \in Nat
    OBVIOUS
  <2> QED BY <1>1, <2>1, CodedAt
<1>5. 1 + 1 = 2 /\ 2 + 1 = 3
  OBVIOUS
<1> QED BY <1>2, <1>3, <1>4, <1>5

\* A notation that has something to write.
LEMMA CodedOn ==
  ASSUME NEW x, NEW from \in Seq(Byte), from # <<>>, x.op \in Narrow => Len(from) > 1, x.op \notin Ciphers,
         NEW to, CodedTo(x, from, to)
  PROVE  to = Coded(x, from)
BY DEF CodedTo, HasResult

LEMMA NotCiphers ==
  /\ \A op \in {"bine", "bind", "hexe", "hexd", "dece", "decd", "base64e", "base64d"} : op \in Codings /\ op \notin Ciphers
  /\ \A op \in {"bine", "bind", "hexe", "hexd", "dece", "decd", "base64e", "vigeneree", "vigenered"} : op \notin Narrow
BY DEF Codings, Encoders, Decoders, Ciphers, Narrow

\* The end of a chain without a search.
LEMMA ChainDone ==
  ASSUME IInv, Finished, \A i \in DOMAIN actions : actions[i].op \in Codings
  PROVE  Reached(Len(actions) + 1, actions, file, b0, step)
<1>1. pc = "done" /\ actions \in Seq(Action) /\ at \in 1 .. Len(actions) + 1
      /\ Reached(at, actions, file, b0, step)
  BY DEF IInv, TypeInv, ReachInv, Finished, Started
<1>2. at = Len(actions) + 1
  <2>1. ASSUME at <= Len(actions) PROVE FALSE
    <3>1. actions[at].op \in Brutes
      BY <1>1, <2>1 DEF IInv, ShownInv
    <3>2. at \in DOMAIN actions
      BY <1>1, <2>1
    <3> QED BY <3>1, <3>2, OpKinds
  <2> QED BY <1>1, <2>1
<1> QED BY <1>1, <1>2

LEMMA PairDone ==
  ASSUME IInv, Finished, NEW e \in Codings, NEW d \in Codings, Chain(<<e, d>>)
  PROVE  /\ actions[1] \in Action /\ actions[2] \in Action /\ actions[1].op = e /\ actions[2].op = d
         /\ file \in Seq(Byte) /\ file # <<>>
         /\ \E mid \in Seq(Byte) : CodedTo(actions[1], file, mid) /\ CodedTo(actions[2], mid, b0)
<1>1. actions \in Seq(Action) /\ file \in Seq(Byte) /\ file # <<>>
  BY DEF IInv, TypeInv, ReachInv, Finished, Started
<1>2. Len(actions) = 2 /\ actions[1].op = e /\ actions[2].op = d
  BY <1>1, PairIs DEF Chain, OpsOf
<1>3. \A i \in DOMAIN actions : i = 1 \/ i = 2
  BY <1>1, <1>2
<1>4. Reached(Len(actions) + 1, actions, file, b0, step)
  BY <1>2, <1>3, ChainDone
<1>5. Reached(3, actions, file, b0, step)
  <2>1. Len(actions) + 1 = 3
    BY <1>2
  <2> QED BY <1>4, <2>1
<1>6. actions[1] \in Action /\ actions[2] \in Action
  <2>1. 1 \in 1 .. Len(actions) /\ 2 \in 1 .. Len(actions)
    BY <1>2
  <2>2. \A i \in 1 .. Len(actions) : actions[i] \in Action
    BY <1>1
  <2> QED BY <2>1, <2>2
<1>7. \E mid \in Seq(Byte) : CodedTo(actions[1], file, mid) /\ CodedTo(actions[2], mid, b0)
  BY <1>2, <1>5, TwoCoded
<1> QED BY <1>1, <1>2, <1>6, <1>7

LEMMA WithNULBehind ==
  ASSUME NEW src \in Seq(Byte), NEW out \in Seq(Byte), ReadBack(src, out)
  PROVE  IsPrefix(src, out) /\ \A i \in Len(src) + 1 .. Len(out) : out[i] = NUL
<1>1. Len(src) \in Nat /\ Len(out) \in Nat /\ DOMAIN src = 1 .. Len(src) /\ DOMAIN out = 1 .. Len(out)
  OBVIOUS
<1>2. \A i \in 1 .. Len(src) : src[i] = out[i]
  BY DEF ReadBack
<1>3. IsPrefix(src, out)
  BY <1>1, <1>2 DEF IsPrefix, ReadBack
<1> QED BY <1>3 DEF ReadBack

LEMMA BinBack ==
  ASSUME NEW x \in Action, NEW y, x.op = "bine", y.op = "bind",
         NEW from \in Seq(Byte), from # <<>>, NEW mid \in Seq(Byte), NEW to, CodedTo(x, from, mid), CodedTo(y, mid, to)
  PROVE  to \in Seq(Byte) /\ ReadBack(from, to)
<1>1. x.w \in Width
  BY DEF Action
<1>2. mid = bin_encode(from, x.w) /\ mid # <<>>
  <2>1. mid = Coded(x, from)
    BY CodedOn, NotCiphers
  <2>2. Text(bin_encode(from, x.w))
    BY <1>1, bin_encodeIs
  <2> QED BY <2>1, <2>2 DEF Coded, Text
<1>3. to = bin_decode(mid)
  <2>1. to = Coded(y, mid)
    BY <1>2, CodedOn, NotCiphers
  <2> QED BY <2>1 DEF Coded
<1>4. to = from \o <<NUL>>
  BY <1>1, <1>2, <1>3, BinReadsBack
<1>5. to \in Seq(Byte)
  BY <1>3, bin_decodeIs DEF Text
<1> QED BY <1>4, <1>5, ReadBackOne

LEMMA Base64Back ==
  ASSUME NEW x, NEW y, x.op = "base64e", y.op = "base64d",
         NEW from \in Seq(Byte), from # <<>>, NEW mid \in Seq(Byte), NEW to, CodedTo(x, from, mid), CodedTo(y, mid, to)
  PROVE  to \in Seq(Byte) /\ ReadBack(from, to)
<1>1. mid = base64_encode(from) /\ mid # <<>> /\ Len(mid) > 1
  <2>1. mid = Coded(x, from)
    BY CodedOn, NotCiphers
  <2>2. Text(base64_encode(from)) /\ Long(from, base64_encode(from))
    BY base64_encodeIs
  <2> QED BY <2>1, <2>2 DEF Coded, Text, Long
<1>2. to = base64_decode(mid)
  <2>1. to = Coded(y, mid)
    BY <1>1, CodedOn, NotCiphers
  <2> QED BY <2>1 DEF Coded
<1>3. to = from \o <<NUL>>
  BY <1>1, <1>2, Base64ReadsBack
<1>4. to \in Seq(Byte)
  BY <1>2, base64_decodeIs DEF Text
<1> QED BY <1>3, <1>4, ReadBackOne

LEMMA VigenereBack ==
  ASSUME NEW x \in Action, NEW y, x.op = "vigeneree", y.op = "vigenered", x.text = y.text,
         NEW from \in Seq(Byte), from # <<>>, NEW mid \in Seq(Byte), NEW to, CodedTo(x, from, mid), CodedTo(y, mid, to)
  PROVE  to \in Seq(Byte) /\ ReadBack(from, to)
<1> DEFINE key == x.text
<1>1. key \in Seq(Byte)
  BY DEF Action
<1>2. x.op \in Ciphers /\ y.op \in Ciphers
  BY DEF Ciphers
<1>3. HasResult(x, from)
  <2>1. mid # NULL
    BY NULLAssumption
  <2> QED BY <2>1 DEF CodedTo
<1>4. key # <<>>
  BY <1>2, <1>3 DEF HasResult
<1>5. mid = vigenere_encode(from, key) /\ mid # <<>>
  <2>1. mid = Coded(x, from)
    BY <1>3 DEF CodedTo
  <2>2. Text(vigenere_encode(from, key))
    BY <1>1, <1>4, VigenereIs DEF vigenere_encode
  <2> QED BY <2>1, <2>2 DEF Coded, Text
<1>6. to = vigenere_decode(mid, key)
  <2>1. HasResult(y, mid)
    BY <1>4, <1>5, NotCiphers DEF HasResult
  <2>2. to = Coded(y, mid)
    BY <2>1 DEF CodedTo
  <2> QED BY <2>2 DEF Coded
<1>7. ReadBack(from, to)
  BY <1>1, <1>4, <1>5, <1>6, VigenereReadsBack
<1>8. to \in Seq(Byte)
  BY <1>1, <1>4, <1>6, VigenereIs DEF vigenere_decode, Text
<1> QED BY <1>7, <1>8

LEMMA HexBack ==
  ASSUME NEW x \in Action, NEW y, x.op = "hexe", y.op = "hexd",
         NEW from \in Seq(Byte), from # <<>>, NEW mid \in Seq(Byte), NEW to, CodedTo(x, from, mid), CodedTo(y, mid, to)
  PROVE  to = AllSwapped(from) /\ to \in Seq(Byte) /\ to # <<>>
<1>1. x.w \in Width
  BY DEF Action
<1>2. mid = hex_encode(from, x.w) /\ mid # <<>>
  <2>1. mid = Coded(x, from)
    BY CodedOn, NotCiphers
  <2>2. Text(hex_encode(from, x.w))
    BY <1>1, hex_encodeIs
  <2> QED BY <2>1, <2>2 DEF Coded, Text
<1>3. to = hex_decode(mid)
  <2>1. to = Coded(y, mid)
    BY <1>2, CodedOn, NotCiphers
  <2> QED BY <2>1 DEF Coded
<1>4. to = AllSwapped(from)
  BY <1>1, <1>2, <1>3, HexTextBack
<1>5. to \in Seq(Byte) /\ Len(to) = Len(from)
  BY <1>4, SwappedIs
<1>6. Len(from) # 0
  BY EmptySeq
<1>7. to # <<>>
  BY <1>5, <1>6
<1> QED BY <1>4, <1>5, <1>7

\* One byte after the other.
LEMMA Singletons ==
  ASSUME NEW src \in Seq(Byte)
  PROVE  FlattenSeq([i \in DOMAIN src |-> <<src[i]>>]) = src
<1> DEFINE n    == Len(src)
           seqs == [i \in DOMAIN src |-> <<src[i]>>]
           loc  == [i \in 0 .. n |-> i]
<1>1. n \in Nat /\ DOMAIN src = 1 .. n /\ \A i \in 1 .. n : src[i] \in Byte
  OBVIOUS
<1>2. Len(seqs) = n /\ \A i \in 1 .. n : seqs[i] = <<src[i]>>
  BY <1>1
<1>3. seqs \in Seq(Seq(Byte))
  BY <1>1
<1>4. loc \in [0 .. n -> Nat] /\ loc[0] = 0 /\ loc[n] = Len(src)
  BY <1>1
<1> HIDE DEF seqs
<1>5. ASSUME NEW i \in 1 .. n
      PROVE  /\ loc[i] = loc[i - 1] + Len(seqs[i])
             /\ \A j \in 1 .. Len(seqs[i]) : src[loc[i - 1] + j] = seqs[i][j]
  <2>1. Len(seqs[i]) = 1 /\ seqs[i][1] = src[i]
    <3>1. seqs[i] = <<src[i]>>
      BY <1>2
    <3>2. Len(<<src[i]>>) = 1 /\ <<src[i]>>[1] = src[i]
      OBVIOUS
    <3> QED BY <3>1, <3>2
  <2>2. loc[i] = i /\ loc[i - 1] = i - 1 /\ (i - 1) + 1 = i
    BY <1>1
  <2> QED BY <2>1, <2>2
<1>6. Laid(loc, seqs, src)
  BY <1>2, <1>4, <1>5 DEF Laid
<1>7. src = FlattenSeq(seqs)
  BY <1>3, <1>6, LaidSame
<1> QED BY <1>7 DEF seqs

LEMMA DecBack ==
  ASSUME NEW x, NEW y, x.op = "dece", y.op = "decd", x.w = 1, y.w = 1,
         NEW from \in Seq(Byte), from # <<>>, NEW mid \in Seq(Byte), NEW to, CodedTo(x, from, mid), CodedTo(y, mid, to)
  PROVE  to = FlattenSeq([i \in DOMAIN from |-> IF from[i] = 0 THEN <<>> ELSE <<from[i]>>])
<1>1. mid = dec_encode(from, 1) /\ mid # <<>>
  <2>1. mid = Coded(x, from)
    BY CodedOn, NotCiphers
  <2>2. Text(dec_encode(from, 1))
    BY dec_encodeIs DEF Width
  <2> QED BY <2>1, <2>2 DEF Coded, Text
<1>2. to = dec_decode(mid, 1)
  <2>1. to = Coded(y, mid)
    BY <1>1, CodedOn, NotCiphers
  <2> QED BY <2>1 DEF Coded
<1> QED BY <1>1, <1>2, DecTextBack

-----------------------------------------------------------------------------
(***************************************************************************)
(* The properties of the runs, for every command line, every input and     *)
(* every content of an uninitialised text.                                 *)
(***************************************************************************)

\* Through any chain of actions the buffer, and what is written of it, holds
\* bytes, and the position stays inside the chain.
THEOREM TypeCorrect == Spec => []TypeOK
<1>1. IInv => TypeOK
  <2> SUFFICES ASSUME IInv PROVE TypeOK
    OBVIOUS
  <2>1. /\ args \in Seq(Argument) /\ actions \in Seq(Action)
        /\ inpname \in BOOLEAN /\ outname \in BOOLEAN /\ isok \in BOOLEAN
        /\ pc \in States /\ at \in 1 .. Len(actions) + 1 /\ step \in Int
        /\ b0 \in Buffer /\ written \in Buffer
    BY DEF IInv, TypeInv
  <2>2. ASSUME NEW i \in DOMAIN args PROVE args[i].kind \in {"script", "lines", "name", "output"}
    <3>1. args[i] \in Argument
      BY <2>1
    <3> QED BY <3>1 DEF Argument
  <2>3. ASSUME NEW i \in DOMAIN actions
        PROVE  actions[i].op \in zSCRIPTCOMMANDS \cup zSCRIPTCOMMANDSEX \cup {"nothing"}
    <3>1. actions[i] \in Action
      BY <2>1
    <3> QED BY <3>1 DEF Action, Ops
  <2>4. ASSUME NEW data \in {b0, written}, data # NULL, NEW i \in DOMAIN data
        PROVE  data[i] \in Byte
    <3>1. data \in Seq(Byte)
      BY <2>1, <2>4 DEF Buffer
    <3> QED BY <3>1
  <2> QED BY <2>1, <2>2, <2>3, <2>4 DEF TypeOK, States
<1> QED BY <1>1, Inductive, PTL

\* A chain that takes itself back has no search.
LEMMA NoSearch ==
  ASSUME NEW chain \in Seq(Action),
         Mirrored(IF chain[1].op \in {"inc", "dec"} THEN Tail(chain) ELSE chain)
  PROVE  \A j \in DOMAIN chain : chain[j].op \notin Brutes
<1> DEFINE ahead == chain[1].op \in {"inc", "dec"}
           half == IF ahead THEN Tail(chain) ELSE chain
           k == IF ahead THEN 2 ELSE 1
           l == Len(half)
<1> SUFFICES ASSUME NEW j \in DOMAIN chain PROVE chain[j].op \notin Brutes
  OBVIOUS
<1>1. Len(chain) \in Nat /\ j \in 1 .. Len(chain)
  OBVIOUS
<1>2. /\ l \in Nat /\ Len(chain) = l + k - 1
      /\ \A i \in 1 .. l : half[i] = chain[k + i - 1]
  BY <1>1
<1>3. /\ l % 2 = 0
      /\ \A i \in 1 .. l \div 2 : /\ half[i].op \in Invertible
                                  /\ half[l + 1 - i].op = Opposite(half[i].op)
  BY DEF Mirrored
<1>4. k \in Nat /\ (j < k => ahead /\ j = 1)
  BY <1>1
<1>5. CASE j < k
  BY <1>4, <1>5 DEF Brutes
<1> HIDE DEF half, l, k, ahead
<1>6. CASE ~(j < k)
  <2> DEFINE i == j - k + 1
  <2>1. i \in 1 .. l /\ k + i - 1 = j
    BY <1>1, <1>2, <1>4, <1>6
  <2> HIDE DEF i
  <2>2. half[i] = chain[j]
    BY <1>2, <2>1
  <2>3. i \in 1 .. l \div 2 \/ (l + 1 - i \in 1 .. l \div 2 /\ l + 1 - (l + 1 - i) = i)
    BY <1>2, <1>3, <2>1
  <2>4. \A op \in Invertible : op \notin Brutes /\ Opposite(op) \notin Brutes
    BY DEF Invertible, Opposite, Brutes
  <2> QED BY <1>3, <2>2, <2>3, <2>4
<1> QED BY <1>5, <1>6

\* A chain that takes back what it does, in reverse order and with the same keys,
\* widths and step, leaves the input in the buffer, for every key and every input
\* for which C defines the shifts.
THEOREM ChainUndone == Spec => []UndoneInReverse
<1>1. IInv => UndoneInReverse
  <2> SUFFICES ASSUME IInv, Finished, actions # <<>>,
                      \A i \in 2 .. Len(actions) : actions[i].op \notin {"inc", "dec"},
                      Mirrored(IF actions[1].op \in {"inc", "dec"} THEN Tail(actions) ELSE actions)
               PROVE  b0 = file
    BY DEF UndoneInReverse
  <2>1. pc = "done" /\ actions \in Seq(Action) /\ at \in 1 .. Len(actions) + 1
        /\ Reached(at, actions, file, b0, step)
    BY DEF IInv, TypeInv, ReachInv, Finished, Started
  <2>2. \A i \in DOMAIN actions : actions[i].op \notin Brutes
    BY <2>1, NoSearch
  <2>3. at = Len(actions) + 1
    <3>1. ASSUME at <= Len(actions) PROVE FALSE
      <4>1. actions[at].op \in Brutes
        BY <2>1, <3>1 DEF IInv, ShownInv
      <4>2. at \in DOMAIN actions
        BY <2>1, <3>1
      <4> QED BY <2>2, <4>1, <4>2
    <3> QED BY <2>1, <3>1
  <2> QED BY <2>1, <2>3, ChainBack
<1> QED BY <1>1, Inductive, PTL

\* A search for the key of the operation before it prints the input.
THEOREM InputFound == Spec => []SearchFindsInput
<1>1. IInv => SearchFindsInput
  <2> SUFFICES ASSUME IInv, NEW i \in DOMAIN actions, Finished, SearchAfter(actions, i)
               PROVE  file \in shown
    BY DEF SearchFindsInput, SearchAfter
  <2>1. pc = "done" /\ actions \in Seq(Action) /\ at \in 1 .. Len(actions) + 1
        /\ file \in Seq(Byte) /\ file # <<>>
        /\ Reached(at, actions, file, b0, step)
    BY DEF IInv, TypeInv, ReachInv, Finished, Started
  <2>2. Len(actions) = i + 1 /\ i \in Nat /\ i >= 1 /\ Len(actions) \in Nat
    BY <2>1 DEF SearchAfter
  <2>3. \A j \in 1 .. i : actions[j].op \notin Brutes
    <3>1. ASSUME NEW j \in 1 .. i PROVE actions[j].op \notin Brutes
      <4>1. j \in 1 .. i - 1 \/ j = i
        BY <2>2
      <4>2. actions[j].op \in {"inc", "dec", "xor", "rol", "ror"}
        BY <4>1 DEF SearchAfter
      <4> QED BY <4>2 DEF Brutes
    <3> QED BY <3>1
  <2>4. at = i + 1
    <3>1. CASE at <= Len(actions)
      <4>1. actions[at].op \in Brutes
        BY <2>1, <3>1 DEF IInv, ShownInv
      <4>2. at \notin 1 .. i
        BY <2>3, <4>1
      <4> QED BY <2>1, <2>2, <3>1, <4>2
    <3>2. CASE at = Len(actions) + 1
      <4>1. actions[i + 1].op \notin Brutes
        <5>1. PICK v, t : Trace(v, t, at, actions, file, b0, step)
          BY <2>1 DEF Reached
        <5>2. i + 1 \in 1 .. at - 1
          BY <2>2, <3>2
        <5>3. Moves(actions[i + 1], t[i + 1], v[i + 1], v[(i + 1) + 1])
          BY <5>1, <5>2 DEF Trace
        <5> QED BY <5>3 DEF Moves
      <4> QED BY <4>1 DEF SearchAfter
    <3>3. at <= Len(actions) \/ at = Len(actions) + 1
      BY <2>1, <2>2
    <3> QED BY <3>1, <3>2, <3>3
  <2>5. /\ Searches(actions[i + 1], step, b0)
        /\ shown = IF b0 = <<>> THEN {} ELSE Solutions(actions[i + 1], b0)
    BY <2>1, <2>2, <2>4 DEF IInv, ShownInv
  <2>6. Reached(i + 1, actions, file, b0, step)
    BY <2>1, <2>4
  <2>7. b0 # <<>> /\ \E key \in Keys(actions[i + 1]) :
          InPlace(Searched(actions[i + 1]), actions[i + 1].w, key, step, b0) = file
    BY <2>1, <2>5, <2>6, ChainFound DEF Searches
  <2> QED BY <2>5, <2>7 DEF Solutions
<1> QED BY <1>1, Inductive, PTL

\* Nothing reads through a null pointer unless a codec had no key, found what a
\* decoder that may answer no byte has left, or had a single byte and no room.
THEOREM CrashOnlyEmpty == Spec => []CrashNeedsEmpty
<1>1. IInv => CrashNeedsEmpty
  BY DEF IInv, EmptyInv, Lacks, Lacking, FedShort, FedBy, CrashNeedsEmpty
<1> QED BY <1>1, Inductive, PTL

\* What is written in binary digits, base 64 or with a cipher reads back with only
\* NULs behind it, and decimal numbers when no byte is 0: for every input and key.
THEOREM TextBack == Spec => []TextReadsBack
<1>1. IInv => TextReadsBack
  <2> SUFFICES ASSUME IInv PROVE TextReadsBack
    OBVIOUS
  <2>1. ASSUME Finished, Chain(<<"bine", "bind">>)
        PROVE  b0 \in Seq(Byte) /\ ReadBack(file, b0)
    <3>1. "bine" \in Codings /\ "bind" \in Codings
      BY NotCiphers
    <3> QED BY <2>1, <3>1, PairDone, BinBack
  <2>2. ASSUME Finished, Chain(<<"base64e", "base64d">>)
        PROVE  b0 \in Seq(Byte) /\ ReadBack(file, b0)
    <3>1. "base64e" \in Codings /\ "base64d" \in Codings
      BY NotCiphers
    <3> QED BY <2>2, <3>1, PairDone, Base64Back
  <2>3. ASSUME Finished, Chain(<<"vigeneree", "vigenered">>), actions[1].text = actions[2].text
        PROVE  b0 \in Seq(Byte) /\ ReadBack(file, b0)
    <3>1. "vigeneree" \in Codings /\ "vigenered" \in Codings
      BY DEF Codings, Ciphers
    <3> QED BY <2>3, <3>1, PairDone, VigenereBack
  <2>4. file \in Seq(Byte)
    BY DEF IInv, TypeInv
  <2>5. ASSUME b0 # NULL, b0 \in Seq(Byte) /\ ReadBack(file, b0)
        PROVE  ReadsBack
    BY <2>4, <2>5, WithNULBehind DEF ReadsBack
  <2>6. ASSUME Finished, Chain(<<"dece", "decd">>), actions[1].w = 1, actions[2].w = 1,
               \A i \in DOMAIN file : file[i] # 0
        PROVE  b0 = file
    <3>1. "dece" \in Codings /\ "decd" \in Codings
      BY NotCiphers
    <3>2. b0 = FlattenSeq([i \in DOMAIN file |-> IF file[i] = 0 THEN <<>> ELSE <<file[i]>>])
      BY <2>6, <3>1, PairDone, DecBack
    <3>3. [i \in DOMAIN file |-> IF file[i] = 0 THEN <<>> ELSE <<file[i]>>] = [i \in DOMAIN file |-> <<file[i]>>]
      BY <2>6
    <3> QED BY <2>4, <3>2, <3>3, Singletons
  <2> QED BY <2>1, <2>2, <2>3, <2>5, <2>6 DEF TextReadsBack
<1> QED BY <1>1, Inductive, PTL

\* What hex8e and its like have written comes back with the halves of each byte
\* swapped, whatever the input and the widths: only bytes with two equal halves
\* come back as they were, which is one of the things that refute ConvertsBack.
HexSwapped == Finished /\ Chain(<<"hexe", "hexd">>) => b0 = AllSwapped(file)

THEOREM HexSwaps == Spec => []HexSwapped
<1>1. IInv => HexSwapped
  <2> SUFFICES ASSUME IInv, Finished, Chain(<<"hexe", "hexd">>) PROVE b0 = AllSwapped(file)
    BY DEF HexSwapped
  <2>1. "hexe" \in Codings /\ "hexd" \in Codings
    BY NotCiphers
  <2> QED BY <2>1, PairDone, HexBack
<1> QED BY <1>1, Inductive, PTL
=============================================================================
