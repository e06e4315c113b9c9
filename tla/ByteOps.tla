------------------------------ MODULE ByteOps ------------------------------
(***************************************************************************)
(* The operations of decode.c that change a buffer in place: the rotations *)
(* of the alphabet, and the arithmetic, shifts and XOR on words of 1, 2 or *)
(* 4 bytes.  A buffer is a sequence of bytes; a word is the sequence of    *)
(* its bytes, lowest first, as the program reads it on a little-endian     *)
(* machine.  A key is an integer of which a word takes its low bytes.      *)
(*                                                                         *)
(* A shift by 32 or more, and a rotation whose counterpart shift is that   *)
(* large or negative, is undefined in C.  ShiftDefined says when a command *)
(* has none; the modules that use this one run no other.                   *)
(***************************************************************************)
EXTENDS Integers, Sequences, SequencesExt

Byte == 0 .. 255

\* The n lowest digits of an integer in some base, lowest first; of a negative
\* integer those of its two's complement.
LowDigits(x, n, base) == [i \in 1 .. n |-> (x \div base ^ (i - 1)) % base]

KeyBytes(key, w) == LowDigits(key, w, 256)

\* A word as its bits, lowest first, and back.
Bits(word) ==
  [i \in 1 .. 8 * Len(word) |-> (word[((i - 1) \div 8) + 1] \div 2 ^ ((i - 1) % 8)) % 2]

ByteOf(b) == b[1] + 2 * b[2] + 4 * b[3] + 8 * b[4] + 16 * b[5] + 32 * b[6] + 64 * b[7] + 128 * b[8]
FromBits(bits) == [i \in 1 .. Len(bits) \div 8 |-> ByteOf([k \in 1 .. 8 |-> bits[8 * (i - 1) + k]])]

\* Value of a word of at most two bytes.
Value(word) == word[1] + (IF Len(word) = 1 THEN 0 ELSE 256 * word[2])

-----------------------------------------------------------------------------
\* The operations on one word.

Xor(word, key) ==
  LET a == Bits(word)
      b == Bits(KeyBytes(key, Len(word)))
  IN  FromBits([i \in DOMAIN a |-> (a[i] + b[i]) % 2])

NotByOneMore(word) == [i \in DOMAIN word |-> 256 - word[i]]

Not(word) == [i \in DOMAIN word |-> 255 - word[i]]

\* Bits that are shifted out are lost.
Shl(word, k) ==
  LET a == Bits(word)
  IN  FromBits([i \in DOMAIN a |-> IF i - k \in DOMAIN a THEN a[i - k] ELSE 0])

ShrSigned(word, k) ==
  LET a == Bits(word)
  IN  FromBits([i \in DOMAIN a |-> IF i + k \in DOMAIN a THEN a[i + k] ELSE a[Len(a)]])

Shr(word, k) ==
  LET a == Bits(word)
  IN  FromBits([i \in DOMAIN a |-> IF i + k \in DOMAIN a THEN a[i + k] ELSE 0])

\* x << k | x >> (width - k), and the other way round.
Or(word1, word2) ==
  LET a == Bits(word1)
      b == Bits(word2)
  IN  FromBits([i \in DOMAIN a |-> IF 1 \in {a[i], b[i]} THEN 1 ELSE 0])

Rol(word, k) == Or(Shl(word, k), Shr(word, 8 * Len(word) - k))
Ror(word, k) == Or(Shr(word, k), Shl(word, 8 * Len(word) - k))

\* Addition with carry, the carry out of the word dropped.
WrapAdd(word, key) ==
  LET b == KeyBytes(key, Len(word))
      carry[i \in 0 .. Len(word)] ==
        IF i = 0 THEN 0 ELSE (word[i] + b[i] + carry[i - 1]) \div 256
  IN  [i \in DOMAIN word |-> (word[i] + b[i] + carry[i - 1]) % 256]

\* A word of 1 or 2 bytes is computed in int32_t and brought back into its
\* range by the largest value, not by the number of values; a word of 4 bytes
\* is computed in uint32_t, which wraps, and needs nothing.
Limit(word) == 256 ^ Len(word) - 1

Add(word, key) ==
  IF Len(word) = 4
  THEN WrapAdd(word, key)
  ELSE LET v0 == Value(word) + Value(KeyBytes(key, Len(word)))
       IN  LowDigits(IF v0 > Limit(word) THEN v0 - Limit(word) ELSE v0, Len(word), 256)

Sub(word, key) ==
  IF Len(word) = 4
  THEN WrapAdd(word, -key)
  ELSE LET v0 == Value(word) - Value(KeyBytes(key, Len(word)))
       IN  LowDigits(IF v0 < 0 THEN Limit(word) + v0 ELSE v0, Len(word), 256)

-----------------------------------------------------------------------------
\* The loops over a buffer.  Bytes behind the last whole word stay as they are.
Words(data, w) == Len(data) \div w

EachWord(data, w, Op(_, _)) ==
  LET new == [i \in 0 .. Words(data, w) - 1 |-> Op(SubSeq(data, w * i + 1, w * i + w), i)]
  IN  [j \in DOMAIN data |->
         IF j > w * Words(data, w) THEN data[j]
         ELSE new[(j - 1) \div w][((j - 1) % w) + 1]]

\* v0 at the i-th word, counted from 0: each word moves it by the step, and it
\* has the width of a word.  One of 4 bytes is beyond the integers of TLC and is
\* not reduced: xor takes its low bytes, and no shift by such a count is run.
KeyAt(key, step, i, w) ==
  IF w = 4 THEN key + i * step ELSE (key + i * step) % 256 ^ w

-----------------------------------------------------------------------------
\* The alphabet ciphers: a character inside its range is moved around in it.
zap(c0, c1, c2, inc) ==
  IF c0 \notin c1 .. c2 THEN c0
  ELSE IF c0 + inc > c2 THEN c1 + (c0 + inc - c2) - 1
  ELSE c0 + inc

\* 48..57 are the digits, 65..90 and 97..122 the letters, 33..126 what prints.
Rot5(c)  == zap(c, 48, 57, 5)
Rot13(c) == zap(zap(c, 65, 90, 13), 97, 122, 13)
Rot18(c) == Rot5(Rot13(c))
Rot47(c) == zap(c, 33, 126, 47)

-----------------------------------------------------------------------------
\* What an action of the chain does to the buffer.  op is the name of the
\* command without its width, w the width, key its value and step what inc or
\* dec has set before: add and sub are not given the step.
InPlace(op, w, key, step, data) ==
  CASE op = "rot5"  -> [i \in DOMAIN data |-> Rot5(data[i])]
    [] op = "rot13" -> [i \in DOMAIN data |-> Rot13(data[i])]
    [] op = "rot18" -> [i \in DOMAIN data |-> Rot18(data[i])]
    [] op = "rot47" -> [i \in DOMAIN data |-> Rot47(data[i])]
    [] op = "not"   -> EachWord(data, w, LAMBDA x, i : Not(x))
    [] op = "add"   -> EachWord(data, w, LAMBDA x, i : Add(x, key))
    [] op = "sub"   -> EachWord(data, w, LAMBDA x, i : Sub(x, key))
    [] op = "xor"   -> EachWord(data, w, LAMBDA x, i : Xor(x, KeyAt(key, step, i, w)))
    [] op = "shl"   -> EachWord(data, w, LAMBDA x, i : Shl(x, KeyAt(key, step, i, w)))
    [] op = "shr"   -> EachWord(data, w, LAMBDA x, i : Shr(x, KeyAt(key, step, i, w)))
    [] op = "rol"   -> EachWord(data, w, LAMBDA x, i : Rol(x, KeyAt(key, step, i, w)))
    [] op = "ror"   -> EachWord(data, w, LAMBDA x, i : Ror(x, KeyAt(key, step, i, w)))
    [] OTHER        -> data

\* No shift of the command is undefined: the operand is an int or uint32_t of
\* 32 bits, and a rotation by k also shifts by the width less k.
ShiftDefined(op, w, key, step, data) ==
  \A i \in 0 .. Words(data, w) - 1 :
    LET k == KeyAt(key, step, i, w)
    IN  /\ op \in {"shl", "shr"} => k \in 0 .. 31
        /\ op \in {"rol", "ror"} => k \in 0 .. 31 /\ 8 * w - k \in 0 .. 31
=============================================================================
