------------------------------- MODULE Codecs -------------------------------
(***************************************************************************)
(* The encoders of encode.c and the decoders of decode.c, as functions     *)
(* from a sequence of bytes to a sequence of bytes.  A character is its    *)
(* ASCII code.  What an encoder answers ends in the NUL it writes, which   *)
(* it counts into the size; of the decoders some count it and some do not. *)
(*                                                                         *)
(* A decoder walks the text once, so it is a recursive function of how many*)
(* characters it has seen: the output so far and what the loop keeps       *)
(* between two of them.  The texts are the ones the encoders write (they   *)
(* end in NUL).                                                            *)
(***************************************************************************)
EXTENDS ByteOps

NUL   == 0
Space == 32
Comma == 44
Zero  == 48
Equal == 61
LowX  == 120

Digits   == 48 .. 57
Capitals == 65 .. 90
Smalls   == 97 .. 122

Separator == <<Comma, Space>>
HexPrefix == <<Zero, LowX>>

\* The last element of a sequence replaced.
WithLast(s, x) == Append(Front(s), x)

\* The bytes of src, each written by Digit8, a separator before every group but
\* the first and Prefix in front of each group.
Grouped(src, group, Prefix, Digit8(_)) ==
  FlattenSeq([i \in DOMAIN src |->
     (IF (i - 1) % group # 0 THEN <<>>
      ELSE IF i = 1 THEN Prefix
      ELSE Separator \o Prefix) \o Digit8(src[i])]) \o <<NUL>>

-----------------------------------------------------------------------------
\* Binary, highest bit first.
BinDigitsLow(b) == [k \in 1 .. 8 |-> Zero + Bits(<<b>>)[k]]

BinDigits(b) == Reverse([k \in 1 .. 8 |-> Zero + Bits(<<b>>)[k]])

bin_encode(src, w) == Grouped(src, w, <<>>, BinDigits)

\* Every eighth digit of an unbroken run starts a byte.
TakeBit(acc, ch) ==
  IF ch \notin {Zero, Zero + 1} THEN [acc EXCEPT !.isok = 0]
  ELSE LET out == IF acc.isok % 8 = 0 THEN Append(acc.out, 0) ELSE acc.out
       IN  [out |-> WithLast(out, (2 * Last(out) + ch - Zero) % 256),
            isok |-> acc.isok + 1]

BitsTaken(src) ==
  LET acc[i \in 0 .. Len(src)] ==
        IF i = 0 THEN [out |-> <<>>, isok |-> 0] ELSE TakeBit(acc[i - 1], src[i])
  IN  acc[Len(src)].out

\* Mutant of bin_decode: the NUL at the end is not counted.
bin_decodeOpen(src) == BitsTaken(src)

bin_decode(src) == BitsTaken(src) \o <<NUL>>

-----------------------------------------------------------------------------
\* Hexadecimal.  The encoder writes the low half of a byte first.
hexN(x) == IF x <= 9 THEN Zero + x ELSE x - 10 + 97

HexDigits(b) == <<hexN(b % 16), hexN(b \div 16)>>

hex_encode(src, w) == Grouped(src, w, HexPrefix, HexDigits)

hex8(ch) ==
  CASE ch \in Digits    -> ch - Zero
    [] ch \in 65 .. 70  -> ch - 65 + 10
    [] ch \in 97 .. 102 -> ch - 97 + 10

IsHex(ch) == ch \in Digits \cup (65 .. 70) \cup (97 .. 102)

\* The decoder takes the high half first.  The 0 of a prefix is passed over, its
\* x ends the run.
TakeHex(src, acc, i) ==
  IF src[i] = Zero /\ i < Len(src) /\ src[i + 1] \in {LowX, 88} THEN acc
  ELSE IF ~IsHex(src[i]) THEN [acc EXCEPT !.isok = 0]
  ELSE LET out == IF acc.isok % 2 = 0 THEN Append(acc.out, 0) ELSE acc.out
       IN  [out |-> WithLast(out, (16 * Last(out) + hex8(src[i])) % 256),
            isok |-> acc.isok + 1]

hex_decode(src) ==
  LET acc[i \in 0 .. Len(src)] ==
        IF i = 0 THEN [out |-> <<>>, isok |-> 0] ELSE TakeHex(src, acc[i - 1], i)
  IN  acc[Len(src)].out

-----------------------------------------------------------------------------
\* Numbers in an arbitrary base, as their digits, lowest first: digits * m + a,
\* with as many new digits as the carry needs, which is less than 256: three at
\* most, for no base here is below 10.
DigitsOf(c, base) == IF c <= 0 THEN 0 ELSE IF c < base THEN 1 ELSE IF c < base * base THEN 2 ELSE 3

MulAdd(digits, m, a, base) ==
  LET carry[i \in 0 .. Len(digits)] ==
        IF i = 0 THEN a ELSE (digits[i] * m + carry[i - 1]) \div base
      low == [i \in DOMAIN digits |-> (digits[i] * m + carry[i - 1]) % base]
      out == carry[Len(digits)]
  IN  low \o LowDigits(out, DigitsOf(out, base), base)

\* A sequence of digits, highest first, from one base into another, lowest first.
Rebase(digits, first, from, to) ==
  LET acc[i \in 0 .. Len(digits)] ==
        IF i = 0 THEN first ELSE MulAdd(acc[i - 1], from, digits[i], to)
  IN  acc[Len(digits)]

-----------------------------------------------------------------------------
\* Decimal.  Leading zeros are left out, and of a zero that is all there is.
dec_put(word) ==
  LET digits == Rebase(Reverse(word), <<>>, 256, 10)
  IN  [i \in DOMAIN digits |-> Zero + digits[Len(digits) + 1 - i]]

\* What is left behind the last whole word is written in smaller ones, each
\* behind a separator.
Rest(src, w) ==
  LET at   == w * Words(src, w)
      left == Len(src) - at
  IN  CASE left = 0 -> <<>>
        [] left = 1 -> Separator \o dec_put(<<src[at + 1]>>)
        [] left = 2 -> Separator \o dec_put(<<src[at + 1], src[at + 2]>>)
        [] left = 3 -> Separator \o dec_put(<<src[at + 1], src[at + 2]>>)
                       \o Separator \o dec_put(<<src[at + 3]>>)

dec_encode(src, w) ==
  FlattenSeq([i \in 1 .. Words(src, w) |->
     (IF i = 1 THEN <<>> ELSE Separator)
     \o dec_put(SubSeq(src, w * (i - 1) + 1, w * i))]) \o Rest(src, w) \o <<NUL>>

\* The numbers of a text, each in as many bytes as the decoder's words have.
TakeDigit(acc, ch, bytes) ==
  IF ch \notin Digits THEN [acc EXCEPT !.isok = FALSE]
  ELSE LET out == IF acc.isok THEN acc.out
                  ELSE Append(acc.out, [k \in 1 .. bytes |-> 0])
           sum == MulAdd(Last(out), 10, ch - Zero, 256)
       IN  [out |-> WithLast(out, SubSeq(sum, 1, bytes)), isok |-> TRUE]

Numbers(src, bytes) ==
  LET acc[i \in 0 .. Len(src)] ==
        IF i = 0 THEN [out |-> <<>>, isok |-> FALSE] ELSE TakeDigit(acc[i - 1], src[i], bytes)
  IN  acc[Len(src)].out

\* The size is the number of words, so of wider words only the first bytes are
\* left: dec16 fills words of 2 bytes and dec32 words of an unsigned long, 8.
WordSize(w) == CASE w = 1 -> 1 [] w = 2 -> 2 [] w = 4 -> 8

dec_decode(src, w) ==
  LET numbers == Numbers(src, WordSize(w))
  IN  SubSeq(FlattenSeq(numbers), 1, Len(numbers))

-----------------------------------------------------------------------------
\* Base 32 and base 64 cut the stream of bits, highest first, into groups.
BitStream(src) ==
  FlattenSeq([i \in DOMAIN src |-> Reverse(Bits(<<src[i]>>))])

\* At most eight bits, highest first.
Number(bits) == ByteOf([k \in 1 .. 8 |-> IF k <= Len(bits) THEN bits[Len(bits) + 1 - k] ELSE 0])

\* Groups of n bits; the last one is filled up with zeros.
Groups(bits, n) ==
  LET count == (Len(bits) + n - 1) \div n
      full  == bits \o [i \in 1 .. n |-> 0]
  IN  [i \in 1 .. count |-> Number(SubSeq(full, n * (i - 1) + 1, n * i))]

\* Whole bytes of groups of n bits, the first count of them.
Bytes(groups, n, count) ==
  LET bits == FlattenSeq([i \in DOMAIN groups |-> Reverse(SubSeq(Bits(<<groups[i]>>), 1, n))])
  IN  [i \in 1 .. count |-> Number(SubSeq(bits, 8 * i - 7, 8 * i))]

base64_map(v) ==
  CASE v \in 0 .. 25  -> 65 + v
    [] v \in 26 .. 51 -> 97 + v - 26
    [] v \in 52 .. 61 -> 48 + v - 52
    [] v = 62         -> 43
    [] v = 63         -> 47

\* The encoder of base 32 writes with the alphabet of base 64, and pads a text
\* that needs no padding.
base32_encode(src) ==
  LET groups == Groups(BitStream(src), 5)
      npad   == ((Len(src) % 5) * 8) \div 5 + 1
  IN  [i \in DOMAIN groups |-> base64_map(groups[i])]
      \o [i \in 1 .. 8 - npad |-> Equal] \o <<NUL>>

NoDigit == 255

base32_decode0(ch) ==
  CASE ch \in Capitals -> ch - 65
    [] ch \in 50 .. 55 -> 26 + ch - 50
    [] OTHER           -> NoDigit

\* Bytes that a block of so many digits holds.
base32_ext == [di \in 0 .. 8 |-> <<0, 0, 1, 0, 2, 3, 0, 4, 5>>[di + 1]]

Flush32(acc, go) ==
  [out |-> acc.out \o Bytes(acc.tmp, 5, base32_ext[Len(acc.tmp)]), tmp |-> <<>>, go |-> go]
Die(acc) == [acc EXCEPT !.go = FALSE]

Take32(src, acc, i) ==
  LET ch == src[i]
      sz == Len(src) - i - 1
      v  == base32_decode0(ch)
  IN  IF ~acc.go \/ ch \in (9 .. 13) \cup {Space} THEN acc
      ELSE IF ch = NUL THEN Flush32(acc, TRUE)
      ELSE IF ch = Equal /\ Len(acc.tmp) >= 2 /\ sz \in 0 .. 7
           THEN IF Len(acc.tmp) \in {3, 6} THEN Die(acc) ELSE Flush32(acc, FALSE)
      ELSE IF v = NoDigit THEN Die(acc)
      ELSE IF Len(acc.tmp) < 7 THEN [acc EXCEPT !.tmp = Append(@, v)]
      ELSE Flush32([acc EXCEPT !.tmp = Append(@, v)], TRUE)

base32_decode(src) ==
  LET acc[i \in 0 .. Len(src)] ==
        IF i = 0 THEN [out |-> <<>>, tmp |-> <<>>, go |-> TRUE] ELSE Take32(src, acc[i - 1], i)
  IN  acc[Len(src)].out

-----------------------------------------------------------------------------
base64_encode(src) ==
  LET groups == Groups(BitStream(src), 6)
  IN  [i \in DOMAIN groups |-> base64_map(groups[i])]
      \o [i \in 1 .. (3 - (Len(src) % 3)) % 3 |-> Equal] \o <<NUL>>

\* 64 stands for every character outside the alphabet.
base64_index(ch) ==
  CASE ch \in Capitals -> ch - 65
    [] ch \in Smalls   -> ch - 97 + 26
    [] ch \in Digits   -> ch - 48 + 52
    [] ch = 43         -> 62
    [] ch = 47         -> 63
    [] OTHER           -> 64

\* Four characters at a time; what is left of a shorter block is dropped.
base64_decode(src) ==
  LET Block(tmp) ==
        <<(tmp[1] * 4 + tmp[2] \div 16) % 256>>
        \o (IF tmp[3] # 64 THEN <<(tmp[2] * 16 + tmp[3] \div 4) % 256>> ELSE <<>>)
        \o (IF tmp[4] # 64 THEN <<(tmp[3] * 64 + tmp[4]) % 256>> ELSE <<>>)
  IN  FlattenSeq([k \in 1 .. Len(src) \div 4 |->
         Block([j \in 1 .. 4 |-> base64_index(src[4 * k - 4 + j])])]) \o <<NUL>>

-----------------------------------------------------------------------------
\* Base 58: the whole input is one number, which has at least one digit.
base58_map == [d \in 0 .. 57 |->
  CASE d \in 0 .. 8   -> 49 + d         \* the digits but 0
    [] d \in 9 .. 16  -> 65 + d - 9     \* the capitals but I
    [] d \in 17 .. 21 -> 74 + d - 17    \* and O
    [] d \in 22 .. 32 -> 80 + d - 22
    [] d \in 33 .. 43 -> 97 + d - 33    \* the small letters but l
    [] d \in 44 .. 57 -> 109 + d - 44]

base58_idx(ch) ==
  IF \E d \in 0 .. 57 : base58_map[d] = ch THEN CHOOSE d \in 0 .. 57 : base58_map[d] = ch ELSE -1

\* The zeros, or whatever else is given, that a sequence starts with.
Leading(src, ch) ==
  SelectInSeq(Append(src, -1), LAMBDA c : c # ch) - 1

base58_encode(src) ==
  LET digits == Rebase(src, <<0>>, 256, 58)
  IN  [i \in 1 .. Leading(src, 0) |-> base58_map[0]]
      \o [i \in DOMAIN digits |-> base58_map[digits[Len(digits) + 1 - i]]]
      \o <<NUL>>

\* Every character counts as a digit, the NUL at the end of the text as -1.
base58_decode(src) ==
  LET number == Rebase([i \in DOMAIN src |-> base58_idx(src[i])], <<0>>, 58, 256)
  IN  Reverse(number \o [i \in 1 .. Leading(src, base58_map[0]) |-> 0]) \o <<NUL>>

-----------------------------------------------------------------------------
\* Base 85: blocks of four bytes, the last one filled up with zeros and written
\* with one digit more than it has bytes.
LowZ == 122

Digit85(x) == 33 + x

base85_encode(src) ==
  LET Block(k) ==
        LET bytes  == SubSeq(src, 4 * k - 3, Min({4 * k, Len(src)}))
            digits == Rebase(bytes \o [i \in 1 .. 4 - Len(bytes) |-> 0], <<0, 0, 0, 0, 0>>, 256, 85)
        IN  IF bytes = <<0, 0, 0, 0>> THEN <<LowZ>>
            ELSE [i \in 1 .. Len(bytes) + 1 |-> Digit85(digits[6 - i])]
  IN  FlattenSeq([k \in 1 .. (Len(src) + 3) \div 4 |-> Block(k)]) \o <<NUL>>

\* A block with a character outside the alphabet, or above 2^32 - 1, ends it.
Flush85(acc) ==
  LET count == Len(acc.tmp)
      five  == acc.tmp \o [i \in 1 .. 5 - count |-> 84]
      bytes == Rebase(five, <<0, 0, 0, 0>>, 85, 256)
  IN  IF Len(bytes) > 4 THEN [acc EXCEPT !.go = FALSE]
      ELSE [acc EXCEPT !.out = @ \o SubSeq(Reverse(bytes), 1, count - 1), !.tmp = <<>>]

Take85(acc, ch) ==
  IF ~acc.go THEN acc
  ELSE IF ch = LowZ /\ acc.tmp = <<>> THEN [acc EXCEPT !.out = @ \o <<0, 0, 0, 0>>]
  ELSE IF ch \notin 33 .. 117 THEN [acc EXCEPT !.go = FALSE, !.tmp = <<>>]
  ELSE IF Len(acc.tmp) < 4 THEN [acc EXCEPT !.tmp = Append(@, ch - 33)]
  ELSE Flush85([acc EXCEPT !.tmp = Append(@, ch - 33)])

base85_decode(src) ==
  LET acc[i \in 0 .. Len(src)] ==
        IF i = 0 THEN [out |-> <<>>, tmp |-> <<>>, go |-> TRUE] ELSE Take85(acc[i - 1], src[i])
      all == acc[Len(src)]
  IN  (IF all.go /\ all.tmp # <<>> THEN Flush85(all) ELSE all).out \o <<NUL>>

-----------------------------------------------------------------------------
\* The cipher of Vigenere moves letters by the letters of the key; only letters
\* use up the key.
vigenere_code(ch) ==
  CASE ch \in Capitals -> ch - 65
    [] ch \in Smalls   -> ch - 97
    [] OTHER           -> 0

Vigenere(src, key, sign) ==
  LET IsLetter(ch) == ch \in Capitals \cup Smalls
      used(i) == Cardinality({j \in 1 .. i - 1 : IsLetter(src[j])})
      Shift(i) == sign * vigenere_code(key[(used(i) % Len(key)) + 1])
      first(ch) == IF ch \in Smalls THEN 97 ELSE 65
  IN  [i \in DOMAIN src |->
        IF IsLetter(src[i])
        THEN first(src[i]) + ((vigenere_code(src[i]) + Shift(i)) % 26)
        ELSE src[i]] \o <<NUL>>

vigenere_encode(src, key) == Vigenere(src, key, 1)
vigenere_decode(src, key) == Vigenere(src, key, -1)
=============================================================================
