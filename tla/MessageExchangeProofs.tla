------------------------ MODULE MessageExchangeProofs ------------------------
(***************************************************************************)
(* Theorems about MessageExchange for all payloads, check sequences,       *)
(* bitmaps and lists of windows, with proofs that TLAPS checks.            *)
(***************************************************************************)
EXTENDS MessageExchange, SequenceTheorems, WellFoundedInduction, TLAPS

-----------------------------------------------------------------------------
(* Headers, bits and bytes.                                                *)

(* A header holds a window and six bits.                                   *)
LEMMA HeaderHolds ==
    ASSUME NEW w \in 0 .. 3, NEW low \in 0 .. 63
    PROVE  /\ Header(w, low) \in Byte
           /\ Header(w, low) \div 64 = w
           /\ Header(w, low) % 64 = low
BY DEF Header, Byte

(* What is read from the first byte of a message.                          *)
LEMMA HeaderRead ==
    ASSUME NEW w \in 0 .. 3, NEW low \in 0 .. 63, NEW rest \in Seq(Byte)
    PROVE  /\ <<Header(w, low)>> \o rest \in Seq(Byte)
           /\ Len(<<Header(w, low)>> \o rest) = 1 + Len(rest)
           /\ W(<<Header(w, low)>> \o rest) = w
           /\ FCN(<<Header(w, low)>> \o rest) = low
<1> DEFINE h == Header(w, low)
<1>1. h \in Byte /\ h \div 64 = w /\ h % 64 = low
  BY HeaderHolds
<1> HIDE DEF h
<1>2. <<h>> \in Seq(Byte) /\ Len(<<h>>) = 1 /\ <<h>>[1] = h
  BY <1>1
<1>3. /\ <<h>> \o rest \in Seq(Byte)
      /\ Len(<<h>> \o rest) = 1 + Len(rest)
      /\ (<<h>> \o rest)[1] = h
  BY <1>1, <1>2
<1> QED
  BY <1>1, <1>3 DEF h, W, FCN

LEMMA HeaderAlone ==
    ASSUME NEW w \in 0 .. 3, NEW low \in 0 .. 63
    PROVE  /\ Len(<<Header(w, low)>>) = 1
           /\ W(<<Header(w, low)>>) = w
           /\ FCN(<<Header(w, low)>>) = low
BY HeaderHolds DEF W, FCN

(* Two bits hold a window.                                                 *)
LEMMA WindowHeld ==
    ASSUME NEW w \in 0 .. 3
    PROVE  /\ BitsOf(w, 2) \in Seq(Bit)
           /\ Len(BitsOf(w, 2)) = 2
           /\ 2 * BitsOf(w, 2)[1] + BitsOf(w, 2)[2] = w
<1>1. BitsOf(w, 2) = [i \in 1 .. 2 |-> (w \div 2^(2 - i)) % 2]
  BY DEF BitsOf
<1>2. /\ 2^(2 - 1) = 2
      /\ 2^(2 - 2) = 1
  BY SMT
<1>3. /\ BitsOf(w, 2)[1] = (w \div 2) % 2
      /\ BitsOf(w, 2)[2] = (w \div 1) % 2
  BY <1>1, <1>2
<1>4. BitsOf(w, 2)[1] \in Bit /\ BitsOf(w, 2)[2] \in Bit
  BY <1>3 DEF Bit
<1>5. BitsOf(w, 2) = <<BitsOf(w, 2)[1], BitsOf(w, 2)[2]>>
  BY <1>1
<1>6. \A a, b \in Bit : <<a, b>> \in Seq(Bit) /\ Len(<<a, b>>) = 2
  OBVIOUS
<1>7. 2 * BitsOf(w, 2)[1] + BitsOf(w, 2)[2] = w
  BY <1>3
<1> QED
  BY <1>4, <1>5, <1>6, <1>7

(* Eight bits hold a byte.                                                 *)
LEMMA ByteHeld ==
    ASSUME NEW s, NEW i \in Int, \A j \in 0 .. 7 : s[i + j] \in Bit
    PROVE  /\ ByteAt(s, i) \in Byte
           /\ ByteAt(s, i) \div 64 = 2 * s[i] + s[i + 1]
           /\ (ByteAt(s, i) \div 32) % 2 = s[i + 2]
           /\ \A j \in 1 .. 8 : BitsOf(ByteAt(s, i), 8)[j] = s[i + j - 1]
<1>1. PICK n : n = ByteAt(s, i)
  OBVIOUS
<1>2. i + 0 = i
  OBVIOUS
<1>3. PICK a, b, c, d, e, f, g, h \in Bit :
        /\ a = s[i] /\ b = s[i + 1] /\ c = s[i + 2] /\ d = s[i + 3]
        /\ e = s[i + 4] /\ f = s[i + 5] /\ g = s[i + 6] /\ h = s[i + 7]
  BY <1>2
<1>4. n = 128 * a + 64 * b + 32 * c + 16 * d + 8 * e + 4 * f + 2 * g + h
  BY <1>1, <1>3 DEF ByteAt
<1>5. n \in Byte
  BY <1>4 DEF Bit, Byte
<1>6. n \div 64 = 2 * a + b /\ (n \div 32) % 2 = c
  BY <1>4 DEF Bit
<1>7. \A j \in 1 .. 8 : BitsOf(n, 8)[j] = (n \div 2^(8 - j)) % 2
  BY DEF BitsOf
<1>8. \A j \in 1 .. 8 : BitsOf(n, 8)[j] = s[i + j - 1]
  <2> SUFFICES ASSUME NEW j \in 1 .. 8
               PROVE  (n \div 2^(8 - j)) % 2 = s[i + j - 1]
    BY <1>7
  <2>1. CASE j = 1
    <3>1. 2^(8 - j) = 128 /\ i + j - 1 = i
      BY <2>1
    <3>2. (n \div 128) % 2 = a
      BY <1>4 DEF Bit
    <3> QED
      BY <1>3, <3>1, <3>2
  <2>2. CASE j = 2
    <3>1. 2^(8 - j) = 64 /\ i + j - 1 = i + 1
      BY <2>2
    <3>2. (n \div 64) % 2 = b
      BY <1>4 DEF Bit
    <3> QED
      BY <1>3, <3>1, <3>2
  <2>3. CASE j = 3
    <3>1. 2^(8 - j) = 32 /\ i + j - 1 = i + 2
      BY <2>3
    <3>2. (n \div 32) % 2 = c
      BY <1>4 DEF Bit
    <3> QED
      BY <1>3, <3>1, <3>2
  <2>4. CASE j = 4
    <3>1. 2^(8 - j) = 16 /\ i + j - 1 = i + 3
      BY <2>4
    <3>2. (n \div 16) % 2 = d
      BY <1>4 DEF Bit
    <3> QED
      BY <1>3, <3>1, <3>2
  <2>5. CASE j = 5
    <3>1. 2^(8 - j) = 8 /\ i + j - 1 = i + 4
      BY <2>5
    <3>2. (n \div 8) % 2 = e
      BY <1>4 DEF Bit
    <3> QED
      BY <1>3, <3>1, <3>2
  <2>6. CASE j = 6
    <3>1. 2^(8 - j) = 4 /\ i + j - 1 = i + 5
      BY <2>6
    <3>2. (n \div 4) % 2 = f
      BY <1>4 DEF Bit
    <3> QED
      BY <1>3, <3>1, <3>2
  <2>7. CASE j = 7
    <3>1. 2^(8 - j) = 2 /\ i + j - 1 = i + 6
      BY <2>7
    <3>2. (n \div 2) % 2 = g
      BY <1>4 DEF Bit
    <3> QED
      BY <1>3, <3>1, <3>2
  <2>8. CASE j = 8
    <3>1. 2^(8 - j) = 1 /\ i + j - 1 = i + 7
      BY <2>8
    <3>2. (n \div 1) % 2 = h
      BY <1>4 DEF Bit
    <3> QED
      BY <1>3, <3>1, <3>2
  <2> QED
    BY <2>1, <2>2, <2>3, <2>4, <2>5, <2>6, <2>7, <2>8
<1> QED
  BY <1>1, <1>3, <1>5, <1>6, <1>8

(* Bits that fill bytes are the bits of these bytes.                       *)
LEMMA BitsKept ==
    ASSUME NEW bits \in Seq(Bit), Len(bits) % 8 = 0
    PROVE  /\ BytesOfBits(bits) \in Seq(Byte)
           /\ 8 * Len(BytesOfBits(bits)) = Len(bits)
           /\ BitsOfBytes(BytesOfBits(bits)) = bits
<1> DEFINE bytes == BytesOfBits(bits)
           Eight(k) == BitsOf(ByteAt(bits, 8 * k - 7), 8)
<1>1. /\ Len(bits) \in Nat
      /\ Len(bits) \div 8 \in Nat
      /\ 8 * (Len(bits) \div 8) = Len(bits)
  BY LenProperties
<1>2. \A k \in 1 .. Len(bits) \div 8 :
        /\ ByteAt(bits, 8 * k - 7) \in Byte
        /\ \A j \in 1 .. 8 : Eight(k)[j] = bits[8 * k - 8 + j]
  <2> TAKE k \in 1 .. Len(bits) \div 8
  <2>1. \A j \in 0 .. 7 : 8 * k - 7 + j \in 1 .. Len(bits)
    BY <1>1
  <2>2. \A j \in 0 .. 7 : bits[8 * k - 7 + j] \in Bit
    BY <2>1, ElementOfSeq
  <2>3. 8 * k - 7 \in Int /\ \A j \in 1 .. 8 : 8 * k - 7 + j - 1 = 8 * k - 8 + j
    OBVIOUS
  <2>4. /\ ByteAt(bits, 8 * k - 7) \in Byte
        /\ \A j \in 1 .. 8 :
             BitsOf(ByteAt(bits, 8 * k - 7), 8)[j] = bits[8 * k - 7 + j - 1]
    BY <2>2, <2>3, ByteHeld
  <2> QED
    BY <2>3, <2>4
<1>3. bytes = [k \in 1 .. Len(bits) \div 8 |-> ByteAt(bits, 8 * k - 7)]
  BY DEF BytesOfBits
<1>4. bytes \in Seq(Byte) /\ Len(bytes) = Len(bits) \div 8
  BY <1>1, <1>2, <1>3
<1>5. \A i \in 1 .. Len(bits) :
        BitsOf(bytes[((i - 1) \div 8) + 1], 8)[((i - 1) % 8) + 1] = bits[i]
  <2> TAKE i \in 1 .. Len(bits)
  <2> DEFINE k == ((i - 1) \div 8) + 1
             j == ((i - 1) % 8) + 1
  <2>1. k \in 1 .. Len(bits) \div 8 /\ j \in 1 .. 8 /\ 8 * k - 8 + j = i
    BY <1>1
  <2> HIDE DEF k, j
  <2>2. bytes[k] = ByteAt(bits, 8 * k - 7)
    BY <1>3, <2>1
  <2>3. BitsOf(bytes[k], 8)[j] = bits[i]
    BY <1>2, <2>1, <2>2
  <2> QED
    BY <2>3 DEF k, j
<1>6. BitsOfBytes(bytes)
        = [i \in 1 .. Len(bits) |->
             BitsOf(bytes[((i - 1) \div 8) + 1], 8)[((i - 1) % 8) + 1]]
  BY <1>1, <1>4 DEF BitsOfBytes
<1>7. BitsOfBytes(bytes) = [i \in 1 .. Len(bits) |-> bits[i]]
  BY <1>5, <1>6
<1>8. bits = [i \in 1 .. Len(bits) |-> bits[i]]
  BY <1>1
<1> QED
  BY <1>1, <1>4, <1>7, <1>8

(* The first byte of a message of bits.                                    *)
LEMMA FirstByteKept ==
    ASSUME NEW bits \in Seq(Bit), Len(bits) >= 8
    PROVE  /\ W(BytesOfBits(bits)) = 2 * bits[1] + bits[2]
           /\ C(BytesOfBits(bits)) = bits[3]
<1>1. Len(bits) \div 8 \in Nat /\ Len(bits) \div 8 >= 1
  BY LenProperties
<1>2. BytesOfBits(bits)[1] = ByteAt(bits, 8 * 1 - 7)
  BY <1>1 DEF BytesOfBits
<1>3. 8 * 1 - 7 = 1
  OBVIOUS
<1>4. \A j \in 0 .. 7 : bits[1 + j] \in Bit
  BY ElementOfSeq
<1>5. /\ ByteAt(bits, 1) \div 64 = 2 * bits[1] + bits[1 + 1]
      /\ (ByteAt(bits, 1) \div 32) % 2 = bits[1 + 2]
  BY <1>4, ByteHeld
<1>6. 1 + 1 = 2 /\ 1 + 2 = 3
  OBVIOUS
<1> QED
  BY <1>2, <1>3, <1>5, <1>6 DEF W, C

-----------------------------------------------------------------------------
(* The bits of an ACK.                                                     *)

LEMMA Part ==
    ASSUME NEW s \in Seq(Bit), NEW m \in 1 .. Len(s) + 1,
           NEW n \in m - 1 .. Len(s)
    PROVE  /\ SubSeq(s, m, n) \in Seq(Bit)
           /\ Len(SubSeq(s, m, n)) = n - m + 1
           /\ \A i \in 1 .. n - m + 1 : SubSeq(s, m, n)[i] = s[m + i - 1]
<1>1. Len(s) \in Nat /\ m \in Int /\ n \in Int
  BY LenProperties
<1>2. \A i \in m .. n : s[i] \in Bit
  BY <1>1, ElementOfSeq
<1>3. /\ SubSeq(s, m, n) \in Seq(Bit)
      /\ Len(SubSeq(s, m, n)) = IF m <= n THEN n - m + 1 ELSE 0
      /\ \A i \in 1 .. n - m + 1 : SubSeq(s, m, n)[i] = s[m + i - 1]
  BY <1>1, <1>2, SubSeqProperties
<1> QED
  BY <1>1, <1>3

LEMMA Joined ==
    ASSUME NEW s \in Seq(Bit), NEW t \in Seq(Bit)
    PROVE  /\ s \o t \in Seq(Bit)
           /\ Len(s \o t) = Len(s) + Len(t)
           /\ \A i \in 1 .. Len(s) : (s \o t)[i] = s[i]
           /\ \A i \in 1 .. Len(t) : (s \o t)[Len(s) + i] = t[i]
<1>1. Len(s) \in Nat /\ Len(t) \in Nat
  BY LenProperties
<1>2. /\ s \o t \in Seq(Bit)
      /\ Len(s \o t) = Len(s) + Len(t)
      /\ \A i \in 1 .. Len(s) + Len(t) :
           (s \o t)[i] = IF i <= Len(s) THEN s[i] ELSE t[i - Len(s)]
  BY ConcatProperties, Zenon
<1>3. \A i \in 1 .. Len(t) :
        /\ Len(s) + i \in 1 .. Len(s) + Len(t)
        /\ ~(Len(s) + i <= Len(s)) /\ Len(s) + i - Len(s) = i
  BY <1>1
<1>4. \A i \in 1 .. Len(s) : i \in 1 .. Len(s) + Len(t) /\ i <= Len(s)
  BY <1>1
<1> QED
  BY <1>2, <1>3, <1>4

(* Padding fills the last byte, or adds one.                               *)
LEMMA Padded ==
    ASSUME NEW bits \in Seq(Bit), NEW bit \in Bit
    PROVE  LET all == bits \o Padding(Len(bits), bit)
           IN  /\ all \in Seq(Bit)
               /\ Len(all) = 8 * (Len(bits) \div 8) + 8
               /\ Len(all) % 8 = 0
               /\ \A i \in 1 .. Len(bits) : all[i] = bits[i]
               /\ \A i \in Len(bits) + 1 .. Len(all) : all[i] = bit
<1> DEFINE n == Len(bits)
           fill == Padding(n, bit)
<1>1. n \in Nat /\ 8 - (n % 8) \in 1 .. 8 /\ n = 8 * (n \div 8) + (n % 8)
  OBVIOUS
<1>2. fill = [i \in 1 .. 8 - (n % 8) |-> bit]
  BY DEF Padding
<1>3. fill \in Seq(Bit) /\ Len(fill) = 8 - (n % 8)
  BY <1>1, <1>2
<1>4. \A i \in 1 .. Len(fill) : fill[i] = bit
  BY <1>2, <1>3
<1> HIDE DEF fill
<1>5. /\ bits \o fill \in Seq(Bit)
      /\ Len(bits \o fill) = n + Len(fill)
      /\ \A i \in 1 .. n : (bits \o fill)[i] = bits[i]
      /\ \A i \in n + 1 .. n + Len(fill) : (bits \o fill)[i] = fill[i - n]
  BY <1>3
<1>6. n + Len(fill) = 8 * (n \div 8) + 8
  BY <1>1, <1>3
<1>7. (8 * (n \div 8) + 8) % 8 = 0
  BY <1>1
<1>8. \A i \in n + 1 .. n + Len(fill) : i - n \in 1 .. Len(fill)
  BY <1>1, <1>3
<1> QED
  BY <1>4, <1>5, <1>6, <1>7, <1>8 DEF fill

(* A bitmap is cut behind its last missing tile.                           *)
LEMMA CutBehind ==
    ASSUME NEW bitmap \in Seq(Bit), Len(bitmap) = windowSize
    PROVE  \E k \in 1 .. windowSize :
             /\ Compressed(bitmap) = SubSeq(bitmap, 1, k)
             /\ \A i \in k + 1 .. windowSize : bitmap[i] = 1
<1> DEFINE S == {1} \cup {i \in DOMAIN bitmap : bitmap[i] = 0}
           T == {windowSize - i : i \in S}
<1>1. windowSize = 63 /\ DOMAIN bitmap = 1 .. windowSize
  BY DEF windowSize
<1>2. S \subseteq 1 .. windowSize /\ S # {}
  BY <1>1
<1>3. \A i \in 1 .. windowSize : i \notin S => bitmap[i] = 1
  <2> TAKE i \in 1 .. windowSize
  <2>1. bitmap[i] \in Bit
    BY ElementOfSeq
  <2> QED
    BY <1>1, <2>1 DEF Bit
<1> HIDE DEF S
<1>4. T \in SUBSET Nat /\ T # {}
  <2>1. \A i \in S : windowSize - i \in Nat
    BY <1>1, <1>2
  <2> QED
    BY <1>2, <2>1
<1>5. \E t \in T : \A u \in T : ~(<<u, t>> \in OpToRel(<, Nat))
  BY <1>4, NatLessThanWellFounded, WFMin
<1>6. OpToRel(<, Nat) = {p \in Nat \X Nat : p[1] < p[2]}
  BY Zenon DEF OpToRel
<1>7. \A t, u \in Nat : <<u, t>> \in {p \in Nat \X Nat : p[1] < p[2]} <=> u < t
  BY SMT
<1>8. PICK t \in T : \A u \in T : ~(u < t)
  BY <1>4, <1>5, <1>6, <1>7
<1>9. PICK last \in S : t = windowSize - last
  BY <1>8
<1>10. \A i \in S : last >= i
  <2> TAKE i \in S
  <2>1. ~(windowSize - i < windowSize - last)
    BY <1>8, <1>9
  <2> QED
    BY <1>1, <1>2, <1>9, <2>1
<1>11. Max(S) \in S /\ \A i \in S : Max(S) >= i
  BY <1>9, <1>10 DEF Max
<1>12. Compressed(bitmap) = SubSeq(bitmap, 1, Max(S))
  BY DEF Compressed, S
<1>13. PICK k \in S : k = Max(S)
  BY <1>11
<1>14. \A i \in k + 1 .. windowSize : bitmap[i] = 1
  <2> TAKE i \in k + 1 .. windowSize
  <2>1. k \in 1 .. 63
    BY <1>1, <1>2
  <2>2. i \in 1 .. windowSize /\ ~(k >= i)
    BY <1>1, <2>1
  <2>3. i \notin S
    BY <1>11, <1>13, <2>2
  <2> QED
    BY <1>3, <2>2, <2>3
<1> QED
  BY <1>2, <1>12, <1>13, <1>14

(* An ACK with missing tiles holds its window, a C of 0, and a bitmap that *)
(* says of every tile what was meant.  It has nine bytes at most.          *)
LEMMA AckHeld ==
    ASSUME NEW w \in 0 .. 3,
           NEW bitmap \in Seq(Bit), Len(bitmap) = windowSize
    PROVE  LET ack == create_schc_ack(w, 0, bitmap)
           IN  /\ Len(ack) \in Nat /\ Len(ack) <= 9
               /\ W(ack) = w
               /\ C(ack) = 0
               /\ \A i \in 1 .. windowSize :
                    bitmap[i] = IF i \in DOMAIN DecodedBits(ack)
                                  THEN DecodedBits(ack)[i] ELSE 1
<1>1. windowSize = 63
  BY DEF windowSize
<1>2. PICK k \in 1 .. windowSize :
        /\ Compressed(bitmap) = SubSeq(bitmap, 1, k)
        /\ \A i \in k + 1 .. windowSize : bitmap[i] = 1
  BY CutBehind
<1> DEFINE kept == SubSeq(bitmap, 1, k)
           two == BitsOf(w, 2)
           zero == <<0>>
           bits == two \o zero \o kept
           all == bits \o Padding(Len(bits), 1)
           ack == BytesOfBits(all)
<1>3. /\ kept \in Seq(Bit) /\ Len(kept) = k
      /\ \A i \in 1 .. k : kept[i] = bitmap[i]
  <2>1. 1 \in 1 .. Len(bitmap) + 1 /\ k \in 1 - 1 .. Len(bitmap)
    BY <1>1, <1>2
  <2>2. /\ kept \in Seq(Bit) /\ Len(kept) = k - 1 + 1
        /\ \A i \in 1 .. k - 1 + 1 : kept[i] = bitmap[1 + i - 1]
    BY <2>1, Part
  <2>3. k - 1 + 1 = k /\ \A i \in 1 .. k : 1 + i - 1 = i
    BY <1>2
  <2> QED
    BY <2>2, <2>3
<1>4. two \in Seq(Bit) /\ Len(two) = 2 /\ 2 * two[1] + two[2] = w
  BY WindowHeld
<1>5. zero \in Seq(Bit) /\ Len(zero) = 1 /\ zero[1] = 0
  BY DEF Bit
<1> HIDE DEF kept, two, zero
<1>6. /\ two \o zero \in Seq(Bit) /\ Len(two \o zero) = 3
      /\ (two \o zero)[1] = two[1] /\ (two \o zero)[2] = two[2]
      /\ (two \o zero)[3] = 0
  <2>1. /\ two \o zero \in Seq(Bit) /\ Len(two \o zero) = 2 + 1
        /\ \A i \in 1 .. 2 + 1 :
             (two \o zero)[i] = IF i <= 2 THEN two[i] ELSE zero[i - 2]
    <3>1. Len(two) = 2 /\ Len(zero) = 1
      BY <1>4, <1>5
    <3>2. two \in Seq(Bit) /\ zero \in Seq(Bit)
      BY <1>4, <1>5
    <3>3. /\ two \o zero \in Seq(Bit)
          /\ Len(two \o zero) = Len(two) + Len(zero)
          /\ \A i \in 1 .. Len(two) + Len(zero) :
               (two \o zero)[i]
                 = IF i <= Len(two) THEN two[i] ELSE zero[i - Len(two)]
      BY <3>2, ConcatProperties, Zenon
    <3> QED
      BY <3>1, <3>3
  <2>2. 1 \in 1 .. 2 + 1 /\ 2 \in 1 .. 2 + 1 /\ 3 \in 1 .. 2 + 1 /\ 3 - 2 = 1
    OBVIOUS
  <2>3. (two \o zero)[3] = zero[3 - 2]
    BY <2>1, <2>2
  <2> QED
    BY <1>5, <2>1, <2>2, <2>3
<1>7. /\ bits \in Seq(Bit) /\ Len(bits) = 3 + k
      /\ bits[1] = two[1] /\ bits[2] = two[2] /\ bits[3] = 0
      /\ \A i \in 1 .. k : bits[i + 3] = kept[i]
  <2> DEFINE head == two \o zero
  <2>1. /\ head \in Seq(Bit) /\ Len(head) = 3 /\ head[3] = 0
        /\ head[1] = two[1] /\ head[2] = two[2]
    BY <1>6
  <2> HIDE DEF head
  <2>2. /\ head \o kept \in Seq(Bit)
        /\ Len(head \o kept) = Len(head) + Len(kept)
        /\ \A i \in 1 .. Len(head) : (head \o kept)[i] = head[i]
        /\ \A i \in 1 .. Len(kept) : (head \o kept)[Len(head) + i] = kept[i]
    BY <1>3, <2>1, Joined, Zenon
  <2>3. bits = head \o kept
    BY DEF head
  <2> HIDE DEF bits
  <2>4. /\ bits \in Seq(Bit) /\ Len(bits) = 3 + k
        /\ \A i \in 1 .. 3 : bits[i] = head[i]
        /\ \A i \in 1 .. k : bits[3 + i] = kept[i]
    BY <1>3, <2>1, <2>2, <2>3
  <2>5. \A i \in 1 .. k : i + 3 = 3 + i
    BY <1>2
  <2> QED
    BY <2>1, <2>4, <2>5
<1> HIDE DEF bits
<1>8. /\ all \in Seq(Bit)
      /\ Len(all) = 8 * (Len(bits) \div 8) + 8 /\ Len(all) % 8 = 0
      /\ \A i \in 1 .. Len(bits) : all[i] = bits[i]
      /\ \A i \in Len(bits) + 1 .. Len(all) : all[i] = 1
  BY <1>7, Padded DEF Bit
<1> HIDE DEF all
<1>9. /\ ack \in Seq(Byte) /\ 8 * Len(ack) = Len(all)
      /\ BitsOfBytes(ack) = all
  BY <1>8, BitsKept
<1>10. W(ack) = 2 * all[1] + all[2] /\ C(ack) = all[3]
  <2>1. Len(all) >= 8
    BY <1>2, <1>7, <1>8
  <2> QED
    BY <1>8, <2>1, FirstByteKept, Zenon DEF ack
<1> HIDE DEF ack
<1>11. Len(ack) \in Nat /\ Len(ack) <= 9 /\ Len(all) > 3 + k /\ Len(all) \in Nat
  BY <1>1, <1>2, <1>7, <1>8, <1>9
<1>12. /\ DOMAIN DecodedBits(ack) = 1 .. Len(all) - 3
       /\ \A i \in 1 .. Len(all) - 3 : DecodedBits(ack)[i] = all[i + 3]
  <2>1. DecodedBits(ack) = SubSeq(all, 4, Len(all))
    BY <1>9 DEF DecodedBits
  <2>2. /\ Len(SubSeq(all, 4, Len(all))) = Len(all) - 3
        /\ \A i \in 1 .. Len(all) - 3 : SubSeq(all, 4, Len(all))[i] = all[4 + i - 1]
    BY <1>2, <1>8, <1>11
  <2>3. SubSeq(all, 4, Len(all)) \in Seq(Bit)
    BY <1>2, <1>8, <1>11
  <2>4. \A i \in 1 .. Len(all) - 3 : 4 + i - 1 = i + 3
    BY <1>11
  <2> QED
    BY <2>1, <2>2, <2>3, <2>4
<1>13. \A i \in 1 .. windowSize :
         bitmap[i] = IF i \in DOMAIN DecodedBits(ack)
                       THEN DecodedBits(ack)[i] ELSE 1
  <2> TAKE i \in 1 .. windowSize
  <2>1. CASE i <= k
    <3>1. /\ i \in 1 .. k /\ i \in 1 .. Len(all) - 3
          /\ i + 3 \in 1 .. Len(bits)
      BY <1>1, <1>2, <1>7, <1>11, <2>1
    <3> QED
      BY <1>3, <1>7, <1>8, <1>12, <3>1
  <2>2. CASE i > k
    <3>1. bitmap[i] = 1
      BY <1>1, <1>2, <2>2
    <3>2. i \in 1 .. Len(all) - 3 => i + 3 \in Len(bits) + 1 .. Len(all)
      BY <1>1, <1>2, <1>7, <1>11, <2>2
    <3> QED
      BY <1>8, <1>12, <3>1, <3>2
  <2> QED
    BY <1>1, <1>2, <2>1, <2>2
<1>14. create_schc_ack(w, 0, bitmap) = ack
  BY <1>2 DEF create_schc_ack, ack, all, bits, kept, two, zero
<1>15. W(ack) = w /\ C(ack) = 0
  BY <1>2, <1>4, <1>7, <1>8, <1>10
<1> QED
  BY <1>11, <1>13, <1>14, <1>15

-----------------------------------------------------------------------------
(* The bits of a compound ACK.                                             *)

Bitmap == {b \in Seq(Bit) : Len(b) = windowSize}

(* The bits of one window: two for W, and the bitmap.                      *)
LEMMA WindowLaid ==
    ASSUME NEW w \in 0 .. 3, NEW map \in Bitmap,
           NEW one \in {BitsOf(w, 2) \o map}
    PROVE  /\ \A j \in 1 .. 65 : one[j] \in Bit
           /\ 2 * one[1] + one[2] = w
           /\ \A j \in 1 .. 63 : one[2 + j] = map[j]
<1> PICK two : two = BitsOf(w, 2)
  OBVIOUS
<1>1. two \in Seq(Bit) /\ Len(two) = 2 /\ 2 * two[1] + two[2] = w
  BY WindowHeld
<1>2. map \in Seq(Bit) /\ Len(map) = 63
  BY DEF Bitmap, windowSize
<1>3. /\ one \in Seq(Bit)
      /\ Len(one) = Len(two) + Len(map)
      /\ \A i \in 1 .. Len(two) : one[i] = two[i]
      /\ \A i \in 1 .. Len(map) : one[Len(two) + i] = map[i]
  <2>1. one = two \o map
    OBVIOUS
  <2>2. two \in Seq(Bit) /\ map \in Seq(Bit)
    BY <1>1, <1>2
  <2>3. /\ two \o map \in Seq(Bit)
        /\ Len(two \o map) = Len(two) + Len(map)
        /\ \A i \in 1 .. Len(two) : (two \o map)[i] = two[i]
        /\ \A i \in 1 .. Len(map) : (two \o map)[Len(two) + i] = map[i]
    BY <2>2, Joined, Zenon
  <2> QED
    BY <2>1, <2>3, Zenon
<1>4. Len(one) = 65 /\ \A j \in 1 .. 63 : one[2 + j] = map[j]
  <2>1. Len(one) = 2 + 63
    BY <1>1, <1>2, <1>3, Zenon
  <2>2. \A j \in 1 .. 63 : one[2 + j] = map[j]
    BY <1>1, <1>2, <1>3, Zenon
  <2>3. 2 + 63 = 65
    OBVIOUS
  <2> QED
    BY <2>1, <2>2, <2>3, Zenon
<1>5. one[1] = two[1] /\ one[2] = two[2]
  BY <1>1, <1>3
<1>6. \A j \in 1 .. 65 : one[j] \in Bit
  BY <1>3, <1>4, ElementOfSeq
<1> QED
  BY <1>1, <1>4, <1>5, <1>6

(* The windows lie one behind the other.                                   *)
LEMMA WindowsLaid ==
    ASSUME NEW windows \in Seq(0 .. 3), NEW bitmaps \in [0 .. 3 -> Bitmap]
    PROVE  /\ WindowBits(windows, bitmaps) \in Seq(Bit)
           /\ Len(WindowBits(windows, bitmaps)) = 65 * Len(windows)
           /\ \A k \in 1 .. Len(windows), j \in 1 .. 65 :
                WindowBits(windows, bitmaps)[65 * (k - 1) + j]
                  = (BitsOf(windows[k], 2) \o bitmaps[windows[k]])[j]
<1> DEFINE One(w) == BitsOf(w, 2) \o bitmaps[w]
<1> PICK n : n = Len(windows)
  OBVIOUS
<1> PICK laid : laid = WindowBits(windows, bitmaps)
  OBVIOUS
<1>1. windowSize + 2 = 65
  BY DEF windowSize
<1>2. n \in Nat /\ \A k \in 1 .. n : windows[k] \in 0 .. 3
  BY LenProperties, ElementOfSeq
<1>3. \A w \in 0 .. 3 : \A j \in 1 .. 65 : One(w)[j] \in Bit
  BY WindowLaid
<1> HIDE DEF One
<1>4. laid = [i \in 1 .. 65 * n |->
                One(windows[((i - 1) \div 65) + 1])[((i - 1) % 65) + 1]]
  BY <1>1 DEF WindowBits, One
<1>5. \A i \in 1 .. 65 * n : laid[i] \in Bit
  <2> TAKE i \in 1 .. 65 * n
  <2> DEFINE k == ((i - 1) \div 65) + 1
             j == ((i - 1) % 65) + 1
  <2>1. k \in 1 .. n /\ j \in 1 .. 65
    BY <1>2
  <2>2. laid[i] = One(windows[k])[j]
    BY <1>4
  <2> HIDE DEF k, j
  <2>3. windows[k] \in 0 .. 3
    BY <1>2, <2>1
  <2> QED
    BY <1>3, <2>1, <2>2, <2>3, Zenon
<1>6. laid \in Seq(Bit) /\ Len(laid) = 65 * n
  BY <1>2, <1>4, <1>5
<1>7. \A k \in 1 .. n, j \in 1 .. 65 :
        laid[65 * (k - 1) + j] = One(windows[k])[j]
  <2> TAKE k \in 1 .. n, j \in 1 .. 65
  <2>1. /\ 65 * (k - 1) + j \in 1 .. 65 * n
        /\ ((65 * (k - 1) + j - 1) \div 65) + 1 = k
        /\ ((65 * (k - 1) + j - 1) % 65) + 1 = j
    BY <1>2
  <2> QED
    BY <1>4, <2>1
<1> QED
  BY <1>6, <1>7, Zenon DEF One

(* A compound ACK gives back its windows and their bitmaps, and has more   *)
(* than nine bytes when it lists two.                                      *)
LEMMA CompoundHeld ==
    ASSUME NEW windows \in Seq(0 .. 3), windows # <<>>,
           NEW bitmaps \in [0 .. 3 -> Bitmap], NEW last_win
    PROVE  LET ack == create_schc_ack_compound(last_win, windows, bitmaps)
           IN  /\ Len(ack) \in Nat
               /\ Len(ack) <= 9 <=> Len(windows) = 1
               /\ C(ack) = 0
               /\ DecodedWindows(ack) = windows
               /\ \A k \in 1 .. Len(windows) :
                    DecodedBitmap(ack, k) = bitmaps[windows[k]]
<1> PICK n : n = Len(windows)
  OBVIOUS
<1> PICK laid : laid = WindowBits(windows, bitmaps)
  OBVIOUS
<1> DEFINE bits == InsertAt(laid, 3, 0)
           all == bits \o Padding(Len(bits), 0)
           ack == BytesOfBits(all)
<1>1. windowSize = 63 /\ windowSize + 2 = 65
  BY DEF windowSize
<1>2. n \in Nat /\ n >= 1
  BY EmptySeq, LenProperties
<1>3. \A k \in 1 .. n : windows[k] \in 0 .. 3
  BY ElementOfSeq
<1>4. laid \in Seq(Bit) /\ Len(laid) = 65 * n
  BY WindowsLaid, Zenon
<1>5. ASSUME NEW k \in 1 .. n
       PROVE  /\ 2 * laid[65 * (k - 1) + 1] + laid[65 * (k - 1) + 2] = windows[k]
              /\ \A j \in 1 .. 63 :
                   laid[65 * (k - 1) + 2 + j] = bitmaps[windows[k]][j]
  <2> PICK one : one = BitsOf(windows[k], 2) \o bitmaps[windows[k]]
    OBVIOUS
  <2>1. \A j \in 1 .. 65 : laid[65 * (k - 1) + j] = one[j]
    BY WindowsLaid, Zenon
  <2>2. windows[k] \in 0 .. 3 /\ bitmaps[windows[k]] \in Bitmap
    BY <1>3
  <2>3. /\ 2 * one[1] + one[2] = windows[k]
        /\ \A j \in 1 .. 63 : one[2 + j] = bitmaps[windows[k]][j]
    <3> DEFINE w == windows[k]
               map == bitmaps[w]
    <3>1. w \in 0 .. 3 /\ map \in Bitmap /\ one \in {BitsOf(w, 2) \o map}
      BY <2>2
    <3> HIDE DEF w, map
    <3>2. 2 * one[1] + one[2] = w /\ \A j \in 1 .. 63 : one[2 + j] = map[j]
      <4>1. \A x \in {BitsOf(w, 2) \o map} :
              2 * x[1] + x[2] = w /\ \A j \in 1 .. 63 : x[2 + j] = map[j]
        BY <3>1, WindowLaid
      <4> QED
        BY <3>1, <4>1, Zenon
    <3> QED
      BY <3>2 DEF w, map
  <2>4. \A j \in 1 .. 63 :
          2 + j \in 1 .. 65 /\ 65 * (k - 1) + 2 + j = 65 * (k - 1) + (2 + j)
    BY <1>2
  <2>5. /\ laid[65 * (k - 1) + 1] = one[1]
        /\ laid[65 * (k - 1) + 2] = one[2]
    <3>1. 1 \in 1 .. 65 /\ 2 \in 1 .. 65
      OBVIOUS
    <3> QED
      BY <2>1, <3>1, Zenon
  <2>6. \A j \in 1 .. 63 :
          laid[65 * (k - 1) + 2 + j] = bitmaps[windows[k]][j]
    BY <2>1, <2>3, <2>4, ZenonT(60)
  <2> QED
    BY <2>3, <2>5, <2>6
<1>6. /\ bits \in Seq(Bit) /\ Len(bits) = 65 * n + 1
      /\ bits[1] = laid[1] /\ bits[2] = laid[2] /\ bits[3] = 0
      /\ \A i \in 4 .. 65 * n + 1 : bits[i] = laid[i - 1]
  <2> DEFINE front == SubSeq(laid, 1, 3 - 1)
             zero == <<0>>
             back == SubSeq(laid, 3, Len(laid))
  <2>1. /\ front \in Seq(Bit) /\ Len(front) = 2
        /\ front[1] = laid[1] /\ front[2] = laid[2]
    <3>1. /\ 1 \in 1 .. Len(laid) + 1 /\ 3 - 1 \in 1 - 1 .. Len(laid)
      BY <1>2, <1>4
    <3>2. /\ front \in Seq(Bit) /\ Len(front) = 3 - 1 - 1 + 1
          /\ \A i \in 1 .. 3 - 1 - 1 + 1 : front[i] = laid[1 + i - 1]
      BY <1>4, <3>1, Part
    <3> QED
      BY <3>2
  <2>2. /\ back \in Seq(Bit) /\ Len(back) = 65 * n - 2
        /\ \A i \in 1 .. 65 * n - 2 : back[i] = laid[i + 2]
    <3>1. /\ 3 \in 1 .. Len(laid) + 1 /\ Len(laid) \in 3 - 1 .. Len(laid)
          /\ Len(laid) - 3 + 1 = 65 * n - 2
      BY <1>2, <1>4
    <3>2. /\ back \in Seq(Bit) /\ Len(back) = Len(laid) - 3 + 1
          /\ \A i \in 1 .. Len(laid) - 3 + 1 : back[i] = laid[3 + i - 1]
      BY <1>4, <3>1, Part
    <3>3. \A i \in 1 .. 65 * n - 2 : 3 + i - 1 = i + 2
      BY <1>2
    <3> QED
      BY <3>1, <3>2, <3>3
  <2>3. zero \in Seq(Bit) /\ Len(zero) = 1 /\ zero[1] = 0
    BY DEF Bit
  <2>4. bits = front \o zero \o back
    BY DEF InsertAt
  <2> HIDE DEF front, back, zero, bits
  <2>5. PICK f : f = front \o zero
    OBVIOUS
  <2>6. /\ f \in Seq(Bit)
        /\ Len(f) = Len(front) + Len(zero)
        /\ \A i \in 1 .. Len(front) : f[i] = front[i]
        /\ \A i \in 1 .. Len(zero) : f[Len(front) + i] = zero[i]
    BY <2>1, <2>3, <2>5, Joined, Zenon
  <2>7. Len(f) = 3 /\ f[1] = laid[1] /\ f[2] = laid[2] /\ f[3] = 0
    <3>1. 1 \in 1 .. 2 /\ 2 \in 1 .. 2 /\ 1 \in 1 .. 1 /\ 2 + 1 = 3
      OBVIOUS
    <3>2. f[2 + 1] = zero[1]
      BY <2>1, <2>3, <2>6, <3>1, Zenon
    <3>3. f[1] = front[1] /\ f[2] = front[2]
      BY <2>1, <2>6, <3>1, Zenon
    <3>4. Len(f) = 3
      BY <2>1, <2>3, <2>6
    <3> QED
      BY <2>1, <2>3, <3>1, <3>2, <3>3, <3>4
  <2>8. /\ f \o back \in Seq(Bit)
        /\ Len(f \o back) = Len(f) + Len(back)
        /\ \A i \in 1 .. Len(f) : (f \o back)[i] = f[i]
        /\ \A i \in 1 .. Len(back) : (f \o back)[Len(f) + i] = back[i]
    BY <2>2, <2>6, Joined, Zenon
  <2>9. bits = f \o back
    BY <2>4, <2>5
  <2>10. /\ bits \in Seq(Bit) /\ Len(bits) = 65 * n + 1
         /\ bits[1] = laid[1] /\ bits[2] = laid[2] /\ bits[3] = 0
    BY <1>2, <2>2, <2>7, <2>8, <2>9
  <2>11. \A i \in 4 .. 65 * n + 1 : bits[i] = laid[i - 1]
    <3> TAKE i \in 4 .. 65 * n + 1
    <3>1. /\ i - 3 \in 1 .. 65 * n - 2 /\ i - 3 + 2 = i - 1 /\ 3 + (i - 3) = i
      BY <1>2
    <3>2. bits[Len(f) + (i - 3)] = back[i - 3]
      BY <2>2, <2>8, <2>9, <3>1, Zenon
    <3> QED
      BY <2>2, <2>7, <3>1, <3>2
  <2> QED
    BY <2>10, <2>11 DEF bits
<1> HIDE DEF bits
<1>7. /\ all \in Seq(Bit)
      /\ Len(all) = 8 * (Len(bits) \div 8) + 8 /\ Len(all) % 8 = 0
      /\ \A i \in 1 .. Len(bits) : all[i] = bits[i]
  BY <1>6, Padded DEF Bit
<1> HIDE DEF all
<1>8. 8 * Len(ack) = Len(all) /\ BitsOfBytes(ack) = all /\ ack \in Seq(Byte)
  BY <1>7, BitsKept
<1>9. Len(all) >= 8 /\ C(ack) = all[3]
  <2>1. Len(all) >= 8
    BY <1>2, <1>6, <1>7
  <2> QED
    BY <1>7, <2>1, FirstByteKept
<1> HIDE DEF ack
<1>10. \A i \in 1 .. 65 * n + 1 : all[i] = bits[i]
  BY <1>6, <1>7, Zenon
<1>11. all[1] = laid[1] /\ all[2] = laid[2] /\ all[3] = 0
  <2>1. 1 \in 1 .. 65 * n + 1 /\ 2 \in 1 .. 65 * n + 1 /\ 3 \in 1 .. 65 * n + 1
    BY <1>2
  <2> QED
    BY <1>6, <1>10, <2>1, Zenon
<1>12. \A i \in 4 .. 65 * n + 1 : all[i] = laid[i - 1]
  <2>1. \A i \in 4 .. 65 * n + 1 : i \in 1 .. 65 * n + 1
    BY <1>2
  <2> QED
    BY <1>6, <1>10, <2>1, Zenon
<1>13. C(ack) = 0
  BY <1>9, <1>11
<1>14. Len(ack) \in Nat /\ Len(ack) = (65 * n + 1) \div 8 + 1
  BY <1>2, <1>6, <1>7, <1>8
<1>15. Len(ack) <= 9 <=> n = 1
  BY <1>2, <1>14
<1>16. NWindows(ack) = n
  <2>1. NWindows(ack) = (8 * Len(ack) - 1) \div 65
    BY <1>1 DEF NWindows
  <2>2. 8 * Len(ack) - 1 >= 65 * n /\ 8 * Len(ack) - 1 < 65 * n + 65
    BY <1>2, <1>14
  <2> QED
    BY <1>2, <1>14, <2>1, <2>2
<1>17. \A k \in 1 .. n : WindowAt(all, WindowStart(k)) = windows[k]
  <2> TAKE k \in 1 .. n
  <2>1. CASE k = 1
    <3>1. WindowStart(k) = 1
      BY <2>1 DEF WindowStart
    <3>2. WindowAt(all, 1) = 2 * all[1] + all[1 + 1]
      BY DEF WindowAt
    <3>3. all[1] = laid[1] /\ all[1 + 1] = laid[2]
      BY <1>11
    <3>4. 65 * (k - 1) + 1 = 1 /\ 65 * (k - 1) + 2 = 2
      BY <2>1
    <3>5. 2 * laid[65 * (k - 1) + 1] + laid[65 * (k - 1) + 2] = windows[k]
      BY <1>5
    <3>6. WindowAt(all, 1) = windows[k]
      BY <3>2, <3>3, <3>4, <3>5
    <3> QED
      BY <3>1, <3>6
  <2>2. CASE k # 1
    <3> DEFINE p == 65 * (k - 1) + 2
    <3>1. WindowStart(k) = p
      BY <1>1, <2>2 DEF WindowStart
    <3>2. WindowAt(all, p) = 2 * all[p] + all[p + 1]
      BY DEF WindowAt
    <3>3. /\ p \in 4 .. 65 * n + 1 /\ p + 1 \in 4 .. 65 * n + 1
          /\ p \in 1 .. 65 * n + 1 /\ p + 1 \in 1 .. 65 * n + 1
          /\ p - 1 = 65 * (k - 1) + 1 /\ p + 1 - 1 = 65 * (k - 1) + 2
      BY <1>2, <2>2
    <3> HIDE DEF p
    <3>4. all[p] = laid[p - 1] /\ all[p + 1] = laid[p + 1 - 1]
      <4>1. PICK q : q = p + 1
        OBVIOUS
      <4>2. p \in 4 .. 65 * n + 1 /\ q \in 4 .. 65 * n + 1
        BY <3>3, <4>1
      <4>3. all[p] = laid[p - 1] /\ all[q] = laid[q - 1]
        BY <1>12, <4>2
      <4> QED
        BY <4>1, <4>2, <4>3
    <3>5. 2 * laid[65 * (k - 1) + 1] + laid[65 * (k - 1) + 2] = windows[k]
      BY <1>5
    <3>6. WindowAt(all, p) = windows[k]
      BY <3>2, <3>3, <3>4, <3>5
    <3> QED
      BY <3>1, <3>6
  <2> QED
    BY <2>1, <2>2
<1>18. DecodedWindows(ack) = windows
  <2>1. DecodedWindows(ack) = [k \in 1 .. n |-> WindowAt(all, WindowStart(k))]
    BY <1>8, <1>16 DEF DecodedWindows
  <2>2. DecodedWindows(ack) = [k \in 1 .. n |-> windows[k]]
    BY <1>17, <2>1
  <2>3. windows = [k \in 1 .. n |-> windows[k]]
    BY <1>2
  <2> QED
    BY <2>2, <2>3
<1>19. \A k \in 1 .. n : DecodedBitmap(ack, k) = bitmaps[windows[k]]
  <2> TAKE k \in 1 .. n
  <2> DEFINE first == 65 * (k - 1) + 4
             map == bitmaps[windows[k]]
             read == SubSeq(all, first, first + 63 - 1)
  <2>1. DecodedBitmap(ack, k) = read
    BY <1>1, <1>8 DEF DecodedBitmap
  <2>2. map \in Seq(Bit) /\ Len(map) = 63
    BY <1>1, <1>3 DEF Bitmap
  <2>3. /\ first \in 1 .. Len(all) + 1
        /\ first + 63 - 1 \in first - 1 .. Len(all)
        /\ first + 63 - 1 - first + 1 = 63
    BY <1>2, <1>6, <1>7
  <2>4. /\ read \in Seq(Bit) /\ Len(read) = 63
        /\ \A j \in 1 .. 63 : read[j] = all[first + j - 1]
    <3> DEFINE last == first + 63 - 1
    <3>1. /\ all \in Seq(Bit) /\ first \in 1 .. Len(all) + 1
          /\ last \in first - 1 .. Len(all) /\ last - first + 1 = 63
      BY <1>7, <2>3
    <3>2. read = SubSeq(all, first, last)
      OBVIOUS
    <3> HIDE DEF first, last, all, read
    <3>3. /\ read \in Seq(Bit) /\ Len(read) = last - first + 1
          /\ \A j \in 1 .. last - first + 1 : read[j] = all[first + j - 1]
      BY <3>1, <3>2, Part, Zenon
    <3> QED
      BY <3>1, <3>3, Zenon
  <2>5. \A j \in 1 .. 63 : all[first + j - 1] = map[j]
    <3> TAKE j \in 1 .. 63
    <3>1. /\ first + j - 1 \in 1 .. 65 * n + 1
          /\ first + j - 1 \in 4 .. 65 * n + 1
          /\ first + j - 1 - 1 = 65 * (k - 1) + 2 + j
      BY <1>2
    <3>2. all[first + j - 1] = laid[first + j - 1 - 1]
      <4> DEFINE i == first + j - 1
      <4>1. i \in 4 .. 65 * n + 1
        BY <3>1
      <4> HIDE DEF i
      <4>2. all[i] = laid[i - 1]
        BY <1>12, <4>1
      <4> QED
        BY <4>2 DEF i
    <3>3. laid[65 * (k - 1) + 2 + j] = map[j]
      BY <1>5, Zenon
    <3> QED
      BY <3>1, <3>2, <3>3, Zenon
  <2> HIDE DEF read, map, first
  <2>6. read = map
    <3>1. \A j \in 1 .. 63 : read[j] = map[j]
      BY <2>4, <2>5
    <3>2. \A i \in 1 .. Len(read) : read[i] = map[i]
      BY <2>4, <3>1, Zenon
    <3> QED
      <4>1. Len(read) = Len(map)
        BY <2>2, <2>4
      <4>2. read \in Seq(Bit) /\ map \in Seq(Bit)
        BY <2>2, <2>4
      <4> QED
        BY <3>2, <4>1, <4>2, SeqEqual
  <2> QED
    BY <2>1, <2>6 DEF map
<1>20. create_schc_ack_compound(last_win, windows, bitmaps) = ack
  BY DEF create_schc_ack_compound, ack, all, bits
<1> QED
  BY <1>13, <1>14, <1>15, <1>18, <1>19, <1>20

-----------------------------------------------------------------------------
(* A message on the air is one that was built of what its writer meant.    *)

RegularWritten ==
    \E w \in 0 .. 3, fcn \in 0 .. 62, p \in Seq(Byte) :
      /\ meant = [type |-> "regular", w |-> w, fcn |-> fcn, payload |-> p]
      /\ msg = create_regular_fragment(w, fcn, p)

All1Written ==
    \E w \in 0 .. 3, rcs \in RCSs, p \in Seq(Byte) :
      /\ meant = [type |-> "all_1", w |-> w, rcs |-> rcs, payload |-> p]
      /\ msg = create_all_1_fragment(w, rcs, p)

AckReqWritten ==
    \E w \in 0 .. 3 :
      /\ meant = [type |-> "ack_req", w |-> w]
      /\ msg = create_ack_request(w)

AbortWritten ==
    \E w \in 0 .. 3 :
      /\ meant = [type |-> "sender_abort", w |-> w]
      /\ msg = create_sender_abort(w)

AckWritten ==
    \E w \in 0 .. 3, c \in Bit, b \in Bitmap :
      /\ meant = [type |-> "ack", w |-> w, c |-> c, bitmap |-> b]
      /\ msg = create_schc_ack(w, c, b)

NoneMissingWritten ==
    \E w \in 0 .. 3 :
      /\ meant = [type |-> "ack", w |-> w, c |-> 1]
      /\ msg = <<Header(w, 32)>>

CompoundWritten ==
    \E last_win \in 0 .. 3, l \in Seq(0 .. 3), bitmaps \in [0 .. 3 -> Bitmap] :
      /\ l # <<>>
      /\ meant = [type |-> "compound_ack", windows |-> l,
                  bitmaps |-> [i \in DOMAIN l |-> bitmaps[l[i]]]]
      /\ msg = create_schc_ack_compound(last_win, l, bitmaps)

FragmentWritten ==
    RegularWritten \/ All1Written \/ AckReqWritten \/ AbortWritten

AnswerWritten == AckWritten \/ NoneMissingWritten \/ CompoundWritten

AsMeant ==
    /\ rule \in Rules
    /\ receiver \in Receivers
    /\ meant = Nothing \/ FragmentWritten \/ AnswerWritten

LEMMA ExchangeTyped ==
    /\ FCNs \subseteq 0 .. 62
    /\ AckBitmaps \subseteq Bitmap
    /\ CompoundBitmaps \subseteq Bitmap
    /\ WindowLists \subseteq Seq(0 .. 3) \ {<<>>}
BY ExchangeAssumption DEF ExchangeAssumption, Bitmap, windowSize

LEMMA AsMeantInitially == Init => AsMeant
BY DEF Init, AsMeant

LEMMA AsMeantStep == AsMeant /\ [Next]_vars => AsMeant'
<1> SUFFICES ASSUME AsMeant, [Next]_vars PROVE AsMeant'
  OBVIOUS
<1> USE DEF Write
<1>1. CASE SendRegular
  <2>1. RegularWritten'
    BY <1>1, ExchangeTyped, ExchangeAssumption
       DEF SendRegular, RegularWritten, ExchangeAssumption
  <2> QED
    BY <1>1, <2>1 DEF AsMeant, FragmentWritten, SendRegular
<1>2. CASE SendAll1
  <2>1. All1Written'
    BY <1>2, ExchangeAssumption DEF SendAll1, All1Written, ExchangeAssumption
  <2> QED
    BY <1>2, <2>1 DEF AsMeant, FragmentWritten, SendAll1
<1>3. CASE SendAckReq
  <2>1. AckReqWritten'
    BY <1>3 DEF SendAckReq, AckReqWritten
  <2> QED
    BY <1>3, <2>1 DEF AsMeant, FragmentWritten, SendAckReq
<1>4. CASE SendAbort
  <2>1. AbortWritten'
    BY <1>4 DEF SendAbort, AbortWritten
  <2> QED
    BY <1>4, <2>1 DEF AsMeant, FragmentWritten, SendAbort
<1>5. CASE SendAck
  <2>1. AckWritten'
    BY <1>5, ExchangeTyped DEF SendAck, AckWritten
  <2> QED
    BY <1>5, <2>1 DEF AsMeant, AnswerWritten, SendAck
<1>6. CASE SendCompound
  <2>1. PICK last_win \in 0 .. 3, l \in WindowLists,
             even \in CompoundBitmaps, odd \in CompoundBitmaps :
          /\ rule' = rule /\ receiver' = receiver
          /\ meant' = [type |-> "compound_ack", windows |-> l,
                       bitmaps |-> [i \in DOMAIN l |-> Alternating(even, odd)[l[i]]]]
          /\ msg' = create_schc_ack_compound(last_win, l, Alternating(even, odd))
    BY <1>6, Zenon DEF SendCompound
  <2>2. Alternating(even, odd) \in [0 .. 3 -> Bitmap]
    BY ExchangeTyped DEF Alternating
  <2>3. l \in Seq(0 .. 3) /\ l # <<>>
    BY ExchangeTyped
  <2>4. CompoundWritten'
    BY <2>1, <2>2, <2>3, Zenon DEF CompoundWritten
  <2> QED
    BY <2>1, <2>4 DEF AsMeant, AnswerWritten
<1>9. CASE SendNoneMissing
  <2>1. NoneMissingWritten'
    BY <1>9 DEF SendNoneMissing, NoneMissingWritten, create_schc_ack_compound
  <2> QED
    BY <1>9, <2>1 DEF AsMeant, AnswerWritten, SendNoneMissing
<1>7. CASE Read
  BY <1>7 DEF Read, AsMeant
<1>8. CASE UNCHANGED vars
  BY <1>8 DEF vars, AsMeant, FragmentWritten, AnswerWritten, RegularWritten,
              All1Written, AckReqWritten, AbortWritten, AckWritten,
              NoneMissingWritten, CompoundWritten
<1> QED
  BY <1>1, <1>2, <1>3, <1>4, <1>5, <1>6, <1>7, <1>8, <1>9 DEF Next

LEMMA AsMeantInvariance == Spec => []AsMeant
BY AsMeantInitially, AsMeantStep, PTL DEF Spec

-----------------------------------------------------------------------------
(* The fields of each message.                                             *)

LEMMA JoinedBytes ==
    ASSUME NEW s \in Seq(Byte), NEW t \in Seq(Byte)
    PROVE  /\ s \o t \in Seq(Byte)
           /\ Len(s \o t) = Len(s) + Len(t)
           /\ \A i \in 1 .. Len(s) : (s \o t)[i] = s[i]
           /\ \A i \in 1 .. Len(t) : (s \o t)[Len(s) + i] = t[i]
<1>1. Len(s) \in Nat /\ Len(t) \in Nat
  BY LenProperties
<1>2. /\ s \o t \in Seq(Byte)
      /\ Len(s \o t) = Len(s) + Len(t)
      /\ \A i \in 1 .. Len(s) + Len(t) :
           (s \o t)[i] = IF i <= Len(s) THEN s[i] ELSE t[i - Len(s)]
  BY ConcatProperties, Zenon
<1>3. \A i \in 1 .. Len(t) :
        /\ Len(s) + i \in 1 .. Len(s) + Len(t)
        /\ ~(Len(s) + i <= Len(s)) /\ Len(s) + i - Len(s) = i
  BY <1>1
<1>4. \A i \in 1 .. Len(s) : i \in 1 .. Len(s) + Len(t) /\ i <= Len(s)
  BY <1>1
<1> QED
  BY <1>2, <1>3, <1>4

Uint32 == 0 .. 256^4 - 1

BytesOf(rcs) == [i \in 1 .. 4 |-> (rcs \div 256^(4 - i)) % 256]
OfBytes(a, b, c, d) == ((a * 256 + b) * 256 + c) * 256 + d

(* The four bytes of an RCS give it back.                                  *)
LEMMA RcsKept ==
    ASSUME NEW rcs \in Uint32
    PROVE  LET four == BytesOf(rcs)
           IN  /\ four \in Seq(Byte) /\ Len(four) = 4
               /\ OfBytes(four[1], four[2], four[3], four[4]) = rcs
<1> USE DEF Uint32
<1> DEFINE four == [i \in 1 .. 4 |-> (rcs \div 256^(4 - i)) % 256]
<1>1. /\ 256^(4 - 1) = (256 * 256 * 256) /\ 256^(4 - 2) = (256 * 256)
      /\ 256^(4 - 3) = 256 /\ 256^(4 - 4) = 1
  BY SMT
<1>2. \A i \in 1 .. 4 : four[i] = (rcs \div 256^(4 - i)) % 256
  OBVIOUS
<1>3. /\ four[1] = (rcs \div 256^(4 - 1)) % 256
      /\ four[2] = (rcs \div 256^(4 - 2)) % 256
      /\ four[3] = (rcs \div 256^(4 - 3)) % 256
      /\ four[4] = (rcs \div 256^(4 - 4)) % 256
  BY <1>2, SMT
<1>4. four[1] = (rcs \div (256 * 256 * 256)) % 256
  BY <1>1, <1>3, SMT
<1>5. four[2] = (rcs \div (256 * 256)) % 256
  BY <1>1, <1>3, SMT
<1>6. four[3] = (rcs \div 256) % 256
  BY <1>1, <1>3, SMT
<1>7. four[4] = rcs % 256
  BY <1>1, <1>3, SMT
<1>8. PICK a, b, c, d \in Nat :
        /\ a = (rcs \div (256 * 256 * 256)) % 256 /\ b = (rcs \div (256 * 256)) % 256
        /\ c = (rcs \div 256) % 256 /\ d = rcs % 256
  BY SMT
<1>9. /\ a \in 0 .. 255 /\ b \in 0 .. 255 /\ c \in 0 .. 255 /\ d \in 0 .. 255
      /\ OfBytes(a, b, c, d) = rcs
  <2>1. PICK r, s, t \in Nat :
          /\ r = rcs \div 256 /\ s = rcs \div (256 * 256)
          /\ t = rcs \div (256 * 256 * 256)
    BY SMT
  <2>2. rcs = 256 * r + d /\ d \in 0 .. 255
    BY <1>8, <2>1, SMT
  <2>3. r = 256 * s + c /\ c \in 0 .. 255
    BY <1>8, <2>1, SMT
  <2>4. s = 256 * t + b /\ b \in 0 .. 255
    BY <1>8, <2>1, SMT
  <2>5. t = a /\ a \in 0 .. 255
    BY <1>8, <2>1, SMT
  <2> QED
    BY <2>2, <2>3, <2>4, <2>5, SMT DEF OfBytes
<1>10. four = <<four[1], four[2], four[3], four[4]>>
  BY SMT
<1>11. four[1] = a /\ four[2] = b /\ four[3] = c /\ four[4] = d
  BY <1>4, <1>5, <1>6, <1>7, <1>8, SMT
<1>12. <<a, b, c, d>> \in Seq(Byte) /\ Len(<<a, b, c, d>>) = 4
  BY <1>9, SMT DEF Byte
<1>13. four = <<a, b, c, d>>
  BY <1>10, <1>11, Zenon
<1> HIDE DEF four
<1>14. /\ four \in Seq(Byte) /\ Len(four) = 4
       /\ OfBytes(four[1], four[2], four[3], four[4]) = rcs
  BY <1>9, <1>11, <1>12, <1>13, Zenon
<1> QED
  BY <1>14, Zenon DEF four, BytesOf

(* The four bytes of any RCS.                                              *)
LEMMA RcsBytes ==
    ASSUME NEW rcs \in Nat
    PROVE  BytesOf(rcs) \in Seq(Byte) /\ Len(BytesOf(rcs)) = 4
<1> DEFINE four == [i \in 1 .. 4 |-> (rcs \div 256^(4 - i)) % 256]
<1>1. \A i \in 1 .. 4 : (rcs \div 256^(4 - i)) % 256 \in Byte
  <2> TAKE i \in 1 .. 4
  <2>1. i = 1 \/ i = 2 \/ i = 3 \/ i = 4
    OBVIOUS
  <2> QED
    BY <2>1, SMT DEF Byte
<1> QED
  BY <1>1 DEF BytesOf

(* The rest of a message behind its first byte.                            *)
LEMMA PayloadBehind ==
    ASSUME NEW front \in Seq(Byte), NEW p \in Seq(Byte),
           NEW first, first = Len(front) + 1
    PROVE  SubSeq(front \o p, first, Len(front \o p)) = p
<1> PICK all : all = front \o p
  OBVIOUS
<1>1. Len(front) \in Nat /\ Len(p) \in Nat
  BY LenProperties
<1>2. /\ all \in Seq(Byte) /\ Len(all) = Len(front) + Len(p)
      /\ \A i \in 1 .. Len(p) : all[Len(front) + i] = p[i]
  <2>1. /\ front \o p \in Seq(Byte)
        /\ Len(front \o p) = Len(front) + Len(p)
        /\ \A i \in 1 .. Len(p) : (front \o p)[Len(front) + i] = p[i]
    BY JoinedBytes, Zenon
  <2> QED
    BY <2>1
<1> PICK rest : rest = SubSeq(all, first, Len(all))
  OBVIOUS
<1>3. \A i \in first .. Len(all) : all[i] \in Byte
  <2>1. \A i \in first .. Len(all) : i \in 1 .. Len(all)
    BY <1>1, <1>2
  <2> QED
    BY <1>2, <2>1, ElementOfSeq
<1>4. /\ rest \in Seq(Byte)
      /\ Len(rest) = IF first <= Len(all) THEN Len(all) - first + 1 ELSE 0
      /\ \A i \in 1 .. Len(all) - first + 1 : rest[i] = all[first + i - 1]
  <2>1. first \in Int /\ Len(all) \in Int
    BY <1>1, <1>2
  <2> QED
    BY <1>3, <2>1, SubSeqProperties
<1>5. Len(rest) = Len(p)
  BY <1>1, <1>2, <1>4
<1>6. \A i \in 1 .. Len(rest) : rest[i] = p[i]
  <2> TAKE i \in 1 .. Len(rest)
  <2>1. /\ i \in 1 .. Len(p) /\ i \in Nat
        /\ Len(all) - first + 1 = Len(p)
    BY <1>1, <1>2, <1>5
  <2>3. first + i - 1 = Len(front) + i
    BY <1>1, <2>1
  <2> QED
    BY <1>2, <1>4, <2>1, <2>3
<1> QED
  BY <1>4, <1>5, <1>6, SeqEqual

LEMMA RegularRead ==
    ASSUME NEW w \in 0 .. 3, NEW fcn \in 0 .. 62, NEW p \in Seq(Byte),
           NEW m \in {create_regular_fragment(w, fcn, p)}
    PROVE  /\ W(m) = w /\ FCN(m) = fcn
           /\ Len(m) = 1 + Len(p) /\ Len(p) \in Nat
           /\ DecodedPayload(m) = p
<1> PICK h : h = Header(w, fcn)
  OBVIOUS
<1>1. m = <<h>> \o p
  BY DEF create_regular_fragment
<1>2. Len(m) = 1 + Len(p) /\ W(m) = w /\ FCN(m) = fcn /\ Len(p) \in Nat
  <2>1. fcn \in 0 .. 63 /\ Len(p) \in Nat
    BY LenProperties
  <2>2. /\ Len(<<Header(w, fcn)>> \o p) = 1 + Len(p)
        /\ W(<<Header(w, fcn)>> \o p) = w
        /\ FCN(<<Header(w, fcn)>> \o p) = fcn
    BY <2>1, HeaderRead, Zenon
  <2>3. m = <<Header(w, fcn)>> \o p
    BY DEF create_regular_fragment
  <2> QED
    BY <2>1, <2>2, <2>3
<1>3. <<h>> \in Seq(Byte) /\ Len(<<h>>) = 1
  <2>1. fcn \in 0 .. 63
    OBVIOUS
  <2>2. h \in Byte
    BY <2>1, HeaderHolds
  <2> QED
    BY <2>2
<1>4. SubSeq(m, 2, Len(m)) = p
  BY <1>1, <1>3, PayloadBehind
<1>5. DecodedPayload(m) = SubSeq(m, 2, Len(m))
  BY <1>2 DEF DecodedPayload, All1FCN
<1> QED
  BY <1>2, <1>4, <1>5

LEMMA All1Read ==
    ASSUME NEW w \in 0 .. 3, NEW rcs \in Nat, NEW p \in Seq(Byte),
           NEW m \in {create_all_1_fragment(w, rcs, p)}
    PROVE  /\ W(m) = w /\ FCN(m) = 63
           /\ Len(m) = 5 + Len(p) /\ Len(p) \in Nat
           /\ DecodedPayload(m) = p
           /\ rcs \in Uint32 => DecodedRcs(m) = rcs
<1> DEFINE h == Header(w, 63)
           four == BytesOf(rcs)
           one == <<h>>
           front == one \o four
<1>1. m = front \o p
  BY Zenon DEF create_all_1_fragment, All1FCN, BytesOf
<1>2. four \in Seq(Byte) /\ Len(four) = 4
  BY RcsBytes, Zenon
<1>3. h \in Byte /\ h \div 64 = w /\ h % 64 = 63
  <2>1. 63 \in 0 .. 63
    OBVIOUS
  <2> QED
    BY <2>1, HeaderHolds, Zenon
<1> HIDE DEF h, four
<1>4. one \in Seq(Byte) /\ Len(one) = 1 /\ one[1] = h
  BY <1>3
<1> HIDE DEF one
<1>5. /\ front \in Seq(Byte) /\ Len(front) = 5 /\ front[1] = h
      /\ front[2] = four[1] /\ front[3] = four[2]
      /\ front[4] = four[3] /\ front[5] = four[4]
  <2>1. /\ one \o four \in Seq(Byte)
        /\ Len(one \o four) = Len(one) + Len(four)
        /\ \A i \in 1 .. Len(one) : (one \o four)[i] = one[i]
        /\ \A i \in 1 .. Len(four) : (one \o four)[Len(one) + i] = four[i]
    BY <1>2, <1>4, JoinedBytes, Zenon
  <2>2. /\ front \in Seq(Byte) /\ Len(front) = 5
        /\ \A i \in 1 .. 1 : front[i] = one[i]
        /\ \A i \in 1 .. 4 : front[1 + i] = four[i]
    BY <1>2, <1>4, <2>1
  <2> HIDE DEF front
  <2> QED
    BY <1>4, <2>2
<1> HIDE DEF front
<1>6. /\ m \in Seq(Byte) /\ Len(m) = 5 + Len(p) /\ Len(p) \in Nat
      /\ \A i \in 1 .. 5 : m[i] = front[i]
  <2>1. /\ front \o p \in Seq(Byte)
        /\ Len(front \o p) = Len(front) + Len(p)
        /\ \A i \in 1 .. Len(front) : (front \o p)[i] = front[i]
    <3>1. front \in Seq(Byte)
      BY <1>5
    <3> QED
      <4>1. \A x \in Seq(Byte) :
              /\ x \o p \in Seq(Byte)
              /\ Len(x \o p) = Len(x) + Len(p)
              /\ \A i \in 1 .. Len(x) : (x \o p)[i] = x[i]
        BY JoinedBytes
      <4> QED
        BY <3>1, <4>1, Zenon
  <2> QED
    BY <1>1, <1>5, <2>1, LenProperties
<1>7. W(m) = w /\ FCN(m) = 63
  <2>1. m[1] = h
    BY <1>5, <1>6
  <2> QED
    BY <1>3, <2>1, Zenon DEF W, FCN
<1>8. SubSeq(m, 6, Len(m)) = p
  <2>1. 6 = Len(front) + 1 /\ front \in Seq(Byte)
    BY <1>5
  <2>2. SubSeq(front \o p, 6, Len(front \o p)) = p
    BY <2>1, PayloadBehind
  <2> QED
    BY <1>1, <2>2, Zenon
<1>9. DecodedPayload(m) = SubSeq(m, 6, Len(m))
  BY <1>7 DEF DecodedPayload, All1FCN
<1>10. ASSUME rcs \in Uint32 PROVE DecodedRcs(m) = rcs
  <2>1. OfBytes(four[1], four[2], four[3], four[4]) = rcs
    BY <1>10, RcsKept, Zenon DEF four
  <2>2. /\ m[2] = four[1] /\ m[3] = four[2]
        /\ m[4] = four[3] /\ m[5] = four[4]
    BY <1>5, <1>6
  <2>3. DecodedRcs(m) = OfBytes(m[2], m[3], m[4], m[5])
    BY DEF DecodedRcs, OfBytes
  <2> QED
    BY <2>1, <2>2, <2>3
<1>11. DecodedPayload(m) = p
  BY <1>8, <1>9, Zenon
<1> QED
  BY <1>6, <1>7, <1>10, <1>11, Zenon

LEMMA NoneMissingRead ==
    ASSUME NEW w \in 0 .. 3, NEW m \in {<<Header(w, 32)>>}
    PROVE  Len(m) = 1 /\ W(m) = w /\ C(m) = 1
<1>1. Len(m) = 1 /\ m[1] = Header(w, 32)
  OBVIOUS
<1> QED
  BY <1>1 DEF W, C, Header

-----------------------------------------------------------------------------
(* What each reader makes of a message.                                    *)

LEMMA Readers ==
    /\ rule \in Rules => get_msg_type(AckReader, rule, msg) = AckType(msg)
    /\ rule \in Rules /\ receiver # "AckOnError" =>
         get_msg_type(FragmentReader, rule, msg) = FragmentType(msg)
BY DEF Rules, AckReader, FragmentReader, get_msg_type, ReadsFragments

LEMMA RegularTold ==
    RegularWritten =>
      /\ meant.type = "regular"
      /\ meant.payload # <<>> => FragmentType(msg) = "regular"
      /\ W(msg) = meant.w /\ FCN(msg) = meant.fcn
      /\ DecodedPayload(msg) = meant.payload
<1> SUFFICES ASSUME RegularWritten
             PROVE  /\ meant.type = "regular"
                    /\ meant.payload # <<>> => FragmentType(msg) = "regular"
                    /\ W(msg) = meant.w /\ FCN(msg) = meant.fcn
                    /\ DecodedPayload(msg) = meant.payload
  OBVIOUS
<1> PICK w \in 0 .. 3, fcn \in 0 .. 62, p \in Seq(Byte) :
        /\ meant = [type |-> "regular", w |-> w, fcn |-> fcn, payload |-> p]
        /\ msg = create_regular_fragment(w, fcn, p)
  BY DEF RegularWritten
<1>1. /\ W(msg) = w /\ FCN(msg) = fcn
      /\ Len(msg) = 1 + Len(p) /\ Len(p) \in Nat
      /\ DecodedPayload(msg) = p
  BY RegularRead
<1>2. /\ meant.type = "regular" /\ meant.w = w
      /\ meant.fcn = fcn /\ meant.payload = p
  OBVIOUS
<1>3. p # <<>> => Len(p) > 0
  BY <1>1, EmptySeq
<1>4. p # <<>> => FragmentType(msg) = "regular"
  <2> SUFFICES ASSUME p # <<>> PROVE FragmentType(msg) = "regular"
    OBVIOUS
  <2>1. Len(msg) > 1 /\ Len(msg) # 1
    BY <1>1, <1>3
  <2>2. FCN(msg) # 63
    BY <1>1
  <2> QED
    BY <2>1, <2>2 DEF FragmentType, All1FCN
<1> QED
  BY <1>1, <1>2, <1>4

LEMMA All1Told ==
    All1Written =>
      /\ meant.type = "all_1"
      /\ FragmentType(msg) = "all_1"
      /\ W(msg) = meant.w
      /\ DecodedPayload(msg) = meant.payload
      /\ RCSs \subseteq Uint32 => DecodedRcs(msg) = meant.rcs
<1> SUFFICES ASSUME All1Written
             PROVE  /\ meant.type = "all_1"
                    /\ FragmentType(msg) = "all_1"
                    /\ W(msg) = meant.w
                    /\ DecodedPayload(msg) = meant.payload
                    /\ RCSs \subseteq Uint32 => DecodedRcs(msg) = meant.rcs
  OBVIOUS
<1> PICK w \in 0 .. 3, rcs \in RCSs, p \in Seq(Byte) :
        /\ meant = [type |-> "all_1", w |-> w, rcs |-> rcs, payload |-> p]
        /\ msg = create_all_1_fragment(w, rcs, p)
  BY DEF All1Written
<1>1. rcs \in Nat
  BY ExchangeAssumption DEF ExchangeAssumption
<1>2. /\ W(msg) = w /\ FCN(msg) = 63
      /\ Len(msg) = 5 + Len(p) /\ Len(p) \in Nat
      /\ DecodedPayload(msg) = p
      /\ rcs \in Uint32 => DecodedRcs(msg) = rcs
  BY <1>1, All1Read
<1>3. /\ meant.type = "all_1" /\ meant.w = w
      /\ meant.rcs = rcs /\ meant.payload = p
  OBVIOUS
<1>4. FragmentType(msg) = "all_1"
  BY <1>2 DEF FragmentType, All1FCN
<1>5. RCSs \subseteq Uint32 => rcs \in Uint32
  BY Zenon
<1> QED
  BY <1>2, <1>3, <1>4, <1>5, Zenon

LEMMA AckReqTold ==
    AckReqWritten =>
      meant.type = "ack_req" /\ FragmentType(msg) = "ack_req" /\ W(msg) = meant.w
<1> SUFFICES ASSUME NEW w \in 0 .. 3,
                    meant = [type |-> "ack_req", w |-> w],
                    msg = <<Header(w, 0)>>
             PROVE  /\ meant.type = "ack_req" /\ FragmentType(msg) = "ack_req"
                    /\ W(msg) = meant.w
  BY DEF AckReqWritten, create_ack_request
<1>1. Len(msg) = 1 /\ W(msg) = w /\ FCN(msg) = 0
  <2>1. 0 \in 0 .. 63
    OBVIOUS
  <2> QED
    BY <2>1, HeaderAlone
<1> QED
  BY <1>1 DEF FragmentType, All1FCN

LEMMA AbortTold ==
    AbortWritten =>
      /\ meant.type = "sender_abort" /\ FragmentType(msg) = "sender_abort"
      /\ W(msg) = meant.w
<1> SUFFICES ASSUME NEW w \in 0 .. 3,
                    meant = [type |-> "sender_abort", w |-> w],
                    msg = <<Header(w, 63)>>
             PROVE  /\ meant.type = "sender_abort"
                    /\ FragmentType(msg) = "sender_abort"
                    /\ W(msg) = meant.w
  BY DEF AbortWritten, create_sender_abort, All1FCN
<1>1. Len(msg) = 1 /\ W(msg) = w /\ FCN(msg) = 63
  <2>1. 63 \in 0 .. 63
    OBVIOUS
  <2> QED
    BY <2>1, HeaderAlone
<1> QED
  BY <1>1 DEF FragmentType, All1FCN

LEMMA NoneMissingTold ==
    NoneMissingWritten =>
      /\ meant.type = "ack" /\ meant.c = 1
      /\ AckType(msg) = "ack" /\ W(msg) = meant.w /\ C(msg) = 1
<1> SUFFICES ASSUME NEW w \in 0 .. 3,
                    meant = [type |-> "ack", w |-> w, c |-> 1],
                    msg = <<Header(w, 32)>>
             PROVE  /\ meant.type = "ack" /\ meant.c = 1
                    /\ AckType(msg) = "ack" /\ W(msg) = meant.w /\ C(msg) = 1
  BY DEF NoneMissingWritten
<1>1. Len(msg) = 1 /\ W(msg) = w /\ C(msg) = 1
  BY NoneMissingRead
<1> QED
  BY <1>1 DEF AckType

(* The bits of a window's ACK say what is missing in the window.           *)
BitsSay(bitmap) ==
    \A i \in 1 .. windowSize :
        LET bits == DecodedBits(msg)
        IN  bitmap[i] = IF i \in DOMAIN bits THEN bits[i] ELSE 1

LEMMA AckTold ==
    AckWritten =>
      /\ meant.type = "ack"
      /\ AckType(msg) = "ack" /\ W(msg) = meant.w /\ C(msg) = meant.c
      /\ meant.c = 0 => BitsSay(meant.bitmap)
<1> SUFFICES ASSUME NEW w \in 0 .. 3, NEW c \in Bit, NEW b \in Bitmap,
                    meant = [type |-> "ack", w |-> w, c |-> c, bitmap |-> b],
                    msg = create_schc_ack(w, c, b)
             PROVE  /\ meant.type = "ack"
                    /\ AckType(msg) = "ack"
                    /\ W(msg) = meant.w /\ C(msg) = meant.c
                    /\ meant.c = 0 => BitsSay(meant.bitmap)
  BY DEF AckWritten
<1>1. /\ meant.type = "ack" /\ meant.w = w
      /\ meant.c = c /\ meant.bitmap = b
  OBVIOUS
<1>2. CASE c = 1
  <2>1. msg = <<Header(w, 32)>>
    BY <1>2 DEF create_schc_ack
  <2>2. Len(msg) = 1 /\ W(msg) = w /\ C(msg) = 1
    BY <2>1, NoneMissingRead
  <2> QED
    BY <1>1, <1>2, <2>2 DEF AckType
<1>3. CASE c = 0
  <2>1. b \in Seq(Bit) /\ Len(b) = windowSize
    BY DEF Bitmap
  <2>2. msg = create_schc_ack(w, 0, b)
    BY <1>3
  <2>3. /\ Len(msg) \in Nat /\ Len(msg) <= 9 /\ W(msg) = w /\ C(msg) = 0
        /\ BitsSay(b)
    BY <2>1, <2>2, AckHeld DEF BitsSay
  <2>4. AckType(msg) = "ack"
    BY <2>3 DEF AckType
  <2> QED
    BY <1>1, <1>3, <2>3, <2>4
<1> QED
  BY <1>2, <1>3 DEF Bit

LEMMA CompoundTold ==
    CompoundWritten =>
      /\ meant.type = "compound_ack"
      /\ AckType(msg) =
           IF Len(meant.windows) = 1 THEN "ack" ELSE "compound_ack"
      /\ DecodedWindows(msg) = meant.windows
      /\ \A i \in DOMAIN meant.windows :
           DecodedBitmap(msg, i) = meant.bitmaps[i]
<1> SUFFICES ASSUME NEW last_win \in 0 .. 3, NEW l \in Seq(0 .. 3), l # <<>>,
                    NEW bitmaps \in [0 .. 3 -> Bitmap],
                    meant = [type |-> "compound_ack", windows |-> l,
                             bitmaps |-> [i \in DOMAIN l |-> bitmaps[l[i]]]],
                    msg = create_schc_ack_compound(last_win, l, bitmaps)
             PROVE  /\ meant.type = "compound_ack"
                    /\ AckType(msg) =
                         IF Len(meant.windows) = 1 THEN "ack" ELSE "compound_ack"
                    /\ DecodedWindows(msg) = meant.windows
                    /\ \A i \in DOMAIN meant.windows :
                         DecodedBitmap(msg, i) = meant.bitmaps[i]
  BY DEF CompoundWritten
<1>1. /\ Len(msg) \in Nat
      /\ Len(msg) <= 9 <=> Len(l) = 1
      /\ C(msg) = 0
      /\ DecodedWindows(msg) = l
      /\ \A k \in 1 .. Len(l) : DecodedBitmap(msg, k) = bitmaps[l[k]]
  BY CompoundHeld
<1>2. /\ meant.type = "compound_ack" /\ meant.windows = l
      /\ meant.bitmaps = [i \in DOMAIN l |-> bitmaps[l[i]]]
  OBVIOUS
<1>3. DOMAIN l = 1 .. Len(l)
  BY LenProperties
<1>4. AckType(msg) = IF Len(l) = 1 THEN "ack" ELSE "compound_ack"
  BY <1>1 DEF AckType
<1>5. \A i \in DOMAIN l : DecodedBitmap(msg, i) = meant.bitmaps[i]
  BY <1>1, <1>2, <1>3
<1> QED
  BY <1>1, <1>2, <1>4, <1>5

LEMMA TypesTold ==
    /\ FragmentWritten => meant.type \in FragmentTypes
    /\ AnswerWritten => meant.type \in {"ack", "compound_ack"}
    /\ meant = Nothing => meant.type = "nothing"
<1>1. FragmentWritten => meant.type \in FragmentTypes
  BY RegularTold, All1Told, AckReqTold, AbortTold, Zenon
     DEF FragmentWritten, FragmentTypes
<1>2. AnswerWritten => meant.type \in {"ack", "compound_ack"}
  BY AckTold, NoneMissingTold, CompoundTold, Zenon DEF AnswerWritten
<1> QED
  BY <1>1, <1>2 DEF Nothing

-----------------------------------------------------------------------------
(* The machines of ARQ-FEC take every fragment of their sender for what it *)
(* is (FragmentsToldApart), whatever its payload; the ACK-on-Error         *)
(* receiver reads with the protocol of a node and is left out.             *)
THEOREM FragmentsAreTold ==
    ASSUME "AckOnError" \notin Receivers
    PROVE  Spec => []FragmentsToldApart
<1>1. AsMeant => FragmentsToldApart
  <2> SUFFICES ASSUME AsMeant, meant.type \in FragmentTypes,
                      ~(meant.type = "regular" /\ meant.payload = <<>>)
               PROVE  get_msg_type(FragmentReader, rule, msg) = meant.type
    BY DEF FragmentsToldApart
  <2>1. get_msg_type(FragmentReader, rule, msg) = FragmentType(msg)
    BY Readers DEF AsMeant
  <2>2. ~AnswerWritten /\ meant # Nothing
    BY TypesTold DEF FragmentTypes
  <2>3. FragmentWritten
    BY <2>2 DEF AsMeant
  <2> QED
    BY <2>1, <2>3, RegularTold, All1Told, AckReqTold, AbortTold
       DEF FragmentWritten
<1> QED
  BY <1>1, AsMeantInvariance, PTL

(* The sender takes every answer of its receiver for what it is, but for a *)
(* compound ACK of one window (AcksToldApart): no cut of a bitmap makes an *)
(* ACK as long as two windows are.                                         *)
THEOREM AcksAreTold == Spec => []AcksToldApart
<1>1. AsMeant => AcksToldApart
  <2> SUFFICES ASSUME AsMeant, meant.type \in AckTypes
               PROVE  get_msg_type(AckReader, rule, msg) =
                        IF meant.type = "compound_ack" /\ Len(meant.windows) = 1
                          THEN "ack" ELSE meant.type
    BY DEF AcksToldApart
  <2>1. get_msg_type(AckReader, rule, msg) = AckType(msg)
    BY Readers DEF AsMeant
  <2>2. ~FragmentWritten /\ meant # Nothing
    BY TypesTold DEF FragmentTypes, AckTypes
  <2>3. AnswerWritten
    BY <2>2 DEF AsMeant
  <2> QED
    BY <2>1, <2>3, AckTold, NoneMissingTold, CompoundTold DEF AnswerWritten
<1> QED
  BY <1>1, AsMeantInvariance, PTL

(* W, FCN, RCS, payload and C come off the air as they were meant          *)
(* (FieldsSurvive), for every check sequence of 32 bits.                   *)
THEOREM FieldsAreKept ==
    ASSUME RCSs \subseteq Uint32
    PROVE  Spec => []FieldsSurvive
<1>1. AsMeant => FieldsSurvive
  <2> SUFFICES ASSUME AsMeant PROVE FieldsSurvive
    OBVIOUS
  <2>1. CASE RegularWritten
    BY <2>1, RegularTold, Zenon DEF FieldsSurvive
  <2>2. CASE All1Written
    BY <2>2, All1Told, Zenon DEF FieldsSurvive
  <2>3. CASE AckReqWritten
    BY <2>3, AckReqTold, Zenon DEF FieldsSurvive
  <2>4. CASE AbortWritten
    BY <2>4, AbortTold, Zenon DEF FieldsSurvive
  <2>5. CASE AckWritten
    BY <2>5, AckTold, Zenon DEF FieldsSurvive
  <2>6. CASE NoneMissingWritten
    BY <2>6, NoneMissingTold, Zenon DEF FieldsSurvive
  <2>7. CASE CompoundWritten
    BY <2>7, CompoundTold, Zenon DEF FieldsSurvive
  <2>8. CASE meant = Nothing
    BY <2>8 DEF FieldsSurvive, Nothing
  <2> QED
    BY <2>1, <2>2, <2>3, <2>4, <2>5, <2>6, <2>7, <2>8
       DEF AsMeant, FragmentWritten, AnswerWritten
<1> QED
  BY <1>1, AsMeantInvariance, PTL

(* Every bitmap comes off the air as it was meant, and every list of       *)
(* windows with it (BitmapsSurvive): what the cut takes away and what the  *)
(* padding adds says that no tile is missing, and is never read as one     *)
(* window more.                                                            *)
THEOREM BitmapsAreKept == Spec => []BitmapsSurvive
<1>1. AsMeant => BitmapsSurvive
  <2> SUFFICES ASSUME AsMeant PROVE BitmapsSurvive
    OBVIOUS
  <2>1. CASE AckWritten
    <3>1. meant.type = "ack" /\ (meant.c = 0 => BitsSay(meant.bitmap))
      BY <2>1, AckTold
    <3> QED
      BY <3>1 DEF BitmapsSurvive, BitsSay
  <2>2. CASE NoneMissingWritten
    BY <2>2, NoneMissingTold DEF BitmapsSurvive
  <2>3. CASE CompoundWritten
    BY <2>3, CompoundTold, Zenon DEF BitmapsSurvive
  <2>4. CASE FragmentWritten \/ meant = Nothing
    <3>1. meant.type \notin {"ack", "compound_ack"}
      BY <2>4, TypesTold DEF FragmentTypes
    <3> QED
      BY <3>1 DEF BitmapsSurvive
  <2> QED
    BY <2>1, <2>2, <2>3, <2>4 DEF AsMeant, AnswerWritten
<1> QED
  BY <1>1, AsMeantInvariance, PTL

=============================================================================
