--------------------------- MODULE FileProxyProofs ---------------------------
(***************************************************************************)
(* Proofs about FileProxy, for keys of every length, any number of files,  *)
(* links and browsers, any clock and any lifetime: the encoding of links,  *)
(* the types, and the four properties of a link's life.                    *)
(***************************************************************************)
EXTENDS FileProxy, SequenceTheorems, TLAPS

Char == 0..66
Sextet == 0..63

(* How many characters a text of n bytes takes.                            *)
DigitCount(n) == (8 * n + 5) \div 6

-----------------------------------------------------------------------------
(* Arithmetic.                                                             *)
LEMMA SplitByThree ==
  ASSUME NEW n \in Nat
  PROVE  \E q \in Nat, r \in 0..2 : n = 3 * q + r
<1> DEFINE q == n \div 3
           r == n % 3
<1>1. q \in Nat /\ r \in 0..2 /\ n = 3 * q + r
  OBVIOUS
<1> QED BY <1>1

LEMMA SplitByFour ==
  ASSUME NEW n \in Nat
  PROVE  \E q \in Nat, r \in 0..3 : n = 4 * q + r
<1> DEFINE q == n \div 4
           r == n % 4
<1>1. q \in Nat /\ r \in 0..3 /\ n = 4 * q + r
  OBVIOUS
<1> QED BY <1>1

(* How many characters a text takes.                                       *)
LEMMA DigitCounts ==
  ASSUME NEW q \in Nat
  PROVE  /\ DigitCount(3 * q) = 4 * q
         /\ DigitCount(3 * q + 1) = 4 * q + 2
         /\ DigitCount(3 * q + 2) = 4 * q + 3
BY DEF DigitCount

LEMMA DigitCountProperties ==
  ASSUME NEW n \in Nat
  PROVE  /\ DigitCount(n) \in Nat
         /\ DigitCount(n) % 4 # 1
         /\ (3 * DigitCount(n)) \div 4 = n
<1>1. PICK q \in Nat, r \in 0..2 : n = 3 * q + r
  BY SplitByThree
<1>2. CASE r = 0
  BY <1>1, <1>2, DigitCounts
<1>3. CASE r = 1
  BY <1>1, <1>3, DigitCounts
<1>4. CASE r = 2
  BY <1>1, <1>4, DigitCounts
<1> QED BY <1>2, <1>3, <1>4

(* Four sextets hold three bytes, and those that are missing leave zeros.  *)
LEMMA SextetsType ==
  ASSUME NEW a \in Byte, NEW b \in Byte, NEW c \in Byte, NEW k \in 1..4
  PROVE  Sextets(a, b, c)[k] \in Sextet
<1>1. /\ a \div 4 \in Sextet
      /\ 16 * (a % 4) + b \div 16 \in Sextet
      /\ 4 * (b % 16) + c \div 64 \in Sextet
      /\ c % 64 \in Sextet
  BY DEF Byte, Sextet
<1>2. k = 1 \/ k = 2 \/ k = 3 \/ k = 4
  OBVIOUS
<1> QED BY <1>1, <1>2 DEF Sextets

LEMMA ZeroTails ==
  ASSUME NEW a, NEW b
  PROVE  /\ \A k \in 1..4 : Sextets(0, 0, 0)[k] = 0
         /\ \A k \in 3..4 : Sextets(a, 0, 0)[k] = 0
         /\ Sextets(a, b, 0)[4] = 0
<1>1. 0 \div 4 = 0 /\ 0 % 4 = 0 /\ 0 \div 16 = 0 /\ 0 % 16 = 0
      /\ 0 \div 64 = 0 /\ 0 % 64 = 0
  OBVIOUS
<1>2. /\ \A k \in 1..4 : k = 1 \/ k = 2 \/ k = 3 \/ k = 4
      /\ \A k \in 3..4 : k = 3 \/ k = 4
  OBVIOUS
<1> QED BY <1>1, <1>2 DEF Sextets

LEMMA OctetsOfSextets ==
  ASSUME NEW a \in Byte, NEW b \in Byte, NEW c \in Byte,
         NEW w, w = Sextets(a, b, c)
  PROVE  Octets(w[1], w[2], w[3], w[4]) = <<a, b, c>>
<1>1. /\ w[1] = a \div 4
      /\ w[2] = 16 * (a % 4) + b \div 16
      /\ w[3] = 4 * (b % 16) + c \div 64
      /\ w[4] = c % 64
  BY DEF Sextets
<1>2. 4 * w[1] + w[2] \div 16 = a
  BY <1>1 DEF Byte
<1>3. 16 * (w[2] % 16) + w[3] \div 4 = b
  BY <1>1 DEF Byte
<1>4. 64 * (w[3] % 4) + w[4] = c
  BY <1>1 DEF Byte
<1> QED BY <1>2, <1>3, <1>4 DEF Octets

(* The bytes of a text, those that fill up its last group included.        *)
LEMMA AtType ==
  ASSUME NEW s \in Seq(Byte), NEW n \in Nat \ {0}
  PROVE  At(s, n) \in Byte
BY ElementOfSeq, LenProperties DEF At, Byte

(* A text becomes so many characters of six bits.                          *)
LEMMA DigitsType ==
  ASSUME NEW s \in Seq(Byte)
  PROVE  /\ Digits(s) \in Seq(Sextet)
         /\ Len(Digits(s)) = DigitCount(Len(s))
         /\ \A g \in Nat, k \in 1..4 : 4 * g + k <= DigitCount(Len(s)) =>
              Digits(s)[4 * g + k] =
                Sextets(At(s, 3 * g + 1), At(s, 3 * g + 2), At(s, 3 * g + 3))[k]
<1> DEFINE Group(g) == Sextets(At(s, 3 * g + 1), At(s, 3 * g + 2), At(s, 3 * g + 3))
           digit(i) == Group((i - 1) \div 4)[((i - 1) % 4) + 1]
           N == DigitCount(Len(s))
<1>1. Len(s) \in Nat /\ N \in Nat
  BY LenProperties, DigitCountProperties
<1>2. Digits(s) = [i \in 1..N |-> digit(i)]
  BY DEF Digits, DigitCount
<1>3. ASSUME NEW g \in Nat, NEW k \in 1..4 PROVE Group(g)[k] \in Sextet
  <2>1. /\ At(s, 3 * g + 1) \in Byte
        /\ At(s, 3 * g + 2) \in Byte
        /\ At(s, 3 * g + 3) \in Byte
    BY AtType
  <2> QED BY <2>1, SextetsType
<1>4. ASSUME NEW i \in 1..N PROVE digit(i) \in Sextet
  <2>1. (i - 1) \div 4 \in Nat /\ ((i - 1) % 4) + 1 \in 1..4
    BY <1>1
  <2> QED BY <1>3, <2>1
<1>5. ASSUME NEW g \in Nat, NEW k \in 1..4, 4 * g + k <= N
      PROVE  4 * g + k \in 1..N /\ digit(4 * g + k) = Group(g)[k]
  <2>1. 4 * g + k \in 1..N
    BY <1>1, <1>5
  <2>2. (4 * g + k - 1) \div 4 = g /\ ((4 * g + k - 1) % 4) + 1 = k
    OBVIOUS
  <2> QED BY <2>1, <2>2
<1> HIDE DEF Group, digit, N
<1>6. Digits(s) \in Seq(Sextet) /\ Len(Digits(s)) = N
  BY <1>1, <1>2, <1>4
<1>7. \A g \in Nat, k \in 1..4 : 4 * g + k <= N => Digits(s)[4 * g + k] = Group(g)[k]
  BY <1>2, <1>5
<1> QED BY <1>6, <1>7 DEF Group, N

(* Read back in groups of four, whether or not characters are missing.     *)
LEMMA GroupOfDigits ==
  ASSUME NEW s \in Seq(Byte), NEW g \in Nat, NEW k \in 1..4
  PROVE  At(Digits(s), 4 * g + k) =
           Sextets(At(s, 3 * g + 1), At(s, 3 * g + 2), At(s, 3 * g + 3))[k]
<1> DEFINE N == DigitCount(Len(s))
<1>1. Len(s) \in Nat /\ N \in Nat /\ Len(Digits(s)) = N
  BY LenProperties, DigitCountProperties, DigitsType
<1>2. CASE 4 * g + k <= N
  BY <1>1, <1>2, DigitsType DEF At
<1>3. CASE 4 * g + k > N
  <2>1. At(Digits(s), 4 * g + k) = 0
    BY <1>1, <1>3 DEF At
  <2>2. PICK q \in Nat, r \in 0..2 : Len(s) = 3 * q + r
    BY <1>1, SplitByThree
  <2>3. N = IF r = 0 THEN 4 * q ELSE IF r = 1 THEN 4 * q + 2 ELSE 4 * q + 3
    BY <2>2, DigitCounts
  <2> HIDE DEF N
  <2>4. g >= q
    BY <1>3, <2>3
  <2>5. CASE g > q \/ r = 0
    <3>1. 3 * g + 1 > Len(s) /\ 3 * g + 2 > Len(s) /\ 3 * g + 3 > Len(s)
      BY <2>2, <2>4, <2>5
    <3>2. At(s, 3 * g + 1) = 0 /\ At(s, 3 * g + 2) = 0 /\ At(s, 3 * g + 3) = 0
      BY <1>1, <3>1 DEF At
    <3> QED BY <2>1, <3>2, ZeroTails
  <2>6. CASE g = q /\ r = 1
    <3>1. 3 * g + 2 > Len(s) /\ 3 * g + 3 > Len(s) /\ k \in 3..4
      BY <1>3, <2>2, <2>3, <2>6
    <3>2. At(s, 3 * g + 2) = 0 /\ At(s, 3 * g + 3) = 0
      BY <1>1, <3>1 DEF At
    <3> QED BY <2>1, <3>1, <3>2, ZeroTails
  <2>7. CASE g = q /\ r = 2
    <3>1. 3 * g + 3 > Len(s) /\ k = 4
      BY <1>3, <2>2, <2>3, <2>7
    <3>2. At(s, 3 * g + 3) = 0
      BY <1>1, <3>1 DEF At
    <3> QED BY <2>1, <3>1, <3>2, ZeroTails
  <2> QED BY <2>4, <2>5, <2>6, <2>7
<1> QED BY <1>1, <1>2, <1>3

(* The signs that are no sextets.                                          *)
LEMMA Signs ==
  /\ \A x \in Sextet : x # Pad /\ ~(x > Slash) /\ x # Minus /\ x # Underscore
  /\ Plus # Slash /\ Plus \in Sextet /\ Slash \in Sextet
  /\ Minus # Underscore /\ Minus # Pad /\ Underscore # Pad
  /\ Sextet \subseteq Char
  /\ Char \subseteq Byte
  /\ Pad \in Char /\ Minus \in Char /\ Underscore \in Char
BY DEF Sextet, Char, Byte, Pad, Slash, Minus, Underscore, Plus

(* Padding is recognised, and only padding.                                *)
LEMMA UnpadPadded ==
  ASSUME NEW d \in Seq(Sextet), Len(d) % 4 # 1
  PROVE  Unpadded(d \o Padding((4 - (Len(d) % 4)) % 4)) = d
<1> DEFINE p == (4 - (Len(d) % 4)) % 4
           c == d \o Padding(p)
<1>1. Len(d) \in Nat /\ d \in Seq(Char) /\ Pad \in Char
  BY LenProperties, SeqMonotonic DEF Sextet, Char, Pad
<1>2. p \in 0..2 /\ (Len(d) + p) % 4 = 0 /\ (Len(d) = 0 => p = 0)
  <2>1. PICK q \in Nat, r \in 0..3 : Len(d) = 4 * q + r
    BY <1>1, SplitByFour
  <2>2. Len(d) % 4 = r
    BY <2>1
  <2>3. p = IF r = 0 THEN 0 ELSE IF r = 2 THEN 2 ELSE 1
    BY <2>2
  <2> QED BY <2>1, <2>2, <2>3
<1> HIDE DEF p
<1>3. Padding(p) \in Seq(Char) /\ Len(Padding(p)) = p
      /\ \A i \in 1..p : Padding(p)[i] = Pad
  BY <1>1, <1>2 DEF Padding
<1>4. /\ c \in Seq(Char)
      /\ Len(c) = Len(d) + p
      /\ \A i \in 1..(Len(d) + p) : c[i] = IF i <= Len(d) THEN d[i] ELSE Pad
  BY <1>1, <1>2, <1>3, ConcatProperties
<1> HIDE DEF c
<1>5. \A i \in 1..Len(d) : d[i] # Pad
  <2>1. \A i \in 1..Len(d) : d[i] \in Sextet
    BY ElementOfSeq
  <2> QED BY <2>1, Signs
<1>6. Unpadded(c) = SubSeq(c, 1, Len(d))
  <2>1. CASE p = 0
    BY <1>1, <1>2, <1>4, <1>5, <2>1 DEF Unpadded
  <2>2. CASE p = 1
    <3>1. c[Len(c)] = Pad /\ c[Len(c) - 1] # Pad
      BY <1>1, <1>2, <1>4, <1>5, <2>2
    <3> QED BY <1>1, <1>2, <1>4, <2>2, <3>1 DEF Unpadded
  <2>3. CASE p = 2
    <3>1. c[Len(c)] = Pad /\ c[Len(c) - 1] = Pad
      BY <1>1, <1>2, <1>4, <2>3
    <3> QED BY <1>1, <1>2, <1>4, <2>3, <3>1 DEF Unpadded
  <2> QED BY <1>2, <2>1, <2>2, <2>3
<1>7. SubSeq(c, 1, Len(d)) = d
  <2>1. \A i \in 1..Len(d) : c[i] \in Char /\ c[i] = d[i]
    BY <1>1, <1>2, <1>4, ElementOfSeq
  <2>2. /\ SubSeq(c, 1, Len(d)) \in Seq(Char)
        /\ Len(SubSeq(c, 1, Len(d))) = Len(d)
        /\ \A i \in 1..Len(d) : SubSeq(c, 1, Len(d))[i] = c[i]
    BY <1>1, <2>1, SubSeqProperties
  <2> QED BY <1>1, <2>1, <2>2, SeqEqual
<1> QED BY <1>6, <1>7 DEF c, p

(* atob reads what btoa wrote.                                             *)
LEMMA AtobDigits ==
  ASSUME NEW s \in Seq(Byte)
  PROVE  Atob(Digits(s) \o Padding((4 - (Len(Digits(s)) % 4)) % 4)) = s
<1> DEFINE d == Digits(s)
           N == DigitCount(Len(s))
           Group(g) == Octets(At(d, 4 * g + 1), At(d, 4 * g + 2),
                              At(d, 4 * g + 3), At(d, 4 * g + 4))
           byte(i) == Group((i - 1) \div 3)[((i - 1) % 3) + 1]
<1>1. Len(s) \in Nat /\ d \in Seq(Sextet) /\ Len(d) = N
  BY LenProperties, DigitsType
<1>2. N \in Nat /\ N % 4 # 1 /\ (3 * N) \div 4 = Len(s)
  BY <1>1, DigitCountProperties
<1>3. Unpadded(d \o Padding((4 - (Len(d) % 4)) % 4)) = d
  BY <1>1, <1>2, UnpadPadded
<1>4. \A i \in 1..Len(d) : ~(d[i] > Slash)
  <2>1. \A i \in 1..Len(d) : d[i] \in Sextet
    BY <1>1, ElementOfSeq
  <2> QED BY <1>1, <2>1, Signs
<1>5. Atob(d \o Padding((4 - (Len(d) % 4)) % 4)) =
        [i \in 1..((3 * Len(d)) \div 4) |-> byte(i)]
  BY <1>1, <1>2, <1>3, <1>4 DEF Atob
<1>6. ASSUME NEW g \in Nat
      PROVE  Group(g) = <<At(s, 3 * g + 1), At(s, 3 * g + 2), At(s, 3 * g + 3)>>
  <2>1. PICK a, b, c : a = At(s, 3 * g + 1) /\ b = At(s, 3 * g + 2) /\ c = At(s, 3 * g + 3)
    OBVIOUS
  <2>2. a \in Byte /\ b \in Byte /\ c \in Byte
    BY <2>1, AtType
  <2>3. PICK w : w = Sextets(a, b, c)
    OBVIOUS
  <2>4. /\ At(d, 4 * g + 1) = w[1]
        /\ At(d, 4 * g + 2) = w[2]
        /\ At(d, 4 * g + 3) = w[3]
        /\ At(d, 4 * g + 4) = w[4]
    BY <2>1, <2>3, GroupOfDigits
  <2> QED BY <2>1, <2>2, <2>3, <2>4, OctetsOfSextets
<1>7. ASSUME NEW i \in 1..Len(s) PROVE byte(i) = s[i]
  <2>1. PICK g \in Nat, k \in 0..2 : i - 1 = 3 * g + k
    <3>1. i - 1 \in Nat
      BY <1>1
    <3> QED BY <3>1, SplitByThree
  <2>2. (i - 1) \div 3 = g /\ (i - 1) % 3 = k
    BY <2>1
  <2>3. byte(i) = Group(g)[k + 1]
    BY <2>2
  <2>4. Group(g)[k + 1] = At(s, 3 * g + k + 1)
    <3>1. k = 0 \/ k = 1 \/ k = 2
      OBVIOUS
    <3> QED BY <1>6, <3>1
  <2>5. 3 * g + k + 1 = i
    BY <2>1
  <2> QED BY <1>1, <2>3, <2>4, <2>5 DEF At
<1> HIDE DEF d, N, Group, byte
<1>8. s = [i \in 1..Len(s) |-> s[i]]
  BY LenProperties
<1>9. [i \in 1..Len(s) |-> byte(i)] = s
  BY <1>7, <1>8
<1> QED BY <1>1, <1>2, <1>5, <1>9 DEF d

-----------------------------------------------------------------------------
(* The two programs' encodings.                                            *)
LEMMA ReplaceEachType ==
  ASSUME NEW x \in Char, NEW y \in Char, NEW chars \in Seq(Char)
  PROVE  /\ ReplaceEach(x, y, chars) \in Seq(Char)
         /\ Len(ReplaceEach(x, y, chars)) = Len(chars)
         /\ \A i \in 1..Len(chars) :
              ReplaceEach(x, y, chars)[i] = IF chars[i] = x THEN y ELSE chars[i]
<1>1. Len(chars) \in Nat /\ \A i \in 1..Len(chars) : chars[i] \in Char
  BY LenProperties, ElementOfSeq
<1> QED BY <1>1 DEF ReplaceEach

(* Go's encoding, character by character.                                  *)
URLSafe(c) ==
  IF c = Slash THEN Underscore ELSE IF c = Plus THEN Minus ELSE c

LEMMA URLSafeType ==
  ASSUME NEW c \in Sextet
  PROVE  URLSafe(c) \in Char /\ URLSafe(c) # Pad
BY Signs DEF URLSafe

LEMMA RawURLEncodeType ==
  ASSUME NEW s \in Seq(Byte)
  PROVE  /\ RawURLEncode(s) \in Seq(Char)
         /\ Len(RawURLEncode(s)) = Len(Digits(s))
         /\ \A i \in 1..Len(Digits(s)) :
              /\ Digits(s)[i] \in Sextet
              /\ RawURLEncode(s)[i] = URLSafe(Digits(s)[i])
<1>1. Digits(s) \in Seq(Sextet)
  BY DigitsType
<1>2. Digits(s) \in Seq(Char) /\ \A i \in 1..Len(Digits(s)) : Digits(s)[i] \in Sextet
  BY <1>1, Signs, SeqMonotonic, ElementOfSeq
<1>3. PICK t : t = ReplaceEach(Slash, Underscore, Digits(s))
  OBVIOUS
<1>4. /\ t \in Seq(Char) /\ Len(t) = Len(Digits(s))
      /\ \A i \in 1..Len(t) :
           t[i] = IF Digits(s)[i] = Slash THEN Underscore ELSE Digits(s)[i]
  BY <1>2, <1>3, Signs, ReplaceEachType
<1>5. Plus \in Char /\ Minus \in Char /\ Plus # Underscore
  BY Signs
<1>6. /\ RawURLEncode(s) \in Seq(Char)
      /\ Len(RawURLEncode(s)) = Len(t)
      /\ \A i \in 1..Len(t) : RawURLEncode(s)[i] = IF t[i] = Plus THEN Minus ELSE t[i]
  BY <1>3, <1>4, <1>5, ReplaceEachType DEF RawURLEncode
<1> QED BY <1>2, <1>4, <1>5, <1>6 DEF URLSafe

(* What Go encodes the worker decodes.                                     *)
LEMMA DecodeEncoded ==
  ASSUME NEW s \in Seq(Byte)
  PROVE  Base64URLDecode(RawURLEncode(s)) = s
<1>1. PICK d, e : d = Digits(s) /\ e = RawURLEncode(s)
  OBVIOUS
<1>2. /\ d \in Seq(Char) /\ e \in Seq(Char) /\ Len(e) = Len(d) /\ Len(d) \in Nat
      /\ \A i \in 1..Len(d) : d[i] \in Sextet /\ e[i] = URLSafe(d[i])
  BY <1>1, RawURLEncodeType, DigitsType, Signs, SeqMonotonic, LenProperties
<1>3. PICK t, u : /\ t = ReplaceEach(Minus, Plus, e)
                  /\ u = ReplaceEach(Underscore, Slash, t)
  OBVIOUS
<1>4. Plus \in Char /\ Slash \in Char /\ Minus \in Char /\ Underscore \in Char
  BY Signs
<1>5. /\ t \in Seq(Char) /\ Len(t) = Len(d)
      /\ \A i \in 1..Len(d) : t[i] = IF e[i] = Minus THEN Plus ELSE e[i]
  BY <1>2, <1>3, <1>4, ReplaceEachType
<1>6. /\ u \in Seq(Char) /\ Len(u) = Len(d)
      /\ \A i \in 1..Len(d) : u[i] = IF t[i] = Underscore THEN Slash ELSE t[i]
  BY <1>3, <1>4, <1>5, ReplaceEachType
<1>7. \A i \in 1..Len(d) : u[i] = d[i]
  BY <1>2, <1>5, <1>6, Signs DEF URLSafe
<1>8. u = d
  BY <1>2, <1>6, <1>7, SeqEqual
<1> QED BY <1>1, <1>3, <1>8, AtobDigits DEF Base64URLDecode

(* So no two texts are encoded alike.                                      *)
LEMMA EncodeInjective ==
  ASSUME NEW s \in Seq(Byte), NEW t \in Seq(Byte), RawURLEncode(s) = RawURLEncode(t)
  PROVE  s = t
BY DecodeEncoded

(* What is padding at the end goes, nothing else.                          *)
LEMMA TrimPadded ==
  ASSUME NEW e \in Seq(Char), NEW r \in Seq(Char), NEW p \in Nat,
         Len(r) = Len(e) + p,
         \A i \in 1..Len(e) : e[i] # Pad,
         \A i \in 1..Len(r) : r[i] = IF i <= Len(e) THEN e[i] ELSE Pad
  PROVE  Trim(r) = e
<1> DEFINE last == {n \in 0..Len(r) : \A i \in (n + 1)..Len(r) : r[i] = Pad}
<1>1. Len(e) \in Nat /\ Len(r) \in Nat
  BY LenProperties
<1>2. Len(e) \in last
  BY <1>1
<1>3. ASSUME NEW n \in last PROVE Len(e) <= n
  <2> SUFFICES ASSUME n < Len(e) PROVE FALSE
    BY <1>1
  <2>1. Len(e) \in (n + 1)..Len(r) /\ Len(e) \in 1..Len(e)
    BY <1>1
  <2>2. r[Len(e)] = Pad
    BY <2>1
  <2>3. r[Len(e)] = e[Len(e)]
    BY <1>1, <2>1
  <2> QED BY <2>1, <2>2, <2>3
<1>4. last \subseteq Int
  BY <1>1
<1> HIDE DEF last
<1>5. Min(last) = Len(e)
  BY <1>1, <1>2, <1>3, <1>4 DEF Min
<1>6. Trim(r) = SubSeq(r, 1, Len(e))
  BY <1>5 DEF Trim, last
<1>7. \A i \in 1..Len(e) : r[i] \in Char /\ r[i] = e[i]
  BY <1>1, ElementOfSeq
<1>8. /\ SubSeq(r, 1, Len(e)) \in Seq(Char)
      /\ Len(SubSeq(r, 1, Len(e))) = Len(e)
      /\ \A i \in 1..Len(e) : SubSeq(r, 1, Len(e))[i] = r[i]
  BY <1>1, <1>7, SubSeqProperties
<1> QED BY <1>1, <1>6, <1>7, <1>8, SeqEqual

(* The worker encodes as Go does.                                          *)
LEMMA EncodeAlike ==
  ASSUME NEW s \in Seq(Byte)
  PROVE  ArrayBufferToBase64URL(s) = RawURLEncode(s)
<1>1. PICK d, e, p : d = Digits(s) /\ e = RawURLEncode(s) /\ p = (-Len(d)) % 4
  OBVIOUS
<1>2. /\ d \in Seq(Char) /\ e \in Seq(Char) /\ Len(e) = Len(d) /\ Len(d) \in Nat
      /\ \A i \in 1..Len(d) : d[i] \in Sextet /\ e[i] = URLSafe(d[i])
  BY <1>1, RawURLEncodeType, DigitsType, Signs, SeqMonotonic, LenProperties
<1>3. p \in Nat
  BY <1>1, <1>2
<1>4. PICK w : /\ w = Padding(p)
               /\ w \in Seq(Char) /\ Len(w) = p
               /\ \A i \in 1..p : w[i] = Pad
  <2>1. Padding(p) \in Seq(Char) /\ Len(Padding(p)) = p
        /\ \A i \in 1..p : Padding(p)[i] = Pad
    BY <1>3, Signs DEF Padding
  <2> QED BY <2>1
<1>5. PICK c : c = Btoa(s)
  OBVIOUS
<1>6. /\ c \in Seq(Char) /\ Len(c) = Len(d) + p
      /\ \A i \in 1..Len(c) : c[i] = IF i <= Len(d) THEN d[i] ELSE Pad
  <2>1. c = d \o w
    BY <1>1, <1>4, <1>5 DEF Btoa
  <2>2. c \in Seq(Char) /\ Len(c) = Len(d) + p
    BY <1>2, <1>4, <2>1, ConcatProperties
  <2>3. \A i \in 1..(Len(d) + p) : c[i] = IF i <= Len(d) THEN d[i] ELSE w[i - Len(d)]
    BY <1>2, <1>4, <2>1, ConcatProperties
  <2>4. ASSUME NEW i \in 1..(Len(d) + p), ~(i <= Len(d)) PROVE w[i - Len(d)] = Pad
    <3>1. i - Len(d) \in 1..p
      BY <1>2, <1>3, <2>4
    <3> QED BY <1>4, <3>1
  <2> QED BY <2>2, <2>3, <2>4
<1>7. PICK t, r : /\ t = ReplaceEach(Plus, Minus, c)
                  /\ r = ReplaceEach(Slash, Underscore, t)
  OBVIOUS
<1>8. Plus \in Char /\ Slash \in Char /\ Minus \in Char /\ Underscore \in Char
  BY Signs
<1>9. /\ t \in Seq(Char) /\ Len(t) = Len(c)
      /\ \A i \in 1..Len(c) : t[i] = IF c[i] = Plus THEN Minus ELSE c[i]
  BY <1>6, <1>7, <1>8, ReplaceEachType
<1>10. /\ r \in Seq(Char) /\ Len(r) = Len(c)
       /\ \A i \in 1..Len(c) : r[i] = IF t[i] = Slash THEN Underscore ELSE t[i]
  BY <1>7, <1>8, <1>9, ReplaceEachType
<1>11. \A i \in 1..Len(r) : r[i] = IF i <= Len(e) THEN e[i] ELSE Pad
  BY <1>2, <1>6, <1>9, <1>10, Signs DEF URLSafe
<1>12. \A i \in 1..Len(e) : e[i] # Pad
  BY <1>2, URLSafeType
<1>13. Trim(r) = e
  BY <1>2, <1>3, <1>6, <1>10, <1>11, <1>12, TrimPadded
<1> QED BY <1>1, <1>5, <1>7, <1>13 DEF ArrayBufferToBase64URL

-----------------------------------------------------------------------------
(* Tokens and signatures.                                                  *)
USE ProxyAssumption

(* The token of a file that expires at exp.                                *)
Token(k, exp) == RawURLEncode(Marshal(k, exp))

Signature(secret, token) == RawURLEncode(Mac(secret, token))

LEMMA MarshalType ==
  ASSUME NEW k \in Key, NEW exp \in Exp
  PROVE  Marshal(k, exp) \in Seq(Byte) /\ Len(Marshal(k, exp)) \in Nat \ {0}
<1>1. Json[k][exp] \in Seq(Byte) \ {<<>>}
  BY JsonAssumption
<1> QED BY <1>1, LenProperties, EmptySeq DEF Marshal

LEMMA MarshalInjective ==
  ASSUME NEW k \in Key, NEW l \in Key, NEW x \in Exp, NEW y \in Exp,
         Marshal(k, x) = Marshal(l, y)
  PROVE  k = l /\ x = y
BY JsonAssumption DEF Marshal

LEMMA MacType ==
  ASSUME NEW s \in Secret, NEW t \in Seq(Char)
  PROVE  Mac(s, t) \in Seq(Byte) /\ Len(Mac(s, t)) = Len(t) + 1
<1>1. <<s>> \in Seq(Byte) /\ Len(<<s>>) = 1
  OBVIOUS
<1>2. t \in Seq(Byte)
  BY Signs, SeqMonotonic
<1> QED BY <1>1, <1>2, ConcatProperties, LenProperties DEF Mac

LEMMA MacInjective ==
  ASSUME NEW s \in Secret, NEW z \in Secret, NEW t \in Seq(Char), NEW u \in Seq(Char),
         Mac(s, t) = Mac(z, u)
  PROVE  s = z /\ t = u
<1>1. Len(t) \in Nat /\ Len(u) \in Nat /\ Len(t) = Len(u)
  BY MacType, LenProperties
<1>2. <<s>> \in Seq(Byte) /\ <<z>> \in Seq(Byte) /\ t \in Seq(Byte) /\ u \in Seq(Byte)
  BY Signs, SeqMonotonic
<1>3. /\ \A i \in 1..(Len(t) + 1) : Mac(s, t)[i] = IF i <= 1 THEN s ELSE t[i - 1]
      /\ \A i \in 1..(Len(t) + 1) : Mac(z, u)[i] = IF i <= 1 THEN z ELSE u[i - 1]
  BY <1>1, <1>2, ConcatProperties DEF Mac
<1>4. 1 \in 1..(Len(t) + 1)
  BY <1>1
<1>5. s = z
  BY <1>3, <1>4
<1>6. ASSUME NEW i \in 1..Len(t) PROVE t[i] = u[i]
  <2>1. i + 1 \in 1..(Len(t) + 1) /\ ~(i + 1 <= 1) /\ (i + 1) - 1 = i
    BY <1>1
  <2>2. Mac(s, t)[i + 1] = t[(i + 1) - 1] /\ Mac(z, u)[i + 1] = u[(i + 1) - 1]
    BY <1>3, <2>1
  <2> QED BY <2>1, <2>2
<1> QED BY <1>1, <1>5, <1>6, SeqEqual

(* A token is some characters long.                                        *)
LEMMA TokenType ==
  ASSUME NEW k \in Key, NEW exp \in Exp
  PROVE  Token(k, exp) \in Seq(Char)
BY MarshalType, RawURLEncodeType DEF Token

(* A signature names its secret and its token.                             *)
LEMMA SignatureTells ==
  ASSUME NEW s \in Secret, NEW z \in Secret, NEW t \in Seq(Char), NEW u \in Seq(Char)
  PROVE  /\ Signature(s, t) \in Seq(Char)
         /\ Len(Signature(s, t)) \in Nat \ {0}
         /\ Len(t) = Len(u) => Len(Signature(s, t)) = Len(Signature(z, u))
         /\ Signature(s, t) = Signature(z, u) => s = z /\ t = u
<1>1. /\ Mac(s, t) \in Seq(Byte) /\ Len(Mac(s, t)) = Len(t) + 1
      /\ Mac(z, u) \in Seq(Byte) /\ Len(Mac(z, u)) = Len(u) + 1
      /\ Len(t) \in Nat
  BY MacType, LenProperties
<1>2. /\ Signature(s, t) \in Seq(Char)
      /\ Len(Signature(s, t)) = DigitCount(Len(t) + 1)
      /\ Len(Signature(z, u)) = DigitCount(Len(u) + 1)
  BY <1>1, RawURLEncodeType, DigitsType DEF Signature
<1>3. DigitCount(Len(t) + 1) \in Nat \ {0}
  BY <1>1 DEF DigitCount
<1>4. Signature(s, t) = Signature(z, u) => s = z /\ t = u
  BY <1>1, EncodeInjective, MacInjective DEF Signature
<1> QED BY <1>2, <1>3, <1>4

(* The worker finds in a token what the server put into it.                *)
LEMMA ParseToken ==
  ASSUME NEW k \in Key, NEW exp \in Exp
  PROVE  Parse(Base64URLDecode(Token(k, exp))) = [key |-> k, exp |-> exp]
<1>1. PICK m : m = Marshal(k, exp)
  OBVIOUS
<1>2. m \in Seq(Byte) /\ m # Nothing
  BY <1>1, MarshalType
<1>3. Base64URLDecode(Token(k, exp)) = m
  BY <1>1, <1>2, DecodeEncoded DEF Token
<1>4. PICK S : S = {p \in [key : Key, exp : Exp] : Marshal(p.key, p.exp) = m}
  OBVIOUS
<1>5. S = {[key |-> k, exp |-> exp]}
  <2>1. [key |-> k, exp |-> exp] \in S
    BY <1>1, <1>4
  <2>2. ASSUME NEW p \in S PROVE p = [key |-> k, exp |-> exp]
    <3>1. p.key \in Key /\ p.exp \in Exp /\ Marshal(p.key, p.exp) = Marshal(k, exp)
      BY <1>1, <1>4
    <3>2. p.key = k /\ p.exp = exp
      BY <3>1, MarshalInjective
    <3> QED BY <1>4, <3>2
  <2> QED BY <2>1, <2>2
<1>6. Parse(m) = CHOOSE p \in S : TRUE
  BY <1>2, <1>4, <1>5 DEF Parse
<1> QED BY <1>3, <1>5, <1>6

LEMMA ExpNat == Exp \subseteq Nat
BY DEF Exp

(* Whatever the worker finds has the shape of a payload.                   *)
LEMMA ParseType ==
  ASSUME NEW bytes
  PROVE  Parse(bytes) \in Payload \cup {Nothing}
BY ExpNat DEF Parse, Payload

LEMMA VerifiedType ==
  ASSUME NEW t, NEW sig, NEW s
  PROVE  VerifySignedToken(t, sig, s) \in Payload \cup {Nothing}
BY ParseType DEF VerifySignedToken

(* The worker compares signatures as a whole.                              *)
LEMMA EqualSequences ==
  ASSUME NEW a \in Seq(Char), NEW b \in Seq(Char)
  PROVE  ConstantTimeEqual(a, b) <=> a = b
<1>1. ConstantTimeEqual(a, b) => a = b
  BY SeqEqual DEF ConstantTimeEqual
<1> QED BY <1>1 DEF ConstantTimeEqual

-----------------------------------------------------------------------------
(* Whole seconds.                                                          *)
LEMMA WholeSeconds ==
  ASSUME NEW t \in Int
  PROVE  /\ t \div Second \in Int
         /\ Second * (t \div Second) <= t
         /\ t < Second * (t \div Second) + Second
<1>1. t = Second * (t \div Second) + (t % Second) /\ t % Second \in 0..(Second - 1)
  OBVIOUS
<1> QED BY <1>1

LEMMA MoreSeconds ==
  ASSUME NEW x \in Int, NEW y \in Int, x <= y
  PROVE  Second * x <= Second * y
<1>1. PICK d \in Nat : y = x + d
  <2>1. y - x \in Nat /\ y = x + (y - x)
    OBVIOUS
  <2> QED BY <2>1
<1>2. Second * d \in Nat /\ Second * x \in Int
  OBVIOUS
<1>3. Second * (x + d) = Second * x + Second * d
  OBVIOUS
<1> QED BY <1>1, <1>2, <1>3

LEMMA LaterSecond ==
  ASSUME NEW t \in Int, NEW u \in Int, t <= u
  PROVE  t \div Second <= u \div Second
<1>1. PICK a \in Int, b \in Int : a = t \div Second /\ b = u \div Second
  BY WholeSeconds
<1>2. Second * a <= t /\ u < Second * b + Second
  BY <1>1, WholeSeconds
<1>3. SUFFICES ASSUME b + 1 <= a PROVE FALSE
  BY <1>1
<1>4. Second * (b + 1) <= Second * a
  BY <1>3, MoreSeconds
<1>5. Second * (b + 1) = Second * b + Second
  OBVIOUS
<1>6. Second * a \in Int /\ Second * b \in Int
  OBVIOUS
<1> QED BY <1>2, <1>4, <1>5, <1>6

(* The second a link that is signed at a time names.                       *)
ExpOf(at) == at \div Second + LinkTTL

LEMMA ExpRange ==
  ASSUME NEW at \in 0..Horizon
  PROVE  ExpOf(at) \in Exp
<1>1. 0 \div Second = 0
  OBVIOUS
<1>2. at \div Second \in Int /\ Horizon \div Second \in Int
  BY WholeSeconds
<1>3. 0 <= at \div Second /\ at \div Second <= Horizon \div Second
  BY <1>1, LaterSecond
<1> QED BY <1>2, <1>3 DEF ExpOf, Exp

-----------------------------------------------------------------------------
(***************************************************************************)
(* The state.  A link says what it was signed for; a request under way     *)
(* came of a link; a copy is of a file that was there when it was made.    *)
(***************************************************************************)
SignedFor(k, at, s) ==
  [token |-> Token(k, ExpOf(at)),
   signature |-> Signature(s, Token(k, ExpOf(at)))]

LinksSigned == \A l \in links : l.url = SignedFor(l.key, l.at, l.secret)

RequestsArrived ==
  \A b \in Browser : wpc[b] # "idle" =>
    /\ request[b] \in Request
    /\ request[b].url.signature # <<>>
    /\ \E l \in links : request[b].url \in Arriving(l.url)

FilesSeen == \A k \in bucket : lastIn[k] = clock

CopiesSeen ==
  \A b \in Browser : cache[b] # Nothing =>
    /\ cache[b].age = MaxAge
    /\ lastIn[cache[b].key] \in cache[b].at..clock

IInv == TypeOK /\ LinksSigned /\ RequestsArrived /\ FilesSeen /\ CopiesSeen

(* The pieces of the invariant about what the browsers and the worker do.  *)
LEMMA LinkType ==
  ASSUME IInv, NEW l \in links
  PROVE  /\ l.key \in Key /\ l.at \in 0..Horizon /\ l.at <= clock
         /\ l.secret \in Secret /\ l.url \in URL
         /\ ExpOf(l.at) \in Exp
         /\ l.url = SignedFor(l.key, l.at, l.secret)
<1>1. l \in [key : Key, at : 0..clock, secret : Secret, url : URL]
  BY DEF IInv, TypeOK
<1>2. clock \in 0..Horizon
  BY DEF IInv, TypeOK
<1>3. l.at \in 0..clock
  BY <1>1
<1>4. l.at \in 0..Horizon /\ l.at <= clock
  BY <1>2, <1>3
<1> QED BY <1>1, <1>4, ExpRange DEF IInv, LinksSigned

(* What arrives of a link has its shape.                                   *)
LEMMA FrontType ==
  ASSUME NEW t \in Seq(Char)
  PROVE  /\ Front(t) \in Seq(Char)
         /\ t # <<>> => Len(Front(t)) = Len(t) - 1
<1>1. Len(t) \in Nat /\ \A i \in 1..(Len(t) - 1) : t[i] \in Char
  BY LenProperties, ElementOfSeq
<1>2. t # <<>> => Len(t) \in Nat \ {0}
  BY EmptySeq
<1>3. PICK f : f = Front(t)
  OBVIOUS
<1> DEFINE n == Len(t) - 1
<1>4. f \in Seq(Char) /\ Len(f) = IF 1 <= n THEN n - 1 + 1 ELSE 0
  BY <1>1, <1>3, SubSeqProperties DEF Front
<1>5. ASSUME t # <<>> PROVE Len(f) = n
  <2>1. n \in Nat
    BY <1>2, <1>5
  <2> HIDE DEF n
  <2>2. n - 1 + 1 = n /\ (~(1 <= n) => n = 0)
    BY <2>1
  <2> QED BY <1>4, <2>2
<1> QED BY <1>3, <1>4, <1>5

LEMMA ArrivingType ==
  ASSUME NEW u \in URL, NEW url \in Arriving(u)
  PROVE  url \in URL
<1>1. u.token \in Seq(Char) /\ u.signature \in Seq(Char)
      /\ u = [token |-> u.token, signature |-> u.signature]
  BY DEF URL, Char
<1>2. Front(u.token) \in Seq(Char) /\ Front(u.signature) \in Seq(Char) /\ <<>> \in Seq(Char)
  BY <1>1, FrontType, EmptySeq
<1>3. CASE url = u
  BY <1>3
<1>4. CASE url = [u EXCEPT !.token = Front(u.token)]
  BY <1>1, <1>2, <1>4 DEF URL, Char
<1>5. CASE url = [u EXCEPT !.signature = Front(u.signature)]
  BY <1>1, <1>2, <1>5 DEF URL, Char
<1>6. CASE url = [u EXCEPT !.signature = <<>>]
  BY <1>1, <1>2, <1>6 DEF URL, Char
<1> QED BY <1>3, <1>4, <1>5, <1>6 DEF Arriving

(* The link the server signs now.                                          *)
LEMMA SignsFor ==
  ASSUME TypeOK, NEW k \in Key
  PROVE  /\ SignedFileURL(k) = SignedFor(k, clock, secretOf.server)
         /\ SignedFileURL(k) \in URL
<1>1. clock \in 0..Horizon /\ secretOf.server \in Secret
  BY DEF TypeOK
<1>2. Token(k, ExpOf(clock)) \in Seq(Char)
  BY <1>1, ExpRange, TokenType
<1>3. Signature(secretOf.server, Token(k, ExpOf(clock))) \in Seq(Char)
  BY <1>1, <1>2, SignatureTells
<1> QED BY <1>2, <1>3
        DEF SignedFileURL, SignedFor, Token, Signature, ExpOf, URL, Char

(* Worker and browser: what a step of browser b says, and keeps.           *)
LEMMA SayKeeps ==
  ASSUME IInv, NEW b \in Browser, NEW status \in Status, Say(b, status),
         UNCHANGED <<clock, skew, secretOf, bucket, links, lastIn>>,
         NEW kept, cache' = [cache EXCEPT ![b] = kept],
         \/ kept = cache[b]
         \/ kept = Nothing
         \/ /\ kept \in [url : URL, key : Key, at : 0..clock, age : Nat]
            /\ kept.age = MaxAge /\ kept.at = clock /\ kept.key \in bucket
  PROVE  IInv'
<1>1. UNCHANGED <<clock, skew, secretOf, bucket, links, lastIn>>
  OBVIOUS
<1>2. kept \in [url : URL, key : Key, at : 0..clock, age : Nat] \cup {Nothing}
  BY DEF IInv, TypeOK
<1>3. cache' \in [Browser -> [url : URL, key : Key, at : 0..clock, age : Nat]
                             \cup {Nothing}]
  BY <1>2 DEF IInv, TypeOK
<1>4. /\ wpc' \in [Browser -> {"idle", "verify", "get"}]
      /\ request' \in [Browser -> Request \cup {Nothing}]
      /\ payload' \in [Browser -> Payload \cup {Nothing}]
      /\ answer' \in [Browser -> Status \cup {Nothing}]
      /\ \A c \in Browser : wpc'[c] = "get" => payload'[c] # Nothing
      /\ \A c \in Browser : wpc'[c] # "idle" =>
           wpc'[c] = wpc[c] /\ request'[c] = request[c]
  BY DEF IInv, TypeOK, Say
<1>5. TypeOK'
  BY <1>1, <1>3, <1>4 DEF IInv, TypeOK
<1>6. LinksSigned'
  BY <1>1 DEF IInv, LinksSigned, SignedFor, ExpOf
<1>7. RequestsArrived'
  BY <1>1, <1>4 DEF IInv, RequestsArrived
<1>8. FilesSeen'
  BY <1>1 DEF IInv, FilesSeen
<1>9. clock \in Nat
  BY DEF IInv, TypeOK
<1>10. ASSUME NEW c \in Browser, cache'[c] # Nothing
       PROVE  cache'[c].age = MaxAge /\ lastIn[cache'[c].key] \in cache'[c].at..clock
  <2>1. CASE c = b /\ kept # cache[b]
    <3>1. cache'[c] = kept /\ kept # Nothing
      BY <1>10, <2>1 DEF IInv, TypeOK
    <3>2. lastIn[kept.key] = clock /\ kept.at = clock /\ kept.age = MaxAge
      BY <2>1, <3>1 DEF IInv, FilesSeen
    <3> QED BY <1>9, <3>1, <3>2
  <2>2. CASE ~(c = b /\ kept # cache[b])
    <3>1. cache'[c] = cache[c]
      BY <2>2 DEF IInv, TypeOK
    <3> QED BY <1>10, <3>1 DEF IInv, CopiesSeen
  <2> QED BY <2>1, <2>2
<1>11. CopiesSeen'
  BY <1>1, <1>10 DEF CopiesSeen
<1> QED BY <1>5, <1>6, <1>7, <1>8, <1>11 DEF IInv

(* Receive.                                                                *)
LEMMA ReceiveKeeps ==
  ASSUME IInv, NEW b \in Browser, Receive(b),
         UNCHANGED <<clock, skew, secretOf, bucket, links, lastIn>>
  PROVE  IInv'
<1>1. UNCHANGED <<clock, skew, secretOf, bucket, links, lastIn, cache>>
  BY DEF Receive
<1>2. cache' = [cache EXCEPT ![b] = cache[b]]
  BY <1>1 DEF IInv, TypeOK
<1>3. PICK l \in links : \E url \in Arriving(l.url) :
        \/ \E status \in Status : Say(b, status)
        \/ /\ url.token # <<>> /\ url.signature # <<>>
           /\ \E method \in {"GET", "HEAD"} :
                request' = [request EXCEPT ![b] =
                  [method |-> method, url |-> url, secret |-> secretOf.worker]]
           /\ wpc' = [wpc EXCEPT ![b] = "verify"]
           /\ answer' = [answer EXCEPT ![b] = Nothing]
           /\ UNCHANGED payload
  BY DEF Receive, Status
<1>4. CASE \E status \in Status : Say(b, status)
  BY <1>1, <1>2, <1>4, SayKeeps
<1>5. CASE ~\E status \in Status : Say(b, status)
  <2>7. PICK url \in Arriving(l.url) :
          /\ url.token # <<>> /\ url.signature # <<>>
          /\ \E method \in {"GET", "HEAD"} :
               request' = [request EXCEPT ![b] =
                 [method |-> method, url |-> url, secret |-> secretOf.worker]]
          /\ wpc' = [wpc EXCEPT ![b] = "verify"]
          /\ answer' = [answer EXCEPT ![b] = Nothing]
          /\ UNCHANGED payload
    BY <1>3, <1>5
  <2>1. PICK r : /\ request' = [request EXCEPT ![b] = r]
                 /\ \E method \in {"GET", "HEAD"} :
                      r = [method |-> method, url |-> url, secret |-> secretOf.worker]
    BY <2>7
  <2>2. r \in Request /\ r.url = url
    <3>1. url \in URL
      BY LinkType, ArrivingType
    <3>2. secretOf.worker \in Secret
      BY DEF IInv, TypeOK
    <3> QED BY <2>1, <3>1, <3>2 DEF Request
  <2>3. /\ wpc' = [wpc EXCEPT ![b] = "verify"]
        /\ answer' = [answer EXCEPT ![b] = Nothing]
        /\ UNCHANGED payload
        /\ url.signature # <<>>
    BY <2>7
  <2>4. TypeOK'
    BY <1>1, <2>1, <2>2, <2>3 DEF IInv, TypeOK
  <2>5. RequestsArrived'
    BY <1>1, <2>1, <2>2, <2>3 DEF IInv, TypeOK, RequestsArrived
  <2>6. LinksSigned' /\ FilesSeen' /\ CopiesSeen'
    BY <1>1 DEF IInv, LinksSigned, SignedFor, ExpOf, FilesSeen, CopiesSeen
  <2> QED BY <2>4, <2>5, <2>6 DEF IInv
<1> QED BY <1>4, <1>5

(* Verify.                                                                 *)
LEMMA VerifyKeeps ==
  ASSUME IInv, NEW b \in Browser, Verify(b),
         UNCHANGED <<clock, skew, secretOf, bucket, links, lastIn>>
  PROVE  IInv'
<1>1. UNCHANGED <<clock, skew, secretOf, bucket, links, lastIn, cache>>
  BY DEF Verify
<1>2. cache' = [cache EXCEPT ![b] = cache[b]]
  BY <1>1 DEF IInv, TypeOK
<1>3. CASE \E status \in Status : Say(b, status)
  BY <1>1, <1>2, <1>3, SayKeeps
<1>4. CASE ~\E status \in Status : Say(b, status)
  <2>1. PICK p \in Payload :
          /\ p # Nothing
          /\ payload' = [payload EXCEPT ![b] = p]
          /\ wpc' = [wpc EXCEPT ![b] = "get"]
          /\ UNCHANGED <<request, answer>>
    BY <1>4, VerifiedType DEF Verify, Status
  <2>2. TypeOK'
    BY <1>1, <2>1 DEF IInv, TypeOK
  <2>3. wpc[b] # "idle"
    BY DEF Verify
  <2>4. RequestsArrived'
    BY <1>1, <2>1, <2>3 DEF IInv, TypeOK, RequestsArrived
  <2>5. LinksSigned' /\ FilesSeen' /\ CopiesSeen'
    BY <1>1 DEF IInv, LinksSigned, SignedFor, ExpOf, FilesSeen, CopiesSeen
  <2> QED BY <2>2, <2>4, <2>5 DEF IInv
<1> QED BY <1>3, <1>4

(* Reply: the browser keeps a copy of a file that is there.                *)
LEMMA ReplyKeeps ==
  ASSUME IInv, NEW b \in Browser, Reply(b),
         UNCHANGED <<clock, skew, secretOf, bucket, links, lastIn>>
  PROVE  IInv'
<1>1. PICK status \in Status : Say(b, status)
  BY DEF Reply, Status
<1>2. CASE UNCHANGED cache
  <2>1. cache' = [cache EXCEPT ![b] = cache[b]]
    BY <1>2 DEF IInv, TypeOK
  <2> QED BY <1>1, <2>1, SayKeeps
<1>3. CASE ~UNCHANGED cache
  <2>1. PICK kept : kept = Copy(b, payload[b].key)
    OBVIOUS
  <2>2. payload[b].key \in bucket /\ cache' = [cache EXCEPT ![b] = kept]
    BY <1>3, <2>1 DEF Reply, Keep
  <2>3. /\ payload[b].key \in Key
        /\ request[b].url \in URL
        /\ clock \in 0..clock
    <3>1. wpc[b] = "get"
      BY DEF Reply
    <3>2. request[b] \in Request
      BY <3>1 DEF IInv, RequestsArrived
    <3> QED BY <2>2, <3>2 DEF IInv, TypeOK, Request
  <2>4. /\ kept \in [url : URL, key : Key, at : 0..clock, age : Nat]
        /\ kept.age = MaxAge /\ kept.at = clock /\ kept.key \in bucket
    BY <2>1, <2>2, <2>3 DEF Copy, CacheControl
  <2> QED BY <1>1, <2>2, <2>4, SayKeeps
<1> QED BY <1>2, <1>3

(* Evict.                                                                  *)
LEMMA EvictKeeps ==
  ASSUME IInv, NEW b \in Browser, Evict(b),
         UNCHANGED <<clock, skew, secretOf, bucket, links, lastIn>>
  PROVE  IInv'
<1>1. /\ cache' = [cache EXCEPT ![b] = Nothing]
      /\ UNCHANGED <<clock, skew, secretOf, bucket, links, lastIn, wpc, request,
                     payload, answer>>
  BY DEF Evict
<1>2. TypeOK'
  BY <1>1 DEF IInv, TypeOK
<1>3. LinksSigned' /\ RequestsArrived' /\ FilesSeen'
  BY <1>1 DEF IInv, LinksSigned, SignedFor, ExpOf, RequestsArrived, FilesSeen
<1>4. CopiesSeen'
  BY <1>1 DEF IInv, TypeOK, CopiesSeen
<1> QED BY <1>2, <1>3, <1>4 DEF IInv

(* Time passes.                                                            *)
LEMMA TickKeeps ==
  ASSUME IInv, Tick
  PROVE  IInv'
<1>1. UNCHANGED <<skew, secretOf, bucket, links, wpc, request, payload, answer,
                  cache>>
  BY DEF Tick, browserVars
<1>2. clock' = clock + 1 /\ clock \in Nat /\ clock' \in 0..Horizon
  BY DEF Tick, IInv, TypeOK
<1>3. \A k \in Key : lastIn'[k] = IF k \in bucket THEN clock' ELSE lastIn[k]
  BY DEF Tick
<1>4. 0..clock \subseteq 0..clock' /\ clock' \in 0..clock'
  BY <1>2
<1>5. lastIn' \in [Key -> 0..clock' \cup {Nothing}]
  <2>1. DOMAIN lastIn' = Key /\ lastIn' = [k \in Key |-> lastIn'[k]]
    BY DEF Tick
  <2> QED BY <1>3, <1>4, <2>1 DEF IInv, TypeOK
<1>6. links' \subseteq [key : Key, at : 0..clock', secret : Secret, url : URL]
  BY <1>1, <1>4 DEF IInv, TypeOK
<1>7. cache' \in [Browser -> [url : URL, key : Key, at : 0..clock', age : Nat]
                             \cup {Nothing}]
  <2>1. [url : URL, key : Key, at : 0..clock, age : Nat]
          \subseteq [url : URL, key : Key, at : 0..clock', age : Nat]
    BY <1>4
  <2> QED BY <1>1, <2>1 DEF IInv, TypeOK
<1>8. TypeOK'
  BY <1>1, <1>2, <1>5, <1>6, <1>7 DEF IInv, TypeOK
<1>9. LinksSigned' /\ RequestsArrived'
  BY <1>1 DEF IInv, LinksSigned, SignedFor, ExpOf, RequestsArrived
<1>10. FilesSeen'
  BY <1>1, <1>3 DEF IInv, TypeOK, FilesSeen
<1>11. ASSUME NEW b \in Browser, cache[b] # Nothing
       PROVE  lastIn'[cache[b].key] \in cache[b].at..clock'
  <2>1. cache[b].key \in Key /\ cache[b].at \in 0..clock
    BY <1>11 DEF IInv, TypeOK
  <2>2. lastIn[cache[b].key] \in cache[b].at..clock
    BY <1>11 DEF IInv, CopiesSeen
  <2> QED BY <1>2, <1>3, <2>1, <2>2
<1>12. CopiesSeen'
  BY <1>1, <1>11 DEF IInv, CopiesSeen
<1> QED BY <1>8, <1>9, <1>10, <1>12 DEF IInv

(* A deployment, and the deletion of a file.                               *)
LEMMA DeployKeeps ==
  ASSUME IInv, Deploy
  PROVE  IInv'
<1>1. UNCHANGED <<clock, skew, bucket, links, wpc, request, payload, answer,
                  cache, lastIn>>
  BY DEF Deploy, browserVars
<1>2. secretOf' \in [server : Secret, worker : Secret]
  BY DEF Deploy, IInv, TypeOK
<1>3. TypeOK'
  BY <1>1, <1>2 DEF IInv, TypeOK
<1>4. LinksSigned' /\ RequestsArrived' /\ FilesSeen' /\ CopiesSeen'
  BY <1>1 DEF IInv, LinksSigned, SignedFor, ExpOf, RequestsArrived, FilesSeen,
              CopiesSeen
<1> QED BY <1>3, <1>4 DEF IInv

LEMMA DeleteKeeps ==
  ASSUME IInv, NEW k \in Key, Delete(k)
  PROVE  IInv'
<1>1. /\ bucket' = bucket \ {k}
      /\ UNCHANGED <<clock, skew, secretOf, links, wpc, request, payload, answer,
                     cache, lastIn>>
  BY DEF Delete, browserVars
<1>2. TypeOK'
  BY <1>1 DEF IInv, TypeOK
<1>3. LinksSigned' /\ RequestsArrived' /\ FilesSeen' /\ CopiesSeen'
  BY <1>1 DEF IInv, LinksSigned, SignedFor, ExpOf, RequestsArrived, FilesSeen,
              CopiesSeen
<1> QED BY <1>2, <1>3 DEF IInv

(* An upload: no copy of the file is older than it.                        *)
LEMMA PutKeeps ==
  ASSUME IInv, NEW k \in Key, Put(k)
  PROVE  IInv'
<1>1. /\ bucket' = bucket \cup {k}
      /\ lastIn' = [lastIn EXCEPT ![k] = clock]
      /\ UNCHANGED <<clock, skew, secretOf, links, wpc, request, payload, answer,
                     cache>>
  BY DEF Put, browserVars
<1>2. clock \in Nat /\ clock \in 0..clock
  BY DEF IInv, TypeOK
<1>3. lastIn' \in [Key -> 0..clock \cup {Nothing}]
      /\ \A j \in Key : lastIn'[j] = IF j = k THEN clock ELSE lastIn[j]
  BY <1>1, <1>2 DEF IInv, TypeOK
<1>4. TypeOK'
  BY <1>1, <1>3 DEF IInv, TypeOK
<1>5. LinksSigned' /\ RequestsArrived'
  BY <1>1 DEF IInv, LinksSigned, SignedFor, ExpOf, RequestsArrived
<1>6. FilesSeen'
  BY <1>1, <1>3 DEF IInv, TypeOK, FilesSeen
<1>7. ASSUME NEW b \in Browser, cache[b] # Nothing
      PROVE  lastIn'[cache[b].key] \in cache[b].at..clock
  <2>1. cache[b].key \in Key /\ cache[b].at \in 0..clock
    BY <1>7 DEF IInv, TypeOK
  <2>2. lastIn[cache[b].key] \in cache[b].at..clock
    BY <1>7 DEF IInv, CopiesSeen
  <2> QED BY <1>2, <1>3, <2>1, <2>2
<1>8. CopiesSeen'
  BY <1>1, <1>7 DEF IInv, CopiesSeen
<1> QED BY <1>4, <1>5, <1>6, <1>8 DEF IInv

(* A link is signed.                                                       *)
LEMMA SignKeeps ==
  ASSUME IInv, NEW k \in Key, Sign(k)
  PROVE  IInv'
<1>1. PICK l : l = [key |-> k, at |-> clock, secret |-> secretOf.server,
                    url |-> SignedFileURL(k)]
  OBVIOUS
<1>2. /\ links' = links \cup {l}
      /\ UNCHANGED <<clock, skew, secretOf, bucket, wpc, request, payload, answer,
                     cache, lastIn>>
  BY <1>1 DEF Sign, browserVars
<1>3. clock \in 0..clock /\ secretOf.server \in Secret
  BY DEF IInv, TypeOK
<1>4. /\ l \in [key : Key, at : 0..clock, secret : Secret, url : URL]
      /\ l.url = SignedFor(l.key, l.at, l.secret)
  BY <1>1, <1>3, SignsFor DEF IInv
<1>5. TypeOK'
  BY <1>2, <1>4 DEF IInv, TypeOK
<1>6. LinksSigned'
  BY <1>2, <1>4 DEF IInv, LinksSigned, SignedFor, ExpOf
<1>7. RequestsArrived' /\ FilesSeen' /\ CopiesSeen'
  BY <1>2 DEF IInv, RequestsArrived, FilesSeen, CopiesSeen
<1> QED BY <1>5, <1>6, <1>7 DEF IInv

(* Every step keeps the invariant.                                         *)
LEMMA NextKeeps == IInv /\ [Next]_vars => IInv'
<1> SUFFICES ASSUME IInv, [Next]_vars PROVE IInv'
  OBVIOUS
<1>1. ASSUME NEW b \in Browser, Visit(b) PROVE IInv'
  BY <1>1, ReceiveKeeps, VerifyKeeps, ReplyKeeps, EvictKeeps DEF Visit
<1>2. ASSUME NEW k \in Key, Put(k) \/ Delete(k) \/ Sign(k) PROVE IInv'
  BY <1>2, PutKeeps, DeleteKeeps, SignKeeps
<1>3. CASE Tick
  BY <1>3, TickKeeps
<1>4. CASE Deploy
  BY <1>4, DeployKeeps
<1>5. CASE UNCHANGED vars
  <2>1. TypeOK'
    BY <1>5 DEF vars, IInv, TypeOK
  <2> QED BY <1>5, <2>1 DEF vars, IInv, LinksSigned, SignedFor, ExpOf,
                            RequestsArrived, FilesSeen, CopiesSeen
<1> QED BY <1>1, <1>2, <1>3, <1>4, <1>5 DEF Next

(* So does an empty bucket, with nobody asking.                            *)
LEMMA InitHolds == Init => IInv
<1> SUFFICES ASSUME Init PROVE IInv
  OBVIOUS
<1>1. TypeOK
  BY DEF Init, TypeOK
<1>2. LinksSigned /\ RequestsArrived /\ FilesSeen /\ CopiesSeen
  BY DEF Init, LinksSigned, RequestsArrived, FilesSeen, CopiesSeen
<1> QED BY <1>1, <1>2 DEF IInv

(* The invariant holds in every state.                                     *)
LEMMA AlwaysIInv == Spec => []IInv
BY InitHolds, NextKeeps, PTL DEF Spec

-----------------------------------------------------------------------------
(* The types hold in every state.                                          *)
THEOREM ProxyTypes == Spec => []TypeOK
<1>1. IInv => TypeOK
  BY DEF IInv
<1> QED BY <1>1, AlwaysIInv, PTL

(* A file that is deleted is gone from every browser MaxAge seconds later, *)
(* whatever links were out, whatever answers under way, and however often  *)
(* the secret changed.                                                     *)
THEOREM GoneFilesFadeAway == Spec => []GoneFilesFade
<1>1. IInv => GoneFilesFade
  <2> SUFFICES ASSUME IInv, NEW b \in Browser, FreshCopy(b)
               PROVE  clock <= lastIn[cache[b].key] + MaxAge * Second
    BY DEF GoneFilesFade
  <2>1. cache[b] # Nothing /\ clock - cache[b].at < cache[b].age * Second
    BY DEF FreshCopy
  <2>2. /\ cache[b].age = MaxAge
        /\ lastIn[cache[b].key] \in cache[b].at..clock
        /\ cache[b].at \in 0..clock
    BY <2>1 DEF IInv, TypeOK, CopiesSeen
  <2>3. clock \in Nat
    BY DEF IInv, TypeOK
  <2>4. PICK x \in Nat : x = MaxAge * Second
    OBVIOUS
  <2> QED BY <2>1, <2>2, <2>3, <2>4
<1> QED BY <1>1, AlwaysIInv, PTL

-----------------------------------------------------------------------------
(* A request that names a link, whole, with the right secret is accepted,  *)
(* and shows what the link was signed for.                                 *)
LEMMA WholeAccepted ==
  ASSUME IInv, NEW l \in links
  PROVE  VerifySignedToken(l.url.token, l.url.signature, l.secret) =
           [key |-> l.key, exp |-> ExpOf(l.at)]
<1>1. /\ l.key \in Key /\ l.secret \in Secret /\ ExpOf(l.at) \in Exp
      /\ l.url = SignedFor(l.key, l.at, l.secret)
  BY LinkType
<1>2. PICK t : t = Token(l.key, ExpOf(l.at))
  OBVIOUS
<1>3. t \in Seq(Char) /\ Signature(l.secret, t) \in Seq(Char)
  <2>1. t \in Seq(Char)
    BY <1>1, <1>2, TokenType
  <2> QED BY <1>1, <2>1, SignatureTells
<1>4. l.url.token = t /\ l.url.signature = Signature(l.secret, t)
  BY <1>1, <1>2 DEF SignedFor
<1>5. HmacSHA256Base64URL(l.secret, t) = Signature(l.secret, t)
  BY <1>1, <1>3, MacType, EncodeAlike DEF HmacSHA256Base64URL, Signature
<1>6. ConstantTimeEqual(l.url.signature, HmacSHA256Base64URL(l.secret, t))
  BY <1>3, <1>4, <1>5, EqualSequences
<1> QED BY <1>1, <1>2, <1>4, <1>6, ParseToken DEF VerifySignedToken

(* What is accepted arrived whole, and was signed with this secret.        *)
LEMMA AcceptedWhole ==
  ASSUME IInv, NEW l \in links, NEW url \in Arriving(l.url), NEW s \in Secret,
         url.signature # <<>>,
         ConstantTimeEqual(url.signature, HmacSHA256Base64URL(s, url.token))
  PROVE  url = l.url /\ s = l.secret
<1>1. /\ l.key \in Key /\ l.secret \in Secret /\ ExpOf(l.at) \in Exp
      /\ l.url = SignedFor(l.key, l.at, l.secret) /\ l.url \in URL
  BY LinkType
<1>2. PICK t : t = Token(l.key, ExpOf(l.at))
  OBVIOUS
<1>3. t \in Seq(Char) /\ Signature(l.secret, t) \in Seq(Char)
      /\ Len(Signature(l.secret, t)) \in Nat \ {0}
  <2>1. t \in Seq(Char)
    BY <1>1, <1>2, TokenType
  <2> QED BY <1>1, <2>1, SignatureTells
<1>4. l.url = [token |-> t, signature |-> Signature(l.secret, t)]
  BY <1>1, <1>2 DEF SignedFor
<1>5. url \in URL
  BY <1>1, ArrivingType
<1>6. url.token \in Seq(Char) /\ url.signature \in Seq(Char)
  BY <1>5 DEF URL, Char
<1>7. HmacSHA256Base64URL(s, url.token) = Signature(s, url.token)
  BY <1>6, MacType, EncodeAlike DEF HmacSHA256Base64URL, Signature
<1>8. url.signature = Signature(s, url.token)
  BY <1>6, <1>7, EqualSequences, SignatureTells
<1>9. CASE url = l.url
  BY <1>1, <1>3, <1>4, <1>8, <1>9, SignatureTells
<1>10. CASE url = [l.url EXCEPT !.token = Front(l.url.token)]
  <2>1. url.token = Front(t) /\ url.signature = Signature(l.secret, t)
    BY <1>4, <1>10
  <2>2. url.token = t /\ s = l.secret
    BY <1>1, <1>3, <1>6, <1>8, <2>1, SignatureTells
  <2> QED BY <1>4, <2>1, <2>2, <1>10
<1>11. CASE url = [l.url EXCEPT !.signature = Front(l.url.signature)]
  <2>1. url.token = t /\ url.signature = Front(Signature(l.secret, t))
    BY <1>4, <1>11
  <2>2. Len(Signature(s, t)) = Len(Signature(l.secret, t))
    BY <1>1, <1>3, SignatureTells
  <2>3. Signature(l.secret, t) # <<>>
    BY <1>3, EmptySeq
  <2>4. Len(Front(Signature(l.secret, t))) = Len(Signature(l.secret, t)) - 1
    BY <1>3, <2>3, FrontType
  <2> QED BY <1>3, <1>8, <2>1, <2>2, <2>4
<1>12. CASE url = [l.url EXCEPT !.signature = <<>>]
  BY <1>4, <1>12
<1> QED BY <1>9, <1>10, <1>11, <1>12 DEF Arriving

(* The worker's verdict on the request of b.                               *)
Verdict(b) ==
  VerifySignedToken(request[b].url.token, request[b].url.signature,
                    request[b].secret)

(* What it finds is what every link with this address was signed for.      *)
LEMMA VerdictTells ==
  ASSUME IInv, NEW b \in Browser, wpc[b] = "verify", NEW l \in links,
         l.url = request[b].url, Verdict(b) # Nothing
  PROVE  l.secret = request[b].secret
         /\ Verdict(b) = [key |-> l.key, exp |-> ExpOf(l.at)]
<1>1. /\ request[b] \in Request /\ request[b].url.signature # <<>>
  BY DEF IInv, RequestsArrived
<1>2. request[b].url \in Arriving(l.url) /\ request[b].secret \in Secret
  BY <1>1 DEF Arriving, Request
<1>3. ConstantTimeEqual(request[b].url.signature,
          HmacSHA256Base64URL(request[b].secret, request[b].url.token))
  BY DEF Verdict, VerifySignedToken
<1>4. request[b].secret = l.secret
  BY <1>1, <1>2, <1>3, AcceptedWhole
<1> QED BY <1>4, WholeAccepted DEF Verdict

(* There is such a link, if it finds anything.                             *)
LEMMA VerdictOfLink ==
  ASSUME IInv, NEW b \in Browser, wpc[b] = "verify"
  PROVE  Verdict(b) # Nothing <=>
           \E l \in links : l.url = request[b].url /\ l.secret = request[b].secret
<1>1. /\ request[b] \in Request /\ request[b].url.signature # <<>>
      /\ \E l \in links : request[b].url \in Arriving(l.url)
  BY DEF IInv, RequestsArrived
<1>2. ASSUME Verdict(b) # Nothing
      PROVE  \E l \in links : l.url = request[b].url /\ l.secret = request[b].secret
  <2>1. PICK l \in links : request[b].url \in Arriving(l.url)
    BY <1>1
  <2>2. request[b].secret \in Secret
    BY <1>1 DEF Request
  <2>3. ConstantTimeEqual(request[b].url.signature,
            HmacSHA256Base64URL(request[b].secret, request[b].url.token))
    BY <1>2 DEF Verdict, VerifySignedToken
  <2> QED BY <1>1, <2>1, <2>2, <2>3, AcceptedWhole
<1>3. ASSUME NEW l \in links, l.url = request[b].url, l.secret = request[b].secret
      PROVE  Verdict(b) # Nothing
  <2>1. Verdict(b) = [key |-> l.key, exp |-> ExpOf(l.at)]
    BY <1>3, WholeAccepted DEF Verdict
  <2>2. l.key \in Key /\ ExpOf(l.at) \in Nat
    BY LinkType, ExpNat
  <2>3. [key |-> l.key, exp |-> ExpOf(l.at)] \in [key : Key, exp : Nat]
    BY <2>2
  <2> QED BY <2>1, <2>3
<1> QED BY <1>2, <1>3

(* What the step out of "verify" does.                                     *)
LEMMA VerifyStep ==
  ASSUME IInv, [Next]_vars, NEW b \in Browser, wpc[b] = "verify", wpc'[b] # "verify"
  PROVE  /\ UNCHANGED <<links, clock, skew>>
         /\ \/ /\ Verdict(b) = Nothing
               /\ wpc'[b] = "idle" /\ answer'[b] = "invalid token"
            \/ /\ Verdict(b) # Nothing
               /\ Expired(Verdict(b), (clock + skew) \div Second)
               /\ wpc'[b] = "idle" /\ answer'[b] = "expired"
            \/ /\ Verdict(b) # Nothing
               /\ ~Expired(Verdict(b), (clock + skew) \div Second)
               /\ wpc'[b] = "get" /\ payload'[b] = Verdict(b)
<1>1. ~UNCHANGED wpc
  OBVIOUS
<1>2. PICK c \in Browser : Visit(c)
  BY <1>1 DEF Next, Tick, Deploy, Put, Delete, Sign, browserVars, vars
<1>3. UNCHANGED <<links, clock, skew>>
  BY <1>2 DEF Visit
<1>4. c = b
  <2>1. \A status : Say(c, status) => wpc' = [wpc EXCEPT ![c] = "idle"]
    BY DEF Say
  <2>2. \E x : wpc' = [wpc EXCEPT ![c] = x]
    BY <1>1, <1>2, <2>1 DEF Visit, Receive, Verify, Reply, Evict
  <2> QED BY <2>2 DEF IInv, TypeOK
<1>5. Verify(b)
  BY <1>1, <1>2, <1>4 DEF Visit, Receive, Reply, Evict
<1>6. CASE Verdict(b) = Nothing
  <2>1. Say(b, "invalid token")
    BY <1>5, <1>6 DEF Verify, Verdict
  <2> QED BY <1>3, <1>6, <2>1 DEF Say, IInv, TypeOK
<1>7. CASE Verdict(b) # Nothing /\ Expired(Verdict(b), (clock + skew) \div Second)
  <2>1. Say(b, "expired")
    BY <1>5, <1>7 DEF Verify, Verdict
  <2> QED BY <1>3, <1>7, <2>1 DEF Say, IInv, TypeOK
<1>8. CASE Verdict(b) # Nothing /\ ~Expired(Verdict(b), (clock + skew) \div Second)
  <2>1. /\ payload' = [payload EXCEPT ![b] = Verdict(b)]
        /\ wpc' = [wpc EXCEPT ![b] = "get"]
    BY <1>5, <1>8 DEF Verify, Verdict
  <2> QED BY <1>3, <1>8, <2>1 DEF IInv, TypeOK
<1> QED BY <1>6, <1>7, <1>8

(* The worker takes a link exactly if it arrived whole and was signed with *)
(* the worker's secret, and opens the file it was signed for, however long *)
(* the keys: Go's encoder and the worker's decoder fit together.           *)
THEOREM LinksTakenWhole == Spec => WholeLinksOnly
<1> DEFINE Made(b) ==
             {l \in links : l.url = request[b].url /\ l.secret = request[b].secret}
           Taken == \A b \in Browser : wpc[b] = "verify" /\ wpc'[b] # "verify" =>
             /\ answer'[b] = "invalid token" /\ wpc'[b] = "idle" <=> Made(b) = {}
             /\ wpc'[b] = "get" => \E l \in Made(b) : l.key = payload'[b].key
<1>1. IInv /\ [Next]_vars => Taken
  <2> SUFFICES ASSUME IInv, [Next]_vars,
                      NEW b \in Browser, wpc[b] = "verify", wpc'[b] # "verify"
               PROVE  /\ answer'[b] = "invalid token" /\ wpc'[b] = "idle"
                           <=> Made(b) = {}
                      /\ wpc'[b] = "get" => \E l \in Made(b) : l.key = payload'[b].key
    OBVIOUS
  <2>1. Verdict(b) = Nothing <=> Made(b) = {}
    BY VerdictOfLink
  <2>2. answer'[b] = "invalid token" /\ wpc'[b] = "idle" <=> Verdict(b) = Nothing
    BY VerifyStep
  <2>3. ASSUME wpc'[b] = "get" PROVE \E l \in Made(b) : l.key = payload'[b].key
    <3>1. Verdict(b) # Nothing /\ payload'[b] = Verdict(b)
      BY <2>3, VerifyStep
    <3>2. PICK l \in links : l.url = request[b].url /\ l.secret = request[b].secret
      BY <3>1, VerdictOfLink
    <3>3. payload'[b].key = l.key
      BY <3>1, <3>2, VerdictTells
    <3> QED BY <3>2, <3>3
  <2> QED BY <2>1, <2>2, <2>3
<1>2. IInv /\ [Next]_vars => [Taken]_vars
  BY <1>1
<1> QED BY <1>2, AlwaysIInv, PTL DEF Spec, WholeLinksOnly

(* A link lives for LinkTTL seconds and dies within the next one, whatever *)
(* the length of a second in ticks, and whatever the clocks are apart.     *)
THEOREM LinksLive == Spec => LinkLifetime
<1> DEFINE Lives == \A b \in Browser, l \in links :
             wpc[b] = "verify" /\ wpc'[b] # "verify" /\ request[b].url = l.url =>
               /\ wpc'[b] = "get" => clock + skew < l.at + (LinkTTL + 1) * Second
               /\ wpc'[b] = "idle" /\ answer'[b] = "expired" =>
                    clock + skew > l.at + LinkTTL * Second
<1>1. IInv /\ [Next]_vars => Lives
  <2> SUFFICES ASSUME IInv, [Next]_vars, NEW b \in Browser, NEW l \in links,
                      wpc[b] = "verify", wpc'[b] # "verify", request[b].url = l.url
               PROVE  /\ wpc'[b] = "get" =>
                           clock + skew < l.at + (LinkTTL + 1) * Second
                      /\ wpc'[b] = "idle" /\ answer'[b] = "expired" =>
                           clock + skew > l.at + LinkTTL * Second
    OBVIOUS
  <2>1. l.at \in Nat /\ clock \in Nat /\ skew \in Int
    BY LinkType DEF IInv, TypeOK
  <2>2. PICK t \in Int : t = clock + skew
    BY <2>1
  <2>3. PICK a \in Int : a = l.at \div Second
    BY <2>1, WholeSeconds
  <2>4. PICK c \in Int : c = t \div Second
    BY WholeSeconds
  <2>5. PICK x \in Int, y \in Int, z \in Int :
          x = Second * a /\ y = LinkTTL * Second /\ z = Second * c
    OBVIOUS
  <2>6. x <= l.at /\ l.at < x + Second
    <3>1. PICK n \in Int : n = l.at
      BY <2>1
    <3>2. Second * (n \div Second) <= n /\ n < Second * (n \div Second) + Second
      BY WholeSeconds
    <3> QED BY <2>3, <2>5, <3>1, <3>2
  <2>7. z <= t /\ t < z + Second
    BY <2>4, <2>5, WholeSeconds
  <2>8. Verdict(b) # Nothing => Verdict(b).exp = a + LinkTTL
    BY <2>3, VerdictTells DEF ExpOf
  <2>9. (LinkTTL + 1) * Second = y + Second
    BY <2>5
  <2>10. ASSUME wpc'[b] = "get" PROVE clock + skew < l.at + (LinkTTL + 1) * Second
    <3>1. ~(a + LinkTTL < c)
      BY <2>2, <2>4, <2>8, <2>10, VerifyStep DEF Expired
    <3>2. Second * c <= Second * (a + LinkTTL)
      BY <3>1, MoreSeconds
    <3>3. Second * (a + LinkTTL) = x + y
      BY <2>5
    <3> QED BY <2>1, <2>2, <2>5, <2>6, <2>7, <2>9, <3>2, <3>3
  <2>11. ASSUME wpc'[b] = "idle", answer'[b] = "expired"
         PROVE  clock + skew > l.at + LinkTTL * Second
    <3>1. a + LinkTTL < c
      BY <2>2, <2>4, <2>8, <2>11, VerifyStep DEF Expired
    <3>2. Second * (a + LinkTTL + 1) <= Second * c
      BY <3>1, MoreSeconds
    <3>3. Second * (a + LinkTTL + 1) = x + y + Second
      BY <2>5
    <3>4. x + y + Second <= z
      BY <2>5, <3>2, <3>3
    <3>5. l.at + y < t
      BY <2>1, <2>6, <2>7, <3>4
    <3> QED BY <2>2, <2>5, <3>5
  <2> QED BY <2>10, <2>11
<1>2. IInv /\ [Next]_vars => [Lives]_vars
  BY <1>1
<1> QED BY <1>2, AlwaysIInv, PTL DEF Spec, LinkLifetime
=============================================================================
