--------------------------- MODULE TextGuardsProofs ---------------------------
(***************************************************************************)
(* The byte level of the adapters against TextGuards' references, for      *)
(* every text, every limit and all bounds of the integers a library holds. *)
(*                                                                         *)
(* A scanner is a loop and so is its reference.  Each theorem relates the  *)
(* two round by round (they are at the same place, or the scanner has      *)
(* refused where the reference has nothing), by induction over the number  *)
(* of rounds as a set of numbers.                                          *)
(***************************************************************************)
EXTENDS TextGuards, YajlGuardProofs, SequenceTheorems, WellFoundedInduction

(***************************************************************************)
(* Characters, escapes and items at a place of a text: the tests of the    *)
(* scanners are those of ScalarText.                                       *)
(***************************************************************************)

\* A piece of a text, byte by byte.
LEMMA PieceIs ==
    ASSUME NEW t \in Seq(Bytes), NEW i \in 1..Len(t), NEW n \in Nat \ {0},
           i + n - 1 <= Len(t)
    PROVE  /\ Piece(t, i, n) \in Seq(Bytes)
           /\ Len(Piece(t, i, n)) = n
           /\ \A j \in 1..n : Piece(t, i, n)[j] = t[i + j - 1]
<1>1. PICK k \in Int : k = i + n - 1
  OBVIOUS
<1>2. Len(SubSeq(t, i, k)) = n /\ SubSeq(t, i, k) \in Seq(Bytes)
      /\ \A j \in 1..n : SubSeq(t, i, k)[j] = t[i + j - 1]
  BY <1>1
<1> QED
  BY <1>1, <1>2, Zenon DEF Piece

\* The length a first byte announces, by ranges.
LEMMA LeadLengthIs ==
    ASSUME NEW c \in Bytes
    PROVE  LeadLength(c) = IF c <= 127 THEN 1 ELSE IF c <= 193 THEN 0
                           ELSE IF c <= 223 THEN 2 ELSE IF c <= 239 THEN 3
                           ELSE IF c <= 244 THEN 4 ELSE 0
BY SMT DEF LeadLength, Bytes

\* A scalar value, by the number of bytes it takes.
Scalars(p, n) ==
    /\ (IF n = 1 THEN 0 ELSE IF n = 2 THEN 128 ELSE IF n = 3 THEN 2048 ELSE 65536) <= p
    /\ p <= 1114111 /\ p \notin High \cup Low

\* The code points of a character of n bytes, as the scanner compares them.
LEMMA ScalarsAre ==
    ASSUME NEW p \in Nat, NEW n \in 1..4
    PROVE  /\ Scalars(p, n) <=> /\ p >= <<0, 128, 2048, 65536>>[n]
                                /\ p <= 1114111 /\ p \notin High \cup Low
           /\ Scalars(p, n) <=>
                /\ (IF n = 1 THEN 0 ELSE IF n = 2 THEN 128 ELSE IF n = 3 THEN 2048 ELSE 65536) <= p
                /\ p <= 1114111 /\ (p < 55296 \/ 57343 < p)
<1>1. p \notin High \cup Low <=> (p < 55296 \/ 57343 < p)
  BY SMT DEF High, Low
<1>2. <<0, 128, 2048, 65536>>[n]
      = IF n = 1 THEN 0 ELSE IF n = 2 THEN 128 ELSE IF n = 3 THEN 2048 ELSE 65536
  BY SMT
<1> QED
  BY <1>1, <1>2, SMT DEF Scalars

\* The bytes after the first are 128..191.
LEMMA ContinuesIs ==
    ASSUME NEW c
    PROVE  Continues(c) <=> c \in Int /\ 128 <= c /\ c <= 191
BY DEF Continues

\* The payload of three bytes fits sixteen bits.
LEMMA ThreeBytes ==
    ASSUME NEW a \in Int, NEW b \in Int, NEW c \in Int, 224 <= a, a <= 239,
           128 <= b, b <= 191, 128 <= c, c <= 191
    PROVE  /\ ((a - 224) * 64 + (b - 128)) * 64 + (c - 128) \in Nat
           /\ ((a - 224) * 64 + (b - 128)) * 64 + (c - 128) <= 65535
BY SMT

\* The code point of four bytes.
Four(a, b, c, d) == (((a - 240) * 64 + (b - 128)) * 64 + (c - 128)) * 64 + (d - 128)
FourLead(p, a) == p \in Nat /\ (p <= 1114111 => a <= 244)

\* A payload of four bytes within Unicode has a first byte up to 244.
LEMMA FourBytes ==
    ASSUME NEW a \in Int, NEW b \in Int, NEW c \in Int, NEW d \in Int, 240 <= a, a <= 247,
           128 <= b, b <= 191, 128 <= c, c <= 191, 128 <= d, d <= 191
    PROVE  FourLead(Four(a, b, c, d), a)
BY SMT DEF Four, FourLead

\* The bytes of a character, one by one.
LEMMA CharacterIs ==
    ASSUME NEW s \in Seq(Bytes), NEW n \in 1..4, Len(s) = n
    PROVE  /\ IsCharacter(s) <=> /\ LeadLength(s[1]) = n
                                 /\ \A j \in 2..n : Continues(s[j])
                                 /\ Scalars(Payload(s), n)
           /\ LeadLength(s[1]) = n /\ (\A j \in 2..n : Continues(s[j])) => Payload(s) \in Nat
<1>1. Payload(s) = Payloads(s, n)[n]
  BY PayloadIs
<1>2. \A j \in 1..n : s[j] \in Bytes
  OBVIOUS
<1>3. PICK a \in Int : a = s[1] /\ 0 <= a /\ a <= 255
  BY <1>2 DEF Bytes
<1>l. LeadLength(a) = IF a <= 127 THEN 1 ELSE IF a <= 193 THEN 0
                      ELSE IF a <= 223 THEN 2 ELSE IF a <= 239 THEN 3
                      ELSE IF a <= 244 THEN 4 ELSE 0
  BY <1>3, LeadLengthIs, SMT DEF Bytes
<1>e. EncodedLength(a) = IF a <= 127 THEN 1 ELSE IF a <= 191 THEN 0
                         ELSE IF a <= 223 THEN 2 ELSE IF a <= 239 THEN 3
                         ELSE IF a <= 247 THEN 4 ELSE 0
  BY <1>3, EncodedLengthIs
<1>4. IsCharacter(s) <=> /\ EncodedLength(a) = n
                         /\ \A j \in 2..n : Continues(s[j])
                         /\ Within(Payload(s), n, n)
  <2>1. Completable(s) <=>
             LET m == EncodedLength(s[1]) IN
             /\ m # 0 /\ n <= m
             /\ \A i \in 2..n : Continues(s[i])
             /\ Within(Payloads(s, n)[n], m, n)
    BY CompletableIs
  <2> QED
    BY <1>1, <1>3, <2>1 DEF IsCharacter
<1>5. SUFFICES ASSUME \A j \in 2..n : Continues(s[j]),
                      EncodedLength(a) = n
               PROVE  /\ Payload(s) \in Nat
                      /\ Within(Payload(s), n, n) <=> LeadLength(a) = n /\ Scalars(Payload(s), n)
  <2>1. LeadLength(a) = n => EncodedLength(a) = n
    BY <1>3, <1>l, <1>e
  <2> QED
    BY <1>3, <1>4, <2>1
<1>6. CASE n = 1
  <2>1. Payload(s) = a
    <3>1. Payload(s) = Payload1(s)
      BY <1>1, <1>6 DEF Payloads
    <3> QED
      BY <1>3, <1>5, <1>6, <1>e, <3>1, Payload1Is, SMT
  <2> QED
    BY <1>3, <1>5, <1>6, <1>e, <1>l, <2>1, WithinIs, ScalarsAre, SMT
<1>7. CASE n = 2
  <2>1. PICK b \in Int : b = s[2] /\ 128 <= b /\ b <= 191
    <3>1. Continues(s[2])
      BY <1>5, <1>7
    <3>2. s[2] \in Int /\ 128 <= s[2] /\ s[2] <= 191
      BY <3>1, ContinuesIs, Zenon
    <3> QED
      BY <3>2
  <2>2. Payload(s) = (a - 192) * 64 + (b - 128)
    <3>1. Payload(s) = Payload2(s)
      BY <1>1, <1>7 DEF Payloads
    <3>2. Payload1(s) = a - 192
      BY <1>3, <1>5, <1>7, <1>e, Payload1Is, SMT
    <3> QED
      BY <2>1, <3>1, <3>2 DEF Payload2, More
  <2>3. PICK p \in Int : p = (a - 192) * 64 + (b - 128)
    OBVIOUS
  <2>a. 192 <= a /\ a <= 223
    <3>1. EncodedLength(a) = 2
      BY <1>5, <1>7
    <3> QED
      BY <1>3, <1>e, <3>1
  <2>4. p \in Nat
    BY <2>1, <2>3, <2>a, SMT
  <2>5. 128 <= p /\ p <= 2047 <=> 194 <= a /\ 128 <= p /\ p <= 1114111 /\ (p < 55296 \/ 57343 < p)
    BY <2>1, <2>3, <2>4, <2>a, SMTT(30)
  <2> QED
    BY <1>7, <1>l, <2>2, <2>3, <2>4, <2>a, <2>5, WithinIs, ScalarsAre, SMT
<1>8. CASE n = 3
  <2>1. PICK b \in Int, c \in Int : /\ b = s[2] /\ 128 <= b /\ b <= 191
                                    /\ c = s[3] /\ 128 <= c /\ c <= 191
    <3>1. Continues(s[2]) /\ Continues(s[3])
      BY <1>5, <1>8
    <3>2. /\ s[2] \in Int /\ 128 <= s[2] /\ s[2] <= 191
          /\ s[3] \in Int /\ 128 <= s[3] /\ s[3] <= 191
      BY <3>1, ContinuesIs, Zenon
    <3> QED
      BY <3>2
  <2>2. Payload(s) = ((a - 224) * 64 + (b - 128)) * 64 + (c - 128)
    <3>1. Payload(s) = Payload3(s)
      BY <1>1, <1>8 DEF Payloads
    <3>2. Payload1(s) = a - 224
      BY <1>3, <1>5, <1>8, <1>e, Payload1Is, SMT
    <3> QED
      BY <2>1, <3>1, <3>2 DEF Payload2, Payload3, More
  <2>3. PICK p \in Int : p = ((a - 224) * 64 + (b - 128)) * 64 + (c - 128)
    OBVIOUS
  <2>a. 224 <= a /\ a <= 239
    <3>1. EncodedLength(a) = 3
      BY <1>5, <1>8
    <3> QED
      BY <1>3, <1>e, <3>1
  <2>4. p \in Nat /\ p <= 65535
    <3>1. /\ ((a - 224) * 64 + (b - 128)) * 64 + (c - 128) \in Nat
          /\ ((a - 224) * 64 + (b - 128)) * 64 + (c - 128) <= 65535
      BY <2>1, <2>a, ThreeBytes, SMTT(30)
    <3> QED
      BY <2>3, <3>1
  <2> QED
    BY <1>8, <1>l, <2>2, <2>3, <2>4, <2>a, WithinIs, ScalarsAre, SMT
<1>9. CASE n = 4
  <2>1. PICK b \in Int, c \in Int, d \in Int :
               /\ b = s[2] /\ 128 <= b /\ b <= 191
               /\ c = s[3] /\ 128 <= c /\ c <= 191
               /\ d = s[4] /\ 128 <= d /\ d <= 191
    <3>1. Continues(s[2]) /\ Continues(s[3]) /\ Continues(s[4])
      BY <1>5, <1>9
    <3>2. /\ s[2] \in Int /\ 128 <= s[2] /\ s[2] <= 191
          /\ s[3] \in Int /\ 128 <= s[3] /\ s[3] <= 191
          /\ s[4] \in Int /\ 128 <= s[4] /\ s[4] <= 191
      BY <3>1, ContinuesIs, Zenon
    <3> QED
      BY <3>2
  <2>2. Payload(s) = Four(a, b, c, d)
    <3>1. Payload(s) = Payload4(s)
      BY <1>1, <1>9 DEF Payloads
    <3>2. Payload1(s) = a - 240
      BY <1>3, <1>5, <1>9, <1>e, Payload1Is, SMT
    <3> QED
      BY <2>1, <3>1, <3>2 DEF Payload2, Payload3, Payload4, More, Four
  <2>3. PICK p \in Int : p = Four(a, b, c, d)
    BY DEF Four
  <2>a. 240 <= a /\ a <= 247
    <3>1. EncodedLength(a) = 4
      BY <1>5, <1>9
    <3> QED
      BY <1>3, <1>e, <3>1
  <2>b. FourLead(p, a)
    <3>1. FourLead(Four(a, b, c, d), a)
      BY <2>1, <2>a, FourBytes, Zenon
    <3> QED
      BY <2>3, <3>1, Zenon
  <2>4. p \in Nat
    BY <2>b DEF FourLead
  <2>5. 65536 <= p /\ p <= 1114111 => a <= 244
    BY <2>b, SMT DEF FourLead
  <2> QED
    BY <1>9, <1>l, <2>2, <2>3, <2>4, <2>a, <2>5, WithinIs, ScalarsAre, SMT
<1> QED
  BY <1>6, <1>7, <1>8, <1>9

\* The scanner's test of a character is ScalarText's.
LEMMA CharactersAre ==
    ASSUME NEW t \in Seq(Bytes), NEW i \in 1..Len(t)
    PROVE  Characters(t, i) = {n \in 1..4 : i + n - 1 <= Len(t) /\ IsCharacter(Piece(t, i, n))}
BY DEF Characters, Lengths

\* The characters at a place of a text: one, of the length the scanner finds, or
\* none when it refuses.
LEMMA CharactersHere ==
    ASSUME NEW t \in Seq(Bytes), NEW i \in 1..Len(t)
    PROVE  /\ Utf8Length(t, i) \in 0..4
           /\ Utf8Length(t, i) # 0 => i + Utf8Length(t, i) - 1 <= Len(t)
           /\ Characters(t, i) = IF Utf8Length(t, i) = 0 THEN {} ELSE {Utf8Length(t, i)}
<1> DEFINE n == LeadLength(t[i])
           Good == /\ n # 0 /\ i + n - 1 <= Len(t)
                   /\ \A j \in i + 1..i + n - 1 : Continues(t[j])
                   /\ Scalars(Payload(Piece(t, i, n)), n)
<1>0. t[i] \in Bytes
  OBVIOUS
<1>1. n \in 0..4
  BY <1>0, LeadLengthIs, SMT DEF Bytes
<1>2. ASSUME NEW m \in 1..4, i + m - 1 <= Len(t)
      PROVE  IsCharacter(Piece(t, i, m)) <=>
                /\ n = m
                /\ \A j \in i + 1..i + m - 1 : Continues(t[j])
                /\ Scalars(Payload(Piece(t, i, m)), m)
  <2> DEFINE s == Piece(t, i, m)
  <2>1. s \in Seq(Bytes) /\ Len(s) = m /\ \A j \in 1..m : s[j] = t[i + j - 1]
    <3>1. m \in Nat \ {0}
      OBVIOUS
    <3> QED
      BY <1>2, <3>1, PieceIs, SMTT(30)
  <2>2. IsCharacter(s) <=> /\ LeadLength(s[1]) = m
                           /\ \A j \in 2..m : Continues(s[j])
                           /\ Scalars(Payload(s), m)
    <3> HIDE DEF s
    <3> QED
      BY <2>1, CharacterIs
  <2> HIDE DEF s
  <2>3. s[1] = t[i]
    BY <2>1
  <2>4. (\A j \in 2..m : Continues(s[j])) <=> \A j \in i + 1..i + m - 1 : Continues(t[j])
    <3>1. ASSUME \A j \in 2..m : Continues(s[j]), NEW j \in i + 1..i + m - 1
          PROVE  Continues(t[j])
      <4>1. PICK k \in 2..m : k = j - i + 1
        OBVIOUS
      <4>2. s[k] = t[j]
        <5>1. j = i + k - 1
          BY <4>1
        <5> QED
          BY <2>1, <5>1
      <4> QED
        BY <3>1, <4>2
    <3>2. ASSUME \A j \in i + 1..i + m - 1 : Continues(t[j]), NEW j \in 2..m
          PROVE  Continues(s[j])
      <4>1. PICK k \in i + 1..i + m - 1 : k = i + j - 1
        OBVIOUS
      <4> QED
        BY <2>1, <3>2, <4>1
    <3> QED
      BY <3>1, <3>2
  <2> QED
    BY <2>2, <2>3, <2>4 DEF s
<1>3. Utf8Length(t, i) = IF Good THEN n ELSE 0
  <2>1. CASE ~(n # 0 /\ i + n - 1 <= Len(t) /\ \A j \in i + 1..i + n - 1 : Continues(t[j]))
    BY <2>1 DEF Utf8Length, Continues
  <2>2. CASE n # 0 /\ i + n - 1 <= Len(t) /\ \A j \in i + 1..i + n - 1 : Continues(t[j])
    <3> DEFINE p == Payload(Piece(t, i, n))
    <3>1. Utf8Length(t, i) = IF /\ p >= <<0, 128, 2048, 65536>>[n] /\ p <= 1114111
                                /\ p \notin High \cup Low
                             THEN n ELSE 0
      BY <2>2 DEF Utf8Length, Continues, Piece
    <3>2. p \in Nat
      <4> DEFINE s == Piece(t, i, n)
      <4>1. s \in Seq(Bytes) /\ Len(s) = n /\ n \in 1..4 /\ \A j \in 1..n : s[j] = t[i + j - 1]
        <5> HIDE DEF n
        <5>1. n \in 1..4 /\ n \in Nat \ {0} /\ i + n - 1 <= Len(t)
          BY <1>1, <2>2
        <5> QED
          BY <5>1, PieceIs, Zenon
      <4>2. \A j \in 2..n : Continues(s[j])
        <5> SUFFICES ASSUME NEW j \in 2..n PROVE Continues(s[j])
          OBVIOUS
        <5>1. PICK k \in i + 1..i + n - 1 : k = i + j - 1
          BY <4>1
        <5>2. s[j] = t[k]
          BY <4>1, <5>1
        <5> HIDE DEF s
        <5> QED
          BY <2>2, <5>2
      <4> HIDE DEF s
      <4>3. s[1] = t[i]
        BY <4>1
      <4> QED
        BY <2>2, <4>3, <4>1, <4>2, CharacterIs DEF s
    <3> QED
      BY <1>1, <2>2, <3>1, <3>2, ScalarsAre, SMTT(30)
  <2> QED
    BY <2>1, <2>2
<1> HIDE DEF n
<1>4. ASSUME NEW m \in 1..4
      PROVE  m \in Characters(t, i) <=> m = n /\ Good
  BY <1>2, CharactersAre
<1> QED
  BY <1>1, <1>3, <1>4, CharactersAre

HexAt(t, i) == IsHex(t[i]) /\ IsHex(t[i + 1]) /\ IsHex(t[i + 2]) /\ IsHex(t[i + 3])

\* Four digits are a code unit.
LEMMA UnitIs ==
    ASSUME NEW t \in Seq(Bytes), NEW i \in 1..Len(t), i + 3 <= Len(t), HexAt(t, i)
    PROVE  Unit(t, i) \in Nat /\ Unit(t, i) <= 65535
<1>1. /\ t[i] \in Bytes /\ t[i + 1] \in Bytes /\ t[i + 2] \in Bytes /\ t[i + 3] \in Bytes
  OBVIOUS
<1>2. /\ Digit(t[i]) \in Nat /\ Digit(t[i]) <= 15
      /\ Digit(t[i + 1]) \in Nat /\ Digit(t[i + 1]) <= 15
      /\ Digit(t[i + 2]) \in Nat /\ Digit(t[i + 2]) <= 15
      /\ Digit(t[i + 3]) \in Nat /\ Digit(t[i + 3]) <= 15
  <2>1. /\ t[i] \in Nat /\ t[i + 1] \in Nat /\ t[i + 2] \in Nat /\ t[i + 3] \in Nat
    BY <1>1 DEF Bytes
  <2> QED
    BY <2>1, DigitIs DEF HexAt
<1>3. PICK x \in Int, y \in Int, z \in Int, d \in Int :
             /\ x = Digit(t[i]) /\ y = Digit(t[i + 1])
             /\ z = Digit(t[i + 2]) /\ d = Digit(t[i + 3])
             /\ 0 <= x /\ x <= 15 /\ 0 <= y /\ y <= 15
             /\ 0 <= z /\ z <= 15 /\ 0 <= d /\ d <= 15
  BY <1>2
<1>4. Unit(t, i) = x * 4096 + y * 256 + z * 16 + d
  BY <1>3 DEF Unit
<1>5. /\ x * 4096 + y * 256 + z * 16 + d \in Nat
      /\ x * 4096 + y * 256 + z * 16 + d <= 65535
  <2>1. /\ 0 <= x /\ x <= 15 /\ 0 <= y /\ y <= 15
        /\ 0 <= z /\ z <= 15 /\ 0 <= d /\ d <= 15
    BY <1>3, Zenon
  <2> QED
    BY <2>1, SMT
<1> QED
  BY <1>4, <1>5

\* No code unit is a high and a low surrogate.
LEMMA SurrogatesAre ==
    /\ High = HighSurrogates /\ Low = LowSurrogates
    /\ -1 \notin High /\ -1 \notin Low
    /\ \A u \in Int : ~(u \in High /\ u \in Low)
<1>1. High = HighSurrogates /\ Low = LowSurrogates
  BY DEF High, Low, HighSurrogates, LowSurrogates
<1>2. -1 \notin High /\ -1 \notin Low
  BY SMT DEF High, Low
<1>3. \A u \in Int : ~(u \in High /\ u \in Low)
  BY <1>1, Surrogates
<1> QED
  BY <1>1, <1>2, <1>3

\* A code unit is four hexadecimal digits within the text, or -1.
LEMMA CodeUnitIs ==
    ASSUME NEW t \in Seq(Bytes), NEW i \in Nat \ {0}
    PROVE  /\ CodeUnit(t, i) \in Int
           /\ CodeUnit(t, i) # -1 <=> i + 3 <= Len(t) /\ HexAt(t, i)
           /\ i + 3 <= Len(t) /\ HexAt(t, i) => /\ CodeUnit(t, i) = Unit(t, i)
                                                /\ Unit(t, i) \in Nat /\ Unit(t, i) <= 65535
<1>1. ASSUME i + 3 <= Len(t)
      PROVE  (\A j \in i..i + 3 : IsHex(t[j])) <=> HexAt(t, i)
  <2>1. \A j \in i..i + 3 : j = i \/ j = i + 1 \/ j = i + 2 \/ j = i + 3
    OBVIOUS
  <2>2. i \in i..i + 3 /\ i + 1 \in i..i + 3 /\ i + 2 \in i..i + 3 /\ i + 3 \in i..i + 3
    OBVIOUS
  <2> QED
    BY <2>1, <2>2, Zenon DEF HexAt
<1>2. CodeUnit(t, i) = IF i + 3 <= Len(t) /\ HexAt(t, i) THEN Unit(t, i) ELSE -1
  BY <1>1 DEF CodeUnit
<1>3. ASSUME i + 3 <= Len(t), HexAt(t, i) PROVE Unit(t, i) \in Nat /\ Unit(t, i) <= 65535
  BY <1>3, UnitIs
<1> QED
  BY <1>2, <1>3

\* Complete escapes of each length, byte by byte.
LEMMA EscapeIs ==
    ASSUME NEW s \in Seq(Bytes)
    PROVE  /\ Len(s) = 2 => (IsEscape(s) <=> s[1] = Backslash /\ s[2] # LetterU)
           /\ Len(s) = 6 => (IsEscape(s) <=>
                /\ s[1] = Backslash /\ s[2] = LetterU /\ HexAt(s, 3)
                /\ Unit(s, 3) \notin Low /\ Unit(s, 3) \notin High)
           /\ Len(s) = 12 => (IsEscape(s) <=>
                /\ s[1] = Backslash /\ s[2] = LetterU /\ HexAt(s, 3)
                /\ Unit(s, 3) \notin Low /\ Unit(s, 3) \in High
                /\ s[7] = Backslash /\ s[8] = LetterU /\ HexAt(s, 9)
                /\ Unit(s, 9) \in Low)
<1>1. Escaping(s) <=>
             /\ Len(s) >= 1 => s[1] = Backslash
             /\ Len(s) > 2 => s[2] = LetterU
             /\ \A i \in 1..Len(s) : DigitPlace(i) => IsHex(s[i])
             /\ Len(s) >= 6 => Unit(s, 3) \notin LowSurrogates
             /\ Len(s) > 6 => Unit(s, 3) \in HighSurrogates
             /\ Len(s) >= 7 => s[7] = Backslash
             /\ Len(s) >= 8 => s[8] = LetterU
             /\ Len(s) >= 12 => Unit(s, 9) \in LowSurrogates
  BY EscapingIs
<1>2. IsEscape(s) <=>
        /\ Escaping(s)
        /\ \/ Len(s) = 2 /\ s[2] # LetterU
           \/ Len(s) = 6 /\ Unit(s, 3) \notin HighSurrogates
           \/ Len(s) = 12
  BY Zenon DEF IsEscape
<1>3. CASE Len(s) = 2
  <2>1. \A i \in 1..Len(s) : ~DigitPlace(i)
    BY <1>3 DEF DigitPlace
  <2> QED
    BY <1>1, <1>2, <1>3, <2>1
<1>4. CASE Len(s) = 6
  <2>1. (\A i \in 1..Len(s) : DigitPlace(i) => IsHex(s[i])) <=> HexAt(s, 3)
    BY <1>4 DEF DigitPlace, HexAt
  <2> QED
    BY <1>1, <1>2, <1>4, <2>1, SurrogatesAre
<1>5. CASE Len(s) = 12
  <2>1. (\A i \in 1..Len(s) : DigitPlace(i) => IsHex(s[i])) <=> HexAt(s, 3) /\ HexAt(s, 9)
    <3>1. \A i \in 1..12 : DigitPlace(i) => i \in {3, 4, 5, 6, 9, 10, 11, 12}
      BY DEF DigitPlace
    <3>2. \A i \in {3, 4, 5, 6, 9, 10, 11, 12} : i \in 1..12 /\ DigitPlace(i)
      BY DEF DigitPlace
    <3>3. HexAt(s, 3) /\ HexAt(s, 9) <=> \A i \in {3, 4, 5, 6, 9, 10, 11, 12} : IsHex(s[i])
      BY DEF HexAt
    <3> QED
      BY <1>5, <3>1, <3>2, <3>3
  <2> QED
    BY <1>1, <1>2, <1>5, <2>1, SurrogatesAre
<1> QED
  BY <1>3, <1>4, <1>5

\* How long the escape at a place is; 0 if there is none.
EscapeBytes(t, i) ==
    IF i = Len(t) THEN 0
    ELSE IF t[i + 1] # LetterU THEN 2
    ELSE IF CodeUnit(t, i + 2) \notin High \cup Low \cup {-1} THEN 6
    ELSE IF CodeUnit(t, i + 2) \in High /\ Paired(t, i + 6) THEN 12 ELSE 0

\* The lengths of an escape: a letter, one code unit, two code units.
LEMMA EscapeEndIs ==
    ASSUME NEW t \in Seq(Bytes), NEW i \in 1..Len(t)
    PROVE  EscapeEnd(t, i) = IF i = Len(t) THEN i + 1
                             ELSE IF EscapeBytes(t, i) = 0 THEN 0 ELSE i + EscapeBytes(t, i)
<1> DEFINE u == CodeUnit(t, i + 2)
<1>1. u \in Int
  BY CodeUnitIs
<1>2. /\ u \in High => u \notin Low \cup {-1}
      /\ u \in Low \cup {-1} => u \notin High
      /\ u \notin High \cup Low \cup {-1} <=> u \notin High /\ u \notin Low \cup {-1}
  BY <1>1, SurrogatesAre
<1>3. /\ EscapeBytes(t, i) = IF i = Len(t) THEN 0
                             ELSE IF t[i + 1] # LetterU THEN 2
                             ELSE IF u \notin High \cup Low \cup {-1} THEN 6
                             ELSE IF u \in High /\ Paired(t, i + 6) THEN 12 ELSE 0
      /\ EscapeEnd(t, i) = IF i = Len(t) THEN i + 1
                           ELSE IF t[i + 1] # LetterU THEN i + 2
                           ELSE CASE u \in Low \cup {-1} -> 0
                                  [] u \in High -> IF Paired(t, i + 6) THEN i + 12 ELSE 0
                                  [] u \notin High \cup Low \cup {-1} -> i + 6
  BY Zenon DEF EscapeBytes, EscapeEnd
<1> HIDE DEF u
<1>4. CASE i = Len(t)
  BY <1>3, <1>4
<1>5. CASE i # Len(t) /\ t[i + 1] # LetterU
  BY <1>3, <1>5
<1>6. CASE i # Len(t) /\ t[i + 1] = LetterU
  <2>1. CASE u \in High
    BY <1>2, <1>3, <1>6, <2>1
  <2>2. CASE u \in Low \cup {-1}
    BY <1>2, <1>3, <1>6, <2>2
  <2>3. CASE u \notin High \cup Low \cup {-1}
    BY <1>2, <1>3, <1>6, <2>3
  <2> QED
    BY <1>2, <2>1, <2>2, <2>3
<1> QED
  BY <1>4, <1>5, <1>6

\* Escapes of each length at a place.
LEMMA EscapeAt ==
    ASSUME NEW t \in Seq(Bytes), NEW i \in 1..Len(t), t[i] = Backslash,
           NEW n \in {2, 6, 12}
    PROVE  i + n - 1 <= Len(t) /\ IsEscape(Piece(t, i, n)) <=> EscapeBytes(t, i) = n
<1> DEFINE u == CodeUnit(t, i + 2)
           v == CodeUnit(t, i + 8)
           s == Piece(t, i, n)
<1>b. EscapeBytes(t, i) = IF i = Len(t) THEN 0
                          ELSE IF t[i + 1] # LetterU THEN 2
                          ELSE IF u \notin High \cup Low \cup {-1} THEN 6
                          ELSE IF u \in High /\ Paired(t, i + 6) THEN 12 ELSE 0
  BY Zenon DEF EscapeBytes
<1>u. /\ u \in Int
      /\ u # -1 <=> i + 5 <= Len(t) /\ HexAt(t, i + 2)
      /\ i + 5 <= Len(t) /\ HexAt(t, i + 2) => u = Unit(t, i + 2)
      /\ i + 5 <= Len(t) /\ HexAt(t, i + 2) => Unit(t, i + 2) \in Int
  <2>1. PICK k \in Nat \ {0} : k = i + 2
    OBVIOUS
  <2>2. k + 3 = i + 5
    BY <2>1
  <2> QED
    BY <2>1, <2>2, CodeUnitIs
<1>v. /\ v \in Int
      /\ v # -1 <=> i + 11 <= Len(t) /\ HexAt(t, i + 8)
      /\ i + 11 <= Len(t) /\ HexAt(t, i + 8) => v = Unit(t, i + 8)
  <2>1. PICK k \in Nat \ {0} : k = i + 8
    OBVIOUS
  <2>2. k + 3 = i + 11
    BY <2>1
  <2> QED
    BY <2>1, <2>2, CodeUnitIs
<1>p. Paired(t, i + 6) <=> /\ i + 11 <= Len(t) /\ t[i + 6] = Backslash
                           /\ t[i + 7] = LetterU /\ v \in Low
  BY DEF Paired
<1>s. ASSUME i + n - 1 <= Len(t)
      PROVE  /\ s \in Seq(Bytes) /\ Len(s) = n
             /\ \A j \in 1..n : s[j] = t[i + j - 1]
  BY <1>s, PieceIs
<1>e. ASSUME i + n - 1 <= Len(t)
      PROVE  /\ n = 2 => (IsEscape(s) <=> s[1] = Backslash /\ s[2] # LetterU)
             /\ n = 6 => (IsEscape(s) <=>
                /\ s[1] = Backslash /\ s[2] = LetterU /\ HexAt(s, 3)
                /\ Unit(s, 3) \notin Low /\ Unit(s, 3) \notin High)
             /\ n = 12 => (IsEscape(s) <=>
                /\ s[1] = Backslash /\ s[2] = LetterU /\ HexAt(s, 3)
                /\ Unit(s, 3) \notin Low /\ Unit(s, 3) \in High
                /\ s[7] = Backslash /\ s[8] = LetterU /\ HexAt(s, 9)
                /\ Unit(s, 9) \in Low)
  <2> HIDE DEF s
  <2> QED
    BY <1>e, <1>s, EscapeIs
<1> HIDE DEF s, u, v
<1>1. CASE n = 2
  <2>1. ASSUME i + 1 <= Len(t) PROVE s[1] = t[i] /\ s[2] = t[i + 1]
    <3>1. i + n - 1 <= Len(t)
      BY <1>1, <2>1
    <3>2. s[1] = t[i + 1 - 1] /\ s[2] = t[i + 2 - 1]
      BY <1>1, <1>s, <3>1
    <3> QED
      BY <3>2
  <2>2. i # Len(t) <=> i + 1 <= Len(t)
    OBVIOUS
  <2> QED
    BY <1>1, <1>b, <1>e, <2>1, <2>2 DEF s
<1>2. ASSUME n = 6 \/ n = 12, i + n - 1 <= Len(t)
      PROVE  /\ s[1] = t[i] /\ s[2] = t[i + 1]
             /\ HexAt(s, 3) <=> HexAt(t, i + 2)
             /\ Unit(s, 3) = Unit(t, i + 2)
             /\ i + 5 <= Len(t)
  <2>0. \A j \in 1..6 : s[j] = t[i + j - 1]
    BY <1>2, <1>s
  <2>1. /\ s[1] = t[i + 1 - 1] /\ s[2] = t[i + 2 - 1] /\ s[3] = t[i + 3 - 1]
        /\ s[4] = t[i + 4 - 1] /\ s[5] = t[i + 5 - 1] /\ s[6] = t[i + 6 - 1]
    BY <2>0
  <2>2. /\ i + 1 - 1 = i /\ i + 2 - 1 = i + 1 /\ i + 3 - 1 = i + 2
        /\ i + 4 - 1 = i + 2 + 1 /\ i + 5 - 1 = i + 2 + 2 /\ i + 6 - 1 = i + 2 + 3
    OBVIOUS
  <2>3. /\ s[1] = t[i] /\ s[2] = t[i + 1] /\ s[3] = t[i + 2]
        /\ s[3 + 1] = t[i + 2 + 1] /\ s[3 + 2] = t[i + 2 + 2] /\ s[3 + 3] = t[i + 2 + 3]
    BY <2>1, <2>2
  <2>4. i + 5 <= Len(t)
    BY <1>2
  <2>5. HexAt(s, 3) <=> HexAt(t, i + 2)
    BY <2>3 DEF HexAt
  <2>6. Unit(s, 3) = Unit(t, i + 2)
    BY <2>3 DEF Unit
  <2> QED
    BY <2>3, <2>4, <2>5, <2>6
<1>3. CASE n = 6
  <2>1. ASSUME i + 5 <= Len(t)
        PROVE  IsEscape(s) <=> /\ t[i + 1] = LetterU /\ HexAt(t, i + 2)
                               /\ Unit(t, i + 2) \notin Low /\ Unit(t, i + 2) \notin High
    <3>1. i + n - 1 <= Len(t)
      BY <1>3, <2>1
    <3> QED
      BY <1>2, <1>3, <1>e, <3>1
  <2>2. EscapeBytes(t, i) = 6 <=> i # Len(t) /\ t[i + 1] = LetterU
                                  /\ u \notin High \cup Low \cup {-1}
    BY <1>b
  <2>3. u \notin High \cup Low \cup {-1} <=> u # -1 /\ u \notin High /\ u \notin Low
    OBVIOUS
  <2> QED
    BY <1>3, <1>u, <2>1, <2>2, <2>3 DEF s
<1>4. CASE n = 12
  <2>1. ASSUME i + 11 <= Len(t)
        PROVE  IsEscape(s) <=> /\ t[i + 1] = LetterU /\ HexAt(t, i + 2)
                               /\ Unit(t, i + 2) \notin Low /\ Unit(t, i + 2) \in High
                               /\ t[i + 6] = Backslash /\ t[i + 7] = LetterU
                               /\ HexAt(t, i + 8) /\ Unit(t, i + 8) \in Low
    <3>1. i + n - 1 <= Len(t)
      BY <1>4, <2>1
    <3>2. \A j \in 1..12 : s[j] = t[i + j - 1]
      BY <1>4, <3>1, <1>s
    <3>3. /\ s[7] = t[i + 7 - 1] /\ s[8] = t[i + 8 - 1] /\ s[9] = t[i + 9 - 1]
          /\ s[10] = t[i + 10 - 1] /\ s[11] = t[i + 11 - 1] /\ s[12] = t[i + 12 - 1]
      BY <3>2
    <3>4. /\ i + 7 - 1 = i + 6 /\ i + 8 - 1 = i + 7 /\ i + 9 - 1 = i + 8
          /\ i + 10 - 1 = i + 8 + 1 /\ i + 11 - 1 = i + 8 + 2 /\ i + 12 - 1 = i + 8 + 3
      OBVIOUS
    <3>5. /\ s[7] = t[i + 6] /\ s[8] = t[i + 7] /\ s[9] = t[i + 8]
          /\ s[9 + 1] = t[i + 8 + 1] /\ s[9 + 2] = t[i + 8 + 2] /\ s[9 + 3] = t[i + 8 + 3]
      BY <3>3, <3>4
    <3>6. /\ HexAt(s, 9) <=> HexAt(t, i + 8)
          /\ Unit(s, 9) = Unit(t, i + 8)
      <4>1. HexAt(s, 9) <=> HexAt(t, i + 8)
        BY <3>5 DEF HexAt
      <4>2. Unit(s, 9) = Unit(t, i + 8)
        BY <3>5 DEF Unit
      <4> QED
        BY <4>1, <4>2
    <3> QED
      BY <1>2, <1>4, <1>e, <3>1, <3>5, <3>6
  <2>2. EscapeBytes(t, i) = 12 <=> /\ i # Len(t) /\ t[i + 1] = LetterU
                                   /\ u \in High \cup Low \cup {-1}
                                   /\ u \in High /\ Paired(t, i + 6)
    BY <1>b
  <2>3. u \in High => u \notin Low /\ u # -1
    BY <1>u, SurrogatesAre
  <2>4. v \in Low => v # -1
    BY SurrogatesAre
  <2> QED
    BY <1>4, <1>u, <1>v, <1>p, <2>1, <2>2, <2>3, <2>4 DEF s
<1> QED
  BY <1>1, <1>3, <1>4

\* At a place there is one escape at most: the one that is scanned.
LEMMA EscapesHere ==
    ASSUME NEW t \in Seq(Bytes), NEW i \in 1..Len(t), t[i] = Backslash
    PROVE  /\ EscapeBytes(t, i) \in {0, 2, 6, 12}
           /\ EscapeBytes(t, i) # 0 => i + EscapeBytes(t, i) - 1 <= Len(t)
           /\ Escapes(t, i) = IF EscapeBytes(t, i) = 0 THEN {} ELSE {EscapeBytes(t, i)}
<1>1. EscapeBytes(t, i) \in {0, 2, 6, 12}
  BY DEF EscapeBytes
<1>2. Escapes(t, i) = {n \in {2, 6, 12} : i + n - 1 <= Len(t) /\ IsEscape(Piece(t, i, n))}
  BY DEF Escapes, Lengths
<1>3. \A n \in {2, 6, 12} : n \in Escapes(t, i) <=> EscapeBytes(t, i) = n
  BY <1>2, EscapeAt
<1> QED
  BY <1>1, <1>2, <1>3, EscapeAt

\* The three cases of a character, one after the other.
LEMMA DomCharacterIs ==
    ASSUME NEW t, NEW i, t[i] \in Nat
    PROVE  DomCharacter(t, i) =
             IF t[i] < 32 THEN Refused
             ELSE IF t[i] = Backslash THEN DomEscape(t, i)
             ELSE Scanned(Utf8Length(t, i), Utf8Length(t, i), FALSE)
<1>1. t[i] < 32 => t[i] # Backslash
  BY DEF Backslash
<1>2. t[i] >= 32 <=> ~(t[i] < 32)
  OBVIOUS
<1> QED
  BY <1>1, <1>2, Zenon DEF DomCharacter

\* The three cases of a Unicode escape, one after the other.
LEMMA DomUnicodeEscapeIs ==
    ASSUME NEW t, NEW i, CodeUnit(t, i + 2) \in Int
    PROVE  DomUnicodeEscape(t, i) =
             LET code == CodeUnit(t, i + 2) IN
             IF code \in High
             THEN IF Paired(t, i + 6) THEN Scanned(12, 4, FALSE) ELSE Refused
             ELSE IF code \in Low \cup {-1} THEN Refused
             ELSE Scanned(6, CodepointLength(code), code = 0)
<1> DEFINE u == CodeUnit(t, i + 2)
<1>1. /\ u \in High => u \notin Low \cup {-1}
      /\ u \notin High \cup Low \cup {-1} <=> u \notin High /\ u \notin Low \cup {-1}
  BY SurrogatesAre
<1>2. DomUnicodeEscape(t, i) =
        CASE u \in High -> IF Paired(t, i + 6) THEN Scanned(12, 4, FALSE) ELSE Refused
          [] u \in Low \cup {-1} -> Refused
          [] u \notin High \cup Low \cup {-1} -> Scanned(6, CodepointLength(u), u = 0)
  BY Zenon DEF DomUnicodeEscape
<1> HIDE DEF u
<1>3. DomUnicodeEscape(t, i) =
             IF u \in High
             THEN IF Paired(t, i + 6) THEN Scanned(12, 4, FALSE) ELSE Refused
             ELSE IF u \in Low \cup {-1} THEN Refused
             ELSE Scanned(6, CodepointLength(u), u = 0)
  BY <1>1, <1>2, Zenon
<1> QED
  BY <1>3, Zenon DEF u

\* The scalar of an item, by its form.
LEMMA ScalarIs ==
    ASSUME NEW s
    PROVE  /\ s[1] # Backslash => Scalar(s) = Payload(s)
           /\ s[1] = Backslash /\ Len(s) = 2 => Scalar(s) = 2000000 + s[2]
           /\ s[1] = Backslash /\ Len(s) = 6 => Scalar(s) = Unit(s, 3)
           /\ s[1] = Backslash /\ Len(s) = 12 =>
                Scalar(s) = 65536 + (Unit(s, 3) - 55296) * 1024 + (Unit(s, 9) - 56320)
BY SMT DEF Scalar

\* The surrogates as bounds.
LEMMA SurrogateRanges ==
    ASSUME NEW u
    PROVE  /\ u \in High <=> u \in Int /\ 55296 <= u /\ u <= 56319
           /\ u \in Low <=> u \in Int /\ 56320 <= u /\ u <= 57343
BY SMTT(30) DEF High, Low

\* What an item of a text is, by the bytes at its place.
LEMMA IsItemIs ==
    ASSUME NEW t \in Seq(Bytes), NEW i \in 1..Len(t), NEW n \in Nat \ {0}, i + n - 1 <= Len(t)
    PROVE  LET s == Piece(t, i, n) IN
           /\ s \in Seq(Bytes) /\ Len(s) = n /\ s[1] = t[i]
           /\ n >= 2 => s[2] = t[i + 1]
           /\ IsItem(s) <=>
                \/ IsCharacter(s) /\ t[i] >= 32 /\ t[i] # Quote /\ t[i] # Backslash
                \/ t[i] = Backslash /\ IsEscape(s) /\ (n = 2 => t[i + 1] \in Letters)
<1> DEFINE s == Piece(t, i, n)
<1>1. s \in Seq(Bytes) /\ Len(s) = n /\ \A j \in 1..n : s[j] = t[i + j - 1]
  BY PieceIs
<1> HIDE DEF s
<1>2. s[1] = t[i]
  <2>1. i + 1 - 1 = i
    OBVIOUS
  <2>2. s[1] = t[i + 1 - 1]
    BY <1>1
  <2> QED
    BY <2>1, <2>2
<1>3. n >= 2 => s[2] = t[i + 1]
  <2>1. i + 2 - 1 = i + 1
    OBVIOUS
  <2>2. n >= 2 => s[2] = t[i + 2 - 1]
    BY <1>1
  <2> QED
    BY <2>1, <2>2
<1>4. IsItem(s) <=>
                \/ IsCharacter(s) /\ t[i] >= 32 /\ t[i] # Quote /\ t[i] # Backslash
                \/ t[i] = Backslash /\ IsEscape(s) /\ (n = 2 => t[i + 1] \in Letters)
  BY <1>1, <1>2, <1>3 DEF IsItem
<1> QED
  BY <1>1, <1>2, <1>3, <1>4 DEF s

ItemLengths == {1, 2, 3, 4, 6, 12}

\* No item is a quote or goes beyond the text.
LEMMA ItemsAre ==
    ASSUME NEW t \in Seq(Bytes), NEW i \in Nat \ {0}
    PROVE  /\ Items(t, i) = {n \in ItemLengths : i + n - 1 <= Len(t) /\ IsItem(Piece(t, i, n))}
           /\ i > Len(t) => Items(t, i) = {}
           /\ i <= Len(t) /\ t[i] = Quote => Items(t, i) = {}
<1>1. Items(t, i) = {n \in ItemLengths : i + n - 1 <= Len(t) /\ IsItem(Piece(t, i, n))}
  BY DEF Items, Lengths, ItemLengths
<1>2. \A n \in ItemLengths : n \in Nat \ {0}
  BY DEF ItemLengths
<1>3. i > Len(t) => Items(t, i) = {}
  BY <1>1, <1>2
<1>4. ASSUME i <= Len(t), t[i] = Quote PROVE Items(t, i) = {}
  <2>1. ASSUME NEW n \in Items(t, i) PROVE FALSE
    <3>1. n \in Nat \ {0} /\ i + n - 1 <= Len(t) /\ IsItem(Piece(t, i, n)) /\ i \in 1..Len(t)
      BY <1>1, <1>2, <1>4, <2>1
    <3> QED
      BY <1>4, <3>1, IsItemIs DEF Quote, Backslash
  <2> QED
    BY <2>1
<1> QED
  BY <1>1, <1>3, <1>4

\* What the scanner finds at a place is what JSON has there.
ItemFound(t, i, item) ==
    /\ item \in [bytes : {0} \cup ItemLengths, decoded : 0..4, nul : BOOLEAN]
    /\ Items(t, i) = IF item.bytes = 0 THEN {} ELSE {item.bytes}
    /\ item.bytes # 0 =>
         /\ i + item.bytes - 1 <= Len(t)
         /\ item.decoded # 0 /\ item.decoded = Decoded(Piece(t, i, item.bytes))
         /\ item.nul <=> Scalar(Piece(t, i, item.bytes)) = 0

\* Where there is no item, a refusal is what should be found.
LEMMA RefusedIs ==
    ASSUME NEW t, NEW i, Items(t, i) = {}
    PROVE  ItemFound(t, i, Refused)
BY DEF ItemFound, Refused, Scanned

\* An escape has two bytes at least.
LEMMA NoShortEscape ==
    ASSUME NEW s, IsEscape(s), Len(s) \in ItemLengths
    PROVE  Len(s) \in {2, 6, 12}
BY DEF IsEscape, ItemLengths

\* Escapes are items, but for letters JSON does not have.
LEMMA ItemsAtBackslash ==
    ASSUME NEW t \in Seq(Bytes), NEW i \in 1..Len(t), t[i] = Backslash
    PROVE  LET n == EscapeBytes(t, i) IN
           Items(t, i) = IF n = 0 \/ (n = 2 /\ t[i + 1] \notin Letters) THEN {} ELSE {n}
<1>1. ASSUME NEW n \in ItemLengths
      PROVE  n \in Items(t, i) <=> n = EscapeBytes(t, i) /\ (n = 2 => t[i + 1] \in Letters)
  <2>0. n \in Nat \ {0}
    BY DEF ItemLengths
  <2>1. n \in Items(t, i) <=> i + n - 1 <= Len(t) /\ IsItem(Piece(t, i, n))
    BY <1>1, ItemsAre
  <2>2. i + n - 1 <= Len(t) =>
          /\ IsItem(Piece(t, i, n)) <=> IsEscape(Piece(t, i, n)) /\ (n = 2 => t[i + 1] \in Letters)
          /\ Len(Piece(t, i, n)) = n
    BY <2>0, IsItemIs
  <2>3. CASE n \in {2, 6, 12}
    <3>1. i + n - 1 <= Len(t) /\ IsEscape(Piece(t, i, n)) <=> EscapeBytes(t, i) = n
      BY <2>3, EscapeAt
    <3> QED
      BY <2>1, <2>2, <3>1
  <2>4. CASE n \notin {2, 6, 12}
    <3>1. EscapeBytes(t, i) # n
      BY <1>1, <2>4, EscapesHere DEF ItemLengths
    <3>2. ~(i + n - 1 <= Len(t) /\ IsEscape(Piece(t, i, n)))
      BY <1>1, <2>2, <2>4, NoShortEscape
    <3> QED
      BY <2>1, <2>2, <3>1, <3>2
  <2> QED
    BY <2>3, <2>4
<1>2. EscapeBytes(t, i) \in {0, 2, 6, 12}
  BY EscapesHere
<1>3. Items(t, i) \subseteq ItemLengths
  BY ItemsAre
<1> QED
  BY <1>1, <1>2, <1>3 DEF ItemLengths

\* Away from quotes and backslashes an item is a character.
LEMMA ItemsElsewhere ==
    ASSUME NEW t \in Seq(Bytes), NEW i \in 1..Len(t), t[i] # Backslash, t[i] # Quote
    PROVE  Items(t, i) = IF t[i] < 32 THEN {} ELSE Characters(t, i)
<1>0. t[i] \in Nat
  BY DEF Bytes
<1>1. ASSUME NEW n \in ItemLengths
      PROVE  n \in Items(t, i) <=> t[i] >= 32 /\ n \in Characters(t, i)
  <2>0. n \in Nat \ {0}
    BY DEF ItemLengths
  <2>1. n \in Items(t, i) <=> i + n - 1 <= Len(t) /\ IsItem(Piece(t, i, n))
    BY <1>1, ItemsAre
  <2>2. i + n - 1 <= Len(t) =>
          /\ IsItem(Piece(t, i, n)) <=> IsCharacter(Piece(t, i, n)) /\ t[i] >= 32
          /\ Len(Piece(t, i, n)) = n /\ Piece(t, i, n)[1] = t[i]
    BY <2>0, IsItemIs
  <2>3. ASSUME i + n - 1 <= Len(t), IsCharacter(Piece(t, i, n)) PROVE n \in 1..4
    <3>1. n = EncodedLength(t[i])
      BY <2>2, <2>3 DEF IsCharacter
    <3>2. t[i] <= 255
      BY DEF Bytes
    <3> QED
      BY <1>0, <2>0, <3>1, <3>2, EncodedLengthIs
  <2>4. n \in Characters(t, i) <=> n \in 1..4 /\ i + n - 1 <= Len(t) /\ IsCharacter(Piece(t, i, n))
    BY CharactersAre
  <2> QED
    BY <2>1, <2>2, <2>3, <2>4
<1>2. Items(t, i) \subseteq ItemLengths
  BY ItemsAre
<1>3. Characters(t, i) \subseteq ItemLengths
  <2>1. Characters(t, i) \subseteq 1..4
    BY CharactersAre
  <2> QED
    BY <2>1 DEF ItemLengths
<1>4. CASE t[i] < 32
  <2>1. ~(t[i] >= 32)
    BY <1>0, <1>4
  <2>2. Items(t, i) = {}
    BY <1>1, <1>2, <2>1
  <2> QED
    BY <1>4, <2>2
<1>5. CASE ~(t[i] < 32)
  <2>1. t[i] >= 32
    BY <1>0, <1>5
  <2>2. Items(t, i) = Characters(t, i)
    BY <1>1, <1>2, <1>3, <2>1
  <2> QED
    BY <1>5, <2>2
<1> QED
  BY <1>4, <1>5

\* A character is one item, of the length that is scanned.
LEMMA CharacterFound ==
    ASSUME NEW t \in Seq(Bytes), NEW i \in 1..Len(t), t[i] # Backslash, t[i] # Quote, t[i] >= 32
    PROVE  ItemFound(t, i, Scanned(Utf8Length(t, i), Utf8Length(t, i), FALSE))
<1> DEFINE n == Utf8Length(t, i)
<1>0. t[i] \in Nat /\ t[i] <= 255
  BY DEF Bytes
<1>1. /\ n \in 0..4
      /\ n # 0 => i + n - 1 <= Len(t)
      /\ Characters(t, i) = IF n = 0 THEN {} ELSE {n}
  BY CharactersHere
<1>2. Items(t, i) = IF n = 0 THEN {} ELSE {n}
  BY <1>0, <1>1, ItemsElsewhere
<1> HIDE DEF n
<1>3. ASSUME n # 0 PROVE Decoded(Piece(t, i, n)) = n /\ Scalar(Piece(t, i, n)) # 0
  <2> DEFINE s == Piece(t, i, n)
  <2>1. /\ s \in Seq(Bytes) /\ Len(s) = n /\ s[1] = t[i]
    BY <1>1, <1>3, IsItemIs
  <2>2. Decoded(s) = n /\ Scalar(s) = Payload(s)
    <3> HIDE DEF s
    <3> QED
      BY <2>1, SMT DEF Decoded, Scalar
  <2>3. IsCharacter(s)
    BY <1>1, <1>3, CharactersAre
  <2> HIDE DEF s
  <2>4. /\ LeadLength(s[1]) = n /\ \A j \in 2..n : Continues(s[j])
        /\ Scalars(Payload(s), n) /\ Payload(s) \in Nat
    <3>1. n \in 1..4
      BY <1>1, <1>3
    <3>2. /\ IsCharacter(s) <=> /\ LeadLength(s[1]) = n
                                /\ \A j \in 2..n : Continues(s[j])
                                /\ Scalars(Payload(s), n)
          /\ LeadLength(s[1]) = n /\ (\A j \in 2..n : Continues(s[j])) => Payload(s) \in Nat
      BY <2>1, <3>1, CharacterIs, Zenon
    <3> QED
      BY <2>3, <3>2, Zenon
  <2>5. CASE n = 1
    <3>1. Payload(s) = Payload1(s)
      BY <2>1, <2>5, PayloadIs DEF Payloads
    <3>2. t[i] <= 127
      <4>1. t[i] \in Bytes /\ LeadLength(t[i]) = 1
        BY <2>1, <2>4, <2>5
      <4> QED
        BY <1>0, <4>1, LeadLengthIs
    <3>3. Payload1(s) = t[i]
      <4>1. EncodedLength(t[i]) # 0
        BY <1>0, <3>2, EncodedLengthIs
      <4>2. s[1] \in Nat /\ s[1] <= 255
        BY <1>0, <2>1
      <4> QED
        BY <1>0, <2>1, <3>2, <4>1, <4>2, Payload1Is
    <3> QED
      BY <1>0, <2>2, <3>1, <3>3 DEF s
  <2>6. CASE n # 1
    <3>1. n \in 1..4
      BY <1>1, <1>3
    <3>2. Payload(s) >= 128
      BY <2>4, <2>6, <3>1, ScalarsAre
    <3> QED
      BY <2>2, <3>2 DEF s
  <2> QED
    BY <2>2, <2>5, <2>6 DEF s
<1> QED
  BY <1>1, <1>2, <1>3 DEF ItemFound, Scanned, ItemLengths, n

\* An escape is one item, of the length that is scanned.
LEMMA EscapeFound ==
    ASSUME NEW t \in Seq(Bytes), NEW i \in 1..Len(t), t[i] = Backslash
    PROVE  ItemFound(t, i, DomEscape(t, i))
<1> DEFINE n == EscapeBytes(t, i)
           u == CodeUnit(t, i + 2)
           s == Piece(t, i, n)
<1>1. /\ n \in {0, 2, 6, 12} /\ (n # 0 => i + n - 1 <= Len(t))
      /\ n # 0 => IsEscape(s)
  BY EscapesHere, EscapeAt
<1>2. Items(t, i) = IF n = 0 \/ (n = 2 /\ t[i + 1] \notin Letters) THEN {} ELSE {n}
  BY ItemsAtBackslash
<1>3. n = IF i = Len(t) THEN 0
          ELSE IF t[i + 1] # LetterU THEN 2
          ELSE IF u \notin High \cup Low \cup {-1} THEN 6
          ELSE IF u \in High /\ Paired(t, i + 6) THEN 12 ELSE 0
  BY Zenon DEF EscapeBytes
<1>4. DomEscape(t, i) =
        IF i = Len(t) THEN Refused
        ELSE IF t[i + 1] = LetterU THEN DomUnicodeEscape(t, i)
        ELSE IF t[i + 1] \in Letters THEN Scanned(2, 1, FALSE) ELSE Refused
  BY DEF DomEscape
<1>5. DomUnicodeEscape(t, i) =
        IF u \in High THEN IF Paired(t, i + 6) THEN Scanned(12, 4, FALSE) ELSE Refused
        ELSE IF u \in Low \cup {-1} THEN Refused
        ELSE Scanned(6, CodepointLength(u), u = 0)
  <2>1. CodeUnit(t, i + 2) \in Int
    BY CodeUnitIs
  <2> QED
    BY <2>1, DomUnicodeEscapeIs, Zenon
<1>6. u \in Int
  BY CodeUnitIs
<1>7. /\ u \in High => u \notin Low \cup {-1}
      /\ u \in Low \cup {-1} => u \notin High
      /\ u \notin High \cup Low \cup {-1} <=> u \notin High /\ u \notin Low \cup {-1}
  BY <1>6, SurrogatesAre
<1>8. ASSUME n # 0
      PROVE  /\ s \in Seq(Bytes) /\ Len(s) = n /\ s[1] = Backslash
             /\ \A j \in 1..n : s[j] = t[i + j - 1]
  <2>1. n \in Nat \ {0} /\ i + n - 1 <= Len(t)
    BY <1>1, <1>8
  <2>2. s \in Seq(Bytes) /\ Len(s) = n /\ s[1] = t[i]
    BY <2>1, IsItemIs
  <2>3. \A j \in 1..n : s[j] = t[i + j - 1]
    BY <2>1, PieceIs
  <2> QED
    BY <2>2, <2>3
<1> HIDE DEF n, u, s
<1>z. s[1] = Backslash /\ Len(s) = 6 => Scalar(s) = Unit(s, 3)
  BY ScalarIs
<1>9. n # 0 => Decoded(s) = DecodedLength(s)
  BY <1>8 DEF Decoded
<1>10. CASE n = 0
  <2>1. DomEscape(t, i) = Refused
    <3>1. CASE i = Len(t)
      BY <1>4, <3>1
    <3>2. CASE i # Len(t)
      <4>1. t[i + 1] = LetterU
        BY <1>3, <1>10, <3>2
      <4>2. CASE u \in High
        <5>1. ~Paired(t, i + 6)
          BY <1>3, <1>7, <1>10, <3>2, <4>1, <4>2
        <5> QED
          BY <1>4, <1>5, <3>2, <4>1, <4>2, <5>1, Zenon
      <4>3. CASE u \in Low \cup {-1}
        BY <1>4, <1>5, <1>7, <3>2, <4>1, <4>3
      <4> QED
        BY <1>3, <1>7, <1>10, <3>2, <4>1, <4>2, <4>3
    <3> QED
      BY <3>1, <3>2
  <2>2. Items(t, i) = {}
    BY <1>2, <1>10
  <2> QED
    BY <2>1, <2>2, RefusedIs
<1>11. CASE n = 2
  <2>1. i # Len(t) /\ t[i + 1] # LetterU
    BY <1>3, <1>11
  <2>2. CASE t[i + 1] \notin Letters
    <3>1. DomEscape(t, i) = Refused
      BY <1>4, <2>1, <2>2, Zenon
    <3>2. Items(t, i) = {}
      BY <1>2, <1>11, <2>2
    <3> QED
      BY <3>1, <3>2, RefusedIs
  <2>3. CASE t[i + 1] \in Letters
    <3>1. DomEscape(t, i) = Scanned(2, 1, FALSE) /\ Items(t, i) = {2}
      <4>1. DomEscape(t, i) = Scanned(2, 1, FALSE)
        BY <1>4, <2>1, <2>3, Zenon
      <4>2. Items(t, i) = {2}
        BY <1>2, <1>11, <2>3
      <4> QED
        BY <4>1, <4>2
    <3>2. Decoded(s) = 1
      BY <1>8, <1>9, <1>11, DecodedIs
    <3>3. Scalar(s) # 0
      <4>1. s[2] \in Nat
        <5>1. s[2] \in Bytes
          <6>1. n # 0 /\ 2 \in 1..n
            BY <1>11
          <6>2. s \in Seq(Bytes) /\ Len(s) = n
            BY <1>8, <6>1
          <6> QED
            BY <6>1, <6>2
        <5> QED
          BY <5>1 DEF Bytes
      <4>2. Scalar(s) = 2000000 + s[2]
        BY <1>8, <1>11, ScalarIs
      <4> QED
        BY <4>1, <4>2
    <3> QED
      BY <1>1, <1>11, <3>1, <3>2, <3>3 DEF ItemFound, Scanned, ItemLengths, s
  <2> QED
    BY <2>2, <2>3
<1>12. CASE n = 6
  <2>1. i # Len(t) /\ t[i + 1] = LetterU /\ u \notin High \cup Low \cup {-1}
    BY <1>3, <1>12
  <2>2. DomEscape(t, i) = Scanned(6, CodepointLength(u), u = 0) /\ Items(t, i) = {6}
    <3>1. DomEscape(t, i) = Scanned(6, CodepointLength(u), u = 0)
      BY <1>4, <1>5, <1>7, <2>1, Zenon
    <3>2. Items(t, i) = {6}
      BY <1>2, <1>12
    <3> QED
      BY <3>1, <3>2
  <2>3. Unit(s, 3) = u
    <3>1. i + 5 <= Len(t) /\ u = Unit(t, i + 2)
      <4>1. PICK k \in Nat \ {0} : k = i + 2
        OBVIOUS
      <4>2. k + 3 = i + 5
        BY <4>1
      <4>3. u = CodeUnit(t, k) /\ u # -1
        BY <2>1, <4>1 DEF u
      <4> QED
        BY <4>1, <4>2, <4>3, CodeUnitIs
    <3>2. /\ s[3] = t[i + 3 - 1] /\ s[4] = t[i + 4 - 1] /\ s[5] = t[i + 5 - 1] /\ s[6] = t[i + 6 - 1]
      BY <1>8, <1>12
    <3>3. /\ i + 3 - 1 = i + 2 /\ i + 4 - 1 = i + 2 + 1
          /\ i + 5 - 1 = i + 2 + 2 /\ i + 6 - 1 = i + 2 + 3
      OBVIOUS
    <3>4. /\ s[3] = t[i + 2] /\ s[3 + 1] = t[i + 2 + 1]
          /\ s[3 + 2] = t[i + 2 + 2] /\ s[3 + 3] = t[i + 2 + 3]
      BY <3>2, <3>3
    <3> QED
      BY <3>1, <3>4 DEF Unit
  <2>4. Decoded(s) = CodepointLength(u)
    BY <1>8, <1>9, <1>12, <2>3, SMTT(30) DEF DecodedLength, CodepointLength
  <2>5. Scalar(s) = u
    BY <1>8, <1>12, <1>z, <2>3
  <2>6. CodepointLength(u) \in 1..3
    BY DEF CodepointLength
  <2>7. (u = 0) \in BOOLEAN
    OBVIOUS
  <2> QED
    <3> DEFINE c == CodepointLength(u)
               z == u = 0
    <3>1. /\ DomEscape(t, i) = Scanned(6, c, z) /\ c \in 1..3 /\ z \in BOOLEAN
          /\ Decoded(s) = c /\ (Scalar(s) = 0 <=> z)
      BY <2>2, <2>4, <2>5, <2>6
    <3>2. i + 6 - 1 <= Len(t) /\ s = Piece(t, i, 6) /\ Items(t, i) = {6}
      BY <1>1, <1>12, <2>2 DEF s
    <3> HIDE DEF c, z
    <3> QED
      BY <3>1, <3>2 DEF ItemFound, Scanned, ItemLengths
<1>13. CASE n = 12
  <2>1. i # Len(t) /\ t[i + 1] = LetterU /\ u \in High /\ Paired(t, i + 6)
    BY <1>3, <1>13
  <2>2. DomEscape(t, i) = Scanned(12, 4, FALSE) /\ Items(t, i) = {12}
    <3>1. DomEscape(t, i) = Scanned(12, 4, FALSE)
      BY <1>4, <1>5, <2>1, Zenon
    <3>2. Items(t, i) = {12}
      BY <1>2, <1>13
    <3> QED
      BY <3>1, <3>2
  <2>3. Decoded(s) = 4
    BY <1>8, <1>9, <1>13, DecodedIs
  <2>4. Scalar(s) # 0
    <3>1. Scalar(s) = 65536 + (Unit(s, 3) - 55296) * 1024 + (Unit(s, 9) - 56320)
      BY <1>8, <1>13, ScalarIs
    <3>2. Unit(s, 3) \in High /\ Unit(s, 9) \in Low
      BY <1>1, <1>8, <1>13, EscapeIs
    <3>3. /\ Unit(s, 3) \in Int /\ 55296 <= Unit(s, 3)
          /\ Unit(s, 9) \in Int /\ 56320 <= Unit(s, 9)
      BY <3>2, SurrogateRanges
    <3> QED
      BY <3>1, <3>3
  <2> QED
    BY <1>1, <1>13, <2>2, <2>3, <2>4 DEF ItemFound, Scanned, ItemLengths, s
<1> QED
  BY <1>1, <1>10, <1>11, <1>12, <1>13

\* At a place there is one item at most, and the scanner takes it.
LEMMA ItemsHere ==
    ASSUME NEW t \in Seq(Bytes), NEW i \in 1..Len(t), t[i] # Quote
    PROVE  ItemFound(t, i, DomCharacter(t, i))
<1>0. t[i] \in Nat
  BY DEF Bytes
<1>1. CASE t[i] < 32
  <2>1. t[i] # Backslash
    BY <1>0, <1>1 DEF Backslash
  <2>2. DomCharacter(t, i) = Refused
    BY <1>0, <1>1, DomCharacterIs
  <2>3. Items(t, i) = {}
    BY <1>1, <2>1, ItemsElsewhere
  <2> QED
    BY <2>2, <2>3, RefusedIs
<1>2. CASE t[i] = Backslash
  <2>1. DomCharacter(t, i) = DomEscape(t, i)
    <3>1. ~(t[i] < 32)
      BY <1>2 DEF Backslash
    <3> QED
      BY <1>0, <1>2, <3>1, DomCharacterIs, Zenon
  <2> QED
    BY <1>2, <2>1, EscapeFound
<1>3. CASE t[i] >= 32 /\ t[i] # Backslash
  <2>1. DomCharacter(t, i) = Scanned(Utf8Length(t, i), Utf8Length(t, i), FALSE)
    <3>1. ~(t[i] < 32)
      BY <1>0, <1>3
    <3> QED
      BY <1>0, <1>3, <3>1, DomCharacterIs, Zenon
  <2> QED
    BY <1>3, <2>1, CharacterFound
<1> QED
  BY <1>0, <1>1, <1>2, <1>3

(***************************************************************************)
(* Loops.  A loop is a recursive function of its rounds: it has a solution *)
(* and only one, found by induction over the number of rounds, as a least  *)
(* counterexample.                                                         *)
(***************************************************************************)

\* A set of lengths that is not empty has a least element.
LEMMA LeastNumber ==
    ASSUME NEW T \in SUBSET Nat, T # {}
    PROVE  \E n \in T : \A m \in T : n <= m
<1> DEFINE Less == {pair \in Nat \X Nat : pair[1] < pair[2]}
<1>1. IsWellFoundedOn(Less, Nat)
  BY NatLessThanWellFounded DEF OpToRel
<1> HIDE DEF Less
<1>2. PICK n \in T : \A m \in T : <<m, n>> \notin Less
  BY <1>1, WFMin
<1>3. \A m \in T : ~(m < n)
  BY <1>2 DEF Less
<1> QED
  BY <1>3

\* Induction, with the lengths a fact holds for as a set.
LEMMA AllRounds ==
    ASSUME NEW n \in Nat, NEW T, 0 \in T,
           \A i \in 1..n : i - 1 \in T => i \in T
    PROVE  \A i \in 0..n : i \in T
<1> DEFINE Bad == {i \in 0..n : i \notin T}
<1> SUFFICES ASSUME Bad # {} PROVE FALSE
  OBVIOUS
<1>1. PICK i \in Bad : \A j \in Bad : i <= j
  <2>1. Bad \in SUBSET Nat
    OBVIOUS
  <2> HIDE DEF Bad
  <2> QED
    BY <2>1, LeastNumber
<1>2. i \in 1..n /\ i \notin T
  OBVIOUS
<1>3. i - 1 \in 0..n /\ i - 1 \notin Bad
  BY <1>1, <1>2
<1> QED
  BY <1>2, <1>3

\* A recursion over lengths has a solution if its step is a function, and
\* what two solutions have in common at one length they have at the next.
IsStep(step, S, n) == step \in [S \X (1..n) -> S]
Solution(f, S, n, b, step) ==
    /\ f \in [0..n -> S]
    /\ f[0] = b /\ \A i \in 1..n : f[i] = step[<<f[i - 1], i>>]

\* A step on a set of states has a run of any number of rounds.
LEMMA Recursion ==
    ASSUME NEW n \in Nat, NEW S, NEW b \in S, NEW step, IsStep(step, S, n)
    PROVE  \E f : Solution(f, S, n, b, step)
<1>0. step \in [S \X (1..n) -> S]
  BY DEF IsStep
<1> DEFINE Solves(f, m) == f[0] = b /\ \A i \in 1..m : f[i] = step[<<f[i - 1], i>>]
           T == {m \in Nat : m <= n => \E f \in [0..m -> S] : Solves(f, m)}
<1>1. 0 \in T
  <2>1. [i \in 0..0 |-> b] \in [0..0 -> S] /\ Solves([i \in 0..0 |-> b], 0)
    OBVIOUS
  <2> QED
    BY <2>1
<1>2. ASSUME NEW i \in 1..n, i - 1 \in T PROVE i \in T
  <2>1. PICK f \in [0..(i - 1) -> S] : Solves(f, i - 1)
    BY <1>2
  <2> DEFINE g == [j \in 0..i |-> IF j = i THEN step[<<f[i - 1], i>>] ELSE f[j]]
  <2>2. f[i - 1] \in S /\ step[<<f[i - 1], i>>] \in S
    BY <1>0, <2>1
  <2>3. g \in [0..i -> S]
    BY <2>1, <2>2
  <2>4. g[0] = b
    BY <2>1
  <2>5. ASSUME NEW j \in 1..i PROVE g[j] = step[<<g[j - 1], j>>]
    <3>1. j - 1 \in 0..i /\ j - 1 # i
      OBVIOUS
    <3>2. CASE j = i
      BY <3>1, <3>2
    <3>3. CASE j # i
      <4>1. j \in 1..i - 1 /\ j \in 0..i
        BY <3>3
      <4> QED
        BY <2>1, <3>1, <3>3, <4>1
    <3> QED
      BY <3>2, <3>3
  <2>6. Solves(g, i)
    BY <2>4, <2>5
  <2> HIDE DEF g, Solves
  <2> QED
    BY <2>3, <2>6
<1> HIDE DEF T
<1>3. n \in T
  <2>1. \A i \in 0..n : i \in T
    BY <1>1, <1>2, AllRounds
  <2> QED
    BY <2>1
<1> QED
  BY <1>3 DEF T, Solution

\* Two functions that start alike and go on alike as long as they agree.
Lockstep(f, g, n) == f[0] = g[0] /\ \A k \in 1..n : f[k - 1] = g[k - 1] => f[k] = g[k]

Agree(f, g, n) == \A k \in 0..n : f[k] = g[k]

\* If the first values are equal and equality is kept, all values are equal.
LEMMA SameSteps ==
    ASSUME NEW n \in Nat, NEW f, NEW g, Lockstep(f, g, n)
    PROVE  f[n] = g[n] /\ Agree(f, g, n)
<1> DEFINE T == {k \in Nat : f[k] = g[k]}
<1>1. 0 \in T
  BY DEF Lockstep
<1>2. \A k \in 1..n : k - 1 \in T => k \in T
  BY DEF Lockstep
<1> HIDE DEF T
<1>3. \A k \in 0..n : k \in T
  BY <1>1, <1>2, AllRounds
<1>4. \A k \in 0..n : f[k] = g[k]
  BY <1>3 DEF T
<1> QED
  BY <1>4 DEF Agree

(***************************************************************************)
(* The items of a string.                                                  *)
(***************************************************************************)

ItemStates == [at : Nat \ {0}, items : Seq(Seq(Bytes)), decoded : Nat]
ItemsStart == [at |-> 2, items |-> <<>>, decoded |-> 0]

\* A round of the reference where there is one item.
LEMMA ItemRoundIs ==
    ASSUME NEW t, NEW s, NEW n, Items(t, s.at) = {n}
    PROVE  ItemRound(t, s) = [at |-> s.at + Len(Piece(t, s.at, n)),
                              items |-> Append(s.items, Piece(t, s.at, n)),
                              decoded |-> s.decoded + Decoded(Piece(t, s.at, n))]
<1>1. (CHOOSE m \in Items(t, s.at) : TRUE) = n
  OBVIOUS
<1>2. Items(t, s.at) # {}
  OBVIOUS
<1> QED
  BY <1>1, <1>2, Zenon DEF ItemRound

\* At a place there is one item or none.
LEMMA OneItem ==
    ASSUME NEW t \in Seq(Bytes), NEW i \in Nat \ {0}
    PROVE  \/ Items(t, i) = {}
           \/ /\ i \in 1..Len(t) /\ t[i] # Quote
              /\ LET item == DomCharacter(t, i)
                     n == item.bytes
                     s == Piece(t, i, n)
                 IN  /\ Items(t, i) = {n} /\ n \in ItemLengths
                     /\ i + n - 1 <= Len(t) /\ Len(s) = n /\ s \in Seq(Bytes)
                     /\ item.decoded \in 1..4 /\ Decoded(s) = item.decoded
                     /\ item.nul \in BOOLEAN /\ (item.nul <=> Scalar(s) = 0)
<1>1. CASE i > Len(t)
  BY <1>1, ItemsAre
<1>2. CASE i <= Len(t) /\ t[i] = Quote
  BY <1>2, ItemsAre
<1>3. CASE i <= Len(t) /\ t[i] # Quote
  <2> DEFINE item == DomCharacter(t, i)
             n == item.bytes
             s == Piece(t, i, n)
  <2>0. i \in 1..Len(t)
    BY <1>3
  <2>1. ItemFound(t, i, item)
    BY <1>3, <2>0, ItemsHere
  <2> HIDE DEF item
  <2>2. CASE n = 0
    BY <2>1, <2>2 DEF ItemFound
  <2>3. CASE n # 0
    <3>1. /\ n \in ItemLengths /\ item.decoded \in 0..4 /\ item.nul \in BOOLEAN
      BY <2>1, <2>3 DEF ItemFound
    <3>2. /\ Items(t, i) = {n} /\ i + n - 1 <= Len(t)
          /\ item.decoded # 0 /\ item.decoded = Decoded(s)
          /\ item.nul <=> Scalar(s) = 0
      BY <2>1, <2>3 DEF ItemFound
    <3>3. n \in Nat \ {0}
      BY <3>1 DEF ItemLengths
    <3>4. Len(s) = n /\ s \in Seq(Bytes)
      <4> HIDE DEF n
      <4> QED
        BY <2>0, <3>2, <3>3, PieceIs
    <3>5. item.decoded \in 1..4
      BY <3>1, <3>2
    <3> HIDE DEF n, s
    <3> QED
      BY <1>3, <2>0, <3>1, <3>2, <3>4, <3>5 DEF item, n, s
  <2> QED
    BY <2>2, <2>3
<1> QED
  BY <1>1, <1>2, <1>3

\* The items of a text are sequences of bytes.
LEMMA ItemTypes ==
    ASSUME NEW t \in Seq(Bytes)
    PROVE  /\ ItemsStart \in ItemStates
           /\ \A s \in ItemStates : ItemRound(t, s) \in ItemStates
<1>1. ItemsStart \in ItemStates
  BY DEF ItemsStart, ItemStates
<1>2. ASSUME NEW s \in ItemStates PROVE ItemRound(t, s) \in ItemStates
  <2>0. s.at \in Nat \ {0} /\ s.items \in Seq(Seq(Bytes)) /\ s.decoded \in Nat
    BY DEF ItemStates
  <2>1. CASE Items(t, s.at) = {}
    BY <2>1 DEF ItemRound
  <2>2. CASE Items(t, s.at) # {}
    <3> DEFINE n == DomCharacter(t, s.at).bytes
               x == Piece(t, s.at, n)
    <3>1. Items(t, s.at) = {n} /\ n \in ItemLengths /\ Len(x) = n /\ x \in Seq(Bytes)
          /\ Decoded(x) \in 1..4
      BY <2>0, <2>2, OneItem
    <3> HIDE DEF n
    <3>2. ItemRound(t, s) = [at |-> s.at + Len(x), items |-> Append(s.items, x),
                             decoded |-> s.decoded + Decoded(x)]
      <4>1. ItemRound(t, s) = [at |-> s.at + Len(Piece(t, s.at, n)),
                               items |-> Append(s.items, Piece(t, s.at, n)),
                               decoded |-> s.decoded + Decoded(Piece(t, s.at, n))]
        BY <3>1, ItemRoundIs, Zenon
      <4> QED
        BY <4>1
    <3> HIDE DEF x
    <3>3. n \in Nat \ {0}
      BY <3>1 DEF ItemLengths
    <3>4. s.at + Len(x) \in Nat \ {0} /\ s.decoded + Decoded(x) \in Nat
          /\ Append(s.items, x) \in Seq(Seq(Bytes))
      BY <2>0, <3>1, <3>3
    <3> QED
      BY <3>2, <3>4 DEF ItemStates
  <2> QED
    BY <2>1, <2>2
<1> QED
  BY <1>1, <1>2

IsItems(f, t) ==
    f = [k \in 0..Len(t) |-> IF k = 0 THEN ItemsStart ELSE ItemRound(t, f[k - 1])]

\* The reference of a string as a run.
LEMMA ItemsRun ==
    ASSUME NEW t \in Seq(Bytes)
    PROVE  \E f \in [0..Len(t) -> ItemStates] :
              /\ f[0] = ItemsStart /\ \A k \in 1..Len(t) : f[k] = ItemRound(t, f[k - 1])
              /\ ItemsOf(t) = f[Len(t)]
<1> DEFINE n == Len(t)
           step == [x \in ItemStates \X (1..n) |-> ItemRound(t, x[1])]
<1>0. n \in Nat /\ ItemsStart \in ItemStates
  BY ItemTypes
<1>1. IsStep(step, ItemStates, n)
  <2> SUFFICES ASSUME NEW x \in ItemStates \X (1..n)
               PROVE  ItemRound(t, x[1]) \in ItemStates
    BY DEF IsStep
  <2> QED
    BY ItemTypes
<1>2. PICK f : /\ f \in [0..n -> ItemStates]
               /\ f[0] = ItemsStart /\ \A k \in 1..n : f[k] = step[<<f[k - 1], k>>]
  <2> HIDE DEF step, n
  <2>1. \E f : Solution(f, ItemStates, n, ItemsStart, step)
    BY <1>0, <1>1, Recursion, Zenon
  <2> QED
    BY <2>1 DEF Solution
<1>3. \A k \in 1..n : f[k] = ItemRound(t, f[k - 1])
  <2> SUFFICES ASSUME NEW k \in 1..n
               PROVE  f[k] = ItemRound(t, f[k - 1])
    OBVIOUS
  <2>1. f[k - 1] \in ItemStates
    BY <1>2
  <2> QED
    BY <1>2, <2>1
<1>4. IsItems(f, t)
  BY <1>2, <1>3 DEF IsItems
<1>5. ItemsOf(t) = (CHOOSE g : IsItems(g, t))[Len(t)]
  BY Zenon DEF ItemsOf, IsItems, ItemsStart
<1>6. ASSUME NEW g, IsItems(g, t) PROVE g[n] = f[n]
  <2>1. f[0] = g[0] /\ \A k \in 1..n : f[k - 1] = g[k - 1] => f[k] = g[k]
    BY <1>4, <1>6 DEF IsItems
  <2> HIDE DEF n
  <2>2. Lockstep(f, g, n)
    BY <2>1 DEF Lockstep
  <2> QED
    BY <1>0, <2>2, SameSteps, Zenon
<1>7. (CHOOSE g : IsItems(g, t))[n] = f[n]
  BY <1>4, <1>6, Zenon
<1> QED
  BY <1>2, <1>3, <1>5, <1>7

(***************************************************************************)
(* The string scanner, round by round with the items.                      *)
(***************************************************************************)

ScanStates == [at : Nat \ {0}, decoded : Nat, nul : BOOLEAN,
               verdict : {"open", "ok", "lexical", "size"}]

\* What the scanner finds in a place has its types.
LEMMA ItemTyped ==
    ASSUME NEW t \in Seq(Bytes), NEW i \in 1..Len(t), t[i] # Quote
    PROVE  LET item == DomCharacter(t, i) IN
           item.bytes \in Nat /\ item.decoded \in Nat /\ item.nul \in BOOLEAN
<1> DEFINE item == DomCharacter(t, i)
<1>1. ItemFound(t, i, item)
  BY ItemsHere
<1> HIDE DEF item
<1>2. item.bytes \in Nat /\ item.decoded \in Nat /\ item.nul \in BOOLEAN
  BY <1>1 DEF ItemFound, ItemLengths
<1> QED
  BY <1>2 DEF item

\* A round of the string scanner keeps the types.
LEMMA ScanTypes ==
    ASSUME NEW t \in Seq(Bytes)
    PROVE  /\ StringStart \in ScanStates
           /\ \A s \in ScanStates : StringRound(t, s) \in ScanStates
<1>1. StringStart \in ScanStates
  BY DEF StringStart, ScanStates
<1>2. ASSUME NEW s \in ScanStates PROVE StringRound(t, s) \in ScanStates
  <2>0. s.at \in Nat \ {0} /\ s.decoded \in Nat /\ s.nul \in BOOLEAN
    BY DEF ScanStates
  <2>1. \A v \in {"open", "ok", "lexical", "size"} : [s EXCEPT !.verdict = v] \in ScanStates
    BY DEF ScanStates
  <2> DEFINE item == DomCharacter(t, s.at)
  <2>2. ASSUME s.at <= Len(t), t[s.at] # Quote
        PROVE  [at |-> s.at + item.bytes, decoded |-> s.decoded + item.decoded,
                nul |-> s.nul \/ item.nul, verdict |-> "open"] \in ScanStates
    <3>1. item.bytes \in Nat /\ item.decoded \in Nat /\ item.nul \in BOOLEAN
      BY <2>0, <2>2, ItemTyped
    <3> DEFINE a == s.at + item.bytes
               b == s.decoded + item.decoded
               c == s.nul \/ item.nul
    <3>2. a \in Nat \ {0} /\ b \in Nat /\ c \in BOOLEAN
      BY <2>0, <3>1
    <3> HIDE DEF a, b, c
    <3>3. [at |-> a, decoded |-> b, nul |-> c, verdict |-> "open"] \in ScanStates
      BY <3>2 DEF ScanStates
    <3> QED
      BY <3>3 DEF a, b, c
  <2>3. CASE s.verdict # "open"
    BY <2>3 DEF StringRound
  <2>4. CASE s.verdict = "open" /\ s.at > Len(t)
    BY <2>1, <2>4 DEF StringRound
  <2>5. CASE s.verdict = "open" /\ s.at <= Len(t)
    <3>0. ~(s.at > Len(t))
      BY <2>0, <2>5
    <3>1. StringRound(t, s) =
             IF t[s.at] = Quote THEN [s EXCEPT !.verdict = "ok"]
             ELSE IF item.bytes = 0 THEN [s EXCEPT !.verdict = "lexical"]
             ELSE IF s.decoded + item.decoded >= JSON_STRING_SIZE
                  THEN [s EXCEPT !.verdict = "size"]
             ELSE [at |-> s.at + item.bytes, decoded |-> s.decoded + item.decoded,
                   nul |-> s.nul \/ item.nul, verdict |-> "open"]
      BY <2>5, <3>0, Zenon DEF StringRound
    <3> HIDE DEF item
    <3> QED
      BY <2>1, <2>2, <2>5, <3>1
  <2> QED
    BY <2>0, <2>3, <2>4, <2>5
<1> QED
  BY <1>1, <1>2

IsScan(f, t) ==
    f = [k \in 0..Len(t) |-> IF k = 0 THEN StringStart ELSE StringRound(t, f[k - 1])]

\* The string scanner as a run.
LEMMA ScanRuns ==
    ASSUME NEW t \in Seq(Bytes)
    PROVE  \E f \in [0..Len(t) -> ScanStates] :
              /\ f[0] = StringStart /\ \A k \in 1..Len(t) : f[k] = StringRound(t, f[k - 1])
              /\ DomString(t) = f[Len(t)]
<1> DEFINE n == Len(t)
           step == [x \in ScanStates \X (1..n) |-> StringRound(t, x[1])]
<1>0. n \in Nat /\ StringStart \in ScanStates
  BY ScanTypes
<1>1. IsStep(step, ScanStates, n)
  <2> SUFFICES ASSUME NEW x \in ScanStates \X (1..n)
               PROVE  StringRound(t, x[1]) \in ScanStates
    BY DEF IsStep
  <2> QED
    BY ScanTypes
<1>2. PICK f : /\ f \in [0..n -> ScanStates]
               /\ f[0] = StringStart /\ \A k \in 1..n : f[k] = step[<<f[k - 1], k>>]
  <2> HIDE DEF step, n
  <2>1. \E f : Solution(f, ScanStates, n, StringStart, step)
    BY <1>0, <1>1, Recursion, Zenon
  <2> QED
    BY <2>1 DEF Solution
<1>3. \A k \in 1..n : f[k] = StringRound(t, f[k - 1])
  <2> SUFFICES ASSUME NEW k \in 1..n
               PROVE  f[k] = StringRound(t, f[k - 1])
    OBVIOUS
  <2>1. f[k - 1] \in ScanStates
    BY <1>2
  <2> QED
    BY <1>2, <2>1
<1>4. IsScan(f, t)
  BY <1>2, <1>3 DEF IsScan
<1>5. DomString(t) = (CHOOSE g : IsScan(g, t))[Len(t)]
  BY Zenon DEF DomString, IsScan
<1>6. ASSUME NEW g, IsScan(g, t) PROVE g[n] = f[n]
  <2>1. f[0] = g[0] /\ \A k \in 1..n : f[k - 1] = g[k - 1] => f[k] = g[k]
    BY <1>4, <1>6 DEF IsScan
  <2> HIDE DEF n
  <2>2. Lockstep(f, g, n)
    BY <2>1 DEF Lockstep
  <2> QED
    BY <1>0, <2>2, SameSteps, Zenon
<1>7. (CHOOSE g : IsScan(g, t))[n] = f[n]
  BY <1>4, <1>6, Zenon
<1> QED
  BY <1>2, <1>3, <1>5, <1>7

(***************************************************************************)
(* The string scanner of the C adapters, round by round with the items.    *)
(***************************************************************************)

\* The items of a longer sequence.
LEMMA ToSetGrows ==
    ASSUME NEW S, NEW s \in Seq(S), NEW x \in S
    PROVE  ToSet(Append(s, x)) = ToSet(s) \cup {x}
<1>1. /\ Len(Append(s, x)) = Len(s) + 1
      /\ \A i \in 1..Len(s) : Append(s, x)[i] = s[i]
      /\ Append(s, x)[Len(s) + 1] = x
      /\ DOMAIN s = 1..Len(s) /\ DOMAIN Append(s, x) = 1..Len(s) + 1
  OBVIOUS
<1>2. ASSUME NEW i \in 1..Len(s) + 1 PROVE Append(s, x)[i] \in ToSet(s) \cup {x}
  <2>1. CASE i = Len(s) + 1
    BY <1>1, <2>1
  <2>2. CASE i # Len(s) + 1
    <3>1. i \in 1..Len(s)
      BY <2>2
    <3> QED
      BY <1>1, <3>1 DEF ToSet
  <2> QED
    BY <2>1, <2>2
<1>3. ASSUME NEW i \in 1..Len(s) PROVE s[i] \in ToSet(Append(s, x))
  <2>1. i \in 1..Len(s) + 1 /\ Append(s, x)[i] = s[i]
    BY <1>1
  <2> QED
    BY <1>1, <2>1, Zenon DEF ToSet
<1>4. x \in ToSet(Append(s, x))
  <2>1. Len(s) + 1 \in 1..Len(s) + 1
    OBVIOUS
  <2> QED
    BY <1>1, <2>1, Zenon DEF ToSet
<1>5. ToSet(Append(s, x)) \subseteq ToSet(s) \cup {x}
  BY <1>1, <1>2, Zenon DEF ToSet
<1>6. ToSet(s) \subseteq ToSet(Append(s, x))
  BY <1>1, <1>3, Zenon DEF ToSet
<1> QED
  BY <1>4, <1>5, <1>6

HasNul(items) == \E x \in ToSet(items) : Scalar(x) = 0

\* One more item has a NUL if it is one.
LEMMA HasNulGrows ==
    ASSUME NEW s \in Seq(Seq(Bytes)), NEW x \in Seq(Bytes)
    PROVE  HasNul(Append(s, x)) <=> HasNul(s) \/ Scalar(x) = 0
<1>1. ToSet(Append(s, x)) = ToSet(s) \cup {x}
  BY ToSetGrows
<1> QED
  BY <1>1, Zenon DEF HasNul

\* No items, no NUL.
LEMMA NoNul == ~HasNul(<<>>)
<1>1. ToSet(<<>>) = {}
  BY DEF ToSet
<1> QED
  BY <1>1 DEF HasNul

\* A quote stands at i.
Closes(t, i) == i <= Len(t) /\ t[i] = Quote

\* The scanner after k rounds, and the items of as many.
InStep(t, k, s, r) ==
    /\ s.verdict = "open" =>
         /\ s.at = r.at /\ s.decoded = r.decoded /\ r.decoded < JSON_STRING_SIZE
         /\ s.at >= k + 2 /\ s.at <= Len(t) + 1
         /\ s.nul <=> HasNul(r.items)
    /\ s.verdict = "ok" =>
         /\ s.at = r.at /\ s.decoded = r.decoded /\ r.decoded < JSON_STRING_SIZE
         /\ Closes(t, r.at)
         /\ s.nul <=> HasNul(r.items)
    /\ s.verdict = "lexical" =>
         /\ Items(t, r.at) = {} /\ ~Closes(t, r.at) /\ r.decoded < JSON_STRING_SIZE
    /\ s.verdict = "size" => r.decoded >= JSON_STRING_SIZE

\* The limit is a positive number.
LEMMA SizePositive == JSON_STRING_SIZE \in Nat /\ JSON_STRING_SIZE > 0
BY GuardAssumption

\* A round of the scanner and one of the reference keep them together: the
\* scanner is at the end of an item, or has refused where there is none.
LEMMA StepTogether ==
    ASSUME NEW t \in Seq(Bytes), NEW k \in Nat,
           NEW s \in ScanStates, NEW r \in ItemStates, InStep(t, k, s, r)
    PROVE  InStep(t, k + 1, StringRound(t, s), ItemRound(t, r))
<1> DEFINE u == StringRound(t, s)
           v == ItemRound(t, r)
<1>0. /\ s.at \in Nat \ {0} /\ s.decoded \in Nat /\ s.nul \in BOOLEAN
      /\ s.verdict \in {"open", "ok", "lexical", "size"}
      /\ r.at \in Nat \ {0} /\ r.items \in Seq(Seq(Bytes)) /\ r.decoded \in Nat
  BY DEF ScanStates, ItemStates
<1>1. CASE s.verdict # "open"
  <2>1. u = s
    BY <1>1 DEF StringRound
  <2>2. CASE s.verdict = "size"
    <3>1. v.decoded >= r.decoded
      <4>1. CASE Items(t, r.at) = {}
        BY <1>0, <4>1 DEF ItemRound
      <4>2. CASE Items(t, r.at) # {}
        <5> DEFINE n == DomCharacter(t, r.at).bytes
        <5>1. Items(t, r.at) = {n} /\ Decoded(Piece(t, r.at, n)) \in 1..4
          BY <1>0, <4>2, OneItem
        <5> HIDE DEF n
        <5>2. v = [at |-> r.at + Len(Piece(t, r.at, n)),
                   items |-> Append(r.items, Piece(t, r.at, n)),
                   decoded |-> r.decoded + Decoded(Piece(t, r.at, n))]
          BY <5>1, ItemRoundIs, Zenon
        <5>3. v.decoded = r.decoded + Decoded(Piece(t, r.at, n))
          <6> HIDE DEF v
          <6> QED
            BY <5>2
        <5> QED
          BY <1>0, <5>1, <5>3
      <4> QED
        BY <4>1, <4>2
    <3>2. v.decoded \in Nat
      BY ItemTypes DEF ItemStates
    <3>3. r.decoded >= JSON_STRING_SIZE
      BY <2>2 DEF InStep
    <3>4. v.decoded >= JSON_STRING_SIZE
      BY <1>0, <3>1, <3>2, <3>3, SizePositive
    <3> HIDE DEF u, v
    <3>5. u.verdict = "size"
      BY <2>1, <2>2
    <3> QED
      BY <3>4, <3>5 DEF InStep, u, v
  <2>3. CASE s.verdict # "size"
    <3>1. Items(t, r.at) = {}
      <4>1. CASE s.verdict = "ok"
        BY <1>0, <4>1, ItemsAre DEF InStep, Closes
      <4>2. CASE s.verdict = "lexical"
        BY <4>2 DEF InStep
      <4> QED
        BY <1>0, <1>1, <2>3, <4>1, <4>2
    <3>2. v = r
      BY <3>1 DEF ItemRound
    <3> HIDE DEF u, v
    <3>3. InStep(t, k + 1, s, r)
      BY <1>1 DEF InStep
    <3> QED
      BY <2>1, <3>2, <3>3 DEF u, v
  <2> QED
    BY <2>2, <2>3
<1>2. CASE s.verdict = "open"
  <2>1. /\ s.at = r.at /\ s.decoded = r.decoded /\ r.decoded < JSON_STRING_SIZE
        /\ s.at >= k + 2 /\ s.at <= Len(t) + 1
        /\ s.nul <=> HasNul(r.items)
    BY <1>2 DEF InStep
  <2> DEFINE item == DomCharacter(t, s.at)
             x == Piece(t, s.at, item.bytes)
  <2>2. u = IF s.at > Len(t) THEN [s EXCEPT !.verdict = "lexical"]
            ELSE IF t[s.at] = Quote THEN [s EXCEPT !.verdict = "ok"]
            ELSE IF item.bytes = 0 THEN [s EXCEPT !.verdict = "lexical"]
            ELSE IF s.decoded + item.decoded >= JSON_STRING_SIZE
                 THEN [s EXCEPT !.verdict = "size"]
            ELSE [at |-> s.at + item.bytes, decoded |-> s.decoded + item.decoded,
                  nul |-> s.nul \/ item.nul, verdict |-> "open"]
    BY <1>2, Zenon DEF StringRound
  <2> HIDE DEF item, u
  <2>3. CASE s.at > Len(t)
    <3>1. Items(t, r.at) = {} /\ ~Closes(t, r.at)
      BY <1>0, <2>1, <2>3, ItemsAre DEF Closes
    <3>2. u.verdict = "lexical"
      BY <2>2, <2>3 DEF ScanStates
    <3>3. v = r
      BY <3>1 DEF ItemRound
    <3> HIDE DEF v
    <3> QED
      BY <2>1, <3>1, <3>2, <3>3 DEF InStep, u, v
  <2>4. CASE s.at <= Len(t) /\ t[s.at] = Quote
    <3>1. Items(t, r.at) = {} /\ Closes(t, r.at)
      BY <1>0, <2>1, <2>4, ItemsAre DEF Closes
    <3>2. u.verdict = "ok" /\ u.at = s.at /\ u.decoded = s.decoded /\ u.nul = s.nul
      BY <1>0, <2>2, <2>4 DEF ScanStates
    <3>3. v = r
      BY <3>1 DEF ItemRound
    <3> HIDE DEF v
    <3> QED
      BY <2>1, <3>1, <3>2, <3>3 DEF InStep, u, v
  <2>5. CASE s.at <= Len(t) /\ t[s.at] # Quote
    <3>0. s.at \in 1..Len(t) /\ ~(s.at > Len(t))
      BY <1>0, <2>5
    <3>1. ItemFound(t, s.at, item)
      BY <2>5, <3>0, ItemsHere DEF item
    <3>2. CASE item.bytes = 0
      <4>1. Items(t, r.at) = {} /\ ~Closes(t, r.at)
        BY <2>1, <2>5, <3>1, <3>2 DEF ItemFound, Closes
      <4>2. u.verdict = "lexical"
        BY <2>2, <2>5, <3>0, <3>2 DEF ScanStates
      <4>3. v = r
        BY <4>1 DEF ItemRound
      <4> HIDE DEF v
      <4> QED
        BY <2>1, <4>1, <4>2, <4>3 DEF InStep, u, v
    <3>3. CASE item.bytes # 0
      <4>1. /\ Items(t, s.at) = {item.bytes}
            /\ item.bytes \in ItemLengths /\ item.nul \in BOOLEAN
            /\ s.at + item.bytes - 1 <= Len(t)
            /\ item.decoded \in 0..4
            /\ item.decoded = Decoded(x)
            /\ item.nul <=> Scalar(x) = 0
        BY <3>1, <3>3 DEF ItemFound
      <4>2. item.bytes \in Nat \ {0}
        BY <4>1 DEF ItemLengths
      <4>3. Len(x) = item.bytes /\ x \in Seq(Bytes)
        BY <3>0, <4>1, <4>2, PieceIs
      <4>4. v = [at |-> s.at + Len(x), items |-> Append(r.items, x),
                 decoded |-> s.decoded + Decoded(x)]
        <5>1. Items(t, r.at) = {item.bytes}
          BY <2>1, <4>1
        <5>2. v = [at |-> r.at + Len(Piece(t, r.at, item.bytes)),
                   items |-> Append(r.items, Piece(t, r.at, item.bytes)),
                   decoded |-> r.decoded + Decoded(Piece(t, r.at, item.bytes))]
          BY <5>1, ItemRoundIs, Zenon
        <5> QED
          BY <2>1, <5>2, Zenon
      <4> HIDE DEF x, v
      <4>5. /\ v.at = s.at + item.bytes /\ v.items = Append(r.items, x)
            /\ v.decoded = s.decoded + item.decoded
        BY <4>1, <4>3, <4>4
      <4>6. CASE s.decoded + item.decoded >= JSON_STRING_SIZE
        <5>1. u.verdict = "size"
          BY <2>2, <2>5, <3>0, <3>3, <4>6 DEF ScanStates
        <5>2. v.decoded >= JSON_STRING_SIZE
          BY <4>5, <4>6
        <5> QED
          BY <5>1, <5>2 DEF InStep, u, v
      <4>7. CASE ~(s.decoded + item.decoded >= JSON_STRING_SIZE)
        <5>1. u = [at |-> s.at + item.bytes, decoded |-> s.decoded + item.decoded,
                   nul |-> s.nul \/ item.nul, verdict |-> "open"]
          BY <2>2, <2>5, <3>0, <3>3, <4>7, Zenon
        <5> DEFINE z == s.nul \/ item.nul
        <5>2. u.verdict = "open" /\ u.at = s.at + item.bytes
              /\ u.decoded = s.decoded + item.decoded /\ u.nul = z
          <6> HIDE DEF z
          <6> QED
            BY <5>1 DEF z
        <5>3. z <=> HasNul(Append(r.items, x))
          BY <1>0, <2>1, <4>1, <4>3, HasNulGrows
        <5> HIDE DEF z
        <5>4. v.decoded < JSON_STRING_SIZE
          BY <1>0, <4>1, <4>5, <4>7, SizePositive
        <5>5. u.at >= k + 1 + 2 /\ u.at <= Len(t) + 1
          BY <1>0, <2>1, <4>1, <4>2, <5>2
        <5>6. u.nul <=> HasNul(v.items)
          BY <4>5, <5>2, <5>3
        <5> QED
          BY <4>5, <5>2, <5>4, <5>5, <5>6 DEF InStep, u, v
      <4> QED
        BY <4>6, <4>7
    <3> QED
      BY <3>2, <3>3
  <2> QED
    BY <1>0, <2>3, <2>4, <2>5
<1> QED
  BY <1>1, <1>2

\* The text scanned to its end.
LEMMA ScannedTogether ==
    ASSUME NEW t \in Seq(Bytes), t # <<>>
    PROVE  /\ DomString(t) \in ScanStates /\ ItemsOf(t) \in ItemStates
           /\ InStep(t, Len(t), DomString(t), ItemsOf(t))
<1>0. Len(t) \in Nat
  OBVIOUS
<1>1. PICK f \in [0..Len(t) -> ScanStates] :
             /\ f[0] = StringStart /\ \A k \in 1..Len(t) : f[k] = StringRound(t, f[k - 1])
             /\ DomString(t) = f[Len(t)]
  BY ScanRuns
<1>2. PICK g \in [0..Len(t) -> ItemStates] :
             /\ g[0] = ItemsStart /\ \A k \in 1..Len(t) : g[k] = ItemRound(t, g[k - 1])
             /\ ItemsOf(t) = g[Len(t)]
  BY ItemsRun
<1> DEFINE T == {k \in Nat : k <= Len(t) => InStep(t, k, f[k], g[k])}
<1>3. 0 \in T
  <2>1. InStep(t, 0, StringStart, ItemsStart)
    <3>1. Len(t) >= 1
      OBVIOUS
    <3> QED
      BY <3>1, SizePositive, NoNul DEF InStep, StringStart, ItemsStart
  <2> QED
    BY <1>1, <1>2, <2>1
<1>4. ASSUME NEW k \in 1..Len(t), k - 1 \in T PROVE k \in T
  <2>1. PICK j \in Nat : j = k - 1 /\ j + 1 = k /\ j \in 0..Len(t)
    BY <1>4
  <2>2. f[j] \in ScanStates /\ g[j] \in ItemStates /\ InStep(t, j, f[j], g[j])
    BY <1>1, <1>2, <1>4, <2>1
  <2>3. InStep(t, j + 1, StringRound(t, f[j]), ItemRound(t, g[j]))
    BY <2>2, StepTogether
  <2>4. f[k] = StringRound(t, f[j]) /\ g[k] = ItemRound(t, g[j])
    BY <1>1, <1>2, <2>1
  <2> QED
    BY <2>1, <2>3, <2>4
<1> HIDE DEF T
<1>5. \A k \in 0..Len(t) : k \in T
  BY <1>0, <1>3, <1>4, AllRounds
<1>6. InStep(t, Len(t), f[Len(t)], g[Len(t)])
  <2>1. Len(t) \in 0..Len(t)
    BY <1>0
  <2> QED
    BY <1>0, <1>5, <2>1 DEF T
<1> QED
  BY <1>0, <1>1, <1>2, <1>6

\* The string scanner passes what the items say, for every text.
LEMMA StringExact ==
    ASSUME text \in Seq(Bytes)
    PROVE  DomStringExact
<1> DEFINE t == text
           found == DomString(t)
           items == ItemsOf(t)
<1> SUFFICES ASSUME t # <<>>, t[1] = Quote
             PROVE  /\ found.verdict =
                        IF items.decoded >= JSON_STRING_SIZE THEN "size"
                        ELSE IF items.at <= Len(t) /\ t[items.at] = Quote THEN "ok" ELSE "lexical"
                    /\ found.verdict = "ok" =>
                          /\ found.at = items.at /\ found.decoded = items.decoded
                          /\ found.nul = \E s \in ToSet(items.items) : Scalar(s) = 0
  BY Zenon DEF DomStringExact, IsString
<1>1. found \in ScanStates /\ items \in ItemStates /\ InStep(t, Len(t), found, items)
  BY ScannedTogether
<1>2. /\ found.verdict \in {"open", "ok", "lexical", "size"} /\ found.at \in Nat
      /\ found.nul \in BOOLEAN /\ items.decoded \in Nat
  BY <1>1 DEF ScanStates, ItemStates
<1> HIDE DEF found, items, t
<1>3. Len(t) \in Nat
  <2>1. t \in Seq(Bytes)
    BY DEF t
  <2> QED
    BY <2>1
<1>4. found.verdict # "open"
  BY <1>1, <1>2, <1>3 DEF InStep
<1>5. HasNul(items.items) \in BOOLEAN
  BY DEF HasNul
<1>6. found.verdict = "ok" => found.nul = HasNul(items.items)
  BY <1>1, <1>2, <1>5 DEF InStep
<1>7. /\ items.decoded >= JSON_STRING_SIZE => found.verdict = "size"
      /\ ~(items.decoded >= JSON_STRING_SIZE) => found.verdict # "size"
  BY <1>1, <1>2, <1>4, SizePositive DEF InStep
<1>8. found.verdict = "ok" => Closes(t, items.at)
  BY <1>1 DEF InStep
<1>9. found.verdict = "lexical" => ~Closes(t, items.at)
  BY <1>1 DEF InStep
<1>10. found.verdict = "ok" => found.at = items.at /\ found.decoded = items.decoded
  BY <1>1 DEF InStep
<1> QED
  BY <1>2, <1>4, <1>6, <1>7, <1>8, <1>9, <1>10 DEF Closes, HasNul

(***************************************************************************)
(* The text is a sequence of bytes.                                        *)
(***************************************************************************)

TextTypes == family \in Families /\ text \in Seq(Bytes)

\* Every text that grows from the families is a text of bytes.
THEOREM TextType == TextSpec => []TextTypes
<1>1. \A f \in Families : f.after \in Seq(Bytes) /\ f.pieces \subseteq Seq(Bytes)
  <2>1. 0..255 = Bytes
    BY DEF Bytes
  <2> QED
    BY <2>1, TextAssumption, Zenon
<1>2. TextInit => TextTypes
  BY <1>1 DEF TextInit, TextTypes
<1>3. TextTypes /\ [TextNext]_textVars => TextTypes'
  <2> SUFFICES ASSUME TextTypes, [TextNext]_textVars PROVE TextTypes'
    OBVIOUS
  <2>1. CASE UNCHANGED textVars
    BY <2>1 DEF textVars, TextTypes
  <2>2. ASSUME NEW p \in family.pieces, Grow(p) PROVE TextTypes'
    <3>1. p \in Seq(Bytes) /\ text \in Seq(Bytes)
      BY <1>1 DEF TextTypes
    <3>2. text \o p \in Seq(Bytes)
      BY <3>1
    <3> QED
      BY <2>2, <3>2 DEF Grow, TextTypes
  <2> QED
    BY <2>1, <2>2 DEF TextNext
<1> QED
  BY <1>2, <1>3, PTL DEF TextSpec

\* The string scanner of the C adapters passes exactly the strings of JSON that
\* fit the limit, counts their bytes and tells a NUL, for every text.
THEOREM DomStringExactHolds == TextSpec => []DomStringExact
<1>1. TextTypes => DomStringExact
  BY StringExact DEF TextTypes
<1> QED
  BY <1>1, TextType, PTL

(***************************************************************************)
(* The encoding check, round by round with the characters.                 *)
(***************************************************************************)

\* A byte below 128 is a character.
LEMMA AsciiLength ==
    ASSUME NEW t \in Seq(Bytes), NEW i \in 1..Len(t), t[i] <= 127
    PROVE  Utf8Length(t, i) = 1
<1> DEFINE s == Piece(t, i, 1)
<1>0. t[i] \in Bytes /\ t[i] \in Nat
  BY DEF Bytes
<1>1. s \in Seq(Bytes) /\ Len(s) = 1 /\ s[1] = t[i] /\ i + 1 - 1 <= Len(t)
  <2>1. i + 1 - 1 <= Len(t)
    OBVIOUS
  <2>2. s \in Seq(Bytes) /\ Len(s) = 1 /\ \A j \in 1..1 : s[j] = t[i + j - 1]
    <3>1. 1 \in Nat \ {0}
      OBVIOUS
    <3> QED
      BY <2>1, <3>1, PieceIs, Zenon
  <2>3. s[1] = t[i + 1 - 1] /\ i + 1 - 1 = i
    BY <2>2
  <2> QED
    BY <2>1, <2>2, <2>3
<1> HIDE DEF s
<1>2. LeadLength(t[i]) = 1
  BY <1>0, LeadLengthIs
<1>3. Payload(s) = t[i]
  <2>1. Payload(s) = Payload1(s)
    BY <1>1, PayloadIs DEF Payloads
  <2>2. EncodedLength(s[1]) # 0
    BY <1>0, <1>1, EncodedLengthIs
  <2> QED
    BY <1>0, <1>1, <2>1, <2>2, Payload1Is
<1>4. IsCharacter(s)
  <2>1. \A j \in 2..1 : Continues(s[j])
    OBVIOUS
  <2>2. Scalars(Payload(s), 1)
    BY <1>0, <1>3, ScalarsAre
  <2> QED
    BY <1>1, <1>2, <2>1, <2>2, CharacterIs
<1>5. 1 \in Characters(t, i)
  BY <1>1, <1>4, CharactersAre DEF s
<1> QED
  BY <1>5, CharactersHere

EncodingStates == [at : Nat \ {0}, in_string : BOOLEAN, valid : BOOLEAN]
CharacterStates == [at : Nat \ {0}, open : BOOLEAN, good : BOOLEAN]
CharactersStart == [at |-> 1, open |-> FALSE, good |-> TRUE]

\* A round of the check at i, in a string or outside.
EncodingAt(t, s, i, o) ==
    IF ~s.valid \/ i > Len(t) THEN s
    ELSE IF t[i] = 0 \/ (o /\ t[i] < 32) THEN [s EXCEPT !.valid = FALSE]
    ELSE IF t[i] >= 128
         THEN IF Utf8Length(t, i) = 0 THEN [s EXCEPT !.valid = FALSE]
              ELSE [s EXCEPT !.at = i + Utf8Length(t, i)]
    ELSE IF o /\ t[i] = Backslash
         THEN IF i = Len(t) THEN [s EXCEPT !.at = i + 1]
              ELSE IF EscapeBytes(t, i) = 0 THEN [s EXCEPT !.valid = FALSE]
              ELSE [s EXCEPT !.at = i + EscapeBytes(t, i)]
    ELSE [s EXCEPT !.at = i + 1, !.in_string = (o # (t[i] = Quote))]

\* A round of the encoding check, by the byte it is at.
LEMMA EncodingRoundIs ==
    ASSUME NEW t \in Seq(Bytes), NEW s \in EncodingStates
    PROVE  EncodingRound(t, s) = EncodingAt(t, s, s.at, s.in_string)
<1> USE DEF EncodingAt
<1>0. s.at \in Nat \ {0}
  BY DEF EncodingStates
<1> DEFINE c == t[s.at]
           n == Utf8Length(t, s.at)
           m == EscapeBytes(t, s.at)
           to(next) == IF next = 0 THEN [s EXCEPT !.valid = FALSE] ELSE [s EXCEPT !.at = next]
<1>1. EncodingRound(t, s) =
        IF ~s.valid \/ s.at > Len(t) THEN s
        ELSE IF c = 0 \/ (s.in_string /\ c < 32) THEN to(0)
        ELSE IF c >= 128 THEN to(IF n = 0 THEN 0 ELSE s.at + n)
        ELSE IF s.in_string /\ c = Backslash THEN to(EscapeEnd(t, s.at))
        ELSE [s EXCEPT !.at = @ + 1, !.in_string = (@ # (c = Quote))]
  BY Zenon DEF EncodingRound
<1>2. to(0) = [s EXCEPT !.valid = FALSE]
  OBVIOUS
<1>3. \A x \in Nat \ {0} : to(x) = [s EXCEPT !.at = x]
  OBVIOUS
<1>4. CASE ~s.valid \/ s.at > Len(t)
  BY <1>1, <1>4, Zenon
<1>5. CASE ~(~s.valid \/ s.at > Len(t))
  <2>1. s.at \in 1..Len(t)
    BY <1>0, <1>5
  <2>2. n \in Nat
    BY <2>1, CharactersHere
  <2>3. to(IF n = 0 THEN 0 ELSE s.at + n) =
          IF n = 0 THEN [s EXCEPT !.valid = FALSE] ELSE [s EXCEPT !.at = @ + n]
    <3> HIDE DEF n
    <3>1. CASE n = 0
      BY <1>2, <3>1
    <3>2. CASE n # 0
      <4>1. s.at + n \in Nat \ {0}
        BY <1>0, <2>2
      <4>2. to(s.at + n) = [s EXCEPT !.at = s.at + n]
        BY <1>3, <4>1
      <4> QED
        BY <3>2, <4>2
    <3> QED
      BY <3>1, <3>2
  <2>4. c = Backslash => m \in Nat
    BY <2>1, EscapesHere
  <2>5. c = Backslash =>
          to(EscapeEnd(t, s.at)) =
            IF s.at = Len(t) THEN [s EXCEPT !.at = @ + 1]
            ELSE IF m = 0 THEN [s EXCEPT !.valid = FALSE] ELSE [s EXCEPT !.at = @ + m]
    <3> SUFFICES ASSUME c = Backslash
                 PROVE to(EscapeEnd(t, s.at)) =
            IF s.at = Len(t) THEN [s EXCEPT !.at = @ + 1]
            ELSE IF m = 0 THEN [s EXCEPT !.valid = FALSE] ELSE [s EXCEPT !.at = @ + m]
      OBVIOUS
    <3>1. EscapeEnd(t, s.at) = IF s.at = Len(t) THEN s.at + 1
                               ELSE IF m = 0 THEN 0 ELSE s.at + m
      BY <2>1, EscapeEndIs
    <3> HIDE DEF m, to
    <3>2. CASE s.at = Len(t)
      <4>1. s.at + 1 \in Nat \ {0}
        BY <1>0
      <4>2. to(s.at + 1) = [s EXCEPT !.at = s.at + 1]
        BY <1>3, <4>1
      <4> QED
        BY <3>1, <3>2, <4>2
    <3>3. CASE s.at # Len(t) /\ m = 0
      BY <1>2, <3>1, <3>3
    <3>4. CASE s.at # Len(t) /\ m # 0
      <4>1. s.at + m \in Nat \ {0}
        BY <1>0, <2>4
      <4>2. to(s.at + m) = [s EXCEPT !.at = s.at + m]
        BY <1>3, <4>1
      <4> QED
        BY <3>1, <3>4, <4>2
    <3> QED
      BY <3>2, <3>3, <3>4
  <2> HIDE DEF c, n, m, to
  <2>6. CASE c = 0 \/ (s.in_string /\ c < 32)
    BY <1>1, <1>2, <1>5, <2>6, Zenon DEF c
  <2>7. CASE ~(c = 0 \/ (s.in_string /\ c < 32)) /\ c >= 128
    BY <1>1, <1>5, <2>3, <2>7, Zenon DEF c, n
  <2>8. CASE ~(c = 0 \/ (s.in_string /\ c < 32)) /\ ~(c >= 128) /\ s.in_string /\ c = Backslash
    BY <1>1, <1>5, <2>5, <2>8, Zenon DEF c, m
  <2>9. CASE ~(c = 0 \/ (s.in_string /\ c < 32)) /\ ~(c >= 128) /\ ~(s.in_string /\ c = Backslash)
    BY <1>1, <1>5, <2>9, Zenon DEF c
  <2> QED
    BY <2>6, <2>7, <2>8, <2>9
<1> QED
  BY <1>4, <1>5

\* A round of the encoding check keeps its types.
LEMMA EncodingTypes ==
    ASSUME NEW t \in Seq(Bytes)
    PROVE  /\ EncodingStart \in EncodingStates
           /\ \A s \in EncodingStates : EncodingRound(t, s) \in EncodingStates
<1>1. EncodingStart \in EncodingStates
  BY DEF EncodingStart, EncodingStates
<1>2. ASSUME NEW s \in EncodingStates PROVE EncodingRound(t, s) \in EncodingStates
  <2>0. s.at \in Nat \ {0} /\ s.in_string \in BOOLEAN
    BY DEF EncodingStates
  <2>1. [s EXCEPT !.valid = FALSE] \in EncodingStates
    BY DEF EncodingStates
  <2>2. \A n \in Nat : [s EXCEPT !.at = @ + n] \in EncodingStates
    BY <2>0 DEF EncodingStates
  <2>x. ASSUME NEW x \in Nat \ {0}, NEW z \in BOOLEAN
        PROVE  [s EXCEPT !.at = x, !.in_string = z] \in EncodingStates
    BY DEF EncodingStates
  <2>3. \A z \in BOOLEAN : [s EXCEPT !.at = @ + 1, !.in_string = z] \in EncodingStates
    <3>1. s.at + 1 \in Nat \ {0}
      BY <2>0
    <3> QED
      BY <2>x, <3>1
  <2>z. (s.in_string # (t[s.at] = Quote)) \in BOOLEAN
    OBVIOUS
  <2> DEFINE z == s.in_string # (t[s.at] = Quote)
  <2>y. [s EXCEPT !.at = @ + 1, !.in_string = z] \in EncodingStates
    <3> HIDE DEF z
    <3>1. z \in BOOLEAN
      BY <2>z DEF z
    <3> QED
      BY <2>3, <3>1
  <2>4. ASSUME ~(s.at > Len(t))
        PROVE  Utf8Length(t, s.at) \in Nat /\ (t[s.at] = Backslash => EscapeBytes(t, s.at) \in Nat)
    <3>1. s.at \in 1..Len(t)
      BY <2>0, <2>4
    <3> QED
      BY <3>1, CharactersHere, EscapesHere
  <2> HIDE DEF z
  <2>5. CASE ~s.valid \/ s.at > Len(t)
    BY <2>5, EncodingRoundIs, Zenon DEF EncodingAt
  <2>6. CASE ~(~s.valid \/ s.at > Len(t))
    <3> DEFINE n == Utf8Length(t, s.at)
               m == EscapeBytes(t, s.at)
    <3>1. [s EXCEPT !.at = @ + n] \in EncodingStates
      BY <2>2, <2>4, <2>6
    <3>2. t[s.at] = Backslash => [s EXCEPT !.at = @ + m] \in EncodingStates
      BY <2>2, <2>4, <2>6
    <3>3. [s EXCEPT !.at = @ + 1] \in EncodingStates
      BY <2>2
    <3> HIDE DEF n, m
    <3>4. EncodingAt(t, s, s.at, s.in_string) =
             IF t[s.at] = 0 \/ (s.in_string /\ t[s.at] < 32) THEN [s EXCEPT !.valid = FALSE]
             ELSE IF t[s.at] >= 128
                  THEN IF n = 0 THEN [s EXCEPT !.valid = FALSE] ELSE [s EXCEPT !.at = s.at + n]
             ELSE IF s.in_string /\ t[s.at] = Backslash
                  THEN IF s.at = Len(t) THEN [s EXCEPT !.at = s.at + 1]
                       ELSE IF m = 0 THEN [s EXCEPT !.valid = FALSE] ELSE [s EXCEPT !.at = s.at + m]
             ELSE [s EXCEPT !.at = s.at + 1, !.in_string = z]
      BY <2>6, Zenon DEF EncodingAt, n, m, z
    <3>5. EncodingAt(t, s, s.at, s.in_string) \in EncodingStates
      BY <2>1, <2>y, <3>1, <3>2, <3>3, <3>4
    <3> QED
      BY <3>5, EncodingRoundIs
  <2> QED
    BY <2>5, <2>6
<1> QED
  BY <1>1, <1>2

\* A lawful character is one, with no surrogate that stands alone.
LEMMA LawfulAre ==
    ASSUME NEW t \in Seq(Bytes), NEW i \in 1..Len(t), NEW open \in BOOLEAN
    PROVE  Lawful(t, i, open) =
             IF t[i] = 0 \/ (open /\ t[i] < 32) THEN {}
             ELSE IF open /\ t[i] = Backslash
                  THEN IF EscapeBytes(t, i) = 0 THEN {} ELSE {EscapeBytes(t, i)}
             ELSE IF t[i] >= 128 /\ Utf8Length(t, i) = 0 THEN {}
             ELSE {IF t[i] >= 128 THEN Utf8Length(t, i) ELSE 1}
<1>0. t[i] \in Nat
  BY DEF Bytes
<1>1. CASE t[i] = 0 \/ (open /\ t[i] < 32)
  BY <1>1 DEF Lawful
<1>2. CASE ~(t[i] = 0 \/ (open /\ t[i] < 32)) /\ open /\ t[i] = Backslash
  <2>1. Lawful(t, i, open) = Escapes(t, i)
    BY <1>2 DEF Lawful
  <2> QED
    BY <1>2, <2>1, EscapesHere
<1>3. CASE ~(t[i] = 0 \/ (open /\ t[i] < 32)) /\ ~(open /\ t[i] = Backslash)
  <2>1. Lawful(t, i, open) = Characters(t, i)
    BY <1>3 DEF Lawful
  <2>2. CASE t[i] >= 128
    BY <1>3, <2>1, <2>2, CharactersHere
  <2>3. CASE ~(t[i] >= 128)
    <3>1. Utf8Length(t, i) = 1
      BY <1>0, <2>3, AsciiLength
    <3> QED
      BY <1>3, <2>1, <2>3, <3>1, CharactersHere
  <2> QED
    BY <2>2, <2>3
<1> QED
  BY <1>1, <1>2, <1>3

CharacterAt(t, s, i, o) ==
    IF ~s.good \/ i > Len(t) THEN s
    ELSE IF t[i] = 0 \/ (o /\ t[i] < 32) THEN [s EXCEPT !.good = FALSE]
    ELSE IF t[i] >= 128
         THEN IF Utf8Length(t, i) = 0 THEN [s EXCEPT !.good = FALSE]
              ELSE [s EXCEPT !.at = i + Utf8Length(t, i)]
    ELSE IF o /\ t[i] = Backslash
         THEN IF i = Len(t) THEN [s EXCEPT !.at = i + 1]
              ELSE IF EscapeBytes(t, i) = 0 THEN [s EXCEPT !.good = FALSE]
              ELSE [s EXCEPT !.at = i + EscapeBytes(t, i)]
    ELSE [s EXCEPT !.at = i + 1, !.open = (o # (t[i] = Quote))]

\* A round of the reference, case by case.
LEMMA CharacterRoundIs ==
    ASSUME NEW t \in Seq(Bytes), NEW s \in CharacterStates
    PROVE  CharacterRound(t, s) = CharacterAt(t, s, s.at, s.open)
<1> USE DEF CharacterAt
<1>0. s.at \in Nat \ {0} /\ s.open \in BOOLEAN
  BY DEF CharacterStates
<1> DEFINE c == t[s.at]
           ns == Lawful(t, s.at, s.open)
           m == EscapeBytes(t, s.at)
           n == IF c >= 128 THEN Utf8Length(t, s.at) ELSE 1
<1>1. CharacterRound(t, s) =
        IF ~s.good \/ s.at > Len(t) THEN s
        ELSE IF s.open /\ s.at = Len(t) /\ c = Backslash THEN [s EXCEPT !.at = @ + 1]
        ELSE IF ns = {} THEN [s EXCEPT !.good = FALSE]
        ELSE [s EXCEPT !.at = @ + (CHOOSE x \in ns : TRUE), !.open = (@ # (c = Quote))]
  BY Zenon DEF CharacterRound, LastBackslash
<1>2. CASE ~s.good \/ s.at > Len(t)
  BY <1>1, <1>2, Zenon
<1>3. CASE ~(~s.good \/ s.at > Len(t))
  <2>1. s.at \in 1..Len(t)
    BY <1>0, <1>3
  <2>2. c \in Nat
    BY <2>1 DEF Bytes
  <2>3. ns = IF c = 0 \/ (s.open /\ c < 32) THEN {}
             ELSE IF s.open /\ c = Backslash
                  THEN IF m = 0 THEN {} ELSE {m}
             ELSE IF c >= 128 /\ n = 0 THEN {} ELSE {n}
    BY <1>0, <2>1, LawfulAre
  <2>4. c = Backslash => c # 0 /\ ~(c < 32) /\ ~(c >= 128) /\ c # Quote
    BY DEF Backslash, Quote
  <2>5. \A x : ns = {x} => (CHOOSE y \in ns : TRUE) = x
    OBVIOUS
  <2>6. ASSUME c # Quote, NEW x
        PROVE  [s EXCEPT !.at = @ + x, !.open = (@ # (c = Quote))] = [s EXCEPT !.at = @ + x]
    <3>1. (s.open # (c = Quote)) = s.open
      BY <1>0, <2>6
    <3> QED
      BY <3>1 DEF CharacterStates
  <2>7. c >= 128 => c # Quote /\ c # Backslash /\ ~(c < 32) /\ c # 0
    BY <2>2 DEF Quote, Backslash
  <2>8. /\ c >= 128 => n = Utf8Length(t, s.at)
        /\ ~(c >= 128) => n = 1
    OBVIOUS
  <2> HIDE DEF ns, m, n
  <2>9. CASE c = 0 \/ (s.open /\ c < 32)
    <3>1. ns = {} /\ c # Backslash
      BY <2>3, <2>4, <2>9
    <3> QED
      BY <1>1, <1>3, <2>9, <3>1, Zenon
  <2>10. CASE c >= 128 /\ n = 0
    <3>1. ns = {} /\ c # Backslash
      BY <2>3, <2>7, <2>10
    <3> QED
      BY <1>1, <1>3, <2>7, <2>8, <2>10, <3>1, Zenon
  <2>11. CASE c >= 128 /\ n # 0
    <3>1. ns = {n} /\ c # Backslash
      BY <2>3, <2>7, <2>11
    <3>2. ns # {} /\ (CHOOSE x \in ns : TRUE) = n
      BY <2>5, <3>1
    <3>3. [s EXCEPT !.at = @ + n, !.open = (@ # (c = Quote))] = [s EXCEPT !.at = @ + n]
      BY <2>6, <2>7, <2>11
    <3>4. CharacterRound(t, s) = [s EXCEPT !.at = @ + n]
      BY <1>1, <1>3, <3>1, <3>2, <3>3, Zenon
    <3>5. c # 0 /\ ~(c < 32) /\ n = Utf8Length(t, s.at)
      BY <2>7, <2>8, <2>11
    <3> QED
      BY <1>3, <2>11, <3>4, <3>5, Zenon DEF c
  <2>12. CASE s.open /\ c = Backslash
    <3>1. CASE s.at = Len(t)
      BY <1>1, <1>3, <2>4, <2>12, <3>1, Zenon
    <3>2. CASE s.at # Len(t) /\ m = 0
      <4>1. ns = {}
        BY <2>3, <2>4, <2>12, <3>2
      <4> QED
        BY <1>1, <1>3, <2>4, <2>12, <3>2, <4>1, Zenon DEF m
    <3>3. CASE s.at # Len(t) /\ m # 0
      <4>1. ns = {m}
        BY <2>3, <2>4, <2>12, <3>3
      <4>2. ns # {} /\ (CHOOSE x \in ns : TRUE) = m
        BY <2>5, <4>1
      <4> QED
        BY <1>1, <1>3, <2>4, <2>6, <2>12, <3>3, <4>2, Zenon DEF m
    <3> QED
      BY <3>1, <3>2, <3>3
  <2>13. CASE /\ ~(c = 0 \/ (s.open /\ c < 32)) /\ ~(c >= 128)
              /\ ~(s.open /\ c = Backslash)
    <3>1. ns = {n} /\ n = 1
      BY <2>3, <2>8, <2>13
    <3>2. ns # {} /\ (CHOOSE x \in ns : TRUE) = 1
      BY <2>5, <3>1
    <3> QED
      BY <1>1, <1>3, <2>13, <3>2, Zenon
  <2> QED
    BY <2>9, <2>10, <2>11, <2>12, <2>13
<1> QED
  BY <1>2, <1>3

\* A round of the reference keeps its types.
LEMMA CharacterTypes ==
    ASSUME NEW t \in Seq(Bytes)
    PROVE  /\ CharactersStart \in CharacterStates
           /\ \A s \in CharacterStates : CharacterRound(t, s) \in CharacterStates
<1>1. CharactersStart \in CharacterStates
  BY DEF CharactersStart, CharacterStates
<1>2. ASSUME NEW s \in CharacterStates PROVE CharacterRound(t, s) \in CharacterStates
  <2>0. s.at \in Nat \ {0} /\ s.open \in BOOLEAN
    BY DEF CharacterStates
  <2>1. [s EXCEPT !.good = FALSE] \in CharacterStates
    BY DEF CharacterStates
  <2>2. \A n \in Nat : [s EXCEPT !.at = @ + n] \in CharacterStates
    BY <2>0 DEF CharacterStates
  <2>x. ASSUME NEW x \in Nat \ {0}, NEW z \in BOOLEAN
        PROVE  [s EXCEPT !.at = x, !.open = z] \in CharacterStates
    BY DEF CharacterStates
  <2>3. \A z \in BOOLEAN : [s EXCEPT !.at = @ + 1, !.open = z] \in CharacterStates
    <3>1. s.at + 1 \in Nat \ {0}
      BY <2>0
    <3> QED
      BY <2>x, <3>1
  <2>z. (s.open # (t[s.at] = Quote)) \in BOOLEAN
    OBVIOUS
  <2> DEFINE z == s.open # (t[s.at] = Quote)
  <2>y. [s EXCEPT !.at = @ + 1, !.open = z] \in CharacterStates
    <3> HIDE DEF z
    <3>1. z \in BOOLEAN
      BY <2>z DEF z
    <3> QED
      BY <2>3, <3>1
  <2>4. ASSUME ~(s.at > Len(t))
        PROVE  Utf8Length(t, s.at) \in Nat /\ (t[s.at] = Backslash => EscapeBytes(t, s.at) \in Nat)
    <3>1. s.at \in 1..Len(t)
      BY <2>0, <2>4
    <3> QED
      BY <3>1, CharactersHere, EscapesHere
  <2> HIDE DEF z
  <2>5. CASE ~s.good \/ s.at > Len(t)
    BY <2>5, CharacterRoundIs, Zenon DEF CharacterAt
  <2>6. CASE ~(~s.good \/ s.at > Len(t))
    <3> DEFINE n == Utf8Length(t, s.at)
               m == EscapeBytes(t, s.at)
    <3>1. [s EXCEPT !.at = @ + n] \in CharacterStates
      BY <2>2, <2>4, <2>6
    <3>2. t[s.at] = Backslash => [s EXCEPT !.at = @ + m] \in CharacterStates
      BY <2>2, <2>4, <2>6
    <3>3. [s EXCEPT !.at = @ + 1] \in CharacterStates
      BY <2>2
    <3> HIDE DEF n, m
    <3>4. CharacterAt(t, s, s.at, s.open) =
             IF t[s.at] = 0 \/ (s.open /\ t[s.at] < 32) THEN [s EXCEPT !.good = FALSE]
             ELSE IF t[s.at] >= 128
                  THEN IF n = 0 THEN [s EXCEPT !.good = FALSE] ELSE [s EXCEPT !.at = s.at + n]
             ELSE IF s.open /\ t[s.at] = Backslash
                  THEN IF s.at = Len(t) THEN [s EXCEPT !.at = s.at + 1]
                       ELSE IF m = 0 THEN [s EXCEPT !.good = FALSE] ELSE [s EXCEPT !.at = s.at + m]
             ELSE [s EXCEPT !.at = s.at + 1, !.open = z]
      BY <2>6, Zenon DEF CharacterAt, n, m, z
    <3>5. CharacterAt(t, s, s.at, s.open) \in CharacterStates
      BY <2>1, <2>y, <3>1, <3>2, <3>3, <3>4
    <3> QED
      BY <3>5, CharacterRoundIs
  <2> QED
    BY <2>5, <2>6
<1> QED
  BY <1>1, <1>2

IsEncoding(f, t) ==
    f = [k \in 0..Len(t) |-> IF k = 0 THEN EncodingStart ELSE EncodingRound(t, f[k - 1])]

\* The encoding check as a run.
LEMMA EncodingRuns ==
    ASSUME NEW t \in Seq(Bytes)
    PROVE  \E f \in [0..Len(t) -> EncodingStates] :
              /\ f[0] = EncodingStart /\ \A k \in 1..Len(t) : f[k] = EncodingRound(t, f[k - 1])
              /\ ValidEncoding(t) = f[Len(t)].valid
<1> DEFINE n == Len(t)
           step == [x \in EncodingStates \X (1..n) |-> EncodingRound(t, x[1])]
<1>0. n \in Nat /\ EncodingStart \in EncodingStates
  BY EncodingTypes
<1>1. IsStep(step, EncodingStates, n)
  <2> SUFFICES ASSUME NEW x \in EncodingStates \X (1..n)
               PROVE  EncodingRound(t, x[1]) \in EncodingStates
    BY DEF IsStep
  <2> QED
    BY EncodingTypes
<1>2. PICK f : /\ f \in [0..n -> EncodingStates]
               /\ f[0] = EncodingStart /\ \A k \in 1..n : f[k] = step[<<f[k - 1], k>>]
  <2> HIDE DEF step, n
  <2>1. \E f : Solution(f, EncodingStates, n, EncodingStart, step)
    BY <1>0, <1>1, Recursion, Zenon
  <2> QED
    BY <2>1 DEF Solution
<1>3. \A k \in 1..n : f[k] = EncodingRound(t, f[k - 1])
  <2> SUFFICES ASSUME NEW k \in 1..n
               PROVE  f[k] = EncodingRound(t, f[k - 1])
    OBVIOUS
  <2>1. f[k - 1] \in EncodingStates
    BY <1>2
  <2> QED
    BY <1>2, <2>1
<1>4. IsEncoding(f, t)
  BY <1>2, <1>3 DEF IsEncoding
<1>5. ValidEncoding(t) = (CHOOSE g : IsEncoding(g, t))[Len(t)].valid
  BY Zenon DEF ValidEncoding, IsEncoding
<1>6. ASSUME NEW g, IsEncoding(g, t) PROVE g[n] = f[n]
  <2>1. f[0] = g[0] /\ \A k \in 1..n : f[k - 1] = g[k - 1] => f[k] = g[k]
    BY <1>4, <1>6 DEF IsEncoding
  <2> HIDE DEF n
  <2>2. Lockstep(f, g, n)
    BY <2>1 DEF Lockstep
  <2> QED
    BY <1>0, <2>2, SameSteps, Zenon
<1>7. (CHOOSE g : IsEncoding(g, t))[n] = f[n]
  BY <1>4, <1>6, Zenon
<1> QED
  BY <1>2, <1>3, <1>5, <1>7

IsCharacters(f, t) ==
    f = [k \in 0..Len(t) |-> IF k = 0 THEN CharactersStart ELSE CharacterRound(t, f[k - 1])]

\* The reference of an encoding as a run.
LEMMA CharactersRun ==
    ASSUME NEW t \in Seq(Bytes)
    PROVE  \E f \in [0..Len(t) -> CharacterStates] :
              /\ f[0] = CharactersStart /\ \A k \in 1..Len(t) : f[k] = CharacterRound(t, f[k - 1])
              /\ CharactersOf(t) = f[Len(t)]
<1> DEFINE n == Len(t)
           step == [x \in CharacterStates \X (1..n) |-> CharacterRound(t, x[1])]
<1>0. n \in Nat /\ CharactersStart \in CharacterStates
  BY CharacterTypes
<1>1. IsStep(step, CharacterStates, n)
  <2> SUFFICES ASSUME NEW x \in CharacterStates \X (1..n)
               PROVE  CharacterRound(t, x[1]) \in CharacterStates
    BY DEF IsStep
  <2> QED
    BY CharacterTypes
<1>2. PICK f : /\ f \in [0..n -> CharacterStates]
               /\ f[0] = CharactersStart /\ \A k \in 1..n : f[k] = step[<<f[k - 1], k>>]
  <2> HIDE DEF step, n
  <2>1. \E f : Solution(f, CharacterStates, n, CharactersStart, step)
    BY <1>0, <1>1, Recursion, Zenon
  <2> QED
    BY <2>1 DEF Solution
<1>3. \A k \in 1..n : f[k] = CharacterRound(t, f[k - 1])
  <2> SUFFICES ASSUME NEW k \in 1..n
               PROVE  f[k] = CharacterRound(t, f[k - 1])
    OBVIOUS
  <2>1. f[k - 1] \in CharacterStates
    BY <1>2
  <2> QED
    BY <1>2, <2>1
<1>4. IsCharacters(f, t)
  BY <1>2, <1>3 DEF IsCharacters
<1>5. CharactersOf(t) = (CHOOSE g : IsCharacters(g, t))[Len(t)]
  BY Zenon DEF CharactersOf, IsCharacters, CharactersStart
<1>6. ASSUME NEW g, IsCharacters(g, t) PROVE g[n] = f[n]
  <2>1. f[0] = g[0] /\ \A k \in 1..n : f[k - 1] = g[k - 1] => f[k] = g[k]
    BY <1>4, <1>6 DEF IsCharacters
  <2> HIDE DEF n
  <2>2. Lockstep(f, g, n)
    BY <2>1 DEF Lockstep
  <2> QED
    BY <1>0, <2>2, SameSteps, Zenon
<1>7. (CHOOSE g : IsCharacters(g, t))[n] = f[n]
  BY <1>4, <1>6, Zenon
<1> QED
  BY <1>2, <1>3, <1>5, <1>7

\* The check and the characters go through the text together.
SameCharacters(s, r) ==
    /\ s.valid = r.good
    /\ s.valid => s.at = r.at /\ s.in_string = r.open

\* A round of the check and one of the reference keep them together.
LEMMA CharactersTogether ==
    ASSUME NEW t \in Seq(Bytes), NEW s \in EncodingStates, NEW r \in CharacterStates,
           SameCharacters(s, r)
    PROVE  SameCharacters(EncodingRound(t, s), CharacterRound(t, r))
<1>1. CASE ~s.valid
  BY <1>1, EncodingRoundIs, CharacterRoundIs DEF SameCharacters, EncodingAt, CharacterAt
<1>2. CASE s.valid
  <2> DEFINE i == s.at
             o == s.in_string
             n == Utf8Length(t, i)
             m == EscapeBytes(t, i)
             c == t[i]
             next == o # (c = Quote)
  <2>1. /\ s = [at |-> i, in_string |-> o, valid |-> TRUE]
        /\ r = [at |-> i, open |-> o, good |-> TRUE]
        /\ r.at = i /\ r.open = o /\ r.good
    BY <1>2 DEF SameCharacters, EncodingStates, CharacterStates
  <2>2. EncodingRound(t, s) = EncodingAt(t, s, i, o) /\ CharacterRound(t, r) = CharacterAt(t, r, i, o)
    BY <2>1, EncodingRoundIs, CharacterRoundIs
  <2>4. /\ SameCharacters(s, r)
        /\ SameCharacters([s EXCEPT !.valid = FALSE], [r EXCEPT !.good = FALSE])
        /\ \A x : SameCharacters([s EXCEPT !.at = x], [r EXCEPT !.at = x])
    BY <2>1 DEF SameCharacters
  <2>5. \A x : SameCharacters([s EXCEPT !.at = x, !.in_string = next],
                             [r EXCEPT !.at = x, !.open = next])
    <3> HIDE DEF next, i, o
    <3> QED
      BY <2>1 DEF SameCharacters
  <2>3. /\ EncodingAt(t, s, i, o) =
             IF i > Len(t) THEN s
             ELSE IF c = 0 \/ (o /\ c < 32) THEN [s EXCEPT !.valid = FALSE]
             ELSE IF c >= 128
                  THEN IF n = 0 THEN [s EXCEPT !.valid = FALSE] ELSE [s EXCEPT !.at = i + n]
             ELSE IF o /\ c = Backslash
                  THEN IF i = Len(t) THEN [s EXCEPT !.at = i + 1]
                       ELSE IF m = 0 THEN [s EXCEPT !.valid = FALSE] ELSE [s EXCEPT !.at = i + m]
             ELSE [s EXCEPT !.at = i + 1, !.in_string = next]
        /\ CharacterAt(t, r, i, o) =
             IF i > Len(t) THEN r
             ELSE IF c = 0 \/ (o /\ c < 32) THEN [r EXCEPT !.good = FALSE]
             ELSE IF c >= 128
                  THEN IF n = 0 THEN [r EXCEPT !.good = FALSE] ELSE [r EXCEPT !.at = i + n]
             ELSE IF o /\ c = Backslash
                  THEN IF i = Len(t) THEN [r EXCEPT !.at = i + 1]
                       ELSE IF m = 0 THEN [r EXCEPT !.good = FALSE] ELSE [r EXCEPT !.at = i + m]
             ELSE [r EXCEPT !.at = i + 1, !.open = next]
    BY <1>2, <2>1, Zenon DEF EncodingAt, CharacterAt
  <2> HIDE DEF i, o, n, m, c, next
  <2>6. CASE i > Len(t)
    BY <2>2, <2>3, <2>4, <2>6, Zenon
  <2>7. CASE ~(i > Len(t)) /\ (c = 0 \/ (o /\ c < 32))
    BY <2>2, <2>3, <2>4, <2>7, Zenon
  <2>8. CASE ~(i > Len(t)) /\ ~(c = 0 \/ (o /\ c < 32)) /\ c >= 128
    <3>1. CASE n = 0
      <4>1. /\ EncodingAt(t, s, i, o) = [s EXCEPT !.valid = FALSE]
            /\ CharacterAt(t, r, i, o) = [r EXCEPT !.good = FALSE]
        BY <2>3, <2>8, <3>1, Zenon
      <4> QED
        BY <2>2, <2>4, <4>1
    <3>2. CASE n # 0
      <4>1. /\ EncodingAt(t, s, i, o) = [s EXCEPT !.at = i + n]
            /\ CharacterAt(t, r, i, o) = [r EXCEPT !.at = i + n]
        BY <2>3, <2>8, <3>2, Zenon
      <4>2. SameCharacters([s EXCEPT !.at = i + n], [r EXCEPT !.at = i + n])
        BY <2>4, Zenon
      <4> QED
        BY <2>2, <4>1, <4>2
    <3> QED
      BY <3>1, <3>2
  <2>9. CASE ~(i > Len(t)) /\ ~(c = 0 \/ (o /\ c < 32)) /\ ~(c >= 128) /\ o /\ c = Backslash
    <3>1. CASE i = Len(t)
      <4>1. /\ EncodingAt(t, s, i, o) = [s EXCEPT !.at = i + 1]
            /\ CharacterAt(t, r, i, o) = [r EXCEPT !.at = i + 1]
        BY <2>3, <2>9, <3>1, Zenon
      <4>2. SameCharacters([s EXCEPT !.at = i + 1], [r EXCEPT !.at = i + 1])
        BY <2>4, Zenon
      <4> QED
        BY <2>2, <4>1, <4>2
    <3>2. CASE i # Len(t) /\ m = 0
      <4>1. /\ EncodingAt(t, s, i, o) = [s EXCEPT !.valid = FALSE]
            /\ CharacterAt(t, r, i, o) = [r EXCEPT !.good = FALSE]
        BY <2>3, <2>9, <3>2, Zenon
      <4> QED
        BY <2>2, <2>4, <4>1
    <3>3. CASE i # Len(t) /\ m # 0
      <4>1. /\ EncodingAt(t, s, i, o) = [s EXCEPT !.at = i + m]
            /\ CharacterAt(t, r, i, o) = [r EXCEPT !.at = i + m]
        BY <2>3, <2>9, <3>3, Zenon
      <4>2. SameCharacters([s EXCEPT !.at = i + m], [r EXCEPT !.at = i + m])
        BY <2>4, Zenon
      <4> QED
        BY <2>2, <4>1, <4>2
    <3> QED
      BY <3>1, <3>2, <3>3
  <2>10. CASE ~(i > Len(t)) /\ ~(c = 0 \/ (o /\ c < 32)) /\ ~(c >= 128) /\ ~(o /\ c = Backslash)
    <3>1. /\ EncodingAt(t, s, i, o) = [s EXCEPT !.at = i + 1, !.in_string = next]
          /\ CharacterAt(t, r, i, o) = [r EXCEPT !.at = i + 1, !.open = next]
      BY <2>3, <2>10, Zenon
    <3>2. SameCharacters([s EXCEPT !.at = i + 1, !.in_string = next],
                         [r EXCEPT !.at = i + 1, !.open = next])
      BY <2>5, Zenon
    <3> QED
      BY <2>2, <3>1, <3>2
  <2> QED
    BY <2>6, <2>7, <2>8, <2>9, <2>10
<1> QED
  BY <1>1, <1>2

\* So the check and the reference agree at the end of every text.
LEMMA EncodingTogether ==
    ASSUME NEW t \in Seq(Bytes)
    PROVE  ValidEncoding(t) = CharactersOf(t).good
<1>0. Len(t) \in Nat
  OBVIOUS
<1>1. PICK f \in [0..Len(t) -> EncodingStates] :
             /\ f[0] = EncodingStart /\ \A k \in 1..Len(t) : f[k] = EncodingRound(t, f[k - 1])
             /\ ValidEncoding(t) = f[Len(t)].valid
  BY EncodingRuns
<1>2. PICK g \in [0..Len(t) -> CharacterStates] :
             /\ g[0] = CharactersStart /\ \A k \in 1..Len(t) : g[k] = CharacterRound(t, g[k - 1])
             /\ CharactersOf(t) = g[Len(t)]
  BY CharactersRun
<1> DEFINE T == {k \in Nat : k <= Len(t) => SameCharacters(f[k], g[k])}
<1>3. 0 \in T
  <2>1. SameCharacters(EncodingStart, CharactersStart)
    BY DEF SameCharacters, EncodingStart, CharactersStart
  <2> QED
    BY <1>1, <1>2, <2>1
<1>4. ASSUME NEW k \in 1..Len(t), k - 1 \in T PROVE k \in T
  <2>1. PICK j \in Nat : j = k - 1 /\ j + 1 = k /\ j \in 0..Len(t)
    BY <1>4
  <2>2. f[j] \in EncodingStates /\ g[j] \in CharacterStates /\ SameCharacters(f[j], g[j])
    BY <1>1, <1>2, <1>4, <2>1
  <2>3. SameCharacters(EncodingRound(t, f[j]), CharacterRound(t, g[j]))
    BY <2>2, CharactersTogether
  <2>4. f[k] = EncodingRound(t, f[j]) /\ g[k] = CharacterRound(t, g[j])
    BY <1>1, <1>2, <2>1
  <2> QED
    BY <2>1, <2>3, <2>4
<1> HIDE DEF T
<1>5. \A k \in 0..Len(t) : k \in T
  BY <1>0, <1>3, <1>4, AllRounds
<1>6. SameCharacters(f[Len(t)], g[Len(t)])
  <2>1. Len(t) \in 0..Len(t)
    BY <1>0
  <2> QED
    BY <1>0, <1>5, <2>1 DEF T
<1> QED
  BY <1>1, <1>2, <1>6 DEF SameCharacters

(***************************************************************************)
(* The guard of jsoncons, byte by byte with the escapes.                   *)
(***************************************************************************)

GuardPlaces == {"outside", "text", "escape", "hex", "pair_slash", "pair_u"}
GuardStates == [state : GuardPlaces, code : Nat, digits : Nat, low : BOOLEAN, valid : BOOLEAN]
EscapeStates == [open : BOOLEAN, escape : Seq(Bytes), good : BOOLEAN]
EscapesStart == [open |-> FALSE, escape |-> <<>>, good |-> TRUE]

\* The guard of jsoncons, by its state.
LEMMA CheckIs ==
    ASSUME NEW g \in GuardStates, NEW c, g.valid
    PROVE  /\ g.state = "outside" =>
                Check(g, c) = IF c = Quote THEN [g EXCEPT !.state = "text"] ELSE g
           /\ g.state = "text" =>
                Check(g, c) = IF c = Quote THEN [g EXCEPT !.state = "outside"]
                              ELSE IF c = Backslash THEN [g EXCEPT !.state = "escape"] ELSE g
           /\ g.state = "escape" =>
                Check(g, c) = IF c = LetterU THEN StartHex(g) ELSE [g EXCEPT !.state = "text"]
           /\ g.state = "hex" => Check(g, c) = HexDigit(g, c)
           /\ g.state = "pair_slash" =>
                Check(g, c) = IF c = Backslash THEN [g EXCEPT !.state = "pair_u"] ELSE Invalid(g)
           /\ g.state = "pair_u" =>
                Check(g, c) = IF c = LetterU THEN StartHex(g) ELSE Invalid(g)
<1> DEFINE next == CASE c = Quote -> "outside" [] c = Backslash -> "escape"
                     [] c \notin {Quote, Backslash} -> "text"
<1>1. next = IF c = Quote THEN "outside" ELSE IF c = Backslash THEN "escape" ELSE "text"
  <2>1. Quote # Backslash
    BY DEF Quote, Backslash
  <2> QED
    BY <2>1
<1>2. Check(g, c) =
         CASE g.state = "outside" -> IF c = Quote THEN [g EXCEPT !.state = "text"] ELSE g
           [] g.state = "text" -> [g EXCEPT !.state = next]
           [] g.state = "escape" ->
                  IF c = LetterU THEN StartHex(g) ELSE [g EXCEPT !.state = "text"]
           [] g.state = "hex" -> HexDigit(g, c)
           [] g.state = "pair_slash" ->
                  IF c = Backslash THEN [g EXCEPT !.state = "pair_u"] ELSE Invalid(g)
           [] g.state = "pair_u" -> IF c = LetterU THEN StartHex(g) ELSE Invalid(g)
  BY Zenon DEF Check
<1> HIDE DEF next
<1>3. ASSUME g.state = "text"
      PROVE  Check(g, c) = IF c = Quote THEN [g EXCEPT !.state = "outside"]
                           ELSE IF c = Backslash THEN [g EXCEPT !.state = "escape"] ELSE g
  <2>1. Check(g, c) = [g EXCEPT !.state = next]
    BY <1>2, <1>3
  <2>2. [g EXCEPT !.state = "text"] = g
    BY <1>3 DEF GuardStates
  <2> QED
    BY <1>1, <2>1, <2>2
<1>4. g.state = "outside" => Check(g, c) = IF c = Quote THEN [g EXCEPT !.state = "text"] ELSE g
  BY <1>2
<1>5. g.state = "escape" =>
                Check(g, c) = IF c = LetterU THEN StartHex(g) ELSE [g EXCEPT !.state = "text"]
  BY <1>2
<1>6. g.state = "hex" => Check(g, c) = HexDigit(g, c)
  BY <1>2
<1>7. g.state = "pair_slash" =>
                Check(g, c) = IF c = Backslash THEN [g EXCEPT !.state = "pair_u"] ELSE Invalid(g)
  BY <1>2
<1>8. g.state = "pair_u" =>
                Check(g, c) = IF c = LetterU THEN StartHex(g) ELSE Invalid(g)
  BY <1>2
<1> QED
  BY <1>3, <1>4, <1>5, <1>6, <1>7, <1>8

Completed(g) ==
    IF g.low
    THEN IF g.code \in Low THEN [g EXCEPT !.state = "text", !.low = FALSE] ELSE Invalid(g)
    ELSE IF g.code \in High THEN [g EXCEPT !.state = "pair_slash", !.low = TRUE]
    ELSE IF g.code \in Low THEN Invalid(g) ELSE [g EXCEPT !.state = "text"]

\* The four cases of a complete code unit as one record.
LEMMA CompleteIs ==
    ASSUME NEW g, g.low \in BOOLEAN, g.code \in Int
    PROVE  CompleteCodepoint(g) = Completed(g)
<1> DEFINE l == g.low
           h == g.code \in High
           w == g.code \in Low
           A == [g EXCEPT !.state = "text", !.low = FALSE]
           B == [g EXCEPT !.state = "pair_slash", !.low = TRUE]
           C == [g EXCEPT !.state = "text"]
           D == Invalid(g)
<1>1. ~(h /\ w)
  BY SurrogatesAre
<1>2. g.code \notin High \cup Low <=> ~h /\ ~w
  OBVIOUS
<1>3. CompleteCodepoint(g) = CASE l /\ w -> A [] ~l /\ h -> B
                               [] ~l /\ g.code \notin High \cup Low -> C [] OTHER -> D
  BY Zenon DEF CompleteCodepoint
<1>4. CompleteCodepoint(g) = CASE l /\ w -> A [] ~l /\ h -> B [] ~l /\ ~h /\ ~w -> C [] OTHER -> D
  BY <1>2, <1>3
<1> HIDE DEF l, h, w, A, B, C, D
<1>5. CompleteCodepoint(g) = IF l THEN IF w THEN A ELSE D ELSE IF h THEN B ELSE IF w THEN D ELSE C
  BY <1>1, <1>4
<1> QED
  BY <1>5, Zenon DEF l, h, w, A, B, C, D, Completed

\* Where the guard is when the bytes e of an escape have been read.
Reading(e, g) ==
    \/ Len(e) = 0 /\ g.state = "text" /\ ~g.low
    \/ Len(e) = 1 /\ g.state = "escape" /\ ~g.low
    \/ /\ Len(e) >= 2 /\ Len(e) <= 5 /\ e[2] = LetterU
       /\ g.state = "hex" /\ ~g.low
       /\ g.digits = Len(e) - 2 /\ g.code = UnitValue(e, 3, Len(e) - 2)
    \/ Len(e) = 6 /\ e[2] = LetterU /\ Unit(e, 3) \in High /\ g.state = "pair_slash" /\ g.low
    \/ Len(e) = 7 /\ g.state = "pair_u" /\ g.low
    \/ /\ Len(e) >= 8 /\ Len(e) <= 11
       /\ g.state = "hex" /\ g.low
       /\ g.digits = Len(e) - 8 /\ g.code = UnitValue(e, 9, Len(e) - 8)

\* The guard takes one byte more of the escape, or refuses it.
Taking(t, g) == IF Escaping(t) THEN g.valid /\ Reading(Left(t), g) ELSE ~g.valid

\* A byte of a string that is no escape.
LEMMA GuardLetter ==
    ASSUME NEW g \in GuardStates, g.valid, NEW e \in Seq(Bytes), Escaping(e), NEW c \in Bytes,
           Len(e) = 1, g.state = "escape", ~g.low
    PROVE  Taking(Append(e, c), Check(g, c))
<1> DEFINE t == Append(e, c)
           h == Check(g, c)
<1>1. t \in Seq(Bytes) /\ Len(t) = 2 /\ t[2] = c
  <2>1. t \in Seq(Bytes) /\ Len(t) = Len(e) + 1 /\ t[Len(e) + 1] = c
    BY Extended, Zenon
  <2> QED
    BY <2>1
<1>2. Escaping(t)
  <2>1. Len(e) <= 11 /\ MayFollow(e, c)
    BY DEF MayFollow, DigitPlace
  <2> QED
    BY <2>1, EscapeGrows
<1>3. h = IF c = LetterU THEN StartHex(g) ELSE [g EXCEPT !.state = "text"]
  BY CheckIs
<1>4. IsEscape(t) <=> c # LetterU
  <2> HIDE DEF t
  <2> QED
    BY <1>1, <1>2, EscapeEnds
<1> HIDE DEF t, h
<1>5. CASE c = LetterU
  <2>1. Left(t) = t
    BY <1>4, <1>5 DEF Left
  <2>2. h.valid /\ h.state = "hex" /\ ~h.low /\ h.digits = 0 /\ h.code = 0
    BY <1>3, <1>5 DEF StartHex, GuardStates
  <2>3. UnitValue(t, 3, 0) = 0
    BY DEF UnitValue
  <2>4. Reading(t, h)
    BY <1>1, <1>5, <2>2, <2>3 DEF Reading
  <2> QED
    BY <1>2, <2>1, <2>2, <2>4 DEF Taking, t, h
<1>6. CASE c # LetterU
  <2>1. Left(t) = <<>>
    BY <1>4, <1>6 DEF Left
  <2>2. h.valid /\ h.state = "text" /\ ~h.low
    BY <1>3, <1>6 DEF GuardStates
  <2>3. Reading(<<>>, h)
    BY <2>2 DEF Reading
  <2> QED
    BY <1>2, <2>1, <2>2, <2>3 DEF Taking, t, h
<1> QED
  BY <1>5, <1>6

\* A digit of a code unit: the first unit's bytes start at 3, the second's at 9.
LEMMA GuardDigit ==
    ASSUME NEW g \in GuardStates, g.valid, NEW e \in Seq(Bytes), Escaping(e), NEW c \in Bytes,
           g.state = "hex", NEW first \in {3, 9}, NEW k \in Nat, k <= 3,
           Len(e) + 1 = first + k, e[2] = LetterU,
           g.digits = k, g.code = UnitValue(e, first, k), g.low <=> first = 9
    PROVE  Taking(Append(e, c), Check(g, c))
<1> DEFINE t == Append(e, c)
           h == Check(g, c)
           u == UnitValue(e, first, k) * 16 + Digit(c)
<1>3. /\ t \in Seq(Bytes) /\ Len(t) = first + k
      /\ \A i \in 1..Len(e) : t[i] = e[i]
  BY Extended
<1>5. \A i \in first..Len(e) : IsHex(e[i])
  <2> SUFFICES ASSUME NEW i \in first..Len(e)  PROVE IsHex(e[i])
    OBVIOUS
  <2>1. i \in 1..Len(e) /\ DigitPlace(i)
    BY DEF DigitPlace
  <2> QED
    BY <2>1, EscapingIs
<1>6. first = 9 => Unit(t, 3) \in HighSurrogates
  <2> SUFFICES ASSUME first = 9  PROVE Unit(t, 3) \in HighSurrogates
    OBVIOUS
  <2>1. Len(e) > 6 /\ Len(e) >= 6
    OBVIOUS
  <2>2. Unit(e, 3) \in HighSurrogates
    BY <2>1 DEF Escaping
  <2> QED
    BY <2>1, <2>2, UnitKept
<1>7. Escaping(t) <=> /\ IsHex(c)
                      /\ first = 3 /\ k = 3 => Unit(t, 3) \notin LowSurrogates
                      /\ first = 9 /\ k = 3 => Unit(t, 9) \in LowSurrogates
  <2>1. Len(e) <= 11
    OBVIOUS
  <2>2. Escaping(t) <=> MayFollow(e, c)
    BY <2>1, EscapeGrows, Zenon
  <2>3. t[2] = LetterU
    BY <1>3
  <2>4. Len(e) + 1 = Len(t)
    BY <1>3
  <2>5. MayFollow(e, c) <=>
            /\ Len(t) = 1 => c = Backslash
            /\ Len(t) > 2 => t[2] = LetterU
            /\ DigitPlace(Len(t)) => IsHex(c)
            /\ Len(t) = 6 => Unit(t, 3) \notin LowSurrogates
            /\ Len(t) > 6 => Unit(t, 3) \in HighSurrogates
            /\ Len(t) = 7 => c = Backslash
            /\ Len(t) = 8 => c = LetterU
            /\ Len(t) = 12 => Unit(t, 9) \in LowSurrogates
    BY <2>4, Zenon DEF MayFollow
  <2> HIDE DEF t
  <2> QED
    BY <1>3, <1>6, <2>2, <2>3, <2>5 DEF DigitPlace
<1>8. ASSUME IsHex(c)
      PROVE  /\ u \in Nat /\ u <= 65535
             /\ k <= 2 => UnitValue(t, first, k + 1) = u
             /\ k = 3 => Unit(t, first) = u
  BY <1>5, <1>8, UnitGrows, SMTT(30)
<1> DEFINE next == [g EXCEPT !.code = @ * 16 + Digit(c), !.digits = @ + 1]
<1>9. h = IF ~IsHex(c) THEN Invalid(g)
          ELSE IF next.digits = 4 THEN CompleteCodepoint(next) ELSE next
  <2>1. h = HexDigit(g, c)
    BY CheckIs
  <2> QED
    BY <2>1, Zenon DEF HexDigit
<1>10. /\ next.state = "hex" /\ next.code = u /\ next.digits = k + 1
       /\ next.low = g.low /\ next.valid = TRUE
  BY DEF GuardStates
<1>r. ASSUME IsHex(c) PROVE next \in GuardStates
  <2>1. g.code * 16 + Digit(c) \in Nat
    BY <1>8, <1>r
  <2>2. g.digits + 1 \in Nat
    OBVIOUS
  <2> QED
    BY <2>1, <2>2 DEF GuardStates
<1> HIDE DEF t, h, u, next
<1>11. CASE ~IsHex(c)
  <2>1. ~Escaping(t)
    BY <1>7, <1>11
  <2>2. ~h.valid
    BY <1>9, <1>11 DEF Invalid, GuardStates
  <2> QED
    BY <2>1, <2>2 DEF Taking, t, h
<1>12. CASE IsHex(c) /\ k < 3
  <2>1. h = next
    BY <1>9, <1>10, <1>12
  <2>2. Escaping(t)
    BY <1>7, <1>12
  <2>3. Left(t) = t
    <3>1. Len(t) # 2 /\ Len(t) # 6 /\ Len(t) # 12
      BY <1>3, <1>12
    <3> QED
      BY <1>3, <2>2, <3>1, EscapeEnds DEF Left
  <2>4. h.code = UnitValue(t, first, k + 1)
    BY <1>8, <1>10, <1>12, <2>1
  <2>5. t[2] = LetterU
    BY <1>3
  <2>6. Reading(t, h)
    <3>1. CASE first = 3
      <4>1. k + 1 = Len(t) - 2 /\ Len(t) >= 2 /\ Len(t) <= 5
        BY <1>3, <1>12, <3>1
      <4> QED
        BY <1>10, <2>1, <2>4, <2>5, <3>1, <4>1 DEF Reading
    <3>2. CASE first = 9
      <4>1. k + 1 = Len(t) - 8 /\ Len(t) >= 8 /\ Len(t) <= 11
        BY <1>3, <1>12, <3>2
      <4> QED
        BY <1>10, <2>1, <2>4, <2>5, <3>2, <4>1 DEF Reading
    <3> QED
      BY <3>1, <3>2
  <2> QED
    BY <1>10, <2>1, <2>2, <2>3, <2>6 DEF Taking, t, h
<1>13. CASE IsHex(c) /\ k = 3
  <2>r. next \in GuardStates
    BY <1>13, <1>r
  <2>1. /\ u \in Int /\ u \in Nat /\ Unit(t, first) = u
    BY <1>8, <1>13
  <2>2. u \in High <=> u \in HighSurrogates
    BY SurrogatesAre
  <2>3. u \in Low <=> u \in LowSurrogates
    BY SurrogatesAre
  <2>4. h = IF g.low
            THEN IF u \in Low THEN [next EXCEPT !.state = "text", !.low = FALSE] ELSE Invalid(next)
            ELSE IF u \in High THEN [next EXCEPT !.state = "pair_slash", !.low = TRUE]
            ELSE IF u \in Low THEN Invalid(next) ELSE [next EXCEPT !.state = "text"]
    <3>1. h = CompleteCodepoint(next)
      BY <1>9, <1>10, <1>13
    <3>2. g.low \in BOOLEAN
      BY DEF GuardStates
    <3>3. next.low \in BOOLEAN /\ next.code \in Int
      BY <1>10, <2>1, <3>2
    <3>4. h = Completed(next)
      BY <3>1, <3>3, CompleteIs
    <3> QED
      BY <1>10, <3>4, Zenon DEF Completed
  <2>5. ~(u \in High /\ u \in Low)
    BY <2>1, SurrogatesAre
  <2>6. t[2] = LetterU
    BY <1>3
  <2>7. CASE first = 3
    <3>1. Len(t) = 6 /\ ~g.low /\ Unit(t, 3) = u
      BY <1>3, <1>13, <2>1, <2>7
    <3>2. Escaping(t) <=> u \notin Low
      BY <1>7, <1>13, <2>3, <2>7, <3>1
    <3>3. CASE u \in High
      <4>1. h.state = "pair_slash" /\ h.low /\ h.valid
        BY <1>10, <2>r, <2>4, <3>1, <3>3 DEF GuardStates
      <4>2. Escaping(t)
        BY <2>5, <3>2, <3>3
      <4>3. Left(t) = t
        BY <1>3, <2>2, <3>1, <3>3, <4>2, EscapeEnds DEF Left
      <4>5. Reading(t, h)
        BY <2>6, <3>1, <3>3, <4>1 DEF Reading
      <4> QED
        BY <4>1, <4>2, <4>3, <4>5 DEF Taking, t, h
    <3>4. CASE u \notin High /\ u \notin Low
      <4>1. h.state = "text" /\ ~h.low /\ h.valid
        BY <1>10, <2>r, <2>4, <3>1, <3>4 DEF GuardStates
      <4>2. Escaping(t)
        BY <3>2, <3>4
      <4>3. Left(t) = <<>>
        BY <1>3, <2>2, <3>1, <3>4, <4>2, EscapeEnds DEF Left
      <4>4. Reading(<<>>, h)
        BY <4>1 DEF Reading
      <4> QED
        BY <4>1, <4>2, <4>3, <4>4 DEF Taking, t, h
    <3>5. CASE u \in Low
      <4>1. ~h.valid
        BY <2>r, <2>4, <2>5, <3>1, <3>5 DEF Invalid, GuardStates
      <4>2. ~Escaping(t)
        BY <3>2, <3>5
      <4> QED
        BY <4>1, <4>2 DEF Taking, t, h
    <3> QED
      BY <3>3, <3>4, <3>5
  <2>8. CASE first = 9
    <3>1. Len(t) = 12 /\ g.low /\ Unit(t, 9) = u
      BY <1>3, <1>13, <2>1, <2>8
    <3>2. Escaping(t) <=> u \in Low
      BY <1>7, <1>13, <2>3, <2>8, <3>1
    <3>3. CASE u \in Low
      <4>1. h.state = "text" /\ ~h.low /\ h.valid
        BY <1>10, <2>r, <2>4, <3>1, <3>3 DEF GuardStates
      <4>2. Escaping(t)
        BY <3>2, <3>3
      <4>3. Left(t) = <<>>
        BY <1>3, <3>1, <4>2, EscapeEnds DEF Left
      <4>4. Reading(<<>>, h)
        BY <4>1 DEF Reading
      <4> QED
        BY <4>1, <4>2, <4>3, <4>4 DEF Taking, t, h
    <3>4. CASE u \notin Low
      <4>1. ~h.valid
        BY <2>r, <2>4, <3>1, <3>4 DEF Invalid, GuardStates
      <4>2. ~Escaping(t)
        BY <3>2, <3>4
      <4> QED
        BY <4>1, <4>2 DEF Taking, t, h
    <3> QED
      BY <3>3, <3>4
  <2> QED
    BY <2>7, <2>8
<1> QED
  BY <1>11, <1>12, <1>13

\* The backslash and the letter between the units of a pair.
LEMMA GuardPair ==
    ASSUME NEW g \in GuardStates, g.valid, NEW e \in Seq(Bytes), Escaping(e), NEW c \in Bytes,
           g.low, NEW n \in {6, 7}, Len(e) = n,
           n = 6 => e[2] = LetterU /\ Unit(e, 3) \in High /\ g.state = "pair_slash",
           n = 7 => g.state = "pair_u"
    PROVE  Taking(Append(e, c), Check(g, c))
<1> DEFINE t == Append(e, c)
           h == Check(g, c)
<1>1. /\ t \in Seq(Bytes) /\ Len(t) = Len(e) + 1
      /\ \A i \in 1..Len(e) : t[i] = e[i]
  BY Extended
<1>0. Len(e) = 6 \/ Len(e) = 7
  OBVIOUS
<1>2. e[2] = LetterU /\ t[2] = LetterU
  <2>1. Len(e) > 2
    BY <1>0
  <2>2. e[2] = LetterU
    BY <2>1 DEF Escaping
  <2> QED
    BY <1>1, <2>1, <2>2
<1>3. Unit(t, 3) \in HighSurrogates
  <2>1. Len(e) >= 6
    BY <1>0
  <2>2. Unit(e, 3) \in HighSurrogates
    <3>1. CASE Len(e) = 7
      <4>1. Len(e) > 6
        BY <3>1
      <4> QED
        BY <4>1 DEF Escaping
    <3>2. CASE Len(e) # 7
      BY <1>0, <3>2, SurrogatesAre
    <3> QED
      BY <3>1, <3>2
  <2> QED
    BY <2>1, <2>2, UnitKept
<1>4. MayFollow(e, c) <=>
            /\ Len(t) = 1 => c = Backslash
            /\ Len(t) > 2 => t[2] = LetterU
            /\ DigitPlace(Len(t)) => IsHex(c)
            /\ Len(t) = 6 => Unit(t, 3) \notin LowSurrogates
            /\ Len(t) > 6 => Unit(t, 3) \in HighSurrogates
            /\ Len(t) = 7 => c = Backslash
            /\ Len(t) = 8 => c = LetterU
            /\ Len(t) = 12 => Unit(t, 9) \in LowSurrogates
  <2>1. Len(e) + 1 = Len(t)
    BY <1>1
  <2> QED
    BY <2>1, Zenon DEF MayFollow
<1>5. Escaping(t) <=> MayFollow(e, c)
  <2>1. Len(e) <= 11
    BY <1>0
  <2> QED
    BY <2>1, EscapeGrows, Zenon
<1> HIDE DEF t, h
<1>6. CASE Len(e) = 6
  <2>1. Len(t) = 7 /\ ~DigitPlace(Len(t))
    BY <1>1, <1>6 DEF DigitPlace
  <2>2. Escaping(t) <=> c = Backslash
    BY <1>2, <1>3, <1>4, <1>5, <2>1
  <2>3. h = IF c = Backslash THEN [g EXCEPT !.state = "pair_u"] ELSE Invalid(g)
    BY <1>6, CheckIs DEF h
  <2>4. CASE c = Backslash
    <3>1. h.valid /\ h.state = "pair_u" /\ h.low
      BY <2>3, <2>4 DEF GuardStates
    <3>2. Left(t) = t
      <4>1. t \in Seq(Bytes) /\ Escaping(t) /\ Len(t) # 2 /\ Len(t) # 6 /\ Len(t) # 12
        BY <1>1, <2>1, <2>2, <2>4
      <4> QED
        BY <4>1, EscapeEnds DEF Left
    <3>3. Reading(t, h)
      BY <2>1, <3>1 DEF Reading
    <3> QED
      BY <2>2, <2>4, <3>1, <3>2, <3>3 DEF Taking, t, h
  <2>5. CASE c # Backslash
    <3>1. ~h.valid
      BY <2>3, <2>5 DEF Invalid, GuardStates
    <3> QED
      BY <2>2, <2>5, <3>1 DEF Taking, t, h
  <2> QED
    BY <2>4, <2>5
<1>7. CASE Len(e) = 7
  <2>1. Len(t) = 8 /\ ~DigitPlace(Len(t))
    BY <1>1, <1>7 DEF DigitPlace
  <2>2. Escaping(t) <=> c = LetterU
    BY <1>2, <1>3, <1>4, <1>5, <2>1
  <2>3. h = IF c = LetterU THEN StartHex(g) ELSE Invalid(g)
    BY <1>7, CheckIs DEF h
  <2>4. CASE c = LetterU
    <3>1. h.valid /\ h.state = "hex" /\ h.low /\ h.digits = 0 /\ h.code = 0
      BY <2>3, <2>4 DEF GuardStates, StartHex
    <3>2. Left(t) = t
      <4>1. t \in Seq(Bytes) /\ Escaping(t) /\ Len(t) # 2 /\ Len(t) # 6 /\ Len(t) # 12
        BY <1>1, <2>1, <2>2, <2>4
      <4> QED
        BY <4>1, EscapeEnds DEF Left
    <3>3. UnitValue(t, 9, 0) = 0
      BY DEF UnitValue
    <3>4. Reading(t, h)
      BY <2>1, <3>1, <3>3 DEF Reading
    <3> QED
      BY <2>2, <2>4, <3>1, <3>2, <3>4 DEF Taking, t, h
  <2>5. CASE c # LetterU
    <3>1. ~h.valid
      BY <2>3, <2>5 DEF Invalid, GuardStates
    <3> QED
      BY <2>2, <2>5, <3>1 DEF Taking, t, h
  <2> QED
    BY <2>4, <2>5
<1> QED
  BY <1>6, <1>7

\* An escape is begun, letter by letter.
LEMMA GuardEscape ==
    ASSUME NEW g \in GuardStates, g.valid, NEW e \in Seq(Bytes), Escaping(e), NEW c \in Bytes,
           Reading(e, g), e # <<>>
    PROVE  Taking(Append(e, c), Check(g, c))
<1>0. Len(e) \in Nat /\ Len(e) # 0
  OBVIOUS
<1>3. CASE Len(e) = 1 /\ g.state = "escape" /\ ~g.low
  BY <1>3, GuardLetter
<1>4. CASE /\ Len(e) >= 2 /\ Len(e) <= 5 /\ e[2] = LetterU
           /\ g.state = "hex" /\ ~g.low
           /\ g.digits = Len(e) - 2 /\ g.code = UnitValue(e, 3, Len(e) - 2)
  <2> DEFINE k == Len(e) - 2
             first == 3
  <2>1. /\ k \in Nat /\ k <= 3 /\ Len(e) + 1 = first + k
        /\ first \in {3, 9} /\ (g.low <=> first = 9)
    BY <1>4
  <2>2. g.digits = k /\ g.code = UnitValue(e, first, k)
    BY <1>4
  <2> HIDE DEF k, first
  <2> QED
    BY <1>4, <2>1, <2>2, GuardDigit
<1>5. CASE Len(e) = 6 /\ e[2] = LetterU /\ Unit(e, 3) \in High /\ g.state = "pair_slash" /\ g.low
  <2> DEFINE n == 6
  <2>1. /\ n \in {6, 7} /\ Len(e) = n /\ (n = 7 => g.state = "pair_u")
        /\ n = 6 => e[2] = LetterU /\ Unit(e, 3) \in High /\ g.state = "pair_slash"
    BY <1>5
  <2> HIDE DEF n
  <2> QED
    BY <1>5, <2>1, GuardPair
<1>6. CASE Len(e) = 7 /\ g.state = "pair_u" /\ g.low
  <2> DEFINE n == 7
  <2>1. /\ n \in {6, 7} /\ Len(e) = n /\ (n = 7 => g.state = "pair_u")
        /\ n = 6 => e[2] = LetterU /\ Unit(e, 3) \in High /\ g.state = "pair_slash"
    BY <1>6
  <2> HIDE DEF n
  <2> QED
    BY <1>6, <2>1, GuardPair
<1>7. CASE /\ Len(e) >= 8 /\ Len(e) <= 11
           /\ g.state = "hex" /\ g.low
           /\ g.digits = Len(e) - 8 /\ g.code = UnitValue(e, 9, Len(e) - 8)
  <2> DEFINE k == Len(e) - 8
             first == 9
  <2>1. /\ k \in Nat /\ k <= 3 /\ Len(e) + 1 = first + k
        /\ first \in {3, 9} /\ (g.low <=> first = 9)
    BY <1>7
  <2>2. g.digits = k /\ g.code = UnitValue(e, first, k)
    BY <1>7
  <2>3. e[2] = LetterU
    <3>1. Len(e) > 2
      BY <1>7
    <3> QED
      BY <3>1 DEF Escaping
  <2> HIDE DEF k, first
  <2> QED
    BY <1>7, <2>1, <2>2, <2>3, GuardDigit
<1> QED
  BY <1>0, <1>3, <1>4, <1>5, <1>6, <1>7 DEF Reading

\* A byte keeps the types of the guard of jsoncons.
LEMMA GuardTypes ==
    /\ GuardStart \in GuardStates
    /\ \A g \in GuardStates, c \in Bytes : Check(g, c) \in GuardStates
<1>1. GuardStart \in GuardStates
  BY DEF GuardStart, GuardStates, GuardPlaces
<1>2. ASSUME NEW g \in GuardStates, NEW c \in Bytes PROVE Check(g, c) \in GuardStates
  <2>0. /\ g.low \in BOOLEAN /\ g.code \in Nat /\ g.digits \in Nat
    BY DEF GuardStates
  <2>1. \A p \in GuardPlaces : [g EXCEPT !.state = p] \in GuardStates
    BY DEF GuardStates
  <2>2. Invalid(g) \in GuardStates
    BY DEF GuardStates, Invalid
  <2>3. StartHex(g) \in GuardStates
    BY DEF GuardStates, GuardPlaces, StartHex
  <2>4. HexDigit(g, c) \in GuardStates
    <3> DEFINE next == [g EXCEPT !.code = @ * 16 + Digit(c), !.digits = @ + 1]
    <3>1. HexDigit(g, c) = IF ~IsHex(c) THEN Invalid(g)
                           ELSE IF next.digits = 4 THEN CompleteCodepoint(next) ELSE next
      BY Zenon DEF HexDigit
    <3>2. CASE ~IsHex(c)
      BY <2>2, <3>1, <3>2
    <3>3. CASE IsHex(c)
      <4>1. Digit(c) \in Nat
        <5>1. c \in Nat
          BY DEF Bytes
        <5> QED
          BY <3>3, <5>1, DigitIs
      <4>2. g.code * 16 + Digit(c) \in Nat /\ g.digits + 1 \in Nat
        BY <2>0, <4>1
      <4>3. next \in GuardStates
        BY <4>2 DEF GuardStates
      <4> HIDE DEF next
      <4>4. CompleteCodepoint(next) \in GuardStates
        <5>1. /\ [next EXCEPT !.state = "text", !.low = FALSE] \in GuardStates
              /\ [next EXCEPT !.state = "pair_slash", !.low = TRUE] \in GuardStates
              /\ [next EXCEPT !.state = "text"] \in GuardStates
              /\ Invalid(next) \in GuardStates
          BY <4>3 DEF GuardStates, GuardPlaces, Invalid
        <5>2. next.low \in BOOLEAN /\ next.code \in Int
          BY <4>3 DEF GuardStates
        <5>3. CompleteCodepoint(next) = Completed(next)
          BY <5>2, CompleteIs
        <5> QED
          BY <5>1, <5>3 DEF Completed
      <4> QED
        BY <3>1, <3>3, <4>3, <4>4
    <3> QED
      BY <3>2, <3>3
  <2>5. CASE ~g.valid
    BY <2>5 DEF Check
  <2>6. CASE g.valid
    <3>1. g.state \in GuardPlaces
      BY DEF GuardStates
    <3>2. /\ [g EXCEPT !.state = "text"] \in GuardStates
          /\ [g EXCEPT !.state = "outside"] \in GuardStates
          /\ [g EXCEPT !.state = "escape"] \in GuardStates
          /\ [g EXCEPT !.state = "pair_u"] \in GuardStates
      BY <2>1 DEF GuardPlaces
    <3>3. CASE g.state = "outside"
      BY <2>6, <3>2, <3>3, CheckIs
    <3>4. CASE g.state = "text"
      BY <2>6, <3>2, <3>4, CheckIs
    <3>5. CASE g.state = "escape"
      BY <2>3, <2>6, <3>2, <3>5, CheckIs
    <3>6. CASE g.state = "hex"
      BY <2>4, <2>6, <3>6, CheckIs
    <3>7. CASE g.state = "pair_slash"
      BY <2>2, <2>6, <3>2, <3>7, CheckIs
    <3>8. CASE g.state = "pair_u"
      BY <2>2, <2>3, <2>6, <3>8, CheckIs
    <3> QED
      BY <3>1, <3>3, <3>4, <3>5, <3>6, <3>7, <3>8 DEF GuardPlaces
  <2> QED
    BY <2>5, <2>6
<1> QED
  BY <1>1, <1>2

\* A byte keeps the types of the reference of escapes.
LEMMA EscapeTypes ==
    /\ EscapesStart \in EscapeStates
    /\ \A s \in EscapeStates, c \in Bytes : EscapeRead(s, c) \in EscapeStates
<1>1. EscapesStart \in EscapeStates
  BY DEF EscapesStart, EscapeStates
<1>2. ASSUME NEW s \in EscapeStates, NEW c \in Bytes PROVE EscapeRead(s, c) \in EscapeStates
  <2> DEFINE t == Append(s.escape, c)
             l == Left(t)
             y == Escaping(t)
             o == c = Quote
             p == c # Quote
  <2>1. t \in Seq(Bytes)
    BY DEF EscapeStates
  <2>2. l \in Seq(Bytes) /\ y \in BOOLEAN /\ o \in BOOLEAN /\ p \in BOOLEAN
    BY <2>1 DEF Left, Escaping
  <2>3. EscapeRead(s, c) = IF ~s.good THEN s
          ELSE IF ~s.open THEN [s EXCEPT !.open = o]
          ELSE IF s.escape = <<>> /\ c # Backslash THEN [s EXCEPT !.open = p]
          ELSE [s EXCEPT !.escape = l, !.good = y]
    BY Zenon DEF EscapeRead, Left
  <2> HIDE DEF l, y, o, p
  <2>4. /\ [s EXCEPT !.open = o] \in EscapeStates /\ [s EXCEPT !.open = p] \in EscapeStates
        /\ [s EXCEPT !.escape = l, !.good = y] \in EscapeStates
    BY <2>2 DEF EscapeStates
  <2> QED
    BY <2>3, <2>4
<1> QED
  BY <1>1, <1>2

SameEscapes(g, s) ==
    /\ g.valid = s.good
    /\ g.valid /\ s.open => Escaping(s.escape) /\ Reading(s.escape, g)
    /\ g.valid /\ ~s.open => s.escape = <<>> /\ g.state = "outside" /\ ~g.low

\* The guard and the reference take a byte together.
LEMMA EscapesTogether ==
    ASSUME NEW g \in GuardStates, NEW s \in EscapeStates, NEW c \in Bytes, SameEscapes(g, s)
    PROVE  SameEscapes(Check(g, c), EscapeRead(s, c))
<1> DEFINE e == s.escape
           t == Append(e, c)
           h == Check(g, c)
           r == EscapeRead(s, c)
<1>0. e \in Seq(Bytes) /\ s.open \in BOOLEAN /\ s.good \in BOOLEAN /\ g.valid \in BOOLEAN
  BY DEF EscapeStates, GuardStates
<1>1. r = IF ~s.good THEN s
          ELSE IF ~s.open THEN [s EXCEPT !.open = (c = Quote)]
          ELSE IF e = <<>> /\ c # Backslash THEN [s EXCEPT !.open = (c # Quote)]
          ELSE [s EXCEPT !.escape = Left(t), !.good = Escaping(t)]
  BY Zenon DEF EscapeRead, Left
<1> HIDE DEF e, t, h, r
<1>2. CASE ~g.valid
  <2>1. h = g /\ r = s
    BY <1>1, <1>2 DEF Check, SameEscapes, h
  <2> QED
    BY <2>1 DEF h, r
<1>3. CASE g.valid /\ ~s.open
  <2>1. s.good /\ e = <<>> /\ g.state = "outside" /\ ~g.low
    BY <1>0, <1>3 DEF SameEscapes, e
  <2>2. h = IF c = Quote THEN [g EXCEPT !.state = "text"] ELSE g
    BY <1>3, <2>1, CheckIs DEF h
  <2>3. r = [s EXCEPT !.open = (c = Quote)]
    BY <1>1, <1>3, <2>1
  <2>4. CASE c = Quote
    <3>1. h.valid /\ h.state = "text" /\ ~h.low
      BY <1>3, <2>1, <2>2, <2>4 DEF GuardStates
    <3>2. r = [s EXCEPT !.open = TRUE]
      BY <2>3, <2>4
    <3>3. r.open /\ r.good /\ r.escape = <<>>
      BY <2>1, <3>2 DEF EscapeStates, e
    <3>4. Escaping(<<>>) /\ Reading(<<>>, h)
      BY <3>1, NoEscape DEF Reading
    <3> QED
      BY <3>1, <3>3, <3>4 DEF SameEscapes, h, r, GuardStates
  <2>5. CASE c # Quote
    <3>1. h = g
      BY <2>2, <2>5
    <3>2. r = [s EXCEPT !.open = FALSE]
      BY <2>3, <2>5
    <3>3. r = s
      BY <1>3, <3>2 DEF EscapeStates
    <3> QED
      BY <3>1, <3>3 DEF h, r
  <2> QED
    BY <2>4, <2>5
<1>4. CASE g.valid /\ s.open /\ e = <<>> /\ c # Backslash
  <2>1. s.good /\ g.state = "text" /\ ~g.low
    BY <1>0, <1>4 DEF SameEscapes, e, Reading
  <2>2. h = IF c = Quote THEN [g EXCEPT !.state = "outside"] ELSE g
    BY <1>4, <2>1, CheckIs DEF h
  <2>3. r = [s EXCEPT !.open = (c # Quote)]
    BY <1>1, <1>4, <2>1
  <2>4. CASE c = Quote
    <3>1. h.valid /\ h.state = "outside" /\ ~h.low
      BY <1>4, <2>1, <2>2, <2>4 DEF GuardStates
    <3>2. r = [s EXCEPT !.open = FALSE]
      BY <2>3, <2>4
    <3>3. ~r.open /\ r.good /\ r.escape = <<>>
      BY <1>4, <2>1, <3>2 DEF EscapeStates, e
    <3> QED
      BY <3>1, <3>3 DEF SameEscapes, h, r
  <2>5. CASE c # Quote
    <3>1. h = g
      BY <2>2, <2>5
    <3>2. r = [s EXCEPT !.open = TRUE]
      BY <2>3, <2>5
    <3>3. r = s
      BY <1>4, <3>2 DEF EscapeStates
    <3> QED
      BY <3>1, <3>3 DEF h, r
  <2> QED
    BY <2>4, <2>5
<1>5. CASE g.valid /\ s.open /\ ~(e = <<>> /\ c # Backslash)
  <2>1. s.good /\ Escaping(e) /\ Reading(e, g)
    BY <1>0, <1>5 DEF SameEscapes, e
  <2>2. r = [s EXCEPT !.escape = Left(t), !.good = Escaping(t)]
    BY <1>1, <1>5, <2>1
  <2>3. Taking(t, h)
    <3>1. CASE e # <<>>
      BY <1>0, <1>5, <2>1, <3>1, GuardEscape DEF t, h
    <3>2. CASE e = <<>>
      <4>0. c = Backslash
        BY <1>5, <3>2
      <4>1. t \in Seq(Bytes) /\ Len(t) = 1
        BY <1>0, <3>2, Extended DEF t
      <4>2. Escaping(t)
        <5>1. Len(e) = 0 /\ Len(e) <= 11
          BY <3>2
        <5>2. MayFollow(e, c)
          BY <5>1, <4>0 DEF MayFollow, DigitPlace
        <5> QED
          BY <1>0, <2>1, <5>1, <5>2, EscapeGrows, Zenon DEF t
      <4>3. Left(t) = t
        BY <4>1, <4>2, EscapeEnds DEF Left
      <4>4. g.state = "text" /\ ~g.low
        BY <1>0, <2>1, <3>2 DEF Reading
      <4>5. c # Quote
        BY <4>0 DEF Quote, Backslash
      <4>6. h = [g EXCEPT !.state = "escape"]
        BY <1>5, <4>0, <4>4, <4>5, CheckIs DEF h
      <4>7. h.valid /\ h.state = "escape" /\ ~h.low
        BY <1>5, <4>4, <4>6 DEF GuardStates
      <4> QED
        BY <4>1, <4>2, <4>3, <4>7 DEF Taking, Reading
    <3> QED
      BY <3>1, <3>2
  <2>4. h.valid \in BOOLEAN
    <3>1. h \in GuardStates
      BY GuardTypes DEF h
    <3> QED
      BY <3>1 DEF GuardStates
  <2> DEFINE l == Left(t)
             y == Escaping(t)
  <2>5. r.escape = l /\ r.good = y /\ r.open
    <3> HIDE DEF l, y
    <3>1. r = [s EXCEPT !.escape = l, !.good = y]
      BY <2>2 DEF l, y
    <3> QED
      BY <1>5, <3>1 DEF EscapeStates
  <2>6. CASE y
    <3>1. h.valid /\ Reading(l, h)
      BY <2>3, <2>6 DEF Taking
    <3>2. Escaping(l)
      BY <2>6, NoEscape DEF Left
    <3>3. h.valid = TRUE /\ r.good = TRUE
      BY <2>4, <2>5, <2>6, <3>1 DEF Escaping
    <3> HIDE DEF l, y
    <3> QED
      BY <2>5, <3>1, <3>2, <3>3 DEF SameEscapes, h, r
  <2>7. CASE ~y
    <3>1. ~h.valid
      BY <2>3, <2>7 DEF Taking
    <3>2. h.valid = FALSE /\ r.good = FALSE
      BY <2>4, <2>5, <2>7, <3>1 DEF Escaping
    <3> QED
      BY <3>2 DEF SameEscapes, h, r
  <2> QED
    BY <2>6, <2>7
<1> QED
  BY <1>0, <1>2, <1>3, <1>4, <1>5

IsGuard(f, t) ==
    f = [k \in 0..Len(t) |-> IF k = 0 THEN GuardStart ELSE Check(f[k - 1], t[k])]

\* The guard of jsoncons as a run, byte by byte.
LEMMA GuardRuns ==
    ASSUME NEW t \in Seq(Bytes)
    PROVE  \E f \in [0..Len(t) -> GuardStates] :
              /\ f[0] = GuardStart /\ \A k \in 1..Len(t) : f[k] = Check(f[k - 1], t[k])
              /\ UnicodeSource(t) = f[Len(t)]
<1> DEFINE n == Len(t)
           step == [x \in GuardStates \X (1..n) |-> Check(x[1], t[x[2]])]
<1>0. n \in Nat /\ GuardStart \in GuardStates
  BY GuardTypes
<1>1. IsStep(step, GuardStates, n)
  <2> SUFFICES ASSUME NEW x \in GuardStates \X (1..n)
               PROVE  Check(x[1], t[x[2]]) \in GuardStates
    BY DEF IsStep
  <2> QED
    BY GuardTypes
<1>2. PICK f : /\ f \in [0..n -> GuardStates]
               /\ f[0] = GuardStart /\ \A k \in 1..n : f[k] = step[<<f[k - 1], k>>]
  <2> HIDE DEF step, n
  <2>1. \E f : Solution(f, GuardStates, n, GuardStart, step)
    BY <1>0, <1>1, Recursion, Zenon
  <2> QED
    BY <2>1 DEF Solution
<1>3. \A k \in 1..n : f[k] = Check(f[k - 1], t[k])
  <2> SUFFICES ASSUME NEW k \in 1..n
               PROVE  f[k] = Check(f[k - 1], t[k])
    OBVIOUS
  <2>1. f[k - 1] \in GuardStates
    BY <1>2
  <2> QED
    BY <1>2, <2>1
<1>4. IsGuard(f, t)
  BY <1>2, <1>3 DEF IsGuard
<1>5. UnicodeSource(t) = (CHOOSE g : IsGuard(g, t))[Len(t)]
  BY Zenon DEF UnicodeSource, IsGuard
<1>6. ASSUME NEW g, IsGuard(g, t) PROVE g[n] = f[n]
  <2>1. f[0] = g[0] /\ \A k \in 1..n : f[k - 1] = g[k - 1] => f[k] = g[k]
    BY <1>4, <1>6 DEF IsGuard
  <2> HIDE DEF n
  <2>2. Lockstep(f, g, n)
    BY <2>1 DEF Lockstep
  <2> QED
    BY <1>0, <2>2, SameSteps, Zenon
<1>7. (CHOOSE g : IsGuard(g, t))[n] = f[n]
  BY <1>4, <1>6, Zenon
<1> QED
  BY <1>2, <1>3, <1>5, <1>7

IsEscapes(f, t) ==
    f = [k \in 0..Len(t) |-> IF k = 0 THEN EscapesStart ELSE EscapeRead(f[k - 1], t[k])]

\* The reference of escapes as a run, byte by byte.
LEMMA EscapesRun ==
    ASSUME NEW t \in Seq(Bytes)
    PROVE  \E f \in [0..Len(t) -> EscapeStates] :
              /\ f[0] = EscapesStart /\ \A k \in 1..Len(t) : f[k] = EscapeRead(f[k - 1], t[k])
              /\ EscapesOf(t) = f[Len(t)]
<1> DEFINE n == Len(t)
           step == [x \in EscapeStates \X (1..n) |-> EscapeRead(x[1], t[x[2]])]
<1>0. n \in Nat /\ EscapesStart \in EscapeStates
  BY EscapeTypes
<1>1. IsStep(step, EscapeStates, n)
  <2> SUFFICES ASSUME NEW x \in EscapeStates \X (1..n)
               PROVE  EscapeRead(x[1], t[x[2]]) \in EscapeStates
    BY DEF IsStep
  <2> QED
    BY EscapeTypes
<1>2. PICK f : /\ f \in [0..n -> EscapeStates]
               /\ f[0] = EscapesStart /\ \A k \in 1..n : f[k] = step[<<f[k - 1], k>>]
  <2> HIDE DEF step, n
  <2>1. \E f : Solution(f, EscapeStates, n, EscapesStart, step)
    BY <1>0, <1>1, Recursion, Zenon
  <2> QED
    BY <2>1 DEF Solution
<1>3. \A k \in 1..n : f[k] = EscapeRead(f[k - 1], t[k])
  <2> SUFFICES ASSUME NEW k \in 1..n
               PROVE  f[k] = EscapeRead(f[k - 1], t[k])
    OBVIOUS
  <2>1. f[k - 1] \in EscapeStates
    BY <1>2
  <2> QED
    BY <1>2, <2>1
<1>4. IsEscapes(f, t)
  BY <1>2, <1>3 DEF IsEscapes
<1>5. EscapesOf(t) = (CHOOSE g : IsEscapes(g, t))[Len(t)]
  BY Zenon DEF EscapesOf, IsEscapes, EscapesStart
<1>6. ASSUME NEW g, IsEscapes(g, t) PROVE g[n] = f[n]
  <2>1. f[0] = g[0] /\ \A k \in 1..n : f[k - 1] = g[k - 1] => f[k] = g[k]
    BY <1>4, <1>6 DEF IsEscapes
  <2> HIDE DEF n
  <2>2. Lockstep(f, g, n)
    BY <2>1 DEF Lockstep
  <2> QED
    BY <1>0, <2>2, SameSteps, Zenon
<1>7. (CHOOSE g : IsEscapes(g, t))[n] = f[n]
  BY <1>4, <1>6, Zenon
<1> QED
  BY <1>2, <1>3, <1>5, <1>7

\* So they agree at the end of every text.
LEMMA GuardTogether ==
    ASSUME NEW t \in Seq(Bytes)
    PROVE  UnicodeSource(t).valid = EscapesOf(t).good
<1>0. Len(t) \in Nat
  OBVIOUS
<1>1. PICK f \in [0..Len(t) -> GuardStates] :
             /\ f[0] = GuardStart /\ \A k \in 1..Len(t) : f[k] = Check(f[k - 1], t[k])
             /\ UnicodeSource(t) = f[Len(t)]
  BY GuardRuns
<1>2. PICK g \in [0..Len(t) -> EscapeStates] :
             /\ g[0] = EscapesStart /\ \A k \in 1..Len(t) : g[k] = EscapeRead(g[k - 1], t[k])
             /\ EscapesOf(t) = g[Len(t)]
  BY EscapesRun
<1> DEFINE T == {k \in Nat : k <= Len(t) => SameEscapes(f[k], g[k])}
<1>3. 0 \in T
  <2>1. SameEscapes(GuardStart, EscapesStart)
    BY DEF SameEscapes, GuardStart, EscapesStart
  <2> QED
    BY <1>1, <1>2, <2>1
<1>4. ASSUME NEW k \in 1..Len(t), k - 1 \in T PROVE k \in T
  <2>1. PICK j \in Nat : j = k - 1 /\ j \in 0..Len(t)
    BY <1>4
  <2>2. f[j] \in GuardStates /\ g[j] \in EscapeStates /\ SameEscapes(f[j], g[j]) /\ t[k] \in Bytes
    BY <1>1, <1>2, <1>4, <2>1
  <2>3. SameEscapes(Check(f[j], t[k]), EscapeRead(g[j], t[k]))
    BY <2>2, EscapesTogether
  <2>4. f[k] = Check(f[j], t[k]) /\ g[k] = EscapeRead(g[j], t[k])
    BY <1>1, <1>2, <2>1
  <2> QED
    BY <2>3, <2>4
<1> HIDE DEF T
<1>5. \A k \in 0..Len(t) : k \in T
  BY <1>0, <1>3, <1>4, AllRounds
<1>6. SameEscapes(f[Len(t)], g[Len(t)])
  <2>1. Len(t) \in 0..Len(t)
    BY <1>0
  <2> QED
    BY <1>0, <1>5, <2>1 DEF T
<1> QED
  BY <1>1, <1>2, <1>6 DEF SameEscapes

\* The encoding check passes the lawful texts, and jsoncons' guard the texts
\* whose escapes are good, for every text.
THEOREM EncodingExactHolds == TextSpec => []EncodingExact
<1>1. TextTypes => EncodingExact
  BY GuardTogether, EncodingTogether DEF TextTypes, EncodingExact
<1> QED
  BY <1>1, TextType, PTL

(***************************************************************************)
(* The guard of nlohmann's lexer.                                          *)
(***************************************************************************)

BufferStates == [string : BOOLEAN, escaped : BOOLEAN, number : BOOLEAN, length : Nat,
                 error : {"none", "string", "number", "nul"}, read : Nat]

\* No byte of a number is a quote or a NUL.
LEMMA NumberBytesAre ==
    /\ Quote \notin NumberBytes /\ 0 \notin NumberBytes
    /\ Quote \notin NumberStarts /\ 0 \notin NumberStarts
    /\ \A c : c \in NumberStarts => c \in NumberBytes
    /\ Quote # 0
BY DEF NumberBytes, NumberStarts, Quote

\* A byte after an error is not read.
LEMMA CheckedByteIs ==
    ASSUME NEW g \in BufferStates, NEW c \in Bytes, g.error = "none"
    PROVE  LET x == [g EXCEPT !.read = @ + 1] IN
           /\ x \in BufferStates /\ x.string = g.string /\ x.escaped = g.escaped
           /\ x.number = g.number /\ x.length = g.length /\ x.error = "none"
           /\ x.read = g.read + 1
           /\ CheckedByte(g, c) = BufferByte(x, c)
<1> DEFINE x == [g EXCEPT !.read = @ + 1]
<1>1. CheckedByte(g, c) = BufferByte(x, c)
  BY Zenon DEF CheckedByte
<1>2. /\ x \in BufferStates /\ x.string = g.string /\ x.escaped = g.escaped
      /\ x.number = g.number /\ x.length = g.length /\ x.error = "none"
      /\ x.read = g.read + 1
  BY DEF BufferStates
<1> QED
  BY <1>1, <1>2

\* One more byte of a string.
OneMore(x, y, z) == [x EXCEPT !.length = @ + 1, !.error = y, !.escaped = z]

\* Only the length of a state changes.
LEMMA SetLength ==
    ASSUME NEW x \in BufferStates, NEW y \in {"none", "string", "number", "nul"}
    PROVE  LET h == [x EXCEPT !.length = @ + 1, !.error = y] IN
           /\ h \in BufferStates /\ h.string = x.string /\ h.number = x.number
           /\ h.length = x.length + 1 /\ h.read = x.read /\ h.error = y
<1> DEFINE h == [x EXCEPT !.length = @ + 1, !.error = y]
<1>1. x.length + 1 \in Nat
  BY DEF BufferStates
<1>2. h \in BufferStates
  BY <1>1, Zenon DEF BufferStates
<1>3. h.string = x.string /\ h.number = x.number
  BY DEF BufferStates
<1>4. h.length = x.length + 1 /\ h.read = x.read /\ h.error = y
  BY DEF BufferStates
<1> QED
  BY <1>2, <1>3, <1>4

\* A byte of a string that does not close it.
LEMMA InsideString ==
    ASSUME NEW g \in BufferStates, NEW c \in Bytes, g.error = "none", g.string,
           c # 0, g.escaped \/ c # Quote
    PROVE  LET h == CheckedByte(g, c) IN
           /\ h \in BufferStates /\ h.string /\ h.number = g.number
           /\ h.escaped <=> ~g.escaped /\ c = Backslash
           /\ h.length = g.length + 1 /\ h.read = g.read + 1
           /\ h.error = IF g.length + 1 > StringBudget THEN "string" ELSE "none"
<1> DEFINE h == CheckedByte(g, c)
<1>1. PICK x \in BufferStates : /\ x.string = g.string /\ x.escaped = g.escaped
                                /\ x.number = g.number /\ x.length = g.length
                                /\ x.error = "none" /\ x.read = g.read + 1
                                /\ h = BufferByte(x, c)
  BY CheckedByteIs
<1> DEFINE z == ~x.escaped /\ c = Backslash
           y == IF x.length + 1 > StringBudget THEN "string" ELSE x.error
<1>2. h = OneMore(x, y, z)
  <2>1. h = BufferInString(x, c)
    BY <1>1, Zenon DEF BufferByte
  <2>2. ~ClosesString(x, c)
    BY <1>1, Zenon DEF ClosesString
  <2> QED
    BY <2>1, <2>2, Zenon DEF BufferInString, OneMore
<1>3. z \in BOOLEAN /\ y \in {"none", "string"} /\ (z <=> ~g.escaped /\ c = Backslash)
      /\ y = IF g.length + 1 > StringBudget THEN "string" ELSE "none"
  BY <1>1
<1> HIDE DEF z, y, h
<1>4. h \in BufferStates /\ h.string = x.string /\ h.number = x.number /\ h.escaped = z
      /\ h.length = x.length + 1 /\ h.read = x.read /\ h.error = y
  <2>1. z \in BOOLEAN /\ y \in {"none", "string", "number", "nul"}
    BY <1>3
  <2> QED
    <3>1. x.length + 1 \in Nat
      BY DEF BufferStates
    <3>2. h \in BufferStates
      BY <1>2, <2>1, <3>1, Zenon DEF BufferStates, OneMore
    <3>3. h.string = x.string /\ h.number = x.number /\ h.escaped = z
      BY <1>2 DEF BufferStates, OneMore
    <3>4. h.length = x.length + 1 /\ h.read = x.read /\ h.error = y
      BY <1>2 DEF BufferStates, OneMore
    <3> QED
      BY <3>2, <3>3, <3>4
<1>5. h.string /\ h.number = g.number /\ (h.escaped <=> ~g.escaped /\ c = Backslash)
  BY <1>1, <1>3, <1>4, Zenon
<1> QED
  BY <1>1, <1>3, <1>4, <1>5, Zenon DEF h

\* A quote that is not escaped ends the string.
LEMMA ClosingString ==
    ASSUME NEW g \in BufferStates, NEW c \in Bytes, g.error = "none", g.string,
           ~g.escaped, c = Quote
    PROVE  LET h == CheckedByte(g, c) IN
           /\ h \in BufferStates /\ ~h.string /\ h.number = g.number /\ ~h.escaped
           /\ h.length = 0 /\ h.read = g.read + 1 /\ h.error = "none"
<1> DEFINE h == CheckedByte(g, c)
<1>1. PICK x \in BufferStates : /\ x.string = g.string /\ x.escaped = g.escaped
                                /\ x.number = g.number /\ x.length = g.length
                                /\ x.error = "none" /\ x.read = g.read + 1
                                /\ h = BufferByte(x, c)
  BY CheckedByteIs
<1>2. h = [x EXCEPT !.string = FALSE, !.length = 0]
  <2>0. c # 0
    BY NumberBytesAre
  <2>1. h = BufferInString(x, c)
    BY <1>1, <2>0, Zenon DEF BufferByte
  <2>2. ClosesString(x, c)
    BY <1>1, Zenon DEF ClosesString
  <2> QED
    BY <2>1, <2>2, Zenon DEF BufferInString
<1> HIDE DEF h
<1>4. h \in BufferStates /\ ~h.string /\ h.number = x.number /\ h.escaped = x.escaped
      /\ h.length = 0 /\ h.read = x.read /\ h.error = x.error
  BY <1>2 DEF BufferStates
<1> QED
  BY <1>1, <1>4, Zenon DEF h

\* Outside of strings.
LEMMA OutsideString ==
    ASSUME NEW g \in BufferStates, NEW c \in Bytes, g.error = "none", ~g.string, c # 0
    PROVE  LET h == CheckedByte(g, c)
               more == g.number /\ c \in NumberBytes
           IN
           /\ h \in BufferStates /\ h.read = g.read + 1
           /\ c # Quote => ~h.string
           /\ c = Quote => h.string /\ ~h.escaped /\ ~h.number /\ h.length = 0 /\ h.error = "none"
           /\ more => /\ h.number /\ h.length = g.length + 1
                      /\ h.error = IF g.length + 1 >= JSON_STRING_SIZE THEN "number" ELSE "none"
           /\ ~more /\ c \in NumberStarts => h.number /\ h.length = 1 /\ h.error = "none"
           /\ ~more /\ c \notin NumberStarts => ~h.number /\ h.error = "none"
<1> DEFINE h == CheckedByte(g, c)
           more == g.number /\ c \in NumberBytes
<1>1. PICK x \in BufferStates : /\ x.string = g.string /\ x.escaped = g.escaped
                                /\ x.number = g.number /\ x.length = g.length
                                /\ x.error = "none" /\ x.read = g.read + 1
                                /\ h = BufferByte(x, c)
  BY CheckedByteIs
<1> DEFINE y == IF x.length + 1 >= JSON_STRING_SIZE THEN "number" ELSE x.error
<1>2. h = IF x.number /\ c \in NumberBytes THEN [x EXCEPT !.length = @ + 1, !.error = y]
          ELSE BufferOutside(x, c)
  BY <1>1, Zenon DEF BufferByte
<1>3. BufferOutside(x, c) =
         IF c = Quote THEN [x EXCEPT !.string = TRUE, !.escaped = FALSE,
                                     !.number = FALSE, !.length = 0]
         ELSE IF c \in NumberStarts THEN [x EXCEPT !.number = TRUE, !.length = 1]
         ELSE [x EXCEPT !.number = FALSE, !.length = 0]
  <2>1. /\ c = Quote => c \notin NumberStarts
        /\ c \notin NumberStarts \cup {Quote} <=> c # Quote /\ c \notin NumberStarts
    BY NumberBytesAre
  <2> QED
    BY <2>1, Zenon DEF BufferOutside
<1>4. y = (IF g.length + 1 >= JSON_STRING_SIZE THEN "number" ELSE "none") /\ y \in {"none", "number"}
  BY <1>1
<1>5. more <=> x.number /\ c \in NumberBytes
  BY <1>1, Zenon
<1> HIDE DEF h, y, more
<1>6. CASE more
  <2>1. h = [x EXCEPT !.length = @ + 1, !.error = y]
    BY <1>2, <1>5, <1>6, Zenon
  <2>2. h \in BufferStates /\ h.string = x.string /\ h.number = x.number
        /\ h.length = x.length + 1 /\ h.read = x.read /\ h.error = y
    <3>1. y \in {"none", "string", "number", "nul"}
      BY <1>4
    <3> QED
      BY <2>1, <3>1, SetLength
  <2>3. c # Quote /\ ~h.string /\ h.number
    BY <1>1, <1>5, <1>6, <2>2, NumberBytesAre, Zenon DEF more
  <2> QED
    BY <1>1, <1>4, <1>6, <2>2, <2>3, Zenon DEF h, more
<1>7. CASE ~more /\ c = Quote
  <2>1. h = [x EXCEPT !.string = TRUE, !.escaped = FALSE, !.number = FALSE, !.length = 0]
    BY <1>2, <1>3, <1>5, <1>7, Zenon
  <2>2. h \in BufferStates /\ h.string /\ ~h.escaped /\ ~h.number
        /\ h.length = 0 /\ h.read = x.read /\ h.error = x.error
    BY <2>1 DEF BufferStates
  <2> QED
    BY <1>1, <1>7, <2>2, NumberBytesAre, Zenon DEF h, more
<1>8. CASE ~more /\ c # Quote /\ c \in NumberStarts
  <2>1. h = [x EXCEPT !.number = TRUE, !.length = 1]
    BY <1>2, <1>3, <1>5, <1>8, Zenon
  <2>2. h \in BufferStates /\ h.string = x.string /\ h.number
        /\ h.length = 1 /\ h.read = x.read /\ h.error = x.error
    BY <2>1 DEF BufferStates
  <2>3. ~h.string
    BY <1>1, <2>2, Zenon
  <2> QED
    BY <1>1, <1>8, <2>2, <2>3, Zenon DEF h, more
<1>9. CASE ~more /\ c # Quote /\ c \notin NumberStarts
  <2>1. h = [x EXCEPT !.number = FALSE, !.length = 0]
    BY <1>2, <1>3, <1>5, <1>9, Zenon
  <2>2. h \in BufferStates /\ h.string = x.string /\ ~h.number
        /\ h.length = 0 /\ h.read = x.read /\ h.error = x.error
    BY <2>1 DEF BufferStates
  <2>3. ~h.string
    BY <1>1, <2>2, Zenon
  <2> QED
    BY <1>1, <1>9, <2>2, <2>3, Zenon DEF h, more
<1> QED
  BY <1>6, <1>7, <1>8, <1>9

\* A byte keeps the types of the guard of nlohmann.
LEMMA BufferTypes ==
    /\ BufferStart \in BufferStates
    /\ \A g \in BufferStates, c \in Bytes : CheckedByte(g, c) \in BufferStates
<1>1. BufferStart \in BufferStates
  BY DEF BufferStart, BufferStates
<1>2. ASSUME NEW g \in BufferStates, NEW c \in Bytes PROVE CheckedByte(g, c) \in BufferStates
  <2>1. CASE g.error # "none"
    BY <2>1 DEF CheckedByte
  <2>2. CASE g.error = "none" /\ c = 0
    <3>1. PICK x \in BufferStates : CheckedByte(g, c) = BufferByte(x, c)
      BY <2>2, CheckedByteIs
    <3>2. BufferByte(x, c) = [x EXCEPT !.error = "nul"]
      BY <2>2 DEF BufferByte
    <3> QED
      BY <3>1, <3>2 DEF BufferStates
  <2>3. CASE g.error = "none" /\ c # 0 /\ ~g.string
    BY <2>3, OutsideString
  <2>4. CASE g.error = "none" /\ c # 0 /\ g.string /\ (g.escaped \/ c # Quote)
    BY <2>4, InsideString
  <2>5. CASE g.error = "none" /\ c # 0 /\ g.string /\ ~(g.escaped \/ c # Quote)
    BY <2>5, ClosingString
  <2> QED
    BY <2>1, <2>2, <2>3, <2>4, <2>5
<1> QED
  BY <1>1, <1>2

IsBuffer(f, t) ==
    f = [k \in 0..Len(t) |-> IF k = 0 THEN BufferStart ELSE CheckedByte(f[k - 1], t[k])]

\* The guard of nlohmann's lexer as a run.
LEMMA BufferRuns ==
    ASSUME NEW t \in Seq(Bytes)
    PROVE  \E f \in [0..Len(t) -> BufferStates] :
              /\ f[0] = BufferStart /\ \A k \in 1..Len(t) : f[k] = CheckedByte(f[k - 1], t[k])
              /\ CheckedInputBuffer(t) = f[Len(t)]
<1> DEFINE n == Len(t)
           step == [x \in BufferStates \X (1..n) |-> CheckedByte(x[1], t[x[2]])]
<1>0. n \in Nat /\ BufferStart \in BufferStates
  BY BufferTypes
<1>1. IsStep(step, BufferStates, n)
  <2> SUFFICES ASSUME NEW x \in BufferStates \X (1..n)
               PROVE  CheckedByte(x[1], t[x[2]]) \in BufferStates
    BY DEF IsStep
  <2> QED
    BY BufferTypes
<1>2. PICK f : /\ f \in [0..n -> BufferStates]
               /\ f[0] = BufferStart /\ \A k \in 1..n : f[k] = step[<<f[k - 1], k>>]
  <2> HIDE DEF step, n
  <2>1. \E f : Solution(f, BufferStates, n, BufferStart, step)
    BY <1>0, <1>1, Recursion, Zenon
  <2> QED
    BY <2>1 DEF Solution
<1>3. \A k \in 1..n : f[k] = CheckedByte(f[k - 1], t[k])
  <2> SUFFICES ASSUME NEW k \in 1..n
               PROVE  f[k] = CheckedByte(f[k - 1], t[k])
    OBVIOUS
  <2>1. f[k - 1] \in BufferStates
    BY <1>2
  <2> QED
    BY <1>2, <2>1
<1>4. IsBuffer(f, t)
  BY <1>2, <1>3 DEF IsBuffer
<1>5. CheckedInputBuffer(t) = (CHOOSE g : IsBuffer(g, t))[Len(t)]
  BY Zenon DEF CheckedInputBuffer, IsBuffer
<1>6. ASSUME NEW g, IsBuffer(g, t) PROVE g[n] = f[n]
  <2>1. f[0] = g[0] /\ \A k \in 1..n : f[k - 1] = g[k - 1] => f[k] = g[k]
    BY <1>4, <1>6 DEF IsBuffer
  <2> HIDE DEF n
  <2>2. Lockstep(f, g, n)
    BY <2>1 DEF Lockstep
  <2> QED
    BY <1>0, <2>2, SameSteps, Zenon
<1>7. (CHOOSE g : IsBuffer(g, t))[n] = f[n]
  BY <1>4, <1>6, Zenon
<1> QED
  BY <1>2, <1>3, <1>5, <1>7

\* The state after each byte of t, and what the guard says of its beginnings.
Buffers(t, g) ==
    /\ g \in [0..Len(t) -> BufferStates]
    /\ g[0] = BufferStart /\ \A k \in 1..Len(t) : g[k] = CheckedByte(g[k - 1], t[k])

\* What the guard has read is a prefix of the text.
LEMMA BufferPrefix ==
    ASSUME NEW t \in Seq(Bytes), NEW s \in Seq(Bytes), Len(s) <= Len(t),
           \A k \in 1..Len(s) : s[k] = t[k], NEW g, NEW f, Buffers(t, g), Buffers(s, f)
    PROVE  f[Len(s)] = g[Len(s)]
<1> DEFINE n == Len(s)
<1>1. n \in Nat
  OBVIOUS
<1>2. f[0] = g[0]
  BY DEF Buffers
<1>3. \A k \in 1..n : f[k - 1] = g[k - 1] => f[k] = g[k]
  <2> SUFFICES ASSUME NEW k \in 1..n, f[k - 1] = g[k - 1] PROVE f[k] = g[k]
    OBVIOUS
  <2>1. f[k] = CheckedByte(f[k - 1], s[k])
    BY DEF Buffers
  <2>2. g[k] = CheckedByte(g[k - 1], t[k])
    <3>1. k \in 1..Len(t)
      OBVIOUS
    <3> QED
      BY <3>1 DEF Buffers
  <2> QED
    BY <2>1, <2>2
<1> HIDE DEF n
<1>4. Lockstep(f, g, n)
  BY <1>2, <1>3 DEF Lockstep
<1>5. f[n] = g[n]
  BY <1>1, <1>4, SameSteps, Zenon
<1> QED
  BY <1>5 DEF n

\* The guard of nlohmann as a run, which also gives its state on each prefix.
LEMMA BufferOf ==
    ASSUME NEW t \in Seq(Bytes)
    PROVE  \E g : Buffers(t, g) /\ CheckedInputBuffer(t) = g[Len(t)]
                  /\ \A p \in 1..Len(t) : CheckedInputBuffer(SubSeq(t, 1, p)) = g[p]
<1>1. \A s \in Seq(Bytes) : \E f : Buffers(s, f) /\ CheckedInputBuffer(s) = f[Len(s)]
  BY BufferRuns DEF Buffers
<1>2. PICK g : Buffers(t, g) /\ CheckedInputBuffer(t) = g[Len(t)]
  BY <1>1
<1>3. ASSUME NEW p \in 1..Len(t) PROVE CheckedInputBuffer(SubSeq(t, 1, p)) = g[p]
  <2> DEFINE s == SubSeq(t, 1, p)
  <2>1. s \in Seq(Bytes) /\ Len(s) = p /\ \A k \in 1..p : s[k] = t[k]
    OBVIOUS
  <2> HIDE DEF s
  <2>2. PICK f : Buffers(s, f) /\ CheckedInputBuffer(s) = f[Len(s)]
    BY <1>1, <2>1
  <2>3. Len(s) <= Len(t) /\ \A k \in 1..Len(s) : s[k] = t[k]
    BY <2>1
  <2>4. f[Len(s)] = g[Len(s)]
    BY <1>2, <2>1, <2>2, <2>3, BufferPrefix
  <2> QED
    BY <2>1, <2>2, <2>4 DEF s
<1> QED
  BY <1>2, <1>3

(***************************************************************************)
(* In a string.                                                            *)
(***************************************************************************)

\* After q bytes the guard is in the string, or has refused it for its length.
At(x, q, escaping) ==
    \/ /\ q - 1 <= JSON_STRING_SIZE * 6
       /\ x.string /\ (x.escaped <=> escaping) /\ ~x.number
       /\ x.length = q - 1 /\ x.read = q /\ x.error = "none"
    \/ q - 1 > JSON_STRING_SIZE * 6 /\ x.error = "string"

\* A byte of a string is counted.
LEMMA StringByte ==
    ASSUME NEW t \in Seq(Bytes), NEW g, Buffers(t, g), NEW q \in Nat, q + 1 <= Len(t),
           NEW escaping \in BOOLEAN, At(g[q], q, escaping),
           t[q + 1] # 0, escaping \/ t[q + 1] # Quote
    PROVE  At(g[q + 1], q + 1, ~escaping /\ t[q + 1] = Backslash)
<1> DEFINE c == t[q + 1]
<1>1. g[q] \in BufferStates /\ g[q + 1] = CheckedByte(g[q], c) /\ c \in Bytes
  <2>1. PICK k \in 1..Len(t) : k = q + 1 /\ k - 1 = q /\ q \in 0..Len(t)
    OBVIOUS
  <2>2. g[k] = CheckedByte(g[k - 1], t[k])
    BY DEF Buffers
  <2>3. g[q] \in BufferStates
    BY <2>1 DEF Buffers
  <2> QED
    BY <2>1, <2>2, <2>3
<1>2. CASE q - 1 > JSON_STRING_SIZE * 6 /\ g[q].error = "string"
  <2>1. g[q + 1] = g[q]
    BY <1>1, <1>2 DEF CheckedByte
  <2>2. q + 1 - 1 > JSON_STRING_SIZE * 6
    BY <1>2, SizePositive
  <2> QED
    BY <1>2, <2>1, <2>2 DEF At
<1>3. CASE /\ q - 1 <= JSON_STRING_SIZE * 6
           /\ g[q].string /\ (g[q].escaped <=> escaping) /\ ~g[q].number
           /\ g[q].length = q - 1 /\ g[q].read = q /\ g[q].error = "none"
  <2> DEFINE h == CheckedByte(g[q], c)
  <2>1. /\ h \in BufferStates /\ h.string /\ h.number = g[q].number
        /\ h.escaped <=> ~g[q].escaped /\ c = Backslash
        /\ h.length = g[q].length + 1 /\ h.read = g[q].read + 1
        /\ h.error = IF g[q].length + 1 > StringBudget THEN "string" ELSE "none"
    BY <1>1, <1>3, InsideString
  <2> HIDE DEF h
  <2>2. /\ g[q].length + 1 = q /\ StringBudget = JSON_STRING_SIZE * 6
        /\ q = q + 1 - 1
    BY <1>3 DEF StringBudget
  <2>3. h.length = q + 1 - 1 /\ h.read = q + 1
    BY <1>3, <2>1, <2>2
  <2>4. (h.escaped <=> ~escaping /\ c = Backslash) /\ ~h.number
    BY <1>3, <2>1, Zenon
  <2>5. h.error = IF q > JSON_STRING_SIZE * 6 THEN "string" ELSE "none"
    BY <2>1, <2>2
  <2>6. At(h, q + 1, ~escaping /\ c = Backslash)
    <3>1. CASE q > JSON_STRING_SIZE * 6
      BY <2>2, <2>5, <3>1 DEF At
    <3>2. CASE ~(q > JSON_STRING_SIZE * 6)
      <4>1. q + 1 - 1 <= JSON_STRING_SIZE * 6
        BY <3>2, SizePositive
      <4>2. h.error = "none"
        BY <2>5, <3>2
      <4> QED
        BY <2>1, <2>3, <2>4, <4>1, <4>2 DEF At
    <3> QED
      BY <3>1, <3>2
  <2> QED
    BY <1>1, <2>6 DEF h
<1> QED
  BY <1>2, <1>3 DEF At

Plain(c) == c # 0 /\ c # Quote /\ c # Backslash

\* Bytes that are neither a quote nor a backslash are counted one by one.
LEMMA PlainBytes ==
    ASSUME NEW t \in Seq(Bytes), NEW g, Buffers(t, g), NEW q \in Nat, NEW n \in Nat,
           q + n <= Len(t), At(g[q], q, FALSE), \A j \in 1..n : Plain(t[q + j])
    PROVE  At(g[q + n], q + n, FALSE)
<1> DEFINE T == {m \in 0..n : At(g[q + m], q + m, FALSE)}
<1>1. 0 \in T
  <2>1. q + 0 = q /\ 0 \in 0..n
    OBVIOUS
  <2>2. At(g[q + 0], q + 0, FALSE)
    BY <2>1
  <2> QED
    BY <2>1, <2>2
<1>2. ASSUME NEW j \in 1..n, j - 1 \in T PROVE j \in T
  <2>1. PICK p \in Nat : p = q + (j - 1) /\ p + 1 = q + j /\ p + 1 <= Len(t)
    OBVIOUS
  <2>2. At(g[q + (j - 1)], q + (j - 1), FALSE)
    BY <1>2
  <2>3. Plain(t[q + j])
    OBVIOUS
  <2> HIDE DEF T
  <2>4. At(g[p], p, FALSE)
    BY <2>1, <2>2
  <2>5. Plain(t[p + 1])
    BY <2>1, <2>3
  <2>6. t[p + 1] # 0 /\ t[p + 1] # Quote /\ t[p + 1] # Backslash
    BY <2>5 DEF Plain
  <2>7. At(g[p + 1], p + 1, ~FALSE /\ t[p + 1] = Backslash)
    BY <2>1, <2>4, <2>6, StringByte
  <2>8. (~FALSE /\ t[p + 1] = Backslash) = FALSE
    BY <2>6
  <2>9. At(g[q + j], q + j, FALSE)
    BY <2>1, <2>7, <2>8
  <2>10. j \in 0..n
    OBVIOUS
  <2> QED
    BY <2>9, <2>10, Zenon DEF T
<1> HIDE DEF T
<1>3. \A j \in 0..n : j \in T
  BY <1>1, <1>2, AllRounds
<1>4. n \in T
  BY <1>3
<1> QED
  BY <1>4 DEF T

\* The byte after a backslash is counted whatever it is.
LEMMA EscapedByte ==
    ASSUME NEW t \in Seq(Bytes), NEW g, Buffers(t, g), NEW q \in Nat,
           q + 2 <= Len(t), At(g[q], q, FALSE), t[q + 1] = Backslash, t[q + 2] # 0
    PROVE  At(g[q + 2], q + 2, FALSE)
<1>1. t[q + 1] # 0 /\ t[q + 1] # Quote /\ q + 1 <= Len(t)
  BY DEF Backslash, Quote
<1>2. At(g[q + 1], q + 1, ~FALSE /\ t[q + 1] = Backslash)
  BY <1>1, StringByte
<1>3. (~FALSE /\ t[q + 1] = Backslash) = TRUE
  OBVIOUS
<1>4. PICK p \in Nat : p = q + 1 /\ p + 1 = q + 2
  OBVIOUS
<1>5. At(g[p], p, TRUE) /\ p + 1 <= Len(t) /\ t[p + 1] # 0
  BY <1>2, <1>3, <1>4
<1>6. At(g[p + 1], p + 1, ~TRUE /\ t[p + 1] = Backslash)
  BY <1>5, StringByte
<1>7. (~TRUE /\ t[p + 1] = Backslash) = FALSE
  OBVIOUS
<1> QED
  BY <1>4, <1>6, <1>7

\* The digits of an escape are plain bytes.
LEMMA HexPlain ==
    ASSUME NEW c, IsHex(c)
    PROVE  Plain(c)
BY DEF IsHex, Plain, Quote, Backslash

\* \u and four digits.
LEMMA UnitBytes ==
    ASSUME NEW t \in Seq(Bytes), NEW g, Buffers(t, g), NEW q \in Nat,
           q + 6 <= Len(t), At(g[q], q, FALSE), t[q + 1] = Backslash, t[q + 2] = LetterU,
           HexAt(t, q + 3)
    PROVE  At(g[q + 6], q + 6, FALSE)
<1>1. At(g[q + 2], q + 2, FALSE)
  <2>1. t[q + 2] # 0 /\ q + 2 <= Len(t)
    BY DEF LetterU
  <2> QED
    BY <2>1, EscapedByte
<1>2. PICK p \in Nat : p = q + 2 /\ p + 4 = q + 6
  OBVIOUS
<1>3. \A j \in 1..4 : Plain(t[p + j])
  <2>1. Plain(t[q + 3]) /\ Plain(t[q + 3 + 1]) /\ Plain(t[q + 3 + 2]) /\ Plain(t[q + 3 + 3])
    BY HexPlain DEF HexAt
  <2>2. p + 1 = q + 3 /\ p + 2 = q + 3 + 1 /\ p + 3 = q + 3 + 2 /\ p + 4 = q + 3 + 3
    BY <1>2
  <2>3. Plain(t[p + 1]) /\ Plain(t[p + 2]) /\ Plain(t[p + 3]) /\ Plain(t[p + 4])
    BY <2>1, <2>2
  <2>4. \A j \in 1..4 : j = 1 \/ j = 2 \/ j = 3 \/ j = 4
    OBVIOUS
  <2> QED
    BY <2>3, <2>4
<1> QED
  BY <1>1, <1>2, <1>3, PlainBytes

\* An item goes through the guard and leaves it as it was.
LEMMA ItemBytes ==
    ASSUME NEW t \in Seq(Bytes), NEW g, Buffers(t, g), NEW q \in Nat,
           NEW n, Items(t, q + 1) = {n}, q + 1 <= Len(t), At(g[q], q, FALSE)
    PROVE  At(g[q + n], q + n, FALSE)
<1>0. PICK i \in 1..Len(t) : i = q + 1
  OBVIOUS
<1> DEFINE s == Piece(t, i, n)
<1>1. n \in ItemLengths /\ i + n - 1 <= Len(t) /\ IsItem(s)
  <2>1. n \in Items(t, i)
    BY <1>0
  <2>2. i \in Nat \ {0}
    OBVIOUS
  <2> QED
    BY <2>1, <2>2, ItemsAre
<1>2. n \in Nat \ {0}
  BY <1>1 DEF ItemLengths
<1>3. s \in Seq(Bytes) /\ Len(s) = n /\ \A j \in 1..n : s[j] = t[i + j - 1]
  BY <1>1, <1>2, PieceIs
<1>4. \/ IsCharacter(s) /\ t[i] >= 32 /\ t[i] # Quote /\ t[i] # Backslash
      \/ t[i] = Backslash /\ IsEscape(s) /\ (n = 2 => t[i + 1] \in Letters)
  BY <1>1, <1>2, IsItemIs
<1> HIDE DEF s
<1>5. \A j \in 1..n : s[j] = t[q + j]
  <2> SUFFICES ASSUME NEW j \in 1..n PROVE s[j] = t[q + j]
    OBVIOUS
  <2>1. i + j - 1 = q + j
    BY <1>0
  <2> QED
    BY <1>3, <2>1
<1>6. q + n <= Len(t)
  BY <1>0, <1>1, <1>2
<1>7. CASE IsCharacter(s) /\ t[i] >= 32 /\ t[i] # Quote /\ t[i] # Backslash
  <2>1. s[1] = t[i] /\ s[1] \in Nat
    <3>1. s[1] = t[q + 1] /\ s[1] \in Bytes
      BY <1>2, <1>3, <1>5
    <3> QED
      BY <1>0, <3>1 DEF Bytes
  <2>2. n \in 1..4
    <3>1. n = EncodedLength(s[1])
      BY <1>3, <1>7 DEF IsCharacter
    <3>2. s[1] <= 255
      <4>1. s[1] \in Bytes
        BY <1>2, <1>3
      <4> QED
        BY <4>1 DEF Bytes
    <3> QED
      BY <1>2, <2>1, <3>1, <3>2, EncodedLengthIs
  <2>3. \A j \in 2..n : Continues(s[j])
    BY <1>3, <1>7, <2>2, CharacterIs
  <2>4. ASSUME NEW j \in 1..n PROVE Plain(t[q + j])
    <3>1. t[q + j] = s[j]
      BY <1>5
    <3>2. CASE j = 1
      BY <1>7, <2>1, <3>1, <3>2 DEF Plain
    <3>3. CASE j # 1
      <4>1. Continues(s[j])
        BY <2>2, <2>3, <3>3
      <4>2. s[j] \in Int /\ 128 <= s[j]
        BY <4>1, ContinuesIs, Zenon
      <4> QED
        BY <3>1, <4>2 DEF Plain, Quote, Backslash
    <3> QED
      BY <3>2, <3>3
  <2> QED
    BY <1>2, <1>6, <2>4, PlainBytes
<1>8. CASE t[i] = Backslash /\ IsEscape(s) /\ (n = 2 => t[i + 1] \in Letters)
  <2>1. n \in {2, 6, 12}
    BY <1>1, <1>3, <1>8, NoShortEscape
  <2>2. t[q + 1] = Backslash
    BY <1>0, <1>8
  <2>3. CASE n = 2
    <3>1. t[q + 2] \in Letters
      BY <1>0, <1>8, <2>3
    <3>2. t[q + 2] # 0
      BY <3>1 DEF Letters
    <3> QED
      BY <1>6, <2>2, <2>3, <3>2, EscapedByte
  <2>4. CASE n = 6 \/ n = 12
    <3>1. s[2] = LetterU /\ HexAt(s, 3)
      BY <1>3, <1>8, <2>4, EscapeIs
    <3>2. s[2] = t[q + 2] /\ s[3] = t[q + 3] /\ s[3 + 1] = t[q + 4]
          /\ s[3 + 2] = t[q + 5] /\ s[3 + 3] = t[q + 6]
      BY <1>5, <2>4
    <3>3. q + 3 + 1 = q + 4 /\ q + 3 + 2 = q + 5 /\ q + 3 + 3 = q + 6
      OBVIOUS
    <3>4. HexAt(t, q + 3)
      BY <3>1, <3>2, <3>3 DEF HexAt
    <3>5. At(g[q + 6], q + 6, FALSE)
      <4>1. q + 6 <= Len(t) /\ t[q + 2] = LetterU
        BY <1>6, <2>4, <3>1, <3>2
      <4> QED
        BY <2>2, <3>4, <4>1, UnitBytes
    <3>6. CASE n = 6
      BY <3>5, <3>6
    <3>7. CASE n = 12
      <4>1. s[7] = Backslash /\ s[8] = LetterU /\ HexAt(s, 9)
        BY <1>3, <1>8, <3>7, EscapeIs
      <4>2. s[7] = t[q + 7] /\ s[8] = t[q + 8] /\ s[9] = t[q + 9] /\ s[9 + 1] = t[q + 10]
            /\ s[9 + 2] = t[q + 11] /\ s[9 + 3] = t[q + 12]
        BY <1>5, <3>7
      <4>3. PICK p \in Nat : p = q + 6 /\ p + 6 = q + 12 /\ p + 1 = q + 7 /\ p + 2 = q + 8
                /\ p + 3 = q + 9 /\ p + 3 + 1 = q + 10 /\ p + 3 + 2 = q + 11 /\ p + 3 + 3 = q + 12
        OBVIOUS
      <4>4. HexAt(t, p + 3)
        BY <4>1, <4>2, <4>3 DEF HexAt
      <4>5. p + 6 <= Len(t) /\ t[p + 1] = Backslash /\ t[p + 2] = LetterU
        BY <1>6, <3>7, <4>1, <4>2, <4>3
      <4>6. At(g[p], p, FALSE)
        BY <3>5, <4>3
      <4>7. At(g[p + 6], p + 6, FALSE)
        BY <4>4, <4>5, <4>6, UnitBytes
      <4> QED
        BY <3>7, <4>3, <4>7
    <3> QED
      BY <2>4, <3>6, <3>7
  <2> QED
    BY <2>1, <2>3, <2>4
<1> QED
  BY <1>4, <1>7, <1>8

\* An item has at most six bytes for each of what it stands for.
LEMMA ItemExpands ==
    ASSUME NEW t \in Seq(Bytes), NEW i \in Nat \ {0}, NEW n, Items(t, i) = {n}
    PROVE  /\ n \in ItemLengths /\ i + n - 1 <= Len(t) /\ Len(Piece(t, i, n)) = n
           /\ Decoded(Piece(t, i, n)) \in 1..4
           /\ n <= 6 * Decoded(Piece(t, i, n))
<1> DEFINE s == Piece(t, i, n)
<1>1. i \in 1..Len(t) /\ n \in ItemLengths /\ i + n - 1 <= Len(t)
      /\ Len(s) = n /\ s \in Seq(Bytes) /\ Decoded(s) \in 1..4
  <2> DEFINE m == DomCharacter(t, i).bytes
  <2>1. /\ i \in 1..Len(t) /\ Items(t, i) = {m} /\ m \in ItemLengths /\ i + m - 1 <= Len(t)
        /\ Len(Piece(t, i, m)) = m /\ Piece(t, i, m) \in Seq(Bytes)
        /\ Decoded(Piece(t, i, m)) \in 1..4
    BY OneItem
  <2> HIDE DEF m
  <2>2. n = m
    BY <2>1
  <2> QED
    BY <2>1, <2>2
<1>2. n \in Nat \ {0}
  BY <1>1 DEF ItemLengths
<1>3. ASSUME n = 12 PROVE Decoded(s) = 4
  <2>1. IsItem(s) /\ s[1] = t[i]
    <3>1. n \in Items(t, i)
      OBVIOUS
    <3>2. IsItem(s)
      BY <3>1, ItemsAre
    <3>3. s[1] = t[i]
      BY <1>1, <1>2, IsItemIs
    <3> QED
      BY <3>2, <3>3
  <2>2. s[1] \in Bytes
    BY <1>1, <1>3
  <2>3. ~IsCharacter(s)
    <3>1. s[1] \in Nat /\ s[1] <= 255
      BY <2>2 DEF Bytes
    <3>2. EncodedLength(s[1]) # 12
      BY <3>1, EncodedLengthIs
    <3> QED
      BY <1>1, <1>3, <3>2 DEF IsCharacter
  <2>4. s[1] = Backslash
    <3> HIDE DEF s
    <3> QED
      BY <2>1, <2>3, Zenon DEF IsItem
  <2> HIDE DEF s
  <2>5. Len(s) = 12
    BY <1>1, <1>3
  <2> QED
    BY <2>4, <2>5 DEF Decoded, DecodedLength
<1> HIDE DEF s
<1>4. n <= 6 * Decoded(s)
  <2>1. CASE n = 12
    BY <1>3, <2>1
  <2>2. CASE n # 12
    <3>1. n <= 6
      BY <1>1, <2>2 DEF ItemLengths
    <3> QED
      BY <1>1, <1>2, <3>1
  <2> QED
    BY <2>1, <2>2
<1> QED
  BY <1>1, <1>4 DEF s

\* The guard at the end of the items.
InItems(t, g, r) ==
    /\ r.at >= 2 /\ r.at <= Len(t) + 1
    /\ At(g[r.at - 1], r.at - 1, FALSE)
    /\ r.at - 2 <= 6 * r.decoded

\* The guard in a string follows the items of the string.
LEMMA InsideStep ==
    ASSUME NEW t \in Seq(Bytes), NEW g, Buffers(t, g), NEW r \in ItemStates, InItems(t, g, r)
    PROVE  InItems(t, g, ItemRound(t, r))
<1>0. r.at \in Nat \ {0} /\ r.decoded \in Nat
  BY DEF ItemStates
<1>1. CASE Items(t, r.at) = {}
  BY <1>1 DEF ItemRound
<1>2. CASE Items(t, r.at) # {}
  <2>1. PICK n : Items(t, r.at) = {n}
    BY <1>0, <1>2, OneItem
  <2> DEFINE x == Piece(t, r.at, n)
             v == ItemRound(t, r)
  <2>2. /\ n \in ItemLengths /\ r.at + n - 1 <= Len(t) /\ Len(x) = n
        /\ Decoded(x) \in 1..4 /\ n <= 6 * Decoded(x)
    BY <1>0, <2>1, ItemExpands
  <2>3. v = [at |-> r.at + Len(x), items |-> Append(r.items, x), decoded |-> r.decoded + Decoded(x)]
    BY <2>1, ItemRoundIs, Zenon
  <2> HIDE DEF x, v
  <2>4. v.at = r.at + n /\ v.decoded = r.decoded + Decoded(x)
    BY <2>2, <2>3
  <2>5. n \in Nat \ {0}
    BY <2>2 DEF ItemLengths
  <2>6. PICK q \in Nat : q = r.at - 1 /\ q + 1 = r.at /\ q + n = v.at - 1 /\ q + 1 <= Len(t)
    <3>1. r.at - 1 \in Nat /\ r.at <= Len(t)
      BY <1>0, <2>2, <2>5
    <3> QED
      BY <1>0, <2>4, <2>5, <3>1
  <2>7. At(g[q], q, FALSE) /\ Items(t, q + 1) = {n}
    BY <2>1, <2>6 DEF InItems
  <2>8. At(g[q + n], q + n, FALSE)
    BY <2>6, <2>7, ItemBytes
  <2>9. At(g[v.at - 1], v.at - 1, FALSE)
    BY <2>6, <2>8
  <2>10. v.at >= 2 /\ v.at <= Len(t) + 1 /\ v.at - 2 <= 6 * v.decoded
    <3>1. r.at >= 2 /\ r.at - 2 <= 6 * r.decoded
      BY DEF InItems
    <3> QED
      <4>1. PICK d \in Nat : d = Decoded(x)
        BY <2>2
      <4>2. n <= 6 * d /\ v.decoded = r.decoded + d
        BY <2>2, <2>4, <4>1
      <4>3. r.at + n - 2 <= 6 * (r.decoded + d)
        BY <1>0, <2>5, <3>1, <4>2
      <4>4. r.at + n >= 2 /\ r.at + n <= Len(t) + 1
        BY <1>0, <2>2, <2>5, <3>1
      <4> QED
        <5>1. v.at - 2 <= 6 * v.decoded
          BY <1>0, <2>4, <2>5, <4>2, <4>3
        <5>2. v.at >= 2 /\ v.at <= Len(t) + 1
          BY <2>4, <4>4, Zenon
        <5> QED
          BY <5>1, <5>2
  <2> QED
    BY <2>9, <2>10 DEF InItems, v
<1> QED
  BY <1>1, <1>2

\* The guard at the end of the items of a string.
LEMMA InsideItems ==
    ASSUME NEW t \in Seq(Bytes), t # <<>>, t[1] = Quote, NEW g, Buffers(t, g)
    PROVE  ItemsOf(t) \in ItemStates /\ InItems(t, g, ItemsOf(t))
<1>0. Len(t) \in Nat /\ 1 \in 1..Len(t) /\ Len(t) >= 1
  OBVIOUS
<1>1. PICK f : /\ f \in [0..Len(t) -> ItemStates]
               /\ f[0] = ItemsStart /\ \A k \in 1..Len(t) : f[k] = ItemRound(t, f[k - 1])
               /\ ItemsOf(t) = f[Len(t)]
  BY ItemsRun
<1> DEFINE T == {k \in 0..Len(t) : InItems(t, g, f[k])}
<1>2. 0 \in T
  <2>1. g[1] = CheckedByte(BufferStart, Quote)
    BY <1>0 DEF Buffers
  <2> DEFINE h == CheckedByte(BufferStart, Quote)
  <2>2. BufferStart.error = "none" /\ ~BufferStart.string /\ BufferStart.read = 0
    BY DEF BufferStart
  <2>3. Quote \in Bytes /\ Quote # 0
    BY DEF Quote, Bytes
  <2>4. /\ h.read = BufferStart.read + 1
        /\ h.string /\ ~h.escaped /\ ~h.number /\ h.length = 0 /\ h.error = "none"
    BY <2>2, <2>3, BufferTypes, OutsideString
  <2> HIDE DEF h
  <2>5. At(h, 1, FALSE)
    <3>1. 1 - 1 <= JSON_STRING_SIZE * 6 /\ h.length = 1 - 1 /\ h.read = 1
      BY <2>2, <2>4, SizePositive
    <3> QED
      BY <2>4, <3>1 DEF At
  <2>6. ItemsStart.at = 2 /\ ItemsStart.decoded = 0
    BY DEF ItemsStart
  <2>7. InItems(t, g, ItemsStart)
    <3>1. /\ ItemsStart.at - 1 = 1 /\ ItemsStart.at >= 2 /\ ItemsStart.at <= Len(t) + 1
          /\ ItemsStart.at - 2 <= 6 * ItemsStart.decoded
      BY <1>0, <2>6
    <3>2. At(g[1], 1, FALSE)
      BY <2>1, <2>5 DEF h
    <3>3. At(g[ItemsStart.at - 1], ItemsStart.at - 1, FALSE)
      BY <3>1, <3>2
    <3> QED
      BY <3>1, <3>3 DEF InItems
  <2>8. 0 \in 0..Len(t)
    BY <1>0
  <2> QED
    BY <1>1, <2>7, <2>8
<1>3. ASSUME NEW k \in 1..Len(t), k - 1 \in T PROVE k \in T
  <2>1. InItems(t, g, f[k - 1]) /\ f[k - 1] \in ItemStates
    BY <1>1, <1>3
  <2>2. InItems(t, g, ItemRound(t, f[k - 1]))
    BY <2>1, InsideStep
  <2>3. f[k] = ItemRound(t, f[k - 1]) /\ k \in 0..Len(t)
    BY <1>1
  <2> QED
    BY <2>2, <2>3
<1> HIDE DEF T
<1>4. \A k \in 0..Len(t) : k \in T
  BY <1>0, <1>2, <1>3, AllRounds
<1>5. Len(t) \in T /\ Len(t) \in 0..Len(t)
  BY <1>0, <1>4
<1> QED
  BY <1>1, <1>5 DEF T

\* After a string the guard starts again.
LEMMA StartAgain ==
    ASSUME NEW m \in Nat
    PROVE  [BufferStart EXCEPT !.read = m] =
              [string |-> FALSE, escaped |-> FALSE, number |-> FALSE,
               length |-> 0, error |-> "none", read |-> m]
<1>1. PICK b \in BufferStates : b = BufferStart
  BY BufferTypes
<1>2. /\ b.string = FALSE /\ b.escaped = FALSE /\ b.number = FALSE /\ b.length = 0
      /\ b.error = "none"
  BY <1>1 DEF BufferStart
<1>3. [b EXCEPT !.read = m] = [string |-> b.string, escaped |-> b.escaped, number |-> b.number,
                              length |-> b.length, error |-> b.error, read |-> m]
  BY DEF BufferStates
<1> QED
  BY <1>1, <1>2, <1>3, Zenon

\* A string that is refused has more bytes than its items can have.
LEMMA StringStopped ==
    ASSUME NEW t \in Seq(Bytes), t # <<>>, t[1] = Quote
    PROVE  LET found == CheckedInputBuffer(t)
               items == ItemsOf(t)
               string == CheckedInputBuffer(SubSeq(t, 1, items.at))
           IN  /\ items.at > Len(t) =>
                     /\ found.error = "string" => items.decoded >= JSON_STRING_SIZE
                     /\ found.error = "none" =>
                            found.string /\ Len(t) - 1 <= JSON_STRING_SIZE * 6
               /\ items.at <= Len(t) /\ t[items.at] = Quote =>
                     \/ string = [BufferStart EXCEPT !.read = items.at]
                     \/ string.error = "string" /\ items.decoded >= JSON_STRING_SIZE
<1> DEFINE found == CheckedInputBuffer(t)
           items == ItemsOf(t)
           string == CheckedInputBuffer(SubSeq(t, 1, items.at))
<1>1. PICK g : Buffers(t, g) /\ found = g[Len(t)]
               /\ \A p \in 1..Len(t) : CheckedInputBuffer(SubSeq(t, 1, p)) = g[p]
  BY BufferOf
<1>2. items \in ItemStates /\ InItems(t, g, items)
  BY <1>1, InsideItems
<1>3. items.at \in Nat \ {0} /\ items.decoded \in Nat /\ Len(t) \in Nat
  BY <1>2 DEF ItemStates
<1> HIDE DEF found, items
<1>4. /\ items.at >= 2 /\ items.at <= Len(t) + 1
      /\ At(g[items.at - 1], items.at - 1, FALSE)
      /\ items.at - 2 <= 6 * items.decoded
  BY <1>2 DEF InItems
<1>5. PICK q \in Nat : q = items.at - 1 /\ q + 1 = items.at /\ q - 1 = items.at - 2
  BY <1>3
<1>6. At(g[q], q, FALSE) /\ (q - 1 > JSON_STRING_SIZE * 6 => items.decoded >= JSON_STRING_SIZE)
  <2>1. q - 1 <= 6 * items.decoded
    BY <1>4, <1>5
  <2>2. q - 1 > JSON_STRING_SIZE * 6 => items.decoded >= JSON_STRING_SIZE
    BY <1>3, <2>1, SizePositive
  <2> QED
    BY <1>4, <1>5, <2>2
<1>7. ASSUME items.at > Len(t)
      PROVE  /\ found.error = "string" => items.decoded >= JSON_STRING_SIZE
             /\ found.error = "none" =>
                    found.string /\ Len(t) - 1 <= JSON_STRING_SIZE * 6
  <2>1. q = Len(t)
    BY <1>3, <1>4, <1>5, <1>7
  <2>2. At(found, q, FALSE)
    BY <1>1, <1>6, <2>1
  <2>3. found.error = "string" => q - 1 > JSON_STRING_SIZE * 6
    BY <2>2 DEF At
  <2>4. found.error = "none" => found.string /\ q - 1 <= JSON_STRING_SIZE * 6
    BY <2>2 DEF At
  <2> QED
    BY <1>6, <2>1, <2>3, <2>4
<1>8. ASSUME items.at <= Len(t), t[items.at] = Quote
      PROVE  \/ string = [BufferStart EXCEPT !.read = items.at]
             \/ string.error = "string" /\ items.decoded >= JSON_STRING_SIZE
  <2>1. string = g[q + 1]
    <3>1. items.at \in 1..Len(t)
      BY <1>3, <1>8
    <3> QED
      BY <1>1, <1>5, <3>1
  <2> HIDE DEF string
  <2>2. g[q] \in BufferStates /\ g[q + 1] = CheckedByte(g[q], Quote)
    <3>1. PICK k \in 1..Len(t) : k = q + 1 /\ k - 1 = q /\ q \in 0..Len(t)
      BY <1>3, <1>5, <1>8
    <3>2. g[k] = CheckedByte(g[k - 1], t[k])
      BY <1>1 DEF Buffers
    <3>3. t[k] = Quote
      BY <1>5, <1>8, <3>1
    <3>4. g[q] \in BufferStates
      BY <1>1, <3>1 DEF Buffers
    <3> QED
      BY <3>1, <3>2, <3>3, <3>4
  <2>3. CASE q - 1 > JSON_STRING_SIZE * 6 /\ g[q].error = "string"
    <3>1. g[q + 1] = g[q]
      BY <2>2, <2>3 DEF CheckedByte
    <3> QED
      BY <1>6, <2>1, <2>3, <3>1
  <2>4. CASE /\ g[q].string /\ ~g[q].escaped /\ ~g[q].number /\ g[q].read = q
             /\ g[q].error = "none"
    <3> DEFINE h == CheckedByte(g[q], Quote)
    <3>1. Quote \in Bytes
      BY DEF Quote, Bytes
    <3>2. /\ h \in BufferStates /\ ~h.string /\ h.number = g[q].number /\ ~h.escaped
          /\ h.length = 0 /\ h.read = g[q].read + 1 /\ h.error = "none"
      BY <2>2, <2>4, <3>1, ClosingString
    <3> HIDE DEF h
    <3>3. h.read = items.at /\ ~h.number
      BY <1>5, <2>4, <3>2
    <3>4. h = [BufferStart EXCEPT !.read = items.at]
      <4>1. /\ h.string = FALSE /\ h.escaped = FALSE /\ h.number = FALSE /\ h.length = 0
            /\ h.error = "none" /\ h.read = items.at
        BY <3>2, <3>3 DEF BufferStates
      <4>2. h = [string |-> h.string, escaped |-> h.escaped, number |-> h.number,
                 length |-> h.length, error |-> h.error, read |-> h.read]
        BY <3>2 DEF BufferStates
      <4>3. h = [string |-> FALSE, escaped |-> FALSE, number |-> FALSE,
                 length |-> 0, error |-> "none", read |-> items.at]
        BY <4>1, <4>2, Zenon
      <4> QED
        BY <1>3, <4>3, StartAgain
    <3> QED
      BY <2>1, <2>2, <3>4 DEF h
  <2> QED
    BY <1>6, <2>3, <2>4 DEF At
<1> QED
  BY <1>7, <1>8 DEF found, items

Longest == IF JSON_STRING_SIZE = 1 THEN 2 ELSE JSON_STRING_SIZE

\* The guard refuses a number at its second byte when the limit is one.
LEMMA LongestIs ==
    /\ Longest \in Nat /\ Longest >= 2
    /\ \A l \in Nat : l >= 1 => (l + 1 >= JSON_STRING_SIZE <=> l + 1 >= Longest)
BY SizePositive DEF Longest

\* A number may stand from t[i] to t[k].
Run(t, i, k) ==
    i \in 1..k /\ t[i] \in NumberStarts /\ \A j \in i..k : t[j] \in NumberBytes

\* In the first k bytes a number that is too long has stood.
Long(t, k) == \E i \in 1..k : i + Longest - 1 <= k /\ Run(t, i, i + Longest - 1)

\* A run of bytes of numbers grows by one.
LEMMA RunGrows ==
    ASSUME NEW t, NEW k \in Nat, NEW i
    PROVE  /\ Run(t, i, k + 1) /\ i # k + 1 => Run(t, i, k) /\ t[k + 1] \in NumberBytes
           /\ Run(t, i, k + 1) /\ i = k + 1 => t[k + 1] \in NumberStarts
           /\ Run(t, i, k) /\ t[k + 1] \in NumberBytes => Run(t, i, k + 1)
           /\ t[k + 1] \in NumberStarts => Run(t, k + 1, k + 1)
<1>1. ASSUME Run(t, i, k + 1), i # k + 1 PROVE Run(t, i, k) /\ t[k + 1] \in NumberBytes
  BY <1>1 DEF Run
<1>2. ASSUME Run(t, i, k), t[k + 1] \in NumberBytes PROVE Run(t, i, k + 1)
  <2>1. \A j \in i..k + 1 : j = k + 1 \/ j \in i..k
    BY <1>2 DEF Run
  <2>2. i \in 1..k + 1
    BY <1>2 DEF Run
  <2> QED
    BY <1>2, <2>1, <2>2 DEF Run
<1>3. ASSUME t[k + 1] \in NumberStarts PROVE Run(t, k + 1, k + 1)
  <2>1. k + 1 \in 1..k + 1 /\ \A j \in k + 1..k + 1 : j = k + 1
    OBVIOUS
  <2> QED
    BY <1>3, <2>1, NumberBytesAre DEF Run
<1>4. Run(t, i, k + 1) /\ i = k + 1 => t[k + 1] \in NumberStarts
  BY DEF Run
<1> QED
  BY <1>1, <1>2, <1>3, <1>4

\* A long number of a prefix is one of the text.
LEMMA LongGrows ==
    ASSUME NEW t, NEW k \in Nat
    PROVE  /\ Long(t, k) => Long(t, k + 1)
           /\ Long(t, k + 1) => Long(t, k) \/ \E i \in 1..k : /\ i + Longest - 1 = k + 1
                                                             /\ Run(t, i, k + 1)
<1>1. ASSUME Long(t, k) PROVE Long(t, k + 1)
  <2>1. PICK i \in 1..k : i + Longest - 1 <= k /\ Run(t, i, i + Longest - 1)
    BY <1>1 DEF Long
  <2>2. i \in 1..k + 1 /\ i + Longest - 1 <= k + 1
    BY <2>1, LongestIs
  <2> QED
    BY <2>1, <2>2 DEF Long
<1>2. ASSUME Long(t, k + 1), ~Long(t, k)
      PROVE  \E i \in 1..k : i + Longest - 1 = k + 1 /\ Run(t, i, k + 1)
  <2>1. PICK i \in 1..k + 1 : i + Longest - 1 <= k + 1 /\ Run(t, i, i + Longest - 1)
    BY <1>2 DEF Long
  <2>2. i \in 1..k
    BY <2>1, LongestIs
  <2>3. ~(i + Longest - 1 <= k)
    BY <1>2, <2>1, <2>2 DEF Long
  <2>4. i + Longest - 1 = k + 1
    BY <2>1, <2>2, <2>3, LongestIs
  <2> QED
    BY <2>1, <2>2, <2>4
<1> QED
  BY <1>1, <1>2

\* The guard after k bytes without a quote and a NUL.
Numbers(t, k, x) ==
    \/ x.error = "number" /\ Long(t, k)
    \/ /\ x.error = "none" /\ ~x.string /\ ~Long(t, k)
       /\ x.number => /\ x.length >= 1 /\ x.length < Longest /\ x.length <= k
                      /\ Run(t, k - x.length + 1, k)
                      /\ \A i \in 1..k : Run(t, i, k) => i >= k - x.length + 1
       /\ ~x.number => \A i \in 1..k : ~Run(t, i, k)

\* A byte outside strings keeps the length of the number that is read.
LEMMA NumbersStep ==
    ASSUME NEW t \in Seq(Bytes), NEW k \in Nat, k + 1 <= Len(t),
           t[k + 1] # 0, t[k + 1] # Quote,
           NEW x \in BufferStates, Numbers(t, k, x)
    PROVE  Numbers(t, k + 1, CheckedByte(x, t[k + 1]))
<1> DEFINE c == t[k + 1]
           h == CheckedByte(x, c)
<1>0. c \in Bytes
  BY SMT
<1>1. CASE x.error = "number" /\ Long(t, k)
  <2>1. h = x
    BY <1>1 DEF CheckedByte
  <2>2. Long(t, k + 1)
    BY <1>1, LongGrows
  <2> HIDE DEF h
  <2> QED
    BY <1>1, <2>1, <2>2 DEF Numbers, h
<1>2. CASE x.error = "none" /\ ~x.string /\ ~Long(t, k) /\ Numbers(t, k, x)
  <2> DEFINE more == x.number /\ c \in NumberBytes
  <2>1. /\ h \in BufferStates /\ ~h.string
        /\ more => /\ h.number /\ h.length = x.length + 1
                   /\ h.error = IF x.length + 1 >= JSON_STRING_SIZE THEN "number" ELSE "none"
        /\ ~more /\ c \in NumberStarts => h.number /\ h.length = 1 /\ h.error = "none"
        /\ ~more /\ c \notin NumberStarts => ~h.number /\ h.error = "none"
    BY <1>0, <1>2, OutsideString
  <2>2. x.length \in Nat
    BY DEF BufferStates
  <2>3. x.number => /\ x.length >= 1 /\ x.length < Longest /\ x.length <= k
                    /\ Run(t, k - x.length + 1, k)
                    /\ \A i \in 1..k : Run(t, i, k) => i >= k - x.length + 1
    BY <1>2 DEF Numbers
  <2>4. ~x.number => \A i \in 1..k : ~Run(t, i, k)
    BY <1>2 DEF Numbers
  <2> HIDE DEF h, c
  <2>5. CASE more
    <3> DEFINE l == x.length
               st == k - l + 1
    <3>0. c = t[k + 1]
      BY DEF c
    <3>1. /\ l \in Nat /\ l >= 1 /\ l < Longest /\ l <= k /\ Run(t, st, k)
          /\ \A i \in 1..k : Run(t, i, k) => i >= st
      BY <2>2, <2>3, <2>5
    <3> HIDE DEF l
    <3>2. Run(t, st, k + 1) /\ st \in 1..k
      BY <2>5, <3>0, <3>1, RunGrows DEF Run
    <3>3. ASSUME NEW i \in 1..k, Run(t, i, k + 1) PROVE i >= st
      <4>1. i # k + 1
        BY SMT
      <4>2. Run(t, i, k)
        BY <3>3, <4>1, RunGrows
      <4> QED
        BY <3>1, <4>2
    <3>4. CASE l + 1 >= JSON_STRING_SIZE
      <4>1. h.error = "number"
        BY <2>1, <2>5, <3>4 DEF l
      <4>2. Longest = l + 1
        <5>1. l + 1 >= Longest
          BY <3>1, <3>4, LongestIs
        <5> QED
          BY <3>1, <5>1, LongestIs
      <4>3. st + Longest - 1 = k + 1 /\ st \in 1..k + 1
        BY <3>1, <3>2, <4>2
      <4>4. Long(t, k + 1)
        <5> HIDE DEF st
        <5> QED
          BY <3>2, <4>3 DEF Long
      <4> QED
        BY <4>1, <4>4 DEF Numbers, h, c
    <3>5. CASE ~(l + 1 >= JSON_STRING_SIZE)
      <4>1. h.error = "none" /\ h.number /\ h.length = l + 1
        BY <2>1, <2>5, <3>5 DEF l
      <4>2. l + 1 < Longest
        BY <3>1, <3>5, LongestIs
      <4>3. ~Long(t, k + 1)
        <5> SUFFICES ASSUME NEW i \in 1..k, i + Longest - 1 = k + 1, Run(t, i, k + 1)
                     PROVE  FALSE
          BY <1>2, LongGrows
        <5>1. i >= st
          BY <3>3
        <5> QED
          BY <3>1, <4>2, <5>1, LongestIs
      <4>4. k + 1 - h.length + 1 = st /\ h.length >= 1 /\ h.length < Longest /\ h.length <= k + 1
        BY <3>1, <4>1, <4>2, LongestIs
      <4>5. \A i \in 1..k + 1 : Run(t, i, k + 1) => i >= st
        BY <3>2, <3>3
      <4> HIDE DEF st
      <4>6. Run(t, k + 1 - h.length + 1, k + 1)
            /\ \A i \in 1..k + 1 : Run(t, i, k + 1) => i >= k + 1 - h.length + 1
        BY <3>2, <4>4, <4>5
      <4>7. Numbers(t, k + 1, h)
        <5>1. ~h.string /\ h.number /\ h.error = "none"
          BY <2>1, <4>1
        <5>2. h.length >= 1 /\ h.length < Longest /\ h.length <= k + 1
          BY <4>4
        <5>3. h.length \in Nat
          BY <3>1, <4>1
        <5> QED
          BY <4>3, <4>6, <5>1, <5>2, <5>3 DEF Numbers
      <4> QED
        BY <4>7 DEF h, c
    <3> QED
      BY <3>4, <3>5
  <2>6. CASE ~more /\ c \in NumberStarts
    <3>0. c = t[k + 1]
      BY DEF c
    <3>1. ~x.number /\ h.number /\ h.length = 1 /\ h.error = "none"
      BY <2>1, <2>6, NumberBytesAre
    <3>2. \A i \in 1..k : ~Run(t, i, k + 1)
      <4> SUFFICES ASSUME NEW i \in 1..k, Run(t, i, k + 1) PROVE FALSE
        OBVIOUS
      <4>1. i # k + 1
        BY SMT
      <4> QED
        BY <2>4, <3>1, <4>1, RunGrows
    <3>3. ~Long(t, k + 1)
      BY <1>2, <3>2, LongGrows
    <3>4. Run(t, k + 1, k + 1)
      BY <2>6, <3>0, RunGrows
    <3>5. /\ k + 1 - h.length + 1 = k + 1 /\ h.length >= 1 /\ h.length < Longest /\ h.length <= k + 1
      BY <3>1, LongestIs
    <3>6. \A i \in 1..k + 1 : Run(t, i, k + 1) => i >= k + 1
      BY <3>2
    <3>7. Run(t, k + 1 - h.length + 1, k + 1)
          /\ \A i \in 1..k + 1 : Run(t, i, k + 1) => i >= k + 1 - h.length + 1
      BY <3>4, <3>5, <3>6
    <3>8. Numbers(t, k + 1, h)
      BY <2>1, <3>1, <3>3, <3>5, <3>7 DEF Numbers
    <3> QED
      BY <3>8 DEF h, c
  <2>7. CASE ~more /\ c \notin NumberStarts
    <3>0. c = t[k + 1]
      BY DEF c
    <3>1. \A i \in 1..k + 1 : ~Run(t, i, k + 1)
      <4> SUFFICES ASSUME NEW i \in 1..k + 1, Run(t, i, k + 1) PROVE FALSE
        OBVIOUS
      <4>1. i # k + 1
        BY <2>7, <3>0, RunGrows
      <4>2. Run(t, i, k) /\ c \in NumberBytes
        BY <3>0, <4>1, RunGrows
      <4>3. i \in 1..k
        BY <4>1
      <4> QED
        BY <2>4, <2>7, <4>2, <4>3
    <3>2. ~Long(t, k + 1)
      <4>1. \A i \in 1..k : ~Run(t, i, k + 1)
        BY <3>1
      <4> QED
        BY <1>2, <4>1, LongGrows
    <3>3. Numbers(t, k + 1, h)
      BY <2>1, <2>7, <3>1, <3>2 DEF Numbers
    <3> QED
      BY <3>3 DEF h, c
  <2> QED
    BY <2>5, <2>6, <2>7
<1> QED
  BY <1>1, <1>2 DEF Numbers

\* A number that is refused is too long.
LEMMA NumberStopped ==
    ASSUME NEW t \in Seq(Bytes), \A i \in 1..Len(t) : t[i] # 0 /\ t[i] # Quote
    PROVE  CheckedInputBuffer(t).error = "number" <=> Long(t, Len(t))
<1>0. Len(t) \in Nat
  OBVIOUS
<1>1. PICK g : Buffers(t, g) /\ CheckedInputBuffer(t) = g[Len(t)]
  BY BufferOf
<1> DEFINE T == {k \in 0..Len(t) : Numbers(t, k, g[k])}
<1>2. 0 \in T
  <2>1. g[0] = BufferStart
    BY <1>1 DEF Buffers
  <2>2. ~Long(t, 0) /\ \A i \in 1..0 : ~Run(t, i, 0)
    BY DEF Long
  <2>3. Numbers(t, 0, BufferStart)
    BY <2>2 DEF Numbers, BufferStart
  <2> QED
    BY <1>0, <2>1, <2>3
<1>3. ASSUME NEW k \in 1..Len(t), k - 1 \in T PROVE k \in T
  <2>1. PICK j \in Nat : j = k - 1 /\ j + 1 = k /\ j + 1 <= Len(t) /\ j \in 0..Len(t)
    BY <1>3
  <2>2. Numbers(t, j, g[j])
    BY <1>3, <2>1
  <2>3. g[j] \in BufferStates /\ g[k] = CheckedByte(g[j], t[k])
    BY <1>1, <2>1 DEF Buffers
  <2>4. t[j + 1] # 0 /\ t[j + 1] # Quote
    BY <2>1
  <2>5. Numbers(t, j + 1, CheckedByte(g[j], t[j + 1]))
    BY <2>1, <2>2, <2>3, <2>4, NumbersStep
  <2>6. Numbers(t, k, g[k])
    BY <2>1, <2>3, <2>5
  <2> QED
    BY <2>6
<1> HIDE DEF T
<1>4. \A k \in 0..Len(t) : k \in T
  BY <1>0, <1>2, <1>3, AllRounds
<1>5. Len(t) \in T
  BY <1>0, <1>4
<1>6. Numbers(t, Len(t), g[Len(t)])
  BY <1>5 DEF T
<1> QED
  BY <1>1, <1>6 DEF Numbers

\* What the guard says of a text.
LEMMA TokensBound ==
    ASSUME text \in Seq(Bytes)
    PROVE  TokensBounded
<1> DEFINE found == CheckedInputBuffer(text)
           items == ItemsOf(text)
           string == CheckedInputBuffer(SubSeq(text, 1, items.at))
           late == \E i \in DOMAIN text :
                      /\ text[i] \in NumberStarts
                      /\ i + Longest - 1 <= Len(text)
                      /\ \A j \in i..i + Longest - 1 : text[j] \in NumberBytes
<1>1. ASSUME IsString
      PROVE  /\ items.at > Len(text) =>
                   /\ found.error = "string" => items.decoded >= JSON_STRING_SIZE
                   /\ found.error = "none" =>
                          found.string /\ Len(text) - 1 <= JSON_STRING_SIZE * 6
             /\ items.at <= Len(text) /\ text[items.at] = Quote =>
                   \/ string = [BufferStart EXCEPT !.read = items.at]
                   \/ string.error = "string" /\ items.decoded >= JSON_STRING_SIZE
  <2>1. text # <<>> /\ text[1] = Quote
    BY <1>1 DEF IsString
  <2> QED
    BY <2>1, StringStopped, Zenon
<1>2. ASSUME Quote \notin ToSet(text), 0 \notin ToSet(text)
      PROVE  (found.error = "number") = late
  <2>0. DOMAIN text = 1..Len(text) /\ Len(text) \in Nat
    OBVIOUS
  <2>1. \A i \in 1..Len(text) : text[i] # 0 /\ text[i] # Quote
    BY <1>2, <2>0, Zenon DEF ToSet
  <2>2. found.error = "number" <=> Long(text, Len(text))
    BY <2>1, NumberStopped
  <2>3. Long(text, Len(text)) <=> late
    <3>1. ASSUME NEW i \in 1..Len(text)
          PROVE  Run(text, i, i + Longest - 1) <=>
                    /\ text[i] \in NumberStarts
                    /\ \A j \in i..i + Longest - 1 : text[j] \in NumberBytes
      <4>1. i \in 1..i + Longest - 1
        BY LongestIs
      <4> QED
        BY <4>1 DEF Run
    <3> QED
      BY <2>0, <3>1, Zenon DEF Long
  <2> HIDE DEF found, late
  <2>4. late \in BOOLEAN
    BY DEF late
  <2> QED
    BY <2>2, <2>3, <2>4
<1> HIDE DEF found, items, string, late
<1> QED
  BY <1>1, <1>2, Zenon DEF TokensBounded, found, items, string, late, Longest

\* The guard in front of nlohmann's lexer refuses a string only when its decoded
\* text is at the limit, lets through six bytes at most for each of the limit, is
\* as at the start behind a string it has passed, and refuses a number exactly
\* when it reaches the limit, for every text.
THEOREM TokensBoundedHolds == TextSpec => []TokensBounded
<1>1. TextTypes => TokensBounded
  BY TokensBound DEF TextTypes
<1> QED
  BY <1>1, TextType, PTL

(***************************************************************************)
(* The scanner of numbers.                                                 *)
(***************************************************************************)

\* From t[a] to before t[b] there are digits, one at least.
SomeDigits(t, a, b) == a < b /\ b <= Len(t) + 1 /\ \A j \in a..b - 1 : t[j] \in Digits

NextDigit(t, at) == IF at <= Len(t) /\ t[at] \in Digits THEN at + 1 ELSE at

IsDigitsEnd(f, t, i) ==
    f = [k \in 0..Len(t) |-> IF k = 0 THEN i ELSE NextDigit(t, f[k - 1])]

Places == Nat

\* The loop over digits as a run.
LEMMA DigitsRun ==
    ASSUME NEW t \in Seq(Bytes), NEW i \in Nat
    PROVE  \E f \in [0..Len(t) -> Places] :
              /\ f[0] = i /\ \A k \in 1..Len(t) : f[k] = NextDigit(t, f[k - 1])
              /\ DigitsEnd(t, i) = f[Len(t)]
<1> DEFINE n == Len(t)
           step == [x \in Places \X (1..n) |-> NextDigit(t, x[1])]
<1>0. n \in Nat /\ i \in Places
  BY DEF Places
<1>1. IsStep(step, Places, n)
  <2> SUFFICES ASSUME NEW x \in Places \X (1..n)
               PROVE  NextDigit(t, x[1]) \in Places
    BY DEF IsStep
  <2> QED
    BY DEF NextDigit, Places
<1>2. PICK f : /\ f \in [0..n -> Places]
               /\ f[0] = i /\ \A k \in 1..n : f[k] = step[<<f[k - 1], k>>]
  <2> HIDE DEF step, n
  <2>1. \E f : Solution(f, Places, n, i, step)
    BY <1>0, <1>1, Recursion, Zenon
  <2> QED
    BY <2>1 DEF Solution
<1>3. \A k \in 1..n : f[k] = NextDigit(t, f[k - 1])
  <2> SUFFICES ASSUME NEW k \in 1..n
               PROVE  f[k] = NextDigit(t, f[k - 1])
    OBVIOUS
  <2>1. f[k - 1] \in Places
    BY <1>2
  <2> QED
    BY <1>2, <2>1
<1>4. IsDigitsEnd(f, t, i)
  BY <1>2, <1>3 DEF IsDigitsEnd
<1>5. DigitsEnd(t, i) = (CHOOSE g : IsDigitsEnd(g, t, i))[Len(t)]
  BY Zenon DEF DigitsEnd, IsDigitsEnd, NextDigit
<1>6. ASSUME NEW g, IsDigitsEnd(g, t, i) PROVE g[n] = f[n]
  <2>1. f = [k \in 0..n |-> IF k = 0 THEN i ELSE NextDigit(t, f[k - 1])]
    BY <1>4 DEF IsDigitsEnd
  <2>2. g = [k \in 0..n |-> IF k = 0 THEN i ELSE NextDigit(t, g[k - 1])]
    BY <1>6 DEF IsDigitsEnd
  <2>3. f[0] = i /\ g[0] = i
    BY <1>0, <2>1, <2>2
  <2>4. ASSUME NEW k \in 1..n, f[k - 1] = g[k - 1] PROVE f[k] = g[k]
    <3>1. f[k] = NextDigit(t, f[k - 1])
      BY <1>3
    <3>2. g[k] = NextDigit(t, g[k - 1])
      BY <2>2
    <3> QED
      BY <2>4, <3>1, <3>2
  <2>5. Lockstep(f, g, n)
    BY <2>3, <2>4 DEF Lockstep
  <2> HIDE DEF n
  <2>6. Agree(f, g, n)
    BY <1>0, <2>5, SameSteps, Zenon
  <2> QED
    BY <1>0, <2>6 DEF Agree
<1>7. (CHOOSE g : IsDigitsEnd(g, t, i))[n] = f[n]
  BY <1>4, <1>6, Zenon
<1> QED
  BY <1>2, <1>3, <1>5, <1>7

\* After k rounds there is no digit, or there have been k.
Counting(t, i, k, at) ==
    /\ at \in Nat /\ at >= i /\ at <= Len(t) + 1 /\ \A j \in i..at - 1 : t[j] \in Digits
    /\ ~IsAt(t, at, Digits) \/ at = i + k

\* A round over digits is one digit further, or at their end.
LEMMA CountingStep ==
    ASSUME NEW t \in Seq(Bytes), NEW i \in 1..Len(t), NEW k \in Nat, NEW at, Counting(t, i, k, at)
    PROVE  Counting(t, i, k + 1, NextDigit(t, at))
<1>1. CASE IsAt(t, at, Digits)
  <2>1. at <= Len(t) /\ t[at] \in Digits /\ at = i + k /\ at \in Nat
    BY <1>1 DEF Counting, IsAt
  <2>2. NextDigit(t, at) = at + 1
    BY <2>1 DEF NextDigit
  <2>3. \A j \in i..at + 1 - 1 : j = at \/ j \in i..at - 1
    BY <2>1
  <2>4. \A j \in i..at + 1 - 1 : t[j] \in Digits
    BY <2>1, <2>3 DEF Counting
  <2>5. at + 1 \in Nat /\ at + 1 >= i /\ at + 1 <= Len(t) + 1 /\ at + 1 = i + (k + 1)
    BY <2>1
  <2> QED
    BY <2>2, <2>4, <2>5 DEF Counting
<1>2. CASE ~IsAt(t, at, Digits)
  <2>1. NextDigit(t, at) = at
    BY <1>2 DEF NextDigit, IsAt
  <2> QED
    BY <1>2, <2>1 DEF Counting
<1> QED
  BY <1>1, <1>2

\* The loop ends behind the last of the digits.
LEMMA DigitsEndIs ==
    ASSUME NEW t \in Seq(Bytes), NEW i \in 1..Len(t), t[i] \in Digits
    PROVE  /\ DigitsEnd(t, i) \in Nat /\ SomeDigits(t, i, DigitsEnd(t, i))
           /\ ~IsAt(t, DigitsEnd(t, i), Digits)
<1> DEFINE n == Len(t)
           e == DigitsEnd(t, i)
<1>0. n \in Nat /\ i \in Nat /\ i >= 1 /\ i <= n
  OBVIOUS
<1>1. PICK f \in [0..Len(t) -> Places] :
             /\ f[0] = i /\ \A k \in 1..Len(t) : f[k] = NextDigit(t, f[k - 1])
             /\ e = f[Len(t)]
  BY DigitsRun
<1> DEFINE T == {k \in 0..n : Counting(t, i, k, f[k])}
<1>2. 0 \in T
  <2>1. i + 0 = i /\ 0 \in 0..n /\ i <= Len(t) + 1 /\ \A j \in i..i - 1 : FALSE
    BY <1>0
  <2> QED
    BY <1>0, <1>1, <2>1 DEF Counting
<1>3. ASSUME NEW k \in 1..n, k - 1 \in T PROVE k \in T
  <2>1. PICK j \in Nat : j = k - 1 /\ j + 1 = k
    OBVIOUS
  <2>2. Counting(t, i, j, f[j])
    BY <1>3, <2>1
  <2>3. Counting(t, i, j + 1, NextDigit(t, f[j]))
    BY <2>2, CountingStep
  <2>4. Counting(t, i, k, f[k])
    BY <1>1, <2>1, <2>3
  <2>5. k \in 0..n
    OBVIOUS
  <2> QED
    BY <2>4, <2>5
<1> HIDE DEF T
<1>4. \A k \in 0..n : k \in T
  BY <1>0, <1>2, <1>3, AllRounds
<1>5. Counting(t, i, n, e)
  <2>1. n \in T
    BY <1>0, <1>4
  <2> QED
    BY <1>1, <2>1 DEF T
<1> HIDE DEF e
<1>6. e \in Nat /\ e >= i /\ e <= Len(t) + 1 /\ (\A j \in i..e - 1 : t[j] \in Digits)
  BY <1>5 DEF Counting
<1>7. ~IsAt(t, e, Digits)
  <2>1. CASE e = i + n
    BY <1>0, <2>1 DEF IsAt
  <2> QED
    BY <1>5, <2>1 DEF Counting
<1>8. e # i
  BY <1>0, <1>7 DEF IsAt
<1> QED
  BY <1>0, <1>6, <1>7, <1>8 DEF SomeDigits, e

\* Digits end at one place.
LEMMA OneDigitsEnd ==
    ASSUME NEW t \in Seq(Bytes), NEW a \in Nat, NEW b \in Nat, NEW e \in Nat,
           SomeDigits(t, a, b), ~IsAt(t, b, Digits), SomeDigits(t, a, e), ~IsAt(t, e, Digits)
    PROVE  b = e
<1>1. ASSUME NEW x \in Nat, NEW y \in Nat, SomeDigits(t, a, x), ~IsAt(t, x, Digits),
             SomeDigits(t, a, y)
      PROVE  ~(x < y)
  <2> SUFFICES ASSUME x < y PROVE FALSE
    OBVIOUS
  <2>1. x \in a..y - 1 /\ x <= Len(t)
    BY <1>1 DEF SomeDigits
  <2>2. t[x] \in Digits
    BY <1>1, <2>1 DEF SomeDigits
  <2> QED
    BY <1>1, <2>1, <2>2 DEF IsAt
<1>2. ~(b < e) /\ ~(e < b)
  BY <1>1
<1> QED
  BY <1>2

\* Required digits end where the digits do, or are refused.
LEMMA RequiredDigitsIs ==
    ASSUME NEW t \in Seq(Bytes), NEW i \in Nat \ {0}
    PROVE  /\ RequiredDigits(t, i) \in Nat
           /\ RequiredDigits(t, i) # 0 => SomeDigits(t, i, RequiredDigits(t, i))
           /\ \A b \in Nat : SomeDigits(t, i, b) /\ ~IsAt(t, b, Digits) => RequiredDigits(t, i) = b
<1>1. CASE IsAt(t, i, Digits)
  <2>1. i \in 1..Len(t) /\ t[i] \in Digits
    BY <1>1 DEF IsAt
  <2>2. RequiredDigits(t, i) = DigitsEnd(t, i)
    BY <1>1 DEF RequiredDigits
  <2>3. /\ DigitsEnd(t, i) \in Nat /\ SomeDigits(t, i, DigitsEnd(t, i))
        /\ ~IsAt(t, DigitsEnd(t, i), Digits)
    BY <2>1, DigitsEndIs
  <2> QED
    BY <2>2, <2>3, OneDigitsEnd
<1>2. CASE ~IsAt(t, i, Digits)
  <2>1. RequiredDigits(t, i) = 0
    BY <1>2 DEF RequiredDigits
  <2>2. ASSUME NEW b \in Nat, SomeDigits(t, i, b) PROVE FALSE
    <3>1. i \in i..b - 1 /\ i <= Len(t)
      BY <2>2 DEF SomeDigits
    <3> QED
      BY <1>2, <2>2, <3>1 DEF SomeDigits, IsAt
  <2> QED
    BY <2>1, <2>2
<1> QED
  BY <1>1, <1>2

(***************************************************************************)
(* The parts of a number, from one place to another.                       *)
(***************************************************************************)

IntegerPart(t, a, b) == SomeDigits(t, a, b) /\ (b # a + 1 => t[a] # 48)
FractionPart(t, a, b) == b = a \/ (t[a] = Point /\ SomeDigits(t, a + 1, b))
ExponentPart(t, a, b) ==
    \/ b = a
    \/ t[a] \in Exponents /\ (\/ SomeDigits(t, a + 1, b)
                              \/ t[a + 1] \in Signs /\ SomeDigits(t, a + 2, b))

\* The end of the integer part.
LEMMA IntegerEndIs ==
    ASSUME NEW t \in Seq(Bytes), NEW i \in Nat \ {0}
    PROVE  /\ IntegerEnd(t, i) \in Nat
           /\ IntegerEnd(t, i) # 0 => IntegerPart(t, i, IntegerEnd(t, i))
           /\ \A b \in Nat : IntegerPart(t, i, b) /\ ~IsAt(t, b, Digits) => IntegerEnd(t, i) = b
<1>1. IntegerEnd(t, i) = IF IsAt(t, i, {48}) THEN i + 1
                         ELSE IF IsAt(t, i, Digits \ {48}) THEN DigitsEnd(t, i) ELSE 0
  <2>1. /\ IsAt(t, i, {48}) => ~IsAt(t, i, Digits \ {48}) /\ IsAt(t, i, Digits)
        /\ IsAt(t, i, Digits \ {48}) => IsAt(t, i, Digits)
        /\ IsAt(t, i, Digits) => IsAt(t, i, {48}) \/ IsAt(t, i, Digits \ {48})
    BY DEF IsAt, Digits
  <2> QED
    BY <2>1, Zenon DEF IntegerEnd
<1>2. CASE IsAt(t, i, {48})
  <2>1. i <= Len(t) /\ t[i] = 48 /\ 48 \in Digits
    BY <1>2 DEF IsAt, Digits
  <2>2. IntegerEnd(t, i) = i + 1
    BY <1>1, <1>2
  <2>3. IntegerPart(t, i, i + 1)
    <3>1. \A j \in i..i + 1 - 1 : j = i
      OBVIOUS
    <3> QED
      BY <2>1, <3>1 DEF IntegerPart, SomeDigits
  <2>4. \A b \in Nat : IntegerPart(t, i, b) => b = i + 1
    BY <2>1 DEF IntegerPart
  <2> QED
    BY <2>2, <2>3, <2>4
<1>3. CASE IsAt(t, i, Digits \ {48})
  <2>1. i \in 1..Len(t) /\ t[i] \in Digits /\ t[i] # 48
    BY <1>3 DEF IsAt
  <2>2. IntegerEnd(t, i) = DigitsEnd(t, i)
    BY <1>1, <1>3, <2>1 DEF IsAt
  <2>3. /\ DigitsEnd(t, i) \in Nat /\ SomeDigits(t, i, DigitsEnd(t, i))
        /\ ~IsAt(t, DigitsEnd(t, i), Digits)
    BY <2>1, DigitsEndIs
  <2>4. IntegerPart(t, i, DigitsEnd(t, i))
    BY <2>1, <2>3 DEF IntegerPart
  <2>5. \A b \in Nat : IntegerPart(t, i, b) /\ ~IsAt(t, b, Digits) => DigitsEnd(t, i) = b
    BY <2>3, OneDigitsEnd DEF IntegerPart
  <2> QED
    BY <2>2, <2>3, <2>4, <2>5
<1>4. CASE ~IsAt(t, i, {48}) /\ ~IsAt(t, i, Digits \ {48})
  <2>1. IntegerEnd(t, i) = 0
    BY <1>1, <1>4
  <2>2. ASSUME NEW b \in Nat, IntegerPart(t, i, b) PROVE FALSE
    <3>1. i \in i..b - 1 /\ i <= Len(t)
      BY <2>2 DEF IntegerPart, SomeDigits
    <3>2. t[i] \in Digits
      BY <2>2, <3>1 DEF IntegerPart, SomeDigits
    <3> QED
      BY <1>4, <3>1, <3>2 DEF IsAt
  <2> QED
    BY <2>1, <2>2
<1> QED
  BY <1>2, <1>3, <1>4

\* The end of the fraction.
LEMMA FractionEndIs ==
    ASSUME NEW t \in Seq(Bytes), NEW i \in Nat \ {0}
    PROVE  /\ FractionEnd(t, i) \in Nat
           /\ FractionEnd(t, i) # 0 => FractionPart(t, i, FractionEnd(t, i))
           /\ \A b \in Nat : FractionPart(t, i, b) /\ ~IsAt(t, b, Digits) /\ ~IsAt(t, b, {Point})
                                => FractionEnd(t, i) = b
<1>1. CASE IsAt(t, i, {Point})
  <2>1. FractionEnd(t, i) = RequiredDigits(t, i + 1) /\ t[i] = Point
    BY <1>1 DEF FractionEnd, IsAt
  <2>2. /\ RequiredDigits(t, i + 1) \in Nat
        /\ RequiredDigits(t, i + 1) # 0 => SomeDigits(t, i + 1, RequiredDigits(t, i + 1))
        /\ \A b \in Nat : SomeDigits(t, i + 1, b) /\ ~IsAt(t, b, Digits) => RequiredDigits(t, i + 1) = b
    BY RequiredDigitsIs
  <2>3. \A b \in Nat : FractionPart(t, i, b) /\ ~IsAt(t, b, Digits) /\ ~IsAt(t, b, {Point})
                          => RequiredDigits(t, i + 1) = b
    BY <1>1, <2>2 DEF FractionPart
  <2> QED
    BY <2>1, <2>2, <2>3 DEF FractionPart
<1>2. CASE ~IsAt(t, i, {Point})
  <2>1. FractionEnd(t, i) = i
    BY <1>2 DEF FractionEnd
  <2>2. ASSUME NEW b \in Nat, FractionPart(t, i, b) PROVE b = i
    <3> SUFFICES ASSUME t[i] = Point, SomeDigits(t, i + 1, b) PROVE FALSE
      BY <2>2 DEF FractionPart
    <3>1. i <= Len(t)
      BY DEF SomeDigits
    <3> QED
      BY <1>2, <3>1 DEF IsAt
  <2> QED
    BY <2>1, <2>2 DEF FractionPart
<1> QED
  BY <1>1, <1>2

\* The end of the exponent.
LEMMA ExponentEndIs ==
    ASSUME NEW t \in Seq(Bytes), NEW i \in Nat \ {0}
    PROVE  /\ ExponentEnd(t, i) \in Nat
           /\ ExponentEnd(t, i) # 0 => ExponentPart(t, i, ExponentEnd(t, i))
           /\ \A b \in Nat : ExponentPart(t, i, b) /\ ~IsAt(t, b, Digits) /\ ~IsAt(t, b, Exponents)
                                => ExponentEnd(t, i) = b
<1>1. CASE IsAt(t, i, Exponents)
  <2> DEFINE p == IF IsAt(t, i + 1, Signs) THEN i + 2 ELSE i + 1
  <2>1. ExponentEnd(t, i) = RequiredDigits(t, p) /\ t[i] \in Exponents
    BY <1>1 DEF ExponentEnd, IsAt
  <2>2. /\ RequiredDigits(t, p) \in Nat
        /\ RequiredDigits(t, p) # 0 => SomeDigits(t, p, RequiredDigits(t, p))
        /\ \A b \in Nat : SomeDigits(t, p, b) /\ ~IsAt(t, b, Digits) => RequiredDigits(t, p) = b
    <3>1. p \in Nat \ {0}
      OBVIOUS
    <3> HIDE DEF p
    <3> QED
      BY <3>1, RequiredDigitsIs
  <2>3. ASSUME NEW b \in Nat, ExponentPart(t, i, b), b # i PROVE SomeDigits(t, p, b)
    <3>1. CASE SomeDigits(t, i + 1, b)
      <4>1. i + 1 \in i + 1..b - 1
        BY <3>1 DEF SomeDigits
      <4>2. t[i + 1] \in Digits
        BY <3>1, <4>1 DEF SomeDigits
      <4>3. ~IsAt(t, i + 1, Signs)
        BY <4>2 DEF IsAt, Digits, Signs
      <4> QED
        BY <3>1, <4>3
    <3>2. CASE t[i + 1] \in Signs /\ SomeDigits(t, i + 2, b)
      <4>1. i + 1 <= Len(t)
        BY <3>2 DEF SomeDigits
      <4>2. IsAt(t, i + 1, Signs)
        BY <3>2, <4>1 DEF IsAt
      <4> QED
        BY <3>2, <4>2
    <3> QED
      BY <2>3, <3>1, <3>2 DEF ExponentPart
  <2>4. \A b \in Nat : ExponentPart(t, i, b) /\ ~IsAt(t, b, Digits) /\ ~IsAt(t, b, Exponents)
                          => RequiredDigits(t, p) = b
    BY <1>1, <2>2, <2>3
  <2>5. ASSUME NEW b \in Nat, SomeDigits(t, p, b) PROVE ExponentPart(t, i, b)
    BY <2>1, <2>5 DEF ExponentPart, IsAt
  <2> HIDE DEF p
  <2> QED
    BY <2>1, <2>2, <2>4, <2>5
<1>2. CASE ~IsAt(t, i, Exponents)
  <2>1. ExponentEnd(t, i) = i
    BY <1>2 DEF ExponentEnd
  <2>2. ASSUME NEW b \in Nat, ExponentPart(t, i, b) PROVE b = i
    <3> SUFFICES ASSUME t[i] \in Exponents, SomeDigits(t, i + 1, b) \/ SomeDigits(t, i + 2, b)
                 PROVE FALSE
      BY <2>2 DEF ExponentPart
    <3>1. i <= Len(t)
      BY DEF SomeDigits
    <3> QED
      BY <1>2, <3>1 DEF IsAt
  <2> QED
    BY <2>1, <2>2 DEF ExponentPart
<1> QED
  BY <1>1, <1>2

NumberParts(t, i, j, k, e) ==
    /\ i \in 1..2 /\ (i = 2 => t[1] = Minus)
    /\ IntegerPart(t, i, j) /\ FractionPart(t, j, k) /\ ExponentPart(t, k, e)

First(t) == IF IsAt(t, 1, {Minus}) THEN 2 ELSE 1

Terminal(t, e) == e > Len(t) \/ t[e] \in Separators

\* The classes of bytes a number is made of are disjoint.
LEMMA NumberLetters ==
    /\ \A c : c \in Digits => c \notin Exponents /\ c \notin Signs /\ c \notin Separators
                              /\ c # Point /\ c # Minus
    /\ \A c : c \in Exponents => c \notin Digits /\ c \notin Separators /\ c # Point /\ c # Minus
    /\ \A c : c \in Signs => c \notin Separators
    /\ Point \notin Digits /\ Point \notin Separators /\ Point # Minus
    /\ Minus \notin Separators /\ Minus \notin Digits
BY DEF Digits, Exponents, Signs, Separators, Point, Minus

\* Digits from a to b.
LEMMA SomeDigitsBounds ==
    ASSUME NEW t \in Seq(Bytes), NEW a \in Nat, NEW b \in Nat, SomeDigits(t, a, b)
    PROVE  a < b /\ a <= Len(t) /\ b <= Len(t) + 1 /\ t[a] \in Digits
           /\ \A j \in a..b - 1 : t[j] \in Digits
<1>1. a \in a..b - 1
  BY DEF SomeDigits
<1> QED
  BY <1>1 DEF SomeDigits

\* The places of a number in a text, in order.
LEMMA PartsBounds ==
    ASSUME NEW t \in Seq(Bytes), NEW i \in Nat, NEW j \in Nat, NEW k \in Nat, NEW e \in Nat,
           NumberParts(t, i, j, k, e)
    PROVE  /\ i \in 1..2 /\ i < j /\ j <= k /\ k <= e /\ e <= Len(t) + 1
           /\ j # k => t[j] = Point /\ j <= Len(t)
           /\ k # e => t[k] \in Exponents /\ k <= Len(t)
<1>1. i \in 1..2 /\ i < j /\ j <= Len(t) + 1
  BY DEF NumberParts, IntegerPart, SomeDigits
<1>2. j # k => t[j] = Point /\ j + 1 < k /\ k <= Len(t) + 1
  BY DEF NumberParts, FractionPart, SomeDigits
<1>3. k # e => t[k] \in Exponents /\ k + 1 < e /\ e <= Len(t) + 1
  BY DEF NumberParts, ExponentPart, SomeDigits
<1> QED
  BY <1>1, <1>2, <1>3

\* What the scanner finds is a number; a number that ends the text, or stands
\* before a separator, is found.
LEMMA ScanIs ==
    ASSUME NEW t \in Seq(Bytes)
    PROVE  LET i == First(t)
               j == IntegerEnd(t, i)
               k == FractionEnd(t, j)
               e == ExponentEnd(t, k)
           IN  /\ i \in Nat /\ j \in Nat /\ k \in Nat /\ e \in Nat
               /\ e # 0 => NumberParts(t, i, j, k, e)
               /\ \A i2, j2, k2, e2 \in Nat :
                     NumberParts(t, i2, j2, k2, e2) /\ Terminal(t, e2)
                        => i = i2 /\ j = j2 /\ k = k2 /\ e = e2
<1> DEFINE i == First(t)
           j == IntegerEnd(t, i)
           k == FractionEnd(t, j)
           e == ExponentEnd(t, k)
<1>1. i \in 1..2 /\ i \in Nat \ {0} /\ (i = 2 => t[1] = Minus)
  BY DEF First, IsAt
<1> HIDE DEF i
<1>2. /\ j \in Nat /\ (j # 0 => IntegerPart(t, i, j))
      /\ \A b \in Nat : IntegerPart(t, i, b) /\ ~IsAt(t, b, Digits) => j = b
  BY <1>1, IntegerEndIs
<1> HIDE DEF j
<1>4. /\ k \in Nat /\ (j # 0 /\ k # 0 => FractionPart(t, j, k))
      /\ j = 0 => k = 0
      /\ j # 0 => \A b \in Nat : FractionPart(t, j, b) /\ ~IsAt(t, b, Digits) /\ ~IsAt(t, b, {Point})
                                => k = b
  <2>1. CASE j = 0
    BY <2>1 DEF FractionEnd
  <2>2. CASE j # 0
    BY <1>2, <2>2, FractionEndIs
  <2> QED
    BY <2>1, <2>2
<1> HIDE DEF k
<1>5. /\ e \in Nat /\ (k # 0 /\ e # 0 => ExponentPart(t, k, e))
      /\ k = 0 => e = 0
      /\ k # 0 => \A b \in Nat : ExponentPart(t, k, b) /\ ~IsAt(t, b, Digits) /\ ~IsAt(t, b, Exponents)
                                => e = b
  <2>1. CASE k = 0
    BY <2>1 DEF ExponentEnd
  <2>2. CASE k # 0
    BY <1>4, <2>2, ExponentEndIs
  <2> QED
    BY <2>1, <2>2
<1> HIDE DEF e
<1>6. e # 0 => NumberParts(t, i, j, k, e)
  BY <1>1, <1>2, <1>4, <1>5 DEF NumberParts
<1>7. ASSUME NEW i2 \in Nat, NEW j2 \in Nat, NEW k2 \in Nat, NEW e2 \in Nat,
             NumberParts(t, i2, j2, k2, e2), Terminal(t, e2)
      PROVE  i = i2 /\ j = j2 /\ k = k2 /\ e = e2
  <2>1. /\ i2 \in 1..2 /\ (i2 = 2 => t[1] = Minus)
        /\ IntegerPart(t, i2, j2) /\ FractionPart(t, j2, k2) /\ ExponentPart(t, k2, e2)
    BY <1>7 DEF NumberParts
  <2>2. /\ i2 < j2 /\ j2 <= k2 /\ k2 <= e2 /\ e2 <= Len(t) + 1
        /\ j2 # k2 => t[j2] = Point /\ j2 <= Len(t)
        /\ k2 # e2 => t[k2] \in Exponents /\ k2 <= Len(t)
    BY <1>7, PartsBounds
  <2>3. i = i2
    <3>1. SomeDigits(t, i2, j2)
      BY <2>1 DEF IntegerPart
    <3>2. i2 <= Len(t) /\ t[i2] \in Digits
      BY <2>1, <3>1, SomeDigitsBounds
    <3>3. CASE i2 = 1
      <4>1. t[1] # Minus
        BY <3>2, <3>3, NumberLetters
      <4> QED
        BY <3>3, <4>1 DEF i, First, IsAt
    <3>4. CASE i2 = 2
      BY <2>1, <3>2, <3>4 DEF i, First, IsAt
    <3> QED
      BY <2>1, <3>3, <3>4
  <2>4. ~IsAt(t, e2, Digits) /\ ~IsAt(t, e2, {Point}) /\ ~IsAt(t, e2, Exponents)
    <3>1. e2 > Len(t) \/ t[e2] \in Separators
      BY <1>7 DEF Terminal
    <3>2. e2 <= Len(t) => t[e2] \notin Digits /\ t[e2] # Point /\ t[e2] \notin Exponents
      BY <3>1, NumberLetters
    <3> QED
      BY <3>2 DEF IsAt
  <2>5. ~IsAt(t, k2, Digits) /\ ~IsAt(t, k2, {Point})
    <3>1. CASE k2 = e2
      BY <2>4, <3>1
    <3>2. CASE k2 # e2
      <4>1. t[k2] \notin Digits /\ t[k2] # Point
        BY <2>2, <3>2, NumberLetters
      <4> QED
        BY <4>1 DEF IsAt
    <3> QED
      BY <3>1, <3>2
  <2>6. ~IsAt(t, j2, Digits)
    <3>1. CASE j2 = k2
      BY <2>5, <3>1
    <3>2. CASE j2 # k2
      <4>1. t[j2] \notin Digits
        BY <2>2, <3>2, NumberLetters
      <4> QED
        BY <4>1 DEF IsAt
    <3> QED
      BY <3>1, <3>2
  <2>7. j = j2
    BY <1>2, <2>1, <2>3, <2>6
  <2>8. j # 0
    BY <2>2, <2>7
  <2>9. k = k2
    BY <1>4, <2>1, <2>5, <2>7, <2>8
  <2>10. k # 0
    BY <2>2, <2>9
  <2> QED
    BY <1>5, <2>1, <2>3, <2>4, <2>7, <2>9, <2>10
<1> QED
  BY <1>1, <1>2, <1>4, <1>5, <1>6, <1>7 DEF i, j, k, e

\* A number stands from the start of t to before t[e].
NumberTo(t, e) == \E i, j, k \in Nat : NumberParts(t, i, j, k, e)

\* A part of a text, byte by byte.
LEMMA PieceOf ==
    ASSUME NEW s \in Seq(Bytes), NEW a \in Nat \ {0}, NEW b \in Nat, b <= Len(s), a <= b + 1
    PROVE  LET x == SubSeq(s, a, b) IN
           /\ x \in Seq(Bytes) /\ Len(x) = b + 1 - a
           /\ \A j \in 1..b + 1 - a : x[j] = s[a + j - 1]
           /\ a <= b => x[1] = s[a] /\ Tail(x) = SubSeq(s, a + 1, b)
           /\ a + 1 <= b => x[2] = s[a + 1]
<1> DEFINE x == SubSeq(s, a, b)
<1>1. \A j \in a..b : s[j] \in Bytes
  BY SMT
<1>2. x \in Seq(Bytes) /\ Len(x) = b + 1 - a /\ \A j \in 1..b + 1 - a : x[j] = s[a + j - 1]
  BY <1>1
<1>3. ASSUME a <= b PROVE x[1] = s[a] /\ Tail(x) = SubSeq(s, a + 1, b)
  <2>1. x[1] = s[a]
    <3>1. 1 \in 1..b + 1 - a /\ a + 1 - 1 = a
      BY <1>3
    <3> QED
      BY <1>2, <3>1
  <2>2. Tail(x) = SubSeq(s, a + 1, b)
    BY <1>3
  <2> QED
    BY <2>1, <2>2
<1>4. ASSUME a + 1 <= b PROVE x[2] = s[a + 1]
  <2>1. 2 \in 1..b + 1 - a /\ a + 2 - 1 = a + 1
    BY <1>4
  <2> QED
    BY <1>2, <2>1
<1> QED
  BY <1>2, <1>3, <1>4

\* A part of a text is digits if its places are.
LEMMA AreDigitsIs ==
    ASSUME NEW s \in Seq(Bytes), NEW a \in Nat \ {0}, NEW b \in Nat, b <= Len(s), a <= b + 1
    PROVE  AreDigits(SubSeq(s, a, b)) <=> SomeDigits(s, a, b + 1)
<1> DEFINE x == SubSeq(s, a, b)
<1>1. /\ x \in Seq(Bytes) /\ Len(x) = b + 1 - a
      /\ \A j \in 1..b + 1 - a : x[j] = s[a + j - 1]
  BY PieceOf
<1> HIDE DEF x
<1>2. ASSUME AreDigits(x) PROVE SomeDigits(s, a, b + 1)
  <2>1. a < b + 1
    BY <1>1, <1>2 DEF AreDigits
  <2>2. ASSUME NEW j \in a..b + 1 - 1 PROVE s[j] \in Digits
    <3>1. PICK p \in 1..b + 1 - a : p = j - a + 1 /\ a + p - 1 = j
      OBVIOUS
    <3>2. x[p] \in Digits
      BY <1>1, <1>2 DEF AreDigits
    <3> QED
      BY <1>1, <3>1, <3>2
  <2> QED
    BY <2>1, <2>2 DEF SomeDigits
<1>3. ASSUME SomeDigits(s, a, b + 1) PROVE AreDigits(x)
  <2>1. a < b + 1
    BY <1>3 DEF SomeDigits
  <2>2. ASSUME NEW p \in 1..Len(x) PROVE x[p] \in Digits
    <3>1. PICK j \in a..b + 1 - 1 : j = a + p - 1
      BY <1>1
    <3>2. s[j] \in Digits
      BY <1>3 DEF SomeDigits
    <3> QED
      BY <1>1, <3>1, <3>2
  <2> QED
    BY <1>1, <2>1, <2>2 DEF AreDigits
<1> QED
  BY <1>2, <1>3 DEF x

\* The parts of a number lie one behind the other.
LEMMA PartsAre ==
    ASSUME NEW s \in Seq(Bytes), NEW a \in Nat \ {0}, NEW b \in Nat, b <= Len(s), a <= b + 1
    PROVE  /\ IsInteger(SubSeq(s, a, b)) <=> IntegerPart(s, a, b + 1)
           /\ IsFraction(SubSeq(s, a, b)) <=> FractionPart(s, a, b + 1)
           /\ IsExponent(SubSeq(s, a, b)) <=> ExponentPart(s, a, b + 1)
<1> DEFINE x == SubSeq(s, a, b)
           y == SubSeq(s, a + 1, b)
           z == SubSeq(s, a + 2, b)
<1>1. /\ x \in Seq(Bytes) /\ Len(x) = b + 1 - a
      /\ a <= b => x[1] = s[a] /\ Tail(x) = y
      /\ a + 1 <= b => x[2] = s[a + 1]
  BY PieceOf
<1>2. AreDigits(x) <=> SomeDigits(s, a, b + 1)
  BY AreDigitsIs
<1>3. a <= b => (AreDigits(y) <=> SomeDigits(s, a + 1, b + 1))
  BY AreDigitsIs
<1>4. a + 1 <= b => Tail(y) = z /\ (AreDigits(z) <=> SomeDigits(s, a + 2, b + 1))
  <2> SUFFICES ASSUME a + 1 <= b PROVE Tail(y) = z /\ (AreDigits(z) <=> SomeDigits(s, a + 2, b + 1))
    OBVIOUS
  <2>1. a + 1 + 1 = a + 2
    OBVIOUS
  <2>2. Tail(y) = SubSeq(s, a + 1 + 1, b)
    BY PieceOf
  <2>3. AreDigits(SubSeq(s, a + 1 + 1, b)) <=> SomeDigits(s, a + 1 + 1, b + 1)
    BY AreDigitsIs
  <2> QED
    BY <2>1, <2>2, <2>3
<1> HIDE DEF x, y, z
<1>5. x = <<>> <=> b + 1 = a
  BY <1>1
<1>6. IsInteger(x) <=> IntegerPart(s, a, b + 1)
  <2>1. Len(x) > 1 <=> b + 1 > a + 1
    BY <1>1
  <2>2. SomeDigits(s, a, b + 1) => (x[1] = s[a] /\ (b + 1 # a + 1 <=> b + 1 > a + 1))
    BY <1>1 DEF SomeDigits
  <2> QED
    BY <1>2, <2>1, <2>2 DEF IsInteger, IntegerPart
<1>7. IsFraction(x) <=> FractionPart(s, a, b + 1)
  <2>1. CASE b + 1 = a
    BY <1>5, <2>1 DEF IsFraction, FractionPart
  <2>2. CASE b + 1 # a
    <3>1. x # <<>> /\ x[1] = s[a] /\ Tail(x) = y /\ (AreDigits(y) <=> SomeDigits(s, a + 1, b + 1))
      BY <1>1, <1>3, <1>5, <2>2
    <3> QED
      BY <2>2, <3>1, Zenon DEF IsFraction, FractionPart
  <2> QED
    BY <2>1, <2>2
<1>8. IsExponent(x) <=> ExponentPart(s, a, b + 1)
  <2>1. CASE b + 1 = a
    BY <1>5, <2>1 DEF IsExponent, ExponentPart
  <2>2. CASE b + 1 # a
    <3>1. x # <<>> /\ x[1] = s[a] /\ Tail(x) = y /\ (AreDigits(y) <=> SomeDigits(s, a + 1, b + 1))
      BY <1>1, <1>3, <1>5, <2>2
    <3>2. Len(x) > 1 /\ x[2] \in Signs /\ AreDigits(Tail(y))
             <=> s[a + 1] \in Signs /\ SomeDigits(s, a + 2, b + 1)
      <4>1. CASE a + 1 <= b
        <5>1. Len(x) > 1 /\ x[2] = s[a + 1]
          BY <1>1, <4>1
        <5> QED
          BY <1>4, <4>1, <5>1
      <4>2. CASE ~(a + 1 <= b)
        <5>1. ~(Len(x) > 1) /\ ~SomeDigits(s, a + 2, b + 1)
          BY <1>1, <4>2 DEF SomeDigits
        <5> QED
          BY <5>1
      <4> QED
        BY <4>1, <4>2
    <3> QED
      BY <2>2, <3>1, <3>2, Zenon DEF IsExponent, ExponentPart
  <2> QED
    BY <2>1, <2>2
<1> QED
  BY <1>6, <1>7, <1>8 DEF x

\* A text is a number when its parts go to its end.
LEMMA IsNumberIs ==
    ASSUME NEW s \in Seq(Bytes)
    PROVE  IsNumber(s) <=> NumberTo(s, Len(s) + 1)
<1> DEFINE n == Len(s)
<1>0. n \in Nat /\ SubSeq(s, 1, n) = s
  OBVIOUS
<1>1. ASSUME NEW i \in 0..1, NEW j \in 0..n, NEW k \in 0..n, i <= j, j <= k
      PROVE  (/\ i = 1 => s[1] = Minus
              /\ IsInteger(SubSeq(s, i + 1, j))
              /\ IsFraction(SubSeq(s, j + 1, k))
              /\ IsExponent(SubSeq(s, k + 1, n)))
             <=> NumberParts(s, i + 1, j + 1, k + 1, n + 1)
  <2>1. IsInteger(SubSeq(s, i + 1, j)) <=> IntegerPart(s, i + 1, j + 1)
    BY <1>1, PartsAre
  <2>2. IsFraction(SubSeq(s, j + 1, k)) <=> FractionPart(s, j + 1, k + 1)
    BY <1>1, PartsAre
  <2>3. IsExponent(SubSeq(s, k + 1, n)) <=> ExponentPart(s, k + 1, n + 1)
    BY <1>0, <1>1, PartsAre
  <2>4. i + 1 \in 1..2 /\ (i + 1 = 2 <=> i = 1)
    OBVIOUS
  <2> QED
    BY <2>1, <2>2, <2>3, <2>4 DEF NumberParts
<1>2. ASSUME IsNumber(s) PROVE NumberTo(s, n + 1)
  <2>1. PICK i \in 0..1, j \in 0..n, k \in 0..n :
              /\ i <= j /\ j <= k
              /\ i = 1 => s[1] = Minus
              /\ IsInteger(SubSeq(s, i + 1, j))
              /\ IsFraction(SubSeq(s, j + 1, k))
              /\ IsExponent(SubSeq(s, k + 1, n))
    BY <1>2, Zenon DEF IsNumber
  <2>2. NumberParts(s, i + 1, j + 1, k + 1, n + 1)
    BY <1>1, <2>1
  <2>3. i + 1 \in Nat /\ j + 1 \in Nat /\ k + 1 \in Nat
    OBVIOUS
  <2> QED
    BY <2>2, <2>3, Zenon DEF NumberTo
<1>3. ASSUME NumberTo(s, n + 1) PROVE IsNumber(s)
  <2>1. PICK a \in Nat, b \in Nat, c \in Nat : NumberParts(s, a, b, c, n + 1)
    BY <1>3 DEF NumberTo
  <2>2. a \in 1..2 /\ a < b /\ b <= c /\ c <= n + 1
    <3>1. n + 1 \in Nat
      BY <1>0
    <3> HIDE DEF n
    <3> QED
      BY <2>1, <3>1, PartsBounds
  <2>3. PICK i \in 0..1, j \in 0..n, k \in 0..n :
              i + 1 = a /\ j + 1 = b /\ k + 1 = c /\ i <= j /\ j <= k
    <3>1. a - 1 \in 0..1 /\ b - 1 \in 0..n /\ c - 1 \in 0..n /\ a - 1 + 1 = a /\ b - 1 + 1 = b
          /\ c - 1 + 1 = c /\ a - 1 <= b - 1 /\ b - 1 <= c - 1
      BY <1>0, <2>2
    <3> QED
      BY <3>1
  <2>4. /\ i = 1 => s[1] = Minus
        /\ IsInteger(SubSeq(s, i + 1, j))
        /\ IsFraction(SubSeq(s, j + 1, k))
        /\ IsExponent(SubSeq(s, k + 1, n))
    <3>1. NumberParts(s, i + 1, j + 1, k + 1, n + 1)
      BY <2>1, <2>3
    <3> QED
      BY <1>1, <2>3, <3>1
  <2> QED
    BY <2>3, <2>4, Zenon DEF IsNumber
<1> QED
  BY <1>2, <1>3

\* The check of JsonCpp passes the numbers and nothing else.
LEMMA NumbersValid ==
    ASSUME NEW t \in Seq(Bytes)
    PROVE  ValidNumber(t) <=> IsNumber(t)
<1> DEFINE i == First(t)
           j == IntegerEnd(t, i)
           k == FractionEnd(t, j)
           e == ExponentEnd(t, k)
<1>1. ValidNumber(t) <=> e = Len(t) + 1
  BY Zenon DEF ValidNumber, First
<1>2. /\ i \in Nat /\ j \in Nat /\ k \in Nat /\ e \in Nat
      /\ e # 0 => NumberParts(t, i, j, k, e)
      /\ \A i2, j2, k2, e2 \in Nat :
            NumberParts(t, i2, j2, k2, e2) /\ Terminal(t, e2)
               => i = i2 /\ j = j2 /\ k = k2 /\ e = e2
  BY ScanIs
<1> HIDE DEF i, j, k, e
<1>3. Len(t) + 1 \in Nat /\ Len(t) + 1 # 0 /\ Terminal(t, Len(t) + 1)
  BY DEF Terminal
<1>4. ASSUME e = Len(t) + 1 PROVE NumberTo(t, Len(t) + 1)
  BY <1>2, <1>3, <1>4 DEF NumberTo
<1>5. ASSUME NumberTo(t, Len(t) + 1) PROVE e = Len(t) + 1
  <2>1. PICK i2 \in Nat, j2 \in Nat, k2 \in Nat : NumberParts(t, i2, j2, k2, Len(t) + 1)
    BY <1>5 DEF NumberTo
  <2> QED
    BY <1>2, <1>3, <2>1
<1>6. IsNumber(t) <=> NumberTo(t, Len(t) + 1)
  BY IsNumberIs
<1> QED
  BY <1>1, <1>4, <1>5, <1>6

\* The bytes of the parts of a number.
LEMMA PartsBytes ==
    ASSUME NEW t \in Seq(Bytes), NEW i \in Nat, NEW j \in Nat, NEW k \in Nat, NEW e \in Nat,
           NumberParts(t, i, j, k, e)
    PROVE  /\ \A p \in 1..e - 1 : t[p] \notin Separators
           /\ \A p \in i..j - 1 : t[p] \in Digits
           /\ \A p \in 1..j - 1 : t[p] \in Digits \cup {Minus}
           /\ j # e => t[j] \notin Digits \cup {Minus}
<1>1. /\ i \in 1..2 /\ i < j /\ j <= k /\ k <= e /\ e <= Len(t) + 1
      /\ j # k => t[j] = Point /\ j <= Len(t)
      /\ k # e => t[k] \in Exponents /\ k <= Len(t)
  BY PartsBounds
<1>2. /\ i = 2 => t[1] = Minus
      /\ IntegerPart(t, i, j) /\ FractionPart(t, j, k) /\ ExponentPart(t, k, e)
  BY DEF NumberParts
<1>3. \A p \in i..j - 1 : t[p] \in Digits
  BY <1>2 DEF IntegerPart, SomeDigits
<1>4. ASSUME NEW p \in 1..j - 1 PROVE t[p] \in Digits \cup {Minus}
  <2>1. p \in i..j - 1 \/ (p = 1 /\ i = 2)
    BY <1>1
  <2> QED
    BY <1>2, <1>3, <2>1
<1>5. j # e => t[j] \notin Digits \cup {Minus}
  <2>1. CASE j # k
    <3>1. t[j] = Point
      BY <1>1, <2>1
    <3> QED
      BY <3>1, NumberLetters
  <2>2. CASE j = k /\ k # e
    <3>1. t[j] \in Exponents
      BY <1>1, <2>2
    <3> QED
      BY <3>1, NumberLetters
  <2> QED
    BY <2>1, <2>2
<1>6. ASSUME NEW p \in j..k - 1 PROVE t[p] \notin Separators
  <2>1. j # k
    BY <1>1
  <2>2. t[j] = Point /\ SomeDigits(t, j + 1, k)
    BY <1>2, <2>1 DEF FractionPart
  <2>3. p = j \/ p \in j + 1..k - 1
    OBVIOUS
  <2>4. p # j => t[p] \in Digits
    BY <2>2, <2>3 DEF SomeDigits
  <2> QED
    BY <2>2, <2>4, NumberLetters
<1>7. ASSUME NEW p \in k..e - 1 PROVE t[p] \notin Separators
  <2>1. k # e
    BY <1>1
  <2>2. /\ t[k] \in Exponents
        /\ SomeDigits(t, k + 1, e) \/ (t[k + 1] \in Signs /\ SomeDigits(t, k + 2, e))
    BY <1>2, <2>1 DEF ExponentPart
  <2>3. p = k \/ p \in k + 1..e - 1
    OBVIOUS
  <2>4. p = k \/ p = k + 1 \/ p \in k + 2..e - 1
    OBVIOUS
  <2>5. CASE SomeDigits(t, k + 1, e)
    <3>1. p # k => t[p] \in Digits
      BY <2>3, <2>5 DEF SomeDigits
    <3> QED
      BY <2>2, <3>1, NumberLetters
  <2>6. CASE t[k + 1] \in Signs /\ SomeDigits(t, k + 2, e)
    <3>1. p # k /\ p # k + 1 => t[p] \in Digits
      BY <2>4, <2>6 DEF SomeDigits
    <3> QED
      BY <2>2, <2>6, <3>1, NumberLetters
  <2> QED
    BY <2>2, <2>5, <2>6
<1>8. ASSUME NEW p \in 1..e - 1 PROVE t[p] \notin Separators
  <2>1. p \in 1..j - 1 \/ p \in j..k - 1 \/ p \in k..e - 1
    BY <1>1
  <2>2. p \in 1..j - 1 => t[p] \notin Separators
    BY <1>4, NumberLetters
  <2> QED
    BY <1>6, <1>7, <2>1, <2>2
<1> QED
  BY <1>3, <1>4, <1>5, <1>8

\* A number of a text is one of the texts that begin like it.
LEMMA PartsShared ==
    ASSUME NEW t \in Seq(Bytes), NEW s \in Seq(Bytes), NEW m \in Nat, m <= Len(t), m <= Len(s),
           \A p \in 1..m : s[p] = t[p],
           NEW i \in Nat, NEW j \in Nat, NEW k \in Nat, NumberParts(t, i, j, k, m + 1)
    PROVE  NumberParts(s, i, j, k, m + 1)
<1>1. /\ i \in 1..2 /\ i < j /\ j <= k /\ k <= m + 1 /\ m + 1 <= Len(t) + 1
      /\ j # k => t[j] = Point /\ j <= Len(t)
      /\ k # m + 1 => t[k] \in Exponents /\ k <= Len(t)
  <2>1. PICK e \in Nat : e = m + 1
    OBVIOUS
  <2>2. NumberParts(t, i, j, k, e)
    BY <2>1
  <2>3. /\ i \in 1..2 /\ i < j /\ j <= k /\ k <= e /\ e <= Len(t) + 1
        /\ j # k => t[j] = Point /\ j <= Len(t)
        /\ k # e => t[k] \in Exponents /\ k <= Len(t)
    BY <2>2, PartsBounds
  <2> QED
    BY <2>1, <2>3
<1>2. ASSUME NEW a \in Nat \ {0}, NEW b \in Nat, b <= m + 1, SomeDigits(t, a, b)
      PROVE  SomeDigits(s, a, b)
  <2>1. a < b /\ b <= Len(s) + 1
    BY <1>2 DEF SomeDigits
  <2>2. ASSUME NEW p \in a..b - 1 PROVE s[p] \in Digits
    <3>1. p \in 1..m
      BY <1>2
    <3> QED
      BY <1>2, <3>1 DEF SomeDigits
  <2> QED
    BY <2>1, <2>2 DEF SomeDigits
<1>3. /\ i = 2 => t[1] = Minus
      /\ IntegerPart(t, i, j) /\ FractionPart(t, j, k) /\ ExponentPart(t, k, m + 1)
  BY DEF NumberParts
<1>4. i = 2 => s[1] = Minus
  <2>1. i = 2 => 1 \in 1..m
    BY <1>1
  <2> QED
    BY <1>3, <2>1
<1>5. IntegerPart(s, i, j)
  <2>1. i \in 1..m /\ i \in Nat \ {0} /\ j <= m + 1
    BY <1>1
  <2> QED
    BY <1>2, <1>3, <2>1 DEF IntegerPart
<1>6. FractionPart(s, j, k)
  <2>1. CASE j = k
    BY <2>1 DEF FractionPart
  <2>2. CASE j # k
    <3>1. j \in 1..m /\ j + 1 \in Nat \ {0}
      BY <1>1, <2>2
    <3>2. t[j] = Point /\ SomeDigits(t, j + 1, k)
      BY <1>3, <2>2 DEF FractionPart
    <3>3. SomeDigits(s, j + 1, k)
      BY <1>1, <1>2, <3>1, <3>2
    <3> QED
      BY <3>1, <3>2, <3>3 DEF FractionPart
  <2> QED
    BY <2>1, <2>2
<1>7. ExponentPart(s, k, m + 1)
  <2>1. CASE k = m + 1
    BY <2>1 DEF ExponentPart
  <2>2. CASE k # m + 1
    <3>1. k \in 1..m /\ k + 1 \in Nat \ {0} /\ k + 2 \in Nat \ {0} /\ m + 1 \in Nat
      BY <1>1, <2>2
    <3>2. /\ t[k] \in Exponents
          /\ SomeDigits(t, k + 1, m + 1) \/ (t[k + 1] \in Signs /\ SomeDigits(t, k + 2, m + 1))
      BY <1>3, <2>2 DEF ExponentPart
    <3>3. s[k] \in Exponents
      BY <3>1, <3>2
    <3>4. CASE SomeDigits(t, k + 1, m + 1)
      <4>1. SomeDigits(s, k + 1, m + 1)
        BY <1>2, <3>1, <3>4
      <4> QED
        BY <3>3, <4>1 DEF ExponentPart
    <3>5. CASE t[k + 1] \in Signs /\ SomeDigits(t, k + 2, m + 1)
      <4>1. SomeDigits(s, k + 2, m + 1)
        BY <1>2, <3>1, <3>5
      <4>2. k + 1 \in 1..m
        BY <3>1, <3>5 DEF SomeDigits
      <4> QED
        BY <3>3, <3>5, <4>1, <4>2 DEF ExponentPart
    <3> QED
      BY <3>2, <3>4, <3>5
  <2> QED
    BY <2>1, <2>2
<1> QED
  BY <1>1, <1>4, <1>5, <1>6, <1>7 DEF NumberParts

\* The scanner of the C adapters finds where a number ends.
LEMMA TokenIs ==
    ASSUME NEW t \in Seq(Bytes)
    PROVE  LET m == Len(TokenOf(t)) IN
           /\ m \in Nat /\ m <= Len(t) /\ TokenOf(t) = SubSeq(t, 1, m)
           /\ TokenOf(t) \in Seq(Bytes) /\ \A p \in 1..m : TokenOf(t)[p] = t[p]
           /\ Terminal(t, m + 1) /\ \A p \in 1..m : t[p] \notin Separators
<1> DEFINE ends == {i \in DOMAIN t : t[i] \in Separators}
           s == TokenOf(t)
<1>0. DOMAIN t = 1..Len(t) /\ Len(t) \in Nat
  OBVIOUS
<1>1. ASSUME NEW m \in Nat, m <= Len(t), s = SubSeq(t, 1, m), Terminal(t, m + 1),
             \A p \in 1..m : t[p] \notin Separators
      PROVE  /\ Len(s) = m
             /\ s \in Seq(Bytes) /\ \A p \in 1..m : s[p] = t[p]
  <2> DEFINE x == SubSeq(t, 1, m)
  <2>1. /\ x \in Seq(Bytes) /\ Len(x) = m + 1 - 1 /\ \A p \in 1..m + 1 - 1 : x[p] = t[1 + p - 1]
    BY <1>1, PieceOf
  <2> HIDE DEF x
  <2>2. Len(x) = m /\ \A p \in 1..m : x[p] = t[p]
    BY <2>1
  <2> HIDE DEF s
  <2>3. s = x
    BY <1>1 DEF x
  <2> QED
    BY <2>1, <2>2, <2>3
<1>2. CASE ends = {}
  <2>1. s = t
    BY <1>2, Zenon DEF TokenOf
  <2>2. t = SubSeq(t, 1, Len(t))
    OBVIOUS
  <2>3. \A p \in 1..Len(t) : t[p] \notin Separators
    BY <1>0, <1>2
  <2>4. Terminal(t, Len(t) + 1)
    BY <1>0 DEF Terminal
  <2>5. s = SubSeq(t, 1, Len(t))
    BY <2>1, <2>2
  <2> HIDE DEF s, ends
  <2>6. Len(s) = Len(t) /\ s \in Seq(Bytes) /\ \A p \in 1..Len(t) : s[p] = t[p]
    BY <2>1
  <2> QED
    BY <1>0, <2>3, <2>4, <2>5, <2>6 DEF s
<1>3. CASE ends # {}
  <2> DEFINE i == CHOOSE i \in ends : \A j \in ends : i <= j
  <2>1. s = SubSeq(t, 1, i - 1)
    BY <1>3, Zenon DEF TokenOf
  <2>2. ends \in SUBSET Nat
    BY <1>0
  <2>3. \E x \in ends : \A j \in ends : x <= j
    <3> HIDE DEF ends
    <3> QED
      BY <1>3, <2>2, LeastNumber
  <2>4. i \in ends /\ \A j \in ends : i <= j
    <3> HIDE DEF ends
    <3> QED
      BY <2>3, Zenon
  <2> HIDE DEF i
  <2>5. PICK m \in Nat : m = i - 1 /\ m + 1 = i /\ m <= Len(t)
    BY <1>0, <2>4
  <2>6. \A p \in 1..m : t[p] \notin Separators
    <3> SUFFICES ASSUME NEW p \in 1..m, t[p] \in Separators PROVE FALSE
      OBVIOUS
    <3>1. p \in ends
      BY <1>0, <2>5
    <3> QED
      BY <2>4, <2>5, <3>1
  <2>7. Terminal(t, m + 1)
    BY <2>4, <2>5 DEF Terminal
  <2> HIDE DEF ends, s
  <2>8. s = SubSeq(t, 1, m)
    BY <2>1, <2>5
  <2>9. Len(s) = m /\ s \in Seq(Bytes) /\ \A p \in 1..m : s[p] = t[p]
    BY <1>1, <2>5, <2>6, <2>7, <2>8
  <2> QED
    BY <2>5, <2>6, <2>7, <2>8, <2>9 DEF s
<1> QED
  BY <1>2, <1>3

(***************************************************************************)
(* The value of digits.                                                    *)
(***************************************************************************)

IsValue(f, s) == f = [i \in 0..Len(s) |-> IF i = 0 THEN 0 ELSE f[i - 1] * 10 + (s[i] - 48)]

\* The values of the beginnings of s.
Values(f, s) ==
    /\ f[0] = 0 /\ \A i \in 0..Len(s) : f[i] \in Nat
    /\ \A i \in 1..Len(s) : f[i] = f[i - 1] * 10 + (s[i] - 48)

\* The value of a digit.
LEMMA DecimalIs == \A c \in Digits : c \in Nat /\ c - 48 \in 0..9
<1> SUFFICES ASSUME NEW c \in Digits
             PROVE  c \in Nat /\ c - 48 \in 0..9
  OBVIOUS
<1>1. c \in Int /\ 48 <= c /\ c <= 57
  BY DEF Digits
<1>2. c - 48 >= 0 /\ c - 48 <= 9
  BY <1>1
<1> QED
  BY <1>1, <1>2

\* The value of each digit of s.
LEMMA DigitAt ==
    ASSUME NEW s \in Seq(Digits), NEW k \in 1..Len(s)
    PROVE  s[k] - 48 \in 0..9 /\ s[k] \in Nat
<1>1. s[k] \in Digits
  OBVIOUS
<1>2. s[k] \in Nat /\ s[k] - 48 \in 0..9
  BY <1>1, DecimalIs, Zenon
<1> QED
  BY <1>2

\* The value of digits is the sum of each times its power of ten.
LEMMA ValueOf ==
    ASSUME NEW s \in Seq(Digits)
    PROVE  \E f : Values(f, s) /\ Value(s) = f[Len(s)]
<1> DEFINE n == Len(s)
           step == [x \in Places \X (1..n) |-> x[1] * 10 + (s[x[2]] - 48)]
<1>0. n \in Nat /\ 0 \in Places
  BY DEF Places
<1>1. IsStep(step, Places, n)
  <2> SUFFICES ASSUME NEW x \in Places \X (1..n)
               PROVE  x[1] * 10 + (s[x[2]] - 48) \in Places
    BY DEF IsStep
  <2>1. x[2] \in 1..Len(s) /\ x[1] \in Nat
    BY DEF Places
  <2>2. s[x[2]] - 48 \in 0..9
    BY <2>1, DigitAt, Zenon
  <2>3. PICK a \in Nat : a = x[1]
    BY <2>1
  <2>4. PICK b \in 0..9 : b = s[x[2]] - 48
    BY <2>2
  <2>5. a * 10 + b \in Nat
    OBVIOUS
  <2> QED
    BY <2>3, <2>4, <2>5, Zenon DEF Places
<1>2. PICK f : /\ f \in [0..n -> Places]
               /\ f[0] = 0 /\ \A k \in 1..n : f[k] = step[<<f[k - 1], k>>]
  <2> HIDE DEF step, n
  <2>1. \E f : Solution(f, Places, n, 0, step)
    BY <1>0, <1>1, Recursion, Zenon
  <2> QED
    BY <2>1 DEF Solution
<1>3. \A k \in 1..n : f[k] = f[k - 1] * 10 + (s[k] - 48)
  <2> SUFFICES ASSUME NEW k \in 1..n
               PROVE  f[k] = f[k - 1] * 10 + (s[k] - 48)
    OBVIOUS
  <2>1. f[k - 1] \in Places
    BY <1>2
  <2> QED
    BY <1>2, <2>1
<1>4. IsValue(f, s)
  <2>1. f = [k \in 0..n |-> f[k]]
    BY <1>2
  <2>2. \A k \in 0..n : f[k] = IF k = 0 THEN 0 ELSE f[k - 1] * 10 + (s[k] - 48)
    BY <1>2, <1>3
  <2> QED
    BY <2>1, <2>2 DEF IsValue
<1>5. Value(s) = (CHOOSE g : IsValue(g, s))[Len(s)]
  BY Zenon DEF Value, IsValue
<1>6. ASSUME NEW g, IsValue(g, s) PROVE g[n] = f[n]
  <2>1. g = [i \in 0..n |-> IF i = 0 THEN 0 ELSE g[i - 1] * 10 + (s[i] - 48)]
    BY <1>6 DEF IsValue
  <2>2. f[0] = 0 /\ g[0] = 0
    BY <1>0, <1>2, <2>1
  <2>3. ASSUME NEW k \in 1..n, f[k - 1] = g[k - 1] PROVE f[k] = g[k]
    <3>1. f[k] = f[k - 1] * 10 + (s[k] - 48)
      BY <1>3
    <3>2. g[k] = g[k - 1] * 10 + (s[k] - 48)
      BY <2>1
    <3> QED
      BY <2>3, <3>1, <3>2
  <2>4. Lockstep(f, g, n)
    BY <2>2, <2>3 DEF Lockstep
  <2> HIDE DEF n
  <2>5. f[n] = g[n]
    BY <1>0, <2>4, SameSteps, Zenon
  <2> QED
    BY <2>5
<1>7. (CHOOSE g : IsValue(g, s))[n] = f[n]
  BY <1>4, <1>6, Zenon
<1>8. Values(f, s)
  BY <1>2, <1>3 DEF Values, Places
<1> QED
  BY <1>5, <1>7, <1>8

\* More digits, the first of which is not 0, are more.
LEMMA LongerIsMore ==
    ASSUME NEW d \in Seq(Digits), NEW m \in Seq(Digits), Len(d) > Len(m), d[1] # 48
    PROVE  Value(d) > Value(m) /\ Value(d) \in Nat /\ Value(m) \in Nat
<1>0. Len(d) \in Nat /\ Len(m) \in Nat
  OBVIOUS
<1>1. PICK f : Values(f, d) /\ Value(d) = f[Len(d)]
  BY ValueOf
<1>2. PICK g : Values(g, m) /\ Value(m) = g[Len(m)]
  BY ValueOf
<1>f. /\ f[0] = 0 /\ \A i \in 0..Len(d) : f[i] \in Nat
      /\ \A i \in 1..Len(d) : f[i] = f[i - 1] * 10 + (d[i] - 48)
  BY <1>1 DEF Values
<1>g. /\ g[0] = 0 /\ \A i \in 0..Len(m) : g[i] \in Nat
      /\ \A i \in 1..Len(m) : g[i] = g[i - 1] * 10 + (m[i] - 48)
  BY <1>2 DEF Values
<1> DEFINE A == {k \in 0..Len(d) : k = 0 \/ f[k] >= 1}
<1>3. 0 \in A
  BY <1>0
<1>4. ASSUME NEW k \in 1..Len(d), k - 1 \in A PROVE k \in A
  <2>1. f[k] = f[k - 1] * 10 + (d[k] - 48) /\ f[k - 1] \in Nat
    BY <1>f
  <2>3. d[k] - 48 \in 0..9 /\ d[k] \in Nat
    BY DigitAt, Zenon
  <2>p. PICK u \in Nat : u = f[k - 1]
    BY <2>1
  <2>q. PICK e \in 0..9 : e = d[k] - 48
    BY <2>3
  <2>r. f[k] = u * 10 + e
    BY <2>1, <2>p, <2>q, Zenon
  <2>4. f[k] >= 1
    <3>1. CASE k = 1
      <4>1. e # 0
        BY <2>3, <2>q, <3>1
      <4>2. u * 10 + e >= 1
        BY <4>1
      <4> QED
        BY <2>r, <4>2, Zenon
    <3>2. CASE k # 1
      <4>1. u >= 1
        BY <1>4, <2>p, <3>2
      <4>2. u * 10 + e >= 1
        BY <4>1
      <4> QED
        BY <2>r, <4>2, Zenon
    <3> QED
      BY <3>1, <3>2
  <2>5. k \in 0..Len(d)
    OBVIOUS
  <2> QED
    BY <2>4, <2>5
<1> DEFINE c == Len(d) - Len(m)
           B == {k \in 0..Len(m) : f[c + k] > g[k]}
<1>5. \A k \in 0..Len(d) : k \in A
  <2> HIDE DEF A
  <2> QED
    BY <1>0, <1>3, <1>4, AllRounds
<1>6. c \in 1..Len(d) /\ c + Len(m) = Len(d)
  BY <1>0
<1>7. 0 \in B
  <2>1. f[c] >= 1
    BY <1>5, <1>6
  <2>2. c + 0 = c /\ 0 \in 0..Len(m)
    BY <1>0, <1>6
  <2>3. f[c + 0] > g[0]
    <3>1. f[c] \in Nat
      BY <1>f, <1>6
    <3> QED
      BY <1>g, <2>1, <2>2, <3>1
  <2> QED
    BY <2>2, <2>3
<1> HIDE DEF c
<1>8. ASSUME NEW k \in 1..Len(m), k - 1 \in B PROVE k \in B
  <2>1. PICK p \in 1..Len(d) : p = c + k /\ p - 1 = c + (k - 1)
    BY <1>0, <1>6
  <2>2. f[p - 1] > g[k - 1] /\ f[p - 1] \in Nat /\ g[k - 1] \in Nat
    BY <1>8, <1>f, <1>g, <2>1
  <2>3. f[p] = f[p - 1] * 10 + (d[p] - 48) /\ g[k] = g[k - 1] * 10 + (m[k] - 48)
    BY <1>f, <1>g
  <2>5. d[p] - 48 \in 0..9 /\ m[k] - 48 \in 0..9
    BY DigitAt, Zenon
  <2>6. f[p] > g[k]
    <3> DEFINE a == f[p - 1]
               b == g[k - 1]
               x == d[p] - 48
               y == m[k] - 48
    <3>1. a \in Nat /\ b \in Nat /\ x \in 0..9 /\ y \in 0..9 /\ a > b
      BY <2>2, <2>5
    <3>2. f[p] = a * 10 + x /\ g[k] = b * 10 + y
      BY <2>3
    <3> HIDE DEF a, b, x, y
    <3>3. a * 10 + x > b * 10 + y
      BY <3>1
    <3> QED
      BY <3>2, <3>3
  <2>7. k \in 0..Len(m)
    OBVIOUS
  <2> QED
    BY <2>1, <2>6, <2>7
<1>9. \A k \in 0..Len(m) : k \in B
  <2> HIDE DEF B
  <2> QED
    BY <1>0, <1>7, <1>8, AllRounds
<1>10. f[Len(d)] > g[Len(m)]
  <2>1. Len(m) \in B
    BY <1>0, <1>9
  <2>2. f[c + Len(m)] > g[Len(m)]
    BY <2>1
  <2> QED
    BY <1>6, <2>2
<1> QED
  BY <1>0, <1>1, <1>2, <1>10, <1>f, <1>g

SameStart(d, m, k) == \A j \in 1..k : d[j] = m[j]
AboveBy(d, m, k) == \E i \in 1..k : d[i] > m[i] /\ SameStart(d, m, i - 1)

\* As many digits are more if the first that differs is.
LEMMA AboveIsMore ==
    ASSUME NEW d \in Seq(Digits), NEW m \in Seq(Digits), Len(d) = Len(m)
    PROVE  /\ Above(d, m) <=> Value(d) > Value(m)
           /\ Value(d) \in Nat /\ Value(m) \in Nat
<1>0. Len(d) \in Nat
  OBVIOUS
<1>1. PICK f : Values(f, d) /\ Value(d) = f[Len(d)]
  BY ValueOf
<1>2. PICK g : Values(g, m) /\ Value(m) = g[Len(m)]
  BY ValueOf
<1>f. /\ f[0] = 0 /\ \A i \in 0..Len(d) : f[i] \in Nat
      /\ \A i \in 1..Len(d) : f[i] = f[i - 1] * 10 + (d[i] - 48)
  BY <1>1 DEF Values
<1>g. /\ g[0] = 0 /\ \A i \in 0..Len(d) : g[i] \in Nat
      /\ \A i \in 1..Len(d) : g[i] = g[i - 1] * 10 + (m[i] - 48)
  BY <1>2 DEF Values
<1> DEFINE Compared(k) ==
              \/ SameStart(d, m, k) /\ ~AboveBy(d, m, k) /\ f[k] = g[k]
              \/ AboveBy(d, m, k) /\ ~SameStart(d, m, k) /\ f[k] > g[k]
              \/ ~AboveBy(d, m, k) /\ ~SameStart(d, m, k) /\ f[k] < g[k]
           T == {k \in 0..Len(d) : Compared(k)}
<1>3. 0 \in T
  <2>1. SameStart(d, m, 0) /\ ~AboveBy(d, m, 0)
    BY DEF SameStart, AboveBy
  <2> QED
    BY <1>0, <1>f, <1>g, <2>1
<1>4. ASSUME NEW k \in 1..Len(d), k - 1 \in T PROVE k \in T
  <2>0. PICK p \in Nat : p = k - 1 /\ p + 1 = k /\ p \in 0..Len(d)
    OBVIOUS
  <2>1. f[k] = f[p] * 10 + (d[k] - 48) /\ g[k] = g[p] * 10 + (m[k] - 48)
        /\ f[p] \in Nat /\ g[p] \in Nat
    BY <1>f, <1>g, <2>0
  <2>3. d[k] - 48 \in 0..9 /\ m[k] - 48 \in 0..9 /\ d[k] \in Nat /\ m[k] \in Nat
    BY DigitAt, Zenon
  <2>4. SameStart(d, m, k) <=> SameStart(d, m, p) /\ d[k] = m[k]
    <3>1. \A j \in 1..k : j = k \/ j \in 1..p
      BY <2>0
    <3>2. k \in 1..k /\ \A j \in 1..p : j \in 1..k
      BY <2>0
    <3> QED
      BY <3>1, <3>2, Zenon DEF SameStart
  <2>5. AboveBy(d, m, k) <=> AboveBy(d, m, p) \/ (d[k] > m[k] /\ SameStart(d, m, p))
    <3>1. \A j \in 1..k : j = k \/ j \in 1..p
      BY <2>0
    <3>2. k \in 1..k /\ \A j \in 1..p : j \in 1..k
      BY <2>0
    <3> QED
      BY <2>0, <3>1, <3>2, Zenon DEF AboveBy
  <2>6. Compared(p)
    BY <1>4, <2>0
  <2>7. Compared(k)
    <3> DEFINE a == f[p]
               b == g[p]
               x == d[k] - 48
               y == m[k] - 48
    <3>1. a \in Nat /\ b \in Nat /\ x \in 0..9 /\ y \in 0..9
      BY <2>1, <2>3
    <3>2. f[k] = a * 10 + x /\ g[k] = b * 10 + y
      BY <2>1
    <3>3. (d[k] = m[k] <=> x = y) /\ (d[k] > m[k] <=> x > y)
      BY <2>3
    <3>4. \/ SameStart(d, m, p) /\ ~AboveBy(d, m, p) /\ a = b
          \/ AboveBy(d, m, p) /\ ~SameStart(d, m, p) /\ a > b
          \/ ~AboveBy(d, m, p) /\ ~SameStart(d, m, p) /\ b > a
      BY <2>6, <2>1
    <3> HIDE DEF a, b, x, y
    <3>5. /\ a > b => a * 10 + x > b * 10 + y
          /\ b > a => b * 10 + y > a * 10 + x
          /\ a = b /\ x > y => a * 10 + x > b * 10 + y
          /\ a = b /\ y > x => b * 10 + y > a * 10 + x
          /\ a = b /\ x = y => a * 10 + x = b * 10 + y
          /\ x = y \/ x > y \/ y > x
          /\ ~(x = y /\ x > y)
      BY <3>1
    <3>6. f[k] < g[k] <=> b * 10 + y > a * 10 + x
      BY <3>1, <3>2
    <3> QED
      BY <2>4, <2>5, <3>2, <3>3, <3>4, <3>5, <3>6
  <2> QED
    BY <2>7
<1> HIDE DEF T
<1>5. \A k \in 0..Len(d) : k \in T
  BY <1>0, <1>3, <1>4, AllRounds
<1>6. Compared(Len(d))
  <2>1. Len(d) \in T
    BY <1>0, <1>5
  <2> QED
    BY <2>1 DEF T
<1>7. Above(d, m) <=> AboveBy(d, m, Len(d))
  <2>1. DOMAIN m = 1..Len(d)
    OBVIOUS
  <2> QED
    BY <2>1, Zenon DEF Above, AboveBy, SameStart
<1>8. f[Len(d)] \in Nat /\ g[Len(d)] \in Nat
  BY <1>0, <1>f, <1>g
<1> QED
  BY <1>1, <1>2, <1>6, <1>7, <1>8

\* The comparison of digits with a maximum is that of their values.
LEMMA OutOfRangeIs ==
    ASSUME NEW d \in Seq(Digits), NEW m \in Seq(Digits), m # <<>>, m[1] # 48,
           Len(d) > 1 => d[1] # 48
    PROVE  /\ OutOfRange(d, m) <=> Value(d) > Value(m)
           /\ Value(d) \in Nat /\ Value(m) \in Nat
<1>0. Len(d) \in Nat /\ Len(m) \in Nat /\ Len(m) >= 1
  OBVIOUS
<1>1. CASE Len(d) > Len(m)
  <2>1. d[1] # 48
    BY <1>0, <1>1
  <2> QED
    BY <1>1, <2>1, LongerIsMore DEF OutOfRange
<1>2. CASE Len(d) = Len(m)
  <2>1. ~(Len(d) > Len(m))
    BY <1>0, <1>2
  <2> QED
    BY <1>2, <2>1, AboveIsMore DEF OutOfRange
<1>3. CASE Len(d) < Len(m)
  <2>1. ~(Len(d) > Len(m)) /\ Len(m) > Len(d) /\ Len(d) # Len(m)
    BY <1>0, <1>3
  <2>2. Value(m) > Value(d) /\ Value(d) \in Nat /\ Value(m) \in Nat
    BY <2>1, LongerIsMore
  <2>3. ~(Value(d) > Value(m))
    BY <2>2
  <2> QED
    BY <2>1, <2>2, <2>3 DEF OutOfRange
<1> QED
  BY <1>0, <1>1, <1>2, <1>3

\* The scanner stops at the end of the token, or the token is no number.
LEMMA TokenScanned ==
    ASSUME NEW t \in Seq(Bytes)
    PROVE  LET m == Len(TokenOf(t))
               i == First(t)
               j == IntegerEnd(t, i)
               k == FractionEnd(t, j)
               e == ExponentEnd(t, k)
           IN  /\ e # 0 /\ Terminal(t, e) <=> IsNumber(TokenOf(t))
               /\ e # 0 /\ Terminal(t, e) => e = m + 1 /\ NumberParts(t, i, j, k, m + 1)
               /\ i \in Nat /\ j \in Nat /\ k \in Nat /\ e \in Nat
<1> DEFINE s == TokenOf(t)
           m == Len(s)
           i == First(t)
           j == IntegerEnd(t, i)
           k == FractionEnd(t, j)
           e == ExponentEnd(t, k)
<1>1. /\ m \in Nat /\ m <= Len(t) /\ s \in Seq(Bytes) /\ \A p \in 1..m : s[p] = t[p]
      /\ Terminal(t, m + 1) /\ \A p \in 1..m : t[p] \notin Separators
  BY TokenIs
<1>2. /\ i \in Nat /\ j \in Nat /\ k \in Nat /\ e \in Nat
      /\ e # 0 => NumberParts(t, i, j, k, e)
      /\ \A i2, j2, k2, e2 \in Nat :
            NumberParts(t, i2, j2, k2, e2) /\ Terminal(t, e2)
               => i = i2 /\ j = j2 /\ k = k2 /\ e = e2
  BY ScanIs
<1>m. m = Len(s)
  OBVIOUS
<1> HIDE DEF i, j, k, e, s, m
<1>3. ASSUME e # 0, Terminal(t, e)
      PROVE  e = m + 1 /\ NumberParts(t, i, j, k, m + 1) /\ IsNumber(s)
  <2>1. NumberParts(t, i, j, k, e)
    BY <1>2, <1>3
  <2>2. e <= Len(t) + 1 /\ \A p \in 1..e - 1 : t[p] \notin Separators
    BY <1>2, <2>1, PartsBounds, PartsBytes
  <2>3. Len(t) \in Nat
    OBVIOUS
  <2>4. ~(e < m + 1)
    <3> SUFFICES ASSUME e < m + 1 PROVE FALSE
      OBVIOUS
    <3>1. e \in 1..m /\ ~(e > Len(t))
      BY <1>1, <1>2, <1>3, <2>3
    <3>2. t[e] \notin Separators
      BY <1>1, <3>1
    <3> QED
      BY <1>3, <3>1, <3>2 DEF Terminal
  <2>5. ~(e > m + 1)
    <3> SUFFICES ASSUME e > m + 1 PROVE FALSE
      OBVIOUS
    <3>1. m + 1 \in 1..e - 1 /\ ~(m + 1 > Len(t))
      BY <1>1, <1>2, <2>2, <2>3
    <3>2. t[m + 1] \notin Separators
      BY <2>2, <3>1
    <3> QED
      BY <1>1, <3>1, <3>2 DEF Terminal
  <2>6. e = m + 1
    BY <1>1, <1>2, <2>4, <2>5
  <2>7. NumberParts(t, i, j, k, m + 1)
    BY <2>1, <2>6
  <2>8. NumberParts(s, i, j, k, m + 1)
    <3>1. i \in Nat /\ j \in Nat /\ k \in Nat /\ m \in Nat /\ m <= Len(t) /\ m <= Len(s)
          /\ s \in Seq(Bytes) /\ \A p \in 1..m : s[p] = t[p]
      BY <1>1, <1>2, <1>m
    <3> QED
      BY <2>7, <3>1, PartsShared
  <2>9. NumberTo(s, Len(s) + 1)
    BY <1>2, <1>m, <2>8 DEF NumberTo
  <2> QED
    BY <1>1, <2>6, <2>7, <2>9, IsNumberIs
<1>4. ASSUME IsNumber(s) PROVE e # 0 /\ Terminal(t, e)
  <2>1. NumberTo(s, m + 1)
    BY <1>1, <1>4, <1>m, IsNumberIs
  <2>2. PICK i2 \in Nat, j2 \in Nat, k2 \in Nat : NumberParts(s, i2, j2, k2, m + 1)
    BY <2>1 DEF NumberTo
  <2>3. \A p \in 1..m : t[p] = s[p]
    BY <1>1
  <2>4. NumberParts(t, i2, j2, k2, m + 1)
    BY <1>1, <1>m, <2>2, <2>3, PartsShared
  <2>5. m + 1 \in Nat /\ m + 1 # 0
    BY <1>1
  <2>6. e = m + 1
    BY <1>1, <1>2, <2>4, <2>5
  <2> QED
    BY <1>1, <2>5, <2>6
<1>5. /\ e # 0 /\ Terminal(t, e) <=> IsNumber(s)
      /\ e # 0 /\ Terminal(t, e) => e = m + 1 /\ NumberParts(t, i, j, k, m + 1)
      /\ i \in Nat /\ j \in Nat /\ k \in Nat /\ e \in Nat
  BY <1>2, <1>3, <1>4
<1> QED
  BY <1>5 DEF s, m, i, j, k, e

\* A number is a real if a byte of it is neither a digit nor a sign in front.
LEMMA RealIs ==
    ASSUME NEW t \in Seq(Bytes), NEW i \in Nat, NEW j \in Nat, NEW k \in Nat,
           NumberParts(t, i, j, k, Len(TokenOf(t)) + 1)
    PROVE  Len(TokenOf(t)) + 1 # j <=>
              \E p \in DOMAIN TokenOf(t) : TokenOf(t)[p] \notin Digits \cup {Minus}
<1> DEFINE s == TokenOf(t)
           m == Len(s)
<1>1. m \in Nat /\ m <= Len(t) /\ s \in Seq(Bytes) /\ \A p \in 1..m : s[p] = t[p]
  BY TokenIs
<1>2. PICK e \in Nat : e = m + 1
  BY <1>1
<1>d. DOMAIN s = 1..m
  BY <1>1
<1> HIDE DEF s, m
<1>0. NumberParts(t, i, j, k, e)
  BY <1>2 DEF s, m
<1>3. /\ \A p \in 1..j - 1 : t[p] \in Digits \cup {Minus}
      /\ j # e => t[j] \notin Digits \cup {Minus}
  BY <1>0, PartsBytes
<1>4. i < j /\ j <= k /\ k <= e
  BY <1>0, PartsBounds
<1>5. ASSUME e # j PROVE \E p \in DOMAIN s : s[p] \notin Digits \cup {Minus}
  <2>1. j \in 1..m
    BY <1>1, <1>2, <1>4, <1>5
  <2>2. s[j] \notin Digits \cup {Minus}
    BY <1>1, <1>3, <1>5, <2>1
  <2> QED
    BY <1>d, <2>1, <2>2
<1>6. ASSUME e = j, NEW p \in 1..m PROVE s[p] \in Digits \cup {Minus}
  <2>1. p \in 1..j - 1
    BY <1>1, <1>2, <1>6
  <2> QED
    BY <1>1, <1>3, <2>1
<1> QED
  BY <1>2, <1>5, <1>6, <1>d DEF s, m

\* The digits of an integer are what stands after the sign.
LEMMA IntegerDigits ==
    ASSUME NEW t \in Seq(Bytes), NEW j \in Nat, NEW k \in Nat,
           NumberParts(t, First(t), j, k, Len(TokenOf(t)) + 1),
           j = Len(TokenOf(t)) + 1
    PROVE  LET d == SubSeq(t, First(t), j - 1) IN
           /\ d \in Seq(Digits) /\ (Len(d) > 1 => d[1] # 48)
           /\ d = IF t[1] = Minus THEN Tail(TokenOf(t)) ELSE TokenOf(t)
           /\ TokenOf(t)[1] = t[1]
<1> DEFINE s == TokenOf(t)
           m == Len(s)
           i == First(t)
           d == SubSeq(t, i, j - 1)
<1>1. /\ m \in Nat /\ m <= Len(t) /\ s \in Seq(Bytes) /\ \A p \in 1..m : s[p] = t[p]
      /\ s = SubSeq(t, 1, m)
  BY TokenIs
<1>2. j = m + 1 /\ NumberParts(t, i, j, k, j)
  OBVIOUS
<1>i. i \in Nat /\ i \in 1..2 /\ i = (IF IsAt(t, 1, {Minus}) THEN 2 ELSE 1)
  BY DEF First
<1>d. d = SubSeq(t, i, j - 1)
  OBVIOUS
<1> HIDE DEF s, m, i, d
<1>3. i < j /\ \A p \in i..j - 1 : t[p] \in Digits
  BY <1>2, <1>i, PartsBounds, PartsBytes
<1>4. IntegerPart(t, i, j)
  BY <1>2 DEF NumberParts
<1>p. PICK n \in Nat : n = j - 1 /\ n = m /\ n + 1 = j
  BY <1>1, <1>2
<1>5. /\ d \in Seq(Bytes) /\ Len(d) = n + 1 - i
      /\ \A p \in 1..n + 1 - i : d[p] = t[i + p - 1]
      /\ i <= n => d[1] = t[i] /\ Tail(d) = SubSeq(t, i + 1, n)
  <2>1. i <= n + 1 /\ i \in Nat \ {0} /\ n <= Len(t) /\ d = SubSeq(t, i, n)
    BY <1>1, <1>3, <1>i, <1>p, <1>d
  <2> QED
    BY <2>1, PieceOf
<1>6. d \in Seq(Digits)
  <2>1. \A p \in 1..Len(d) : d[p] \in Digits
    <3> SUFFICES ASSUME NEW p \in 1..Len(d) PROVE d[p] \in Digits
      OBVIOUS
    <3>1. PICK q \in i..j - 1 : q = i + p - 1
      BY <1>5, <1>i, <1>p
    <3>2. p \in 1..n + 1 - i
      BY <1>5
    <3> QED
      BY <1>3, <1>5, <3>1, <3>2
  <2>2. Len(d) \in Nat /\ d = [p \in 1..Len(d) |-> d[p]]
    BY <1>5
  <2> QED
    BY <2>1, <2>2
<1>7. ASSUME Len(d) > 1 PROVE d[1] # 48
  <2>1. j # i + 1 /\ i <= n
    BY <1>5, <1>7, <1>i, <1>p
  <2> QED
    BY <1>4, <1>5, <2>1 DEF IntegerPart
<1>8. 1 <= Len(t) /\ 1 <= m
  BY <1>1, <1>3, <1>i, <1>p
<1>9. i = IF t[1] = Minus THEN 2 ELSE 1
  BY <1>8, <1>i DEF IsAt
<1>10. d = IF t[1] = Minus THEN Tail(s) ELSE s
  <2>1. CASE t[1] # Minus
    BY <1>1, <1>9, <1>d, <1>p, <2>1
  <2>2. CASE t[1] = Minus
    <3>1. 1 \in Nat \ {0} /\ m <= Len(t) /\ 1 <= m /\ 1 <= m + 1
      BY <1>1, <1>8
    <3>2. Tail(s) = SubSeq(t, 1 + 1, m)
      BY <1>1, <3>1, PieceOf
    <3>3. 1 + 1 = 2
      OBVIOUS
    <3> QED
      BY <1>9, <1>d, <1>p, <2>2, <3>2, <3>3
  <2> QED
    BY <2>1, <2>2
<1>11. s[1] = t[1]
  BY <1>1, <1>8
<1> QED
  BY <1>6, <1>7, <1>10, <1>11 DEF s, m, i, d

\* Out of range is what the library of the policy does not hold.
LEMMA RangeIs ==
    ASSUME NEW d \in Seq(Digits), Len(d) > 1 => d[1] # 48, NEW negative \in BOOLEAN,
           NEW policy \in {"double", "signed", "wide"}
    PROVE  OutOfRange(d, IntegerMaximum(policy, negative))
              <=> ~Holds(policy, IF negative THEN -Value(d) ELSE Value(d))
<1>1. \A x \in {"exact", "least", "greatest", "unsigned"} :
         Maxima[x] \in Seq(Digits) /\ Maxima[x] # <<>> /\ Maxima[x][1] # 48
  BY TextAssumption
<1>2. /\ Maxima.exact \in Seq(Digits) /\ Maxima.exact # <<>> /\ Maxima.exact[1] # 48
      /\ Maxima.least \in Seq(Digits) /\ Maxima.least # <<>> /\ Maxima.least[1] # 48
      /\ Maxima.greatest \in Seq(Digits) /\ Maxima.greatest # <<>> /\ Maxima.greatest[1] # 48
      /\ Maxima.unsigned \in Seq(Digits) /\ Maxima.unsigned # <<>> /\ Maxima.unsigned[1] # 48
  BY <1>1
<1>3. ASSUME NEW m \in Seq(Digits), m # <<>>, m[1] # 48
      PROVE  /\ OutOfRange(d, m) <=> Value(d) > Value(m)
             /\ Value(d) \in Nat /\ Value(m) \in Nat
  BY <1>3, OutOfRangeIs
<1>4. /\ OutOfRange(d, Maxima.exact) <=> Value(d) > Value(Maxima.exact)
      /\ OutOfRange(d, Maxima.least) <=> Value(d) > Value(Maxima.least)
      /\ OutOfRange(d, Maxima.greatest) <=> Value(d) > Value(Maxima.greatest)
      /\ OutOfRange(d, Maxima.unsigned) <=> Value(d) > Value(Maxima.unsigned)
      /\ Value(d) \in Nat /\ Value(Maxima.exact) \in Nat /\ Value(Maxima.least) \in Nat
      /\ Value(Maxima.greatest) \in Nat /\ Value(Maxima.unsigned) \in Nat
  BY <1>2, <1>3
<1>5. /\ policy = "double" => IntegerMaximum(policy, negative) = Maxima.exact
      /\ policy # "double" /\ negative => IntegerMaximum(policy, negative) = Maxima.least
      /\ policy = "signed" /\ ~negative => IntegerMaximum(policy, negative) = Maxima.greatest
      /\ policy = "wide" /\ ~negative => IntegerMaximum(policy, negative) = Maxima.unsigned
  BY DEF IntegerMaximum
<1> DEFINE v == IF negative THEN -Value(d) ELSE Value(d)
<1>6. /\ policy = "double" => (Holds(policy, v) <=> v \in -Value(Maxima.exact)..Value(Maxima.exact))
      /\ policy = "signed" => (Holds(policy, v) <=> v \in -Value(Maxima.least)..Value(Maxima.greatest))
      /\ policy = "wide" => (Holds(policy, v) <=> v \in -Value(Maxima.least)..Value(Maxima.unsigned))
  BY DEF Holds
<1>7. ASSUME NEW a \in Nat, NEW b \in Nat, NEW c \in Nat
      PROVE  /\ c > b <=> ~(c \in -a..b)
             /\ c > a <=> ~(-c \in -a..b)
  OBVIOUS
<1>8. CASE negative
  <2>1. v = -Value(d)
    BY <1>8
  <2> HIDE DEF v
  <2>2. CASE policy = "double"
    BY <1>4, <1>5, <1>6, <1>7, <1>8, <2>1, <2>2
  <2>3. CASE policy = "signed"
    BY <1>4, <1>5, <1>6, <1>7, <1>8, <2>1, <2>3
  <2>4. CASE policy = "wide"
    BY <1>4, <1>5, <1>6, <1>7, <1>8, <2>1, <2>4
  <2> QED
    BY <2>2, <2>3, <2>4
<1>9. CASE ~negative
  <2>1. v = Value(d)
    BY <1>9
  <2> HIDE DEF v
  <2>2. CASE policy = "double"
    BY <1>4, <1>5, <1>6, <1>7, <1>9, <2>1, <2>2
  <2>3. CASE policy = "signed"
    BY <1>4, <1>5, <1>6, <1>7, <1>9, <2>1, <2>3
  <2>4. CASE policy = "wide"
    BY <1>4, <1>5, <1>6, <1>7, <1>9, <2>1, <2>4
  <2> QED
    BY <2>2, <2>3, <2>4
<1> QED
  BY <1>8, <1>9

\* What becomes of the number t begins with, as a choice of four.
LEMMA VerdictIs ==
    ASSUME NEW t \in Seq(Bytes), t # <<>>, NEW policy
    PROVE  LET i == First(t)
               j == IntegerEnd(t, i)
               k == FractionEnd(t, j)
               e == ExponentEnd(t, k)
               out == OutOfRange(SubSeq(t, i, j - 1), IntegerMaximum(policy, t[1] = Minus))
           IN  /\ DomNumber(t, policy).real = (e # j)
               /\ DomNumber(t, policy).verdict =
                     IF ~(e # 0 /\ Terminal(t, e)) THEN "lexical"
                     ELSE IF e > JSON_STRING_SIZE THEN "size"
                     ELSE IF policy # "raw" /\ e = j /\ out THEN "range" ELSE "ok"
<1> DEFINE i == First(t)
           j == IntegerEnd(t, i)
           k == FractionEnd(t, j)
           e == ExponentEnd(t, k)
           out == OutOfRange(SubSeq(t, i, j - 1), IntegerMaximum(policy, t[1] = Minus))
           refused == e = 0 \/ ~AtSeparator(t, e)
           chosen == CASE refused -> "lexical"
                       [] ~refused /\ e > JSON_STRING_SIZE -> "size"
                       [] /\ ~refused /\ e <= JSON_STRING_SIZE
                          /\ policy # "raw" /\ ~(e # j)
                          /\ out -> "range"
                       [] OTHER -> "ok"
<1>1. i = IF t[1] = Minus THEN 2 ELSE 1
  BY DEF First, IsAt
<1>2. DomNumber(t, policy) = [real |-> e # j, verdict |-> chosen]
  BY <1>1, Zenon DEF DomNumber
<1>3. e \in Nat /\ JSON_STRING_SIZE \in Nat
  BY TokenScanned, TextAssumption
<1>4. refused <=> ~(e # 0 /\ Terminal(t, e))
  BY Zenon DEF AtSeparator, Terminal
<1> HIDE DEF e, j, out, refused
<1>5. e <= JSON_STRING_SIZE <=> ~(e > JSON_STRING_SIZE)
  BY <1>3
<1>6. chosen = IF refused THEN "lexical"
               ELSE IF e > JSON_STRING_SIZE THEN "size"
               ELSE IF policy # "raw" /\ e = j /\ out THEN "range" ELSE "ok"
  <2>1. CASE refused
    BY <2>1
  <2>2. CASE ~refused /\ e > JSON_STRING_SIZE
    BY <1>5, <2>2
  <2>3. CASE ~refused /\ ~(e > JSON_STRING_SIZE) /\ policy # "raw" /\ e = j /\ out
    BY <1>5, <2>3
  <2>4. CASE ~refused /\ ~(e > JSON_STRING_SIZE) /\ ~(policy # "raw" /\ e = j /\ out)
    BY <1>5, <2>4
  <2> QED
    BY <2>1, <2>2, <2>3, <2>4
<1> HIDE DEF chosen
<1>7. DomNumber(t, policy).real = (e # j) /\ DomNumber(t, policy).verdict = chosen
  BY <1>2
<1>8. chosen = IF ~(e # 0 /\ Terminal(t, e)) THEN "lexical"
               ELSE IF e > JSON_STRING_SIZE THEN "size"
               ELSE IF policy # "raw" /\ e = j /\ out THEN "range" ELSE "ok"
  BY <1>4, <1>6, Zenon
<1> QED
  BY <1>7, <1>8, Zenon DEF e, j, out

\* What the scanner must say of a number.
Said(t, policy) ==
    LET s == TokenOf(t)
        real == \E i \in DOMAIN s : s[i] \notin Digits \cup {Minus}
        value == IF s[1] = Minus THEN -Value(Tail(s)) ELSE Value(s)
        found == DomNumber(t, policy)
    IN  IF ~IsNumber(s) THEN found.verdict = "lexical"
        ELSE /\ found.real = real
             /\ found.verdict =
                    IF Len(s) >= JSON_STRING_SIZE THEN "size"
                    ELSE IF real \/ Holds(policy, value) THEN "ok"
                    ELSE "range"

\* What the scanner says of a number under each policy.
LEMMA SaidHolds ==
    ASSUME NEW t \in Seq(Bytes), t # <<>>, NEW policy \in {"raw", "double", "signed", "wide"}
    PROVE  Said(t, policy)
<1> DEFINE s == TokenOf(t)
           m == Len(s)
           i == First(t)
           j == IntegerEnd(t, i)
           k == FractionEnd(t, j)
           e == ExponentEnd(t, k)
           d == SubSeq(t, i, j - 1)
           out == OutOfRange(d, IntegerMaximum(policy, t[1] = Minus))
           found == DomNumber(t, policy)
           real == \E p \in DOMAIN s : s[p] \notin Digits \cup {Minus}
           value == IF s[1] = Minus THEN -Value(Tail(s)) ELSE Value(s)
<1>1. /\ found.real = (e # j)
      /\ found.verdict =
            IF ~(e # 0 /\ Terminal(t, e)) THEN "lexical"
            ELSE IF e > JSON_STRING_SIZE THEN "size"
            ELSE IF policy # "raw" /\ e = j /\ out THEN "range" ELSE "ok"
  BY VerdictIs
<1>2. /\ e # 0 /\ Terminal(t, e) <=> IsNumber(s)
      /\ e # 0 /\ Terminal(t, e) => e = m + 1 /\ NumberParts(t, i, j, k, m + 1)
      /\ i \in Nat /\ j \in Nat /\ k \in Nat /\ e \in Nat
  BY TokenScanned
<1>3. ASSUME NumberParts(t, i, j, k, m + 1) PROVE m + 1 # j <=> real
  BY <1>2, <1>3, RealIs
<1>4. ASSUME NumberParts(t, i, j, k, m + 1), j = m + 1
      PROVE  /\ d \in Seq(Digits) /\ (Len(d) > 1 => d[1] # 48)
             /\ d = IF t[1] = Minus THEN Tail(s) ELSE s
             /\ s[1] = t[1]
  BY <1>2, <1>4, IntegerDigits
<1>5. ASSUME NumberParts(t, i, j, k, m + 1), j = m + 1
      PROVE  policy # "raw" /\ out <=> ~Holds(policy, value)
  <2>1. CASE policy = "raw"
    BY <2>1 DEF Holds
  <2>2. CASE policy # "raw"
    <3> DEFINE v == IF t[1] = Minus THEN -Value(d) ELSE Value(d)
    <3>1. policy \in {"double", "signed", "wide"}
      BY <2>2
    <3>2. out <=> ~Holds(policy, v)
      <4>1. /\ d \in Seq(Digits) /\ (Len(d) > 1 => d[1] # 48) /\ (t[1] = Minus) \in BOOLEAN
        BY <1>4, <1>5
      <4> HIDE DEF d
      <4> QED
        BY <3>1, <4>1, RangeIs, Zenon
    <3>3. v = value
      <4>1. d = (IF t[1] = Minus THEN Tail(s) ELSE s) /\ s[1] = t[1]
        BY <1>4, <1>5
      <4> HIDE DEF d, s
      <4> QED
        BY <4>1
    <3> QED
      BY <2>2, <3>2, <3>3, Zenon
  <2> QED
    BY <2>1, <2>2
<1>6. m \in Nat /\ JSON_STRING_SIZE \in Nat
  BY TokenIs, TextAssumption
<1> HIDE DEF i, j, k, e, d, out, found, real, value, m
<1>7. CASE ~IsNumber(s)
  <2>1. found.verdict = "lexical"
    BY <1>1, <1>2, <1>7, Zenon
  <2> QED
    BY <1>7, <2>1, Zenon DEF Said, found
<1>8. CASE IsNumber(s)
  <2>1. e = m + 1 /\ NumberParts(t, i, j, k, m + 1) /\ e # 0 /\ Terminal(t, e)
    BY <1>2, <1>8
  <2>2. m + 1 # j <=> real
    BY <1>3, <2>1
  <2>3. j = m + 1 => (policy # "raw" /\ out <=> ~Holds(policy, value))
    BY <1>5, <2>1
  <2>4. real \in BOOLEAN /\ out \in BOOLEAN
    BY DEF real, out, OutOfRange
  <2>5. found.real = real
    BY <1>1, <2>1, <2>2, <2>4
  <2>6. e > JSON_STRING_SIZE <=> m >= JSON_STRING_SIZE
    BY <1>6, <2>1
  <2>7. found.verdict = IF m >= JSON_STRING_SIZE THEN "size"
                        ELSE IF real \/ Holds(policy, value) THEN "ok" ELSE "range"
    <3>1. found.verdict = IF e > JSON_STRING_SIZE THEN "size"
                          ELSE IF policy # "raw" /\ e = j /\ out THEN "range" ELSE "ok"
      BY <1>1, <2>1
    <3>2. policy # "raw" /\ e = j /\ out <=> ~(real \/ Holds(policy, value))
      BY <2>1, <2>2, <2>3
    <3> QED
      BY <2>6, <3>1, <3>2
  <2>8. /\ found.real = real
        /\ found.verdict = IF Len(s) >= JSON_STRING_SIZE THEN "size"
                           ELSE IF real \/ Holds(policy, value) THEN "ok" ELSE "range"
    BY <2>5, <2>7 DEF m
  <2> QED
    BY <1>8, <2>8, Zenon DEF Said, found, real, value
<1> QED
  BY <1>7, <1>8

\* The number scanner of the C adapters passes what is a number before a
\* separator, fits the limit and is a real or an integer the library holds, for
\* every policy; the check of JsonCpp passes the numbers; both for every text.
THEOREM NumbersExactHolds == TextSpec => []NumbersExact
<1>1. TextTypes => NumbersExact
  <2> SUFFICES ASSUME TextTypes, text # <<>> PROVE
         /\ ValidNumber(text) = IsNumber(text)
         /\ text[1] \in Digits \cup {Minus} =>
              \A policy \in {"raw", "double", "signed", "wide"} : Said(text, policy)
    BY Zenon DEF NumbersExact, Said
  <2>1. text \in Seq(Bytes)
    BY DEF TextTypes
  <2>2. ValidNumber(text) \in BOOLEAN /\ IsNumber(text) \in BOOLEAN
    BY DEF ValidNumber, IsNumber
  <2>3. ValidNumber(text) <=> IsNumber(text)
    BY <2>1, NumbersValid
  <2>4. \A policy \in {"raw", "double", "signed", "wide"} : Said(text, policy)
    BY <2>1, SaidHolds
  <2> QED
    BY <2>2, <2>3, <2>4
<1> QED
  BY <1>1, TextType, PTL

(***************************************************************************)
(* The ASCII text of json-c: what stands for one item.                     *)
(***************************************************************************)

Ascii == 0..127

\* A digit that is written is read as itself.
LEMMA HexByteIs ==
    ASSUME NEW v \in 0..15
    PROVE  HexByte(v) \in Ascii /\ IsHex(HexByte(v)) /\ Digit(HexByte(v)) = v
<1>1. CASE v < 10
  <2>1. PICK c \in Int : c = 48 + v /\ c >= 48 /\ c <= 57 /\ c - 48 = v
    BY <1>1
  <2>2. HexByte(v) = c
    BY <1>1, <2>1 DEF HexByte
  <2>3. c \in 48..57 /\ c \notin 97..102 /\ c \notin 65..70
    BY <2>1
  <2>4. IsHex(c) /\ Digit(c) = c - 48
    BY <2>3 DEF IsHex, Digit
  <2> QED
    BY <2>1, <2>2, <2>3, <2>4 DEF Ascii
<1>2. CASE ~(v < 10)
  <2>1. PICK c \in Int : c = 87 + v /\ c >= 97 /\ c <= 102 /\ c - 87 = v
    BY <1>2
  <2>2. HexByte(v) = c
    BY <1>2, <2>1 DEF HexByte
  <2>3. c \in 97..102 /\ c \notin 48..57 /\ c \notin 65..70
    BY <2>1
  <2>4. IsHex(c) /\ Digit(c) = c - 87
    BY <2>3 DEF IsHex, Digit
  <2> QED
    BY <2>1, <2>2, <2>3, <2>4 DEF Ascii
<1> QED
  BY <1>1, <1>2

\* The four digits of a code unit.
LEMMA HexDigits ==
    ASSUME NEW c \in Nat, c <= 65535
    PROVE  /\ c \div 4096 \in 0..15 /\ (c \div 256) % 16 \in 0..15
           /\ (c \div 16) % 16 \in 0..15 /\ c % 16 \in 0..15
           /\ (c \div 4096) * 4096 + ((c \div 256) % 16) * 256 + ((c \div 16) % 16) * 16 + (c % 16) = c
<1>1. PICK x \in Nat : x = c \div 16 /\ x * 16 + (c % 16) = c /\ c % 16 \in 0..15
  OBVIOUS
<1>2. PICK y \in Nat : y = c \div 256 /\ y * 16 + (x % 16) = x /\ x % 16 \in 0..15
  <2>1. x \div 16 = c \div 256
    BY <1>1
  <2> QED
    BY <1>1, <2>1
<1>3. PICK z \in Nat : z = c \div 4096 /\ z * 16 + (y % 16) = y /\ y % 16 \in 0..15
  <2>1. y \div 16 = c \div 4096
    BY <1>1, <1>2
  <2> QED
    BY <1>1, <1>2, <2>1
<1>4. z <= 15
  BY <1>1, <1>2, <1>3
<1> QED
  BY <1>1, <1>2, <1>3, <1>4

\* A code unit written as an escape.
LEMMA UnicodeEscapeIs ==
    ASSUME NEW c \in Nat, c <= 65535
    PROVE  LET e == UnicodeEscape(c) IN
           /\ e \in Seq(Ascii) /\ Len(e) = 6
           /\ e[1] = Backslash /\ e[2] = LetterU /\ HexAt(e, 3) /\ Unit(e, 3) = c
<1> DEFINE e == UnicodeEscape(c)
<1> DEFINE x == c \div 4096
           y == (c \div 256) % 16
           z == (c \div 16) % 16
           d == c % 16
<1>1. /\ x \in 0..15 /\ y \in 0..15 /\ z \in 0..15 /\ d \in 0..15
      /\ x * 4096 + y * 256 + z * 16 + d = c
  BY HexDigits
<1>2. e = <<Backslash, LetterU, HexByte(x), HexByte(y), HexByte(z), HexByte(d)>>
  BY SMT DEF UnicodeEscape
<1> HIDE DEF x, y, z, d
<1>3. /\ HexByte(x) \in Ascii /\ IsHex(HexByte(x)) /\ Digit(HexByte(x)) = x
      /\ HexByte(y) \in Ascii /\ IsHex(HexByte(y)) /\ Digit(HexByte(y)) = y
      /\ HexByte(z) \in Ascii /\ IsHex(HexByte(z)) /\ Digit(HexByte(z)) = z
      /\ HexByte(d) \in Ascii /\ IsHex(HexByte(d)) /\ Digit(HexByte(d)) = d
  BY <1>1, HexByteIs
<1>4. Backslash \in Ascii /\ LetterU \in Ascii
  BY DEF Backslash, LetterU, Ascii
<1> HIDE DEF e
<1>5. e \in Seq(Ascii) /\ Len(e) = 6
  BY <1>2, <1>3, <1>4
<1>6. /\ e[1] = Backslash /\ e[2] = LetterU
      /\ e[3] = HexByte(x) /\ e[4] = HexByte(y) /\ e[5] = HexByte(z) /\ e[6] = HexByte(d)
  BY <1>2
<1>7. 3 + 1 = 4 /\ 3 + 2 = 5 /\ 3 + 3 = 6
  OBVIOUS
<1>8. HexAt(e, 3)
  BY <1>3, <1>6, <1>7 DEF HexAt
<1>9. Unit(e, 3) = c
  <2>1. /\ Digit(e[3]) = x /\ Digit(e[3 + 1]) = y
        /\ Digit(e[3 + 2]) = z /\ Digit(e[3 + 3]) = d
    BY <1>3, <1>6, <1>7
  <2>2. Unit(e, 3) = x * 4096 + y * 256 + z * 16 + d
    BY <2>1 DEF Unit
  <2> QED
    BY <1>1, <2>2
<1> QED
  BY <1>5, <1>6, <1>8, <1>9 DEF e

\* Code units are told by their four bytes.
SameUnit(e, i, a, j) ==
    e[i] = a[j] /\ e[i + 1] = a[j + 1] /\ e[i + 2] = a[j + 2] /\ e[i + 3] = a[j + 3]

\* Code units with the same bytes are the same.
LEMMA UnitShared ==
    ASSUME NEW e, NEW a, NEW i, NEW j, SameUnit(e, i, a, j)
    PROVE  /\ HexAt(a, j) => HexAt(e, i)
           /\ Unit(e, i) = Unit(a, j)
<1>1. HexAt(a, j) => HexAt(e, i)
  BY Zenon DEF HexAt, SameUnit
<1>2. Unit(e, i) = Unit(a, j)
  BY SMT DEF Unit, SameUnit
<1> QED
  BY <1>1, <1>2

\* Two escapes behind each other.
LEMMA TwoEscapes ==
    ASSUME NEW a \in Seq(Ascii), NEW b \in Seq(Ascii), Len(a) = 6, Len(b) = 6
    PROVE  LET e == a \o b IN
           /\ e \in Seq(Ascii) /\ Len(e) = 12
           /\ e[1] = a[1] /\ e[2] = a[2] /\ e[7] = b[1] /\ e[8] = b[2]
           /\ e[3] = a[3] /\ e[3 + 1] = a[3 + 1] /\ e[3 + 2] = a[3 + 2] /\ e[3 + 3] = a[3 + 3]
           /\ e[9] = b[3] /\ e[9 + 1] = b[3 + 1] /\ e[9 + 2] = b[3 + 2] /\ e[9 + 3] = b[3 + 3]
<1>1. /\ a \o b \in Seq(Ascii)
      /\ Len(a \o b) = Len(a) + Len(b)
      /\ \A k \in 1..Len(a) + Len(b) : (a \o b)[k] = IF k <= Len(a) THEN a[k] ELSE b[k - Len(a)]
  BY ConcatProperties, Zenon
<1>2. Len(a) + Len(b) = 12
  OBVIOUS
<1>5. PICK e : e = a \o b
  OBVIOUS
<1>3. \A k \in 1..12 : e[k] = IF k <= 6 THEN a[k] ELSE b[k - 6]
  BY <1>1, <1>2, <1>5, Zenon
<1>4. Len(e) = 12
  BY <1>1, <1>2, <1>5, Zenon
<1>6. \A k \in 7..12 : e[k] = b[k - 6]
  BY <1>3
<1>7. \A k \in 1..6 : e[k] = a[k]
  BY <1>3
<1>8. /\ e[1] = a[1] /\ e[2] = a[2]
      /\ e[3] = a[3] /\ e[3 + 1] = a[3 + 1] /\ e[3 + 2] = a[3 + 2] /\ e[3 + 3] = a[3 + 3]
  BY <1>7
<1>9. /\ e[7] = b[1] /\ e[8] = b[2]
      /\ e[9] = b[3] /\ e[9 + 1] = b[3 + 1] /\ e[9 + 2] = b[3 + 2] /\ e[9 + 3] = b[3 + 3]
  BY <1>6
<1> QED
  BY <1>1, <1>4, <1>5, <1>8, <1>9, Zenon

\* A code point above 65535 as two escapes.
LEMMA SurrogateEscapesIs ==
    ASSUME NEW c \in Nat, 65536 <= c, c <= 1114111
    PROVE  LET e == SurrogateEscapes(c) IN
           /\ e \in Seq(Ascii) /\ Len(e) = 12
           /\ e[1] = Backslash /\ e[2] = LetterU /\ HexAt(e, 3) /\ Unit(e, 3) \in High
           /\ e[7] = Backslash /\ e[8] = LetterU /\ HexAt(e, 9) /\ Unit(e, 9) \in Low
           /\ 65536 + (Unit(e, 3) - 55296) * 1024 + (Unit(e, 9) - 56320) = c
<1> DEFINE e == SurrogateEscapes(c)
           o == c - 65536
           h == 55296 + (o \div 1024)
           l == 56320 + (o % 1024)
           a == UnicodeEscape(h)
           b == UnicodeEscape(l)
<1>1. /\ o \in Nat /\ o <= 1048575
  OBVIOUS
<1>2. e = a \o b
  BY SMT DEF SurrogateEscapes
<1>3. /\ h \in Nat /\ l \in Nat /\ h <= 56319 /\ l <= 57343 /\ h >= 55296 /\ l >= 56320
      /\ 65536 + (h - 55296) * 1024 + (l - 56320) = c
  <2>1. o = c - 65536
    OBVIOUS
  <2> HIDE DEF o
  <2>2. /\ o \div 1024 \in Nat /\ o % 1024 \in Nat /\ o \div 1024 <= 1023 /\ o % 1024 <= 1023
        /\ (o \div 1024) * 1024 + (o % 1024) = o
    BY <1>1
  <2> QED
    BY <1>1, <2>1, <2>2
<1>4. h \in High /\ l \in Low
  BY <1>3, SurrogateRanges
<1> HIDE DEF e, h, l
<1>5. h <= 65535 /\ l <= 65535
  BY <1>3
<1>6. /\ a \in Seq(Ascii) /\ Len(a) = 6
      /\ a[1] = Backslash /\ a[2] = LetterU /\ HexAt(a, 3) /\ Unit(a, 3) = h
      /\ b \in Seq(Ascii) /\ Len(b) = 6
      /\ b[1] = Backslash /\ b[2] = LetterU /\ HexAt(b, 3) /\ Unit(b, 3) = l
  BY <1>3, <1>5, UnicodeEscapeIs
<1> HIDE DEF a, b
<1>7. /\ e \in Seq(Ascii) /\ Len(e) = 12
      /\ e[1] = a[1] /\ e[2] = a[2] /\ e[7] = b[1] /\ e[8] = b[2]
      /\ e[3] = a[3] /\ e[3 + 1] = a[3 + 1] /\ e[3 + 2] = a[3 + 2] /\ e[3 + 3] = a[3 + 3]
      /\ e[9] = b[3] /\ e[9 + 1] = b[3 + 1] /\ e[9 + 2] = b[3 + 2] /\ e[9 + 3] = b[3 + 3]
  BY <1>2, <1>6, TwoEscapes
<1>8. HexAt(e, 3) /\ Unit(e, 3) = h
  <2>1. (HexAt(a, 3) => HexAt(e, 3)) /\ Unit(e, 3) = Unit(a, 3)
    <3>1. SameUnit(e, 3, a, 3)
      BY <1>7 DEF SameUnit
    <3> QED
      BY <3>1, UnitShared, SMT
  <2> QED
    BY <1>6, <2>1
<1>9. HexAt(e, 9) /\ Unit(e, 9) = l
  <2>1. (HexAt(b, 3) => HexAt(e, 9)) /\ Unit(e, 9) = Unit(b, 3)
    <3>1. SameUnit(e, 9, b, 3)
      BY <1>7 DEF SameUnit
    <3> QED
      BY <3>1, UnitShared, SMT
  <2> QED
    BY <1>6, <2>1
<1>10. 65536 + (Unit(e, 3) - 55296) * 1024 + (Unit(e, 9) - 56320) = c
  BY <1>3, <1>8, <1>9
<1>11. Unit(e, 3) \in High /\ Unit(e, 9) \in Low
  BY <1>4, <1>8, <1>9
<1>12. e[1] = Backslash /\ e[2] = LetterU /\ e[7] = Backslash /\ e[8] = LetterU
  BY <1>6, <1>7
<1> QED
  BY <1>7, <1>8, <1>9, <1>10, <1>11, <1>12 DEF e

\* The code point of a character of several bytes, by how many they are.
CodePointOf(p, n) ==
    /\ p \in Nat /\ p >= 128 /\ p <= 1114111
    /\ p \notin High /\ p \notin Low
    /\ n <= 3 <=> p <= 65535
    /\ n = 4 => p >= 65536

\* The code point of a character is no surrogate.
LEMMA CodePoint ==
    ASSUME NEW y \in Seq(Bytes), NEW n \in 2..4, Len(y) = n, IsCharacter(y)
    PROVE  CodePointOf(Payload(y), n)
<1>0. n \in 1..4
  OBVIOUS
<1>1. Payload(y) \in Nat /\ Scalars(Payload(y), n)
  BY <1>0, CharacterIs
<1>2. Payload(y) \notin High /\ Payload(y) \notin Low
  BY <1>1 DEF Scalars
<1>3. Payload(y) >= 128 /\ Payload(y) <= 1114111 /\ (n = 4 => Payload(y) >= 65536)
  BY <1>1 DEF Scalars
<1>4. Within(Payload(y), n, n)
  <2>1. Payload(y) = Payloads(y, n)[n]
    BY <1>0, PayloadIs
  <2>2. Completable(y) /\ Len(y) = EncodedLength(y[1])
    BY DEF IsCharacter
  <2>3. Within(Payloads(y, n)[n], EncodedLength(y[1]), n)
    BY <1>0, <2>2, CompletableIs
  <2> QED
    BY <2>1, <2>2, <2>3
<1>5. n = 2 \/ n = 3 => Payload(y) <= 65535
  <2>1. /\ Within(Payload(y), 2, 2) <=> 128 <= Payload(y) /\ Payload(y) <= 2047
        /\ Within(Payload(y), 3, 3) <=> \/ 2048 <= Payload(y) /\ Payload(y) <= 55295
                                        \/ 57344 <= Payload(y) /\ Payload(y) <= 65535
    BY <1>1, WithinIs
  <2> QED
    BY <1>1, <1>4, <2>1
<1> QED
  BY <1>1, <1>2, <1>3, <1>5 DEF CodePointOf

\* What is written for an item.
Image(y) ==
    IF y[1] < 128 THEN y
    ELSE IF Payload(y) <= 65535 THEN UnicodeEscape(Payload(y)) ELSE SurrogateEscapes(Payload(y))

\* The writer takes the length from the first byte.
LEMMA CodepointBytesIs ==
    ASSUME NEW c \in Bytes, c >= 128
    PROVE  CodepointBytes(c) = IF c < 224 THEN 2 ELSE IF c <= 239 THEN 3 ELSE 4
<1>1. c \in Int /\ 0 <= c /\ c <= 255
  BY DEF Bytes
<1>2. CASE c < 224
  BY <1>1, <1>2 DEF CodepointBytes
<1>3. CASE ~(c < 224) /\ c <= 239
  BY <1>1, <1>3 DEF CodepointBytes
<1>4. CASE ~(c < 224) /\ ~(c <= 239)
  BY <1>1, <1>4 DEF CodepointBytes
<1> QED
  BY <1>2, <1>3, <1>4

\* Hexadecimal digits are ASCII.
LEMMA HexIsAscii ==
    ASSUME NEW c, IsHex(c)
    PROVE  c \in Ascii
BY DEF IsHex, Ascii

\* The letters of escapes are ASCII.
LEMMA AsciiLetters ==
    /\ Backslash \in Ascii /\ LetterU \in Ascii /\ Letters \subseteq Ascii
    /\ Backslash \in Nat /\ Backslash < 128
BY DEF Backslash, LetterU, Letters, Ascii

\* An ASCII text is a text of bytes.
LEMMA AsciiIsBytes ==
    ASSUME NEW s \in Seq(Ascii)
    PROVE  s \in Seq(Bytes)
<1>1. Ascii \subseteq Bytes
  BY DEF Ascii, Bytes
<1> HIDE DEF Ascii, Bytes
<1> QED
  BY <1>1

\* An item is ASCII, or a character of several bytes.
LEMMA ItemOrCharacter ==
    ASSUME NEW y \in Seq(Bytes), IsItem(y), Len(y) \in ItemLengths
    PROVE  /\ y[1] \in Nat
           /\ y[1] < 128 => \A j \in 1..Len(y) : y[j] \in Ascii
           /\ y[1] >= 128 => IsCharacter(y) /\ Len(y) \in 2..4 /\ CodepointBytes(y[1]) = Len(y)
                             /\ y[1] # Backslash
<1>0. /\ Len(y) \in Nat /\ Len(y) >= 1 /\ Len(y) \in {1, 2, 3, 4, 6, 12}
      /\ \A j \in 1..Len(y) : y[j] \in Bytes
  <2>1. Len(y) \in {1, 2, 3, 4, 6, 12}
    BY DEF ItemLengths
  <2>2. \A j \in 1..Len(y) : y[j] \in Bytes
    OBVIOUS
  <2>3. PICK n \in {1, 2, 3, 4, 6, 12} : n = Len(y)
    BY <2>1
  <2>4. n \in Nat /\ n >= 1
    BY <2>3, SMT
  <2> QED
    BY <2>1, <2>2, <2>3, <2>4
<1>1. y[1] \in Bytes /\ y[1] \in Nat /\ y[1] <= 255
  <2>1. y[1] \in Bytes
    BY <1>0
  <2> QED
    BY <2>1 DEF Bytes
<1>2. CASE y[1] = Backslash
  <2>1. IsEscape(y) /\ (Len(y) = 2 => y[2] \in Letters)
    BY <1>2, Zenon DEF IsItem
    \* a character of one byte is not this one
  <2>2. Len(y) \in {2, 6, 12}
    BY <1>0, <2>1, NoShortEscape DEF ItemLengths
  <2>3. \A j \in 1..Len(y) : y[j] \in Ascii
    <3>1. CASE Len(y) = 2
      <4>1. y[1] \in Ascii /\ y[2] \in Ascii
        BY <1>2, <2>1, <3>1, AsciiLetters
      <4> QED
        BY <3>1, <4>1
    <3>2. CASE Len(y) = 6
      <4>1. /\ y[1] = Backslash /\ y[2] = LetterU /\ HexAt(y, 3)
        BY <2>1, <3>2, EscapeIs
      <4>2. IsHex(y[3]) /\ IsHex(y[4]) /\ IsHex(y[5]) /\ IsHex(y[6])
        BY <4>1 DEF HexAt
      <4>3. /\ y[1] \in Ascii /\ y[2] \in Ascii /\ y[3] \in Ascii
            /\ y[4] \in Ascii /\ y[5] \in Ascii /\ y[6] \in Ascii
        BY <4>1, <4>2, AsciiLetters, HexIsAscii, Zenon
      <4> QED
        BY <3>2, <4>3
    <3>3. CASE Len(y) = 12
      <4>1. /\ y[1] = Backslash /\ y[2] = LetterU /\ HexAt(y, 3)
            /\ y[7] = Backslash /\ y[8] = LetterU /\ HexAt(y, 9)
        BY <2>1, <3>3, EscapeIs
      <4>2. /\ IsHex(y[3]) /\ IsHex(y[4]) /\ IsHex(y[5]) /\ IsHex(y[6])
            /\ IsHex(y[9]) /\ IsHex(y[10]) /\ IsHex(y[11]) /\ IsHex(y[12])
        BY <4>1 DEF HexAt
      <4>3. /\ y[1] \in Ascii /\ y[2] \in Ascii /\ y[3] \in Ascii
            /\ y[4] \in Ascii /\ y[5] \in Ascii /\ y[6] \in Ascii
            /\ y[7] \in Ascii /\ y[8] \in Ascii /\ y[9] \in Ascii
            /\ y[10] \in Ascii /\ y[11] \in Ascii /\ y[12] \in Ascii
        BY <4>1, <4>2, AsciiLetters, HexIsAscii, Zenon
      <4> QED
        BY <3>3, <4>3
    <3> QED
      BY <2>2, <3>1, <3>2, <3>3
  <2>4. ~(y[1] >= 128)
    BY <1>2, AsciiLetters
  <2> QED
    BY <1>1, <2>3, <2>4
<1>3. CASE y[1] # Backslash
  <2>1. IsCharacter(y)
    BY <1>3, Zenon DEF IsItem
  <2>2. Len(y) = EncodedLength(y[1])
    BY <2>1, Zenon DEF IsCharacter
  <2>3. EncodedLength(y[1]) = IF y[1] <= 127 THEN 1 ELSE IF y[1] <= 191 THEN 0
                              ELSE IF y[1] <= 223 THEN 2 ELSE IF y[1] <= 239 THEN 3
                              ELSE IF y[1] <= 247 THEN 4 ELSE 0
    BY <1>1, EncodedLengthIs
  <2>4. y[1] < 128 => Len(y) = 1 /\ y[1] \in Ascii
    <3>1. y[1] < 128 => y[1] <= 127
      BY <1>1
    <3>2. y[1] <= 127 => EncodedLength(y[1]) = 1
      BY <2>3
    <3>3. y[1] <= 127 => y[1] \in Ascii
      <4>1. \A c \in Nat : c <= 127 => c \in Ascii
        BY DEF Ascii
      <4> HIDE DEF Ascii
      <4> QED
        BY <1>1, <4>1
    <3> QED
      BY <2>2, <3>1, <3>2, <3>3
  <2>5. y[1] >= 128 => Len(y) \in 2..4
    BY <1>0, <1>1, <2>2, <2>3
  <2>6. y[1] >= 128 => CodepointBytes(y[1]) = IF y[1] < 224 THEN 2 ELSE IF y[1] <= 239 THEN 3 ELSE 4
    BY <1>1, CodepointBytesIs
  <2>7. y[1] >= 128 => CodepointBytes(y[1]) = Len(y)
    BY <1>0, <1>1, <2>2, <2>3, <2>6
  <2> QED
    BY <1>1, <1>3, <2>1, <2>4, <2>5, <2>7
<1> QED
  BY <1>2, <1>3

\* The image of an item is ASCII, an item, and stands for the same.
LEMMA ImageIs ==
    ASSUME NEW y \in Seq(Bytes), IsItem(y), Len(y) \in ItemLengths
    PROVE  /\ Image(y) \in Seq(Ascii) /\ Image(y) \in Seq(Bytes)
           /\ Len(Image(y)) \in ItemLengths /\ Len(Image(y)) >= Len(y)
           /\ IsItem(Image(y)) /\ Scalar(Image(y)) = Scalar(y)
           /\ y[1] >= 128 => Len(Image(y)) = EscapedLength(Len(y))
<1>0. /\ y[1] \in Nat /\ Len(y) \in Nat
      /\ y[1] < 128 => \A j \in 1..Len(y) : y[j] \in Ascii
      /\ y[1] >= 128 => IsCharacter(y) /\ Len(y) \in 2..4 /\ CodepointBytes(y[1]) = Len(y)
                        /\ y[1] # Backslash
  BY ItemOrCharacter
<1>1. CASE y[1] < 128
  <2>1. Image(y) = y
    BY <1>1 DEF Image
  <2>2. y \in Seq(Ascii)
    <3>1. y = [j \in 1..Len(y) |-> y[j]]
      OBVIOUS
    <3>2. \A j \in 1..Len(y) : y[j] \in Ascii
      BY <1>0, <1>1
    <3> HIDE DEF Ascii
    <3> QED
      BY <1>0, <3>1, <3>2, IsASeq
  <2> QED
    BY <1>0, <1>1, <2>1, <2>2
<1>2. CASE y[1] >= 128
  <2> DEFINE p == Payload(y)
  <2>0. PICK n \in 2..4 : n = Len(y)
    BY <1>0, <1>2, SMT
  <2>1. /\ p \in Nat /\ p >= 128 /\ p <= 1114111 /\ p \notin High /\ p \notin Low
        /\ n <= 3 <=> p <= 65535
        /\ n = 4 => p >= 65536
    <3>1. IsCharacter(y) /\ Len(y) = n
      BY <1>0, <1>2, <2>0, SMT
    <3>2. CodePointOf(p, n)
      BY <3>1, CodePoint, Zenon
    <3> QED
      BY <3>2, SMT DEF CodePointOf
  <2>2. Scalar(y) = p
    BY <1>0, <1>2, ScalarIs, SMT
  <2>3. ~(y[1] < 128)
    BY <1>0, <1>2, SMT
  <2> HIDE DEF p
  <2>4. CASE p <= 65535
    <3> DEFINE e == UnicodeEscape(p)
    <3>1. Image(y) = e
      BY <2>3, <2>4, SMT DEF Image, p
    <3>2. /\ e \in Seq(Ascii) /\ Len(e) = 6
          /\ e[1] = Backslash /\ e[2] = LetterU /\ HexAt(e, 3) /\ Unit(e, 3) = p
      BY <2>1, <2>4, UnicodeEscapeIs, SMT
    <3> HIDE DEF e
    <3>3. e \in Seq(Bytes)
      BY <3>2, AsciiIsBytes, SMT
    <3>4. IsEscape(e)
      BY <2>1, <3>2, <3>3, EscapeIs, SMT
    <3>5. IsItem(e)
      BY <3>2, <3>4, SMT DEF IsItem
    <3>6. Scalar(e) = p
      BY <3>2, ScalarIs, SMT
    <3>7. EscapedLength(Len(y)) = 6 /\ 6 \in ItemLengths /\ 6 >= Len(y)
      BY <2>0, <2>1, <2>4, SMT DEF EscapedLength, ItemLengths
    <3> QED
      BY <2>2, <3>1, <3>2, <3>3, <3>5, <3>6, <3>7, SMT
  <2>5. CASE ~(p <= 65535)
    <3> DEFINE e == SurrogateEscapes(p)
    <3>1. Image(y) = e
      BY <2>3, <2>5, SMT DEF Image, p
    <3>0. p >= 65536
      BY <2>1, <2>5, SMT
    <3>2. /\ e \in Seq(Ascii) /\ Len(e) = 12
          /\ e[1] = Backslash /\ e[2] = LetterU /\ HexAt(e, 3) /\ Unit(e, 3) \in High
          /\ e[7] = Backslash /\ e[8] = LetterU /\ HexAt(e, 9) /\ Unit(e, 9) \in Low
          /\ 65536 + (Unit(e, 3) - 55296) * 1024 + (Unit(e, 9) - 56320) = p
      BY <2>1, <3>0, SurrogateEscapesIs, SMT
    <3> HIDE DEF e
    <3>3. e \in Seq(Bytes)
      BY <3>2, AsciiIsBytes, SMT
    <3>a. Unit(e, 3) \notin Low
      BY <3>2, SurrogateRanges, SMT
    <3>4. IsEscape(e)
      BY <3>2, <3>3, <3>a, EscapeIs, SMT
    <3>5. IsItem(e)
      BY <3>2, <3>4, SMT DEF IsItem
    <3>6. Scalar(e) = p
      BY <3>2, ScalarIs, SMT
    <3>7. EscapedLength(Len(y)) = 12 /\ 12 \in ItemLengths /\ 12 >= Len(y)
      BY <2>0, <2>1, <2>5, SMT DEF EscapedLength, ItemLengths
    <3> QED
      BY <2>2, <3>1, <3>2, <3>3, <3>5, <3>6, <3>7, SMT
  <2> QED
    BY <2>4, <2>5, SMT
<1> QED
  BY <1>0, <1>1, <1>2

(***************************************************************************)
(* The two passes over the text.                                           *)
(***************************************************************************)

\* What the writer can write, whatever the text.
Codes(t) == {Payload(SubSeq(t, p, p + n - 1)) : p \in Nat, n \in 2..4}
Units(t) == Codes(t) \cup {55296 + ((c - 65536) \div 1024) : c \in Codes(t)}
                     \cup {56320 + ((c - 65536) % 1024) : c \in Codes(t)}
Written(t) == Bytes \cup {UnicodeEscape(u)[j] : u \in Units(t), j \in 1..6}

WriteStates(t) == [at : Nat \ {0}, written : Seq(Written(t))]
WriteStart == [at |-> 1, written |-> <<>>]

SizeStates == [at : Nat \ {0}, length : Int]
SizeStart(t) == [at |-> 1, length |-> Len(t)]

\* What is written for a code unit, and for a code point.
LEMMA UnitWritten ==
    ASSUME NEW t, NEW u \in Units(t)
    PROVE  UnicodeEscape(u) \in Seq(Written(t))
<1>1. PICK a, b, c, d, x, y : UnicodeEscape(u) = <<a, b, c, d, x, y>>
  BY SMT DEF UnicodeEscape
<1> DEFINE V == Written(t)
<1>2. \A j \in 1..6 : UnicodeEscape(u)[j] \in V
  BY SMT DEF Written
<1> HIDE DEF V
<1>3. a \in V /\ b \in V /\ c \in V /\ d \in V /\ x \in V /\ y \in V
  <2>1. \A j \in 1..6 : <<a, b, c, d, x, y>>[j] \in V
    BY <1>1, <1>2
  <2> QED
    BY <2>1
<1> QED
  BY <1>1, <1>3 DEF V

\* The escapes of a code consist of bytes that may be written.
LEMMA CodeWritten ==
    ASSUME NEW t, NEW c \in Codes(t)
    PROVE  UnicodeEscape(c) \in Seq(Written(t)) /\ SurrogateEscapes(c) \in Seq(Written(t))
<1>1. c \in Units(t) /\ 55296 + ((c - 65536) \div 1024) \in Units(t)
      /\ 56320 + ((c - 65536) % 1024) \in Units(t)
  BY SMT DEF Units
<1>2. PICK h \in Units(t), l \in Units(t) :
             SurrogateEscapes(c) = UnicodeEscape(h) \o UnicodeEscape(l)
  <2>1. PICK h \in Units(t) : h = 55296 + ((c - 65536) \div 1024)
    BY <1>1, SMTT(30)
  <2>2. PICK l \in Units(t) : l = 56320 + ((c - 65536) % 1024)
    BY <1>1, SMTT(30)
  <2>3. SurrogateEscapes(c) = UnicodeEscape(h) \o UnicodeEscape(l)
    BY <2>1, <2>2, SMTT(30) DEF SurrogateEscapes
  <2> QED
    BY <2>3, Zenon
<1>3. /\ UnicodeEscape(c) \in Seq(Written(t)) /\ UnicodeEscape(h) \in Seq(Written(t))
      /\ UnicodeEscape(l) \in Seq(Written(t))
  BY <1>1, UnitWritten
<1>4. UnicodeEscape(h) \o UnicodeEscape(l) \in Seq(Written(t))
  BY <1>3, ConcatProperties, Zenon
<1> QED
  BY <1>2, <1>3, <1>4

\* What the writer makes of a character.
Escaped(code) == IF code <= 65535 THEN UnicodeEscape(code) ELSE SurrogateEscapes(code)

\* A round of the writer, by the byte it is at.
LEMMA WriteRoundIs ==
    ASSUME NEW t \in Seq(Bytes), NEW x, x.at \in Nat \ {0}
    PROVE  LET n == CodepointBytes(t[x.at]) IN
           /\ x.at > Len(t) => AsciiWriteRound(t, x) = x
           /\ x.at <= Len(t) /\ t[x.at] < 128 =>
                 AsciiWriteRound(t, x) = [at |-> x.at + 1, written |-> Append(x.written, t[x.at])]
           /\ x.at <= Len(t) /\ ~(t[x.at] < 128) =>
                 /\ n \in 2..4
                 /\ AsciiWriteRound(t, x) =
                       [at |-> x.at + n,
                        written |-> x.written \o Escaped(Payload(SubSeq(t, x.at, x.at + n - 1)))]
<1>1. ASSUME x.at > Len(t)
      PROVE  AsciiWriteRound(t, x) = x
  <2>1. PICK r : AsciiWriteRound(t, x) = IF x.at > Len(t) THEN x ELSE r
    BY SMT DEF AsciiWriteRound
  <2> QED
    BY <1>1, <2>1, Zenon
<1>2. ASSUME x.at <= Len(t)
      PROVE  ~(x.at > Len(t)) /\ t[x.at] \in Bytes
  BY <1>2
<1>3. ASSUME x.at <= Len(t), t[x.at] < 128
      PROVE  AsciiWriteRound(t, x) = [at |-> x.at + 1, written |-> Append(x.written, t[x.at])]
  BY <1>2, <1>3 DEF AsciiWriteRound
<1>4. ASSUME x.at <= Len(t), ~(t[x.at] < 128)
      PROVE  LET n == CodepointBytes(t[x.at]) IN
             /\ n \in 2..4
             /\ AsciiWriteRound(t, x) =
                       [at |-> x.at + n,
                        written |-> x.written \o Escaped(Payload(SubSeq(t, x.at, x.at + n - 1)))]
  <2>1. t[x.at] \in Bytes /\ ~(x.at > Len(t))
    BY <1>2, <1>4
  <2>2. t[x.at] >= 128
    BY <1>4, <2>1 DEF Bytes
  <2>3. CodepointBytes(t[x.at]) \in 2..4
    BY <2>1, <2>2, CodepointBytesIs
  <2>4. AsciiWriteRound(t, x) =
          LET n == CodepointBytes(t[x.at]) IN
                       [at |-> x.at + n,
                        written |-> x.written \o Escaped(Payload(SubSeq(t, x.at, x.at + n - 1)))]
    BY <1>4, <2>1, SMT DEF AsciiWriteRound, Escaped
  <2> QED
    BY <2>3, <2>4
<1> QED
  BY <1>1, <1>3, <1>4

\* A round of the writer keeps the types.
LEMMA WriteTypes ==
    ASSUME NEW t \in Seq(Bytes)
    PROVE  /\ WriteStart \in WriteStates(t)
           /\ \A x \in WriteStates(t) : AsciiWriteRound(t, x) \in WriteStates(t)
<1> DEFINE V == Written(t)
<1>1. WriteStart \in WriteStates(t)
  BY DEF WriteStart, WriteStates
<1>2. ASSUME NEW x \in WriteStates(t) PROVE AsciiWriteRound(t, x) \in WriteStates(t)
  <2>1. x.at \in Nat \ {0} /\ x.written \in Seq(V)
    BY DEF WriteStates
  <2>2. Bytes \subseteq V
    BY SMT DEF Written
  <2>w. \A a \in Nat \ {0}, w \in Seq(V) : [at |-> a, written |-> w] \in WriteStates(t)
    BY DEF WriteStates
  <2> HIDE DEF V
  <2>3. CASE x.at > Len(t)
    BY <2>1, <2>3, WriteRoundIs
  <2>4. CASE x.at <= Len(t) /\ t[x.at] < 128
    <3>1. t[x.at] \in V
      BY <2>1, <2>2, <2>4
    <3>2. Append(x.written, t[x.at]) \in Seq(V) /\ x.at + 1 \in Nat \ {0}
      BY <2>1, <3>1
    <3>3. AsciiWriteRound(t, x) = [at |-> x.at + 1, written |-> Append(x.written, t[x.at])]
      BY <2>1, <2>4, WriteRoundIs
    <3> QED
      BY <2>w, <3>2, <3>3
  <2>5. CASE x.at <= Len(t) /\ ~(t[x.at] < 128)
    <3> DEFINE n == CodepointBytes(t[x.at])
               code == Payload(SubSeq(t, x.at, x.at + n - 1))
    <3>1. n \in 2..4
          /\ AsciiWriteRound(t, x) = [at |-> x.at + n, written |-> x.written \o Escaped(code)]
      BY <2>1, <2>5, WriteRoundIs
    <3>2. code \in Codes(t)
      BY <2>1, <3>1 DEF Codes
    <3> HIDE DEF n, code
    <3>3. Escaped(code) \in Seq(V)
      BY <3>2, CodeWritten, SMT DEF Escaped, V
    <3>4. x.written \o Escaped(code) \in Seq(V) /\ x.at + n \in Nat \ {0}
      BY <2>1, <3>1, <3>3
    <3> QED
      BY <2>w, <3>1, <3>4
  <2> QED
    BY <2>1, <2>3, <2>4, <2>5
<1> QED
  BY <1>1, <1>2

IsWrite(f, t) ==
    f = [k \in 0..Len(t) |-> IF k = 0 THEN WriteStart ELSE AsciiWriteRound(t, f[k - 1])]

\* The writer as a run.
LEMMA WriteRuns ==
    ASSUME NEW t \in Seq(Bytes)
    PROVE  \E f \in [0..Len(t) -> WriteStates(t)] :
              /\ f[0] = WriteStart /\ \A k \in 1..Len(t) : f[k] = AsciiWriteRound(t, f[k - 1])
              /\ AsciiWrite(t) = f[Len(t)].written
<1> DEFINE n == Len(t)
           S == WriteStates(t)
           b == WriteStart
           step == [x \in S \X (1..n) |-> AsciiWriteRound(t, x[1])]
<1>t. b \in S /\ \A x \in S : AsciiWriteRound(t, x) \in S
  BY WriteTypes
<1>S. S = WriteStates(t)
  OBVIOUS
<1> HIDE DEF S
<1>0. n \in Nat /\ b \in S
  BY <1>t
<1>1. IsStep(step, S, n)
  <2> SUFFICES ASSUME NEW x \in S \X (1..n)
               PROVE  AsciiWriteRound(t, x[1]) \in S
    BY DEF IsStep
  <2>1. x[1] \in S
    OBVIOUS
  <2> QED
    BY <1>t, <2>1, Zenon
<1>2. PICK f : /\ f \in [0..n -> S]
               /\ f[0] = b /\ \A k \in 1..n : f[k] = step[<<f[k - 1], k>>]
  <2> HIDE DEF step, n, b
  <2>1. \E f : Solution(f, S, n, b, step)
    BY <1>0, <1>1, Recursion, Zenon
  <2> QED
    BY <2>1 DEF Solution
<1>3. \A k \in 1..n : f[k] = AsciiWriteRound(t, f[k - 1])
  <2> SUFFICES ASSUME NEW k \in 1..n
               PROVE  f[k] = AsciiWriteRound(t, f[k - 1])
    OBVIOUS
  <2>1. f[k - 1] \in S
    BY <1>2
  <2> QED
    BY <1>2, <2>1
<1>4. IsWrite(f, t)
  BY <1>2, <1>3 DEF IsWrite
<1>5. AsciiWrite(t) = (CHOOSE g : IsWrite(g, t))[Len(t)].written
  BY Zenon DEF AsciiWrite, IsWrite, WriteStart
<1>6. ASSUME NEW g, IsWrite(g, t) PROVE g[n] = f[n]
  <2>1. f[0] = g[0] /\ \A k \in 1..n : f[k - 1] = g[k - 1] => f[k] = g[k]
    BY <1>4, <1>6 DEF IsWrite
  <2> HIDE DEF n
  <2>2. Lockstep(f, g, n)
    BY <2>1 DEF Lockstep
  <2> QED
    BY <1>0, <2>2, SameSteps, Zenon
<1>7. (CHOOSE g : IsWrite(g, t))[n] = f[n]
  BY <1>4, <1>6, Zenon
<1> QED
  BY <1>2, <1>3, <1>5, <1>7, <1>S

\* A round of the pass that counts keeps the types.
LEMMA SizeTypes ==
    ASSUME NEW t \in Seq(Bytes)
    PROVE  /\ SizeStart(t) \in SizeStates
           /\ \A x \in SizeStates : AsciiSizeRound(t, x) \in SizeStates
<1>1. SizeStart(t) \in SizeStates
  BY DEF SizeStart, SizeStates
<1>2. ASSUME NEW x \in SizeStates PROVE AsciiSizeRound(t, x) \in SizeStates
  <2>1. x.at \in Nat \ {0} /\ x.length \in Int
    BY DEF SizeStates
  <2>2. CASE x.at > Len(t)
    BY <2>2 DEF AsciiSizeRound
  <2>3. CASE ~(x.at > Len(t)) /\ t[x.at] < 128
    <3>1. AsciiSizeRound(t, x) = [x EXCEPT !.at = @ + 1]
      BY <2>3 DEF AsciiSizeRound
    <3>2. x.at + 1 \in Nat \ {0}
      BY <2>1
    <3> QED
      BY <2>1, <3>1, <3>2 DEF SizeStates
  <2>4. CASE ~(x.at > Len(t)) /\ ~(t[x.at] < 128)
    <3>1. PICK n : n = Utf8Length(t, x.at)
      OBVIOUS
    <3>2. n \in 0..4
      <4>1. x.at \in 1..Len(t)
        BY <2>1, <2>4
      <4> QED
        BY <3>1, <4>1, CharactersHere
    <3>3. AsciiSizeRound(t, x) = [at |-> x.at + n, length |-> x.length + EscapedLength(n) - n]
      BY <2>4, <3>1 DEF AsciiSizeRound
    <3>4. x.at + n \in Nat \ {0} /\ x.length + EscapedLength(n) - n \in Int
      BY <2>1, <3>2 DEF EscapedLength
    <3> QED
      BY <3>3, <3>4 DEF SizeStates
  <2> QED
    BY <2>2, <2>3, <2>4
<1> QED
  BY <1>1, <1>2

IsSize(f, t) ==
    f = [k \in 0..Len(t) |-> IF k = 0 THEN SizeStart(t) ELSE AsciiSizeRound(t, f[k - 1])]

\* The pass that counts as a run.
LEMMA SizeRuns ==
    ASSUME NEW t \in Seq(Bytes)
    PROVE  \E f \in [0..Len(t) -> SizeStates] :
              /\ f[0] = SizeStart(t) /\ \A k \in 1..Len(t) : f[k] = AsciiSizeRound(t, f[k - 1])
              /\ AsciiSize(t) = f[Len(t)].length
<1> DEFINE n == Len(t)
           S == SizeStates
           b == SizeStart(t)
           step == [x \in S \X (1..n) |-> AsciiSizeRound(t, x[1])]
<1>t. b \in S /\ \A x \in S : AsciiSizeRound(t, x) \in S
  BY SizeTypes
<1>S. S = SizeStates
  OBVIOUS
<1> HIDE DEF S
<1>0. n \in Nat /\ b \in S
  BY <1>t
<1>1. IsStep(step, S, n)
  <2> SUFFICES ASSUME NEW x \in S \X (1..n)
               PROVE  AsciiSizeRound(t, x[1]) \in S
    BY DEF IsStep
  <2>1. x[1] \in S
    OBVIOUS
  <2> QED
    BY <1>t, <2>1, Zenon
<1>2. PICK f : /\ f \in [0..n -> S]
               /\ f[0] = b /\ \A k \in 1..n : f[k] = step[<<f[k - 1], k>>]
  <2> HIDE DEF step, n, b
  <2>1. \E f : Solution(f, S, n, b, step)
    BY <1>0, <1>1, Recursion, Zenon
  <2> QED
    BY <2>1 DEF Solution
<1>3. \A k \in 1..n : f[k] = AsciiSizeRound(t, f[k - 1])
  <2> SUFFICES ASSUME NEW k \in 1..n
               PROVE  f[k] = AsciiSizeRound(t, f[k - 1])
    OBVIOUS
  <2>1. f[k - 1] \in S
    BY <1>2
  <2> QED
    BY <1>2, <2>1
<1>4. IsSize(f, t)
  BY <1>2, <1>3 DEF IsSize
<1>5. AsciiSize(t) = (CHOOSE g : IsSize(g, t))[Len(t)].length
  BY Zenon DEF AsciiSize, IsSize, SizeStart
<1>6. ASSUME NEW g, IsSize(g, t) PROVE g[n] = f[n]
  <2>1. f[0] = g[0] /\ \A k \in 1..n : f[k - 1] = g[k - 1] => f[k] = g[k]
    BY <1>4, <1>6 DEF IsSize
  <2> HIDE DEF n
  <2>2. Lockstep(f, g, n)
    BY <2>1 DEF Lockstep
  <2> QED
    BY <1>0, <2>2, SameSteps, Zenon
<1>7. (CHOOSE g : IsSize(g, t))[n] = f[n]
  BY <1>4, <1>6, Zenon
<1> QED
  BY <1>2, <1>3, <1>5, <1>7, <1>S

(***************************************************************************)
(* A string without what follows it.                                       *)
(***************************************************************************)

\* The state after each round of the items of t.
Finds(t, f) ==
    /\ f \in [0..Len(t) -> ItemStates]
    /\ f[0] = ItemsStart /\ \A k \in 1..Len(t) : f[k] = ItemRound(t, f[k - 1])

\* A loop that stands still once stands still to its end.
Stands(f, k, n) == \A j \in k + 1..n : f[j - 1] = f[k] => f[j] = f[k]
Still(f, k, n) == f[n] = f[k]

\* A run that stands still at each step stands still.
LEMMA StandsStill ==
    ASSUME NEW n \in Nat, NEW k \in 0..n, NEW f, Stands(f, k, n)
    PROVE  Still(f, k, n)
<1> DEFINE T == {j \in 0..n : j >= k => f[j] = f[k]}
<1>1. 0 \in T
  OBVIOUS
<1>2. ASSUME NEW j \in 1..n, j - 1 \in T PROVE j \in T
  <2>1. CASE j >= k + 1
    <3>1. j - 1 >= k /\ j \in k + 1..n
      BY <2>1
    <3>2. f[j - 1] = f[k]
      BY <1>2, <3>1
    <3> QED
      BY <3>1, <3>2 DEF Stands
  <2>2. CASE j = k
    BY <2>2
  <2>3. CASE j < k
    BY <2>3
  <2> QED
    BY <2>1, <2>2, <2>3
<1>3. \A j \in 0..n : j \in T
  <2> HIDE DEF T
  <2> QED
    BY <1>1, <1>2, AllRounds
<1>4. n \in T /\ n >= k
  BY <1>3
<1> QED
  BY <1>4 DEF Still

\* What a round of the items does.
After(t, r, n) ==
    [at |-> r.at + n, items |-> Append(r.items, Piece(t, r.at, n)),
     decoded |-> r.decoded + Decoded(Piece(t, r.at, n))]
Takes(t, r, n) ==
    /\ n \in ItemLengths /\ n \in Nat /\ n >= 1
    /\ Items(t, r.at) = {n} /\ r.at \in 1..Len(t) /\ r.at + n - 1 <= Len(t)
    /\ Piece(t, r.at, n) \in Seq(Bytes) /\ Len(Piece(t, r.at, n)) = n
    /\ IsItem(Piece(t, r.at, n)) /\ Piece(t, r.at, n)[1] = t[r.at]
    /\ ItemRound(t, r) = After(t, r, n)
Stops(t, r) == Items(t, r.at) = {} /\ ItemRound(t, r) = r

\* A round of the items takes one or stops.
LEMMA ItemStep ==
    ASSUME NEW t \in Seq(Bytes), NEW r \in ItemStates
    PROVE  Stops(t, r) \/ \E n : Takes(t, r, n)
<1>0. r.at \in Nat \ {0}
  BY DEF ItemStates
<1>1. ASSUME Items(t, r.at) = {} PROVE Stops(t, r)
  <2>1. ItemRound(t, r) = r
    BY <1>1, Zenon DEF ItemRound
  <2> QED
    BY <1>1, <2>1 DEF Stops
<1>2. ASSUME Items(t, r.at) # {} PROVE \E n : Takes(t, r, n)
  <2> DEFINE n == DomCharacter(t, r.at).bytes
             s == Piece(t, r.at, n)
  <2>1. /\ r.at \in 1..Len(t)
        /\ Items(t, r.at) = {n} /\ n \in ItemLengths
        /\ r.at + n - 1 <= Len(t) /\ Len(s) = n /\ s \in Seq(Bytes)
    BY <1>0, <1>2, OneItem, Zenon
  <2>2. ItemRound(t, r) = [at |-> r.at + Len(s), items |-> Append(r.items, s),
                           decoded |-> r.decoded + Decoded(s)]
    BY <2>1, ItemRoundIs
  <2> HIDE DEF n, s
  <2>3. n \in Nat \ {0}
    BY <2>1 DEF ItemLengths
  <2>4. n \in Items(t, r.at)
    BY <2>1
  <2>5. IsItem(s)
    BY <1>0, <2>4, ItemsAre DEF s
  <2>6. s[1] = t[r.at]
    BY <2>1, <2>3, IsItemIs DEF s
  <2>7. ItemRound(t, r) = After(t, r, n)
    BY <2>1, <2>2 DEF After, s
  <2>8. Takes(t, r, n)
    BY <2>1, <2>3, <2>5, <2>6, <2>7 DEF Takes, s
  <2> QED
    BY <2>8
<1> QED
  BY <1>1, <1>2

\* The items end where there is none, and until then a round takes a byte.
LEMMA ItemsEnd ==
    ASSUME NEW t \in Seq(Bytes), NEW f, Finds(t, f)
    PROVE  /\ \A k \in 0..Len(t) : Items(t, f[k].at) = {} => f[Len(t)] = f[k]
           /\ \A k \in 0..Len(t) : Items(t, f[k].at) = {} \/ f[k].at >= k + 2
           /\ \A k \in 0..Len(t) : f[k].at <= f[Len(t)].at
<1>0. /\ Len(t) \in Nat /\ \A k \in 0..Len(t) : f[k] \in ItemStates /\ f[k].at \in Nat
      /\ f[0] = ItemsStart /\ \A k \in 1..Len(t) : f[k] = ItemRound(t, f[k - 1])
  <2>1. \A k \in 0..Len(t) : f[k] \in ItemStates
    BY DEF Finds
  <2> QED
    BY <2>1 DEF Finds, ItemStates
<1>1. ASSUME NEW k \in 0..Len(t), Items(t, f[k].at) = {} PROVE f[Len(t)] = f[k]
  <2>1. Stands(f, k, Len(t))
    <3> SUFFICES ASSUME NEW j \in k + 1..Len(t), f[j - 1] = f[k] PROVE f[j] = f[k]
      BY DEF Stands
    <3>1. j \in 1..Len(t)
      BY <1>0
    <3>2. f[j] = ItemRound(t, f[k])
      BY <1>0, <3>1
    <3>3. ItemRound(t, f[k]) = f[k]
      BY <1>1, Zenon DEF ItemRound
    <3> QED
      BY <3>2, <3>3
  <2>2. Still(f, k, Len(t))
    BY <1>0, <2>1, StandsStill, Zenon
  <2> QED
    BY <2>2 DEF Still
<1> DEFINE T == {k \in 0..Len(t) : Items(t, f[k].at) = {} \/ f[k].at >= k + 2}
           U == {k \in 0..Len(t) : \A i \in 0..k : f[i].at <= f[k].at}
<1>2. 0 \in T /\ 0 \in U
  <2>1. f[0].at = 2
    BY <1>0 DEF ItemsStart
  <2>2. \A i \in 0..0 : i = 0
    OBVIOUS
  <2> QED
    BY <1>0, <2>1, <2>2
<1>3. ASSUME NEW k \in 1..Len(t)
      PROVE  /\ k - 1 \in T => k \in T
             /\ k - 1 \in U => k \in U
  <2>0. PICK p \in Nat : p = k - 1 /\ p + 1 = k /\ p \in 0..Len(t) /\ k \in 0..Len(t)
    OBVIOUS
  <2>1. f[k] = ItemRound(t, f[p]) /\ f[p] \in ItemStates /\ f[p].at \in Nat
    BY <1>0, <2>0
  <2>2. CASE Stops(t, f[p])
    <3>1. f[k] = f[p] /\ Items(t, f[k].at) = {}
      BY <2>1, <2>2 DEF Stops
    <3>2. k \in T
      BY <2>0, <3>1
    <3>3. p \in U => k \in U
      <4>1. \A i \in 0..k : i = k \/ i \in 0..p
        BY <2>0
      <4> QED
        BY <1>0, <2>0, <2>1, <3>1, <4>1
    <3> QED
      BY <2>0, <3>2, <3>3
  <2>3. ASSUME NEW n, Takes(t, f[p], n)
        PROVE  /\ k - 1 \in T => k \in T
               /\ k - 1 \in U => k \in U
    <3>1. f[k].at = f[p].at + n /\ n \in Nat /\ n >= 1
      BY <2>1, <2>3 DEF Takes, After
    <3>2. p \in T => k \in T
      <4>1. Items(t, f[p].at) # {}
        BY <2>3 DEF Takes
      <4>2. p \in T => f[p].at >= p + 2
        BY <4>1
      <4>3. f[p].at >= p + 2 => f[k].at >= k + 2
        BY <2>0, <2>1, <3>1
      <4> QED
        BY <2>0, <4>2, <4>3
    <3>3. p \in U => k \in U
      <4>1. \A i \in 0..k : i = k \/ i \in 0..p
        BY <2>0
      <4>2. ASSUME p \in U, NEW i \in 0..k PROVE f[i].at <= f[k].at
        <5>1. CASE i = k
          BY <1>0, <2>0, <5>1
        <5>2. CASE i \in 0..p
          <6>1. f[i].at <= f[p].at
            BY <4>2, <5>2
          <6>2. f[i].at \in Nat
            BY <1>0, <2>0
          <6> QED
            BY <2>1, <3>1, <6>1, <6>2
        <5> QED
          BY <4>1, <5>1, <5>2
      <4> QED
        BY <2>0, <4>2
    <3> QED
      BY <2>0, <3>2, <3>3
  <2> QED
    BY <2>1, <2>2, <2>3, ItemStep
<1>4. \A k \in 0..Len(t) : k \in T
  <2> HIDE DEF T, U
  <2> QED
    BY <1>0, <1>2, <1>3, AllRounds
<1>5. \A k \in 0..Len(t) : k \in U
  <2> HIDE DEF T, U
  <2> QED
    BY <1>0, <1>2, <1>3, AllRounds
<1>6. \A k \in 0..Len(t) : f[k].at <= f[Len(t)].at
  <2>1. Len(t) \in U
    BY <1>0, <1>5
  <2> QED
    BY <2>1
<1> QED
  BY <1>1, <1>4, <1>6

\* Pieces below a place are those of the text that ends there.
LEMMA PieceShared ==
    ASSUME NEW t \in Seq(Bytes), NEW d \in Nat, d <= Len(t), NEW i \in Nat \ {0}, NEW n \in Nat \ {0},
           i + n - 1 <= d
    PROVE  Piece(SubSeq(t, 1, d), i, n) = Piece(t, i, n)
<1> DEFINE s == SubSeq(t, 1, d)
<1>1. s \in Seq(Bytes) /\ Len(s) = d /\ \A j \in 1..d : s[j] = t[j]
  OBVIOUS
<1> HIDE DEF s
<1>2. i \in 1..Len(s) /\ i \in 1..Len(t) /\ i + n - 1 <= Len(s) /\ i + n - 1 <= Len(t)
  BY <1>1
<1> DEFINE x == Piece(s, i, n)
           y == Piece(t, i, n)
<1>3. x \in Seq(Bytes) /\ Len(x) = n /\ \A j \in 1..n : x[j] = s[i + j - 1]
  BY <1>1, <1>2, PieceIs
<1>4. y \in Seq(Bytes) /\ Len(y) = n /\ \A j \in 1..n : y[j] = t[i + j - 1]
  BY <1>2, PieceIs
<1> HIDE DEF x, y
<1>5. ASSUME NEW j \in 1..n PROVE x[j] = y[j]
  <2>1. i + j - 1 \in 1..d
    OBVIOUS
  <2> QED
    BY <1>1, <1>3, <1>4, <2>1
<1>6. x = y
  BY <1>3, <1>4, <1>5, SeqEqual
<1> QED
  BY <1>6 DEF x, y, s

\* A string that passes is items from quote to quote.
Quoted(s) ==
    /\ s \in Seq(Bytes) /\ Len(s) >= 2 /\ s[1] = Quote /\ s[Len(s)] = Quote
    /\ ItemsOf(s).at = Len(s)

\* What the scanner passes is items between two quotes.
LEMMA StringQuoted ==
    ASSUME NEW t \in Seq(Bytes), t # <<>>, t[1] = Quote, DomString(t).verdict = "ok"
    PROVE  Quoted(SubSeq(t, 1, DomString(t).at))
<1> DEFINE d == DomString(t).at
           s == SubSeq(t, 1, d)
<1>1. /\ ItemsOf(t) \in ItemStates /\ d = ItemsOf(t).at
      /\ d <= Len(t) /\ t[d] = Quote
  BY ScannedTogether DEF InStep, Closes
<1>2. d \in Nat
  BY <1>1 DEF ItemStates
<1> HIDE DEF d
<1>3. s \in Seq(Bytes) /\ Len(s) = d /\ \A j \in 1..d : s[j] = t[j]
  BY <1>1, <1>2
<1>4. PICK f : Finds(t, f) /\ ItemsOf(t) = f[Len(t)]
  BY ItemsRun, Zenon DEF Finds
<1>5. PICK g : Finds(s, g) /\ ItemsOf(s) = g[Len(s)]
  BY <1>3, ItemsRun, Zenon DEF Finds
<1>p. \A i \in Nat \ {0}, n \in Nat \ {0} : i + n - 1 <= d => Piece(s, i, n) = Piece(t, i, n)
  BY <1>1, <1>2, PieceShared
<1> HIDE DEF s
<1>6. /\ \A k \in 0..Len(t) : Items(t, f[k].at) = {} => f[Len(t)] = f[k]
      /\ \A k \in 0..Len(t) : f[k].at <= d
      /\ d = f[Len(t)].at
  BY <1>1, <1>4, ItemsEnd
<1>7. /\ \A k \in 0..Len(s) : Items(s, g[k].at) = {} => g[Len(s)] = g[k]
      /\ \A k \in 0..Len(s) : Items(s, g[k].at) = {} \/ g[k].at >= k + 2
  BY <1>3, <1>5, ItemsEnd
<1>8. /\ \A k \in 0..Len(t) : f[k] \in ItemStates
      /\ f[0] = ItemsStart /\ \A k \in 1..Len(t) : f[k] = ItemRound(t, f[k - 1])
      /\ \A k \in 0..Len(s) : g[k] \in ItemStates
      /\ g[0] = ItemsStart /\ \A k \in 1..Len(s) : g[k] = ItemRound(s, g[k - 1])
  BY <1>4, <1>5 DEF Finds
<1>9. d >= 2
  <2>1. f[0].at = 2 /\ f[0].at <= d
    BY <1>6, <1>8 DEF ItemsStart
  <2> QED
    BY <2>1
<1> DEFINE T == {k \in 0..d : g[k] = f[k]}
<1>10. 0 \in T
  BY <1>2, <1>8
<1>11. ASSUME NEW k \in 1..d, k - 1 \in T PROVE k \in T
  <2>0. PICK p \in Nat : p = k - 1 /\ p + 1 = k /\ p \in 0..d
    BY <1>2
  <2>1. k \in 1..Len(t) /\ k \in 1..Len(s) /\ k \in 0..d /\ p \in 0..Len(t) /\ k \in 0..Len(t)
    BY <1>1, <1>2, <1>3, <2>0
  <2>2. f[k] = ItemRound(t, f[p]) /\ g[k] = ItemRound(s, f[p]) /\ f[p] \in ItemStates
    BY <1>8, <1>11, <2>0, <2>1
  <2>3. CASE Stops(t, f[p])
    <3>1. f[Len(t)] = f[p] /\ f[k] = f[p]
      BY <1>6, <2>1, <2>2, <2>3 DEF Stops
    <3>2. f[p].at = d
      BY <1>6, <3>1
    <3>3. Items(s, d) = {}
      <4>1. s[d] = Quote /\ d <= Len(s)
        BY <1>1, <1>2, <1>3, <1>9
      <4> QED
        BY <1>2, <1>3, <1>9, <4>1, ItemsAre
    <3>4. ItemRound(s, f[p]) = f[p]
      BY <3>2, <3>3, Zenon DEF ItemRound
    <3> QED
      BY <2>1, <2>2, <3>1, <3>4
  <2>4. ASSUME NEW n, Takes(t, f[p], n) PROVE k \in T
    <3>1. /\ n \in Nat \ {0} /\ f[p].at \in Nat \ {0} /\ f[p].at + n - 1 <= Len(t)
          /\ Items(t, f[p].at) = {n} /\ f[k] = After(t, f[p], n)
          /\ n \in ItemLengths /\ IsItem(Piece(t, f[p].at, n))
      BY <2>2, <2>4 DEF Takes
    <3>2. f[k].at = f[p].at + n /\ f[k].at <= d
      BY <1>6, <2>1, <3>1 DEF After
    <3>3. f[p].at + n - 1 <= d /\ f[p].at + n - 1 <= Len(s) /\ f[p].at \in 1..Len(s)
      BY <1>2, <1>3, <3>1, <3>2
    <3>4. Piece(s, f[p].at, n) = Piece(t, f[p].at, n)
      BY <1>p, <3>1, <3>3
    <3>5. n \in Items(s, f[p].at)
      BY <1>3, <3>1, <3>3, <3>4, ItemsAre
    <3>6. \E e : Takes(s, f[p], e)
      BY <1>3, <2>2, <3>5, ItemStep DEF Stops
    <3>7. PICK e : Takes(s, f[p], e)
      BY <3>6
    <3>8. e = n
      BY <3>5, <3>7 DEF Takes
    <3>9. g[k] = After(s, f[p], n)
      BY <2>2, <3>7, <3>8 DEF Takes
    <3>10. After(s, f[p], n) = After(t, f[p], n)
      BY <3>4 DEF After
    <3> QED
      BY <2>1, <3>1, <3>9, <3>10
  <2> QED
    BY <2>2, <2>3, <2>4, ItemStep
<1>12. \A k \in 0..d : k \in T
  <2> HIDE DEF T
  <2> QED
    BY <1>2, <1>10, <1>11, AllRounds
<1>13. g[d] = f[d] /\ d \in 0..Len(t) /\ d \in 0..Len(s)
  <2>1. d \in T
    BY <1>2, <1>12
  <2> QED
    BY <1>1, <1>2, <1>3, <2>1
<1>14. Items(t, f[d].at) = {}
  <2> SUFFICES ASSUME Items(t, f[d].at) # {} PROVE FALSE
    OBVIOUS
  <2>1. f[d].at >= d + 2
    BY <1>13, <1>4, ItemsEnd
  <2>2. f[d].at <= d /\ f[d].at \in Nat
    BY <1>6, <1>8, <1>13 DEF ItemStates
  <2> QED
    BY <1>2, <2>1, <2>2
<1>15. f[d].at = d
  BY <1>6, <1>13, <1>14
<1>16. ItemsOf(s).at = Len(s)
  BY <1>3, <1>5, <1>13, <1>15
<1>17. s[1] = Quote /\ s[Len(s)] = Quote
  BY <1>1, <1>2, <1>3, <1>9
<1>18. Quoted(s)
  BY <1>3, <1>9, <1>16, <1>17 DEF Quoted
<1> QED
  BY <1>18 DEF s, d

(***************************************************************************)
(* What is written for the bytes of an item.                               *)
(***************************************************************************)

Writes(t, w) ==
    /\ w \in [0..Len(t) -> WriteStates(t)]
    /\ w[0] = WriteStart /\ \A k \in 1..Len(t) : w[k] = AsciiWriteRound(t, w[k - 1])
Sizes(t, z) ==
    /\ z \in [0..Len(t) -> SizeStates]
    /\ z[0] = SizeStart(t) /\ \A k \in 1..Len(t) : z[k] = AsciiSizeRound(t, z[k - 1])

\* v is u and then the bytes e.
Joined(u, v, e) ==
    /\ Len(v) = Len(u) + Len(e)
    /\ \A i \in 1..Len(u) : v[i] = u[i]
    /\ \A i \in 1..Len(e) : v[Len(u) + i] = e[i]

\* v begins with u.
Starts(u, v) == Len(u) <= Len(v) /\ \A i \in 1..Len(u) : v[i] = u[i]

\* A concatenation is its two parts.
LEMMA JoinedIs ==
    ASSUME NEW S, NEW u \in Seq(S), NEW e \in Seq(S)
    PROVE  Joined(u, u \o e, e) /\ Starts(u, u \o e)
<1>1. /\ Len(u \o e) = Len(u) + Len(e)
      /\ \A i \in 1..Len(u) + Len(e) : (u \o e)[i] = IF i <= Len(u) THEN u[i] ELSE e[i - Len(u)]
  BY ConcatProperties, Zenon
<1>2. PICK v : v = u \o e
  OBVIOUS
<1>3. /\ Len(v) = Len(u) + Len(e)
      /\ \A i \in 1..Len(u) + Len(e) : v[i] = IF i <= Len(u) THEN u[i] ELSE e[i - Len(u)]
  BY <1>1, <1>2, Zenon
<1>4. Len(u) \in Nat /\ Len(e) \in Nat
  OBVIOUS
<1>5. \A i \in 1..Len(u) : v[i] = u[i]
  BY <1>3, <1>4
<1>6. ASSUME NEW i \in 1..Len(e) PROVE v[Len(u) + i] = e[i]
  <2>1. PICK j \in Nat : j = Len(u) + i /\ j - Len(u) = i /\ ~(j <= Len(u)) /\ j \in 1..Len(u) + Len(e)
    BY <1>4
  <2>2. v[j] = e[j - Len(u)]
    BY <1>3, <2>1
  <2> QED
    BY <2>1, <2>2
<1>7. Joined(u, v, e) /\ Starts(u, v)
  BY <1>3, <1>4, <1>5, <1>6 DEF Joined, Starts
<1> QED
  BY <1>2, <1>7

\* A sequence with one element more.
LEMMA AppendExtends ==
    ASSUME NEW S, NEW u \in Seq(S), NEW c \in S
    PROVE  /\ Append(u, c) \in Seq(S) /\ Len(Append(u, c)) = Len(u) + 1
           /\ \A i \in 1..Len(u) : Append(u, c)[i] = u[i]
           /\ Append(u, c)[Len(u) + 1] = c
           /\ Starts(u, Append(u, c))
<1>1. /\ Append(u, c) \in Seq(S) /\ Len(Append(u, c)) = Len(u) + 1
      /\ \A i \in 1..Len(u) : Append(u, c)[i] = u[i]
      /\ Append(u, c)[Len(u) + 1] = c
  BY AppendProperties
<1>2. Starts(u, Append(u, c))
  BY <1>1 DEF Starts
<1> QED
  BY <1>1, <1>2

\* After k rounds the two passes are at b.
AtBoth(w, z, k, b) == w[k].at = b /\ z[k].at = b

\* Round k copies the byte at b; the count stays as it is.
Copies(t, w, z, k, b) ==
    /\ w[k].at = b + 1 /\ z[k].at = b + 1 /\ z[k].length = z[k - 1].length
    /\ w[k].written = Append(w[k - 1].written, t[b])

\* A byte below 128 is copied.
LEMMA CopyRound ==
    ASSUME NEW t \in Seq(Bytes), NEW w, Writes(t, w), NEW z, Sizes(t, z),
           NEW k \in 1..Len(t), NEW b \in 1..Len(t), AtBoth(w, z, k - 1, b), t[b] < 128
    PROVE  Copies(t, w, z, k, b)
<1>0. w[k - 1].at = b /\ z[k - 1].at = b
  BY DEF AtBoth
<1>1. /\ w[k] = AsciiWriteRound(t, w[k - 1]) /\ z[k] = AsciiSizeRound(t, z[k - 1])
      /\ z[k - 1] \in SizeStates
  BY DEF Writes, Sizes
<1>2. w[k - 1].at \in Nat \ {0} /\ b <= Len(t)
  BY <1>0
<1>3. w[k] = [at |-> b + 1, written |-> Append(w[k - 1].written, t[b])]
  BY <1>0, <1>1, <1>2, WriteRoundIs
<1>4. z[k] = [z[k - 1] EXCEPT !.at = @ + 1]
  <2>1. ~(z[k - 1].at > Len(t)) /\ t[z[k - 1].at] < 128
    BY <1>0, <1>2
  <2> QED
    BY <1>1, <2>1 DEF AsciiSizeRound
<1>5. z[k].at = b + 1 /\ z[k].length = z[k - 1].length
  BY <1>0, <1>1, <1>4 DEF SizeStates
<1> QED
  BY <1>3, <1>5 DEF Copies

\* Bytes below 128 are copied, and not counted.
AsciiHere(t, b, n) == \A j \in 1..n : t[b + j - 1] < 128
Copied(t, w, z, k, b, n) ==
    /\ AtBoth(w, z, k + n, b + n) /\ z[k + n].length = z[k].length
    /\ Joined(w[k].written, w[k + n].written, Piece(t, b, n))

\* So are n of them.
LEMMA CopyBytes ==
    ASSUME NEW t \in Seq(Bytes), NEW w, Writes(t, w), NEW z, Sizes(t, z),
           NEW k \in Nat, NEW n \in Nat, k + n <= Len(t), NEW b \in Nat \ {0}, b + n - 1 <= Len(t),
           AtBoth(w, z, k, b), AsciiHere(t, b, n)
    PROVE  Copied(t, w, z, k, b, n)
<1> DEFINE u == w[k].written
           T == {j \in 0..n : /\ AtBoth(w, z, k + j, b + j) /\ z[k + j].length = z[k].length
                              /\ Len(w[k + j].written) = Len(u) + j
                              /\ \A i \in 1..Len(u) : w[k + j].written[i] = u[i]
                              /\ \A i \in 1..j : w[k + j].written[Len(u) + i] = t[b + i - 1]}
<1>0. \A j \in 0..Len(t) : w[j].written \in Seq(Written(t))
  BY DEF Writes, WriteStates
<1>u. Len(u) \in Nat /\ u \in Seq(Written(t))
  <2>1. k \in 0..Len(t)
    OBVIOUS
  <2>2. u \in Seq(Written(t))
    BY <1>0, <2>1
  <2> QED
    BY <2>2
<1>k. k + 0 = k /\ b + 0 = b
  OBVIOUS
<1> HIDE DEF u
<1>1. 0 \in T
  <2>1. Len(w[k + 0].written) = Len(u) + 0 /\ w[k + 0].written = u
    BY <1>k, <1>u DEF u
  <2> QED
    BY <1>k, <2>1
<1>2. ASSUME NEW j \in 1..n, j - 1 \in T PROVE j \in T
  <2>0. PICK p \in Nat : p = j - 1 /\ p + 1 = j /\ p \in 0..n /\ j \in 0..n
    OBVIOUS
  <2>1. PICK l \in 1..Len(t) : l = k + j /\ l - 1 = k + p
    BY <2>0
  <2>2. PICK c \in 1..Len(t) : c = b + p /\ c = b + j - 1 /\ c + 1 = b + j
    BY <2>0
  <2> DEFINE v == w[l - 1].written
             v2 == w[l].written
  <2>3. /\ w[l - 1].at = c /\ z[l - 1].at = c /\ z[l - 1].length = z[k].length
        /\ Len(v) = Len(u) + p
        /\ \A i \in 1..Len(u) : v[i] = u[i]
        /\ \A i \in 1..p : v[Len(u) + i] = t[b + i - 1]
    BY <1>2, <2>0, <2>1, <2>2 DEF AtBoth
  <2>4. t[c] < 128
    BY <2>2 DEF AsciiHere
  <2>5. /\ w[l].at = c + 1 /\ z[l].at = c + 1 /\ z[l].length = z[l - 1].length
        /\ v2 = Append(v, t[c])
    <3>1. AtBoth(w, z, l - 1, c)
      BY <2>3 DEF AtBoth
    <3>2. Copies(t, w, z, l, c)
      BY <2>4, <3>1, CopyRound, Zenon
    <3> QED
      BY <3>2 DEF Copies
  <2>6. t[c] \in Written(t)
    <3>1. t[c] \in Bytes
      OBVIOUS
    <3> QED
      BY <3>1, SMT DEF Written
  <2>7. v \in Seq(Written(t))
    <3>1. l - 1 \in 0..Len(t)
      BY <2>1
    <3> QED
      BY <1>0, <3>1
  <2> HIDE DEF v, v2
  <2>8. /\ Len(v2) = Len(v) + 1 /\ \A i \in 1..Len(v) : v2[i] = v[i]
        /\ v2[Len(v) + 1] = t[c]
    BY <2>5, <2>6, <2>7, AppendExtends
  <2>9. Len(v2) = Len(u) + j
    BY <1>u, <2>0, <2>3, <2>8
  <2>10. \A i \in 1..Len(u) : v2[i] = u[i]
    BY <1>u, <2>0, <2>3, <2>8
  <2>11. ASSUME NEW i \in 1..j PROVE v2[Len(u) + i] = t[b + i - 1]
    <3>1. CASE i = j
      <4>1. Len(u) + i = Len(v) + 1
        BY <1>u, <2>0, <2>3, <3>1
      <4>2. b + i - 1 = c
        BY <2>2, <3>1
      <4> QED
        BY <2>8, <4>1, <4>2
    <3>2. CASE i \in 1..p
      <4>p. Len(v) = Len(u) + p
        BY <2>3
      <4>1. PICK q \in 1..Len(v) : q = Len(u) + i
        BY <1>u, <3>2, <4>p, SMTT(30)
      <4> QED
        BY <2>3, <2>8, <3>2, <4>1
    <3> QED
      BY <2>0, <3>1, <3>2
  <2>12. AtBoth(w, z, k + j, b + j) /\ z[k + j].length = z[k].length
    BY <2>1, <2>2, <2>3, <2>5 DEF AtBoth
  <2> QED
    BY <2>0, <2>1, <2>9, <2>10, <2>11, <2>12 DEF v2
<1>3. \A j \in 0..n : j \in T
  <2> HIDE DEF T
  <2> QED
    BY <1>1, <1>2, AllRounds
<1>4. n \in T
  <2>1. n \in 0..n
    OBVIOUS
  <2> HIDE DEF T
  <2> QED
    BY <1>3, <2>1
<1>5. CASE n = 0
  <2>1. Piece(t, b, n) = <<>>
    BY <1>5 DEF Piece
  <2> QED
    BY <1>4, <1>5, <2>1 DEF Joined, Copied, u
<1>6. CASE n # 0
  <2>1. b \in 1..Len(t) /\ n \in Nat \ {0}
    BY <1>6
  <2>2. Len(Piece(t, b, n)) = n /\ \A j \in 1..n : Piece(t, b, n)[j] = t[b + j - 1]
    BY <2>1, PieceIs
  <2> QED
    BY <1>4, <2>2 DEF Joined, Copied, u
<1> QED
  BY <1>5, <1>6

\* ASCII is below 128.
LEMMA AsciiBelow == \A c \in Ascii : c < 128
BY DEF Ascii

\* From round k, which is at b, the passes take the n bytes of an item: they
\* write its image and count what the image has more.
Moves(t, w, z, k, b, n) ==
    LET e == Image(Piece(t, b, n)) IN
    \E l \in k..b + n - 1 :
        /\ AtBoth(w, z, l, b + n)
        /\ Joined(w[k].written, w[l].written, e)
        /\ z[l].length = z[k].length + Len(e) - n

\* An item is copied, or written as the escape of its code point.
LEMMA StepWrite ==
    ASSUME NEW t \in Seq(Bytes), NEW w, Writes(t, w), NEW z, Sizes(t, z),
           NEW k \in Nat, NEW b \in Nat \ {0}, k <= b - 1, AtBoth(w, z, k, b),
           NEW r, r.at = b, NEW n, Takes(t, r, n)
    PROVE  Moves(t, w, z, k, b, n)
<1> DEFINE y == Piece(t, b, n)
           e == Image(y)
<1>1. /\ n \in ItemLengths /\ n \in Nat /\ n >= 1
      /\ b \in 1..Len(t) /\ b + n - 1 <= Len(t)
      /\ y \in Seq(Bytes) /\ Len(y) = n /\ IsItem(y) /\ y[1] = t[b]
  BY DEF Takes
<1>2. \A j \in 1..n : y[j] = t[b + j - 1]
  <2>1. n \in Nat \ {0}
    BY <1>1
  <2> QED
    BY <1>1, <2>1, PieceIs
<1>3. /\ y[1] \in Nat
      /\ y[1] < 128 => \A j \in 1..n : y[j] \in Ascii
      /\ y[1] >= 128 => IsCharacter(y) /\ n \in 2..4 /\ CodepointBytes(y[1]) = n
  BY <1>1, ItemOrCharacter
<1>4. /\ e \in Seq(Ascii) /\ e \in Seq(Bytes)
      /\ y[1] >= 128 => Len(e) = EscapedLength(n)
  BY <1>1, ImageIs
<1>5. k + n <= Len(t) /\ k \in 0..Len(t) /\ k + n <= b + n - 1
  BY <1>1
<1>6. CASE y[1] < 128
  <2>1. e = y
    BY <1>6 DEF Image
  <2> HIDE DEF y, e
  <2>2. ASSUME NEW j \in 1..n PROVE t[b + j - 1] < 128
    <3>1. y[j] \in Ascii
      BY <1>3, <1>6
    <3>2. y[j] < 128
      BY <3>1, AsciiBelow, Zenon
    <3> QED
      BY <1>2, <3>2
  <2>3. /\ AtBoth(w, z, k + n, b + n) /\ z[k + n].length = z[k].length
        /\ Joined(w[k].written, w[k + n].written, Piece(t, b, n))
    <3>1. AsciiHere(t, b, n)
      BY <2>2 DEF AsciiHere
    <3>2. Copied(t, w, z, k, b, n)
      BY <1>1, <1>5, <3>1, CopyBytes
    <3> QED
      BY <3>2 DEF Copied
  <2>4. z[k].length \in Int
    BY <1>5 DEF Sizes, SizeStates
  <2>5. Joined(w[k].written, w[k + n].written, e) /\ Len(e) = n
    BY <1>1, <2>1, <2>3 DEF y
  <2>6. z[k + n].length = z[k].length + Len(e) - n
    BY <1>1, <2>3, <2>4, <2>5
  <2>7. k + n \in k..b + n - 1
    BY <1>1, <1>5
  <2> QED
    BY <2>3, <2>5, <2>6, <2>7 DEF Moves, e, y
<1>7. CASE y[1] >= 128
  <2>1. IsCharacter(y) /\ n \in 2..4 /\ CodepointBytes(t[b]) = n /\ ~(t[b] < 128)
    BY <1>1, <1>3, <1>7
  <2>2. PICK l \in 1..Len(t) : l = k + 1 /\ l - 1 = k /\ l \in k..b + n - 1
    BY <1>1, <1>5, <2>1
  <2>3. w[l] = AsciiWriteRound(t, w[k]) /\ z[l] = AsciiSizeRound(t, z[k])
    BY <2>2 DEF Writes, Sizes
  <2>4. w[k].at = b /\ z[k].at = b /\ b <= Len(t)
    BY <1>1 DEF AtBoth
  <2>5. w[l] = [at |-> b + n, written |-> w[k].written \o Escaped(Payload(y))]
    BY <2>1, <2>3, <2>4, WriteRoundIs DEF Piece
  <2>6. Escaped(Payload(y)) = e
    BY <1>1, <2>1, SMT DEF Escaped, Image
  <2>7. Utf8Length(t, b) = n
    <3>1. n \in Characters(t, b)
      BY <1>1, <2>1 DEF Characters, Lengths
    <3>2. Characters(t, b) = IF Utf8Length(t, b) = 0 THEN {} ELSE {Utf8Length(t, b)}
      BY <1>1, CharactersHere
    <3> QED
      BY <3>1, <3>2
  <2>8. z[l] = [at |-> b + n, length |-> z[k].length + EscapedLength(n) - n]
    <3>1. ~(z[k].at > Len(t)) /\ ~(t[z[k].at] < 128)
      BY <2>1, <2>4
    <3> QED
      BY <2>3, <2>4, <2>7, <3>1 DEF AsciiSizeRound
  <2> HIDE DEF y, e
  <2>9. w[k].written \in Seq(Written(t)) /\ e \in Seq(Written(t))
    <3>1. w[k].written \in Seq(Written(t))
      BY <1>5 DEF Writes, WriteStates
    <3>2. Bytes \subseteq Written(t)
      BY SMT DEF Written
    <3> QED
      BY <1>4, <3>1, <3>2
  <2>10. Joined(w[k].written, w[k].written \o e, e)
    BY <2>9, JoinedIs, Zenon
  <2>11. Joined(w[k].written, w[l].written, e)
    BY <2>5, <2>6, <2>10
  <2>12. z[l].length = z[k].length + Len(e) - n
    BY <1>4, <1>7, <2>8
  <2>13. AtBoth(w, z, l, b + n)
    BY <2>5, <2>8 DEF AtBoth
  <2> QED
    BY <2>2, <2>11, <2>12, <2>13 DEF Moves, e, y
<1> QED
  BY <1>3, <1>6, <1>7

\* What is written stays written.
LEMMA StartsAre ==
    ASSUME NEW u, NEW v, NEW x, Len(u) \in Nat, Len(v) \in Nat, Starts(u, v), Starts(v, x)
    PROVE  Starts(u, x)
BY DEF Starts

\* A round of the writer only adds.
LEMMA WriteGrows ==
    ASSUME NEW t \in Seq(Bytes), NEW x \in WriteStates(t)
    PROVE  Starts(x.written, AsciiWriteRound(t, x).written)
<1>1. x.at \in Nat \ {0} /\ x.written \in Seq(Written(t)) /\ Len(x.written) \in Nat
  BY DEF WriteStates
<1>2. Bytes \subseteq Written(t)
  BY SMT DEF Written
<1>3. CASE x.at > Len(t)
  <2>1. AsciiWriteRound(t, x) = x
    BY <1>1, <1>3, WriteRoundIs
  <2> QED
    BY <1>1, <2>1 DEF Starts
<1>4. CASE x.at <= Len(t) /\ t[x.at] < 128
  <2>1. AsciiWriteRound(t, x) = [at |-> x.at + 1, written |-> Append(x.written, t[x.at])]
    BY <1>1, <1>4, WriteRoundIs
  <2>2. t[x.at] \in Written(t)
    BY <1>1, <1>2, <1>4
  <2>3. Starts(x.written, Append(x.written, t[x.at]))
    BY <1>1, <2>2, AppendExtends, Zenon
  <2> QED
    BY <2>1, <2>3
<1>5. CASE x.at <= Len(t) /\ ~(t[x.at] < 128)
  <2> DEFINE n == CodepointBytes(t[x.at])
             code == Payload(SubSeq(t, x.at, x.at + n - 1))
  <2>1. n \in 2..4
        /\ AsciiWriteRound(t, x) = [at |-> x.at + n, written |-> x.written \o Escaped(code)]
    BY <1>1, <1>5, WriteRoundIs
  <2>2. code \in Codes(t)
    BY <1>1, <2>1 DEF Codes
  <2> HIDE DEF n, code
  <2>3. Escaped(code) \in Seq(Written(t))
    BY <2>2, CodeWritten, SMT DEF Escaped
  <2>4. Starts(x.written, x.written \o Escaped(code))
    BY <1>1, <2>3, JoinedIs, Zenon
  <2> QED
    BY <2>1, <2>4
<1> QED
  BY <1>1, <1>3, <1>4, <1>5

\* So do any number of rounds.
LEMMA WrittenGrows ==
    ASSUME NEW t \in Seq(Bytes), NEW w, Writes(t, w),
           NEW i \in 0..Len(t), NEW j \in 0..Len(t), i <= j
    PROVE  Starts(w[i].written, w[j].written)
<1> DEFINE T == {k \in 0..Len(t) : k >= i => Starts(w[i].written, w[k].written)}
<1>0. \A k \in 0..Len(t) : w[k] \in WriteStates(t) /\ Len(w[k].written) \in Nat
  <2>1. \A k \in 0..Len(t) : w[k] \in WriteStates(t)
    BY DEF Writes
  <2>2. \A k \in 0..Len(t) : w[k].written \in Seq(Written(t))
    BY <2>1 DEF WriteStates
  <2> QED
    BY <2>1, <2>2
<1>1. Starts(w[i].written, w[i].written)
  BY <1>0 DEF Starts
<1>2. 0 \in T
  <2>1. 0 >= i => i = 0
    OBVIOUS
  <2> QED
    BY <1>1, <2>1
<1>3. ASSUME NEW k \in 1..Len(t), k - 1 \in T PROVE k \in T
  <2>1. CASE k - 1 >= i
    <3>1. PICK p \in 0..Len(t) : p = k - 1
      OBVIOUS
    <3>2. w[k] = AsciiWriteRound(t, w[p])
      BY <3>1 DEF Writes
    <3>3. Starts(w[p].written, w[k].written)
      BY <1>0, <3>1, <3>2, WriteGrows
    <3>4. Starts(w[i].written, w[p].written)
      BY <1>3, <2>1, <3>1
    <3>5. Starts(w[i].written, w[k].written)
      BY <1>0, <3>3, <3>4, StartsAre
    <3> QED
      BY <3>5
  <2>2. CASE k = i
    BY <1>1, <2>2
  <2>3. CASE k < i
    BY <2>3
  <2> QED
    BY <2>1, <2>2, <2>3
<1>4. j \in T
  <2> HIDE DEF T
  <2>0. Len(t) \in Nat
    OBVIOUS
  <2>1. \A k \in 0..Len(t) : k \in T
    BY <1>2, <1>3, <2>0, AllRounds
  <2> QED
    BY <2>1
<1> QED
  BY <1>4

\* Round k of both passes is before the item at b of the string: what is
\* written is ASCII, and the count is its length and what is left to take.
Reached(s, w, z, k, b) ==
    /\ k \in Nat /\ k <= b - 1 /\ AtBoth(w, z, k, b)
    /\ w[k].written \in Seq(Ascii) /\ Len(w[k].written) >= b - 1
    /\ z[k].length = Len(w[k].written) + Len(s) - (b - 1)

\* What is written stays ASCII.
LEMMA JoinedAscii ==
    ASSUME NEW S, NEW u \in Seq(Ascii), NEW e \in Seq(Ascii), NEW v \in Seq(S), Joined(u, v, e)
    PROVE  v \in Seq(Ascii)
<1>1. /\ Len(v) = Len(u) + Len(e) /\ Len(u) \in Nat /\ Len(e) \in Nat /\ Len(v) \in Nat
      /\ \A i \in 1..Len(u) : v[i] = u[i]
      /\ \A i \in 1..Len(e) : v[Len(u) + i] = e[i]
  BY DEF Joined
<1>2. /\ \A i \in 1..Len(u) : u[i] \in Ascii
      /\ \A i \in 1..Len(e) : e[i] \in Ascii
  <2> HIDE DEF Ascii
  <2> QED
    OBVIOUS
<1>3. ASSUME NEW i \in 1..Len(v) PROVE v[i] \in Ascii
  <2>1. CASE i <= Len(u)
    <3>1. i \in 1..Len(u)
      BY <1>1, <2>1
    <3> QED
      BY <1>1, <1>2, <3>1, Zenon
  <2>2. CASE ~(i <= Len(u))
    <3>1. PICK j \in 1..Len(e) : Len(u) + j = i
      <4>1. i - Len(u) \in 1..Len(e) /\ Len(u) + (i - Len(u)) = i
        BY <1>1, <2>2
      <4> QED
        BY <4>1
    <3>2. v[Len(u) + j] = e[j] /\ e[j] \in Ascii
      BY <1>1, <1>2, Zenon
    <3> QED
      BY <3>1, <3>2
  <2> QED
    BY <2>1, <2>2
<1>4. v = [i \in 1..Len(v) |-> v[i]]
  OBVIOUS
<1> HIDE DEF Ascii
<1> QED
  BY <1>1, <1>3, <1>4, IsASeq

\* The opening quote is copied.
LEMMA ReachFirst ==
    ASSUME NEW s, Quoted(s), NEW w, Writes(s, w), NEW z, Sizes(s, z)
    PROVE  Reached(s, w, z, 1, 2)
<1>1. s \in Seq(Bytes) /\ Len(s) >= 2 /\ s[1] = Quote /\ 1 \in 1..Len(s) /\ 1 - 1 = 0
  BY DEF Quoted
<1>2. w[0].at = 1 /\ w[0].written = <<>> /\ z[0].at = 1 /\ z[0].length = Len(s)
  BY DEF Writes, Sizes, WriteStart, SizeStart
<1>3. AtBoth(w, z, 1 - 1, 1)
  BY <1>1, <1>2 DEF AtBoth
<1>4. s[1] < 128
  BY <1>1 DEF Quote
<1>5. Copies(s, w, z, 1, 1)
  BY <1>1, <1>3, <1>4, CopyRound
<1>6. /\ w[1].at = 2 /\ z[1].at = 2 /\ z[1].length = Len(s)
      /\ w[1].written = Append(<<>>, Quote)
  <2>1. /\ w[1].at = 1 + 1 /\ z[1].at = 1 + 1 /\ z[1].length = z[1 - 1].length
        /\ w[1].written = Append(w[1 - 1].written, s[1])
    BY <1>5, Zenon DEF Copies
  <2>2. 1 + 1 = 2 /\ 1 - 1 = 0
    OBVIOUS
  <2>3. z[1 - 1] = z[0] /\ w[1 - 1] = w[0]
    BY <2>2, Zenon
  <2>4. Append(w[1 - 1].written, s[1]) = Append(<<>>, Quote)
    BY <1>1, <1>2, <2>3, Zenon
  <2> QED
    BY <1>2, <2>1, <2>2, <2>3, <2>4, Zenon
<1>7. w[1].written \in Seq(Ascii) /\ Len(w[1].written) = 1
  <2>1. Quote \in Ascii
    BY DEF Quote, Ascii
  <2>2. <<>> \in Seq(Ascii) /\ Len(<<>>) = 0
    OBVIOUS
  <2>3. Append(<<>>, Quote) \in Seq(Ascii) /\ Len(Append(<<>>, Quote)) = 0 + 1
    BY <2>1, <2>2, AppendExtends
  <2> QED
    BY <1>6, <2>3
<1>8. z[1].length = Len(w[1].written) + Len(s) - (2 - 1)
  BY <1>1, <1>6, <1>7
<1> QED
  BY <1>6, <1>7, <1>8 DEF Reached, AtBoth

\* The passes go from item to item.
Passes(s, w, z, k, b, n) ==
    \E l : /\ Reached(s, w, z, l, b + n)
           /\ Joined(w[k].written, w[l].written, Image(Piece(s, b, n)))

\* From item to item.
LEMMA ReachNext ==
    ASSUME NEW s \in Seq(Bytes), NEW w, Writes(s, w), NEW z, Sizes(s, z),
           NEW k, NEW b \in Nat \ {0}, Reached(s, w, z, k, b),
           NEW r, r.at = b, NEW n, Takes(s, r, n)
    PROVE  Passes(s, w, z, k, b, n)
<1> DEFINE y == Piece(s, b, n)
           e == Image(y)
           u == w[k].written
<1>1. /\ n \in ItemLengths /\ n \in Nat /\ n >= 1
      /\ b \in 1..Len(s) /\ b + n - 1 <= Len(s)
      /\ y \in Seq(Bytes) /\ Len(y) = n /\ IsItem(y)
  BY DEF Takes
<1>2. e \in Seq(Ascii) /\ Len(e) >= n
  BY <1>1, ImageIs
<1>3. /\ k \in Nat /\ k <= b - 1 /\ AtBoth(w, z, k, b)
      /\ u \in Seq(Ascii) /\ Len(u) >= b - 1
      /\ z[k].length = Len(u) + Len(s) - (b - 1)
  BY DEF Reached
<1>4. Moves(s, w, z, k, b, n)
  BY <1>3, StepWrite
<1> HIDE DEF y, e, u
<1>5. PICK l \in k..b + n - 1 : /\ AtBoth(w, z, l, b + n)
                                /\ Joined(u, w[l].written, e)
                                /\ z[l].length = z[k].length + Len(e) - n
  BY <1>4 DEF Moves, e, y, u
<1> DEFINE v == w[l].written
<1>6. l \in Nat /\ l <= b + n - 1 /\ l \in 0..Len(s)
  BY <1>1, <1>3
<1>7. v \in Seq(Written(s))
  BY <1>6 DEF Writes, WriteStates
<1> HIDE DEF v
<1>8. v \in Seq(Ascii) /\ Len(v) = Len(u) + Len(e)
  <2>1. Joined(u, v, e)
    BY <1>5 DEF v
  <2>2. v \in Seq(Ascii)
    BY <1>2, <1>3, <1>7, <2>1, JoinedAscii
  <2> QED
    BY <2>1, <2>2 DEF Joined
<1>l. Len(u) \in Nat /\ Len(e) \in Nat /\ Len(v) \in Nat /\ Len(s) \in Nat
  <2> HIDE DEF Ascii
  <2> QED
    BY <1>2, <1>3, <1>8
<1>9. /\ l <= (b + n) - 1 /\ Len(v) >= (b + n) - 1
      /\ z[l].length = Len(v) + Len(s) - ((b + n) - 1)
  BY <1>1, <1>2, <1>3, <1>5, <1>6, <1>8, <1>l
<1>10. Reached(s, w, z, l, b + n)
  BY <1>5, <1>6, <1>8, <1>9 DEF Reached, v
<1> QED
  BY <1>5, <1>10 DEF Passes, u, e, y

\* They reach every item of the string.
LEMMA AllReached ==
    ASSUME NEW s, Quoted(s), NEW w, Writes(s, w), NEW z, Sizes(s, z), NEW q, Finds(s, q)
    PROVE  \A m \in 0..Len(s) : \E k : Reached(s, w, z, k, q[m].at)
<1> DEFINE T == {m \in 0..Len(s) : \E k : Reached(s, w, z, k, q[m].at)}
<1>0. /\ s \in Seq(Bytes) /\ Len(s) \in Nat
      /\ \A m \in 0..Len(s) : q[m] \in ItemStates /\ q[m].at \in Nat \ {0}
      /\ q[0].at = 2 /\ \A m \in 1..Len(s) : q[m] = ItemRound(s, q[m - 1])
  <2>1. \A m \in 0..Len(s) : q[m] \in ItemStates
    BY DEF Finds
  <2> QED
    BY <2>1 DEF Finds, ItemStates, ItemsStart, Quoted
<1>1. 0 \in T
  <2>1. Reached(s, w, z, 1, q[0].at)
    BY <1>0, ReachFirst
  <2> QED
    BY <1>0, <2>1
<1>2. ASSUME NEW m \in 1..Len(s), m - 1 \in T PROVE m \in T
  <2>0. PICK p \in 0..Len(s) : p = m - 1
    OBVIOUS
  <2>1. PICK k : Reached(s, w, z, k, q[p].at)
    BY <1>2, <2>0
  <2>2. q[m] = ItemRound(s, q[p]) /\ q[p] \in ItemStates /\ m \in 0..Len(s)
    BY <1>0, <2>0
  <2>3. CASE Stops(s, q[p])
    <3>1. q[m] = q[p]
      BY <2>2, <2>3 DEF Stops
    <3> QED
      BY <2>1, <2>2, <3>1
  <2>4. ASSUME NEW n, Takes(s, q[p], n) PROVE m \in T
    <3>1. Passes(s, w, z, k, q[p].at, n)
      BY <1>0, <2>1, <2>4, ReachNext
    <3>2. q[m].at = q[p].at + n
      BY <2>2, <2>4 DEF Takes, After
    <3> QED
      BY <2>2, <3>1, <3>2 DEF Passes
  <2> QED
    BY <1>0, <2>2, <2>3, <2>4, ItemStep
<1> QED
  <2> HIDE DEF T
  <2>1. \A m \in 0..Len(s) : m \in T
    BY <1>0, <1>1, <1>2, AllRounds
  <2> QED
    BY <2>1 DEF T

\* At the end only the closing quote is left.
Closed(s, w, z, k) ==
    /\ w[Len(s)].written = Append(w[k].written, Quote)
    /\ z[Len(s)].length = z[k].length

\* The closing quote is copied, and the passes are done.
LEMMA LastRound ==
    ASSUME NEW s, Quoted(s), NEW w, Writes(s, w), NEW z, Sizes(s, z),
           NEW k, Reached(s, w, z, k, Len(s))
    PROVE  Closed(s, w, z, k)
<1>1. s \in Seq(Bytes) /\ Len(s) \in Nat /\ Len(s) >= 2 /\ s[Len(s)] = Quote
  BY DEF Quoted
<1>2. k \in Nat /\ k <= Len(s) - 1 /\ AtBoth(w, z, k, Len(s))
  BY DEF Reached
<1>3. PICK l \in 1..Len(s) : l = k + 1 /\ l - 1 = k
  BY <1>1, <1>2
<1>4. Copies(s, w, z, l, Len(s))
  <2>1. s[Len(s)] < 128 /\ Len(s) \in 1..Len(s)
    BY <1>1 DEF Quote
  <2>2. AtBoth(w, z, l - 1, Len(s))
    BY <1>2, <1>3
  <2> QED
    BY <1>1, <2>1, <2>2, CopyRound
<1>5. /\ w[l].at = Len(s) + 1 /\ z[l].at = Len(s) + 1
      /\ w[l].written = Append(w[k].written, Quote) /\ z[l].length = z[k].length
  BY <1>1, <1>3, <1>4 DEF Copies
<1>6. w[l].at > Len(s) /\ z[l].at > Len(s) /\ w[l].at \in Nat \ {0}
  BY <1>1, <1>5
<1>7. AsciiWriteRound(s, w[l]) = w[l]
  BY <1>1, <1>6, WriteRoundIs
<1>8. AsciiSizeRound(s, z[l]) = z[l]
  BY <1>6 DEF AsciiSizeRound
<1>9. Stands(w, l, Len(s)) /\ Stands(z, l, Len(s))
  <2> SUFFICES ASSUME NEW j \in l + 1..Len(s)
               PROVE  /\ w[j - 1] = w[l] => w[j] = w[l]
                      /\ z[j - 1] = z[l] => z[j] = z[l]
    BY Zenon DEF Stands
  <2>1. j \in 1..Len(s)
    BY <1>1
  <2>2. w[j] = AsciiWriteRound(s, w[j - 1]) /\ z[j] = AsciiSizeRound(s, z[j - 1])
    BY <2>1 DEF Writes, Sizes
  <2> QED
    BY <1>7, <1>8, <2>2
<1>10. Still(w, l, Len(s)) /\ Still(z, l, Len(s))
  <2>1. l \in 0..Len(s)
    OBVIOUS
  <2> QED
    BY <1>1, <1>9, <2>1, StandsStill, Zenon
<1> QED
  BY <1>5, <1>10 DEF Still, Closed

\* The ASCII text of a string, and its length.
LEMMA AsciiTextIs ==
    ASSUME NEW s, Quoted(s), NEW w, Writes(s, w), NEW z, Sizes(s, z)
    PROVE  LET a == w[Len(s)].written IN
           /\ a \in Seq(Ascii) /\ a \in Seq(Bytes)
           /\ Len(a) = z[Len(s)].length /\ Len(a) >= Len(s)
<1> DEFINE a == w[Len(s)].written
<1>1. /\ s \in Seq(Bytes) /\ Len(s) \in Nat /\ Len(s) >= 2 /\ ItemsOf(s).at = Len(s)
  BY DEF Quoted
<1>2. PICK q : Finds(s, q) /\ ItemsOf(s) = q[Len(s)]
  BY <1>1, ItemsRun, Zenon DEF Finds
<1>3. PICK k : Reached(s, w, z, k, q[Len(s)].at)
  <2>1. Len(s) \in 0..Len(s)
    BY <1>1
  <2> QED
    BY <1>2, <2>1, AllReached
<1>4. Reached(s, w, z, k, Len(s))
  BY <1>1, <1>2, <1>3
<1>5. Closed(s, w, z, k)
  BY <1>4, LastRound
<1> DEFINE u == w[k].written
<1>6. /\ u \in Seq(Ascii) /\ Len(u) >= Len(s) - 1
      /\ z[k].length = Len(u) + Len(s) - (Len(s) - 1)
  BY <1>4 DEF Reached
<1>7. a = Append(u, Quote) /\ z[Len(s)].length = z[k].length
  BY <1>5 DEF Closed
<1> HIDE DEF a, u
<1>8. a \in Seq(Ascii) /\ Len(a) = Len(u) + 1
  <2>1. Quote \in Ascii
    BY DEF Quote, Ascii
  <2>2. Append(u, Quote) \in Seq(Ascii) /\ Len(Append(u, Quote)) = Len(u) + 1
    BY <1>6, <2>1, AppendExtends
  <2> QED
    BY <1>7, <2>2
<1>9. a \in Seq(Bytes)
  BY <1>8, AsciiIsBytes
<1>10. Len(u) \in Nat /\ Len(a) \in Nat
  <2> HIDE DEF Ascii
  <2> QED
    BY <1>6, <1>8
<1> QED
  BY <1>1, <1>6, <1>7, <1>8, <1>9, <1>10 DEF a

\* Of what is written, the piece an image was written to is the image.
LEMMA PieceWritten ==
    ASSUME NEW S, NEW u \in Seq(Ascii), NEW e \in Seq(Bytes), NEW v \in Seq(S), NEW a \in Seq(Bytes),
           Joined(u, v, e), Starts(v, a), e # <<>>
    PROVE  /\ Len(u) + 1 \in 1..Len(a) /\ Len(u) + Len(e) <= Len(a)
           /\ Piece(a, Len(u) + 1, Len(e)) = e
<1>1. /\ Len(u) \in Nat /\ Len(e) \in Nat \ {0} /\ Len(a) \in Nat
  <2> HIDE DEF Ascii
  <2> QED
    OBVIOUS
<1>2. /\ Len(v) = Len(u) + Len(e) /\ Len(v) <= Len(a)
      /\ \A i \in 1..Len(e) : v[Len(u) + i] = e[i]
      /\ \A i \in 1..Len(v) : a[i] = v[i]
  BY DEF Joined, Starts
<1>3. PICK i \in 1..Len(a) : i = Len(u) + 1
  BY <1>1, <1>2
<1>4. Len(u) + Len(e) <= Len(a) /\ i + Len(e) - 1 <= Len(a)
  BY <1>1, <1>2, <1>3
<1> DEFINE x == Piece(a, i, Len(e))
<1>5. x \in Seq(Bytes) /\ Len(x) = Len(e) /\ \A j \in 1..Len(e) : x[j] = a[i + j - 1]
  BY <1>1, <1>3, <1>4, PieceIs
<1> HIDE DEF x
<1>6. ASSUME NEW j \in 1..Len(e) PROVE x[j] = e[j]
  <2>1. PICK l \in 1..Len(v) : l = Len(u) + j /\ l = i + j - 1
    BY <1>1, <1>2, <1>3
  <2>2. x[j] = a[l] /\ v[l] = e[j] /\ a[l] = v[l]
    BY <1>2, <1>5, <2>1
  <2> QED
    BY <2>2
<1>7. x = e
  BY <1>5, <1>6, SeqEqual
<1> QED
  BY <1>3, <1>4, <1>7 DEF x

\* The items found in the two texts stand for the same.
Alike(q, x) ==
    /\ Len(x.items) = Len(q.items)
    /\ \A i \in 1..Len(q.items) : Scalar(x.items[i]) = Scalar(q.items[i])

\* One item more in both texts.
LEMMA AlikeGrows ==
    ASSUME NEW q \in ItemStates, NEW x \in ItemStates, Alike(q, x),
           NEW s, NEW a, NEW n, NEW m, Takes(s, q, n), Takes(a, x, m),
           Scalar(Piece(a, x.at, m)) = Scalar(Piece(s, q.at, n))
    PROVE  Alike(After(s, q, n), After(a, x, m))
<1> DEFINE e == Piece(a, x.at, m)
           y == Piece(s, q.at, n)
           qs == q.items
           xs == x.items
<1>1. e \in Seq(Bytes) /\ y \in Seq(Bytes)
  BY DEF Takes
<1>2. qs \in Seq(Seq(Bytes)) /\ xs \in Seq(Seq(Bytes))
  BY DEF ItemStates
<1>3. /\ Len(xs) = Len(qs)
      /\ \A i \in 1..Len(qs) : Scalar(xs[i]) = Scalar(qs[i])
  BY DEF Alike
<1>4. Scalar(e) = Scalar(y)
  OBVIOUS
<1>5. After(s, q, n).items = Append(qs, y) /\ After(a, x, m).items = Append(xs, e)
  BY DEF After
<1> HIDE DEF e, y, qs, xs
<1>6. /\ Len(Append(qs, y)) = Len(qs) + 1 /\ Append(qs, y)[Len(qs) + 1] = y
      /\ \A i \in 1..Len(qs) : Append(qs, y)[i] = qs[i]
      /\ Len(Append(xs, e)) = Len(xs) + 1 /\ Append(xs, e)[Len(xs) + 1] = e
      /\ \A i \in 1..Len(xs) : Append(xs, e)[i] = xs[i]
  <2> DEFINE S == Seq(Bytes)
  <2>1. qs \in Seq(S) /\ xs \in Seq(S) /\ y \in S /\ e \in S
    BY <1>1, <1>2
  <2> HIDE DEF S
  <2>2. /\ Len(Append(qs, y)) = Len(qs) + 1 /\ Append(qs, y)[Len(qs) + 1] = y
        /\ \A i \in 1..Len(qs) : Append(qs, y)[i] = qs[i]
    BY <2>1, AppendProperties
  <2>3. /\ Len(Append(xs, e)) = Len(xs) + 1 /\ Append(xs, e)[Len(xs) + 1] = e
        /\ \A i \in 1..Len(xs) : Append(xs, e)[i] = xs[i]
    BY <2>1, AppendProperties
  <2> QED
    BY <2>2, <2>3, Zenon
<1>7. PICK ps, ws : ps = Append(qs, y) /\ ws = Append(xs, e)
  OBVIOUS
<1>8. Len(qs) \in Nat
  BY <1>2
<1>9. ASSUME NEW i \in 1..Len(ps) PROVE Scalar(ws[i]) = Scalar(ps[i])
  <2>1. CASE i \in 1..Len(qs)
    <3>1. ps[i] = qs[i] /\ ws[i] = xs[i]
      BY <1>3, <1>6, <1>7, <2>1, Zenon
    <3> QED
      BY <1>3, <2>1, <3>1, Zenon
  <2>2. CASE i = Len(qs) + 1
    <3>1. ps[i] = y /\ ws[i] = e
      BY <1>3, <1>6, <1>7, <2>2, Zenon
    <3> QED
      BY <1>4, <3>1, Zenon
  <2>3. i \in 1..Len(qs) + 1
    BY <1>6, <1>7
  <2> QED
    BY <1>8, <2>1, <2>2, <2>3
<1>10. Len(ws) = Len(ps)
  BY <1>3, <1>6, <1>7, Zenon
<1> QED
  BY <1>5, <1>7, <1>9, <1>10, Zenon DEF Alike

\* After m rounds of the items of both texts: the passes are at the item, and
\* the ASCII text goes on after what is written.
Follow(s, a, w, z, q, x, m) ==
    \E k : /\ Reached(s, w, z, k, q[m].at)
           /\ x[m].at = Len(w[k].written) + 1
           /\ Alike(q[m], x[m])

\* Where the string has no item the ASCII text has none.
LEMMA BothStop ==
    ASSUME NEW s, Quoted(s), NEW w, Writes(s, w), NEW z, Sizes(s, z),
           NEW q, Finds(s, q), ItemsOf(s) = q[Len(s)],
           NEW x, Finds(w[Len(s)].written, x),
           NEW m \in 0..Len(s), Follow(s, w[Len(s)].written, w, z, q, x, m),
           Items(s, q[m].at) = {}
    PROVE  Items(w[Len(s)].written, x[m].at) = {}
<1> DEFINE a == w[Len(s)].written
<1>1. s \in Seq(Bytes) /\ ItemsOf(s).at = Len(s)
  BY DEF Quoted
<1>2. a \in Seq(Ascii) /\ a \in Seq(Bytes)
  BY AsciiTextIs
<1>3. q[Len(s)] = q[m]
  BY <1>1, ItemsEnd
<1>4. q[m].at = Len(s)
  BY <1>1, <1>3
<1>5. PICK k : /\ Reached(s, w, z, k, Len(s))
               /\ x[m].at = Len(w[k].written) + 1
  BY <1>4 DEF Follow
<1>6. Closed(s, w, z, k)
  BY <1>5, LastRound
<1> DEFINE u == w[k].written
<1>7. u \in Seq(Ascii) /\ a = Append(u, Quote) /\ x[m].at = Len(u) + 1
  BY <1>5, <1>6 DEF Reached, Closed
<1> HIDE DEF a, u
<1>8. Len(a) = Len(u) + 1 /\ a[Len(u) + 1] = Quote /\ Len(u) \in Nat
  <2>1. Quote \in Ascii
    BY DEF Quote, Ascii
  <2> HIDE DEF Ascii
  <2>2. Len(Append(u, Quote)) = Len(u) + 1 /\ Append(u, Quote)[Len(u) + 1] = Quote
    BY <1>7, <2>1, AppendExtends
  <2> QED
    BY <1>7, <2>2
<1>9. Items(a, x[m].at) = {}
  <2>1. PICK i \in Nat \ {0} : i = Len(u) + 1 /\ i <= Len(a) /\ a[i] = Quote
    BY <1>8
  <2>2. Items(a, i) = {}
    BY <1>2, <2>1, ItemsAre
  <2> QED
    BY <1>7, <2>1, <2>2
<1> QED
  BY <1>9 DEF a

\* The items of the string and those of what is written go together.
LEMMA BothFollow ==
    ASSUME NEW s, Quoted(s), NEW w, Writes(s, w), NEW z, Sizes(s, z),
           NEW q, Finds(s, q), ItemsOf(s) = q[Len(s)],
           NEW x, Finds(w[Len(s)].written, x)
    PROVE  \A m \in 0..Len(s) : Follow(s, w[Len(s)].written, w, z, q, x, m)
<1> DEFINE a == w[Len(s)].written
           T == {m \in 0..Len(s) : Follow(s, a, w, z, q, x, m)}
<1>1. a \in Seq(Ascii) /\ a \in Seq(Bytes) /\ Len(a) >= Len(s)
  BY AsciiTextIs
<1>2. /\ s \in Seq(Bytes) /\ Len(s) \in Nat /\ Len(s) >= 2 /\ Len(a) \in Nat
  BY <1>1 DEF Quoted
<1>3. /\ \A m \in 0..Len(s) : q[m] \in ItemStates /\ q[m].at \in Nat \ {0}
      /\ q[0] = ItemsStart /\ \A m \in 1..Len(s) : q[m] = ItemRound(s, q[m - 1])
  <2>1. \A m \in 0..Len(s) : q[m] \in ItemStates
    BY DEF Finds
  <2> QED
    BY <2>1 DEF Finds, ItemStates
<1>4. /\ \A m \in 0..Len(a) : x[m] \in ItemStates /\ x[m].at \in Nat \ {0}
      /\ x[0] = ItemsStart /\ \A m \in 1..Len(a) : x[m] = ItemRound(a, x[m - 1])
  <2>1. \A m \in 0..Len(a) : x[m] \in ItemStates
    BY DEF Finds
  <2> QED
    BY <2>1 DEF Finds, ItemStates
<1>5. 0 \in T
  <2>1. Reached(s, w, z, 1, 2)
    BY ReachFirst
  <2>2. w[1].written \in Seq(Ascii) /\ w[1].written = Append(<<>>, Quote)
    <3>1. PICK c : c = s[1] /\ c = Quote
      BY DEF Quoted
    <3>2. Copies(s, w, z, 1, 1)
      <4>1. w[0].at = 1 /\ z[0].at = 1
        BY DEF Writes, Sizes, WriteStart, SizeStart
      <4>2. AtBoth(w, z, 1 - 1, 1)
        BY <4>1 DEF AtBoth
      <4>3. s[1] < 128 /\ 1 \in 1..Len(s)
        BY <1>2, <3>1 DEF Quote
      <4> QED
        BY <1>2, <4>2, <4>3, CopyRound
    <3>3. w[1].written = Append(w[1 - 1].written, s[1])
      BY <3>2, Zenon DEF Copies
    <3>4. w[1 - 1].written = <<>>
      BY DEF Writes, WriteStart
    <3> QED
      BY <2>1, <3>1, <3>3, <3>4 DEF Reached
  <2>3. Len(w[1].written) = 1
    BY <2>2
  <2>4. q[0].at = 2 /\ x[0].at = 2 /\ x[0].at = Len(w[1].written) + 1
    BY <1>3, <1>4, <2>3 DEF ItemsStart
  <2>5. Alike(q[0], x[0])
    BY <1>3, <1>4 DEF ItemsStart, Alike
  <2>6. Follow(s, a, w, z, q, x, 0)
    BY <2>1, <2>4, <2>5 DEF Follow
  <2> QED
    BY <1>2, <2>6
<1>6. ASSUME NEW m \in 1..Len(s), m - 1 \in T PROVE m \in T
  <2>0. PICK p \in 0..Len(s) : p = m - 1
    OBVIOUS
  <2>1. PICK k : /\ Reached(s, w, z, k, q[p].at)
                 /\ x[p].at = Len(w[k].written) + 1
                 /\ Alike(q[p], x[p])
    BY <1>6, <2>0 DEF Follow
  <2>2. /\ q[m] = ItemRound(s, q[p]) /\ q[p] \in ItemStates
        /\ x[m] = ItemRound(a, x[p]) /\ x[p] \in ItemStates
        /\ m \in 0..Len(s)
    BY <1>1, <1>2, <1>3, <1>4, <2>0
  <2>3. CASE Stops(s, q[p])
    <3>1. q[m] = q[p] /\ Items(s, q[p].at) = {}
      BY <2>2, <2>3 DEF Stops
    <3>2. Items(a, x[p].at) = {}
      <4>1. Follow(s, a, w, z, q, x, p)
        BY <1>6, <2>0
      <4> QED
        BY <3>1, <4>1, BothStop
    <3>3. x[m] = x[p]
      BY <2>2, <3>2, Zenon DEF ItemRound
    <3>4. Follow(s, a, w, z, q, x, m)
      BY <2>1, <3>1, <3>3 DEF Follow
    <3> QED
      BY <2>2, <3>4
  <2>4. ASSUME NEW n, Takes(s, q[p], n) PROVE m \in T
    <3> DEFINE y == Piece(s, q[p].at, n)
               e == Image(y)
               u == w[k].written
    <3>1. Passes(s, w, z, k, q[p].at, n)
      BY <1>2, <1>3, <2>1, <2>4, ReachNext
    <3>2. PICK l : /\ Reached(s, w, z, l, q[p].at + n) /\ Joined(u, w[l].written, e)
      BY <3>1 DEF Passes
    <3> DEFINE v == w[l].written
    <3>3. /\ y \in Seq(Bytes) /\ Len(y) = n /\ n \in ItemLengths /\ IsItem(y) /\ n >= 1
          /\ q[m] = After(s, q[p], n) /\ n \in Nat /\ q[p].at + n - 1 <= Len(s)
      BY <2>2, <2>4 DEF Takes
    <3>4. /\ e \in Seq(Ascii) /\ e \in Seq(Bytes) /\ Len(e) \in ItemLengths
          /\ IsItem(e) /\ Scalar(e) = Scalar(y) /\ Len(e) >= n
      BY <3>3, ImageIs
    <3>5. Starts(v, a)
      <4>1. l \in 0..Len(s) /\ Len(s) \in 0..Len(s) /\ l <= Len(s)
        BY <1>2, <1>3, <3>2, <3>3 DEF Reached
      <4> QED
        BY <1>2, <4>1, WrittenGrows
    <3>6. u \in Seq(Ascii) /\ v \in Seq(Ascii) /\ x[p].at = Len(u) + 1
      BY <2>1, <3>2 DEF Reached
    <3>7. e # <<>> /\ Len(e) \in Nat
      <4> HIDE DEF Ascii, y, e
      <4> QED
        BY <3>3, <3>4
    <3> HIDE DEF y, e, u, v, a
    <3>8. /\ x[p].at \in 1..Len(a) /\ Len(u) + Len(e) <= Len(a)
          /\ Piece(a, x[p].at, Len(e)) = e
      <4>1. Joined(u, v, e)
        BY <3>2 DEF v
      <4>2. /\ Len(u) + 1 \in 1..Len(a) /\ Len(u) + Len(e) <= Len(a)
            /\ Piece(a, Len(u) + 1, Len(e)) = e
        BY <1>1, <3>4, <3>5, <3>6, <3>7, <4>1, PieceWritten
      <4> QED
        BY <3>6, <4>2
    <3>9. Len(e) \in Items(a, x[p].at)
      <4>1. x[p].at \in Nat \ {0} /\ x[p].at + Len(e) - 1 <= Len(a)
        <5>1. Len(u) \in Nat
          <6> HIDE DEF Ascii
          <6> QED
            BY <3>6
        <5> QED
          BY <1>2, <3>6, <3>7, <3>8, <5>1
      <4> QED
        BY <1>1, <3>4, <3>8, <4>1, ItemsAre
    <3>10. PICK j : Takes(a, x[p], j)
      BY <1>1, <2>2, <3>9, ItemStep DEF Stops
    <3>11. j = Len(e)
      BY <3>9, <3>10 DEF Takes
    <3>12. x[m] = After(a, x[p], j)
      BY <2>2, <3>10 DEF Takes
    <3>13. Alike(q[m], x[m])
      <4>1. Scalar(Piece(a, x[p].at, j)) = Scalar(Piece(s, q[p].at, n))
        BY <3>4, <3>8, <3>11 DEF y
      <4>2. Alike(After(s, q[p], n), After(a, x[p], j))
        BY <2>1, <2>2, <2>4, <3>10, <4>1, AlikeGrows
      <4> QED
        BY <3>3, <3>12, <4>2
    <3>14. x[m].at = Len(v) + 1
      <4>1. x[m].at = x[p].at + Len(e)
        BY <3>11, <3>12 DEF After
      <4>2. Len(v) = Len(u) + Len(e)
        BY <3>2 DEF Joined, v
      <4>3. Len(u) \in Nat
        <5> HIDE DEF Ascii
        <5> QED
          BY <3>6
      <4> QED
        BY <3>6, <3>7, <4>1, <4>2, <4>3
    <3>15. q[m].at = q[p].at + n
      BY <3>3 DEF After
    <3>16. Follow(s, a, w, z, q, x, m)
      BY <3>2, <3>13, <3>14, <3>15 DEF Follow, v
    <3> QED
      BY <2>2, <3>16
  <2> QED
    BY <1>2, <2>2, <2>3, <2>4, ItemStep
<1> QED
  <2> HIDE DEF T
  <2>1. \A m \in 0..Len(s) : m \in T
    BY <1>2, <1>5, <1>6, AllRounds
  <2> QED
    BY <2>1 DEF T

\* The ASCII text is as long as was counted, ASCII, and says the same.
LEMMA AsciiSaysTheSame ==
    ASSUME NEW s, Quoted(s)
    PROVE  /\ AsciiWrite(s) \in Seq(Ascii) /\ Len(AsciiWrite(s)) = AsciiSize(s)
           /\ ItemsOf(s).items \in Seq(Seq(Bytes)) /\ ItemsOf(AsciiWrite(s)).items \in Seq(Seq(Bytes))
           /\ Alike(ItemsOf(s), ItemsOf(AsciiWrite(s)))
<1>1. s \in Seq(Bytes) /\ Len(s) \in Nat /\ ItemsOf(s).at = Len(s)
  BY DEF Quoted
<1>2. PICK w : Writes(s, w) /\ AsciiWrite(s) = w[Len(s)].written
  BY <1>1, WriteRuns, Zenon DEF Writes
<1>3. PICK z : Sizes(s, z) /\ AsciiSize(s) = z[Len(s)].length
  BY <1>1, SizeRuns, Zenon DEF Sizes
<1> DEFINE a == w[Len(s)].written
<1>4. a \in Seq(Ascii) /\ a \in Seq(Bytes) /\ Len(a) = z[Len(s)].length /\ Len(a) >= Len(s)
  BY <1>2, <1>3, AsciiTextIs
<1>5. PICK q : Finds(s, q) /\ ItemsOf(s) = q[Len(s)]
  BY <1>1, ItemsRun, Zenon DEF Finds
<1>6. PICK x : Finds(a, x) /\ ItemsOf(a) = x[Len(a)]
  BY <1>4, ItemsRun, Zenon DEF Finds
<1>7. Len(s) \in 0..Len(s) /\ Len(s) \in 0..Len(a) /\ Len(a) \in 0..Len(a)
  BY <1>1, <1>4
<1>8. Follow(s, a, w, z, q, x, Len(s))
  BY <1>2, <1>3, <1>5, <1>6, <1>7, BothFollow
<1>9. Items(s, q[Len(s)].at) = {}
  <2>1. \/ Items(s, q[Len(s)].at) = {}
        \/ q[Len(s)].at >= Len(s) + 2
    BY <1>1, <1>5, <1>7, ItemsEnd
  <2> QED
    BY <1>1, <1>5, <2>1
<1>10. Items(a, x[Len(s)].at) = {}
  BY <1>2, <1>3, <1>5, <1>6, <1>7, <1>8, <1>9, BothStop
<1>11. x[Len(a)] = x[Len(s)]
  <2> HIDE DEF a
  <2> QED
    BY <1>4, <1>6, <1>7, <1>10, ItemsEnd
<1>12. Alike(ItemsOf(s), ItemsOf(a))
  BY <1>5, <1>6, <1>8, <1>11 DEF Follow
<1>13. ItemsOf(s).items \in Seq(Seq(Bytes)) /\ ItemsOf(a).items \in Seq(Seq(Bytes))
  <2>1. ItemsOf(s) \in ItemStates /\ ItemsOf(a) \in ItemStates
    BY <1>5, <1>6, <1>7 DEF Finds
  <2> QED
    BY <2>1 DEF ItemStates
<1> QED
  BY <1>2, <1>3, <1>4, <1>12, <1>13

\* What AsciiFaithful says follows from the types.
LEMMA FaithfulNow ==
    ASSUME TextTypes
    PROVE  AsciiFaithful
<1> SUFFICES ASSUME IsString, DomString(text).verdict = "ok"
             PROVE  LET string == SubSeq(text, 1, DomString(text).at)
                        ascii  == AsciiWrite(string)
                        Scs(t) == [i \in DOMAIN ItemsOf(t).items |-> Scalar(ItemsOf(t).items[i])]
                    IN  /\ Len(ascii) = AsciiSize(string)
                        /\ \A i \in DOMAIN ascii : ascii[i] < 128
                        /\ Scs(ascii) = Scs(string)
  BY Zenon DEF AsciiFaithful
<1> DEFINE s == SubSeq(text, 1, DomString(text).at)
           a == AsciiWrite(s)
<1>1. Quoted(s)
  <2>1. text \in Seq(Bytes) /\ text # <<>> /\ text[1] = Quote
    BY DEF TextTypes, IsString
  <2> QED
    BY <2>1, StringQuoted
<1> HIDE DEF s
<1>2. /\ a \in Seq(Ascii) /\ Len(a) = AsciiSize(s)
      /\ ItemsOf(s).items \in Seq(Seq(Bytes)) /\ ItemsOf(a).items \in Seq(Seq(Bytes))
      /\ Alike(ItemsOf(s), ItemsOf(a))
  BY <1>1, AsciiSaysTheSame
<1> HIDE DEF a
<1>3. ASSUME NEW i \in DOMAIN a PROVE a[i] < 128
  <2>1. a[i] \in Ascii
    <3> HIDE DEF Ascii
    <3> QED
      BY <1>2
  <2> QED
    BY <2>1, AsciiBelow, Zenon
<1>4. DOMAIN ItemsOf(a).items = DOMAIN ItemsOf(s).items
      /\ DOMAIN ItemsOf(s).items = 1..Len(ItemsOf(s).items)
  BY <1>2 DEF Alike
<1>5. \A i \in DOMAIN ItemsOf(s).items : Scalar(ItemsOf(a).items[i]) = Scalar(ItemsOf(s).items[i])
  BY <1>2, <1>4, Zenon DEF Alike
<1>6. [i \in DOMAIN ItemsOf(a).items |-> Scalar(ItemsOf(a).items[i])]
      = [i \in DOMAIN ItemsOf(s).items |-> Scalar(ItemsOf(s).items[i])]
  BY <1>4, <1>5, Zenon
<1> QED
  BY <1>2, <1>3, <1>6, Zenon DEF a, s

\* For a string the preflight has passed, what jsonc_ascii_write writes has the
\* length jsonc_ascii_size has counted, no byte of 128 or more, and item by item
\* the scalars of the string, for every text.
THEOREM AsciiFaithfulHolds == TextSpec => []AsciiFaithful
<1>1. TextTypes => AsciiFaithful
  BY FaithfulNow
<1> QED
  BY <1>1, TextType, PTL

=============================================================================
