---------------------------- MODULE YajlGuardProofs ----------------------------
(***************************************************************************)
(* The byte guard of the YAJL adapter against the definitions of           *)
(* ScalarText, for every byte, every cut into chunks, texts of any length  *)
(* and any limit.                                                          *)
(***************************************************************************)
EXTENDS YajlGuard, Integers, TLAPS

(***************************************************************************)
(* Characters.  Payload is a recursive function; at the lengths a          *)
(* character has its values are spelled out.                               *)
(***************************************************************************)

\* The bits of a lead byte, to which each byte that follows adds six.
More(value, c) == value * 64 + (c - 128)
Payload1(s) == s[1] - <<0, 192, 224, 240>>[EncodedLength(s[1])]
Payload2(s) == More(Payload1(s), s[2])
Payload3(s) == More(Payload2(s), s[3])
Payload4(s) == More(Payload3(s), s[4])

IsPayload(f, s, n) ==
    f = [i \in 1..n |-> IF i = 1 THEN Payload1(s)
                        ELSE More(f[i - 1], s[i])]

Payloads(s, n) ==
    [i \in 1..n |-> IF i = 1 THEN Payload1(s)
                    ELSE IF i = 2 THEN Payload2(s)
                    ELSE IF i = 3 THEN Payload3(s)
                    ELSE Payload4(s)]

LEMMA PayloadsAre ==
    ASSUME NEW s, NEW n \in 1..4
    PROVE  IsPayload(Payloads(s, n), s, n)
<1> DEFINE f == Payloads(s, n)
<1>1. f = [i \in 1..n |-> IF i = 1 THEN Payload1(s)
                          ELSE IF i = 2 THEN Payload2(s)
                          ELSE IF i = 3 THEN Payload3(s) ELSE Payload4(s)]
  BY DEF Payloads
<1>2. Payload2(s) = More(Payload1(s), s[2])
      /\ Payload3(s) = More(Payload2(s), s[3])
      /\ Payload4(s) = More(Payload3(s), s[4])
  BY DEF Payload2, Payload3, Payload4
<1> HIDE DEF f
<1>3. \A i \in 1..n : f[i] = IF i = 1 THEN Payload1(s) ELSE More(f[i - 1], s[i])
  <2> SUFFICES ASSUME NEW i \in 1..n
               PROVE  f[i] = IF i = 1 THEN Payload1(s) ELSE More(f[i - 1], s[i])
    OBVIOUS
  <2>1. i \in {1, 2, 3, 4}
    OBVIOUS
  <2>2. CASE i = 1  BY <1>1, <2>2
  <2>3. CASE i = 2  BY <1>1, <1>2, <2>3
  <2>4. CASE i = 3  BY <1>1, <1>2, <2>4
  <2>5. CASE i = 4  BY <1>1, <1>2, <2>5
  <2> QED  BY <2>1, <2>2, <2>3, <2>4, <2>5
<1> QED  BY <1>1, <1>3 DEF IsPayload, f

LEMMA PayloadUnique ==
    ASSUME NEW s, NEW n \in 1..4, NEW f, NEW g,
           IsPayload(f, s, n), IsPayload(g, s, n)
    PROVE  f = g
<1>0. /\ f = [i \in 1..n |-> f[i]] /\ g = [i \in 1..n |-> g[i]]
      /\ \A i \in 1..n :
            f[i] = IF i = 1 THEN Payload1(s) ELSE More(f[i - 1], s[i])
      /\ \A i \in 1..n :
            g[i] = IF i = 1 THEN Payload1(s) ELSE More(g[i - 1], s[i])
  BY DEF IsPayload
<1>1. f[1] = g[1]
  <2>1. 1 \in 1..n  OBVIOUS
  <2> QED  BY <1>0, <2>1, Zenon
<1>s. ASSUME NEW i \in 1..n, NEW j, j = i - 1, i # 1, f[j] = g[j]
      PROVE  f[i] = g[i]
  <2>1. /\ f[i] = IF i = 1 THEN Payload1(s) ELSE More(f[i - 1], s[i])
        /\ g[i] = IF i = 1 THEN Payload1(s) ELSE More(g[i - 1], s[i])
    BY <1>0, Zenon
  <2> QED  BY <1>s, <2>1
<1>2. n >= 2 => f[2] = g[2]  BY <1>1, <1>s
<1>3. n >= 3 => f[3] = g[3]  BY <1>2, <1>s
<1>4. n >= 4 => f[4] = g[4]  BY <1>3, <1>s
<1>5. \A i \in 1..n : f[i] = g[i]  BY <1>1, <1>2, <1>3, <1>4
<1> QED  BY <1>0, <1>5

LEMMA PayloadIs ==
    ASSUME NEW s, NEW n \in 1..4, n = Len(s)
    PROVE  Payload(s) = Payloads(s, n)[n]
<1>1. Payload(s) = (CHOOSE f : IsPayload(f, s, n))[n]
  BY DEF Payload, IsPayload, Payload1, More
<1>2. (CHOOSE f : IsPayload(f, s, n)) = Payloads(s, n)
  BY PayloadsAre, PayloadUnique, Zenon
<1> QED  BY <1>1, <1>2, Zenon


Bytes == {c \in Nat : c <= 255}

\* A scalar value whose encoding of m bytes begins with k bytes of payload p.
Within(p, m, k) ==
    LET width == 64 ^ (m - k)
        first == p * width
    IN  Encodes(m, first, first + width - 1)

LEMMA WithinIs ==
    ASSUME NEW p \in Nat
    PROVE  /\ Within(p, 1, 1) <=> p <= 127
           /\ Within(p, 2, 1) <=> p * 64 <= 2047 /\ 128 <= p * 64 + 63
           /\ Within(p, 2, 2) <=> 128 <= p /\ p <= 2047
           /\ Within(p, 3, 1) <=> \/ p * 4096 <= 55295 /\ 2048 <= p * 4096 + 4095
                                  \/ p * 4096 <= 65535 /\ 57344 <= p * 4096 + 4095
           /\ Within(p, 3, 2) <=> \/ p * 64 <= 55295 /\ 2048 <= p * 64 + 63
                                  \/ p * 64 <= 65535 /\ 57344 <= p * 64 + 63
           /\ Within(p, 3, 3) <=> \/ 2048 <= p /\ p <= 55295
                                  \/ 57344 <= p /\ p <= 65535
           /\ Within(p, 4, 1) <=> p * 262144 <= 1114111 /\ 65536 <= p * 262144 + 262143
           /\ Within(p, 4, 2) <=> p * 4096 <= 1114111 /\ 65536 <= p * 4096 + 4095
           /\ Within(p, 4, 3) <=> p * 64 <= 1114111 /\ 65536 <= p * 64 + 63
           /\ Within(p, 4, 4) <=> 65536 <= p /\ p <= 1114111
<1>1. 64 ^ 0 = 1 /\ 64 ^ 1 = 64 /\ 64 ^ 2 = 4096 /\ 64 ^ 3 = 262144
  BY SMT
<1>2. ASSUME NEW m \in 1..4, NEW k \in 1..4, NEW width \in Nat, width = 64 ^ (m - k)
      PROVE  Within(p, m, k) <=> Encodes(m, p * width, p * width + width - 1)
  BY <1>2, SMT DEF Within
<1>3. /\ Within(p, 1, 1) <=> Encodes(1, p * 1, p * 1 + 1 - 1)
      /\ Within(p, 2, 1) <=> Encodes(2, p * 64, p * 64 + 64 - 1)
      /\ Within(p, 2, 2) <=> Encodes(2, p * 1, p * 1 + 1 - 1)
      /\ Within(p, 3, 1) <=> Encodes(3, p * 4096, p * 4096 + 4096 - 1)
      /\ Within(p, 3, 2) <=> Encodes(3, p * 64, p * 64 + 64 - 1)
      /\ Within(p, 3, 3) <=> Encodes(3, p * 1, p * 1 + 1 - 1)
      /\ Within(p, 4, 1) <=> Encodes(4, p * 262144, p * 262144 + 262144 - 1)
      /\ Within(p, 4, 2) <=> Encodes(4, p * 4096, p * 4096 + 4096 - 1)
      /\ Within(p, 4, 3) <=> Encodes(4, p * 64, p * 64 + 64 - 1)
      /\ Within(p, 4, 4) <=> Encodes(4, p * 1, p * 1 + 1 - 1)
  BY <1>1, <1>2, SMT
<1> QED  BY <1>3, SMT DEF Encodes

Continues(c) == c \in 128..191

LEMMA CompletableIs ==
    ASSUME NEW s \in Seq(Bytes), NEW k \in 1..4, k = Len(s)
    PROVE  Completable(s) <=>
             LET m == EncodedLength(s[1]) IN
             /\ m # 0 /\ k <= m
             /\ \A i \in 2..k : Continues(s[i])
             /\ Within(Payloads(s, k)[k], m, k)
<1>1. Payload(s) = Payloads(s, k)[k]  BY PayloadIs
<1>2. s # <<>>  OBVIOUS
<1> QED  BY <1>1, <1>2 DEF Completable, Within, Continues

\* Bytes as the number of bytes they announce.
LEMMA EncodedLengthIs ==
    ASSUME NEW c \in Nat, c <= 255
    PROVE  EncodedLength(c) = IF c <= 127 THEN 1 ELSE IF c <= 191 THEN 0
                              ELSE IF c <= 223 THEN 2 ELSE IF c <= 239 THEN 3
                              ELSE IF c <= 247 THEN 4 ELSE 0
BY SMT DEF EncodedLength

LEMMA FollowingIs ==
    ASSUME NEW c \in Nat, 194 <= c, c <= 244
    PROVE  Following(c) = IF c <= 223 THEN 1 ELSE IF c <= 239 THEN 2 ELSE 3
BY SMT DEF Following

LEMMA BoundsAre ==
    ASSUME NEW c \in Nat
    PROVE  /\ Minimum(c) = IF c = 224 THEN 160 ELSE IF c = 240 THEN 144 ELSE 128
           /\ Maximum(c) = IF c = 237 THEN 159 ELSE IF c = 244 THEN 143 ELSE 191
BY SMT DEF Minimum, Maximum

LEMMA Payload1Is ==
    ASSUME NEW s, s[1] \in Nat, s[1] <= 255
    PROVE  Payload1(s) = s[1] - (IF s[1] <= 127 THEN 0 ELSE IF s[1] <= 223 THEN 192
                                 ELSE IF s[1] <= 239 THEN 224 ELSE 240)
           \/ EncodedLength(s[1]) = 0
BY EncodedLengthIs, SMT DEF Payload1

LEMMA Continuation ==
    ASSUME NEW c \in Nat
    PROVE  Continues(c) <=> 128 <= c /\ c <= 191
BY SMT DEF Continues

LEMMA Elements ==
    ASSUME NEW s \in Seq(Bytes)
    PROVE  /\ Len(s) = 1 => s[1] \in Bytes
           /\ Len(s) = 2 => s[1] \in Bytes /\ s[2] \in Bytes
           /\ Len(s) = 3 => s[1] \in Bytes /\ s[2] \in Bytes /\ s[3] \in Bytes
           /\ Len(s) = 4 => /\ s[1] \in Bytes /\ s[2] \in Bytes
                            /\ s[3] \in Bytes /\ s[4] \in Bytes
<1>1. \A i \in 1..Len(s) : s[i] \in Bytes  OBVIOUS
<1> QED  BY <1>1, SMT

\* Completable of characters of one to four bytes.
LEMMA FirstByte ==
    ASSUME NEW s \in Seq(Bytes), Len(s) = 1
    PROVE  Completable(s) <=> s[1] <= 127 \/ (194 <= s[1] /\ s[1] <= 244)
<1>1. Completable(s) <=> LET m == EncodedLength(s[1]) IN
                         m # 0 /\ 1 <= m /\ Within(Payload1(s), m, 1)
  <2>1. Payloads(s, 1)[1] = Payload1(s)  BY SMT DEF Payloads
  <2> QED  BY <2>1, CompletableIs, SMT
<1>2. s[1] \in Nat /\ s[1] <= 255
  <2>1. s[1] \in Bytes  BY Elements, Zenon
  <2> QED  BY <2>1, SMT DEF Bytes
<1> QED  BY <1>1, <1>2, EncodedLengthIs, Payload1Is, WithinIs, SMT

LEMMA SecondByte ==
    ASSUME NEW s \in Seq(Bytes), Len(s) = 2, 194 <= s[1], s[1] <= 244
    PROVE  Completable(s) <=> Minimum(s[1]) <= s[2] /\ s[2] <= Maximum(s[1])
<1>0. s[1] \in Bytes /\ s[2] \in Bytes
  BY Elements, Zenon
<1>1. /\ s[1] \in Nat /\ s[1] <= 255
      /\ s[2] \in Nat /\ s[2] <= 255
  BY <1>0, SMT DEF Bytes
<1>2. Completable(s) <=> LET m == EncodedLength(s[1]) IN
                         /\ m # 0 /\ 2 <= m
                         /\ 128 <= s[2] /\ s[2] <= 191
                         /\ Within(Payload2(s), m, 2)
  <2>1. Payloads(s, 2)[2] = Payload2(s)  BY SMT DEF Payloads
  <2>2. (\A i \in 2..2 : Continues(s[i])) <=> Continues(s[2])
    OBVIOUS
  <2>3. Continues(s[2]) <=> 128 <= s[2] /\ s[2] <= 191
    BY <1>1, Continuation
  <2>4. Completable(s) <=> LET m == EncodedLength(s[1]) IN
                           /\ m # 0 /\ 2 <= m
                           /\ \A i \in 2..2 : Continues(s[i])
                           /\ Within(Payloads(s, 2)[2], m, 2)
    BY CompletableIs
  <2> QED  BY <2>1, <2>2, <2>3, <2>4, SMT
<1>3. Payload2(s) = Payload1(s) * 64 + (s[2] - 128)
  BY DEF Payload2, More
<1>4. CASE s[1] <= 223
  <2>1. EncodedLength(s[1]) = 2 /\ Payload1(s) = s[1] - 192
    BY <1>1, <1>4, EncodedLengthIs, Payload1Is, SMT
  <2>2. Minimum(s[1]) = 128 /\ Maximum(s[1]) = 191
    BY <1>1, <1>4, BoundsAre, SMT
  <2> QED  BY <1>1, <1>2, <1>3, <1>4, <2>1, <2>2, WithinIs, SMT
<1>5. CASE 224 <= s[1] /\ s[1] <= 239
  <2>1. EncodedLength(s[1]) = 3 /\ Payload1(s) = s[1] - 224
    BY <1>1, <1>5, EncodedLengthIs, Payload1Is, SMT
  <2> DEFINE p == (s[1] - 224) * 64 + (s[2] - 128)
  <2>2. Completable(s) <=> 128 <= s[2] /\ s[2] <= 191 /\ Within(p, 3, 2)
    <3>1. Payload2(s) = p  BY <1>3, <2>1, Zenon
    <3>2. 3 # 0 /\ 2 <= 3  OBVIOUS
    <3> QED  BY <1>2, <2>1, <3>1, <3>2, Zenon
  <2>3. ASSUME 128 <= s[2], s[2] <= 191
        PROVE  Within(p, 3, 2) <=> \/ p * 64 <= 55295 /\ 2048 <= p * 64 + 63
                                   \/ p * 64 <= 65535 /\ 57344 <= p * 64 + 63
    <3>1. p \in Nat  BY <1>1, <1>5, <2>3, SMT
    <3> HIDE DEF p
    <3> QED  BY <3>1, WithinIs, SMT
  <2>4. /\ Minimum(s[1]) = IF s[1] = 224 THEN 160 ELSE 128
        /\ Maximum(s[1]) = IF s[1] = 237 THEN 159 ELSE 191
    BY <1>1, BoundsAre, <1>5, SMT
  <2>5. PICK a \in Nat, b \in Nat : a = s[1] /\ b = s[2]
    BY <1>1, Zenon
  <2>6. PICK q \in Int : q = (a - 224) * 64 + (b - 128)
    OBVIOUS
  <2>7. p = q
    BY <2>5, <2>6, Zenon
  <2>8. 224 <= a /\ a <= 239
    BY <1>5, <2>5, Zenon
  <2>9. /\ 128 <= b /\ b <= 191
        /\ \/ q * 64 <= 55295 /\ 2048 <= q * 64 + 63
           \/ q * 64 <= 65535 /\ 57344 <= q * 64 + 63
        <=> /\ (IF a = 224 THEN 160 ELSE 128) <= b
            /\ b <= (IF a = 237 THEN 159 ELSE 191)
    BY <2>6, <2>8, SMT
  <2> HIDE DEF p
  <2> QED  BY <2>2, <2>3, <2>4, <2>5, <2>7, <2>9, SMT
<1>6. CASE 240 <= s[1]
  <2>1. EncodedLength(s[1]) = 4 /\ Payload1(s) = s[1] - 240
    BY <1>1, <1>6, EncodedLengthIs, Payload1Is, SMT
  <2> DEFINE p == (s[1] - 240) * 64 + (s[2] - 128)
  <2>2. Completable(s) <=> 128 <= s[2] /\ s[2] <= 191 /\ Within(p, 4, 2)
    <3>1. Payload2(s) = p  BY <1>3, <2>1, Zenon
    <3>2. 4 # 0 /\ 2 <= 4  OBVIOUS
    <3> QED  BY <1>2, <2>1, <3>1, <3>2, Zenon
  <2>3. ASSUME 128 <= s[2], s[2] <= 191
        PROVE  Within(p, 4, 2) <=> p * 4096 <= 1114111 /\ 65536 <= p * 4096 + 4095
    <3>1. p \in Nat  BY <1>1, <1>6, <2>3, SMT
    <3> HIDE DEF p
    <3> QED  BY <3>1, WithinIs, SMT
  <2>4. /\ Minimum(s[1]) = IF s[1] = 240 THEN 144 ELSE 128
        /\ Maximum(s[1]) = IF s[1] = 244 THEN 143 ELSE 191
    BY <1>1, BoundsAre, <1>6, SMT
  <2>5. PICK a \in Nat, b \in Nat : a = s[1] /\ b = s[2]
    BY <1>1, Zenon
  <2>6. PICK q \in Int : q = (a - 240) * 64 + (b - 128)
    OBVIOUS
  <2>7. p = q
    BY <2>5, <2>6, Zenon
  <2>8. 240 <= a /\ a <= 244
    BY <1>6, <2>5, Zenon
  <2>9. /\ 128 <= b /\ b <= 191
        /\ q * 4096 <= 1114111 /\ 65536 <= q * 4096 + 4095
        <=> /\ (IF a = 240 THEN 144 ELSE 128) <= b
            /\ b <= (IF a = 244 THEN 143 ELSE 191)
    BY <2>6, <2>8, SMT
  <2> HIDE DEF p
  <2> QED  BY <2>2, <2>3, <2>4, <2>5, <2>7, <2>9, SMT
<1> QED  BY <1>1, <1>4, <1>5, <1>6, SMT

LEMMA ThirdByte ==
    ASSUME NEW s \in Seq(Bytes), Len(s) = 3, 224 <= s[1], s[1] <= 244,
           Minimum(s[1]) <= s[2], s[2] <= Maximum(s[1])
    PROVE  Completable(s) <=> 128 <= s[3] /\ s[3] <= 191
<1>0. s[1] \in Bytes /\ s[2] \in Bytes /\ s[3] \in Bytes
  BY Elements, Zenon
<1>1. PICK a \in Int, b \in Int, c \in Int :
             /\ s[1] = a /\ 0 <= a /\ a <= 255
             /\ s[2] = b /\ 0 <= b /\ b <= 255
             /\ s[3] = c /\ 0 <= c /\ c <= 255
  BY <1>0, SMT DEF Bytes
<1>b. 128 <= b /\ b <= 191
  BY <1>1, BoundsAre, SMT
<1>2. Completable(s) <=> LET m == EncodedLength(a) IN
                         /\ m # 0 /\ 3 <= m
                         /\ 128 <= c /\ c <= 191
                         /\ Within(Payload3(s), m, 3)
  <2>1. Payloads(s, 3)[3] = Payload3(s)  BY SMT DEF Payloads
  <2>2. (\A i \in 2..3 : Continues(s[i])) <=> Continues(b) /\ Continues(c)
    BY <1>1, SMT
  <2>3. /\ Continues(b)
        /\ Continues(c) <=> 128 <= c /\ c <= 191
    BY <1>1, <1>b, Continuation, SMT
  <2>4. Completable(s) <=> LET m == EncodedLength(s[1]) IN
                           /\ m # 0 /\ 3 <= m
                           /\ \A i \in 2..3 : Continues(s[i])
                           /\ Within(Payloads(s, 3)[3], m, 3)
    BY CompletableIs
  <2> QED  BY <1>1, <2>1, <2>2, <2>3, <2>4, SMT
<1>3. Payload3(s) = (Payload1(s) * 64 + (b - 128)) * 64 + (c - 128)
  BY <1>1 DEF Payload2, Payload3, More
<1>4. CASE a <= 239
  <2>1. EncodedLength(a) = 3 /\ Payload1(s) = a - 224
    BY <1>1, <1>4, EncodedLengthIs, Payload1Is, SMT
  <2>2. (a = 224 => 160 <= b) /\ (a = 237 => b <= 159)
    BY <1>1, BoundsAre, SMT
  <2>3. ASSUME 128 <= c, c <= 191  PROVE  Within(Payload3(s), 3, 3)
    <3> DEFINE p == ((a - 224) * 64 + (b - 128)) * 64 + (c - 128)
    <3>1. p \in Nat /\ ((2048 <= p /\ p <= 55295) \/ (57344 <= p /\ p <= 65535))
      BY <1>1, <1>b, <1>4, <2>2, <2>3, SMT
    <3>2. Payload3(s) = p  BY <1>3, <2>1, SMT
    <3> HIDE DEF p
    <3>3. Within(p, 3, 3)  BY <3>1, WithinIs, SMT
    <3> QED  BY <3>2, <3>3, SMT
  <2> QED  BY <1>1, <1>2, <2>1, <2>3, SMT
<1>5. CASE 240 <= a
  <2>1. EncodedLength(a) = 4 /\ Payload1(s) = a - 240
    BY <1>1, <1>5, EncodedLengthIs, Payload1Is, SMT
  <2>2. (a = 240 => 144 <= b) /\ (a = 244 => b <= 143)
    BY <1>1, BoundsAre, SMT
  <2>3. ASSUME 128 <= c, c <= 191  PROVE  Within(Payload3(s), 4, 3)
    <3> DEFINE p == ((a - 240) * 64 + (b - 128)) * 64 + (c - 128)
    <3>1. p \in Nat /\ 1024 <= p /\ p <= 17407
      BY <1>1, <1>b, <1>5, <2>2, <2>3, SMT
    <3>2. Payload3(s) = p  BY <1>3, <2>1, SMT
    <3> HIDE DEF p
    <3>3. Within(p, 4, 3)  BY <3>1, WithinIs, SMT
    <3> QED  BY <3>2, <3>3, SMT
  <2> QED  BY <1>1, <1>2, <2>1, <2>3, SMT
<1> QED  BY <1>1, <1>4, <1>5, SMT

LEMMA FourthByte ==
    ASSUME NEW s \in Seq(Bytes), Len(s) = 4, 240 <= s[1], s[1] <= 244,
           Minimum(s[1]) <= s[2], s[2] <= Maximum(s[1]),
           128 <= s[3], s[3] <= 191
    PROVE  Completable(s) <=> 128 <= s[4] /\ s[4] <= 191
<1>0. s[1] \in Bytes /\ s[2] \in Bytes /\ s[3] \in Bytes /\ s[4] \in Bytes
  BY Elements, Zenon
<1>1. PICK a \in Int, b \in Int, c \in Int, d \in Int :
             /\ s[1] = a /\ 0 <= a /\ a <= 255
             /\ s[2] = b /\ 0 <= b /\ b <= 255
             /\ s[3] = c /\ 0 <= c /\ c <= 255
             /\ s[4] = d /\ 0 <= d /\ d <= 255
  BY <1>0, SMT DEF Bytes
<1>b. 128 <= b /\ b <= 191 /\ 128 <= c /\ c <= 191
  BY <1>1, BoundsAre, SMT
<1>2. Completable(s) <=> LET m == EncodedLength(a) IN
                         /\ m # 0 /\ 4 <= m
                         /\ 128 <= d /\ d <= 191
                         /\ Within(Payload4(s), m, 4)
  <2>1. Payloads(s, 4)[4] = Payload4(s)  BY SMT DEF Payloads
  <2>2. (\A i \in 2..4 : Continues(s[i]))
            <=> Continues(b) /\ Continues(c) /\ Continues(d)
    BY <1>1, SMT
  <2>3. /\ Continues(b) /\ Continues(c)
        /\ Continues(d) <=> 128 <= d /\ d <= 191
    BY <1>1, <1>b, Continuation, SMT
  <2>4. Completable(s) <=> LET m == EncodedLength(s[1]) IN
                           /\ m # 0 /\ 4 <= m
                           /\ \A i \in 2..4 : Continues(s[i])
                           /\ Within(Payloads(s, 4)[4], m, 4)
    BY CompletableIs
  <2> QED  BY <1>1, <2>1, <2>2, <2>3, <2>4, SMT
<1>3. Payload4(s) = ((Payload1(s) * 64 + (b - 128)) * 64 + (c - 128)) * 64 + (d - 128)
  BY <1>1 DEF Payload2, Payload3, Payload4, More
<1>4. EncodedLength(a) = 4 /\ Payload1(s) = a - 240
  BY <1>1, EncodedLengthIs, Payload1Is, SMT
<1>5. (a = 240 => 144 <= b) /\ (a = 244 => b <= 143)
  BY <1>1, BoundsAre, SMT
<1>6. ASSUME 128 <= d, d <= 191  PROVE  Within(Payload4(s), 4, 4)
  <2> DEFINE p == (((a - 240) * 64 + (b - 128)) * 64 + (c - 128)) * 64 + (d - 128)
  <2>1. p \in Nat /\ 65536 <= p /\ p <= 1114111
    BY <1>1, <1>b, <1>5, <1>6, SMT
  <2>2. Payload4(s) = p  BY <1>3, <1>4, SMT
  <2> HIDE DEF p
  <2>3. Within(p, 4, 4)  BY <2>1, WithinIs, SMT
  <2> QED  BY <2>2, <2>3, SMT
<1> QED  BY <1>1, <1>2, <1>4, <1>6, SMT

(***************************************************************************)
(* One byte of a character.                                                *)
(***************************************************************************)

\* What the guard knows of a character when it has read the bytes s of it: how
\* many are to come, and between what the next one has to be.
Waits(s, remaining, minimum, maximum) ==
    \/ s = <<>> /\ remaining = 0
    \/ /\ Len(s) = 1 /\ 194 <= s[1] /\ s[1] <= 244
       /\ remaining = Following(s[1])
       /\ minimum = Minimum(s[1]) /\ maximum = Maximum(s[1])
    \/ /\ Len(s) = 2 /\ 224 <= s[1] /\ s[1] <= 244
       /\ Minimum(s[1]) <= s[2] /\ s[2] <= Maximum(s[1])
       /\ remaining = Following(s[1]) - 1
       /\ minimum = 128 /\ maximum = 191
    \/ /\ Len(s) = 3 /\ 240 <= s[1] /\ s[1] <= 244
       /\ Minimum(s[1]) <= s[2] /\ s[2] <= Maximum(s[1])
       /\ 128 <= s[3] /\ s[3] <= 191
       /\ remaining = 1
       /\ minimum = 128 /\ maximum = 191

\* It waits inside a character only, and then for one to three bytes.
LEMMA WaitsInside ==
    ASSUME NEW s \in Seq(Bytes), NEW remaining, NEW minimum, NEW maximum,
           Waits(s, remaining, minimum, maximum)
    PROVE  /\ remaining \in Nat
           /\ remaining = 0 <=> s = <<>>
           /\ s # <<>> => Completable(s) /\ ~IsCharacter(s)
           /\ remaining # 0 => minimum \in Nat /\ maximum \in Nat
                               /\ 128 <= minimum /\ maximum <= 191
<1>1. CASE s = <<>> /\ remaining = 0
  BY <1>1
<1>2. CASE /\ Len(s) = 1 /\ 194 <= s[1] /\ s[1] <= 244
           /\ remaining = Following(s[1])
           /\ minimum = Minimum(s[1]) /\ maximum = Maximum(s[1])
  <2>0. s[1] \in Bytes  BY <1>2, Elements, Zenon
  <2>1. s[1] \in Nat /\ s[1] <= 255  BY <2>0, SMT DEF Bytes
  <2> QED
    BY <1>2, <2>1, FirstByte, EncodedLengthIs, FollowingIs, BoundsAre, SMT DEF IsCharacter
<1>3. CASE /\ Len(s) = 2 /\ 224 <= s[1] /\ s[1] <= 244
           /\ Minimum(s[1]) <= s[2] /\ s[2] <= Maximum(s[1])
           /\ remaining = Following(s[1]) - 1
           /\ minimum = 128 /\ maximum = 191
  <2>0. s[1] \in Bytes  BY <1>3, Elements, Zenon
  <2>1. s[1] \in Nat /\ s[1] <= 255  BY <2>0, SMT DEF Bytes
  <2> QED
    BY <1>3, <2>1, SecondByte, EncodedLengthIs, FollowingIs, SMT DEF IsCharacter
<1>4. CASE /\ Len(s) = 3 /\ 240 <= s[1] /\ s[1] <= 244
           /\ Minimum(s[1]) <= s[2] /\ s[2] <= Maximum(s[1])
           /\ 128 <= s[3] /\ s[3] <= 191
           /\ remaining = 1
           /\ minimum = 128 /\ maximum = 191
  <2>0. s[1] \in Bytes  BY <1>4, Elements, Zenon
  <2>1. s[1] \in Nat /\ s[1] <= 255  BY <2>0, SMT DEF Bytes
  <2> QED
    BY <1>4, <2>1, ThirdByte, EncodedLengthIs, SMT DEF IsCharacter
<1> QED  BY <1>1, <1>2, <1>3, <1>4 DEF Waits

LEMMA LeadAnnounces ==
    ASSUME NEW a \in Nat, 194 <= a, a <= 244
    PROVE  /\ EncodedLength(a) = Following(a) + 1
           /\ Following(a) = IF a <= 223 THEN 1 ELSE IF a <= 239 THEN 2 ELSE 3
<1>1. Following(a) = IF a <= 223 THEN 1 ELSE IF a <= 239 THEN 2 ELSE 3
  BY FollowingIs, SMT
<1>2. EncodedLength(a) = IF a <= 223 THEN 2 ELSE IF a <= 239 THEN 3 ELSE 4
  BY EncodedLengthIs, SMT
<1> QED  BY <1>1, <1>2, SMT

LEMMA AppendIs ==
    ASSUME NEW s \in Seq(Bytes), NEW c \in Bytes
    PROVE  /\ Append(s, c) \in Seq(Bytes)
           /\ Len(Append(s, c)) = Len(s) + 1
           /\ Len(s) = 1 => Append(s, c)[1] = s[1] /\ Append(s, c)[2] = c
           /\ Len(s) = 2 => /\ Append(s, c)[1] = s[1] /\ Append(s, c)[2] = s[2]
                            /\ Append(s, c)[3] = c
           /\ Len(s) = 3 => /\ Append(s, c)[1] = s[1] /\ Append(s, c)[2] = s[2]
                            /\ Append(s, c)[3] = s[3] /\ Append(s, c)[4] = c
<1>1. /\ Append(s, c) \in Seq(Bytes) /\ Len(Append(s, c)) = Len(s) + 1
      /\ \A i \in 1..Len(s) : Append(s, c)[i] = s[i]
      /\ Append(s, c)[Len(s) + 1] = c
  OBVIOUS
<1>2. ASSUME Len(s) = 1  PROVE Append(s, c)[1] = s[1] /\ Append(s, c)[2] = c
  BY <1>1, <1>2
<1>3. ASSUME Len(s) = 2
      PROVE  Append(s, c)[1] = s[1] /\ Append(s, c)[2] = s[2] /\ Append(s, c)[3] = c
  BY <1>1, <1>3
<1>4. ASSUME Len(s) = 3
      PROVE  /\ Append(s, c)[1] = s[1] /\ Append(s, c)[2] = s[2]
             /\ Append(s, c)[3] = s[3] /\ Append(s, c)[4] = c
  BY <1>1, <1>4
<1> QED  BY <1>1, <1>2, <1>3, <1>4

\* The byte c may follow.
Fits(remaining, minimum, maximum, c) ==
    IF remaining = 0 THEN c <= 127 \/ (194 <= c /\ c <= 244)
                     ELSE minimum <= c /\ c <= maximum

\* What is known of the character once it has the byte c.
Grown(s, remaining, minimum, maximum, c) ==
    LET t == Append(s, c) IN
    /\ Completable(t) <=> Fits(remaining, minimum, maximum, c)
    /\ remaining = 0 /\ c <= 127 => IsCharacter(t)
    /\ remaining = 0 /\ 194 <= c /\ c <= 244
         => /\ ~IsCharacter(t)
            /\ Waits(t, Following(c), Minimum(c), Maximum(c))
    /\ remaining # 0 /\ minimum <= c /\ c <= maximum
         => /\ IsCharacter(t) <=> remaining = 1
            /\ remaining # 1 => Waits(t, remaining - 1, 128, 191)

LEMMA CharacterBegins ==
    ASSUME NEW c \in Bytes, NEW minimum, NEW maximum
    PROVE  Grown(<<>>, 0, minimum, maximum, c)
<1> DEFINE t == Append(<<>>, c)
<1>1. t \in Seq(Bytes) /\ Len(t) = 1 /\ t[1] = c
  OBVIOUS
<1>2. c \in Nat /\ c <= 255
  BY DEF Bytes
<1> HIDE DEF t
<1>3. Completable(t) <=> c <= 127 \/ (194 <= c /\ c <= 244)
  BY <1>1, FirstByte, SMT
<1>4. c <= 127 => EncodedLength(c) = 1
  BY <1>2, EncodedLengthIs, SMT
<1>5. 194 <= c /\ c <= 244 => EncodedLength(c) # 1
  BY <1>2, EncodedLengthIs, SMT
<1>6. IsCharacter(t) <=> Completable(t) /\ 1 = EncodedLength(c)
  BY <1>1 DEF IsCharacter
<1>7. 194 <= c /\ c <= 244 => Waits(t, Following(c), Minimum(c), Maximum(c))
  BY <1>1, SMT DEF Waits
<1>8. /\ c <= 127 => IsCharacter(t)
      /\ 194 <= c /\ c <= 244 => ~IsCharacter(t)
  BY <1>2, <1>3, <1>4, <1>5, <1>6, SMT
<1> QED  BY <1>2, <1>3, <1>7, <1>8, SMT DEF Grown, Fits, t

LEMMA CharacterGrows1 ==
    ASSUME NEW s \in Seq(Bytes), NEW c \in Bytes,
           Len(s) = 1, 194 <= s[1], s[1] <= 244
    PROVE  Grown(s, Following(s[1]), Minimum(s[1]), Maximum(s[1]), c)
<1> DEFINE t == Append(s, c)
<1>1. t \in Seq(Bytes) /\ Len(t) = 2 /\ t[1] = s[1] /\ t[2] = c
  BY AppendIs, SMT
<1>2. s[1] \in Nat /\ s[1] <= 255
  <2>1. s[1] \in Bytes  BY Elements, Zenon
  <2> QED  BY <2>1, SMT DEF Bytes
<1> HIDE DEF t
<1>3. Completable(t) <=> Minimum(s[1]) <= c /\ c <= Maximum(s[1])
  BY <1>1, SecondByte, SMT
<1>4. IsCharacter(t) <=> Completable(t) /\ 2 = EncodedLength(s[1])
  BY <1>1, SMT DEF IsCharacter
<1>5. /\ EncodedLength(s[1]) = Following(s[1]) + 1
      /\ Following(s[1]) = IF s[1] <= 223 THEN 1 ELSE IF s[1] <= 239 THEN 2 ELSE 3
  BY <1>2, LeadAnnounces, SMT
<1>6. /\ Minimum(s[1]) <= c /\ c <= Maximum(s[1]) /\ Following(s[1]) # 1
      => Waits(t, Following(s[1]) - 1, 128, 191)
  <2> SUFFICES ASSUME Minimum(s[1]) <= c, c <= Maximum(s[1]), Following(s[1]) # 1
               PROVE  Waits(t, Following(s[1]) - 1, 128, 191)
    OBVIOUS
  <2>1. 224 <= t[1] /\ t[1] <= 244  BY <1>1, <1>2, <1>5, SMT
  <2> QED  BY <1>1, <2>1, SMT DEF Waits
<1> QED  BY <1>2, <1>3, <1>4, <1>5, <1>6, SMT DEF Grown, Fits, t

LEMMA CharacterGrows2 ==
    ASSUME NEW s \in Seq(Bytes), NEW c \in Bytes,
           Len(s) = 2, 224 <= s[1], s[1] <= 244,
           Minimum(s[1]) <= s[2], s[2] <= Maximum(s[1])
    PROVE  Grown(s, Following(s[1]) - 1, 128, 191, c)
<1> DEFINE t == Append(s, c)
<1>1. t \in Seq(Bytes) /\ Len(t) = 3 /\ t[1] = s[1] /\ t[2] = s[2] /\ t[3] = c
  BY AppendIs, SMT
<1>2. s[1] \in Nat /\ s[1] <= 255
  <2>1. s[1] \in Bytes  BY Elements, Zenon
  <2> QED  BY <2>1, SMT DEF Bytes
<1> HIDE DEF t
<1>3. Completable(t) <=> 128 <= c /\ c <= 191
  BY <1>1, ThirdByte, SMT
<1>4. IsCharacter(t) <=> Completable(t) /\ 3 = EncodedLength(s[1])
  BY <1>1, SMT DEF IsCharacter
<1>5. /\ EncodedLength(s[1]) = Following(s[1]) + 1
      /\ Following(s[1]) = IF s[1] <= 239 THEN 2 ELSE 3
  BY <1>2, LeadAnnounces, SMT
<1>6. /\ 128 <= c /\ c <= 191 /\ Following(s[1]) - 1 # 1
      => Waits(t, Following(s[1]) - 1 - 1, 128, 191)
  <2> SUFFICES ASSUME 128 <= c, c <= 191, Following(s[1]) - 1 # 1
               PROVE  Waits(t, Following(s[1]) - 1 - 1, 128, 191)
    OBVIOUS
  <2>1. 240 <= t[1] /\ t[1] <= 244 /\ Following(s[1]) - 1 - 1 = 1
    BY <1>1, <1>2, <1>5, SMT
  <2> QED  BY <1>1, <2>1, SMT DEF Waits
<1> QED  BY <1>2, <1>3, <1>4, <1>5, <1>6, SMT DEF Grown, Fits, t

LEMMA CharacterGrows3 ==
    ASSUME NEW s \in Seq(Bytes), NEW c \in Bytes,
           Len(s) = 3, 240 <= s[1], s[1] <= 244,
           Minimum(s[1]) <= s[2], s[2] <= Maximum(s[1]),
           128 <= s[3], s[3] <= 191
    PROVE  Grown(s, 1, 128, 191, c)
<1> DEFINE t == Append(s, c)
<1>1. /\ t \in Seq(Bytes) /\ Len(t) = 4
      /\ t[1] = s[1] /\ t[2] = s[2] /\ t[3] = s[3] /\ t[4] = c
  BY AppendIs, SMT
<1>2. s[1] \in Nat /\ s[1] <= 255
  <2>1. s[1] \in Bytes  BY Elements, Zenon
  <2> QED  BY <2>1, SMT DEF Bytes
<1> HIDE DEF t
<1>3. Completable(t) <=> 128 <= c /\ c <= 191
  BY <1>1, FourthByte, SMT
<1>4. IsCharacter(t) <=> Completable(t) /\ 4 = EncodedLength(s[1])
  BY <1>1, SMT DEF IsCharacter
<1>5. EncodedLength(s[1]) = 4
  BY <1>2, EncodedLengthIs, SMT
<1> QED  BY <1>3, <1>4, <1>5, SMT DEF Grown, Fits, t

LEMMA CharacterGrows ==
    ASSUME NEW s \in Seq(Bytes), NEW c \in Bytes,
           NEW remaining, NEW minimum, NEW maximum,
           Waits(s, remaining, minimum, maximum)
    PROVE  Grown(s, remaining, minimum, maximum, c)
BY CharacterBegins, CharacterGrows1, CharacterGrows2, CharacterGrows3, SMT DEF Waits


(***************************************************************************)
(* The inductive invariant.  An error stops the guard until Reset, so what *)
(* it knows of the text is stated for a guard that runs, and what is       *)
(* promised for one that has stopped.                                      *)
(***************************************************************************)

\* The escape e has the backslash alone, or n digits of a code unit that starts
\* at e[first].
UnitValue(e, first, n) ==
    CASE n = 0 -> 0
      [] n = 1 -> Digit(e[first])
      [] n = 2 -> Digit(e[first]) * 16 + Digit(e[first + 1])
      [] n = 3 -> Digit(e[first]) * 256 + Digit(e[first + 1]) * 16
                  + Digit(e[first + 2])

\* What the automaton of escapes knows inside a string, after the bytes e of an
\* escape that is not complete.
Follows(e, state, digits, codepoint, low) ==
    \/ Len(e) = 0 /\ state = 1 /\ ~low
    \/ Len(e) = 1 /\ state = 2 /\ ~low
    \/ /\ Len(e) >= 2 /\ Len(e) <= 5 /\ e[2] = LetterU
       /\ state = 3 /\ ~low
       /\ digits = Len(e) - 2 /\ codepoint = UnitValue(e, 3, Len(e) - 2)
    \/ Len(e) = 6 /\ e[2] = LetterU /\ IsHigh(Unit(e, 3)) /\ state = 4 /\ low
    \/ Len(e) = 7 /\ state = 5 /\ low
    \/ /\ Len(e) >= 8 /\ Len(e) <= 11
       /\ state = 3 /\ low
       /\ digits = Len(e) - 8 /\ codepoint = UnitValue(e, 9, Len(e) - 8)

\* Outside strings the open token, if any, is a number.
Outside ==
    /\ escape_state = 0 /\ escape = <<>> /\ ~low_surrogate_required
    /\ number_token = (raw > 0)
    /\ decoded = raw

\* Inside, a byte of the value takes at most six of the text, the opening quote
\* and the unfinished escape aside.
Inside ==
    /\ Follows(escape, escape_state, escape_digits, escape_codepoint,
               low_surrogate_required)
    /\ ~number_token
    /\ raw <= 6 * decoded + 1 + Len(escape)

Running ==
    /\ char \in Seq(Bytes)
    /\ Waits(char, utf8_remaining, utf8_min, utf8_max)
    /\ escape \in Seq(Bytes) /\ Escaping(escape)
    /\ raw \in Nat /\ decoded \in Nat
    /\ token_length = raw /\ raw <= Budget
    /\ IF in_string THEN Inside ELSE Outside

IInv ==
    /\ input \in Inputs
    /\ in_string \in BOOLEAN /\ number_token \in BOOLEAN
    /\ low_surrogate_required \in BOOLEAN
    /\ escape_codepoint \in CodeUnits
    /\ IF callback_error = "none" THEN Running
       ELSE Utf8Exact /\ EscapesExact /\ BudgetExact


(***************************************************************************)
(* One byte of an escape.                                                  *)
(***************************************************************************)

LEMMA Surrogates ==
    ASSUME NEW u \in Int
    PROVE  /\ u \in HighSurrogates <=> IsHigh(u)
           /\ u \in LowSurrogates <=> IsLow(u)
           /\ ~(IsHigh(u) /\ IsLow(u))
BY SMT DEF IsHigh, IsLow, HighSurrogates, LowSurrogates

LEMMA DigitIs ==
    ASSUME NEW c \in Nat, IsHex(c)
    PROVE  Digit(c) \in Nat /\ Digit(c) <= 15
BY SMT DEF Digit, IsHex

\* The bytes of an escape that are digits.
DigitPlace(i) == i >= 3 /\ i # 7 /\ i # 8

LEMMA EscapingIs ==
    ASSUME NEW e \in Seq(Bytes)
    PROVE  Escaping(e) <=>
             /\ Len(e) >= 1 => e[1] = Backslash
             /\ Len(e) > 2 => e[2] = LetterU
             /\ \A i \in 1..Len(e) : DigitPlace(i) => IsHex(e[i])
             /\ Len(e) >= 6 => Unit(e, 3) \notin LowSurrogates
             /\ Len(e) > 6 => Unit(e, 3) \in HighSurrogates
             /\ Len(e) >= 7 => e[7] = Backslash
             /\ Len(e) >= 8 => e[8] = LetterU
             /\ Len(e) >= 12 => Unit(e, 9) \in LowSurrogates
<1>1. (\A i \in 1..Len(e) : DigitPlace(i) => IsHex(e[i]))
      <=> (\A i \in 3..Len(e) : i \notin 7..8 => IsHex(e[i]))
  BY SMT DEF DigitPlace
<1> QED  BY <1>1, Zenon DEF Escaping

\* The byte c may follow an escape's bytes e.
MayFollow(e, c) ==
    LET n == Len(e) + 1
        t == Append(e, c)
    IN  /\ n = 1 => c = Backslash
        /\ n > 2 => t[2] = LetterU
        /\ DigitPlace(n) => IsHex(c)
        /\ n = 6 => Unit(t, 3) \notin LowSurrogates
        /\ n > 6 => Unit(t, 3) \in HighSurrogates
        /\ n = 7 => c = Backslash
        /\ n = 8 => c = LetterU
        /\ n = 12 => Unit(t, 9) \in LowSurrogates

LEMMA Extended ==
    ASSUME NEW e \in Seq(Bytes), NEW c \in Bytes
    PROVE  /\ Append(e, c) \in Seq(Bytes) /\ Len(Append(e, c)) = Len(e) + 1
           /\ \A i \in 1..Len(e) : Append(e, c)[i] = e[i]
           /\ Append(e, c)[Len(e) + 1] = c
OBVIOUS

LEMMA UnitKept ==
    ASSUME NEW e \in Seq(Bytes), NEW c \in Bytes
    PROVE  /\ Len(e) >= 6 => Unit(Append(e, c), 3) = Unit(e, 3)
           /\ Len(e) >= 12 => Unit(Append(e, c), 9) = Unit(e, 9)
<1> DEFINE t == Append(e, c)
<1>1. \A i \in 1..Len(e) : t[i] = e[i]
  BY Extended
<1> HIDE DEF t
<1>2. ASSUME Len(e) >= 6  PROVE  Unit(t, 3) = Unit(e, 3)
  <2>1. t[3] = e[3] /\ t[4] = e[4] /\ t[5] = e[5] /\ t[6] = e[6]
    BY <1>1, <1>2
  <2> QED  BY <2>1 DEF Unit
<1>3. ASSUME Len(e) >= 12  PROVE  Unit(t, 9) = Unit(e, 9)
  <2>1. t[9] = e[9] /\ t[10] = e[10] /\ t[11] = e[11] /\ t[12] = e[12]
    BY <1>1, <1>3
  <2> QED  BY <2>1 DEF Unit
<1> QED  BY <1>2, <1>3 DEF t

LEMMA EscapeGrows ==
    ASSUME NEW e \in Seq(Bytes), Len(e) <= 11, Escaping(e), NEW c \in Bytes
    PROVE  Escaping(Append(e, c)) <=> MayFollow(e, c)
<1> DEFINE t == Append(e, c)
<1>1. /\ t \in Seq(Bytes) /\ Len(t) = Len(e) + 1
      /\ \A i \in 1..Len(e) : t[i] = e[i]
      /\ t[Len(e) + 1] = c
  BY Extended
<1>2. Len(e) >= 6 => Unit(t, 3) = Unit(e, 3)
  BY UnitKept
<1>3. /\ Len(e) >= 1 => e[1] = Backslash
      /\ Len(e) > 2 => e[2] = LetterU
      /\ \A i \in 1..Len(e) : DigitPlace(i) => IsHex(e[i])
      /\ Len(e) >= 7 => e[7] = Backslash
      /\ Len(e) >= 8 => e[8] = LetterU
      /\ Len(e) >= 6 => Unit(e, 3) \notin LowSurrogates
  BY EscapingIs
<1>t. Escaping(t) <=>
             /\ Len(t) >= 1 => t[1] = Backslash
             /\ Len(t) > 2 => t[2] = LetterU
             /\ \A i \in 1..Len(t) : DigitPlace(i) => IsHex(t[i])
             /\ Len(t) >= 6 => Unit(t, 3) \notin LowSurrogates
             /\ Len(t) > 6 => Unit(t, 3) \in HighSurrogates
             /\ Len(t) >= 7 => t[7] = Backslash
             /\ Len(t) >= 8 => t[8] = LetterU
             /\ Len(t) >= 12 => Unit(t, 9) \in LowSurrogates
  BY <1>1, EscapingIs
<1>m. MayFollow(e, c) <=>
        /\ Len(t) = 1 => c = Backslash
        /\ Len(t) > 2 => t[2] = LetterU
        /\ DigitPlace(Len(t)) => IsHex(c)
        /\ Len(t) = 6 => Unit(t, 3) \notin LowSurrogates
        /\ Len(t) > 6 => Unit(t, 3) \in HighSurrogates
        /\ Len(t) = 7 => c = Backslash
        /\ Len(t) = 8 => c = LetterU
        /\ Len(t) = 12 => Unit(t, 9) \in LowSurrogates
  BY <1>1, Zenon DEF MayFollow
<1> HIDE DEF t
<1>4. (Len(t) >= 1 => t[1] = Backslash) <=> (Len(t) = 1 => c = Backslash)
  BY <1>1, <1>3
<1>5. (\A i \in 1..Len(t) : DigitPlace(i) => IsHex(t[i]))
      <=> (DigitPlace(Len(t)) => IsHex(c))
  <2>1. ASSUME \A i \in 1..Len(t) : DigitPlace(i) => IsHex(t[i])
        PROVE  DigitPlace(Len(t)) => IsHex(c)
    BY <1>1, <2>1
  <2>2. ASSUME DigitPlace(Len(t)) => IsHex(c), NEW i \in 1..Len(t), DigitPlace(i)
        PROVE  IsHex(t[i])
    <3>1. CASE i = Len(t)  BY <1>1, <2>2, <3>1
    <3>2. CASE i # Len(t)
      <4>1. i \in 1..Len(e)  BY <1>1, <3>2
      <4> QED  BY <1>1, <1>3, <2>2, <4>1
    <3> QED  BY <3>1, <3>2
  <2> QED  BY <2>1, <2>2
<1>6. (Len(t) >= 6 => Unit(t, 3) \notin LowSurrogates)
      <=> (Len(t) = 6 => Unit(t, 3) \notin LowSurrogates)
  <2> DEFINE P == Unit(t, 3) \notin LowSurrogates
             Q == Unit(e, 3) \notin LowSurrogates
  <2>1. Len(e) >= 6 => Q  BY <1>3, Zenon
  <2>2. Len(e) >= 6 => (P <=> Q)  BY <1>2, Zenon
  <2> HIDE DEF P, Q
  <2>3. (Len(t) >= 6 => P) <=> (Len(t) = 6 => P)
    BY <1>1, <2>1, <2>2
  <2> QED  BY <2>3 DEF P
<1>7. /\ (Len(t) >= 7 => t[7] = Backslash) <=> (Len(t) = 7 => c = Backslash)
      /\ (Len(t) >= 8 => t[8] = LetterU) <=> (Len(t) = 8 => c = LetterU)
  BY <1>1, <1>3
<1>8. (Len(t) >= 12 => Unit(t, 9) \in LowSurrogates)
      <=> (Len(t) = 12 => Unit(t, 9) \in LowSurrogates)
  <2>1. Len(t) >= 12 <=> Len(t) = 12  BY <1>1
  <2> QED  BY <2>1, Zenon
<1>9. Escaping(t) <=> MayFollow(e, c)
  BY <1>t, <1>m, <1>4, <1>5, <1>6, <1>7, <1>8, Zenon
<1> QED  BY <1>9 DEF t


\* The digits read so far, and what one more makes of them.
LEMMA UnitGrows ==
    ASSUME NEW e \in Seq(Bytes), NEW c \in Bytes, NEW first \in Nat \ {0},
           NEW k \in Nat, k <= 3, Len(e) + 1 = first + k,
           \A i \in first..Len(e) : IsHex(e[i]), IsHex(c)
    PROVE  /\ UnitValue(e, first, k) \in Nat
           /\ UnitValue(e, first, k) * 16 + Digit(c) \in Nat
           /\ UnitValue(e, first, k) * 16 + Digit(c) <= 65535
           /\ k <= 2 => UnitValue(Append(e, c), first, k + 1)
                        = UnitValue(e, first, k) * 16 + Digit(c)
           /\ k = 3 => Unit(Append(e, c), first)
                       = UnitValue(e, first, k) * 16 + Digit(c)
<1> DEFINE t == Append(e, c)
<1>1. /\ \A i \in 1..Len(e) : t[i] = e[i]
      /\ t[Len(e) + 1] = c
  BY Extended
<1>2. PICK d \in Int : d = Digit(c) /\ 0 <= d /\ d <= 15
  <2>1. c \in Nat  BY DEF Bytes
  <2> QED  BY <2>1, DigitIs
<1>3. \A i \in first..Len(e) : Digit(e[i]) \in Nat /\ Digit(e[i]) <= 15
  <2> SUFFICES ASSUME NEW i \in first..Len(e)
               PROVE  Digit(e[i]) \in Nat /\ Digit(e[i]) <= 15
    OBVIOUS
  <2>1. e[i] \in Bytes  OBVIOUS
  <2>2. e[i] \in Nat  BY <2>1 DEF Bytes
  <2> QED  BY <2>2, DigitIs
<1> SUFFICES /\ UnitValue(e, first, k) \in Nat
             /\ UnitValue(e, first, k) * 16 + Digit(c) \in Nat
             /\ UnitValue(e, first, k) * 16 + Digit(c) <= 65535
             /\ k <= 2 => UnitValue(t, first, k + 1)
                          = UnitValue(e, first, k) * 16 + Digit(c)
             /\ k = 3 => Unit(t, first) = UnitValue(e, first, k) * 16 + Digit(c)
  OBVIOUS
<1> HIDE DEF t
<1>4. CASE k = 0
  <2>1. t[first] = c  BY <1>1, <1>4
  <2> QED  BY <1>2, <1>4, <2>1, SMT DEF UnitValue
<1>5. CASE k = 1
  <2>1. t[first] = e[first] /\ t[first + 1] = c  BY <1>1, <1>5
  <2>2. PICK x \in Int : x = Digit(e[first]) /\ 0 <= x /\ x <= 15
    <3>1. first \in first..Len(e)  BY <1>5
    <3> QED  BY <1>3, <3>1
  <2>3. UnitValue(e, first, k) = x  BY <1>5, <2>2 DEF UnitValue
  <2>4. UnitValue(t, first, k + 1) = x * 16 + d
    BY <1>2, <1>5, <2>1, <2>2 DEF UnitValue
  <2> QED  BY <1>2, <1>5, <2>2, <2>3, <2>4, SMT
<1>6. CASE k = 2
  <2>1. t[first] = e[first] /\ t[first + 1] = e[first + 1] /\ t[first + 2] = c
    BY <1>1, <1>6
  <2>2. PICK x \in Int, y \in Int :
               /\ x = Digit(e[first]) /\ 0 <= x /\ x <= 15
               /\ y = Digit(e[first + 1]) /\ 0 <= y /\ y <= 15
    <3>1. first \in first..Len(e) /\ first + 1 \in first..Len(e)  BY <1>6
    <3> QED  BY <1>3, <3>1
  <2>3. UnitValue(e, first, k) = x * 16 + y  BY <1>6, <2>2 DEF UnitValue
  <2>4. UnitValue(t, first, k + 1) = x * 256 + y * 16 + d
    BY <1>2, <1>6, <2>1, <2>2 DEF UnitValue
  <2>5. UnitValue(e, first, k) * 16 + Digit(c) = x * 256 + y * 16 + d
    BY <1>2, <2>3, SMT
  <2>b. 0 <= x /\ x <= 15 /\ 0 <= y /\ y <= 15 /\ 0 <= d /\ d <= 15
    BY <1>2, <2>2, Zenon
  <2>6. /\ x * 16 + y \in Nat /\ x * 256 + y * 16 + d \in Nat
        /\ x * 256 + y * 16 + d <= 65535
    BY <2>b, SMT
  <2> QED  BY <1>6, <2>3, <2>4, <2>5, <2>6, SMT
<1>7. CASE k = 3
  <2>1. /\ t[first] = e[first] /\ t[first + 1] = e[first + 1]
        /\ t[first + 2] = e[first + 2] /\ t[first + 3] = c
    BY <1>1, <1>7
  <2>2. PICK x \in Int, y \in Int, z \in Int :
               /\ x = Digit(e[first]) /\ 0 <= x /\ x <= 15
               /\ y = Digit(e[first + 1]) /\ 0 <= y /\ y <= 15
               /\ z = Digit(e[first + 2]) /\ 0 <= z /\ z <= 15
    <3>1. /\ first \in first..Len(e) /\ first + 1 \in first..Len(e)
          /\ first + 2 \in first..Len(e)
      BY <1>7
    <3> QED  BY <1>3, <3>1
  <2>3. UnitValue(e, first, k) = x * 256 + y * 16 + z
    BY <1>7, <2>2 DEF UnitValue
  <2>4. Unit(t, first) = x * 4096 + y * 256 + z * 16 + d
    BY <1>2, <2>1, <2>2 DEF Unit
  <2>5. UnitValue(e, first, k) * 16 + Digit(c) = x * 4096 + y * 256 + z * 16 + d
    BY <1>2, <2>3, SMT
  <2>b. /\ 0 <= x /\ x <= 15 /\ 0 <= y /\ y <= 15
        /\ 0 <= z /\ z <= 15 /\ 0 <= d /\ d <= 15
    BY <1>2, <2>2, Zenon
  <2>6. x * 256 + y * 16 + z \in Nat
    BY <2>b, SMT
  <2>7. /\ x * 4096 + y * 256 + z * 16 + d \in Nat
        /\ x * 4096 + y * 256 + z * 16 + d <= 65535
    BY <2>b, SMT
  <2> QED  BY <1>7, <2>3, <2>4, <2>5, <2>6, <2>7, SMT
<1>8. k = 0 \/ k = 1 \/ k = 2 \/ k = 3
  OBVIOUS
<1> QED  BY <1>4, <1>5, <1>6, <1>7, <1>8

\* A complete escape, by its length.
LEMMA EscapeEnds ==
    ASSUME NEW t \in Seq(Bytes), Escaping(t)
    PROVE  /\ Len(t) # 2 /\ Len(t) # 6 /\ Len(t) # 12 => ~IsEscape(t)
           /\ Len(t) = 2 => (IsEscape(t) <=> t[2] # LetterU)
           /\ Len(t) = 6 => (IsEscape(t) <=> Unit(t, 3) \notin HighSurrogates)
           /\ Len(t) = 12 => IsEscape(t)
<1>1. IsEscape(t) <=> \/ Len(t) = 2 /\ t[2] # LetterU
                      \/ Len(t) = 6 /\ Unit(t, 3) \notin HighSurrogates
                      \/ Len(t) = 12
  BY Zenon DEF IsEscape
<1>2. CASE Len(t) = 2   BY <1>1, <1>2
<1>3. CASE Len(t) = 6   BY <1>1, <1>3
<1>4. CASE Len(t) = 12  BY <1>1, <1>4
<1>5. CASE Len(t) # 2 /\ Len(t) # 6 /\ Len(t) # 12  BY <1>1, <1>5
<1> QED  BY <1>2, <1>3, <1>4, <1>5

LEMMA DecodedIs ==
    ASSUME NEW t \in Seq(Bytes)
    PROVE  /\ Len(t) = 2 => DecodedLength(t) = 1
           /\ Len(t) = 6 => DecodedLength(t) \in 1..3
           /\ Len(t) = 12 => DecodedLength(t) = 4
<1>1. Len(t) = 2 => DecodedLength(t) = 1
  BY DEF DecodedLength
<1>2. Len(t) = 6 => DecodedLength(t) \in 1..3
  BY DEF DecodedLength
<1>3. Len(t) = 12 => DecodedLength(t) = 4
  BY DEF DecodedLength
<1> QED  BY <1>1, <1>2, <1>3

(***************************************************************************)
(* One step of the automaton of escapes.                                   *)
(***************************************************************************)

\* The escape's bytes with c, and what follows when c has been read.
Taken(c) == IF escape = <<>> /\ c # Backslash THEN <<>> ELSE Append(escape, c)
Left(e) == IF IsEscape(e) THEN <<>> ELSE e

FollowsNext(e) == Follows(e, escape_state', escape_digits', escape_codepoint',
                          low_surrogate_required')

EscapeKnown(c) ==
    /\ low_surrogate_required' \in BOOLEAN
    /\ escape_codepoint' \in CodeUnits
    /\ number_token' = number_token
    /\ \/ /\ callback_error' = "none" /\ Escaping(Taken(c))
          /\ IF escape = <<>> /\ c = Quote
             THEN escape_state' = 0 /\ ~low_surrogate_required'
             ELSE FollowsNext(Left(Taken(c)))
       \/ /\ callback_error' \in {BadSurrogate, "Invalid Unicode escape"}
          /\ ~Escaping(Taken(c))

InEscape ==
    /\ callback_error = "none"
    /\ escape \in Seq(Bytes) /\ Escaping(escape)
    /\ low_surrogate_required \in BOOLEAN
    /\ escape_codepoint \in CodeUnits

LEMMA NoEscape ==
    /\ <<>> \in Seq(Bytes) /\ Escaping(<<>>) /\ ~IsEscape(<<>>)
<1>1. <<>> \in Seq(Bytes) /\ Len(<<>>) = 0
  OBVIOUS
<1>2. Escaping(<<>>)  BY <1>1 DEF Escaping
<1>3. ~IsEscape(<<>>)  BY <1>1 DEF IsEscape
<1> QED  BY <1>1, <1>2, <1>3

LEMMA EscapeBegins ==
    ASSUME InEscape, NEW c \in Bytes, EscapeByte(c),
           escape = <<>>, escape_state = 1, ~low_surrogate_required
    PROVE  EscapeKnown(c)
<1>1. /\ escape_state' = InString(c)
      /\ Keep /\ UNCHANGED <<number_token, callback_error>>
  BY DEF EscapeByte
<1>2. CASE c # Backslash
  <2>1. Taken(c) = <<>>  BY <1>2 DEF Taken
  <2>2. Left(<<>>) = <<>>  BY NoEscape DEF Left
  <2>3. IF c = Quote THEN escape_state' = 0 ELSE escape_state' = 1
    BY <1>1, <1>2 DEF InString, Quote, Backslash
  <2>4. c # Quote => FollowsNext(<<>>)
    BY <1>1, <2>3 DEF FollowsNext, Follows, Keep
  <2> QED
    BY <1>1, <2>1, <2>2, <2>3, <2>4, NoEscape DEF EscapeKnown, InEscape, Keep
<1>3. CASE c = Backslash
  <2> DEFINE t == Append(escape, c)
  <2>1. Taken(c) = t  BY <1>3 DEF Taken
  <2>2. t \in Seq(Bytes) /\ Len(t) = 1  OBVIOUS
  <2>3. Escaping(t)
    <3>1. escape \in Seq(Bytes) /\ Escaping(escape)  BY DEF InEscape
    <3>2. Len(escape) = 0 /\ Len(escape) <= 11  OBVIOUS
    <3>3. MayFollow(escape, c)  BY <3>2, <1>3 DEF MayFollow, DigitPlace
    <3> QED  BY <3>1, <3>2, <3>3, EscapeGrows, Zenon
  <2> HIDE DEF t
  <2>4. Left(t) = t  BY <2>2, <2>3, EscapeEnds DEF Left
  <2>5. escape_state' = 2  BY <1>1, <1>3 DEF InString, Quote, Backslash
  <2>6. FollowsNext(t)
    BY <1>1, <2>2, <2>5 DEF FollowsNext, Follows, Keep
  <2>7. c # Quote  BY <1>3 DEF Quote, Backslash
  <2> QED
    BY <1>1, <2>1, <2>3, <2>4, <2>6, <2>7 DEF EscapeKnown, InEscape, Keep
<1> QED  BY <1>2, <1>3

LEMMA EscapeLetter ==
    ASSUME InEscape, NEW c \in Bytes, EscapeByte(c),
           Len(escape) = 1, escape_state = 2, ~low_surrogate_required
    PROVE  EscapeKnown(c)
<1> DEFINE t == Append(escape, c)
<1>1. /\ UNCHANGED <<number_token, callback_error>>
      /\ \/ c = LetterU /\ StartUnicodeEscape
         \/ c # LetterU /\ escape_state' = 1 /\ Keep
  BY DEF EscapeByte
<1>2. t \in Seq(Bytes) /\ Len(t) = 2 /\ t[2] = c
  <2>1. escape \in Seq(Bytes)  BY DEF InEscape
  <2>2. t \in Seq(Bytes) /\ Len(t) = Len(escape) + 1 /\ t[Len(escape) + 1] = c
    BY <2>1, Extended, Zenon
  <2> QED  BY <2>2
<1>5. escape # <<>>
  OBVIOUS
<1>3. Taken(c) = t
  BY <1>5 DEF Taken
<1>4. Escaping(t)
  <2>1. escape \in Seq(Bytes) /\ Escaping(escape)  BY DEF InEscape
  <2>2. Len(escape) <= 11  OBVIOUS
  <2>3. MayFollow(escape, c)  BY <2>1 DEF MayFollow, DigitPlace
  <2> QED  BY <2>1, <2>2, <2>3, EscapeGrows, Zenon
<1> HIDE DEF t
<1>6. CASE c = LetterU
  <2>1. Left(t) = t  BY <1>2, <1>4, <1>6, EscapeEnds DEF Left
  <2>2. FollowsNext(t)
    BY <1>1, <1>2, <1>6 DEF FollowsNext, Follows, StartUnicodeEscape, UnitValue
  <2> QED
    BY <1>1, <1>3, <1>4, <1>5, <1>6, <2>1, <2>2
    DEF CodeUnits, EscapeKnown, InEscape, StartUnicodeEscape
<1>7. CASE c # LetterU
  <2>1. Left(t) = <<>>  BY <1>2, <1>4, <1>7, EscapeEnds DEF Left
  <2>2. FollowsNext(<<>>)
    BY <1>1, <1>7 DEF FollowsNext, Follows, Keep
  <2> QED
    BY <1>1, <1>3, <1>4, <1>5, <1>7, <2>1, <2>2 DEF EscapeKnown, InEscape, Keep
<1> QED  BY <1>6, <1>7


\* A digit of a code unit: the first unit's bytes start at 3, the second's at 9.
LEMMA EscapeDigit ==
    ASSUME InEscape, NEW c \in Bytes, EscapeByte(c), escape_state = 3,
           NEW first \in {3, 9}, NEW k \in Nat, k <= 3,
           Len(escape) + 1 = first + k, escape[2] = LetterU,
           escape_digits = k, escape_codepoint = UnitValue(escape, first, k),
           low_surrogate_required <=> first = 9
    PROVE  EscapeKnown(c)
<1> DEFINE t == Append(escape, c)
           u == UnitValue(escape, first, k) * 16 + Digit(c)
<1>1. UnicodeDigit(c) /\ UNCHANGED number_token
  BY DEF EscapeByte
<1>2. escape \in Seq(Bytes) /\ Escaping(escape) /\ callback_error = "none"
  BY DEF InEscape
<1>3. /\ t \in Seq(Bytes) /\ Len(t) = first + k
      /\ \A i \in 1..Len(escape) : t[i] = escape[i]
  BY <1>2, Extended
<1>4. Taken(c) = t /\ escape # <<>>
  BY <1>2 DEF Taken
<1>5. \A i \in first..Len(escape) : IsHex(escape[i])
  <2> SUFFICES ASSUME NEW i \in first..Len(escape)  PROVE IsHex(escape[i])
    OBVIOUS
  <2>1. i \in 1..Len(escape) /\ DigitPlace(i)  BY <1>2 DEF DigitPlace
  <2> QED  BY <1>2, <2>1, EscapingIs
<1>6. first = 9 => Unit(t, 3) \in HighSurrogates
  <2> SUFFICES ASSUME first = 9  PROVE Unit(t, 3) \in HighSurrogates
    OBVIOUS
  <2>1. Len(escape) > 6 /\ Len(escape) >= 6  BY <1>2
  <2>2. Unit(escape, 3) \in HighSurrogates  BY <1>2, <2>1 DEF Escaping
  <2> QED  BY <1>2, <2>1, <2>2, UnitKept
<1>7. Escaping(t) <=> /\ IsHex(c)
                      /\ first = 3 /\ k = 3 => Unit(t, 3) \notin LowSurrogates
                      /\ first = 9 /\ k = 3 => Unit(t, 9) \in LowSurrogates
  <2>1. Len(escape) <= 11  BY <1>2
  <2>2. Escaping(t) <=> MayFollow(escape, c)
    BY <1>2, <2>1, EscapeGrows, Zenon
  <2>3. t[2] = LetterU  BY <1>2, <1>3
  <2>4. Len(escape) + 1 = Len(t)  BY <1>3
  <2>5. MayFollow(escape, c) <=>
            /\ Len(t) = 1 => c = Backslash
            /\ Len(t) > 2 => t[2] = LetterU
            /\ DigitPlace(Len(t)) => IsHex(c)
            /\ Len(t) = 6 => Unit(t, 3) \notin LowSurrogates
            /\ Len(t) > 6 => Unit(t, 3) \in HighSurrogates
            /\ Len(t) = 7 => c = Backslash
            /\ Len(t) = 8 => c = LetterU
            /\ Len(t) = 12 => Unit(t, 9) \in LowSurrogates
    BY <2>4, Zenon DEF MayFollow
  <2> HIDE DEF t
  <2> QED  BY <1>3, <1>6, <2>2, <2>3, <2>5 DEF DigitPlace
<1>8. ASSUME IsHex(c)
      PROVE  /\ u \in Nat /\ u <= 65535
             /\ k <= 2 => UnitValue(t, first, k + 1) = u
             /\ k = 3 => Unit(t, first) = u
  BY <1>2, <1>5, <1>8, UnitGrows
<1> HIDE DEF t, u
<1>b. /\ first = 3 => ~low_surrogate_required
      /\ first = 9 => low_surrogate_required
  OBVIOUS
<1>9. CASE ~IsHex(c)
  <2>1. callback_error' = "Invalid Unicode escape" /\ Keep
    BY <1>1, <1>9 DEF UnicodeDigit
  <2>2. ~Escaping(t)  BY <1>7, <1>9
  <2>3. /\ low_surrogate_required' = low_surrogate_required
        /\ escape_codepoint' = escape_codepoint
        /\ number_token' = number_token
    BY <1>1, <2>1, Zenon DEF Keep
  <2>4. low_surrogate_required' \in BOOLEAN /\ escape_codepoint' \in CodeUnits
    BY <2>3, Zenon DEF InEscape
  <2>5. callback_error' \in {BadSurrogate, "Invalid Unicode escape"}
    BY <2>1
  <2>6. ~Escaping(Taken(c))  BY <1>4, <2>2, Zenon
  <2>7. \/ /\ callback_error' = "none" /\ Escaping(Taken(c))
           /\ IF escape = <<>> /\ c = Quote
              THEN escape_state' = 0 /\ ~low_surrogate_required'
              ELSE FollowsNext(Left(Taken(c)))
        \/ /\ callback_error' \in {BadSurrogate, "Invalid Unicode escape"}
           /\ ~Escaping(Taken(c))
    BY <2>5, <2>6, Zenon
  <2> QED  BY <2>3, <2>4, <2>7, Zenon DEF EscapeKnown
<1>10. CASE IsHex(c) /\ k < 3
  <2>1. /\ escape_digits' = k + 1
        /\ escape_codepoint' = u
        /\ escape_state' = 3
        /\ low_surrogate_required' = low_surrogate_required
        /\ callback_error' = "none"
    BY <1>1, <1>2, <1>10 DEF UnicodeDigit, u
  <2>2. Escaping(t)  BY <1>7, <1>10
  <2>3. Left(t) = t
    <3>1. Len(t) # 2 /\ Len(t) # 6 /\ Len(t) # 12  BY <1>3, <1>10
    <3> QED  BY <1>3, <2>2, <3>1, EscapeEnds DEF Left
  <2>4. escape_codepoint' = UnitValue(t, first, k + 1)
    BY <1>8, <1>10, <2>1
  <2>5. t[2] = LetterU  BY <1>2, <1>3
  <2>6. FollowsNext(t)
    <3>1. CASE first = 3
      <4>1. k + 1 = Len(t) - 2 /\ Len(t) >= 2 /\ Len(t) <= 5  BY <1>3, <1>10, <3>1
      <4> QED  BY <1>b, <2>1, <2>4, <2>5, <3>1, <4>1 DEF FollowsNext, Follows
    <3>2. CASE first = 9
      <4>1. k + 1 = Len(t) - 8 /\ Len(t) >= 8 /\ Len(t) <= 11  BY <1>3, <1>10, <3>2
      <4> QED  BY <1>b, <2>1, <2>4, <2>5, <3>2, <4>1 DEF FollowsNext, Follows
    <3> QED  BY <3>1, <3>2
  <2> QED
    BY <1>1, <1>4, <1>8, <1>10, <2>1, <2>2, <2>3, <2>6 DEF CodeUnits, EscapeKnown, InEscape
<1>11. CASE IsHex(c) /\ k = 3
  <2>1. FinishUnicodeEscape(u)
    BY <1>1, <1>11 DEF UnicodeDigit, u
  <2>2. /\ u \in Int /\ u \in Nat /\ u <= 65535 /\ Unit(t, first) = u
    BY <1>8, <1>11
  <2>3. /\ u \in HighSurrogates <=> IsHigh(u)
        /\ u \in LowSurrogates <=> IsLow(u)
        /\ ~(IsHigh(u) /\ IsLow(u))
    BY <2>2, Surrogates
  <2>c. escape_codepoint' = u /\ number_token' = number_token
    BY <1>1, <2>1 DEF FinishUnicodeEscape
  <2>4. CASE first = 3
    <3>1. Len(t) = 6 /\ ~low_surrogate_required /\ Unit(t, 3) = u
      BY <1>3, <1>11, <1>b, <2>2, <2>4
    <3>2. Escaping(t) <=> ~IsLow(u)
      BY <1>7, <1>11, <2>3, <2>4, <3>1
    <3>3. CASE IsHigh(u)
      <4>1. low_surrogate_required' /\ escape_state' = 4 /\ callback_error' = "none"
            /\ low_surrogate_required' = TRUE
        BY <1>2, <2>1, <2>3, <3>1, <3>3 DEF FinishUnicodeEscape
      <4>2. Escaping(t)  BY <2>3, <3>2, <3>3
      <4>3. Left(t) = t
        BY <1>3, <2>3, <3>1, <3>3, <4>2, EscapeEnds DEF Left
      <4>4. t[2] = LetterU  BY <1>2, <1>3, <2>4
      <4>5. FollowsNext(t)
        BY <3>1, <3>3, <4>1, <4>4 DEF FollowsNext, Follows
      <4> QED  BY <1>4, <2>2, <2>c, <4>1, <4>2, <4>3, <4>5 DEF CodeUnits, EscapeKnown
    <3>4. CASE ~IsHigh(u) /\ ~IsLow(u)
      <4>1. /\ low_surrogate_required' = low_surrogate_required
            /\ escape_state' = 1 /\ callback_error' = "none"
        BY <1>2, <2>1, <3>1, <3>4 DEF FinishUnicodeEscape
      <4>2. Escaping(t)  BY <3>2, <3>4
      <4>3. Left(t) = <<>>
        BY <1>3, <2>3, <3>1, <3>4, <4>2, EscapeEnds DEF Left
      <4>4. FollowsNext(<<>>)
        BY <3>1, <4>1 DEF FollowsNext, Follows
      <4> QED  BY <1>4, <2>2, <2>c, <3>1, <4>1, <4>2, <4>3, <4>4 DEF CodeUnits, EscapeKnown, InEscape
    <3>5. CASE IsLow(u)
      <4>1. /\ low_surrogate_required' = low_surrogate_required
            /\ callback_error' = BadSurrogate
        BY <2>1, <2>3, <3>1, <3>5 DEF FinishUnicodeEscape
      <4>2. ~Escaping(t)  BY <3>2, <3>5
      <4> QED  BY <1>4, <2>2, <2>c, <4>1, <4>2 DEF CodeUnits, EscapeKnown, InEscape
    <3> QED  BY <3>3, <3>4, <3>5
  <2>5. CASE first = 9
    <3>1. Len(t) = 12 /\ low_surrogate_required /\ Unit(t, 9) = u
      BY <1>3, <1>11, <1>b, <2>2, <2>5
    <3>2. Escaping(t) <=> IsLow(u)
      BY <1>7, <1>11, <2>3, <2>5, <3>1
    <3>3. CASE IsLow(u)
      <4>1. /\ low_surrogate_required' = FALSE
            /\ escape_state' = 1 /\ callback_error' = "none"
        BY <1>2, <2>1, <3>1, <3>3 DEF FinishUnicodeEscape
      <4>2. Escaping(t)  BY <3>2, <3>3
      <4>3. Left(t) = <<>>
        BY <1>3, <3>1, <4>2, EscapeEnds DEF Left
      <4>4. FollowsNext(<<>>)
        BY <4>1 DEF FollowsNext, Follows
      <4>5. low_surrogate_required' \in BOOLEAN  BY <4>1
      <4>6. escape_codepoint' \in Nat /\ escape_codepoint' <= 65535
        BY <2>2, <2>c
      <4> QED
        BY <1>4, <2>c, <4>1, <4>2, <4>3, <4>4, <4>5, <4>6 DEF CodeUnits, EscapeKnown
    <3>4. CASE ~IsLow(u)
      <4>1. /\ low_surrogate_required' = low_surrogate_required
            /\ callback_error' = BadSurrogate
        BY <2>1, <3>1, <3>4 DEF FinishUnicodeEscape
      <4>2. ~Escaping(t)  BY <3>2, <3>4
      <4> QED  BY <1>4, <2>2, <2>c, <4>1, <4>2 DEF CodeUnits, EscapeKnown, InEscape
    <3> QED  BY <3>3, <3>4
  <2> QED  BY <2>4, <2>5
<1> QED  BY <1>9, <1>10, <1>11

\* The backslash and the letter between the units of a pair.
LEMMA EscapePair ==
    ASSUME InEscape, NEW c \in Bytes, EscapeByte(c), low_surrogate_required,
           NEW expected, NEW n \in {6, 7}, Len(escape) = n,
           n = 6 => /\ escape_state = 4 /\ expected = Backslash
                    /\ IsHigh(Unit(escape, 3)) /\ escape[2] = LetterU,
           n = 7 => escape_state = 5 /\ expected = LetterU
    PROVE  EscapeKnown(c)
<1> DEFINE t == Append(escape, c)
<1>1. /\ PairByte(c, expected) /\ UNCHANGED number_token
  BY DEF EscapeByte
<1>2. escape \in Seq(Bytes) /\ Escaping(escape) /\ callback_error = "none"
  BY DEF InEscape
<1>3. /\ t \in Seq(Bytes) /\ Len(t) = Len(escape) + 1
      /\ \A i \in 1..Len(escape) : t[i] = escape[i]
  BY <1>2, Extended
<1>n. Len(escape) = 6 \/ Len(escape) = 7
  OBVIOUS
<1>4. Taken(c) = t /\ escape # <<>>
  BY <1>2, <1>n DEF Taken
<1>5. Unit(escape, 3) \in HighSurrogates /\ Unit(t, 3) = Unit(escape, 3)
  <2>1. CASE Len(escape) = 6 /\ IsHigh(Unit(escape, 3))
    <3>1. Unit(escape, 3) \in Int
      <4>1. /\ IsHex(escape[3]) /\ IsHex(escape[4])
            /\ IsHex(escape[5]) /\ IsHex(escape[6])
        <5>1. \A i \in 1..Len(escape) : DigitPlace(i) => IsHex(escape[i])
          BY <1>2, EscapingIs
        <5> QED  BY <2>1, <5>1 DEF DigitPlace
      <4>2. /\ escape[3] \in Nat /\ escape[4] \in Nat
            /\ escape[5] \in Nat /\ escape[6] \in Nat
        <5>1. \A i \in 1..Len(escape) : escape[i] \in Bytes  BY <1>2
        <5> QED  BY <2>1, <5>1 DEF Bytes
      <4>3. /\ Digit(escape[3]) \in Nat /\ Digit(escape[4]) \in Nat
            /\ Digit(escape[5]) \in Nat /\ Digit(escape[6]) \in Nat
        BY <4>1, <4>2, DigitIs
      <4> QED  BY <4>3 DEF Unit
    <3>2. Unit(escape, 3) \in HighSurrogates
      BY <2>1, <3>1, Surrogates
    <3>3. Len(escape) >= 6  BY <2>1
    <3> QED  BY <1>2, <3>2, <3>3, UnitKept, Zenon
  <2>2. CASE Len(escape) = 7
    <3>1. Len(escape) > 6 /\ Len(escape) >= 6  BY <2>2
    <3>2. Unit(escape, 3) \in HighSurrogates  BY <1>2, <3>1 DEF Escaping
    <3> QED  BY <1>2, <3>1, <3>2, UnitKept
  <2> QED  BY <2>1, <2>2
<1>6. escape[2] = LetterU
  <2>1. CASE Len(escape) = 7
    <3>1. Len(escape) > 2  BY <2>1
    <3> QED  BY <1>2, <3>1 DEF Escaping
  <2> QED  BY <2>1
<1>7. Escaping(t) <=> c = expected
  <2>1. Len(escape) <= 11  BY <1>n
  <2>2. Escaping(t) <=> MayFollow(escape, c)
    BY <1>2, <2>1, EscapeGrows, Zenon
  <2>3. t[2] = LetterU  BY <1>3, <1>6
  <2>4. Len(escape) + 1 = Len(t)  BY <1>3
  <2>5. MayFollow(escape, c) <=>
            /\ Len(t) = 1 => c = Backslash
            /\ Len(t) > 2 => t[2] = LetterU
            /\ DigitPlace(Len(t)) => IsHex(c)
            /\ Len(t) = 6 => Unit(t, 3) \notin LowSurrogates
            /\ Len(t) > 6 => Unit(t, 3) \in HighSurrogates
            /\ Len(t) = 7 => c = Backslash
            /\ Len(t) = 8 => c = LetterU
            /\ Len(t) = 12 => Unit(t, 9) \in LowSurrogates
    BY <2>4, Zenon DEF MayFollow
  <2>6. Unit(t, 3) \in HighSurrogates  BY <1>5
  <2> HIDE DEF t
  <2>7. CASE Len(t) = 7
    <3>1. ~DigitPlace(Len(t))  BY <2>7 DEF DigitPlace
    <3>2. expected = Backslash
      <4>1. n = 6  BY <2>4, <2>7
      <4> QED  BY <4>1
    <3> QED  BY <2>2, <2>3, <2>5, <2>6, <2>7, <3>1, <3>2
  <2>8. CASE Len(t) = 8
    <3>1. ~DigitPlace(Len(t))  BY <2>8 DEF DigitPlace
    <3>2. expected = LetterU
      <4>1. n = 7  BY <2>4, <2>8
      <4> QED  BY <4>1
    <3> QED  BY <2>2, <2>3, <2>5, <2>6, <2>8, <3>1, <3>2
  <2> QED  BY <1>3, <1>n, <2>7, <2>8
<1> HIDE DEF t
<1>8. CASE c # expected
  <2>1. callback_error' = BadSurrogate /\ Keep
    BY <1>1, <1>8 DEF PairByte
  <2>2. ~Escaping(t)  BY <1>7, <1>8
  <2> QED  BY <1>1, <1>4, <2>1, <2>2 DEF EscapeKnown, InEscape, Keep
<1>9. CASE c = expected
  <2>1. Escaping(t)  BY <1>7, <1>9
  <2>2. Left(t) = t
    <3>1. Len(t) # 2 /\ Len(t) # 6 /\ Len(t) # 12  BY <1>3, <1>n
    <3> QED  BY <1>3, <2>1, <3>1, EscapeEnds DEF Left
  <2>3. CASE Len(escape) = 6
    <3>1. escape_state' = 5 /\ Keep /\ callback_error' = "none"
      BY <1>1, <1>2, <1>9, <2>3 DEF PairByte, Backslash, LetterU
    <3>2. FollowsNext(t)
      BY <1>3, <2>3, <3>1 DEF FollowsNext, Follows, Keep
    <3> QED  BY <1>1, <1>4, <2>1, <2>2, <3>1, <3>2 DEF EscapeKnown, InEscape, Keep
  <2>4. CASE Len(escape) = 7
    <3>1. StartUnicodeEscape /\ callback_error' = "none"
      BY <1>1, <1>2, <1>9, <2>4 DEF PairByte, Backslash, LetterU
    <3>2. FollowsNext(t)
      BY <1>3, <2>4, <3>1 DEF FollowsNext, Follows, StartUnicodeEscape, UnitValue
    <3> QED  BY <1>1, <1>4, <2>1, <2>2, <3>1, <3>2 DEF CodeUnits, EscapeKnown, InEscape, StartUnicodeEscape
  <2> QED  BY <2>3, <2>4
<1> QED  BY <1>8, <1>9


LEMMA EscapeStep ==
    ASSUME InEscape, NEW c \in Bytes, EscapeByte(c),
           Follows(escape, escape_state, escape_digits, escape_codepoint,
                   low_surrogate_required)
    PROVE  EscapeKnown(c)
<1>1. escape \in Seq(Bytes) /\ Escaping(escape) /\ low_surrogate_required \in BOOLEAN
  BY DEF InEscape
<1>2. CASE Len(escape) = 0 /\ escape_state = 1 /\ ~low_surrogate_required
  <2>1. escape = <<>>  BY <1>1, <1>2
  <2> QED  BY <1>2, <2>1, EscapeBegins
<1>3. CASE Len(escape) = 1 /\ escape_state = 2 /\ ~low_surrogate_required
  BY <1>3, EscapeLetter
<1>4. CASE /\ Len(escape) >= 2 /\ Len(escape) <= 5 /\ escape[2] = LetterU
           /\ escape_state = 3 /\ ~low_surrogate_required
           /\ escape_digits = Len(escape) - 2
           /\ escape_codepoint = UnitValue(escape, 3, Len(escape) - 2)
  <2> DEFINE k == Len(escape) - 2
             first == 3
  <2>1. /\ k \in Nat /\ k <= 3 /\ Len(escape) + 1 = first + k
        /\ first \in {3, 9} /\ (low_surrogate_required <=> first = 9)
    BY <1>1, <1>4
  <2>2. escape_digits = k /\ escape_codepoint = UnitValue(escape, first, k)
    BY <1>4
  <2> HIDE DEF k, first
  <2> QED  BY <1>4, <2>1, <2>2, EscapeDigit
<1>5. CASE /\ Len(escape) = 6 /\ escape[2] = LetterU /\ IsHigh(Unit(escape, 3))
           /\ escape_state = 4 /\ low_surrogate_required
  <2> DEFINE n == 6
  <2>1. /\ n \in {6, 7} /\ Len(escape) = n
        /\ n = 6 => /\ escape_state = 4 /\ Backslash = Backslash
                    /\ IsHigh(Unit(escape, 3)) /\ escape[2] = LetterU
        /\ n = 7 => escape_state = 5 /\ Backslash = LetterU
    BY <1>5
  <2> HIDE DEF n
  <2> QED  BY <1>5, <2>1, EscapePair
<1>6. CASE Len(escape) = 7 /\ escape_state = 5 /\ low_surrogate_required
  <2> DEFINE n == 7
  <2>1. /\ n \in {6, 7} /\ Len(escape) = n
        /\ n = 6 => /\ escape_state = 4 /\ LetterU = Backslash
                    /\ IsHigh(Unit(escape, 3)) /\ escape[2] = LetterU
        /\ n = 7 => escape_state = 5 /\ LetterU = LetterU
    BY <1>6
  <2> HIDE DEF n
  <2> QED  BY <1>6, <2>1, EscapePair
<1>7. CASE /\ Len(escape) >= 8 /\ Len(escape) <= 11
           /\ escape_state = 3 /\ low_surrogate_required
           /\ escape_digits = Len(escape) - 8
           /\ escape_codepoint = UnitValue(escape, 9, Len(escape) - 8)
  <2> DEFINE k == Len(escape) - 8
             first == 9
  <2>1. /\ k \in Nat /\ k <= 3 /\ Len(escape) + 1 = first + k
        /\ first \in {3, 9} /\ (low_surrogate_required <=> first = 9)
    BY <1>1, <1>7
  <2>2. escape_digits = k /\ escape_codepoint = UnitValue(escape, first, k)
    BY <1>7
  <2>3. escape[2] = LetterU
    <3>1. Len(escape) > 2  BY <1>7
    <3> QED  BY <1>1, <3>1 DEF Escaping
  <2> HIDE DEF k, first
  <2> QED  BY <1>7, <2>1, <2>2, <2>3, EscapeDigit
<1> QED  BY <1>2, <1>3, <1>4, <1>5, <1>6, <1>7 DEF Follows

LEMMA FollowsLength ==
    ASSUME NEW e \in Seq(Bytes), NEW state, NEW digits, NEW codepoint, NEW low,
           Follows(e, state, digits, codepoint, low)
    PROVE  /\ Len(e) <= 11 /\ state # 0
           /\ state = 1 <=> e = <<>>
           /\ state \in Nat
           /\ state >= 2 <=> e # <<>>
           /\ e = <<>> => ~low
<1>1. Len(e) \in Nat /\ (e = <<>> <=> Len(e) = 0)
  OBVIOUS
<1>2. \/ Len(e) = 0 /\ state = 1 /\ ~low
      \/ Len(e) >= 1 /\ Len(e) <= 11 /\ state \in {2, 3, 4, 5}
  <2>1. CASE Len(e) = 0 /\ state = 1 /\ ~low  BY <2>1
  <2>2. CASE Len(e) = 1 /\ state = 2  BY <2>2
  <2>3. CASE Len(e) >= 2 /\ Len(e) <= 5 /\ state = 3  BY <1>1, <2>3
  <2>4. CASE Len(e) = 6 /\ state = 4  BY <2>4
  <2>5. CASE Len(e) = 7 /\ state = 5  BY <2>5
  <2>6. CASE Len(e) >= 8 /\ Len(e) <= 11 /\ state = 3  BY <1>1, <2>6
  <2> QED  BY <2>1, <2>2, <2>3, <2>4, <2>5, <2>6, Zenon DEF Follows
<1>3. CASE Len(e) = 0 /\ state = 1 /\ ~low
  BY <1>1, <1>3
<1>4. CASE Len(e) >= 1 /\ Len(e) <= 11 /\ state \in {2, 3, 4, 5}
  BY <1>1, <1>4
<1> QED  BY <1>2, <1>3, <1>4

(***************************************************************************)
(* One byte of a token.                                                    *)
(***************************************************************************)

LEMMA BudgetIs ==
    /\ Budget = JSON_STRING_SIZE * 8 + 16 /\ Budget \in Nat
    /\ JSON_STRING_SIZE \in Nat /\ JSON_STRING_SIZE >= 1
    /\ \A n \in Nat : Exceeds(n) <=> n > Budget
<1>1. JSON_STRING_SIZE \in Nat /\ JSON_STRING_SIZE >= 1
  BY GuardAssumption
<1>2. Budget = JSON_STRING_SIZE * 8 + 16
  BY DEF Budget
<1> QED  BY <1>1, <1>2 DEF Exceeds

\* What the invariant says of the token.
Token ==
    /\ escape \in Seq(Bytes) /\ Escaping(escape)
    /\ raw \in Nat /\ decoded \in Nat
    /\ token_length = raw /\ raw <= Budget
    /\ IF in_string THEN Inside ELSE Outside

TokenTypes ==
    /\ in_string \in BOOLEAN /\ number_token \in BOOLEAN
    /\ low_surrogate_required \in BOOLEAN /\ escape_codepoint \in CodeUnits

\* And after a byte, whether the guard goes on or has refused the token.
TokenNext ==
    /\ TokenTypes'
    /\ callback_error' # "Invalid UTF-8 sequence"
    /\ callback_error' = "none" => Token'
    /\ callback_error' # "none" =>
         /\ (callback_error' \in {BadSurrogate, "Invalid Unicode escape"})
                <=> ~Escaping(escape')
         /\ callback_error' = "JSON token allocation limit exceeded"
                => decoded' >= JSON_STRING_SIZE


LEMMA TokenInside ==
    ASSUME callback_error = "none", TokenTypes, Token, in_string,
           NEW c \in Bytes, TokenByte(c), RecordToken(c)
    PROVE  TokenNext
<1> DEFINE e == Taken(c)
<1>1. /\ escape \in Seq(Bytes) /\ Escaping(escape)
      /\ raw \in Nat /\ decoded \in Nat
      /\ token_length = raw /\ raw <= Budget
      /\ Follows(escape, escape_state, escape_digits, escape_codepoint,
                 low_surrogate_required)
      /\ ~number_token
      /\ raw <= 6 * decoded + 1 + Len(escape)
  BY DEF Token, Inside
<1>2. /\ number_token \in BOOLEAN
      /\ low_surrogate_required \in BOOLEAN /\ escape_codepoint \in CodeUnits
  BY DEF TokenTypes
<1>3. /\ Len(escape) <= 11 /\ escape_state # 0 /\ Len(escape) \in Nat
      /\ escape_state = 1 <=> escape = <<>>
  BY <1>1, FollowsLength
<1>4. RecordInside(c)
  BY DEF RecordToken
<1>5. CASE Exceeds(raw + 1)
  <2>1. OverBudget
    BY <1>1, <1>3, <1>5 DEF TokenByte
  <2>2. /\ callback_error' = "JSON token allocation limit exceeded"
        /\ number_token' = number_token
        /\ low_surrogate_required' = low_surrogate_required
        /\ escape_codepoint' = escape_codepoint
    BY <2>1 DEF OverBudget, Keep
  <2>3. raw + 1 > Budget
    BY <1>1, <1>5, BudgetIs
  <2>4. /\ escape' = escape /\ decoded' = decoded
        /\ in_string' = ~(escape = <<>> /\ c = Quote)
    BY <1>4, <2>3 DEF RecordInside
  <2>5. decoded >= JSON_STRING_SIZE
    BY <1>1, <1>3, <2>3, BudgetIs
  <2>6. TokenTypes'
    <3>1. in_string' \in BOOLEAN  BY <2>4
    <3> QED  BY <1>2, <2>2, <3>1, Zenon DEF TokenTypes
  <2>7. callback_error' \notin {BadSurrogate, "Invalid Unicode escape"}
    BY <2>2 DEF BadSurrogate
  <2>8. Escaping(escape')  BY <1>1, <2>4
  <2> QED  BY <2>2, <2>4, <2>5, <2>6, <2>7, <2>8 DEF TokenNext
<1>6. CASE ~Exceeds(raw + 1)
  <2>1. EscapeByte(c)
    BY <1>1, <1>3, <1>6 DEF TokenByte
  <2>2. EscapeKnown(c)
    BY <1>1, <1>2, <2>1, EscapeStep DEF InEscape
  <2>3. raw + 1 <= Budget
    BY <1>1, <1>6, BudgetIs
  <2>4. /\ in_string' = ~(escape = <<>> /\ c = Quote)
        /\ raw' = IF escape = <<>> /\ c = Quote THEN 0 ELSE raw + 1
        /\ escape' = Left(e)
        /\ decoded' = IF escape = <<>> /\ c = Quote THEN 0
                      ELSE IF e = <<>> THEN decoded + 1
                      ELSE IF IsEscape(e) THEN decoded + DecodedLength(e)
                      ELSE decoded
    <3>1. ~(raw + 1 > Budget)  BY <1>1, <2>3, BudgetIs
    <3> QED  BY <1>4, <3>1, Zenon DEF RecordInside, Left, Taken
  <2>5. TokenTypes'
    <3>1. in_string' \in BOOLEAN  BY <2>4
    <3>2. number_token' \in BOOLEAN  BY <1>2, <2>2 DEF EscapeKnown
    <3>3. low_surrogate_required' \in BOOLEAN /\ escape_codepoint' \in CodeUnits
      BY <2>2 DEF EscapeKnown
    <3> QED  BY <3>1, <3>2, <3>3 DEF TokenTypes
  <2>6. CASE callback_error' # "none"
    <3>1. /\ callback_error' \in {BadSurrogate, "Invalid Unicode escape"}
          /\ ~Escaping(e)
      BY <2>2, <2>6 DEF EscapeKnown
    <3>2. escape' = e  BY <2>4, <3>1 DEF Left, IsEscape
    <3>3. /\ callback_error' # "Invalid UTF-8 sequence"
          /\ callback_error' # "JSON token allocation limit exceeded"
      BY <3>1 DEF BadSurrogate
    <3>4. ~Escaping(escape')  BY <3>1, <3>2
    <3> HIDE DEF e
    <3> QED  BY <2>5, <2>6, <3>1, <3>3, <3>4 DEF TokenNext
  <2>7. CASE callback_error' = "none"
    <3>1. /\ Escaping(e) /\ number_token' = number_token
          /\ IF escape = <<>> /\ c = Quote
             THEN escape_state' = 0 /\ ~low_surrogate_required'
             ELSE FollowsNext(Left(e))
      <4>1. callback_error' \notin {BadSurrogate, "Invalid Unicode escape"}
        BY <2>7 DEF BadSurrogate
      <4> QED  BY <2>2, <4>1, Zenon DEF EscapeKnown
    <3>2. /\ e \in Seq(Bytes)
          /\ e = <<>> \/ Len(e) = Len(escape) + 1
          /\ e = <<>> => escape = <<>>
      <4>1. CASE escape = <<>> /\ c # Backslash
        <5>1. e = <<>>  BY <4>1 DEF Taken
        <5> QED  BY <4>1, <5>1
      <4>2. CASE ~(escape = <<>> /\ c # Backslash)
        <5>1. e = Append(escape, c)  BY <4>2 DEF Taken
        <5>2. e \in Seq(Bytes) /\ Len(e) = Len(escape) + 1
          BY <1>1, <5>1, Extended
        <5>3. e # <<>>  BY <1>3, <5>2
        <5> QED  BY <5>2, <5>3
      <4> QED  BY <4>1, <4>2
    <3>3. escape' \in Seq(Bytes) /\ Escaping(escape')
      BY <2>4, <3>1, <3>2, NoEscape DEF Left
    <3>4. CASE escape = <<>> /\ c = Quote
      <4>1. ~in_string' /\ raw' = 0 /\ decoded' = 0  BY <2>4, <3>4
      <4>2. escape' = <<>>
        <5>1. e = <<>>  BY <3>4 DEF Taken, Quote, Backslash
        <5> QED  BY <2>4, <5>1, NoEscape DEF Left
      <4>3. token_length' = 0
        BY <1>3, <2>1, <3>4 DEF EscapeByte
      <4>4. ~number_token' /\ escape_state' = 0 /\ ~low_surrogate_required'
        BY <1>1, <3>1, <3>4
      <4>5. number_token' = (raw' > 0)
        <5>1. number_token' \in BOOLEAN  BY <2>5 DEF TokenTypes
        <5> QED  BY <4>1, <4>4, <5>1
      <4>6. Outside'  BY <4>1, <4>2, <4>4, <4>5 DEF Outside
      <4>7. raw' <= Budget /\ raw' \in Nat /\ decoded' \in Nat
        BY <4>1, BudgetIs
      <4>8. Token'
        BY <3>3, <4>1, <4>3, <4>6, <4>7 DEF Token, Budget
      <4> QED  BY <2>5, <2>7, <4>8 DEF TokenNext
    <3>5. CASE ~(escape = <<>> /\ c = Quote)
      <4>1. in_string' /\ raw' = raw + 1  BY <2>4, <3>5
      <4>2. token_length' = raw + 1
        BY <1>1, <1>3, <2>1, <3>5 DEF EscapeByte
      <4>3. ~number_token'  BY <1>1, <3>1
      <4>4. Follows(escape', escape_state', escape_digits', escape_codepoint',
                    low_surrogate_required')
        BY <2>4, <3>1, <3>5 DEF FollowsNext
      <4>5. decoded' \in Nat /\ raw + 1 <= 6 * decoded' + 1 + Len(escape')
        <5>1. CASE e = <<>>
          <6>1. decoded' = decoded + 1  BY <2>4, <3>5, <5>1
          <6>2. escape' = <<>> /\ Len(escape') = 0 /\ Len(escape) = 0
            BY <2>4, <3>2, <5>1, NoEscape DEF Left
          <6> QED  BY <1>1, <6>1, <6>2
        <5>2. CASE e # <<>> /\ IsEscape(e)
          <6>1. decoded' = decoded + DecodedLength(e)  BY <2>4, <3>5, <5>2
          <6>2. escape' = <<>> /\ Len(escape') = 0  BY <2>4, <5>2 DEF Left
          <6>3. Len(e) = Len(escape) + 1  BY <3>2, <5>2
          <6>4. /\ DecodedLength(e) \in Nat
                /\ Len(e) <= 6 * DecodedLength(e)
            <7>1. Len(e) = 2 \/ Len(e) = 6 \/ Len(e) = 12
              BY <5>2 DEF IsEscape
            <7>2. DecodedLength(e) = 1 \/ DecodedLength(e) = 2
                  \/ DecodedLength(e) = 3 \/ DecodedLength(e) = 4
              BY <3>2, <7>1, DecodedIs
            <7>3. Len(e) = 12 => DecodedLength(e) = 4
              BY <3>2, DecodedIs
            <7>4. Len(e) <= 6 => Len(e) <= 6 * DecodedLength(e)
              BY <7>1, <7>2
            <7>5. CASE Len(e) = 12  BY <7>3, <7>5
            <7>6. CASE Len(e) # 12
              <8>1. DecodedLength(e) \in Nat  BY <7>2
              <8>2. Len(e) = 2 \/ Len(e) = 6  BY <7>1, <7>6
              <8>3. CASE Len(e) = 2  BY <7>4, <8>1, <8>3
              <8>4. CASE Len(e) = 6  BY <7>4, <8>1, <8>4
              <8> QED  BY <8>2, <8>3, <8>4
            <7> QED  BY <7>5, <7>6
          <6> HIDE DEF e
          <6> QED  BY <1>1, <1>3, <6>1, <6>2, <6>3, <6>4
        <5>3. CASE e # <<>> /\ ~IsEscape(e)
          <6>1. decoded' = decoded /\ escape' = e  BY <2>4, <3>5, <5>3 DEF Left
          <6>2. Len(e) = Len(escape) + 1  BY <3>2, <5>3
          <6> HIDE DEF e
          <6> QED  BY <1>1, <1>3, <6>1, <6>2
        <5> QED  BY <5>1, <5>2, <5>3
      <4>6. Inside'  BY <4>1, <4>3, <4>4, <4>5 DEF Inside
      <4>7. raw' \in Nat /\ raw' <= Budget /\ token_length' = raw'
        BY <1>1, <2>3, <4>1, <4>2
      <4>8. Token'
        BY <3>3, <4>1, <4>5, <4>6, <4>7 DEF Token, Budget
      <4> QED  BY <2>5, <2>7, <4>8 DEF TokenNext
    <3> QED  BY <3>4, <3>5
  <2> QED  BY <2>6, <2>7
<1> QED  BY <1>5, <1>6

LEMMA TokenOutside ==
    ASSUME callback_error = "none", TokenTypes, Token, ~in_string,
           NEW c \in Bytes, TokenByte(c), RecordToken(c)
    PROVE  TokenNext
<1>1. /\ escape \in Seq(Bytes) /\ Escaping(escape)
      /\ raw \in Nat /\ decoded = raw
      /\ token_length = raw /\ raw <= Budget
      /\ escape_state = 0 /\ escape = <<>> /\ ~low_surrogate_required
      /\ number_token = (raw > 0)
  BY DEF Token, Outside
<1>2. /\ number_token \in BOOLEAN
      /\ low_surrogate_required \in BOOLEAN /\ escape_codepoint \in CodeUnits
  BY DEF TokenTypes
<1>3. /\ in_string' = (c = Quote)
      /\ raw' = IF c = Quote THEN 1
                ELSE IF raw > 0 /\ InNumber(c) THEN raw + 1
                ELSE IF StartsNumber(c) THEN 1 ELSE 0
      /\ decoded' = IF c = Quote THEN 0 ELSE raw'
      /\ escape' = escape
  BY DEF RecordToken, RecordOutside
<1>4. /\ low_surrogate_required' = low_surrogate_required
      /\ escape_codepoint' = escape_codepoint
  BY <1>1 DEF TokenByte, OverBudget, Keep
<1>5. escape' \in Seq(Bytes) /\ Escaping(escape') /\ escape' = <<>>
  BY <1>1, <1>3
<1>q. ~InNumber(Quote)
  BY DEF InNumber, Quote
<1>6. CASE c = Quote
  <2>1. /\ escape_state' = 1 /\ number_token' = FALSE /\ token_length' = 1
        /\ callback_error' = "none"
    BY <1>1, <1>6, <1>q DEF TokenByte
  <2>2. raw' = 1 /\ decoded' = 0 /\ in_string' = TRUE
    BY <1>3, <1>6
  <2>3. TokenTypes'
    BY <1>2, <1>4, <2>1, <2>2, Zenon DEF TokenTypes
  <2>4. Follows(escape', escape_state', escape_digits', escape_codepoint',
                low_surrogate_required')
    BY <1>1, <1>4, <1>5, <2>1 DEF Follows
  <2>5. Inside'
    BY <1>5, <2>1, <2>2, <2>4 DEF Inside
  <2>6. raw' \in Nat /\ raw' <= Budget /\ decoded' \in Nat /\ token_length' = raw'
    BY <2>1, <2>2, BudgetIs
  <2>7. Token'
    BY <1>5, <2>2, <2>5, <2>6 DEF Token, Budget
  <2> QED  BY <2>1, <2>3, <2>7 DEF TokenNext
<1>7. CASE c # Quote /\ number_token /\ InNumber(c) /\ Exceeds(raw + 1)
  <2>1. /\ callback_error' = "JSON token allocation limit exceeded"
        /\ number_token' = number_token
    BY <1>1, <1>7 DEF TokenByte, OverBudget
  <2>2. raw + 1 > Budget  BY <1>1, <1>7, BudgetIs
  <2>3. raw' = raw + 1 /\ decoded' = raw + 1 /\ in_string' = FALSE
    BY <1>1, <1>3, <1>7
  <2>4. decoded' >= JSON_STRING_SIZE  BY <1>1, <2>2, <2>3, BudgetIs
  <2>5. TokenTypes'
    BY <1>2, <1>4, <2>1, <2>3, Zenon DEF TokenTypes
  <2>6. callback_error' \notin {BadSurrogate, "Invalid Unicode escape"}
    BY <2>1 DEF BadSurrogate
  <2> QED  BY <1>5, <2>1, <2>4, <2>5, <2>6 DEF TokenNext
<1>8. CASE c # Quote /\ number_token /\ InNumber(c) /\ ~Exceeds(raw + 1)
  <2>1. /\ callback_error' = "none" /\ number_token' = number_token
        /\ escape_state' = 0 /\ token_length' = raw + 1
    BY <1>1, <1>8 DEF TokenByte
  <2>2. raw + 1 <= Budget  BY <1>1, <1>8, BudgetIs
  <2>3. raw' = raw + 1 /\ decoded' = raw + 1 /\ in_string' = FALSE
    BY <1>1, <1>3, <1>8
  <2>4. TokenTypes'
    BY <1>2, <1>4, <2>1, <2>3, Zenon DEF TokenTypes
  <2>5. Outside'
    <3>1. number_token' = (raw' > 0)
      <4>1. number_token'  BY <1>8, <2>1
      <4>2. raw' > 0  BY <1>1, <2>3
      <4>3. number_token' \in BOOLEAN  BY <2>4 DEF TokenTypes
      <4> QED  BY <4>1, <4>2, <4>3
    <3>2. ~low_surrogate_required'  BY <1>1, <1>4
    <3> QED  BY <1>5, <2>1, <2>3, <3>1, <3>2 DEF Outside
  <2>6. raw' \in Nat /\ raw' <= Budget /\ decoded' \in Nat /\ token_length' = raw'
    BY <1>1, <2>1, <2>2, <2>3
  <2>7. Token'
    BY <1>5, <2>3, <2>5, <2>6 DEF Token, Budget
  <2> QED  BY <2>1, <2>4, <2>7 DEF TokenNext
<1>9. CASE c # Quote /\ ~(number_token /\ InNumber(c))
  <2>1. /\ callback_error' = "none" /\ number_token' = StartsNumber(c)
        /\ escape_state' = 0
        /\ token_length' = IF StartsNumber(c) THEN 1 ELSE 0
    BY <1>1, <1>9 DEF TokenByte
  <2>2. raw' = IF StartsNumber(c) THEN 1 ELSE 0
    BY <1>1, <1>3, <1>9
  <2>3. decoded' = raw' /\ in_string' = FALSE
    BY <1>3, <1>9
  <2>4. StartsNumber(c) \in BOOLEAN
    BY DEF StartsNumber
  <2>5. TokenTypes'
    BY <1>2, <1>4, <2>1, <2>3, <2>4, Zenon DEF TokenTypes
  <2>6. number_token' = (raw' > 0)
    BY <2>1, <2>2, <2>4
  <2>7. Outside'
    BY <1>1, <1>4, <1>5, <2>1, <2>3, <2>6 DEF Outside
  <2>8. raw' \in Nat /\ raw' <= Budget /\ decoded' \in Nat /\ token_length' = raw'
    BY <2>1, <2>2, <2>3, BudgetIs
  <2>9. Token'
    BY <1>5, <2>3, <2>7, <2>8 DEF Token, Budget
  <2> QED  BY <2>1, <2>5, <2>9 DEF TokenNext
<1> QED  BY <1>6, <1>7, <1>8, <1>9


(***************************************************************************)
(* The steps of the guard.                                                 *)
(***************************************************************************)

LEMMA InitInv == Init => IInv
<1> SUFFICES ASSUME Init  PROVE IInv
  OBVIOUS
<1>1. /\ input \in Inputs /\ callback_error = "none"
      /\ utf8_remaining = 0 /\ escape_state = 0 /\ escape_codepoint = 0
      /\ low_surrogate_required = FALSE /\ number_token = FALSE /\ token_length = 0
      /\ char = <<>> /\ escape = <<>> /\ in_string = FALSE
      /\ raw = 0 /\ decoded = 0
  BY DEF Init
<1>2. Running
  <2>1. Waits(char, utf8_remaining, utf8_min, utf8_max)
    BY <1>1 DEF Waits
  <2>n. number_token = (raw > 0)
    <3>1. ~(raw > 0)  BY <1>1
    <3>2. number_token \in BOOLEAN /\ ~number_token  BY <1>1
    <3> QED  BY <3>1, <3>2
  <2>2. Outside  BY <1>1, <2>n DEF Outside
  <2> QED  BY <1>1, <2>1, <2>2, NoEscape, BudgetIs DEF Running
<1>3. escape_codepoint \in CodeUnits  BY <1>1 DEF CodeUnits
<1> QED  BY <1>1, <1>2, <1>3 DEF IInv

LEMMA ResetInv ==
    ASSUME input' \in Inputs, Reset
    PROVE  IInv'
<1>1. /\ callback_error' = "none"
      /\ utf8_remaining' = 0 /\ escape_state' = 0 /\ escape_codepoint' = 0
      /\ low_surrogate_required' = FALSE /\ number_token' = FALSE
      /\ token_length' = 0
      /\ char' = <<>> /\ escape' = <<>> /\ in_string' = FALSE
      /\ raw' = 0 /\ decoded' = 0
  BY DEF Reset, Utf8State
<1>2. Running'
  <2>1. Waits(char', utf8_remaining', utf8_min', utf8_max')
    BY <1>1 DEF Waits
  <2>n. number_token' = (raw' > 0)
    <3>1. ~(raw' > 0)  BY <1>1
    <3>2. number_token' \in BOOLEAN /\ ~number_token'  BY <1>1
    <3> QED  BY <3>1, <3>2
  <2>2. Outside'  BY <1>1, <2>n DEF Outside
  <2> QED  BY <1>1, <2>1, <2>2, NoEscape, BudgetIs DEF Running, Budget
<1>3. escape_codepoint' \in CodeUnits  BY <1>1 DEF CodeUnits
<1>4. /\ in_string' \in BOOLEAN /\ number_token' \in BOOLEAN
      /\ low_surrogate_required' \in BOOLEAN
  BY <1>1
<1> QED  BY <1>1, <1>2, <1>3, <1>4, Zenon DEF IInv

LEMMA Exactly ==
    ASSUME NEW x, NEW S, NEW e, x \in S <=> ~Escaping(e)
    PROVE  (x \in S) = ~Escaping(e)
OBVIOUS

\* A guard that runs promises what it promises at its end.
LEMMA RunningExact ==
    ASSUME callback_error = "none", TokenTypes, Running
    PROVE  Utf8Exact /\ EscapesExact /\ BudgetExact
<1>1. Completable(char) /\ (utf8_remaining = 0 <=> char = <<>>)
  <2>1. char = <<>> => Completable(char)  BY DEF Completable
  <2> QED  BY <2>1, WaitsInside DEF Running
<1>2. Utf8Exact
  BY <1>1 DEF Utf8Exact
<1>3. escape_codepoint \in CodeUnits
  BY DEF TokenTypes
<1>4. /\ (escape_state # 0) <=> in_string
      /\ (escape_state >= 2) <=> (escape # <<>>)
  <2>1. CASE in_string
    <3>1. escape \in Seq(Bytes)
          /\ Follows(escape, escape_state, escape_digits, escape_codepoint,
                     low_surrogate_required)
      BY <2>1 DEF Running, Inside
    <3> QED  BY <2>1, <3>1, FollowsLength
  <2>2. CASE ~in_string
    BY <2>2 DEF Running, Outside
  <2> QED  BY <2>1, <2>2
<1>5. EscapesExact
  <2>1. Escaping(escape) /\ in_string \in BOOLEAN
    BY DEF Running, TokenTypes
  <2>2. callback_error \notin {BadSurrogate, "Invalid Unicode escape"}
    BY DEF BadSurrogate
  <2>3. (escape_state # 0) = in_string  BY <1>4, <2>1
  <2> QED  BY <1>3, <1>4, <2>1, <2>2, <2>3 DEF EscapesExact
<1>6. BudgetExact
  BY DEF Running, BudgetExact
<1> QED  BY <1>2, <1>5, <1>6

LEMMA RawNulInv ==
    ASSUME IInv, callback_error = "none", input' = input,
           NEW c, RawNul(c)
    PROVE  IInv'
<1>1. /\ TokenTypes /\ Running /\ input \in Inputs
  BY DEF IInv, TokenTypes
<1>2. Utf8Exact /\ Escaping(escape)
  BY <1>1, RunningExact DEF Running
<1>3. /\ callback_error' = "Invalid raw NUL byte in JSON input"
      /\ UNCHANGED <<utf8_remaining, char, escape, escape_codepoint, raw, decoded,
                     in_string, number_token, low_surrogate_required>>
  BY DEF RawNul, utf8, token, history
<1>4. Utf8Exact'
  BY <1>2, <1>3 DEF Utf8Exact
<1>5. EscapesExact'
  <2>1. escape_codepoint \in CodeUnits  BY <1>1 DEF TokenTypes
  <2>2. callback_error' \notin {BadSurrogate, "Invalid Unicode escape"}
    BY <1>3 DEF BadSurrogate
  <2>3. callback_error' # "none"  BY <1>3
  <2>4. (callback_error' \in {BadSurrogate, "Invalid Unicode escape"})
            = ~Escaping(escape')
    <3>1. Escaping(escape')  BY <1>2, <1>3
    <3> QED  BY <2>2, <3>1, Exactly
  <2> QED  BY <1>3, <2>1, <2>3, <2>4, Zenon DEF EscapesExact, BadSurrogate
<1>6. BudgetExact' /\ callback_error' # "none"
  BY <1>3 DEF BudgetExact
<1> QED
  BY <1>1, <1>3, <1>4, <1>5, <1>6, Zenon DEF IInv, TokenTypes

\* The bytes the guard accepts as UTF-8, and those it refuses.
LEMMA Utf8Accepts ==
    ASSUME NEW c \in Bytes, Running
    PROVE  /\ Utf8Byte(c) => Fits(utf8_remaining, utf8_min, utf8_max, c)
           /\ Utf8Refused(c) => ~Fits(utf8_remaining, utf8_min, utf8_max, c)
<1>1. c \in Nat /\ c \in Int /\ c <= 255
  BY DEF Bytes
<1>2. /\ utf8_remaining \in Nat
      /\ utf8_remaining # 0 => utf8_min \in Nat /\ utf8_max \in Nat
  BY WaitsInside DEF Running
<1>3. utf8_remaining # 0 =>
        (c \in utf8_min..utf8_max <=> utf8_min <= c /\ c <= utf8_max)
  BY <1>1, <1>2
<1>4. /\ c \in 194..244 <=> 194 <= c /\ c <= 244
      /\ c \in 0..127 <=> c <= 127
      /\ c < 128 <=> c <= 127
  BY <1>1, SMT
<1>5. Utf8Byte(c) =>
        \/ utf8_remaining > 0 /\ c \in utf8_min..utf8_max
        \/ utf8_remaining = 0 /\ c < 128
        \/ utf8_remaining = 0 /\ c \in 194..244
  BY SMT DEF Utf8Byte
<1>6. Utf8Refused(c) =>
        \/ utf8_remaining > 0 /\ c \notin utf8_min..utf8_max
        \/ utf8_remaining = 0 /\ c \notin 0..127 /\ c \notin 194..244
  BY DEF Utf8Refused
<1> QED  BY <1>1, <1>2, <1>3, <1>4, <1>5, <1>6, SMT DEF Fits

LEMMA BadUtf8Inv ==
    ASSUME IInv, callback_error = "none", input' = input,
           NEW c \in Bytes, BadUtf8(c)
    PROVE  IInv'
<1> DEFINE t == Append(char, c)
<1>1. /\ TokenTypes /\ Running /\ input \in Inputs
  BY DEF IInv, TokenTypes
<1>2. Escaping(escape)
  BY <1>1 DEF Running
<1>3. /\ callback_error' = "Invalid UTF-8 sequence"
      /\ char' = IF IsCharacter(t) THEN <<>> ELSE t
      /\ UNCHANGED <<escape, escape_codepoint, raw, decoded,
                     in_string, number_token, low_surrogate_required>>
  BY DEF BadUtf8, Utf8Refused, RecordCharacter, token
<1>4. ~Completable(t)
  <2>1. ~Fits(utf8_remaining, utf8_min, utf8_max, c)
    BY <1>1, Utf8Accepts DEF BadUtf8
  <2>2. Grown(char, utf8_remaining, utf8_min, utf8_max, c)
    BY <1>1, CharacterGrows DEF Running
  <2> QED  BY <2>1, <2>2, Zenon DEF Grown
<1>5. ~Completable(char')
  BY <1>3, <1>4 DEF IsCharacter
<1> HIDE DEF t
<1>6. Utf8Exact'
  BY <1>3, <1>5 DEF Utf8Exact
<1>7. EscapesExact'
  <2>1. escape_codepoint \in CodeUnits  BY <1>1 DEF TokenTypes
  <2>2. callback_error' \notin {BadSurrogate, "Invalid Unicode escape"}
    BY <1>3 DEF BadSurrogate
  <2>3. callback_error' # "none"  BY <1>3
  <2>4. (callback_error' \in {BadSurrogate, "Invalid Unicode escape"})
            = ~Escaping(escape')
    <3>1. Escaping(escape')  BY <1>2, <1>3
    <3> QED  BY <2>2, <3>1, Exactly
  <2> QED  BY <1>3, <2>1, <2>3, <2>4, Zenon DEF EscapesExact, BadSurrogate
<1>8. BudgetExact' /\ callback_error' # "none"
  BY <1>3 DEF BudgetExact
<1> QED
  BY <1>1, <1>3, <1>6, <1>7, <1>8, Zenon DEF IInv, TokenTypes

LEMMA GoodUtf8Inv ==
    ASSUME IInv, callback_error = "none", input' = input,
           NEW c \in Bytes, GoodUtf8(c)
    PROVE  IInv'
<1> DEFINE t == Append(char, c)
<1>1. /\ TokenTypes /\ Running /\ input \in Inputs
  BY DEF IInv, TokenTypes
<1>2. Token
  BY <1>1 DEF Running, Token
<1>3. TokenNext
  <2>1. TokenByte(c) /\ RecordToken(c)  BY DEF GoodUtf8
  <2>2. CASE in_string   BY <1>1, <1>2, <2>1, <2>2, TokenInside
  <2>3. CASE ~in_string  BY <1>1, <1>2, <2>1, <2>3, TokenOutside
  <2> QED  BY <2>2, <2>3
<1>4. /\ Utf8Byte(c)
      /\ char' = IF IsCharacter(t) THEN <<>> ELSE t
  BY DEF GoodUtf8, RecordCharacter
<1>5. /\ char \in Seq(Bytes)
      /\ Waits(char, utf8_remaining, utf8_min, utf8_max)
      /\ utf8_remaining \in Nat
  BY <1>1, WaitsInside DEF Running
<1>6. Grown(char, utf8_remaining, utf8_min, utf8_max, c)
  BY <1>5, CharacterGrows
<1>7. t \in Seq(Bytes)
  BY <1>5, AppendIs
<1>8. char' \in Seq(Bytes)
      /\ Waits(char', utf8_remaining', utf8_min', utf8_max')
  <2>c. c \in Nat /\ c <= 255  BY SMT DEF Bytes
  <2>e. Waits(<<>>, 0, utf8_min', utf8_max')  BY SMT DEF Waits
  <2>1. CASE /\ utf8_remaining > 0 /\ c \in utf8_min..utf8_max
             /\ Utf8State(utf8_remaining - 1, 128, 191)
    <3>1. utf8_remaining # 0 /\ utf8_min <= c /\ c <= utf8_max
      <4>1. utf8_min \in Nat /\ utf8_max \in Nat
        BY <1>5, <2>1, WaitsInside
      <4> QED  BY <1>5, <2>1, <2>c, <4>1
    <3>2. /\ IsCharacter(t) <=> utf8_remaining = 1
          /\ utf8_remaining # 1 => Waits(t, utf8_remaining - 1, 128, 191)
      BY <1>6, <3>1, Zenon DEF Grown
    <3>3. utf8_remaining' = utf8_remaining - 1 /\ utf8_min' = 128 /\ utf8_max' = 191
      BY <2>1 DEF Utf8State
    <3>4. CASE utf8_remaining = 1
      <4>1. char' = <<>> /\ utf8_remaining' = 0  BY <1>4, <3>2, <3>3, <3>4
      <4> QED  BY <2>e, <4>1
    <3>5. CASE utf8_remaining # 1
      <4>1. char' = t  BY <1>4, <3>2, <3>5
      <4> QED  BY <1>7, <3>2, <3>3, <3>5, <4>1
    <3> QED  BY <3>4, <3>5
  <2>2. CASE utf8_remaining = 0 /\ c < 128 /\ UNCHANGED utf8
    <3>1. c <= 127  BY <2>2, <2>c
    <3>2. IsCharacter(t)  BY <1>6, <2>2, <3>1, Zenon DEF Grown
    <3>3. char' = <<>> /\ utf8_remaining' = 0  BY <1>4, <2>2, <3>2 DEF utf8
    <3> QED  BY <2>e, <3>3
  <2>3. CASE /\ utf8_remaining = 0 /\ c \in 194..244
             /\ Utf8State(Following(c), Minimum(c), Maximum(c))
    <3>1. 194 <= c /\ c <= 244  BY <2>3, SMT
    <3>2. /\ ~IsCharacter(t)
          /\ Waits(t, Following(c), Minimum(c), Maximum(c))
      BY <1>6, <2>3, <3>1, Zenon DEF Grown
    <3>3. /\ utf8_remaining' = Following(c)
          /\ utf8_min' = Minimum(c) /\ utf8_max' = Maximum(c)
      BY <2>3 DEF Utf8State
    <3>4. char' = t  BY <1>4, <3>2
    <3> QED  BY <1>7, <3>2, <3>3, <3>4
  <2> QED  BY <1>4, <2>1, <2>2, <2>3, Zenon DEF Utf8Byte
<1> HIDE DEF t
<1>9. CASE callback_error' = "none"
  <2>1. Running'
    BY <1>3, <1>8, <1>9 DEF TokenNext, Token, Running, Budget
  <2> QED  BY <1>1, <1>3, <1>9, <2>1 DEF IInv, TokenNext, TokenTypes
<1>10. CASE callback_error' # "none"
  <2>1. Utf8Exact'
    <3>1. Completable(char')
      <4>1. char' = <<>> => Completable(char')  BY DEF Completable
      <4> QED  BY <1>8, <4>1, WaitsInside
    <3>2. callback_error' # "Invalid UTF-8 sequence"  BY <1>3 DEF TokenNext
    <3> QED  BY <1>10, <3>1, <3>2 DEF Utf8Exact
  <2>2. EscapesExact'
    <3>1. escape_codepoint' \in CodeUnits
      BY <1>3, Zenon DEF TokenNext, TokenTypes
    <3>2. (callback_error' \in {BadSurrogate, "Invalid Unicode escape"})
              <=> ~Escaping(escape')
      BY <1>3, <1>10 DEF TokenNext
    <3>3. (callback_error' \in {BadSurrogate, "Invalid Unicode escape"})
              = ~Escaping(escape')
      BY <3>2, Exactly
    <3> QED  BY <1>10, <3>1, <3>3, Zenon DEF EscapesExact, BadSurrogate
  <2>3. BudgetExact'
    BY <1>3, <1>10 DEF TokenNext, BudgetExact
  <2> QED  BY <1>1, <1>3, <1>10, <2>1, <2>2, <2>3 DEF IInv, TokenNext, TokenTypes
<1> QED  BY <1>9, <1>10


LEMMA NextInv ==
    ASSUME IInv, [Next]_vars
    PROVE  IInv'
<1>1. CASE UNCHANGED vars
  BY <1>1, Zenon
  DEF vars, utf8, token, history, IInv, Running, Inside, Outside, Follows,
      Utf8Exact, EscapesExact, BudgetExact, Budget
<1>2. CASE Next
  <2>1. input' = input /\ input \in Inputs /\ input' \in Inputs
    BY <1>2 DEF Next, IInv
  <2>2. CASE Reset
    BY <2>1, <2>2, ResetInv
  <2>3. ASSUME NEW c \in input.bytes, ReadByte(c)  PROVE IInv'
    <3>1. c \in Bytes
      <4>1. c \in 0..255  BY <2>1, GuardAssumption
      <4> QED  BY <4>1, SMT DEF Bytes
    <3>2. callback_error = "none"  BY <2>3 DEF ReadByte
    <3>3. CASE RawNul(c)    BY <2>1, <3>2, <3>3, RawNulInv
    <3>4. CASE BadUtf8(c)   BY <2>1, <3>1, <3>2, <3>4, BadUtf8Inv
    <3>5. CASE GoodUtf8(c)  BY <2>1, <3>1, <3>2, <3>5, GoodUtf8Inv
    <3> QED  BY <2>3, <3>3, <3>4, <3>5 DEF ReadByte
  <2> QED  BY <1>2, <2>2, <2>3 DEF Next
<1> QED  BY <1>1, <1>2

LEMMA InvExact == IInv => Utf8Exact /\ EscapesExact /\ BudgetExact
<1> SUFFICES ASSUME IInv  PROVE Utf8Exact /\ EscapesExact /\ BudgetExact
  OBVIOUS
<1>1. CASE callback_error = "none"
  <2>1. TokenTypes /\ Running  BY <1>1 DEF IInv, TokenTypes
  <2> QED  BY <1>1, <2>1, RunningExact
<1>2. CASE callback_error # "none"
  BY <1>2 DEF IInv
<1> QED  BY <1>1, <1>2

THEOREM GuardInvariant == Spec => []IInv
<1>1. Init => IInv  BY InitInv
<1>2. IInv /\ [Next]_vars => IInv'  BY NextInv
<1> QED  BY <1>1, <1>2, PTL DEF Spec

\* check_utf8_byte refuses a byte exactly where no encoding of a scalar value
\* can continue with it, for every text and wherever its chunks are cut.
THEOREM Utf8Correct == Spec => []Utf8Exact
<1>1. IInv => Utf8Exact  BY InvExact
<1> QED  BY <1>1, GuardInvariant, PTL

\* check_escape_byte refuses exactly the escapes of incomplete code units and of
\* surrogates that are not in a pair, and is in a string, or in an escape, exactly
\* when the bytes read are.
THEOREM EscapesCorrect == Spec => []EscapesExact
<1>1. IInv => EscapesExact  BY InvExact
<1> QED  BY <1>1, GuardInvariant, PTL

\* For every limit: no token that check_token_byte lets through is longer than
\* the budget, and none it refuses would have fit the limit once decoded.
THEOREM BudgetCorrect == Spec => []BudgetExact
<1>1. IInv => BudgetExact  BY InvExact
<1> QED  BY <1>1, GuardInvariant, PTL


=============================================================================
