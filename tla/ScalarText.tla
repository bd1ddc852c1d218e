----------------------------- MODULE ScalarText -----------------------------
(***************************************************************************)
(* Reference definitions for text: which bytes begin the UTF-8 encoding of *)
(* a Unicode scalar value, which begin an escape of a JSON string, and how *)
(* long what an escape stands for is.  From the Unicode and JSON           *)
(* standards; the guards of the adapters are compared with them.           *)
(***************************************************************************)
EXTENDS Naturals, Sequences

CONSTANT JSON_STRING_SIZE     \* what a text stands for has to be shorter

Quote == 34
Backslash == 92
LetterU == 117

Digit(c) == CASE c \in 48..57  -> c - 48
              [] c \in 97..102 -> c - 87
              [] c \in 65..70  -> c - 55
IsHex(c) == c \in 48..57 \cup 97..102 \cup 65..70

\* Some scalar value that takes n bytes lies between first and last.
Encodes(n, first, last) ==
    CASE n = 1 -> first <= 127
      [] n = 2 -> first <= 2047 /\ 128 <= last
      [] n = 3 -> \/ first <= 55295 /\ 2048 <= last
                  \/ first <= 65535 /\ 57344 <= last
      [] n = 4 -> first <= 1114111 /\ 65536 <= last

EncodedLength(lead) ==
    CASE lead \in 0..127   -> 1
      [] lead \in 192..223 -> 2
      [] lead \in 224..239 -> 3
      [] lead \in 240..247 -> 4
      [] OTHER             -> 0

Payload(s) ==
    LET value[i \in 1..Len(s)] ==
            IF i = 1 THEN s[1] - <<0, 192, 224, 240>>[EncodedLength(s[1])]
            ELSE value[i - 1] * 64 + (s[i] - 128)
    IN  value[Len(s)]

\* Some scalar value has an encoding that begins with the bytes s.
Completable(s) ==
    s # <<>> =>
      LET n == EncodedLength(s[1]) IN
      /\ n # 0 /\ Len(s) <= n
      /\ \A i \in 2..Len(s) : s[i] \in 128..191
      /\ LET width == 64 ^ (n - Len(s))
             first == Payload(s) * width
         IN  Encodes(n, first, first + width - 1)

IsCharacter(s) == Completable(s) /\ Len(s) = EncodedLength(s[1])

CodeUnits == {u \in Nat : u <= 65535}
HighSurrogates == 55296..56319
LowSurrogates == 56320..57343

\* The code unit of the four hexadecimal digits from s[i] on.
Unit(s, i) == Digit(s[i]) * 4096 + Digit(s[i + 1]) * 256
              + Digit(s[i + 2]) * 16 + Digit(s[i + 3])

\* The bytes e begin an escape of JSON: a letter, or one code unit that is no
\* surrogate, or a high and a low one.  Judged at the end of each unit.
Escaping(e) ==
    /\ Len(e) >= 1 => e[1] = Backslash
    /\ Len(e) > 2 => e[2] = LetterU
    /\ \A i \in 3..Len(e) : i \notin 7..8 => IsHex(e[i])
    /\ Len(e) >= 6 => Unit(e, 3) \notin LowSurrogates
    /\ Len(e) > 6 => Unit(e, 3) \in HighSurrogates
    /\ Len(e) >= 7 => e[7] = Backslash
    /\ Len(e) >= 8 => e[8] = LetterU
    /\ Len(e) >= 12 => Unit(e, 9) \in LowSurrogates

IsEscape(e) ==
    /\ Escaping(e)
    /\ \/ Len(e) = 2 /\ e[2] # LetterU
       \/ Len(e) = 6 /\ Unit(e, 3) \notin HighSurrogates
       \/ Len(e) = 12

\* The bytes of UTF-8 an escape stands for.
DecodedLength(e) ==
    CASE Len(e) = 2 -> 1
      [] Len(e) = 6 -> IF Unit(e, 3) < 128 THEN 1
                       ELSE IF Unit(e, 3) < 2048 THEN 2 ELSE 3
      [] Len(e) = 12 -> 4

=============================================================================
