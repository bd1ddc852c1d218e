----------------------------- MODULE StringText -----------------------------
(***************************************************************************)
(* The scanners that judge the bytes of a text before a library sees it.   *)
(* Two have the text in a buffer and look ahead: the string scanner of the *)
(* C DOM adapters and the encoding check of the JsonCpp adapter; one       *)
(* converts it, the ASCII input of json-c; two stand in a stream and see   *)
(* one byte after the other: the guards of jsoncons and nlohmann.          *)
(* A loop is the state after each of its rounds.  A round takes a byte at  *)
(* least or is the last, so no loop has more rounds than the text bytes.   *)
(***************************************************************************)
EXTENDS ScalarText, Integers

High == 55296..56319
Low == 56320..57343

(***************************************************************************)
(* Mutated forms, for mutation runs only.                                  *)
(***************************************************************************)

\* An escape counts one byte; a high surrogate need not be paired; four bytes
\* of UTF-8 become one escape; three bytes are allowed for one.
CountsOne(code) == 1
NotPaired(t, i) == i + 5 <= Len(t)
OneEscape(n) == 6
HalfBudget == JSON_STRING_SIZE * 3

(***************************************************************************)
(* Lookahead: code units and UTF-8.  0 or -1 is a refusal.                 *)
(***************************************************************************)

CodeUnit(t, i) ==
    IF i + 3 <= Len(t) /\ \A j \in i..i + 3 : IsHex(t[j]) THEN Unit(t, i) ELSE -1

\* The bytes of a scalar value from t[i] on: the lead byte has the length, and
\* the value must not be too small for it, too large or a surrogate.
LeadLength(c) == CASE c \in 0..127 -> 1   [] c \in 194..223 -> 2
                   [] c \in 224..239 -> 3 [] c \in 240..244 -> 4
                   [] c \in 128..193 \cup 245..255 -> 0

Utf8Length(t, i) ==
    LET n == LeadLength(t[i])
        code == Payload(SubSeq(t, i, i + n - 1))
    IN  IF /\ n # 0 /\ i + n - 1 <= Len(t)
           /\ \A j \in i + 1..i + n - 1 : t[j] \in 128..191
           /\ code >= <<0, 128, 2048, 65536>>[n] /\ code <= 1114111
           /\ code \notin High \cup Low
        THEN n ELSE 0

\* \u and a low surrogate from t[i] on.
Paired(t, i) ==
    /\ i + 5 <= Len(t) /\ t[i] = Backslash /\ t[i + 1] = LetterU
    /\ CodeUnit(t, i + 2) \in Low

(***************************************************************************)
(* dom_scan_string: where it ends, how long its decoded text is, and       *)
(* whether it has a NUL.                                                   *)
(***************************************************************************)

Letters == {34, 92, 47, 98, 102, 110, 114, 116}

CodepointLength(code) ==
    IF code < 128 THEN 1 ELSE IF code < 2048 THEN 2 ELSE 3

\* What stands from t[i] on, in bytes of the text and decoded; 0 refuses.
Scanned(bytes, decoded, nul) == [bytes |-> bytes, decoded |-> decoded, nul |-> nul]
Refused == Scanned(0, 0, FALSE)

DomUnicodeEscape(t, i) ==
    LET code == CodeUnit(t, i + 2) IN
    CASE code \in High -> IF Paired(t, i + 6) THEN Scanned(12, 4, FALSE) ELSE Refused
      [] code \in Low \cup {-1} -> Refused
      [] code \notin High \cup Low \cup {-1} ->
             Scanned(6, CodepointLength(code), code = 0)

DomEscape(t, i) ==
    IF i = Len(t) THEN Refused
    ELSE IF t[i + 1] = LetterU THEN DomUnicodeEscape(t, i)
    ELSE IF t[i + 1] \in Letters THEN Scanned(2, 1, FALSE) ELSE Refused

DomCharacter(t, i) ==
    CASE t[i] < 32        -> Refused
      [] t[i] = Backslash -> DomEscape(t, i)
      [] t[i] >= 32 /\ t[i] # Backslash ->
             Scanned(Utf8Length(t, i), Utf8Length(t, i), FALSE)

\* t begins with a quote; the loop begins behind it.
StringStart == [at |-> 2, decoded |-> 0, nul |-> FALSE, verdict |-> "open"]

StringRound(t, s) ==
    LET item  == DomCharacter(t, s.at)
        total == s.decoded + item.decoded
        end(verdict) == [s EXCEPT !.verdict = verdict]
    IN  IF s.verdict # "open" THEN s
        ELSE IF s.at > Len(t) THEN end("lexical")
        ELSE IF t[s.at] = Quote THEN end("ok")
        ELSE IF item.bytes = 0 THEN end("lexical")
        ELSE IF total >= JSON_STRING_SIZE THEN end("size")
        ELSE [at |-> s.at + item.bytes, decoded |-> total,
              nul |-> s.nul \/ item.nul, verdict |-> "open"]

DomString(t) ==
    LET after[k \in 0..Len(t)] ==
            IF k = 0 THEN StringStart ELSE StringRound(t, after[k - 1])
    IN  after[Len(t)]

(***************************************************************************)
(* validate_encoding of the JsonCpp adapter.  Whatever follows a backslash *)
(* is skipped, unless it is a u; the reader diagnoses the rest.            *)
(***************************************************************************)

\* The byte after the escape at t[i]; 0 refuses.
EscapeEnd(t, i) ==
    LET first == CodeUnit(t, i + 2) IN
    IF i = Len(t) THEN i + 1
    ELSE IF t[i + 1] # LetterU THEN i + 2
    ELSE CASE first \in Low \cup {-1} -> 0
           [] first \in High -> IF Paired(t, i + 6) THEN i + 12 ELSE 0
           [] first \notin High \cup Low \cup {-1} -> i + 6

EncodingStart == [at |-> 1, in_string |-> FALSE, valid |-> TRUE]

EncodingRound(t, s) ==
    LET c == t[s.at]
        to(next) == IF next = 0 THEN [s EXCEPT !.valid = FALSE] ELSE [s EXCEPT !.at = next]
    IN  IF ~s.valid \/ s.at > Len(t) THEN s
        ELSE IF c = 0 \/ (s.in_string /\ c < 32) THEN to(0)
        ELSE IF c >= 128 THEN to(IF Utf8Length(t, s.at) = 0 THEN 0
                                 ELSE s.at + Utf8Length(t, s.at))
        ELSE IF s.in_string /\ c = Backslash THEN to(EscapeEnd(t, s.at))
        ELSE [s EXCEPT !.at = @ + 1, !.in_string = (@ # (c = Quote))]

ValidEncoding(t) ==
    LET after[k \in 0..Len(t)] ==
            IF k = 0 THEN EncodingStart ELSE EncodingRound(t, after[k - 1])
    IN  after[Len(t)].valid

(***************************************************************************)
(* jsonc_ascii_input: how long the text is as ASCII, counted first, and    *)
(* the text that is written then.  Only what the preflight has passed gets *)
(* here.                                                                   *)
(***************************************************************************)

\* Bytes of the escapes for a character of n bytes.
EscapedLength(n) == IF n < 4 THEN 6 ELSE 12

AsciiSizeRound(t, s) ==
    LET n == Utf8Length(t, s.at)
    IN  IF s.at > Len(t) THEN s
        ELSE IF t[s.at] < 128 THEN [s EXCEPT !.at = @ + 1]
        ELSE [at |-> s.at + n, length |-> s.length + EscapedLength(n) - n]

AsciiSize(t) ==
    LET after[k \in 0..Len(t)] ==
            IF k = 0 THEN [at |-> 1, length |-> Len(t)]
            ELSE AsciiSizeRound(t, after[k - 1])
    IN  after[Len(t)].length

HexByte(d) == IF d < 10 THEN 48 + d ELSE 87 + d
UnicodeEscape(u) ==
    <<Backslash, LetterU, HexByte(u \div 4096), HexByte((u \div 256) % 16),
      HexByte((u \div 16) % 16), HexByte(u % 16)>>

SurrogateEscapes(code) ==
    LET offset == code - 65536 IN
    UnicodeEscape(55296 + (offset \div 1024)) \o UnicodeEscape(56320 + (offset % 1024))

\* The length is taken from the lead byte again.
CodepointBytes(c) == CASE c < 224 -> 2 [] c \in 224..239 -> 3 [] c >= 240 -> 4

AsciiWriteRound(t, s) ==
    LET n == CodepointBytes(t[s.at])
        code == Payload(SubSeq(t, s.at, s.at + n - 1))
    IN  IF s.at > Len(t) THEN s
        ELSE IF t[s.at] < 128
             THEN [at |-> s.at + 1, written |-> Append(s.written, t[s.at])]
        ELSE [at |-> s.at + n,
              written |-> s.written \o (IF code <= 65535 THEN UnicodeEscape(code)
                                        ELSE SurrogateEscapes(code))]

AsciiWrite(t) ==
    LET after[k \in 0..Len(t)] ==
            IF k = 0 THEN [at |-> 1, written |-> <<>>]
            ELSE AsciiWriteRound(t, after[k - 1])
    IN  after[Len(t)].written

(***************************************************************************)
(* UnicodeSource::check of the jsoncons adapter, byte by byte.             *)
(***************************************************************************)

GuardStart == [state |-> "outside", code |-> 0, digits |-> 0, low |-> FALSE,
               valid |-> TRUE]

StartHex(g) == [g EXCEPT !.state = "hex", !.code = 0, !.digits = 0]
Invalid(g) == [g EXCEPT !.valid = FALSE]

CompleteCodepoint(g) ==
    CASE g.low /\ g.code \in Low        -> [g EXCEPT !.state = "text", !.low = FALSE]
      [] ~g.low /\ g.code \in High      -> [g EXCEPT !.state = "pair_slash", !.low = TRUE]
      [] ~g.low /\ g.code \notin High \cup Low -> [g EXCEPT !.state = "text"]
      [] OTHER                          -> Invalid(g)

HexDigit(g, c) ==
    LET next == [g EXCEPT !.code = @ * 16 + Digit(c), !.digits = @ + 1]
    IN  IF ~IsHex(c) THEN Invalid(g)
        ELSE IF next.digits = 4 THEN CompleteCodepoint(next) ELSE next

Check(g, c) ==
    IF ~g.valid THEN g
    ELSE CASE g.state = "outside" -> IF c = Quote THEN [g EXCEPT !.state = "text"] ELSE g
           [] g.state = "text" -> [g EXCEPT !.state =
                  CASE c = Quote -> "outside" [] c = Backslash -> "escape"
                    [] c \notin {Quote, Backslash} -> "text"]
           [] g.state = "escape" ->
                  IF c = LetterU THEN StartHex(g) ELSE [g EXCEPT !.state = "text"]
           [] g.state = "hex" -> HexDigit(g, c)
           [] g.state = "pair_slash" ->
                  IF c = Backslash THEN [g EXCEPT !.state = "pair_u"] ELSE Invalid(g)
           [] g.state = "pair_u" -> IF c = LetterU THEN StartHex(g) ELSE Invalid(g)

UnicodeSource(t) ==
    LET after[k \in 0..Len(t)] ==
            IF k = 0 THEN GuardStart ELSE Check(after[k - 1], t[k])
    IN  after[Len(t)]

(***************************************************************************)
(* CheckedInputBuffer::check of the nlohmann adapter; read counts the      *)
(* bytes up to a refusal.                                                  *)
(***************************************************************************)

NumberStarts == 48..57 \cup {45}
NumberBytes == NumberStarts \cup {43, 46, 69, 101}

StringBudget == JSON_STRING_SIZE * 6

BufferStart == [string |-> FALSE, escaped |-> FALSE, number |-> FALSE,
                length |-> 0, error |-> "none", read |-> 0]

ClosesString(g, c) == ~g.escaped /\ c = Quote

BufferInString(g, c) ==
    IF ClosesString(g, c) THEN [g EXCEPT !.string = FALSE, !.length = 0]
    ELSE [g EXCEPT !.length = @ + 1,
                   !.error = IF g.length + 1 > StringBudget THEN "string" ELSE @,
                   !.escaped = ~g.escaped /\ c = Backslash]

BufferOutside(g, c) ==
    CASE c = Quote -> [g EXCEPT !.string = TRUE, !.escaped = FALSE,
                                !.number = FALSE, !.length = 0]
      [] c \in NumberStarts -> [g EXCEPT !.number = TRUE, !.length = 1]
      [] c \notin NumberStarts \cup {Quote} -> [g EXCEPT !.number = FALSE, !.length = 0]

BufferByte(g, c) ==
    IF c = 0 THEN [g EXCEPT !.error = "nul"]
    ELSE IF g.string THEN BufferInString(g, c)
    ELSE IF g.number /\ c \in NumberBytes
         THEN [g EXCEPT !.length = @ + 1,
                        !.error = IF g.length + 1 >= JSON_STRING_SIZE
                                  THEN "number" ELSE @]
    ELSE BufferOutside(g, c)

CheckedByte(g, c) ==
    IF g.error # "none" THEN g ELSE BufferByte([g EXCEPT !.read = @ + 1], c)

CheckedInputBuffer(t) ==
    LET after[k \in 0..Len(t)] ==
            IF k = 0 THEN BufferStart ELSE CheckedByte(after[k - 1], t[k])
    IN  after[Len(t)]

=============================================================================
