----------------------------- MODULE TextGuards -----------------------------
(***************************************************************************)
(* The scanners of StringText and NumberText over growing texts, compared  *)
(* with what a string and a number of JSON are.  A text grows by pieces: a *)
(* byte, or some bytes of which each has its alternatives in another       *)
(* piece, such as the digits of a code unit.                               *)
(***************************************************************************)
EXTENDS StringText, SequencesExt

CONSTANTS
    Maxima,       \* see NumberText
    Families      \* bound: pieces that go together, after what, and how many

INSTANCE NumberText

ASSUME TextAssumption ==
    /\ JSON_STRING_SIZE \in Nat \ {0}
    /\ \A f \in Families : f.after \in Seq(0..255) /\ f.pieces \subseteq Seq(0..255) /\ f.most \in Nat
    /\ Maxima \in [{"exact", "least", "greatest", "unsigned"} -> Seq(Digits)]
    /\ \A m \in DOMAIN Maxima : Maxima[m] # <<>> /\ Maxima[m][1] # 48

VARIABLES
    family,      \* the pieces of this text
    text,        \* what the file holds up to here
    pieces       \* how many pieces that is

textVars == <<family, text, pieces>>

TextInit ==
    /\ family \in Families
    /\ text = family.after /\ pieces = 0

Grow(p) ==
    /\ pieces < family.most
    /\ text' = text \o p
    /\ pieces' = pieces + 1
    /\ UNCHANGED family

TextNext == \E p \in family.pieces : Grow(p)

TextSpec == TextInit /\ [][TextNext]_textVars

(***************************************************************************)
(* Reference: the characters and escapes of a string.                      *)
(***************************************************************************)

Piece(t, i, n) == SubSeq(t, i, i + n - 1)
Lengths(t, i, Is(_), ns) == {n \in ns : i + n - 1 <= Len(t) /\ Is(Piece(t, i, n))}

Escapes(t, i) == Lengths(t, i, IsEscape, {2, 6, 12})
Characters(t, i) == Lengths(t, i, IsCharacter, 1..4)

\* What JSON has in a string: no control character, no letter of its own.
IsItem(s) ==
    \/ IsCharacter(s) /\ s[1] >= 32 /\ s[1] \notin {Quote, Backslash}
    \/ s[1] = Backslash /\ IsEscape(s) /\ (Len(s) = 2 => s[2] \in Letters)
Items(t, i) == Lengths(t, i, IsItem, {1, 2, 3, 4, 6, 12})

Decoded(s) == IF s[1] = Backslash THEN DecodedLength(s) ELSE Len(s)

\* The code point of an item; a letter after a backslash stands for itself.
Scalar(s) ==
    CASE s[1] # Backslash -> Payload(s)
      [] s[1] = Backslash /\ Len(s) = 2 -> 2000000 + s[2]
      [] s[1] = Backslash /\ Len(s) = 6 -> Unit(s, 3)
      [] s[1] = Backslash /\ Len(s) = 12 ->
             65536 + (Unit(s, 3) - 55296) * 1024 + (Unit(s, 9) - 56320)

\* The items of the string that begins at t[1], until there is none: where they
\* end, and how long what they stand for is.
ItemRound(t, s) ==
    LET ns == Items(t, s.at)
        item == Piece(t, s.at, CHOOSE n \in ns : TRUE)
    IN  IF ns = {} THEN s
        ELSE [at |-> s.at + Len(item), items |-> Append(s.items, item),
              decoded |-> s.decoded + Decoded(item)]

ItemsOf(t) ==
    LET after[k \in 0..Len(t)] ==
            IF k = 0 THEN [at |-> 2, items |-> <<>>, decoded |-> 0]
            ELSE ItemRound(t, after[k - 1])
    IN  after[Len(t)]

\* A text byte by byte: whether a string is open in it, the bytes of an escape
\* that is not finished, and whether all escapes are good.
EscapeRead(s, c) ==
    LET e == Append(s.escape, c) IN
    IF ~s.good THEN s
    ELSE IF ~s.open THEN [s EXCEPT !.open = (c = Quote)]
    ELSE IF s.escape = <<>> /\ c # Backslash THEN [s EXCEPT !.open = (c # Quote)]
    ELSE [s EXCEPT !.escape = IF IsEscape(e) THEN <<>> ELSE e, !.good = Escaping(e)]

EscapesOf(t) ==
    LET after[k \in 0..Len(t)] ==
            IF k = 0 THEN [open |-> FALSE, escape |-> <<>>, good |-> TRUE]
            ELSE EscapeRead(after[k - 1], t[k])
    IN  after[Len(t)]

\* A text character by character: what may stand at t[i], in a string and
\* outside.
Lawful(t, i, open) ==
    IF t[i] = 0 \/ (open /\ t[i] < 32) THEN {}
    ELSE IF open /\ t[i] = Backslash THEN Escapes(t, i) ELSE Characters(t, i)

\* A backslash at the very end is left to the reader.
LastBackslash(t, s) == s.open /\ s.at = Len(t) /\ t[s.at] = Backslash

CharacterRound(t, s) ==
    LET ns == Lawful(t, s.at, s.open) IN
    IF ~s.good \/ s.at > Len(t) THEN s
    ELSE IF LastBackslash(t, s) THEN [s EXCEPT !.at = @ + 1]
    ELSE IF ns = {} THEN [s EXCEPT !.good = FALSE]
    ELSE [s EXCEPT !.at = @ + (CHOOSE n \in ns : TRUE), !.open = (@ # (t[s.at] = Quote))]

CharactersOf(t) ==
    LET after[k \in 0..Len(t)] ==
            IF k = 0 THEN [at |-> 1, open |-> FALSE, good |-> TRUE]
            ELSE CharacterRound(t, after[k - 1])
    IN  after[Len(t)]

(***************************************************************************)
(* Properties.                                                             *)
(***************************************************************************)

IsString == text # <<>> /\ text[1] = Quote

\* The string scanner of the C adapters passes a string exactly when it is
\* made of items of JSON, is closed, and is shorter than the limit when they
\* are decoded; it ends at the closing quote and knows whether there is a NUL.
DomStringExact ==
    IsString =>
        LET items == ItemsOf(text)
            found == DomString(text)
            closed == items.at <= Len(text) /\ text[items.at] = Quote
        IN  /\ found.verdict = IF items.decoded >= JSON_STRING_SIZE THEN "size"
                               ELSE IF closed THEN "ok" ELSE "lexical"
            /\ found.verdict = "ok" =>
                   /\ found.at = items.at /\ found.decoded = items.decoded
                   /\ found.nul = \E s \in ToSet(items.items) : Scalar(s) = 0

\* The number scanner of the C adapters passes what stands before a separator
\* exactly when it is a number, fits, and is a real or an integer the library
\* holds; the check of the JsonCpp adapter passes the numbers and nothing else.
NumbersExact ==
    text # <<>> =>
        /\ ValidNumber(text) = IsNumber(text)
        /\ text[1] \in Digits \cup {Minus} =>
            LET token == TokenOf(text)
                real == \E i \in DOMAIN token : token[i] \notin Digits \cup {Minus}
                value == IF token[1] = Minus THEN -Value(Tail(token)) ELSE Value(token)
            IN  \A policy \in {"raw", "double", "signed", "wide"} :
                LET found == DomNumber(text, policy) IN
                IF ~IsNumber(token) THEN found.verdict = "lexical"
                ELSE /\ found.real = real
                     /\ found.verdict =
                            IF Len(token) >= JSON_STRING_SIZE THEN "size"
                            ELSE IF real \/ Holds(policy, value) THEN "ok"
                            ELSE "range"

\* The guards of jsoncons and JsonCpp refuse exactly the texts in which a
\* surrogate escape of a string is not paired or not complete, that of JsonCpp
\* also those with bytes that are no UTF-8, with a NUL, or with a control
\* character in a string; they leave the letters of escapes to the library,
\* and neither loses track of where strings end.
EncodingExact ==
    /\ UnicodeSource(text).valid = EscapesOf(text).good
    /\ ValidEncoding(text) = CharactersOf(text).good

\* nlohmann's lexer collects a token before it can be refused as too long.
\* The guard in the stream stops a string within six bytes for each byte of
\* the limit, yet no string of JSON whose decoded text is permitted, and a
\* number at the limit, a limit of one byte at its second; after a string it is
\* as at the start.
TokensBounded ==
    LET found == CheckedInputBuffer(text)
        items == ItemsOf(text)
        whole == items.at > Len(text)                    \* the text is items
        closed == items.at <= Len(text) /\ text[items.at] = Quote
        string == CheckedInputBuffer(SubSeq(text, 1, items.at))
        longest == IF JSON_STRING_SIZE = 1 THEN 2 ELSE JSON_STRING_SIZE
    IN  /\ IsString /\ whole =>
               /\ found.error = "string" => items.decoded >= JSON_STRING_SIZE
               /\ found.error = "none" =>
                      found.string /\ Len(text) - 1 <= JSON_STRING_SIZE * 6
        /\ IsString /\ closed =>
               \/ string = [BufferStart EXCEPT !.read = items.at]
               \/ string.error = "string" /\ items.decoded >= JSON_STRING_SIZE
        /\ Quote \notin ToSet(text) /\ 0 \notin ToSet(text) =>
               (found.error = "number") =
                   \E i \in DOMAIN text :
                       /\ text[i] \in NumberStarts
                       /\ i + longest - 1 <= Len(text)
                       /\ \A j \in i..i + longest - 1 : text[j] \in NumberBytes

\* The ASCII text json-c parses has the length that was allocated for it and
\* says the same as the text that passed the preflight.
AsciiFaithful ==
    IsString /\ DomString(text).verdict = "ok" =>
        LET string == SubSeq(text, 1, DomString(text).at)
            ascii  == AsciiWrite(string)
            Scalars(t) == [i \in DOMAIN ItemsOf(t).items |-> Scalar(ItemsOf(t).items[i])]
        IN  /\ Len(ascii) = AsciiSize(string)
            /\ \A i \in DOMAIN ascii : ascii[i] < 128
            /\ Scalars(ascii) = Scalars(string)

=============================================================================
