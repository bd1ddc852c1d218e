------------------------------ MODULE YajlGuard ------------------------------
(***************************************************************************)
(* The guard the YAJL adapter runs over every byte before YAJL sees the    *)
(* chunk that holds it: scalar UTF-8, surrogate escapes and the length of  *)
(* tokens, kept as a small automaton between bytes, so that a chunk may    *)
(* end anywhere.  History variables spell out what has been read; the      *)
(* properties compare the automaton with definitions over those spellings. *)
(***************************************************************************)
EXTENDS ScalarText

CONSTANTS
    Inputs             \* bound: bytes that are read together, and the raw bytes
                       \* of one token

ASSUME GuardAssumption ==
    /\ \A i \in Inputs : i.bytes \subseteq 0..255 /\ i.raw \in Nat
    /\ JSON_STRING_SIZE \in Nat \ {0}

VARIABLES
    input,                   \* the bytes this text is made of
    utf8_remaining, utf8_min, utf8_max,
    escape_state,            \* 0 outside strings, 1 inside, 2..5 in an escape
    escape_digits, escape_codepoint, low_surrogate_required,
    number_token, token_length,
    callback_error,          \* "none" or what reject() said
    \* History: the unfinished character and escape, whether a string is open,
    \* the bytes of the open token, and the bytes they decode to.
    char, escape, in_string, raw, decoded

utf8    == <<utf8_remaining, utf8_min, utf8_max>>
token   == <<escape_state, escape_digits, escape_codepoint,
             low_surrogate_required, number_token, token_length>>
history == <<char, escape, in_string, raw, decoded>>
vars    == <<input, utf8, token, callback_error, history>>

(***************************************************************************)
(* Mutated forms, for mutation runs only.                                  *)
(***************************************************************************)

\* Overlong forms pass; a pair may end in any unit; a token has one byte too
\* many; the budget counts decoded bytes; the second unit of a
\* pair is added to the first.
MinimumLoose(c) == 128
IsLowLoose(u) == u >= 56320
ExceedsLate(n) == n > JSON_STRING_SIZE * 8 + 17
BudgetDecoded == JSON_STRING_SIZE + 2
StartKeepsUnit ==
    /\ escape_state' = 3 /\ escape_digits' = 0
    /\ UNCHANGED <<escape_codepoint, low_surrogate_required>>

(***************************************************************************)
(* Helpers.                                                                *)
(***************************************************************************)

\* Bounds of the byte after a lead byte: no overlong form, no surrogate,
\* nothing above U+10FFFF.
Minimum(c) == CASE c = 224 -> 160 [] c = 240 -> 144 [] OTHER -> 128
Maximum(c) == CASE c = 237 -> 159 [] c = 244 -> 143 [] OTHER -> 191
Following(c) == CASE c \in 194..223 -> 1 [] c \in 224..239 -> 2
                  [] c \in 240..244 -> 3

IsHigh(u) == u >= 55296 /\ u <= 56319
IsLow(u) == u >= 56320 /\ u <= 57343

StartsNumber(c) == c \in 48..57 \/ c = 45
InNumber(c) == c \in 48..57 \/ c \in {43, 45, 46, 69, 101}

\* The state after a byte of a string outside an escape.
InString(c) == CASE c = Quote -> 0 [] c = Backslash -> 2 [] OTHER -> 1

\* The raw bytes one token may have.
Budget == JSON_STRING_SIZE * 8 + 16
Exceeds(n) == n > Budget

(***************************************************************************)
(* check_utf8_byte: the bytes it accepts and the bytes it refuses.         *)
(***************************************************************************)

Utf8State(remaining, minimum, maximum) ==
    /\ utf8_remaining' = remaining
    /\ utf8_min' = minimum /\ utf8_max' = maximum

Utf8Byte(c) ==
    \/ /\ utf8_remaining > 0 /\ c \in utf8_min..utf8_max
       /\ Utf8State(utf8_remaining - 1, 128, 191)
    \/ /\ utf8_remaining = 0 /\ c < 128
       /\ UNCHANGED utf8
    \/ /\ utf8_remaining = 0 /\ c \in 194..244
       /\ Utf8State(Following(c), Minimum(c), Maximum(c))

Utf8Refused(c) ==
    /\ callback_error' = "Invalid UTF-8 sequence"
    /\ \/ /\ utf8_remaining > 0 /\ c \notin utf8_min..utf8_max
          /\ UNCHANGED utf8
       \/ /\ utf8_remaining = 0 /\ c \notin 0..127 \cup 194..244
          /\ Utf8State(0, 128, 191)

(***************************************************************************)
(* check_escape_byte inside a string.                                      *)
(***************************************************************************)

BadSurrogate == "Invalid Unicode surrogate escape"

Keep == UNCHANGED <<escape_digits, escape_codepoint, low_surrogate_required>>

StartUnicodeEscape ==
    /\ escape_state' = 3 /\ escape_digits' = 0 /\ escape_codepoint' = 0
    /\ UNCHANGED low_surrogate_required

\* The fourth digit: a code unit alone, the first of a pair or the second.
FinishUnicodeEscape(u) ==
    /\ escape_digits' = 4 /\ escape_codepoint' = u
    /\ \/ /\ low_surrogate_required /\ IsLow(u)
          /\ low_surrogate_required' = FALSE /\ escape_state' = 1
          /\ UNCHANGED callback_error
       \/ /\ ~low_surrogate_required /\ IsHigh(u)
          /\ low_surrogate_required' = TRUE /\ escape_state' = 4
          /\ UNCHANGED callback_error
       \/ /\ ~low_surrogate_required /\ ~IsHigh(u) /\ ~IsLow(u)
          /\ escape_state' = 1
          /\ UNCHANGED <<low_surrogate_required, callback_error>>
       \/ /\ IF low_surrogate_required THEN ~IsLow(u)
             ELSE ~IsHigh(u) /\ IsLow(u)
          /\ callback_error' = BadSurrogate
          /\ UNCHANGED <<low_surrogate_required, escape_state>>

UnicodeDigit(c) ==
    \/ /\ ~IsHex(c)
       /\ callback_error' = "Invalid Unicode escape"
       /\ Keep /\ UNCHANGED escape_state
    \/ /\ IsHex(c) /\ escape_digits < 3
       /\ escape_digits' = escape_digits + 1
       /\ escape_codepoint' = escape_codepoint * 16 + Digit(c)
       /\ UNCHANGED <<escape_state, low_surrogate_required, callback_error>>
    \/ /\ IsHex(c) /\ escape_digits = 3
       /\ FinishUnicodeEscape(escape_codepoint * 16 + Digit(c))

\* The two bytes expected between the units of a pair.
PairByte(c, expected) ==
    \/ c # expected /\ callback_error' = BadSurrogate /\ Keep
       /\ UNCHANGED escape_state
    \/ c = expected /\ expected = Backslash /\ escape_state' = 5 /\ Keep
       /\ UNCHANGED callback_error
    \/ c = expected /\ expected = LetterU /\ StartUnicodeEscape
       /\ UNCHANGED callback_error

EscapeByte(c) ==
    \/ /\ escape_state = 1
       /\ escape_state' = InString(c)
       /\ token_length' = IF c = Quote THEN 0 ELSE token_length + 1
       /\ Keep /\ UNCHANGED <<number_token, callback_error>>
    \/ /\ escape_state # 1
       /\ token_length' = token_length + 1
       /\ UNCHANGED number_token
       /\ \/ escape_state = 2 /\ c = LetterU /\ StartUnicodeEscape
             /\ UNCHANGED callback_error
          \/ escape_state = 2 /\ c # LetterU /\ escape_state' = 1 /\ Keep
             /\ UNCHANGED callback_error
          \/ escape_state = 3 /\ UnicodeDigit(c)
          \/ escape_state = 4 /\ PairByte(c, Backslash)
          \/ escape_state = 5 /\ PairByte(c, LetterU)

(***************************************************************************)
(* check_token_byte.                                                       *)
(***************************************************************************)

OverBudget ==
    /\ token_length' = token_length + 1
    /\ callback_error' = "JSON token allocation limit exceeded"
    /\ Keep /\ UNCHANGED <<escape_state, number_token>>

TokenByte(c) ==
    \/ /\ escape_state # 0 /\ Exceeds(token_length + 1)
       /\ OverBudget
    \/ /\ escape_state # 0 /\ ~Exceeds(token_length + 1)
       /\ EscapeByte(c)
    \/ /\ escape_state = 0 /\ c = Quote
       /\ escape_state' = 1 /\ number_token' = FALSE /\ token_length' = 1
       /\ Keep /\ UNCHANGED callback_error
    \/ /\ escape_state = 0 /\ number_token /\ InNumber(c)
       /\ Exceeds(token_length + 1)
       /\ OverBudget
    \/ /\ escape_state = 0 /\ number_token /\ InNumber(c)
       /\ ~Exceeds(token_length + 1)
       /\ token_length' = token_length + 1
       /\ Keep /\ UNCHANGED <<escape_state, number_token, callback_error>>
    \/ /\ escape_state = 0 /\ c # Quote /\ ~(number_token /\ InNumber(c))
       /\ number_token' = StartsNumber(c)
       /\ token_length' = IF StartsNumber(c) THEN 1 ELSE 0
       /\ Keep /\ UNCHANGED <<escape_state, callback_error>>

(***************************************************************************)
(* What has been read, spelled out.                                        *)
(***************************************************************************)

RecordCharacter(c) ==
    char' = IF IsCharacter(Append(char, c)) THEN <<>> ELSE Append(char, c)

\* A byte outside strings opens one, or is part of a number, or neither.
RecordOutside(c) ==
    /\ in_string' = (c = Quote)
    /\ raw' = IF c = Quote THEN 1
              ELSE IF raw > 0 /\ InNumber(c) THEN raw + 1
              ELSE IF StartsNumber(c) THEN 1 ELSE 0
    /\ decoded' = IF c = Quote THEN 0 ELSE raw'
    /\ UNCHANGED escape

RecordInside(c) ==
    LET e == IF escape = <<>> /\ c # Backslash THEN <<>> ELSE Append(escape, c)
        ends == escape = <<>> /\ c = Quote
    IN  /\ in_string' = ~ends
        /\ raw' = IF ends THEN 0 ELSE raw + 1
        /\ IF raw + 1 > Budget
           THEN UNCHANGED <<escape, decoded>>
           ELSE /\ escape' = IF IsEscape(e) THEN <<>> ELSE e
                /\ decoded' = IF ends THEN 0
                              ELSE IF e = <<>> THEN decoded + 1
                              ELSE IF IsEscape(e) THEN decoded + DecodedLength(e)
                              ELSE decoded

RecordToken(c) == IF in_string THEN RecordInside(c) ELSE RecordOutside(c)

(***************************************************************************)
(* check_input, one byte at a time, and the guard's part of clear_state.   *)
(***************************************************************************)

Init ==
    /\ input \in Inputs
    /\ utf8_remaining = 0 /\ utf8_min = 128 /\ utf8_max = 191
    /\ escape_state = 0 /\ escape_digits = 0 /\ escape_codepoint = 0
    /\ low_surrogate_required = FALSE
    /\ number_token = FALSE /\ token_length = 0
    /\ callback_error = "none"
    /\ char = <<>> /\ escape = <<>> /\ in_string = FALSE
    /\ raw = 0 /\ decoded = 0

Reset ==
    /\ Utf8State(0, 128, 191)
    /\ escape_state' = 0 /\ escape_digits' = 0 /\ escape_codepoint' = 0
    /\ low_surrogate_required' = FALSE
    /\ number_token' = FALSE /\ token_length' = 0
    /\ callback_error' = "none"
    /\ char' = <<>> /\ escape' = <<>> /\ in_string' = FALSE
    /\ raw' = 0 /\ decoded' = 0

RawNul(c) ==
    /\ c = 0
    /\ callback_error' = "Invalid raw NUL byte in JSON input"
    /\ UNCHANGED <<utf8, token, history>>

BadUtf8(c) ==
    /\ c # 0 /\ Utf8Refused(c)
    /\ RecordCharacter(c)
    /\ UNCHANGED <<token, escape, in_string, raw, decoded>>

GoodUtf8(c) ==
    /\ c # 0 /\ Utf8Byte(c)
    /\ TokenByte(c)
    /\ RecordCharacter(c)
    /\ RecordToken(c)

ReadByte(c) ==
    /\ callback_error = "none"
    /\ raw < input.raw
    /\ RawNul(c) \/ BadUtf8(c) \/ GoodUtf8(c)

Next ==
    /\ Reset \/ \E c \in input.bytes : ReadByte(c)
    /\ UNCHANGED input

Spec == Init /\ [][Next]_vars

(***************************************************************************)
(* Properties.                                                             *)
(***************************************************************************)

\* The guard refuses a byte as UTF-8 exactly when no scalar value's encoding
\* can continue with it, at that very byte and wherever the chunks are cut;
\* and it waits for more bytes exactly inside a character.
Utf8Exact ==
    /\ (callback_error = "Invalid UTF-8 sequence") = ~Completable(char)
    /\ callback_error = "none" => ((utf8_remaining = 0) = (char = <<>>))

\* Escapes pass exactly when each code unit is complete and every surrogate is
\* in a pair of a high and a low one; and the automaton is inside a string
\* exactly when a quote that is not escaped has opened one, inside an escape
\* exactly when a backslash has; no unit takes over digits of another.
EscapesExact ==
    /\ (callback_error \in {BadSurrogate, "Invalid Unicode escape"})
           = ~Escaping(escape)
    /\ callback_error # "none" \/ (escape_state # 0) = in_string
    /\ callback_error # "none" \/ (escape_state >= 2) = (escape # <<>>)
    /\ escape_codepoint \in CodeUnits

\* No token longer than the budget reaches YAJL, whatever it decodes to, and
\* the budget refuses only tokens that are too long as names and values too:
\* the widest escapes of a permitted string still pass.
BudgetExact ==
    /\ callback_error = "none" => raw <= Budget
    /\ callback_error = "JSON token allocation limit exceeded"
           => decoded >= JSON_STRING_SIZE

=============================================================================
