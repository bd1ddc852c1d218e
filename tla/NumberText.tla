----------------------------- MODULE NumberText -----------------------------
(***************************************************************************)
(* Numbers as text: the grammar of JSON and the value of an integer, as a  *)
(* reference, and the scanners that judge a number by its bytes, that of   *)
(* the C DOM adapters and the one JsonCpp's adapter runs over the source   *)
(* of every number of the tree.  Whether a real is finite is left to       *)
(* strtod, which is not modelled.                                          *)
(***************************************************************************)
EXTENDS Integers, Sequences

CONSTANTS
    JSON_STRING_SIZE,
    Maxima     \* digits of 2^53, of the least and greatest signed integer and
               \* of the greatest unsigned one; 16 to 20 of them in the code

Digits == 48..57
Minus == 45
Signs == {43, 45}
Point == 46
Exponents == {69, 101}
Separators == {32, 9, 13, 10, 44, 93, 125}

\* The bytes of t from i on that are digits end before this one; the loop as
\* the position after each of its rounds.
DigitsEnd(t, i) ==
    LET after[k \in 0..Len(t)] ==
            IF k = 0 THEN i
            ELSE LET at == after[k - 1] IN
                 IF at <= Len(t) /\ t[at] \in Digits THEN at + 1 ELSE at
    IN  after[Len(t)]

(***************************************************************************)
(* Reference.                                                              *)
(***************************************************************************)

AreDigits(s) == s # <<>> /\ \A i \in DOMAIN s : s[i] \in Digits
IsInteger(s) == AreDigits(s) /\ (Len(s) > 1 => s[1] # 48)
IsFraction(s) == s # <<>> => s[1] = Point /\ AreDigits(Tail(s))
IsExponent(s) ==
    s # <<>> => /\ s[1] \in Exponents
                /\ \/ AreDigits(Tail(s))
                   \/ Len(s) > 1 /\ s[2] \in Signs /\ AreDigits(Tail(Tail(s)))

\* An optional sign, an integer, a fraction and an exponent make a number.
IsNumber(s) ==
    \E i \in 0..1, j, k \in 0..Len(s) :
        /\ i <= j /\ j <= k
        /\ i = 1 => s[1] = Minus
        /\ IsInteger(SubSeq(s, i + 1, j))
        /\ IsFraction(SubSeq(s, j + 1, k))
        /\ IsExponent(SubSeq(s, k + 1, Len(s)))

Value(s) ==
    LET value[i \in 0..Len(s)] ==
            IF i = 0 THEN 0 ELSE value[i - 1] * 10 + (s[i] - 48)
    IN  value[Len(s)]

\* The integers a library can hold, by the policy of its adapter.
Holds(policy, v) ==
    CASE policy = "raw"    -> TRUE
      [] policy = "double" -> v \in -Value(Maxima.exact)..Value(Maxima.exact)
      [] policy = "signed" -> v \in -Value(Maxima.least)..Value(Maxima.greatest)
      [] policy = "wide"   -> v \in -Value(Maxima.least)..Value(Maxima.unsigned)

\* The text up to the first separator, or all of it.
TokenOf(t) ==
    LET ends == {i \in DOMAIN t : t[i] \in Separators} IN
    IF ends = {} THEN t
    ELSE SubSeq(t, 1, (CHOOSE i \in ends : \A j \in ends : i <= j) - 1)

(***************************************************************************)
(* Mutated forms, for mutation runs only.                                  *)
(***************************************************************************)

\* The sign is forgotten.
MaximumUnsigned(policy, negative) ==
    IF policy = "double" THEN Maxima.exact ELSE Maxima.unsigned

(***************************************************************************)
(* dom_scan_number.  A position is 0 once the number is refused.           *)
(***************************************************************************)

IsAt(t, i, bytes) == i <= Len(t) /\ t[i] \in bytes

\* One digit at least.
RequiredDigits(t, i) == IF IsAt(t, i, Digits) THEN DigitsEnd(t, i) ELSE 0

IntegerEnd(t, i) ==
    CASE IsAt(t, i, {48})          -> i + 1
      [] IsAt(t, i, Digits \ {48}) -> DigitsEnd(t, i)
      [] ~IsAt(t, i, Digits)       -> 0

FractionEnd(t, i) ==
    IF i # 0 /\ IsAt(t, i, {Point}) THEN RequiredDigits(t, i + 1) ELSE i

ExponentEnd(t, i) ==
    IF i # 0 /\ IsAt(t, i, Exponents)
    THEN RequiredDigits(t, IF IsAt(t, i + 1, Signs) THEN i + 2 ELSE i + 1)
    ELSE i

AtSeparator(t, i) == i > Len(t) \/ t[i] \in Separators

IntegerMaximum(policy, negative) ==
    CASE policy = "double"                -> Maxima.exact
      [] policy # "double" /\ negative    -> Maxima.least
      [] policy = "signed" /\ ~negative   -> Maxima.greatest
      [] policy = "wide" /\ ~negative     -> Maxima.unsigned

\* memcmp(d, m) > 0 for two texts of one length.
Above(d, m) ==
    \E i \in DOMAIN m : d[i] > m[i] /\ \A j \in 1..i - 1 : d[j] = m[j]

OutOfRange(digits, maximum) ==
    \/ Len(digits) > Len(maximum)
    \/ Len(digits) = Len(maximum) /\ Above(digits, maximum)

\* What becomes of the number t begins with, and whether it is a real.
DomNumber(t, policy) ==
    LET negative == t[1] = Minus
        first    == IF negative THEN 2 ELSE 1
        integer  == IntegerEnd(t, first)
        fraction == FractionEnd(t, integer)
        end      == ExponentEnd(t, fraction)
        real     == end # integer
        refused  == end = 0 \/ ~AtSeparator(t, end)
    IN  [real |-> real,
         verdict |->
            CASE refused -> "lexical"
              [] ~refused /\ end > JSON_STRING_SIZE -> "size"
              [] /\ ~refused /\ end <= JSON_STRING_SIZE
                 /\ policy # "raw" /\ ~real
                 /\ OutOfRange(SubSeq(t, first, integer - 1),
                               IntegerMaximum(policy, negative)) -> "range"
              [] OTHER -> "ok"]

(***************************************************************************)
(* valid_number of the JsonCpp adapter.                                    *)
(***************************************************************************)

ValidNumber(t) ==
    LET first == IF IsAt(t, 1, {Minus}) THEN 2 ELSE 1
        end   == ExponentEnd(t, FractionEnd(t, IntegerEnd(t, first)))
    IN  end = Len(t) + 1

=============================================================================
