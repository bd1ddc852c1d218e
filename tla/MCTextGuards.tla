---------------------------- MODULE MCTextGuards ----------------------------
(* Families of texts around the bytes at which a scanner decides.           *)
EXTENDS TextGuards

One(bytes) == {<<b>> : b \in bytes}

\* A quote, a backslash, u; the ends of the surrogates and of the lengths of
\* UTF-8 as digits, two digits and no digit; letters, a NUL, a control byte.
MCEscapes ==
    [after |-> <<34>>, most |-> 4,
     pieces |-> One({34, 92, 117, 120, 110}) \cup
                {<<92, 117>>, <<48, 48, 48, 48>>, <<48, 48, 56, 48>>, <<55, 70, 102, 102>>,
                 <<68, 56, 48, 48>>, <<68, 66, 70, 70>>, <<100, 67, 48, 48>>,
                 <<68, 70, 70, 70>>, <<101, 48, 48, 48>>, <<68, 56>>}]

\* The ends of the ranges of lead and continuation bytes.
MCBytes(after) ==
    [after |-> after, most |-> 3,
     pieces |-> One({34, 92, 65, 0, 31, 127, 128, 143, 144, 159, 160, 191, 193, 194, 223,
                     224, 237, 239, 240, 244, 245})]

\* Pairs of surrogates, closed.
MCPairs ==
    [after |-> <<34>>, most |-> 3,
     pieces |-> One({34, 120}) \cup
                {<<92, 117, 68, 56, 48, 48>>, <<92, 117, 68, 66, 70, 70>>,
                 <<92, 117, 100, 99, 48, 48>>, <<92, 117, 68, 70, 70, 70>>,
                 <<92, 117, 48, 48, 48, 48>>}]

\* Four bytes, right and wrong in each place.
MCFourBytes ==
    [after |-> <<34>>, most |-> 5,
     pieces |-> One({34, 240, 244, 128, 143, 144, 191})]

\* Characters of each length in a string, raw and escaped.
MCCharacters ==
    [after |-> <<34>>, most |-> 4,
     pieces |-> One({34, 65, 127}) \cup
                {<<194, 128>>, <<223, 191>>, <<224, 160, 128>>, <<239, 191, 191>>,
                 <<240, 144, 128, 128>>, <<244, 143, 191, 191>>, <<92, 92>>, <<92, 34>>}]

\* Long tokens.
MCTokens ==
    [after |-> <<34>>, most |-> 6,
     pieces |-> {<<34>>, <<92>>, <<92, 117, 48, 48, 52, 49>>, <<120>>, <<49>>, <<44>>}]

\* Signs, digits, points, exponents and a separator.
MCDigits ==
    [after |-> <<>>, most |-> 5,
     pieces |-> One({45, 43, 46, 101, 69, 48, 49, 44}) \cup {<<46, 49>>, <<45, 49>>}]

MCFamilies ==
    {MCEscapes, MCPairs, MCBytes(<<>>), MCBytes(<<34>>), MCFourBytes, MCCharacters,
     MCTokens, MCDigits}

MCMaxima == [exact |-> <<49, 48>>, least |-> <<49, 49, 48>>,
             greatest |-> <<49, 48, 49>>, unsigned |-> <<49, 49, 49>>]

=============================================================================
