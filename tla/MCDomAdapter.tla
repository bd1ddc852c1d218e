---------------------------- MODULE MCDomAdapter -----------------------------
(* Small instances of DomAdapter: documents of up to two levels with two     *)
(* members or elements, some with repeated keys, NULs and numbers of every   *)
(* width; and the same texts with a token missing.                           *)
EXTENDS DomAdapter

MCByte == {"k", "r", ".", "0"}
MCDot == "."
MCNul == "0"
MCArrayName == <<"r">>

Mark(type) == [type |-> type, text |-> <<>>, width |-> "double"]
String(s) == [type |-> "string", text |-> s, width |-> "double"]
Number(type, width) == [type |-> type, text |-> <<>>, width |-> width]

Strings == {<<"k">>, <<>>, <<"k", "0">>}
Small == {<<String(<<"k">>)>>, <<Number("integer", "double")>>,
          <<Number("real", "double")>>}
Odd == {<<String(<<"0", "k">>)>>, <<String(<<"k", "k", "k", "k">>)>>,
        <<Mark("literal")>>, <<Mark("garbage")>>, <<Number("integer", "int64")>>,
        <<Number("integer", "uint64")>>, <<Number("integer", "wide")>>,
        <<Number("real", "wide")>>}

Array1(v) == <<Mark("[")>> \o v \o <<Mark("]")>>
Array2(v, w) == <<Mark("[")>> \o v \o <<Mark(",")>> \o w \o <<Mark("]")>>
Object1(k, v) == <<Mark("{"), String(k), Mark(":")>> \o v \o <<Mark("}")>>
Object2(j, v, k, w) == <<Mark("{"), String(j), Mark(":")>> \o v \o
    <<Mark(","), String(k), Mark(":")>> \o w \o <<Mark("}")>>

Flat == {Array1(<<>>), <<Mark("{"), Mark("}")>>}
        \cup {Array1(v) : v \in Odd}
        \cup {Array2(v, w) : v, w \in Small}
        \cup {Object1(k, v) : k \in Strings, v \in Small}
        \cup {Object2(j, v, k, w) : j, k \in Strings, v, w \in Small}

Few == {Array1(<<>>), Array2(<<Number("integer", "double")>>, <<Number("real", "double")>>),
        Object1(<<"k">>, <<String(<<"k">>)>>),
        Object2(<<"k">>, <<Number("integer", "double")>>, <<"k">>, <<Number("real", "double")>>)}
One == <<Number("integer", "double")>>

Deep == {Array2(v, One) : v \in Few} \cup {Array2(One, v) : v \in Few}
        \cup {Object2(<<"k">>, v, k, One) : k \in {<<"k">>, <<>>}, v \in Few}
        \cup {Array1(Object1(<<"k">>, Array1(One))),
              Array2(Array2(One, <<Number("real", "double")>>), <<Mark("literal")>>),
            Object1(<<>>, Array1(Object1(<<>>, Array1(Object1(<<>>, One)))))}

Without(t, i) == SubSeq(t, 1, i - 1) \o SubSeq(t, i + 1, Len(t))
Broken == UNION {{Without(t, i) : i \in DOMAIN t} : t \in Deep}
          \cup {t \o <<Mark("]")>> : t \in Few}
          \cup {t \o One : t \in Few}

MCTexts == Small \cup Odd \cup Flat \cup Deep \cup Broken
MCFewTexts == Small \cup Few \cup {Array2(v, One) : v \in Few}
              \cup {<<>>, <<Mark("]")>> \o One}

TokenTexts == {<<>>, <<"k">>, <<"k", "0">>, <<"0", "k">>, <<"k", "k", "k", "k">>}
MCData == [from : {"source", "formatted", "cut"}, index : 1..20, text : TokenTexts]
MCTooLong == {d \in MCData : Len(d.text) >= 4}
MCKeys == TokenTexts
MCSources == {}
MCDepthLimits == {2, 6}
MCArgumentLimits == {2}
MCFewLimits == {2}
MCLibraries == {"json-c", "jansson", "cjson", "yyjson"}

=============================================================================
