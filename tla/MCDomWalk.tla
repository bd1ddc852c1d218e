------------------------------ MODULE MCDomWalk ------------------------------
(* Small instances of DomWalk: a key, a key that is a dot, an empty key and  *)
(* one of exactly the length limit; up to two numeric spans.                 *)
EXTENDS DomWalk

CONSTANTS native, source, long

MCByte == {"k", "r", "."}
MCDot == "."
MCArrayName == <<"r">>
MCKeys == {<<>>, <<".">>, <<"k", "k", "k", "k">>}
MCData == {native, source, long}
MCNativeData == {native, long}
MCTooLong == {long}
MCDepthLimits == {0, 2, 3}
MCArgumentLimits == {1, 2}
MCSpans == [data : {source}, kind : {"integer", "real"}]
MCSources == {<<>>} \cup {<<s>> : s \in MCSpans} \cup (MCSpans \X MCSpans)

=============================================================================
