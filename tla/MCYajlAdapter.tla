---------------------------- MODULE MCYajlAdapter ----------------------------
(* Small instances of YajlAdapter: a key, a key that is a dot, an empty key  *)
(* and one of exactly the length limit.                                      *)
EXTENDS YajlAdapter

MCByte == {"k", "r", "."}
MCDot == "."
MCArrayName == <<"r">>
MCKeys == {<<>>, <<".">>, <<"k", "k", "k", "k", "k">>}
MCShortKeys == {<<".">>}
MCDepthLimits == {-1, 2, 3}
MCArgumentLimits == {0, 2}
MCLimits == {1, 2}

=============================================================================
