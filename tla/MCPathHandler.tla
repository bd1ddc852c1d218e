---------------------------- MODULE MCPathHandler ----------------------------
(* A small instance of PathHandler: two letters, the dot as data, empty keys *)
(* and one key of exactly the length limit.                                  *)
EXTENDS PathHandler

MCByte == {"k", "r", "."}
MCDot == "."
MCArrayName == <<"r">>
MCKeys == {<<>>, <<"k">>, <<".", "k">>, <<"k", ".">>,
           <<"k", "k", "k", "k", "k", "k">>}

=============================================================================
