---------------------------- MODULE MCCppAdapter -----------------------------
(* Small instances of CppAdapter: an empty key, a key that is a dot and one  *)
(* of exactly the length limit.                                              *)
EXTENDS CppAdapter

MCByte == {"k", "r", "."}
MCDot == "."
MCArrayName == <<"r">>
MCKeys == {<<>>, <<".">>, <<"k", "k", "k", "k", "k">>}
MCEngines == {"rapidjson", "nlohmann", "jsoncons", "jsoncpp", "simdjson"}
MCDepthLimits == {0, 3}
MCArgumentLimits == {0, 2}
MCTrees == {<<>>, << <<".">> >>, << <<>>, <<".">> >>, << <<".">>, <<>> >>,
            << <<".">>, <<"k", "k", "k", "k", "k">> >>}

=============================================================================
