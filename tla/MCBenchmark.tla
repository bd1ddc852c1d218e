---------------------------- MODULE MCBenchmark -----------------------------
(* Command lines over a few engines and numbers, and a clock of 3 ticks a second. *)
EXTENDS Benchmark

\* "", "0", "2", "3", "12", "13", "1x" and "99", against UINT_MAX = 12.
MCTexts == {<<>>, <<48>>, <<50>>, <<51>>, <<49, 50>>, <<49, 51>>, <<49, 120>>,
            <<57, 57>>}

MCOptions == ({"d", "n"} \X MCTexts) \cup ({"a"} \X {<<48>>, <<55>>})
             \cup ({"e"} \X {"YAJL", "JANSSON", "GLAZE", "OTHER"})
             \cup ({"s", "h"} \X {<<>>})

\* One engine, for the liveness and the parse-only runs.
MCFewOptions == ({"n"} \X {<<>>, <<50>>, <<51>>})
                \cup ({"e"} \X Engines) \cup ({"s", "h"} \X {<<>>})

=============================================================================
