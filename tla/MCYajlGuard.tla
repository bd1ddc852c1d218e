----------------------------- MODULE MCYajlGuard -----------------------------
(* The bytes at which the guard's decisions change.                          *)
EXTENDS YajlGuard

\* The ends of every range of lead and continuation bytes, NUL and DEL.
MCUtf8Bytes == {0, 65, 127, 128, 143, 144, 159, 160, 191, 192, 193, 194, 223,
                224, 225, 236, 237, 238, 239, 240, 241, 243, 244, 245, 255}

\* Quote, backslash, u, and digits that spell the ends of the surrogates.
MCEscapeBytes == {34, 92, 117, 48, 56, 66, 67, 68, 70}

\* Quote, backslash, u, one digit and one letter: long tokens.
MCTokenBytes == {34, 92, 117, 48, 120}

MCInputs == {[bytes |-> MCUtf8Bytes, raw |-> 2], [bytes |-> MCEscapeBytes, raw |-> 14],
             [bytes |-> MCTokenBytes, raw |-> 30]}

=============================================================================
