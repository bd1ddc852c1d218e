----------------------------- MODULE PathHandler -----------------------------
(***************************************************************************)
(* The C++ PathHandler used by the RapidJSON, nlohmann, JsonCpp and        *)
(* simdjson adapters.  It keeps one display prefix and, per open           *)
(* container, the length the prefix had and the key that was current.      *)
(* Every operation swallows an allocation failure into the sticky m_error. *)
(***************************************************************************)
EXTENDS Naturals, Sequences

CONSTANTS
    Byte,              \* the bytes keys and names are made of
    Dot,               \* the separator '.'; a key may hold it as well
    ArrayName,         \* "array"
    Keys,              \* the keys callers pass to setKey
    JSON_STRING_SIZE,  \* the configured limit of a name and its terminator
    MaxFrames          \* bound: how deep a run nests

ASSUME PathAssumption ==
    /\ Dot \in Byte
    /\ ArrayName \in Seq(Byte) /\ ArrayName # <<>>
    /\ Keys \subseteq Seq(Byte)
    /\ JSON_STRING_SIZE \in Nat
    /\ MaxFrames \in Nat

VARIABLES
    prefix,   \* prefix_
    key,      \* key_
    frames,   \* frames_: <<[prefix_length, key], ...>>, innermost last
    m_error,
    given     \* what the last call of name or buildArgName handed out

vars == <<prefix, key, frames, m_error, given>>

Frame == [prefix_length : Nat, key : Seq(Byte)]

Init ==
    /\ prefix = <<>>
    /\ key = <<>>
    /\ frames = <<>>
    /\ m_error = FALSE
    /\ given = {}

(***************************************************************************)
(* Mutated forms of the helpers below, for mutation runs only.             *)
(***************************************************************************)

FitsNoTerminator(n) == n <= JSON_STRING_SIZE

\* The boundary taken one byte early, or after the prefix has grown.
FrameShort(p, k) == [prefix_length |-> Len(p) - 1, key |-> k]
FrameLate(p, k) == [prefix_length |-> Len(p) + 1 + Len(k), key |-> k]

\* The parent found by searching for the last dot.
SearchedParent(p, n) ==
    LET dots == {i \in 1..Len(p) : p[i] = Dot}
    IN  IF dots = {} THEN <<>>
        ELSE SubSeq(p, 1, (CHOOSE i \in dots : \A j \in dots : j <= i) - 1)

(***************************************************************************)
(* Helpers.                                                                *)
(***************************************************************************)

\* The bytes of a name, as start() and name() count them, and the name.
NameLength(p, k) == Len(p) + (IF p = <<>> THEN 0 ELSE 1) + Len(k)
Join(p, k) == IF p = <<>> THEN k ELSE p \o <<Dot>> \o k

\* A string and its terminator fit into JSON_STRING_SIZE bytes.
Fits(n) == n < JSON_STRING_SIZE

\* What start() saves, and the prefix pop() makes of a saved length n.
FrameFor(p, k) == [prefix_length |-> Len(p), key |-> k]
ParentPrefix(p, n) == SubSeq(p, 1, n)

\* An operation that only raises the sticky flag.
Refuse ==
    /\ m_error' = TRUE
    /\ given' = {}
    /\ UNCHANGED <<prefix, key, frames>>

\* Every operation but name() returns at once after an error.
Ignored ==
    /\ m_error
    /\ given' = {}
    /\ UNCHANGED <<prefix, key, frames, m_error>>

(***************************************************************************)
(* Operations.  An allocation of the standard library may fail wherever    *)
(* one happens.                                                            *)
(***************************************************************************)

\* setKey(k, |k|): the assignment has the strong guarantee.
SetKey(k) ==
    \/ Ignored
    \/ ~m_error /\ ~Fits(Len(k)) /\ Refuse
    \/ /\ ~m_error /\ Fits(Len(k))
       /\ key' = k
       /\ given' = {}
       /\ UNCHANGED <<prefix, frames, m_error>>
    \/ ~m_error /\ Fits(Len(k)) /\ Refuse  \* std::bad_alloc

\* setKey(nullptr, length): an empty key only for length zero.
SetNullKey(length) ==
    \/ Ignored
    \/ ~m_error /\ length # 0 /\ Refuse
    \/ /\ ~m_error /\ length = 0
       /\ key' = <<>>
       /\ given' = {}
       /\ UNCHANGED <<prefix, frames, m_error>>

RootArray(array) == array /\ frames = <<>>

StartLength(array) ==
    IF RootArray(array) THEN Len(ArrayName) ELSE NameLength(prefix, key)

\* start(array) when every allocation succeeds.
Entered(array) ==
    /\ frames' = Append(frames, FrameFor(prefix, key))
    /\ prefix' = IF RootArray(array) THEN ArrayName ELSE Join(prefix, key)
    /\ key' = IF RootArray(array) THEN ArrayName ELSE key
    /\ given' = {}
    /\ UNCHANGED m_error

\* start(array) when the prefix cannot grow: the frame is already pushed, and
\* the separator is perhaps already appended.
HalfEntered ==
    /\ frames' = Append(frames, FrameFor(prefix, key))
    /\ prefix' \in IF prefix = <<>> THEN {prefix}
                   ELSE {prefix, Append(prefix, Dot)}
    /\ m_error' = TRUE
    /\ given' = {}
    /\ UNCHANGED key

\* push() is Start(FALSE), startArraySpecial() is Start(TRUE).
Start(array) ==
    \/ Ignored
    \/ ~m_error /\ ~Fits(StartLength(array)) /\ Refuse
    \/ /\ ~m_error /\ Fits(StartLength(array)) /\ Len(frames) < MaxFrames
       /\ \/ Entered(array)
          \/ Refuse                          \* push_back threw
          \/ ~RootArray(array) /\ HalfEntered

Pop ==
    \/ Ignored
    \/ ~m_error /\ frames = <<>> /\ Refuse
    \/ /\ ~m_error /\ frames # <<>>
       /\ prefix' = ParentPrefix(prefix, frames[Len(frames)].prefix_length)
       /\ key' = frames[Len(frames)].key
       /\ frames' = SubSeq(frames, 1, Len(frames) - 1)
       /\ given' = {}
       /\ UNCHANGED m_error

\* name(): the value returned, or an exception that leaves the handler alone.
Name ==
    \/ /\ m_error \/ ~Fits(NameLength(prefix, key))
       /\ Refuse
    \/ /\ ~m_error /\ Fits(NameLength(prefix, key))
       /\ given' \in {{Join(prefix, key)}, {}}
       /\ UNCHANGED <<prefix, key, frames, m_error>>

\* buildArgName(out): the exception, a null out and an over-long name all
\* end in m_error; otherwise the name and its terminator are copied to out.
BuildArgName(null) ==
    \/ /\ m_error \/ ~Fits(NameLength(prefix, key)) \/ null
       /\ Refuse
    \/ /\ ~m_error /\ Fits(NameLength(prefix, key)) /\ ~null
       /\ \/ /\ given' = {Join(prefix, key)}
             /\ UNCHANGED <<prefix, key, frames, m_error>>
          \/ Refuse

Next ==
    \/ \E k \in Keys : SetKey(k)
    \/ \E length \in {0, 1} : SetNullKey(length)
    \/ \E array \in BOOLEAN : Start(array)
    \/ Pop
    \/ Name
    \/ \E null \in BOOLEAN : BuildArgName(null)

Spec == Init /\ [][Next]_vars

(***************************************************************************)
(* Properties.                                                             *)
(***************************************************************************)

\* Types of the handler's state.
TypeOK ==
    /\ prefix \in Seq(Byte)
    /\ key \in Seq(Byte)
    /\ frames \in Seq(Frame)
    /\ m_error \in BOOLEAN
    /\ given \subseteq Seq(Byte)

\* The recorded lengths are boundaries inside the prefix: the outermost one is
\* zero, they never decrease inwards, and none is past the end, so resize() in
\* pop() only ever shrinks.
FramesAreBoundaries ==
    /\ frames # <<>> => frames[1].prefix_length = 0
    /\ \A i \in 1..Len(frames) :
           /\ frames[i].prefix_length <= Len(prefix)
           /\ \A j \in i..Len(frames) :
                  frames[i].prefix_length <= frames[j].prefix_length

\* Outside every container the prefix is empty again: no byte of an earlier
\* branch of the document can appear in a later name.
NoResidue == frames = <<>> => prefix = <<>>

\* So a pop restores what a push has saved, at every depth down to none.
FramesSound == FramesAreBoundaries /\ NoResidue

\* A key that is current, or will be again, is shorter than JSON_STRING_SIZE,
\* and so is every name handed out: buildArgName's memcpy and the terminator it
\* stores stay inside the caller's buffer.
BufferFits ==
    /\ key = <<>> \/ Len(key) < JSON_STRING_SIZE
    /\ \A i \in 1..Len(frames) :
           frames[i].key = <<>> \/ Len(frames[i].key) < JSON_STRING_SIZE
    /\ \A n \in given : Len(n) < JSON_STRING_SIZE

\* The place remembered by frame i, read back from the one shared prefix.
PlaceOf(i) == [prefix |-> SubSeq(prefix, 1, frames[i].prefix_length),
               key |-> frames[i].key]

\* Where the visitor stands, and where it will return to.
Here == IF m_error THEN [prefix |-> <<>>, key |-> <<>>]
        ELSE [prefix |-> prefix, key |-> key]
Outer == IF m_error THEN <<>> ELSE [i \in 1..Len(frames) |-> PlaceOf(i)]

Path == INSTANCE ArgumentPath WITH
    failed <- m_error, here <- Here, outer <- Outer

\* Every pop returns to exactly the place its push left, an error is final and
\* silent, and a name is the join of the visitor's own place.
ImplementsArgumentPath == Path!PathSpec

=============================================================================
