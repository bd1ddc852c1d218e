---------------------------- MODULE ArgumentPath ----------------------------
(***************************************************************************)
(* What the structural path of an adapter promises to the visitor that     *)
(* drives it.  A visitor stands at a place: the dotted prefix of the       *)
(* containers it is in, and the key of the value it is at.  Entering a     *)
(* container remembers the whole place; leaving it returns to that place   *)
(* exactly, whatever bytes (dots, nothing at all) the keys were made of.   *)
(* The detailed PathHandler keeps one byte string and a stack of lengths   *)
(* instead, and is shown to implement this module.                         *)
(***************************************************************************)
EXTENDS Naturals, Sequences

CONSTANTS
    Byte,              \* the bytes a key is made of
    Dot,               \* the separator of the display convention
    ArrayName,         \* the name given to an array at the root: "array"
    Keys,              \* the keys a visitor may set
    JSON_STRING_SIZE   \* names are shorter than this

VARIABLES
    failed,   \* the handler has refused an operation; nothing works any more
    here,     \* the place of the visitor: [prefix, key]
    outer,    \* the places it will return to, innermost last
    given     \* the names handed out by the last operation: none, or one

pathVars == <<failed, here, outer, given>>

Origin == [prefix |-> <<>>, key |-> <<>>]

\* prefix '.' key, and no separator under an empty prefix.
Extend(p, k) == IF p = <<>> THEN k ELSE p \o <<Dot>> \o k

PathInit ==
    /\ failed = FALSE
    /\ here = Origin
    /\ outer = <<>>
    /\ given = {}

ChooseKey(k) ==
    /\ ~failed
    /\ here' = [here EXCEPT !.key = k]
    /\ given' = {}
    /\ UNCHANGED <<failed, outer>>

\* An element of the root array is named after it; any other container keeps
\* the key it was found under as the key of its unnamed elements.
Inside(array) ==
    IF array /\ outer = <<>>
    THEN [prefix |-> ArrayName, key |-> ArrayName]
    ELSE [here EXCEPT !.prefix = Extend(here.prefix, here.key)]

Enter(array) ==
    /\ ~failed
    /\ Len(Inside(array).prefix) < JSON_STRING_SIZE
    /\ here' = Inside(array)
    /\ outer' = Append(outer, here)
    /\ given' = {}
    /\ UNCHANGED failed

Leave ==
    /\ ~failed
    /\ outer # <<>>
    /\ here' = outer[Len(outer)]
    /\ outer' = SubSeq(outer, 1, Len(outer) - 1)
    /\ given' = {}
    /\ UNCHANGED failed

Show ==
    /\ ~failed
    /\ Len(Extend(here.prefix, here.key)) < JSON_STRING_SIZE
    /\ given' = {Extend(here.prefix, here.key)}
    /\ UNCHANGED <<failed, here, outer>>

\* An operation that yields nothing and leaves the place alone: a copy that
\* could not be allocated.
ShowNothing ==
    /\ ~failed
    /\ given' = {}
    /\ UNCHANGED <<failed, here, outer>>

\* Refusal is final: no operation leaves this state or hands out a name in it.
Fail ==
    /\ failed' = TRUE
    /\ here' = Origin
    /\ outer' = <<>>
    /\ given' = {}

PathNext ==
    \/ \E k \in Keys \cup {<<>>} : ChooseKey(k)
    \/ \E array \in BOOLEAN : Enter(array)
    \/ Leave
    \/ Show
    \/ ShowNothing
    \/ Fail

PathSpec == PathInit /\ [][PathNext]_pathVars

=============================================================================
