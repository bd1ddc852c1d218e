------------------------------- MODULE DomWalk -------------------------------
(***************************************************************************)
(* The walk the four C DOM adapters share: it visits a native tree in      *)
(* source order with an explicit stack of frames, keeps the dotted path in *)
(* place, enforces the limits and replaces every native number by the next *)
(* numeric token of the source.  The tree is external: the callbacks kind, *)
(* child and scalar may describe any tree the grammar of JsonEvents has,   *)
(* with any numbers in it.  Buffers are modelled by the bytes in use.      *)
(***************************************************************************)
EXTENDS JsonEvents, Integers

CONSTANTS
    Keys,               \* the object keys of native trees
    Data,               \* scalar texts, of the tree and of the source
    NativeData,         \* those of the tree
    TooLong,            \* those of JSON_STRING_SIZE bytes or more
    JSON_STRING_SIZE,   \* the size of the prefix and key buffers
    DepthLimits,        \* the limits a client may set
    ArgumentLimits,
    InitialFrames,      \* 16 frames
    MaxFrames,          \* SIZE_MAX / (2 * sizeof(dom_frame))
    Sources,            \* the sequences of numeric spans a source may have
    MaxKeys             \* bound: the keys of one tree

Kinds == {"integer", "real"}
NotNumber == "none"
NumberKinds == Kinds \cup {"any", NotNumber}
Spans == [data : Data, kind : Kinds]
Values == [data : NativeData, number_kind : NumberKinds]

ASSUME WalkAssumption ==
    /\ Keys \subseteq Seq(Byte)
    /\ NativeData \subseteq Data
    /\ JSON_STRING_SIZE \in Nat /\ JSON_STRING_SIZE > Len(ArrayName)
    /\ DepthLimits \subseteq Nat /\ ArgumentLimits \subseteq Nat
    /\ InitialFrames \in Nat \ {0} /\ MaxFrames \in Nat
    /\ MaxKeys \in Nat
    \* The preflight remembers no token that is too long.
    /\ Sources \subseteq Seq([data : Data \ TooLong, kind : Kinds])

VARIABLES
    \* dom_walk_state
    frames, capacity, prefix, key, arguments, number_position,
    numbers,       \* the spans of the source
    use_numbers,   \* numbers # NULL
    object_keys,
    limits, silence,
    \* The heap: the frame array, and the saved keys.
    stack, saved,
    pc,            \* "idle", "enter", "next", "finish"
    \* The world: the position in the tree, the native numbers met, stdout,
    \* the outcome of the walk and its ground.
    doc, numerals, lines, outcome, reason

path    == <<frames, capacity, prefix, key>>
counts  == <<arguments, number_position, object_keys>>
given   == <<numbers, use_numbers, limits, silence>>
heap    == <<stack, saved>>
told    == <<outcome, reason>>
walkVars == <<path, counts, given, heap, pc, doc, numerals, lines, told>>

None == "none"

(***************************************************************************)
(* Mutated forms, for mutation runs only.                                  *)
(***************************************************************************)

\* The boundary is taken early, or after the prefix has grown; the limit or
\* the size is off by one; the count is not compared; an
\* array at the root has no name.
BoundaryEarly(p, k) == Len(p) - 1
BoundaryLate(p, k) == Len(p) + Len(k)
AtLimitLate(n, limit) == n > limit
FitsNoTerminator(n) == n <= JSON_STRING_SIZE
OmittedIgnored(n, total) == FALSE
PushPlain(array) == FALSE

(***************************************************************************)
(* Helpers.                                                                *)
(***************************************************************************)

AtLimit(n, limit) == n >= limit
Fits(n) == n < JSON_STRING_SIZE
Boundary(p, k) == Len(p)

NameLength == Len(prefix) + (IF prefix = <<>> THEN 0 ELSE 1) + Len(key)
WrittenName == (IF prefix = <<>> THEN <<>> ELSE Append(prefix, Dot)) \o key

RootArray(array) == array /\ frames = <<>>
PrefixSize(array) == IF RootArray(array) THEN Len(ArrayName) ELSE NameLength

IsFull == Len(frames) >= capacity
NewCapacity == IF capacity = 0 THEN InitialFrames ELSE 2 * capacity

\* The stack without its top frame.
Below(f) == SubSeq(f, 1, Len(f) - 1)

\* Saved keys that are left when every frame has been popped.
Released(n) == n - Len(frames)

\* Spans that no native number has taken.
Omitted(n, total) == n # total

(***************************************************************************)
(* Start, and the ways a walk ends.                                        *)
(***************************************************************************)

Init ==
    /\ frames = <<>> /\ capacity = 0 /\ prefix = <<>> /\ key = <<>>
    /\ arguments = 0 /\ number_position = 0 /\ object_keys = 0
    /\ numbers = <<>> /\ use_numbers = FALSE
    /\ limits \in [depth : DepthLimits, args : ArgumentLimits]
    /\ silence \in BOOLEAN
    /\ stack = FALSE /\ saved = 0
    /\ pc = "idle"
    /\ doc = Start /\ numerals = <<>> /\ lines = <<>>
    /\ outcome = None /\ reason = None

\* dom_walk and dom_walk_numbers: a fresh state for every walk.
WalkBegins(source, with, quiet) ==
    /\ pc = "idle"
    /\ frames' = <<>> /\ capacity' = 0 /\ prefix' = <<>> /\ key' = <<>>
    /\ arguments' = 0 /\ number_position' = 0 /\ object_keys' = 0
    /\ numbers' = source /\ use_numbers' = with
    /\ silence' = quiet
    /\ pc' = "enter"
    /\ doc' = Start /\ numerals' = <<>> /\ lines' = <<>>
    /\ outcome' = "open" /\ reason' = None
    /\ UNCHANGED <<limits, heap>>

\* dom_error: the loop stops, dom_walk_finish is next.
Fail(why) ==
    /\ outcome' = "refused"
    /\ reason' = why
    /\ pc' = "finish"
    /\ UNCHANGED <<given, doc, lines>>

Go(where) == pc' = where /\ UNCHANGED <<given, told>>

(***************************************************************************)
(* dom_walk_argument.                                                      *)
(***************************************************************************)

IsNumber(value) == value.number_kind # NotNumber
FromSource(value) == use_numbers /\ IsNumber(value)

Unexpected == number_position >= Len(numbers)
NextSpan == numbers[number_position + 1]
Differs(value) == value.number_kind \notin {"any", NextSpan.kind}

\* The value as it will be printed.
Text(value) == IF FromSource(value) THEN NextSpan.data ELSE value.data

ArgumentOverLimit ==
    /\ UNCHANGED <<path, counts, heap, numerals>>
    /\ \/ AtLimit(arguments, limits.args) /\ Fail("arguments")
       \/ /\ ~AtLimit(arguments, limits.args)
          /\ ~Fits(NameLength)
          /\ Fail("name")

\* The callback of the adapter cannot format the scalar.
ArgumentUnknown == UNCHANGED <<path, counts, heap, numerals>> /\ Fail("native")

\* dom_walk_number_source moves on before it compares the kinds.
TakeSpan(value) ==
    /\ number_position' = IF FromSource(value) THEN number_position + 1
                          ELSE number_position
    /\ numerals' = IF IsNumber(value) THEN Append(numerals, value.number_kind)
                   ELSE numerals

ArgumentMismatch(value) ==
    /\ FromSource(value)
    /\ UNCHANGED <<path, arguments, object_keys, heap>>
    /\ \/ Unexpected /\ UNCHANGED <<number_position, numerals>>
       \/ ~Unexpected /\ Differs(value) /\ TakeSpan(value)
    /\ Fail("numbers")

ArgumentTaken(value) ==
    /\ FromSource(value) => ~Unexpected /\ ~Differs(value)
    /\ TakeSpan(value)
    /\ UNCHANGED <<path, object_keys, heap>>
    /\ \/ Text(value) \in TooLong /\ Fail("value") /\ UNCHANGED arguments
       \/ /\ Text(value) \notin TooLong
          /\ arguments' = arguments + 1
          /\ \/ /\ doc' = AfterValue(doc)
                /\ lines' = IF silence THEN lines
                            ELSE Append(lines, [name |-> WrittenName,
                                                value |-> Text(value)])
                /\ Go("next")
             \/ ~silence /\ Fail("output")        \* a short write

Argument(value) ==
    /\ pc = "enter" /\ WantsValue(doc)
    /\ \/ ArgumentOverLimit
       \/ /\ ~AtLimit(arguments, limits.args) /\ Fits(NameLength)
          /\ ArgumentUnknown \/ ArgumentMismatch(value) \/ ArgumentTaken(value)

(***************************************************************************)
(* dom_walk_begin and dom_walk_pop.                                        *)
(***************************************************************************)

BeginOverLimit(array) ==
    /\ UNCHANGED <<path, counts, heap, numerals>>
    /\ \/ AtLimit(Len(frames), limits.depth) /\ Fail("depth")
       \/ /\ ~AtLimit(Len(frames), limits.depth)
          /\ ~Fits(PrefixSize(array))
          /\ Fail("name")

\* The stack cannot grow, or it has grown and the key cannot be copied.
BeginFails ==
    /\ UNCHANGED <<frames, prefix, key, counts, saved, numerals>>
    /\ \/ IsFull /\ UNCHANGED <<capacity, stack>>
       \/ /\ IsFull => capacity <= MaxFrames
          /\ capacity' = IF IsFull THEN NewCapacity ELSE capacity
          /\ stack' = TRUE
    /\ Fail("memory")

BeginSucceeds(array) ==
    /\ IsFull => capacity <= MaxFrames
    /\ capacity' = IF IsFull THEN NewCapacity ELSE capacity
    /\ stack' = TRUE
    /\ saved' = saved + 1
    /\ frames' = Append(frames, [prefix_before |-> Boundary(prefix, key),
                                 key |-> key, array |-> array])
    /\ prefix' = IF RootArray(array) THEN ArrayName ELSE WrittenName
    /\ key' = IF RootArray(array) THEN ArrayName ELSE key
    /\ doc' = AfterOpen(doc, array)
    /\ UNCHANGED <<counts, numerals, lines>>
    /\ Go("next")

Begin(array) ==
    /\ pc = "enter" /\ WantsValue(doc)
    /\ \/ BeginOverLimit(array)
       \/ /\ ~AtLimit(Len(frames), limits.depth) /\ Fits(PrefixSize(array))
          /\ BeginFails \/ BeginSucceeds(array)

(***************************************************************************)
(* dom_walk_next: the next child of the innermost container, or its end.   *)
(***************************************************************************)

Top == frames[Len(frames)]

Element ==
    /\ pc = "next" /\ frames # <<>> /\ Top.array
    /\ UNCHANGED <<path, counts, heap, doc, numerals, lines>>
    /\ Go("enter")

\* dom_walk_object_child
Member(k) ==
    /\ pc = "next" /\ frames # <<>> /\ ~Top.array
    /\ object_keys < MaxKeys
    /\ object_keys' = object_keys + 1
    /\ UNCHANGED <<frames, capacity, prefix, arguments, number_position, heap,
                   numerals>>
    /\ \/ ~Fits(Len(k)) /\ Fail("name") /\ UNCHANGED key
       \/ /\ Fits(Len(k))
          /\ key' = k
          /\ doc' = AfterKey(doc, k)
          /\ UNCHANGED lines
          /\ Go("enter")

Pop ==
    /\ pc = "next" /\ frames # <<>>
    /\ prefix' = SubSeq(prefix, 1, Top.prefix_before)
    /\ key' = Top.key
    /\ frames' = Below(frames)
    /\ saved' = saved - 1
    /\ doc' = AfterClose(doc)
    /\ UNCHANGED <<capacity, counts, stack, numerals, lines>>
    /\ Go("next")

(***************************************************************************)
(* dom_walk_finish: after an error, or when no container is left.          *)
(***************************************************************************)

Finish ==
    /\ pc = "finish" \/ (pc = "next" /\ frames = <<>>)
    /\ frames' = <<>> /\ saved' = Released(saved) /\ stack' = FALSE
    /\ capacity' = 0
    /\ pc' = "idle"
    /\ UNCHANGED <<prefix, key, counts, given, doc, numerals, lines>>
    /\ \/ pc = "finish" /\ UNCHANGED told
       \/ /\ pc = "next" /\ use_numbers
          /\ Omitted(number_position, Len(numbers))
          /\ outcome' = "refused" /\ reason' = "numbers"
       \/ /\ pc = "next"
          /\ use_numbers => ~Omitted(number_position, Len(numbers))
          /\ \/ outcome' = "accepted" /\ UNCHANGED reason
             \/ ~silence /\ outcome' = "refused" /\ reason' = "output"  \* fflush

\* Between walks the client may set limits.
Configure ==
    /\ pc = "idle" /\ outcome # "open"
    /\ limits' \in [depth : DepthLimits, args : ArgumentLimits]
    /\ UNCHANGED <<path, counts, numbers, use_numbers, silence, heap, pc, doc,
                   numerals, lines, told>>

Next ==
    \/ \E source \in Sources, with, quiet \in BOOLEAN :
          WalkBegins(source, with, quiet)
    \/ \E value \in Values : Argument(value)
    \/ \E array \in BOOLEAN : Begin(array)
    \/ Element
    \/ \E k \in Keys : Member(k)
    \/ Pop
    \/ Finish
    \/ Configure

Spec == Init /\ [][Next]_walkVars

(***************************************************************************)
(* Properties.                                                             *)
(***************************************************************************)

Reasons == {"memory", "output", "numbers", "native"}
Limits == {"depth", "arguments", "name", "value"}

Frames == [prefix_before : Nat, key : Seq(Byte), array : BOOLEAN]

\* Types of the state of a walk.
TypeOK ==
    /\ frames \in Seq(Frames) /\ capacity \in Nat
    /\ prefix \in Seq(Byte) /\ key \in Seq(Byte)
    /\ arguments \in Nat /\ number_position \in Nat /\ object_keys \in Nat
    /\ numbers \in Seq([data : Data \ TooLong, kind : Kinds])
    /\ use_numbers \in BOOLEAN
    /\ limits \in [depth : Nat, args : Nat] /\ silence \in BOOLEAN
    /\ stack \in BOOLEAN /\ saved \in Int
    /\ pc \in {"idle", "enter", "next", "finish"}
    /\ doc \in Positions /\ numerals \in Seq(NumberKinds \ {NotNumber})
    /\ lines \in Seq([name : Seq(Byte), value : Data])
    /\ outcome \in {None, "open", "accepted", "refused"}
    /\ reason \in Reasons \cup Limits \cup {None}

\* The frames are the containers that are open in the tree, in order, so the
\* walker never mistakes an element for a member and never loses count.
FramesAreOpen ==
    pc \in {"enter", "next"} =>
        /\ Len(frames) = Len(doc.open)
        /\ \A i \in 1..Len(frames) : frames[i].array = doc.open[i].array

\* The prefix cut and extended in place is the path of the open containers,
\* and when a value is due the key is the label of its position.
PathIsPosition ==
    /\ FramesAreOpen
    /\ pc \in {"enter", "next"} =>
        /\ prefix = Display(OpenLabels(doc))
        /\ pc = "enter" => key = LabelOf(doc, FALSE)

\* Every way out of a walk frees the frame array and each saved key once.
MemoryAccounted ==
    /\ saved = Len(frames)
    /\ stack = (capacity > 0)
    /\ pc = "idle" => saved = 0 /\ ~stack

\* The writes into the two buffers and the frame array stay inside them.
BuffersFit ==
    /\ Len(prefix) < JSON_STRING_SIZE
    /\ Len(key) < JSON_STRING_SIZE
    /\ Len(frames) <= capacity

\* Both: a walk neither leaks nor writes out of bounds.
MemorySafe == MemoryAccounted /\ BuffersFit

\* A walk with spans succeeds only if the tree has as many numbers as the
\* source, each of the kind of its token, so that no number is printed with
\* the text of another of a different kind.
NumbersAligned ==
    outcome = "accepted" /\ use_numbers =>
        /\ Len(numerals) = Len(numbers)
        /\ \A i \in 1..Len(numbers) : numerals[i] \in {"any", numbers[i].kind}

\* A limit is never passed, not even by one argument or one container, and
\* an argument is printed exactly when it is counted.
LimitsKept ==
    /\ pc # "idle" => arguments <= limits.args /\ Len(frames) <= limits.depth
    /\ Len(lines) = IF silence THEN 0
                    ELSE IF reason = "output" /\ Len(lines) < arguments
                         THEN arguments - 1 ELSE arguments

Extraction == INSTANCE ArgumentExtraction WITH
    silent <- silence,
    count <- arguments,
    lines <- [i \in 1..Len(lines) |-> lines[i].name],
    verdict <- outcome

\* Every walk treats its tree as ArgumentExtraction promises for a document.
ImplementsExtraction == Extraction!ExtractionSpec

=============================================================================
