--------------------------- MODULE DomAdapterProofs ---------------------------
(***************************************************************************)
(* The four C adapters, for any libraries, texts, keys and limits.         *)
(*                                                                         *)
(* First the walk over a tree (DomWalk), for every tree, every source and  *)
(* all limits and sizes: frames and buffers, memory, number spans and      *)
(* limits.  Then what a call holds at each stage (Releasing), and the      *)
(* types (AdapterIInv); what a text is: the events of its reading, the     *)
(* tokens the scanner passes, the tree a library builds from it.  Last the *)
(* call on a document (DocumentIInv): the preflight has counted what the   *)
(* reading holds, the tree is the text's, the walk is at the event it has  *)
(* reached, what is printed are the arguments, and a failure has a ground. *)
(***************************************************************************)
EXTENDS DomAdapter, JsonEventsProofs

(***************************************************************************)
(* The walk over a tree.  Its inductive invariant: a pop needs boundaries  *)
(* that are ordered for all pairs of frames, and saved keys that fit; the  *)
(* array at the root needs to be preceded by nothing; a success needs what *)
(* is known of the numbers met so far; the limits need to know that a walk *)
(* has no ground of refusal before it fails.                               *)
(***************************************************************************)

Control ==
    /\ pc \in {"enter", "next"} => outcome = "open" /\ reason = None
    /\ pc = "finish" => outcome = "refused"
    /\ pc = "idle" => frames = <<>> /\ capacity = 0

Boundaries ==
    /\ pc = "enter" /\ frames = <<>> => prefix = <<>>
    /\ \A i \in 1..Len(frames) :
          /\ frames[i].prefix_before <= Len(prefix)
          /\ Len(frames[i].key) < JSON_STRING_SIZE
    /\ \A i, j \in 1..Len(frames) :
          i <= j => frames[i].prefix_before <= frames[j].prefix_before

NumbersMet ==
    pc \in {"enter", "next"} /\ use_numbers =>
        /\ number_position = Len(numerals)
        /\ number_position <= Len(numbers)
        /\ \A i \in 1..number_position : numerals[i] \in {"any", numbers[i].kind}

IInv ==
    /\ TypeOK /\ Control /\ FramesAreOpen /\ MemoryAccounted
    /\ Boundaries /\ BuffersFit /\ NumbersMet /\ NumbersAligned /\ LimitsKept

(***************************************************************************)
(* Facts about positions and names.                                        *)
(***************************************************************************)

\* A name has as many bytes as were counted before it was written.
LEMMA WrittenNameLength ==
    ASSUME TypeOK
    PROVE  /\ WrittenName \in Seq(Byte) /\ Len(WrittenName) = NameLength
           /\ Len(prefix) <= Len(WrittenName)
<1>1. prefix \in Seq(Byte) /\ key \in Seq(Byte)  BY DEF TypeOK
<1>2. CASE prefix = <<>>  BY <1>1, <1>2 DEF WrittenName, NameLength
<1>3. CASE prefix # <<>>
  <2>1. Append(prefix, Dot) \in Seq(Byte) /\ Len(Append(prefix, Dot)) = Len(prefix) + 1
    BY <1>1, EventsAssumption
  <2> QED  BY <1>1, <1>3, <2>1 DEF WrittenName, NameLength
<1> QED  BY <1>2, <1>3

\* What will be printed is a text, and one from the source is not too long.
LEMMA TextType ==
    ASSUME TypeOK, NEW value \in Values, FromSource(value) => ~Unexpected
    PROVE  Text(value) \in Data
<1>1. CASE FromSource(value)
  <2>1. number_position + 1 \in 1..Len(numbers)  BY <1>1 DEF TypeOK, Unexpected
  <2> DEFINE S == [data : Data \ TooLong, kind : Kinds]
  <2>2. numbers \in Seq(S)  BY DEF TypeOK
  <2> HIDE DEF S
  <2>3. NextSpan \in S  BY <2>1, <2>2 DEF NextSpan
  <2> QED  BY <1>1, <2>3 DEF Text, S
<1>2. CASE ~FromSource(value)
  BY <1>2, WalkAssumption DEF Text, Values
<1> QED  BY <1>1, <1>2

\* What a new frame, and the prefix behind it, look like.
LEMMA FrameType ==
    ASSUME TypeOK, NEW array \in BOOLEAN
    PROVE  [prefix_before |-> Boundary(prefix, key), key |-> key, array |-> array]
               \in Frames
BY DEF TypeOK, Frames, Boundary

(***************************************************************************)
(* Types.                                                                  *)
(***************************************************************************)

LEMMA InitIInv == Init => IInv
<1> SUFFICES ASSUME Init PROVE IInv
  OBVIOUS
<1>1. TypeOK
  <2>1. /\ <<>> \in Seq(Frames) /\ <<>> \in Seq(Byte)
        /\ <<>> \in Seq([data : Data \ TooLong, kind : Kinds])
        /\ <<>> \in Seq(NumberKinds \ {NotNumber})
        /\ <<>> \in Seq([name : Seq(Byte), value : Data])
        /\ <<>> \in Seq(Containers)
    OBVIOUS
  <2>2. Start \in Positions  BY <2>1 DEF Start, Positions
  <2>3. limits \in [depth : Nat, args : Nat]  BY WalkAssumption DEF Init
  <2>4. use_numbers \in BOOLEAN /\ silence \in BOOLEAN /\ stack \in BOOLEAN
    BY DEF Init
  <2>5. /\ capacity \in Nat /\ arguments \in Nat /\ number_position \in Nat
        /\ object_keys \in Nat /\ saved \in Int
    BY DEF Init
  <2>6. /\ pc \in {"idle", "enter", "next", "finish"}
        /\ outcome \in {None, "open", "accepted", "refused"}
        /\ reason \in Reasons \cup Limits \cup {None}
    BY DEF Init
  <2>7. /\ frames = <<>> /\ prefix = <<>> /\ key = <<>> /\ numbers = <<>>
        /\ doc = Start /\ numerals = <<>> /\ lines = <<>>
    BY DEF Init
  <2> QED  BY <2>1, <2>2, <2>3, <2>4, <2>5, <2>6, <2>7 DEF TypeOK
<1>2. Len(frames) = 0 /\ Len(prefix) = 0 /\ Len(key) = 0 /\ Len(lines) = 0
  BY DEF Init
<1>3. JSON_STRING_SIZE > 0  BY WalkAssumption, EventsAssumption
<1>4. Control /\ FramesAreOpen /\ Boundaries /\ BuffersFit
  <2>1. pc = "idle" /\ frames = <<>> /\ capacity = 0  BY DEF Init
  <2>2. Control /\ FramesAreOpen  BY <2>1 DEF Control, FramesAreOpen
  <2>3. Boundaries /\ BuffersFit  BY <1>2, <1>3, <2>1 DEF Boundaries, BuffersFit
  <2> QED  BY <2>2, <2>3
<1>6. MemoryAccounted
  <2>1. (capacity > 0) = FALSE  BY DEF Init
  <2>2. saved = Len(frames) /\ saved = 0 /\ stack = FALSE  BY <1>2 DEF Init
  <2> QED  BY <2>1, <2>2 DEF MemoryAccounted
<1>5. NumbersMet /\ NumbersAligned /\ LimitsKept
  BY <1>2 DEF Init, NumbersMet, NumbersAligned, LimitsKept, None
<1> QED  BY <1>1, <1>4, <1>5, <1>6 DEF IInv

\* The data a failing step leaves alone.
LEMMA FailTypes ==
    ASSUME TypeOK, NEW why \in Reasons \cup Limits, Fail(why)
    PROVE  /\ outcome' \in {None, "open", "accepted", "refused"}
           /\ reason' \in Reasons \cup Limits \cup {None}
           /\ pc' \in {"idle", "enter", "next", "finish"}
           /\ numbers' \in Seq([data : Data \ TooLong, kind : Kinds])
           /\ use_numbers' \in BOOLEAN
           /\ limits' \in [depth : Nat, args : Nat] /\ silence' \in BOOLEAN
           /\ doc' \in Positions
           /\ lines' \in Seq([name : Seq(Byte), value : Data])
BY DEF TypeOK, Fail, given

LEMMA GoTypes ==
    ASSUME TypeOK, NEW where \in {"enter", "next"}, Go(where)
    PROVE  /\ outcome' \in {None, "open", "accepted", "refused"}
           /\ reason' \in Reasons \cup Limits \cup {None}
           /\ pc' \in {"idle", "enter", "next", "finish"}
           /\ numbers' \in Seq([data : Data \ TooLong, kind : Kinds])
           /\ use_numbers' \in BOOLEAN
           /\ limits' \in [depth : Nat, args : Nat] /\ silence' \in BOOLEAN
BY DEF TypeOK, Go, given, told

LEMMA TakeSpanTypes ==
    ASSUME TypeOK, NEW value \in Values, TakeSpan(value)
    PROVE  number_position' \in Nat /\ numerals' \in Seq(NumberKinds \ {NotNumber})
<1>1. number_position \in Nat /\ numerals \in Seq(NumberKinds \ {NotNumber})
  BY DEF TypeOK
<1>2. value.number_kind \in NumberKinds  BY DEF Values
<1> QED  BY <1>1, <1>2 DEF TakeSpan, IsNumber

LEMMA ArgumentTypes ==
    ASSUME TypeOK, NEW value \in Values, Argument(value)
    PROVE  TypeOK'
<1>1. CASE ArgumentOverLimit
  BY <1>1, FailTypes DEF ArgumentOverLimit, TypeOK, path, counts, heap, Limits
<1>2. CASE ArgumentUnknown
  BY <1>2, FailTypes DEF ArgumentUnknown, TypeOK, path, counts, heap, Reasons
<1>3. CASE ArgumentMismatch(value)
  <2>1. number_position' \in Nat /\ numerals' \in Seq(NumberKinds \ {NotNumber})
    BY <1>3, TakeSpanTypes DEF ArgumentMismatch, TypeOK
  <2> QED
    BY <1>3, <2>1, FailTypes DEF ArgumentMismatch, TypeOK, path, heap, Reasons
<1>4. CASE ArgumentTaken(value)
  <2>1. number_position' \in Nat /\ numerals' \in Seq(NumberKinds \ {NotNumber})
    BY <1>4, TakeSpanTypes DEF ArgumentTaken
  <2>2. /\ frames' \in Seq(Frames) /\ capacity' \in Nat
        /\ prefix' \in Seq(Byte) /\ key' \in Seq(Byte)
        /\ object_keys' \in Nat /\ stack' \in BOOLEAN /\ saved' \in Int
    BY <1>4 DEF ArgumentTaken, TypeOK, path, heap
  <2>3. CASE Fail("value") /\ UNCHANGED arguments
    BY <2>1, <2>2, <2>3, FailTypes DEF TypeOK, Limits
  <2>4. CASE arguments' = arguments + 1 /\ Fail("output")
    <3>1. arguments' \in Nat  BY <2>4 DEF TypeOK
    <3>2. "output" \in Reasons \cup Limits  BY DEF Reasons
    <3> QED  BY <2>1, <2>2, <2>4, <3>1, <3>2, FailTypes DEF TypeOK
  <2>5. CASE /\ arguments' = arguments + 1
             /\ doc' = AfterValue(doc)
             /\ lines' = IF silence THEN lines
                         ELSE Append(lines, [name |-> WrittenName,
                                             value |-> Text(value)])
             /\ Go("next")
    <3>1. doc' \in Positions  BY <2>5, AfterValueType DEF TypeOK
    <3> DEFINE L == [name : Seq(Byte), value : Data]
               line == [name |-> WrittenName, value |-> Text(value)]
    <3>2. line \in L
      BY <1>4, WrittenNameLength, TextType DEF ArgumentTaken
    <3>3. lines \in Seq(L)  BY DEF TypeOK
    <3> HIDE DEF L
    <3>4. Append(lines, line) \in Seq(L)  BY <3>2, <3>3
    <3>5. lines' \in Seq(L)  BY <2>5, <3>3, <3>4
    <3> QED  BY <2>1, <2>2, <2>5, <3>1, <3>5, GoTypes DEF TypeOK, L
  <2> QED  BY <1>4, <2>3, <2>4, <2>5 DEF ArgumentTaken
<1> QED  BY <1>1, <1>2, <1>3, <1>4 DEF Argument

LEMMA BeginTypes ==
    ASSUME TypeOK, NEW array \in BOOLEAN, Begin(array)
    PROVE  TypeOK'
<1>0. NewCapacity \in Nat  BY WalkAssumption DEF TypeOK, NewCapacity
<1>1. CASE BeginOverLimit(array)
  BY <1>1, FailTypes DEF BeginOverLimit, TypeOK, path, counts, heap, Limits
<1>2. CASE BeginFails
  <2>1. capacity' \in Nat /\ stack' \in BOOLEAN
    BY <1>0, <1>2 DEF BeginFails, TypeOK
  <2> QED  BY <1>2, <2>1, FailTypes DEF BeginFails, TypeOK, counts, Reasons
<1>3. CASE BeginSucceeds(array)
  <2>1. capacity' \in Nat /\ stack' \in BOOLEAN /\ saved' \in Int
    BY <1>0, <1>3 DEF BeginSucceeds, TypeOK
  <2>2. frames' \in Seq(Frames)
    <3> DEFINE f == [prefix_before |-> Boundary(prefix, key),
                     key |-> key, array |-> array]
    <3>1. f \in Frames  BY FrameType
    <3>2. frames \in Seq(Frames) /\ frames' = Append(frames, f)
      BY <1>3 DEF BeginSucceeds, TypeOK
    <3> HIDE DEF f
    <3> QED  BY <3>1, <3>2
  <2>3. prefix' \in Seq(Byte) /\ key' \in Seq(Byte)
    BY <1>3, WrittenNameLength, EventsAssumption DEF BeginSucceeds, TypeOK
  <2>4. doc' \in Positions  BY <1>3, AfterOpenType DEF BeginSucceeds, TypeOK
  <2> QED
    BY <1>3, <2>1, <2>2, <2>3, <2>4, GoTypes DEF BeginSucceeds, TypeOK, counts
<1> QED  BY <1>1, <1>2, <1>3 DEF Begin

LEMMA MemberTypes ==
    ASSUME TypeOK, NEW k \in Keys, Member(k)
    PROVE  TypeOK'
<1>1. k \in Seq(Byte)  BY WalkAssumption
<1>2. AfterKey(doc, k) \in Positions  BY <1>1, AfterKeyType DEF TypeOK
<1>3. CASE Fail("name") /\ UNCHANGED key
  <2>1. object_keys' \in Nat  BY DEF Member, TypeOK
  <2>2. "name" \in Reasons \cup Limits  BY DEF Limits
  <2> QED  BY <1>3, <2>1, <2>2, FailTypes DEF Member, TypeOK, heap
<1>4. CASE key' = k /\ doc' = AfterKey(doc, k) /\ UNCHANGED lines /\ Go("enter")
  BY <1>1, <1>2, <1>4, GoTypes DEF Member, TypeOK, heap
<1> QED  BY <1>3, <1>4 DEF Member

LEMMA PopTypes ==
    ASSUME TypeOK, Boundaries, FramesAreOpen, Pop
    PROVE  TypeOK'
<1>1. frames \in Seq(Frames) /\ Len(frames) \in 1..Len(frames) /\ Top \in Frames
  BY DEF TypeOK, Pop, Top
<1>2. prefix \in Seq(Byte) /\ Top.prefix_before \in 0..Len(prefix)
  <2>1. prefix \in Seq(Byte) /\ Top.prefix_before \in Nat
    BY <1>1 DEF TypeOK, Frames
  <2>2. Top.prefix_before <= Len(prefix)  BY <1>1 DEF Boundaries, Top
  <2> QED  BY <2>1, <2>2
<1>3. prefix' \in Seq(Byte)
  <2>1. SubSeq(prefix, 1, Top.prefix_before) \in Seq(Byte)  BY <1>2
  <2> QED  BY <2>1 DEF Pop
<1>4. key' \in Seq(Byte)  BY <1>1 DEF Pop, Frames
<1>5. frames' \in Seq(Frames)  BY <1>1 DEF Pop, Below
<1>6. doc' \in Positions
  <2>1. doc.open # <<>>  BY <1>1 DEF FramesAreOpen, Pop, TypeOK, Positions
  <2> QED  BY <2>1, AfterCloseType DEF Pop, TypeOK
<1>7. saved' \in Int  BY DEF Pop, TypeOK
<1> QED
  BY <1>3, <1>4, <1>5, <1>6, <1>7, GoTypes DEF Pop, TypeOK, counts

\* What a walk does for any spans at all: the set Sources is a bound of the
\* model, and the adapters have spans of their own.
Numerals == Seq([data : Data \ TooLong, kind : Kinds])

AnyNext ==
    \/ \E source \in Numerals, with \in BOOLEAN, mute \in BOOLEAN :
          WalkBegins(source, with, mute)
    \/ \E value \in Values : Argument(value)
    \/ \E array \in BOOLEAN : Begin(array)
    \/ Element
    \/ \E k \in Keys : Member(k)
    \/ Pop \/ Finish \/ Configure

LEMMA NextIsAny == Next => AnyNext
<1>1. Sources \subseteq Numerals
  BY WalkAssumption DEF Numerals
<1> QED
  BY <1>1, Zenon DEF Next, AnyNext

LEMMA StepTypes ==
    ASSUME IInv, [AnyNext]_walkVars
    PROVE  TypeOK'
<1> USE DEF IInv
<1>1. ASSUME NEW source \in Numerals, NEW with \in BOOLEAN, NEW mute \in BOOLEAN,
             WalkBegins(source, with, mute)
      PROVE  TypeOK'
  <2>1. /\ <<>> \in Seq(Frames) /\ <<>> \in Seq(Byte)
        /\ <<>> \in Seq(NumberKinds \ {NotNumber})
        /\ <<>> \in Seq([name : Seq(Byte), value : Data])
        /\ <<>> \in Seq(Containers)
    OBVIOUS
  <2>2. Start \in Positions  BY <2>1 DEF Start, Positions
  <2>3. numbers' \in Seq([data : Data \ TooLong, kind : Kinds])
    BY <1>1 DEF WalkBegins, Numerals
  <2> QED  BY <1>1, <2>1, <2>2, <2>3 DEF WalkBegins, TypeOK, heap
<1>2. ASSUME NEW value \in Values, Argument(value) PROVE TypeOK'
  BY <1>2, ArgumentTypes
<1>3. ASSUME NEW array \in BOOLEAN, Begin(array) PROVE TypeOK'
  BY <1>3, BeginTypes
<1>4. CASE Element
  BY <1>4, GoTypes DEF Element, TypeOK, path, counts, heap
<1>5. ASSUME NEW k \in Keys, Member(k) PROVE TypeOK'
  BY <1>5, MemberTypes
<1>6. CASE Pop
  BY <1>6, PopTypes
<1>7. CASE Finish
  <2>1. <<>> \in Seq(Frames)  OBVIOUS
  <2>2. saved' \in Int  BY <1>7 DEF Finish, Released, TypeOK
  <2> QED  BY <1>7, <2>1, <2>2 DEF Finish, TypeOK, counts, given, told, Reasons
<1>8. CASE Configure
  <2>1. limits' \in [depth : Nat, args : Nat]
    BY <1>8, WalkAssumption DEF Configure
  <2> QED  BY <1>8, <2>1 DEF Configure, TypeOK, path, counts, heap, told
<1>9. CASE UNCHANGED walkVars
  BY <1>9 DEF walkVars, path, counts, given, heap, told, TypeOK
<1> QED  BY <1>1, <1>2, <1>3, <1>4, <1>5, <1>6, <1>7, <1>8, <1>9 DEF AnyNext

(***************************************************************************)
(* Where a walk is, and the containers it is in.                           *)
(***************************************************************************)

LEMMA StepControl ==
    ASSUME IInv, [AnyNext]_walkVars
    PROVE  Control'
<1> USE DEF IInv, Control
<1>1. ASSUME NEW source \in Numerals, NEW with \in BOOLEAN, NEW mute \in BOOLEAN,
             WalkBegins(source, with, mute)
      PROVE  Control'
  BY <1>1 DEF WalkBegins
<1>2. ASSUME NEW value \in Values, Argument(value) PROVE Control'
  BY <1>2 DEF Argument, ArgumentOverLimit, ArgumentUnknown, ArgumentMismatch,
              ArgumentTaken, Fail, Go, told
<1>3. ASSUME NEW array \in BOOLEAN, Begin(array) PROVE Control'
  BY <1>3 DEF Begin, BeginOverLimit, BeginFails, BeginSucceeds, Fail, Go, told
<1>4. CASE Element  BY <1>4 DEF Element, Go, told
<1>5. ASSUME NEW k \in Keys, Member(k) PROVE Control'
  BY <1>5 DEF Member, Fail, Go, told
<1>6. CASE Pop  BY <1>6 DEF Pop, Go, told
<1>7. CASE Finish  BY <1>7 DEF Finish
<1>8. CASE Configure  BY <1>8 DEF Configure, path, told
<1>9. CASE UNCHANGED walkVars  BY <1>9 DEF walkVars, path, told
<1> QED  BY <1>1, <1>2, <1>3, <1>4, <1>5, <1>6, <1>7, <1>8, <1>9 DEF AnyNext

\* What a push and a pop do to the frames.
LEMMA PushedFrames ==
    ASSUME TypeOK, NEW array \in BOOLEAN, BeginSucceeds(array)
    PROVE  /\ Len(frames') = Len(frames) + 1
           /\ \A i \in 1..Len(frames) : frames'[i] = frames[i]
           /\ frames'[Len(frames) + 1].prefix_before = Len(prefix)
           /\ frames'[Len(frames) + 1].key = key
           /\ frames'[Len(frames) + 1].array = array
<1> DEFINE f == [prefix_before |-> Boundary(prefix, key), key |-> key, array |-> array]
<1>1. f \in Frames  BY FrameType
<1>2. frames \in Seq(Frames) /\ frames' = Append(frames, f)
  BY DEF BeginSucceeds, TypeOK
<1>3. f.prefix_before = Len(prefix) /\ f.key = key /\ f.array = array
  BY DEF Boundary
<1> HIDE DEF f
<1>4. /\ Len(frames') = Len(frames) + 1
      /\ \A i \in 1..Len(frames) : frames'[i] = frames[i]
      /\ frames'[Len(frames) + 1] = f
  BY <1>1, <1>2
<1> QED  BY <1>3, <1>4

LEMMA PoppedFrames ==
    ASSUME TypeOK, Pop
    PROVE  /\ Len(frames) >= 1
           /\ Len(frames') = Len(frames) - 1
           /\ \A i \in 1..Len(frames') : frames'[i] = frames[i]
<1>1. frames \in Seq(Frames) /\ frames # <<>>  BY DEF TypeOK, Pop
<1>2. Len(frames) \in Nat /\ Len(frames) >= 1  BY <1>1
<1> DEFINE n == Len(frames) - 1
           s == SubSeq(frames, 1, n)
<1>3. frames' = s  BY DEF Pop, Below
<1>4. 1 \in Int /\ n \in Nat /\ \A i \in 1..n : frames[i] \in Frames
  BY <1>1, <1>2
<1> HIDE DEF n
<1>5. Len(s) = (IF 1 <= n THEN n - 1 + 1 ELSE 0)
      /\ \A i \in 1..(n - 1 + 1) : s[i] = frames[1 + i - 1]
  BY <1>4, SubSeqProperties
<1>6. Len(s) = n  BY <1>4, <1>5
<1>7. ASSUME NEW i \in 1..n PROVE s[i] = frames[i]
  <2>1. i \in 1..(n - 1 + 1) /\ 1 + i - 1 = i  BY <1>4
  <2> QED  BY <1>5, <2>1
<1> HIDE DEF s
<1> QED  BY <1>2, <1>3, <1>6, <1>7 DEF n

LEMMA StepFrames ==
    ASSUME IInv, [AnyNext]_walkVars
    PROVE  FramesAreOpen'
<1>0. TypeOK /\ FramesAreOpen  BY DEF IInv
<1>d. doc \in Positions /\ Len(doc.open) \in Nat
      /\ frames \in Seq(Frames) /\ Len(frames) \in Nat
  BY <1>0 DEF TypeOK, Positions
<1>1. ASSUME NEW source \in Numerals, NEW with \in BOOLEAN, NEW mute \in BOOLEAN,
             WalkBegins(source, with, mute)
      PROVE  FramesAreOpen'
  BY <1>1 DEF WalkBegins, FramesAreOpen, Start
<1>2. ASSUME NEW value \in Values, Argument(value) PROVE FramesAreOpen'
  <2>1. CASE pc' = "finish"  BY <2>1 DEF FramesAreOpen
  <2>2. CASE /\ UNCHANGED frames /\ doc' = AfterValue(doc)
             /\ pc \in {"enter", "next"}
    BY <1>0, <1>d, <2>2, AfterValueType DEF FramesAreOpen
  <2> QED
    BY <1>2, <2>1, <2>2 DEF Argument, ArgumentOverLimit, ArgumentUnknown,
       ArgumentMismatch, ArgumentTaken, Fail, path
<1>3. ASSUME NEW array \in BOOLEAN, Begin(array) PROVE FramesAreOpen'
  <2>1. CASE pc' = "finish"  BY <2>1 DEF FramesAreOpen
  <2>2. CASE BeginSucceeds(array)
    <3>1. doc' = AfterOpen(doc, array) /\ pc \in {"enter", "next"}
      BY <1>3, <2>2 DEF Begin, BeginSucceeds
    <3> DEFINE n == Len(frames)
    <3>2. /\ Len(frames') = n + 1
          /\ \A i \in 1..n : frames'[i] = frames[i]
          /\ frames'[n + 1].array = array
      BY <1>0, <2>2, PushedFrames
    <3>3. Len(doc.open) = n /\ \A i \in 1..n : frames[i].array = doc.open[i].array
      BY <1>0, <3>1 DEF FramesAreOpen
    <3>4. /\ Len(doc'.open) = n + 1
          /\ \A i \in 1..n : doc'.open[i] = doc.open[i]
          /\ doc'.open[n + 1].array = array
      <4>1. /\ Len(AfterOpen(doc, array).open) = Len(doc.open) + 1
            /\ \A i \in 1..Len(doc.open) : AfterOpen(doc, array).open[i] = doc.open[i]
            /\ AfterOpen(doc, array).open[Len(doc.open) + 1].array = array
        BY <1>d, AfterOpenType, Zenon
      <4>2. doc' = AfterOpen(doc, array) /\ Len(doc.open) = n
        BY <3>1, <3>3
      <4> HIDE DEF n
      <4> QED
        BY <4>1, <4>2, Zenon
    <3>5. n \in Nat  BY <1>d
    <3> HIDE DEF n
    <3> QED  BY <3>2, <3>3, <3>4, <3>5 DEF FramesAreOpen
  <2> QED  BY <1>3, <2>1, <2>2 DEF Begin, BeginOverLimit, BeginFails, Fail
<1>4. CASE Element  BY <1>0, <1>4 DEF Element, FramesAreOpen, path
<1>5. ASSUME NEW k \in Keys, Member(k) PROVE FramesAreOpen'
  <2>1. CASE pc' = "finish"  BY <2>1 DEF FramesAreOpen
  <2>2. CASE doc' = AfterKey(doc, k)
    <3>1. k \in Seq(Byte)  BY WalkAssumption
    <3> QED
      BY <1>0, <1>d, <1>5, <2>2, <3>1, AfterKeyType DEF FramesAreOpen, Member
  <2> QED  BY <1>5, <2>1, <2>2 DEF Member, Fail
<1>6. CASE Pop
  <2>1. Len(doc.open) = Len(frames) /\ doc' = AfterClose(doc)
    BY <1>0, <1>6 DEF FramesAreOpen, Pop
  <2>2. Len(frames) >= 1 /\ Len(frames') = Len(frames) - 1
        /\ \A i \in 1..Len(frames') : frames'[i] = frames[i]
    BY <1>0, <1>6, PoppedFrames
  <2>3. doc.open # <<>>  BY <1>d, <2>1, <2>2
  <2>4. \A i \in 1..Len(frames) : frames[i].array = doc.open[i].array
    BY <1>0, <1>6 DEF FramesAreOpen, Pop
  <2>5. /\ Len(doc'.open) = Len(doc.open) - 1
        /\ \A i \in 1..(Len(doc.open) - 1) : doc'.open[i] = doc.open[i]
    BY <1>d, <2>1, <2>3, AfterCloseType
  <2> QED  BY <1>d, <2>1, <2>2, <2>4, <2>5 DEF FramesAreOpen
<1>7. CASE Finish  BY <1>7 DEF Finish, FramesAreOpen
<1>8. CASE Configure  BY <1>8 DEF Configure, FramesAreOpen
<1>9. CASE UNCHANGED walkVars  BY <1>0, <1>9 DEF walkVars, path, FramesAreOpen
<1> QED  BY <1>1, <1>2, <1>3, <1>4, <1>5, <1>6, <1>7, <1>8, <1>9 DEF AnyNext

(***************************************************************************)
(* Memory, and the bounds of buffers.                                      *)
(***************************************************************************)

\* The array grows to a positive size, and beyond the frames in use.
LEMMA Grown ==
    ASSUME TypeOK, BuffersFit, IsFull
    PROVE  NewCapacity \in Nat /\ NewCapacity > Len(frames)
<1>1. Len(frames) \in Nat /\ capacity \in Nat /\ Len(frames) <= capacity
  BY DEF TypeOK, BuffersFit
<1>2. InitialFrames \in Nat /\ InitialFrames > 0  BY WalkAssumption
<1> QED  BY <1>1, <1>2 DEF NewCapacity

LEMMA StepMemory ==
    ASSUME IInv, [AnyNext]_walkVars
    PROVE  MemoryAccounted'
<1>0. /\ saved = Len(frames) /\ stack = (capacity > 0)
      /\ pc = "idle" => saved = 0 /\ ~stack /\ capacity = 0
      /\ Len(frames) \in Nat /\ capacity \in Nat /\ Len(frames) <= capacity
  BY DEF IInv, MemoryAccounted, Control, BuffersFit, TypeOK
<1>1. ASSUME NEW source \in Numerals, NEW with \in BOOLEAN, NEW mute \in BOOLEAN,
             WalkBegins(source, with, mute)
      PROVE  MemoryAccounted'
  <2>1. pc' # "idle" /\ stack' = stack /\ saved' = saved /\ capacity' = 0
        /\ Len(frames') = 0 /\ pc = "idle"
    BY <1>1 DEF WalkBegins, heap
  <2>2. (capacity' > 0) = FALSE  BY <2>1
  <2>3. stack' = FALSE /\ saved' = 0  BY <1>0, <2>1
  <2> QED  BY <2>1, <2>2, <2>3 DEF MemoryAccounted
<1>2. ASSUME pc' # "idle", UNCHANGED <<frames, capacity, heap>>
      PROVE  MemoryAccounted'
  BY <1>0, <1>2 DEF MemoryAccounted, heap
<1>3. ASSUME NEW value \in Values, Argument(value) PROVE MemoryAccounted'
  BY <1>2, <1>3 DEF Argument, ArgumentOverLimit, ArgumentUnknown,
     ArgumentMismatch, ArgumentTaken, Fail, Go, path
<1>4. ASSUME NEW array \in BOOLEAN, Begin(array) PROVE MemoryAccounted'
  <2>1. CASE BeginOverLimit(array)
    BY <1>2, <2>1 DEF BeginOverLimit, Fail, path
  <2>2. ASSUME pc' # "idle", stack' = TRUE, saved' = Len(frames'),
               capacity' = IF IsFull THEN NewCapacity ELSE capacity
        PROVE  MemoryAccounted'
    <3>1. CASE IsFull
      <4>1. capacity' > 0
        BY <1>0, <2>2, <3>1, Grown DEF IInv
      <4>2. (capacity' > 0) = TRUE  BY <4>1
      <4> QED  BY <2>2, <4>2 DEF MemoryAccounted
    <3>2. CASE ~IsFull
      <4>1. capacity' > 0  BY <1>0, <2>2, <3>2 DEF IsFull
      <4>2. (capacity' > 0) = TRUE  BY <4>1
      <4> QED  BY <2>2, <4>2 DEF MemoryAccounted
    <3> QED  BY <3>1, <3>2
  <2>3. CASE BeginFails
    <3>1. CASE UNCHANGED <<capacity, stack>>
      BY <1>2, <2>3, <3>1 DEF BeginFails, Fail, heap
    <3>2. CASE stack' = TRUE /\ capacity' = IF IsFull THEN NewCapacity ELSE capacity
      <4>1. pc' # "idle" /\ saved' = Len(frames')
        BY <1>0, <2>3 DEF BeginFails, Fail
      <4> QED  BY <2>2, <3>2, <4>1
    <3> QED  BY <2>3, <3>1, <3>2 DEF BeginFails
  <2>4. CASE BeginSucceeds(array)
    <3>1. Len(frames') = Len(frames) + 1
      BY <2>4, PushedFrames DEF IInv
    <3>2. pc' # "idle" /\ stack' = TRUE /\ saved' = saved + 1
          /\ capacity' = IF IsFull THEN NewCapacity ELSE capacity
      BY <2>4 DEF BeginSucceeds, Go
    <3>3. saved' = Len(frames')  BY <1>0, <3>1, <3>2
    <3> QED  BY <2>2, <3>2, <3>3
  <2> QED  BY <1>4, <2>1, <2>3, <2>4 DEF Begin
<1>5. CASE Element  BY <1>2, <1>5 DEF Element, Go, path
<1>6. ASSUME NEW k \in Keys, Member(k) PROVE MemoryAccounted'
  BY <1>2, <1>6 DEF Member, Fail, Go
<1>7. CASE Pop
  <2>1. Len(frames') = Len(frames) - 1  BY <1>7, PoppedFrames DEF IInv
  <2>2. pc' # "idle" /\ stack' = stack /\ capacity' = capacity /\ saved' = saved - 1
    BY <1>7 DEF Pop, Go
  <2>3. saved' = Len(frames')  BY <1>0, <2>1, <2>2
  <2> QED  BY <1>0, <2>2, <2>3 DEF MemoryAccounted
<1>8. CASE Finish
  <2>1. Len(frames') = 0 /\ capacity' = 0 /\ stack' = FALSE /\ saved' = saved - Len(frames)
    BY <1>8 DEF Finish, Released
  <2>2. saved' = 0 /\ (capacity' > 0) = FALSE  BY <1>0, <2>1
  <2> QED  BY <2>1, <2>2 DEF MemoryAccounted
<1>9. CASE Configure \/ UNCHANGED walkVars
  BY <1>0, <1>9 DEF Configure, walkVars, path, heap, MemoryAccounted
<1> QED  BY <1>1, <1>3, <1>4, <1>5, <1>6, <1>7, <1>8, <1>9 DEF AnyNext

LEMMA StepBounds ==
    ASSUME IInv, TypeOK', [AnyNext]_walkVars
    PROVE  Boundaries' /\ BuffersFit'
<1>0. /\ TypeOK /\ Boundaries /\ BuffersFit
      /\ frames \in Seq(Frames) /\ Len(frames) \in Nat
      /\ prefix \in Seq(Byte) /\ Len(prefix) \in Nat
      /\ key \in Seq(Byte) /\ Len(key) \in Nat
      /\ JSON_STRING_SIZE \in Nat /\ Len(ArrayName) < JSON_STRING_SIZE
      /\ capacity \in Nat /\ Len(<<>>) = 0 /\ Len(ArrayName) \in Nat
  <2>1. TypeOK /\ Boundaries /\ BuffersFit  BY DEF IInv
  <2>2. /\ frames \in Seq(Frames) /\ prefix \in Seq(Byte) /\ key \in Seq(Byte)
        /\ capacity \in Nat
    BY <2>1 DEF TypeOK
  <2>3. ArrayName \in Seq(Byte) /\ Len(ArrayName) \in Nat  BY EventsAssumption
  <2>4. JSON_STRING_SIZE \in Nat /\ Len(ArrayName) < JSON_STRING_SIZE
    BY <2>3, WalkAssumption
  <2> QED  BY <2>1, <2>2, <2>3, <2>4
<1>1. ASSUME NEW source \in Numerals, NEW with \in BOOLEAN, NEW mute \in BOOLEAN,
             WalkBegins(source, with, mute)
      PROVE  Boundaries' /\ BuffersFit'
  <2>1. frames' = <<>> /\ prefix' = <<>> /\ key' = <<>> /\ capacity' = 0
    BY <1>1 DEF WalkBegins
  <2> QED  BY <1>0, <2>1 DEF Boundaries, BuffersFit
<1>2. ASSUME UNCHANGED path, pc' # "enter" \/ frames # <<>> \/ pc = "enter"
      PROVE  Boundaries' /\ BuffersFit'
  <2>1. frames' = frames /\ prefix' = prefix /\ key' = key /\ capacity' = capacity
    BY <1>2 DEF path
  <2>2. Boundaries'  BY <1>0, <1>2, <2>1 DEF Boundaries
  <2>3. BuffersFit'  BY <1>0, <2>1 DEF BuffersFit
  <2> QED  BY <2>2, <2>3
<1>3. ASSUME NEW value \in Values, Argument(value) PROVE Boundaries' /\ BuffersFit'
  BY <1>2, <1>3 DEF Argument, ArgumentOverLimit, ArgumentUnknown,
     ArgumentMismatch, ArgumentTaken, Fail, Go
<1>4. ASSUME NEW array \in BOOLEAN, Begin(array) PROVE Boundaries' /\ BuffersFit'
  <2>1. CASE BeginOverLimit(array)
    BY <1>2, <2>1 DEF BeginOverLimit, Fail
  <2>2. CASE BeginFails
    <3>1. UNCHANGED <<frames, prefix, key>> /\ pc' = "finish"
      BY <2>2 DEF BeginFails, Fail
    <3>2. capacity' \in {capacity, IF IsFull THEN NewCapacity ELSE capacity}
      BY <2>2 DEF BeginFails
    <3>3. Len(frames) <= capacity  BY <1>0 DEF BuffersFit
    <3>4. Len(frames) <= capacity'  BY <1>0, <3>2, <3>3, Grown
    <3>5. Boundaries'  BY <1>0, <3>1 DEF Boundaries
    <3> QED  BY <1>0, <3>1, <3>4, <3>5 DEF BuffersFit
  <2>3. CASE BeginSucceeds(array)
    <3> DEFINE n == Len(frames)
    <3>1. /\ Len(frames') = n + 1
          /\ \A i \in 1..n : frames'[i] = frames[i]
          /\ frames'[n + 1].prefix_before = Len(prefix)
          /\ frames'[n + 1].key = key
      BY <1>0, <2>3, PushedFrames
    <3>2. pc = "enter" /\ Fits(PrefixSize(array))
      BY <1>4, <2>3 DEF Begin, BeginSucceeds, BeginOverLimit, Fail, Go
    <3>3. n + 1 <= capacity'
      <4>1. capacity' = IF IsFull THEN NewCapacity ELSE capacity
        BY <2>3 DEF BeginSucceeds
      <4>2. CASE IsFull  BY <1>0, <4>1, <4>2, Grown
      <4>3. CASE ~IsFull  BY <1>0, <4>1, <4>3 DEF IsFull
      <4> QED  BY <4>2, <4>3
    <3>4. /\ Len(prefix') \in Nat /\ Len(prefix') < JSON_STRING_SIZE
          /\ Len(prefix) <= Len(prefix')
          /\ Len(key') \in Nat /\ Len(key') < JSON_STRING_SIZE
      <4>1. CASE RootArray(array)
        <5>1. prefix = <<>>  BY <1>0, <3>2, <4>1 DEF RootArray, Boundaries
        <5>2. prefix' = ArrayName /\ key' = ArrayName
          BY <2>3, <4>1 DEF BeginSucceeds
        <5> QED  BY <1>0, <5>1, <5>2
      <4>2. CASE ~RootArray(array)
        <5>1. prefix' = WrittenName /\ key' = key
          BY <2>3, <4>2 DEF BeginSucceeds
        <5>2. /\ WrittenName \in Seq(Byte) /\ Len(WrittenName) = NameLength
              /\ Len(prefix) <= Len(WrittenName)
          BY <1>0, WrittenNameLength
        <5>3. NameLength < JSON_STRING_SIZE
          BY <3>2, <4>2 DEF Fits, PrefixSize
        <5>4. Len(WrittenName) \in Nat  BY <5>2
        <5>5. Len(key) < JSON_STRING_SIZE  BY <1>0 DEF BuffersFit
        <5> QED  BY <1>0, <5>1, <5>2, <5>3, <5>4, <5>5
      <4> QED  BY <4>1, <4>2
    <3>5. BuffersFit'  BY <3>1, <3>3, <3>4 DEF BuffersFit
    <3>6. \A i \in 1..n : /\ frames[i].prefix_before \in Nat
                          /\ frames[i].prefix_before <= Len(prefix)
                          /\ Len(frames[i].key) < JSON_STRING_SIZE
      <4>1. \A i \in 1..n : frames[i] \in Frames  BY <1>0
      <4>2. \A i \in 1..n : frames[i].prefix_before \in Nat  BY <4>1 DEF Frames
      <4> QED  BY <1>0, <4>2 DEF Boundaries
    <3>7. \A i, j \in 1..n :
             i <= j => frames[i].prefix_before <= frames[j].prefix_before
      BY <1>0 DEF Boundaries
    <3>8. pc' # "enter"  BY <2>3 DEF BeginSucceeds, Go
    <3>9. Len(key) < JSON_STRING_SIZE /\ n \in Nat  BY <1>0 DEF BuffersFit
    <3> HIDE DEF n
    <3>10. ASSUME NEW i \in 1..(n + 1)
           PROVE  /\ frames'[i].prefix_before <= Len(prefix')
                  /\ Len(frames'[i].key) < JSON_STRING_SIZE
      <4>1. CASE i \in 1..n  BY <1>0, <3>1, <3>4, <3>6, <4>1
      <4>2. CASE i = n + 1  BY <1>0, <3>1, <3>4, <3>9, <4>2
      <4> QED  BY <3>9, <4>1, <4>2
    <3>11. ASSUME NEW i \in 1..(n + 1), NEW j \in 1..(n + 1), i <= j
           PROVE  frames'[i].prefix_before <= frames'[j].prefix_before
      <4>1. CASE j \in 1..n
        <5>1. i \in 1..n  BY <3>9, <3>11, <4>1
        <5> QED  BY <3>1, <3>7, <3>11, <4>1, <5>1
      <4>2. CASE j = n + 1 /\ i \in 1..n  BY <1>0, <3>1, <3>6, <4>2
      <4>3. CASE i = n + 1 /\ j = n + 1  BY <1>0, <3>1, <4>3
      <4> QED  BY <3>9, <3>11, <4>1, <4>2, <4>3
    <3>12. Boundaries'  BY <3>1, <3>8, <3>10, <3>11 DEF Boundaries
    <3> QED  BY <3>5, <3>12
  <2> QED  BY <1>4, <2>1, <2>2, <2>3 DEF Begin
<1>5. CASE Element  BY <1>2, <1>5 DEF Element
<1>6. ASSUME NEW k \in Keys, Member(k) PROVE Boundaries' /\ BuffersFit'
  <2>1. UNCHANGED <<frames, capacity, prefix>> /\ frames # <<>>
    BY <1>6 DEF Member
  <2>2. Len(key') < JSON_STRING_SIZE
    BY <1>0, <1>6 DEF Member, Fits, BuffersFit
  <2>3. Boundaries'  BY <1>0, <2>1 DEF Boundaries
  <2> QED  BY <1>0, <2>1, <2>2, <2>3 DEF BuffersFit
<1>7. CASE Pop
  <2> DEFINE n == Len(frames)
             m == Top.prefix_before
  <2>1. /\ n >= 1 /\ Len(frames') = n - 1
        /\ \A i \in 1..(n - 1) : frames'[i] = frames[i]
    BY <1>0, <1>7, PoppedFrames
  <2>2. n \in 1..n /\ Top = frames[n] /\ Top \in Frames /\ m \in Nat
    <3>1. n \in 1..n /\ Top = frames[n]  BY <1>0, <2>1 DEF Top
    <3>2. Top \in Frames  BY <1>0, <3>1
    <3> QED  BY <3>1, <3>2 DEF Frames
  <2>3. m <= Len(prefix) /\ Len(Top.key) < JSON_STRING_SIZE
    BY <1>0, <2>2 DEF Boundaries
  <2>4. prefix' = SubSeq(prefix, 1, m) /\ key' = Top.key /\ capacity' = capacity
        /\ pc' # "enter"
    BY <1>7 DEF Pop, Go
  <2>5. Len(prefix') = m
    <3>1. m \in 0..Len(prefix)  BY <1>0, <2>2, <2>3
    <3> HIDE DEF m
    <3> QED  BY <1>0, <2>4, <3>1
  <2>6. Len(prefix) < JSON_STRING_SIZE /\ n <= capacity  BY <1>0 DEF BuffersFit
  <2>7. BuffersFit'
    <3> HIDE DEF m, n
    <3>1. n \in Nat  BY <1>0 DEF n
    <3> QED  BY <1>0, <2>1, <2>2, <2>3, <2>4, <2>5, <2>6, <3>1 DEF BuffersFit
  <2>8. \A i \in 1..n : /\ frames[i].prefix_before <= m
                        /\ Len(frames[i].key) < JSON_STRING_SIZE
    BY <1>0, <2>2 DEF Boundaries
  <2>9. \A i, j \in 1..n :
           i <= j => frames[i].prefix_before <= frames[j].prefix_before
    BY <1>0 DEF Boundaries
  <2>10. n \in Nat  BY <1>0
  <2> HIDE DEF m, n
  <2>12. \A i \in 1..(n - 1) : i \in 1..n  BY <2>10
  <2>13. ASSUME NEW i \in 1..(n - 1)
         PROVE  /\ frames'[i].prefix_before <= Len(prefix')
                /\ Len(frames'[i].key) < JSON_STRING_SIZE
    BY <2>1, <2>5, <2>8, <2>12
  <2>14. ASSUME NEW i \in 1..(n - 1), NEW j \in 1..(n - 1), i <= j
         PROVE  frames'[i].prefix_before <= frames'[j].prefix_before
    BY <2>1, <2>9, <2>12, <2>14
  <2>11. Boundaries'
    BY <2>1, <2>4, <2>13, <2>14 DEF Boundaries
  <2> QED  BY <2>7, <2>11
<1>8. CASE Finish
  <2>1. frames' = <<>> /\ UNCHANGED <<prefix, key>> /\ capacity' = 0 /\ pc' # "enter"
    BY <1>8 DEF Finish
  <2> QED  BY <1>0, <2>1 DEF Boundaries, BuffersFit
<1>9. CASE Configure \/ UNCHANGED walkVars
  <2>1. UNCHANGED path /\ pc' = pc  BY <1>9 DEF Configure, walkVars
  <2> QED  BY <1>2, <2>1
<1> QED  BY <1>1, <1>3, <1>4, <1>5, <1>6, <1>7, <1>8, <1>9 DEF AnyNext

(***************************************************************************)
(* The numbers of the tree and the spans of the source.                    *)
(***************************************************************************)

\* Taking a span, once the kinds agree, keeps the numbers met in step.
LEMMA TakeSpanKeepsNumbers ==
    ASSUME TypeOK, NumbersMet, pc = "enter", use_numbers' = use_numbers,
           numbers' = numbers, NEW value \in Values, TakeSpan(value),
           FromSource(value) => ~Unexpected /\ ~Differs(value)
    PROVE  NumbersMet'
<1>0. /\ number_position \in Nat /\ numerals \in Seq(NumberKinds \ {NotNumber})
      /\ Len(numbers) \in Nat /\ Len(numerals) \in Nat
  BY DEF TypeOK
<1>1. CASE ~use_numbers  BY <1>1 DEF NumbersMet
<1>2. CASE use_numbers /\ ~IsNumber(value)
  <2>1. numerals' = numerals /\ number_position' = number_position
    BY <1>2 DEF TakeSpan, FromSource
  <2> QED  BY <1>2, <2>1 DEF NumbersMet
<1>3. CASE use_numbers /\ IsNumber(value)
  <2> DEFINE k == value.number_kind
             n == number_position
  <2>1. FromSource(value) /\ n < Len(numbers) /\ k \in {"any", NextSpan.kind}
    BY <1>0, <1>3 DEF FromSource, Unexpected, Differs
  <2>2. k \in NumberKinds \ {NotNumber}  BY <1>3 DEF Values, IsNumber
  <2>3. numerals' = Append(numerals, k) /\ number_position' = n + 1
    BY <1>3, <2>1 DEF TakeSpan
  <2>4. n = Len(numerals) /\ \A i \in 1..n : numerals[i] \in {"any", numbers[i].kind}
    BY <1>3 DEF NumbersMet
  <2>5. k \in {"any", numbers[n + 1].kind}  BY <2>1 DEF NextSpan
  <2> HIDE DEF k, n
  <2>6. /\ Len(numerals') = n + 1 /\ numerals'[n + 1] = k
        /\ \A i \in 1..n : numerals'[i] = numerals[i]
    BY <1>0, <2>2, <2>3, <2>4
  <2>7. n \in Nat  BY <1>0 DEF n
  <2>8. ASSUME NEW i \in 1..(n + 1)
        PROVE  numerals'[i] \in {"any", numbers[i].kind}
    <3>1. CASE i \in 1..n  BY <2>4, <2>6, <3>1
    <3>2. CASE i = n + 1  BY <2>5, <2>6, <3>2
    <3> QED  BY <2>7, <3>1, <3>2
  <2>9. n + 1 <= Len(numbers)  BY <1>0, <2>1, <2>7
  <2> QED  BY <1>3, <2>3, <2>6, <2>8, <2>9 DEF NumbersMet
<1> QED  BY <1>1, <1>2, <1>3

LEMMA StepNumbers ==
    ASSUME IInv, Control', [AnyNext]_walkVars
    PROVE  NumbersMet' /\ NumbersAligned'
<1>0. TypeOK /\ Control /\ NumbersMet /\ NumbersAligned  BY DEF IInv
<1>1. ASSUME NEW source \in Numerals, NEW with \in BOOLEAN, NEW mute \in BOOLEAN,
             WalkBegins(source, with, mute)
      PROVE  NumbersMet' /\ NumbersAligned'
  <2>1. /\ number_position' = 0 /\ numerals' = <<>> /\ numbers' = source
        /\ outcome' # "accepted"
    BY <1>1 DEF WalkBegins
  <2>2. source \in Seq([data : Data \ TooLong, kind : Kinds])  BY DEF Numerals
  <2>3. Len(source) \in Nat /\ Len(<<>>) = 0  BY <2>2
  <2> QED  BY <2>1, <2>3 DEF NumbersMet, NumbersAligned
<1>2. ASSUME outcome' # "accepted", pc' \in {"enter", "next"} => pc \in {"enter", "next"},
             UNCHANGED <<number_position, numerals, given>>
      PROVE  NumbersMet' /\ NumbersAligned'
  <2>1. /\ number_position' = number_position /\ numerals' = numerals
        /\ numbers' = numbers /\ use_numbers' = use_numbers
    BY <1>2 DEF given
  <2> QED  BY <1>0, <1>2, <2>1 DEF NumbersMet, NumbersAligned
<1>3. ASSUME pc' = "finish" PROVE NumbersMet' /\ NumbersAligned'
  <2>1. outcome' = "refused"  BY <1>3 DEF Control
  <2> QED  BY <1>3, <2>1 DEF NumbersMet, NumbersAligned
<1>4. ASSUME NEW value \in Values, Argument(value) PROVE NumbersMet' /\ NumbersAligned'
  <2>1. CASE pc' = "finish"  BY <1>3, <2>1
  <2>2. CASE ArgumentTaken(value) /\ Go("next")
    <3>1. pc = "enter" /\ UNCHANGED given /\ pc' = "next"
      BY <1>4, <2>2 DEF Argument, Go
    <3>2. TakeSpan(value) /\ (FromSource(value) => ~Unexpected /\ ~Differs(value))
      BY <2>2 DEF ArgumentTaken
    <3>3. NumbersMet'
      BY <1>0, <3>1, <3>2, TakeSpanKeepsNumbers DEF given
    <3>4. outcome' # "accepted"  BY <3>1 DEF Control
    <3> QED  BY <3>3, <3>4 DEF NumbersAligned
  <2> QED
    BY <1>4, <2>1, <2>2 DEF Argument, ArgumentOverLimit, ArgumentUnknown,
       ArgumentMismatch, ArgumentTaken, Fail
<1>5. ASSUME NEW array \in BOOLEAN, Begin(array) PROVE NumbersMet' /\ NumbersAligned'
  <2>1. CASE pc' = "finish"  BY <1>3, <2>1
  <2>2. CASE BeginSucceeds(array)
    <3>1. /\ pc' = "next" /\ pc = "enter" /\ UNCHANGED <<number_position, numerals, given>>
      BY <1>5, <2>2 DEF Begin, BeginSucceeds, Go, counts
    <3>2. outcome' # "accepted"  BY <3>1 DEF Control
    <3> QED  BY <1>2, <3>1, <3>2
  <2> QED  BY <1>5, <2>1, <2>2 DEF Begin, BeginOverLimit, BeginFails, Fail
<1>6. ASSUME Element \/ Pop PROVE NumbersMet' /\ NumbersAligned'
  <2>1. /\ pc' \in {"enter", "next"} /\ pc = "next"
        /\ UNCHANGED <<number_position, numerals, given>>
    BY <1>6 DEF Element, Pop, Go, counts
  <2>2. outcome' # "accepted"  BY <2>1 DEF Control
  <2> QED  BY <1>2, <2>1, <2>2
<1>7. ASSUME NEW k \in Keys, Member(k) PROVE NumbersMet' /\ NumbersAligned'
  <2>1. CASE pc' = "finish"  BY <1>3, <2>1
  <2>2. CASE Go("enter")
    <3>1. /\ pc' = "enter" /\ pc = "next" /\ UNCHANGED <<number_position, numerals, given>>
      BY <1>7, <2>2 DEF Member, Go
    <3>2. outcome' # "accepted"  BY <3>1 DEF Control
    <3> QED  BY <1>2, <3>1, <3>2
  <2> QED  BY <1>7, <2>1, <2>2 DEF Member, Fail
<1>8. CASE Finish
  <2>1. /\ pc' = "idle" /\ number_position' = number_position /\ numerals' = numerals
        /\ numbers' = numbers /\ use_numbers' = use_numbers
    BY <1>8 DEF Finish, counts, given
  <2>2. CASE outcome' # "accepted"  BY <2>1, <2>2 DEF NumbersMet, NumbersAligned
  <2>3. CASE outcome' = "accepted"
    <3>1. pc = "next" /\ (use_numbers => number_position = Len(numbers))
      BY <1>0, <1>8, <2>3 DEF Finish, Omitted, Control, told
    <3> QED  BY <1>0, <2>1, <3>1 DEF NumbersMet, NumbersAligned
  <2> QED  BY <2>2, <2>3
<1>9. CASE Configure \/ UNCHANGED walkVars
  <2>1. /\ pc' = pc /\ number_position' = number_position /\ numerals' = numerals
        /\ numbers' = numbers /\ use_numbers' = use_numbers /\ outcome' = outcome
    BY <1>9 DEF Configure, walkVars, counts, given, told
  <2> QED  BY <1>0, <2>1 DEF NumbersMet, NumbersAligned
<1> QED  BY <1>1, <1>4, <1>5, <1>6, <1>7, <1>8, <1>9 DEF AnyNext

(***************************************************************************)
(* Limits.                                                                 *)
(***************************************************************************)

LEMMA StepLimits ==
    ASSUME IInv, Control', [AnyNext]_walkVars
    PROVE  LimitsKept'
<1>0. /\ TypeOK /\ Control /\ LimitsKept
      /\ arguments \in Nat /\ Len(frames) \in Nat /\ Len(lines) \in Nat
      /\ limits.args \in Nat /\ limits.depth \in Nat
      /\ lines \in Seq([name : Seq(Byte), value : Data])
  BY DEF IInv, TypeOK
<1>1. ASSUME NEW source \in Numerals, NEW with \in BOOLEAN, NEW mute \in BOOLEAN,
             WalkBegins(source, with, mute)
      PROVE  LimitsKept'
  <2>1. Len(frames') = 0 /\ arguments' = 0 /\ Len(lines') = 0 /\ limits' = limits
    BY <1>1 DEF WalkBegins
  <2> QED  BY <1>0, <2>1 DEF LimitsKept
<1>2. ASSUME pc # "idle", UNCHANGED <<arguments, lines, limits, silence>>,
             Len(frames') <= limits.depth,
             reason' = reason \/ (pc # "finish" /\ (reason = None \/ Len(lines) = arguments))
      PROVE  LimitsKept'
  <2>1. reason = None => reason # "output"  BY DEF None
  <2> QED  BY <1>0, <1>2, <2>1 DEF LimitsKept
<1>i. pc \in {"enter", "next"} => reason = None  BY <1>0 DEF Control
<1>d. pc # "idle" => Len(frames) <= limits.depth  BY <1>0 DEF LimitsKept
<1>3. ASSUME NEW value \in Values, Argument(value) PROVE LimitsKept'
  <2>1. /\ pc = "enter" /\ Len(frames') = Len(frames)
        /\ limits' = limits /\ silence' = silence
    BY <1>3 DEF Argument, ArgumentOverLimit, ArgumentUnknown, ArgumentMismatch,
                ArgumentTaken, Fail, Go, given, path
  <2>2. Len(lines) = IF silence THEN 0 ELSE arguments
    BY <1>0, <1>i, <2>1 DEF LimitsKept, None
  <2>3. CASE UNCHANGED <<arguments, lines>>
    BY <1>2, <1>d, <1>i, <2>1, <2>3
  <2>4. ASSUME ~AtLimit(arguments, limits.args), arguments' = arguments + 1,
               \/ lines' = lines /\ (silence \/ reason' = "output")
               \/ Len(lines') = Len(lines) + 1 /\ ~silence
        PROVE  LimitsKept'
    <3>1. arguments' <= limits'.args  BY <1>0, <2>1, <2>4 DEF AtLimit
    <3>2. Len(frames') <= limits'.depth  BY <1>0, <1>d, <2>1
    <3> QED  BY <1>0, <2>1, <2>2, <2>4, <3>1, <3>2 DEF LimitsKept
  <2>5. CASE ArgumentTaken(value) /\ ~AtLimit(arguments, limits.args)
    <3>1. CASE Fail("value") /\ UNCHANGED arguments
      BY <2>3, <3>1 DEF Fail
    <3>2. CASE /\ arguments' = arguments + 1
               /\ lines' = IF silence THEN lines
                           ELSE Append(lines, [name |-> WrittenName,
                                               value |-> Text(value)])
      <4>1. CASE silence
        <5>1. lines' = lines  BY <3>2, <4>1
        <5> QED  BY <2>4, <2>5, <3>2, <4>1, <5>1
      <4>2. CASE ~silence
        <5>1. [name |-> WrittenName, value |-> Text(value)]
                  \in [name : Seq(Byte), value : Data]
          BY <1>0, <2>5, WrittenNameLength, TextType DEF ArgumentTaken
        <5>2. Len(lines') = Len(lines) + 1  BY <1>0, <3>2, <4>2, <5>1
        <5> QED  BY <2>4, <2>5, <3>2, <4>2, <5>2
      <4> QED  BY <4>1, <4>2
    <3>3. CASE arguments' = arguments + 1 /\ Fail("output")
      BY <2>4, <2>5, <3>3 DEF Fail
    <3> QED  BY <2>5, <3>1, <3>2, <3>3 DEF ArgumentTaken
  <2> QED
    BY <1>3, <2>3, <2>5 DEF Argument, ArgumentOverLimit, ArgumentUnknown,
       ArgumentMismatch, Fail, counts
<1>4. ASSUME NEW array \in BOOLEAN, Begin(array) PROVE LimitsKept'
  <2>1. pc = "enter" /\ UNCHANGED <<arguments, lines, limits, silence>>
    BY <1>4 DEF Begin, BeginOverLimit, BeginFails, BeginSucceeds, Fail, Go, given, counts
  <2>2. CASE frames' = frames  BY <1>2, <1>d, <1>i, <2>1, <2>2
  <2>3. CASE BeginSucceeds(array) /\ ~AtLimit(Len(frames), limits.depth)
    <3>1. Len(frames') = Len(frames) + 1  BY <1>0, <2>3, PushedFrames
    <3>2. Len(frames') <= limits.depth  BY <1>0, <2>3, <3>1 DEF AtLimit
    <3> QED  BY <1>2, <1>i, <2>1, <3>2
  <2> QED  BY <1>4, <2>2, <2>3 DEF Begin, BeginOverLimit, BeginFails, path
<1>5. CASE Element
  BY <1>2, <1>5, <1>d, <1>i DEF Element, Go, given, counts, path
<1>6. ASSUME NEW k \in Keys, Member(k) PROVE LimitsKept'
  BY <1>2, <1>6, <1>d, <1>i DEF Member, Fail, Go, given
<1>7. CASE Pop
  <2>1. Len(frames') = Len(frames) - 1  BY <1>0, <1>7, PoppedFrames
  <2>2. pc = "next" /\ UNCHANGED <<arguments, lines, limits, silence>>
    BY <1>7 DEF Pop, Go, given, counts
  <2>3. Len(frames') <= limits.depth  BY <1>0, <1>d, <2>1, <2>2
  <2> QED  BY <1>2, <1>i, <2>2, <2>3
<1>8. CASE Finish
  <2>1. Len(frames') = 0 /\ pc # "idle" /\ UNCHANGED <<arguments, lines, limits, silence>>
        /\ (pc = "finish" => reason' = reason)
    BY <1>8 DEF Finish, counts, given, told
  <2>2. pc # "finish" => reason = None  BY <1>8, <1>i DEF Finish
  <2> QED  BY <1>0, <1>2, <2>1, <2>2
<1>9. CASE Configure \/ UNCHANGED walkVars
  <2>1. /\ UNCHANGED <<arguments, lines, silence, reason, frames>> /\ pc' = pc
        /\ pc = "idle" \/ limits' = limits
    BY <1>9 DEF Configure, walkVars, path, counts, given, told
  <2> QED  BY <1>0, <2>1 DEF LimitsKept
<1> QED  BY <1>1, <1>3, <1>4, <1>5, <1>6, <1>7, <1>8, <1>9 DEF AnyNext

(***************************************************************************)
(* The path.  It is not inductive that the prefix is right now: a pop      *)
(* restores what the frames remember, so they have to be right as well.    *)
(***************************************************************************)

Before == [i \in 1..Len(frames) |-> frames[i].prefix_before]
SavedKeys == [i \in 1..Len(frames) |-> frames[i].key]

PathStands ==
    pc \in {"enter", "next"} =>
        /\ Stands(doc.open, prefix, key, Before, SavedKeys)
        /\ pc = "enter" => key = LabelOf(doc, FALSE)

\* The name that is written is the prefix joined with the key.
LEMMA WrittenNameIs ==
    ASSUME prefix \in Seq(Byte), key \in Seq(Byte)
    PROVE  WrittenName = JoinLabel(prefix, key)
<1>1. CASE prefix = <<>>
  BY <1>1 DEF WrittenName, JoinLabel
<1>2. CASE prefix # <<>>
  <2>1. <<Dot>> \in Seq(Byte) /\ Append(prefix, Dot) = prefix \o <<Dot>>
    BY EventsAssumption
  <2> QED
    BY <1>2, <2>1 DEF WrittenName, JoinLabel
<1> QED
  BY <1>1, <1>2

\* A push and a pop leave what the other frames remember.
LEMMA Remembered ==
    ASSUME Len(frames) \in Nat, Len(frames') \in Nat,
           NEW n \in Nat, n <= Len(frames), n <= Len(frames'),
           \A i \in 1..n : frames'[i] = frames[i]
    PROVE  \A i \in 1..n : Before'[i] = Before[i] /\ SavedKeys'[i] = SavedKeys[i]
BY DEF Before, SavedKeys

LEMMA StepPath ==
    ASSUME IInv, PathStands, [AnyNext]_walkVars
    PROVE  PathStands'
<1>0. /\ doc \in Positions /\ prefix \in Seq(Byte) /\ key \in Seq(Byte)
      /\ frames \in Seq(Frames) /\ Len(frames) \in Nat /\ Len(doc.open) \in Nat
      /\ TypeOK /\ FramesAreOpen
  BY DEF IInv, TypeOK, Positions
<1>1. ASSUME NEW source \in Numerals, NEW with \in BOOLEAN, NEW mute \in BOOLEAN,
             WalkBegins(source, with, mute)
      PROVE  PathStands'
  <2>1. doc' = Start /\ prefix' = <<>> /\ key' = <<>>
    BY <1>1 DEF WalkBegins
  <2>2. Stands(doc'.open, prefix', key', Before', SavedKeys')
    BY <2>1, StandsAtStart
  <2>3. key' = LabelOf(doc', FALSE)
    BY <2>1 DEF Start, LabelOf, InArray, InObject
  <2> QED
    BY <2>2, <2>3 DEF PathStands
<1>2. CASE pc' \in {"idle", "finish"}
  BY <1>2 DEF PathStands
<1>3. ASSUME NEW value \in Values, Argument(value) PROVE PathStands'
  <2>1. CASE pc' = "next" /\ UNCHANGED path /\ doc' = AfterValue(doc) /\ pc = "enter"
    <3>1. doc'.open = doc.open /\ Before' = Before /\ SavedKeys' = SavedKeys
      BY <1>0, <2>1, AfterValueType DEF path, Before, SavedKeys
    <3> QED
      BY <2>1, <3>1 DEF PathStands, path
  <2> QED
    BY <1>2, <1>3, <2>1 DEF Argument, ArgumentOverLimit, ArgumentUnknown,
       ArgumentMismatch, ArgumentTaken, Fail, Go
<1>4. ASSUME NEW array \in BOOLEAN, Begin(array) PROVE PathStands'
  <2>1. CASE BeginSucceeds(array)
    <3>1. /\ pc = "enter" /\ pc' = "next" /\ doc' = AfterOpen(doc, array)
          /\ prefix' = IF RootArray(array) THEN ArrayName ELSE WrittenName
          /\ key' = IF RootArray(array) THEN ArrayName ELSE key
      BY <1>4, <2>1 DEF Begin, BeginSucceeds, Go
    <3>2. Len(doc.open) = Len(frames) /\ (frames = <<>> <=> doc.open = <<>>)
      BY <1>0, <3>1 DEF FramesAreOpen, Positions
    <3>3. /\ Len(frames') = Len(frames) + 1
          /\ \A i \in 1..Len(frames) : frames'[i] = frames[i]
          /\ frames'[Len(frames) + 1].prefix_before = Len(prefix)
          /\ frames'[Len(frames) + 1].key = key
      BY <1>0, <2>1, PushedFrames
    <3>4. \A i \in 1..Len(doc.open) : Before'[i] = Before[i] /\ SavedKeys'[i] = SavedKeys[i]
      <4>1. Len(frames') \in Nat /\ Len(frames) <= Len(frames) /\ Len(frames) <= Len(frames')
        BY <1>0, <3>3
      <4> QED
        BY <1>0, <3>2, <3>3, <4>1, Remembered
    <3>5. /\ Before'[Len(doc.open) + 1] = Len(prefix)
          /\ SavedKeys'[Len(doc.open) + 1] = key
      BY <1>0, <3>2, <3>3 DEF Before, SavedKeys
    <3>6. Stands(doc.open, prefix, key, Before, SavedKeys) /\ key = LabelOf(doc, FALSE)
      BY <3>1 DEF PathStands
    <3>7. WrittenName = JoinLabel(prefix, key) /\ (RootArray(array) = (array /\ doc.open = <<>>))
      BY <1>0, <3>2, WrittenNameIs DEF RootArray
    <3>8. /\ array /\ doc.open = <<>> => prefix' = ArrayName /\ key' = ArrayName
          /\ ~(array /\ doc.open = <<>>) => prefix' = JoinLabel(prefix, key) /\ key' = key
      BY <3>1, <3>7
    <3>9. Stands(AfterOpen(doc, array).open, prefix', key', Before', SavedKeys')
      BY <1>0, <3>4, <3>5, <3>6, <3>8, PushStands
    <3> QED
      BY <3>1, <3>9 DEF PathStands
  <2> QED
    BY <1>2, <1>4, <2>1 DEF Begin, BeginOverLimit, BeginFails, Fail
<1>5. CASE Element
  <2>1. /\ pc = "next" /\ frames # <<>> /\ Top.array
        /\ UNCHANGED path /\ doc' = doc
    BY <1>5 DEF Element
  <2>2. InArray(doc)
    BY <1>0, <2>1 DEF FramesAreOpen, InArray, Top
  <2>3. Stands(doc.open, prefix, key, Before, SavedKeys)
    BY <2>1 DEF PathStands
  <2>4. key = LabelOf(doc, FALSE)
    BY <2>2, <2>3, KeyThere
  <2>5. Before' = Before /\ SavedKeys' = SavedKeys /\ prefix' = prefix /\ key' = key
    BY <2>1 DEF path, Before, SavedKeys
  <2> QED
    BY <2>1, <2>3, <2>4, <2>5 DEF PathStands
<1>6. ASSUME NEW k \in Keys, Member(k) PROVE PathStands'
  <2>1. CASE /\ pc = "next" /\ frames # <<>> /\ ~Top.array
             /\ UNCHANGED <<frames, prefix>> /\ key' = k /\ doc' = AfterKey(doc, k)
    <3>1. k \in Seq(Byte)
      BY WalkAssumption
    <3>2. /\ doc.open # <<>> /\ ~doc.open[Len(doc.open)].array
          /\ InObject(doc) /\ ~InArray(doc)
      BY <1>0, <2>1 DEF FramesAreOpen, InArray, InObject, Top
    <3>3. doc'.open = doc.open /\ doc'.member = k
      BY <1>0, <2>1, <3>1, AfterKeyType DEF AfterKey, Positions
    <3>4. InObject(doc') /\ ~InArray(doc')
      BY <3>2, <3>3 DEF InArray, InObject
    <3>5. LabelOf(doc', FALSE) = k
      <4>1. doc'.open # <<>>
        BY <3>2, <3>3
      <4> QED
        BY <3>3, <3>4, <4>1 DEF LabelOf
    <3>6. Stands(doc.open, prefix, k, Before, SavedKeys)
      <4>1. Stands(doc.open, prefix, key, Before, SavedKeys)
        BY <2>1 DEF PathStands
      <4> QED
        BY <3>2, <4>1, KeyStands
    <3>7. Before' = Before /\ SavedKeys' = SavedKeys
      BY <2>1 DEF Before, SavedKeys
    <3> QED
      BY <2>1, <3>3, <3>5, <3>6, <3>7 DEF PathStands
  <2> QED
    BY <1>2, <1>6, <2>1 DEF Member, Fail
<1>7. CASE Pop
  <2>1. /\ pc = "next" /\ pc' = "next" /\ frames # <<>>
        /\ prefix' = SubSeq(prefix, 1, Top.prefix_before) /\ key' = Top.key
        /\ doc' = AfterClose(doc)
    BY <1>7 DEF Pop, Go
  <2>2. Len(frames) = Len(doc.open) /\ Len(frames) >= 1
        /\ Len(frames') = Len(frames) - 1
        /\ \A i \in 1..Len(frames') : frames'[i] = frames[i]
    BY <1>0, <1>7, <2>1, PoppedFrames DEF FramesAreOpen
  <2>3. \A i \in 1..Len(frames') : Before'[i] = Before[i] /\ SavedKeys'[i] = SavedKeys[i]
    <3>1. Len(frames') \in Nat /\ Len(frames') <= Len(frames) /\ Len(frames') <= Len(frames')
      BY <1>0, <2>2
    <3> QED
      BY <1>0, <2>2, <3>1, Remembered
  <2>4. Before[Len(frames)] = Top.prefix_before /\ SavedKeys[Len(frames)] = Top.key
    BY <1>0, <2>2 DEF Before, SavedKeys, Top
  <2>5. Stands(doc.open, prefix, key, Before, SavedKeys) /\ doc.open # <<>>
    BY <1>0, <2>1, <2>2 DEF PathStands
  <2>6. Stands(AfterClose(doc).open, SubSeq(prefix, 1, Before[Len(doc.open)]),
               SavedKeys[Len(doc.open)], Before', SavedKeys')
    BY <1>0, <2>2, <2>3, <2>5, PopStands
  <2> QED
    BY <2>1, <2>2, <2>4, <2>6 DEF PathStands
<1>8. CASE Finish
  BY <1>2, <1>8 DEF Finish
<1>9. CASE Configure
  BY <1>2, <1>9 DEF Configure
<1>10. CASE UNCHANGED walkVars
  <2>1. UNCHANGED <<pc, doc, frames, prefix, key>>
    BY <1>10 DEF walkVars, path
  <2>2. Before' = Before /\ SavedKeys' = SavedKeys
    BY <2>1 DEF Before, SavedKeys
  <2> QED
    BY <2>1, <2>2 DEF PathStands
<1> QED
  BY <1>1, <1>3, <1>4, <1>5, <1>6, <1>7, <1>8, <1>9, <1>10 DEF AnyNext

(***************************************************************************)
(* Theorems.                                                               *)
(***************************************************************************)

\* The parts together.
LEMMA StepIInv ==
    ASSUME IInv, [AnyNext]_walkVars
    PROVE  IInv'
BY StepTypes, StepControl, StepFrames, StepMemory, StepBounds, StepNumbers,
   StepLimits DEF IInv

\* In every reachable state of every walk, whatever the tree.
THEOREM InductiveInvariant == Spec => []IInv
<1>1. IInv /\ [Next]_walkVars => IInv'
  BY NextIsAny, StepIInv
<1> QED  BY <1>1, InitIInv, PTL DEF Spec

\* The state of a walk is well typed.
THEOREM TypeCorrect == Spec => []TypeOK
<1>1. IInv => TypeOK  BY DEF IInv
<1> QED  BY <1>1, InductiveInvariant, PTL

\* The frames are the open containers, so no element is taken for a member and
\* no container is left twice.
THEOREM FramesCorrect == Spec => []FramesAreOpen
<1>1. IInv => FramesAreOpen  BY DEF IInv
<1> QED  BY <1>1, InductiveInvariant, PTL

\* Every way out of a walk frees the frame array and each saved key, and the
\* prefix, the key and the frames are never written out of bounds, whatever
\* the keys, the depth and the size of the buffers.
THEOREM MemoryCorrect == Spec => []MemorySafe
<1>1. IInv => MemorySafe  BY DEF IInv, MemorySafe
<1> QED  BY <1>1, InductiveInvariant, PTL

\* A walk with spans that succeeds has met one number for each span, of its
\* kind, whatever tree the library has built.
THEOREM NumbersCorrect == Spec => []NumbersAligned
<1>1. IInv => NumbersAligned  BY DEF IInv
<1> QED  BY <1>1, InductiveInvariant, PTL

\* No limit is ever passed, and what is counted is what is printed.
THEOREM LimitsCorrect == Spec => []LimitsKept
<1>1. IInv => LimitsKept  BY DEF IInv
<1> QED  BY <1>1, InductiveInvariant, PTL

\* The prefix that is cut and extended in place is the dotted path of the open
\* containers, and a value's key is the label of its position: at any depth and
\* with any keys, nothing of a sibling or of a branch that was left remains.
THEOREM PathCorrect == Spec => []PathIsPosition
<1>1. Init => PathStands
  BY DEF Init, PathStands
<1>2. IInv /\ PathStands /\ [Next]_walkVars => PathStands'
  BY StepPath, NextIsAny
<1>3. IInv /\ PathStands => PathIsPosition
  <2> SUFFICES ASSUME IInv, PathStands PROVE PathIsPosition
    OBVIOUS
  <2>1. FramesAreOpen
    BY DEF IInv
  <2>2. pc \in {"enter", "next"} => prefix = Display(OpenLabels(doc))
    BY PrefixThere DEF PathStands
  <2> QED
    BY <2>1, <2>2 DEF PathStands, PathIsPosition
<1> QED
  BY <1>1, <1>2, <1>3, InductiveInvariant, PTL DEF Spec

(***************************************************************************)
(* The walk implements ArgumentExtraction.                                 *)
(***************************************************************************)

\* The instance speaks of the same positions and names.
LEMMA SameEvents ==
    /\ Extraction!Start = Start
    /\ \A d : /\ Extraction!WantsKey(d) = WantsKey(d)
              /\ Extraction!WantsValue(d) = WantsValue(d)
              /\ Extraction!IsWhole(d) = IsWhole(d)
              /\ Extraction!InArray(d) = InArray(d)
              /\ Extraction!InObject(d) = InObject(d)
BY DEF Extraction!Start, Start, Extraction!WantsKey, WantsKey,
       Extraction!WantsValue, WantsValue, Extraction!IsWhole, IsWhole,
       Extraction!InArray, InArray, Extraction!InObject, InObject

LEMMA SameLabel == \A d, array : Extraction!LabelOf(d, array) = LabelOf(d, array)
BY SameEvents DEF Extraction!LabelOf, LabelOf

LEMMA SameDisplay == \A labels : Extraction!Display(labels) = Display(labels)
BY DEF Extraction!Display, Display, Extraction!JoinLabel, JoinLabel

LEMMA SameSteps ==
    \A d : /\ Extraction!MayClose(d) = MayClose(d)
           /\ Extraction!AfterValue(d) = AfterValue(d)
           /\ Extraction!AfterClose(d) = AfterClose(d)
           /\ \A k : Extraction!AfterKey(d, k) = AfterKey(d, k)
           /\ \A array : Extraction!AfterOpen(d, array) = AfterOpen(d, array)
BY SameEvents, SameLabel
   DEF Extraction!MayClose, MayClose, Extraction!AfterValue, AfterValue,
       Extraction!AfterClose, AfterClose, Extraction!AfterKey, AfterKey,
       Extraction!AfterOpen, AfterOpen

LEMMA SameNames ==
    \A d : /\ Extraction!ArgumentName(d) = ArgumentName(d)
           /\ \A array : Extraction!ContainerName(d, array) = ContainerName(d, array)
BY SameLabel, SameDisplay
   DEF Extraction!ArgumentName, ArgumentName, Extraction!ContainerName, ContainerName,
       Extraction!OpenLabels, OpenLabels


\* What the contract sees of the lines.
Named == [i \in 1..Len(lines) |-> lines[i].name]

Lines == [name : Seq(Byte), value : Data]

LEMMA NamedGrows ==
    ASSUME lines \in Seq(Lines), NEW l \in Lines, lines' = Append(lines, l)
    PROVE  Named' = Append(Named, l.name)
<1>1. /\ Len(lines) \in Nat /\ Len(lines') = Len(lines) + 1
      /\ \A i \in 1..Len(lines) : lines'[i] = lines[i] /\ lines[i] \in Lines
      /\ lines'[Len(lines) + 1] = l
  OBVIOUS
<1>2. Named \in Seq(Seq(Byte)) /\ Len(Named) = Len(lines)
  BY <1>1 DEF Named, Lines
<1>3. Named' \in Seq(Seq(Byte)) /\ Len(Named') = Len(lines) + 1
  BY <1>1 DEF Named, Lines
<1>4. l.name \in Seq(Byte)
  BY DEF Lines
<1>5. /\ Append(Named, l.name) \in Seq(Seq(Byte))
      /\ Len(Append(Named, l.name)) = Len(lines) + 1
      /\ Append(Named, l.name)[Len(lines) + 1] = l.name
      /\ \A i \in 1..Len(lines) : Append(Named, l.name)[i] = Named[i]
  <2> DEFINE n == Named
  <2> HIDE DEF n
  <2>1. n \in Seq(Seq(Byte)) /\ Len(n) = Len(lines)
    BY <1>2 DEF n
  <2>2. /\ Append(n, l.name) \in Seq(Seq(Byte))
        /\ Len(Append(n, l.name)) = Len(lines) + 1
        /\ Append(n, l.name)[Len(lines) + 1] = l.name
        /\ \A i \in 1..Len(lines) : Append(n, l.name)[i] = n[i]
    BY <1>1, <1>4, <2>1
  <2> QED
    BY <2>2 DEF n
<1>6. \A i \in 1..Len(lines) + 1 : Named'[i] = Append(Named, l.name)[i]
  <2>1. /\ \A i \in 1..Len(lines) : Named[i] = lines[i].name
        /\ \A i \in 1..Len(lines) + 1 : Named'[i] = lines'[i].name
    BY <1>1 DEF Named
  <2> QED
    BY <1>1, <1>5, <2>1
<1> QED
  BY <1>3, <1>5, <1>6, SeqEqual

\* What is due when the loop looks for the next child.
Due ==
    pc = "next" => /\ InObject(doc) => WantsKey(doc)
                   /\ doc.open = <<>> => IsWhole(doc)

\* Behind a value, a new container or a closed one.
LEMMA DueBehindValue ==
    ASSUME NEW d \in Positions
    PROVE  /\ InObject(AfterValue(d)) => WantsKey(AfterValue(d))
           /\ AfterValue(d).open = <<>> => IsWhole(AfterValue(d))
<1> DEFINE e == AfterValue(d)
<1>1. e.open = d.open /\ e.next = IF d.open = <<>> THEN "end"
                                  ELSE IF InArray(d) THEN "value" ELSE "key"
  BY AfterValueType DEF AfterValue, Positions
<1> HIDE DEF e
<1>2. /\ InObject(e) => WantsKey(e)
      /\ e.open = <<>> => IsWhole(e)
  BY <1>1 DEF WantsKey, IsWhole, InArray, InObject
<1> QED
  BY <1>2 DEF e

LEMMA DueBehindClose ==
    ASSUME NEW d \in Positions, d.open # <<>>
    PROVE  /\ InObject(AfterClose(d)) => WantsKey(AfterClose(d))
           /\ AfterClose(d).open = <<>> => IsWhole(AfterClose(d))
<1> DEFINE s == SubSeq(d.open, 1, Len(d.open) - 1)
           f == [d EXCEPT !.open = s]
<1>1. s \in Seq(Containers)
  BY DEF Positions
<1> HIDE DEF s
<1>2. f \in Positions
  BY <1>1 DEF Positions
<1>3. AfterClose(d) = AfterValue(f)
  BY DEF AfterClose, s
<1> HIDE DEF f
<1> QED
  BY <1>2, <1>3, DueBehindValue

LEMMA DueInside ==
    ASSUME NEW d \in Positions, NEW array \in BOOLEAN
    PROVE  /\ InObject(AfterOpen(d, array)) => WantsKey(AfterOpen(d, array))
           /\ AfterOpen(d, array).open # <<>>
<1> DEFINE e == AfterOpen(d, array)
<1>1. e.next = IF array THEN "value" ELSE "key"
  BY DEF AfterOpen
<1>2. /\ e \in Positions /\ Len(e.open) = Len(d.open) + 1
      /\ e.open[Len(d.open) + 1].array = array /\ Len(d.open) \in Nat
  BY AfterOpenType DEF Positions
<1> HIDE DEF e
<1>3. e.open # <<>> /\ (InObject(e) => WantsKey(e))
  <2>1. e.open # <<>>
    BY <1>2 DEF Positions
  <2>2. InObject(e) => ~array
    BY <1>2 DEF InObject
  <2> QED
    BY <1>1, <2>1, <2>2 DEF WantsKey
<1> QED
  BY <1>3 DEF e

LEMMA StepDue ==
    ASSUME IInv, Due, [Next]_walkVars
    PROVE  Due'
<1>0. doc \in Positions /\ FramesAreOpen /\ frames \in Seq(Frames)
  BY DEF IInv, TypeOK
<1>1. ASSUME pc' # "next" PROVE Due'
  BY <1>1 DEF Due
<1>2. ASSUME NEW value \in Values, Argument(value) PROVE Due'
  <2>1. CASE doc' = AfterValue(doc)
    BY <1>0, <2>1, DueBehindValue DEF Due
  <2>2. CASE doc' # AfterValue(doc)
    <3>1. \E why \in Reasons \cup Limits : Fail(why)
      BY <1>2, <2>2 DEF Argument, ArgumentOverLimit, ArgumentUnknown,
         ArgumentMismatch, ArgumentTaken, Reasons, Limits
    <3> QED
      BY <1>1, <3>1 DEF Fail
  <2> QED
    BY <2>1, <2>2
<1>3. ASSUME NEW array \in BOOLEAN, Begin(array) PROVE Due'
  <2>1. CASE BeginSucceeds(array)
    <3>1. doc' = AfterOpen(doc, array)
      BY <2>1 DEF BeginSucceeds
    <3> QED
      BY <1>0, <3>1, DueInside DEF Due
  <2>2. CASE BeginOverLimit(array) \/ BeginFails
    <3>1. Fail("depth") \/ Fail("name") \/ Fail("memory")
      BY <2>2 DEF BeginOverLimit, BeginFails
    <3> QED
      BY <1>1, <3>1 DEF Fail
  <2> QED
    BY <1>3, <2>1, <2>2 DEF Begin
<1>4. CASE Pop
  <2>1. doc' = AfterClose(doc) /\ doc.open # <<>>
    <3>1. doc' = AfterClose(doc) /\ frames # <<>> /\ pc = "next"
      BY <1>4 DEF Pop
    <3>2. Len(frames) = Len(doc.open) /\ doc.open \in Seq(Containers)
      BY <1>0, <3>1 DEF FramesAreOpen, Positions
    <3> QED
      BY <1>0, <3>1, <3>2
  <2> QED
    BY <1>0, <2>1, DueBehindClose DEF Due
<1>5. CASE Configure \/ UNCHANGED walkVars
  <2>1. pc' = pc /\ doc' = doc
    BY <1>5 DEF Configure, walkVars
  <2> QED
    BY <2>1 DEF Due
<1>6. ASSUME Element \/ Finish \/ (\E k \in Keys : Member(k))
             \/ \E source \in Sources, with, mute \in BOOLEAN :
                   WalkBegins(source, with, mute)
      PROVE  pc' # "next"
  BY <1>6 DEF Element, Finish, Member, WalkBegins, Go, Fail
<1> QED
  BY <1>1, <1>2, <1>3, <1>4, <1>5, <1>6 DEF Next

\* The name that is written is the name of the position, and the length that is
\* checked is the length of that name.
LEMMA NamesHere ==
    ASSUME TypeOK, FramesAreOpen, PathStands, pc = "enter", NEW array \in BOOLEAN
    PROVE  /\ ArgumentName(doc) = WrittenName
           /\ ContainerName(doc, FALSE) = WrittenName
           /\ Len(ContainerName(doc, array)) = PrefixSize(array)
<1>0. /\ prefix \in Seq(Byte) /\ key \in Seq(Byte) /\ doc \in Positions
      /\ prefix = Display(OpenLabels(doc)) /\ key = LabelOf(doc, FALSE)
      /\ doc.open \in Seq(Containers) /\ Len(frames) = Len(doc.open)
      /\ frames \in Seq(Frames)
  BY PrefixThere DEF TypeOK, PathStands, Positions, FramesAreOpen
<1>1. OpenLabels(doc) \in Seq(Seq(Byte))
  <2>1. \A i \in 1..Len(doc.open) : doc.open[i] \in Containers
    BY <1>0
  <2>2. Len(doc.open) \in Nat /\ \A i \in 1..Len(doc.open) : doc.open[i].label \in Seq(Byte)
    BY <1>0, <2>1 DEF Containers
  <2> QED
    BY <2>2 DEF OpenLabels
<1>2. ASSUME NEW a \in BOOLEAN
      PROVE  ContainerName(doc, a) = JoinLabel(prefix, LabelOf(doc, a))
  BY <1>0, <1>1, LabelType, DisplayGrows DEF ContainerName
<1>3. ContainerName(doc, FALSE) = WrittenName /\ ArgumentName(doc) = ContainerName(doc, FALSE)
  BY <1>0, <1>2, WrittenNameIs DEF ArgumentName, ContainerName
<1>4. CASE RootArray(array)
  <2>1. array /\ doc.open = <<>>
    BY <1>0, <1>4 DEF RootArray
  <2>2. OpenLabels(doc) = <<>>
    BY <1>1, <2>1 DEF OpenLabels
  <2>3. prefix = <<>> /\ LabelOf(doc, array) = ArrayName
    BY <1>0, <2>1, <2>2, DisplayGrows DEF LabelOf, InArray, InObject
  <2> QED
    <3>1. ContainerName(doc, array) = JoinLabel(prefix, LabelOf(doc, array))
      BY <1>2
    <3>2. ContainerName(doc, array) = ArrayName
      BY <2>3, <3>1 DEF JoinLabel
    <3>3. PrefixSize(array) = Len(ArrayName)
      BY <1>4, Zenon DEF PrefixSize
    <3> QED
      BY <1>3, <3>2, <3>3
<1>5. CASE ~RootArray(array)
  <2>1. ~array \/ doc.open # <<>>
    BY <1>0, <1>5 DEF RootArray
  <2>2. LabelOf(doc, array) = LabelOf(doc, FALSE)
    <3>1. CASE doc.open # <<>>
      BY <3>1 DEF LabelOf, InArray, InObject
    <3>2. CASE array = FALSE
      BY <3>2
    <3> QED
      BY <2>1, <3>1, <3>2
  <2>3. ContainerName(doc, array) = WrittenName
    BY <1>2, <1>3, <2>2
  <2>4. Len(WrittenName) = NameLength
    BY WrittenNameLength
  <2>5. PrefixSize(array) = NameLength
    BY <1>5, Zenon DEF PrefixSize
  <2> QED
    BY <1>3, <2>3, <2>4, <2>5
<1> QED
  BY <1>3, <1>4, <1>5


\* A failure with its ground is a refusal of the contract.
LEMMA FailRefuses ==
    ASSUME Control, pc \in {"enter", "next"}, NEW why, Fail(why),
           why \in Reasons \cup Limits, Extraction!Justified(why),
           arguments' \in IF why = "output" THEN {arguments, arguments + 1}
                          ELSE {arguments}
    PROVE  Extraction!ExtractionNext
<1>1. /\ outcome = "open" /\ outcome' = "refused" /\ reason' = why
      /\ UNCHANGED <<doc, limits, silence>> /\ lines' = lines
  BY DEF Control, Fail, given
<1>2. Extraction!Refuse(why)
  BY <1>1 DEF Extraction!Refuse
<1> QED
  BY <1>2 DEF Extraction!ExtractionNext, Reasons, Limits

LEMMA StepImplements ==
    ASSUME IInv, PathStands, Due, [Next]_walkVars
    PROVE  [Extraction!ExtractionNext]_(Extraction!extractionVars)
<1>0. /\ TypeOK /\ Control /\ FramesAreOpen
      /\ arguments \in Nat /\ silence \in BOOLEAN /\ doc \in Positions
      /\ limits.depth \in Nat /\ limits.args \in Nat /\ JSON_STRING_SIZE \in Nat
      /\ frames \in Seq(Frames) /\ lines \in Seq(Lines)
  BY WalkAssumption DEF IInv, TypeOK, Lines
<1>1. ASSUME UNCHANGED <<doc, limits, silence, arguments, lines, outcome, reason>>
      PROVE  UNCHANGED Extraction!extractionVars
  BY <1>1 DEF Extraction!extractionVars
<1>r. ASSUME NEW why \in Reasons PROVE Extraction!Justified(why)
  BY DEF Extraction!Justified
<1>2. ASSUME NEW source \in Sources, NEW with \in BOOLEAN, NEW mute \in BOOLEAN,
             WalkBegins(source, with, mute)
      PROVE  Extraction!ExtractionNext
  <2>1. /\ doc' = Start /\ arguments' = 0 /\ lines' = <<>> /\ outcome' = "open"
        /\ reason' = "none" /\ silence' \in BOOLEAN /\ limits' = limits
    BY <1>2 DEF WalkBegins, None
  <2>2. [i \in 1..Len(lines') |-> lines'[i].name] = <<>>
    BY <2>1
  <2>3. Extraction!NewDocument
    BY <2>1, <2>2, SameEvents DEF Extraction!NewDocument, Extraction!Fresh
  <2> QED
    BY <2>3 DEF Extraction!ExtractionNext
<1>3. ASSUME NEW value \in Values, Argument(value) PROVE Extraction!ExtractionNext
  <2>0. /\ pc = "enter" /\ WantsValue(doc) /\ outcome = "open"
        /\ Extraction!WantsValue(doc)
    BY <1>0, <1>3, SameEvents DEF Argument, Control
  <2>1. /\ Extraction!ArgumentName(doc) = WrittenName
        /\ Extraction!ContainerName(doc, FALSE) = WrittenName
    <3>1. ArgumentName(doc) = WrittenName /\ ContainerName(doc, FALSE) = WrittenName
      BY <1>0, <2>0, NamesHere
    <3> QED
      BY <3>1, SameNames
  <2>2. WrittenName \in Seq(Byte) /\ Len(WrittenName) = NameLength /\ NameLength \in Nat
    <3>1. WrittenName \in Seq(Byte) /\ Len(WrittenName) = NameLength
      BY <1>0, WrittenNameLength
    <3>2. Len(WrittenName) \in Nat
      BY <3>1
    <3> QED
      BY <3>1, <3>2
  <2>3. CASE AtLimit(arguments, limits.args) /\ Fail("arguments") /\ UNCHANGED arguments
    <3>1. Extraction!Justified("arguments")
      BY <2>0, <2>3 DEF AtLimit, Extraction!Justified
    <3> QED
      BY <1>0, <2>0, <2>3, <3>1, FailRefuses DEF Limits
  <2>4. CASE ~Fits(NameLength) /\ Fail("name") /\ UNCHANGED arguments
    <3>1. Len(WrittenName) >= JSON_STRING_SIZE
      BY <1>0, <2>2, <2>4 DEF Fits
    <3>2. Extraction!Justified("name")
      BY <2>0, <2>1, <3>1 DEF Extraction!Justified
    <3> QED
      BY <1>0, <2>0, <2>4, <3>2, FailRefuses DEF Limits
  <2>5. CASE Fail("value") /\ UNCHANGED arguments
    <3>1. Extraction!Justified("value")
      BY <2>0 DEF Extraction!Justified
    <3> QED
      BY <1>0, <2>0, <2>5, <3>1, FailRefuses DEF Limits
  <2>6. CASE (Fail("native") \/ Fail("numbers")) /\ UNCHANGED arguments
    BY <1>0, <1>r, <2>0, <2>6, FailRefuses DEF Reasons
  <2>7. CASE Fail("output") /\ arguments' = arguments + 1
    BY <1>0, <1>r, <2>0, <2>7, FailRefuses DEF Reasons
  <2>8. CASE /\ ~AtLimit(arguments, limits.args) /\ Fits(NameLength)
             /\ arguments' = arguments + 1
             /\ doc' = AfterValue(doc)
             /\ lines' = IF silence THEN lines
                         ELSE Append(lines, [name |-> WrittenName,
                                             value |-> Text(value)])
             /\ Go("next") /\ Text(value) \in Data
    <3>1. /\ arguments < limits.args /\ Len(WrittenName) < JSON_STRING_SIZE
          /\ UNCHANGED <<limits, silence, outcome, reason>>
      BY <1>0, <2>2, <2>8 DEF AtLimit, Fits, Go, given, told
    <3>2. Named' = IF silence THEN Named ELSE Append(Named, WrittenName)
      <4>1. CASE silence
        BY <2>8, <4>1 DEF Named
      <4>2. CASE ~silence
        <5> DEFINE l == [name |-> WrittenName, value |-> Text(value)]
        <5>1. l \in Lines /\ lines' = Append(lines, l) /\ l.name = WrittenName
          BY <2>2, <2>8, <4>2 DEF Lines
        <5> HIDE DEF l
        <5>2. Named' = Append(Named, l.name)
          BY <1>0, <5>1, NamedGrows
        <5> QED
          BY <4>2, <5>1, <5>2
      <4> QED
        BY <4>1, <4>2
    <3>3. Extraction!Scalar
      BY <2>0, <2>1, <2>8, <3>1, <3>2, SameSteps DEF Extraction!Scalar, Named
    <3> QED
      BY <3>3 DEF Extraction!ExtractionNext
  <2>9. CASE ArgumentOverLimit
    BY <2>3, <2>4, <2>9 DEF ArgumentOverLimit, counts
  <2>10. CASE ArgumentUnknown \/ ArgumentMismatch(value)
    BY <2>6, <2>10 DEF ArgumentUnknown, ArgumentMismatch, counts
  <2>11. CASE /\ ~AtLimit(arguments, limits.args) /\ Fits(NameLength)
              /\ ArgumentTaken(value)
    <3>1. Text(value) \in Data
      BY <1>0, <2>11, TextType DEF ArgumentTaken
    <3> QED
      BY <2>5, <2>7, <2>8, <2>11, <3>1 DEF ArgumentTaken
  <2> QED
    BY <1>3, <2>9, <2>10, <2>11 DEF Argument
<1>4. ASSUME NEW array \in BOOLEAN, Begin(array) PROVE Extraction!ExtractionNext
  <2>0. /\ pc = "enter" /\ WantsValue(doc) /\ outcome = "open"
        /\ Extraction!WantsValue(doc) /\ arguments' = arguments
        /\ Len(frames) = Len(doc.open)
    BY <1>0, <1>4, SameEvents
       DEF Begin, BeginOverLimit, BeginFails, BeginSucceeds, counts, Control, FramesAreOpen
  <2>1. /\ Len(Extraction!ContainerName(doc, array)) = PrefixSize(array)
        /\ PrefixSize(array) \in Nat
    <3>1. Len(ContainerName(doc, array)) = PrefixSize(array)
      BY <1>0, <2>0, NamesHere
    <3>2. PrefixSize(array) \in Nat
      BY <1>0, EventsAssumption, WrittenNameLength DEF PrefixSize, TypeOK
    <3> QED
      BY <3>1, <3>2, SameNames
  <2>2. CASE AtLimit(Len(frames), limits.depth) /\ Fail("depth")
    <3>1. Extraction!Justified("depth")
      BY <1>0, <2>0, <2>2 DEF AtLimit, Extraction!Justified
    <3> QED
      BY <1>0, <2>0, <2>2, <3>1, FailRefuses DEF Limits
  <2>3. CASE ~Fits(PrefixSize(array)) /\ Fail("name")
    <3>1. Len(Extraction!ContainerName(doc, array)) >= JSON_STRING_SIZE
      BY <1>0, <2>1, <2>3 DEF Fits
    <3>2. Extraction!Justified("name")
      BY <2>0, <3>1 DEF Extraction!Justified
    <3> QED
      BY <1>0, <2>0, <2>3, <3>2, FailRefuses DEF Limits
  <2>4. CASE Fail("memory")
    BY <1>0, <1>r, <2>0, <2>4, FailRefuses DEF Reasons
  <2>5. CASE /\ ~AtLimit(Len(frames), limits.depth)
             /\ Fits(PrefixSize(array)) /\ BeginSucceeds(array)
    <3>1. /\ Len(doc.open) < limits.depth
          /\ Len(Extraction!ContainerName(doc, array)) < JSON_STRING_SIZE
      BY <1>0, <2>0, <2>1, <2>5 DEF AtLimit, Fits
    <3>2. Extraction!Open(array)
      BY <2>0, <2>5, <3>1, SameSteps
         DEF Extraction!Open, BeginSucceeds, Go, given, told
    <3> QED
      BY <3>2 DEF Extraction!ExtractionNext
  <2> QED
    BY <1>4, <2>2, <2>3, <2>4, <2>5 DEF Begin, BeginOverLimit, BeginFails
<1>5. CASE Element
  BY <1>1, <1>5 DEF Element, Go, counts, given, told
<1>t. ASSUME pc = "next", frames # <<>>
      PROVE  /\ doc.open # <<>> /\ outcome = "open"
             /\ Top.array => InArray(doc)
             /\ ~Top.array => InObject(doc) /\ WantsKey(doc)
  <2>1. /\ Len(frames) = Len(doc.open) /\ doc.open \in Seq(Containers)
        /\ \A i \in 1..Len(frames) : frames[i].array = doc.open[i].array
    BY <1>0, <1>t DEF FramesAreOpen, Positions
  <2>2. doc.open # <<>> /\ Len(frames) \in 1..Len(frames)
    BY <1>0, <1>t, <2>1
  <2>3. Top.array = doc.open[Len(doc.open)].array
    BY <2>1, <2>2 DEF Top
  <2> QED
    BY <1>0, <1>t, <2>2, <2>3 DEF InArray, InObject, Control, Due
<1>6. ASSUME NEW k \in Keys, Member(k) PROVE Extraction!ExtractionNext
  <2>0. /\ pc = "next" /\ outcome = "open" /\ WantsKey(doc) /\ arguments' = arguments
        /\ k \in Seq(Byte) /\ Len(k) \in Nat
    BY <1>6, <1>t, WalkAssumption DEF Member
  <2>1. CASE Fail("name") /\ ~Fits(Len(k))
    <3>1. Len(k) >= JSON_STRING_SIZE
      BY <1>0, <2>0, <2>1 DEF Fits
    <3>2. Extraction!Justified("name")
      BY <2>0, <3>1, SameEvents DEF Extraction!Justified
    <3> QED
      BY <1>0, <2>0, <2>1, <3>2, FailRefuses DEF Limits
  <2>2. CASE doc' = AfterKey(doc, k) /\ Fits(Len(k)) /\ lines' = lines /\ Go("enter")
    <3>1. Extraction!Key(k)
      BY <2>0, <2>2, SameEvents, SameSteps DEF Extraction!Key, Go, given, told, Fits
    <3> QED
      BY <3>1 DEF Extraction!ExtractionNext
  <2> QED
    BY <1>6, <2>1, <2>2 DEF Member
<1>7. CASE Pop
  <2>1. outcome = "open" /\ MayClose(doc)
    BY <1>7, <1>t DEF Pop, MayClose, WantsKey
  <2>2. Extraction!Close
    BY <1>7, <2>1, SameSteps DEF Pop, Extraction!Close, Go, counts, given, told
  <2> QED
    BY <2>2 DEF Extraction!ExtractionNext
<1>8. CASE Finish
  <2>1. UNCHANGED <<doc, limits, silence, arguments, lines>>
    BY <1>8 DEF Finish, counts, given
  <2>2. CASE UNCHANGED told
    BY <1>1, <2>1, <2>2 DEF told
  <2>3. CASE ~UNCHANGED told
    <3>1. pc = "next" /\ frames = <<>> /\ outcome = "open"
      BY <1>0, <1>8, <2>3 DEF Finish, Control
    <3>2. IsWhole(doc)
      <4>1. Len(frames) = Len(doc.open) /\ doc.open \in Seq(Containers)
        BY <1>0, <3>1 DEF FramesAreOpen, Positions
      <4>2. doc.open = <<>>
        BY <3>1, <4>1
      <4> QED
        BY <3>1, <4>2 DEF Due
    <3>3. CASE outcome' = "accepted" /\ UNCHANGED reason
      <4>1. Extraction!Accept
        BY <2>1, <3>1, <3>2, <3>3, SameEvents DEF Extraction!Accept
      <4> QED
        BY <4>1 DEF Extraction!ExtractionNext
    <3>4. ASSUME NEW why \in {"numbers", "output"}, outcome' = "refused", reason' = why
          PROVE  Extraction!ExtractionNext
      <4>1. why \in Reasons /\ Extraction!Justified(why)
        BY <1>r DEF Reasons
      <4>2. Extraction!Refuse(why)
        BY <2>1, <3>1, <3>4, <4>1 DEF Extraction!Refuse
      <4> QED
        BY <4>1, <4>2 DEF Extraction!ExtractionNext
    <3> QED
      BY <1>8, <2>3, <3>1, <3>3, <3>4 DEF Finish
  <2> QED
    BY <2>2, <2>3
<1>9. CASE Configure
  <2>1. Extraction!Configure
    BY <1>0, <1>9 DEF Configure, Extraction!Configure, counts, told
  <2> QED
    BY <2>1 DEF Extraction!ExtractionNext
<1>10. CASE UNCHANGED walkVars
  BY <1>1, <1>10 DEF walkVars, counts, given, told
<1> QED
  BY <1>2, <1>3, <1>4, <1>5, <1>6, <1>7, <1>8, <1>9, <1>10 DEF Next

LEMMA InitImplements == Init => Extraction!ExtractionInit
<1> SUFFICES ASSUME Init PROVE Extraction!ExtractionInit
  OBVIOUS
<1>1. [i \in 1..Len(lines) |-> lines[i].name] = <<>>
  BY DEF Init
<1> QED
  BY <1>1, SameEvents DEF Init, Extraction!ExtractionInit, None

\* Whatever tree the library has built, a walk with or without spans, through
\* any failure, is one ArgumentExtraction allows, for any keys, limits and
\* sizes: every scalar once, in order, under the name of its position, and a
\* limit refuses only the tree that passes it.
THEOREM Implements == Spec => ImplementsExtraction
<1>1. Init => PathStands /\ Due
  BY DEF Init, PathStands, Due
<1>2. IInv /\ PathStands /\ Due /\ [Next]_walkVars => PathStands' /\ Due'
  BY StepPath, NextIsAny, StepDue
<1> QED
  BY <1>1, <1>2, InitImplements, InductiveInvariant, StepImplements, PTL
     DEF Spec, ImplementsExtraction, Extraction!ExtractionSpec


(***************************************************************************)
(* Memory, locale and message.                                             *)
(***************************************************************************)

\* Stages before which nothing has failed, those with nothing allocated, and
\* those between the creation of the outer locale and its end.
Unfailed == Stages \ {"scanned", "done", "restore", "idle"}
Empty == {"new", "locale", "read", "restore", "idle"}
Within == Stages \ {"new", "locale", "idle"}

\* A failed restore leaves its locale active; otherwise the active locale is
\* the innermost one that exists.
Nested ==
    IF lost
    THEN result = "error" /\ stage \in {"done", "restore", "idle"}
    ELSE /\ locale = IF inner THEN "inner" ELSE IF outer THEN "outer" ELSE "caller"
         /\ inner => stage \in {"scan", "scanned"}
         /\ stage \in {"new", "locale", "idle"} => ~outer

Releasing ==
    /\ library \in Libraries
    /\ stage \in Stages
    /\ result \in {"ok", "error"}
    /\ messages = IF result = "error" THEN 1 ELSE 0
    /\ stage \in Unfailed => result = "ok"
    /\ stage = "scanned" => result = "error"
    /\ stage \in Empty => held = {}
    /\ lost \in BOOLEAN /\ inner \in BOOLEAN /\ outer \in BOOLEAN
    /\ Nested
    /\ Raw(library) => ~outer /\ ~inner /\ ~lost /\ stage # "locale"
    /\ ~Raw(library) /\ stage \in Within => outer

LEMMA InitReleasing == AdapterInit => Releasing
BY DEF AdapterInit, Releasing, Nested, Stages, Unfailed, Empty, Within

\* A step that changes none of it.
Keeps == UNCHANGED <<library, answer, held, locales>>

LEMMA Stays ==
    ASSUME Releasing, Keeps, stage' \in Stages,
           stage' \in Unfailed => result = "ok",
           stage' = "scanned" => result = "error",
           stage' \in Empty => stage \in Empty,
           lost => stage' \in {"done", "restore", "idle"},
           inner => stage' \in {"scan", "scanned"} \/ lost,
           stage' \in {"new", "locale", "idle"} => stage = "new",
           stage' \in Within => stage \in Within \/ Raw(library),
           stage' = "locale" => ~Raw(library)
    PROVE  Releasing'
<1>1. /\ library' = library /\ result' = result /\ messages' = messages
      /\ held' = held /\ locale' = locale /\ outer' = outer /\ inner' = inner
      /\ lost' = lost
  BY DEF Keeps, answer, locales
<1>2. Raw(library)' = Raw(library)
  BY <1>1 DEF Raw
<1>3. Nested'
  BY <1>1 DEF Releasing, Nested
<1> QED
  BY <1>1, <1>2, <1>3, Zenon DEF Releasing

LEMMA StepReleasing ==
    ASSUME Releasing, [AdapterNext]_vars
    PROVE  Releasing'
<1> USE DEF Stages, Unfailed, Empty, Within
<1>1. ASSUME NEW t \in Texts, ParseFile(t) PROVE Releasing'
  <2>1. Keeps
    BY <1>1 DEF ParseFile, Keeps, call
  <2>2. stage = "new" /\ stage' = IF Raw(library) THEN "read" ELSE "locale"
    BY <1>1 DEF ParseFile
  <2> QED
    BY <2>1, <2>2, Stays DEF Releasing, Nested
<1>2. CASE BeginLocale
  <2>1. /\ stage = "locale" /\ library' = library /\ inner' = inner
        /\ lost' = lost /\ held' = held
    BY <1>2 DEF BeginLocale, call
  <2>2. \/ /\ outer' \in BOOLEAN /\ outer' /\ locale' = "outer" /\ stage' = "read"
           /\ result' = result /\ messages' = messages
        \/ /\ result' = "error" /\ messages' = messages + 1 /\ stage' = "idle"
           /\ outer' = outer /\ locale' = locale
    BY <1>2 DEF BeginLocale, Error, answer
  <2> QED
    BY <2>1, <2>2 DEF Releasing, Nested, Raw
<1>3. CASE ReadFile
  <2>1. /\ stage = "read" /\ library' = library
        /\ locale' = locale /\ outer' = outer /\ inner' = inner /\ lost' = lost
    BY <1>3 DEF ReadFile, call, locales
  <2>2. \/ stage' = "preflight" /\ result' = result /\ messages' = messages
        \/ /\ result' = "error" /\ messages' = messages + 1 /\ stage' = "restore"
           /\ held' = held
    BY <1>3 DEF ReadFile, Error, answer
  <2> QED
    BY <2>1, <2>2 DEF Releasing, Nested, Raw
<1>4. CASE BeginPreflight
  <2>1. /\ stage = "preflight" /\ library' = library
        /\ held' = held /\ outer' = outer /\ lost' = lost
    BY <1>4 DEF BeginPreflight, call
  <2>2. \/ /\ stage' = "scan" /\ inner' = ~Raw(library)
           /\ locale' = IF Raw(library) THEN locale ELSE "inner"
           /\ result' = result /\ messages' = messages
        \/ /\ result' = "error" /\ messages' = messages + 1 /\ stage' = "done"
           /\ inner' = inner /\ locale' = locale
    BY <1>4 DEF BeginPreflight, Error, answer
  <2> QED
    BY <2>1, <2>2 DEF Releasing, Nested, Raw
<1>5. CASE Scan
  <2>1. /\ library' = library /\ locale' = locale /\ outer' = outer
        /\ inner' = inner /\ lost' = lost /\ stage = "scan"
    BY <1>5 DEF Scan, call, locales, ScanSeparator, ScanOpen, ScanClose, ScanKey,
                ScanString, ScanLongString, ScanLiteral, ScanGarbage, ScanNumber, Scanning
  <2>2. \/ stage' = stage /\ result' = result /\ messages' = messages
        \/ stage' = "scanned" /\ result' = "error" /\ messages' = messages + 1
    BY <1>5 DEF Scan, ScanSeparator, ScanOpen, ScanClose, ScanKey,
                ScanString, ScanLongString, ScanLiteral, ScanGarbage, ScanNumber,
                ScanScalar, ScanFails, Error, answer
  <2> QED
    BY <2>1, <2>2 DEF Releasing, Nested, Raw
<1>6. CASE EndPreflight
  <2>1. /\ stage \in {"scan", "scanned"} /\ library' = library
        /\ held' = held /\ outer' = outer
    BY <1>6 DEF EndPreflight, call
  <2>2. \/ /\ inner' \in BOOLEAN /\ ~inner'
           /\ locale' = IF inner THEN "outer" ELSE locale
           /\ stage' = IF result = "error" THEN "done"
                       ELSE IF library = "json-c" THEN "ascii" ELSE "native"
           /\ result' = result /\ messages' = messages /\ lost' = lost
        \/ /\ inner
           /\ lost' \in BOOLEAN /\ lost'
           /\ IF result = "error" THEN result' = result /\ messages' = messages
              ELSE result' = "error" /\ messages' = messages + 1
           /\ stage' = "done" /\ inner' = inner
    BY <1>6 DEF EndPreflight, Error, answer, Restored, EarlierResult
  <2> QED
    BY <2>1, <2>2 DEF Releasing, Nested, Raw
<1>7. CASE AsciiInput
  <2>1. /\ stage = "ascii" /\ library' = library
        /\ locale' = locale /\ outer' = outer /\ inner' = inner /\ lost' = lost
    BY <1>7 DEF AsciiInput, call, locales
  <2>2. \/ stage' = "native" /\ result' = result /\ messages' = messages
        \/ result' = "error" /\ messages' = messages + 1 /\ stage' = "done"
    BY <1>7 DEF AsciiInput, Error, answer
  <2> QED
    BY <2>1, <2>2 DEF Releasing, Nested, Raw
<1>8. CASE NativeParse
  <2>1. /\ stage = "native" /\ library' = library
        /\ locale' = locale /\ outer' = outer /\ inner' = inner /\ lost' = lost
    BY <1>8 DEF NativeParse, call, locales
  <2>2. \/ /\ stage' \in {"check", "walk"}
           /\ result' = result /\ messages' = messages
        \/ result' = "error" /\ messages' = messages + 1 /\ stage' = "done"
    BY <1>8 DEF NativeParse, NativeSucceeds, NativeFails, Error, answer
  <2> QED
    BY <2>1, <2>2 DEF Releasing, Nested, Raw
<1>9. CASE BeginWalk
  <2>1. Keeps
    BY <1>9 DEF BeginWalk, Keeps, call
  <2>2. stage \in {"check", "walk"} /\ stage' \in {"checking", "walking"}
    BY <1>9 DEF BeginWalk
  <2> QED
    BY <2>1, <2>2, Stays DEF Releasing, Nested
<1>10. CASE WalkStep
  <2>1. Keeps /\ stage' = stage /\ stage \in {"checking", "walking"}
    BY <1>10 DEF WalkStep, Keeps, call
  <2> QED
    BY <2>1, Stays DEF Releasing, Nested
<1>11. CASE EndWalk
  <2>1. /\ stage \in {"checking", "walking"} /\ library' = library
        /\ locale' = locale /\ outer' = outer /\ inner' = inner /\ lost' = lost
    BY <1>11 DEF EndWalk, call, locales
  <2>2. \/ /\ stage' \in {"walk", "done"}
           /\ result' = result /\ messages' = messages
        \/ result' = "error" /\ messages' = messages + 1 /\ stage' = "done"
    BY <1>11 DEF EndWalk, Error, answer
  <2> QED
    BY <2>1, <2>2 DEF Releasing, Nested, Raw
<1>12. CASE Done
  <2>1. /\ stage = "done" /\ stage' = "restore" /\ library' = library /\ held' = {}
        /\ locale' = locale /\ outer' = outer /\ inner' = inner /\ lost' = lost
        /\ result' = result /\ messages' = messages
    BY <1>12 DEF Done, call, locales, answer, Freed
  <2> QED
    BY <2>1 DEF Releasing, Nested, Raw
<1>13. CASE Return
  <2>1. /\ stage = "restore" /\ stage' = "idle" /\ library' = library
        /\ held' = held /\ inner' = inner
    BY <1>13 DEF Return, call
  <2>2. \/ /\ outer' \in BOOLEAN /\ ~outer'
           /\ locale' = IF outer THEN "caller" ELSE locale
           /\ result' = result /\ messages' = messages /\ lost' = lost
        \/ /\ outer /\ lost' \in BOOLEAN /\ lost'
           /\ IF result = "error" THEN result' = result /\ messages' = messages
              ELSE result' = "error" /\ messages' = messages + 1
           /\ outer' = outer
    BY <1>13 DEF Return, Error, answer, EarlierResult
  <2> QED
    BY <2>1, <2>2 DEF Releasing, Nested, Raw
<1>14. CASE UNCHANGED vars
  BY <1>14 DEF vars, call, answer, locales, Releasing, Nested, Raw
<1> QED
  BY <1>1, <1>2, <1>3, <1>4, <1>5, <1>6, <1>7, <1>8, <1>9, <1>10, <1>11, <1>12,
     <1>13, <1>14 DEF AdapterNext, Steps

THEOREM ReleaseInvariant == AdapterSpec => []Releasing
BY InitReleasing, StepReleasing, PTL DEF AdapterSpec

\* No way out of a call of any of the four keeps a block, a tree or a locale,
\* and there is one message for a failure.
THEOREM ReleaseCorrect == AdapterSpec => []AllReleased
<1>1. Releasing => AllReleased
  BY DEF Releasing, Nested, AllReleased, Stages, Unfailed, Empty, Within
<1> QED
  BY <1>1, ReleaseInvariant, PTL

(***************************************************************************)
(* What is selected from a sequence, item by item.                         *)
(***************************************************************************)

IsSelection(f, s, places) ==
    f = [i \in 0..Len(s) |->
            IF i = 0 THEN <<>>
            ELSE Selecting(f[i - 1], s[i], i \in places)]

LEMMA SelectionExists ==
    ASSUME NEW S, NEW s \in Seq(S), NEW places
    PROVE  \E f \in [0..Len(s) -> Seq(S)] : IsSelection(f, s, places)
<1> DEFINE n == Len(s)
           step == [x \in Seq(S) \X (1..n) |->
                       Selecting(x[1], s[x[2]], x[2] \in places)]
<1>1. n \in Nat /\ <<>> \in Seq(S) /\ IsStep(step, Seq(S), n)
  BY DEF Selecting, IsStep
<1>2. PICK f : /\ f \in [0..n -> Seq(S)]
               /\ f[0] = <<>> /\ \A i \in 1..n : f[i] = step[<<f[i - 1], i>>]
  <2> HIDE DEF step, n
  <2>1. \E f : Solution(f, Seq(S), n, <<>>, step)
    BY <1>1, Recursion, Zenon
  <2> QED
    BY <2>1 DEF Solution
<1>3. \A i \in 1..n : f[i] = Selecting(f[i - 1], s[i], i \in places)
  <2> SUFFICES ASSUME NEW i \in 1..n
               PROVE  f[i] = Selecting(f[i - 1], s[i], i \in places)
    OBVIOUS
  <2>1. f[i - 1] \in Seq(S)
    BY <1>1, <1>2
  <2> QED
    BY <1>2, <2>1
<1>4. IsSelection(f, s, places)
  BY <1>1, <1>2, <1>3 DEF IsSelection
<1> QED
  BY <1>2, <1>4

LEMMA SelectedIs ==
    ASSUME NEW s, Len(s) \in Nat, NEW places, NEW f, IsSelection(f, s, places)
    PROVE  Selected(s, places) = f[Len(s)]
<1>1. Selected(s, places) = (CHOOSE g : IsSelection(g, s, places))[Len(s)]
  BY DEF Selected, IsSelection
<1>2. ASSUME NEW g, IsSelection(g, s, places)
      PROVE  g[Len(s)] = f[Len(s)]
  <2>1. f[0] = g[0] /\ \A i \in 1..Len(s) : f[i - 1] = g[i - 1] => f[i] = g[i]
    BY <1>2 DEF IsSelection
  <2>2. \A i \in 0..Len(s) : f[i] = g[i]
    BY <2>1, SameSolution
  <2> QED
    BY <2>2
<1> QED
  BY <1>1, <1>2

\* All beginnings of a sequence at once.
LEMMA SelectedUpto ==
    ASSUME NEW S, NEW s \in Seq(S), NEW places
    PROVE  /\ Selected(SubSeq(s, 1, 0), places) = <<>>
           /\ SubSeq(s, 1, Len(s)) = s
           /\ \A m \in 0..Len(s) : Selected(SubSeq(s, 1, m), places) \in Seq(S)
           /\ \A m \in 1..Len(s) :
                 Selected(SubSeq(s, 1, m), places) =
                    Selecting(Selected(SubSeq(s, 1, m - 1), places), s[m], m \in places)
<1>1. PICK f \in [0..Len(s) -> Seq(S)] : IsSelection(f, s, places)
  BY SelectionExists
<1>0. \A i \in 0..Len(s) : f[i] = IF i = 0 THEN <<>>
                                  ELSE Selecting(f[i - 1], s[i], i \in places)
  BY <1>1 DEF IsSelection
<1>2. ASSUME NEW m \in 0..Len(s)
      PROVE  Selected(SubSeq(s, 1, m), places) = f[m]
  <2> DEFINE t == SubSeq(s, 1, m)
             g == [i \in 0..m |-> f[i]]
  <2>1. Len(t) = m /\ \A i \in 1..m : t[i] = s[i]
    OBVIOUS
  <2>2. IsSelection(g, t, places)
    <3> HIDE DEF t
    <3>1. \A i \in 0..m : /\ i \in 0..Len(s) /\ g[i] = f[i]
                          /\ i # 0 => t[i] = s[i] /\ g[i - 1] = f[i - 1]
      BY <2>1
    <3>2. g = [i \in 0..m |-> IF i = 0 THEN <<>>
                ELSE Selecting(g[i - 1], t[i], i \in places)]
      BY <1>0, <3>1
    <3> QED
      BY <2>1, <3>2 DEF IsSelection
  <2> HIDE DEF t
  <2>3. Selected(t, places) = g[m]
    BY <2>1, <2>2, SelectedIs
  <2> QED
    BY <2>3 DEF t
<1>3. f[0] = <<>> /\ \A i \in 1..Len(s) :
            f[i] = Selecting(f[i - 1], s[i], i \in places)
  BY <1>0
<1>4. SubSeq(s, 1, Len(s)) = s /\ Len(s) \in Nat
  OBVIOUS
<1>5. \A m \in 0..Len(s) : Selected(SubSeq(s, 1, m), places) \in Seq(S)
  BY <1>2
<1>6. ASSUME NEW m \in 1..Len(s)
      PROVE  Selected(SubSeq(s, 1, m), places) =
                Selecting(Selected(SubSeq(s, 1, m - 1), places), s[m], m \in places)
  <2>1. m \in 0..Len(s) /\ m - 1 \in 0..Len(s)
    OBVIOUS
  <2> QED
    BY <1>2, <1>3, <2>1, Zenon
<1>7. Selected(SubSeq(s, 1, 0), places) = <<>>
  <2>1. 0 \in 0..Len(s)
    BY <1>4
  <2> QED
    BY <1>2, <1>3, <2>1, Zenon
<1> QED
  BY <1>4, <1>5, <1>6, <1>7, Zenon

LEMMA SelectedGrows ==
    ASSUME NEW S, NEW s \in Seq(S), NEW e \in S, NEW places
    PROVE  /\ Selected(s, places) \in Seq(S)
           /\ Selected(Append(s, e), places) =
                 Selecting(Selected(s, places), e, Len(s) + 1 \in places)
<1> DEFINE t == Append(s, e)
           n == Len(s)
<1>1. /\ t \in Seq(S) /\ Len(t) = n + 1 /\ n \in Nat /\ t[n + 1] = e
      /\ SubSeq(t, 1, n) = s /\ SubSeq(s, 1, n) = s
  OBVIOUS
<1> HIDE DEF t, n
<1>2. Selected(SubSeq(t, 1, n + 1), places) =
         Selecting(Selected(SubSeq(t, 1, (n + 1) - 1), places), t[n + 1], n + 1 \in places)
  <2>1. n + 1 \in 1..Len(t)
    BY <1>1
  <2> QED
    BY <1>1, <2>1, SelectedUpto, Zenon
<1>3. (n + 1) - 1 = n /\ n \in 0..n /\ n = Len(s)
  BY <1>1 DEF n
<1>4. SubSeq(t, 1, n + 1) = t
  BY <1>1, SelectedUpto, Zenon
<1>5. Selected(s, places) \in Seq(S)
  BY <1>1, <1>3, SelectedUpto, Zenon
<1> QED
  BY <1>1, <1>2, <1>3, <1>4, <1>5, Zenon DEF t

LEMMA SelectedNone == ASSUME NEW places PROVE Selected(<<>>, places) = <<>>
<1> DEFINE f == [i \in 0..0 |-> <<>>]
<1>1. IsSelection(f, <<>>, places) /\ f[0] = <<>> /\ Len(<<>>) = 0
  BY DEF IsSelection
<1> QED
  BY <1>1, SelectedIs

\* Only the places a sequence has matter.
LEMMA SelectedSame ==
    ASSUME NEW S, NEW s \in Seq(S), NEW P, NEW Q,
           \A i \in 1..Len(s) : i \in P <=> i \in Q
    PROVE  Selected(s, P) = Selected(s, Q)
<1>1. PICK f : IsSelection(f, s, P)
  BY SelectionExists
<1>2. IsSelection(f, s, Q)
  BY <1>1 DEF IsSelection
<1> QED
  BY <1>1, <1>2, SelectedIs

\* What is selected everywhere is the sequence.
LEMMA SelectedAll ==
    ASSUME NEW S, NEW s \in Seq(S), NEW P, \A i \in 1..Len(s) : i \in P
    PROVE  Selected(s, P) = s
<1> DEFINE f == [i \in 0..Len(s) |-> SubSeq(s, 1, i)]
<1>1. ASSUME NEW i \in 1..Len(s) PROVE SubSeq(s, 1, i) = Append(SubSeq(s, 1, i - 1), s[i])
  OBVIOUS
<1>2. SubSeq(s, 1, 0) = <<>>
  OBVIOUS
<1>3. IsSelection(f, s, P)
  BY <1>1, <1>2 DEF IsSelection, Selecting
<1>4. SubSeq(s, 1, Len(s)) = s
  OBVIOUS
<1> HIDE DEF f
<1>5. Selected(s, P) = f[Len(s)]
  BY <1>3, SelectedIs
<1> QED
  BY <1>4, <1>5 DEF f

\* What a sequence is made of, from its beginning.
LEMMA Beginnings ==
    ASSUME NEW S, NEW s \in Seq(S), NEW i \in 1..Len(s)
    PROVE  /\ SubSeq(s, 1, i) = Append(SubSeq(s, 1, i - 1), s[i])
           /\ SubSeq(s, 1, i - 1) \in Seq(S) /\ Len(SubSeq(s, 1, i - 1)) = i - 1
           /\ SubSeq(s, 1, i) \in Seq(S) /\ Len(SubSeq(s, 1, i)) = i
           /\ s[i] \in S
OBVIOUS

(***************************************************************************)
(* Events, and the place they lead to.                                     *)
(***************************************************************************)

EventTypes == {"scalar", "member", "open", "close"}
Happenings ==
    [type : EventTypes, at : Nat, around : Seq(Nat), key : Seq(Byte),
     array : BOOLEAN, index : Nat, name : Seq(Byte)]

After(d, e) ==
    CASE e.type = "scalar" -> AfterValue(d)
      [] e.type = "member" -> AfterKey(d, e.key)
      [] e.type = "open"   -> AfterOpen(d, e.array)
      [] OTHER -> IF d.open = <<>> THEN d ELSE AfterClose(d)

Place(events) ==
    LET upto[i \in 0..Len(events)] ==
            IF i = 0 THEN Start ELSE After(upto[i - 1], events[i])
    IN  upto[Len(events)]

LEMMA AfterType ==
    ASSUME NEW d \in Positions, NEW e \in Happenings
    PROVE  After(d, e) \in Positions
<1>1. e.type \in EventTypes /\ e.key \in Seq(Byte) /\ e.array \in BOOLEAN
  BY DEF Happenings
<1>2. CASE e.type = "scalar"
  BY <1>2, AfterValueType DEF After
<1>3. CASE e.type = "member"
  BY <1>1, <1>3, AfterKeyType DEF After
<1>4. CASE e.type = "open"
  BY <1>1, <1>4, AfterOpenType DEF After
<1>5. CASE e.type = "close"
  BY <1>5, AfterCloseType DEF After
<1> QED
  BY <1>1, <1>2, <1>3, <1>4, <1>5 DEF EventTypes

IsStory(f, events) ==
    f = [i \in 0..Len(events) |->
            IF i = 0 THEN Start ELSE After(f[i - 1], events[i])]

LEMMA StartType == Start \in Positions
<1>1. <<>> \in Seq(Containers) /\ <<>> \in Seq(Byte)
  OBVIOUS
<1> QED
  BY <1>1 DEF Start, Positions

LEMMA StoryExists ==
    ASSUME NEW events \in Seq(Happenings)
    PROVE  \E f \in [0..Len(events) -> Positions] : IsStory(f, events)
<1> DEFINE n == Len(events)
           step == [x \in Positions \X (1..n) |-> After(x[1], events[x[2]])]
<1>0. n \in Nat /\ \A i \in 1..n : events[i] \in Happenings
  OBVIOUS
<1>1. IsStep(step, Positions, n)
  <2> SUFFICES ASSUME NEW x \in Positions \X (1..n)
               PROVE  step[x] \in Positions
    BY DEF IsStep
  <2>1. x[1] \in Positions /\ events[x[2]] \in Happenings
    BY <1>0
  <2> QED
    BY <2>1, AfterType
<1>2. PICK f : /\ f \in [0..n -> Positions]
               /\ f[0] = Start /\ \A i \in 1..n : f[i] = step[<<f[i - 1], i>>]
  <2> HIDE DEF step, n
  <2>1. \E f : Solution(f, Positions, n, Start, step)
    BY <1>0, <1>1, StartType, Recursion, Zenon
  <2> QED
    BY <2>1 DEF Solution
<1>3. \A i \in 1..n : f[i] = After(f[i - 1], events[i])
  <2> SUFFICES ASSUME NEW i \in 1..n PROVE f[i] = After(f[i - 1], events[i])
    OBVIOUS
  <2>1. f[i - 1] \in Positions
    BY <1>0, <1>2
  <2> QED
    BY <1>2, <2>1
<1>4. IsStory(f, events)
  BY <1>0, <1>2, <1>3 DEF IsStory
<1> QED
  BY <1>2, <1>4

LEMMA PlaceIs ==
    ASSUME NEW events, Len(events) \in Nat, NEW f, IsStory(f, events)
    PROVE  Place(events) = f[Len(events)]
<1>1. Place(events) = (CHOOSE g : IsStory(g, events))[Len(events)]
  BY DEF Place, IsStory
<1>2. ASSUME NEW g, IsStory(g, events)
      PROVE  g[Len(events)] = f[Len(events)]
  <2>1. f[0] = g[0] /\ \A i \in 1..Len(events) : f[i - 1] = g[i - 1] => f[i] = g[i]
    BY <1>2 DEF IsStory
  <2>2. \A i \in 0..Len(events) : f[i] = g[i]
    BY <2>1, SameSolution
  <2> QED
    BY <2>2
<1> QED
  BY <1>1, <1>2

\* One event leads one step further.
LEMMA PlaceGrows ==
    ASSUME NEW events \in Seq(Happenings), NEW e \in Happenings
    PROVE  /\ Place(events) \in Positions
           /\ Place(Append(events, e)) = After(Place(events), e)
<1> DEFINE t == Append(events, e)
           n == Len(events)
<1>1. /\ t \in Seq(Happenings) /\ Len(t) = n + 1 /\ n \in Nat /\ t[n + 1] = e
      /\ \A i \in 1..n : t[i] = events[i]
  OBVIOUS
<1> HIDE DEF t
<1>2. PICK f \in [0..Len(t) -> Positions] : IsStory(f, t)
  BY <1>1, StoryExists
<1>3. \A i \in 0..n + 1 : f[i] = IF i = 0 THEN Start ELSE After(f[i - 1], t[i])
  BY <1>1, <1>2 DEF IsStory
<1> DEFINE g == [i \in 0..n |-> f[i]]
<1>4. IsStory(g, events)
  <2>1. \A i \in 0..n : /\ i \in 0..n + 1 /\ g[i] = f[i]
                        /\ i # 0 => t[i] = events[i] /\ g[i - 1] = f[i - 1]
    BY <1>1
  <2>2. g = [i \in 0..n |-> IF i = 0 THEN Start ELSE After(g[i - 1], events[i])]
    BY <1>3, <2>1
  <2> QED
    BY <2>2 DEF IsStory
<1>5. Place(events) = f[n]
  BY <1>1, <1>4, PlaceIs
<1>6. Place(t) = f[n + 1]
  BY <1>1, <1>2, PlaceIs
<1>7. f[n + 1] = After(f[n], e) /\ f[n] \in Positions
  <2>1. n + 1 \in 0..n + 1 /\ n + 1 # 0 /\ (n + 1) - 1 = n /\ n \in 0..Len(t)
    BY <1>1
  <2> QED
    BY <1>1, <1>2, <1>3, <2>1, Zenon
<1> QED
  BY <1>5, <1>6, <1>7 DEF t

LEMMA PlaceAtStart == Place(<<>>) = Start
<1> DEFINE f == [i \in 0..0 |-> Start]
<1>1. IsStory(f, <<>>) /\ f[0] = Start /\ Len(<<>>) = 0
  BY DEF IsStory
<1> QED
  BY <1>1, PlaceIs

(***************************************************************************)
(* The reading of a text, token by token.                                  *)
(***************************************************************************)

MarksDue == {"value", "element", "key", "member", "colon", "after", "end"}
Readers == [doc : Positions, mark : MarksDue, events : Seq(Happenings),
            around : Seq(Nat), good : BOOLEAN]

LEMMA ReaderType == Reader \in Readers
<1>1. <<>> \in Seq(Happenings) /\ <<>> \in Seq(Nat)
  OBVIOUS
<1> QED
  BY <1>1, StartType DEF Reader, Readers, MarksDue

\* A step that adds an event.
Added(s, e, place, mark, around) ==
    [doc |-> place, mark |-> mark, events |-> Append(s.events, e), around |-> around,
     good |-> s.good]

LEMMA AddedType ==
    ASSUME NEW s \in Readers, NEW e \in Happenings, NEW place \in Positions,
           NEW mark \in MarksDue, NEW around \in Seq(Nat)
    PROVE  Added(s, e, place, mark, around) \in Readers
<1>1. Append(s.events, e) \in Seq(Happenings) /\ s.good \in BOOLEAN
  BY DEF Readers
<1> QED
  BY <1>1 DEF Added, Readers

\* The event of each operation.
Reported(s, type, i, k, array, name) ==
    [type |-> type, at |-> Len(s.events) + 1, around |-> s.around, key |-> k,
     array |-> array, index |-> i, name |-> name]

LEMMA EventType ==
    ASSUME NEW s \in Readers, NEW type \in EventTypes, NEW i \in Nat,
           NEW k \in Seq(Byte), NEW array \in BOOLEAN, NEW name \in Seq(Byte)
    PROVE  Reported(s, type, i, k, array, name) \in Happenings
<1>1. Len(s.events) + 1 \in Nat /\ s.around \in Seq(Nat)
  BY DEF Readers
<1> QED
  BY <1>1 DEF Reported, Happenings

LEMMA AddedInPlace ==
    ASSUME NEW s \in Readers, NEW e, NEW place, NEW mark
    PROVE  [s EXCEPT !.doc = place, !.mark = mark, !.events = Append(@, e)]
              = Added(s, e, place, mark, s.around)
<1> DEFINE r == [s EXCEPT !.doc = place, !.mark = mark, !.events = Append(@, e)]
<1>1. r \in [doc : {place}, mark : {mark}, events : {Append(s.events, e)},
             around : {s.around}, good : {s.good}]
  BY DEF Readers
<1> HIDE DEF r
<1>2. r = Added(s, e, place, mark, s.around)
  BY <1>1 DEF Added
<1> QED
  BY <1>2 DEF r

LEMMA ReadScalarIs ==
    ASSUME NEW s \in Readers, NEW i \in Nat
    PROVE  ReadScalar(s, i) =
              Added(s, Reported(s, "scalar", i, <<>>, FALSE, ArgumentName(s.doc)),
                    AfterValue(s.doc), AfterItem(AfterValue(s.doc)), s.around)
<1> DEFINE e == [Event(s) EXCEPT !.type = "scalar", !.index = i, !.name = ArgumentName(s.doc)]
<1>1. e \in [type : {"scalar"}, at : {Len(s.events) + 1}, around : {s.around},
             key : {<<>>}, array : {FALSE}, index : {i}, name : {ArgumentName(s.doc)}]
  BY DEF Event
<1>2. ReadScalar(s, i) = [s EXCEPT !.doc = AfterValue(s.doc),
                                   !.mark = AfterItem(AfterValue(s.doc)),
                                   !.events = Append(@, e)]
  BY Zenon DEF ReadScalar
<1> HIDE DEF e
<1>3. e = Reported(s, "scalar", i, <<>>, FALSE, ArgumentName(s.doc))
  BY <1>1 DEF Reported
<1> QED
  BY <1>2, <1>3, AddedInPlace, Zenon

LEMMA ReadKeyIs ==
    ASSUME NEW s \in Readers, NEW k
    PROVE  ReadKey(s, k) =
              Added(s, Reported(s, "member", 0, k, FALSE, <<>>),
                    AfterKey(s.doc, k), "colon", s.around)
<1> DEFINE e == [Event(s) EXCEPT !.type = "member", !.key = k]
<1>1. e \in [type : {"member"}, at : {Len(s.events) + 1}, around : {s.around},
             key : {k}, array : {FALSE}, index : {0}, name : {<<>>}]
  BY DEF Event
<1>2. ReadKey(s, k) = [s EXCEPT !.doc = AfterKey(s.doc, k), !.mark = "colon",
                                !.events = Append(@, e)]
  BY Zenon DEF ReadKey
<1> HIDE DEF e
<1>3. e = Reported(s, "member", 0, k, FALSE, <<>>)
  BY <1>1 DEF Reported
<1> QED
  BY <1>2, <1>3, AddedInPlace, Zenon

LEMMA ReadOpenIs ==
    ASSUME NEW s \in Readers, NEW array
    PROVE  ReadOpen(s, array) =
              Added(s, Reported(s, "open", 0, <<>>, array, <<>>),
                    AfterOpen(s.doc, array), IF array THEN "element" ELSE "member",
                    Append(s.around, Len(s.events) + 1))
<1> DEFINE e == [Event(s) EXCEPT !.type = "open", !.array = array]
           m == IF array THEN "element" ELSE "member"
           a == Append(s.around, Len(s.events) + 1)
<1>1. e \in [type : {"open"}, at : {Len(s.events) + 1}, around : {s.around},
             key : {<<>>}, array : {array}, index : {0}, name : {<<>>}]
  BY DEF Event
<1>2. ReadOpen(s, array) = [s EXCEPT !.doc = AfterOpen(s.doc, array), !.mark = m,
                                     !.events = Append(@, e), !.around = a]
  BY Zenon DEF ReadOpen
<1> HIDE DEF e, m, a
<1>3. e = Reported(s, "open", 0, <<>>, array, <<>>)
  BY <1>1 DEF Reported
<1>4. ReadOpen(s, array) = Added(s, e, AfterOpen(s.doc, array), m, a)
  <2>1. ReadOpen(s, array) \in [doc : {AfterOpen(s.doc, array)}, mark : {m},
            events : {Append(s.events, e)}, around : {a}, good : {s.good}]
    BY <1>2 DEF Readers
  <2> QED
    BY <2>1 DEF Added
<1> QED
  BY <1>3, <1>4, Zenon DEF m, a

LEMMA ReadCloseIs ==
    ASSUME NEW s \in Readers
    PROVE  ReadClose(s) =
              Added(s, Reported(s, "close", 0, <<>>, FALSE, <<>>),
                    AfterClose(s.doc), AfterItem(AfterClose(s.doc)),
                    SubSeq(s.around, 1, Len(s.around) - 1))
<1> DEFINE e == Event(s)
           a == SubSeq(s.around, 1, Len(s.around) - 1)
<1>1. e = Reported(s, "close", 0, <<>>, FALSE, <<>>)
  BY DEF Event, Reported
<1>2. ReadClose(s) = [s EXCEPT !.doc = AfterClose(s.doc),
                               !.mark = AfterItem(AfterClose(s.doc)),
                               !.events = Append(@, e), !.around = a]
  <2>1. s.around = s.around /\ [s EXCEPT !.around = SubSeq(@, 1, Len(@) - 1)]
                                  = [s EXCEPT !.around = a]
    OBVIOUS
  <2> QED
    BY DEF ReadClose, Readers
<1> HIDE DEF e, a
<1>4. ReadClose(s) = Added(s, e, AfterClose(s.doc), AfterItem(AfterClose(s.doc)), a)
  <2>1. ReadClose(s) \in [doc : {AfterClose(s.doc)}, mark : {AfterItem(AfterClose(s.doc))},
            events : {Append(s.events, e)}, around : {a}, good : {s.good}]
    BY <1>2 DEF Readers
  <2> QED
    BY <2>1 DEF Added
<1> QED
  BY <1>1, <1>4, Zenon DEF a

\* Names are texts.
LEMMA NameType == ASSUME NEW d \in Positions PROVE ArgumentName(d) \in Seq(Byte)
<1> DEFINE n == Len(d.open)
           labels == OpenLabels(d)
           T == {i \in 0..n : Shown(d.open, i) \in Seq(Byte)}
<1>1. d.open \in Seq(Containers) /\ n \in Nat
  BY DEF Positions
<1>2. 0 \in T
  <2>1. <<>> \in Seq(Byte)
    OBVIOUS
  <2>2. Shown(d.open, 0) = <<>>
    BY ShownNone, Zenon
  <2>3. Shown(d.open, 0) \in Seq(Byte)
    BY <2>1, <2>2, Zenon
  <2> QED
    BY <1>1, <2>3
<1>3. \A i \in 1..n : i - 1 \in T => i \in T
  <2> SUFFICES ASSUME NEW i \in 1..n, Shown(d.open, i - 1) \in Seq(Byte)
               PROVE  Shown(d.open, i) \in Seq(Byte)
    BY <1>1
  <2>1. i - 1 \in 0..Len(d.open) - 1 /\ (i - 1) + 1 = i
    BY <1>1
  <2>2. /\ Shown(d.open, i) = JoinLabel(Shown(d.open, i - 1), d.open[i].label)
        /\ d.open[i].label \in Seq(Byte)
    <3>1. /\ Shown(d.open, (i - 1) + 1) = JoinLabel(Shown(d.open, i - 1), d.open[(i - 1) + 1].label)
          /\ d.open[(i - 1) + 1].label \in Seq(Byte)
      BY <1>1, <2>1, ShownGrows, Zenon
    <3> QED
      BY <2>1, <3>1
  <2> QED
    BY <2>2, JoinBeginning
<1>4. Shown(d.open, n) \in Seq(Byte)
  <2> HIDE DEF T, n
  <2>1. n \in T
    BY <1>1, <1>2, <1>3, AllLengths
  <2> QED
    BY <2>1 DEF T
<1>5. labels \in Seq(Seq(Byte)) /\ Shown(d.open, n) = Display(labels)
  <2>1. \A i \in 1..n : d.open[i] \in Containers
    BY <1>1
  <2>2. \A i \in 1..n : d.open[i].label \in Seq(Byte)
    BY <2>1 DEF Containers
  <2> QED
    BY <1>1, <2>2 DEF OpenLabels, Shown
<1>6. LabelOf(d, FALSE) \in Seq(Byte)
  BY LabelType
<1> HIDE DEF labels, n
<1>7. Display(Append(labels, LabelOf(d, FALSE)))
        = JoinLabel(Display(labels), LabelOf(d, FALSE))
  BY <1>5, <1>6, DisplayGrows
<1> QED
  BY <1>4, <1>5, <1>6, <1>7, JoinBeginning DEF ArgumentName, labels

LEMMA MarkType == ASSUME NEW d PROVE AfterItem(d) \in MarksDue
BY DEF AfterItem, MarksDue

\* Every step of the reader keeps its types.
LEMMA ReadType ==
    ASSUME NEW s \in Readers, NEW token \in Tokens, NEW i \in Nat
    PROVE  Read(s, token, i) \in Readers
<1>1. /\ s.doc \in Positions /\ s.around \in Seq(Nat) /\ s.events \in Seq(Happenings)
      /\ Len(s.events) + 1 \in Nat
  BY DEF Readers
<1>2. token.text \in Seq(Byte) /\ <<>> \in Seq(Byte) /\ ArgumentName(s.doc) \in Seq(Byte)
  BY <1>1, NameType DEF Tokens
<1>3. ReadScalar(s, i) \in Readers
  <2>1. Reported(s, "scalar", i, <<>>, FALSE, ArgumentName(s.doc)) \in Happenings
    <3>1. "scalar" \in EventTypes /\ FALSE \in BOOLEAN
      BY DEF EventTypes
    <3> QED
      BY <1>2, <3>1, EventType, Zenon
  <2>2. AfterValue(s.doc) \in Positions
    BY <1>1, AfterValueType
  <2>3. AfterItem(AfterValue(s.doc)) \in MarksDue
    BY MarkType
  <2> QED
    BY <1>1, <2>1, <2>2, <2>3, ReadScalarIs, AddedType, Zenon
<1>4. ReadKey(s, token.text) \in Readers
  <2>1. Reported(s, "member", 0, token.text, FALSE, <<>>) \in Happenings
    <3>1. "member" \in EventTypes /\ FALSE \in BOOLEAN /\ 0 \in Nat
      BY DEF EventTypes
    <3> QED
      BY <1>2, <3>1, EventType, Zenon
  <2>2. AfterKey(s.doc, token.text) \in Positions /\ "colon" \in MarksDue
    BY <1>1, <1>2, AfterKeyType DEF MarksDue
  <2> QED
    BY <1>1, <2>1, <2>2, ReadKeyIs, AddedType, Zenon
<1>5. ASSUME NEW array \in BOOLEAN PROVE ReadOpen(s, array) \in Readers
  <2> DEFINE a == Append(s.around, Len(s.events) + 1)
             m == IF array THEN "element" ELSE "member"
  <2>1. a \in Seq(Nat) /\ m \in MarksDue
    BY <1>1 DEF MarksDue
  <2>2. Reported(s, "open", 0, <<>>, array, <<>>) \in Happenings
    <3>1. "open" \in EventTypes /\ 0 \in Nat
      BY DEF EventTypes
    <3> QED
      BY <1>2, <3>1, EventType, Zenon
  <2>3. AfterOpen(s.doc, array) \in Positions
    BY <1>1, AfterOpenType
  <2>4. ReadOpen(s, array) = Added(s, Reported(s, "open", 0, <<>>, array, <<>>),
                                   AfterOpen(s.doc, array), m, a)
    BY ReadOpenIs, Zenon
  <2> HIDE DEF a, m
  <2> QED
    BY <2>1, <2>2, <2>3, <2>4, AddedType, Zenon
<1>6. ASSUME s.doc.open # <<>> PROVE ReadClose(s) \in Readers
  <2> DEFINE a == SubSeq(s.around, 1, Len(s.around) - 1)
  <2>1. a \in Seq(Nat)
    BY <1>1
  <2>2. Reported(s, "close", 0, <<>>, FALSE, <<>>) \in Happenings
    <3>1. "close" \in EventTypes /\ 0 \in Nat /\ FALSE \in BOOLEAN
      BY DEF EventTypes
    <3> QED
      BY <1>2, <3>1, EventType, Zenon
  <2>3. AfterClose(s.doc) \in Positions
    BY <1>1, <1>6, AfterCloseType
  <2>4. ReadClose(s) = Added(s, Reported(s, "close", 0, <<>>, FALSE, <<>>),
                             AfterClose(s.doc), AfterItem(AfterClose(s.doc)), a)
    BY ReadCloseIs, Zenon
  <2>5. AfterItem(AfterClose(s.doc)) \in MarksDue
    BY MarkType
  <2> HIDE DEF a
  <2> QED
    BY <2>1, <2>2, <2>3, <2>4, <2>5, AddedType, Zenon
<1>7. ASSUME NEW mark \in MarksDue PROVE [s EXCEPT !.mark = mark] \in Readers
  BY DEF Readers
<1>8. [s EXCEPT !.good = FALSE] \in Readers
  BY DEF Readers
<1> QED
  BY <1>3, <1>4, <1>5, <1>6, <1>7, <1>8 DEF Read, TakesEnd, MarksDue

\* One token more.
ReadOn(s, token, i) == IF s.good THEN Read(s, token, i) ELSE s

LEMMA ReadOnType ==
    ASSUME NEW s \in Readers, NEW token \in Tokens, NEW i \in Nat
    PROVE  ReadOn(s, token, i) \in Readers
BY ReadType DEF ReadOn

IsReading(f, t) ==
    f = [i \in 0..Len(t) |->
            IF i = 0 THEN Reader ELSE ReadOn(f[i - 1], t[i], i)]

LEMMA ReadingExists ==
    ASSUME NEW t \in Seq(Tokens)
    PROVE  \E f \in [0..Len(t) -> Readers] : IsReading(f, t)
<1> DEFINE n == Len(t)
           step == [x \in Readers \X (1..n) |-> ReadOn(x[1], t[x[2]], x[2])]
<1>0. n \in Nat /\ \A i \in 1..n : t[i] \in Tokens
  OBVIOUS
<1>1. IsStep(step, Readers, n)
  <2> SUFFICES ASSUME NEW x \in Readers \X (1..n)
               PROVE  step[x] \in Readers
    BY DEF IsStep
  <2>1. x[1] \in Readers /\ t[x[2]] \in Tokens /\ x[2] \in Nat
    BY <1>0
  <2> QED
    BY <2>1, ReadOnType
<1>2. PICK f : /\ f \in [0..n -> Readers]
               /\ f[0] = Reader /\ \A i \in 1..n : f[i] = step[<<f[i - 1], i>>]
  <2> HIDE DEF step, n
  <2>1. \E f : Solution(f, Readers, n, Reader, step)
    BY <1>0, <1>1, ReaderType, Recursion, Zenon
  <2> QED
    BY <2>1 DEF Solution
<1>3. \A i \in 1..n : f[i] = ReadOn(f[i - 1], t[i], i)
  <2> SUFFICES ASSUME NEW i \in 1..n PROVE f[i] = ReadOn(f[i - 1], t[i], i)
    OBVIOUS
  <2>1. f[i - 1] \in Readers
    BY <1>0, <1>2
  <2> QED
    BY <1>2, <2>1
<1>4. IsReading(f, t)
  BY <1>0, <1>2, <1>3 DEF IsReading
<1> QED
  BY <1>2, <1>4

LEMMA ReadingIs ==
    ASSUME NEW t, Len(t) \in Nat, NEW f, IsReading(f, t)
    PROVE  Reading(t) = f[Len(t)]
<1>1. Reading(t) = (CHOOSE g : IsReading(g, t))[Len(t)]
  BY DEF Reading, IsReading, ReadOn
<1>2. ASSUME NEW g, IsReading(g, t)
      PROVE  g[Len(t)] = f[Len(t)]
  <2>1. f[0] = g[0] /\ \A i \in 1..Len(t) : f[i - 1] = g[i - 1] => f[i] = g[i]
    BY <1>2 DEF IsReading
  <2>2. \A i \in 0..Len(t) : f[i] = g[i]
    BY <2>1, SameSolution
  <2> QED
    BY <2>2
<1> QED
  BY <1>1, <1>2

LEMMA ReadingGrows ==
    ASSUME NEW s \in Seq(Tokens), NEW token \in Tokens
    PROVE  /\ Reading(s) \in Readers
           /\ Reading(Append(s, token)) = ReadOn(Reading(s), token, Len(s) + 1)
<1> DEFINE t == Append(s, token)
           n == Len(s)
<1>1. /\ t \in Seq(Tokens) /\ Len(t) = n + 1 /\ n \in Nat /\ t[n + 1] = token
      /\ \A i \in 1..n : t[i] = s[i]
  OBVIOUS
<1> HIDE DEF t
<1>2. PICK f \in [0..Len(t) -> Readers] : IsReading(f, t)
  BY <1>1, ReadingExists
<1>3. \A i \in 0..n + 1 : f[i] = IF i = 0 THEN Reader ELSE ReadOn(f[i - 1], t[i], i)
  BY <1>1, <1>2 DEF IsReading
<1> DEFINE g == [i \in 0..n |-> f[i]]
<1>4. IsReading(g, s)
  <2>1. \A i \in 0..n : /\ i \in 0..n + 1 /\ g[i] = f[i]
                        /\ i # 0 => t[i] = s[i] /\ g[i - 1] = f[i - 1]
    BY <1>1
  <2>2. g = [i \in 0..n |-> IF i = 0 THEN Reader ELSE ReadOn(g[i - 1], s[i], i)]
    BY <1>3, <2>1
  <2> QED
    BY <2>2 DEF IsReading
<1>5. Reading(s) = f[n]
  BY <1>1, <1>4, ReadingIs
<1>6. Reading(t) = f[n + 1]
  BY <1>1, <1>2, ReadingIs
<1>7. f[n + 1] = ReadOn(f[n], token, n + 1) /\ f[n] \in Readers
  <2>1. n + 1 \in 0..n + 1 /\ n + 1 # 0 /\ (n + 1) - 1 = n /\ n \in 0..Len(t)
    BY <1>1
  <2> QED
    BY <1>1, <1>2, <1>3, <2>1, Zenon
<1> QED
  BY <1>5, <1>6, <1>7 DEF t

LEMMA ReadingNothing == Reading(<<>>) = Reader
<1> DEFINE f == [i \in 0..0 |-> Reader]
<1>1. IsReading(f, <<>>) /\ f[0] = Reader /\ Len(<<>>) = 0
  BY DEF IsReading
<1> QED
  BY <1>1, ReadingIs

\* The state of the reader behind the first i tokens of a text.
Behind(t, i) == Reading(SubSeq(t, 1, i))

LEMMA BehindGrows ==
    ASSUME NEW t \in Seq(Tokens)
    PROVE  /\ Behind(t, 0) = Reader
           /\ Behind(t, Len(t)) = Reading(t)
           /\ \A i \in 0..Len(t) : Behind(t, i) \in Readers
           /\ \A i \in 1..Len(t) : Behind(t, i) = ReadOn(Behind(t, i - 1), t[i], i)
<1>0. Len(t) \in Nat /\ SubSeq(t, 1, Len(t)) = t /\ SubSeq(t, 1, 0) = <<>>
  OBVIOUS
<1>1. Behind(t, 0) = Reader /\ Behind(t, Len(t)) = Reading(t)
  BY <1>0, ReadingNothing, Zenon DEF Behind
<1>2. ASSUME NEW i \in 1..Len(t)
      PROVE  /\ Behind(t, i - 1) \in Readers
             /\ Behind(t, i) = ReadOn(Behind(t, i - 1), t[i], i)
  <2>1. /\ SubSeq(t, 1, i) = Append(SubSeq(t, 1, i - 1), t[i]) /\ t[i] \in Tokens
        /\ SubSeq(t, 1, i - 1) \in Seq(Tokens) /\ Len(SubSeq(t, 1, i - 1)) = i - 1
    BY Beginnings, Zenon
  <2>2. (i - 1) + 1 = i
    OBVIOUS
  <2> QED
    BY <2>1, <2>2, ReadingGrows, Zenon DEF Behind
<1>3. ASSUME NEW i \in 0..Len(t) PROVE Behind(t, i) \in Readers
  <2>1. CASE i = 0
    BY <1>1, <2>1, ReaderType
  <2>2. CASE i # 0
    <3>1. i \in 1..Len(t) /\ i \in Nat
      BY <1>0, <2>2
    <3>2. t[i] \in Tokens
      BY <3>1
    <3> QED
      BY <1>2, <3>1, <3>2, ReadOnType
  <2> QED
    BY <2>1, <2>2
<1> QED
  BY <1>1, <1>2, <1>3

(***************************************************************************)
(* What the reading of a document says of its events.                      *)
(***************************************************************************)

\* The containers behind an event, and behind several, by their openers.
AroundAfter(e) ==
    CASE e.type = "open"  -> Append(e.around, e.at)
      [] e.type = "close" -> SubSeq(e.around, 1, Len(e.around) - 1)
      [] OTHER -> e.around
Around(events) ==
    IF events = <<>> THEN <<>> ELSE AroundAfter(events[Len(events)])

Openers(events, around) ==
    \A p \in 1..Len(around) :
        /\ around[p] \in 1..Len(events)
        /\ events[around[p]].type = "open"
        /\ events[around[p]].around = SubSeq(around, 1, p - 1)

EndsInKey(events) == events # <<>> /\ events[Len(events)].type = "member"

\* An event knows its place; after the first, all are inside a container; a
\* key is followed by its value.
Follows(events, e) ==
    /\ e.at = Len(events) + 1
    /\ e.around = Around(events)
    /\ events # <<>> => e.around # <<>>
    /\ e.type = "close" => e.around # <<>>
    /\ EndsInKey(events) => e.type \in {"scalar", "open"}
    /\ e.type = "scalar" => e.name = ArgumentName(Place(events))
    /\ Openers(events, e.around)

WellFormed(events) ==
    \A j \in 1..Len(events) : Follows(SubSeq(events, 1, j - 1), events[j])

Sound(s) ==
    /\ s.doc = Place(s.events)
    /\ s.around = Around(s.events)
    /\ Len(s.around) = Len(s.doc.open)
    /\ Openers(s.events, s.around)
    /\ WellFormed(s.events)
    /\ s.doc.open = <<>> => s.mark = IF s.events = <<>> THEN "value" ELSE "end"
    /\ s.mark = "end" => s.doc.open = <<>>
    /\ EndsInKey(s.events) => s.mark \in {"colon", "value"}

LEMMA ReaderSound == Sound(Reader)
<1>1. /\ Reader.events = <<>> /\ Reader.around = <<>> /\ Reader.doc = Start
      /\ Reader.mark = "value" /\ Start.open = <<>>
  BY DEF Reader, Start
<1>2. Openers(<<>>, <<>>) /\ WellFormed(<<>>) /\ ~EndsInKey(<<>>) /\ Around(<<>>) = <<>>
  BY DEF Openers, WellFormed, EndsInKey, Around
<1> QED
  BY <1>1, <1>2, PlaceAtStart DEF Sound

LEMMA GrownIsWellFormed ==
    ASSUME NEW events \in Seq(Happenings), NEW e \in Happenings,
           WellFormed(events), Follows(events, e)
    PROVE  WellFormed(Append(events, e))
<1> DEFINE t == Append(events, e)
           n == Len(events)
<1>1. Len(t) = n + 1 /\ n \in Nat /\ t[n + 1] = e /\ \A j \in 1..n : t[j] = events[j]
  OBVIOUS
<1>2. \A j \in 1..n + 1 : SubSeq(t, 1, j - 1) = SubSeq(events, 1, j - 1)
  OBVIOUS
<1>3. SubSeq(events, 1, (n + 1) - 1) = events
  OBVIOUS
<1> HIDE DEF t
<1>4. ASSUME NEW j \in 1..n + 1 PROVE Follows(SubSeq(t, 1, j - 1), t[j])
  <2>1. CASE j = n + 1
    BY <1>1, <1>2, <1>3, <2>1
  <2>2. CASE j \in 1..n
    <3>1. Follows(SubSeq(events, 1, j - 1), events[j])
      BY <2>2 DEF WellFormed
    <3> QED
      BY <1>1, <1>2, <2>2, <3>1
  <2> QED
    BY <1>1, <2>1, <2>2
<1>5. WellFormed(t)
  BY <1>1, <1>4 DEF WellFormed
<1> QED
  BY <1>5 DEF t

LEMMA OpenersGrow ==
    ASSUME NEW events \in Seq(Happenings), NEW e \in Happenings,
           e.at = Len(events) + 1, Openers(events, e.around)
    PROVE  Openers(Append(events, e), AroundAfter(e))
<1> DEFINE t == Append(events, e)
           n == Len(events)
           a == e.around
           b == AroundAfter(e)
<1>1. Len(t) = n + 1 /\ n \in Nat /\ t[n + 1] = e /\ \A j \in 1..n : t[j] = events[j]
  OBVIOUS
<1>2. a \in Seq(Nat) /\ e.at \in Nat
  BY DEF Happenings
<1>3. \A p \in 1..Len(a) : /\ a[p] \in 1..n /\ events[a[p]].type = "open"
                           /\ events[a[p]].around = SubSeq(a, 1, p - 1)
  BY DEF Openers
<1>4. \A p \in 1..Len(a) : /\ a[p] \in 1..Len(t) /\ t[a[p]].type = "open"
                           /\ t[a[p]].around = SubSeq(a, 1, p - 1)
  BY <1>1, <1>3
<1> HIDE DEF t
<1>5. CASE e.type = "open"
  <2>1. b = Append(a, n + 1)
    BY <1>5 DEF AroundAfter
  <2>2. Len(b) = Len(a) + 1 /\ b[Len(a) + 1] = n + 1 /\ \A p \in 1..Len(a) : b[p] = a[p]
    BY <1>1, <1>2, <2>1
  <2>3. \A p \in 1..Len(a) + 1 : SubSeq(b, 1, p - 1) = SubSeq(a, 1, p - 1)
    BY <1>1, <1>2, <2>1
  <2>4. SubSeq(a, 1, (Len(a) + 1) - 1) = a
    BY <1>2
  <2> HIDE DEF b, a
  <2>5. ASSUME NEW p \in 1..Len(b)
        PROVE  /\ b[p] \in 1..Len(t) /\ t[b[p]].type = "open"
               /\ t[b[p]].around = SubSeq(b, 1, p - 1)
    <3>1. CASE p = Len(a) + 1
      <4>1. b[p] = n + 1 /\ n + 1 \in 1..Len(t) /\ SubSeq(b, 1, p - 1) = a
        BY <1>1, <2>2, <2>3, <2>4, <3>1
      <4>2. t[b[p]] = e
        BY <1>1, <4>1
      <4> QED
        BY <1>5, <4>1, <4>2 DEF a
    <3>2. CASE p \in 1..Len(a)
      <4>1. b[p] = a[p] /\ SubSeq(b, 1, p - 1) = SubSeq(a, 1, p - 1)
        <5>1. p \in 1..Len(a) + 1
          BY <1>2, <3>2
        <5> QED
          BY <2>2, <2>3, <3>2, <5>1
      <4> QED
        BY <1>4, <3>2, <4>1
    <3> QED
      BY <1>2, <2>2, <3>1, <3>2
  <2> QED
    BY <2>5 DEF Openers, t, b
<1>6. CASE e.type = "close"
  <2>1. b = SubSeq(a, 1, Len(a) - 1)
    BY <1>6 DEF AroundAfter
  <2>2. /\ \A p \in 1..Len(b) : p \in 1..Len(a) /\ b[p] = a[p]
        /\ \A p \in 1..Len(b) : SubSeq(b, 1, p - 1) = SubSeq(a, 1, p - 1)
    BY <1>2, <2>1
  <2> HIDE DEF b, a
  <2> QED
    BY <1>4, <2>2 DEF Openers, t, b
<1>7. CASE e.type \notin {"open", "close"}
  <2>1. b = a
    BY <1>7 DEF AroundAfter
  <2> QED
    BY <1>4, <2>1 DEF Openers, t
<1> QED
  BY <1>5, <1>6, <1>7

LEMMA AroundGrows ==
    ASSUME NEW events \in Seq(Happenings), NEW e \in Happenings
    PROVE  /\ Around(Append(events, e)) = AroundAfter(e)
           /\ EndsInKey(Append(events, e)) <=> e.type = "member"
<1>1. Append(events, e) # <<>> /\ Append(events, e)[Len(Append(events, e))] = e
  OBVIOUS
<1> QED
  BY <1>1 DEF Around, EndsInKey

LEMMA FrontLength ==
    ASSUME NEW S, NEW a \in Seq(S), Len(a) > 0
    PROVE  Len(SubSeq(a, 1, Len(a) - 1)) = Len(a) - 1
OBVIOUS

\* The events of the operations follow, and lead to a sound state again.
LEMMA AddedSound ==
    ASSUME NEW s \in Readers, Sound(s), NEW e \in Happenings,
           NEW place, NEW mark, NEW around,
           e.at = Len(s.events) + 1, e.around = s.around,
           place = After(s.doc, e), around = AroundAfter(e),
           s.events # <<>> => s.doc.open # <<>>,
           e.type = "close" => s.doc.open # <<>>,
           EndsInKey(s.events) => e.type \in {"scalar", "open"},
           e.type = "scalar" => e.name = ArgumentName(s.doc),
           place.open = <<>> <=> mark = "end",
           e.type = "member" => mark = "colon"
    PROVE  Sound(Added(s, e, place, mark, around))
<1>1. /\ s.doc \in Positions /\ s.events \in Seq(Happenings) /\ s.around \in Seq(Nat)
      /\ s.doc.open \in Seq(Containers) /\ e.type \in EventTypes /\ e.array \in BOOLEAN
      /\ e.key \in Seq(Byte)
  BY DEF Readers, Positions, Happenings
<1>2. /\ s.doc = Place(s.events) /\ s.around = Around(s.events)
      /\ Len(s.around) = Len(s.doc.open) /\ Openers(s.events, s.around)
      /\ WellFormed(s.events)
  BY DEF Sound
<1>3. s.doc.open # <<>> => s.around # <<>>
  BY <1>1, <1>2
<1>4. Follows(s.events, e)
  BY <1>2, <1>3 DEF Follows
<1> DEFINE v == Append(s.events, e)
<1>5. WellFormed(v) /\ Openers(v, around)
  BY <1>1, <1>2, <1>4, GrownIsWellFormed, OpenersGrow
<1>6. Around(v) = around /\ (EndsInKey(v) <=> e.type = "member")
  BY <1>1, AroundGrows
<1>7. Place(v) = place
  BY <1>1, <1>2, PlaceGrows
<1>8. Len(around) = Len(place.open)
  <2>1. CASE e.type = "scalar"
    BY <1>1, <1>2, <2>1, AfterValueType DEF After, AroundAfter
  <2>2. CASE e.type = "member"
    BY <1>1, <1>2, <2>2, AfterKeyType DEF After, AroundAfter
  <2>3. CASE e.type = "open"
    <3>1. Len(place.open) = Len(s.doc.open) + 1
      BY <1>1, <2>3, AfterOpenType DEF After
    <3>2. around = Append(s.around, e.at)
      BY <2>3 DEF AroundAfter
    <3> QED
      BY <1>1, <1>2, <3>1, <3>2
  <2>4. CASE e.type = "close"
    <3>1. Len(place.open) = Len(s.doc.open) - 1
      BY <1>1, <2>4, AfterCloseType DEF After
    <3>2. around = SubSeq(s.around, 1, Len(s.around) - 1) /\ Len(s.around) > 0
      BY <1>1, <1>3, <2>4 DEF AroundAfter
    <3>4. Len(around) = Len(s.around) - 1
      BY <1>1, <3>2, FrontLength
    <3> QED
      BY <1>2, <3>1, <3>4
  <2> QED
    BY <1>1, <2>1, <2>2, <2>3, <2>4 DEF EventTypes
<1>9. v # <<>>
  <2>1. Len(v) = Len(s.events) + 1 /\ Len(s.events) \in Nat
    BY <1>1
  <2> HIDE DEF v
  <2> QED
    BY <2>1
<1> HIDE DEF v
<1>10. Added(s, e, place, mark, around) =
        [doc |-> place, mark |-> mark, events |-> v, around |-> around, good |-> s.good]
  BY DEF Added, v
<1> QED
  BY <1>5, <1>6, <1>7, <1>8, <1>9, <1>10 DEF Sound

\* What a token can do.
LEMMA ReadCases ==
    ASSUME NEW s, NEW token, NEW i
    PROVE
       \/ token.type \in ScalarTypes /\ TakesValue(s) /\ Read(s, token, i) = ReadScalar(s, i)
       \/ /\ token.type \in {"{", "["} /\ TakesValue(s)
          /\ \E array \in BOOLEAN : Read(s, token, i) = ReadOpen(s, array)
       \/ token.type = "string" /\ TakesKey(s) /\ Read(s, token, i) = ReadKey(s, token.text)
       \/ /\ token.type \in {"}", "]"} /\ \E array \in BOOLEAN : TakesEnd(s, array)
          /\ Read(s, token, i) = ReadClose(s)
       \/ token.type = ":" /\ s.mark = "colon" /\ Read(s, token, i) = [s EXCEPT !.mark = "value"]
       \/ /\ token.type = "," /\ s.mark = "after"
          /\ Read(s, token, i) = [s EXCEPT !.mark = IF InArray(s.doc) THEN "value" ELSE "key"]
       \/ Read(s, token, i) = [s EXCEPT !.good = FALSE]
<1>0. (token.type = "[") \in BOOLEAN /\ (token.type = "]") \in BOOLEAN
  OBVIOUS
<1> DEFINE opens == token.type \in {"{", "["} /\ TakesValue(s)
           ends == token.type \in {"}", "]"} /\ TakesEnd(s, token.type = "]")
           value == token.type \in ScalarTypes /\ TakesValue(s)
           names == token.type = "string" /\ TakesKey(s)
           colon == token.type = ":" /\ s.mark = "colon"
           comma == token.type = "," /\ s.mark = "after"
<1>1. CASE opens
  <2>1. Read(s, token, i) = ReadOpen(s, token.type = "[")
    BY <1>1 DEF Read, ScalarTypes
  <2> QED
    BY <1>0, <1>1, <2>1, Zenon
<1>2. CASE ends
  <2>1. Read(s, token, i) = ReadClose(s)
    BY <1>2 DEF Read, ScalarTypes
  <2> QED
    BY <1>0, <1>2, <2>1, Zenon
<1>3. CASE value
  <2>1. Read(s, token, i) = ReadScalar(s, i)
    BY <1>3 DEF Read, ScalarTypes, TakesValue, TakesKey
  <2> QED
    BY <1>3, <2>1
<1>4. CASE names
  <2>1. Read(s, token, i) = ReadKey(s, token.text)
    BY <1>4 DEF Read, ScalarTypes, TakesValue, TakesKey
  <2> QED
    BY <1>4, <2>1
<1>5. CASE colon
  BY <1>5 DEF Read, ScalarTypes
<1>6. CASE comma
  BY <1>6 DEF Read, ScalarTypes
<1>7. CASE ~opens /\ ~ends /\ ~value /\ ~names /\ ~colon /\ ~comma
  BY <1>7 DEF Read
<1> QED
  BY <1>1, <1>2, <1>3, <1>4, <1>5, <1>6, <1>7, Zenon

\* A good token after a sound state leads to a sound state.
LEMMA ReadSound ==
    ASSUME NEW s \in Readers, Sound(s), s.good, NEW token \in Tokens, NEW i \in Nat,
           Read(s, token, i).good
    PROVE  Sound(Read(s, token, i))
<1>1. /\ s.doc \in Positions /\ s.events \in Seq(Happenings) /\ s.around \in Seq(Nat)
      /\ Len(s.events) + 1 \in Nat
  BY DEF Readers
<1>2. /\ <<>> \in Seq(Byte) /\ token.text \in Seq(Byte) /\ 0 \in Nat /\ FALSE \in BOOLEAN
      /\ ArgumentName(s.doc) \in Seq(Byte)
  BY <1>1, NameType DEF Tokens
<1>3. /\ s.doc.open = <<>> => s.mark = IF s.events = <<>> THEN "value" ELSE "end"
      /\ s.mark = "end" => s.doc.open = <<>>
      /\ EndsInKey(s.events) => s.mark \in {"colon", "value"}
  BY DEF Sound
<1>4. \A d : d.open = <<>> <=> AfterItem(d) = "end"
  BY DEF AfterItem
<1>5. ASSUME TakesValue(s) PROVE Sound(ReadScalar(s, i))
  <2> DEFINE e == Reported(s, "scalar", i, <<>>, FALSE, ArgumentName(s.doc))
  <2>1. e \in Happenings
    BY <1>2, EventType, Zenon DEF EventTypes
  <2>2. /\ e.type = "scalar" /\ e.at = Len(s.events) + 1 /\ e.around = s.around
        /\ e.name = ArgumentName(s.doc)
    BY DEF Reported
  <2>3. s.events # <<>> => s.doc.open # <<>>
    BY <1>3, <1>5 DEF TakesValue
  <2> HIDE DEF e
  <2>4. AfterValue(s.doc) = After(s.doc, e) /\ s.around = AroundAfter(e)
    BY <2>2 DEF After, AroundAfter
  <2>5. ReadScalar(s, i) =
          Added(s, e, AfterValue(s.doc), AfterItem(AfterValue(s.doc)), s.around)
    BY ReadScalarIs, Zenon DEF e
  <2>6. AfterValue(s.doc).open = <<>> <=> AfterItem(AfterValue(s.doc)) = "end"
    BY <1>4
  <2> QED
    BY <2>1, <2>2, <2>3, <2>4, <2>5, <2>6, AddedSound
<1>6. ASSUME TakesKey(s) PROVE Sound(ReadKey(s, token.text))
  <2> DEFINE e == Reported(s, "member", 0, token.text, FALSE, <<>>)
  <2>1. e \in Happenings
    BY <1>2, EventType, Zenon DEF EventTypes
  <2>2. /\ e.type = "member" /\ e.at = Len(s.events) + 1 /\ e.around = s.around
        /\ e.key = token.text
    BY DEF Reported
  <2>3. s.doc.open # <<>> /\ ~EndsInKey(s.events)
    BY <1>3, <1>6 DEF TakesKey
  <2> HIDE DEF e
  <2>4. AfterKey(s.doc, token.text) = After(s.doc, e) /\ s.around = AroundAfter(e)
    BY <2>2 DEF After, AroundAfter
  <2>5. ReadKey(s, token.text) =
          Added(s, e, AfterKey(s.doc, token.text), "colon", s.around)
    BY ReadKeyIs, Zenon DEF e
  <2>6. AfterKey(s.doc, token.text).open # <<>>
    BY <1>1, <1>2, <2>3, AfterKeyType
  <2> QED
    BY <2>1, <2>2, <2>3, <2>4, <2>5, <2>6, AddedSound
<1>7. ASSUME TakesValue(s), NEW array \in BOOLEAN PROVE Sound(ReadOpen(s, array))
  <2> DEFINE e == Reported(s, "open", 0, <<>>, array, <<>>)
             m == IF array THEN "element" ELSE "member"
             a == Append(s.around, Len(s.events) + 1)
  <2>1. e \in Happenings
    BY <1>2, EventType, Zenon DEF EventTypes
  <2>2. /\ e.type = "open" /\ e.at = Len(s.events) + 1 /\ e.around = s.around
        /\ e.array = array
    BY DEF Reported
  <2>3. s.events # <<>> => s.doc.open # <<>>
    BY <1>3, <1>7 DEF TakesValue
  <2>5. ReadOpen(s, array) = Added(s, e, AfterOpen(s.doc, array), m, a)
    BY ReadOpenIs, Zenon
  <2> HIDE DEF e
  <2>4. AfterOpen(s.doc, array) = After(s.doc, e) /\ a = AroundAfter(e)
    BY <2>2 DEF After, AroundAfter
  <2>6. AfterOpen(s.doc, array).open # <<>> /\ m # "end"
    BY <1>1, DueInside
  <2> HIDE DEF m, a
  <2> QED
    BY <2>1, <2>2, <2>3, <2>4, <2>5, <2>6, AddedSound
<1>8. ASSUME NEW array \in BOOLEAN, TakesEnd(s, array) PROVE Sound(ReadClose(s))
  <2> DEFINE e == Reported(s, "close", 0, <<>>, FALSE, <<>>)
             a == SubSeq(s.around, 1, Len(s.around) - 1)
  <2>1. e \in Happenings
    BY <1>2, EventType, Zenon DEF EventTypes
  <2>2. /\ e.type = "close" /\ e.at = Len(s.events) + 1 /\ e.around = s.around
    BY DEF Reported
  <2>3. s.doc.open # <<>> /\ ~EndsInKey(s.events)
    BY <1>3, <1>8 DEF TakesEnd
  <2>5. ReadClose(s) = Added(s, e, AfterClose(s.doc), AfterItem(AfterClose(s.doc)), a)
    BY ReadCloseIs, Zenon
  <2> HIDE DEF e
  <2>4. AfterClose(s.doc) = After(s.doc, e) /\ a = AroundAfter(e)
    BY <2>2, <2>3 DEF After, AroundAfter
  <2> HIDE DEF a
  <2> QED
    BY <1>4, <2>1, <2>2, <2>3, <2>4, <2>5, AddedSound
<1>9. ASSUME NEW mark \in MarksDue, s.doc.open # <<>>, mark # "end",
             EndsInKey(s.events) => mark \in {"colon", "value"},
             NEW r, r = [s EXCEPT !.mark = mark]
      PROVE  Sound(r)
  <2>1. /\ r.doc = s.doc /\ r.events = s.events /\ r.around = s.around /\ r.mark = mark
    BY <1>9 DEF Readers
  <2> QED
    BY <1>9, <2>1 DEF Sound
<1>10. CASE token.type = ":" /\ s.mark = "colon" /\ Read(s, token, i) = [s EXCEPT !.mark = "value"]
  <2>1. s.doc.open # <<>>
    BY <1>3, <1>10
  <2>2. "value" \in MarksDue
    BY DEF MarksDue
  <2> QED
    BY <1>9, <1>10, <2>1, <2>2
<1>11. CASE /\ token.type = "," /\ s.mark = "after"
            /\ Read(s, token, i) = [s EXCEPT !.mark = IF InArray(s.doc) THEN "value" ELSE "key"]
  <2> DEFINE m == IF InArray(s.doc) THEN "value" ELSE "key"
  <2>1. s.doc.open # <<>> /\ ~EndsInKey(s.events)
    BY <1>3, <1>11
  <2>2. m \in MarksDue /\ m # "end"
    BY DEF MarksDue
  <2> HIDE DEF m
  <2>3. Read(s, token, i) = [s EXCEPT !.mark = m]
    BY <1>11 DEF m
  <2> QED
    BY <1>9, <2>1, <2>2, <2>3
<1>12. (
       \/ token.type \in ScalarTypes /\ TakesValue(s) /\ Read(s, token, i) = ReadScalar(s, i)
       \/ /\ token.type \in {"{", "["} /\ TakesValue(s)
          /\ \E array \in BOOLEAN : Read(s, token, i) = ReadOpen(s, array)
       \/ token.type = "string" /\ TakesKey(s) /\ Read(s, token, i) = ReadKey(s, token.text)
       \/ /\ token.type \in {"}", "]"} /\ \E array \in BOOLEAN : TakesEnd(s, array)
          /\ Read(s, token, i) = ReadClose(s)
       \/ token.type = ":" /\ s.mark = "colon" /\ Read(s, token, i) = [s EXCEPT !.mark = "value"]
       \/ /\ token.type = "," /\ s.mark = "after"
          /\ Read(s, token, i) = [s EXCEPT !.mark = IF InArray(s.doc) THEN "value" ELSE "key"]
       \/ Read(s, token, i) = [s EXCEPT !.good = FALSE])
  BY ReadCases, Zenon
<1>13. [s EXCEPT !.good = FALSE].good = FALSE
  BY DEF Readers
<1> QED
  BY <1>5, <1>6, <1>7, <1>8, <1>10, <1>11, <1>12, <1>13

(***************************************************************************)
(* A document: every token of it is good, and its events are those of its  *)
(* beginnings.                                                             *)
(***************************************************************************)

LEMMA DocumentGood ==
    ASSUME NEW t \in Seq(Tokens), IsDocument(t)
    PROVE  /\ \A i \in 0..Len(t) : Behind(t, i).good
           /\ \A i \in 1..Len(t) : Behind(t, i) = Read(Behind(t, i - 1), t[i], i)
<1> DEFINE n == Len(t)
<1>0. n \in Nat
  OBVIOUS
<1>1. Behind(t, n).good
  BY BehindGrows DEF IsDocument
<1>2. ASSUME NEW i \in 0..n PROVE Behind(t, i).good
  <2> SUFFICES ASSUME ~Behind(t, i).good PROVE FALSE
    OBVIOUS
  <2> DEFINE m == n - i
             T == {j \in 0..m : ~Behind(t, i + j).good}
  <2>1. 0 \in T /\ m \in Nat
    BY <1>0
  <2>2. \A j \in 1..m : j - 1 \in T => j \in T
    <3> SUFFICES ASSUME NEW j \in 1..m, ~Behind(t, i + (j - 1)).good
                 PROVE  ~Behind(t, i + j).good
      BY <1>0
    <3>1. i + j \in 1..n /\ i + (j - 1) = (i + j) - 1
      BY <1>0
    <3>2. Behind(t, i + j) = ReadOn(Behind(t, (i + j) - 1), t[i + j], i + j)
      BY <3>1, BehindGrows, Zenon
    <3> QED
      BY <3>1, <3>2, Zenon DEF ReadOn
  <2>3. m \in T
    <3> HIDE DEF T, m
    <3>1. m \in 0..m
      BY <2>1
    <3> QED
      BY <2>1, <2>2, <3>1, AllLengths
  <2>4. i + (n - i) = n
    BY <1>0
  <2> QED
    BY <1>1, <2>3, <2>4
<1>3. ASSUME NEW i \in 1..n PROVE Behind(t, i) = Read(Behind(t, i - 1), t[i], i)
  <2>1. i - 1 \in 0..n
    BY <1>0
  <2> QED
    BY <1>2, <2>1, BehindGrows DEF ReadOn
<1> QED
  BY <1>2, <1>3

LEMMA DocumentSound ==
    ASSUME NEW t \in Seq(Tokens), IsDocument(t)
    PROVE  \A i \in 0..Len(t) : Sound(Behind(t, i))
<1> DEFINE n == Len(t)
           T == {i \in 0..n : Sound(Behind(t, i))}
<1>0. n \in Nat
  OBVIOUS
<1>1. 0 \in T
  BY <1>0, ReaderSound, BehindGrows
<1>2. \A i \in 1..n : i - 1 \in T => i \in T
  <2> SUFFICES ASSUME NEW i \in 1..n, Sound(Behind(t, i - 1)) PROVE Sound(Behind(t, i))
    BY <1>0
  <2>1. i - 1 \in 0..n /\ i \in 0..n /\ i \in Nat
    BY <1>0
  <2>2. /\ Behind(t, i) = Read(Behind(t, i - 1), t[i], i)
        /\ Behind(t, i).good /\ Behind(t, i - 1).good
    BY <2>1, DocumentGood
  <2>3. Behind(t, i - 1) \in Readers /\ t[i] \in Tokens
    BY <2>1, BehindGrows
  <2> QED
    BY <2>1, <2>2, <2>3, ReadSound, Zenon
<1> HIDE DEF T, n
<1>3. \A i \in 0..n : i \in T
  BY <1>0, <1>1, <1>2, AllLengths
<1> QED
  BY <1>3 DEF T, n

\* What the event e says of the token it comes from.
Stems(e, t) ==
    /\ e.type = "scalar" => e.index \in DOMAIN t /\ t[e.index].type \in ScalarTypes
    /\ e.type = "member" => \E i \in DOMAIN t : t[i].type = "string" /\ t[i].text = e.key

\* The token i leads the reader from s to r and adds the event e.
Tells(t, i, s, r, e) ==
    /\ e \in Happenings /\ Stems(e, t)
    /\ r.events = Append(s.events, e)
    /\ e.around = s.around /\ r.around = AroundAfter(e)
    /\ \/ /\ t[i].type \in ScalarTypes /\ TakesValue(s) /\ e.type = "scalar"
          /\ e.index = i /\ r.mark # "colon"
       \/ /\ t[i].type = "string" /\ TakesKey(s) /\ e.type = "member"
          /\ e.key = t[i].text /\ r.mark = "colon"
       \/ t[i].type \in {"{", "["} /\ TakesValue(s) /\ e.type = "open"
       \/ t[i].type \in {"}", "]"} /\ s.mark # "colon" /\ e.type = "close"

LEMMA AddedFields ==
    ASSUME NEW s, NEW e, NEW place, NEW mark, NEW around
    PROVE  /\ Added(s, e, place, mark, around).events = Append(s.events, e)
           /\ Added(s, e, place, mark, around).mark = mark
           /\ Added(s, e, place, mark, around).around = around
BY DEF Added

LEMMA TokenTells ==
    ASSUME NEW t \in Seq(Tokens), NEW i \in 1..Len(t), NEW s \in Readers, NEW r,
           r = Read(s, t[i], i), r.good
    PROVE  \/ /\ \/ t[i].type = ":" /\ s.mark = "colon"
                 \/ t[i].type = "," /\ s.mark = "after"
              /\ r.events = s.events /\ r.around = s.around
           \/ \E e : Tells(t, i, s, r, e)
<1>0. /\ s.events \in Seq(Happenings) /\ s.around \in Seq(Nat) /\ s.doc \in Positions
      /\ t[i] \in Tokens /\ i \in Nat /\ i \in DOMAIN t
  BY DEF Readers
<1>1. /\ <<>> \in Seq(Byte) /\ t[i].text \in Seq(Byte) /\ 0 \in Nat /\ FALSE \in BOOLEAN
      /\ ArgumentName(s.doc) \in Seq(Byte)
  BY <1>0, NameType DEF Tokens
<1>2. CASE t[i].type \in ScalarTypes /\ TakesValue(s) /\ r = ReadScalar(s, i)
  <2> DEFINE e == Reported(s, "scalar", i, <<>>, FALSE, ArgumentName(s.doc))
  <2>1. e \in Happenings
    BY <1>0, <1>1, EventType, Zenon DEF EventTypes
  <2>2. e.type = "scalar" /\ e.index = i /\ e.around = s.around
    BY DEF Reported
  <2>3. r = Added(s, e, AfterValue(s.doc), AfterItem(AfterValue(s.doc)), s.around)
    BY <1>0, <1>2, ReadScalarIs, Zenon
  <2> HIDE DEF e
  <2>4. /\ r.events = Append(s.events, e) /\ r.around = AroundAfter(e)
        /\ r.mark # "colon"
    <3>1. AfterItem(AfterValue(s.doc)) # "colon"
      BY DEF AfterItem
    <3> QED
      BY <2>2, <2>3, <3>1, AddedFields DEF AroundAfter
  <2>5. Tells(t, i, s, r, e)
    BY <1>0, <1>2, <2>1, <2>2, <2>4 DEF Tells, Stems
  <2> QED
    BY <2>5
<1>3. CASE t[i].type = "string" /\ TakesKey(s) /\ r = ReadKey(s, t[i].text)
  <2> DEFINE e == Reported(s, "member", 0, t[i].text, FALSE, <<>>)
  <2>1. e \in Happenings
    BY <1>1, EventType, Zenon DEF EventTypes
  <2>2. e.type = "member" /\ e.key = t[i].text /\ e.around = s.around
    BY DEF Reported
  <2>3. r = Added(s, e, AfterKey(s.doc, t[i].text), "colon", s.around)
    BY <1>3, ReadKeyIs, Zenon
  <2> HIDE DEF e
  <2>4. r.events = Append(s.events, e) /\ r.around = AroundAfter(e) /\ r.mark = "colon"
    BY <2>2, <2>3, AddedFields DEF AroundAfter
  <2>5. Tells(t, i, s, r, e)
    BY <1>0, <1>3, <2>1, <2>2, <2>4 DEF Tells, Stems
  <2> QED
    BY <2>5
<1>4. ASSUME NEW array \in BOOLEAN, t[i].type \in {"{", "["}, TakesValue(s),
             r = ReadOpen(s, array)
      PROVE  \E e : Tells(t, i, s, r, e)
  <2> DEFINE e == Reported(s, "open", 0, <<>>, array, <<>>)
             a == Append(s.around, Len(s.events) + 1)
             m == IF array THEN "element" ELSE "member"
  <2>1. e \in Happenings
    BY <1>1, EventType, Zenon DEF EventTypes
  <2>2. e.type = "open" /\ e.at = Len(s.events) + 1 /\ e.around = s.around
    BY DEF Reported
  <2>3. r = Added(s, e, AfterOpen(s.doc, array), m, a)
    BY <1>4, ReadOpenIs, Zenon
  <2> HIDE DEF e, m
  <2>a. AroundAfter(e) = a
    BY <2>2 DEF AroundAfter
  <2> HIDE DEF a
  <2>4. r.events = Append(s.events, e) /\ r.around = AroundAfter(e)
    BY <2>3, <2>a, AddedFields
  <2>5. Tells(t, i, s, r, e)
    BY <1>0, <1>4, <2>1, <2>2, <2>4 DEF Tells, Stems
  <2> QED
    BY <2>5
<1>5. CASE /\ t[i].type \in {"}", "]"} /\ \E array \in BOOLEAN : TakesEnd(s, array)
           /\ r = ReadClose(s)
  <2>0. s.mark # "colon"
    BY <1>5 DEF TakesEnd
  <2> DEFINE e == Reported(s, "close", 0, <<>>, FALSE, <<>>)
             a == SubSeq(s.around, 1, Len(s.around) - 1)
  <2>1. e \in Happenings
    BY <1>1, EventType, Zenon DEF EventTypes
  <2>2. e.type = "close" /\ e.at = Len(s.events) + 1 /\ e.around = s.around
    BY DEF Reported
  <2>3. r = Added(s, e, AfterClose(s.doc), AfterItem(AfterClose(s.doc)), a)
    BY <1>5, ReadCloseIs, Zenon
  <2> HIDE DEF e
  <2>a. AroundAfter(e) = a
    BY <2>2 DEF AroundAfter
  <2> HIDE DEF a
  <2>4. r.events = Append(s.events, e) /\ r.around = AroundAfter(e)
    BY <2>3, <2>a, AddedFields
  <2>5. Tells(t, i, s, r, e)
    BY <1>0, <1>5, <2>0, <2>1, <2>2, <2>4 DEF Tells, Stems
  <2> QED
    BY <2>5
<1>6. ASSUME NEW mark, r = [s EXCEPT !.mark = mark]
      PROVE  r.events = s.events /\ r.around = s.around
  BY <1>6 DEF Readers
<1>7. [s EXCEPT !.good = FALSE].good = FALSE
  BY DEF Readers
<1>8. CASE /\ t[i].type = ":" /\ s.mark = "colon"
           /\ r = [s EXCEPT !.mark = "value"]
  BY <1>6, <1>8
<1>9. CASE /\ t[i].type = "," /\ s.mark = "after"
           /\ r = [s EXCEPT !.mark = IF InArray(s.doc) THEN "value" ELSE "key"]
  BY <1>6, <1>9
<1>10. (
       \/ t[i].type \in ScalarTypes /\ TakesValue(s) /\ Read(s, t[i], i) = ReadScalar(s, i)
       \/ /\ t[i].type \in {"{", "["} /\ TakesValue(s)
          /\ \E array \in BOOLEAN : Read(s, t[i], i) = ReadOpen(s, array)
       \/ t[i].type = "string" /\ TakesKey(s) /\ Read(s, t[i], i) = ReadKey(s, t[i].text)
       \/ /\ t[i].type \in {"}", "]"} /\ \E array \in BOOLEAN : TakesEnd(s, array)
          /\ Read(s, t[i], i) = ReadClose(s)
       \/ t[i].type = ":" /\ s.mark = "colon" /\ Read(s, t[i], i) = [s EXCEPT !.mark = "value"]
       \/ /\ t[i].type = "," /\ s.mark = "after"
          /\ Read(s, t[i], i) = [s EXCEPT !.mark = IF InArray(s.doc) THEN "value" ELSE "key"]
       \/ Read(s, t[i], i) = [s EXCEPT !.good = FALSE])
  BY ReadCases, Zenon
<1>11. ~(Read(s, t[i], i) = [s EXCEPT !.good = FALSE])
  BY <1>7
<1> QED
  BY <1>2, <1>3, <1>4, <1>5, <1>8, <1>9, <1>10, <1>11, Zenon

LEMMA ShorterBeginning ==
    ASSUME NEW S, NEW s \in Seq(S), NEW m \in 0..Len(s), NEW k \in 0..m
    PROVE  SubSeq(SubSeq(s, 1, m), 1, k) = SubSeq(s, 1, k)
OBVIOUS

\* A sequence that only grows, item by item, begins with what it was.
Grows(f, n, S) ==
    /\ n \in Nat /\ f \in [0..n -> Seq(S)]
    /\ \A i \in 1..n : f[i] = f[i - 1] \/ \E e : f[i] = Append(f[i - 1], e)

LEMMA GrownFrom ==
    ASSUME NEW S, NEW n, NEW f, Grows(f, n, S), NEW i \in 0..n
    PROVE  Len(f[i]) <= Len(f[n]) /\ f[i] = SubSeq(f[n], 1, Len(f[i]))
<1> DEFINE E == f[n]
           P(j) == Len(f[j]) <= Len(E) /\ f[j] = SubSeq(E, 1, Len(f[j]))
           T == {j \in 0..n : P(n - j)}
<1>0. n \in Nat /\ \A j \in 0..n : f[j] \in Seq(S)
  BY DEF Grows
<1>2. E \in Seq(S)
  BY <1>0
<1> HIDE DEF E
<1>4. 0 \in T
  <2>1. SubSeq(E, 1, Len(E)) = E /\ Len(E) <= Len(E) /\ n - 0 = n
    BY <1>0, <1>2
  <2> QED
    BY <1>0, <1>2, <2>1 DEF E
<1>5. \A j \in 1..n : j - 1 \in T => j \in T
  <2> SUFFICES ASSUME NEW j \in 1..n, P(n - (j - 1)) PROVE P(n - j)
    BY <1>0
  <2> DEFINE k == n - j
             w == f[k]
  <2>1. n - (j - 1) = k + 1 /\ k \in 0..n /\ k + 1 \in 1..n /\ (k + 1) - 1 = k
    BY <1>0
  <2>2. w \in Seq(S) /\ P(k + 1)
    BY <1>0, <2>1
  <2>3. f[k + 1] = w \/ \E e : f[k + 1] = Append(w, e)
    BY <2>1 DEF Grows
  <2> HIDE DEF w, k
  <2>4. CASE f[k + 1] = w
    BY <2>2, <2>4 DEF w, k
  <2>5. ASSUME NEW e, f[k + 1] = Append(w, e) PROVE P(k)
    <3> DEFINE u == f[k + 1]
    <3>1. /\ Len(u) = Len(w) + 1 /\ Len(w) \in Nat /\ Len(u) <= Len(E)
          /\ u = SubSeq(E, 1, Len(u)) /\ u = Append(w, e)
      BY <2>2, <2>5
    <3> HIDE DEF u
    <3>2. Len(w) <= Len(E)
      BY <1>2, <3>1
    <3>3. SubSeq(E, 1, Len(w)) = SubSeq(u, 1, Len(w))
      <4>1. Len(u) \in 0..Len(E) /\ Len(w) \in 0..Len(u)
        BY <1>2, <3>1
      <4>2. SubSeq(SubSeq(E, 1, Len(u)), 1, Len(w)) = SubSeq(E, 1, Len(w))
        BY <1>2, <4>1, ShorterBeginning
      <4> QED
        BY <3>1, <4>2
    <3>4. SubSeq(u, 1, Len(w)) = w
      BY <2>2, <3>1
    <3> QED
      BY <3>2, <3>3, <3>4 DEF w
  <2> QED
    BY <2>3, <2>4, <2>5 DEF k
<1> HIDE DEF P
<1>6. \A j \in 0..n : j \in T
  <2> HIDE DEF T
  <2> QED
    BY <1>0, <1>4, <1>5, AllLengths
<1>7. P(i)
  <2>1. n - i \in 0..n /\ n - (n - i) = i
    BY <1>0
  <2> QED
    BY <1>6, <2>1
<1> QED
  BY <1>7 DEF P, E

\* The reader behind a token of a document, and the event it has told.
LEMMA DocumentPrefix ==
    ASSUME NEW t \in Seq(Tokens), IsDocument(t), NEW i \in 0..Len(t)
    PROVE  /\ Behind(t, i).events \in Seq(Happenings)
           /\ Len(Behind(t, i).events) <= Len(Events(t))
           /\ Behind(t, i).events = SubSeq(Events(t), 1, Len(Behind(t, i).events))
<1> DEFINE n == Len(t)
           f == [j \in 0..n |-> Behind(t, j).events]
<1>0. n \in Nat
  OBVIOUS
<1>1. \A j \in 0..n : Behind(t, j).events \in Seq(Happenings)
  BY BehindGrows DEF Readers
<1>2. ASSUME NEW j \in 1..n
      PROVE  f[j] = f[j - 1] \/ \E e : f[j] = Append(f[j - 1], e)
  <2> DEFINE s == Behind(t, j - 1)
             r == Behind(t, j)
  <2>0. j - 1 \in 0..n /\ j \in 0..n
    BY <1>0
  <2>1. s \in Readers /\ r.good /\ r = Read(s, t[j], j)
    BY <2>0, BehindGrows, DocumentGood
  <2> HIDE DEF s, r
  <2>2. r.events = s.events \/ \E e : Tells(t, j, s, r, e)
    BY <2>1, TokenTells
  <2>3. r.events = s.events \/ \E e : r.events = Append(s.events, e)
    BY <2>2 DEF Tells
  <2>4. f[j] = r.events /\ f[j - 1] = s.events
    BY <2>0 DEF s, r
  <2> QED
    BY <2>3, <2>4
<1>3. Grows(f, n, Happenings)
  <2>1. f \in [0..n -> Seq(Happenings)]
    BY <1>1
  <2> QED
    BY <1>0, <1>2, <2>1 DEF Grows
<1>4. f[i] = Behind(t, i).events /\ f[n] = Events(t)
  BY <1>0, BehindGrows DEF Events
<1> HIDE DEF f, n
<1>5. i \in 0..n
  BY DEF n
<1>6. Len(f[i]) <= Len(f[n]) /\ f[i] = SubSeq(f[n], 1, Len(f[i]))
  BY <1>3, <1>5, GrownFrom
<1> QED
  BY <1>1, <1>4, <1>5, <1>6 DEF n

LEMMA DocumentStep ==
    ASSUME NEW t \in Seq(Tokens), IsDocument(t), NEW i \in 1..Len(t),
           NEW s, s = Behind(t, i - 1), NEW r, r = Behind(t, i)
    PROVE  /\ s \in Readers /\ r \in Readers /\ r.good
           /\ r = Read(s, t[i], i)
           /\ \/ /\ \/ t[i].type = ":" /\ s.mark = "colon"
                    \/ t[i].type = "," /\ s.mark = "after"
                 /\ r.events = s.events /\ r.around = s.around
              \/ /\ Len(s.events) + 1 \in 1..Len(Events(t))
                 /\ Len(r.events) = Len(s.events) + 1
                 /\ Tells(t, i, s, r, Events(t)[Len(s.events) + 1])
<1> DEFINE E == Events(t)
           k == Len(s.events)
<1>0. i - 1 \in 0..Len(t) /\ i \in 0..Len(t)
  OBVIOUS
<1>1. s \in Readers /\ r \in Readers /\ r.good /\ r = Read(s, t[i], i)
  BY <1>0, BehindGrows, DocumentGood
<1>2. Len(r.events) <= Len(E) /\ r.events = SubSeq(E, 1, Len(r.events))
  BY <1>0, DocumentPrefix
<1>3. s.events \in Seq(Happenings) /\ r.events \in Seq(Happenings) /\ E \in Seq(Happenings)
  <2>1. E = Behind(t, Len(t)).events
    BY BehindGrows DEF Events
  <2>2. Len(t) \in 0..Len(t)
    OBVIOUS
  <2> QED
    BY <1>0, <2>1, <2>2, DocumentPrefix
<1> HIDE DEF E
<1>4. ASSUME NEW e, Tells(t, i, s, r, e)
      PROVE  k + 1 \in 1..Len(E) /\ Len(r.events) = k + 1 /\ e = E[k + 1]
  <2>1. r.events = Append(s.events, e)
    BY <1>4 DEF Tells
  <2> DEFINE v == r.events
  <2>2. Len(v) = k + 1 /\ k \in Nat /\ v[k + 1] = e
    BY <1>3, <2>1
  <2> HIDE DEF v
  <2>3. v = SubSeq(E, 1, k + 1) /\ k + 1 <= Len(E)
    BY <1>2, <2>2 DEF v
  <2>4. SubSeq(E, 1, k + 1)[k + 1] = E[k + 1]
    BY <1>3, <2>2, <2>3
  <2> QED
    BY <1>3, <2>2, <2>3, <2>4 DEF v
<1> QED
  BY <1>1, <1>4, TokenTells DEF E

\* The events of a document, each said by one of its tokens.
Told(t) == {e \in Happenings : Stems(e, t)}

LEMMA DocumentTold ==
    ASSUME NEW t \in Seq(Tokens), IsDocument(t)
    PROVE  Events(t) \in Seq(Told(t))
<1> DEFINE n == Len(t)
           T == {i \in 0..n : Behind(t, i).events \in Seq(Told(t))}
<1>0. n \in Nat
  OBVIOUS
<1>1. 0 \in T
  <2>1. Behind(t, 0).events = <<>> /\ <<>> \in Seq(Told(t))
    BY BehindGrows DEF Reader
  <2>2. Behind(t, 0).events \in Seq(Told(t))
    BY <2>1, Zenon
  <2> QED
    BY <1>0, <2>2
<1>2. \A i \in 1..n : i - 1 \in T => i \in T
  <2> SUFFICES ASSUME NEW i \in 1..n, Behind(t, i - 1).events \in Seq(Told(t))
               PROVE  Behind(t, i).events \in Seq(Told(t))
    BY <1>0
  <2> DEFINE s == Behind(t, i - 1)
             r == Behind(t, i)
  <2> HIDE DEF s, r
  <2>1. r.events = s.events \/ \E e : Tells(t, i, s, r, e)
    BY DocumentStep DEF s, r
  <2>2. ASSUME NEW e, Tells(t, i, s, r, e) PROVE r.events = Append(s.events, e) /\ e \in Told(t)
    BY <2>2 DEF Tells, Told
  <2>3. s.events \in Seq(Told(t))
    BY DEF s
  <2>4. \A e \in Told(t) : Append(s.events, e) \in Seq(Told(t))
    BY <2>3
  <2>5. r.events \in Seq(Told(t))
    BY <2>1, <2>2, <2>3, <2>4, Zenon
  <2> QED
    BY <2>5 DEF r
<1>3. n \in T
  <2> HIDE DEF T, n
  <2>1. n \in 0..n
    BY <1>0
  <2> QED
    BY <1>0, <1>1, <1>2, <2>1, AllLengths
<1> QED
  BY <1>3, BehindGrows DEF Events

\* A document is over when its outermost value is.
LEMMA DocumentEnds ==
    ASSUME NEW t \in Seq(Tokens), IsDocument(t)
    PROVE  /\ Events(t) # <<>> /\ Around(Events(t)) = <<>>
           /\ WellFormed(Events(t))
<1> DEFINE r == Behind(t, Len(t))
<1>1. r = Reading(t) /\ r \in Readers /\ Sound(r) /\ r.mark = "end"
  <2>1. Len(t) \in 0..Len(t)
    OBVIOUS
  <2> QED
    BY <2>1, BehindGrows, DocumentSound DEF IsDocument
<1> HIDE DEF r
<1>2. r.doc.open = <<>> /\ r.events # <<>>
  BY <1>1 DEF Sound
<1>3. Len(r.around) = 0 /\ r.around \in Seq(Nat)
  BY <1>1, <1>2 DEF Sound, Readers
<1>4. r.around = <<>> /\ Around(r.events) = r.around
  BY <1>1, <1>3 DEF Sound
<1> QED
  BY <1>1, <1>2, <1>4 DEF Events, Sound

\* A string is a key exactly if a colon follows.
LEMMA KeyBeforeColon ==
    ASSUME NEW t \in Seq(Tokens), IsDocument(t), NEW i \in 1..Len(t), t[i].type = "string"
    PROVE  TakesKey(Behind(t, i - 1)) <=> i < Len(t) /\ t[i + 1].type = ":"
<1> DEFINE s == Behind(t, i - 1)
           r == Behind(t, i)
           E == Events(t)
           e == E[Len(s.events) + 1]
<1> HIDE DEF s, r, e
<1>1. Tells(t, i, s, r, e)
  BY DocumentStep DEF s, r, e
<1>2. CASE e.type = "scalar"
  <2>1. TakesValue(s) /\ r.mark # "colon"
    BY <1>1, <1>2 DEF Tells
  <2>2. ~TakesKey(s)
    BY <2>1 DEF TakesKey, TakesValue
  <2>3. ASSUME i < Len(t) PROVE t[i + 1].type # ":"
    <3> DEFINE j == i + 1
               q == Behind(t, j)
    <3>1. j \in 1..Len(t) /\ r = Behind(t, j - 1)
      BY <2>3 DEF r
    <3> HIDE DEF j, q
    <3>2. \/ t[j].type = ":" /\ r.mark = "colon"
          \/ t[j].type = "," /\ r.mark = "after"
          \/ Tells(t, j, r, q, E[Len(r.events) + 1])
      BY <3>1, DocumentStep DEF q
    <3>3. t[j].type # ":"
      BY <2>1, <3>2 DEF Tells, ScalarTypes
    <3> QED
      BY <3>3 DEF j
  <2> QED
    BY <2>2, <2>3 DEF s
<1>3. CASE e.type # "scalar"
  <2>1. TakesKey(s) /\ r.mark = "colon"
    BY <1>1, <1>3 DEF Tells
  <2>2. i < Len(t)
    <3> SUFFICES ASSUME i = Len(t) PROVE FALSE
      OBVIOUS
    <3>1. r = Reading(t)
      BY BehindGrows DEF r
    <3> QED
      BY <2>1, <3>1 DEF IsDocument
  <2>3. t[i + 1].type = ":"
    <3> DEFINE j == i + 1
               q == Behind(t, j)
    <3>1. j \in 1..Len(t) /\ r = Behind(t, j - 1)
      BY <2>2 DEF r
    <3> HIDE DEF j, q
    <3>2. \/ t[j].type = ":" /\ r.mark = "colon"
          \/ t[j].type = "," /\ r.mark = "after"
          \/ Tells(t, j, r, q, E[Len(r.events) + 1])
      BY <3>1, DocumentStep DEF q
    <3>3. t[j].type = ":"
      BY <2>1, <3>2 DEF Tells, TakesKey, TakesValue
    <3> QED
      BY <3>3 DEF j
  <2> QED
    BY <2>1, <2>2, <2>3 DEF s
<1> QED
  BY <1>2, <1>3

(***************************************************************************)
(* The items of a sequence that are in a set, in order.                    *)
(***************************************************************************)

Picked(v, Q) == Selected(v, {i \in DOMAIN v : v[i] \in Q})
OfType(v, type) == Selected(v, PlacesOf(v, type))

LEMMA PickedGrows ==
    ASSUME NEW S, NEW v \in Seq(S), NEW e \in S, NEW Q
    PROVE  /\ Picked(v, Q) \in Seq(S)
           /\ Picked(Append(v, e), Q) = Selecting(Picked(v, Q), e, e \in Q)
<1> DEFINE w == Append(v, e)
           P == {i \in DOMAIN v : v[i] \in Q}
           R == {i \in DOMAIN w : w[i] \in Q}
<1>1. Selected(v, R) = Selected(v, P)
  <2>1. \A i \in 1..Len(v) : i \in R <=> i \in P
    OBVIOUS
  <2> HIDE DEF P, R
  <2> QED
    BY <2>1, SelectedSame
<1>2. Len(v) + 1 \in R <=> e \in Q
  OBVIOUS
<1>3. /\ Selected(v, R) \in Seq(S)
      /\ Selected(w, R) = Selecting(Selected(v, R), e, Len(v) + 1 \in R)
  <2> HIDE DEF R
  <2> QED
    BY SelectedGrows
<1> QED
  BY <1>1, <1>2, <1>3 DEF Picked, Selecting

LEMMA PickedNone == ASSUME NEW Q PROVE Picked(<<>>, Q) = <<>>
BY SelectedNone DEF Picked

LEMMA OfTypeIs ==
    ASSUME NEW S, NEW v \in Seq(S), NEW type
    PROVE  OfType(v, type) = Picked(v, {e \in S : e.type = type})
<1>1. PlacesOf(v, type) = {i \in DOMAIN v : v[i] \in {e \in S : e.type = type}}
  BY DEF PlacesOf
<1> QED
  BY <1>1, Zenon DEF OfType, Picked

LEMMA OfTypeGrows ==
    ASSUME NEW S, NEW v \in Seq(S), NEW e \in S, NEW type
    PROVE  /\ OfType(v, type) \in Seq(S)
           /\ OfType(Append(v, e), type) =
                 IF e.type = type THEN Append(OfType(v, type), e) ELSE OfType(v, type)
<1> DEFINE Q == {x \in S : x.type = type}
<1>1. e \in Q <=> e.type = type
  OBVIOUS
<1>2. Append(v, e) \in Seq(S)
  OBVIOUS
<1>3. OfType(v, type) = Picked(v, Q) /\ OfType(Append(v, e), type) = Picked(Append(v, e), Q)
  BY <1>2, OfTypeIs, Zenon
<1> HIDE DEF Q
<1>4. /\ Picked(v, Q) \in Seq(S)
      /\ Picked(Append(v, e), Q) = Selecting(Picked(v, Q), e, e \in Q)
  BY PickedGrows, Zenon
<1> QED
  BY <1>1, <1>3, <1>4 DEF Selecting

\* The picked items of the beginnings of a sequence.
LEMMA PickedUpto ==
    ASSUME NEW S, NEW v \in Seq(S), NEW Q
    PROVE  /\ Picked(SubSeq(v, 1, 0), Q) = <<>>
           /\ SubSeq(v, 1, Len(v)) = v
           /\ \A k \in 0..Len(v) : Picked(SubSeq(v, 1, k), Q) \in Seq(S)
           /\ \A k \in 1..Len(v) :
                 Picked(SubSeq(v, 1, k), Q) =
                    Selecting(Picked(SubSeq(v, 1, k - 1), Q), v[k], v[k] \in Q)
<1>1. SubSeq(v, 1, Len(v)) = v /\ SubSeq(v, 1, 0) = <<>> /\ Len(v) \in Nat
  OBVIOUS
<1>2. Picked(SubSeq(v, 1, 0), Q) = <<>>
  BY <1>1, PickedNone, Zenon
<1>3. ASSUME NEW k \in 1..Len(v)
      PROVE  /\ Picked(SubSeq(v, 1, k), Q) \in Seq(S)
             /\ Picked(SubSeq(v, 1, k), Q) =
                    Selecting(Picked(SubSeq(v, 1, k - 1), Q), v[k], v[k] \in Q)
  <2> DEFINE b == SubSeq(v, 1, k - 1)
  <2>1. SubSeq(v, 1, k) = Append(b, v[k]) /\ b \in Seq(S) /\ v[k] \in S
    BY Beginnings
  <2> HIDE DEF b
  <2>2. /\ Picked(b, Q) \in Seq(S)
        /\ Picked(Append(b, v[k]), Q) = Selecting(Picked(b, Q), v[k], v[k] \in Q)
    BY <2>1, PickedGrows, Zenon
  <2>3. Selecting(Picked(b, Q), v[k], v[k] \in Q) \in Seq(S)
    BY <2>1, <2>2 DEF Selecting
  <2> QED
    BY <2>1, <2>2, <2>3 DEF b
<1>4. ASSUME NEW k \in 0..Len(v) PROVE Picked(SubSeq(v, 1, k), Q) \in Seq(S)
  <2>1. CASE k = 0
    <3>1. <<>> \in Seq(S)
      OBVIOUS
    <3> QED
      BY <1>2, <2>1, <3>1, Zenon
  <2>2. CASE k \in 1..Len(v)
    BY <1>3, <2>2
  <2> QED
    BY <1>1, <2>1, <2>2
<1> QED
  BY <1>1, <1>2, <1>3, <1>4

\* A picked item has as many before it as were picked before it.
LEMMA PickedPlace ==
    ASSUME NEW S, NEW v \in Seq(S), NEW Q, NEW k \in 0..Len(v)
    PROVE  /\ Len(Picked(SubSeq(v, 1, k), Q)) <= Len(Picked(v, Q))
           /\ k < Len(v) /\ v[k + 1] \in Q =>
                 /\ Len(Picked(SubSeq(v, 1, k), Q)) < Len(Picked(v, Q))
                 /\ Picked(v, Q)[Len(Picked(SubSeq(v, 1, k), Q)) + 1] = v[k + 1]
<1> DEFINE n == Len(v)
           f == [i \in 0..n |-> Picked(SubSeq(v, 1, i), Q)]
<1>0. n \in Nat
  OBVIOUS
<1>1. f \in [0..n -> Seq(S)]
  BY PickedUpto
<1>2. ASSUME NEW i \in 1..n
      PROVE  /\ v[i] \in Q => f[i] = Append(f[i - 1], v[i])
             /\ v[i] \notin Q => f[i] = f[i - 1]
  <2>1. f[i] = Selecting(f[i - 1], v[i], v[i] \in Q)
    <3>1. i \in 0..n /\ i - 1 \in 0..n
      BY <1>0
    <3>2. f[i] = Picked(SubSeq(v, 1, i), Q) /\ f[i - 1] = Picked(SubSeq(v, 1, i - 1), Q)
      BY <3>1
    <3> QED
      BY <3>2, PickedUpto
  <2> QED
    BY <2>1 DEF Selecting
<1>3. f[n] = Picked(v, Q) /\ f[k] = Picked(SubSeq(v, 1, k), Q)
  <2>1. n \in 0..n /\ SubSeq(v, 1, n) = v
    BY <1>0
  <2>2. f[n] = Picked(SubSeq(v, 1, n), Q) /\ f[k] = Picked(SubSeq(v, 1, k), Q)
    BY <2>1
  <2> QED
    BY <2>1, <2>2, Zenon
<1> HIDE DEF f
<1>4. Grows(f, n, S)
  BY <1>0, <1>1, <1>2 DEF Grows
<1>5. \A i \in 0..n : Len(f[i]) <= Len(f[n]) /\ f[i] = SubSeq(f[n], 1, Len(f[i]))
  <2> HIDE DEF n
  <2> QED
    BY <1>4, GrownFrom
<1>6. ASSUME k < n, v[k + 1] \in Q
      PROVE  Len(f[k]) < Len(f[n]) /\ f[n][Len(f[k]) + 1] = v[k + 1]
  <2>1. f[k + 1] = Append(f[k], v[k + 1]) /\ f[k] \in Seq(S) /\ f[n] \in Seq(S)
    <3>1. k + 1 \in 1..n /\ (k + 1) - 1 = k /\ n \in 0..n
      BY <1>0, <1>6
    <3> QED
      BY <1>1, <1>2, <1>6, <3>1
  <2>2. Len(f[k + 1]) <= Len(f[n]) /\ f[k + 1] = SubSeq(f[n], 1, Len(f[k + 1]))
    <3>1. k + 1 \in 0..n
      BY <1>0, <1>6
    <3> QED
      BY <1>5, <3>1
  <2>3. Len(f[k + 1]) = Len(f[k]) + 1 /\ f[k + 1][Len(f[k]) + 1] = v[k + 1]
    BY <2>1
  <2> QED
    BY <2>1, <2>2, <2>3
<1> QED
  BY <1>3, <1>5, <1>6

\* A part of a sequence has no more of its items, and less if one is missing.
LEMMA FewerPicked ==
    ASSUME NEW S, NEW v \in Seq(S), NEW P, NEW Q, NEW k \in 1..Len(v)
    PROVE  /\ Len(Picked(Selected(v, P), Q)) <= Len(Picked(v, Q))
           /\ k \notin P /\ v[k] \in Q =>
                 Len(Picked(Selected(v, P), Q)) < Len(Picked(v, Q))
<1> DEFINE n == Len(v)
           K(i) == Selected(SubSeq(v, 1, i), P)
           c(i) == Len(Picked(K(i), Q))
           d(i) == Len(Picked(SubSeq(v, 1, i), Q))
           missing == k \notin P /\ v[k] \in Q
           Less(i) == c(i) + (IF missing /\ k <= i THEN 1 ELSE 0) <= d(i)
           T == {i \in 0..n : Less(i)}
<1>0. n \in Nat
  OBVIOUS
<1>1. /\ K(0) = <<>> /\ K(n) = Selected(v, P)
      /\ \A i \in 0..n : K(i) \in Seq(S)
      /\ \A i \in 1..n : K(i) = Selecting(K(i - 1), v[i], i \in P)
  BY SelectedUpto
<1> HIDE DEF K
<1>2. c(0) = 0
  BY <1>1, PickedNone
<1>3. ASSUME NEW i \in 1..n
      PROVE  /\ c(i - 1) \in Nat
             /\ c(i) = c(i - 1) + (IF i \in P /\ v[i] \in Q THEN 1 ELSE 0)
  <2>1. K(i - 1) \in Seq(S) /\ v[i] \in S /\ K(i) = Selecting(K(i - 1), v[i], i \in P)
    BY <1>0, <1>1
  <2>2. /\ Picked(K(i - 1), Q) \in Seq(S)
        /\ Picked(Append(K(i - 1), v[i]), Q) = Selecting(Picked(K(i - 1), Q), v[i], v[i] \in Q)
    <3> DEFINE b == K(i - 1)
               e == v[i]
    <3>1. b \in Seq(S) /\ e \in S
      BY <2>1
    <3> HIDE DEF b, e
    <3>2. /\ Picked(b, Q) \in Seq(S)
          /\ Picked(Append(b, e), Q) = Selecting(Picked(b, Q), e, e \in Q)
      BY <3>1, PickedGrows, Zenon
    <3> QED
      BY <3>2 DEF b, e
  <2> DEFINE a == Picked(K(i - 1), Q)
  <2>3. Len(Append(a, v[i])) = Len(a) + 1 /\ Len(a) \in Nat
    BY <2>1, <2>2
  <2>4. CASE i \in P
    <3>1. K(i) = Append(K(i - 1), v[i])
      BY <2>1, <2>4 DEF Selecting
    <3>2. Picked(K(i), Q) = IF v[i] \in Q THEN Append(a, v[i]) ELSE a
      BY <2>2, <3>1 DEF Selecting
    <3> HIDE DEF a
    <3>3. c(i) = (IF v[i] \in Q THEN Len(a) + 1 ELSE Len(a)) /\ c(i - 1) = Len(a)
      BY <2>3, <3>2 DEF a
    <3> QED
      BY <2>3, <2>4, <3>3
  <2>5. CASE i \notin P
    <3>1. K(i) = K(i - 1)
      BY <2>1, <2>5 DEF Selecting
    <3> QED
      BY <2>3, <2>5, <3>1
  <2> QED
    BY <2>4, <2>5
<1>4. d(0) = 0 /\ d(n) = Len(Picked(v, Q))
  <2>1. Picked(SubSeq(v, 1, 0), Q) = <<>> /\ SubSeq(v, 1, n) = v
    BY PickedUpto
  <2> QED
    BY <2>1
<1>5. ASSUME NEW i \in 1..n
      PROVE  /\ d(i - 1) \in Nat
             /\ d(i) = d(i - 1) + (IF v[i] \in Q THEN 1 ELSE 0)
  <2>1. /\ Picked(SubSeq(v, 1, i - 1), Q) \in Seq(S)
        /\ Picked(SubSeq(v, 1, i), Q) =
              Selecting(Picked(SubSeq(v, 1, i - 1), Q), v[i], v[i] \in Q)
    <3>1. i - 1 \in 0..Len(v) /\ i \in 1..Len(v)
      BY <1>0
    <3> QED
      BY <3>1, PickedUpto
  <2> DEFINE a == Picked(SubSeq(v, 1, i - 1), Q)
  <2>2. v[i] \in S
    OBVIOUS
  <2>3. Len(Append(a, v[i])) = Len(a) + 1 /\ Len(a) \in Nat
    BY <2>1, <2>2
  <2>4. Picked(SubSeq(v, 1, i), Q) = IF v[i] \in Q THEN Append(a, v[i]) ELSE a
    BY <2>1 DEF Selecting
  <2> HIDE DEF a
  <2>5. d(i) = (IF v[i] \in Q THEN Len(a) + 1 ELSE Len(a)) /\ d(i - 1) = Len(a)
    BY <2>3, <2>4 DEF a
  <2> QED
    BY <2>3, <2>5
<1> HIDE DEF c, d
<1>6. 0 \in T
  BY <1>0, <1>2, <1>4
<1>7. \A i \in 1..n : i - 1 \in T => i \in T
  <2> SUFFICES ASSUME NEW i \in 1..n, Less(i - 1) PROVE Less(i)
    BY <1>0
  <2>1. CASE i = k
    <3>1. c(i - 1) <= d(i - 1) /\ ~(k <= i - 1)
      BY <1>3, <1>5, <2>1
    <3>2. CASE missing
      <4>1. c(i) = c(i - 1) /\ d(i) = d(i - 1) + 1
        BY <1>3, <1>5, <2>1, <3>2
      <4> QED
        BY <1>3, <1>5, <3>1, <3>2, <4>1
    <3>3. CASE ~missing
      <4>1. c(i) <= c(i - 1) + (IF v[i] \in Q THEN 1 ELSE 0) /\ c(i) \in Nat
        BY <1>3
      <4> QED
        BY <1>3, <1>5, <3>1, <3>3, <4>1
    <3> QED
      BY <3>2, <3>3
  <2>2. CASE i # k
    <3>1. k <= i <=> k <= i - 1
      BY <2>2
    <3>2. c(i) <= c(i - 1) + (IF v[i] \in Q THEN 1 ELSE 0) /\ c(i) \in Nat
      BY <1>3
    <3>3. CASE missing /\ k <= i
      BY <1>3, <1>5, <3>1, <3>2, <3>3
    <3>4. CASE ~(missing /\ k <= i)
      <4>1. c(i - 1) <= d(i - 1)
        BY <1>3, <3>1, <3>4
      <4> QED
        BY <1>3, <1>5, <3>2, <3>4, <4>1
    <3> QED
      BY <3>3, <3>4
  <2> QED
    BY <2>1, <2>2
<1>8. n \in T
  <2> HIDE DEF T, n
  <2>1. n \in 0..n
    BY <1>0
  <2> QED
    BY <1>0, <1>6, <1>7, <2>1, AllLengths
<1>9. c(n) = Len(Picked(Selected(v, P), Q)) /\ c(n) \in Nat /\ d(n) \in Nat
  <2>1. n \in 1..n
    OBVIOUS
  <2>2. \A i \in 1..n : c(i) \in Nat
    BY <1>3
  <2>3. \A i \in 1..n : d(i) \in Nat
    BY <1>5
  <2> QED
    BY <1>1, <2>1, <2>2, <2>3 DEF c
<1> QED
  BY <1>0, <1>4, <1>8, <1>9

(***************************************************************************)
(* Trees: of a document, and of what a library keeps of it.                *)
(***************************************************************************)

\* Every event is where the one before it leads, and inside the outermost.
Whole(v) ==
    \A j \in 1..Len(v) :
        /\ v[j].around = Around(SubSeq(v, 1, j - 1))
        /\ j > 1 => v[j].around # <<>>

LEMMA WholeGrows ==
    ASSUME NEW S, NEW v \in Seq(S), NEW e \in S, Whole(v), e.around = Around(v),
           v # <<>> => e.around # <<>>
    PROVE  Whole(Append(v, e))
<1> DEFINE t == Append(v, e)
           n == Len(v)
<1>1. Len(t) = n + 1 /\ n \in Nat /\ t[n + 1] = e /\ \A j \in 1..n : t[j] = v[j]
  OBVIOUS
<1>2. \A j \in 1..n + 1 : SubSeq(t, 1, j - 1) = SubSeq(v, 1, j - 1)
  OBVIOUS
<1>3. SubSeq(v, 1, (n + 1) - 1) = v /\ (n > 0 => v # <<>>)
  OBVIOUS
<1> HIDE DEF t
<1>4. ASSUME NEW j \in 1..n + 1
      PROVE  /\ t[j].around = Around(SubSeq(t, 1, j - 1))
             /\ j > 1 => t[j].around # <<>>
  <2>1. CASE j = n + 1
    <3>1. t[j] = e /\ SubSeq(t, 1, j - 1) = v
      BY <1>1, <1>2, <1>3, <2>1
    <3>2. j > 1 => e.around # <<>>
      BY <1>1, <1>3, <2>1
    <3> QED
      BY <3>1, <3>2, Zenon
  <2>2. CASE j \in 1..n
    <3>1. t[j] = v[j] /\ SubSeq(t, 1, j - 1) = SubSeq(v, 1, j - 1)
      BY <1>1, <1>2, <2>2
    <3> QED
      BY <2>2, <3>1 DEF Whole
  <2> QED
    BY <1>1, <2>1, <2>2
<1>5. Whole(t)
  BY <1>1, <1>4 DEF Whole
<1> QED
  BY <1>5 DEF t

LEMMA WellFormedIsWhole ==
    ASSUME NEW v \in Seq(Happenings), WellFormed(v)
    PROVE  Whole(v) /\ \A j \in 1..Len(v) : v[j].at = j
<1> SUFFICES ASSUME NEW j \in 1..Len(v)
             PROVE  /\ v[j].around = Around(SubSeq(v, 1, j - 1))
                    /\ j > 1 => v[j].around # <<>>
                    /\ v[j].at = j
  BY DEF Whole
<1>1. Follows(SubSeq(v, 1, j - 1), v[j]) /\ Len(SubSeq(v, 1, j - 1)) = j - 1
  BY Beginnings DEF WellFormed
<1> DEFINE b == SubSeq(v, 1, j - 1)
<1> HIDE DEF b
<1>2. Follows(b, v[j]) /\ Len(b) = j - 1
  BY <1>1 DEF b
<1>3. j > 1 => b # <<>>
  BY <1>2
<1> QED
  BY <1>2, <1>3 DEF b, Follows

\* What is left of the containers around a place if some are dropped: those
\* outside the outermost of them.
Meets(a, D) == \E q \in 1..Len(a) : a[q] \in D
Trims(b, a, D) ==
    /\ ~Meets(a, D) => b = a
    /\ Meets(a, D) => \E p \in 1..Len(a) : /\ a[p] \in D /\ b = SubSeq(a, 1, p - 1)
                                           /\ \A q \in 1..(p - 1) : a[q] \notin D

LEMMA TrimsInside ==
    ASSUME NEW a \in Seq(Nat), NEW D, NEW b, Meets(a, D), Trims(b, a, D), NEW x \in Nat
    PROVE  Trims(b, Append(a, x), D)
<1> DEFINE c == Append(a, x)
<1>1. Len(c) = Len(a) + 1 /\ Len(a) \in Nat /\ \A q \in 1..Len(a) : c[q] = a[q]
  OBVIOUS
<1>2. PICK p \in 1..Len(a) : /\ a[p] \in D /\ b = SubSeq(a, 1, p - 1)
                             /\ \A q \in 1..(p - 1) : a[q] \notin D
  BY DEF Trims
<1>3. SubSeq(c, 1, p - 1) = SubSeq(a, 1, p - 1)
  OBVIOUS
<1> HIDE DEF c
<1>4. p \in 1..Len(c) /\ c[p] \in D
  BY <1>1, <1>2
<1>5. Meets(c, D)
  BY <1>4, Zenon DEF Meets
<1>6. \A q \in 1..(p - 1) : c[q] \notin D
  <2> SUFFICES ASSUME NEW q \in 1..(p - 1) PROVE c[q] \notin D
    OBVIOUS
  <2>1. q \in 1..Len(a)
    OBVIOUS
  <2>2. c[q] = a[q]
    BY <1>1, <2>1
  <2> QED
    BY <1>2, <2>2
<1>7. b = SubSeq(c, 1, p - 1)
  BY <1>2, <1>3
<1>8. Trims(b, c, D)
  BY <1>4, <1>5, <1>6, <1>7, Zenon DEF Trims
<1> QED
  BY <1>8 DEF c

LEMMA TrimsOutwards ==
    ASSUME NEW a \in Seq(Nat), NEW D, NEW b, Meets(a, D), Trims(b, a, D)
    PROVE  Trims(b, SubSeq(a, 1, Len(a) - 1), D)
<1> DEFINE c == SubSeq(a, 1, Len(a) - 1)
<1>2. PICK p \in 1..Len(a) : /\ a[p] \in D /\ b = SubSeq(a, 1, p - 1)
                             /\ \A q \in 1..(p - 1) : a[q] \notin D
  BY DEF Trims
<1>1. Len(a) \in Nat /\ Len(a) > 0 /\ Len(c) = Len(a) - 1 /\ \A q \in 1..Len(c) : c[q] = a[q]
  BY FrontLength
<1> HIDE DEF c
<1>3. CASE p = Len(a)
  <2>1. ~Meets(c, D)
    BY <1>1, <1>2, <1>3 DEF Meets
  <2> QED
    BY <1>2, <1>3, <2>1 DEF Trims, c
<1>4. CASE p < Len(a)
  <2>1. SubSeq(c, 1, p - 1) = SubSeq(a, 1, p - 1)
    <3>1. Len(a) - 1 \in 0..Len(a) /\ p - 1 \in 0..(Len(a) - 1)
      BY <1>1, <1>4
    <3> QED
      BY <3>1, ShorterBeginning DEF c
  <2>2. p \in 1..Len(c) /\ c[p] \in D
    BY <1>1, <1>2, <1>4
  <2>3. Meets(c, D)
    BY <2>2, Zenon DEF Meets
  <2>4. \A q \in 1..(p - 1) : q \in 1..Len(c)
    BY <1>1, <1>4
  <2>5. \A q \in 1..(p - 1) : c[q] \notin D
    BY <1>1, <1>2, <2>4
  <2> QED
    BY <1>2, <2>1, <2>2, <2>3, <2>5 DEF Trims, c
<1> QED
  BY <1>1, <1>3, <1>4

LEMMA TrimsHere ==
    ASSUME NEW a \in Seq(Nat), NEW D, ~Meets(a, D), NEW x \in D \cap Nat
    PROVE  Trims(a, Append(a, x), D)
<1> DEFINE c == Append(a, x)
           p == Len(a) + 1
<1>1. Len(c) = p /\ Len(a) \in Nat /\ c[p] = x /\ \A q \in 1..Len(a) : c[q] = a[q]
  OBVIOUS
<1>2. SubSeq(c, 1, p - 1) = a
  OBVIOUS
<1> HIDE DEF c
<1>3. Meets(c, D) /\ p \in 1..Len(c) /\ c[p] \in D
  BY <1>1 DEF Meets
<1>4. \A q \in 1..(p - 1) : c[q] \notin D
  BY <1>1 DEF Meets
<1>5. Trims(a, c, D)
  BY <1>2, <1>3, <1>4 DEF Trims
<1> QED
  BY <1>5 DEF c

LEMMA StillUnmet ==
    ASSUME NEW a \in Seq(Nat), NEW D, ~Meets(a, D)
    PROVE  /\ Len(a) > 0 => ~Meets(SubSeq(a, 1, Len(a) - 1), D)
           /\ \A x \in Nat : x \notin D => ~Meets(Append(a, x), D)
BY DEF Meets

\* The places without the members of M and their values.
Without(v, M) ==
    {i \in DOMAIN v : \A m \in M : i \notin {m.at, m.at + 1}
                                   /\ ~Contains(v[i].around, m.at + 1)}

LEMMA WithoutIsWhole ==
    ASSUME NEW v \in Seq(Happenings), WellFormed(v),
           NEW M, M \subseteq {m \in ToSet(v) : m.type = "member"}
    PROVE  Whole(Selected(v, Without(v, M)))
<1> DEFINE n == Len(v)
           P == Without(v, M)
           D == {m.at + 1 : m \in M}
           K(i) == Selected(SubSeq(v, 1, i), P)
           A(i) == Around(SubSeq(v, 1, i))
           Good(i) == /\ Trims(Around(K(i)), A(i), D)
                      /\ Whole(K(i)) /\ (K(i) # <<>> => i > 0)
           T == {i \in 0..n : Good(i)}
<1>0. n \in Nat
  OBVIOUS
<1>1. /\ K(0) = <<>> /\ K(n) = Selected(v, P)
      /\ \A i \in 0..n : K(i) \in Seq(Happenings)
      /\ \A i \in 1..n : K(i) = Selecting(K(i - 1), v[i], i \in P)
  BY SelectedUpto
<1>2. A(0) = <<>>
  BY DEF Around
<1>3. ASSUME NEW i \in 1..n
      PROVE  /\ v[i] \in Happenings /\ v[i].at = i /\ v[i].around = A(i - 1)
             /\ A(i) = AroundAfter(v[i]) /\ A(i - 1) \in Seq(Nat)
             /\ i > 1 => v[i].around # <<>>
             /\ v[i].type = "close" => v[i].around # <<>>
             /\ i > 1 /\ v[i - 1].type = "member" => v[i].type \in {"scalar", "open"}
  <2> DEFINE b == SubSeq(v, 1, i - 1)
  <2>1. /\ SubSeq(v, 1, i) = Append(b, v[i]) /\ b \in Seq(Happenings)
        /\ v[i] \in Happenings /\ Len(b) = i - 1
    BY Beginnings
  <2>2. Follows(b, v[i])
    BY DEF WellFormed
  <2>3. i > 1 => b # <<>> /\ b[Len(b)] = v[i - 1]
    BY <2>1
  <2> HIDE DEF b
  <2>4. v[i].around \in Seq(Nat) /\ i > 1 /\ v[i - 1].type = "member" => EndsInKey(b)
    BY <2>1, <2>3 DEF EndsInKey, Happenings
  <2>5. A(i) = AroundAfter(v[i])
    BY <2>1, AroundGrows
  <2>6. A(i - 1) = Around(b)
    BY DEF b
  <2>7. v[i].around \in Seq(Nat)
    BY <2>1 DEF Happenings
  <2>8. i > 1 /\ v[i - 1].type = "member" => EndsInKey(b)
    BY <2>3 DEF EndsInKey
  <2> QED
    BY <2>1, <2>2, <2>3, <2>5, <2>6, <2>7, <2>8 DEF Follows
<1> HIDE DEF K, A
<1>4. ASSUME NEW m \in M
      PROVE  m.at \in 1..n /\ v[m.at] = m /\ m.type = "member"
  <2>1. PICK j \in 1..n : v[j] = m
    BY DEF ToSet
  <2> QED
    BY <1>3, <2>1
<1>5. ASSUME NEW i \in 1..n
      PROVE  /\ i \in P <=> /\ ~Meets(A(i - 1), D)
                            /\ \A m \in M : i # m.at /\ i # m.at + 1
             /\ i \in P => i \notin D
  <2>1. v[i].around = A(i - 1) /\ i \in DOMAIN v
    BY <1>3
  <2>2. \A m \in M : Contains(A(i - 1), m.at + 1)
                       <=> \E q \in 1..Len(A(i - 1)) : A(i - 1)[q] = m.at + 1
    BY DEF Contains
  <2>3. Meets(A(i - 1), D) <=> \E m \in M : Contains(A(i - 1), m.at + 1)
    BY <2>2 DEF Meets
  <2>4. i \in P <=> \A m \in M : i \notin {m.at, m.at + 1} /\ ~Contains(A(i - 1), m.at + 1)
    BY <2>1 DEF Without
  <2> QED
    BY <2>3, <2>4
<1> HIDE DEF P
<1>6. 0 \in T
  <2>1. Around(K(0)) = <<>> /\ Whole(K(0)) /\ ~Meets(A(0), D)
    BY <1>1, <1>2 DEF Around, Whole, Meets
  <2>2. Trims(Around(K(0)), A(0), D)
    BY <1>2, <2>1 DEF Trims
  <2> QED
    BY <1>0, <1>1, <2>1, <2>2
<1>7. ASSUME NEW i \in 1..n, Good(i - 1) PROVE Good(i)
  <2> DEFINE e == v[i]
             a == A(i - 1)
             k == K(i - 1)
             b == Around(k)
  <2>1. /\ e \in Happenings /\ e.at = i /\ e.around = a /\ A(i) = AroundAfter(e)
        /\ a \in Seq(Nat) /\ (i > 1 => a # <<>>) /\ (e.type = "close" => a # <<>>)
        /\ i > 1 /\ v[i - 1].type = "member" => e.type \in {"scalar", "open"}
    BY <1>3
  <2>2. k \in Seq(Happenings) /\ K(i) = Selecting(k, e, i \in P) /\ Whole(k)
        /\ (k # <<>> => i > 1) /\ Trims(b, a, D)
    BY <1>0, <1>1, <1>7
  <2>3. e.type \in EventTypes /\ i \in Nat
    BY <2>1 DEF Happenings
  <2>4. e.type = "close" => Len(a) > 0
    BY <2>1
  <2> HIDE DEF e, a, k, b
  <2>5. CASE Meets(a, D)
    <3>1. K(i) = k
      BY <1>5, <2>2, <2>5 DEF Selecting, a
    <3>2. Trims(b, A(i), D)
      <4>1. CASE e.type = "open"
        BY <2>1, <2>2, <2>3, <2>5, <4>1, TrimsInside DEF AroundAfter
      <4>2. CASE e.type = "close"
        BY <2>1, <2>2, <2>5, <4>2, TrimsOutwards DEF AroundAfter
      <4>3. CASE e.type \notin {"open", "close"}
        BY <2>1, <2>2, <4>3 DEF AroundAfter
      <4> QED
        BY <4>1, <4>2, <4>3
    <3> QED
      BY <2>2, <3>1, <3>2 DEF b
  <2>6. CASE ~Meets(a, D) /\ i \notin P
    <3>1. K(i) = k /\ b = a
      BY <2>2, <2>6 DEF Selecting, Trims
    <3>2. PICK m \in M : i = m.at \/ i = m.at + 1
      BY <1>5, <2>6 DEF a
    <3>3. m.at \in 1..n /\ v[m.at] = m /\ m.type = "member"
      BY <1>4
    <3>4. Trims(a, A(i), D)
      <4>1. CASE i = m.at
        <5>1. A(i) = a
          BY <2>1, <3>3, <4>1 DEF e, AroundAfter
        <5> QED
          BY <2>6, <5>1 DEF Trims
      <4>2. CASE i = m.at + 1
        <5>1. i > 1 /\ v[i - 1] = m /\ i \in D
          BY <3>3, <4>2
        <5>2. e.type \in {"scalar", "open"}
          BY <2>1, <3>3, <5>1
        <5>3. CASE e.type = "open"
          <6>1. A(i) = Append(a, i)
            BY <2>1, <5>3 DEF AroundAfter
          <6> QED
            BY <2>1, <2>3, <2>6, <5>1, <6>1, TrimsHere
        <5>4. CASE e.type = "scalar"
          <6>1. A(i) = a
            BY <2>1, <5>4 DEF AroundAfter
          <6> QED
            BY <2>6, <6>1 DEF Trims
        <5> QED
          BY <5>2, <5>3, <5>4
      <4> QED
        BY <3>2, <4>1, <4>2
    <3> QED
      BY <2>2, <3>1, <3>4 DEF b
  <2>7. CASE i \in P
    <3>1. ~Meets(a, D) /\ i \notin D
      BY <1>5, <2>7 DEF a
    <3>2. K(i) = Append(k, e) /\ b = a
      BY <2>2, <2>7, <3>1 DEF Selecting, Trims
    <3>3. Around(K(i)) = A(i)
      BY <2>1, <2>2, <3>2, AroundGrows
    <3>4. ~Meets(A(i), D)
      <4>1. CASE e.type = "open"
        BY <2>1, <2>3, <3>1, <4>1, StillUnmet DEF AroundAfter
      <4>2. CASE e.type = "close"
        BY <2>1, <2>4, <3>1, <4>2, StillUnmet DEF AroundAfter
      <4>3. CASE e.type \notin {"open", "close"}
        BY <2>1, <3>1, <4>3 DEF AroundAfter
      <4> QED
        BY <4>1, <4>2, <4>3
    <3>5. Whole(K(i))
      <4>1. e.around = Around(k) /\ (k # <<>> => e.around # <<>>)
        BY <2>1, <2>2, <3>2 DEF b
      <4> QED
        BY <2>1, <2>2, <3>2, <4>1, WholeGrows
    <3>6. Trims(Around(K(i)), A(i), D)
      BY <3>3, <3>4 DEF Trims
    <3> QED
      BY <2>3, <3>5, <3>6
  <2> QED
    BY <2>5, <2>6, <2>7
<1> HIDE DEF Good
<1>8. n \in T
  <2> HIDE DEF n
  <2>1. \A i \in 1..n : i - 1 \in T => i \in T
    BY <1>0, <1>7
  <2>2. n \in 0..n
    BY <1>0
  <2> HIDE DEF T
  <2> QED
    BY <1>0, <1>6, <2>1, <2>2, AllLengths
<1> QED
  BY <1>1, <1>8 DEF Good, P

LEMMA SelectedType ==
    ASSUME NEW S, NEW s \in Seq(S), NEW places
    PROVE  Selected(s, places) \in Seq(S)
<1>1. Len(s) \in 0..Len(s)
  OBVIOUS
<1>2. SubSeq(s, 1, Len(s)) = s /\ Selected(SubSeq(s, 1, Len(s)), places) \in Seq(S)
  BY <1>1, SelectedUpto, Zenon
<1> QED
  BY <1>2, Zenon

LEMMA KeptIs ==
    ASSUME NEW l, NEW E
    PROVE  Kept(l, E) = Selected(E, Without(E, Replaced(l, E)))
BY Zenon DEF Kept, KeptPlaces, Without

\* A key without NUL is the same to every library.
LEMMA PlainKey ==
    ASSUME NEW k, ~HasNul(k), NEW l
    PROVE  NativeKey(l, k) = k
BY DEF NativeKey, UpToNul

LEMMA ReplacedIs ==
    ASSUME NEW l, NEW E \in Seq(Happenings)
    PROVE  /\ Replaced(l, E) \subseteq {m \in ToSet(E) : m.type = "member"}
           /\ l # "json-c" => Replaced(l, E) = {}
           /\ (\A e \in ToSet(E) : e.type = "member" => ~HasNul(e.key)) =>
                \A m \in Replaced(l, E) : \E n \in ToSet(E) :
                    Repeat(m, n, LAMBDA j, k : j = k)
<1>1. \A m \in Replaced(l, E) :
          /\ m \in ToSet(E) /\ l = "json-c"
          /\ \E n \in ToSet(E) : /\ m.type = "member" /\ n.type = "member"
                                 /\ m.at < n.at /\ m.around = n.around
                                 /\ NativeKey(l, m.key) = NativeKey(l, n.key)
  BY DEF Replaced, Repeat, SameKey
<1>2. ASSUME \A e \in ToSet(E) : e.type = "member" => ~HasNul(e.key),
             NEW m \in Replaced(l, E)
      PROVE  \E n \in ToSet(E) : Repeat(m, n, LAMBDA j, k : j = k)
  <2>1. PICK n \in ToSet(E) : /\ m.type = "member" /\ n.type = "member"
                              /\ m.at < n.at /\ m.around = n.around
                              /\ NativeKey(l, m.key) = NativeKey(l, n.key)
    BY <1>1, <1>2
  <2>2. m.key = n.key
    BY <1>1, <1>2, <2>1, PlainKey
  <2> QED
    BY <2>1, <2>2 DEF Repeat
<1> QED
  BY <1>1, <1>2

\* What a library keeps of a document.
LEMMA TreeOfDocument ==
    ASSUME NEW t \in Seq(Tokens), IsDocument(t), NEW l, NEW v, v = NativeTree(l, t)
    PROVE  /\ v \in Seq(Told(t)) /\ Whole(v)
           /\ \A type : Len(OfType(v, type)) <= Len(EventsOf(t, type))
           /\ Replaced(l, Events(t)) = {} => v = Events(t)
           /\ Replaced(l, Events(t)) # {} =>
                Len(OfType(v, "member")) < Len(EventsOf(t, "member"))
<1> DEFINE E == Events(t)
           M == Replaced(l, E)
           P == Without(E, M)
           S == Told(t)
<1>1. E \in Seq(S) /\ E \in Seq(Happenings) /\ WellFormed(E)
  <2>1. S \subseteq Happenings /\ E \in Seq(S)
    BY DocumentTold DEF Told
  <2> QED
    BY <2>1, DocumentEnds
<1>2. v = Selected(E, P)
  BY KeptIs, Zenon DEF NativeTree
<1>3. v \in Seq(S)
  <2> HIDE DEF S, E, P
  <2> QED
    BY <1>1, <1>2, SelectedType, Zenon
<1>4. Whole(v)
  BY <1>1, <1>2, ReplacedIs, WithoutIsWhole
<1> HIDE DEF S
<1>5. ASSUME M = {} PROVE v = E
  <2>1. \A i \in 1..Len(E) : i \in P
    BY <1>5 DEF Without
  <2> HIDE DEF P
  <2> QED
    BY <1>1, <1>2, <2>1, SelectedAll
<1>6. ASSUME NEW type PROVE Len(OfType(v, type)) <= Len(EventsOf(t, type))
  <2> DEFINE Q == {e \in S : e.type = type}
  <2>1. OfType(v, type) = Picked(v, Q) /\ OfType(E, type) = Picked(E, Q)
    BY <1>1, <1>3, OfTypeIs, Zenon
  <2>2. EventsOf(t, type) = OfType(E, type)
    BY DEF EventsOf, OfType
  <2>3. 1 \in 1..Len(E)
    <3>1. E # <<>>
      BY DocumentEnds
    <3> QED
      BY <1>1, <3>1
  <2> HIDE DEF Q, E, P
  <2>4. Len(Picked(Selected(E, P), Q)) <= Len(Picked(E, Q))
    BY <1>1, <2>3, FewerPicked
  <2> QED
    BY <1>2, <2>1, <2>2, <2>4
<1>7. ASSUME M # {} PROVE Len(OfType(v, "member")) < Len(EventsOf(t, "member"))
  <2> DEFINE Q == {e \in S : e.type = "member"}
  <2>1. OfType(v, "member") = Picked(v, Q) /\ OfType(E, "member") = Picked(E, Q)
    BY <1>1, <1>3, OfTypeIs, Zenon
  <2>2. EventsOf(t, "member") = OfType(E, "member")
    BY DEF EventsOf, OfType
  <2>3. PICK m \in M : TRUE
    BY <1>7
  <2>4. m \in ToSet(E) /\ m.type = "member"
    BY <1>1, ReplacedIs
  <2>5. PICK k \in 1..Len(E) : E[k] = m
    BY <1>1, <2>4 DEF ToSet
  <2>6. m.at = k
    BY <1>1, <2>5, WellFormedIsWhole
  <2>7. k \notin P /\ E[k] \in Q
    <3>1. E[k] \in S
      BY <1>1, <2>5
    <3>2. k \in {m.at, m.at + 1}
      BY <2>6
    <3> QED
      BY <2>3, <2>4, <2>5, <3>1, <3>2 DEF Without
  <2> HIDE DEF Q, E, P
  <2>8. Len(Picked(Selected(E, P), Q)) < Len(Picked(E, Q))
    BY <1>1, <2>5, <2>7, FewerPicked
  <2> QED
    BY <1>2, <2>1, <2>2, <2>8
<1> QED
  BY <1>3, <1>4, <1>5, <1>6, <1>7 DEF S

(***************************************************************************)
(* The types of an adapter: the walk gets from the tree only what its      *)
(* constants have, since the tree is one of the text.                      *)
(***************************************************************************)

Unscanned == {"new", "locale", "read", "preflight"}
Unparsed == Unscanned \cup {"scan", "scanned", "ascii", "native"}

ScanTypes ==
    /\ scanned \in 0..Len(text) /\ depth \in Nat /\ scalars \in Nat /\ keys \in Nat
    /\ spans \in Numerals
    /\ stage \in Unscanned =>
          scanned = 0 /\ depth = 0 /\ scalars = 0 /\ keys = 0 /\ spans = <<>>

CallTypes ==
    /\ library \in Libraries /\ quiet \in BOOLEAN /\ stage \in Stages
    /\ text \in Seq(Tokens)
    /\ stage = "new" \/ text \in Texts
    /\ result \in {"ok", "error"} /\ ground \in Grounds /\ messages \in Nat

ReleaseTypes ==
    /\ held \subseteq {"content", "ascii", "spans", "tokener", "root"}
    /\ locale \in {"caller", "outer", "inner"}
    /\ outer \in BOOLEAN /\ inner \in BOOLEAN /\ lost \in BOOLEAN

TreeOfText ==
    /\ at \in 0..Len(tree)
    /\ stage \in Unparsed => tree = <<>> /\ at = 0
    /\ tree # <<>> => IsDocument(text) /\ tree = NativeTree(library, text)
    /\ stage = "new" => text = <<>>

AdapterIInv ==
    /\ IInv /\ PathStands
    /\ CallTypes /\ ReleaseTypes /\ ScanTypes /\ TreeOfText

LEMMA InitAdapterIInv == AdapterInit => AdapterIInv
<1> SUFFICES ASSUME AdapterInit PROVE AdapterIInv
  OBVIOUS
<1>1. IInv /\ PathStands
  BY InitIInv DEF AdapterInit, Init, PathStands
<1>2. <<>> \in Seq(Tokens) /\ <<>> \in Numerals /\ Len(<<>>) = 0
  BY DEF Numerals
<1>3. silence \in BOOLEAN
  BY DEF AdapterInit, Init
<1>4. CallTypes
  BY <1>2, <1>3 DEF AdapterInit, CallTypes, Stages, Grounds
<1>5. ReleaseTypes
  BY DEF AdapterInit, ReleaseTypes
<1>6. ScanTypes
  BY <1>2 DEF AdapterInit, ScanTypes
<1>7. TreeOfText
  BY <1>2 DEF AdapterInit, TreeOfText
<1> QED
  BY <1>1, <1>4, <1>5, <1>6, <1>7 DEF AdapterIInv

\* What a visit gives the walk is of its constants.
LEMMA VisitTypes ==
    ASSUME AdapterIInv, at < Len(tree)
    PROVE  /\ Visit \in Told(text) /\ Visit \in Happenings
           /\ Visit.type = "scalar" => /\ Visit.index \in DOMAIN text
                                       /\ text[Visit.index].type \in ScalarTypes
                                       /\ NativeValue(library, text, Visit) \in Values
           /\ Visit.type = "member" => NativeKey(library, Visit.key) \in Keys
<1>1. /\ text \in Seq(Tokens) /\ at \in 0..Len(tree) /\ library \in Libraries
  BY DEF AdapterIInv, CallTypes, TreeOfText
<1>2. tree # <<>>
  BY <1>1
<1>3. IsDocument(text) /\ tree = NativeTree(library, text) /\ text \in Texts
  BY <1>2 DEF AdapterIInv, TreeOfText, CallTypes, Unparsed, Unscanned
<1>4. tree \in Seq(Told(text))
  BY <1>1, <1>3, TreeOfDocument
<1>5. Visit \in Told(text) /\ Visit \in Happenings /\ Stems(Visit, text)
  BY <1>1, <1>4 DEF Visit, Told
<1>6. \A i \in DOMAIN text :
          /\ text[i].type = "string" => {text[i].text, UpToNul(text[i].text)} \subseteq Keys
          /\ [from : Origins, index : {i}, text : {text[i].text}] \subseteq NativeData
  BY <1>3, TextsAssumption
<1>7. ASSUME Visit.type = "scalar"
      PROVE  /\ Visit.index \in DOMAIN text /\ text[Visit.index].type \in ScalarTypes
             /\ NativeValue(library, text, Visit) \in Values
  <2> DEFINE i == Visit.index
             token == text[i]
             kind == IF token.type \notin Kinds \/ Raw(library) THEN NotNumber
                     ELSE IF library = "cjson" THEN "any" ELSE token.type
             from == CASE token.type \in Kinds /\ ~Raw(library) -> "formatted"
                       [] token.type = "string" /\ library = "cjson" /\ HasNul(token.text) -> "cut"
                       [] OTHER -> "source"
             data == [from |-> from, index |-> i, text |-> token.text]
  <2>1. i \in DOMAIN text /\ token.type \in ScalarTypes
    BY <1>5, <1>7 DEF Stems
  <2>2. kind \in NumberKinds
    BY DEF NumberKinds, Kinds, NotNumber
  <2>3. from \in Origins
    BY DEF Origins
  <2>4. NativeValue(library, text, Visit) = [data |-> data, number_kind |-> kind]
    BY Zenon DEF NativeValue
  <2> HIDE DEF kind, from
  <2>5. data \in NativeData
    BY <1>6, <2>1, <2>3
  <2> QED
    BY <2>1, <2>2, <2>4, <2>5 DEF Values
<1>8. ASSUME Visit.type = "member" PROVE NativeKey(library, Visit.key) \in Keys
  BY <1>5, <1>6, <1>8 DEF Stems, NativeKey
<1> QED
  BY <1>5, <1>7, <1>8

\* Every step of an adapter is one of the walk or leaves it alone.
LEMMA StepWalks ==
    ASSUME AdapterIInv, [AdapterNext]_vars
    PROVE  [AnyNext]_walkVars
<1>1. CASE BeginWalk
  <2>1. <<>> \in Numerals /\ spans \in Numerals /\ quiet \in BOOLEAN
    BY DEF Numerals, AdapterIInv, ScanTypes, CallTypes
  <2>2. \/ WalkBegins(<<>>, FALSE, CheckSilence(quiet))
        \/ WalkBegins(spans, ~Raw(library), quiet)
    BY <1>1 DEF BeginWalk
  <2>3. CheckSilence(quiet) \in BOOLEAN /\ (~Raw(library)) \in BOOLEAN
    BY DEF CheckSilence, Raw
  <2> HIDE DEF CheckSilence, Raw
  <2>4. \E source \in Numerals, with \in BOOLEAN, q \in BOOLEAN : WalkBegins(source, with, q)
    BY <2>1, <2>2, <2>3
  <2> QED
    BY <2>4, Zenon DEF AnyNext
<1>2. CASE WalkStep
  <2>1. at < Len(tree)
    BY <1>2 DEF WalkStep
  <2>2. CASE Visit.type = "scalar" /\ Argument(NativeValue(library, text, Visit))
    BY <2>1, <2>2, VisitTypes, Zenon DEF AnyNext
  <2>3. CASE Visit.type = "open" /\ Begin(Visit.array)
    <3>1. Visit.array \in BOOLEAN
      BY <2>1, VisitTypes DEF Happenings
    <3> QED
      BY <2>3, <3>1, Zenon DEF AnyNext
  <2>4. CASE Visit.type = "member" /\ Member(NativeKey(library, Visit.key))
    BY <2>1, <2>4, VisitTypes, Zenon DEF AnyNext
  <2>5. CASE Pop
    BY <2>5, Zenon DEF AnyNext
  <2>6. CASE Element
    BY <2>6, Zenon DEF AnyNext
  <2> QED
    BY <1>2, <2>2, <2>3, <2>4, <2>5, <2>6, Zenon DEF WalkStep
<1>3. CASE EndWalk
  BY <1>3, Zenon DEF EndWalk, AnyNext
<1>4. ASSUME UNCHANGED walkVars PROVE [AnyNext]_walkVars
  BY <1>4
<1>5. \/ UNCHANGED walkVars \/ BeginWalk \/ WalkStep \/ EndWalk
  <2>1. CASE UNCHANGED vars
    BY <2>1 DEF vars
  <2>2. ASSUME NEW t \in Texts, ParseFile(t) PROVE UNCHANGED walkVars
    BY <2>2 DEF ParseFile
  <2> QED
    BY <2>1, <2>2 DEF AdapterNext, Steps, BeginLocale, ReadFile, BeginPreflight, Scan,
       EndPreflight, AsciiInput, NativeParse, Done, Return
<1> QED
  BY <1>1, <1>2, <1>3, <1>4, <1>5, Zenon

LEMMA StepCall ==
    ASSUME AdapterIInv, [AdapterNext]_vars
    PROVE  CallTypes'
<1>0. /\ CallTypes /\ library \in Libraries /\ quiet \in BOOLEAN /\ messages \in Nat
      /\ messages + 1 \in Nat /\ result \in {"ok", "error"} /\ ground \in Grounds
  BY DEF AdapterIInv, CallTypes
<1>1. ASSUME NEW t \in Texts, ParseFile(t) PROVE CallTypes'
  <2>1. t \in Seq(Tokens)
    BY TextsAssumption
  <2> QED
    BY <1>0, <1>1, <2>1 DEF ParseFile, CallTypes, answer, Stages
<1>2. ASSUME UNCHANGED call, stage # "new", stage' \in Stages,
             \/ UNCHANGED answer
             \/ \E why \in Grounds : Error(why)
      PROVE  CallTypes'
  BY <1>0, <1>2 DEF CallTypes, call, answer, Error
<1>3. CASE BeginLocale \/ ReadFile \/ BeginPreflight
  BY <1>2, <1>3 DEF BeginLocale, ReadFile, BeginPreflight, Stages, Grounds
<1>4. CASE Scan
  <2>1. UNCHANGED call /\ stage = "scan"
    BY <1>4 DEF Scan, ScanSeparator, ScanOpen, ScanClose, ScanKey, ScanString,
       ScanLongString, ScanLiteral, ScanGarbage, ScanNumber, Scanning
  <2>2. \/ UNCHANGED answer /\ stage' = stage
        \/ /\ stage' = "scanned"
           /\ \E why \in {"depth", "nul", "arguments", "size", "lexical", "range", "memory"} :
                 Error(why)
    BY <1>4 DEF Scan, ScanSeparator, ScanOpen, ScanClose, ScanKey, ScanString,
       ScanLongString, ScanLiteral, ScanGarbage, ScanNumber, ScanScalar, ScanFails
  <2> QED
    BY <1>2, <2>1, <2>2 DEF Stages, Grounds
<1>5. CASE EndPreflight \/ AsciiInput
  BY <1>2, <1>5 DEF EndPreflight, AsciiInput, Stages, Grounds, EarlierResult
<1>6. CASE NativeParse
  BY <1>2, <1>6 DEF NativeParse, NativeFails, NativeSucceeds, Stages, Grounds
<1>7. CASE BeginWalk \/ WalkStep
  BY <1>0, <1>2, <1>7 DEF BeginWalk, WalkStep, Stages, CallTypes
<1>8. CASE EndWalk
  <2>1. reason' \in Grounds
    <3>1. TypeOK'
      BY StepWalks, StepTypes DEF AdapterIInv
    <3> QED
      BY <3>1 DEF TypeOK, Reasons, Limits, Grounds
  <2>2. "repeated" \in Grounds
    BY DEF Grounds
  <2>3. /\ UNCHANGED call /\ stage \in {"checking", "walking"} /\ stage' \in {"done", "walk"}
        /\ UNCHANGED answer \/ Error(reason') \/ Error("repeated")
    BY <1>8 DEF EndWalk
  <2>4. UNCHANGED answer \/ \E why \in Grounds : Error(why)
    BY <2>1, <2>2, <2>3
  <2> QED
    BY <1>2, <2>3, <2>4 DEF Stages
<1>9. CASE Done \/ Return
  BY <1>2, <1>9 DEF Done, Return, Stages, Grounds, EarlierResult
<1>10. CASE UNCHANGED vars
  BY <1>0, <1>10 DEF vars, call, answer, CallTypes
<1> QED
  BY <1>1, <1>3, <1>4, <1>5, <1>6, <1>7, <1>8, <1>9, <1>10 DEF AdapterNext, Steps

LEMMA StepRelease ==
    ASSUME AdapterIInv, [AdapterNext]_vars
    PROVE  ReleaseTypes'
<1>0. ReleaseTypes
  BY DEF AdapterIInv
<1>1. ASSUME UNCHANGED locales, UNCHANGED held PROVE ReleaseTypes'
  BY <1>0, <1>1 DEF ReleaseTypes, locales
<1>2. ASSUME NEW t \in Texts, ParseFile(t) PROVE ReleaseTypes'
  BY <1>1, <1>2 DEF ParseFile
<1>3. CASE BeginLocale \/ ReadFile
  BY <1>0, <1>3 DEF BeginLocale, ReadFile, ReleaseTypes, locales
<1>4. CASE BeginPreflight
  BY <1>0, <1>4 DEF BeginPreflight, ReleaseTypes, Raw
<1>5. CASE Scan
  BY <1>0, <1>5 DEF Scan, ScanSeparator, ScanOpen, ScanClose, ScanKey, ScanString,
     ScanLongString, ScanLiteral, ScanGarbage, ScanNumber, ReleaseTypes, locales
<1>6. CASE EndPreflight
  BY <1>0, <1>6 DEF EndPreflight, ReleaseTypes, Restored
<1>7. CASE AsciiInput
  BY <1>0, <1>7 DEF AsciiInput, ReleaseTypes, locales
<1>8. CASE NativeParse
  <2>1. Tokener \subseteq {"tokener"}
    BY DEF Tokener
  <2>2. held' \subseteq held \cup Tokener \cup {"root"}
    BY <1>8 DEF NativeParse, NativeFails, NativeSucceeds
  <2> QED
    BY <1>0, <1>8, <2>1, <2>2 DEF NativeParse, ReleaseTypes, locales
<1>9. CASE BeginWalk \/ WalkStep \/ EndWalk
  BY <1>1, <1>9 DEF BeginWalk, WalkStep, EndWalk
<1>10. CASE Done \/ Return
  BY <1>0, <1>10 DEF Done, Return, Freed, ReleaseTypes, locales
<1>11. CASE UNCHANGED vars
  BY <1>1, <1>11 DEF vars
<1> QED
  BY <1>2, <1>3, <1>4, <1>5, <1>6, <1>7, <1>8, <1>9, <1>10, <1>11 DEF AdapterNext, Steps

\* The span of a number that is in a text is one of the walk's.
LEMMA SpanType ==
    ASSUME AdapterIInv, Scanning, Token.type \in Kinds
    PROVE  Span \in [data : Data \ TooLong, kind : Kinds]
<1>1. text \in Texts /\ scanned + 1 \in DOMAIN text
  BY DEF AdapterIInv, CallTypes, ScanTypes, Scanning
<1> DEFINE i == scanned + 1
<1>2. /\ Len(text[i].text) < JSON_STRING_SIZE
      /\ [from : Origins, index : {i}, text : {text[i].text}] \subseteq NativeData
  BY <1>1, TextsAssumption DEF Token
<1>3. "source" \in Origins /\ NativeData \subseteq Data
  BY WalkAssumption DEF Origins
<1>4. [from |-> "source", index |-> i, text |-> text[i].text] \in Data
  BY <1>2, <1>3
<1>5. \A d \in Data : d \in TooLong <=> Len(d.text) >= JSON_STRING_SIZE
  BY TextsAssumption
<1>6. JSON_STRING_SIZE \in Nat /\ Len(text[i].text) \in Nat
  <2>1. text[i] \in Tokens
    BY <1>1, TextsAssumption
  <2> QED
    BY <2>1, WalkAssumption DEF Tokens
<1>7. [from |-> "source", index |-> i, text |-> text[i].text] \notin TooLong
  BY <1>2, <1>4, <1>5, <1>6
<1> QED
  BY <1>4, <1>7 DEF Span, Token

LEMMA StepScan ==
    ASSUME AdapterIInv, [AdapterNext]_vars
    PROVE  ScanTypes'
<1>0. /\ ScanTypes /\ Len(text) \in Nat /\ scanned \in 0..Len(text)
      /\ depth \in Nat /\ scalars \in Nat /\ keys \in Nat /\ spans \in Numerals
      /\ stage \in Stages
  BY DEF AdapterIInv, ScanTypes, CallTypes
<1>1. ASSUME NEW t \in Texts, ParseFile(t) PROVE ScanTypes'
  <2>1. t \in Seq(Tokens) /\ stage = "new" /\ text' = t /\ UNCHANGED scan
    BY <1>1, TextsAssumption DEF ParseFile
  <2>2. Len(t) \in Nat
    BY <2>1
  <2> QED
    BY <1>0, <2>1, <2>2 DEF ScanTypes, Unscanned, scan
<1>2. ASSUME UNCHANGED scan, UNCHANGED text, stage' \in Unscanned => stage \in Unscanned
      PROVE  ScanTypes'
  BY <1>0, <1>2 DEF ScanTypes, scan
<1>3. CASE Scan
  <2>1. /\ stage = "scan" /\ stage' \in {"scan", "scanned"} /\ text' = text
        /\ scanned < Len(text)
    BY <1>3 DEF Scan, ScanSeparator, ScanOpen, ScanClose, ScanKey, ScanString,
       ScanLongString, ScanLiteral, ScanGarbage, ScanNumber, ScanScalar, ScanFails,
       Scanning, call
  <2>2. scanned' \in {scanned, scanned + 1}
    BY <1>3 DEF Scan, ScanSeparator, ScanOpen, ScanClose, ScanKey, ScanString,
       ScanLongString, ScanLiteral, ScanGarbage, ScanNumber, Scanned, scan
  <2>3. depth' \in {depth, depth + 1, Shallower(depth)}
    BY <1>3 DEF Scan, ScanSeparator, ScanOpen, ScanClose, ScanKey, ScanString,
       ScanLongString, ScanLiteral, ScanGarbage, ScanNumber, scan
  <2>4. scalars' \in {scalars, scalars + 1}
    BY <1>3 DEF Scan, ScanSeparator, ScanOpen, ScanClose, ScanKey, ScanString,
       ScanLongString, ScanLiteral, ScanGarbage, ScanNumber, ScanScalar, scan
  <2>5. keys' \in {keys, keys + 1}
    BY <1>3 DEF Scan, ScanSeparator, ScanOpen, ScanClose, ScanKey, ScanString,
       ScanLongString, ScanLiteral, ScanGarbage, ScanNumber, scan
  <2>6. spans' \in Numerals
    <3>1. \/ spans' = spans
          \/ Scanning /\ Token.type \in Kinds /\ spans' = Append(spans, Span)
      BY <1>3 DEF Scan, ScanSeparator, ScanOpen, ScanClose, ScanKey, ScanString,
         ScanLongString, ScanLiteral, ScanGarbage, ScanNumber, scan
    <3> DEFINE S == [data : Data \ TooLong, kind : Kinds]
               a == Span
    <3>2. Scanning /\ Token.type \in Kinds => a \in S
      BY SpanType
    <3>3. spans \in Seq(S)
      BY <1>0 DEF Numerals
    <3> HIDE DEF S, a
    <3>4. spans' \in Seq(S)
      BY <3>1, <3>2, <3>3 DEF a
    <3> QED
      BY <3>4 DEF Numerals, S
  <2>7. Shallower(depth) \in Nat
    BY <1>0 DEF Shallower
  <2> QED
    BY <1>0, <2>1, <2>2, <2>3, <2>4, <2>5, <2>6, <2>7 DEF ScanTypes, Unscanned
<1>4. CASE BeginLocale \/ ReadFile \/ BeginPreflight
  BY <1>2, <1>4 DEF BeginLocale, ReadFile, BeginPreflight, Unscanned, call
<1>5. CASE EndPreflight \/ AsciiInput
  BY <1>2, <1>5 DEF EndPreflight, AsciiInput, Unscanned, call
<1>6. CASE NativeParse
  BY <1>2, <1>6 DEF NativeParse, NativeFails, NativeSucceeds, Unscanned, call
<1>7. CASE BeginWalk \/ WalkStep \/ EndWalk
  BY <1>2, <1>7 DEF BeginWalk, WalkStep, EndWalk, Unscanned, call
<1>8. CASE Done \/ Return
  BY <1>2, <1>8 DEF Done, Return, Unscanned, call
<1>9. CASE UNCHANGED vars
  BY <1>2, <1>9 DEF vars, call
<1> QED
  BY <1>1, <1>3, <1>4, <1>5, <1>6, <1>7, <1>8, <1>9 DEF AdapterNext, Steps

LEMMA StepTree ==
    ASSUME AdapterIInv, [AdapterNext]_vars
    PROVE  TreeOfText'
<1>0. /\ TreeOfText /\ at \in 0..Len(tree) /\ stage \in Stages
      /\ stage \in Unparsed => tree = <<>> /\ at = 0
  BY DEF AdapterIInv, TreeOfText, CallTypes
<1>1. ASSUME NEW t \in Texts, ParseFile(t) PROVE TreeOfText'
  BY <1>0, <1>1 DEF ParseFile, TreeOfText, Unparsed, Unscanned
<1>2. ASSUME UNCHANGED call, UNCHANGED tree, at' \in 0..Len(tree), stage' # "new",
             stage' \in Unparsed => stage \in Unparsed /\ at' = at
      PROVE  TreeOfText'
  BY <1>0, <1>2 DEF TreeOfText, call
<1>3. CASE BeginLocale \/ ReadFile \/ BeginPreflight
  BY <1>0, <1>2, <1>3 DEF BeginLocale, ReadFile, BeginPreflight, Unparsed, Unscanned
<1>4. CASE Scan
  <2>1. UNCHANGED <<call, tree, at>> /\ stage = "scan" /\ stage' \in {"scan", "scanned"}
    BY <1>4 DEF Scan, ScanSeparator, ScanOpen, ScanClose, ScanKey, ScanString,
       ScanLongString, ScanLiteral, ScanGarbage, ScanNumber, ScanScalar, ScanFails, Scanning
  <2> QED
    BY <1>0, <1>2, <2>1 DEF Unparsed
<1>5. CASE EndPreflight \/ AsciiInput
  BY <1>0, <1>2, <1>5 DEF EndPreflight, AsciiInput, Unparsed, Unscanned
<1>6. CASE NativeParse
  <2>1. stage = "native" /\ UNCHANGED call /\ at' = at /\ at = 0
    BY <1>0, <1>6 DEF NativeParse, Unparsed
  <2>2. CASE NativeFails
    BY <1>0, <1>2, <2>1, <2>2 DEF NativeFails, Unparsed, Unscanned
  <2>3. CASE NativeSucceeds
    <3>1. /\ IsDocument(text) /\ tree' = NativeTree(library, text)
          /\ stage' \in {"check", "walk"} /\ text' = text /\ library' = library
      BY <2>1, <2>3 DEF NativeSucceeds, call
    <3>2. tree' \in Seq(Told(text))
      BY <3>1, TreeOfDocument DEF AdapterIInv, CallTypes
    <3>3. 0 \in 0..Len(tree')
      BY <3>2
    <3> QED
      BY <2>1, <3>1, <3>3 DEF TreeOfText, Unparsed, Unscanned
  <2> QED
    BY <1>6, <2>2, <2>3 DEF NativeParse
<1>7. CASE BeginWalk
  <2>1. 0 \in 0..Len(tree)
    BY <1>0
  <2> QED
    BY <1>2, <1>7, <2>1 DEF BeginWalk, Unparsed, Unscanned
<1>8. CASE WalkStep
  <2>1. /\ UNCHANGED call /\ UNCHANGED tree /\ stage' = stage
        /\ stage \in {"checking", "walking"} /\ at < Len(tree) /\ at' \in {at, at + 1}
    BY <1>8 DEF WalkStep
  <2> QED
    BY <1>0, <1>2, <2>1 DEF Unparsed, Unscanned
<1>9. CASE EndWalk
  BY <1>0, <1>2, <1>9 DEF EndWalk, Unparsed, Unscanned
<1>10. CASE Done \/ Return
  BY <1>0, <1>2, <1>10 DEF Done, Return, Unparsed, Unscanned
<1>11. CASE UNCHANGED vars
  BY <1>0, <1>11 DEF vars, call, TreeOfText
<1> QED
  BY <1>1, <1>3, <1>4, <1>5, <1>6, <1>7, <1>8, <1>9, <1>10, <1>11 DEF AdapterNext, Steps

\* Everything about types, and the invariants of the walk in the adapter.
THEOREM AdapterInvariant == AdapterSpec => []AdapterIInv
<1>1. AdapterIInv /\ [AdapterNext]_vars => AdapterIInv'
  <2> SUFFICES ASSUME AdapterIInv, [AdapterNext]_vars PROVE AdapterIInv'
    OBVIOUS
  <2>1. IInv' /\ PathStands'
    BY StepWalks, StepIInv, StepPath DEF AdapterIInv
  <2> QED
    BY <2>1, StepCall, StepRelease, StepScan, StepTree DEF AdapterIInv
<1> QED
  BY <1>1, InitAdapterIInv, PTL DEF AdapterSpec

\* The state of an adapter is well typed; the depth of the scan does not wrap.
THEOREM AdapterTypesCorrect == AdapterSpec => []AdapterTypeOK
<1>1. AdapterIInv => AdapterTypeOK
  <2> SUFFICES ASSUME AdapterIInv PROVE AdapterTypeOK
    OBVIOUS
  <2>1. spans \in Seq(Spans)
    <3> DEFINE S == [data : Data \ TooLong, kind : Kinds]
    <3>1. S \subseteq Spans /\ spans \in Seq(S)
      BY DEF Spans, AdapterIInv, ScanTypes, Numerals
    <3> HIDE DEF S
    <3> QED
      BY <3>1
  <2> QED
    BY <2>1 DEF AdapterIInv, IInv, CallTypes, ReleaseTypes, ScanTypes, TreeOfText,
       AdapterTypeOK
<1> QED
  BY <1>1, AdapterInvariant, PTL

(***************************************************************************)
(* Measures of a document: what its preflight counts, its depth, and what  *)
(* it prints.                                                              *)
(***************************************************************************)

Numeric(t) == {e \in Happenings : /\ e.type = "scalar" /\ e.index \in DOMAIN t
                                  /\ t[e.index].type \in Kinds}
SourceOf(e, t) == [from |-> "source", index |-> e.index, text |-> t[e.index].text]
SpanOf(e, t) == [data |-> SourceOf(e, t), kind |-> t[e.index].type]
SpansOf(events, t) ==
    LET s == Picked(events, Numeric(t)) IN [i \in DOMAIN s |-> SpanOf(s[i], t)]
LineOf(e, t) == [name |-> e.name, value |-> SourceOf(e, t)]
LinesOf(events, t) ==
    LET s == OfType(events, "scalar") IN [i \in DOMAIN s |-> LineOf(s[i], t)]

LEMMA ArgumentsAre == \A t : Arguments(t) = LinesOf(Events(t), t)
BY DEF Arguments, LinesOf, LineOf, SourceOf, EventsOf, OfType

\* A mapped sequence grows with the sequence.
LEMMA MappedGrows ==
    ASSUME NEW S, NEW s \in Seq(S), NEW e \in S, NEW R, NEW f \in [S -> R]
    PROVE  [i \in DOMAIN Append(s, e) |-> f[Append(s, e)[i]]]
              = Append([i \in DOMAIN s |-> f[s[i]]], f[e])
<1> DEFINE a == [i \in DOMAIN s |-> f[s[i]]]
           w == Append(s, e)
           b == [i \in DOMAIN w |-> f[w[i]]]
           n == Len(s)
<1>1. /\ w \in Seq(S) /\ Len(w) = n + 1 /\ n \in Nat /\ w[n + 1] = e
      /\ DOMAIN w = 1..(n + 1) /\ DOMAIN s = 1..n
      /\ \A i \in 1..n : w[i] = s[i] /\ s[i] \in S
  OBVIOUS
<1> HIDE DEF w
<1>2. a \in Seq(R) /\ Len(a) = n /\ \A i \in 1..n : a[i] = f[s[i]]
  BY <1>1
<1>3. b \in Seq(R) /\ Len(b) = n + 1 /\ \A i \in 1..(n + 1) : b[i] = f[w[i]]
  <2>1. \A i \in 1..(n + 1) : w[i] \in S
    BY <1>1
  <2> QED
    BY <1>1, <2>1
<1> HIDE DEF a, b
<1>4. /\ Append(a, f[e]) \in Seq(R) /\ Len(Append(a, f[e])) = n + 1
      /\ Append(a, f[e])[n + 1] = f[e]
      /\ \A i \in 1..n : Append(a, f[e])[i] = a[i]
  BY <1>1, <1>2
<1>5. \A i \in 1..(n + 1) : b[i] = Append(a, f[e])[i]
  BY <1>1, <1>2, <1>3, <1>4
<1>6. b = Append(a, f[e])
  BY <1>3, <1>4, <1>5, SeqEqual
<1> QED
  BY <1>6 DEF a, b, w

LEMMA SpansGrow ==
    ASSUME NEW v \in Seq(Happenings), NEW e \in Happenings, NEW t
    PROVE  SpansOf(Append(v, e), t) =
              IF e \in Numeric(t) THEN Append(SpansOf(v, t), SpanOf(e, t))
              ELSE SpansOf(v, t)
<1> DEFINE Q == Numeric(t)
           f == [x \in Happenings |-> SpanOf(x, t)]
           R == {SpanOf(x, t) : x \in Happenings}
           s == Picked(v, Q)
           w == Picked(Append(v, e), Q)
<1>1. s \in Seq(Happenings) /\ w = Selecting(s, e, e \in Q)
  <2> HIDE DEF Q
  <2> QED
    BY PickedGrows
<1> HIDE DEF s, w
<1>2. SpansOf(v, t) = [i \in DOMAIN s |-> SpanOf(s[i], t)]
      /\ SpansOf(Append(v, e), t) = [i \in DOMAIN w |-> SpanOf(w[i], t)]
  BY DEF SpansOf, s, w
<1>3. CASE e \in Q
  <2>1. w = Append(s, e)
    BY <1>1, <1>3 DEF Selecting
  <2>2. f \in [Happenings -> R]
    OBVIOUS
  <2>3. \A x \in Happenings : f[x] = SpanOf(x, t)
    OBVIOUS
  <2> HIDE DEF f, R
  <2>4. [i \in DOMAIN Append(s, e) |-> f[Append(s, e)[i]]]
            = Append([i \in DOMAIN s |-> f[s[i]]], f[e])
    BY <1>1, <2>2, MappedGrows
  <2>5. \A i \in DOMAIN s : s[i] \in Happenings
    BY <1>1
  <2>6. \A i \in DOMAIN w : w[i] \in Happenings
    BY <1>1, <2>1
  <2>7. /\ [i \in DOMAIN w |-> f[w[i]]] = [i \in DOMAIN w |-> SpanOf(w[i], t)]
        /\ [i \in DOMAIN s |-> f[s[i]]] = [i \in DOMAIN s |-> SpanOf(s[i], t)]
    BY <2>3, <2>5, <2>6
  <2> QED
    BY <1>2, <1>3, <2>1, <2>3, <2>4, <2>7
<1>4. CASE e \notin Q
  BY <1>1, <1>2, <1>4 DEF Selecting
<1> QED
  BY <1>3, <1>4

LEMMA LinesGrow ==
    ASSUME NEW v \in Seq(Happenings), NEW e \in Happenings, NEW t
    PROVE  LinesOf(Append(v, e), t) =
              IF e.type = "scalar" THEN Append(LinesOf(v, t), LineOf(e, t))
              ELSE LinesOf(v, t)
<1> DEFINE f == [x \in Happenings |-> LineOf(x, t)]
           R == {LineOf(x, t) : x \in Happenings}
           s == OfType(v, "scalar")
           w == OfType(Append(v, e), "scalar")
<1>1. s \in Seq(Happenings) /\ w = IF e.type = "scalar" THEN Append(s, e) ELSE s
  BY OfTypeGrows
<1> HIDE DEF s, w
<1>2. LinesOf(v, t) = [i \in DOMAIN s |-> LineOf(s[i], t)]
      /\ LinesOf(Append(v, e), t) = [i \in DOMAIN w |-> LineOf(w[i], t)]
  BY DEF LinesOf, s, w
<1>3. CASE e.type = "scalar"
  <2>1. w = Append(s, e)
    BY <1>1, <1>3
  <2>2. f \in [Happenings -> R]
    OBVIOUS
  <2>3. \A x \in Happenings : f[x] = LineOf(x, t)
    OBVIOUS
  <2> HIDE DEF f, R
  <2>4. [i \in DOMAIN Append(s, e) |-> f[Append(s, e)[i]]]
            = Append([i \in DOMAIN s |-> f[s[i]]], f[e])
    BY <1>1, <2>2, MappedGrows
  <2>5. \A i \in DOMAIN s : s[i] \in Happenings
    BY <1>1
  <2>6. \A i \in DOMAIN w : w[i] \in Happenings
    BY <1>1, <2>1
  <2>7. /\ [i \in DOMAIN w |-> f[w[i]]] = [i \in DOMAIN w |-> LineOf(w[i], t)]
        /\ [i \in DOMAIN s |-> f[s[i]]] = [i \in DOMAIN s |-> LineOf(s[i], t)]
    BY <2>3, <2>5, <2>6
  <2> QED
    BY <1>2, <1>3, <2>1, <2>3, <2>4, <2>7
<1>4. CASE e.type # "scalar"
  BY <1>1, <1>2, <1>4
<1> QED
  BY <1>3, <1>4

\* The number of scalars and members, item by item.
Count(v, type) == Len(OfType(v, type))

LEMMA CountGrows ==
    ASSUME NEW v \in Seq(Happenings), NEW e \in Happenings, NEW type
    PROVE  /\ Count(v, type) \in Nat
           /\ Count(Append(v, e), type) = Count(v, type) + (IF e.type = type THEN 1 ELSE 0)
<1>1. /\ OfType(v, type) \in Seq(Happenings)
      /\ OfType(Append(v, e), type) =
            IF e.type = type THEN Append(OfType(v, type), e) ELSE OfType(v, type)
  BY OfTypeGrows
<1> DEFINE s == OfType(v, type)
<1>2. Len(s) \in Nat /\ Len(Append(s, e)) = Len(s) + 1
  BY <1>1
<1> QED
  BY <1>1, <1>2 DEF Count

LEMMA NothingCounted ==
    \A t, type : /\ Count(<<>>, type) = 0
                 /\ SpansOf(<<>>, t) = <<>> /\ LinesOf(<<>>, t) = <<>>
<1> SUFFICES ASSUME NEW t, NEW type
             PROVE  /\ Count(<<>>, type) = 0
                    /\ SpansOf(<<>>, t) = <<>> /\ LinesOf(<<>>, t) = <<>>
  OBVIOUS
<1>1. \A places : Selected(<<>>, places) = <<>>
  BY SelectedNone
<1>2. OfType(<<>>, type) = <<>> /\ OfType(<<>>, "scalar") = <<>> /\ Picked(<<>>, Numeric(t)) = <<>>
  BY <1>1, Zenon DEF OfType, Picked
<1> QED
  BY <1>2 DEF Count, SpansOf, LinesOf

\* A beginning of a sequence has no more of a type than the whole, and less if
\* one follows.
LEMMA CountPlace ==
    ASSUME NEW v \in Seq(Happenings), NEW k \in 0..Len(v), NEW type
    PROVE  /\ Count(SubSeq(v, 1, k), type) \in Nat /\ Count(v, type) \in Nat
           /\ Count(SubSeq(v, 1, k), type) <= Count(v, type)
           /\ k < Len(v) /\ v[k + 1].type = type =>
                 Count(SubSeq(v, 1, k), type) < Count(v, type)
<1> DEFINE Q == {e \in Happenings : e.type = type}
           b == SubSeq(v, 1, k)
<1>1. b \in Seq(Happenings)
  OBVIOUS
<1>2. OfType(b, type) = Picked(b, Q) /\ OfType(v, type) = Picked(v, Q)
  <2> HIDE DEF b
  <2> QED
    BY <1>1, OfTypeIs, Zenon
<1>3. k < Len(v) /\ v[k + 1].type = type => v[k + 1] \in Q
  OBVIOUS
<1>4. Picked(b, Q) \in Seq(Happenings) /\ Picked(v, Q) \in Seq(Happenings)
  <2> HIDE DEF b, Q
  <2> QED
    BY <1>1, SelectedType, Zenon DEF Picked
<1> HIDE DEF Q
<1>5. /\ Len(Picked(b, Q)) <= Len(Picked(v, Q))
      /\ k < Len(v) /\ v[k + 1] \in Q => Len(Picked(b, Q)) < Len(Picked(v, Q))
  BY PickedPlace
<1> HIDE DEF b
<1>6. Len(Picked(b, Q)) \in Nat /\ Len(Picked(v, Q)) \in Nat
  BY <1>4
<1> QED
  BY <1>2, <1>3, <1>5, <1>6 DEF Count, b

\* The numbers so far have the spans before the next one's.
LEMMA SpanPlace ==
    ASSUME NEW v \in Seq(Happenings), NEW t, NEW k \in 0..Len(v), NEW m,
           m = Len(Picked(SubSeq(v, 1, k), Numeric(t)))
    PROVE  /\ m \in Nat /\ m <= Len(SpansOf(v, t))
           /\ Len(SpansOf(v, t)) = Len(Picked(v, Numeric(t)))
           /\ k < Len(v) /\ v[k + 1] \in Numeric(t) =>
                 /\ m < Len(SpansOf(v, t))
                 /\ SpansOf(v, t)[m + 1] = SpanOf(v[k + 1], t)
<1> DEFINE Q == Numeric(t)
           b == SubSeq(v, 1, k)
           s == Picked(v, Q)
<1>1. b \in Seq(Happenings)
  OBVIOUS
<1>2. Picked(b, Q) \in Seq(Happenings) /\ s \in Seq(Happenings)
  <2> HIDE DEF b, Q
  <2> QED
    BY <1>1, SelectedType, Zenon DEF Picked
<1>3. /\ Len(Picked(b, Q)) <= Len(s)
      /\ k < Len(v) /\ v[k + 1] \in Q =>
            Len(Picked(b, Q)) < Len(s) /\ s[Len(Picked(b, Q)) + 1] = v[k + 1]
  <2> HIDE DEF Q
  <2> QED
    BY PickedPlace
<1>4. SpansOf(v, t) = [i \in DOMAIN s |-> SpanOf(s[i], t)]
  BY DEF SpansOf
<1> HIDE DEF s, b, Q
<1>5. m \in Nat /\ m = Len(Picked(b, Q))
  BY <1>2 DEF b, Q
<1>6. DOMAIN s = 1..Len(s) /\ Len(s) \in Nat
  BY <1>2
<1>7. Len(SpansOf(v, t)) = Len(s) /\ \A i \in 1..Len(s) : SpansOf(v, t)[i] = SpanOf(s[i], t)
  BY <1>4, <1>6
<1> QED
  BY <1>3, <1>5, <1>6, <1>7 DEF s, Q

\* A set of numbers with a bound has a largest.
LEMMA MaxIs ==
    ASSUME NEW B \in Nat, NEW S \in SUBSET (0..B), S # {}
    PROVE  Max(S) \in S /\ \A x \in S : x <= Max(S)
<1> DEFINE T == {B - x : x \in S}
<1>1. T \in SUBSET Nat /\ T # {}
  <2>1. PICK x \in S : TRUE
    OBVIOUS
  <2>2. B - x \in T
    BY <2>1
  <2>3. ASSUME NEW z \in T PROVE z \in Nat
    <3>1. PICK y \in S : z = B - y
      BY <2>3
    <3>2. y \in 0..B
      OBVIOUS
    <3> QED
      BY <3>1, <3>2
  <2> HIDE DEF T
  <2> QED
    BY <2>2, <2>3
<1>2. PICK n \in T : \A m \in T : n <= m
  BY <1>1, LeastLength
<1>3. PICK y \in S : n = B - y
  BY <1>2
<1>4. \A x \in S : y >= x
  <2> SUFFICES ASSUME NEW x \in S PROVE y >= x
    OBVIOUS
  <2>1. B - x \in T
    OBVIOUS
  <2>2. B - y <= B - x
    BY <1>2, <1>3, <2>1
  <2> QED
    BY <2>2
<1>5. Max(S) \in S /\ \A x \in S : Max(S) >= x
  BY <1>3, <1>4 DEF Max
<1> QED
  BY <1>5

\* No event is inside more containers than there are events.
LEMMA AroundLength ==
    ASSUME NEW v \in Seq(Happenings), Whole(v)
    PROVE  /\ \A i \in 0..Len(v) : Around(SubSeq(v, 1, i)) \in Seq(Nat)
           /\ \A j \in 1..Len(v) : Len(v[j].around) \in 0..Len(v)
<1> DEFINE n == Len(v)
           A(i) == Around(SubSeq(v, 1, i))
           T == {i \in 0..n : A(i) \in Seq(Nat) /\ Len(A(i)) <= i}
<1>0. n \in Nat
  OBVIOUS
<1>1. 0 \in T
  <2>1. SubSeq(v, 1, 0) = <<>> /\ <<>> \in Seq(Nat) /\ Len(<<>>) = 0
    OBVIOUS
  <2>2. A(0) = <<>>
    BY <2>1 DEF Around
  <2>3. A(0) \in Seq(Nat) /\ Len(A(0)) <= 0
    <3> DEFINE a == A(0)
    <3>1. a = <<>>
      BY <2>2
    <3> HIDE DEF a
    <3>2. a \in Seq(Nat) /\ Len(a) <= 0
      BY <3>1
    <3> QED
      BY <3>2 DEF a
  <2> QED
    BY <1>0, <2>3
<1>2. \A i \in 1..n : i - 1 \in T => i \in T
  <2> SUFFICES ASSUME NEW i \in 1..n, i - 1 \in T PROVE i \in T
    OBVIOUS
  <2> DEFINE a == A(i - 1)
             e == v[i]
             b == SubSeq(v, 1, i - 1)
  <2>1. SubSeq(v, 1, i) = Append(b, e) /\ b \in Seq(Happenings) /\ e \in Happenings
    BY Beginnings
  <2>2. e.around = a
    BY DEF Whole
  <2>3. A(i) = AroundAfter(e)
    <3> HIDE DEF b, e
    <3> QED
      BY <2>1, AroundGrows
  <2>4. a \in Seq(Nat) /\ Len(a) <= i - 1 /\ e.at \in Nat /\ i \in 0..n /\ i - 1 \in Nat
    <3>1. e.at \in Nat
      <4> HIDE DEF e
      <4> QED
        BY <2>1 DEF Happenings
    <3>2. a \in Seq(Nat) /\ Len(a) <= i - 1
      OBVIOUS
    <3> QED
      BY <1>0, <3>1, <3>2
  <2>5. CASE e.type = "close"
    <3> DEFINE c == SubSeq(a, 1, Len(a) - 1)
    <3>1. c \in Seq(Nat) /\ Len(c) <= i
      <4> HIDE DEF a
      <4>1. CASE Len(a) = 0
        <5>1. Len(SubSeq(a, 1, Len(a) - 1)) = 0
          BY <2>4, <4>1
        <5> QED
          BY <2>4, <5>1
      <4>2. CASE Len(a) > 0
        <5>1. Len(c) = Len(a) - 1
          BY <2>4, <4>2, FrontLength
        <5> QED
          BY <2>4, <4>2, <5>1
      <4> QED
        BY <2>4, <4>1, <4>2
    <3>2. A(i) = c
      BY <2>2, <2>3, <2>5 DEF AroundAfter
    <3> HIDE DEF A, c
    <3> QED
      BY <2>4, <3>1, <3>2
  <2>6. CASE e.type = "open"
    <3> DEFINE c == Append(a, e.at)
    <3>1. c \in Seq(Nat) /\ Len(c) <= i
      <4> HIDE DEF a, e
      <4> QED
        BY <2>4
    <3>2. A(i) = c
      BY <2>2, <2>3, <2>6 DEF AroundAfter
    <3> HIDE DEF A, c
    <3> QED
      BY <2>4, <3>1, <3>2
  <2>7. CASE e.type \notin {"open", "close"}
    <3>1. A(i) = a
      BY <2>2, <2>3, <2>7 DEF AroundAfter
    <3> HIDE DEF A
    <3> QED
      BY <2>4, <3>1
  <2> QED
    BY <2>5, <2>6, <2>7
<1> HIDE DEF T, n
<1>3. \A i \in 0..n : i \in T
  BY <1>0, <1>1, <1>2, AllLengths
<1>4. ASSUME NEW i \in 0..Len(v) PROVE Around(SubSeq(v, 1, i)) \in Seq(Nat)
  BY <1>3, <1>4 DEF T, n
<1>5. ASSUME NEW j \in 1..Len(v) PROVE Len(v[j].around) \in 0..Len(v)
  <2>1. v[j].around = A(j - 1)
    BY DEF Whole
  <2>2. j - 1 \in 0..n
    BY <1>0 DEF n
  <2>3. A(j - 1) \in Seq(Nat) /\ Len(A(j - 1)) <= j - 1
    BY <1>3, <2>2 DEF T
  <2> HIDE DEF A
  <2> QED
    BY <2>1, <2>3
<1> QED
  BY <1>4, <1>5

\* The nesting is no less than any event's, and the slots are some event's.
LEMMA MeasuresAre ==
    ASSUME NEW t \in Seq(Tokens), IsDocument(t), NEW E, E = Events(t)
    PROVE  /\ Nesting(t) \in Nat /\ \A j \in 1..Len(E) : Len(E[j].around) <= Nesting(t)
           /\ Slots(t) \in Nat
           /\ Slots(t) = 0 \/ \E j \in 1..Len(E) : Slots(t) = Len(E[j].around)
<1>1. E \in Seq(Happenings) /\ Whole(E)
  <2>1. E \in Seq(Told(t)) /\ Told(t) \subseteq Happenings
    BY DocumentTold DEF Told
  <2>2. E \in Seq(Happenings)
    BY <2>1
  <2> QED
    BY <2>2, DocumentEnds, WellFormedIsWhole
<1>2. Len(E) \in Nat /\ \A j \in 1..Len(E) : Len(E[j].around) \in 0..Len(E)
  BY <1>1, AroundLength
<1>3. ToSet(E) = {E[j] : j \in 1..Len(E)}
  BY <1>1 DEF ToSet
<1> DEFINE N == {0} \cup {Len(event.around) : event \in ToSet(E)}
           L == {0} \cup {Len(event.around) : event \in
                    {e \in ToSet(E) : e.type \in {"scalar", "open"}}}
<1>4. N \in SUBSET (0..Len(E)) /\ N # {} /\ L \in SUBSET (0..Len(E)) /\ L # {}
  BY <1>2, <1>3
<1>5. Nesting(t) = Max(N) /\ Slots(t) = Max(L)
  BY DEF Nesting, Slots
<1>6. \A j \in 1..Len(E) : Len(E[j].around) \in N
  BY <1>3
<1>7. \A x \in L : x = 0 \/ \E j \in 1..Len(E) : x = Len(E[j].around)
  BY <1>3
<1> HIDE DEF N, L
<1>8. Max(N) \in N /\ (\A x \in N : x <= Max(N)) /\ Max(L) \in L
  BY <1>2, <1>4, MaxIs
<1>9. Max(N) \in Nat /\ Max(L) \in Nat
  <2>1. 0..Len(E) \subseteq Nat
    BY <1>2
  <2> QED
    BY <1>4, <1>8, <2>1
<1> QED
  BY <1>5, <1>6, <1>7, <1>8, <1>9

\* Where the openings are inside fewer than d containers, everything is inside
\* d at most: what it is inside was opened.
LEMMA OpeningsBound ==
    ASSUME NEW v \in Seq(Happenings), WellFormed(v), NEW d \in Nat,
           \A i \in 1..Len(v) : v[i].type = "open" => Len(v[i].around) < d
    PROVE  \A i \in 1..Len(v) : Len(v[i].around) <= d
<1> SUFFICES ASSUME NEW i \in 1..Len(v) PROVE Len(v[i].around) <= d
  OBVIOUS
<1> DEFINE a == v[i].around
           b == SubSeq(v, 1, i - 1)
<1>1. a \in Seq(Nat) /\ Openers(b, a)
  <2>1. v[i] \in Happenings
    OBVIOUS
  <2> QED
    BY <2>1 DEF Happenings, WellFormed, Follows
<1>2. CASE Len(a) = 0
  BY <1>2
<1>3. CASE Len(a) > 0
  <2> DEFINE p == Len(a)
             q == a[p]
  <2>1. p \in 1..Len(a)
    BY <1>1, <1>3
  <2>2. q \in 1..Len(b) /\ b[q].type = "open" /\ b[q].around = SubSeq(a, 1, p - 1)
    BY <1>1, <2>1 DEF Openers
  <2>3. Len(b) = i - 1 /\ \A x \in 1..(i - 1) : b[x] = v[x]
    OBVIOUS
  <2>4. q \in 1..Len(v) /\ b[q] = v[q]
    <3> HIDE DEF b, q
    <3> QED
      BY <2>2, <2>3
  <2>5. Len(SubSeq(a, 1, p - 1)) = p - 1
    BY <1>1, <1>3, FrontLength
  <2> HIDE DEF b, q
  <2>6. Len(v[q].around) < d
    BY <2>2, <2>4
  <2> QED
    BY <1>1, <2>2, <2>4, <2>5, <2>6
<1> QED
  BY <1>1, <1>2, <1>3

(***************************************************************************)
(* The preflight of a document.                                            *)
(***************************************************************************)

\* What the token i of a document means for its events, as the preflight tells
\* it: the reader s becomes r, and the event e follows unless it separates.
Means(t, i, s, r, e) ==
    /\ s.events \in Seq(Happenings) /\ s.around \in Seq(Nat)
    /\ t[i].type # "garbage"
    /\ t[i].type \in {":", ","} => r.events = s.events /\ r.around = s.around
    /\ t[i].type \notin {":", ","} =>
          /\ e \in Happenings /\ r.events = Append(s.events, e)
          /\ e.around = s.around /\ r.around = AroundAfter(e)
    /\ t[i].type \in {"{", "["} => e.type = "open"
    /\ t[i].type \in {"}", "]"} => e.type = "close"
    /\ t[i].type \in {"integer", "real", "literal"} => e.type = "scalar" /\ e.index = i
    /\ t[i].type = "string" /\ i < Len(t) /\ t[i + 1].type = ":" =>
          e.type = "member" /\ e.key = t[i].text
    /\ t[i].type = "string" /\ ~(i < Len(t) /\ t[i + 1].type = ":") =>
          e.type = "scalar" /\ e.index = i

\* Every token of a document means what Means says.
LEMMA TokenMeans ==
    ASSUME NEW t \in Seq(Tokens), IsDocument(t), NEW i \in 1..Len(t),
           NEW s, s = Behind(t, i - 1), NEW r, r = Behind(t, i),
           NEW E, E = Events(t), NEW k, k = Len(s.events)
    PROVE  /\ Means(t, i, s, r, E[k + 1])
           /\ k \in 0..Len(E) /\ s.events = SubSeq(E, 1, k)
           /\ t[i].type \notin {":", ","} => k + 1 \in 1..Len(E)
<1>1. /\ s \in Readers /\ r \in Readers
      /\ \/ /\ \/ t[i].type = ":" /\ s.mark = "colon"
               \/ t[i].type = "," /\ s.mark = "after"
            /\ r.events = s.events /\ r.around = s.around
         \/ k + 1 \in 1..Len(E) /\ Tells(t, i, s, r, E[k + 1])
  BY DocumentStep
<1>2. s.events \in Seq(Happenings) /\ s.around \in Seq(Nat)
  BY <1>1 DEF Readers
<1>3. k \in 0..Len(E) /\ s.events = SubSeq(E, 1, k)
  <2>1. i - 1 \in 0..Len(t)
    OBVIOUS
  <2>2. /\ Len(Behind(t, i - 1).events) <= Len(Events(t))
        /\ Behind(t, i - 1).events = SubSeq(Events(t), 1, Len(Behind(t, i - 1).events))
    BY <2>1, DocumentPrefix, Zenon
  <2>3. E \in Seq(Told(t))
    BY DocumentTold
  <2>4. Len(E) \in Nat /\ k \in Nat
    BY <1>2, <2>3
  <2>5. k <= Len(E) /\ s.events = SubSeq(E, 1, k)
    BY <2>2, Zenon
  <2> QED
    BY <2>4, <2>5
<1>4. t[i].type = "string" => (TakesKey(s) <=> i < Len(t) /\ t[i + 1].type = ":")
  BY KeyBeforeColon
<1>5. ~(TakesKey(s) /\ TakesValue(s))
  BY DEF TakesKey, TakesValue
<1>6. CASE /\ \/ t[i].type = ":" /\ s.mark = "colon"
              \/ t[i].type = "," /\ s.mark = "after"
           /\ r.events = s.events /\ r.around = s.around
  BY <1>2, <1>3, <1>6 DEF Means
<1>7. CASE k + 1 \in 1..Len(E) /\ Tells(t, i, s, r, E[k + 1])
  <2> DEFINE e == E[k + 1]
  <2>1. /\ e \in Happenings /\ r.events = Append(s.events, e)
        /\ e.around = s.around /\ r.around = AroundAfter(e)
        /\ \/ /\ t[i].type \in ScalarTypes /\ TakesValue(s) /\ e.type = "scalar"
              /\ e.index = i /\ r.mark # "colon"
           \/ /\ t[i].type = "string" /\ TakesKey(s) /\ e.type = "member"
              /\ e.key = t[i].text /\ r.mark = "colon"
           \/ t[i].type \in {"{", "["} /\ TakesValue(s) /\ e.type = "open"
           \/ t[i].type \in {"}", "]"} /\ s.mark # "colon" /\ e.type = "close"
    BY <1>7, Zenon DEF Tells
  <2> HIDE DEF e
  <2>2. /\ t[i].type \notin {"garbage", ":", ","}
        /\ t[i].type \in {"{", "["} => e.type = "open"
        /\ t[i].type \in {"}", "]"} => e.type = "close"
        /\ t[i].type \in {"integer", "real", "literal"} => e.type = "scalar" /\ e.index = i
        /\ t[i].type = "string" /\ TakesKey(s) => e.type = "member" /\ e.key = t[i].text
        /\ t[i].type = "string" /\ ~TakesKey(s) => e.type = "scalar" /\ e.index = i
    BY <1>5, <2>1 DEF ScalarTypes
  <2> QED
    BY <1>2, <1>3, <1>4, <1>7, <2>1, <2>2 DEF e, Means
<1> QED
  BY <1>1, <1>6, <1>7

\* What the preflight lets pass of a document.
Passed(e) ==
    /\ e.type = "open" => Len(e.around) < limits.depth
    /\ e.type = "member" /\ HasNul(e.key) => Policy(library).nul = "allowed"
    /\ e.type = "scalar" =>
          LET token == text[e.index] IN
          /\ Len(token.text) < JSON_STRING_SIZE
          /\ token.type = "string" /\ HasNul(token.text) => Policy(library).nul # "forbidden"

\* What the scan has counted and kept of these events.
Counted(events) ==
    /\ scalars = Count(events, "scalar") /\ keys = Count(events, "member")
    /\ spans = IF Raw(library) THEN <<>> ELSE SpansOf(events, text)
    /\ scalars <= limits.args
    /\ \A i \in 1..Len(events) : Passed(events[i])

Unwalked == {"ascii", "native", "check", "checking", "walk", "walking"}

ScanStands ==
    IsDocument(text) =>
        /\ stage = "scan" => LET r == Behind(text, scanned) IN
                                depth = Len(r.around) /\ Counted(r.events)
        /\ stage \in Unwalked => Counted(Events(text))

\* The check of json-c has found all the keys.
TreeStands ==
    /\ stage \in {"check", "checking"} => library = "json-c"
    /\ stage \in {"check", "checking", "walk", "walking"} =>
          IsDocument(text) /\ tree = NativeTree(library, text)
    /\ stage \in {"walk", "walking"} => tree = Events(text)

\* No name at the event i is too long.
NameFits(i) ==
    LET d == Place(SubSeq(tree, 1, i - 1))
    IN  /\ tree[i].type = "scalar" => Fits(Len(ArgumentName(d)))
        /\ tree[i].type = "open" => Fits(Len(ContainerName(d, tree[i].array)))
        /\ tree[i].type = "member" => Fits(Len(tree[i].key))

Visited == SubSeq(tree, 1, at)

\* The walk is where the events that were visited lead.
Standing ==
    /\ doc = Place(Visited)
    /\ Len(doc.open) = Len(Around(Visited))
    /\ arguments = Count(Visited, "scalar")
    /\ object_keys = Count(Visited, "member")
    /\ use_numbers => number_position = Len(Picked(Visited, Numeric(text)))
    /\ lines = IF silence THEN <<>> ELSE LinesOf(Visited, text)
    /\ \A i \in 1..at : NameFits(i)
    /\ pc = "next" => at > 0

\* Nothing but memory, the output, a native number or a name stops it, and of
\* json-c's second walk no name.
Stopping ==
    /\ reason \in {"memory", "output", "native", "name"}
    /\ stage = "walking" /\ library = "json-c" => reason # "name"

WalkStands ==
    /\ stage \in {"checking", "walking"} =>
          /\ use_numbers = (stage = "walking" /\ ~Raw(library))
          /\ numbers = IF use_numbers THEN spans ELSE <<>>
          /\ silence = (stage = "checking" \/ quiet)
          /\ pc # "idle"
          /\ pc = "finish" => Stopping
          /\ pc \in {"enter", "next"} => Standing
    /\ stage \in {"walk", "walking"} /\ library = "json-c" =>
          \A i \in 1..Len(tree) : NameFits(i)

PrintStands ==
    /\ stage \notin {"walking", "done", "restore", "idle"} => lines = <<>>
    /\ stage \in {"done", "restore"} =>
        /\ result = "ok" => /\ IsDocument(text)
                            /\ lines = IF quiet THEN <<>> ELSE Arguments(text)
        /\ library = "json-c" /\ result = "error" =>
               lines = <<>> \/ ground \in {"memory", "native", "output"}

\* What a ground says of a document.
Cause(g, t, l, of) ==
    /\ g = "depth" => Nesting(t) > l.depth
    /\ g = "arguments" => Len(EventsOf(t, "scalar")) > l.args
    /\ g = "repeated" => \E m, n \in ToSet(Events(t)) :
                            Repeat(m, n, LAMBDA j, k : j = k)
    /\ g = "native depth" => l.depth > JSON_STRING_SIZE
    /\ g \in {"nul", "size", "range"} =>
          \E event \in ToSet(Events(t)) : Unfit(g, event, of, t)
    /\ g \notin {"lexical", "grammar"}

CauseStands ==
    /\ stage = "new" => ground = None
    /\ IsDocument(text) => Cause(ground, text, limits, library)
    /\ reason \notin {"depth", "arguments", "value", "numbers"}

DocumentIInv ==
    /\ AdapterIInv /\ Releasing
    /\ ScanStands /\ TreeStands /\ WalkStands /\ PrintStands /\ CauseStands

\* Before the first token nothing has been read.
LEMMA NothingBehind ==
    ASSUME NEW t \in Seq(Tokens)
    PROVE  Behind(t, 0).events = <<>> /\ Behind(t, 0).around = <<>>
BY BehindGrows DEF Reader

\* One more event is counted.
LEMMA OneMoreCounted ==
    ASSUME NEW v \in Seq(Happenings), NEW e \in Happenings, Counted(v), Passed(e),
           NEW n, n = scalars + (IF e.type = "scalar" THEN 1 ELSE 0), n <= limits.args,
           NEW m, m = keys + (IF e.type = "member" THEN 1 ELSE 0),
           NEW s, s = IF ~Raw(library) /\ e \in Numeric(text)
                      THEN Append(spans, SpanOf(e, text)) ELSE spans
    PROVE  LET w == Append(v, e) IN
           /\ n = Count(w, "scalar") /\ m = Count(w, "member")
           /\ s = IF Raw(library) THEN <<>> ELSE SpansOf(w, text)
           /\ \A i \in 1..Len(w) : Passed(w[i])
<1> DEFINE w == Append(v, e)
<1>1. n = Count(w, "scalar") /\ m = Count(w, "member")
  BY CountGrows DEF Counted
<1>2. s = IF Raw(library) THEN <<>> ELSE SpansOf(w, text)
  <2>1. SpansOf(w, text) = IF e \in Numeric(text) THEN Append(SpansOf(v, text), SpanOf(e, text))
                           ELSE SpansOf(v, text)
    BY SpansGrow
  <2>2. spans = IF Raw(library) THEN <<>> ELSE SpansOf(v, text)
    BY DEF Counted
  <2> QED
    BY <2>1, <2>2, Zenon
<1>3. ASSUME NEW i \in 1..Len(w) PROVE Passed(w[i])
  <2>1. w[i] = e \/ (i \in 1..Len(v) /\ w[i] = v[i])
    OBVIOUS
  <2>2. \A j \in 1..Len(v) : Passed(v[j])
    BY DEF Counted
  <2> HIDE DEF w
  <2> QED
    BY <2>1, <2>2, Zenon
<1> QED
  BY <1>1, <1>2, <1>3

\* Every token the scan passes leaves what it says of the document true.
LEMMA ScanGoesOn ==
    ASSUME DocumentIInv, Scan, stage' = "scan", IsDocument(text)
    PROVE  ScanStands'
<1> DEFINE i == scanned + 1
           s == Behind(text, i - 1)
           r == Behind(text, i)
           k == Len(s.events)
           e == Events(text)[k + 1]
<1>0. /\ text \in Seq(Tokens) /\ text \in Texts /\ scanned \in Nat /\ scanned < Len(text)
      /\ i \in 1..Len(text) /\ depth \in Nat /\ scalars \in Nat /\ keys \in Nat
      /\ limits.depth \in Nat /\ limits.args \in Nat /\ stage = "scan" /\ i - 1 = scanned
  <2>1. stage = "scan" /\ scanned < Len(text)
    BY DEF Scan, ScanSeparator, ScanOpen, ScanClose, ScanKey, ScanString,
       ScanLongString, ScanLiteral, ScanGarbage, ScanNumber, Scanning
  <2>2. /\ text \in Seq(Tokens) /\ text \in Texts /\ scanned \in 0..Len(text)
        /\ depth \in Nat /\ scalars \in Nat /\ keys \in Nat
    BY <2>1 DEF DocumentIInv, AdapterIInv, CallTypes, ScanTypes
  <2>3. limits.depth \in Nat /\ limits.args \in Nat
    BY DEF DocumentIInv, AdapterIInv, IInv, TypeOK
  <2> QED
    BY <2>1, <2>2, <2>3
<1>1. /\ text' = text /\ library' = library /\ limits' = limits
  BY DEF Scan, call, walkVars, given
<1>2. depth = Len(s.around) /\ Counted(s.events)
  BY <1>0 DEF DocumentIInv, ScanStands
<1>3. /\ s.events \in Seq(Happenings) /\ s.around \in Seq(Nat)
      /\ text[i].type # "garbage"
      /\ text[i].type \in {":", ","} => r.events = s.events /\ r.around = s.around
      /\ text[i].type \notin {":", ","} =>
            /\ e \in Happenings /\ r.events = Append(s.events, e)
            /\ e.around = s.around /\ r.around = AroundAfter(e)
      /\ text[i].type \in {"{", "["} => e.type = "open"
      /\ text[i].type \in {"}", "]"} => e.type = "close"
      /\ text[i].type \in {"integer", "real", "literal"} =>
            e.type = "scalar" /\ e.index = i
      /\ text[i].type = "string" =>
            IF IsKey(i) THEN e.type = "member" /\ e.key = text[i].text
            ELSE e.type = "scalar" /\ e.index = i
  <2> HIDE DEF i
  <2>1. IsKey(i) <=> i < Len(text) /\ text[i + 1].type = ":"
    BY DEF IsKey
  <2>2. Means(text, i, s, r, e)
    BY <1>0, TokenMeans
  <2> HIDE DEF s, r, k, e
  <2> QED
    BY <2>1, <2>2 DEF Means
<1> DEFINE Goal == /\ scanned' = i /\ depth' = Len(r.around)
                   /\ scalars' = Count(r.events, "scalar") /\ keys' = Count(r.events, "member")
                   /\ spans' = IF Raw(library) THEN <<>> ELSE SpansOf(r.events, text)
                   /\ scalars' <= limits.args
                   /\ \A j \in 1..Len(r.events) : Passed(r.events[j])
<1>4. ASSUME text[i].type \in {":", ","}, scanned' = i,
             UNCHANGED <<depth, scalars, keys, spans>>
      PROVE  Goal
  BY <1>2, <1>3, <1>4 DEF Counted
<1>5. ASSUME text[i].type \notin {":", ","}, scanned' = i, Passed(e),
             scalars' = scalars + (IF e.type = "scalar" THEN 1 ELSE 0),
             scalars' <= limits.args,
             keys' = keys + (IF e.type = "member" THEN 1 ELSE 0),
             spans' = IF ~Raw(library) /\ e \in Numeric(text)
                      THEN Append(spans, SpanOf(e, text)) ELSE spans,
             depth' = Len(r.around)
      PROVE  Goal
  <2> DEFINE v == s.events
  <2>1. v \in Seq(Happenings) /\ e \in Happenings /\ Counted(v) /\ r.events = Append(v, e)
    BY <1>2, <1>3, <1>5
  <2> HIDE DEF v, e, r, i
  <2>2. /\ scalars' = Count(Append(v, e), "scalar") /\ keys' = Count(Append(v, e), "member")
        /\ spans' = IF Raw(library) THEN <<>> ELSE SpansOf(Append(v, e), text)
        /\ \A j \in 1..Len(Append(v, e)) : Passed(Append(v, e)[j])
    BY <1>5, <2>1, OneMoreCounted
  <2> QED
    BY <1>5, <2>1, <2>2
<1>6. scalars <= limits.args
  BY <1>2 DEF Counted
<1>7. e.type \notin {"open", "close"} => AroundAfter(e) = e.around
  BY DEF AroundAfter
<1>8. e.type # "scalar" => e \notin Numeric(text)
  BY DEF Numeric
<1>a. Token = text[i] /\ Scanned = (scanned' = i) /\ scanned + 1 = i
  BY DEF Token, Scanned
<1> HIDE DEF e, r, s, k, i, Goal
<1>9. ASSUME ScanSeparator PROVE Goal
  BY <1>a, <1>4, <1>9 DEF ScanSeparator
<1>10. ASSUME ScanOpen PROVE Goal
  <2>1. /\ text[i].type \in {"{", "["} /\ depth' = depth + 1
        /\ UNCHANGED <<scalars, keys, spans>> /\ scanned' = i
        /\ ~(depth + 1 > limits.depth)
    BY <1>0, <1>a, <1>10 DEF ScanOpen, ScanFails, Passes
  <2>2. e.type = "open" /\ Len(e.around) = depth /\ Len(AroundAfter(e)) = depth + 1
    <3>1. e.type = "open" /\ e.around = s.around /\ s.around \in Seq(Nat)
      BY <1>3, <2>1
    <3> QED
      BY <1>2, <3>1 DEF AroundAfter
  <2>3. Passed(e)
    <3>1. depth \in Nat /\ limits.depth \in Nat /\ ~(depth + 1 > limits.depth)
      BY <1>0, <2>1
    <3>2. depth < limits.depth /\ Len(e.around) = depth
      BY <2>2, <3>1
    <3> QED
      BY <2>2, <3>2 DEF Passed
  <2>4. r.around = AroundAfter(e)
    BY <1>3, <2>1
  <2>5. /\ scalars' = scalars + (IF e.type = "scalar" THEN 1 ELSE 0) /\ scalars' <= limits.args
        /\ keys' = keys + (IF e.type = "member" THEN 1 ELSE 0)
    <3>1. e.type # "scalar" /\ e.type # "member" /\ scalars' = scalars /\ keys' = keys
      BY <2>1, <2>2
    <3> QED
      BY <1>0, <1>6, <3>1
  <2>6. text[i].type \notin {":", ","} /\ e \notin Numeric(text)
    BY <1>8, <2>1, <2>2
  <2>7. depth' = Len(r.around)
    BY <2>1, <2>2, <2>4
  <2> QED
    BY <1>5, <2>1, <2>3, <2>5, <2>6, <2>7
<1>11. ASSUME ScanClose PROVE Goal
  <2>1. /\ text[i].type \in {"}", "]"} /\ depth' = Shallower(depth)
        /\ UNCHANGED <<scalars, keys, spans>> /\ scanned' = i
    BY <1>a, <1>11 DEF ScanClose
  <2>2. e.type = "close" /\ Len(AroundAfter(e)) = Shallower(depth)
    <3>1. e.type = "close" /\ e.around = s.around /\ s.around \in Seq(Nat)
      BY <1>3, <2>1
    <3>2. AroundAfter(e) = SubSeq(s.around, 1, Len(s.around) - 1)
      BY <3>1 DEF AroundAfter
    <3>3. CASE depth = 0
      <4>1. Len(SubSeq(s.around, 1, Len(s.around) - 1)) = 0
        BY <1>2, <3>1, <3>3
      <4> QED
        BY <3>1, <3>2, <3>3, <4>1 DEF Shallower
    <3>4. CASE depth > 0
      <4>1. Len(SubSeq(s.around, 1, Len(s.around) - 1)) = Len(s.around) - 1
        BY <1>2, <3>1, <3>4, FrontLength
      <4> QED
        BY <1>2, <3>1, <3>2, <3>4, <4>1 DEF Shallower
    <3> QED
      BY <1>0, <3>3, <3>4
  <2>3. Passed(e)
    BY <2>2 DEF Passed
  <2>4. r.around = AroundAfter(e)
    BY <1>3, <2>1
  <2>5. /\ scalars' = scalars + (IF e.type = "scalar" THEN 1 ELSE 0) /\ scalars' <= limits.args
        /\ keys' = keys + (IF e.type = "member" THEN 1 ELSE 0)
    <3>1. e.type # "scalar" /\ e.type # "member" /\ scalars' = scalars /\ keys' = keys
      BY <2>1, <2>2
    <3> QED
      BY <1>0, <1>6, <3>1
  <2>6. text[i].type \notin {":", ","} /\ e \notin Numeric(text)
    BY <1>8, <2>1, <2>2
  <2>7. depth' = Len(r.around)
    BY <2>1, <2>2, <2>4
  <2> QED
    BY <1>5, <2>1, <2>3, <2>5, <2>6, <2>7
<1>12. ASSUME ScanKey PROVE Goal
  <2>1. /\ text[i].type = "string" /\ IsKey(i) /\ keys' = keys + 1 /\ scanned' = i
        /\ UNCHANGED <<depth, scalars, spans>>
        /\ HasNul(text[i].text) => Policy(library).nul = "allowed"
    BY <1>0, <1>a, <1>12 DEF ScanKey, ScanFails
  <2>2. /\ e.type = "member" /\ e.key = text[i].text /\ e.around = s.around
        /\ r.around = AroundAfter(e)
    BY <1>3, <2>1
  <2>3. Passed(e)
    BY <2>1, <2>2 DEF Passed
  <2> QED
    BY <1>0, <1>2, <1>5, <1>6, <1>7, <1>8, <2>1, <2>2, <2>3
<1>13. ASSUME ScanString PROVE Goal
  <2>1. /\ text[i].type = "string" /\ ~IsKey(i) /\ scanned' = i
        /\ UNCHANGED <<depth, keys, spans>>
        /\ Len(text[i].text) < JSON_STRING_SIZE
        /\ HasNul(text[i].text) => Policy(library).nul # "forbidden"
        /\ scalars' = scalars + 1 /\ ~(scalars + 1 > limits.args)
    BY <1>0, <1>a, <1>13 DEF ScanString, ScanScalar, OneMoreScalar, Passes, ScanFails
  <2>2. /\ e.type = "scalar" /\ e.index = i /\ e.around = s.around
        /\ r.around = AroundAfter(e)
    BY <1>3, <2>1
  <2>3. Passed(e)
    BY <2>1, <2>2 DEF Passed
  <2>4. e \notin Numeric(text)
    BY <2>1, <2>2 DEF Numeric, Kinds
  <2> QED
    BY <1>0, <1>2, <1>5, <1>7, <2>1, <2>2, <2>3, <2>4
<1>14. ASSUME ScanLongString \/ ScanGarbage PROVE Goal
  BY <1>14 DEF ScanLongString, ScanGarbage, ScanFails
<1>15. ASSUME ScanLiteral PROVE Goal
  <2>1. /\ text[i].type = "literal" /\ scanned' = i /\ UNCHANGED <<depth, keys, spans>>
        /\ scalars' = scalars + 1 /\ ~(scalars + 1 > limits.args)
    BY <1>0, <1>a, <1>15 DEF ScanLiteral, ScanScalar, OneMoreScalar, Passes, ScanFails
  <2>2. /\ e.type = "scalar" /\ e.index = i /\ e.around = s.around
        /\ r.around = AroundAfter(e)
    BY <1>3, <2>1
  <2>3. Passed(e)
    <3>1. Len(text[i].text) < JSON_STRING_SIZE
      BY <1>0, <2>1, TextsAssumption
    <3> QED
      BY <2>1, <2>2, <3>1 DEF Passed
  <2>4. e \notin Numeric(text)
    BY <2>1, <2>2 DEF Numeric, Kinds
  <2> QED
    BY <1>0, <1>2, <1>5, <1>7, <2>1, <2>2, <2>3, <2>4
<1>16. ASSUME ScanNumber PROVE Goal
  <2>1. /\ text[i].type \in Kinds /\ scanned' = i /\ UNCHANGED <<depth, keys>>
        /\ scalars' = scalars + 1 /\ ~(scalars + 1 > limits.args)
        /\ spans' = IF Raw(library) THEN spans ELSE Append(spans, Span)
    <3>1. /\ text[i].type \in Kinds /\ scanned' = i /\ UNCHANGED <<depth, keys>>
      BY <1>a, <1>16 DEF ScanNumber
    <3>2. \/ ScanScalar /\ UNCHANGED spans /\ (OneMoreScalar \/ Raw(library))
          \/ /\ ~OneMoreScalar /\ ~Raw(library) /\ scalars' = scalars + 1
             /\ spans' = Append(spans, Span)
      BY <1>0, <1>a, <1>16 DEF ScanNumber, ScanFails
    <3>3. ScanScalar => scalars' = scalars + 1 /\ ~OneMoreScalar
      BY <1>0 DEF ScanScalar, ScanFails
    <3>4. OneMoreScalar <=> scalars + 1 > limits.args
      BY DEF OneMoreScalar, Passes
    <3> QED
      BY <3>1, <3>2, <3>3, <3>4
  <2>2. /\ e.type = "scalar" /\ e.index = i /\ e.around = s.around
        /\ r.around = AroundAfter(e) /\ e \in Happenings
    BY <1>3, <2>1 DEF Kinds
  <2>3. Passed(e)
    <3>1. Len(text[i].text) < JSON_STRING_SIZE
      BY <1>0, <2>1, TextsAssumption
    <3> QED
      BY <2>1, <2>2, <3>1 DEF Passed, Kinds
  <2>4. e \in Numeric(text)
    BY <1>0, <2>1, <2>2 DEF Numeric
  <2>5. Span = SpanOf(e, text)
    BY <1>a, <2>2 DEF Span, SpanOf, SourceOf
  <2>6. text[i].type \notin {":", ","}
    BY <2>1 DEF Kinds
  <2>7. /\ scalars' = scalars + (IF e.type = "scalar" THEN 1 ELSE 0) /\ scalars' <= limits.args
        /\ keys' = keys + (IF e.type = "member" THEN 1 ELSE 0)
    BY <1>0, <2>1, <2>2
  <2>8. depth' = Len(r.around)
    BY <1>2, <1>7, <2>1, <2>2
  <2>9. spans' = IF ~Raw(library) /\ e \in Numeric(text)
                 THEN Append(spans, SpanOf(e, text)) ELSE spans
    BY <2>1, <2>4, <2>5
  <2> QED
    BY <1>5, <2>1, <2>3, <2>6, <2>7, <2>8, <2>9
<1>17. Goal
  BY <1>9, <1>10, <1>11, <1>12, <1>13, <1>14, <1>15, <1>16, Zenon DEF Scan
<1>18. Behind(text', scanned') = r
  BY <1>1, <1>17 DEF Goal, r
<1> QED
  <2>1. ASSUME NEW v, v = r.events PROVE Counted(v)'
    <3>1. \A j \in 1..Len(v) : Passed(v[j])'
      <4>1. \A j \in 1..Len(v) : Passed(v[j])
        BY <1>17, <2>1 DEF Goal
      <4> QED
        BY <1>1, <4>1 DEF Passed, Policy
    <3> QED
      BY <1>1, <1>17, <2>1, <3>1 DEF Counted, Goal, Raw, Policy
  <2>2. PICK v : v = r.events
    OBVIOUS
  <2>3. r.events = Behind(text, scanned)'.events /\ depth' = Len(Behind(text, scanned)'.around)
    BY <1>17, <1>18 DEF Goal
  <2> QED
    BY <2>1, <2>2, <2>3 DEF ScanStands, Unwalked

\* A walk leaves the limits alone.
LEMMA LimitsStay == ASSUME [AdapterNext]_vars PROVE limits' = limits
<1>1. ASSUME NEW t \in Texts, ParseFile(t) PROVE limits' = limits
  BY <1>1 DEF ParseFile, walkVars, given
<1>2. ASSUME UNCHANGED walkVars PROVE limits' = limits
  BY <1>2 DEF walkVars, given
<1>3. CASE BeginWalk
  BY <1>3 DEF BeginWalk, WalkBegins
<1>4. ASSUME NEW value, Argument(value) PROVE limits' = limits
  BY <1>4 DEF Argument, ArgumentOverLimit, ArgumentUnknown, ArgumentMismatch,
     ArgumentTaken, Fail, Go, given
<1>5. ASSUME NEW array, Begin(array) PROVE limits' = limits
  BY <1>5 DEF Begin, BeginOverLimit, BeginFails, BeginSucceeds, Fail, Go, given
<1>6. ASSUME NEW k, Member(k) PROVE limits' = limits
  BY <1>6 DEF Member, Fail, Go, given
<1>7. CASE WalkStep
  BY <1>4, <1>5, <1>6, <1>7 DEF WalkStep, Element, Pop, Go, given
<1>8. CASE EndWalk
  BY <1>8 DEF EndWalk, Finish, given
<1>9. CASE UNCHANGED vars
  BY <1>2, <1>9 DEF vars
<1> QED
  BY <1>1, <1>2, <1>3, <1>7, <1>8, <1>9 DEF AdapterNext, Steps, BeginLocale, ReadFile,
     BeginPreflight, Scan, EndPreflight, AsciiInput, NativeParse, Done, Return

\* A call is that of one library.
LEMMA LibraryStays == ASSUME [AdapterNext]_vars PROVE library' = library
BY DEF AdapterNext, Steps, ParseFile, BeginLocale, ReadFile, BeginPreflight, Scan,
       EndPreflight, AsciiInput, NativeParse, BeginWalk, WalkStep, EndWalk, Done, Return,
       call, vars

\* The scan, and after it what it has counted, stay.
LEMMA ScanKept ==
    ASSUME ScanStands, UNCHANGED <<scan, text, library, limits>>,
           stage' = "scan" => stage = "scan", stage' \in Unwalked => stage \in Unwalked
    PROVE  ScanStands'
<1>1. ASSUME NEW v, Counted(v) PROVE Counted(v)'
  BY <1>1 DEF Counted, Passed, Raw, scan
<1>2. CASE IsDocument(text) /\ stage' = "scan"
  <2>1. PICK v : v = Behind(text, scanned).events
    OBVIOUS
  <2>2. v = Behind(text', scanned').events /\ depth' = Len(Behind(text', scanned').around)
    BY <1>2, <2>1 DEF ScanStands, scan
  <2>3. Counted(v)'
    BY <1>1, <1>2, <2>1 DEF ScanStands
  <2> QED
    BY <1>2, <2>2, <2>3 DEF ScanStands, Unwalked
<1>3. CASE IsDocument(text) /\ stage' \in Unwalked
  <2>1. PICK v : v = Events(text)
    OBVIOUS
  <2>2. v = Events(text')
    BY <2>1
  <2>3. Counted(v)'
    BY <1>1, <1>3, <2>1 DEF ScanStands
  <2> QED
    BY <1>3, <2>2, <2>3 DEF ScanStands, Unwalked
<1>4. CASE ~IsDocument(text) \/ stage' \notin Unwalked \cup {"scan"}
  BY <1>4 DEF ScanStands
<1> QED
  BY <1>2, <1>3, <1>4

\* What the preflight has counted is what it has read of the document.
LEMMA StepScanStands ==
    ASSUME DocumentIInv, [AdapterNext]_vars
    PROVE  ScanStands'
<1>0. /\ ScanStands /\ limits' = limits /\ text \in Seq(Tokens)
      /\ limits.args \in Nat
  BY LimitsStay DEF DocumentIInv, AdapterIInv, CallTypes, IInv, TypeOK
<1>1. ASSUME stage' \notin Unwalked \cup {"scan"} PROVE ScanStands'
  BY <1>1 DEF ScanStands
<1>2. ASSUME NEW t \in Texts, ParseFile(t) PROVE ScanStands'
  BY <1>1, <1>2 DEF ParseFile, Unwalked
<1>3. CASE BeginLocale \/ ReadFile \/ Done \/ Return
  BY <1>1, <1>3 DEF BeginLocale, ReadFile, Done, Return, Unwalked
<1>4. CASE BeginPreflight
  <2>1. CASE stage' = "done"
    BY <1>1, <2>1 DEF Unwalked
  <2>2. CASE stage' = "scan"
    <3>1. /\ scanned = 0 /\ depth = 0 /\ scalars = 0 /\ keys = 0 /\ spans = <<>>
      BY <1>4 DEF BeginPreflight, DocumentIInv, AdapterIInv, ScanTypes, Unscanned
    <3>2. UNCHANGED <<scan, text, library>>
      BY <1>4 DEF BeginPreflight, call
    <3>3. Behind(text', scanned').events = <<>> /\ Behind(text', scanned').around = <<>>
      BY <1>0, <3>1, <3>2, NothingBehind DEF scan
    <3>4. Counted(<<>>)'
      BY <1>0, <3>1, <3>2, NothingCounted DEF Counted, scan
    <3> QED
      BY <2>2, <3>1, <3>2, <3>3, <3>4 DEF ScanStands, Unwalked, scan
  <2> QED
    BY <1>4, <2>1, <2>2 DEF BeginPreflight
<1>5. CASE Scan
  <2>1. stage' \in {"scan", "scanned"} /\ text' = text
    BY <1>5 DEF Scan, ScanSeparator, ScanOpen, ScanClose, ScanKey, ScanString,
       ScanLongString, ScanLiteral, ScanGarbage, ScanNumber, ScanScalar, ScanFails,
       Scanning, call
  <2>2. CASE stage' = "scanned"
    BY <1>1, <2>2 DEF Unwalked
  <2>3. CASE ~IsDocument(text)
    BY <2>1, <2>3 DEF ScanStands
  <2> QED
    BY <1>5, <2>1, <2>2, <2>3, ScanGoesOn
<1>6. CASE EndPreflight
  <2>1. CASE stage' = "done"
    BY <1>1, <2>1 DEF Unwalked
  <2>2. CASE stage' # "done"
    <3>1. /\ stage = "scan" /\ scanned = Len(text) /\ stage' \in Unwalked
          /\ UNCHANGED <<scan, text, library>>
      BY <1>6, <2>2 DEF EndPreflight, DocumentIInv, Releasing, Unwalked, call
    <3>2. CASE IsDocument(text)
      <4>1. PICK v : v = Events(text)
        OBVIOUS
      <4>2. v = Behind(text, scanned).events
        BY <1>0, <3>1, <4>1, BehindGrows DEF Events
      <4>3. Counted(v)
        BY <1>0, <3>1, <3>2, <4>2 DEF ScanStands
      <4>4. Counted(v)'
        BY <1>0, <3>1, <4>3 DEF Counted, Passed, Raw, scan
      <4>5. v = Events(text')
        BY <3>1, <4>1
      <4> QED
        BY <3>1, <4>4, <4>5 DEF ScanStands, Unwalked
    <3>3. CASE ~IsDocument(text)
      BY <3>1, <3>3 DEF ScanStands
    <3> QED
      BY <3>2, <3>3
  <2> QED
    BY <2>1, <2>2
<1>7. CASE AsciiInput \/ NativeParse \/ BeginWalk \/ WalkStep \/ EndWalk \/ UNCHANGED vars
  <2>1. UNCHANGED <<scan, text, library>>
    BY <1>7 DEF AsciiInput, NativeParse, BeginWalk, WalkStep, EndWalk, vars, call
  <2>2. stage' = "scan" => stage = "scan"
    BY <1>7 DEF AsciiInput, NativeParse, NativeFails, NativeSucceeds, BeginWalk, WalkStep,
       EndWalk, vars
  <2>3. stage' \in Unwalked => stage \in Unwalked
    BY <1>7 DEF AsciiInput, NativeParse, NativeFails, NativeSucceeds, BeginWalk, WalkStep,
       EndWalk, vars, Unwalked
  <2> QED
    BY <1>0, <2>1, <2>2, <2>3, ScanKept
<1> QED
  BY <1>2, <1>3, <1>4, <1>5, <1>6, <1>7 DEF AdapterNext, Steps

(***************************************************************************)
(* The walks of a document.                                                *)
(***************************************************************************)

\* As many containers are open behind an event as it leads into.
LEMMA AsManyOpen ==
    ASSUME NEW d \in Positions, NEW e \in Happenings, Len(d.open) = Len(e.around),
           e.type = "close" => d.open # <<>>
    PROVE  Len(After(d, e).open) = Len(AroundAfter(e))
<1>1. /\ d.open \in Seq(Containers) /\ e.around \in Seq(Nat) /\ e.type \in EventTypes
      /\ d \in Positions
  BY DEF Positions, Happenings
<1>2. CASE e.type = "scalar"
  BY <1>1, <1>2 DEF After, AfterValue, AroundAfter, Positions
<1>3. CASE e.type = "member"
  BY <1>1, <1>3 DEF After, AfterKey, AroundAfter, Positions
<1>4. CASE e.type = "open"
  <2>1. After(d, e).open = Append(d.open, [label |-> LabelOf(d, e.array), array |-> e.array])
    BY <1>4 DEF After, AfterOpen
  <2>2. Len(Append(d.open, [label |-> LabelOf(d, e.array), array |-> e.array])) = Len(d.open) + 1
    BY <1>1
  <2>3. Len(AroundAfter(e)) = Len(e.around) + 1
    BY <1>1, <1>4 DEF AroundAfter
  <2> QED
    BY <2>1, <2>2, <2>3
<1>5. CASE e.type = "close"
  <2>1. Len(d.open) > 0
    BY <1>1, <1>5
  <2> DEFINE f == SubSeq(d.open, 1, Len(d.open) - 1)
  <2>2. After(d, e).open = f
    BY <1>1, <1>5 DEF After, AfterClose, AfterValue, Positions
  <2>3. Len(f) = Len(d.open) - 1
    BY <1>1, <2>1, FrontLength
  <2>4. Len(AroundAfter(e)) = Len(e.around) - 1
    <3>1. AroundAfter(e) = SubSeq(e.around, 1, Len(e.around) - 1)
      BY <1>5 DEF AroundAfter
    <3>2. Len(SubSeq(e.around, 1, Len(e.around) - 1)) = Len(e.around) - 1
      BY <1>1, <2>1, FrontLength
    <3> QED
      BY <3>1, <3>2
  <2> QED
    BY <2>2, <2>3, <2>4
<1> QED
  BY <1>1, <1>2, <1>3, <1>4, <1>5 DEF EventTypes

\* The events w and one more, e, are the events x: where they lead, what there
\* is of them, and what they print.
LeadsTo(w, e, x, t) ==
    /\ e \in Happenings /\ w \in Seq(Happenings) /\ Place(w) \in Positions
    /\ e.around = Around(w)
    /\ Place(x) = After(Place(w), e) /\ Around(x) = AroundAfter(e)
    /\ \A type : /\ Count(w, type) \in Nat
                 /\ Count(x, type) = Count(w, type) + (IF e.type = type THEN 1 ELSE 0)
    /\ Len(Picked(w, Numeric(t))) \in Nat
    /\ Len(Picked(x, Numeric(t))) = Len(Picked(w, Numeric(t)))
                                       + (IF e \in Numeric(t) THEN 1 ELSE 0)
    /\ LinesOf(x, t) = IF e.type = "scalar" THEN Append(LinesOf(w, t), LineOf(e, t))
                       ELSE LinesOf(w, t)

\* The events up to the next one lead on from those before it.
LEMMA NextVisit ==
    ASSUME NEW t, NEW v \in Seq(Happenings), Whole(v), NEW a \in Nat, a < Len(v),
           NEW w, w = SubSeq(v, 1, a), NEW x, x = SubSeq(v, 1, a + 1),
           NEW e, e = v[a + 1]
    PROVE  LeadsTo(w, e, x, t)
<1> DEFINE i == a + 1
<1>0. i \in 1..Len(v) /\ i - 1 = a
  OBVIOUS
<1> HIDE DEF i
<1>1. /\ w \in Seq(Happenings) /\ e \in Happenings /\ x = Append(w, e)
  <2>1. /\ SubSeq(v, 1, i) = Append(SubSeq(v, 1, i - 1), v[i])
        /\ SubSeq(v, 1, i - 1) \in Seq(Happenings) /\ v[i] \in Happenings
    BY <1>0, Beginnings
  <2> QED
    BY <1>0, <2>1 DEF i
<1>2. e.around = Around(w)
  <2>1. v[i].around = Around(SubSeq(v, 1, i - 1))
    BY <1>0 DEF Whole
  <2> QED
    BY <1>0, <2>1 DEF i
<1>3. Place(w) \in Positions /\ Place(x) = After(Place(w), e) /\ Around(x) = AroundAfter(e)
  BY <1>1, PlaceGrows, AroundGrows, Zenon
<1>4. \A type : /\ Count(w, type) \in Nat
                /\ Count(x, type) = Count(w, type) + (IF e.type = type THEN 1 ELSE 0)
  <2> SUFFICES ASSUME NEW type
               PROVE  /\ Count(w, type) \in Nat
                      /\ Count(x, type) = Count(w, type) + (IF e.type = type THEN 1 ELSE 0)
    OBVIOUS
  <2>1. /\ Count(w, type) \in Nat
        /\ Count(Append(w, e), type) = Count(w, type) + (IF e.type = type THEN 1 ELSE 0)
    BY <1>1, CountGrows, Zenon
  <2> QED
    BY <1>1, <2>1, Zenon
<1>5. /\ Picked(w, Numeric(t)) \in Seq(Happenings)
      /\ Picked(x, Numeric(t)) = Selecting(Picked(w, Numeric(t)), e, e \in Numeric(t))
  BY <1>1, PickedGrows, Zenon
<1>6. /\ Len(Picked(w, Numeric(t))) \in Nat
      /\ Len(Picked(x, Numeric(t))) = Len(Picked(w, Numeric(t)))
                                         + (IF e \in Numeric(t) THEN 1 ELSE 0)
  <2> DEFINE s == Picked(w, Numeric(t))
  <2>1. s \in Seq(Happenings) /\ Picked(x, Numeric(t)) = Selecting(s, e, e \in Numeric(t))
    BY <1>5
  <2> HIDE DEF s
  <2>2. Len(s) \in Nat /\ Len(Append(s, e)) = Len(s) + 1
    BY <2>1
  <2>3. Len(Picked(x, Numeric(t))) = Len(s) + (IF e \in Numeric(t) THEN 1 ELSE 0)
    <3>1. CASE e \in Numeric(t)
      BY <2>1, <2>2, <3>1 DEF Selecting
    <3>2. CASE e \notin Numeric(t)
      BY <2>1, <2>2, <3>2 DEF Selecting
    <3> QED
      BY <3>1, <3>2
  <2> QED
    BY <2>2, <2>3 DEF s
<1>7. LinesOf(x, t) = IF e.type = "scalar" THEN Append(LinesOf(w, t), LineOf(e, t))
                      ELSE LinesOf(w, t)
  <2>1. LinesOf(Append(w, e), t) =
            IF e.type = "scalar" THEN Append(LinesOf(w, t), LineOf(e, t)) ELSE LinesOf(w, t)
    BY <1>1, LinesGrow, Zenon
  <2> QED
    BY <1>1, <2>1, Zenon
<1> QED
  BY <1>1, <1>2, <1>3, <1>4, <1>6, <1>7, Zenon DEF LeadsTo

\* The tree of a document has nothing the preflight would not have passed.
LEMMA TreeIs ==
    ASSUME DocumentIInv, stage \in {"check", "checking", "walk", "walking"}
    PROVE  /\ text \in Seq(Tokens) /\ text \in Texts /\ IsDocument(text)
           /\ tree \in Seq(Happenings) /\ Whole(tree) /\ at \in 0..Len(tree)
           /\ \A i \in 1..Len(tree) : tree[i] \in Told(text) /\ Passed(tree[i])
           /\ \A type : Count(tree, type) <= Count(Events(text), type)
           /\ Counted(Events(text))
           /\ limits \in [depth : Nat, args : Nat]
<1>1. /\ text \in Seq(Tokens) /\ text \in Texts /\ IsDocument(text)
      /\ tree = NativeTree(library, text) /\ at \in 0..Len(tree)
      /\ Counted(Events(text)) /\ limits \in [depth : Nat, args : Nat]
  BY DEF DocumentIInv, AdapterIInv, CallTypes, TreeOfText, TreeStands, ScanStands, Unwalked,
     IInv, TypeOK
<1>2. /\ tree \in Seq(Told(text)) /\ Whole(tree)
      /\ \A type : Len(OfType(tree, type)) <= Len(EventsOf(text, type))
  BY <1>1, TreeOfDocument
<1>3. \A type : Count(tree, type) <= Count(Events(text), type)
  BY <1>2 DEF Count, OfType, EventsOf
<1>4. tree \in Seq(Happenings) /\ \A i \in 1..Len(tree) : tree[i] \in Told(text)
  <2>1. Told(text) \subseteq Happenings
    BY DEF Told
  <2> QED
    BY <1>2, <2>1
<1>5. \A i \in 1..Len(tree) : Passed(tree[i])
  <2> DEFINE S == {e \in Told(text) : Passed(e)}
             E == Events(text)
  <2>1. E \in Seq(Told(text)) /\ \A i \in 1..Len(E) : Passed(E[i])
    BY <1>1, DocumentTold DEF Counted
  <2>2. E \in Seq(S)
    <3> HIDE DEF E
    <3>1. \A i \in 1..Len(E) : E[i] \in S
      BY <2>1
    <3> HIDE DEF S
    <3> QED
      BY <2>1, <3>1
  <2>3. tree = Selected(E, Without(E, Replaced(library, E)))
    BY <1>1, KeptIs DEF NativeTree
  <2> HIDE DEF S, E
  <2>4. tree \in Seq(S)
    BY <2>2, <2>3, SelectedType
  <2>5. \A i \in 1..Len(tree) : tree[i] \in S
    BY <2>4
  <2> QED
    BY <2>5 DEF S
<1> QED
  BY <1>1, <1>2, <1>3, <1>4, <1>5

Walking == stage \in {"checking", "walking"} /\ pc \in {"enter", "next"}

\* The event that is due.
LEMMA VisitHere ==
    ASSUME DocumentIInv, Walking, at < Len(tree), NEW e, e = Visit
    PROVE  /\ e \in Happenings /\ e \in Told(text) /\ Passed(e)
           /\ text \in Seq(Tokens) /\ text \in Texts
           /\ tree \in Seq(Happenings) /\ at \in Nat /\ at + 1 \in 1..Len(tree)
           /\ e = tree[at + 1] /\ Visited \in Seq(Happenings)
           /\ doc \in Positions /\ doc = Place(Visited) /\ Len(doc.open) = Len(e.around)
           /\ Len(frames) = Len(doc.open)
           /\ LeadsTo(Visited, e, SubSeq(tree, 1, at + 1), text)
<1>1. /\ text \in Seq(Tokens) /\ text \in Texts /\ IsDocument(text)
      /\ tree \in Seq(Happenings) /\ Whole(tree) /\ at \in 0..Len(tree)
      /\ \A i \in 1..Len(tree) : tree[i] \in Told(text) /\ Passed(tree[i])
  BY TreeIs DEF Walking
<1>2. at \in Nat /\ at + 1 \in 1..Len(tree)
  BY <1>1
<1>3. Standing
  BY DEF DocumentIInv, WalkStands, Walking
<1>4. Len(frames) = Len(doc.open)
  BY DEF DocumentIInv, AdapterIInv, IInv, FramesAreOpen, Walking
<1>5. e = tree[at + 1] /\ Visited = SubSeq(tree, 1, at)
  BY DEF Visit, Visited
<1>6. LeadsTo(Visited, e, SubSeq(tree, 1, at + 1), text)
  BY <1>1, <1>2, <1>5, NextVisit
<1>7. e \in Told(text) /\ Passed(e)
  BY <1>1, <1>2, <1>5
<1> QED
  BY <1>1, <1>2, <1>3, <1>4, <1>5, <1>6, <1>7 DEF Standing, LeadsTo

\* The limit of arguments is not met, and a number meets the span of its own
\* token; in the second walk the text is the token's.
LEMMA ScalarHere ==
    ASSUME DocumentIInv, Walking, at < Len(tree), NEW e, e = Visit, e.type = "scalar",
           NEW value, value = NativeValue(library, text, e)
    PROVE  /\ ~AtLimit(arguments, limits.args)
           /\ FromSource(value) <=> use_numbers /\ e \in Numeric(text)
           /\ FromSource(value) => ~Unexpected /\ ~Differs(value)
           /\ Text(value) \notin TooLong
           /\ stage = "walking" => Text(value) = SourceOf(e, text)
<1>0. /\ e \in Happenings /\ e \in Told(text) /\ Passed(e)
      /\ text \in Seq(Tokens) /\ text \in Texts
      /\ tree \in Seq(Happenings) /\ at \in Nat /\ at + 1 \in 1..Len(tree)
      /\ e = tree[at + 1]
  BY VisitHere
<1>1. /\ Standing /\ use_numbers = (stage = "walking" /\ ~Raw(library))
      /\ numbers = IF use_numbers THEN spans ELSE <<>>
      /\ stage \in {"checking", "walking"}
  BY DEF DocumentIInv, WalkStands, Walking
<1>2. /\ Counted(Events(text)) /\ limits.args \in Nat
      /\ \A type : Count(tree, type) <= Count(Events(text), type)
  BY TreeIs DEF Walking
<1> DEFINE token == text[e.index]
<1>3. e.index \in DOMAIN text /\ token.type \in ScalarTypes
  BY <1>0 DEF Told, Stems
<1>4. ~AtLimit(arguments, limits.args)
  <2>1. /\ Count(Visited, "scalar") \in Nat /\ Count(tree, "scalar") \in Nat
        /\ Count(Visited, "scalar") < Count(tree, "scalar")
    <3>1. at \in 0..Len(tree) /\ at < Len(tree)
      BY <1>0
    <3>2. tree[at + 1].type = "scalar"
      BY <1>0
    <3> QED
      BY <1>0, <3>1, <3>2, CountPlace DEF Visited
  <2>2. Count(Events(text), "scalar") = scalars /\ scalars <= limits.args
    BY <1>2 DEF Counted
  <2>3. scalars \in Nat /\ Count(tree, "scalar") <= scalars
    BY <1>2, <2>2 DEF DocumentIInv, AdapterIInv, ScanTypes
  <2>4. arguments = Count(Visited, "scalar")
    BY <1>1 DEF Standing
  <2> QED
    BY <1>2, <2>1, <2>2, <2>3, <2>4 DEF AtLimit
<1> DEFINE kind == IF token.type \notin Kinds \/ Raw(library) THEN NotNumber
                   ELSE IF library = "cjson" THEN "any" ELSE token.type
           from == CASE token.type \in Kinds /\ ~Raw(library) -> "formatted"
                     [] token.type = "string" /\ library = "cjson" /\ HasNul(token.text) -> "cut"
                     [] OTHER -> "source"
           data == [from |-> from, index |-> e.index, text |-> token.text]
<1>5. value = [data |-> data, number_kind |-> kind]
  BY Zenon DEF NativeValue
<1>6. kind # NotNumber <=> token.type \in Kinds /\ ~Raw(library)
  BY DEF NotNumber, Kinds
<1>7. kind # NotNumber => kind \in {"any", token.type}
  BY <1>6
<1>8. from \in Origins
  BY DEF Origins
<1>9. e \in Numeric(text) <=> token.type \in Kinds
  BY <1>0, <1>3 DEF Numeric
<1>10. stage = "walking" /\ ~(token.type \in Kinds /\ ~Raw(library)) => from = "source"
  <2>1. ASSUME library = "cjson", token.type = "string" PROVE ~HasNul(token.text)
    <3>1. Policy(library).nul = "forbidden"
      BY <2>1 DEF Policy
    <3> QED
      BY <1>0, <2>1, <3>1 DEF Passed
  <2> QED
    BY <2>1
<1> HIDE DEF kind, from
<1>11. value.number_kind = kind /\ value.data = data
  BY <1>5
<1>12. FromSource(value) <=> use_numbers /\ e \in Numeric(text)
  BY <1>1, <1>6, <1>9, <1>11 DEF FromSource, IsNumber
<1>13. data \in Data /\ data \notin TooLong
  <2>1. [from : Origins, index : {e.index}, text : {token.text}] \subseteq NativeData
    BY <1>0, <1>3, TextsAssumption
  <2>2. data \in NativeData
    BY <1>8, <2>1
  <2>3. data \in Data
    BY <2>2, WalkAssumption
  <2>4. Len(token.text) < JSON_STRING_SIZE
    BY <1>0 DEF Passed
  <2>5. data \in TooLong <=> Len(data.text) >= JSON_STRING_SIZE
    BY <2>3, TextsAssumption
  <2>6. data.text = token.text
    OBVIOUS
  <2>7. Len(token.text) \in Nat /\ JSON_STRING_SIZE \in Nat
    <3>1. token \in Tokens
      BY <1>0, <1>3
    <3> QED
      BY <3>1, WalkAssumption DEF Tokens
  <2> HIDE DEF data, token
  <2> QED
    BY <2>3, <2>4, <2>5, <2>6, <2>7
<1>14. ASSUME FromSource(value)
       PROVE  /\ ~Unexpected /\ NextSpan = SpanOf(e, text)
              /\ NextSpan.data \notin TooLong
  <2>1. use_numbers /\ stage = "walking" /\ ~Raw(library) /\ e \in Numeric(text)
    BY <1>1, <1>12, <1>14
  <2>2. tree = Events(text) /\ numbers = SpansOf(tree, text)
    BY <1>1, <1>2, <2>1 DEF DocumentIInv, TreeStands, Counted
  <2>3. number_position = Len(Picked(SubSeq(tree, 1, at), Numeric(text)))
    BY <1>1, <2>1 DEF Standing, Visited
  <2>4. at \in 0..Len(tree) /\ at < Len(tree) /\ tree[at + 1] \in Numeric(text)
    BY <1>0, <2>1
  <2>5. /\ number_position \in Nat /\ number_position < Len(SpansOf(tree, text))
        /\ SpansOf(tree, text)[number_position + 1] = SpanOf(tree[at + 1], text)
    BY <1>0, <2>3, <2>4, SpanPlace
  <2>6. NextSpan = SpanOf(e, text) /\ number_position < Len(numbers)
    BY <1>0, <2>2, <2>5 DEF NextSpan
  <2> DEFINE S == [data : Data \ TooLong, kind : Kinds]
  <2>7. numbers \in Seq(S)
    BY DEF DocumentIInv, AdapterIInv, IInv, TypeOK
  <2> HIDE DEF S
  <2>8. numbers[number_position + 1] \in S /\ ~(number_position >= Len(numbers))
    BY <2>5, <2>6, <2>7
  <2> QED
    BY <2>6, <2>8 DEF Unexpected, NextSpan, S
<1>15. SpanOf(e, text).data = SourceOf(e, text) /\ SpanOf(e, text).kind = token.type
  BY DEF SpanOf
<1>16. FromSource(value) => ~Differs(value)
  <2> SUFFICES ASSUME FromSource(value) PROVE ~Differs(value)
    OBVIOUS
  <2>1. NextSpan.kind = token.type
    BY <1>14, <1>15
  <2>2. kind \in {"any", token.type}
    BY <1>7, <1>11 DEF FromSource, IsNumber
  <2> QED
    BY <1>11, <2>1, <2>2 DEF Differs
<1>17. Text(value) = IF FromSource(value) THEN NextSpan.data ELSE data
  BY <1>11 DEF Text
<1>18. stage = "walking" /\ ~FromSource(value) => data = SourceOf(e, text)
  BY <1>1, <1>9, <1>10, <1>12 DEF SourceOf
<1> QED
  BY <1>4, <1>12, <1>13, <1>14, <1>15, <1>16, <1>17, <1>18

\* Whether a name fits depends on the tree alone.
LEMMA FitsStill ==
    ASSUME tree' = tree, NEW i, NameFits(i)
    PROVE  NameFits(i)'
<1> DEFINE d == Place(SubSeq(tree, 1, i - 1))
<1>1. /\ tree[i].type = "scalar" => Fits(Len(ArgumentName(d)))
      /\ tree[i].type = "open" => Fits(Len(ContainerName(d, tree[i].array)))
      /\ tree[i].type = "member" => Fits(Len(tree[i].key))
  BY Zenon DEF NameFits
<1> QED
  BY <1>1, Zenon DEF NameFits

\* What fits at an event of each type.
LEMMA FitsIs ==
    ASSUME NEW i, NEW d, d = Place(SubSeq(tree, 1, i - 1)), NEW e, e = tree[i]
    PROVE  /\ e.type = "scalar" => (NameFits(i) <=> Fits(Len(ArgumentName(d))))
           /\ e.type = "open" => (NameFits(i) <=> Fits(Len(ContainerName(d, e.array))))
           /\ e.type = "member" => (NameFits(i) <=> Fits(Len(e.key)))
           /\ e.type = "close" => NameFits(i)
<1>1. NameFits(i) <=> /\ e.type = "scalar" => Fits(Len(ArgumentName(d)))
                      /\ e.type = "open" => Fits(Len(ContainerName(d, e.array)))
                      /\ e.type = "member" => Fits(Len(e.key))
  BY Zenon DEF NameFits
<1> QED
  BY <1>1

\* A step that follows the event that is due leaves the walk where it should be.
LEMMA Forward ==
    ASSUME DocumentIInv, Walking, at < Len(tree), NEW e, e = Visit,
           UNCHANGED <<tree, text, silence, use_numbers>>, at' = at + 1,
           doc' = After(doc, e), e.type = "close" => doc.open # <<>>,
           arguments' = arguments + (IF e.type = "scalar" THEN 1 ELSE 0),
           object_keys' = object_keys + (IF e.type = "member" THEN 1 ELSE 0),
           use_numbers => number_position' = number_position
                             + (IF e \in Numeric(text) THEN 1 ELSE 0),
           lines' = IF ~silence /\ e.type = "scalar" THEN Append(lines, LineOf(e, text))
                    ELSE lines,
           NameFits(at + 1)
    PROVE  Standing'
<1> DEFINE w == Visited
           x == SubSeq(tree, 1, at + 1)
<1>1. /\ e \in Happenings /\ at \in Nat /\ doc \in Positions /\ doc = Place(w)
      /\ Len(doc.open) = Len(e.around) /\ LeadsTo(w, e, x, text)
  BY VisitHere
<1>2. Standing
  BY DEF DocumentIInv, WalkStands, Walking
<1>3. Visited' = x
  BY DEF Visited
<1> HIDE DEF w, x
<1>4. doc' = Place(x)
  BY <1>1 DEF LeadsTo
<1>5. Len(doc'.open) = Len(Around(x))
  <2>1. Len(After(doc, e).open) = Len(AroundAfter(e))
    BY <1>1, AsManyOpen
  <2> QED
    BY <1>1, <2>1 DEF LeadsTo
<1>6. arguments' = Count(x, "scalar") /\ object_keys' = Count(x, "member")
  BY <1>1, <1>2 DEF LeadsTo, Standing, w
<1>7. use_numbers' => number_position' = Len(Picked(x, Numeric(text)))
  BY <1>1, <1>2 DEF LeadsTo, Standing, w
<1>8. lines' = IF silence' THEN <<>> ELSE LinesOf(x, text)
  <2>1. /\ lines = IF silence THEN <<>> ELSE LinesOf(w, text)
        /\ LinesOf(x, text) = IF e.type = "scalar" THEN Append(LinesOf(w, text), LineOf(e, text))
                              ELSE LinesOf(w, text)
    BY <1>1, <1>2 DEF LeadsTo, Standing, w
  <2>2. CASE silence
    BY <2>1, <2>2
  <2>3. CASE ~silence /\ e.type = "scalar"
    BY <2>1, <2>3
  <2>4. CASE ~silence /\ e.type # "scalar"
    BY <2>1, <2>4
  <2> QED
    BY <2>2, <2>3, <2>4
<1>9. \A i \in 1..at' : NameFits(i)'
  <2> SUFFICES ASSUME NEW i \in 1..(at + 1) PROVE NameFits(i)'
    OBVIOUS
  <2>1. i \in 1..at \/ i = at + 1
    BY <1>1
  <2>2. NameFits(i)
    BY <1>2, <2>1 DEF Standing
  <2> QED
    BY <2>2, FitsStill
<1>10. at' > 0
  BY <1>1
<1> QED
  BY <1>3, <1>4, <1>5, <1>6, <1>7, <1>8, <1>9, <1>10 DEF Standing

\* What a step of the walk gives: it stops for a reason it may have, or goes on.
GoesOn ==
    /\ pc' \in {"enter", "next", "finish"}
    /\ pc' = "finish" => Stopping'
    /\ pc' \in {"enter", "next"} => Standing'
    /\ UNCHANGED <<use_numbers, numbers, silence>>

\* In the second walk of json-c no name is too long.
LEMMA StopsFor ==
    ASSUME UNCHANGED <<stage, library>>, NEW why, Fail(why),
           why \in {"memory", "output", "native", "name"},
           why = "name" => ~(stage = "walking" /\ library = "json-c")
    PROVE  GoesOn
BY DEF Fail, GoesOn, Stopping, given

\* What the first walk of json-c has found to fit, fits the second.
LEMMA NamesFit ==
    ASSUME DocumentIInv, stage = "walking", library = "json-c", at < Len(tree)
    PROVE  NameFits(at + 1)
<1>1. at + 1 \in 1..Len(tree)
  BY DEF DocumentIInv, AdapterIInv, TreeOfText
<1> QED
  BY <1>1 DEF DocumentIInv, WalkStands

\* A scalar is printed with its name and text, or the walk stops as it may.
LEMMA PrintScalar ==
    ASSUME DocumentIInv, Walking, at < Len(tree), NEW e, e = Visit, e.type = "scalar",
           UNCHANGED <<tree, text, stage, library>>, at' = at + 1,
           Argument(NativeValue(library, text, e))
    PROVE  GoesOn
<1> DEFINE value == NativeValue(library, text, e)
<1>0. value = NativeValue(library, text, e)
  OBVIOUS
<1> HIDE DEF value
<1>1. /\ ~AtLimit(arguments, limits.args)
      /\ FromSource(value) <=> use_numbers /\ e \in Numeric(text)
      /\ FromSource(value) => ~Unexpected /\ ~Differs(value)
      /\ Text(value) \notin TooLong
      /\ stage = "walking" => Text(value) = SourceOf(e, text)
  BY <1>0, ScalarHere
<1>2. Argument(value)
  BY <1>0
<1>3. /\ at \in Nat /\ doc = Place(Visited) /\ e = tree[at + 1] /\ at + 1 \in 1..Len(tree)
      /\ tree \in Seq(Happenings)
  BY VisitHere
<1>4. ArgumentName(doc) = WrittenName /\ Len(WrittenName) = NameLength
  BY <1>2, NamesHere, WrittenNameLength DEF Argument, DocumentIInv, AdapterIInv, IInv
<1>5. NameFits(at + 1) <=> Fits(NameLength)
  <2>1. PICK i : i = at + 1
    OBVIOUS
  <2>2. i - 1 = at
    BY <1>3, <2>1
  <2>3. doc = Place(SubSeq(tree, 1, i - 1)) /\ e = tree[i]
    BY <1>3, <2>1, <2>2, Zenon DEF Visited
  <2>4. NameFits(i) <=> Fits(Len(ArgumentName(doc)))
    BY <2>3, FitsIs, Zenon
  <2> QED
    BY <1>4, <2>1, <2>4
<1>6. CASE ArgumentOverLimit
  <2>1. ~Fits(NameLength) /\ Fail("name")
    BY <1>1, <1>6 DEF ArgumentOverLimit
  <2>2. ~(stage = "walking" /\ library = "json-c")
    BY <1>5, <2>1, NamesFit
  <2> QED
    BY <2>1, <2>2, StopsFor
<1>7. CASE ArgumentUnknown
  BY <1>7, StopsFor DEF ArgumentUnknown
<1>8. CASE ArgumentMismatch(value)
  BY <1>1, <1>8 DEF ArgumentMismatch
<1>9. CASE ArgumentTaken(value) /\ Fits(NameLength)
  <2>1. CASE Fail("output")
    BY <2>1, StopsFor
  <2>2. CASE ~Fail("output")
    <3>1. /\ TakeSpan(value) /\ UNCHANGED <<path, object_keys, heap>>
          /\ arguments' = arguments + 1 /\ doc' = AfterValue(doc)
          /\ lines' = IF silence THEN lines
                      ELSE Append(lines, [name |-> WrittenName, value |-> Text(value)])
          /\ Go("next")
      BY <1>1, <1>9, <2>2 DEF ArgumentTaken
    <3>2. UNCHANGED <<use_numbers, numbers, silence>> /\ pc' = "next"
      BY <3>1 DEF Go, given
    <3>3. use_numbers => number_position' = number_position
                                   + (IF e \in Numeric(text) THEN 1 ELSE 0)
      <4>1. number_position \in Nat
        BY DEF DocumentIInv, AdapterIInv, IInv, TypeOK
      <4> QED
        BY <1>1, <3>1, <4>1 DEF TakeSpan
    <3>4. lines' = IF ~silence /\ e.type = "scalar" THEN Append(lines, LineOf(e, text))
                   ELSE lines
      <4>1. CASE silence
        BY <3>1, <4>1
      <4>2. CASE ~silence
        <5>1. stage = "walking"
          BY <4>2 DEF DocumentIInv, WalkStands, Walking
        <5>2. IsDocument(text) /\ text \in Seq(Tokens) /\ tree = Events(text)
          BY <5>1 DEF DocumentIInv, TreeStands, AdapterIInv, CallTypes
        <5>3. WellFormed(tree)
          BY <5>2, DocumentEnds
        <5>4. Follows(SubSeq(tree, 1, at), e)
          <6>1. Follows(SubSeq(tree, 1, at + 1 - 1), tree[at + 1])
            BY <1>3, <5>3 DEF WellFormed
          <6>2. at + 1 - 1 = at
            BY <1>3
          <6> QED
            BY <1>3, <6>1, <6>2
        <5>5. e.name = ArgumentName(doc)
          BY <1>3, <5>4 DEF Follows, Visited
        <5> QED
          BY <1>1, <1>4, <3>1, <4>2, <5>1, <5>5 DEF LineOf
      <4> QED
        BY <4>1, <4>2
    <3>5. Standing'
      <4>1. doc' = After(doc, e) /\ e.type # "close" /\ object_keys' = object_keys + 0
            /\ e.type # "member"
        BY <3>1 DEF After, DocumentIInv, AdapterIInv, IInv, TypeOK
      <4>2. NameFits(at + 1)
        BY <1>5, <1>9
      <4> QED
        BY <3>1, <3>2, <3>3, <3>4, <4>1, <4>2, Forward
    <3> QED
      BY <3>2, <3>5 DEF GoesOn
  <2> QED
    BY <2>1, <2>2
<1> QED
  BY <1>2, <1>6, <1>7, <1>8, <1>9 DEF Argument

\* A container is entered, or the walk stops as it may.
LEMMA EnterContainer ==
    ASSUME DocumentIInv, Walking, at < Len(tree), NEW e, e = Visit, e.type = "open",
           UNCHANGED <<tree, text, stage, library>>, at' = at + 1, Begin(e.array)
    PROVE  GoesOn
<1> DEFINE array == e.array
<1>1. /\ at \in Nat /\ doc = Place(Visited) /\ e = tree[at + 1] /\ at + 1 \in 1..Len(tree)
      /\ tree \in Seq(Happenings) /\ e \in Happenings /\ Passed(e)
      /\ Len(frames) = Len(e.around)
  BY VisitHere
<1>2. array \in BOOLEAN
  BY <1>1 DEF Happenings
<1>3. Begin(array)
  OBVIOUS
<1>4. Len(ContainerName(doc, array)) = PrefixSize(array)
  <2>1. pc = "enter"
    BY <1>3 DEF Begin
  <2> HIDE DEF array
  <2> QED
    BY <1>2, <2>1, NamesHere DEF DocumentIInv, AdapterIInv, IInv
<1>5. NameFits(at + 1) <=> Fits(PrefixSize(array))
  <2>1. PICK i : i = at + 1
    OBVIOUS
  <2>2. i - 1 = at
    BY <1>1, <2>1
  <2>3. doc = Place(SubSeq(tree, 1, i - 1)) /\ e = tree[i]
    BY <1>1, <2>1, <2>2, Zenon DEF Visited
  <2>4. NameFits(i) <=> Fits(Len(ContainerName(doc, array)))
    BY <2>3, FitsIs, Zenon DEF array
  <2> QED
    BY <1>4, <2>1, <2>4
<1>6. ~AtLimit(Len(frames), limits.depth)
  <2>1. limits.depth \in Nat /\ Len(e.around) \in Nat
    BY <1>1, TreeIs DEF Walking, Happenings
  <2>2. Len(e.around) < limits.depth
    BY <1>1 DEF Passed
  <2> QED
    BY <1>1, <2>1, <2>2 DEF AtLimit
<1> HIDE DEF array
<1>7. CASE BeginOverLimit(array)
  <2>1. ~Fits(PrefixSize(array)) /\ Fail("name")
    BY <1>6, <1>7 DEF BeginOverLimit
  <2>2. ~(stage = "walking" /\ library = "json-c")
    BY <1>5, <2>1, NamesFit
  <2> QED
    BY <2>1, <2>2, StopsFor
<1>8. CASE BeginFails
  <2>1. Fail("memory")
    BY <1>8 DEF BeginFails
  <2> QED
    BY <2>1, StopsFor
<1>9. CASE BeginSucceeds(array) /\ Fits(PrefixSize(array))
  <2>1. UNCHANGED <<counts, lines>> /\ doc' = AfterOpen(doc, array) /\ Go("next")
    BY <1>9 DEF BeginSucceeds
  <2>2. UNCHANGED <<use_numbers, numbers, silence>> /\ pc' = "next"
    BY <2>1 DEF Go, given
  <2>3. e \notin Numeric(text)
    BY DEF Numeric
  <2>4. /\ arguments \in Nat /\ number_position \in Nat /\ object_keys \in Nat
        /\ UNCHANGED <<arguments, number_position, object_keys>>
    BY <2>1 DEF DocumentIInv, AdapterIInv, IInv, TypeOK, counts
  <2>5. doc' = After(doc, e)
    BY <2>1 DEF After, array
  <2>6. NameFits(at + 1)
    BY <1>5, <1>9
  <2>7. /\ arguments' = arguments + 0 /\ object_keys' = object_keys + 0
        /\ number_position' = number_position + 0
    BY <2>4
  <2>8. Standing'
    BY <2>1, <2>2, <2>3, <2>5, <2>6, <2>7, Forward
  <2> QED
    BY <2>2, <2>8 DEF GoesOn
<1> QED
  BY <1>3, <1>6, <1>7, <1>8, <1>9 DEF Begin

\* A member is entered under its own key, or the walk stops as it may.
LEMMA EnterMember ==
    ASSUME DocumentIInv, Walking, at < Len(tree), NEW e, e = Visit, e.type = "member",
           UNCHANGED <<tree, text, stage, library>>, at' = at + 1,
           Member(NativeKey(library, e.key))
    PROVE  GoesOn
<1>1. /\ at \in Nat /\ e = tree[at + 1] /\ at + 1 \in 1..Len(tree)
      /\ e \in Happenings /\ Passed(e)
  BY VisitHere
<1>2. NativeKey(library, e.key) = e.key
  <2>1. CASE HasNul(e.key)
    <3>1. Policy(library).nul = "allowed"
      BY <1>1, <2>1 DEF Passed
    <3>2. library \notin {"json-c", "cjson"}
      BY <3>1 DEF Policy
    <3> QED
      BY <3>2 DEF NativeKey
  <2>2. CASE ~HasNul(e.key)
    BY <2>2, PlainKey
  <2> QED
    BY <2>1, <2>2
<1>3. Member(e.key)
  BY <1>2
<1>4. NameFits(at + 1) <=> Fits(Len(e.key))
  BY <1>1, FitsIs
<1>5. CASE ~Fits(Len(e.key)) /\ Fail("name")
  <2>1. ~(stage = "walking" /\ library = "json-c")
    BY <1>4, <1>5, NamesFit
  <2> QED
    BY <1>5, <2>1, StopsFor
<1>6. CASE Fits(Len(e.key)) /\ doc' = AfterKey(doc, e.key) /\ lines' = lines /\ Go("enter")
  <2>2. UNCHANGED <<use_numbers, numbers, silence>> /\ pc' = "enter"
    BY <1>6 DEF Go, given
  <2>3. e \notin Numeric(text)
    BY DEF Numeric
  <2>4. /\ arguments \in Nat /\ number_position \in Nat
        /\ UNCHANGED <<arguments, number_position>> /\ object_keys' = object_keys + 1
    BY <1>3 DEF Member, DocumentIInv, AdapterIInv, IInv, TypeOK
  <2>5. doc' = After(doc, e)
    BY <1>6 DEF After
  <2>6. NameFits(at + 1)
    BY <1>4, <1>6
  <2>7. arguments' = arguments + 0 /\ number_position' = number_position + 0
    BY <2>4
  <2>8. Standing'
    BY <1>6, <2>2, <2>3, <2>4, <2>5, <2>6, <2>7, Forward
  <2> QED
    BY <2>2, <2>8 DEF GoesOn
<1> QED
  BY <1>3, <1>5, <1>6 DEF Member

\* A container is left.
LEMMA LeaveContainer ==
    ASSUME DocumentIInv, Walking, at < Len(tree), NEW e, e = Visit, e.type = "close",
           UNCHANGED <<tree, text, stage, library>>, at' = at + 1, Pop
    PROVE  GoesOn
<1>1. /\ at \in Nat /\ e = tree[at + 1] /\ at + 1 \in 1..Len(tree)
      /\ doc \in Positions /\ Len(frames) = Len(doc.open)
  BY VisitHere
<1>2. /\ UNCHANGED <<counts, lines>> /\ doc' = AfterClose(doc) /\ Go("next")
      /\ frames # <<>>
  BY DEF Pop
<1>3. UNCHANGED <<use_numbers, numbers, silence>> /\ pc' = "next"
  BY <1>2 DEF Go, given
<1>4. /\ arguments \in Nat /\ number_position \in Nat /\ object_keys \in Nat
      /\ UNCHANGED <<arguments, number_position, object_keys>>
      /\ frames \in Seq(Frames)
  BY <1>2 DEF DocumentIInv, AdapterIInv, IInv, TypeOK, counts
<1>5. doc.open # <<>>
  BY <1>1, <1>2, <1>4 DEF Positions
<1>6. doc' = After(doc, e)
  BY <1>2, <1>5 DEF After
<1>7. NameFits(at + 1)
  BY <1>1, FitsIs
<1>8. e \notin Numeric(text)
  BY DEF Numeric
<1>9. /\ arguments' = arguments + 0 /\ object_keys' = object_keys + 0
      /\ number_position' = number_position + 0
  BY <1>4
<1>10. Standing'
  BY <1>2, <1>3, <1>5, <1>6, <1>7, <1>8, <1>9, Forward
<1> QED
  BY <1>3, <1>10 DEF GoesOn

\* Going on to an element changes nothing that was visited.
LEMMA ToElement ==
    ASSUME DocumentIInv, Walking, UNCHANGED <<tree, text, stage, library, at>>, Element
    PROVE  GoesOn
<1>1. /\ UNCHANGED <<doc, arguments, number_position, object_keys, lines,
                     use_numbers, numbers, silence>>
      /\ pc' = "enter"
  BY DEF Element, Go, given, counts
<1>2. Standing
  BY DEF DocumentIInv, WalkStands, Walking
<1>3. Visited' = Visited
  BY DEF Visited
<1>4. \A i \in 1..at' : NameFits(i)'
  BY <1>2, FitsStill DEF Standing
<1>5. Standing'
  BY <1>1, <1>2, <1>3, <1>4 DEF Standing
<1> QED
  BY <1>1, <1>5 DEF GoesOn

\* Every step of a walk goes on in step with the tree, or stops as it may.
LEMMA WalkGoesOn ==
    ASSUME DocumentIInv, WalkStep
    PROVE  GoesOn /\ Walking /\ UNCHANGED <<tree, text, stage, library, quiet, spans>>
<1>1. /\ UNCHANGED <<tree, text, stage, library, quiet, spans>>
      /\ stage \in {"checking", "walking"} /\ at < Len(tree)
  BY DEF WalkStep, call, scan
<1>2. Walking
  BY DEF WalkStep, Walking, Argument, Begin, Member, Pop, Element
<1>3. CASE Visit.type = "scalar" /\ Argument(NativeValue(library, text, Visit)) /\ at' = at + 1
  BY <1>1, <1>2, <1>3, PrintScalar
<1>4. CASE Visit.type = "open" /\ Begin(Visit.array) /\ at' = at + 1
  BY <1>1, <1>2, <1>4, EnterContainer
<1>5. CASE Visit.type = "member" /\ Member(NativeKey(library, Visit.key)) /\ at' = at + 1
  BY <1>1, <1>2, <1>5, EnterMember
<1>6. CASE Visit.type = "close" /\ Pop /\ at' = at + 1
  BY <1>1, <1>2, <1>6, LeaveContainer
<1>7. CASE Element /\ UNCHANGED at
  BY <1>1, <1>2, <1>7, ToElement
<1> QED
  BY <1>1, <1>2, <1>3, <1>4, <1>5, <1>6, <1>7 DEF WalkStep

\* A walk that is out of containers has visited the whole tree.
LEMMA WalkOver ==
    ASSUME DocumentIInv, stage \in {"checking", "walking"}, pc = "next", frames = <<>>
    PROVE  at = Len(tree) /\ Visited = tree /\ Standing
<1>1. Standing /\ Walking
  BY DEF DocumentIInv, WalkStands, Walking
<1>2. /\ tree \in Seq(Happenings) /\ Whole(tree) /\ at \in 0..Len(tree)
  BY TreeIs
<1>3. ASSUME at < Len(tree) PROVE FALSE
  <2>1. PICK e : e = Visit
    OBVIOUS
  <2>2. /\ e \in Happenings /\ e = tree[at + 1] /\ at + 1 \in 1..Len(tree)
        /\ Len(frames) = Len(doc.open) /\ Len(doc.open) = Len(e.around)
    BY <1>1, <1>3, <2>1, VisitHere
  <2>3. e.around = <<>>
    BY <2>2 DEF Happenings
  <2>4. at > 0
    BY <1>1 DEF Standing
  <2>5. at + 1 > 1
    BY <1>2, <2>4
  <2> QED
    BY <1>2, <2>2, <2>3, <2>5 DEF Whole
<1>4. at = Len(tree)
  BY <1>2, <1>3
<1>5. Visited = tree
  BY <1>2, <1>4 DEF Visited
<1> QED
  BY <1>1, <1>4, <1>5

\* A walk is accepted only when it is out of containers.
LEMMA EndedWell ==
    ASSUME DocumentIInv, EndWalk, stage' = "walk" \/ outcome' = "accepted"
    PROVE  pc = "next" /\ frames = <<>> /\ outcome' = "accepted"
<1>1. outcome' = "accepted" /\ Finish
  BY DEF EndWalk
<1>2. Control
  BY DEF DocumentIInv, AdapterIInv, IInv
<1>3. CASE pc = "finish"
  <2>1. outcome' = outcome
    BY <1>1, <1>3 DEF Finish, told
  <2> QED
    BY <1>1, <1>2, <1>3, <2>1 DEF Control
<1> QED
  BY <1>1, <1>3 DEF Finish

\* A walk begins at the start of the tree, with nothing counted or printed.
LEMMA WalkAtStart ==
    ASSUME DocumentIInv, BeginWalk
    PROVE  Standing'
<1>1. /\ at' = 0 /\ doc' = Start /\ lines' = <<>> /\ arguments' = 0 /\ number_position' = 0
      /\ object_keys' = 0 /\ tree' = tree /\ text' = text /\ pc' = "enter"
  BY DEF BeginWalk, WalkBegins, call
<1>2. tree \in Seq(Happenings)
  BY TreeIs DEF BeginWalk
<1>3. Visited' = <<>>
  BY <1>1, <1>2 DEF Visited
<1>4. Place(<<>>) = Start /\ Around(<<>>) = <<>> /\ Start.open = <<>>
  BY PlaceAtStart DEF Around, Start
<1>5. /\ Count(<<>>, "scalar") = 0 /\ Count(<<>>, "member") = 0
      /\ LinesOf(<<>>, text) = <<>> /\ Picked(<<>>, Numeric(text)) = <<>>
  BY NothingCounted, PickedNone
<1>6. Len(<<>>) = 0 /\ \A i \in 1..at' : FALSE
  BY <1>1
<1> QED
  BY <1>1, <1>3, <1>4, <1>5, <1>6 DEF Standing

\* The walk stays in step with the tree.
LEMMA StepWalkStands ==
    ASSUME DocumentIInv, [AdapterNext]_vars
    PROVE  WalkStands'
<1>1. WalkStands
  BY DEF DocumentIInv
<1>2. ASSUME stage' \notin {"checking", "walk", "walking"} PROVE WalkStands'
  BY <1>2 DEF WalkStands
<1>3. ASSUME NEW t \in Texts, ParseFile(t) PROVE WalkStands'
  BY <1>2, <1>3 DEF ParseFile
<1>4. CASE BeginLocale \/ ReadFile \/ BeginPreflight \/ EndPreflight \/ AsciiInput
           \/ Done \/ Return
  BY <1>2, <1>4 DEF BeginLocale, ReadFile, BeginPreflight, EndPreflight, AsciiInput,
     Done, Return
<1>5. CASE Scan
  BY <1>2, <1>5 DEF Scan, ScanSeparator, ScanOpen, ScanClose, ScanKey, ScanString,
     ScanLongString, ScanLiteral, ScanGarbage, ScanNumber, ScanScalar, ScanFails, Scanning
<1>6. CASE NativeParse
  <2>1. \/ stage' \in {"done", "check"}
        \/ stage' = "walk" /\ library' # "json-c"
    BY <1>6 DEF NativeParse, NativeFails, NativeSucceeds, call
  <2>2. CASE stage' \in {"done", "check"}
    BY <1>2, <2>2
  <2>3. CASE stage' = "walk" /\ library' # "json-c"
    BY <2>3 DEF WalkStands
  <2> QED
    BY <2>1, <2>2, <2>3
<1>7. CASE BeginWalk
  <2>1. Standing' /\ pc' = "enter" /\ UNCHANGED <<tree, library, quiet, spans>>
    BY <1>7, WalkAtStart DEF BeginWalk, WalkBegins, call, scan
  <2>2. stage' = "walking" /\ library' = "json-c" => \A i \in 1..Len(tree') : NameFits(i)'
    <3>1. stage' = "walking" => stage = "walk"
      BY <1>7 DEF BeginWalk
    <3> QED
      BY <1>1, <2>1, <3>1, FitsStill DEF WalkStands
  <2>3. /\ use_numbers' = (stage' = "walking" /\ ~Raw(library'))
        /\ numbers' = IF use_numbers' THEN spans' ELSE <<>>
        /\ silence' = (stage' = "checking" \/ quiet')
        /\ stage' \in {"checking", "walking"}
    <3>1. CASE stage = "check"
      BY <1>7, <2>1, <3>1 DEF BeginWalk, WalkBegins, CheckSilence
    <3>2. CASE stage = "walk"
      <4>1. stage' = "walking" /\ WalkBegins(spans, ~Raw(library), quiet)
        BY <1>7, <3>2 DEF BeginWalk
      <4>2. Raw(library) => spans = <<>>
        BY <3>2, TreeIs DEF Counted
      <4>3. /\ use_numbers' = ~Raw(library) /\ numbers' = spans /\ silence' = quiet
        BY <4>1 DEF WalkBegins
      <4>4. quiet \in BOOLEAN
        BY DEF DocumentIInv, AdapterIInv, CallTypes
      <4>5. Raw(library') <=> Raw(library)
        BY <2>1
      <4>6. use_numbers' = (stage' = "walking" /\ ~Raw(library'))
        BY <4>1, <4>3, <4>5
      <4>7. numbers' = IF use_numbers' THEN spans' ELSE <<>>
        BY <2>1, <4>2, <4>3
      <4>8. silence' = (stage' = "checking" \/ quiet')
        BY <2>1, <4>1, <4>3, <4>4
      <4> QED
        BY <4>1, <4>6, <4>7, <4>8
    <3> QED
      BY <1>7, <3>1, <3>2 DEF BeginWalk
  <2> QED
    BY <2>1, <2>2, <2>3 DEF WalkStands
<1>8. CASE WalkStep
  <2>1. GoesOn /\ Walking /\ UNCHANGED <<tree, text, stage, library, quiet, spans>>
    BY <1>8, WalkGoesOn
  <2>2. stage' \in {"walk", "walking"} /\ library' = "json-c" =>
            \A i \in 1..Len(tree') : NameFits(i)'
    BY <1>1, <2>1, FitsStill DEF WalkStands
  <2>3. /\ use_numbers' = (stage' = "walking" /\ ~Raw(library'))
        /\ numbers' = IF use_numbers' THEN spans' ELSE <<>>
        /\ silence' = (stage' = "checking" \/ quiet')
    BY <1>1, <2>1 DEF WalkStands, GoesOn, Walking
  <2> QED
    BY <2>1, <2>2, <2>3 DEF WalkStands, GoesOn
<1>9. CASE EndWalk
  <2>1. stage' \in {"done", "walk"} /\ stage \in {"checking", "walking"} /\ tree' = tree
    BY <1>9 DEF EndWalk
  <2>2. CASE stage' = "done"
    BY <1>2, <2>2
  <2>3. CASE stage' = "walk"
    <3>1. pc = "next" /\ frames = <<>>
      BY <1>9, <2>3, EndedWell
    <3>2. Standing /\ at = Len(tree)
      BY <2>1, <3>1, WalkOver
    <3>3. \A i \in 1..Len(tree') : NameFits(i)'
      BY <2>1, <3>2, FitsStill DEF Standing
    <3> QED
      BY <2>3, <3>3 DEF WalkStands
  <2> QED
    BY <2>1, <2>2, <2>3
<1>10. CASE UNCHANGED vars
  <2>1. /\ UNCHANGED <<tree, text, stage, library, quiet, spans, at, pc, doc, lines,
                       use_numbers, numbers, silence, reason, arguments,
                       number_position, object_keys>>
    BY <1>10 DEF vars, walkVars, call, scan, given, counts, told
  <2>2. ASSUME NEW i, NameFits(i) PROVE NameFits(i)'
    BY <2>1, <2>2, FitsStill
  <2>3. Standing => Standing'
    BY <2>1, <2>2 DEF Standing, Visited
  <2>4. Stopping => Stopping'
    BY <2>1 DEF Stopping
  <2> QED
    BY <1>1, <2>1, <2>2, <2>3, <2>4 DEF WalkStands
<1> QED
  BY <1>3, <1>4, <1>5, <1>6, <1>7, <1>8, <1>9, <1>10 DEF AdapterNext, Steps

\* At its end, the check of json-c has as many keys as the document exactly if
\* no member was replaced.
LEMMA MembersOf ==
    ASSUME DocumentIInv, stage \in {"checking", "walking"}, pc = "next", frames = <<>>
    PROVE  /\ keys = Count(Events(text), "member") /\ object_keys = Count(tree, "member")
           /\ Replaced(library, Events(text)) = {} => tree = Events(text)
           /\ Replaced(library, Events(text)) # {} => keys # object_keys
<1>1. Visited = tree /\ Standing
  BY WalkOver
<1>2. text \in Seq(Tokens) /\ IsDocument(text) /\ Counted(Events(text))
  BY TreeIs
<1>3. tree = NativeTree(library, text)
  BY DEF DocumentIInv, TreeStands
<1>4. /\ Replaced(library, Events(text)) = {} => tree = Events(text)
      /\ Replaced(library, Events(text)) # {} =>
            Len(OfType(tree, "member")) < Len(EventsOf(text, "member"))
  BY <1>2, <1>3, TreeOfDocument
<1>5. keys = Count(Events(text), "member") /\ object_keys = Count(tree, "member")
  BY <1>1, <1>2 DEF Counted, Standing
<1>6. EventsOf(text, "member") = OfType(Events(text), "member")
  BY DEF EventsOf, OfType
<1>7. keys \in Nat /\ object_keys \in Nat
  BY DEF DocumentIInv, AdapterIInv, ScanTypes, IInv, TypeOK
<1> QED
  BY <1>4, <1>5, <1>6, <1>7 DEF Count

\* The tree that is printed is that of the whole document.
LEMMA StepTreeStands ==
    ASSUME DocumentIInv, [AdapterNext]_vars
    PROVE  TreeStands'
<1>1. TreeStands
  BY DEF DocumentIInv
<1>2. ASSUME stage' \notin {"check", "checking", "walk", "walking"} PROVE TreeStands'
  BY <1>2 DEF TreeStands
<1>3. ASSUME NEW t \in Texts, ParseFile(t) PROVE TreeStands'
  BY <1>2, <1>3 DEF ParseFile
<1>4. CASE BeginLocale \/ ReadFile \/ BeginPreflight \/ EndPreflight \/ AsciiInput
           \/ Done \/ Return
  BY <1>2, <1>4 DEF BeginLocale, ReadFile, BeginPreflight, EndPreflight, AsciiInput,
     Done, Return
<1>5. CASE Scan
  BY <1>2, <1>5 DEF Scan, ScanSeparator, ScanOpen, ScanClose, ScanKey, ScanString,
     ScanLongString, ScanLiteral, ScanGarbage, ScanNumber, ScanScalar, ScanFails, Scanning
<1>6. CASE NativeParse
  <2>1. CASE NativeFails
    BY <1>2, <2>1 DEF NativeFails
  <2>2. CASE NativeSucceeds
    <3>1. /\ IsDocument(text) /\ tree' = NativeTree(library, text)
          /\ UNCHANGED <<text, library>>
          /\ stage' = IF library = "json-c" THEN "check" ELSE "walk"
      BY <1>6, <2>2 DEF NativeSucceeds, NativeParse, call
    <3>2. CASE library = "json-c"
      BY <3>1, <3>2 DEF TreeStands
    <3>3. CASE library # "json-c"
      <4>1. text \in Seq(Tokens)
        BY DEF DocumentIInv, AdapterIInv, CallTypes
      <4>2. Events(text) \in Seq(Happenings)
        <5>1. Events(text) \in Seq(Told(text)) /\ Told(text) \subseteq Happenings
          BY <3>1, <4>1, DocumentTold DEF Told
        <5> QED
          BY <5>1
      <4>3. Replaced(library, Events(text)) = {}
        BY <3>3, <4>2, ReplacedIs
      <4>4. tree' = Events(text)
        BY <3>1, <4>1, <4>3, TreeOfDocument
      <4> QED
        BY <3>1, <3>3, <4>4 DEF TreeStands
    <3> QED
      BY <3>2, <3>3
  <2> QED
    BY <1>6, <2>1, <2>2 DEF NativeParse
<1>7. CASE BeginWalk \/ WalkStep
  BY <1>1, <1>7 DEF BeginWalk, WalkStep, TreeStands, call
<1>8. CASE EndWalk
  <2>1. /\ UNCHANGED <<tree, text, library>> /\ stage \in {"checking", "walking"}
        /\ stage' \in {"done", "walk"}
    BY <1>8 DEF EndWalk, call
  <2>2. CASE stage' = "done"
    BY <1>2, <2>2
  <2>3. CASE stage' = "walk"
    <3>1. pc = "next" /\ frames = <<>> /\ ~MissesKeys(keys, object_keys)
      BY <1>8, <2>3, EndedWell DEF EndWalk
    <3>2. tree = Events(text)
      BY <2>1, <3>1, MembersOf DEF MissesKeys
    <3> QED
      BY <1>1, <2>1, <2>3, <3>2 DEF TreeStands
  <2> QED
    BY <2>1, <2>2, <2>3
<1>9. CASE UNCHANGED vars
  BY <1>1, <1>9 DEF vars, call, TreeStands
<1> QED
  BY <1>3, <1>4, <1>5, <1>6, <1>7, <1>8, <1>9 DEF AdapterNext, Steps

\* When the walk is over, no span is left.
LEMMA NumbersOut ==
    ASSUME DocumentIInv, stage \in {"checking", "walking"}, pc = "next", frames = <<>>,
           use_numbers
    PROVE  ~Omitted(number_position, Len(numbers))
<1>1. Visited = tree /\ Standing
  BY WalkOver
<1>2. stage = "walking" /\ ~Raw(library) /\ numbers = spans
  BY DEF DocumentIInv, WalkStands
<1>3. tree \in Seq(Happenings) /\ Counted(Events(text))
  BY TreeIs
<1>4. tree = Events(text)
  BY <1>2 DEF DocumentIInv, TreeStands
<1>5. numbers = SpansOf(tree, text)
  BY <1>2, <1>3, <1>4 DEF Counted
<1>6. Len(SpansOf(tree, text)) = Len(Picked(tree, Numeric(text)))
  <2>1. 0 \in 0..Len(tree)
    BY <1>3
  <2> QED
    BY <1>3, <2>1, SpanPlace
<1> QED
  BY <1>1, <1>5, <1>6 DEF Standing, Omitted

\* How a walk ends: well, or for a reason it may have.
LEMMA EndsFor ==
    ASSUME DocumentIInv, EndWalk
    PROVE  /\ reason' \in {None, "memory", "output", "native", "name"}
           /\ outcome' = "refused" /\ stage = "walking" /\ library = "json-c" =>
                 reason' \in {"memory", "output", "native"}
<1>1. Finish /\ stage \in {"checking", "walking"}
  BY DEF EndWalk
<1>2. CASE pc = "finish"
  <2>1. reason' = reason
    BY <1>1, <1>2 DEF Finish, told
  <2>2. Stopping
    BY <1>1, <1>2 DEF DocumentIInv, WalkStands
  <2> QED
    BY <2>1, <2>2 DEF Stopping
<1>3. CASE pc # "finish"
  <2>1. pc = "next" /\ frames = <<>>
    BY <1>1, <1>3 DEF Finish
  <2>2. ~(use_numbers /\ Omitted(number_position, Len(numbers)))
    BY <1>1, <2>1, NumbersOut
  <2>3. \/ outcome' = "accepted" /\ reason' = reason
        \/ outcome' = "refused" /\ reason' = "output"
    BY <1>1, <1>3, <2>2 DEF Finish
  <2>4. reason = None
    BY <2>1 DEF DocumentIInv, AdapterIInv, IInv, Control
  <2> QED
    BY <2>3, <2>4
<1> QED
  BY <1>2, <1>3

\* A call that fails before it prints has printed nothing.
LEMMA NothingPrinted ==
    ASSUME PrintStands, UNCHANGED lines, stage \notin {"walking", "done", "restore", "idle"},
           stage' \in {"done", "restore"} => result' = "error"
    PROVE  PrintStands'
BY DEF PrintStands

\* A walk that ends well has printed the document.
LEMMA AllPrinted ==
    ASSUME DocumentIInv, EndWalk, stage = "walking", outcome' = "accepted"
    PROVE  lines = IF quiet THEN <<>> ELSE Arguments(text)
<1>1. Visited = tree /\ Standing
  BY EndedWell, WalkOver
<1>2. silence = quiet
  <2>1. quiet \in BOOLEAN
    BY DEF DocumentIInv, AdapterIInv, CallTypes
  <2> QED
    BY <2>1 DEF DocumentIInv, WalkStands
<1>3. tree = Events(text)
  BY DEF DocumentIInv, TreeStands
<1>4. lines = IF silence THEN <<>> ELSE LinesOf(tree, text)
  BY <1>1 DEF Standing
<1> QED
  BY <1>2, <1>3, <1>4, ArgumentsAre

\* What was printed is nothing, or all, or was cut off as it may be.
LEMMA StepPrintStands ==
    ASSUME DocumentIInv, [AdapterNext]_vars
    PROVE  PrintStands'
<1>1. PrintStands /\ Releasing
  BY DEF DocumentIInv
<1>2. IInv'
  BY StepWalks, StepIInv DEF DocumentIInv, AdapterIInv
<1>3. ASSUME NEW t \in Texts, ParseFile(t) PROVE PrintStands'
  BY <1>1, <1>3, NothingPrinted DEF ParseFile, walkVars
<1>4. CASE BeginLocale \/ ReadFile \/ BeginPreflight \/ AsciiInput
  BY <1>1, <1>4, NothingPrinted DEF BeginLocale, ReadFile, BeginPreflight, AsciiInput,
     walkVars, Error
<1>5. CASE Scan
  <2>1. stage = "scan" /\ stage' \in {"scan", "scanned"} /\ lines' = lines
    BY <1>5 DEF Scan, ScanSeparator, ScanOpen, ScanClose, ScanKey, ScanString,
       ScanLongString, ScanLiteral, ScanGarbage, ScanNumber, ScanScalar, ScanFails,
       Scanning, walkVars
  <2> QED
    BY <1>1, <2>1, NothingPrinted
<1>6. CASE EndPreflight
  <2>1. result \in {"ok", "error"}
    BY DEF DocumentIInv, AdapterIInv, CallTypes
  <2> QED
    BY <1>1, <1>6, <2>1, NothingPrinted DEF EndPreflight, walkVars, Error, EarlierResult,
       answer
<1>7. CASE NativeParse
  BY <1>1, <1>7, NothingPrinted DEF NativeParse, NativeFails, NativeSucceeds, walkVars, Error
<1>8. CASE BeginWalk
  <2>1. lines' = <<>> /\ stage' \in {"checking", "walking"}
    BY <1>8 DEF BeginWalk, WalkBegins
  <2> QED
    BY <2>1 DEF PrintStands
<1>9. CASE WalkStep
  <2>1. stage' = stage /\ stage \in {"checking", "walking"} /\ GoesOn
    BY <1>9, WalkGoesOn DEF WalkStep
  <2>2. CASE stage = "walking"
    BY <2>1, <2>2 DEF PrintStands
  <2>3. CASE stage = "checking"
    <3>1. silence' = TRUE
      BY <2>1, <2>3 DEF GoesOn, DocumentIInv, WalkStands
    <3>2. Len(lines') = 0 /\ lines' \in Seq([name : Seq(Byte), value : Data])
      BY <1>2, <3>1 DEF IInv, TypeOK, LimitsKept
    <3>3. lines' = <<>>
      <4> DEFINE S == [name : Seq(Byte), value : Data]
      <4>1. lines' \in Seq(S) /\ Len(lines') = 0
        BY <3>2
      <4> HIDE DEF S
      <4> QED
        BY <4>1
    <3> QED
      BY <2>1, <2>3, <3>3 DEF PrintStands
  <2> QED
    BY <2>1, <2>2, <2>3
<1>10. CASE EndWalk
  <2>1. /\ UNCHANGED <<lines, text, quiet, library>> /\ stage \in {"checking", "walking"}
        /\ stage' \in {"done", "walk"}
    BY <1>10 DEF EndWalk, Finish, call
  <2>2. CASE stage = "checking"
    <3>1. stage' = "done" => result' = "error"
      BY <1>10, <2>2 DEF EndWalk, Error
    <3> QED
      BY <1>1, <2>1, <2>2, <3>1, NothingPrinted
  <2>3. CASE stage = "walking" /\ outcome' = "refused"
    <3>1. stage' = "done" /\ result' = "error" /\ ground' = reason'
      BY <1>10, <2>3 DEF EndWalk, Error
    <3>2. library' = "json-c" => ground' \in {"memory", "native", "output"}
      BY <1>10, <2>1, <2>3, <3>1, EndsFor
    <3> QED
      BY <3>1, <3>2 DEF PrintStands
  <2>4. CASE stage = "walking" /\ outcome' = "accepted"
    <3>1. stage' = "done" /\ result' = result
      BY <1>10, <2>4 DEF EndWalk, answer
    <3>2. result = "ok"
      BY <1>1, <2>4 DEF Releasing, Unfailed, Stages
    <3>3. lines' = IF quiet' THEN <<>> ELSE Arguments(text')
      BY <1>10, <2>1, <2>4, AllPrinted
    <3>4. IsDocument(text')
      BY <2>1, <2>4 DEF DocumentIInv, TreeStands
    <3> QED
      BY <3>1, <3>2, <3>3, <3>4 DEF PrintStands
  <2> QED
    BY <1>10, <2>2, <2>3, <2>4 DEF EndWalk
<1>11. CASE Done
  BY <1>1, <1>11 DEF Done, walkVars, call, answer, PrintStands
<1>12. CASE Return
  BY <1>12 DEF Return, PrintStands
<1>13. CASE UNCHANGED vars
  BY <1>1, <1>13 DEF vars, walkVars, call, answer, PrintStands
<1> QED
  BY <1>3, <1>4, <1>5, <1>6, <1>7, <1>8, <1>9, <1>10, <1>11, <1>12, <1>13
     DEF AdapterNext, Steps

\* Grounds that say nothing of a document.
Plain == Grounds \ {"depth", "arguments", "repeated", "native depth", "nul", "size", "range",
                    "lexical", "grammar"}

\* The other grounds claim nothing of a document.
LEMMA PlainCause ==
    ASSUME NEW g \in Plain, NEW t, NEW l, NEW of
    PROVE  Cause(g, t, l, of)
BY DEF Plain, Cause

\* A step that gives no ground, or a justified one, keeps the causes.
LEMMA CauseKept ==
    ASSUME CauseStands, UNCHANGED <<text, limits, library>>, stage' # "new",
           reason' \notin {"depth", "arguments", "value", "numbers"},
           \/ ground' = ground
           \/ ground' \in Plain
           \/ IsDocument(text) => Cause(ground', text, limits, library)
    PROVE  CauseStands'
BY PlainCause DEF CauseStands

\* What the token i of the text, due to be scanned, means for a document with
\* the events E, of which the reader s has seen the first k.
Foretold(i, s, E, k) ==
    /\ E \in Seq(Happenings) /\ Whole(E) /\ Around(E) = <<>>
    /\ k \in 0..Len(E) /\ s.events = SubSeq(E, 1, k)
    /\ depth = Len(s.around) /\ scalars = Count(SubSeq(E, 1, k), "scalar")
    /\ text[i].type # "garbage"
    /\ text[i].type \notin {":", ","} =>
          k + 1 \in 1..Len(E) /\ E[k + 1].around = s.around
    /\ text[i].type \in {"{", "["} => E[k + 1].type = "open"
    /\ \/ text[i].type \in {"integer", "real", "literal"}
       \/ text[i].type = "string" /\ ~IsKey(i)
       => E[k + 1].type = "scalar" /\ E[k + 1].index = i
    /\ text[i].type = "string" /\ IsKey(i) =>
          E[k + 1].type = "member" /\ E[k + 1].key = text[i].text

\* The token that is due means what the document says.
LEMMA TokenHere ==
    ASSUME DocumentIInv, Scanning, IsDocument(text), NEW i, i = scanned + 1,
           NEW s, s = Behind(text, scanned), NEW E, E = Events(text),
           NEW k, k = Len(s.events)
    PROVE  Foretold(i, s, E, k)
<1>1. text \in Seq(Tokens) /\ scanned \in 0..Len(text) /\ scanned < Len(text)
  BY DEF DocumentIInv, AdapterIInv, CallTypes, ScanTypes, Scanning
<1>2. i \in 1..Len(text) /\ scanned = i - 1
  BY <1>1
<1>3. s = Behind(text, i - 1)
  BY <1>2
<1>4. PICK r : r = Behind(text, i)
  OBVIOUS
<1>5. /\ Means(text, i, s, r, E[k + 1]) /\ k \in 0..Len(E) /\ s.events = SubSeq(E, 1, k)
      /\ text[i].type \notin {":", ","} => k + 1 \in 1..Len(E)
  <2>1. i \in 1..Len(text)
    BY <1>2
  <2>2. Means(text, i, Behind(text, i - 1), Behind(text, i),
              Events(text)[Len(Behind(text, i - 1).events) + 1])
    BY <1>1, <2>1, TokenMeans
  <2>3. Len(Behind(text, i - 1).events) \in 0..Len(Events(text))
    BY <1>1, <2>1, TokenMeans
  <2>4. Behind(text, i - 1).events
              = SubSeq(Events(text), 1, Len(Behind(text, i - 1).events))
    <3>1. i - 1 \in 0..Len(text)
      BY <1>1, <1>2
    <3> QED
      BY <1>1, <3>1, DocumentPrefix, Zenon
  <2>5. text[i].type \notin {":", ","} =>
              Len(Behind(text, i - 1).events) + 1 \in 1..Len(Events(text))
    BY <1>1, <2>1, TokenMeans
  <2> QED
    BY <1>3, <1>4, <2>2, <2>3, <2>4, <2>5, Zenon
<1>7. E \in Seq(Happenings) /\ Whole(E) /\ Around(E) = <<>>
  <2>1. E \in Seq(Told(text)) /\ Told(text) \subseteq Happenings
    BY <1>1, DocumentTold DEF Told
  <2>2. E \in Seq(Happenings)
    BY <2>1
  <2> QED
    BY <1>1, <2>2, DocumentEnds, WellFormedIsWhole
<1>8. depth = Len(s.around) /\ Counted(s.events)
  BY DEF DocumentIInv, ScanStands, Scanning
<1>9. scalars = Count(SubSeq(E, 1, k), "scalar")
  BY <1>5, <1>8 DEF Counted
<1>10. /\ text[i].type # "garbage"
       /\ text[i].type \in {"{", "["} => E[k + 1].type = "open"
       /\ text[i].type \notin {":", ","} => E[k + 1].around = s.around
  BY <1>5, Zenon DEF Means
<1>11. \/ text[i].type \in {"integer", "real", "literal"}
       \/ text[i].type = "string" /\ ~IsKey(i)
       => E[k + 1].type = "scalar" /\ E[k + 1].index = i
  BY <1>5 DEF Means, IsKey
<1>12. text[i].type = "string" /\ IsKey(i) =>
          E[k + 1].type = "member" /\ E[k + 1].key = text[i].text
  BY <1>5 DEF Means, IsKey
<1> QED
  BY <1>5, <1>7, <1>8, <1>9, <1>10, <1>11, <1>12, Zenon DEF Foretold

\* An opening that is over the limit is over it in the document.
LEMMA DeepCause ==
    ASSUME DocumentIInv, ScanOpen, IsDocument(text), Passes(depth + 1, limits.depth)
    PROVE  Nesting(text) > limits.depth
<1> DEFINE s == Behind(text, scanned)
           E == Events(text)
           k == Len(s.events)
           e == E[k + 1]
<1>0. Scanning /\ Token.type \in {"{", "["}
  BY DEF ScanOpen
<1>1. /\ E \in Seq(Happenings) /\ Whole(E) /\ Around(E) = <<>>
      /\ k \in 0..Len(E) /\ depth = Len(s.around)
      /\ k + 1 \in 1..Len(E) /\ e.type = "open" /\ e.around = s.around
  <2>1. k = Len(s.events) /\ s = Behind(text, scanned) /\ E = Events(text)
    OBVIOUS
  <2>2. PICK i : i = scanned + 1
    OBVIOUS
  <2>3. Token = text[i]
    BY <2>2 DEF Token
  <2> HIDE DEF s, E, k
  <2>4. Foretold(i, s, E, k)
    BY <1>0, <2>1, <2>2, TokenHere
  <2> QED
    BY <1>0, <2>3, <2>4 DEF e, Foretold
<1> HIDE DEF s, E
<1>2. k \in Nat /\ Len(E) \in Nat /\ e \in Happenings
  BY <1>1
<1>3. E[k + 1] \in Happenings /\ E[k + 1].at \in Nat /\ E[k + 1].around \in Seq(Nat)
  BY <1>2 DEF Happenings
<1>4. AroundAfter(e) = Append(e.around, e.at) /\ Len(AroundAfter(e)) = depth + 1
  <2>1. AroundAfter(e) = Append(e.around, e.at)
    BY <1>1 DEF AroundAfter
  <2>2. Len(Append(e.around, e.at)) = Len(e.around) + 1
    BY <1>3
  <2> QED
    BY <1>1, <2>1, <2>2
<1> DEFINE b == SubSeq(E, 1, k + 1)
<1>5. b # <<>> /\ b[Len(b)] = e
  BY <1>1, <1>2
<1>6. Around(b) = AroundAfter(e)
  BY <1>5 DEF Around
<1>7. depth \in Nat /\ limits.depth \in Nat
  BY DEF DocumentIInv, AdapterIInv, ScanTypes, IInv, TypeOK
<1> HIDE DEF e, k, b
<1>8. Around(b) # <<>>
  <2>1. Len(Around(b)) = depth + 1
    BY <1>4, <1>6
  <2> QED
    BY <1>7, <2>1
<1>9. k + 1 < Len(E)
  <2>1. SUFFICES ASSUME k + 1 = Len(E) PROVE FALSE
    BY <1>1, <1>2
  <2>2. SubSeq(E, 1, Len(E)) = E
    BY <1>1
  <2>3. b = E
    BY <2>1, <2>2 DEF b
  <2> QED
    BY <1>1, <1>8, <2>3
<1>10. PICK j : j = k + 2
  OBVIOUS
<1>11. j \in 1..Len(E) /\ j - 1 = k + 1
  BY <1>2, <1>9, <1>10
<1>12. E[j].around = Around(SubSeq(E, 1, j - 1))
  BY <1>1, <1>11 DEF Whole
<1>13. Len(E[j].around) = depth + 1
  BY <1>4, <1>6, <1>11, <1>12 DEF b
<1>14. Nesting(text) \in Nat /\ Len(E[j].around) <= Nesting(text)
  <2>1. text \in Seq(Tokens)
    BY DEF DocumentIInv, AdapterIInv, CallTypes
  <2> QED
    BY <1>11, <2>1, MeasuresAre DEF E
<1> QED
  BY <1>7, <1>13, <1>14 DEF Passes

\* A scalar over the limit is over it in the document.
LEMMA ManyCause ==
    ASSUME DocumentIInv, Scanning, IsDocument(text), OneMoreScalar,
           \/ Token.type \in {"integer", "real", "literal"}
           \/ Token.type = "string" /\ ~IsKey(scanned + 1)
    PROVE  Len(EventsOf(text, "scalar")) > limits.args
<1> DEFINE s == Behind(text, scanned)
           E == Events(text)
           k == Len(s.events)
<1>1. /\ E \in Seq(Happenings) /\ k \in 0..Len(E)
      /\ scalars = Count(SubSeq(E, 1, k), "scalar")
      /\ k + 1 \in 1..Len(E) /\ E[k + 1].type = "scalar"
  <2>1. k = Len(s.events) /\ s = Behind(text, scanned) /\ E = Events(text)
    OBVIOUS
  <2>2. PICK i : i = scanned + 1
    OBVIOUS
  <2>3. Token = text[i] /\ (IsKey(i) <=> IsKey(scanned + 1))
    BY <2>2 DEF Token
  <2> HIDE DEF s, E, k
  <2>4. Foretold(i, s, E, k)
    BY <2>1, <2>2, TokenHere
  <2> QED
    BY <2>3, <2>4 DEF Foretold
<1> HIDE DEF s, E, k
<1>2. k < Len(E) /\ k \in Nat
  BY <1>1
<1>3. scalars < Count(E, "scalar") /\ Count(E, "scalar") \in Nat
  BY <1>1, <1>2, CountPlace
<1>4. Count(E, "scalar") = Len(EventsOf(text, "scalar"))
  BY DEF Count, OfType, EventsOf, E
<1>5. scalars \in Nat /\ limits.args \in Nat
  BY DEF DocumentIInv, AdapterIInv, ScanTypes, IInv, TypeOK
<1> QED
  BY <1>3, <1>4, <1>5 DEF OneMoreScalar, Passes

\* The token that is due is in the document as the key or the scalar of an event.
LEMMA TokenCause ==
    ASSUME DocumentIInv, Scanning, IsDocument(text),
           Token.type \in {"string", "integer", "real"}
    PROVE  \E event \in ToSet(Events(text)) :
              IF Token.type = "string" /\ IsKey(scanned + 1)
              THEN event.type = "member" /\ event.key = Token.text
              ELSE event.type = "scalar" /\ text[event.index] = Token
<1> DEFINE s == Behind(text, scanned)
           E == Events(text)
           k == Len(s.events)
<1>1. k = Len(s.events) /\ s = Behind(text, scanned) /\ E = Events(text)
  OBVIOUS
<1>2. PICK i : i = scanned + 1
  OBVIOUS
<1>3. Token = text[i] /\ (IsKey(i) <=> IsKey(scanned + 1))
  BY <1>2 DEF Token
<1> HIDE DEF s, E, k
<1>4. Foretold(i, s, E, k)
  BY <1>1, <1>2, TokenHere
<1>5. k + 1 \in 1..Len(E) /\ E \in Seq(Happenings)
  BY <1>3, <1>4 DEF Foretold
<1>6. E[k + 1] \in ToSet(E)
  BY <1>5 DEF ToSet
<1>7. IF Token.type = "string" /\ IsKey(scanned + 1)
      THEN E[k + 1].type = "member" /\ E[k + 1].key = Token.text
      ELSE E[k + 1].type = "scalar" /\ text[E[k + 1].index] = Token
  BY <1>3, <1>4 DEF Foretold
<1> QED
  BY <1>1, <1>6, <1>7

\* A key or a value that the preflight refuses is unfit in the document.
LEMMA UnfitCause ==
    ASSUME DocumentIInv, Scanning, IsDocument(text),
           NEW why \in {"nul", "size", "range"},
           \/ Token.type = "string" /\ why = "size" /\ Len(Token.text) >= JSON_STRING_SIZE
           \/ /\ Token.type = "string" /\ why = "nul" /\ HasNul(Token.text)
              /\ IF IsKey(scanned + 1) THEN Policy(library).nul # "allowed"
                 ELSE Policy(library).nul = "forbidden"
           \/ /\ Token.type \in Kinds /\ why = "range"
              /\ ~InRange(Token, Policy(library).number)
    PROVE  Cause(why, text, limits, library)
<1>1. PICK event \in ToSet(Events(text)) :
              IF Token.type = "string" /\ IsKey(scanned + 1)
              THEN event.type = "member" /\ event.key = Token.text
              ELSE event.type = "scalar" /\ text[event.index] = Token
  BY TokenCause DEF Kinds
<1>2. Unfit(why, event, library, text)
  BY <1>1 DEF Unfit, Kinds
<1> QED
  BY <1>2 DEF Cause

\* The preflight refuses a document only for what it has.
LEMMA ScanCause ==
    ASSUME DocumentIInv, Scan
    PROVE  CauseStands'
<1>1. /\ CauseStands /\ UNCHANGED <<text, limits, library, reason>>
  BY DEF DocumentIInv, Scan, call, walkVars, given, told
<1>2. stage' # "new"
  BY DEF Scan, ScanSeparator, ScanOpen, ScanClose, ScanKey, ScanString,
     ScanLongString, ScanLiteral, ScanGarbage, ScanNumber, ScanScalar, ScanFails, Scanning
<1>3. reason \notin {"depth", "arguments", "value", "numbers"}
  BY <1>1 DEF CauseStands
<1>4. ASSUME \/ ground' = ground
             \/ ground' \in Plain
             \/ IsDocument(text) => Cause(ground', text, limits, library)
      PROVE  CauseStands'
  BY <1>1, <1>2, <1>3, <1>4, CauseKept
<1>5. CASE ScanSeparator \/ ScanClose
  BY <1>4, <1>5 DEF ScanSeparator, ScanClose, answer
<1>6. CASE ScanKey \/ ScanLongString
  <2>1. CASE HasNul(Token.text) /\ Policy(library).nul # "allowed" /\ ScanKey
    <3>1. /\ ground' = "nul" /\ Scanning /\ Token.type = "string"
          /\ IsKey(scanned + 1)
      BY <2>1 DEF ScanKey, ScanFails, Error
    <3>2. IsDocument(text) => Cause("nul", text, limits, library)
      BY <2>1, <3>1, UnfitCause
    <3> QED
      BY <1>4, <3>1, <3>2
  <2>2. CASE ScanKey /\ ~(HasNul(Token.text) /\ Policy(library).nul # "allowed")
    BY <1>4, <2>2 DEF ScanKey, answer
  <2>3. CASE ScanLongString
    <3>1. /\ ground' = "size" /\ Scanning /\ Token.type = "string"
          /\ Len(Token.text) >= JSON_STRING_SIZE
      BY <2>3 DEF ScanLongString, ScanFails, Error
    <3>2. IsDocument(text) => Cause("size", text, limits, library)
      BY <3>1, UnfitCause
    <3> QED
      BY <1>4, <3>1, <3>2
  <2> QED
    BY <1>6, <2>1, <2>2, <2>3
<1>7. CASE ScanOpen
  <2>1. CASE Passes(depth + 1, limits.depth)
    <3>1. ground' = "depth"
      BY <1>7, <2>1 DEF ScanOpen, ScanFails, Error
    <3>2. IsDocument(text) => Cause("depth", text, limits, library)
      BY <1>7, <2>1, DeepCause DEF Cause
    <3> QED
      BY <1>4, <3>1, <3>2
  <2>2. CASE ~Passes(depth + 1, limits.depth)
    BY <1>4, <1>7, <2>2 DEF ScanOpen, answer
  <2> QED
    BY <2>1, <2>2
<1>8. ASSUME ScanScalar, Scanning,
             \/ Token.type \in {"integer", "real", "literal"}
             \/ Token.type = "string" /\ ~IsKey(scanned + 1)
      PROVE  CauseStands'
  <2>1. CASE OneMoreScalar
    <3>1. ground' = "arguments"
      BY <1>8, <2>1 DEF ScanScalar, ScanFails, Error
    <3>2. IsDocument(text) => Cause("arguments", text, limits, library)
      <4>1. IsDocument(text) => Len(EventsOf(text, "scalar")) > limits.args
        BY <1>8, <2>1, ManyCause
      <4> QED
        BY <4>1 DEF Cause
    <3> QED
      BY <1>4, <3>1, <3>2
  <2>2. CASE ~OneMoreScalar
    BY <1>4, <1>8, <2>2 DEF ScanScalar, answer
  <2> QED
    BY <2>1, <2>2
<1>9. CASE ScanString
  <2>1. CASE HasNul(Token.text) /\ Policy(library).nul = "forbidden"
    <3>1. /\ ground' = "nul" /\ Scanning /\ Token.type = "string"
          /\ ~IsKey(scanned + 1)
      BY <1>9, <2>1 DEF ScanString, ScanFails, Error
    <3>2. IsDocument(text) => Cause("nul", text, limits, library)
      BY <2>1, <3>1, UnfitCause
    <3> QED
      BY <1>4, <3>1, <3>2
  <2>2. CASE ~(HasNul(Token.text) /\ Policy(library).nul = "forbidden")
    BY <1>8, <1>9, <2>2 DEF ScanString
  <2> QED
    BY <2>1, <2>2
<1>10. CASE ScanLiteral
  BY <1>8, <1>10 DEF ScanLiteral
<1>11. CASE ScanGarbage
  <2>1. Scanning /\ Token.type = "garbage"
    BY <1>11 DEF ScanGarbage
  <2>2. ~IsDocument(text)
    <3> SUFFICES ASSUME IsDocument(text) PROVE FALSE
      OBVIOUS
    <3>1. PICK i, s, E : i = scanned + 1 /\ s = Behind(text, scanned) /\ E = Events(text)
      OBVIOUS
    <3>2. Foretold(i, s, E, Len(s.events))
      BY <2>1, <3>1, TokenHere
    <3> QED
      BY <2>1, <3>1, <3>2 DEF Foretold, Token
  <2> QED
    BY <1>4, <2>2
<1>12. CASE ScanNumber
  <2>1. Token.type \in {"integer", "real", "literal"} /\ Scanning
    BY <1>12 DEF ScanNumber, Kinds
  <2>2. CASE ScanScalar
    BY <1>8, <2>1, <2>2
  <2>3. CASE UNCHANGED answer
    BY <1>4, <2>3 DEF answer
  <2>4. CASE ScanFails("memory")
    BY <1>4, <2>4 DEF ScanFails, Error, Plain, Grounds
  <2>5. CASE ScanFails("range") /\ ~InRange(Token, Policy(library).number)
    <3>1. ground' = "range" /\ Token.type \in Kinds
      BY <1>12, <2>5 DEF ScanNumber, ScanFails, Error
    <3>2. IsDocument(text) => Cause("range", text, limits, library)
      BY <2>1, <2>5, <3>1, UnfitCause
    <3> QED
      BY <1>4, <3>1, <3>2
  <2> QED
    BY <1>12, <2>2, <2>3, <2>4, <2>5 DEF ScanNumber
<1> QED
  BY <1>5, <1>6, <1>7, <1>9, <1>10, <1>11, <1>12 DEF Scan

\* What the preflight has passed is not too deep for the native parser unless
\* the limit is above its own.
LEMMA SlotsCause ==
    ASSUME DocumentIInv, stage = "native", IsDocument(text), TooDeep
    PROVE  limits.depth > JSON_STRING_SIZE
<1> SUFFICES ASSUME ~(limits.depth > JSON_STRING_SIZE) PROVE FALSE
  OBVIOUS
<1> DEFINE E == Events(text)
           d == limits.depth
<1>1. text \in Seq(Tokens) /\ Counted(E) /\ d \in Nat /\ JSON_STRING_SIZE \in Nat
  BY WalkAssumption DEF DocumentIInv, AdapterIInv, CallTypes, IInv, TypeOK, ScanStands,
     Unwalked
<1>2. E \in Seq(Happenings) /\ WellFormed(E)
  <2>1. E \in Seq(Told(text)) /\ Told(text) \subseteq Happenings
    BY <1>1, DocumentTold DEF Told
  <2> QED
    BY <1>1, <2>1, DocumentEnds
<1>3. /\ Slots(text) \in Nat
      /\ Slots(text) = 0 \/ \E j \in 1..Len(E) : Slots(text) = Len(E[j].around)
  BY <1>1, MeasuresAre
<1> HIDE DEF E
<1>4. \A i \in 1..Len(E) : E[i].type = "open" => Len(E[i].around) < d
  BY <1>1 DEF Counted, Passed
<1>5. \A i \in 1..Len(E) : Len(E[i].around) <= d
  <2> HIDE DEF d
  <2> QED
    BY <1>1, <1>2, <1>4, OpeningsBound
<1>6. Slots(text) <= d
  BY <1>1, <1>3, <1>5
<1>7. NativeDepth = d
  BY DEF NativeDepth
<1> HIDE DEF d
<1> QED
  BY <1>1, <1>3, <1>6, <1>7 DEF TooDeep, NativeSlots

\* A missing key was repeated in the document.
LEMMA RepeatedCause ==
    ASSUME DocumentIInv, stage = "checking", pc = "next", frames = <<>>,
           MissesKeys(keys, object_keys)
    PROVE  Cause("repeated", text, limits, library)
<1> DEFINE E == Events(text)
<1>1. /\ keys = Count(E, "member") /\ object_keys = Count(tree, "member")
      /\ Replaced(library, E) = {} => tree = E
  BY MembersOf
<1>2. Replaced(library, E) # {} /\ library = "json-c"
  BY <1>1 DEF MissesKeys, DocumentIInv, TreeStands
<1>3. text \in Seq(Tokens) /\ IsDocument(text) /\ Counted(E)
  BY TreeIs
<1>4. E \in Seq(Happenings)
  <2>1. E \in Seq(Told(text)) /\ Told(text) \subseteq Happenings
    BY <1>3, DocumentTold DEF Told
  <2> QED
    BY <2>1
<1> HIDE DEF E
<1>5. \A e \in ToSet(E) : e.type = "member" => ~HasNul(e.key)
  <2> SUFFICES ASSUME NEW e \in ToSet(E), e.type = "member", HasNul(e.key) PROVE FALSE
    OBVIOUS
  <2>1. PICK i \in 1..Len(E) : E[i] = e
    BY <1>4 DEF ToSet
  <2>2. Policy(library).nul = "allowed"
    BY <1>3, <2>1 DEF Counted, Passed
  <2> QED
    BY <1>2, <2>2 DEF Policy
<1>6. PICK m \in Replaced(library, E) : TRUE
  BY <1>2
<1>7. /\ Replaced(library, E) \subseteq {x \in ToSet(E) : x.type = "member"}
      /\ \E n \in ToSet(E) : Repeat(m, n, LAMBDA j, k : j = k)
  BY <1>4, <1>5, <1>6, ReplacedIs
<1>8. \E x, n \in ToSet(E) : Repeat(x, n, LAMBDA j, k : j = k)
  BY <1>6, <1>7
<1> QED
  BY <1>8 DEF Cause, E

\* Every ground of refusal is one the document gives.
LEMMA StepCauseStands ==
    ASSUME DocumentIInv, [AdapterNext]_vars
    PROVE  CauseStands'
<1>1. /\ CauseStands /\ limits' = limits /\ library' = library
      /\ reason \notin {"depth", "arguments", "value", "numbers"}
  BY LimitsStay, LibraryStays DEF DocumentIInv, CauseStands
<1>2. ASSUME text' = text, reason' = reason, stage' # "new",
             \/ ground' = ground
             \/ ground' \in Plain
             \/ IsDocument(text) => Cause(ground', text, limits, library)
      PROVE  CauseStands'
  BY <1>1, <1>2, CauseKept
<1>3. ASSUME NEW t \in Texts, ParseFile(t) PROVE CauseStands'
  <2>1. ground' = None /\ reason' = reason /\ stage' # "new"
    BY <1>1, <1>3 DEF ParseFile, CauseStands, answer, walkVars, told
  <2>2. None \in Plain
    BY DEF Plain, Grounds, None
  <2>3. Cause(ground', text', limits', library')
    BY <2>1, <2>2, PlainCause
  <2> QED
    BY <1>1, <2>1, <2>3 DEF CauseStands
<1>4. CASE BeginLocale \/ ReadFile \/ BeginPreflight \/ AsciiInput \/ EndPreflight
           \/ Done \/ Return
  BY <1>2, <1>4 DEF BeginLocale, ReadFile, BeginPreflight, AsciiInput, EndPreflight,
     Done, Return, walkVars, told, call, answer, Error, Plain, Grounds
<1>5. CASE Scan
  BY <1>5, ScanCause
<1>6. CASE NativeParse
  <2>1. text' = text /\ reason' = reason /\ stage' # "new" /\ stage = "native"
    BY <1>6 DEF NativeParse, NativeFails, NativeSucceeds, call, walkVars, told
  <2>2. CASE NativeSucceeds
    BY <1>2, <2>1, <2>2 DEF NativeSucceeds, answer
  <2>3. CASE NativeFails
    <3>1. \/ ground' \in {"memory", "native"}
          \/ ~IsDocument(text)
          \/ IsDocument(text) /\ TooDeep /\ ground' = "native depth"
      BY <2>3 DEF NativeFails, Error
    <3>2. {"memory", "native"} \subseteq Plain
      BY DEF Plain, Grounds
    <3>3. IsDocument(text) /\ TooDeep => Cause("native depth", text, limits, library)
      BY <2>1, SlotsCause DEF Cause
    <3> QED
      BY <1>2, <2>1, <3>1, <3>2, <3>3
  <2> QED
    BY <1>6, <2>2, <2>3 DEF NativeParse
<1>7. CASE BeginWalk
  <2>1. /\ text' = text /\ ground' = ground /\ reason' = None
        /\ stage' # "new"
    BY <1>7 DEF BeginWalk, WalkBegins, call, answer
  <2>2. None \notin {"depth", "arguments", "value", "numbers"}
    BY DEF None
  <2> QED
    BY <1>1, <2>1, <2>2, CauseKept
<1>8. CASE WalkStep
  <2>1. /\ text' = text /\ ground' = ground /\ stage' # "new"
        /\ stage \in {"checking", "walking"}
    BY <1>8 DEF WalkStep, call, answer
  <2>2. GoesOn
    BY <1>8, WalkGoesOn
  <2>3. Control'
    BY StepWalks, StepIInv DEF DocumentIInv, AdapterIInv, IInv
  <2>4. reason' \notin {"depth", "arguments", "value", "numbers"}
    BY <2>2, <2>3 DEF GoesOn, Stopping, Control, None
  <2> QED
    BY <1>1, <2>1, <2>4, CauseKept
<1>9. CASE EndWalk
  <2>1. text' = text /\ stage' # "new" /\ stage \in {"checking", "walking"}
    BY <1>9 DEF EndWalk, call
  <2>2. reason' \in {None, "memory", "output", "native", "name"}
    BY <1>9, EndsFor
  <2>3. /\ reason' \notin {"depth", "arguments", "value", "numbers"}
        /\ reason' \in Plain
    BY <2>2 DEF None, Plain, Grounds
  <2>4. \/ ground' = ground
        \/ ground' \in Plain
        \/ IsDocument(text) => Cause(ground', text, limits, library)
    <3>1. \/ ground' = reason' \/ ground' = ground
          \/ /\ outcome' = "accepted" /\ stage = "checking"
             /\ MissesKeys(keys, object_keys) /\ ground' = "repeated"
      BY <1>9 DEF EndWalk, Error, answer
    <3>2. CASE /\ outcome' = "accepted" /\ stage = "checking"
               /\ MissesKeys(keys, object_keys) /\ ground' = "repeated"
      <4>1. pc = "next" /\ frames = <<>>
        BY <1>9, <3>2, EndedWell
      <4> QED
        BY <3>2, <4>1, RepeatedCause
    <3> QED
      BY <2>3, <3>1, <3>2
  <2> QED
    BY <1>1, <2>1, <2>3, <2>4, CauseKept
<1>10. CASE UNCHANGED vars
  BY <1>1, <1>10 DEF vars, walkVars, told, call, answer, CauseStands
<1> QED
  BY <1>3, <1>4, <1>5, <1>6, <1>7, <1>8, <1>9, <1>10 DEF AdapterNext, Steps

\* The agreement holds before a call.
LEMMA InitDocumentIInv == AdapterInit => DocumentIInv
<1> SUFFICES ASSUME AdapterInit PROVE DocumentIInv
  OBVIOUS
<1>1. AdapterIInv /\ Releasing
  BY InitAdapterIInv, InitReleasing
<1>2. stage = "new" /\ lines = <<>> /\ ground = None /\ reason = None
  BY DEF AdapterInit, Init
<1>3. ScanStands /\ TreeStands /\ WalkStands
  BY <1>2 DEF ScanStands, TreeStands, WalkStands, Unwalked
<1>4. PrintStands
  BY <1>2 DEF PrintStands
<1>5. CauseStands
  <2>1. Cause(None, text, limits, library)
    BY PlainCause DEF Plain, Grounds, None
  <2> QED
    BY <1>2, <2>1 DEF CauseStands, None
<1> QED
  BY <1>1, <1>3, <1>4, <1>5 DEF DocumentIInv

\* The preflight, the tree and the walk agree about the document.
THEOREM DocumentInvariant == AdapterSpec => []DocumentIInv
<1>1. DocumentIInv /\ [AdapterNext]_vars => DocumentIInv'
  <2> SUFFICES ASSUME DocumentIInv, [AdapterNext]_vars PROVE DocumentIInv'
    OBVIOUS
  <2>1. IInv' /\ PathStands'
    BY StepWalks, StepIInv, StepPath DEF DocumentIInv, AdapterIInv
  <2>2. AdapterIInv'
    BY <2>1, StepCall, StepRelease, StepScan, StepTree DEF DocumentIInv, AdapterIInv
  <2>3. Releasing'
    BY StepReleasing DEF DocumentIInv
  <2> QED
    BY <2>2, <2>3, StepScanStands, StepTreeStands, StepWalkStands, StepPrintStands,
       StepCauseStands DEF DocumentIInv
<1> QED
  BY <1>1, InitDocumentIInv, PTL DEF AdapterSpec

\* A text is accepted only if it is a document and all of it was printed.
THEOREM AcceptedComplete == AdapterSpec => []AcceptedIsComplete
<1>1. DocumentIInv => AcceptedIsComplete
  BY DEF DocumentIInv, PrintStands, AcceptedIsComplete
<1> QED
  BY <1>1, DocumentInvariant, PTL

\* A document is refused for a limit only if it is past it, and by the walk
\* for none but the length of a name.
THEOREM RefusedCorrect == AdapterSpec => []RefusedForCause
<1>1. DocumentIInv => RefusedForCause
  <2> SUFFICES ASSUME DocumentIInv PROVE RefusedForCause
    OBVIOUS
  <2>1. IsDocument(text) => Cause(ground, text, limits, library)
    BY DEF DocumentIInv, CauseStands
  <2>2. reason \notin {"depth", "arguments", "value", "numbers"}
    BY DEF DocumentIInv, CauseStands
  <2> QED
    BY <2>1, <2>2 DEF Cause, RefusedForCause
<1> QED
  BY <1>1, DocumentInvariant, PTL

=============================================================================
