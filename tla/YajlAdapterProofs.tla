-------------------------- MODULE YajlAdapterProofs ---------------------------
(***************************************************************************)
(* YajlAdapter, for any keys, limits, sizes and sequences of calls: its    *)
(* path, its memory, its diagnostics, and that it keeps the promise of     *)
(* ArgumentExtraction.                                                     *)
(***************************************************************************)
EXTENDS YajlAdapter, JsonEventsProofs

(***************************************************************************)
(* The inductive invariant.                                                *)
(***************************************************************************)

Defaults == [depth |-> DefaultLimit, args |-> DefaultLimit]

\* A call is in progress only on a document that can go on; a refusal that
\* left no message left YAJL in error, or the document complete.
Control ==
    /\ pc # "idle" => "handle" \in heap /\ ~completed /\ callback_error = None
    /\ in_file => "handle" \in heap
    /\ "handle" \in heap => Alive
    /\ (outcome = None) <=> ("handle" \notin heap)
    /\ outcome = "accepted" => completed
    /\ outcome = "refused" /\ callback_error = None =>
          \/ reason = "library" /\ status = "error"
          \/ reason = "output" /\ completed
    /\ heap = {} => limits = Defaults

\* What the frames remember.
Lengths == [i \in 1..Len(frames) |-> frames[i].prefix_length]
Restored == [i \in 1..Len(frames) |-> frames[i].key]

PathStands ==
    /\ current_depth = Len(frames) /\ Len(frames) = Len(doc.open)
    /\ callback_error # "unpaired"
    /\ Stands(doc.open, prefix, current_key, Lengths, Restored)
    /\ WantsValue(doc) => current_key = LabelOf(doc, FALSE)
    /\ WantsKey(doc) => InObject(doc)
    /\ \A i \in 1..Len(frames) : Len(frames[i].key) < JSON_STRING_SIZE

\* What is printed is what is counted, and a document starts with nothing.
Counted ==
    outcome = "open" =>
        /\ Len(lines) = IF silence THEN 0 ELSE current_arg_num
        /\ doc.open = <<>> /\ WantsValue(doc) => current_arg_num = 0 /\ lines = <<>>

IInv ==
    /\ TypeOK /\ Control /\ PathStands /\ MemorySafe /\ DiagnosticsAgree
    /\ Counted

(***************************************************************************)
(* Types.                                                                  *)
(***************************************************************************)

FrameRecords == [prefix_length : Nat, key : Seq(Byte)]

LEMMA ReturnTypes ==
    ASSUME TypeOK, NEW r \in {"ok", "error"}, Return(r)
    PROVE  /\ pc' \in {"idle", "parsing", "completing", "finishing"}
           /\ in_file' \in BOOLEAN /\ result' \in {"ok", "error"}
BY DEF TypeOK, Return

LEMMA RefusedTypes ==
    ASSUME TypeOK, NEW why \in Errors, Refused(why)
    PROVE  /\ outcome' \in {None, "open", "accepted", "refused"} /\ reason' \in Errors
           /\ flushed' \in Nat
BY DEF TypeOK, Refused

\* All that is left when what a callback may change has its types.
LEMMA CancelTypes ==
    ASSUME TypeOK, NEW why \in Errors, Cancel(why),
           UNCHANGED <<memory, path>> \/
             (/\ heap' \subseteq Blocks /\ saved' \in Int
              /\ prefix' \in Seq(Byte) /\ current_key' \in Seq(Byte)
              /\ frames' \in Seq(FrameRecords)
              /\ frame_capacity' \in Nat /\ current_depth' \in Int),
           current_arg_num' \in Nat,
           depth_limit_exceeded' \in BOOLEAN, arg_num_limit_exceeded' \in BOOLEAN
    PROVE  TypeOK'
<1>1. /\ pc' \in {"idle", "parsing", "completing", "finishing"}
      /\ in_file' \in BOOLEAN /\ result' \in {"ok", "error"}
  BY ReturnTypes DEF Cancel
<1>2. /\ outcome' \in {None, "open", "accepted", "refused"} /\ reason' \in Errors
      /\ flushed' \in Nat
  BY RefusedTypes DEF Cancel
<1>3. left' \in 0..MaxEvents /\ chunks' \in 0..MaxChunks
  BY YajlAssumption DEF Cancel, TypeOK
<1>4. /\ limits' \in [depth : DepthLimits, args : ArgumentLimits]
      /\ silence' \in BOOLEAN /\ utf8_remaining' \in BOOLEAN
      /\ doc' \in Positions /\ lines' \in Seq(Seq(Byte))
      /\ callback_error' \in Errors /\ completed' \in BOOLEAN
      /\ status' \in {"ok", "canceled", "error"}
  BY DEF Cancel, TypeOK, settings
<1>5. /\ heap' \subseteq Blocks /\ saved' \in Int
      /\ prefix' \in Seq(Byte) /\ current_key' \in Seq(Byte)
      /\ frames' \in Seq([prefix_length : Nat, key : Seq(Byte)])
      /\ frame_capacity' \in Nat /\ current_depth' \in Int
  BY DEF TypeOK, memory, path, FrameRecords
<1> QED
  BY <1>1, <1>2, <1>3, <1>4, <1>5 DEF TypeOK

LEMMA ContinueTypes ==
    ASSUME TypeOK, Continue, Running
    PROVE  /\ pc' \in {"idle", "parsing", "completing", "finishing"}
           /\ in_file' \in BOOLEAN /\ result' \in {"ok", "error"}
           /\ left' \in 0..MaxEvents /\ chunks' \in 0..MaxChunks
           /\ limits' \in [depth : DepthLimits, args : ArgumentLimits]
           /\ silence' \in BOOLEAN /\ utf8_remaining' \in BOOLEAN
           /\ callback_error' \in Errors /\ completed' \in BOOLEAN
           /\ status' \in {"ok", "canceled", "error"}
           /\ outcome' \in {None, "open", "accepted", "refused"}
           /\ reason' \in Errors /\ flushed' \in Nat
<1>1. left \in 0..MaxEvents /\ MaxEvents \in Nat /\ (pc = "parsing" => left > 0)
  BY YajlAssumption DEF TypeOK, Running, Parsing
<1>2. left' \in 0..MaxEvents
  BY <1>1 DEF Continue
<1> QED
  BY <1>2 DEF TypeOK, Continue, settings, guard, told

\* The name as it is written, and its length as it is counted.
LEMMA NameIs ==
    ASSUME prefix \in Seq(Byte), current_key \in Seq(Byte)
    PROVE  /\ WrittenName = JoinLabel(prefix, current_key)
           /\ WrittenName \in Seq(Byte)
           /\ Len(WrittenName) = NameLength(prefix, current_key)
<1>1. CASE prefix = <<>>
  BY <1>1 DEF WrittenName, JoinLabel, NameLength
<1>2. CASE prefix # <<>>
  <2>1. /\ <<Dot>> \in Seq(Byte) /\ Append(prefix, Dot) = prefix \o <<Dot>>
        /\ Append(prefix, Dot) \in Seq(Byte)
        /\ Len(Append(prefix, Dot)) = Len(prefix) + 1
    BY EventsAssumption
  <2> QED
    BY <1>2, <2>1 DEF WrittenName, JoinLabel, NameLength
<1> QED
  BY <1>1, <1>2

\* What enters and leaves the frames.
LEMMA StartSucceedsEffect ==
    ASSUME TypeOK, NEW array \in BOOLEAN, StartSucceeds(array)
    PROVE  /\ frames' \in Seq(FrameRecords) /\ Len(frames') = Len(frames) + 1
           /\ \A i \in 1..Len(frames) : frames'[i] = frames[i]
           /\ frames'[Len(frames) + 1].prefix_length = Len(prefix)
           /\ frames'[Len(frames) + 1].key = current_key
<1> DEFINE f == [prefix_length |-> Len(prefix), key |-> current_key]
<1>1. f \in FrameRecords
  BY DEF FrameRecords, TypeOK
<1>2. frames \in Seq(FrameRecords) /\ frames' = Append(frames, f)
  BY DEF StartSucceeds, SavedLength, TypeOK, FrameRecords
<1>3. f.prefix_length = Len(prefix) /\ f.key = current_key
  OBVIOUS
<1> HIDE DEF f
<1>4. /\ frames' \in Seq(FrameRecords) /\ Len(frames') = Len(frames) + 1
      /\ \A i \in 1..Len(frames) : frames'[i] = frames[i]
      /\ frames'[Len(frames) + 1] = f
  BY <1>1, <1>2
<1> QED
  BY <1>3, <1>4

LEMMA PoppedFrames ==
    ASSUME TypeOK, frames # <<>>, frames' = SubSeq(frames, 1, Len(frames) - 1)
    PROVE  /\ frames' \in Seq(FrameRecords) /\ Len(frames) >= 1
           /\ Len(frames') = Len(frames) - 1
           /\ \A i \in 1..Len(frames) - 1 : frames'[i] = frames[i]
<1> DEFINE n == Len(frames)
           s == SubSeq(frames, 1, n - 1)
<1>1. frames \in Seq(FrameRecords) /\ n \in Nat /\ n >= 1
  BY DEF TypeOK, FrameRecords
<1>2. /\ s \in Seq(FrameRecords) /\ Len(s) = n - 1
      /\ \A i \in 1..n - 1 : s[i] = frames[i]
  <2> HIDE DEF n
  <2>1. 1 \in Int /\ n - 1 \in Nat /\ \A i \in 1..n - 1 : frames[i] \in FrameRecords
    BY <1>1 DEF n
  <2>2. /\ s \in Seq(FrameRecords)
        /\ Len(s) = (IF 1 <= n - 1 THEN (n - 1) - 1 + 1 ELSE 0)
        /\ \A i \in 1..((n - 1) - 1 + 1) : s[i] = frames[1 + i - 1]
    BY <2>1, SubSeqProperties
  <2>3. Len(s) = n - 1
    BY <2>1, <2>2
  <2>4. ASSUME NEW i \in 1..n - 1 PROVE s[i] = frames[i]
    <3>1. i \in 1..((n - 1) - 1 + 1) /\ 1 + i - 1 = i
      BY <2>1
    <3> QED
      BY <2>2, <3>1
  <2> QED
    BY <2>2, <2>3, <2>4
<1> HIDE DEF s
<1>3. frames' = s
  BY DEF s
<1> QED
  BY <1>1, <1>2, <1>3

LEMMA CallbackTypes ==
    ASSUME TypeOK, PathStands,
           \/ \E k \in Keys : MapKey(k)
           \/ \E long \in BOOLEAN : Scalar(long)
           \/ \E array \in BOOLEAN : StartContainer(array)
           \/ EndContainer
    PROVE  TypeOK'
<1>0. /\ {"name", "value", "arguments", "depth", "memory", "output", "unpaired"}
           \subseteq Errors
      /\ depth_limit_exceeded \in BOOLEAN /\ arg_num_limit_exceeded \in BOOLEAN
      /\ current_arg_num \in Nat
  BY DEF Errors, TypeOK
<1>1. ASSUME NEW k \in Keys, MapKey(k) PROVE TypeOK'
  <2>1. CASE Cancel("name") /\ UNCHANGED path
    BY <1>0, <1>1, <2>1, CancelTypes DEF MapKey, flags
  <2>2. CASE /\ current_key' = k /\ doc' = AfterKey(doc, k) /\ Continue
             /\ UNCHANGED <<prefix, frames, frame_capacity, current_depth, lines>>
    <3>1. k \in Seq(Byte) /\ Running
      BY <1>1, YajlAssumption DEF MapKey, Running
    <3>2. doc' \in Positions
      BY <2>2, <3>1, AfterKeyType DEF TypeOK
    <3> QED
      BY <1>1, <2>2, <3>1, <3>2, ContinueTypes DEF MapKey, TypeOK, memory, flags
  <2> QED
    BY <1>1, <2>1, <2>2 DEF MapKey
<1>2. ASSUME NEW long \in BOOLEAN, Scalar(long) PROVE TypeOK'
  <2>1. CASE \E why \in Errors : Cancel(why)
    <3>1. current_arg_num' = current_arg_num \/ current_arg_num' = current_arg_num + 1
      BY <1>2, Zenon DEF Scalar
    <3>2. arg_num_limit_exceeded' = TRUE \/ UNCHANGED arg_num_limit_exceeded
      BY <1>2, Zenon DEF Scalar
    <3>3. current_arg_num' \in Nat
      BY <1>0, <3>1
    <3>4. arg_num_limit_exceeded' \in BOOLEAN
      BY <1>0, <3>2
    <3> QED
      BY <1>0, <1>2, <2>1, <3>3, <3>4, CancelTypes DEF Scalar
  <2>2. CASE /\ current_arg_num' = current_arg_num + 1
             /\ lines' = IF silence THEN lines ELSE Append(lines, WrittenName)
             /\ doc' = AfterValue(doc)
             /\ Continue
             /\ UNCHANGED arg_num_limit_exceeded
    <3>1. WrittenName \in Seq(Byte) /\ lines \in Seq(Seq(Byte))
      BY NameIs DEF TypeOK
    <3>2. lines' \in Seq(Seq(Byte)) /\ doc' \in Positions
      BY <2>2, <3>1, AfterValueType DEF TypeOK
    <3>3. current_arg_num' \in Nat /\ Running
      BY <1>0, <1>2, <2>2 DEF Scalar
    <3> QED
      BY <1>2, <2>2, <3>2, <3>3, ContinueTypes DEF Scalar, TypeOK, memory, path
  <2> QED
    BY <1>0, <1>2, <2>1, <2>2 DEF Scalar
<1>3. ASSUME NEW array \in BOOLEAN, StartContainer(array) PROVE TypeOK'
  <2>1. CASE StartOverLimit(array)
    <3>1. /\ UNCHANGED <<memory, path>> /\ current_arg_num' \in Nat
          /\ depth_limit_exceeded' \in BOOLEAN /\ arg_num_limit_exceeded' \in BOOLEAN
      BY <1>0, <2>1 DEF StartOverLimit
    <3>2. Cancel("depth") \/ Cancel("name")
      BY <2>1 DEF StartOverLimit
    <3> QED
      BY <1>0, <3>1, <3>2, CancelTypes
  <2>2. /\ NewCapacity(frame_capacity) \in Nat
        /\ heap \cup {"frames"} \subseteq Blocks
    BY YajlAssumption DEF NewCapacity, TypeOK, Blocks
  <2>3. CASE StartFails(array)
    <3>1. /\ heap' \subseteq Blocks /\ saved' \in Int
          /\ prefix' \in Seq(Byte) /\ current_key' \in Seq(Byte)
          /\ frames' \in Seq(FrameRecords)
          /\ frame_capacity' \in Nat /\ current_depth' \in Int
      BY <2>2, <2>3 DEF StartFails, TypeOK, memory, path, FrameRecords
    <3> QED
      BY <1>0, <2>3, <3>1, CancelTypes DEF StartFails, flags
  <2>4. CASE StartSucceeds(array)
    <3>1. frames' \in Seq([prefix_length : Nat, key : Seq(Byte)])
      BY <2>4, StartSucceedsEffect DEF FrameRecords
    <3>2. prefix' \in Seq(Byte) /\ current_key' \in Seq(Byte)
      BY <2>4, EventsAssumption, NameIs DEF StartSucceeds, TypeOK
    <3>3. /\ heap' \subseteq Blocks /\ frame_capacity' \in Nat
          /\ saved' \in Int /\ current_depth' \in Int
      BY <2>2, <2>4 DEF StartSucceeds, TypeOK
    <3>4. doc' \in Positions
      BY <2>4, AfterOpenType DEF StartSucceeds, TypeOK
    <3>5. Running /\ Continue
      BY <1>3, <2>4 DEF StartContainer, StartSucceeds, Running
    <3> QED
      BY <2>4, <3>1, <3>2, <3>3, <3>4, <3>5, ContinueTypes DEF StartSucceeds, TypeOK, flags
  <2> QED
    BY <1>3, <2>1, <2>3, <2>4 DEF StartContainer
<1>4. CASE EndContainer
  <2>1. CASE frames = <<>>
    BY <1>0, <1>4, <2>1, CancelTypes DEF EndContainer, flags, memory
  <2>2. CASE frames # <<>>
    <3>1. /\ doc' = AfterClose(doc) /\ Continue /\ Running /\ doc.open # <<>>
          /\ frames' = SubSeq(frames, 1, Len(frames) - 1)
          /\ prefix' = SubSeq(prefix, 1, frames[Len(frames)].prefix_length)
          /\ current_key' = frames[Len(frames)].key
      BY <1>4, <2>2 DEF EndContainer, Running, MayClose, InArray, InObject
    <3>2. /\ frames' \in Seq([prefix_length : Nat, key : Seq(Byte)])
          /\ Len(frames) >= 1
      BY <2>2, <3>1, PoppedFrames DEF FrameRecords
    <3>3. doc' \in Positions
      BY <3>1, AfterCloseType DEF TypeOK
    <3>4. prefix' \in Seq(Byte) /\ current_key' \in Seq(Byte)
      <4> DEFINE f == frames[Len(frames)]
      <4>1. frames \in Seq(FrameRecords) /\ prefix \in Seq(Byte)
        BY DEF TypeOK, FrameRecords
      <4>2. f \in FrameRecords
        BY <3>2, <4>1
      <4> HIDE DEF f
      <4>3. f.prefix_length \in 0..Len(prefix) /\ f.key \in Seq(Byte)
        <5>1. Len(frames) \in 1..Len(frames) /\ Len(frames) = Len(doc.open)
          BY <3>2, <4>1 DEF PathStands
        <5>2. Lengths[Len(frames)] = f.prefix_length
          BY <5>1 DEF Lengths, f
        <5> QED
          BY <4>2, <5>1, <5>2 DEF FrameRecords, PathStands, Stands, Cuts
      <4>4. SubSeq(prefix, 1, f.prefix_length) \in Seq(Byte)
        BY <4>1, <4>3
      <4> QED
        BY <3>1, <4>3, <4>4 DEF f
    <3>5. saved' \in Int /\ current_depth' \in Int /\ heap' \subseteq Blocks
          /\ frame_capacity' \in Nat
      BY <1>4, <2>2 DEF EndContainer, TypeOK, Shallower
    <3> QED
      BY <1>4, <2>2, <3>1, <3>2, <3>3, <3>4, <3>5, ContinueTypes
         DEF EndContainer, TypeOK, flags
  <2> QED
    BY <2>1, <2>2
<1> QED
  BY <1>1, <1>2, <1>3, <1>4

\* What the chunk, file and final calls leave of the types.
StableTypes ==
    /\ heap \subseteq Blocks /\ saved \in Int
    /\ prefix \in Seq(Byte) /\ current_key \in Seq(Byte)
    /\ frames \in Seq(FrameRecords)
    /\ frame_capacity \in Nat /\ current_depth \in Int
    /\ limits \in [depth : DepthLimits, args : ArgumentLimits]
    /\ silence \in BOOLEAN
    /\ current_arg_num \in Nat
    /\ depth_limit_exceeded \in BOOLEAN /\ arg_num_limit_exceeded \in BOOLEAN
    /\ doc \in Positions /\ lines \in Seq(Seq(Byte))

CallTypes ==
    /\ callback_error \in Errors /\ completed \in BOOLEAN
    /\ status \in {"ok", "canceled", "error"} /\ utf8_remaining \in BOOLEAN
    /\ pc \in {"idle", "parsing", "completing", "finishing"}
    /\ in_file \in BOOLEAN /\ result \in {"ok", "error"}
    /\ left \in 0..MaxEvents /\ chunks \in 0..MaxChunks
    /\ outcome \in {None, "open", "accepted", "refused"}
    /\ reason \in Errors /\ flushed \in Nat

LEMMA TypeParts ==
    /\ TypeOK <=> StableTypes /\ CallTypes
    /\ TypeOK' <=> StableTypes' /\ CallTypes'
BY DEF TypeOK, StableTypes, CallTypes, FrameRecords

LEMMA StableKept ==
    ASSUME StableTypes,
           UNCHANGED <<memory, path, settings, current_arg_num, flags, doc, lines>>
    PROVE  StableTypes'
BY DEF StableTypes, memory, path, settings, flags

\* The steps of calls that report no event.
CallStep ==
    \/ ProcessChunk \/ ChunkDone \/ ChunkFails
    \/ Complete \/ CompleteDone \/ CompleteFails
    \/ FileRefused \/ FileChunk \/ FileReadError \/ FileComplete

LEMMA CallStepKeeps ==
    ASSUME CallStep
    PROVE  /\ UNCHANGED <<memory, path, settings, current_arg_num, flags, doc, lines>>
           /\ UNCHANGED <<prefix, current_key, frames, current_depth, heap, saved>>
BY DEF CallStep, ProcessChunk, CallRefused, CallAgainAfterError, ChunkRefused,
       ChunkParsed, ChunkDone, ChunkFails, Complete, CompleteSteps,
       CompleteTruncated, CompleteStarted, CompleteDone, CompleteFails,
       FileRefused, FileChunk, FileReadError, FileComplete, memory, path

LEMMA CallStepTypes ==
    ASSUME TypeOK, CallStep
    PROVE  TypeOK'
<1>0. StableTypes' /\ CallTypes
  BY TypeParts, CallStepKeeps, StableKept
<1>1. {"bytes", "library", "output"} \subseteq Errors /\ 0 \in 0..MaxEvents
  BY YajlAssumption DEF Errors
<1>2. ASSUME CallRefused \/ CallAgainAfterError, UNCHANGED chunks PROVE CallTypes'
  BY <1>0, <1>2, ReturnTypes DEF CallRefused, CallAgainAfterError, CallTypes, guard,
     told, input
<1>3. ASSUME ChunkRefused, chunks' \in 0..MaxChunks PROVE CallTypes'
  BY <1>0, <1>1, <1>3, ReturnTypes, RefusedTypes DEF ChunkRefused, CallTypes
<1>4. ASSUME ChunkParsed, chunks' \in 0..MaxChunks PROVE CallTypes'
  BY <1>0, <1>4 DEF ChunkParsed, CallTypes, guard, told
<1>5. ASSUME CompleteSteps PROVE CallTypes'
  <2>1. CASE CallRefused \/ CallAgainAfterError
    BY <1>2, <2>1 DEF CallRefused, CallAgainAfterError, input
  <2>2. CASE CompleteTruncated
    BY <1>0, <1>1, <2>2, ReturnTypes, RefusedTypes DEF CompleteTruncated, CallTypes, input
  <2>3. CASE CompleteStarted
    BY <1>0, <2>3 DEF CompleteStarted, CallTypes, guard, told, input
  <2> QED
    BY <1>5, <2>1, <2>2, <2>3 DEF CompleteSteps
<1>6. CASE ProcessChunk
  <2>1. chunks' \in 0..MaxChunks
    BY <1>0, <1>6 DEF ProcessChunk, CallTypes
  <2>2. CallTypes'
    BY <1>2, <1>3, <1>4, <1>6, <2>1 DEF ProcessChunk
  <2> QED
    BY <1>0, <2>2, TypeParts
<1>7. CASE ChunkDone
  <2>1. CallTypes'
    BY <1>0, <1>7, ReturnTypes DEF ChunkDone, CallTypes, guard, told, input
  <2> QED
    BY <1>0, <2>1, TypeParts
<1>8. CASE ChunkFails
  <2>1. CallTypes'
    BY <1>0, <1>1, <1>8, ReturnTypes, RefusedTypes DEF ChunkFails, CallTypes
  <2> QED
    BY <1>0, <2>1, TypeParts
<1>9. CASE Complete \/ FileComplete
  <2>1. CallTypes'
    BY <1>5, <1>9 DEF Complete, FileComplete
  <2> QED
    BY <1>0, <2>1, TypeParts
<1>10. CASE CompleteDone
  <2>1. (\E r \in {"ok", "error"} : Return(r)) /\ completed' = TRUE
        /\ UNCHANGED <<callback_error, status, utf8_remaining, input>>
    BY <1>10 DEF CompleteDone
  <2>2. /\ outcome' \in {None, "open", "accepted", "refused"}
        /\ reason' \in Errors
    BY <1>0, <1>1, <1>10, RefusedTypes DEF CompleteDone, CallTypes
  <2>3. flushed' \in Nat
    <3>1. flushed \in Nat /\ Len(lines) \in Nat
      BY <1>0, TypeParts DEF StableTypes, CallTypes
    <3>2. FlushDone \/ flushed' = flushed
      BY <1>10 DEF CompleteDone, Refused
    <3> QED
      BY <3>1, <3>2 DEF FlushDone
  <2>4. CallTypes'
    BY <1>0, <2>1, <2>2, <2>3, ReturnTypes DEF CallTypes, input
  <2> QED
    BY <1>0, <2>4, TypeParts
<1>11. CASE CompleteFails
  <2>1. CallTypes'
    BY <1>0, <1>1, <1>11, ReturnTypes, RefusedTypes DEF CompleteFails, CallTypes, input
  <2> QED
    BY <1>0, <2>1, TypeParts
<1>12. CASE FileRefused \/ FileReadError
  <2>1. CallTypes'
    BY <1>0, <1>12 DEF FileRefused, FileReadError, CallTypes, guard, told, input
  <2> QED
    BY <1>0, <2>1, TypeParts
<1>13. CASE FileChunk
  <2>1. chunks' \in 0..MaxChunks
    BY <1>0, <1>13, YajlAssumption DEF FileChunk, CallTypes, Consumed
  <2>2. CallTypes'
    BY <1>3, <1>4, <1>13, <2>1 DEF FileChunk
  <2> QED
    BY <1>0, <2>2, TypeParts
<1> QED
  BY <1>6, <1>7, <1>8, <1>9, <1>10, <1>11, <1>12, <1>13 DEF CallStep

\* The steps that begin a document, or a life of the parser, or end one.
LEMMA ClearTypes ==
    ASSUME TypeOK, ClearState, NEW o \in {None, "open"}, Forget(o)
    PROVE  /\ saved' \in Int /\ prefix' \in Seq(Byte) /\ current_key' \in Seq(Byte)
           /\ frames' \in Seq(FrameRecords) /\ current_depth' \in Int
           /\ current_arg_num' \in Nat
           /\ depth_limit_exceeded' \in BOOLEAN /\ arg_num_limit_exceeded' \in BOOLEAN
           /\ callback_error' \in Errors /\ completed' \in BOOLEAN
           /\ status' \in {"ok", "canceled", "error"} /\ utf8_remaining' \in BOOLEAN
           /\ doc' \in Positions /\ lines' \in Seq(Seq(Byte))
           /\ outcome' \in {None, "open", "accepted", "refused"} /\ reason' \in Errors
           /\ flushed' \in Nat
<1>1. Start \in Positions
  <2>1. <<>> \in Seq(Containers) /\ <<>> \in Seq(Byte)
    OBVIOUS
  <2> QED
    BY <2>1 DEF Start, Positions
<1>2. saved \in Int /\ Len(frames) \in Nat
  BY DEF TypeOK
<1>3. <<>> \in Seq(Byte) /\ <<>> \in Seq(FrameRecords) /\ <<>> \in Seq(Seq(Byte))
      /\ None \in Errors
  BY DEF Errors
<1>4. saved' \in Int /\ current_depth' \in Int /\ current_arg_num' \in Nat
  BY <1>2 DEF ClearState, ClearCounters
<1>5. /\ depth_limit_exceeded' \in BOOLEAN /\ arg_num_limit_exceeded' \in BOOLEAN
      /\ completed' \in BOOLEAN /\ utf8_remaining' \in BOOLEAN
  BY DEF ClearState, ClearFlags
<1>6. /\ prefix' \in Seq(Byte) /\ current_key' \in Seq(Byte)
      /\ frames' \in Seq(FrameRecords)
      /\ callback_error' \in Errors /\ status' \in {"ok", "canceled", "error"}
  BY <1>3 DEF ClearState
<1>7. /\ doc' \in Positions /\ lines' \in Seq(Seq(Byte))
      /\ outcome' \in {None, "open", "accepted", "refused"} /\ reason' \in Errors
      /\ flushed' \in Nat
  BY <1>1, <1>3 DEF Forget
<1> QED
  BY <1>4, <1>5, <1>6, <1>7

LEMMA DefaultsType == Defaults \in [depth : DepthLimits, args : ArgumentLimits]
BY YajlAssumption DEF Defaults

LEMMA InitTypes == Init => TypeOK
<1>1. Start \in Positions
  <2>1. <<>> \in Seq(Containers) /\ <<>> \in Seq(Byte)
    OBVIOUS
  <2> QED
    BY <2>1 DEF Start, Positions
<1>2. /\ <<>> \in Seq(Byte) /\ <<>> \in Seq(FrameRecords) /\ <<>> \in Seq(Seq(Byte))
      /\ None \in Errors /\ 0 \in 0..MaxEvents /\ 0 \in 0..MaxChunks
  BY YajlAssumption DEF Errors
<1>3. ASSUME Init PROVE StableTypes
  <2>1. limits \in [depth : DepthLimits, args : ArgumentLimits]
    BY <1>3, DefaultsType DEF Init, Defaults
  <2>2. /\ heap = {} /\ saved = 0 /\ prefix = <<>> /\ current_key = <<>>
        /\ frames = <<>> /\ frame_capacity = 0 /\ current_depth = 0
        /\ current_arg_num = 0 /\ doc = Start /\ lines = <<>>
    BY <1>3 DEF Init
  <2>3. /\ silence \in BOOLEAN
        /\ depth_limit_exceeded \in BOOLEAN /\ arg_num_limit_exceeded \in BOOLEAN
    BY <1>3 DEF Init
  <2> QED
    BY <1>1, <1>2, <2>1, <2>2, <2>3 DEF StableTypes
<1>4. ASSUME Init PROVE CallTypes
  BY <1>2, <1>4 DEF Init, CallTypes
<1> QED
  BY <1>3, <1>4, TypeParts

\* The steps that clear the state, and what they leave in the heap.
Clearing == YajlInit \/ YajlCleanup \/ FileOpened

LEMMA ClearingEffect ==
    ASSUME TypeOK, Clearing
    PROVE  /\ ClearState /\ (Forget(None) \/ Forget("open"))
           /\ heap' \subseteq Blocks
           /\ frame_capacity' \in Nat /\ pc' = pc
<1>1. CASE YajlInit
  <2>1. heap' \subseteq Blocks
    BY <1>1 DEF YajlInit, Released, Blocks
  <2>2. Forget(None) \/ Forget("open")
    <3>1. PICK got \in SUBSET {"p", "prefix", "current_key", "handle"} :
                   Forget(IF "handle" \in got THEN "open" ELSE None)
      BY <1>1, Zenon DEF YajlInit
    <3>2. CASE "handle" \in got
      BY <3>1, <3>2
    <3>3. CASE "handle" \notin got
      BY <3>1, <3>3
    <3> QED
      BY <3>2, <3>3
  <2> QED
    BY <1>1, <2>1, <2>2 DEF YajlInit, TypeOK
<1>2. CASE YajlCleanup
  BY <1>2 DEF YajlCleanup, Released, TypeOK
<1>3. CASE FileOpened
  BY <1>3 DEF FileOpened, TypeOK, Blocks
<1> QED
  BY <1>1, <1>2, <1>3 DEF Clearing

LEMMA ClearingTypes ==
    ASSUME TypeOK, Clearing
    PROVE  TypeOK'
<1>1. /\ ClearState /\ (Forget(None) \/ Forget("open"))
      /\ heap' \subseteq Blocks /\ frame_capacity' \in Nat /\ pc' = pc
  BY ClearingEffect
<1>2. /\ saved' \in Int /\ prefix' \in Seq(Byte) /\ current_key' \in Seq(Byte)
      /\ frames' \in Seq(FrameRecords) /\ current_depth' \in Int
      /\ current_arg_num' \in Nat
      /\ depth_limit_exceeded' \in BOOLEAN /\ arg_num_limit_exceeded' \in BOOLEAN
      /\ callback_error' \in Errors /\ completed' \in BOOLEAN
      /\ status' \in {"ok", "canceled", "error"} /\ utf8_remaining' \in BOOLEAN
      /\ doc' \in Positions /\ lines' \in Seq(Seq(Byte))
      /\ outcome' \in {None, "open", "accepted", "refused"} /\ reason' \in Errors
      /\ flushed' \in Nat
  BY <1>1, ClearTypes
<1>3. /\ limits' \in [depth : DepthLimits, args : ArgumentLimits]
      /\ silence' \in BOOLEAN
  BY DefaultsType DEF Clearing, YajlInit, YajlCleanup, FileOpened, TypeOK, settings,
     Defaults
<1>4. in_file' \in BOOLEAN
  BY DEF Clearing, YajlInit, YajlCleanup, FileOpened, TypeOK
<1>5. result' \in {"ok", "error"}
  <2>1. CASE YajlInit
    BY <2>1, Zenon DEF YajlInit
  <2>2. CASE YajlCleanup \/ FileOpened
    BY <2>2 DEF YajlCleanup, FileOpened, TypeOK
  <2> QED
    BY <2>1, <2>2 DEF Clearing
<1>6. left' \in 0..MaxEvents /\ chunks' \in 0..MaxChunks
  BY DEF Clearing, YajlInit, YajlCleanup, FileOpened, TypeOK, input
<1>7. pc' \in {"idle", "parsing", "completing", "finishing"}
  BY <1>1 DEF TypeOK
<1> QED
  BY <1>1, <1>2, <1>3, <1>4, <1>5, <1>6, <1>7, TypeParts DEF StableTypes, CallTypes

LEMMA ConfigureTypes ==
    ASSUME TypeOK, Configure
    PROVE  TypeOK'
BY DEF TypeOK, Configure, memory, path, flags, guard, input, told

\* Every step is of one of these kinds.
Callback ==
    \/ \E k \in Keys : MapKey(k)
    \/ \E long \in BOOLEAN : Scalar(long)
    \/ \E array \in BOOLEAN : StartContainer(array)
    \/ EndContainer

LEMMA StepKinds ==
    Next <=> Callback \/ CallStep \/ Clearing \/ Configure
BY DEF Next, Inside, Client, Callback, CallStep, Clearing

LEMMA StepTypes ==
    ASSUME TypeOK, PathStands, [Next]_vars
    PROVE  TypeOK'
<1>1. CASE Callback
  BY <1>1, CallbackTypes DEF Callback
<1>2. CASE UNCHANGED vars
  BY <1>2 DEF TypeOK, vars, memory, path, settings, flags, guard, input, told
<1> QED
  BY <1>1, <1>2, StepKinds, CallStepTypes, ClearingTypes, ConfigureTypes

(***************************************************************************)
(* Control.                                                                *)
(***************************************************************************)

\* A call in progress is about a document that is still open.
LEMMA OpenWhileRunning ==
    ASSUME Control, TypeOK, pc # "idle", status = "ok"
    PROVE  outcome = "open" /\ Alive
BY DEF Control, TypeOK, Alive, None

\* A refusal in a callback.
LEMMA CancelControl ==
    ASSUME Control, TypeOK, NEW why \in Errors \ {None}, Running, Cancel(why),
           heap \subseteq heap', heap' \subseteq heap \cup {"frames"}
    PROVE  Control'
<1>1. /\ outcome = "open" /\ "handle" \in heap /\ Alive
  BY OpenWhileRunning DEF Running, Parsing, Control
<1>2. /\ pc' = "idle" /\ in_file' = FALSE /\ callback_error' # None
      /\ outcome' = "refused" /\ limits' = limits
  BY <1>1 DEF Cancel, Return, Refused, settings
<1>3. "handle" \in heap' /\ "p" \in heap' /\ heap' # {}
  BY <1>1 DEF Alive
<1> QED
  BY <1>2, <1>3 DEF Control, Alive, None

LEMMA StepControl ==
    ASSUME IInv, [Next]_vars
    PROVE  Control'
<1>0. Control /\ TypeOK /\ PathStands /\ MemorySafe
  BY DEF IInv
<1>1. ASSUME Running, Continue, heap \subseteq heap', heap' \subseteq heap \cup {"frames"}
      PROVE  Control'
  <2>1. /\ outcome = "open" /\ "handle" \in heap /\ Alive /\ pc # "idle"
    BY <1>0, <1>1, OpenWhileRunning DEF Running, Parsing, Control
  <2>2. /\ pc' # "idle" /\ in_file' = in_file /\ outcome' = outcome /\ limits' = limits
        /\ completed' = completed /\ callback_error' = callback_error
    BY <1>1, <2>1 DEF Continue, settings, guard, told
  <2>3. "handle" \in heap' /\ "p" \in heap'
    BY <1>1, <2>1 DEF Alive
  <2> QED
    BY <1>0, <2>1, <2>2, <2>3 DEF Control, Alive, None
<1>c. {"name", "value", "arguments", "depth", "memory", "output", "unpaired"}
         \subseteq Errors \ {None}
  BY DEF Errors, None
<1>2. ASSUME NEW k \in Keys, MapKey(k) PROVE Control'
  BY <1>0, <1>1, <1>2, <1>c, CancelControl DEF MapKey, memory, Running
<1>3. ASSUME NEW long \in BOOLEAN, Scalar(long) PROVE Control'
  <2>1. Running /\ heap' = heap
    BY <1>3 DEF Scalar, memory
  <2>2. Continue \/ \E why \in Errors \ {None} : Cancel(why)
    BY <1>3, <1>c DEF Scalar
  <2> QED
    BY <1>0, <1>1, <2>1, <2>2, CancelControl
<1>4. ASSUME NEW array \in BOOLEAN, StartContainer(array) PROVE Control'
  <2>1. Running
    BY <1>4 DEF StartContainer, Running
  <2>2. heap \subseteq heap' /\ heap' \subseteq heap \cup {"frames"}
    BY <1>4 DEF StartContainer, StartOverLimit, StartFails, StartSucceeds, memory
  <2>3. Continue \/ Cancel("depth") \/ Cancel("name") \/ Cancel("memory")
    BY <1>4 DEF StartContainer, StartOverLimit, StartFails, StartSucceeds
  <2> QED
    BY <1>0, <1>1, <1>c, <2>1, <2>2, <2>3, CancelControl
<1>5. CASE EndContainer
  <2>1. Running /\ heap' = heap /\ (Continue \/ Cancel("unpaired"))
    BY <1>5 DEF EndContainer, Running
  <2> QED
    BY <1>0, <1>1, <1>c, <2>1, CancelControl
<1>6. ASSUME CallRefused \/ CallAgainAfterError PROVE Control'
  BY <1>0, <1>6 DEF CallRefused, CallAgainAfterError, Return, Control, Alive,
     memory, settings, guard, told
<1>7. ASSUME ChunkRefused PROVE Control'
  BY <1>0, <1>7 DEF ChunkRefused, Usable, Return, Refused, Control, Alive, None,
     memory, settings
<1>8. ASSUME ChunkParsed PROVE Control'
  BY <1>0, <1>8 DEF ChunkParsed, Usable, Control, Alive, memory, settings, guard, told
<1>9. ASSUME CompleteSteps PROVE Control'
  <2>1. CASE CompleteTruncated
    BY <1>0, <2>1 DEF CompleteTruncated, Usable, Return, Refused, Control, Alive, None,
       memory, settings
  <2>2. CASE CompleteStarted
    BY <1>0, <2>2 DEF CompleteStarted, Usable, Control, Alive, memory, settings, guard, told
  <2> QED
    BY <1>6, <1>9, <2>1, <2>2 DEF CompleteSteps
<1>10. CASE ChunkDone
  BY <1>0, <1>10 DEF ChunkDone, Return, Control, Alive, memory, settings, guard, told
<1>11. CASE ChunkFails
  BY <1>0, <1>11 DEF ChunkFails, Return, Refused, Control, Alive, None, memory, settings
<1>12. CASE CompleteDone
  BY <1>0, <1>12 DEF CompleteDone, Finishing, Return, Refused, Control, Alive, None,
     memory, settings
<1>13. CASE CompleteFails
  BY <1>0, <1>13 DEF CompleteFails, Finishing, Return, Refused, Control, Alive, None,
     memory, settings
<1>14. CASE FileRefused \/ FileReadError
  BY <1>0, <1>14 DEF FileRefused, FileReadError, Control, Alive, memory, settings,
     guard, told
<1>15. CASE CallStep
  BY <1>6, <1>7, <1>8, <1>9, <1>10, <1>11, <1>12, <1>13, <1>14, <1>15
     DEF CallStep, ProcessChunk, Complete, FileChunk, FileComplete
<1>16. CASE YajlInit
  <2>1. PICK got \in SUBSET {"p", "prefix", "current_key", "handle"} :
            /\ "p" \in got \/ got = {}
            /\ heap' = IF "handle" \in got THEN got ELSE Released(got)
            /\ Forget(IF "handle" \in got THEN "open" ELSE None)
    BY <1>16 DEF YajlInit
  <2>2. /\ limits' = Defaults /\ callback_error' = None /\ completed' = FALSE
        /\ pc' = pc /\ in_file' = in_file /\ heap = {}
    BY <1>16 DEF YajlInit, ClearState, Defaults
  <2>3. pc = "idle" /\ ~in_file
    BY <1>0, <2>2 DEF Control
  <2>4. CASE "handle" \in got
    <3>1. heap' = got /\ outcome' = "open" /\ "p" \in heap'
      BY <2>1, <2>4 DEF Forget
    <3> QED
      BY <1>0, <2>2, <2>3, <2>4, <3>1 DEF Control, Alive, TypeOK, None
  <2>5. CASE "handle" \notin got
    <3>1. heap' = {} /\ outcome' = None
      BY <2>1, <2>5 DEF Forget, Released
    <3> QED
      BY <1>0, <2>2, <2>3, <3>1 DEF Control, Alive, TypeOK, None
  <2> QED
    BY <2>4, <2>5
<1>17. CASE YajlCleanup
  <2>1. heap' = {} /\ outcome' = None /\ limits' = Defaults /\ pc = "idle" /\ ~in_file
        /\ pc' = pc /\ in_file' = in_file
    BY <1>0, <1>17 DEF YajlCleanup, Forget, Released, TypeOK, Blocks, Ready, Defaults
  <2> QED
    BY <1>0, <2>1 DEF Control, Alive, TypeOK, None
<1>18. CASE FileOpened
  <2>1. /\ pc = "idle" /\ ~in_file /\ Alive /\ pc' = pc
        /\ limits' = limits
    BY <1>18 DEF FileOpened, Ready, settings
  <2>2. CASE heap' = heap \cup {"handle"} /\ Forget("open")
    BY <1>0, <2>1, <2>2 DEF Control, Alive, Forget, None
  <2>3. CASE heap' = heap \ {"handle"} /\ Forget(None) /\ UNCHANGED in_file
    BY <1>0, <2>1, <2>3 DEF Control, Alive, Forget, None
  <2> QED
    BY <1>18, <2>2, <2>3 DEF FileOpened
<1>19. CASE Configure
  <2>1. heap # {} /\ UNCHANGED <<heap, pc, in_file, completed, callback_error, status,
                                 outcome, reason>>
    BY <1>19 DEF Configure, Ready, Alive, memory, guard, told
  <2> QED
    BY <1>0, <2>1 DEF Control, Alive
<1>20. CASE UNCHANGED vars
  BY <1>0, <1>20 DEF vars, memory, settings, guard, told, Control, Alive
<1> QED
  BY <1>2, <1>3, <1>4, <1>5, <1>15, <1>16, <1>17, <1>18, <1>19, <1>20, StepKinds
     DEF Callback, Clearing

(***************************************************************************)
(* The path.                                                               *)
(***************************************************************************)

LEMMA PathKept ==
    ASSUME PathStands, UNCHANGED <<prefix, current_key, frames, current_depth, doc>>,
           callback_error' # "unpaired"
    PROVE  PathStands'
<1>1. Lengths' = Lengths /\ Restored' = Restored
  BY DEF Lengths, Restored
<1> QED
  BY <1>1 DEF PathStands

LEMMA LabelAtStart == LabelOf(Start, FALSE) = <<>>
BY DEF Start, LabelOf, InArray, InObject

LEMMA EmptyPath ==
    ASSUME frames = <<>>, prefix = <<>>, current_key = <<>>, current_depth = 0,
           callback_error = None, doc = Start
    PROVE  PathStands
<1>1. Stands(doc.open, prefix, current_key, Lengths, Restored)
  BY StandsAtStart
<1>2. Len(frames) = 0 /\ Len(doc.open) = 0 /\ ~WantsKey(doc) /\ 1..Len(frames) = {}
  BY DEF Start, WantsKey
<1>3. current_key = LabelOf(doc, FALSE)
  BY LabelAtStart
<1>4. \A i \in 1..Len(frames) : Len(frames[i].key) < JSON_STRING_SIZE
  BY <1>2
<1> QED
  BY <1>1, <1>2, <1>3, <1>4 DEF PathStands, None

\* What the frames remembered below a push, or below a pop.
LEMMA Remembered ==
    ASSUME Len(frames) \in Nat, Len(frames') \in Nat,
           NEW n \in Nat, n <= Len(frames), n <= Len(frames'),
           \A i \in 1..n : frames'[i] = frames[i]
    PROVE  /\ \A i \in 1..n : Lengths'[i] = Lengths[i]
           /\ \A i \in 1..n : Restored'[i] = Restored[i]
BY DEF Lengths, Restored

LEMMA StepPath ==
    ASSUME IInv, [Next]_vars
    PROVE  PathStands'
<1>0. /\ TypeOK /\ PathStands /\ MemorySafe /\ Control
      /\ doc \in Positions /\ prefix \in Seq(Byte) /\ current_key \in Seq(Byte)
      /\ frames \in Seq(FrameRecords) /\ Len(frames) \in Nat
      /\ Len(doc.open) = Len(frames) /\ current_depth = Len(frames)
      /\ callback_error # "unpaired"
  <2>1. TypeOK /\ PathStands /\ MemorySafe /\ Control
    BY DEF IInv
  <2>2. /\ doc \in Positions /\ prefix \in Seq(Byte) /\ current_key \in Seq(Byte)
        /\ frames \in Seq(FrameRecords)
    BY <2>1 DEF TypeOK, FrameRecords
  <2>3. /\ Len(doc.open) = Len(frames) /\ current_depth = Len(frames)
        /\ callback_error # "unpaired"
    BY <2>1 DEF PathStands
  <2> QED
    BY <2>1, <2>2, <2>3
<1>f. frames = <<>> <=> doc.open = <<>>
  <2>1. doc.open \in Seq(Containers)
    BY <1>0 DEF Positions
  <2> QED
    BY <1>0, <2>1
<1>k. /\ Len(current_key) < JSON_STRING_SIZE
      /\ \A i \in 1..Len(frames) : Len(frames[i].key) < JSON_STRING_SIZE
  BY <1>0 DEF MemorySafe, PathStands
<1>1. ASSUME NEW why, Cancel(why), why # "unpaired",
             UNCHANGED <<prefix, current_key, frames, current_depth>>
      PROVE  PathStands'
  BY <1>0, <1>1, PathKept DEF Cancel
<1>2. ASSUME NEW k \in Keys, MapKey(k) PROVE PathStands'
  <2>1. CASE Cancel("name") /\ UNCHANGED path
    BY <1>1, <2>1 DEF path
  <2>2. CASE /\ current_key' = k /\ doc' = AfterKey(doc, k) /\ Continue
             /\ UNCHANGED <<prefix, frames, frame_capacity, current_depth, lines>>
    <3>1. k \in Seq(Byte) /\ WantsKey(doc)
      BY <1>2, YajlAssumption DEF MapKey
    <3>2. InObject(doc)
      BY <1>0, <3>1 DEF PathStands
    <3>3. doc.open # <<>> /\ ~InArray(doc)
      BY <3>2 DEF InObject, InArray
    <3>4. doc'.open = doc.open /\ doc'.member = k /\ ~WantsKey(doc')
      BY <1>0, <2>2, <3>1, AfterKeyType DEF AfterKey, WantsKey, Positions
    <3>5. doc'.open # <<>> /\ ~InArray(doc') /\ InObject(doc')
      BY <3>2, <3>3, <3>4 DEF InArray, InObject
    <3>6. LabelOf(doc', FALSE) = k
      BY <3>4, <3>5 DEF LabelOf
    <3>7. Stands(doc.open, prefix, current_key, Lengths, Restored)
      BY <1>0 DEF PathStands
    <3>8. Stands(doc.open, prefix, k, Lengths, Restored)
      BY <3>3, <3>7, KeyStands
    <3>9. Lengths' = Lengths /\ Restored' = Restored
      BY <2>2 DEF Lengths, Restored
    <3> QED
      BY <1>0, <2>2, <3>4, <3>6, <3>8, <3>9 DEF PathStands, Continue, guard
  <2> QED
    BY <1>2, <2>1, <2>2 DEF MapKey
<1>3. ASSUME NEW long \in BOOLEAN, Scalar(long) PROVE PathStands'
  <2>1. CASE Cancel("arguments") \/ Cancel("name") \/ Cancel("value") \/ Cancel("output")
    BY <1>1, <1>3, <2>1 DEF Scalar, path
  <2>2. CASE doc' = AfterValue(doc) /\ Continue
    <3>1. UNCHANGED <<prefix, current_key, frames, current_depth, callback_error>>
      BY <1>3, <2>2 DEF Scalar, path, Continue, guard
    <3>2. doc'.open = doc.open /\ Lengths' = Lengths /\ Restored' = Restored
      BY <1>0, <2>2, <3>1, AfterValueType DEF Lengths, Restored
    <3>3. /\ WantsValue(doc') => InArray(doc')
          /\ WantsKey(doc') => InObject(doc')
      BY <1>0, <2>2, ValueDue
    <3>4. Stands(doc'.open, prefix', current_key', Lengths', Restored')
      BY <1>0, <3>1, <3>2 DEF PathStands
    <3>5. WantsValue(doc') => current_key' = LabelOf(doc', FALSE)
      BY <3>3, <3>4, KeyThere
    <3> QED
      BY <1>0, <3>1, <3>2, <3>3, <3>4, <3>5 DEF PathStands
  <2> QED
    BY <1>3, <2>1, <2>2 DEF Scalar
<1>4. ASSUME NEW array \in BOOLEAN, StartContainer(array) PROVE PathStands'
  <2>1. CASE StartOverLimit(array) \/ StartFails(array)
    BY <1>1, <2>1 DEF StartOverLimit, StartFails, path
  <2>2. CASE StartSucceeds(array)
    <3>1. /\ WantsValue(doc) /\ Continue /\ doc' = AfterOpen(doc, array)
          /\ prefix' = IF RootArray(array) THEN ArrayName ELSE WrittenName
          /\ current_key' = IF RootArray(array) THEN ArrayName ELSE current_key
          /\ current_depth' = current_depth + 1
          /\ Fits(Len(ArrayName))
      BY <1>4, <2>2, YajlAssumption DEF StartContainer, StartSucceeds, Fits
    <3>2. /\ Len(frames') = Len(frames) + 1
          /\ \A i \in 1..Len(frames) : frames'[i] = frames[i]
          /\ frames'[Len(frames) + 1].prefix_length = Len(prefix)
          /\ frames'[Len(frames) + 1].key = current_key
      BY <1>0, <2>2, StartSucceedsEffect
    <3>3. /\ \A i \in 1..Len(doc.open) : Lengths'[i] = Lengths[i]
          /\ \A i \in 1..Len(doc.open) : Restored'[i] = Restored[i]
      <4>1. Len(frames') \in Nat /\ Len(frames) <= Len(frames) /\ Len(frames) <= Len(frames')
        BY <1>0, <3>2
      <4> QED
        BY <1>0, <3>2, <4>1, Remembered
    <3>4. /\ Lengths'[Len(doc.open) + 1] = Len(prefix)
          /\ Restored'[Len(doc.open) + 1] = current_key
      BY <1>0, <3>2 DEF Lengths, Restored
    <3>5. /\ Stands(doc.open, prefix, current_key, Lengths, Restored)
          /\ current_key = LabelOf(doc, FALSE)
      BY <1>0, <3>1 DEF PathStands
    <3>6. /\ array /\ doc.open = <<>> => prefix' = ArrayName /\ current_key' = ArrayName
          /\ ~(array /\ doc.open = <<>>) =>
                prefix' = JoinLabel(prefix, current_key) /\ current_key' = current_key
      BY <1>0, <1>f, <3>1, NameIs DEF RootArray
    <3>7. Stands(AfterOpen(doc, array).open, prefix', current_key', Lengths', Restored')
      BY <1>0, <3>3, <3>4, <3>5, <3>6, PushStands
    <3>8. Len(doc'.open) = Len(doc.open) + 1
      BY <1>0, <3>1, AfterOpenType
    <3>9. /\ WantsValue(doc') => InArray(doc')
          /\ WantsKey(doc') => InObject(doc')
      BY <1>0, <3>1, OpenDue
    <3>10. WantsValue(doc') => current_key' = LabelOf(doc', FALSE)
      BY <3>1, <3>7, <3>9, KeyThere
    <3>11. \A i \in 1..Len(frames') : Len(frames'[i].key) < JSON_STRING_SIZE
      BY <1>0, <1>k, <3>2
    <3>12. callback_error' # "unpaired"
      BY <1>0, <3>1 DEF Continue, guard
    <3>13. current_depth' = Len(frames') /\ Len(frames') = Len(doc'.open)
      BY <1>0, <3>1, <3>2, <3>8
    <3> QED
      BY <3>1, <3>7, <3>9, <3>10, <3>11, <3>12, <3>13 DEF PathStands
  <2> QED
    BY <1>4, <2>1, <2>2 DEF StartContainer
<1>5. CASE EndContainer
  <2>1. /\ doc.open # <<>> /\ frames # <<>>
        /\ prefix' = SubSeq(prefix, 1, frames[Len(frames)].prefix_length)
        /\ current_key' = frames[Len(frames)].key
        /\ frames' = SubSeq(frames, 1, Len(frames) - 1)
        /\ current_depth' = current_depth - 1
        /\ doc' = AfterClose(doc) /\ Continue
    BY <1>0, <1>f, <1>5 DEF EndContainer, MayClose, InArray, InObject, Shallower
  <2>2. /\ Len(frames) >= 1 /\ Len(frames') = Len(frames) - 1
        /\ \A i \in 1..Len(frames) - 1 : frames'[i] = frames[i]
    BY <1>0, <2>1, PoppedFrames
  <2>3. /\ \A i \in 1..Len(doc.open) - 1 : Lengths'[i] = Lengths[i]
        /\ \A i \in 1..Len(doc.open) - 1 : Restored'[i] = Restored[i]
    <3>1. /\ Len(frames') \in Nat /\ Len(frames) - 1 \in Nat
          /\ Len(frames) - 1 <= Len(frames) /\ Len(frames) - 1 <= Len(frames')
      BY <1>0, <2>2
    <3> QED
      BY <1>0, <2>2, <3>1, Remembered
  <2>4. /\ Lengths[Len(doc.open)] = frames[Len(frames)].prefix_length
        /\ Restored[Len(doc.open)] = frames[Len(frames)].key
    BY <1>0, <2>2 DEF Lengths, Restored
  <2>5. Stands(doc.open, prefix, current_key, Lengths, Restored)
    BY <1>0 DEF PathStands
  <2>6. Stands(AfterClose(doc).open, SubSeq(prefix, 1, Lengths[Len(doc.open)]),
               Restored[Len(doc.open)], Lengths', Restored')
    BY <1>0, <2>1, <2>3, <2>5, PopStands
  <2>7. Stands(doc'.open, prefix', current_key', Lengths', Restored')
    BY <2>1, <2>4, <2>6
  <2>8. Len(doc'.open) = Len(doc.open) - 1
    BY <1>0, <2>1, AfterCloseType
  <2>9. /\ WantsValue(doc') => InArray(doc')
        /\ WantsKey(doc') => InObject(doc')
    BY <1>0, <2>1, CloseDue
  <2>10. WantsValue(doc') => current_key' = LabelOf(doc', FALSE)
    BY <2>7, <2>9, KeyThere
  <2>11. \A i \in 1..Len(frames') : Len(frames'[i].key) < JSON_STRING_SIZE
    BY <1>0, <1>k, <2>2
  <2>12. callback_error' # "unpaired"
    BY <1>0, <2>1 DEF Continue, guard
  <2>13. current_depth' = Len(frames') /\ Len(frames') = Len(doc'.open)
    BY <1>0, <2>1, <2>2, <2>8
  <2> QED
    BY <2>7, <2>9, <2>10, <2>11, <2>12, <2>13 DEF PathStands
<1>6. CASE CallStep
  <2>1. callback_error' = callback_error \/ callback_error' = "bytes"
    BY <1>6 DEF CallStep, ProcessChunk, CallRefused, CallAgainAfterError, ChunkRefused,
       ChunkParsed, ChunkDone, ChunkFails, Complete, CompleteSteps, CompleteTruncated,
       CompleteStarted, CompleteDone, CompleteFails, FileRefused, FileChunk,
       FileReadError, FileComplete, guard
  <2> QED
    BY <1>0, <1>6, <2>1, CallStepKeeps, PathKept
<1>7. CASE Clearing
  <2>1. /\ frames' = <<>> /\ prefix' = <<>> /\ current_key' = <<>> /\ current_depth' = 0
        /\ callback_error' = None /\ doc' = Start
    BY <1>0, <1>7, ClearingEffect DEF ClearState, ClearCounters, Forget
  <2>2. Stands(doc'.open, prefix', current_key', Lengths', Restored')
    BY <2>1, StandsAtStart
  <2>3. Len(frames') = 0 /\ Len(doc'.open) = 0 /\ ~WantsKey(doc') /\ 1..Len(frames') = {}
    BY <2>1 DEF Start, WantsKey
  <2>4. current_key' = LabelOf(doc', FALSE)
    BY <2>1, LabelAtStart
  <2>5. \A i \in 1..Len(frames') : Len(frames'[i].key) < JSON_STRING_SIZE
    BY <2>3
  <2> QED
    BY <2>1, <2>2, <2>3, <2>4, <2>5 DEF PathStands, None
<1>8. CASE Configure \/ UNCHANGED vars
  <2>1. UNCHANGED <<prefix, current_key, frames, current_depth, doc, callback_error>>
    BY <1>8 DEF Configure, vars, path, guard
  <2> QED
    BY <1>0, <2>1, PathKept
<1> QED
  BY <1>2, <1>3, <1>4, <1>5, <1>6, <1>7, <1>8, StepKinds DEF Callback

(***************************************************************************)
(* Memory.                                                                 *)
(***************************************************************************)

LEMMA Grown ==
    ASSUME TypeOK, MemorySafe, NEW c,
           c = IF IsFull(Len(frames), frame_capacity) THEN NewCapacity(frame_capacity)
               ELSE frame_capacity
    PROVE  c \in Nat /\ Len(frames) + 1 <= c
<1>1. Len(frames) \in Nat /\ frame_capacity \in Nat /\ Len(frames) <= frame_capacity
  BY DEF TypeOK, MemorySafe
<1>2. InitialCapacity \in Nat /\ InitialCapacity > 0
  BY YajlAssumption
<1> QED
  BY <1>1, <1>2 DEF IsFull, NewCapacity

LEMMA StepMemory ==
    ASSUME IInv, [Next]_vars
    PROVE  MemorySafe'
<1>0. /\ TypeOK /\ PathStands /\ MemorySafe /\ Control
      /\ Len(frames) \in Nat /\ frame_capacity \in Nat
      /\ prefix \in Seq(Byte) /\ current_key \in Seq(Byte)
      /\ doc \in Positions /\ saved \in Int
  BY DEF IInv, TypeOK
<1>m. /\ saved = Len(frames)
      /\ frames # <<>> => "frames" \in heap
      /\ Alive => {"prefix", "current_key"} \subseteq heap
      /\ ~Alive => heap = {} /\ saved = 0
      /\ Len(prefix) < JSON_STRING_SIZE /\ Len(current_key) < JSON_STRING_SIZE
      /\ Len(frames) <= frame_capacity
  BY <1>0 DEF MemorySafe
<1>s. JSON_STRING_SIZE \in Nat /\ Len(ArrayName) < JSON_STRING_SIZE
  BY YajlAssumption
<1>1. ASSUME UNCHANGED <<heap, saved, frames, prefix, frame_capacity>>,
             Len(current_key') < JSON_STRING_SIZE
      PROVE  MemorySafe'
  BY <1>m, <1>1 DEF MemorySafe, Alive
<1>2. ASSUME NEW k \in Keys, MapKey(k) PROVE MemorySafe'
  BY <1>1, <1>2, <1>m DEF MapKey, Fits, memory, path
<1>3. ASSUME NEW long \in BOOLEAN, Scalar(long) PROVE MemorySafe'
  BY <1>1, <1>3, <1>m DEF Scalar, memory, path
<1>4. ASSUME NEW array \in BOOLEAN, StartContainer(array) PROVE MemorySafe'
  <2>0. Alive
    BY <1>0, <1>4 DEF StartContainer, Parsing, Control
  <2>1. CASE StartOverLimit(array)
    BY <1>1, <1>m, <2>1 DEF StartOverLimit, memory, path
  <2>2. CASE StartFails(array)
    <3>1. CASE UNCHANGED <<memory, path>>
      BY <1>1, <1>m, <3>1 DEF memory, path
    <3>2. CASE /\ frame_capacity' = IF IsFull(Len(frames), frame_capacity)
                                    THEN NewCapacity(frame_capacity) ELSE frame_capacity
               /\ heap' = heap \cup {"frames"}
               /\ UNCHANGED <<saved, prefix, current_key, frames, current_depth>>
      <4>1. frame_capacity' \in Nat /\ Len(frames) + 1 <= frame_capacity'
        BY <1>0, <3>2, Grown
      <4>2. Len(frames) <= frame_capacity'
        BY <1>0, <4>1
      <4> QED
        BY <1>m, <2>0, <3>2, <4>2 DEF MemorySafe, Alive
    <3> QED
      BY <2>2, <3>1, <3>2 DEF StartFails
  <2>3. CASE StartSucceeds(array) /\ Fits(StartLength(array))
    <3>1. frame_capacity' \in Nat /\ Len(frames) + 1 <= frame_capacity'
      BY <1>0, <2>3, Grown DEF StartSucceeds
    <3>2. Len(frames') = Len(frames) + 1
      BY <1>0, <2>3, StartSucceedsEffect
    <3>3. Len(prefix') < JSON_STRING_SIZE
      BY <1>0, <1>s, <2>3, NameIs DEF StartSucceeds, Fits, StartLength
    <3>4. Len(current_key') < JSON_STRING_SIZE
      BY <1>m, <1>s, <2>3 DEF StartSucceeds
    <3>5. saved' = saved + 1 /\ heap' = heap \cup {"frames"}
      BY <2>3 DEF StartSucceeds
    <3>6. Len(frames') <= frame_capacity' /\ saved' = Len(frames')
      BY <1>0, <1>m, <3>1, <3>2, <3>5
    <3> QED
      BY <1>m, <2>0, <3>3, <3>4, <3>5, <3>6 DEF MemorySafe, Alive
  <2> QED
    BY <1>4, <2>1, <2>2, <2>3 DEF StartContainer
<1>5. CASE EndContainer
  <2>0. Alive
    BY <1>0, <1>5 DEF EndContainer, Parsing, Control
  <2>1. CASE frames = <<>>
    BY <1>1, <1>5, <1>m, <2>1 DEF EndContainer, path
  <2>2. CASE frames # <<>>
    <3>1. /\ frames' = SubSeq(frames, 1, Len(frames) - 1)
          /\ prefix' = SubSeq(prefix, 1, frames[Len(frames)].prefix_length)
          /\ current_key' = frames[Len(frames)].key
          /\ saved' = saved - 1 /\ heap' = heap /\ frame_capacity' = frame_capacity
      BY <1>5, <2>2 DEF EndContainer
    <3>2. Len(frames) >= 1 /\ Len(frames') = Len(frames) - 1
      BY <1>0, <2>2, <3>1, PoppedFrames
    <3>3. Len(frames) \in 1..Len(frames) /\ Len(frames) = Len(doc.open)
      BY <1>0, <3>2 DEF PathStands
    <3>4. frames[Len(frames)].prefix_length \in 0..Len(prefix)
      <4>1. Lengths[Len(frames)] = frames[Len(frames)].prefix_length
        BY <3>3 DEF Lengths
      <4>2. Stands(doc.open, prefix, current_key, Lengths, Restored)
        BY <1>0 DEF PathStands
      <4> QED
        BY <3>3, <4>1, <4>2 DEF Stands, Cuts
    <3>5. Len(prefix') < JSON_STRING_SIZE
      <4> DEFINE n == frames[Len(frames)].prefix_length
      <4> HIDE DEF n
      <4>1. n \in 0..Len(prefix) /\ prefix' = SubSeq(prefix, 1, n)
        BY <3>1, <3>4 DEF n
      <4>2. Len(prefix') = n
        BY <1>0, <4>1, CutTwice
      <4> QED
        BY <1>0, <1>m, <1>s, <4>1, <4>2
    <3>6. Len(current_key') < JSON_STRING_SIZE
      BY <1>0, <3>1, <3>3 DEF PathStands
    <3>7. Len(frames') <= frame_capacity' /\ saved' = Len(frames')
      BY <1>0, <1>m, <3>1, <3>2
    <3> QED
      BY <1>m, <2>0, <2>2, <3>1, <3>5, <3>6, <3>7 DEF MemorySafe, Alive
  <2> QED
    BY <2>1, <2>2
<1>6. CASE CallStep \/ Configure \/ UNCHANGED vars
  <2>1. UNCHANGED <<heap, saved, frames, prefix, frame_capacity, current_key>>
    BY <1>6, CallStepKeeps DEF Configure, vars, memory, path
  <2> QED
    BY <1>1, <1>m, <2>1
<1>7. CASE Clearing
  <2>1. /\ frames' = <<>> /\ prefix' = <<>> /\ current_key' = <<>>
        /\ saved' = saved - Len(frames) /\ frame_capacity' \in Nat
    BY <1>0, <1>7, ClearingEffect DEF ClearState
  <2>2. /\ saved' = 0 /\ Len(frames') = 0 /\ Len(prefix') = 0 /\ Len(current_key') = 0
        /\ Len(frames') <= frame_capacity'
    BY <1>0, <1>m, <2>1
  <2>3. IF Alive' THEN {"prefix", "current_key"} \subseteq heap' ELSE heap' = {}
    <3>1. CASE YajlInit
      <4>1. PICK got \in SUBSET {"p", "prefix", "current_key", "handle"} :
                /\ "p" \in got \/ got = {}
                /\ "handle" \in got => {"prefix", "current_key"} \subseteq got
                /\ heap' = IF "handle" \in got THEN got ELSE Released(got)
        BY <3>1 DEF YajlInit
      <4>2. CASE "handle" \in got
        BY <4>1, <4>2 DEF Alive
      <4>3. CASE "handle" \notin got
        BY <4>1, <4>3 DEF Alive, Released
      <4> QED
        BY <4>2, <4>3
    <3>2. CASE YajlCleanup
      <4>1. heap' = {}
        BY <1>0, <3>2 DEF YajlCleanup, Released, TypeOK, Blocks
      <4> QED
        BY <4>1 DEF Alive
    <3>3. CASE FileOpened
      BY <1>m, <3>3 DEF FileOpened, Ready, Alive
    <3> QED
      BY <1>7, <3>1, <3>2, <3>3 DEF Clearing
  <2> QED
    BY <1>s, <2>1, <2>2, <2>3 DEF MemorySafe
<1> QED
  BY <1>2, <1>3, <1>4, <1>5, <1>6, <1>7, StepKinds DEF Callback

(***************************************************************************)
(* Diagnostics.                                                            *)
(***************************************************************************)

LEMMA StepDiagnostics ==
    ASSUME IInv, [Next]_vars
    PROVE  DiagnosticsAgree'
<1>0. /\ TypeOK /\ PathStands /\ MemorySafe /\ Control /\ DiagnosticsAgree
      /\ depth_limit_exceeded \in BOOLEAN /\ arg_num_limit_exceeded \in BOOLEAN
  BY DEF IInv, TypeOK
\* A refusal in a callback sets the flag of its own limit and no other.
<1>1. ASSUME NEW why \in Errors \ {None}, Running, Cancel(why),
             depth_limit_exceeded' = (depth_limit_exceeded \/ why = "depth"),
             arg_num_limit_exceeded' = (arg_num_limit_exceeded \/ why = "arguments")
      PROVE  DiagnosticsAgree'
  <2>1. outcome = "open" /\ callback_error = None
    BY <1>0, <1>1, OpenWhileRunning DEF Running, Parsing, Control
  <2>2. depth_limit_exceeded = FALSE /\ arg_num_limit_exceeded = FALSE
    BY <1>0, <2>1 DEF DiagnosticsAgree, None
  <2>3. outcome' = "refused" /\ reason' = why /\ callback_error' = why
    BY <1>1, <2>1 DEF Cancel, Refused
  <2>4. /\ depth_limit_exceeded' = (callback_error' = "depth")
        /\ arg_num_limit_exceeded' = (callback_error' = "arguments")
    BY <1>1, <2>2, <2>3
  <2> QED
    BY <2>3, <2>4 DEF DiagnosticsAgree
<1>2. ASSUME UNCHANGED <<flags, callback_error, outcome, reason>>
      PROVE  DiagnosticsAgree'
  BY <1>0, <1>2 DEF DiagnosticsAgree, flags
<1>c. {"name", "value", "arguments", "depth", "memory", "output", "unpaired"}
         \subseteq Errors \ {None}
  BY DEF Errors, None
<1>3. ASSUME NEW k \in Keys, MapKey(k) PROVE DiagnosticsAgree'
  <2>1. CASE Continue
    BY <1>2, <1>3, <2>1 DEF MapKey, Continue, guard, told
  <2>2. CASE Cancel("name")
    BY <1>0, <1>1, <1>3, <1>c, <2>2 DEF MapKey, flags, Running
  <2> QED
    BY <1>3, <2>1, <2>2 DEF MapKey
<1>4. ASSUME NEW long \in BOOLEAN, Scalar(long) PROVE DiagnosticsAgree'
  <2>0. Running /\ UNCHANGED depth_limit_exceeded
    BY <1>4 DEF Scalar
  <2>1. CASE Continue /\ UNCHANGED arg_num_limit_exceeded
    BY <1>2, <2>0, <2>1 DEF Continue, guard, told, flags
  <2>2. CASE Cancel("arguments") /\ arg_num_limit_exceeded' = TRUE
    <3>1. /\ depth_limit_exceeded' = (depth_limit_exceeded \/ "arguments" = "depth")
          /\ arg_num_limit_exceeded' = (arg_num_limit_exceeded \/ "arguments" = "arguments")
      BY <1>0, <2>0, <2>2
    <3> QED
      BY <1>1, <1>c, <2>0, <2>2, <3>1
  <2>3. ASSUME NEW why \in {"name", "value", "output"}, Cancel(why),
               UNCHANGED arg_num_limit_exceeded
        PROVE  DiagnosticsAgree'
    <3>1. /\ depth_limit_exceeded' = (depth_limit_exceeded \/ why = "depth")
          /\ arg_num_limit_exceeded' = (arg_num_limit_exceeded \/ why = "arguments")
      BY <1>0, <2>0, <2>3
    <3> QED
      BY <1>1, <1>c, <2>0, <2>3, <3>1
  <2>4. \/ Continue /\ UNCHANGED arg_num_limit_exceeded
        \/ Cancel("arguments") /\ arg_num_limit_exceeded' = TRUE
        \/ Cancel("name") /\ UNCHANGED arg_num_limit_exceeded
        \/ Cancel("value") /\ UNCHANGED arg_num_limit_exceeded
        \/ Cancel("output") /\ UNCHANGED arg_num_limit_exceeded
    BY <1>4 DEF Scalar
  <2> QED
    BY <2>1, <2>2, <2>3, <2>4
<1>5. ASSUME NEW array \in BOOLEAN, StartContainer(array) PROVE DiagnosticsAgree'
  <2>0. Running /\ UNCHANGED arg_num_limit_exceeded
    BY <1>5 DEF StartContainer, Running, StartOverLimit, StartFails, StartSucceeds, flags
  <2>1. CASE StartSucceeds(array)
    BY <1>2, <2>1 DEF StartSucceeds, Continue, guard, told
  <2>2. CASE Cancel("depth") /\ depth_limit_exceeded' = TRUE
    <3>1. /\ depth_limit_exceeded' = (depth_limit_exceeded \/ "depth" = "depth")
          /\ arg_num_limit_exceeded' = (arg_num_limit_exceeded \/ "depth" = "arguments")
      BY <1>0, <2>0, <2>2
    <3> QED
      BY <1>1, <1>c, <2>0, <2>2, <3>1
  <2>3. ASSUME NEW why \in {"name", "memory"}, Cancel(why), UNCHANGED depth_limit_exceeded
        PROVE  DiagnosticsAgree'
    <3>1. /\ depth_limit_exceeded' = (depth_limit_exceeded \/ why = "depth")
          /\ arg_num_limit_exceeded' = (arg_num_limit_exceeded \/ why = "arguments")
      BY <1>0, <2>0, <2>3
    <3> QED
      BY <1>1, <1>c, <2>0, <2>3, <3>1
  <2>4. \/ StartSucceeds(array)
        \/ Cancel("depth") /\ depth_limit_exceeded' = TRUE
        \/ Cancel("name") /\ UNCHANGED depth_limit_exceeded
        \/ Cancel("memory") /\ UNCHANGED depth_limit_exceeded
    BY <1>5 DEF StartContainer, StartOverLimit, StartFails, flags
  <2> QED
    BY <2>1, <2>2, <2>3, <2>4
<1>6. CASE EndContainer
  <2>1. doc.open # <<>> /\ frames # <<>>
    <3>1. doc.open # <<>> /\ Len(doc.open) = Len(frames)
      BY <1>0, <1>6 DEF EndContainer, MayClose, InArray, InObject, PathStands
    <3>2. doc.open \in Seq(Containers)
      BY <1>0 DEF TypeOK, Positions
    <3> QED
      BY <3>1, <3>2
  <2>2. Continue /\ UNCHANGED flags
    BY <1>6, <2>1 DEF EndContainer
  <2> QED
    BY <1>2, <2>2 DEF Continue, guard, told
<1>7. ASSUME ChunkRefused \/ CompleteTruncated PROVE DiagnosticsAgree'
  <2>1. /\ Usable /\ callback_error' = "bytes" /\ Refused("bytes") /\ UNCHANGED flags
        /\ callback_error = None
    BY <1>7 DEF ChunkRefused, CompleteTruncated, Usable
  <2>2. ~depth_limit_exceeded /\ ~arg_num_limit_exceeded
    BY <1>0, <2>1 DEF DiagnosticsAgree, None
  <2>3. /\ outcome = "open" => outcome' = "refused" /\ reason' = "bytes"
        /\ outcome # "open" => outcome' = "refused" /\ reason' = "library"
    BY <1>0, <2>1 DEF Usable, Refused, Control, TypeOK, None
  <2>4. outcome' = "refused" /\ (reason' = "bytes" \/ reason' = "library")
    BY <2>3
  <2>5. /\ depth_limit_exceeded' = FALSE /\ arg_num_limit_exceeded' = FALSE
    BY <1>0, <2>1, <2>2 DEF flags
  <2> QED
    BY <2>1, <2>4, <2>5 DEF DiagnosticsAgree
<1>8. ASSUME ChunkFails \/ CompleteFails \/ CompleteDone PROVE DiagnosticsAgree'
  <2>1. /\ callback_error = None /\ callback_error' = None /\ UNCHANGED flags
    <3>1. pc # "idle" /\ callback_error' = callback_error /\ UNCHANGED flags
      <4>1. CASE ChunkFails
        BY <4>1 DEF ChunkFails
      <4>2. CASE CompleteFails
        BY <4>2 DEF CompleteFails, Finishing
      <4>3. CASE CompleteDone
        BY <4>3 DEF CompleteDone, Finishing
      <4> QED
        BY <1>8, <4>1, <4>2, <4>3
    <3> QED
      BY <1>0, <3>1 DEF Control
  <2>2. outcome' = "refused" => reason' \in {"library", "output"}
    BY <1>0, <1>8, <2>1 DEF ChunkFails, CompleteFails, CompleteDone, Refused,
       DiagnosticsAgree, Control
  <2> QED
    BY <1>0, <2>1, <2>2 DEF DiagnosticsAgree, flags, None
<1>9. CASE CallStep
  <2>1. \/ ChunkRefused \/ CompleteTruncated
        \/ ChunkFails \/ CompleteFails \/ CompleteDone
        \/ UNCHANGED <<flags, callback_error, outcome, reason>>
    BY <1>9 DEF CallStep, ProcessChunk, CallRefused, CallAgainAfterError, ChunkParsed,
       ChunkDone, Complete, CompleteSteps, CompleteStarted, FileRefused, FileChunk,
       FileReadError, FileComplete, guard, told
  <2> QED
    BY <1>2, <1>7, <1>8, <2>1
<1>10. CASE Clearing
  <2>1. /\ callback_error' = None /\ depth_limit_exceeded' = FALSE
        /\ arg_num_limit_exceeded' = FALSE /\ outcome' # "refused"
    BY <1>0, <1>10, ClearingEffect DEF ClearState, ClearFlags, Forget, None
  <2> QED
    BY <2>1 DEF DiagnosticsAgree, None
<1>11. CASE Configure \/ UNCHANGED vars
  BY <1>2, <1>11 DEF Configure, vars, guard, told
<1> QED
  BY <1>3, <1>4, <1>5, <1>6, <1>9, <1>10, <1>11, StepKinds DEF Callback

(***************************************************************************)
(* What is printed.                                                        *)
(***************************************************************************)

\* Beyond the root, and behind a value, the document has begun: nothing is due
\* at the root any more.
LEMMA NoLongerFirst ==
    ASSUME NEW d, InArray(d) \/ ~WantsValue(d)
    PROVE  ~(d.open = <<>> /\ WantsValue(d))
BY DEF InArray

LEMMA StepCounted ==
    ASSUME IInv, [Next]_vars
    PROVE  Counted'
<1>0. /\ TypeOK /\ PathStands /\ Control /\ Counted
      /\ doc \in Positions /\ lines \in Seq(Seq(Byte)) /\ current_arg_num \in Nat
      /\ silence \in BOOLEAN
  BY DEF IInv, TypeOK
<1>1. ASSUME UNCHANGED <<lines, silence, current_arg_num, doc, outcome>>
      PROVE  Counted'
  BY <1>0, <1>1 DEF Counted
<1>2. ASSUME outcome' # "open" PROVE Counted'
  BY <1>2 DEF Counted
<1>3. ASSUME NEW why, Cancel(why) PROVE Counted'
  <2>1. outcome' # "open"
    BY <1>3 DEF Cancel, Refused
  <2> QED
    BY <1>2, <2>1
\* An event that is no argument.
<1>4. ASSUME Continue, UNCHANGED <<lines, current_arg_num>>,
             InArray(doc') \/ ~WantsValue(doc') \/ doc'.open # <<>>
      PROVE  Counted'
  BY <1>0, <1>4 DEF Continue, settings, told, Counted, InArray
<1>5. ASSUME NEW k \in Keys, MapKey(k) PROVE Counted'
  <2>1. CASE doc' = AfterKey(doc, k) /\ Continue /\ UNCHANGED lines
    <3>1. doc'.open = doc.open
      BY <1>0, <2>1 DEF AfterKey, Positions
    <3>2. doc.open # <<>>
      BY <1>0, <1>5 DEF MapKey, PathStands, InObject
    <3> QED
      BY <1>4, <1>5, <2>1, <3>1, <3>2 DEF MapKey
  <2> QED
    BY <1>3, <1>5, <2>1 DEF MapKey
<1>6. ASSUME NEW long \in BOOLEAN, Scalar(long) PROVE Counted'
  <2>1. CASE /\ current_arg_num' = current_arg_num + 1
             /\ lines' = IF silence THEN lines ELSE Append(lines, WrittenName)
             /\ doc' = AfterValue(doc)
             /\ Continue
    <3>1. WantsValue(doc') => InArray(doc')
      BY <1>0, <2>1, ValueDue
    <3>2. ~(doc'.open = <<>> /\ WantsValue(doc'))
      BY <3>1, NoLongerFirst
    <3>3. silence' = silence /\ outcome' = outcome
      BY <2>1 DEF Continue, settings, told
    <3>4. CASE outcome = "open"
      <4>1. Len(lines) = IF silence THEN 0 ELSE current_arg_num
        BY <1>0, <3>4 DEF Counted
      <4>2. WrittenName \in Seq(Byte)
        BY <1>0, NameIs DEF TypeOK
      <4>3. Len(lines') = IF silence THEN Len(lines) ELSE Len(lines) + 1
        BY <1>0, <2>1, <4>2
      <4>4. Len(lines') = IF silence' THEN 0 ELSE current_arg_num'
        BY <2>1, <3>3, <4>1, <4>3
      <4> QED
        BY <3>2, <4>4 DEF Counted
    <3>5. CASE outcome # "open"
      BY <1>2, <3>3, <3>5
    <3> QED
      BY <3>4, <3>5
  <2> QED
    BY <1>3, <1>6, <2>1 DEF Scalar
<1>7. ASSUME NEW array \in BOOLEAN, StartContainer(array) PROVE Counted'
  <2>1. CASE StartSucceeds(array)
    <3>1. doc' = AfterOpen(doc, array) /\ Continue /\ UNCHANGED <<current_arg_num, lines>>
      BY <2>1 DEF StartSucceeds
    <3>2. /\ WantsValue(doc') => InArray(doc')
      BY <1>0, <3>1, OpenDue
    <3> QED
      BY <1>4, <3>1, <3>2
  <2> QED
    BY <1>3, <1>7, <2>1 DEF StartContainer, StartOverLimit, StartFails
<1>8. CASE EndContainer
  <2>1. CASE doc' = AfterClose(doc) /\ Continue /\ UNCHANGED lines
    <3>1. doc.open # <<>>
      BY <1>8 DEF EndContainer, MayClose, InArray, InObject
    <3>2. WantsValue(doc') => InArray(doc')
      BY <1>0, <2>1, <3>1, CloseDue
    <3> QED
      BY <1>4, <1>8, <2>1, <3>2 DEF EndContainer
  <2> QED
    BY <1>3, <1>8, <2>1 DEF EndContainer
<1>9. CASE CallStep
  <2>1. UNCHANGED <<lines, silence, current_arg_num, doc>>
    BY <1>9, CallStepKeeps DEF settings
  <2>2. outcome' = outcome \/ outcome' # "open"
    BY <1>9 DEF CallStep, ProcessChunk, CallRefused, CallAgainAfterError, ChunkRefused,
       ChunkParsed, ChunkDone, ChunkFails, Complete, CompleteSteps, CompleteTruncated,
       CompleteStarted, CompleteDone, CompleteFails, FileRefused, FileChunk,
       FileReadError, FileComplete, Refused, told
  <2> QED
    BY <1>1, <1>2, <2>1, <2>2
<1>10. CASE Clearing
  <2>1. lines' = <<>> /\ current_arg_num' = 0
    BY <1>0, <1>10, ClearingEffect DEF ClearState, ClearCounters, Forget
  <2>2. Len(lines') = 0
    BY <2>1
  <2> QED
    BY <2>1, <2>2 DEF Counted
<1>11. CASE Configure
  <2>1. /\ outcome = "open" => doc = Start
        /\ UNCHANGED <<lines, current_arg_num, doc, outcome>>
    BY <1>11 DEF Configure, told
  <2>2. outcome = "open" => lines = <<>> /\ current_arg_num = 0
    BY <1>0, <2>1 DEF Counted, Start, WantsValue
  <2>3. outcome' = "open" => lines' = <<>> /\ current_arg_num' = 0 /\ Len(lines') = 0
    BY <2>1, <2>2
  <2> QED
    BY <2>3 DEF Counted
<1>12. CASE UNCHANGED vars
  BY <1>1, <1>12 DEF vars, settings, told
<1> QED
  BY <1>5, <1>6, <1>7, <1>8, <1>9, <1>10, <1>11, <1>12, StepKinds DEF Callback

(***************************************************************************)
(* The theorems.                                                           *)
(***************************************************************************)

LEMMA InitIInv == Init => IInv
<1> SUFFICES ASSUME Init PROVE IInv
  OBVIOUS
<1>1. TypeOK
  BY InitTypes
<1>2. Control
  BY DEF Init, Control, Defaults, None
<1>3. PathStands
  BY EmptyPath DEF Init
<1>4. MemorySafe
  <2>1. heap = {} /\ saved = 0 /\ frames = <<>> /\ prefix = <<>> /\ current_key = <<>>
        /\ frame_capacity = 0
    BY DEF Init
  <2>2. JSON_STRING_SIZE \in Nat /\ Len(ArrayName) \in Nat /\ Len(ArrayName) < JSON_STRING_SIZE
    BY YajlAssumption, EventsAssumption
  <2>3. Len(frames) = 0 /\ Len(prefix) = 0 /\ Len(current_key) = 0
    BY <2>1
  <2> QED
    BY <2>1, <2>2, <2>3 DEF MemorySafe, Alive
<1>5. DiagnosticsAgree
  BY DEF Init, DiagnosticsAgree, None
<1>6. Counted
  BY DEF Init, Counted, None
<1> QED
  BY <1>1, <1>2, <1>3, <1>4, <1>5, <1>6 DEF IInv

\* Every behaviour of the adapter keeps the inductive invariant.
THEOREM InductiveInvariant == Spec => []IInv
<1>1. IInv /\ [Next]_vars => IInv'
  <2>1. IInv => TypeOK /\ PathStands
    BY DEF IInv
  <2> QED
    BY <2>1, StepTypes, StepControl, StepPath, StepMemory, StepDiagnostics, StepCounted
       DEF IInv
<1> QED
  BY InitIInv, <1>1, PTL DEF Spec

\* The adapter's variables keep their types through any sequence of callbacks,
\* calls, refusals, failed allocations, resets and files.
THEOREM TypeCorrect == Spec => []TypeOK
<1>1. IInv => TypeOK
  BY DEF IInv
<1> QED
  BY InductiveInvariant, <1>1, PTL

\* start_container and end_container, writing and cutting one buffer in place,
\* keep it the path of the position, at any depth and whatever the keys; the
\* depth that is checked is the nesting, and a value has its own label.
THEOREM PathCorrect == Spec => []PathIsPosition
<1>1. IInv => PathIsPosition
  <2>1. ASSUME PathStands PROVE PathIsPosition
    <3>1. prefix = Display(OpenLabels(doc))
      BY <2>1, PrefixThere DEF PathStands
    <3> QED
      BY <2>1, <3>1 DEF PathStands, PathIsPosition
  <2> QED
    BY <2>1 DEF IInv
<1> QED
  BY InductiveInvariant, <1>1, PTL

\* No write leaves the prefix buffer, the key buffer or the frame array, and no
\* failure, reset or cleanup leaks a block or a saved key, for any sizes.
THEOREM MemoryCorrect == Spec => []MemorySafe
<1>1. IInv => MemorySafe
  BY DEF IInv
<1> QED
  BY InductiveInvariant, <1>1, PTL

\* The two flags, the sticky message and what the client was told tell one
\* story, through chunks, files and calls after an error.
THEOREM DiagnosticsCorrect == Spec => []DiagnosticsAgree
<1>1. IInv => DiagnosticsAgree
  BY DEF IInv
<1> QED
  BY InductiveInvariant, <1>1, PTL

\* A document that yajl_json_complete accepts has had every one of its counted
\* arguments printed and flushed, unless the parser was silent.
THEOREM NothingLostCorrect == Spec => NothingLost
<1>1. IInv /\ [Next]_vars =>
        [outcome' = "accepted" /\ outcome # "accepted"
           => silence \/ (Len(lines) = current_arg_num /\ flushed' = Len(lines))]_vars
  <2> SUFFICES ASSUME IInv, [Next]_vars, outcome' = "accepted", outcome # "accepted"
               PROVE  silence \/ (Len(lines) = current_arg_num /\ flushed' = Len(lines))
    OBVIOUS
  <2>0. /\ TypeOK /\ PathStands /\ Control /\ Counted /\ silence \in BOOLEAN
    BY DEF IInv, TypeOK
  <2>1. outcome = "open" /\ FlushDone
    <3>1. ASSUME NEW why, Refused(why) PROVE FALSE
      BY <3>1 DEF Refused
    <3>2. outcome' # outcome
      OBVIOUS
    <3>3. ~Callback
      BY <3>1, <3>2 DEF Callback, MapKey, Scalar, StartContainer, StartOverLimit,
         StartFails, StartSucceeds, EndContainer, Cancel, Continue, told
    <3>4. CASE CallStep
      BY <3>1, <3>2, <3>4 DEF CallStep, ProcessChunk, CallRefused,
         CallAgainAfterError, ChunkRefused, ChunkParsed, ChunkDone, ChunkFails,
         Complete, CompleteSteps, CompleteTruncated, CompleteStarted, CompleteDone,
         CompleteFails, FileRefused, FileChunk, FileReadError, FileComplete, told
    <3>5. CASE Clearing
      BY <2>0, <3>5, ClearingEffect DEF Forget, None
    <3>6. ~Configure /\ ~UNCHANGED vars
      BY <3>2 DEF Configure, vars, told
    <3> QED
      BY <3>3, <3>4, <3>5, <3>6, StepKinds
  <2> QED
    BY <2>0, <2>1 DEF Counted, FlushDone
<1> QED
  BY InductiveInvariant, <1>1, PTL DEF Spec, NothingLost


(***************************************************************************)
(* The adapter implements ArgumentExtraction.                              *)
(***************************************************************************)

\* The instance speaks of the same positions and names.
LEMMA SameEvents ==
    /\ Extraction!Start = Start
    /\ \A d : /\ Extraction!WantsKey(d) = WantsKey(d)
              /\ Extraction!WantsValue(d) = WantsValue(d)
              /\ Extraction!IsWhole(d) = IsWhole(d)
              /\ Extraction!InArray(d) = InArray(d)
              /\ Extraction!InObject(d) = InObject(d)
BY DEF Extraction!Start, Start, Extraction!WantsKey, WantsKey,
       Extraction!WantsValue, WantsValue, Extraction!IsWhole, IsWhole,
       Extraction!InArray, InArray, Extraction!InObject, InObject

LEMMA SameLabel == \A d, array : Extraction!LabelOf(d, array) = LabelOf(d, array)
BY SameEvents DEF Extraction!LabelOf, LabelOf

LEMMA SameDisplay == \A labels : Extraction!Display(labels) = Display(labels)
BY DEF Extraction!Display, Display, Extraction!JoinLabel, JoinLabel

LEMMA SameSteps ==
    \A d : /\ Extraction!MayClose(d) = MayClose(d)
           /\ Extraction!AfterValue(d) = AfterValue(d)
           /\ Extraction!AfterClose(d) = AfterClose(d)
           /\ \A k : Extraction!AfterKey(d, k) = AfterKey(d, k)
           /\ \A array : Extraction!AfterOpen(d, array) = AfterOpen(d, array)
BY SameEvents, SameLabel
   DEF Extraction!MayClose, MayClose, Extraction!AfterValue, AfterValue,
       Extraction!AfterClose, AfterClose, Extraction!AfterKey, AfterKey,
       Extraction!AfterOpen, AfterOpen

LEMMA SameNames ==
    \A d : /\ Extraction!ArgumentName(d) = ArgumentName(d)
           /\ \A array : Extraction!ContainerName(d, array) = ContainerName(d, array)
BY SameLabel, SameDisplay
   DEF Extraction!ArgumentName, ArgumentName, Extraction!ContainerName, ContainerName,
       Extraction!OpenLabels, OpenLabels

\* The name a callback writes is the name of the position, and the length it
\* checks is the length of that name.
LEMMA NamesHere ==
    ASSUME TypeOK, PathStands, WantsValue(doc), NEW array \in BOOLEAN
    PROVE  /\ ArgumentName(doc) = WrittenName
           /\ ContainerName(doc, FALSE) = WrittenName
           /\ Len(ContainerName(doc, array)) = StartLength(array)
<1>0. /\ prefix \in Seq(Byte) /\ current_key \in Seq(Byte) /\ doc \in Positions
      /\ prefix = Display(OpenLabels(doc)) /\ current_key = LabelOf(doc, FALSE)
      /\ doc.open \in Seq(Containers) /\ Len(frames) = Len(doc.open)
      /\ frames \in Seq(FrameRecords)
  BY PrefixThere DEF TypeOK, PathStands, Positions, FrameRecords
<1>1. OpenLabels(doc) \in Seq(Seq(Byte))
  <2>1. \A i \in 1..Len(doc.open) : doc.open[i] \in Containers
    BY <1>0
  <2>2. Len(doc.open) \in Nat /\ \A i \in 1..Len(doc.open) : doc.open[i].label \in Seq(Byte)
    BY <1>0, <2>1 DEF Containers
  <2> QED
    BY <2>2 DEF OpenLabels
<1>2. ASSUME NEW a \in BOOLEAN
      PROVE  ContainerName(doc, a) = JoinLabel(prefix, LabelOf(doc, a))
  BY <1>0, <1>1, LabelType, DisplayGrows DEF ContainerName
<1>3. ContainerName(doc, FALSE) = WrittenName /\ ArgumentName(doc) = ContainerName(doc, FALSE)
  BY <1>0, <1>2, NameIs DEF ArgumentName, ContainerName
<1>4. CASE RootArray(array)
  <2>1. array /\ doc.open = <<>>
    BY <1>0, <1>4 DEF RootArray
  <2>2. OpenLabels(doc) = <<>>
    BY <1>1, <2>1 DEF OpenLabels
  <2>3. prefix = <<>> /\ LabelOf(doc, array) = ArrayName
    BY <1>0, <2>1, <2>2, DisplayGrows DEF LabelOf, InArray, InObject
  <2> QED
    <3>1. ContainerName(doc, array) = JoinLabel(prefix, LabelOf(doc, array))
      BY <1>2
    <3>2. ContainerName(doc, array) = ArrayName
      BY <2>3, <3>1 DEF JoinLabel
    <3>3. StartLength(array) = Len(ArrayName)
      BY <1>4, Zenon DEF StartLength
    <3> QED
      BY <1>3, <3>2, <3>3
<1>5. CASE ~RootArray(array)
  <2>1. ~array \/ doc.open # <<>>
    BY <1>0, <1>5 DEF RootArray
  <2>2. LabelOf(doc, array) = LabelOf(doc, FALSE)
    <3>1. CASE doc.open # <<>>
      BY <3>1 DEF LabelOf, InArray, InObject
    <3>2. CASE array = FALSE
      BY <3>2
    <3> QED
      BY <2>1, <3>1, <3>2
  <2>3. ContainerName(doc, array) = WrittenName
    BY <1>2, <1>3, <2>2
  <2>4. Len(WrittenName) = NameLength(prefix, current_key)
    BY <1>0, NameIs
  <2>5. StartLength(array) = NameLength(prefix, current_key)
    BY <1>5, Zenon DEF StartLength
  <2> QED
    BY <1>3, <2>3, <2>4, <2>5
<1> QED
  BY <1>3, <1>4, <1>5

\* A refusal with its ground is a refusal of the abstract specification.
LEMMA CancelRefuses ==
    ASSUME Control, TypeOK, Running, NEW why, Cancel(why),
           why \in {"memory", "output", "bytes", "library", "depth", "arguments",
                    "name", "value"},
           Extraction!Justified(why),
           current_arg_num' \in IF why = "output"
                                THEN {current_arg_num, current_arg_num + 1}
                                ELSE {current_arg_num}
    PROVE  Extraction!ExtractionNext
<1>1. outcome = "open"
  BY OpenWhileRunning DEF Running, Parsing
<1>2. /\ outcome' = "refused" /\ reason' = why
      /\ UNCHANGED <<doc, limits, silence, lines>>
  BY <1>1 DEF Cancel, Refused, settings
<1>3. Extraction!Refuse(why)
  BY <1>1, <1>2 DEF Extraction!Refuse
<1> QED
  BY <1>3 DEF Extraction!ExtractionNext

LEMMA StepImplements ==
    ASSUME IInv, [Next]_vars
    PROVE  [Extraction!ExtractionNext]_(Extraction!extractionVars)
<1>0. /\ TypeOK /\ PathStands /\ Control /\ MemorySafe
      /\ current_arg_num \in Nat /\ Len(frames) = Len(doc.open)
      /\ current_depth = Len(frames) /\ silence \in BOOLEAN
      /\ limits \in [depth : DepthLimits, args : ArgumentLimits]
      /\ limits.depth \in Int /\ limits.args \in Int /\ JSON_STRING_SIZE \in Nat
  BY YajlAssumption DEF IInv, PathStands, TypeOK
<1>1. ASSUME UNCHANGED <<doc, limits, silence, current_arg_num, lines, outcome, reason>>
      PROVE  UNCHANGED Extraction!extractionVars
  BY <1>1 DEF Extraction!extractionVars
<1>2. ASSUME NEW k \in Keys, MapKey(k) PROVE Extraction!ExtractionNext
  <2>0. /\ Running /\ WantsKey(doc) /\ current_arg_num' = current_arg_num
        /\ k \in Seq(Byte) /\ Len(k) \in Nat
    BY <1>2, YajlAssumption DEF MapKey, Running
  <2>1. CASE Cancel("name") /\ ~Fits(Len(k))
    <3>1. Len(k) >= JSON_STRING_SIZE
      BY <1>0, <2>0, <2>1 DEF Fits
    <3>2. Extraction!Justified("name")
      BY <2>0, <3>1, SameEvents DEF Extraction!Justified
    <3> QED
      BY <1>0, <2>0, <2>1, <3>2, CancelRefuses
  <2>2. CASE doc' = AfterKey(doc, k) /\ Continue /\ Fits(Len(k)) /\ lines' = lines
    <3>1. outcome = "open"
      BY <1>0, <2>0, OpenWhileRunning DEF Running, Parsing
    <3>2. Extraction!Key(k)
      BY <2>0, <2>2, <3>1, SameEvents, SameSteps
         DEF Extraction!Key, Continue, settings, told, Fits
    <3> QED
      BY <3>2 DEF Extraction!ExtractionNext
  <2> QED
    BY <1>2, <2>1, <2>2 DEF MapKey
<1>3. ASSUME NEW long \in BOOLEAN, Scalar(long) PROVE Extraction!ExtractionNext
  <2>0. /\ Running /\ WantsValue(doc) /\ outcome = "open"
        /\ Extraction!WantsValue(doc)
    BY <1>0, <1>3, OpenWhileRunning, SameEvents DEF Scalar, Running, Parsing
  <2>1. /\ ArgumentName(doc) = WrittenName /\ ContainerName(doc, FALSE) = WrittenName
        /\ Len(WrittenName) = NameLength(prefix, current_key)
        /\ Len(WrittenName) \in Nat
    <3>1. /\ WrittenName \in Seq(Byte)
          /\ Len(WrittenName) = NameLength(prefix, current_key)
      BY <1>0, NameIs DEF TypeOK
    <3>2. /\ ArgumentName(doc) = WrittenName /\ ContainerName(doc, FALSE) = WrittenName
      BY <1>0, <2>0, NamesHere
    <3>3. Len(WrittenName) \in Nat
      BY <3>1
    <3> QED
      BY <3>1, <3>2, <3>3
  <2>2. CASE AtLimit(current_arg_num, limits.args) /\ Cancel("arguments")
             /\ UNCHANGED current_arg_num
    <3>1. Extraction!Justified("arguments")
      BY <2>0, <2>2 DEF AtLimit, Extraction!Justified
    <3> QED
      BY <1>0, <2>0, <2>2, <3>1, CancelRefuses
  <2>3. CASE ~Fits(NameLength(prefix, current_key)) /\ Cancel("name")
             /\ UNCHANGED current_arg_num
    <3>0. Extraction!ContainerName(doc, FALSE) = WrittenName
      BY <2>1, SameNames
    <3>1. Len(WrittenName) >= JSON_STRING_SIZE
      BY <1>0, <2>1, <2>3 DEF Fits
    <3>2. Extraction!Justified("name")
      BY <2>0, <3>0, <3>1 DEF Extraction!Justified
    <3> QED
      BY <1>0, <2>0, <2>3, <3>2, CancelRefuses
  <2>4. CASE Cancel("value") /\ UNCHANGED current_arg_num
    <3>1. Extraction!Justified("value")
      BY <2>0 DEF Extraction!Justified
    <3> QED
      BY <1>0, <2>0, <2>4, <3>1, CancelRefuses
  <2>5. CASE Cancel("output") /\ current_arg_num' = current_arg_num + 1
    <3>1. Extraction!Justified("output")
      BY DEF Extraction!Justified
    <3> QED
      BY <1>0, <2>0, <2>5, <3>1, CancelRefuses
  <2>6. CASE /\ ~AtLimit(current_arg_num, limits.args)
             /\ Fits(NameLength(prefix, current_key))
             /\ current_arg_num' = current_arg_num + 1
             /\ lines' = IF silence THEN lines ELSE Append(lines, WrittenName)
             /\ doc' = AfterValue(doc)
             /\ Continue
    <3>1. /\ current_arg_num < limits.args
          /\ Extraction!ArgumentName(doc) = WrittenName
          /\ Len(WrittenName) < JSON_STRING_SIZE
      BY <1>0, <2>1, <2>6, SameNames DEF AtLimit, Fits
    <3>2. Extraction!Scalar
      BY <2>0, <2>6, <3>1, SameSteps DEF Extraction!Scalar, Continue, settings, told
    <3> QED
      BY <3>2 DEF Extraction!ExtractionNext
  <2> QED
    BY <1>3, <2>2, <2>3, <2>4, <2>5, <2>6 DEF Scalar
<1>4. ASSUME NEW array \in BOOLEAN, StartContainer(array) PROVE Extraction!ExtractionNext
  <2>0. /\ Running /\ WantsValue(doc) /\ outcome = "open"
        /\ Extraction!WantsValue(doc) /\ current_arg_num' = current_arg_num
    BY <1>0, <1>4, OpenWhileRunning, SameEvents
       DEF StartContainer, StartOverLimit, StartFails, StartSucceeds, Running, Parsing
  <2>1. /\ Len(Extraction!ContainerName(doc, array)) = StartLength(array)
        /\ StartLength(array) \in Nat
    <3>1. Len(ContainerName(doc, array)) = StartLength(array)
      BY <1>0, <2>0, NamesHere
    <3>2. StartLength(array) \in Nat
      BY <1>0, EventsAssumption, NameIs DEF StartLength, TypeOK
    <3> QED
      BY <3>1, <3>2, SameNames
  <2>2. CASE AtLimit(current_depth, limits.depth) /\ Cancel("depth")
    <3>1. Extraction!Justified("depth")
      BY <1>0, <2>0, <2>2 DEF AtLimit, Extraction!Justified
    <3> QED
      BY <1>0, <2>0, <2>2, <3>1, CancelRefuses
  <2>3. CASE ~Fits(StartLength(array)) /\ Cancel("name")
    <3>1. Len(Extraction!ContainerName(doc, array)) >= JSON_STRING_SIZE
      BY <1>0, <2>1, <2>3 DEF Fits
    <3>2. Extraction!Justified("name")
      BY <2>0, <3>1 DEF Extraction!Justified
    <3> QED
      BY <1>0, <2>0, <2>3, <3>2, CancelRefuses
  <2>4. CASE Cancel("memory")
    <3>1. Extraction!Justified("memory")
      BY DEF Extraction!Justified
    <3> QED
      BY <1>0, <2>0, <2>4, <3>1, CancelRefuses
  <2>5. CASE /\ ~AtLimit(current_depth, limits.depth)
             /\ Fits(StartLength(array)) /\ StartSucceeds(array)
    <3>1. /\ Len(doc.open) < limits.depth
          /\ Len(Extraction!ContainerName(doc, array)) < JSON_STRING_SIZE
      BY <1>0, <2>1, <2>5 DEF AtLimit, Fits
    <3>2. Extraction!Open(array)
      BY <2>0, <2>5, <3>1, SameSteps
         DEF Extraction!Open, StartSucceeds, Continue, settings, told
    <3> QED
      BY <3>2 DEF Extraction!ExtractionNext
  <2> QED
    BY <1>4, <2>2, <2>3, <2>4, <2>5 DEF StartContainer, StartOverLimit, StartFails
<1>5. CASE EndContainer
  <2>0. Running /\ outcome = "open" /\ MayClose(doc) /\ doc.open # <<>>
    BY <1>0, <1>5, OpenWhileRunning
       DEF EndContainer, Running, Parsing, MayClose, InArray, InObject
  <2>1. frames # <<>>
    <3>1. doc.open \in Seq(Containers)
      BY <1>0 DEF TypeOK, Positions
    <3> QED
      BY <1>0, <2>0, <3>1
  <2>2. Extraction!Close
    BY <1>5, <2>0, <2>1, SameSteps
       DEF EndContainer, Extraction!Close, Continue, settings, told
  <2> QED
    BY <2>2 DEF Extraction!ExtractionNext
\* A call tells the client something once at most.
<1>6. ASSUME NEW why \in {"bytes", "library", "output"}, Refused(why),
             UNCHANGED <<doc, limits, silence, current_arg_num, lines>>
      PROVE  [Extraction!ExtractionNext]_(Extraction!extractionVars)
  <2>1. CASE outcome = "open"
    <3>1. Extraction!Justified(why)
      BY <1>6 DEF Extraction!Justified
    <3>2. Extraction!Refuse(why)
      BY <1>6, <2>1, <3>1 DEF Extraction!Refuse, Refused
    <3> QED
      BY <1>6, <3>2 DEF Extraction!ExtractionNext
  <2>2. CASE outcome # "open"
    BY <1>1, <1>6, <2>2 DEF Refused
  <2> QED
    BY <2>1, <2>2
<1>7. CASE CallStep
  <2>1. UNCHANGED <<doc, limits, silence, current_arg_num, lines>>
    BY <1>7, CallStepKeeps DEF settings
  <2>2. \/ Refused("bytes") \/ Refused("library") \/ CompleteDone
        \/ UNCHANGED <<outcome, reason>>
    BY <1>7 DEF CallStep, ProcessChunk, CallRefused, CallAgainAfterError, ChunkRefused,
       ChunkParsed, ChunkDone, ChunkFails, Complete, CompleteSteps, CompleteTruncated,
       CompleteStarted, CompleteFails, FileRefused, FileChunk, FileReadError,
       FileComplete, told
  <2>3. CASE CompleteDone
    <3>1. CASE Refused("output")
      BY <1>6, <2>1, <3>1
    <3>2. CASE UNCHANGED reason
               /\ outcome' = IF outcome = "open" THEN "accepted" ELSE outcome
      <4>1. CASE outcome = "open"
        <5>1. Extraction!Accept
          BY <2>1, <2>3, <3>2, <4>1, SameEvents DEF Extraction!Accept, CompleteDone
        <5> QED
          BY <5>1 DEF Extraction!ExtractionNext
      <4>2. CASE outcome # "open"
        BY <1>1, <2>1, <3>2, <4>2
      <4> QED
        BY <4>1, <4>2
    <3> QED
      BY <2>3, <3>1, <3>2 DEF CompleteDone
  <2> QED
    BY <1>1, <1>6, <2>1, <2>2, <2>3
<1>8. ASSUME NEW o \in {"open", None}, Forget(o), current_arg_num' = 0
      PROVE  Extraction!Fresh /\ outcome' = o
  BY <1>8, SameEvents DEF Forget, Extraction!Fresh, None
<1>9. CASE YajlInit
  <2>1. /\ limits' = Defaults /\ limits = Defaults /\ silence' = FALSE
        /\ current_arg_num' = 0 /\ (Forget("open") \/ Forget(None))
    BY <1>0, <1>9, ClearingEffect
       DEF YajlInit, Clearing, ClearState, ClearCounters, Control, Defaults
  <2>2. Extraction!NewDocument \/ Extraction!NoDocument
    BY <1>0, <1>8, <2>1 DEF Extraction!NewDocument, Extraction!NoDocument, None
  <2> QED
    BY <2>2 DEF Extraction!ExtractionNext
<1>10. CASE YajlCleanup
  <2>1. /\ limits' = Defaults /\ silence' = FALSE
        /\ current_arg_num' = 0 /\ Forget(None)
    BY <1>10 DEF YajlCleanup, ClearState, ClearCounters, Defaults
  <2>2. Extraction!NoDocument
    BY <1>8, <2>1, DefaultsType DEF Extraction!NoDocument, None
  <2> QED
    BY <2>2 DEF Extraction!ExtractionNext
<1>11. CASE FileOpened
  <2>1. /\ limits' = limits /\ silence' = silence
        /\ current_arg_num' = 0 /\ (Forget("open") \/ Forget(None))
    BY <1>11 DEF FileOpened, ClearState, ClearCounters, settings
  <2>2. Extraction!NewDocument \/ Extraction!NoDocument
    BY <1>0, <1>8, <2>1 DEF Extraction!NewDocument, Extraction!NoDocument, None
  <2> QED
    BY <2>2 DEF Extraction!ExtractionNext
<1>12. CASE Configure
  <2>1. Extraction!Configure
    BY <1>12, SameEvents DEF Configure, Extraction!Configure, told
  <2> QED
    BY <2>1 DEF Extraction!ExtractionNext
<1>13. CASE UNCHANGED vars
  BY <1>1, <1>13 DEF vars, settings, told
<1> QED
  BY <1>2, <1>3, <1>4, <1>5, <1>7, <1>9, <1>10, <1>11, <1>12, <1>13, StepKinds
     DEF Callback, Clearing

LEMMA InitImplements == Init => Extraction!ExtractionInit
BY DefaultsType, SameEvents DEF Init, Extraction!ExtractionInit, Defaults, None

\* Every behaviour of the adapter, through any callbacks, failed allocations,
\* chunks, files and reuse, is one ArgumentExtraction allows, for any keys,
\* limits and sizes: every scalar is reported once, in order, under the name of
\* its position, and a limit refuses only the document that passes it.
THEOREM Implements == Spec => ImplementsExtraction
BY InitImplements, InductiveInvariant, StepImplements, PTL
   DEF Spec, ImplementsExtraction, Extraction!ExtractionSpec


=============================================================================
