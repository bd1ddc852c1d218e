----------------------------- MODULE YajlAdapter -----------------------------
(***************************************************************************)
(* The YAJL adapter: its callbacks, its incremental interface and its file *)
(* interface, with the memory it owns.  YAJL itself is external: while a   *)
(* call of it is in progress (pc) it reports any events the grammar of     *)
(* JsonEvents allows, stops when a callback returns 0, and stays in error  *)
(* once it has failed.  The bytes of a chunk are abstract: the guard of    *)
(* YajlGuard accepts or refuses them, before YAJL sees the chunk.          *)
(***************************************************************************)
EXTENDS JsonEvents, Integers

CONSTANTS
    Keys,               \* the object keys of documents
    JSON_STRING_SIZE,   \* the size of the prefix and key buffers
    DepthLimits,        \* the limits a client may set; negative ones too
    ArgumentLimits,
    DefaultLimit,       \* 500
    InitialCapacity,    \* 16 frames
    MaxCapacity,        \* SIZE_MAX / (2 * sizeof(frame))
    MaxEvents,          \* bound: events YAJL reports for one chunk
    MaxChunks           \* bound: chunks fread delivers from one file

ASSUME YajlAssumption ==
    /\ Keys \subseteq Seq(Byte)
    /\ JSON_STRING_SIZE \in Nat /\ JSON_STRING_SIZE > Len(ArrayName)
    /\ DepthLimits \subseteq Int /\ ArgumentLimits \subseteq Int
    /\ DefaultLimit \in Nat
    /\ DefaultLimit \in DepthLimits /\ DefaultLimit \in ArgumentLimits
    /\ InitialCapacity \in Nat \ {0} /\ MaxCapacity \in Nat
    /\ MaxEvents \in Nat /\ MaxChunks \in Nat

VARIABLES
    \* Memory owned by the adapter.
    heap,      \* which of Blocks are allocated; "p" is the structure itself
    saved,     \* how many saved keys are allocated
    \* The path: prefix[0..prefix_len), current_key[0..current_key_len).
    prefix, current_key, frames, frame_capacity, current_depth,
    \* Settings and results of the current document.
    limits, silence,
    current_arg_num, depth_limit_exceeded, arg_num_limit_exceeded,
    callback_error, completed, status,
    utf8_remaining,   \* a multi-byte sequence is open at the end of the chunk
    \* Control: the call in progress and what the last one returned.
    pc,        \* "idle", or inside yajl_parse or yajl_complete_parse
    in_file,   \* inside yajl_parse_file
    result,
    left,      \* events YAJL still finds in this chunk
    chunks,    \* chunks left in the file
    \* The world outside: the document, the lines printed, how many of them a
    \* flush has delivered, and what the client was told.
    doc, lines, flushed, outcome, reason

memory   == <<heap, saved>>
path     == <<prefix, current_key, frames, frame_capacity, current_depth>>
settings == <<limits, silence>>
flags    == <<depth_limit_exceeded, arg_num_limit_exceeded>>
guard    == <<callback_error, completed, status>>
input    == <<left, chunks>>
told     == <<outcome, reason, flushed>>
vars     == <<memory, path, settings, current_arg_num, flags, guard,
              utf8_remaining, pc, in_file, result, input, doc, lines, told>>

Blocks == {"p", "prefix", "current_key", "handle", "frames"}
Alive == "p" \in heap
None == "none"

(***************************************************************************)
(* Mutated forms, for mutation runs only.                                  *)
(***************************************************************************)

\* The frame array is not freed; the limit is off by one; the boundary is taken
\* early, or after the prefix has grown; the depth is cleared instead of the
\* counter, or without the other flag; the loop does not advance; the result of
\* the last flush is not looked at.
ReleasedNoFrames(h) == h \ {"p", "prefix", "current_key", "handle"}
AtLimitLate(n, limit) == n > limit
SavedEarly(p, k) == Len(p) - 1
SavedLate(p, k) == Len(p) + Len(k)
DepthCleared == current_depth' = 0 /\ UNCHANGED current_arg_num
DepthFlagCleared == depth_limit_exceeded' = FALSE /\ UNCHANGED arg_num_limit_exceeded
NotConsumed(n) == n
FlushIgnored == flushed' \in {flushed, Len(lines)}

(***************************************************************************)
(* Helpers.                                                                *)
(***************************************************************************)

\* What yajl_json_cleanup frees.
Released(h) == h \ {"p", "prefix", "current_key", "handle", "frames"}

NewCapacity(c) == IF c = 0 THEN InitialCapacity ELSE 2 * c

\* The frame array has to grow before another frame is stored.
IsFull(n, c) == n = c

AtLimit(n, limit) == n >= limit

\* A string and its terminator fit into a buffer of JSON_STRING_SIZE bytes.
Fits(n) == n < JSON_STRING_SIZE

NameLength(p, k) == Len(p) + (IF p = <<>> THEN 0 ELSE 1) + Len(k)

\* What a frame remembers of the prefix, and the depth when it is popped.
SavedLength(p, k) == Len(p)
Shallower(d) == d - 1

\* What fread leaves of the file.
Consumed(n) == n - 1

(***************************************************************************)
(* Start of a life and of a document.                                      *)
(***************************************************************************)

ClearCounters == current_depth' = 0 /\ current_arg_num' = 0
ClearFlags == depth_limit_exceeded' = FALSE /\ arg_num_limit_exceeded' = FALSE

\* clear_state: everything about the last document but the capacity of the
\* frame array and the settings.
ClearState ==
    /\ saved' = saved - Len(frames)
    /\ prefix' = <<>> /\ current_key' = <<>> /\ frames' = <<>>
    /\ ClearCounters /\ ClearFlags
    /\ callback_error' = None /\ completed' = FALSE /\ status' = "ok"
    /\ utf8_remaining' = FALSE

\* No document is under way; what the client learns about the next one.
Forget(o) ==
    /\ doc' = Start /\ lines' = <<>> /\ flushed' = 0
    /\ outcome' = o /\ reason' = None

Init ==
    /\ heap = {} /\ saved = 0
    /\ prefix = <<>> /\ current_key = <<>> /\ frames = <<>>
    /\ frame_capacity = 0 /\ current_depth = 0
    /\ limits = [depth |-> DefaultLimit, args |-> DefaultLimit]
    /\ silence = FALSE
    /\ current_arg_num = 0
    /\ depth_limit_exceeded = FALSE /\ arg_num_limit_exceeded = FALSE
    /\ callback_error = None /\ completed = FALSE /\ status = "ok"
    /\ utf8_remaining = FALSE
    /\ pc = "idle" /\ in_file = FALSE /\ result = "ok"
    /\ left = 0 /\ chunks = 0
    /\ doc = Start /\ lines = <<>> /\ flushed = 0
    /\ outcome = None /\ reason = None

\* A client calls only a parser that is not inside a call.
Ready == Alive /\ pc = "idle" /\ ~in_file

\* yajl_json_init: calloc, two buffers, and reset's yajl_alloc once both are
\* there.  A partial failure is cleaned up and reported.
YajlInit ==
    /\ heap = {}
    /\ limits' = [depth |-> DefaultLimit, args |-> DefaultLimit]
    /\ silence' = FALSE
    /\ \E got \in SUBSET {"p", "prefix", "current_key", "handle"} :
          /\ "p" \in got \/ got = {}
          /\ "handle" \in got => {"prefix", "current_key"} \subseteq got
          /\ heap' = IF "handle" \in got THEN got ELSE Released(got)
          /\ result' = IF "handle" \in got THEN "ok" ELSE "error"
          /\ Forget(IF "handle" \in got THEN "open" ELSE None)
    /\ ClearState
    /\ UNCHANGED <<frame_capacity, pc, in_file, input>>

\* yajl_json_cleanup.
YajlCleanup ==
    /\ Ready
    /\ heap' = Released(heap)
    /\ frame_capacity' = 0
    /\ limits' = [depth |-> DefaultLimit, args |-> DefaultLimit]
    /\ silence' = FALSE
    /\ result' = "ok"
    /\ ClearState
    /\ Forget(None)
    /\ UNCHANGED <<pc, in_file, input>>

\* The client writes the public limits and silence, between documents.
Configure ==
    /\ Ready
    /\ outcome = "open" => doc = Start
    /\ limits' \in [depth : DepthLimits, args : ArgumentLimits]
    /\ silence' \in BOOLEAN
    /\ UNCHANGED <<memory, path, current_arg_num, flags, guard, utf8_remaining,
                   pc, in_file, result, input, doc, lines, told>>

(***************************************************************************)
(* How calls end.                                                          *)
(***************************************************************************)

\* A call returns; an error also ends the loop of yajl_parse_file.
Return(r) ==
    /\ pc' = "idle"
    /\ result' = r
    /\ in_file' = (in_file /\ r = "ok" /\ pc # "completing" /\ pc # "finishing")

\* The client is told that the document is refused, if it is still open; what is
\* left in the buffer of stdout stays there.
Refused(why) ==
    /\ UNCHANGED flushed
    /\ outcome' = IF outcome = "open" THEN "refused" ELSE outcome
    /\ reason' = IF outcome = "open" THEN why ELSE reason

\* reject() in a callback: YAJL stops, and so does the call.
Cancel(why) ==
    /\ callback_error' = why
    /\ status' = "canceled"
    /\ completed' = (pc # "parsing")
    /\ Refused(why)
    /\ left' = 0
    /\ Return("error")
    /\ UNCHANGED <<chunks, settings, utf8_remaining, doc, lines>>

(***************************************************************************)
(* Callbacks.  A pending number is all that yajl_complete_parse reports.   *)
(***************************************************************************)

Parsing == pc = "parsing" /\ status = "ok" /\ left > 0
Running == Parsing \/ (pc = "completing" /\ status = "ok")

\* The callback returns 1 and YAJL goes on.
Continue ==
    /\ left' = IF pc = "parsing" THEN left - 1 ELSE left
    /\ pc' = IF pc = "completing" THEN "finishing" ELSE pc
    /\ UNCHANGED <<chunks, settings, guard, utf8_remaining, in_file, result,
                   told>>

MapKey(k) ==
    /\ Parsing /\ WantsKey(doc)
    /\ UNCHANGED <<memory, current_arg_num, flags>>
    /\ \/ /\ ~Fits(Len(k))
          /\ Cancel("name")
          /\ UNCHANGED path
       \/ /\ Fits(Len(k))
          /\ current_key' = k
          /\ doc' = AfterKey(doc, k)
          /\ Continue
          /\ UNCHANGED <<prefix, frames, frame_capacity, current_depth, lines>>

\* The name as json_add_argument writes it.
WrittenName ==
    (IF prefix = <<>> THEN <<>> ELSE Append(prefix, Dot)) \o current_key

\* null, boolean, string and number; long: the value does not fit.
Scalar(long) ==
    /\ Running /\ WantsValue(doc)
    /\ UNCHANGED <<memory, path, depth_limit_exceeded>>
    /\ \/ /\ AtLimit(current_arg_num, limits.args)
          /\ arg_num_limit_exceeded' = TRUE
          /\ Cancel("arguments")
          /\ UNCHANGED current_arg_num
       \/ /\ ~AtLimit(current_arg_num, limits.args)
          /\ ~Fits(NameLength(prefix, current_key)) \/ long
          /\ Cancel(IF Fits(NameLength(prefix, current_key)) THEN "value"
                    ELSE "name")
          /\ UNCHANGED <<current_arg_num, arg_num_limit_exceeded>>
       \/ /\ ~AtLimit(current_arg_num, limits.args)
          /\ Fits(NameLength(prefix, current_key)) /\ ~long
          /\ current_arg_num' = current_arg_num + 1
          /\ lines' = IF silence THEN lines ELSE Append(lines, WrittenName)
          /\ doc' = AfterValue(doc)
          /\ Continue
          /\ UNCHANGED arg_num_limit_exceeded
       \/ /\ ~AtLimit(current_arg_num, limits.args)     \* a short write
          /\ Fits(NameLength(prefix, current_key)) /\ ~long /\ ~silence
          /\ current_arg_num' = current_arg_num + 1
          /\ Cancel("output")
          /\ UNCHANGED arg_num_limit_exceeded

RootArray(array) == array /\ frames = <<>>
StartLength(array) == IF RootArray(array) THEN Len(ArrayName)
                      ELSE NameLength(prefix, current_key)

\* start_container without its allocations: over a limit.
StartOverLimit(array) ==
    /\ UNCHANGED <<memory, path, current_arg_num, arg_num_limit_exceeded>>
    /\ \/ /\ AtLimit(current_depth, limits.depth)
          /\ depth_limit_exceeded' = TRUE
          /\ Cancel("depth")
       \/ /\ ~AtLimit(current_depth, limits.depth)
          /\ ~Fits(StartLength(array))
          /\ Cancel("name")
          /\ UNCHANGED depth_limit_exceeded

\* An allocation of start_container fails; the array may have grown by then.
StartFails(array) ==
    LET full == IsFull(Len(frames), frame_capacity) IN
    /\ \/ full /\ UNCHANGED <<memory, path>>   \* the capacity bound, or realloc
       \/ /\ full => frame_capacity <= MaxCapacity
          /\ frame_capacity' = IF full THEN NewCapacity(frame_capacity)
                               ELSE frame_capacity
          /\ heap' = heap \cup {"frames"}
          /\ UNCHANGED <<saved, prefix, current_key, frames, current_depth>>
    /\ Cancel("memory")
    /\ UNCHANGED <<current_arg_num, flags>>

StartSucceeds(array) ==
    LET full == IsFull(Len(frames), frame_capacity) IN
    /\ full => frame_capacity <= MaxCapacity
    /\ frame_capacity' = IF full THEN NewCapacity(frame_capacity)
                         ELSE frame_capacity
    /\ heap' = heap \cup {"frames"}
    /\ saved' = saved + 1
    /\ frames' = Append(frames, [prefix_length |-> SavedLength(prefix, current_key),
                                 key |-> current_key])
    /\ prefix' = IF RootArray(array) THEN ArrayName ELSE WrittenName
    /\ current_key' = IF RootArray(array) THEN ArrayName ELSE current_key
    /\ current_depth' = current_depth + 1
    /\ doc' = AfterOpen(doc, array)
    /\ Continue
    /\ UNCHANGED <<current_arg_num, flags, lines>>

StartContainer(array) ==
    /\ Parsing /\ WantsValue(doc)
    /\ \/ StartOverLimit(array)
       \/ /\ ~AtLimit(current_depth, limits.depth)
          /\ Fits(StartLength(array))
          /\ StartFails(array) \/ StartSucceeds(array)

EndContainer ==
    /\ Parsing /\ MayClose(doc)
    /\ UNCHANGED <<heap, current_arg_num, flags>>
    /\ IF frames = <<>>
       THEN Cancel("unpaired") /\ UNCHANGED <<saved, path>>
       ELSE LET frame == frames[Len(frames)] IN
            /\ prefix' = SubSeq(prefix, 1, frame.prefix_length)
            /\ current_key' = frame.key
            /\ frames' = SubSeq(frames, 1, Len(frames) - 1)
            /\ saved' = saved - 1
            /\ current_depth' = Shallower(current_depth)
            /\ doc' = AfterClose(doc)
            /\ Continue
            /\ UNCHANGED <<frame_capacity, lines>>

(***************************************************************************)
(* yajl_json_process_chunk, called by a client or by yajl_parse_file.      *)
(***************************************************************************)

\* A call that returns -1 without looking at the document: no parser handle,
\* or the document was finalized.
CallRefused ==
    /\ "handle" \notin heap \/ completed
    /\ Return("error")
    /\ UNCHANGED <<memory, path, settings, current_arg_num, flags, guard,
                   utf8_remaining, input, doc, lines, told>>

\* The sticky error of an earlier call or callback.
CallAgainAfterError ==
    /\ "handle" \in heap /\ ~completed /\ callback_error # None
    /\ Return("error")
    /\ UNCHANGED <<memory, path, settings, current_arg_num, flags, guard,
                   utf8_remaining, input, doc, lines, told>>

Usable == "handle" \in heap /\ ~completed /\ callback_error = None

\* The guard refuses a byte of the chunk: YAJL never sees the chunk.
ChunkRefused ==
    /\ Usable
    /\ callback_error' = "bytes"
    /\ utf8_remaining' \in BOOLEAN
    /\ Refused("bytes")
    /\ Return("error")
    /\ UNCHANGED <<memory, path, settings, current_arg_num, flags, completed,
                   status, left, doc, lines>>

\* The guard has read the whole chunk, and perhaps part of a character.
ChunkParsed ==
    /\ Usable
    /\ utf8_remaining' \in BOOLEAN
    /\ left' \in 0..MaxEvents
    /\ pc' = "parsing"
    /\ UNCHANGED <<memory, path, settings, current_arg_num, flags, guard,
                   in_file, result, doc, lines, told>>

ProcessChunk ==
    /\ Ready
    /\ UNCHANGED chunks
    /\ \/ CallRefused
       \/ CallAgainAfterError
       \/ ChunkRefused
       \/ ChunkParsed

\* yajl_parse has consumed the chunk.  A chunk that ends inside a character
\* ends inside a token, so the document is not over.
ChunkDone ==
    /\ pc = "parsing" /\ status = "ok" /\ left = 0
    /\ utf8_remaining => ~IsWhole(doc)
    /\ Return("ok")
    /\ UNCHANGED <<memory, path, settings, current_arg_num, flags, guard,
                   utf8_remaining, input, doc, lines, told>>

\* YAJL finds a lexical or grammatical error, now or on an earlier call.
ChunkFails ==
    /\ pc = "parsing"
    /\ status' = "error"
    /\ left' = 0
    /\ Refused("library")
    /\ Return("error")
    /\ UNCHANGED <<memory, path, settings, current_arg_num, flags,
                   callback_error, completed, utf8_remaining, chunks, doc, lines>>

(***************************************************************************)
(* yajl_json_complete.                                                     *)
(***************************************************************************)

\* A document that ends inside a character.
CompleteTruncated ==
    /\ Usable /\ utf8_remaining
    /\ callback_error' = "bytes"
    /\ Refused("bytes")
    /\ Return("error")
    /\ UNCHANGED <<memory, path, settings, current_arg_num, flags, completed,
                   status, utf8_remaining, input, doc, lines>>

CompleteStarted ==
    /\ Usable /\ ~utf8_remaining
    /\ pc' = "completing"
    /\ UNCHANGED <<memory, path, settings, current_arg_num, flags, guard,
                   utf8_remaining, in_file, result, input, doc, lines, told>>

CompleteSteps ==
    \/ CallRefused
    \/ CallAgainAfterError
    \/ CompleteTruncated
    \/ CompleteStarted

Complete == Ready /\ CompleteSteps

Finishing == pc \in {"completing", "finishing"}

\* The flush succeeds, and a silent parser does without.
FlushDone == flushed' = IF silence THEN flushed ELSE Len(lines)

\* The whole document was read, and stdout could be flushed unless silent.
CompleteDone ==
    /\ Finishing /\ status = "ok" /\ IsWhole(doc)
    /\ completed' = TRUE
    /\ \/ /\ outcome' = IF outcome = "open" THEN "accepted" ELSE outcome
          /\ FlushDone
          /\ Return("ok")
          /\ UNCHANGED reason
       \/ /\ ~silence
          /\ Refused("output")
          /\ Return("error")
    /\ UNCHANGED <<memory, path, settings, current_arg_num, flags,
                   callback_error, status, utf8_remaining, input, doc, lines>>

\* Premature end of the text, or an error YAJL is already in.
CompleteFails ==
    /\ Finishing
    /\ status = "ok" => ~IsWhole(doc)
    /\ completed' = TRUE
    /\ status' = "error"
    /\ Refused("library")
    /\ Return("error")
    /\ UNCHANGED <<memory, path, settings, current_arg_num, flags,
                   callback_error, utf8_remaining, input, doc, lines>>

(***************************************************************************)
(* yajl_parse_file.                                                        *)
(***************************************************************************)

Negative == limits.depth < 0 \/ limits.args < 0

\* Negative limits and a file that does not open leave the document alone.
FileRefused ==
    /\ Ready
    /\ result' = "error"
    /\ UNCHANGED <<memory, path, settings, current_arg_num, flags, guard,
                   utf8_remaining, pc, in_file, input, doc, lines, told>>

\* reset: a new handle and a new document, or no handle at all.
FileOpened ==
    /\ Ready /\ ~Negative
    /\ ClearState
    /\ \/ /\ heap' = heap \cup {"handle"}
          /\ Forget("open")
          /\ in_file' = TRUE
          /\ chunks' \in 0..MaxChunks
          /\ UNCHANGED result
       \/ /\ heap' = heap \ {"handle"}
          /\ Forget(None)
          /\ result' = "error"
          /\ UNCHANGED <<in_file, chunks>>
    /\ UNCHANGED <<frame_capacity, settings, pc, left>>

ReadingFile == in_file /\ pc = "idle"

\* fread delivers a chunk.
FileChunk ==
    /\ ReadingFile /\ chunks > 0
    /\ chunks' = Consumed(chunks)
    /\ ChunkRefused \/ ChunkParsed

\* fread reports an error: -1, with the document left where it is.
FileReadError ==
    /\ ReadingFile
    /\ in_file' = FALSE
    /\ result' = "error"
    /\ UNCHANGED <<memory, path, settings, current_arg_num, flags, guard,
                   utf8_remaining, pc, input, doc, lines, told>>

\* The end of the file.
FileComplete == ReadingFile /\ chunks = 0 /\ CompleteSteps

Inside ==
    \/ \E k \in Keys : MapKey(k)
    \/ \E long \in BOOLEAN : Scalar(long)
    \/ \E array \in BOOLEAN : StartContainer(array)
    \/ EndContainer
    \/ ChunkDone
    \/ ChunkFails
    \/ CompleteDone
    \/ CompleteFails
    \/ FileChunk
    \/ FileReadError
    \/ FileComplete

Client ==
    \/ YajlInit
    \/ YajlCleanup
    \/ Configure
    \/ ProcessChunk
    \/ Complete
    \/ FileRefused
    \/ FileOpened

Next == Inside \/ Client

Spec == Init /\ [][Next]_vars

\* A call that has begun runs on: YAJL and fread return.
FairSpec == Spec /\ WF_vars(Inside)

(***************************************************************************)
(* Properties.                                                             *)
(***************************************************************************)

Errors == {None, "name", "value", "arguments", "depth", "memory", "output",
           "bytes", "unpaired", "library"}

\* Types of the adapter's state.
TypeOK ==
    /\ heap \subseteq Blocks /\ saved \in Int
    /\ prefix \in Seq(Byte) /\ current_key \in Seq(Byte)
    /\ frames \in Seq([prefix_length : Nat, key : Seq(Byte)])
    /\ frame_capacity \in Nat /\ current_depth \in Int
    /\ limits \in [depth : DepthLimits, args : ArgumentLimits]
    /\ silence \in BOOLEAN
    /\ current_arg_num \in Nat
    /\ depth_limit_exceeded \in BOOLEAN /\ arg_num_limit_exceeded \in BOOLEAN
    /\ callback_error \in Errors /\ completed \in BOOLEAN
    /\ status \in {"ok", "canceled", "error"} /\ utf8_remaining \in BOOLEAN
    /\ pc \in {"idle", "parsing", "completing", "finishing"}
    /\ in_file \in BOOLEAN /\ result \in {"ok", "error"}
    /\ left \in 0..MaxEvents /\ chunks \in 0..MaxChunks
    /\ doc \in Positions /\ lines \in Seq(Seq(Byte)) /\ flushed \in Nat
    /\ outcome \in {None, "open", "accepted", "refused"}
    /\ reason \in Errors

\* The depth the limit is checked against is the number of saved frames and
\* the real nesting of the document, also after a refusal; the bytes cut and
\* appended in place are the labels of the open containers joined, and when a
\* value is due its key is the label of its position: nothing of a sibling or
\* of an earlier branch is left in either buffer.
PathIsPosition ==
    /\ current_depth = Len(frames) /\ Len(frames) = Len(doc.open)
    /\ callback_error # "unpaired"
    /\ prefix = Display(OpenLabels(doc))
    /\ WantsValue(doc) => current_key = LabelOf(doc, FALSE)

\* No block outlives the structure, and there is one saved key per frame: a
\* failed initialisation, a reset in the middle of a document and a cleanup in
\* any state leak nothing and free nothing twice.  The writes in place stay
\* inside the two buffers, with their terminators, and inside the frame array.
MemorySafe ==
    /\ saved = Len(frames)
    /\ frames # <<>> => "frames" \in heap
    /\ IF Alive THEN {"prefix", "current_key"} \subseteq heap
       ELSE heap = {} /\ saved = 0
    /\ Len(prefix) < JSON_STRING_SIZE
    /\ Len(current_key) < JSON_STRING_SIZE
    /\ Len(frames) <= frame_capacity

\* The flags, the message of every later call and the first refusal tell one
\* story.  Only an error of YAJL itself, or of the final flush, is not kept as
\* the message, and a bad byte in a later chunk can replace YAJL's.
DiagnosticsAgree ==
    /\ depth_limit_exceeded = (callback_error = "depth")
    /\ arg_num_limit_exceeded = (callback_error = "arguments")
    /\ outcome = "refused" =>
         \/ callback_error = reason
         \/ reason \in {"library", "output"} /\ callback_error = None
         \/ reason = "library" /\ callback_error = "bytes"
    /\ callback_error # None => outcome = "refused"

\* A document is accepted only with every one of its arguments printed and none
\* left in the buffer of stdout, unless the parser is silent.
NothingLost ==
    [][outcome' = "accepted" /\ outcome # "accepted"
         => silence \/ (Len(lines) = current_arg_num /\ flushed' = Len(lines))]_vars

Extraction == INSTANCE ArgumentExtraction WITH
    Reasons <- {"memory", "output", "bytes", "library"},
    silent <- silence,
    count <- current_arg_num,
    verdict <- outcome

\* Every document fed to the adapter, in any number of chunks and after any
\* earlier document, is treated as ArgumentExtraction promises.
ImplementsExtraction == Extraction!ExtractionSpec

\* A file that ends is parsed to an end: yajl_parse_file returns.
FileReturns == in_file ~> ~in_file

=============================================================================
