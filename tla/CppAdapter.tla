------------------------------ MODULE CppAdapter -----------------------------
(***************************************************************************)
(* The five C++ adapters that print arguments, from a call of parse_file   *)
(* or parse_buffer to its return.  RapidJSON, nlohmann and jsoncons call a *)
(* handler for each event; JsonCpp hands over a tree and simdjson a cursor *)
(* that is walked.  The first two and the last two keep their path in a    *)
(* PathHandler, whose operations are steps of this module; jsoncons keeps  *)
(* its own.  The libraries are external: an event is what the grammar of   *)
(* JsonEvents allows next, and a library may fail at any event.            *)
(***************************************************************************)
EXTENDS PathHandler, SequencesExt

CONSTANTS
    Engines,         \* some of the five
    DepthLimits, ArgumentLimits,
    NativeDepth,     \* simdjson's ceilings: 512 of the adapter, 1024 of its parser
    Trees            \* the sequences of keys a JsonCpp object may have

Streaming == {"rapidjson", "nlohmann", "jsoncons"}
Visiting == {"jsoncpp", "simdjson"}

ASSUME CppAssumption ==
    /\ Engines \subseteq Streaming \cup Visiting
    /\ DepthLimits \subseteq Nat /\ ArgumentLimits \subseteq Nat
    /\ NativeDepth \in Nat
    /\ \A t \in Trees : t \in Seq(Keys) /\ IsInjective(t)
    \* The bound of PathHandler is no bound here.
    /\ \A n \in DepthLimits : n < MaxFrames

VARIABLES
    engine,
    limits, silence,     \* max_depth and max_args, silence
    stage,               \* what the call is about to do
    buffered,            \* the text is a buffer and not a file
    rest,                \* something follows the first document of the text
    torn,                \* the stream has its error flag set
    depth,               \* depth_, or the parameter of visit
    arguments,           \* arguments_, count_
    visits,              \* JsonCpp: the objects being visited
    status, messages,    \* what the caller gets: 0 or not (2), and *error_msg
    \* The world: position, stdout, the outcome and its ground.
    doc, lines, outcome, reason

settings == <<engine, limits, silence>>
input    == <<buffered, rest, torn>>
answer   == <<status, messages>>
world    == <<doc, lines, outcome, reason>>
cppVars  == <<vars, settings, stage, input, depth, arguments, visits, answer, world>>

Doc == INSTANCE JsonEvents

(***************************************************************************)
(* Mutated forms, for mutation runs only.                                  *)
(***************************************************************************)

\* The limit is passed by one; the order of the native map is kept; content
\* behind the document is not looked for.
AtLimitLate(n, limit) == n > limit
KeyOrder(t) == SetToSeq(ToSet(t))
MoreIgnored == FALSE

(***************************************************************************)
(* How the adapters differ.                                                *)
(***************************************************************************)

AtLimit(n, limit) == n >= limit

\* The argument limit is tested before the name is built, or at last.
CountsFirst == engine \in {"nlohmann", "jsoncons"}

\* A read error that the library takes for the end of the text.
ChecksStream == engine \in {"rapidjson", "jsoncons"}

\* JsonCpp keeps members in key order; their offsets restore the source order.
Offset(t, k) == CHOOSE i \in DOMAIN t : t[i] = k
VisitOrder(t) ==
    LET members == ToSet(t)
    IN  CHOOSE s \in [1..Cardinality(members) -> members] :
            \A i, j \in DOMAIN s : i < j => Offset(t, s[i]) < Offset(t, s[j])

(***************************************************************************)
(* Ways out.  A streaming handler returns false, and the library returns;  *)
(* a visitor throws to the boundary of the C interface, as the standard    *)
(* library does everywhere.                                                *)
(***************************************************************************)

Ends(why, where) ==
    /\ outcome' = "refused" /\ reason' = why
    /\ stage' = where
    /\ UNCHANGED <<doc, lines>>

Fail(why) == Ends(why, IF engine \in Visiting THEN "caught" ELSE "finish")
Throw(why) == Ends(why, "caught")

Proceed == UNCHANGED <<stage, outcome, reason, lines>>
Kept == UNCHANGED <<settings, input, answer>>
PathKept == UNCHANGED vars

(***************************************************************************)
(* Entering and leaving containers.                                        *)
(***************************************************************************)

Awaits(next) == stage = "events" /\ outcome = "open" /\ next

TooDeep ==
    /\ \/ AtLimit(depth, limits.depth) /\ Fail("depth")
       \/ /\ ~AtLimit(depth, limits.depth)
          /\ engine = "simdjson" /\ depth >= NativeDepth
          /\ Fail("native depth")
    /\ PathKept /\ UNCHANGED <<depth, visits>>

\* JsonCpp: the members of the object, in the source and as they are visited.
Visited(array) ==
    \/ /\ engine = "jsoncpp" /\ ~array
       /\ \E t \in Trees :
              visits' = Append(visits, [source |-> t, order |-> VisitOrder(t)])
    \/ /\ engine = "jsoncpp" /\ array
       /\ visits' = Append(visits, [source |-> <<>>, order |-> <<>>])
    \/ engine # "jsoncpp" /\ UNCHANGED visits

\* An error of the path: the name is too long, or memory has run out.
PathError(length) == Fail(IF Fits(length) THEN "memory" ELSE "name")

BeginInPathHandler(array) ==
    /\ engine # "jsoncons"
    /\ Start(array)
    /\ \/ /\ m_error'
          /\ PathError(StartLength(array))
          /\ depth' = IF engine = "rapidjson" THEN depth + 1 ELSE depth
          /\ UNCHANGED visits
       \/ /\ ~m_error'
          /\ doc' = Doc!AfterOpen(doc, array)
          /\ depth' = depth + 1
          /\ Visited(array)
          /\ Proceed

\* ArgumentVisitor::begin of jsoncons; stack_ is kept in frames.
BeginInJsoncons(array) ==
    LET root == array /\ frames = <<>>
        length == IF root THEN Len(ArrayName)
                  ELSE Len(prefix) + Len(key) + IF prefix # <<>> THEN 1 ELSE 0
    IN  /\ engine = "jsoncons"
        /\ \/ /\ length >= JSON_STRING_SIZE
              /\ Fail("name")
              /\ PathKept /\ UNCHANGED depth
           \/ /\ length < JSON_STRING_SIZE
              /\ frames' = Append(frames, [prefix_length |-> Len(prefix), key |-> key])
              /\ prefix' = IF root THEN ArrayName
                           ELSE IF prefix = <<>> THEN key
                           ELSE prefix \o <<Dot>> \o key
              /\ key' = IF root THEN ArrayName ELSE key
              /\ depth' = depth + 1
              /\ doc' = Doc!AfterOpen(doc, array)
              /\ Proceed
              /\ UNCHANGED <<m_error, given>>
           \/ /\ length < JSON_STRING_SIZE     \* std::bad_alloc
              /\ Throw("memory")
              /\ PathKept /\ UNCHANGED depth
        /\ UNCHANGED visits

Begin(array) ==
    /\ Awaits(Doc!WantsValue(doc))
    /\ \/ TooDeep
       \/ /\ ~AtLimit(depth, limits.depth)
          /\ engine = "simdjson" => depth < NativeDepth
          /\ BeginInPathHandler(array) \/ BeginInJsoncons(array)
    /\ Kept /\ UNCHANGED arguments

\* ArgumentVisitor::end of jsoncons.
EndInJsoncons ==
    LET top == frames[Len(frames)]
    IN  /\ engine = "jsoncons"
        /\ prefix' = SubSeq(prefix, 1, top.prefix_length)
        /\ key' = top.key
        /\ frames' = SubSeq(frames, 1, Len(frames) - 1)
        /\ UNCHANGED <<m_error, given>>

\* A tree visitor leaves an object when it has visited its members.
AllVisited ==
    engine = "jsoncpp" /\ Doc!InObject(doc) => visits[Len(visits)].order = <<>>

End ==
    /\ Awaits(Doc!MayClose(doc) /\ AllVisited)
    /\ (engine # "jsoncons" /\ Pop) \/ EndInJsoncons
    /\ depth' = depth - 1
    /\ doc' = Doc!AfterClose(doc)
    /\ visits' = IF engine = "jsoncpp" THEN Front(visits) ELSE visits
    /\ Proceed /\ Kept /\ UNCHANGED arguments

(***************************************************************************)
(* Keys.                                                                   *)
(***************************************************************************)

\* The next member in the source, and the one the visitor turns to.
KeyComes(k) ==
    \/ engine # "jsoncpp" /\ UNCHANGED visits /\ doc' = Doc!AfterKey(doc, k)
    \/ /\ engine = "jsoncpp"
       /\ LET top == visits[Len(visits)] IN
          /\ top.order # <<>> /\ k = Head(top.order)
          /\ visits' = [visits EXCEPT ![Len(visits)] =
                           [source |-> Tail(top.source), order |-> Tail(top.order)]]
          /\ doc' = Doc!AfterKey(doc, Head(top.source))

KeyIsNext(k) ==
    engine = "jsoncpp" => LET top == visits[Len(visits)] IN
                          top.order # <<>> /\ k = Head(top.order)

\* RapidJSON's handler looks at length and text before the path sees a key.
RapidKeyRefused(k) ==
    /\ engine = "rapidjson"
    /\ \/ Len(k) >= JSON_STRING_SIZE /\ Fail("name")
       \/ Len(k) < JSON_STRING_SIZE /\ Fail("unicode")
    /\ PathKept /\ UNCHANGED visits

KeyInPathHandler(k) ==
    /\ engine # "jsoncons"
    /\ engine = "rapidjson" => Len(k) < JSON_STRING_SIZE
    /\ SetKey(k)
    /\ \/ m_error' /\ PathError(Len(k)) /\ UNCHANGED visits
       \/ ~m_error' /\ KeyComes(k) /\ Proceed

KeyInJsoncons(k) ==
    /\ engine = "jsoncons"
    /\ \/ Len(k) >= JSON_STRING_SIZE /\ Fail("name") /\ UNCHANGED key
       \/ Len(k) < JSON_STRING_SIZE /\ key' = k /\ doc' = Doc!AfterKey(doc, k)
          /\ Proceed
       \/ Len(k) < JSON_STRING_SIZE /\ Throw("memory") /\ UNCHANGED key
    /\ UNCHANGED <<prefix, frames, m_error, given, visits>>

Key(k) ==
    /\ Awaits(Doc!WantsKey(doc) /\ KeyIsNext(k))
    /\ RapidKeyRefused(k) \/ KeyInPathHandler(k) \/ KeyInJsoncons(k)
    /\ Kept /\ UNCHANGED <<depth, arguments>>

(***************************************************************************)
(* Arguments.                                                              *)
(***************************************************************************)

\* The count, and the line unless it is cut short.
Emit(name) ==
    /\ arguments' = arguments + 1
    /\ \/ /\ doc' = Doc!AfterValue(doc)
          /\ lines' = IF silence THEN lines ELSE Append(lines, name)
          /\ UNCHANGED <<stage, outcome, reason>>
       \/ ~silence /\ Fail("output")

\* What is left to test when the name is known.
EmitOrRefuse(name, long) ==
    \/ long /\ Fail("value") /\ UNCHANGED arguments
    \/ /\ ~long /\ ~CountsFirst /\ AtLimit(arguments, limits.args)
       /\ Fail("arguments") /\ UNCHANGED arguments
    \/ /\ ~long /\ ~AtLimit(arguments, limits.args)
       /\ Emit(name)

TooManyFirst ==
    /\ CountsFirst /\ AtLimit(arguments, limits.args)
    /\ Fail("arguments")
    /\ PathKept /\ UNCHANGED arguments

\* RJSAXHandler::String refuses before it asks for the name.
RapidStringRefused(long) ==
    /\ engine = "rapidjson"
    /\ Fail(IF long THEN "value" ELSE "unicode")
    /\ PathKept /\ UNCHANGED arguments

NamedByPathHandler(long) ==
    /\ engine # "jsoncons"
    /\ Name
    /\ \/ m_error' /\ PathError(NameLength(prefix, key)) /\ UNCHANGED arguments
       \/ ~m_error' /\ given' = {} /\ Throw("memory") /\ UNCHANGED arguments
       \/ ~m_error' /\ \E name \in given' : EmitOrRefuse(name, long)

\* ArgumentVisitor::argument of jsoncons writes the name in parts.
NamedByJsoncons(long) ==
    LET name == IF prefix = <<>> THEN key ELSE prefix \o <<Dot>> \o key
    IN  /\ engine = "jsoncons"
        /\ \/ /\ Len(name) >= JSON_STRING_SIZE
              /\ Fail("name") /\ UNCHANGED arguments
           \/ /\ Len(name) < JSON_STRING_SIZE
              /\ EmitOrRefuse(name, long)
        /\ PathKept

Argument(long) ==
    /\ Awaits(Doc!WantsValue(doc))
    /\ \/ TooManyFirst
       \/ RapidStringRefused(long)
       \/ /\ ~(CountsFirst /\ AtLimit(arguments, limits.args))
          /\ NamedByPathHandler(long) \/ NamedByJsoncons(long)
    /\ Kept /\ UNCHANGED <<depth, visits>>

(***************************************************************************)
(* The call.                                                               *)
(***************************************************************************)

CppInit ==
    /\ Init
    /\ engine \in Engines
    /\ limits \in [depth : DepthLimits, args : ArgumentLimits]
    /\ silence \in BOOLEAN
    /\ stage = "idle"
    /\ buffered = FALSE /\ rest = FALSE /\ torn = FALSE
    /\ depth = 0 /\ arguments = 0 /\ visits = <<>>
    /\ status = 0 /\ messages = 0
    /\ doc = Doc!Start /\ lines = <<>> /\ outcome = "none" /\ reason = "none"

\* set_max_depth, set_max_arg_num and set_silence, between calls.
Configure ==
    /\ stage = "idle"
    /\ limits' \in [depth : DepthLimits, args : ArgumentLimits]
    /\ silence' \in BOOLEAN
    /\ UNCHANGED <<vars, engine, stage, input, depth, arguments, visits, answer, world>>

\* A handler or visitor is made for each document.
Parse(fromBuffer, more) ==
    /\ stage = "idle"
    /\ fromBuffer => engine \in {"rapidjson", "nlohmann"}
    /\ stage' = "open"
    /\ buffered' = fromBuffer /\ rest' = more /\ torn' = FALSE
    /\ prefix' = <<>> /\ key' = <<>> /\ frames' = <<>>
    /\ m_error' = FALSE /\ given' = {}
    /\ depth' = 0 /\ arguments' = 0 /\ visits' = <<>>
    /\ messages' = 0
    /\ doc' = Doc!Start /\ lines' = <<>> /\ outcome' = "open" /\ reason' = "none"
    /\ UNCHANGED <<settings, status>>

\* The file is opened; JsonCpp and simdjson read all of it, and JsonCpp parses
\* it to the end, before the first event.
Open ==
    /\ stage = "open"
    /\ \/ /\ engine = "jsoncpp" => ~rest
          /\ stage' = "events" /\ UNCHANGED <<outcome, reason, doc, lines>>
       \/ ~buffered /\ Throw("file")
       \/ engine \in Visiting /\ \E why \in {"memory", "grammar"} : Throw(why)
       \/ engine = "jsoncpp"
          /\ \E why \in {"unicode", "repeated", "native depth"} : Throw(why)
    /\ PathKept /\ Kept /\ UNCHANGED <<depth, arguments, visits>>

\* The text is not JSON, or the library gives up; in a tree of JsonCpp, a
\* number whose text is none.
LibraryFails ==
    /\ stage = "events" /\ outcome = "open"
    /\ engine = "jsoncpp" => ~Doc!IsWhole(doc)
    /\ \/ Fail("grammar")
       \/ Throw("memory")
       \/ engine = "nlohmann" /\ ~buffered /\ Throw("file")
    /\ PathKept /\ Kept /\ UNCHANGED <<depth, arguments, visits>>

\* The library has no more to say: it refuses what follows a document, except
\* simdjson, which only stops.
LibraryEnds ==
    /\ stage = "events" /\ outcome = "open" /\ Doc!IsWhole(doc)
    /\ \/ /\ rest /\ engine # "simdjson"
          /\ Fail("grammar")
       \/ /\ ~rest \/ engine = "simdjson"
          /\ stage' = "finish" /\ UNCHANGED world
    /\ PathKept /\ Kept /\ UNCHANGED <<depth, arguments, visits>>

\* A read error ends the text early, and what was read may be a document.
StreamBreaks ==
    /\ stage = "events" /\ outcome = "open"
    /\ ChecksStream /\ ~buffered
    /\ torn' = TRUE
    /\ \/ /\ Doc!IsWhole(doc)
          /\ stage' = "finish" /\ UNCHANGED world
       \/ /\ ~Doc!IsWhole(doc)
          /\ Fail("grammar")
    /\ PathKept
    /\ UNCHANGED <<settings, buffered, rest, depth, arguments, visits, answer>>

\* !document.at_end()
More == engine = "simdjson" /\ rest

Returns(code) ==
    /\ stage' = "idle"
    /\ status' = code
    /\ messages' = messages + IF code = 0 THEN 0 ELSE 1

\* ferror and bad, the result of the library, at_end, and the flush.
Finish ==
    /\ stage = "finish"
    /\ \/ outcome = "refused" /\ Returns(2) /\ UNCHANGED world
       \/ /\ outcome = "open"
          /\ \/ torn /\ reason' = "file"
             \/ ~torn /\ More /\ reason' = "grammar"
             \/ ~torn /\ ~More /\ ~silence /\ reason' = "output"
          /\ Returns(2)
          /\ outcome' = "refused"
          /\ UNCHANGED <<doc, lines>>
       \/ /\ outcome = "open" /\ ~torn /\ ~More
          /\ Returns(0)
          /\ outcome' = "accepted"
          /\ UNCHANGED <<doc, lines, reason>>
    /\ PathKept /\ UNCHANGED <<settings, input, depth, arguments, visits>>

\* at_c_boundary and the handlers of parse_file.
Caught ==
    /\ stage = "caught"
    /\ Returns(2)
    /\ PathKept
    /\ UNCHANGED <<settings, input, depth, arguments, visits, world>>

CppNext ==
    \/ Configure
    \/ \E fromBuffer, more \in BOOLEAN : Parse(fromBuffer, more)
    \/ Open
    \/ \E array \in BOOLEAN : Begin(array)
    \/ End
    \/ \E k \in Keys : Key(k)
    \/ \E long \in BOOLEAN : Argument(long)
    \/ LibraryFails \/ LibraryEnds \/ StreamBreaks
    \/ Finish \/ Caught

CppSpec == CppInit /\ [][CppNext]_cppVars

(***************************************************************************)
(* Properties.                                                             *)
(***************************************************************************)

\* Grounds of refusal that are not limits.
Reasons == {"memory", "file", "grammar", "unicode", "repeated", "native depth",
            "output"}

\* While a document is read, the path restored in place by pops is that of the
\* open containers, the key when a value is due is the label of its position
\* in the source, and each adapter's own depth is the nesting.
PathIsPosition ==
    stage = "events" =>
        /\ ~m_error
        /\ prefix = Doc!Display(Doc!OpenLabels(doc))
        /\ Doc!WantsValue(doc) => key = Doc!LabelOf(doc, FALSE)
        /\ depth = Len(doc.open) /\ Len(frames) = depth

\* A call answers zero exactly for a document that was accepted, all of the
\* text was that document, and the stream was read to its end; every other
\* call leaves one message, also when an error of the stream overtakes one of
\* the handler.
AnswerIsTrue ==
    /\ stage = "idle" =>
        /\ messages = IF status = 0 THEN 0 ELSE 1
        /\ outcome # "none" => (status = 0) = (outcome = "accepted")
    /\ outcome = "accepted" => ~rest /\ ~torn /\ Doc!IsWhole(doc)

Extraction == INSTANCE ArgumentExtraction WITH
    silent <- silence,
    count <- arguments,
    verdict <- outcome

\* Each of the five adapters treats a document as ArgumentExtraction promises:
\* same names, same counts, and a limit of N allows exactly N.
ImplementsExtraction == Extraction!ExtractionSpec

=============================================================================
