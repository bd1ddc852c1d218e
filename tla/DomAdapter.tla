------------------------------ MODULE DomAdapter -----------------------------
(***************************************************************************)
(* The four adapters over C DOM libraries, from one call of parse_file to  *)
(* its return: the numeric locale of the thread, the file, the lexical     *)
(* preflight with the spans of the numbers, the native parse, the walk of  *)
(* DomWalk, and the release of everything.  The libraries are external:    *)
(* they enforce the grammar of JsonText, and each keeps of a text what its *)
(* interface can carry.                                                    *)
(***************************************************************************)
EXTENDS DomWalk, JsonText

CONSTANTS
    Libraries,       \* "json-c", "jansson", "cjson", "yyjson", or some of them
    Texts,           \* the token sequences files hold
    Nul,             \* the byte 0
    InitialSpans     \* 32 spans

ASSUME AdapterAssumption ==
    /\ Libraries \subseteq {"json-c", "jansson", "cjson", "yyjson"}
    /\ Nul \in Byte
    /\ InitialSpans \in Nat \ {0}

VARIABLES
    library, text,
    quiet,         \* settings.silence
    stage,         \* what parse_file is about to do
    result,        \* "ok" or "error"
    ground,        \* why, for the reader of the model
    messages,      \* how often *error_msg was set
    held,          \* blocks and objects that are allocated
    locale,        \* the numeric locale of the thread
    outer, inner,  \* the locales the adapter and the preflight have created
    lost,          \* a restore has failed
    \* dom_scan
    scanned, depth, scalars, keys, spans,
    tree, at       \* the native tree, and the events of it that were visited

scan     == <<scanned, depth, scalars, keys, spans>>
call     == <<library, text, quiet>>
answer   == <<result, ground, messages>>
locales  == <<locale, outer, inner, lost>>
vars     == <<walkVars, call, stage, answer, held, locales, scan, tree, at>>

(***************************************************************************)
(* Mutated forms, for mutation runs only.                                  *)
(***************************************************************************)

\* The spans are not freed; the end of the preflight restores the locale of
\* the caller; a failed restore reports once more; the depth wraps; keys count
\* as arguments; the limit is passed by one; repeated keys are not compared;
\* the first walk prints; the scan stays where it is.
FreedNoSpans(h) == h \cap {"spans"}
CallerAlways(l) == "caller"
ReportAgain(r) == "ok"
DepthWraps(d) == d - 1
NeverKey(i) == FALSE
PassesLate(n, limit) == n > limit + 1
RepeatedIgnored(k, n) == FALSE
CheckAsAsked(q) == q
NotScanned == UNCHANGED scanned

(***************************************************************************)
(* What the libraries can carry.                                           *)
(***************************************************************************)

Policy(l) ==
    CASE l = "json-c"  -> [nul |-> "key", number |-> "int64_uint64"]
      [] l = "jansson" -> [nul |-> "allowed", number |-> "signed"]
      [] l = "cjson"   -> [nul |-> "forbidden", number |-> "double"]
      [] l = "yyjson"  -> [nul |-> "allowed", number |-> "raw"]

\* yyjson neither needs a locale nor spans: it keeps numbers as text.
Raw(l) == Policy(l).number = "raw"

\* Widths of integers, and of reals, that pass a number policy.
Widths(policy) ==
    CASE policy = "raw"          -> AllWidths
      [] policy = "int64_uint64" -> {"double", "int64", "uint64"}
      [] policy = "signed"       -> {"double", "int64"}
      [] policy = "double"       -> {"double"}
InRange(token, policy) ==
    IF token.type = "real" THEN policy = "raw" \/ token.width = "double"
    ELSE token.width \in Widths(policy)

HasNul(s) == Contains(s, Nul)

\* What strlen leaves of a string.
UpToNul(s) ==
    IF HasNul(s)
    THEN SubSeq(s, 1, (CHOOSE i \in DOMAIN s :
                         s[i] = Nul /\ \A j \in 1..(i - 1) : s[j] # Nul) - 1)
    ELSE s

\* How the tree spells a key: json-c and cJSON have no length for it.
NativeKey(l, k) == IF l \in {"json-c", "cjson"} THEN UpToNul(k) ELSE k
SameKey(l, j, k) == NativeKey(l, j) = NativeKey(l, k)

\* json-c keeps the last of the members with one key, the others keep all.
Replaced(l, events) ==
    {m \in ToSet(events) : l = "json-c" /\
        \E n \in ToSet(events) :
            Repeat(m, n, LAMBDA j, k : SameKey(l, j, k))}
KeptPlaces(l, events) ==
    {i \in DOMAIN events : \A m \in Replaced(l, events) :
        i \notin {m.at, m.at + 1} /\ ~Contains(events[i].around, m.at + 1)}
Kept(l, events) == Selected(events, KeptPlaces(l, events))
NativeTree(l, t) == Kept(l, Events(t))

\* jansson refuses repeated keys, and keys with NUL.
NativeRefuses(l, t) ==
    /\ l = "jansson"
    /\ \/ \E m, n \in ToSet(Events(t)) : Repeat(m, n, LAMBDA j, k : j = k)
       \/ \E m \in ToSet(Events(t)) : HasNul(m.key)

\* The scalar callback: cJSON's strings end at NUL, numbers are formatted
\* anew except by yyjson.  A text says whose it is and of which token.
Origins == {"source", "formatted", "cut"}
NativeValue(l, t, event) ==
    LET token == t[event.index]
        kind == IF token.type \notin Kinds \/ Raw(l) THEN NotNumber
                ELSE IF l = "cjson" THEN "any" ELSE token.type
        from == CASE token.type \in Kinds /\ ~Raw(l) -> "formatted"
                  [] token.type = "string" /\ l = "cjson" /\ HasNul(token.text) -> "cut"
                  [] OTHER -> "source"
    IN  [data |-> [from |-> from, index |-> event.index, text |-> token.text],
         number_kind |-> kind]

\* The constants of the walk hold what the texts give it.  A formatted number
\* is never too long: what would be is garbage to the preflight; and a literal
\* has five bytes at most.
ASSUME TextsAssumption ==
    /\ Texts \subseteq Seq(Tokens)
    /\ \A t \in Texts : \A i \in DOMAIN t :
          /\ t[i].type = "string" => {t[i].text, UpToNul(t[i].text)} \subseteq Keys
          /\ t[i].type \in Kinds \cup {"literal"} => Len(t[i].text) < JSON_STRING_SIZE
          /\ [from : Origins, index : {i}, text : {t[i].text}] \subseteq NativeData
    /\ \A d \in Data : d \in TooLong <=> Len(d.text) >= JSON_STRING_SIZE

(***************************************************************************)
(* Helpers.                                                                *)
(***************************************************************************)

Freed(h) == {}
Restored(l) == l
Shallower(d) == IF d > 0 THEN d - 1 ELSE d
\* json_tokener_new_ex counts scalar slots as well as containers.
NativeSlots(n) == n + 1
MissesKeys(k, n) == k # n
CheckSilence(q) == TRUE
EarlierResult(r) == r
Passes(n, limit) == n > limit

\* A string is a key if a colon follows.
IsKey(i) == i < Len(text) /\ text[i + 1].type = ":"

\* dom_error
Error(why) ==
    /\ result' = "error"
    /\ ground' = why
    /\ messages' = messages + 1

\* The client has created a parser and has set its limits and silence.
AdapterInit ==
    /\ Init
    /\ library \in Libraries /\ text = <<>> /\ quiet = silence
    /\ stage = "new"
    /\ result = "ok" /\ ground = None /\ messages = 0
    /\ held = {} /\ locale = "caller" /\ outer = FALSE /\ inner = FALSE
    /\ lost = FALSE
    /\ scanned = 0 /\ depth = 0 /\ scalars = 0 /\ keys = 0 /\ spans = <<>>
    /\ tree = <<>> /\ at = 0

(***************************************************************************)
(* dom_begin_numeric_file.                                                 *)
(***************************************************************************)

\* Bound: one call.  Nothing but the settings outlives it, by AllReleased.
ParseFile(t) ==
    /\ stage = "new"
    /\ text' = t
    /\ stage' = IF Raw(library) THEN "read" ELSE "locale"
    /\ UNCHANGED <<walkVars, library, quiet, answer, held, locales, scan, tree, at>>

\* dom_locale_begin frees what it has got when one of its steps fails.
BeginLocale ==
    /\ stage = "locale"
    /\ \/ /\ outer' = TRUE /\ locale' = "outer"
          /\ stage' = "read"
          /\ UNCHANGED answer
       \/ /\ Error("locale")
          /\ stage' = "idle"
          /\ UNCHANGED <<outer, locale>>
    /\ UNCHANGED <<walkVars, call, held, inner, lost, scan, tree, at>>

\* dom_read_file frees and closes on each of its errors.
ReadFile ==
    /\ stage = "read"
    /\ \/ /\ held' = held \cup {"content"}
          /\ stage' = "preflight"
          /\ UNCHANGED answer
       \/ Error("file") /\ stage' = "restore" /\ UNCHANGED held
    /\ UNCHANGED <<walkVars, call, locales, scan, tree, at>>

(***************************************************************************)
(* dom_preflight and dom_preflight_numbers.                                *)
(***************************************************************************)

BeginPreflight ==
    /\ stage = "preflight"
    /\ \/ /\ stage' = "scan"
          /\ inner' = ~Raw(library)
          /\ locale' = IF Raw(library) THEN locale ELSE "inner"
          /\ UNCHANGED answer
       \/ /\ ~Raw(library)
          /\ Error("locale") /\ stage' = "done" /\ UNCHANGED <<inner, locale>>
    /\ UNCHANGED <<walkVars, call, held, outer, lost, scan, tree, at>>

Scanning == stage = "scan" /\ scanned < Len(text)
Token == text[scanned + 1]
Scanned == scanned' = scanned + 1

\* dom_scan_token and all below it return an error.
ScanFails(why) ==
    /\ Error(why)
    /\ stage' = "scanned"

\* dom_scan_argument
OneMoreScalar == Passes(scalars + 1, limits.args)

ScanSeparator ==
    /\ Scanning /\ Token.type \in {":", ","}
    /\ Scanned
    /\ UNCHANGED <<depth, scalars, keys, spans, held, answer, stage>>

ScanOpen ==
    /\ Scanning /\ Token.type \in {"{", "["}
    /\ depth' = depth + 1
    /\ UNCHANGED <<scalars, keys, spans, held>>
    /\ \/ Passes(depth + 1, limits.depth) /\ ScanFails("depth") /\ UNCHANGED scanned
       \/ ~Passes(depth + 1, limits.depth) /\ Scanned /\ UNCHANGED <<answer, stage>>

\* Pairs are left to the native parser.
ScanClose ==
    /\ Scanning /\ Token.type \in {"}", "]"}
    /\ depth' = Shallower(depth)
    /\ Scanned
    /\ UNCHANGED <<scalars, keys, spans, held, answer, stage>>

\* dom_scan_string_role for a string before a colon.
ScanKey ==
    /\ Scanning /\ Token.type = "string" /\ Len(Token.text) < JSON_STRING_SIZE
    /\ IsKey(scanned + 1)
    /\ Scanned
    /\ keys' = keys + 1
    /\ IF HasNul(Token.text) /\ Policy(library).nul # "allowed"
       THEN ScanFails("nul")
       ELSE UNCHANGED <<answer, stage>>
    /\ UNCHANGED <<depth, scalars, spans, held>>

\* What a number or string costs, once its own checks have passed.
ScanScalar ==
    /\ scalars' = scalars + 1
    /\ IF OneMoreScalar THEN ScanFails("arguments")
       ELSE UNCHANGED <<answer, stage>>

ScanString ==
    /\ Scanning /\ Token.type = "string" /\ Len(Token.text) < JSON_STRING_SIZE
    /\ ~IsKey(scanned + 1)
    /\ Scanned
    /\ IF HasNul(Token.text) /\ Policy(library).nul = "forbidden"
       THEN ScanFails("nul") /\ UNCHANGED scalars
       ELSE ScanScalar
    /\ UNCHANGED <<depth, keys, spans, held>>

ScanLongString ==
    /\ Scanning /\ Token.type = "string" /\ Len(Token.text) >= JSON_STRING_SIZE
    /\ ScanFails("size")
    /\ UNCHANGED <<scan, held>>

ScanLiteral ==
    /\ Scanning /\ Token.type = "literal"
    /\ Scanned
    /\ ScanScalar
    /\ UNCHANGED <<depth, keys, spans, held>>

\* What is no token, or a number that is too long.
ScanGarbage ==
    /\ Scanning /\ Token.type = "garbage"
    /\ ScanFails("lexical")
    /\ UNCHANGED <<scan, held>>

\* The array of spans is full: empty, or doubled since.
SpansFull ==
    \/ spans = <<>>
    \/ \E j \in 0..Len(spans) : Len(spans) = InitialSpans * 2^j

Span == [data |-> [from |-> "source", index |-> scanned + 1, text |-> Token.text],
         kind |-> Token.type]

\* dom_scan_number: range, then the count, then dom_remember_number.
ScanNumber ==
    /\ Scanning /\ Token.type \in Kinds
    /\ Scanned
    /\ UNCHANGED <<depth, keys>>
    /\ \/ /\ ~InRange(Token, Policy(library).number)
          /\ ScanFails("range")
          /\ UNCHANGED <<scalars, spans, held>>
       \/ /\ InRange(Token, Policy(library).number)
          /\ OneMoreScalar \/ Raw(library)
          /\ ScanScalar
          /\ UNCHANGED <<spans, held>>
       \/ /\ InRange(Token, Policy(library).number)
          /\ ~OneMoreScalar /\ ~Raw(library)
          /\ scalars' = scalars + 1
          /\ \/ /\ spans' = Append(spans, Span)
                /\ held' = held \cup {"spans"}
                /\ UNCHANGED <<answer, stage>>
             \/ SpansFull /\ ScanFails("memory") /\ UNCHANGED <<spans, held>>

Scan ==
    /\ \/ ScanSeparator \/ ScanOpen \/ ScanClose \/ ScanKey \/ ScanString
       \/ ScanLongString \/ ScanLiteral \/ ScanGarbage \/ ScanNumber
    /\ UNCHANGED <<walkVars, call, locales, tree, at>>

\* The end of the text, or of the preflight after an error: dom_locale_finish
\* keeps an earlier result, and does not free a locale that is still active.
EndPreflight ==
    /\ stage = "scanned" \/ (stage = "scan" /\ scanned = Len(text))
    /\ \/ /\ inner' = FALSE
          /\ locale' = IF inner THEN Restored("outer") ELSE locale
          /\ stage' = IF result = "error" THEN "done"
                      ELSE IF library = "json-c" THEN "ascii" ELSE "native"
          /\ UNCHANGED <<answer, lost>>
       \/ /\ inner
          /\ lost' = TRUE
          /\ IF EarlierResult(result) = "error" THEN UNCHANGED answer
             ELSE Error("locale")
          /\ stage' = "done"
          /\ UNCHANGED <<inner, locale>>
    /\ UNCHANGED <<walkVars, call, held, outer, scan, tree, at>>

(***************************************************************************)
(* The native parse.                                                       *)
(***************************************************************************)

\* jsonc_ascii_input: a copy if the text has bytes that are not ASCII.
AsciiInput ==
    /\ stage = "ascii"
    /\ \/ /\ held' \in {held, held \cup {"ascii"}}
          /\ stage' = "native"
          /\ UNCHANGED answer
       \/ Error("memory") /\ stage' = "done" /\ UNCHANGED held
    /\ UNCHANGED <<walkVars, call, locales, scan, tree, at>>

\* Above 8192 the limit is the adapter's own.
NativeDepth == IF limits.depth > JSON_STRING_SIZE THEN JSON_STRING_SIZE
               ELSE limits.depth

\* A value inside n containers needs the slot n + 1.
TooDeep == library = "json-c" /\ Slots(text) + 1 > NativeSlots(NativeDepth)

Tokener == IF library = "json-c" THEN {"tokener"} ELSE {}

NativeSucceeds ==
    /\ IsDocument(text) /\ ~TooDeep /\ ~NativeRefuses(library, text)
    /\ tree' = NativeTree(library, text)
    /\ held' = held \cup {"root"} \cup Tokener
    /\ stage' = IF library = "json-c" THEN "check" ELSE "walk"
    /\ UNCHANGED answer

\* json-c has a root also if there is more text behind the document.
NativeFails ==
    /\ \/ Error("memory") /\ held' \in {held, held \cup Tokener}
       \/ /\ ~IsDocument(text)
          /\ Error("grammar")
          /\ held' \in {held \cup Tokener} \cup
                       (IF library = "json-c" THEN {held \cup Tokener \cup {"root"}}
                        ELSE {})
       \/ /\ IsDocument(text) /\ TooDeep
          /\ Error("native depth") /\ held' = held \cup Tokener
       \/ /\ IsDocument(text) /\ NativeRefuses(library, text)
          /\ Error("native") /\ UNCHANGED held
    /\ stage' = "done"
    /\ UNCHANGED tree

NativeParse ==
    /\ stage = "native"
    /\ NativeFails \/ NativeSucceeds
    /\ UNCHANGED <<walkVars, call, locales, scan, at>>

(***************************************************************************)
(* The walks.                                                              *)
(***************************************************************************)

BeginWalk ==
    /\ \/ /\ stage = "check"       \* json-c: in silence, without spans
          /\ WalkBegins(<<>>, FALSE, CheckSilence(quiet))
          /\ stage' = "checking"
       \/ /\ stage = "walk"
          /\ WalkBegins(spans, ~Raw(library), quiet)
          /\ stage' = "walking"
    /\ at' = 0
    /\ UNCHANGED <<call, answer, held, locales, scan, tree>>

Visit == tree[at + 1]

WalkStep ==
    /\ stage \in {"checking", "walking"}
    /\ at < Len(tree)
    /\ \/ /\ Visit.type = "scalar"
          /\ Argument(NativeValue(library, text, Visit))
          /\ at' = at + 1
       \/ Visit.type = "open" /\ Begin(Visit.array) /\ at' = at + 1
       \/ Visit.type = "member" /\ at' = at + 1
          /\ Member(NativeKey(library, Visit.key))
       \/ Visit.type = "close" /\ Pop /\ at' = at + 1
       \/ Visit.type \in {"scalar", "open"} /\ Element /\ UNCHANGED at
    /\ UNCHANGED <<call, stage, answer, held, locales, scan, tree>>

EndWalk ==
    /\ stage \in {"checking", "walking"}
    /\ Finish
    /\ \/ outcome' = "refused" /\ Error(reason') /\ stage' = "done"
       \/ /\ outcome' = "accepted" /\ stage = "checking"
          /\ \/ /\ MissesKeys(keys, object_keys)
                /\ Error("repeated") /\ stage' = "done"
             \/ /\ ~MissesKeys(keys, object_keys)
                /\ stage' = "walk" /\ UNCHANGED answer
       \/ /\ outcome' = "accepted" /\ stage = "walking"
          /\ stage' = "done" /\ UNCHANGED answer
    /\ UNCHANGED <<call, held, locales, scan, tree, at>>

(***************************************************************************)
(* The end of parse_file.                                                  *)
(***************************************************************************)

Done ==
    /\ stage = "done"
    /\ held' = Freed(held)
    /\ stage' = "restore"
    /\ UNCHANGED <<walkVars, call, answer, locales, scan, tree, at>>

Return ==
    /\ stage = "restore"
    /\ stage' = "idle"
    /\ \/ /\ outer' = FALSE
          /\ locale' = IF outer THEN "caller" ELSE locale
          /\ UNCHANGED <<answer, lost>>
       \/ /\ outer
          /\ lost' = TRUE
          /\ IF EarlierResult(result) = "error" THEN UNCHANGED answer
             ELSE Error("locale")
          /\ UNCHANGED <<outer, locale>>
    /\ UNCHANGED <<walkVars, call, held, inner, scan, tree, at>>

Steps ==
    \/ BeginLocale \/ ReadFile \/ BeginPreflight \/ Scan \/ EndPreflight
    \/ AsciiInput \/ NativeParse \/ BeginWalk \/ WalkStep \/ EndWalk
    \/ Done \/ Return

AdapterNext ==
    \/ \E t \in Texts : ParseFile(t)
    \/ Steps

AdapterSpec == AdapterInit /\ [][AdapterNext]_vars

\* The code between call and return is straight-line code of one thread.
FairAdapterSpec == AdapterSpec /\ WF_vars(Steps)

(***************************************************************************)
(* Properties.                                                             *)
(***************************************************************************)

Stages == {"new", "idle", "locale", "read", "preflight", "scan", "scanned", "ascii",
           "native", "check", "checking", "walk", "walking", "done", "restore"}
Grounds == {None, "locale", "file", "memory", "lexical", "size", "nul", "range",
            "depth", "arguments", "grammar", "native depth", "native", "repeated",
            "name", "value", "numbers", "output"}

\* Types of the state of an adapter; the depth of the scan, unsigned in the
\* code, does not wrap below zero on text with too many closers.
AdapterTypeOK ==
    /\ TypeOK
    /\ library \in Libraries /\ quiet \in BOOLEAN
    /\ stage \in Stages
    /\ result \in {"ok", "error"} /\ ground \in Grounds /\ messages \in Nat
    /\ held \subseteq {"content", "ascii", "spans", "tokener", "root"}
    /\ locale \in {"caller", "outer", "inner"}
    /\ outer \in BOOLEAN /\ inner \in BOOLEAN /\ lost \in BOOLEAN
    /\ scanned \in 0..Len(text) /\ depth \in Nat /\ scalars \in Nat /\ keys \in Nat
    /\ spans \in Seq(Spans)
    /\ at \in 0..Len(tree)

\* What a document prints: each scalar once, in order, with its name and its
\* own text, numbers as they are spelled in the source.
Arguments(t) ==
    LET s == EventsOf(t, "scalar") IN
    [i \in DOMAIN s |->
        [name |-> s[i].name,
         value |-> [from |-> "source", index |-> s[i].index,
                    text |-> t[s[i].index].text]]]

\* A text is accepted only if it is a document and all of it was printed: no
\* library loses a member, cuts a string or lends a number another's text.
\* json-c prints nothing of a text it refuses, unless that could not be foreseen.
AcceptedIsComplete ==
    stage = "restore" =>
        /\ result = "ok" => /\ IsDocument(text)
                            /\ lines = IF quiet THEN <<>> ELSE Arguments(text)
        /\ library = "json-c" /\ result = "error" =>
               lines = <<>> \/ ground \in {"memory", "native", "output"}

\* A key or value of a document with what the preflight refuses: a NUL where the
\* library has no length, a number it would change, a string that is too long.
Unfit(why, event, l, t) ==
    \/ /\ event.type = "member"
       /\ \/ why = "nul" /\ HasNul(event.key) /\ Policy(l).nul # "allowed"
          \/ why = "size" /\ Len(event.key) >= JSON_STRING_SIZE
    \/ /\ event.type = "scalar"
       /\ LET token == t[event.index] IN
          \/ why = "nul" /\ HasNul(token.text) /\ Policy(l).nul = "forbidden"
          \/ why = "size" /\ Len(token.text) >= JSON_STRING_SIZE
          \/ why = "range" /\ ~InRange(token, Policy(l).number)

\* The preflight reads tokens and not grammar; of a document it knows all the
\* same what is a key, how deep it is and how many arguments it has, so that a
\* limit of N allows exactly N, also in the slots of the native stack, and a NUL
\* that only a key must not hold is not refused in a value.  What it
\* and the native parse have passed is refused by the walk for no limit but the
\* length of a name, and its numbers meet their spans.
RefusedForCause ==
    /\ stage = "restore" /\ IsDocument(text) =>
        CASE ground = "depth" -> Nesting(text) > limits.depth
          [] ground = "arguments" -> Len(EventsOf(text, "scalar")) > limits.args
          [] ground = "repeated" -> \E m, n \in ToSet(Events(text)) :
                                        Repeat(m, n, LAMBDA j, k : j = k)
          [] ground = "native depth" -> limits.depth > JSON_STRING_SIZE
          [] ground \in {"nul", "size", "range"} ->
                \E event \in ToSet(Events(text)) : Unfit(ground, event, library, text)
          [] ground \in {"lexical", "grammar"} -> FALSE
          [] OTHER -> TRUE
    /\ reason \notin {"depth", "arguments", "value", "numbers"}

\* No way out of a call keeps a block, a tree or a locale; the thread is back
\* in the locale of the caller, or the failure to restore it is reported, and
\* no error replaces the message of an earlier one.  Until then strtod and the
\* libraries convert numbers with a decimal point: leaving the preflight does
\* not give up the locale for it.
AllReleased ==
    /\ stage = "idle" =>
        /\ held = {}
        /\ IF lost THEN result = "error"
           ELSE locale = "caller" /\ ~outer /\ ~inner
    /\ messages = IF result = "error" THEN 1 ELSE 0
    /\ stage \in {"scan", "native", "check", "checking", "walk", "walking"} =>
        Raw(library) \/ locale # "caller"

\* A call returns, whatever the file holds and whichever step fails.
CallReturns == stage \notin {"new", "idle"} ~> stage = "idle"

=============================================================================
