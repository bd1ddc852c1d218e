# A verification development for jsonbench

`jsonbench` runs one JSON document through one of eleven JSON libraries, times
it, and prints every scalar of the document as an argument: a dotted name made
of the keys above the value, and the value. Each library sits behind an adapter
with one contract. Names, limits and outcomes must be the same whichever library
reads the document. These modules state that contract, model the adapters that
are to keep it and the program that drives them, check the models with TLC, and
prove with TLAPS what can be proved for every value of the constants.

Every definition is a translation of the code under `src/`; `PROJECT.json` gives
its lines in "map". What the libraries, the C library and the operating system
do is external and nondeterministic: an allocation, a read, a write, a flush or
the clock may fail wherever the code asks for one.

## 1. Inventory

| component | code | state it keeps | operations | model |
|---|---|---|---|---|
| program | `src/jsonbench.c` | settings, times, the parser of a pass, exit status | options, probe, timed passes, statistics, output pass | `Benchmark` |
| C++ path | `src/pathhandler.h` | one prefix, one key, frames of saved lengths and keys, a sticky error | setKey, push, startArraySpecial, pop, name, buildArgName | `PathHandler` |
| YAJL adapter | `src/yajlparser.c` | the same path in C buffers, counters, flags, a sticky message, owned memory | eleven callbacks; init, process, complete, parse_file, cleanup | `YajlAdapter` |
| YAJL byte guard | `src/yajlparser.c` | a UTF-8 automaton, an escape automaton, the length of the open token | one byte | `YajlGuard` |
| DOM plumbing | `src/domarguments.h` | thread locale, file buffer, preflight scan, number spans, path frames | read, preflight, walk | `DomFile`, `StringText`, `NumberText`, `DomWalk`, `DomAdapter` |
| json-c, Jansson, cJSON, yyjson | `src/jsoncparser.c`, `janssonparser.c`, `cjsonparser.c`, `yyjsonparser.c` | a native tree, the settings | parse_file over the DOM plumbing | `DomAdapter` with four policies; json-c's ASCII text in `StringText` |
| C++ emission | `src/cpparguments.h` | the argument count | emit_argument | `CppAdapter` |
| RapidJSON, nlohmann | `src/rjparser.cpp`, `src/nlparser.cpp` | a SAX handler over `PathHandler` | SAX events; nlohmann: a guard of tokens in the stream | `CppAdapter`, `StringText` |
| JsonCpp, simdjson | `src/jsoncppparser.cpp`, `src/simdjsonparser.cpp` | a visitor over `PathHandler` | tree walk; JsonCpp: check of the encoding and of numbers | `CppAdapter`, `StringText`, `NumberText` |
| jsoncons | `src/jsonconsparser.cpp` | its own path and a Unicode guard | SAX events, surrogate guard in the stream | `CppAdapter`, `StringText` |
| Glaze | `src/glazeparser.cpp` | silence | parses, prints nothing | as an engine of `Benchmark` |

How they interact. The program calls an adapter through a table of `run_`
functions: create, configure, parse a file, destroy. An adapter reads the file,
hands bytes to its guard and then to its library, and the library calls back (or
is walked) event by event; the callbacks share the path, the counters and the
message with the entry points of the adapter. `stdout` is shared by everything
that prints. There are no threads. Hard here is not concurrency but protocol:
what a callback may find after any sequence of calls, failures and earlier
documents; paths restored in place; two automata resumed at any byte; limits and
buffers at their edges; a sequence of passes of which one only may print. The
list "hazards" of `PROJECT.json` names these at their lines.

What makes each component correct:

* program: success means every argument printed once, or never when silent, and
  one exact time per pass; failure is always reported; parsers do not pile up.
* path: a pop returns to exactly the place its push left, whatever the keys hold;
  a name fits its buffer; an error is final.
* adapter: the documents accepted, the arguments reported and the refusals are
  those of the contract (`ArgumentExtraction`), for every document and after any
  earlier one; nothing leaks; buffers hold what is written; diagnostics agree.
* DOM adapters: the native tree says what the text says (no member lost, no
  string cut, no number lent another's spelling), or the text is refused; every
  way out releases everything and gives the caller's locale back.
* C++ adapters: a document means the same to the five of them, although four share
  one path and one has its own, three are called and two walk, and each tests its
  limits in an order of its own; zero is answered for a whole text only.
* guards and scanners: refuse exactly what is not scalar UTF-8, a proper escape or
  a number the library can hold, wherever the input is cut, and bound what a
  library has to store.

## 2. The modules

**`JsonEvents`** (external) is the grammar: a position in a document is the
stack of open containers, the key read last and what may come next. It also
defines the name of the value at a position, by folding labels from the outside
inwards, independently of any buffer.

**`ArgumentExtraction`** is the abstract contract of an adapter, over
`JsonEvents`: a document is open until accepted or refused; each scalar counts
and, unless silent, adds a line with its name; only a whole document is accepted;
a limit refuses only a document that passes it ("a limit of N allows exactly N").

**`ArgumentPath`** is the abstract path: a place, and the places to return to.

**`PathHandler`** is the C++ class, one action per method. `Entered` is `start`
when all allocations succeed, `HalfEntered` the state a failing string append
leaves behind. Refinement: `Outer` reads the saved places back out of the one
shared prefix, so `ImplementsArgumentPath` says that no operation disturbs any of
them. The handler shows nothing after an error, so a failed handler maps to the
origin.

**`YajlAdapter`** has one action per callback and per way out of each entry
point. `pc` says which call into YAJL is in progress; while it is `"parsing"` any
event the grammar allows may come, at most `MaxEvents` for one chunk, and YAJL
may fail at any time. `heap` and `saved` account for each block the adapter owns.
`doc`, `lines`, `outcome` and `reason` are the world outside, and are what
`ArgumentExtraction` talks about; `flushed` says how many of the lines the last
flush of an accepted document has taken to the standard output.

**`YajlGuard`** is `check_input` one byte at a time, so every cut into chunks is
covered. Next to the automaton it spells out what has been read (`char`,
`escape`, `raw`, `decoded`), and compares the two through **`ScalarText`**, the
definition of UTF-8 and escapes by code point ranges and digits: `Encodes` says which
scalar values take how many bytes, so that an unfinished character is good exactly if
some scalar value begins with its bytes, and surrogates are ranges of code units.

**`DomWalk`** is the walk the four C adapters share: an explicit stack of frames,
the path edited in place, the limits, and the replacement of each native number
by the next span of the source. `pc` is the place in the loop of `dom_walk`:
`"enter"` a node, `"next"` child of the top frame, `"finish"` the unwinding, which
is shared by success and by every failure. The tree is whatever grammatical tree
the callbacks describe, so the walk's own properties hold even if a library
reorders members or drops them.

**`JsonText`** (external) is what a document is as a sequence of tokens: the one
reading of a text by the grammar, the events of its tree with their names, its
nesting. `Selected` picks items of a sequence by their places; arguments, keys and
number spans are selections from the events.

**`DomAdapter`** composes the two: one call of a `parse_file`, stage by stage
(`stage`): locale, file, preflight with its spans and inner locale, ASCII
conversion, native parse, the silent checking walk of json-c, the walk, release,
restore. `held` is what is allocated, `locale`, `outer` and `inner` the two nested
guards, `ground` the reason of a failure, `messages` how often `*error_msg` was
set. `Policy` says how the four libraries differ: which NULs they can carry, which
numbers the preflight has to reject for them, and that yyjson keeps numbers raw;
`NativeValue` says what each makes of a number. json-c keeps one of two members
with the same key, so its tree is not its text. `TextsAssumption` joins
the two: the keys and data of the walk hold the strings, numbers and literals of the
texts, and a number or literal the scanner takes for one fits its buffer.

**`DomFile`** is `dom_read_file` read by read, which `DomAdapter` takes as one step.

**`StringText`** and **`NumberText`** are what happens inside a token, as
operators on bytes: the string and number scanners of the preflight, json-c's two
passes over raw UTF-8, the encoding and number checks of JsonCpp, and the byte
automata of jsoncons and nlohmann. Each loop of the code is a function of the round,
`after[k]` the state behind round k (`StringRound`, `EncodingRound`, `AsciiSizeRound`,
...); a round takes a byte at least or leaves the state as it is, so as many rounds
as the text has bytes are enough, and for the automata, which take one byte each, the
cut into buffers does not matter. **`TextGuards`** lets a text grow by pieces and
compares each scanner with a reference that goes through the text item by item
(`ItemsOf`, `EscapesOf`, `CharactersOf`), through `ScalarText`, and with the
grammar and value of a number. A text is a state, so TLC meets each text of a
family once.

**`CppAdapter`** extends `PathHandler`: a call of one of five engines, event by
event. `stage` is the place in the call; in `"events"` any event the grammar allows
may come, or the library fails. `Start`, `SetKey`, `Name` and `Pop` are the
methods of the shared class; jsoncons restores `prefix` and `key` from frames of
its own (`BeginInJsoncons`, `EndInJsoncons`). `CountsFirst` and `EmitOrRefuse` are the
orders in which limits are tested; `visits` holds, for JsonCpp, the members of an
object as the text has them and in the order of the visit (`VisitOrder`, the members
by ascending offset). `Throw` leads to the
boundary of the C interface, `Fail` through the return of the library.

**`Benchmark`** is `main`: the options getopt returns, the passes of
`benchmark`, and inside a pass the steps of a `run_` function. A pass prints
`"document"` if it is not silent and succeeds. Engines differ in three ways only:
those whose limit setters answer that there is no limit, those that print
nothing (Glaze is both), and those whose setters fail (`NoSetters`). The last is a
path of `configure` that no engine of this program takes, since it only passes valid
limits; `MCBenchmark` lets one engine take it, so that the failure return and the
destruction of the parser behind it are checked too. `owed` counts the parsers that
were created and not yet destroyed, so a parser destroyed twice is seen as well as
one that is forgotten.

`MC*` modules hold the values of the constants for TLC. Each module has, apart,
a few *mutated forms*: variants of a helper with a plausible bug, each of which
breaks the property it is listed with.

## 3. What the runs check

| run | question | bounds, and why they are enough |
|---|---|---|
| `path_handler` | all call sequences of the path with every allocation failure | names below 6 bytes, depth 4, keys: empty, plain, starting and ending with a dot, and one of exactly the limit. Three nested frames already show any boundary that moves. |
| `yajl_adapter` | all documents, chunkings, call orders and failures | names below 5 bytes, depth limits -1, 2, 3, argument limits 0 and 2, a frame array that grows once and then is full, 2 events for a chunk but any number of chunks from the client. Arrays at the root and inside, objects, dotted and empty keys all occur. |
| `yajl_file_returns` | does `yajl_parse_file` return | 2 chunks, 1 event each |
| `dom_walk` | the shared walk on every tree and every span list | names below 4 bytes, depth limits 0, 2 and 3 (2 is reached; 3 lies behind the full frame array), argument limits 1 and 2, two keys for a tree, a frame array of one that grows to two and then is full, up to two spans |
| `dom_adapter` | a whole call of each C adapter, with every failure on the way | token texts of up to two levels and one deeper, with repeated and empty keys, NULs, over-long strings and numbers of every width, and the same texts with a token missing or added; depth limits 2 and 6, argument limit 2. One call for a behaviour: nothing outlives a call |
| `dom_adapter_returns` | does that call return | fewer texts, one depth limit |
| `yajl_guard` | UTF-8, escapes and token budget of the YAJL guard, every sequence up to the first refusal | the variable `input` picks an alphabet: both ends of every range of lead and second bytes; quote, backslash, `u` and digits that spell both ends of both surrogate ranges, 14 raw bytes for a whole pair after a plain escape; long tokens against the real formula with a limit of 1 byte |
| `text_guards` | the scanners of strings, numbers and encodings on every text of eight families | limit of 5 bytes; pieces around surrogates, the ends of UTF-8 ranges, four-byte forms, escaped quotes, long tokens of 6 pieces, signs, points and exponents; maxima of two and three digits that keep the order of the real ones (exact below signed below unsigned) |
| `dom_file` | the file buffer | first buffer of 3 bytes, files of 0 to 13 bytes, so 2, 5 and 11 fill a buffer exactly, and an address space of 20 bytes, so the third doubling overflows |
| `cpp_adapter` | calls of the five C++ adapters, one document after the other | names below 5 bytes, depth limits 0 and 3 with a native ceiling of 2, argument limits 0 and 2; an empty key, a dot and one of exactly the limit; objects of up to two members in both orders |
| `benchmark` | all command lines of up to 3 options, and termination | numbers around every edge of `parse_limit` with `UINT_MAX` = `ULONG_MAX` = 12, two timed passes, a clock of 3 ticks a second over 2 seconds |
| `parse_only_engine` | (violation) a success without `-s` printed the document | Glaze only |

Properties are commented where they are stated. The ones a reader should know:
`ImplementsArgumentPath` and `ImplementsExtraction` (refinement of the abstract
specifications), `PathIsPosition` (the buffers edited in place equal the name
computed from the position), `DiagnosticsAgree` (flags, sticky message and first
refusal tell one story), `MemorySafe` (no leak on any way out, no write out of
bounds), `Utf8Exact`, `EscapesExact`, `BudgetExact`, `EncodingExact`,
`DomStringExact` and `NumbersExact` (equivalences, not just soundness: a guard never
refuses what the contract permits), `AsciiFaithful` (two passes over the same bytes
agree, and the text keeps its meaning),
`AnswerIsTrue` (zero means the whole text, also when a read error or trailing
content hides behind a complete document),
`AcceptedIsComplete` (success means the text is a document and each scalar was
printed with its own spelling), `RefusedForCause` (the preflight reads tokens and
not grammar, and yet a limit of N allows exactly N, a NUL, a size or a range is
complained of only if a key or value of the document has it, and after it the walk
can fail for the length of a name only), `NothingLost` (an accepted document had
all it counted printed and flushed), `ParserReleased` (each parser of a pass
destroyed once), `AllReleased` (memory, locale and the one message),
`WholeFile`, `PrintedOnce` and `TimesExact`.

What `RefusedForCause` accepts as a cause is what the code refuses: repeated keys,
decoded NULs and numbers outside the native range are among the causes although the
golden tests require such documents to be extracted. The repository lists these
refusals itself, as limitations of the libraries that keep those required cases
failing (`docs/adapter-stack.md:75` and `:118`, `tests/README.md:106`), so they are
no finding here.

The violation. `tests/README.md` demands the arguments of every selected engine;
`glaze_parse_file` parses and prints nothing, and the program reports success.
The tests would show it where Glaze is installed; the repository's own
validation ran without it.

Observed while modelling, and allowed by the properties: after an error of YAJL
itself the sticky message is not set, so a later chunk with a bad byte changes
the diagnostic; and a read error of `yajl_parse_file` leaves the document open to
further `process` calls.

### Fairness

`YajlAdapter!FairSpec`: weak fairness of the steps inside a call. Callbacks and
entry points are straight-line code on the caller's thread; the only assumption
is that YAJL and `fread` return. Nothing is assumed of the client.
`DomAdapter!FairAdapterSpec`: weak fairness of the stages of a call, which are
straight-line code and loops over a text that gets shorter; the assumption is that
the library and the C library return. The client need not call.
`Benchmark!FairSpec`: weak fairness of the one thread of the program.
`DomFile!FairSpec`: weak fairness of the read loop; `fread` returns.

## 4. What is proved

`JsonEventsProofs` holds what the other proofs need of positions and names. A name
is a recursive function of the labels above it; `DisplayGrows` (a name one label
further in is the name so far joined with that label) is proved by a least
counterexample, which needs no induction scheme. `Stands` is the invariant of every
path that is edited in place: the saved lengths cut the prefix exactly where the
outer names end, they do not decrease, and the saved keys are the labels to go back
to. `StandsAtStart`, `KeyStands`, `PushStands` and `PopStands` say that it survives
each operation, whoever performs it. The last part is about functions defined by
recursion over a sequence: `AllLengths` is induction in the form the provers can use
(a set that holds 0 and the successor of each member below n), `Recursion` gives the
function a definition by steps describes, `SameSolution` says there is no other.

`YajlAdapterProofs`, for every set of keys, limit (negative ones included), size,
capacity and sequence of callbacks, calls, chunks, files and failures:

* `InductiveInvariant` has six parts, each with its lemma for a step: `TypeOK`;
  `Control` (a call is in progress only on a document that can go on, and what a
  refusal without a message means); `PathStands`; `MemorySafe`; `DiagnosticsAgree`;
  `Counted` (what is printed is what is counted, and a document that has not begun
  has neither, without which silence could change between two lines);
* from it `TypeCorrect`, `PathCorrect` (`PathIsPosition`), `MemoryCorrect`,
  `DiagnosticsCorrect` and `NothingLostCorrect`;
* `Implements`: `Spec => ImplementsExtraction`. `StepImplements` maps every callback
  and every way a call ends to a step of `ArgumentExtraction` or to a stutter.
  `NamesHere` is its heart: the bytes written, and the length that was checked
  before they were written, are those of the name of the position.

`DomAdapterProofs` begins with the walk, `DomWalk`, for every set of keys, tree, span
list, limit and buffer size. The lemmas are about `AnyNext`, the steps of `Next` with
any list of spans, so that they also hold of the walk inside a call of an adapter:

* `InductiveInvariant`: one lemma for each part of it (`StepTypes`,
  `StepControl`, `StepFrames`, `StepMemory`, `StepBounds`, `StepNumbers`,
  `StepLimits`), each with one step for each action. The strengthening says that
  boundaries are ordered for all pairs of frames (so a pop, which cuts the prefix
  without looking, never lengthens it), that nothing precedes a root array, that
  the numbers met so far are as many as the position in the span list and agree
  with it, and that a walk which is still walking has no reason to fail;
* from it `TypeCorrect`, `FramesCorrect` (the frames are the open containers),
  `MemoryCorrect` (`MemorySafe`), `NumbersCorrect` (`NumbersAligned`) and
  `LimitsCorrect` (`LimitsKept`). None of them assumes anything of the tree but
  its grammar;
* `PathCorrect` (`PathIsPosition`) adds `PathStands`, and `Implements`
  (`ImplementsExtraction`) adds `Due`: what the grammar wants when the loop looks for
  the next child, which makes a pop legal and a finished walk a whole document.

It goes on with the call, for every set of libraries, text, limit and size:

* `ReleaseInvariant` says for each stage of a call which blocks are held, which
  numeric locales exist, which of them is in force and how many messages there are;
  `StepReleasing` has one step for each action, and the walk, which changes none of
  them, is one case. `ReleaseCorrect` (`AllReleased`) follows: the two guards nest, a
  failed restore is reported once, and no error replaces the message of an earlier one;
* `AdapterInvariant` (`AdapterIInv`) carries the types, and with them the invariants of
  the walk: a stage of the call either is a step of the walk or leaves the
  walk alone (`StepWalks`). `AdapterTypesCorrect` (`AdapterTypeOK`) follows;
* the lemmas on `Selected` (`SelectedIs`, `SelectedGrows`, `SelectedSame`,
  `SelectedAll`) say what a selection from a growing sequence is. The counts and spans
  of the preflight and the events a library keeps are such selections;
* `DocumentInvariant` (`DocumentIInv`) ties a call to the document its text is. It has
  five parts, each with one lemma for a step:
  * `ScanStands`: the scanner, which knows tokens and neither stack nor grammar, has
    counted, token by token, what the reading of the same tokens has found
    (`TokenMeans`: depth, scalars, keys and spans of each kind of token). The
    reading is a recursive function of the text; what holds of it at each place
    follows by `Recursion` and `AllLengths`, and that its events are a grammatical
    tree is carried along the same way;
  * `TreeStands`: the tree is the one the library makes of the text, and behind the
    check of json-c it is the whole text. A replaced member loses its key and nothing
    can make up for it, so the count of the keys alone tells (`MembersOf`);
  * `WalkStands`: the walk stands at the event it has reached. Each of its steps
    goes forward to the next event (`LeadsTo`, `Forward`), what it has counted and
    printed is what the events up to there say, and the next number has the next span;
  * `PrintStands`: what a successful call has printed are the arguments of the text,
    and json-c, which has tried all the names in silence, prints nothing before
    a failure other than memory, output or a native number;
  * `CauseStands`: a ground holds of the text: a depth was reached, a count was
    passed, a key or value is unfit (`Unfit`: a NUL, a size, a range), or two members
    of one object have the same key;
* from it `AcceptedComplete` (`AcceptedIsComplete`) and `RefusedCorrect`
  (`RefusedForCause`), for documents of any size and nesting. The attempt found that
  two arms of `NativeValue` overlapped for the strings of cJSON, where TLC silently
  takes the first; they are exclusive now.

`DomFileProofs`, for every file, first buffer and address space:

* `FileCorrect` (`WholeFile`): the strengthening ties the place in the function to
  what it holds (`Control`), says that the file is closed only after its end was
  seen, and bounds the buffer by the test before it doubles, so that the room for
  the terminator survives each `Grow`.

`YajlGuardProofs`, for every limit and every sequence of bytes:

* `GuardInvariant` has a part for each automaton. `Running`: while nothing is
  refused, the three states are those that the bytes read so far lead to. `Waits`
  ties `utf8_remaining` and the bounds of the next byte to the unfinished character;
  `Follows` ties `escape_state`, its digits and the pending high surrogate to the
  unfinished escape. The budget adds a relation between the two lengths:
  `raw <= 6 * decoded + 1 + Len(escape)`;
* `Utf8Correct` (`Utf8Exact`): `FirstByte` to `FourthByte` compute, for each length,
  which bytes some scalar value begins with, and find the ranges of the code.
  `EscapesCorrect` (`EscapesExact`): `UnitGrows` and `EscapeEnds` compute the code
  units. `BudgetCorrect` (`BudgetExact`). The models of TLC reach the ends of every
  range; these theorems are for all bytes and for strings of every length.

`TextGuardsProofs`, for every text, limit and all bounds of the integers a library
holds. Its five theorems follow from the type invariant `TextType` and a fact about all
texts. A scanner is a run of rounds and so is its reference; `Recursion` gives both as
functions of the round, `SameSteps` says that there is no other, and `AllRounds`
(induction as a set of numbers) carries a relation between the two from round to round:

* `DomStringExactHolds` (`DomStringExact`): `ItemsHere` says that at a place of a text
  there is one item of JSON or none, and that the scanner takes it, with its bytes,
  decoded length and NUL. It rests on `CharactersHere`, which computes from UTF-8 by
  ranges of scalar values what the scanner computes from lead bytes. The relation is that
  both are at the end of the same item, or that the scanner has stopped with a verdict
  that the reference, which goes on, can only confirm;
* `EncodingExactHolds` (`EncodingExact`): JsonCpp's check and its reference are at the
  same place in every round; the automaton of jsoncons, which goes through an escape
  byte by byte, is related to the unfinished escape (`Taking`), as in `YajlGuardProofs`;
* `TokensBoundedHolds` (`TokensBounded`): an item goes through the guard of nlohmann
  byte by byte and leaves it inside the string and not escaped (`ItemBytes`); it has six
  bytes at most for each decoded one (`ItemExpands`), so the two lengths never part.
  Outside of strings the length is that of the run of number bytes since one that may
  start a number (`Numbers`);
* `NumbersExactHolds` (`NumbersExact`): digits end at the first byte that is none, so
  each part of a number has one end, and the cuts the grammar guesses are the ends the
  scanners compute. Numerals without leading zeros compare by length and then by the
  first digit that differs as their values do (`LongerIsMore`, `AboveIsMore`), proved
  over the values of their beginnings;
* `AsciiFaithfulHolds` (`AsciiFaithful`): both passes of json-c reach the beginning of
  each item; what is written for an item is one item with the same scalar (a pair of
  escapes is one) and stays written; so the reference, run on the new text, reads item
  after item what it reads on the old one.

The proof of `TokensBounded` needed the case of a limit of one byte: the guard tests a
number when a byte is added to it (`nlparser.cpp:72`) and not at its first byte
(line 83), so a limit of one is noticed at the second. With the limit of the code,
which is far above, it makes no difference.

`CppAdapterProofs`, for every set of engines, keys, limits, ceilings and trees, and
documents of any depth:

* `VisitsInSourceOrder`: the members of a JsonCpp object, visited by ascending
  offset, come in the order of the text. Numbers that ascend within 1..n leave no
  gap, which is proved by a least counterexample;
* `CppInvariant` joins `Settled` (the settings and the count), `Answering` (answer,
  messages, outcome and stage tell one story, and an accepted document is whole with
  nothing behind it) and, while a document is open, `Reading`: the prefix is cut where
  the outer names end (`Stands`, as for YAJL and the walk), depth and frames are as
  many as the open containers, the key is the one the position waits with, and a
  JsonCpp visit goes through members in the order of the text. An event opens,
  closes, names, adds a value or stops; one lemma for each of these five says what
  every engine makes of it, and serves the invariant and the refinement;
* from it `CppPathCorrect` (`PathIsPosition`), `CppAnswerCorrect` (`AnswerIsTrue`)
  and `CppImplements` (`CppSpec => ImplementsExtraction`): five engines with limits
  tested in different orders do the steps of one contract.

The same module proves the class `PathHandler`, for every alphabet, set of keys,
array name, limit and depth:

* `InductiveInvariant`: types, boundaries, residue and name lengths together. The
  strengthening is that boundaries are ordered for *all* pairs of frames, that
  the first is zero, and that an error may leave a half-grown prefix but never a
  frame behind it that is longer;
* from it `TypeCorrect`, `FramesCorrect` (`FramesSound`) and `BuffersCorrect`;
* `Refinement`: `Spec => ImplementsArgumentPath`. `StepRefines` maps each method
  to a step of `ArgumentPath` or a stutter; `SameOuter` (a change of the prefix
  behind the last boundary leaves all saved places as they were) and
  `OuterShape` carry the argument.

`BenchmarkProofs`, for every set of engines, number of passes, limit and clock:

* `InductiveInvariant` joins five parts, each with its lemma for a step: `Types`,
  `Control` (errors, exit status, parser and cells follow the program), `Measured`
  (how many passes have their time when the next one starts, and that each time is
  exact: `DiffExact` does the borrow), `Told` (what each pass has printed up to its
  step, which is needed because whether the last pass prints is decided before the
  first) and `LimitsExact`;
* from it `LimitsCorrect`, `TimesCorrect`, `PrintedCorrect` and `ReleaseCorrect`.
  `Decimal` stays closed in the proof: the argument is that a text is used only if
  `strtoul` did not clamp it.

The assumptions are `PathAssumption`, `FileAssumption`, `BenchmarkAssumption`,
`YajlAssumption`, `GuardAssumption`, `WalkAssumption`, `EventsAssumption`,
`CppAssumption`, `AdapterAssumption`, `TextsAssumption` and `TextAssumption`, all
evaluated by the runs. `AdapterAssumption` and `TextsAssumption` say what a text is, that
the walk's constants hold what the texts give it, and that a number the scanner has
passed fits its buffer; `TextAssumption`, that the limit is positive and that the bounds
of a library's integers are numerals without leading zeros.

Model-checked only, and why:

* liveness under fairness (`FileReturns`, `CallReturns`, `Returns`, `Terminates`):
  what is enabled, which weak fairness is about, is beyond the provers.

## 5. Not modelled, and why

* The libraries: their grammar is external. Glaze in particular is a parser that
  prints nothing, as far as this repository goes.
* `dom_scan_real_range`: whether `strtod` finds a real finite is a matter of
  floating point; integers are compared exactly.
* The scratch allocators of RapidJSON and jsoncons: they bound requests whose sizes
  follow from the growth policies of those libraries. The models let memory fail
  at any event instead.
* The conversion of limits from `double` in the setters of the adapters; the program
  passes `unsigned int` values, which are all valid. What the program does when a
  setter fails is modelled (`Benchmark!Configure`).
* The value of a failure: the adapters answer several (`nlparser.cpp` -1 for a file it
  cannot open, others a code of their library), the models one that is not success.
* The native stack limit of JsonCpp (`jsoncppparser.cpp:276`): an arbitrary refusal of
  the library; `ImplementsExtraction` of `CppAdapter` is about the tests of the adapters.
* The text of help and messages, and the formulas of mean and deviation (floating
  point); null-pointer checks no caller in `src/` can meet.
* `tests/`, `docs/` and the build files have no behaviour of the program.

## 6. What could follow

All components named in the inventory have their module, and every safety invariant,
refinement and action property of the passing runs has its theorem. Not attempted: one
model that sends the same text through two adapters, so that a difference of their
limits shows as a difference of their answers.
