----------------------------- MODULE Benchmark ------------------------------
(***************************************************************************)
(* The command line program: it reads its options, probes the engine it    *)
(* was told to use, times a number of passes over one file, prints the     *)
(* timings and, unless it is silent, the arguments of the file once.       *)
(*                                                                         *)
(* An engine is what the program sees of it: its parser is created, told   *)
(* its limits, run over the file and destroyed, and each of these but the  *)
(* last may fail.  The adapters behind it have modules of their own.       *)
(***************************************************************************)
EXTENDS Integers, SequencesExt

CONSTANTS
    Engines,            \* the engines of this build
    NoLimits,           \* those whose setters answer that limits are unsupported
    ParseOnly,          \* those that parse and print no argument
    NoSetters,          \* those whose limits are fields of the parser: they are stored
    Options,            \* the options getopt can return: <<letter, argument>>
    LIMIT_DEPTH, LIMIT_ARG_NUM,
    UINT_MAX, ULONG_MAX, INT_MAX,
    MaxCells,           \* SIZE_MAX / sizeof(double)
    NSEC,               \* nanoseconds in a second
    MaxOptions,         \* bound: options on the command line
    MaxClock            \* bound: nanoseconds the clock runs for

ASSUME BenchmarkAssumption ==
    /\ NoLimits \subseteq Engines /\ ParseOnly \subseteq Engines
    /\ NoSetters \subseteq Engines
    /\ {LIMIT_DEPTH, LIMIT_ARG_NUM} \subseteq 1..UINT_MAX
    /\ {ULONG_MAX, INT_MAX, MaxCells, MaxOptions, MaxClock} \subseteq Nat
    /\ UINT_MAX \in 1..ULONG_MAX
    /\ NSEC \in Nat \ {0}

VARIABLES
    pc,                 \* where the program is
    pass,               \* "probe", "timed" or "output": which parse_once
    settings,           \* benchmark_settings
    engine,             \* an engine or "none"
    cells,              \* times, one per timed pass, once allocated
    before,             \* the clock read before a pass, a timespec
    parser,             \* "none", or whether the live parser is silent
    out,                \* what was printed on stdout, in order
    warnings,           \* the limits the program said are unsupported
    errors,             \* how many errors it reported
    exit,               \* "running", "success" (0) or "failure" (1)
    \* History: the clock, the ticks each measured pass took, and the arguments
    \* of -d, -a and -n accepted last, with how many options were read; and the
    \* parsers created so far less the calls that destroyed one.
    now, ticks, accepted, options, owed

handle  == <<parser, owed>>
run     == <<pc, pass, handle, before, now>>
results == <<cells, ticks>>
parsed  == <<settings, engine, accepted, options>>
streams == <<out, warnings, errors>>
vars    == <<run, results, parsed, streams, exit>>

\* A cell malloc returned and no pass has filled.
Unset == [sec |-> -1, nsec |-> -1]

IsDigit(c) == c \in 48..57

Decimal(text) == FoldLeft(LAMBDA n, c : n * 10 + (c - 48), 0, text)

\* strtoul: the value, or ULONG_MAX and a range error.
Strtoul(text) == IF Decimal(text) <= ULONG_MAX THEN Decimal(text) ELSE ULONG_MAX

(***************************************************************************)
(* Mutated forms, for mutation runs only.                                  *)
(***************************************************************************)

\* The range error of strtoul is not looked at; a timed pass prints whatever
\* the count; the difference of nanoseconds does not borrow; a failure is
\* not reported; a parser is destroyed a second time; a pass is not counted.
IsClampedNumber(text, bound) ==
    /\ text # <<>> /\ \A i \in DOMAIN text : IsDigit(text[i])
    /\ Strtoul(text) \in 1..bound
TimedAsAsked == settings.silence
DiffNoBorrow(a, b) ==
    IF a.nsec < b.nsec
    THEN [sec |-> a.sec - b.sec, nsec |-> b.nsec - a.nsec]
    ELSE [sec |-> a.sec - b.sec, nsec |-> a.nsec - b.nsec]
FailQuietly(status) ==
    /\ exit' = status /\ pc' = "done" /\ cells' = <<>>
    /\ UNCHANGED <<errors, pass>>
DestroyedTwice == parser' = "none" /\ owed' = owed - 2
NotCounted(n) == UNCHANGED results

(***************************************************************************)
(* Helpers.                                                                *)
(***************************************************************************)

\* parse_limit accepts digits only, no overflow, and 1 to bound.
IsNumber(text, bound) ==
    /\ text # <<>> /\ \A i \in DOMAIN text : IsDigit(text[i])
    /\ Decimal(text) <= ULONG_MAX
    /\ Strtoul(text) \in 1..bound

Timespec(t) == [sec |-> t \div NSEC, nsec |-> t % NSEC]

TimespecDiff(a, b) ==
    IF a.nsec < b.nsec
    THEN [sec |-> a.sec - b.sec - 1, nsec |-> a.nsec + NSEC - b.nsec]
    ELSE [sec |-> a.sec - b.sec, nsec |-> a.nsec - b.nsec]

\* Timed passes print only when there is one of them.
TimedSilence == settings.silence \/ settings.iterations > 1

\* Limits a setter does not take are reported by the probing pass alone.
ReportsSupport(p) == p = "probe"

\* The pass to run once n cells are measured.
AllTimed(n) == n >= settings.iterations
OutputAgain == settings.iterations > 1 /\ ~settings.silence

(***************************************************************************)
(* Leaving main: the cells are freed whatever happened after malloc.       *)
(***************************************************************************)

Leave(status) ==
    /\ exit' = status /\ pc' = "done" /\ cells' = <<>>
    /\ UNCHANGED pass

Fail(status) ==
    /\ exit' = status /\ pc' = "done" /\ cells' = <<>>
    /\ errors' = errors + 1
    /\ UNCHANGED pass

(***************************************************************************)
(* parse_options.                                                          *)
(***************************************************************************)

Init ==
    /\ pc = "options" /\ pass = "probe"
    /\ settings = [depth |-> LIMIT_DEPTH, args |-> LIMIT_ARG_NUM,
                   silence |-> FALSE, iterations |-> 1]
    /\ engine = "none" /\ cells = <<>> /\ parser = "none" /\ owed = 0
    /\ out = <<>> /\ warnings = <<>> /\ errors = 0 /\ exit = "running"
    /\ now \in 0..NSEC - 1 /\ before = Timespec(now) /\ ticks = <<>>
    /\ accepted = [d |-> <<>>, a |-> <<>>, n |-> <<>>]
    /\ options = 0

\* One round of getopt's loop.
Option(letter) ==
    /\ pc = "options" /\ options < MaxOptions
    /\ options' = options + 1
    /\ UNCHANGED <<handle, before, now, ticks, warnings>>

Accept(letter, field, text) ==
    /\ settings' = [settings EXCEPT ![field] = Strtoul(text)]
    /\ accepted' = [accepted EXCEPT ![letter] = text]
    /\ UNCHANGED <<pc, pass, engine, cells, out, errors, exit>>

AcceptLimit(letter, field, text, bound) ==
    /\ Option(letter)
    /\ \/ IsNumber(text, bound) /\ Accept(letter, field, text)
       \/ /\ ~IsNumber(text, bound) /\ Fail("failure")
          /\ UNCHANGED <<settings, engine, accepted, out>>

AcceptEngine(name) ==
    /\ Option("e")
    /\ \/ /\ name \in Engines /\ engine' = name
          /\ UNCHANGED <<pc, pass, cells, settings, accepted, out, errors, exit>>
       \/ /\ name \notin Engines /\ engine' = "none" /\ Fail("failure")
          /\ UNCHANGED <<settings, accepted, out>>

AcceptSilence ==
    /\ Option("s")
    /\ settings' = [settings EXCEPT !.silence = TRUE]
    /\ UNCHANGED <<pc, pass, engine, cells, accepted, out, errors, exit>>

\* -h, and any option getopt does not know.
ShowHelp ==
    /\ Option("h") /\ Leave("success")
    /\ out' = Append(out, "help")
    /\ UNCHANGED <<settings, engine, accepted, errors>>

AcceptOption ==
    \E o \in Options :
        \/ o[1] = "d" /\ AcceptLimit("d", "depth", o[2], UINT_MAX)
        \/ o[1] = "a" /\ AcceptLimit("a", "args", o[2], UINT_MAX)
        \/ o[1] = "n" /\ AcceptLimit("n", "iterations", o[2], INT_MAX)
        \/ o[1] = "e" /\ AcceptEngine(o[2])
        \/ o[1] = "s" /\ AcceptSilence
        \/ o[1] = "h" /\ ShowHelp

\* After the last option: no engine is no failure, no file is one.
OptionsDone ==
    /\ pc = "options"
    /\ UNCHANGED <<pass, handle, before, now, ticks, cells, parsed, warnings>>
    /\ \/ /\ engine = "none"
          /\ out' = Append(out, "no engine") /\ exit' = "success" /\ pc' = "done"
          /\ UNCHANGED errors
       \/ /\ engine # "none"                                  \* no file name
          /\ out' = Append(out, "no file") /\ exit' = "failure" /\ pc' = "done"
          /\ errors' = errors + 1
       \/ /\ engine # "none" /\ pc' = "allocate"
          /\ UNCHANGED <<out, errors, exit>>

\* main allocates one cell for each timed pass.
Allocate ==
    /\ pc = "allocate"
    /\ UNCHANGED <<handle, before, now, ticks, parsed, out, warnings>>
    /\ \/ Fail("failure")                                  \* overflow, or malloc fails
       \/ /\ settings.iterations <= MaxCells
          /\ cells' = [i \in 1..settings.iterations |-> Unset]
          /\ pc' = "start" /\ pass' = "probe"
          /\ UNCHANGED <<errors, exit>>

(***************************************************************************)
(* parse_once and, within it, the run_ function of the engine.             *)
(***************************************************************************)

\* Only the probing pass does not read the clock.
StartPass ==
    /\ pc = "start"
    /\ UNCHANGED <<handle, now, ticks, parsed, out, warnings>>
    /\ \/ pass # "probe" /\ Fail("failure") /\ UNCHANGED before
       \/ /\ pc' = "create"
          /\ before' = IF pass = "probe" THEN before ELSE Timespec(now)
          /\ UNCHANGED <<pass, cells, errors, exit>>

Silence ==
    CASE pass = "probe"  -> TRUE
      [] pass = "timed"  -> TimedSilence
      [] pass = "output" -> FALSE

CreateParser ==
    /\ pc = "create"
    /\ UNCHANGED <<before, now, ticks, parsed, out, warnings>>
    /\ \/ Fail("failure") /\ UNCHANGED handle
       \/ /\ owed' = owed + 1
          /\ parser' = IF Silence THEN "silent" ELSE "printing"
          /\ pc' = "configure"
          /\ UNCHANGED <<pass, cells, errors, exit>>

Destroyed == parser' = "none" /\ owed' = owed - 1

\* The warnings once said is reported, as far as this pass reports at all.
Warned(said) ==
    IF engine \in NoLimits /\ ReportsSupport(pass) THEN warnings \o said ELSE warnings

\* The setters of both limits, which may say that there is none, and of silence:
\* the first that fails ends the pass.  The options let no value through that an
\* adapter refuses, but the pass is written for a setter that does.
Configure ==
    /\ pc = "configure"
    /\ UNCHANGED <<before, now, ticks, parsed, out>>
    /\ \/ /\ pc' = IF pass = "probe" THEN "destroy" ELSE "parse"
          /\ warnings' = Warned(<<"depth", "arg num">>)
          /\ UNCHANGED <<pass, handle, cells, errors, exit>>
       \/ /\ engine \notin NoSetters
          /\ Destroyed /\ Fail("failure")
          /\ \E said \in {<<>>, <<"depth">>, <<"depth", "arg num">>} :
                 warnings' = Warned(said)

\* What a pass prints, as far as it gets: it takes time, and may fail.
Printed(success) ==
    IF parser = "silent" \/ engine \in ParseOnly THEN {<<>>}
    ELSE IF success THEN {<<"document">>} ELSE {<<>>, <<"part">>}

ParseFile ==
    /\ pc = "parse"
    /\ now' \in now..MaxClock
    /\ UNCHANGED <<before, ticks, parsed, warnings>>
    /\ \/ /\ pc' = "destroy"
          /\ \E items \in Printed(TRUE) : out' = out \o items
          /\ UNCHANGED <<pass, handle, cells, errors, exit>>
       \/ /\ Destroyed /\ Fail("failure")
          /\ \E items \in Printed(FALSE) : out' = out \o items

\* Mutated form: a pass that is counted twice.
CountedTwice(n) ==
    /\ cells' = [cells EXCEPT ![n] = TimespecDiff(Timespec(now), before)]
    /\ ticks' = ticks \o <<now, now>>

\* A pass that succeeded: the parser is destroyed and the clock read.
Recorded(n) ==
    /\ cells' = [cells EXCEPT ![n] = TimespecDiff(Timespec(now), before)]
    /\ ticks' = Append(ticks, now - (before.sec * NSEC + before.nsec))

FinishPass ==
    /\ pc = "destroy" /\ Destroyed
    /\ UNCHANGED <<before, now, parsed, warnings>>
    /\ \/ /\ pass = "probe"
          /\ pass' = "timed" /\ pc' = "start"
          /\ UNCHANGED <<results, out, errors, exit>>
       \/ /\ pass # "probe" /\ Fail("failure") /\ UNCHANGED <<ticks, out>>
       \/ /\ pass = "timed" /\ Recorded(Len(ticks) + 1)
          /\ pc' = IF AllTimed(Len(ticks) + 1) THEN "stats" ELSE "start"
          /\ UNCHANGED <<pass, out, errors, exit>>
       \/ /\ pass = "output" /\ pc' = "flush"
          /\ UNCHANGED <<pass, results, out, errors, exit>>

(***************************************************************************)
(* The end of benchmark.                                                   *)
(***************************************************************************)

PrintStats ==
    /\ pc = "stats"
    /\ out' = Append(out, "stats")
    /\ \/ OutputAgain /\ pass' = "output" /\ pc' = "start"
       \/ ~OutputAgain /\ pc' = "flush" /\ UNCHANGED pass
    /\ UNCHANGED <<handle, before, now, results, parsed, warnings, errors, exit>>

Flush ==
    /\ pc = "flush"
    /\ UNCHANGED <<handle, before, now, ticks, parsed, out, warnings>>
    /\ \/ Leave("success") /\ UNCHANGED errors
       \/ Fail("failure")

Stopped == pc = "done" /\ UNCHANGED vars

Next ==
    \/ AcceptOption \/ OptionsDone \/ Allocate
    \/ StartPass \/ CreateParser \/ Configure \/ ParseFile \/ FinishPass
    \/ PrintStats \/ Flush \/ Stopped

Spec == Init /\ [][Next]_vars

\* The program is one thread that never waits: it takes its next step.
FairSpec == Spec /\ WF_vars(Next)

(***************************************************************************)
(* Properties.                                                             *)
(***************************************************************************)

Limit(text, default) == IF text = <<>> THEN default ELSE Decimal(text)

\* Every limit in force is the number that was written last, or its default;
\* a number that does not fit never becomes another one that does.
LimitsExact ==
    /\ settings.depth = Limit(accepted.d, LIMIT_DEPTH)
    /\ settings.args = Limit(accepted.a, LIMIT_ARG_NUM)
    /\ settings.iterations = Limit(accepted.n, 1)

\* The statistics are made of one exact time for each of the passes asked for:
\* no cell is read that was not measured, and no borrow is lost.
TimesExact ==
    pc = "stats" =>
        \A i \in 1..settings.iterations :
            /\ cells[i].nsec \in 0..NSEC - 1
            /\ cells[i].sec * NSEC + cells[i].nsec = ticks[i]

Ran == out # <<>> /\ out[1] \notin {"help", "no engine", "no file"}

\* What stdout holds when a benchmark succeeded.
Report ==
    IF settings.silence \/ engine \in ParseOnly THEN <<"stats">>
    ELSE IF settings.iterations = 1 THEN <<"document", "stats">>
    ELSE <<"stats", "document">>

\* A benchmark that exits with success has printed every argument exactly once
\* however many passes it made, or none when silent, and the timings once; a
\* run that stopped early never printed a whole document twice.  That an engine
\* has no limits is said once as well, whatever the passes, before the first
\* time; and the exit status tells exactly whether an error was reported.
PrintedOnce ==
    /\ pc = "done" => exit = IF errors = 0 THEN "success" ELSE "failure"
    /\ exit = "success" /\ Ran => out = Report
    /\ \A i, j \in DOMAIN out : i # j => out[i] # out[j]
    /\ ticks = <<>> \/ warnings = IF engine \in NoLimits
                                  THEN <<"depth", "arg num">> ELSE <<>>

\* Whichever call of a pass fails, a parser that was created is destroyed once: it
\* never outlives its pass, and none is destroyed that is gone already.  Nor do the
\* cells outlive the program.
ParserReleased ==
    /\ owed = IF parser = "none" THEN 0 ELSE 1
    /\ parser # "none" => pc \in {"configure", "parse", "destroy"}
    /\ pc = "done" => cells = <<>>

\* However many iterations are asked for and whatever fails, the program ends.
Terminates == <>(pc = "done")

\* The tests apply one matrix to every engine and demand the arguments of the
\* document from each: without -s, a success has printed the document.
ArgumentsPrinted ==
    exit = "success" /\ Ran /\ ~settings.silence => "document" \in ToSet(out)

=============================================================================
