--------------------------- MODULE BenchmarkProofs ---------------------------
(***************************************************************************)
(* Benchmark, for every engine, number of passes, limit and clock: limits, *)
(* times, what is printed and what is released.                            *)
(***************************************************************************)
EXTENDS Benchmark, SequenceTheorems, TLAPS

(***************************************************************************)
(* The inductive invariant.  What is printed at the end follows from what  *)
(* each pass has printed up to its step, and the times from how many       *)
(* passes have been measured when the next one starts.                     *)
(***************************************************************************)

Passing == {"start", "create", "configure", "parse", "destroy"}
Clocks == [sec : Int, nsec : 0..NSEC - 1]
Nanoseconds(t) == t.sec * NSEC + t.nsec

Types ==
    /\ pc \in {"options", "allocate", "stats", "flush", "done"} \cup Passing
    /\ pass \in {"probe", "timed", "output"}
    /\ settings \in [depth : Nat, args : Nat, silence : BOOLEAN, iterations : Nat \ {0}]
    /\ accepted = [d |-> accepted.d, a |-> accepted.a, n |-> accepted.n]
    /\ before \in Clocks /\ now \in Nat /\ ticks \in Seq(Int)
    /\ errors \in Nat

Control ==
    /\ pc # "done" => errors = 0 /\ exit = "running"
    /\ pc = "done" => exit = IF errors = 0 THEN "success" ELSE "failure"
    /\ pc = "done" => parser = "none" /\ cells = <<>>
    /\ pc = "options" => cells = <<>>
    /\ parser = "none" <=> pc \notin {"configure", "parse", "destroy"}
    /\ owed = IF parser = "none" THEN 0 ELSE 1

\* How many passes are measured, and that each has its exact time.
Measured ==
    /\ pc \in {"options", "allocate"} \/ (pc \in Passing /\ pass = "probe") => ticks = <<>>
    /\ pc \in Passing /\ pass = "timed" => Len(ticks) < settings.iterations
    /\ pc = "stats" => Len(ticks) = settings.iterations
    /\ pc \in {"stats", "flush"} \cup Passing =>
        /\ DOMAIN cells = 1..settings.iterations
        /\ cells = [i \in 1..settings.iterations |-> cells[i]]
        /\ Len(ticks) <= settings.iterations
        /\ \A i \in 1..Len(ticks) :
               cells[i].nsec \in 0..NSEC - 1 /\ Nanoseconds(cells[i]) = ticks[i]

Unsupported == IF engine \in NoLimits THEN <<"depth", "arg num">> ELSE <<>>

\* The timed pass prints, as there is one only.
Loud == ~settings.silence /\ settings.iterations = 1 /\ engine \notin ParseOnly
AfterTimed == IF Loud THEN <<"document">> ELSE <<>>
AfterOutput == IF engine \in ParseOnly THEN <<"stats">> ELSE <<"stats", "document">>

Texts == {<<>>, <<"document">>, <<"part">>, <<"stats">>, <<"stats", "document">>,
          <<"stats", "part">>, <<"document", "stats">>,
          <<"help">>, <<"no engine">>, <<"no file">>}

\* What has been printed and warned of when a step is due.
Told ==
    /\ out \in Texts
    /\ ticks # <<>> => warnings = Unsupported
    /\ pc \in {"configure", "parse", "destroy"} =>
           parser = IF Silence THEN "silent" ELSE "printing"
    /\ pc \in {"options", "allocate"} => out = <<>> /\ warnings = <<>>
    /\ pc \in Passing /\ pass = "probe" =>
           /\ out = <<>> /\ pc # "parse"
           /\ warnings = IF pc = "destroy" THEN Unsupported ELSE <<>>
    /\ pc \in Passing /\ pass = "timed" =>
           /\ warnings = Unsupported
           /\ out = IF pc = "destroy" THEN AfterTimed ELSE <<>>
    /\ pc = "stats" => warnings = Unsupported /\ out = AfterTimed
    /\ pc \in Passing /\ pass = "output" =>
           /\ warnings = Unsupported /\ OutputAgain
           /\ out = IF pc = "destroy" THEN AfterOutput ELSE <<"stats">>
    /\ pc = "flush" => warnings = Unsupported /\ out = Report
    /\ exit = "success" /\ Ran => out = Report

Inv == Types /\ Control /\ Measured /\ Told /\ LimitsExact

(***************************************************************************)
(* Clocks.                                                                 *)
(***************************************************************************)

\* A reading of the clock is a second and its nanoseconds.
LEMMA TimespecExact ==
    ASSUME NEW t \in Nat
    PROVE  Timespec(t) \in Clocks /\ Nanoseconds(Timespec(t)) = t
<1> USE BenchmarkAssumption
<1>1. t \div NSEC \in Int /\ t % NSEC \in 0..NSEC - 1
  OBVIOUS
<1>2. t = NSEC * (t \div NSEC) + (t % NSEC)
  OBVIOUS
<1>3. (t \div NSEC) * NSEC = NSEC * (t \div NSEC)
  BY <1>1
<1> QED
  BY <1>1, <1>2, <1>3 DEF Timespec, Clocks, Nanoseconds

\* timespec_diff is the difference, with the borrow.
LEMMA DiffExact ==
    ASSUME NEW a \in Clocks, NEW b \in Clocks
    PROVE  /\ TimespecDiff(a, b) \in Clocks
           /\ Nanoseconds(TimespecDiff(a, b)) = Nanoseconds(a) - Nanoseconds(b)
<1> USE BenchmarkAssumption
<1> DEFINE s == a.sec  t == b.sec
<1>1. /\ s \in Int /\ t \in Int
      /\ a.nsec \in 0..NSEC - 1 /\ b.nsec \in 0..NSEC - 1
  BY DEF Clocks
<1>2. /\ (s - t) * NSEC = s * NSEC - t * NSEC
      /\ (s - t - 1) * NSEC = s * NSEC - t * NSEC - NSEC
      /\ s * NSEC \in Int /\ t * NSEC \in Int
  <2> HIDE DEF s, t
  <2> QED  BY <1>1
<1>3. CASE a.nsec < b.nsec
  BY <1>1, <1>2, <1>3 DEF TimespecDiff, Clocks, Nanoseconds
<1>4. CASE ~(a.nsec < b.nsec)
  BY <1>1, <1>2, <1>4 DEF TimespecDiff, Clocks, Nanoseconds
<1> QED
  BY <1>3, <1>4

(***************************************************************************)
(* Types and control.                                                      *)
(***************************************************************************)

\* A number that is accepted is a limit and none other than was written.
LEMMA AcceptedNumber ==
    ASSUME NEW text, NEW bound \in Nat, IsNumber(text, bound)
    PROVE  /\ Strtoul(text) \in Nat \ {0} /\ Strtoul(text) = Decimal(text)
           /\ text # <<>>
BY DEF IsNumber, Strtoul

\* What an option may do: nothing but end the program or set one of its fields.
LEMMA OptionCases ==
    ASSUME AcceptOption
    PROVE  \/ \E letter \in {"d", "a", "n"} : \E text :
                 /\ Option(letter) /\ text # <<>>
                 /\ Strtoul(text) = Decimal(text) /\ Strtoul(text) \in Nat \ {0}
                 /\ Accept(letter, [d |-> "depth", a |-> "args", n |-> "iterations"][letter],
                           text)
           \/ /\ Option("e")
              /\ UNCHANGED <<pc, pass, cells, settings, accepted, out, errors, exit>>
           \/ \E letter : /\ Option(letter) /\ Fail("failure")
                          /\ UNCHANGED <<settings, accepted, out>>
           \/ AcceptSilence \/ ShowHelp
<1> USE BenchmarkAssumption
<1>1. PICK o \in Options :
        \/ o[1] = "d" /\ AcceptLimit("d", "depth", o[2], UINT_MAX)
        \/ o[1] = "a" /\ AcceptLimit("a", "args", o[2], UINT_MAX)
        \/ o[1] = "n" /\ AcceptLimit("n", "iterations", o[2], INT_MAX)
        \/ o[1] = "e" /\ AcceptEngine(o[2])
        \/ o[1] = "s" /\ AcceptSilence
        \/ o[1] = "h" /\ ShowHelp
  BY Zenon DEF AcceptOption
<1>2. ASSUME NEW letter \in {"d", "a", "n"}, NEW bound \in Nat,
             NEW field, field = [d |-> "depth", a |-> "args", n |-> "iterations"][letter],
             AcceptLimit(letter, field, o[2], bound)
      PROVE  \/ /\ Option(letter) /\ o[2] # <<>>
                /\ Strtoul(o[2]) = Decimal(o[2]) /\ Strtoul(o[2]) \in Nat \ {0}
                /\ Accept(letter, field, o[2])
             \/ /\ Option(letter) /\ Fail("failure")
                /\ UNCHANGED <<settings, accepted, out>>
  <2>1. CASE IsNumber(o[2], bound)
    BY <1>2, <2>1, AcceptedNumber, Zenon DEF AcceptLimit
  <2>2. CASE ~IsNumber(o[2], bound)
    BY <1>2, <2>2, Zenon DEF AcceptLimit
  <2> QED
    BY <2>1, <2>2
<1>3. UINT_MAX \in Nat /\ INT_MAX \in Nat
  OBVIOUS
<1>4. CASE o[1] = "d" /\ AcceptLimit("d", "depth", o[2], UINT_MAX)
  BY <1>2, <1>3, <1>4
<1>5. CASE o[1] = "a" /\ AcceptLimit("a", "args", o[2], UINT_MAX)
  BY <1>2, <1>3, <1>5
<1>6. CASE o[1] = "n" /\ AcceptLimit("n", "iterations", o[2], INT_MAX)
  BY <1>2, <1>3, <1>6
<1>7. CASE o[1] = "e" /\ AcceptEngine(o[2])
  BY <1>7, Zenon DEF AcceptEngine
<1> QED
  BY <1>1, <1>4, <1>5, <1>6, <1>7

\* The state stays well typed.
LEMMA StepTypes == Inv /\ [Next]_vars => Types'
<1> SUFFICES ASSUME Inv, [Next]_vars PROVE Types'
  OBVIOUS
<1> USE BenchmarkAssumption DEF Types, handle, run, results, parsed, streams, vars
<1>0. Types
  BY DEF Inv
<1>1. ASSUME AcceptOption PROVE Types'
  <2>1. ASSUME NEW letter \in {"d", "a", "n"}, NEW text, Option(letter),
               Strtoul(text) \in Nat \ {0},
               Accept(letter, [d |-> "depth", a |-> "args", n |-> "iterations"][letter], text)
        PROVE Types'
    <3>1. /\ pc' = pc /\ pass' = pass /\ before' = before /\ now' = now
          /\ ticks' = ticks /\ errors' = errors
      BY <2>1 DEF Option, Accept
    <3>2. CASE letter = "d"
      <4>1. /\ settings' = [settings EXCEPT !.depth = Strtoul(text)]
            /\ accepted' = [accepted EXCEPT !.d = text]
        BY <2>1, <3>2 DEF Accept
      <4> QED
        BY <1>0, <2>1, <3>1, <4>1
    <3>3. CASE letter = "a"
      <4>1. /\ settings' = [settings EXCEPT !.args = Strtoul(text)]
            /\ accepted' = [accepted EXCEPT !.a = text]
        BY <2>1, <3>3 DEF Accept
      <4> QED
        BY <1>0, <2>1, <3>1, <4>1
    <3>4. CASE letter = "n"
      <4>1. /\ settings' = [settings EXCEPT !.iterations = Strtoul(text)]
            /\ accepted' = [accepted EXCEPT !.n = text]
        BY <2>1, <3>4 DEF Accept
      <4> QED
        BY <1>0, <2>1, <3>1, <4>1
    <3> QED
      BY <3>2, <3>3, <3>4
  <2>2. ASSUME NEW letter, Option(letter), Fail("failure"), UNCHANGED <<settings, accepted>>
        PROVE Types'
    BY <1>0, <2>2 DEF Option, Fail
  <2>3. CASE AcceptSilence
    BY <1>0, <2>3 DEF AcceptSilence, Option
  <2>4. CASE ShowHelp
    BY <1>0, <2>4 DEF ShowHelp, Option, Leave
  <2>5. ASSUME Option("e"),
               UNCHANGED <<pc, pass, cells, settings, accepted, out, errors, exit>>
        PROVE Types'
    BY <1>0, <2>5 DEF Option
  <2> QED
    BY <1>1, <2>1, <2>2, <2>3, <2>4, <2>5, OptionCases
<1>2. ASSUME OptionsDone PROVE Types'
  <2>1. /\ pc' \in {"done", "allocate"} /\ errors' \in {errors, errors + 1}
        /\ UNCHANGED <<pass, settings, accepted, before, now, ticks>>
    BY <1>0, <1>2 DEF OptionsDone
  <2> QED
    BY <1>0, <2>1
<1>3. ASSUME Allocate PROVE Types'
  BY <1>0, <1>3 DEF Allocate, Fail, Passing
<1>4. ASSUME StartPass PROVE Types'
  BY <1>0, <1>4, TimespecExact DEF StartPass, Fail, Passing
<1>5. ASSUME CreateParser PROVE Types'
  BY <1>0, <1>5 DEF CreateParser, Fail, Passing
<1>6. ASSUME Configure PROVE Types'
  <2>1. /\ pc' \in {"destroy", "parse", "done"} /\ errors' \in {errors, errors + 1}
        /\ UNCHANGED <<pass, settings, accepted, before, now, ticks>>
    BY <1>6 DEF Configure, Fail
  <2> QED
    BY <1>0, <2>1 DEF Passing
<1>7. ASSUME ParseFile PROVE Types'
  <2>1. /\ pc' \in {"destroy", "done"} /\ errors' \in {errors, errors + 1}
        /\ now' \in now..MaxClock
        /\ UNCHANGED <<pass, settings, accepted, before, ticks>>
    BY <1>7 DEF ParseFile, Fail
  <2>2. now' \in Nat
    BY <1>0, <2>1
  <2> QED
    BY <1>0, <2>1, <2>2 DEF Passing
<1>8. ASSUME FinishPass PROVE Types'
  <2>1. now - Nanoseconds(before) \in Int
    <3>1. before.sec \in Int /\ before.nsec \in Int /\ now \in Int /\ NSEC \in Int
      BY <1>0 DEF Clocks
    <3>2. \A a, b, c, d \in Int : a - (b * c + d) \in Int
      OBVIOUS
    <3> QED
      BY <3>1, <3>2 DEF Nanoseconds
  <2>2. ticks' = ticks \/ ticks' = Append(ticks, now - Nanoseconds(before))
    BY <1>8 DEF FinishPass, Recorded, Nanoseconds
  <2>3. ticks' \in Seq(Int)
    <3> DEFINE d == now - Nanoseconds(before)
    <3>1. ticks \in Seq(Int) /\ d \in Int /\ (ticks' = ticks \/ ticks' = Append(ticks, d))
      BY <1>0, <2>1, <2>2
    <3> HIDE DEF d
    <3>2. Append(ticks, d) \in Seq(Int)
      BY <3>1, AppendProperties, Zenon
    <3> QED
      BY <3>1, <3>2
  <2>4. /\ pc' \in {"start", "stats", "flush", "done"} /\ errors' \in {errors, errors + 1}
        /\ pass' \in {pass, "timed"} /\ UNCHANGED <<settings, accepted, before, now>>
    BY <1>8 DEF FinishPass, Fail
  <2> QED
    BY <1>0, <2>3, <2>4 DEF Passing
<1>9. ASSUME PrintStats PROVE Types'
  BY <1>0, <1>9 DEF PrintStats, Passing
<1>10. ASSUME Flush PROVE Types'
  BY <1>0, <1>10 DEF Flush, Leave, Fail
<1>11. ASSUME UNCHANGED vars PROVE Types'
  BY <1>0, <1>11
<1> QED
  BY <1>1, <1>2, <1>3, <1>4, <1>5, <1>6, <1>7, <1>8, <1>9, <1>10, <1>11 DEF Next, Stopped

\* Errors and the exit status, the parser and the cells follow the program.
LEMMA StepControl == Inv /\ [Next]_vars => Control'
<1> SUFFICES ASSUME Inv, [Next]_vars PROVE Control'
  OBVIOUS
<1> USE BenchmarkAssumption DEF Control, handle, run, results, parsed, streams, vars
<1>0. Types /\ Control
  BY DEF Inv
<1>1. ASSUME AcceptOption PROVE Control'
  <2>1. ASSUME NEW letter \in {"d", "a", "n"}, NEW text, Option(letter),
               Accept(letter, [d |-> "depth", a |-> "args", n |-> "iterations"][letter], text)
        PROVE Control'
    BY <1>0, <2>1 DEF Option, Accept
  <2>2. ASSUME NEW letter, Option(letter), Fail("failure") PROVE Control'
    BY <1>0, <2>2 DEF Option, Fail
  <2>3. CASE AcceptSilence
    BY <1>0, <2>3 DEF AcceptSilence, Option
  <2>4. CASE ShowHelp
    BY <1>0, <2>4 DEF ShowHelp, Option, Leave
  <2>5. ASSUME Option("e"),
               UNCHANGED <<pc, pass, cells, settings, accepted, out, errors, exit>>
        PROVE Control'
    BY <1>0, <2>5 DEF Option
  <2> QED
    BY <1>1, <2>1, <2>2, <2>3, <2>4, <2>5, OptionCases
<1>2. ASSUME OptionsDone PROVE Control'
  <2>1. /\ pc = "options" /\ parser' = "none" /\ owed' = 0 /\ cells' = <<>>
        /\ errors = 0 /\ exit = "running"
    BY <1>0, <1>2 DEF OptionsDone
  <2>2. \/ exit' = "success" /\ pc' = "done" /\ errors' = errors
        \/ exit' = "failure" /\ pc' = "done" /\ errors' = errors + 1
        \/ pc' = "allocate" /\ errors' = errors /\ exit' = exit
    BY <1>2 DEF OptionsDone
  <2> QED
    BY <2>1, <2>2
<1>3. ASSUME Allocate PROVE Control'
  BY <1>0, <1>3 DEF Allocate, Fail
<1>4. ASSUME StartPass PROVE Control'
  BY <1>0, <1>4 DEF StartPass, Fail
<1>5. ASSUME CreateParser PROVE Control'
  BY <1>0, <1>5 DEF CreateParser, Fail
<1>6. ASSUME Configure PROVE Control'
  <2>1. /\ pc = "configure"
        /\ \/ pc' \in {"destroy", "parse"} /\ UNCHANGED <<handle, cells, errors, exit>>
           \/ Destroyed /\ Fail("failure")
    BY <1>6 DEF Configure
  <2> QED
    BY <1>0, <2>1 DEF Fail, Destroyed, Types
<1>7. ASSUME ParseFile PROVE Control'
  <2>1. /\ pc = "parse"
        /\ \/ pc' = "destroy" /\ UNCHANGED <<handle, cells, errors, exit>>
           \/ Destroyed /\ Fail("failure")
    BY <1>7 DEF ParseFile
  <2> QED
    BY <1>0, <2>1 DEF Fail, Destroyed, Types
<1>8. ASSUME FinishPass PROVE Control'
  BY <1>0, <1>8 DEF FinishPass, Fail, Destroyed
<1>9. ASSUME PrintStats PROVE Control'
  BY <1>0, <1>9 DEF PrintStats
<1>10. ASSUME Flush PROVE Control'
  BY <1>0, <1>10 DEF Flush, Leave, Fail
<1>11. ASSUME UNCHANGED vars PROVE Control'
  BY <1>0, <1>11
<1> QED
  BY <1>1, <1>2, <1>3, <1>4, <1>5, <1>6, <1>7, <1>8, <1>9, <1>10, <1>11 DEF Next, Stopped

(***************************************************************************)
(* Limits, times and output.                                               *)
(***************************************************************************)

\* Limits are those that were written.
LEMMA StepLimits == Inv /\ [Next]_vars => LimitsExact'
<1> SUFFICES ASSUME Inv, [Next]_vars PROVE LimitsExact'
  OBVIOUS
<1> USE DEF LimitsExact, Limit, handle, run, results, parsed, streams, vars
<1>0. Types /\ LimitsExact
  BY DEF Inv
<1>1. ASSUME AcceptOption PROVE LimitsExact'
  <2>1. ASSUME NEW letter \in {"d", "a", "n"}, NEW text, text # <<>>,
               Strtoul(text) = Decimal(text),
               Accept(letter, [d |-> "depth", a |-> "args", n |-> "iterations"][letter], text)
        PROVE LimitsExact'
    BY <1>0, <2>1 DEF Accept, Types
  <2>2. ASSUME UNCHANGED <<settings, accepted>> PROVE LimitsExact'
    BY <1>0, <2>2
  <2>3. CASE AcceptSilence
    BY <1>0, <2>3 DEF AcceptSilence, Types
  <2> QED
    BY <1>1, <2>1, <2>2, <2>3, OptionCases DEF ShowHelp
<1>2. ASSUME UNCHANGED parsed PROVE LimitsExact'
  BY <1>0, <1>2
<1> QED
  BY <1>1, <1>2 DEF Next, OptionsDone, Allocate, StartPass, CreateParser, Configure,
                    ParseFile, FinishPass, PrintStats, Flush, Stopped

\* A pass that ends adds its own time, in its own cell.
LEMMA RecordedExact ==
    ASSUME Types, pc = "destroy", pass = "timed", Measured,
           Recorded(Len(ticks) + 1)
    PROVE  /\ Len(ticks') = Len(ticks) + 1
           /\ cells' = [i \in 1..settings.iterations |-> cells'[i]]
           /\ \A i \in 1..Len(ticks') :
                  cells'[i].nsec \in 0..NSEC - 1 /\ Nanoseconds(cells'[i]) = ticks'[i]
<1> DEFINE n == Len(ticks) + 1
           t == TimespecDiff(Timespec(now), before)
<1>1. /\ ticks \in Seq(Int) /\ n \in 1..settings.iterations
      /\ cells = [i \in 1..settings.iterations |-> cells[i]]
      /\ before \in Clocks /\ now \in Nat /\ settings.iterations \in Nat
  BY DEF Types, Measured, Passing
<1>2. t \in Clocks /\ Nanoseconds(t) = now - Nanoseconds(before)
  BY <1>1, TimespecExact, DiffExact
<1>3. now - Nanoseconds(before) \in Int
  BY <1>1, BenchmarkAssumption DEF Clocks, Nanoseconds
<1>4. ticks' = Append(ticks, now - Nanoseconds(before)) /\ cells' = [cells EXCEPT ![n] = t]
  BY DEF Recorded, Nanoseconds
<1>5. /\ Len(ticks') = n /\ ticks'[n] = Nanoseconds(t)
      /\ \A i \in 1..Len(ticks) : ticks'[i] = ticks[i]
  BY <1>1, <1>2, <1>3, <1>4
<1>6. /\ cells'[n] = t /\ \A i \in 1..Len(ticks) : cells'[i] = cells[i]
      /\ cells' = [i \in 1..settings.iterations |-> cells'[i]]
  <2> HIDE DEF t
  <2>1. cells' = [i \in 1..settings.iterations |-> IF i = n THEN t ELSE cells[i]]
    <3>1. [cells EXCEPT ![n] = t]
            = [i \in DOMAIN cells |-> IF i = n THEN t ELSE cells[i]]
      BY Zenon
    <3>2. DOMAIN cells = 1..settings.iterations
      BY <1>1
    <3> QED
      BY <1>4, <3>1, <3>2, Zenon
  <2>2. cells'[n] = t
    BY <1>1, <2>1
  <2>3. \A i \in 1..Len(ticks) : i \in 1..settings.iterations /\ i # n
    BY <1>1
  <2>4. \A i \in 1..Len(ticks) : cells'[i] = cells[i]
    BY <2>1, <2>3, Zenon
  <2>5. cells' = [i \in 1..settings.iterations |-> cells'[i]]
    BY <2>1
  <2> QED
    BY <2>2, <2>4, <2>5
<1>7. \A i \in 1..Len(ticks) :
          cells[i].nsec \in 0..NSEC - 1 /\ Nanoseconds(cells[i]) = ticks[i]
  BY DEF Measured, Passing
<1>8. t.nsec \in 0..NSEC - 1
  BY <1>2 DEF Clocks
<1> QED
  <2> HIDE DEF t
  <2>1. ASSUME NEW i \in 1..n
        PROVE  cells'[i].nsec \in 0..NSEC - 1 /\ Nanoseconds(cells'[i]) = ticks'[i]
    <3>1. CASE i = n
      BY <3>1, <1>5, <1>6, <1>8
    <3>2. CASE i # n
      <4>1. i \in 1..Len(ticks)
        BY <3>2, <1>1
      <4> QED
        BY <4>1, <1>5, <1>6, <1>7
    <3> QED
      BY <3>1, <3>2
  <2> QED
    BY <2>1, <1>5, <1>6

\* Each measured pass has one time.
LEMMA StepMeasured == Inv /\ [Next]_vars => Measured'
<1> SUFFICES ASSUME Inv, [Next]_vars PROVE Measured'
  OBVIOUS
<1> USE DEF Measured, Passing, handle, run, results, parsed, streams, vars
<1>0. Types /\ Measured
  BY DEF Inv
<1>1. ASSUME AcceptOption PROVE Measured'
  <2>1. pc = "options" /\ pc' \in {"options", "done"} /\ ticks' = ticks
    BY <1>1, OptionCases DEF Option, Accept, Fail, AcceptSilence, ShowHelp, Leave
  <2> QED
    BY <1>0, <2>1
<1>2. ASSUME OptionsDone PROVE Measured'
  BY <1>0, <1>2 DEF OptionsDone
<1>3. ASSUME Allocate PROVE Measured'
  <2>1. CASE Fail("failure")
    BY <1>0, <1>3, <2>1 DEF Allocate, Fail
  <2>2. CASE /\ cells' = [i \in 1..settings.iterations |-> Unset]
             /\ pc' = "start" /\ pass' = "probe"
    <3>1. Len(ticks') = 0 /\ ticks' = <<>> /\ settings'.iterations \in Nat \ {0}
          /\ settings' = settings
      BY <1>0, <1>3, <2>2 DEF Allocate, Types
    <3> QED
      BY <2>2, <3>1
  <2> QED
    BY <1>3, <2>1, <2>2 DEF Allocate
<1>4. ASSUME StartPass PROVE Measured'
  BY <1>0, <1>4 DEF StartPass, Fail
<1>5. ASSUME CreateParser PROVE Measured'
  BY <1>0, <1>5 DEF CreateParser, Fail
<1>6. ASSUME Configure PROVE Measured'
  BY <1>0, <1>6 DEF Configure, Fail
<1>7. ASSUME ParseFile PROVE Measured'
  BY <1>0, <1>7 DEF ParseFile, Fail
<1>8. ASSUME FinishPass PROVE Measured'
  <2>1. CASE pass = "probe" /\ pass' = "timed" /\ pc' = "start" /\ UNCHANGED results
    <3>1. ticks = <<>> /\ Len(ticks) = 0 /\ settings.iterations \in Nat \ {0}
      BY <1>0, <1>8, <2>1 DEF FinishPass, Types
    <3> QED
      BY <1>0, <1>8, <2>1, <3>1 DEF FinishPass
  <2>2. CASE Fail("failure") /\ pass # "probe"
    BY <1>0, <1>8, <2>2 DEF FinishPass, Fail
  <2>3. CASE /\ pass = "timed" /\ Recorded(Len(ticks) + 1) /\ UNCHANGED pass
             /\ pc' = IF AllTimed(Len(ticks) + 1) THEN "stats" ELSE "start"
    <3>1. /\ Len(ticks) \in Nat /\ settings.iterations \in Nat
          /\ Len(ticks) < settings.iterations /\ settings' = settings
      BY <1>0, <1>8, <2>3 DEF FinishPass, Types
    <3>2. /\ Len(ticks') = Len(ticks) + 1
          /\ cells' = [i \in 1..settings'.iterations |-> cells'[i]]
          /\ \A i \in 1..Len(ticks') :
                 cells'[i].nsec \in 0..NSEC - 1 /\ Nanoseconds(cells'[i]) = ticks'[i]
      BY <1>0, <1>8, <2>3, <3>1, RecordedExact DEF FinishPass
    <3>3. DOMAIN cells' = 1..settings'.iterations
      BY <3>2
    <3> QED
      BY <2>3, <3>1, <3>2, <3>3 DEF AllTimed
  <2>4. CASE pass = "output" /\ pc' = "flush" /\ UNCHANGED <<pass, results>>
    BY <1>0, <1>8, <2>4 DEF FinishPass
  <2> QED
    BY <1>8, <2>1, <2>2, <2>3, <2>4 DEF FinishPass
<1>9. ASSUME PrintStats PROVE Measured'
  BY <1>0, <1>9 DEF PrintStats
<1>10. ASSUME Flush PROVE Measured'
  BY <1>0, <1>10 DEF Flush, Leave, Fail
<1>11. ASSUME UNCHANGED vars PROVE Measured'
  BY <1>0, <1>11
<1> QED
  BY <1>1, <1>2, <1>3, <1>4, <1>5, <1>6, <1>7, <1>8, <1>9, <1>10, <1>11 DEF Next, Stopped

\* Two items, one after the other.
LEMMA Pair ==
    ASSUME NEW S, NEW a \in S, NEW b \in S
    PROVE  <<a>> \o <<b>> = <<a, b>> /\ Append(<<a>>, b) = <<a, b>>
<1> DEFINE t == <<a>> u == Append(t, b) w == <<a, b>>
<1>1. t \in Seq(S) /\ Len(t) = 1 /\ t[1] = a
  OBVIOUS
<1>2. w \in Seq(S) /\ Len(w) = 2 /\ w[1] = a /\ w[2] = b
  OBVIOUS
<1> HIDE DEF t, w
<1>3. u \in Seq(S) /\ Len(u) = Len(t) + 1
  <2>1. u \in Seq(S)
    BY <1>1, AppendProperties
  <2>2. Len(u) = Len(t) + 1
    BY <1>1, AppendProperties
  <2> QED
    BY <2>1, <2>2
<1>4. u[Len(t) + 1] = b /\ \A i \in 1..Len(t) : u[i] = t[i]
  <2>1. t \in Seq(S)
    BY <1>1
  <2>2. u[Len(t) + 1] = b
    BY ONLY <2>1, b \in S, AppendProperties, Zenon
  <2>3. \A i \in 1..Len(t) : u[i] = t[i]
    BY <2>1, AppendProperties
  <2> QED
    BY <2>2, <2>3
<1>5. u = t \o <<b>>
  BY <1>1, AppendIsConcat
<1> HIDE DEF u
<1>6. u = w
  <2>1. Len(u) = 2 /\ \A i \in 1..2 : u[i] = w[i]
    BY <1>1, <1>2, <1>3, <1>4
  <2> QED
    BY <1>2, <1>3, <2>1, SeqEqual
<1> QED
  BY <1>5, <1>6 DEF t, u, w

\* What is printed, one item after the other.
LEMMA Joined ==
    /\ \A s \in Texts : s \o <<>> = s
    /\ <<>> \o <<"document">> = <<"document">> /\ <<>> \o <<"part">> = <<"part">>
    /\ <<"stats">> \o <<"document">> = <<"stats", "document">>
    /\ <<"stats">> \o <<"part">> = <<"stats", "part">>
    /\ Append(<<>>, "stats") = <<"stats">>
    /\ Append(<<"document">>, "stats") = <<"document", "stats">>
    /\ Append(<<>>, "help") = <<"help">> /\ Append(<<>>, "no engine") = <<"no engine">>
    /\ Append(<<>>, "no file") = <<"no file">>
    /\ <<>> \o <<"depth", "arg num">> = <<"depth", "arg num">>
<1> DEFINE S == {"document", "part", "stats", "help", "no engine", "no file"}
<1>1. ASSUME NEW s \in Texts PROVE s \o <<>> = s
  <2>1. /\ <<>> \in Seq(S)
        /\ \A a, b \in S : <<a>> \in Seq(S) /\ <<a, b>> \in Seq(S)
    <3> HIDE DEF S
    <3> QED  OBVIOUS
  <2>2. s = <<>> \/ (\E a \in S : s = <<a>>) \/ (\E a, b \in S : s = <<a, b>>)
    BY DEF Texts
  <2>3. s \in Seq(S)
    <3> HIDE DEF S
    <3> QED  BY <2>1, <2>2
  <2> QED
    BY <2>3, ConcatEmptySeq
<1>2. <<>> \o <<"document">> = <<"document">> /\ <<>> \o <<"part">> = <<"part">>
  OBVIOUS
<1>3. "document" \in S /\ "part" \in S /\ "stats" \in S
  OBVIOUS
<1>4. <<"stats">> \o <<"document">> = <<"stats", "document">>
  BY <1>3, Pair
<1>5. <<"stats">> \o <<"part">> = <<"stats", "part">>
  BY <1>3, Pair
<1>6. Append(<<"document">>, "stats") = <<"document", "stats">>
  BY <1>3, Pair
<1>7. /\ Append(<<>>, "stats") = <<"stats">> /\ Append(<<>>, "help") = <<"help">>
      /\ Append(<<>>, "no engine") = <<"no engine">>
      /\ Append(<<>>, "no file") = <<"no file">>
  OBVIOUS
<1>8. <<>> \o <<"depth", "arg num">> = <<"depth", "arg num">>
  OBVIOUS
<1> QED
  BY <1>1, <1>2, <1>4, <1>5, <1>6, <1>7, <1>8

\* A pass prints what its parser lets through.
LEMMA StepToldInPass ==
    ASSUME Inv, ParseFile
    PROVE  Told'
<1> USE DEF handle, run, results, parsed, streams, vars
<1>0. /\ Types /\ Control /\ Told
      /\ pc = "parse" /\ pass # "probe" /\ pc \in Passing
      /\ UNCHANGED <<before, ticks, parsed, warnings, pass>>
  BY DEF Inv, ParseFile, Told, Passing, Fail
<1>1. /\ parser = IF Silence THEN "silent" ELSE "printing"
      /\ warnings = Unsupported
      /\ pass = "timed" => out = <<>> /\ (Silence <=> TimedSilence)
      /\ pass = "output" => out = <<"stats">> /\ OutputAgain /\ ~Silence
  BY <1>0 DEF Told, Silence, Types
<1>2. CASE /\ pc' = "destroy" /\ UNCHANGED <<pass, handle, cells, errors, exit>>
           /\ \E items \in Printed(TRUE) : out' = out \o items
  <2>1. out' = out \o (IF parser = "silent" \/ engine \in ParseOnly THEN <<>>
                       ELSE <<"document">>)
    BY <1>2 DEF Printed
  <2>2. CASE pass = "timed"
    <3>1. out' = AfterTimed
      <4>1. settings.iterations \in Nat \ {0}
        BY <1>0 DEF Types
      <4> QED
        BY <1>1, <2>1, <2>2, <4>1, Joined DEF AfterTimed, Loud, TimedSilence, Texts
    <3>2. out' \in Texts /\ (UNCHANGED Silence)
      BY <1>0, <3>1, <2>2 DEF AfterTimed, Texts, Silence, TimedSilence
    <3> QED
      BY <1>0, <1>1, <1>2, <2>2, <3>1, <3>2
         DEF Told, Passing, AfterTimed, Loud, Unsupported, Control
  <2>3. CASE pass = "output"
    <3>1. out' = AfterOutput
      BY <1>1, <2>1, <2>3, Joined DEF AfterOutput, Texts
    <3>2. out' \in Texts /\ (UNCHANGED Silence)
      BY <1>0, <3>1, <2>3 DEF AfterOutput, Texts, Silence, TimedSilence
    <3> QED
      BY <1>0, <1>1, <1>2, <2>3, <3>1, <3>2
         DEF Told, Passing, AfterOutput, Unsupported, OutputAgain, Control
  <2> QED
    BY <1>0, <2>2, <2>3 DEF Types
<1>3. CASE Fail("failure") /\ \E items \in Printed(FALSE) : out' = out \o items
  <2>1. out' \in Texts
    BY <1>0, <1>1, <1>3, Joined DEF Types, Printed, Texts
  <2> QED
    BY <1>0, <1>1, <1>3, <2>1 DEF Told, Fail, Passing, Unsupported
<1> QED
  BY <1>2, <1>3 DEF ParseFile

\* What has been printed and warned of follows the passes.
LEMMA StepTold == Inv /\ [Next]_vars => Told'
<1> SUFFICES ASSUME Inv, [Next]_vars PROVE Told'
  OBVIOUS
<1> USE DEF handle, run, results, parsed, streams, vars
<1>0. Types /\ Control /\ Measured /\ Told
  BY DEF Inv
<1>1. ASSUME AcceptOption PROVE Told'
  <2>1. /\ pc = "options" /\ ticks' = ticks /\ warnings' = warnings
        /\ \/ pc' = "options" /\ out' = out /\ exit' = exit
           \/ pc' = "done" /\ out' = out /\ exit' = "failure"
           \/ pc' = "done" /\ out' = Append(out, "help")
    BY <1>1, OptionCases
       DEF Option, Accept, Fail, AcceptSilence, ShowHelp, Leave
  <2>2. out = <<>> /\ warnings = <<>> /\ ticks = <<>> /\ exit = "running"
    BY <1>0, <2>1 DEF Told, Control, Measured
  <2>3. out' \in {<<>>, <<"help">>}
    BY <2>1, <2>2, Joined
  <2>4. exit' = "success" => ~Ran'
    <3>1. out' = <<>> => ~Ran'
      BY DEF Ran
    <3>2. out' = <<"help">> => ~Ran'
      BY DEF Ran
    <3> QED
      BY <2>3, <3>1, <3>2
  <2>5. out' \in Texts /\ ticks' = <<>> /\ warnings' = <<>>
        /\ pc' \in {"options", "done"} /\ (pc' = "options" => out' = <<>>)
    BY <2>1, <2>2, <2>3 DEF Texts
  <2> QED
    BY <2>4, <2>5 DEF Told, Passing
<1>2. ASSUME OptionsDone PROVE Told'
  <2>1. pc = "options" /\ out = <<>> /\ warnings = <<>> /\ ticks = <<>> /\ exit = "running"
    BY <1>0, <1>2 DEF Told, Control, Measured, OptionsDone
  <2>2. /\ ticks' = <<>> /\ warnings' = <<>>
        /\ \/ out' = <<"no engine">> /\ pc' = "done"
           \/ out' = <<"no file">> /\ pc' = "done"
           \/ out' = <<>> /\ pc' = "allocate"
    BY <1>2, <2>1, Joined DEF OptionsDone
  <2>3. out' \in Texts
    BY <2>2 DEF Texts
  <2>4. ~Ran'
    <3>1. out' = <<"no engine">> => ~Ran'
      <4>1. <<"no engine">>[1] = "no engine"
        OBVIOUS
      <4> QED
        BY <4>1 DEF Ran
    <3>2. out' = <<"no file">> => ~Ran'
      <4>1. <<"no file">>[1] = "no file"
        OBVIOUS
      <4> QED
        BY <4>1 DEF Ran
    <3>3. out' = <<>> => ~Ran'
      BY DEF Ran
    <3> QED
      BY <2>2, <3>1, <3>2, <3>3
  <2> QED
    BY <2>2, <2>3, <2>4 DEF Told, Passing
<1>3. ASSUME Allocate PROVE Told'
  BY <1>0, <1>3 DEF Allocate, Fail, Told, Control, Measured, Ran, Passing, Texts
<1>4. ASSUME StartPass PROVE Told'
  BY <1>0, <1>4 DEF StartPass, Fail, Told, Control, Passing, Unsupported,
     AfterTimed, Loud, OutputAgain, Ran, Silence, TimedSilence
<1>5. ASSUME CreateParser PROVE Told'
  BY <1>0, <1>5 DEF CreateParser, Fail, Told, Control, Passing, Unsupported,
     AfterTimed, Loud, OutputAgain, Ran, Silence, TimedSilence
<1>6. ASSUME Configure PROVE Told'
  <2>1. CASE /\ pc' = IF pass = "probe" THEN "destroy" ELSE "parse"
             /\ warnings' = Warned(<<"depth", "arg num">>)
             /\ UNCHANGED <<pass, handle, cells, errors, exit>>
    <3>1. pass = "probe" => warnings = <<>> /\ warnings' = Unsupported
      BY <1>0, <1>6, <2>1, Joined
         DEF Configure, Told, Unsupported, Warned, ReportsSupport, Passing
    <3>2. pass # "probe" => warnings' = warnings
      BY <2>1 DEF Warned, ReportsSupport
    <3> QED
      BY <1>0, <1>6, <2>1, <3>1, <3>2 DEF Configure, Told, Control, Measured, Passing,
         Unsupported, AfterTimed, Loud, OutputAgain, Ran, Silence, TimedSilence, Types
  <2>2. ASSUME Fail("failure"), NEW said, warnings' = Warned(said) PROVE Told'
    <3>1. /\ pc = "configure" /\ pc' = "done" /\ exit' = "failure"
          /\ UNCHANGED <<ticks, parsed, out>>
      BY <1>6, <2>2 DEF Configure, Fail
    <3>2. ticks # <<>> => warnings' = warnings
      BY <1>0, <2>2, <3>1 DEF Measured, Passing, Warned, ReportsSupport
    <3> QED
      BY <1>0, <3>1, <3>2 DEF Told, Passing, Unsupported
  <2> QED
    BY <1>6, <2>1, <2>2 DEF Configure
<1>7. ASSUME ParseFile PROVE Told'
  BY <1>7, StepToldInPass
<1>8. ASSUME FinishPass PROVE Told'
  <2>0. pc = "destroy" /\ UNCHANGED <<parsed, warnings, out>>
    BY <1>8 DEF FinishPass
  <2>1. CASE pass = "probe" /\ pass' = "timed" /\ pc' = "start" /\ UNCHANGED <<results, exit>>
    BY <1>0, <2>0, <2>1 DEF Told, Passing, Control, Unsupported
  <2>2. CASE Fail("failure") /\ pass # "probe"
    BY <1>0, <2>0, <2>2 DEF Told, Passing, Fail, Unsupported, Types
  <2>3. CASE /\ pass = "timed" /\ UNCHANGED <<pass, exit>>
             /\ pc' = IF AllTimed(Len(ticks) + 1) THEN "stats" ELSE "start"
    <3>1. /\ warnings = Unsupported /\ out = AfterTimed /\ Len(ticks) \in Nat
          /\ settings.iterations \in Nat \ {0} /\ exit = "running"
      BY <1>0, <2>0, <2>3 DEF Told, Passing, Types, Control
    <3>2. pc' = "start" => out = <<>>
      BY <2>3, <3>1 DEF AllTimed, AfterTimed, Loud
    <3> QED
      BY <1>0, <2>0, <2>3, <3>1, <3>2
         DEF Told, Passing, Unsupported, AfterTimed, Loud
  <2>4. CASE pass = "output" /\ pc' = "flush" /\ UNCHANGED <<pass, results, exit>>
    <3>1. /\ warnings = Unsupported /\ out = AfterOutput /\ OutputAgain
          /\ exit = "running" /\ settings.iterations \in Nat
      BY <1>0, <2>0, <2>4 DEF Told, Passing, Control, Types
    <3>2. out = Report
      BY <3>1 DEF OutputAgain, Report, AfterOutput
    <3> QED
      BY <1>0, <2>0, <2>4, <3>1, <3>2 DEF Told, Passing, Unsupported, Report
  <2> QED
    BY <1>8, <2>1, <2>2, <2>3, <2>4 DEF FinishPass
<1>9. ASSUME PrintStats PROVE Told'
  <2>1. /\ pc = "stats" /\ warnings = Unsupported /\ out = AfterTimed
        /\ exit = "running" /\ settings.iterations \in Nat \ {0}
        /\ UNCHANGED <<handle, parsed, warnings, ticks, exit>> /\ out' = Append(out, "stats")
    BY <1>0, <1>9 DEF PrintStats, Told, Control, Types
  <2>2. out' = IF Loud THEN <<"document", "stats">> ELSE <<"stats">>
    BY <2>1, Joined DEF AfterTimed
  <2>3. CASE OutputAgain /\ pass' = "output" /\ pc' = "start"
    <3>1. out' = <<"stats">> /\ OutputAgain' /\ exit' = "running"
      <4>1. settings' = settings /\ exit' = "running"
        BY <2>1
      <4>2. OutputAgain'
        BY <2>3, <4>1 DEF OutputAgain
      <4>3. ~Loud
        BY <2>1, <2>3 DEF OutputAgain, Loud
      <4> QED
        BY <2>2, <4>1, <4>2, <4>3
    <3> QED
      BY <2>1, <2>3, <3>1 DEF Told, Passing, Unsupported, Texts
  <2>4. CASE ~OutputAgain /\ pc' = "flush" /\ UNCHANGED pass
    <3>1. out' = Report
      <4>1. settings'.silence = settings.silence /\ settings'.iterations = settings.iterations
            /\ engine' = engine
        BY <2>1
      <4>2. settings.silence \/ settings.iterations = 1
        BY <2>1, <2>4 DEF OutputAgain
      <4> QED
        BY <2>2, <4>1, <4>2 DEF Report, Loud
    <3> QED
      BY <2>1, <2>2, <2>4, <3>1 DEF Told, Passing, Unsupported, Report, Texts
  <2> QED
    BY <1>9, <2>3, <2>4 DEF PrintStats
<1>10. ASSUME Flush PROVE Told'
  BY <1>0, <1>10 DEF Flush, Leave, Fail, Told, Passing, Unsupported, Report, Ran
<1>11. ASSUME UNCHANGED vars PROVE Told'
  BY <1>0, <1>11 DEF Told, Passing, Unsupported, AfterTimed, Loud, AfterOutput,
     OutputAgain, Report, Ran, Silence, TimedSilence
<1> QED
  BY <1>1, <1>2, <1>3, <1>4, <1>5, <1>6, <1>7, <1>8, <1>9, <1>10, <1>11 DEF Next, Stopped

(***************************************************************************)
(* Theorems.                                                               *)
(***************************************************************************)

\* The invariant holds at first.
LEMMA InitInv == Init => Inv
<1> SUFFICES ASSUME Init PROVE Inv
  OBVIOUS
<1> USE BenchmarkAssumption DEF Init
<1>1. Types
  <2>1. now \in Nat /\ before \in Clocks
    BY TimespecExact
  <2> QED
    BY <2>1 DEF Types
<1>2. Control /\ Measured /\ LimitsExact
  BY DEF Control, Measured, Passing, LimitsExact, Limit
<1>3. Told
  BY DEF Told, Passing, Texts
<1> QED
  BY <1>1, <1>2, <1>3 DEF Inv

\* The types, the control, the times and the output hold in every reachable
\* state, and every limit in force is the one that was written.
THEOREM InductiveInvariant == Spec => []Inv
<1>1. Inv /\ [Next]_vars => Inv'
  BY StepTypes, StepControl, StepMeasured, StepTold, StepLimits DEF Inv
<1> QED
  BY InitInv, <1>1, PTL DEF Spec

\* parse_limit and strtoul: a number that does not fit is refused and never
\* becomes another one.
THEOREM LimitsCorrect == Spec => []LimitsExact
<1>1. Inv => LimitsExact
  BY DEF Inv
<1> QED
  BY InductiveInvariant, <1>1, PTL

\* The statistics are computed from one exact time for every pass.
THEOREM TimesCorrect == Spec => []TimesExact
<1>1. Inv => TimesExact
  BY DEF Inv, Measured, TimesExact, Nanoseconds
<1> QED
  BY InductiveInvariant, <1>1, PTL

\* The arguments are printed once or never, limits reported once, and the exit
\* status tells whether an error was.
THEOREM PrintedCorrect == Spec => []PrintedOnce
<1>1. Inv => PrintedOnce
  <2> SUFFICES ASSUME Inv PROVE PrintedOnce
    OBVIOUS
  <2>1. \A i, j \in DOMAIN out : i # j => out[i] # out[j]
    <3>1. \/ out \in {<<>>, <<"document">>, <<"part">>, <<"stats">>, <<"help">>,
                     <<"no engine">>, <<"no file">>}
          \/ out = <<"stats", "document">> \/ out = <<"stats", "part">>
          \/ out = <<"document", "stats">>
      BY DEF Inv, Told, Texts
    <3>2. CASE out \in {<<>>, <<"document">>, <<"part">>, <<"stats">>, <<"help">>,
                        <<"no engine">>, <<"no file">>}
      <4>1. \A a : DOMAIN <<a>> \subseteq {1}
        OBVIOUS
      <4>2. DOMAIN <<>> \subseteq {1}
        OBVIOUS
      <4>3. DOMAIN out \subseteq {1}
        BY <3>2, <4>1, <4>2, Zenon
      <4> QED
        BY <4>3
    <3>3. CASE out = <<"stats", "document">>
      BY <3>3
    <3>4. CASE out = <<"stats", "part">>
      BY <3>4
    <3>5. CASE out = <<"document", "stats">>
      BY <3>5
    <3> QED
      BY <3>1, <3>2, <3>3, <3>4, <3>5
  <2>2. ticks = <<>> \/ warnings = IF engine \in NoLimits THEN <<"depth", "arg num">> ELSE <<>>
    BY DEF Inv, Told, Unsupported
  <2> QED
    BY <2>1, <2>2 DEF Inv, Control, Told, PrintedOnce
<1> QED
  BY InductiveInvariant, <1>1, PTL

\* A parser is destroyed once and within its pass, whichever call fails, and the
\* cells do not outlive the program.
THEOREM ReleaseCorrect == Spec => []ParserReleased
<1>1. Inv => ParserReleased
  BY DEF Inv, Control, ParserReleased
<1> QED
  BY InductiveInvariant, <1>1, PTL

=============================================================================
