------------------------------ MODULE JsonText -------------------------------
(***************************************************************************)
(* Texts as sequences of tokens, and what the grammar of JSON makes of     *)
(* them: whether a text is a document, and the events of its tree in       *)
(* source order.  The native parsers are external; this is the grammar     *)
(* they enforce, and the reference for what the adapters print.            *)
(*                                                                         *)
(* A token has a type, and where it matters a text (the decoded bytes of a *)
(* string) or a width (the narrowest representation of a number).          *)
(***************************************************************************)
EXTENDS JsonEvents, SequencesExt

ScalarTypes == {"string", "integer", "real", "literal"}
Marks == {"{", "}", "[", "]", ":", ","}
AllWidths == {"double", "int64", "uint64", "wide"}
Tokens == [type : ScalarTypes \cup Marks \cup {"garbage"}, text : Seq(Byte),
           width : AllWidths]

(***************************************************************************)
(* The state of a reader between two tokens: the position, what may come   *)
(* next, the events so far, the containers around them by the index of the *)
(* event that opened them, and whether the text is still good.             *)
(***************************************************************************)

Reader == [doc |-> Start, mark |-> "value", events |-> <<>>, around |-> <<>>,
           good |-> TRUE]

\* "value" and "key" must come; "element" and "member" may, or the end of the
\* container; "after" an item a comma or the end must come.
TakesValue(s) == s.mark \in {"value", "element"}
TakesKey(s) == s.mark \in {"key", "member"}
TakesEnd(s, array) ==
    /\ s.doc.open # <<>> /\ InArray(s.doc) = array
    /\ s.mark \in {"after", IF array THEN "element" ELSE "member"}

AfterItem(d) == IF d.open = <<>> THEN "end" ELSE "after"

\* An event knows its place among the events and the containers around it; a
\* scalar also the token it stands for and the name it is due.
Event(s) ==
    [type |-> "close", at |-> Len(s.events) + 1, around |-> s.around,
     key |-> <<>>, array |-> FALSE, index |-> 0, name |-> <<>>]

ReadScalar(s, i) ==
    LET after == AfterValue(s.doc) IN
    [s EXCEPT !.doc = after, !.mark = AfterItem(after),
              !.events = Append(@, [Event(s) EXCEPT
                  !.type = "scalar", !.index = i, !.name = ArgumentName(s.doc)])]

ReadKey(s, k) ==
    [s EXCEPT !.doc = AfterKey(s.doc, k), !.mark = "colon",
              !.events = Append(@, [Event(s) EXCEPT !.type = "member", !.key = k])]

ReadOpen(s, array) ==
    [s EXCEPT !.doc = AfterOpen(s.doc, array),
              !.mark = IF array THEN "element" ELSE "member",
              !.events = Append(@, [Event(s) EXCEPT !.type = "open", !.array = array]),
              !.around = Append(@, Len(s.events) + 1)]

ReadClose(s) ==
    LET after == AfterClose(s.doc) IN
    [s EXCEPT !.doc = after, !.mark = AfterItem(after),
              !.events = Append(@, Event(s)),
              !.around = SubSeq(@, 1, Len(@) - 1)]

Read(s, token, i) ==
    CASE token.type \in {"{", "["} /\ TakesValue(s) -> ReadOpen(s, token.type = "[")
      [] token.type \in {"}", "]"} /\ TakesEnd(s, token.type = "]") -> ReadClose(s)
      [] token.type \in ScalarTypes /\ TakesValue(s) -> ReadScalar(s, i)
      [] token.type = "string" /\ TakesKey(s) -> ReadKey(s, token.text)
      [] token.type = ":" /\ s.mark = "colon" -> [s EXCEPT !.mark = "value"]
      [] token.type = "," /\ s.mark = "after" ->
            [s EXCEPT !.mark = IF InArray(s.doc) THEN "value" ELSE "key"]
      [] OTHER -> [s EXCEPT !.good = FALSE]

Reading(text) ==
    LET upto[i \in 0..Len(text)] ==
            IF i = 0 THEN Reader
            ELSE LET before == upto[i - 1] IN
                 IF before.good THEN Read(before, text[i], i) ELSE before
    IN  upto[Len(text)]

IsDocument(text) == LET s == Reading(text) IN s.good /\ s.mark = "end"
Events(text) == Reading(text).events

(***************************************************************************)
(* Measures of a document.                                                 *)
(***************************************************************************)

\* What a sequence has at some of its places, in order.
Selecting(sofar, item, wanted) == IF wanted THEN Append(sofar, item) ELSE sofar
Selected(s, places) ==
    LET upto[i \in 0..Len(s)] ==
            IF i = 0 THEN <<>>
            ELSE Selecting(upto[i - 1], s[i], i \in places)
    IN  upto[Len(s)]

PlacesOf(events, type) == {i \in DOMAIN events : events[i].type = type}
EventsOf(text, type) == Selected(Events(text), PlacesOf(Events(text), type))

\* The deepest place of an event, and of a value.
Nesting(text) == Max({0} \cup {Len(event.around) : event \in ToSet(Events(text))})
Slots(text) ==
    Max({0} \cup {Len(event.around) : event \in
                    {e \in ToSet(Events(text)) : e.type \in {"scalar", "open"}}})

\* Two members of one object with the same key, whatever "same" is.
Repeat(m, n, Same(_, _)) ==
    /\ m.type = "member" /\ n.type = "member"
    /\ m.at < n.at /\ m.around = n.around /\ Same(m.key, n.key)

=============================================================================
