------------------------- MODULE ArgumentExtraction --------------------------
(***************************************************************************)
(* What an adapter promises for each document: it reports every scalar of  *)
(* the document once, in order, under the name of its position; it accepts *)
(* only whole documents within the limits; and it refuses for a limit only *)
(* when the document really passes that limit ("a limit of N allows        *)
(* exactly N").  A refusal ends the document.                              *)
(***************************************************************************)
EXTENDS JsonEvents

CONSTANTS
    Keys,              \* the object keys of documents
    JSON_STRING_SIZE,  \* names and values are shorter than this
    Reasons,           \* grounds of refusal that are not limits
    DepthLimits, ArgumentLimits

VARIABLES
    doc,       \* the position in the document
    limits,    \* [depth, args]
    silent,    \* check everything, print nothing
    count,     \* arguments seen in this document
    lines,     \* names printed for this document
    verdict,   \* "none", "open", "accepted", "refused"
    reason     \* the ground of a refusal, or "none"

extractionVars == <<doc, limits, silent, count, lines, verdict, reason>>

Fresh ==
    /\ doc' = Start
    /\ count' = 0
    /\ lines' = <<>>
    /\ reason' = "none"

ExtractionInit ==
    /\ doc = Start /\ count = 0 /\ lines = <<>>
    /\ verdict = "none" /\ reason = "none"
    /\ limits \in [depth : DepthLimits, args : ArgumentLimits]
    /\ silent \in BOOLEAN

\* Settings change between documents only.
Configure ==
    /\ verdict = "open" => doc = Start
    /\ limits' \in [depth : DepthLimits, args : ArgumentLimits]
    /\ silent' \in BOOLEAN
    /\ UNCHANGED <<doc, count, lines, verdict, reason>>

\* Whether a document is printed is decided when it begins.
NewDocument ==
    /\ Fresh
    /\ verdict' = "open"
    /\ silent' \in BOOLEAN
    /\ UNCHANGED limits

\* No parser: there is no document until one is begun.
NoDocument ==
    /\ Fresh
    /\ verdict' = "none"
    /\ limits' \in [depth : DepthLimits, args : ArgumentLimits]
    /\ silent' \in BOOLEAN

Key(k) ==
    /\ verdict = "open" /\ WantsKey(doc)
    /\ Len(k) < JSON_STRING_SIZE
    /\ doc' = AfterKey(doc, k)
    /\ UNCHANGED <<limits, silent, count, lines, verdict, reason>>

Scalar ==
    /\ verdict = "open" /\ WantsValue(doc)
    /\ count < limits.args
    /\ Len(ArgumentName(doc)) < JSON_STRING_SIZE
    /\ doc' = AfterValue(doc)
    /\ count' = count + 1
    /\ lines' = IF silent THEN lines ELSE Append(lines, ArgumentName(doc))
    /\ UNCHANGED <<limits, silent, verdict, reason>>

Open(array) ==
    /\ verdict = "open" /\ WantsValue(doc)
    /\ Len(doc.open) < limits.depth
    /\ Len(ContainerName(doc, array)) < JSON_STRING_SIZE
    /\ doc' = AfterOpen(doc, array)
    /\ UNCHANGED <<limits, silent, count, lines, verdict, reason>>

Close ==
    /\ verdict = "open" /\ MayClose(doc)
    /\ doc' = AfterClose(doc)
    /\ UNCHANGED <<limits, silent, count, lines, verdict, reason>>

Accept ==
    /\ verdict = "open" /\ IsWhole(doc)
    /\ verdict' = "accepted"
    /\ UNCHANGED <<doc, limits, silent, count, lines, reason>>

\* The grounds a document itself can give for a refusal.
Justified(r) ==
    \/ r = "depth" /\ WantsValue(doc) /\ Len(doc.open) >= limits.depth
    \/ r = "arguments" /\ WantsValue(doc) /\ count >= limits.args
    \/ r = "name" /\ \/ WantsKey(doc)
                        /\ \E k \in Keys : Len(k) >= JSON_STRING_SIZE
                     \/ WantsValue(doc)
                        /\ \E array \in BOOLEAN :
                              Len(ContainerName(doc, array)) >= JSON_STRING_SIZE
    \/ r = "value" /\ WantsValue(doc)
    \/ r \in Reasons

\* An argument whose line could not be written is counted all the same.
Refuse(r) ==
    /\ verdict = "open"
    /\ Justified(r)
    /\ verdict' = "refused"
    /\ reason' = r
    /\ count' \in IF r = "output" THEN {count, count + 1} ELSE {count}
    /\ UNCHANGED <<doc, limits, silent, lines>>

ExtractionNext ==
    \/ Configure
    \/ NewDocument
    \/ NoDocument
    \/ \E k \in Keys : Key(k)
    \/ Scalar
    \/ \E array \in BOOLEAN : Open(array)
    \/ Close
    \/ Accept
    \/ \E r \in Reasons \cup {"depth", "arguments", "name", "value"} : Refuse(r)

ExtractionSpec == ExtractionInit /\ [][ExtractionNext]_extractionVars

=============================================================================
