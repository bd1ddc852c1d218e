----------------------------- MODULE JsonEvents ------------------------------
(***************************************************************************)
(* The documents the adapters see: the order in which a streaming JSON     *)
(* library reports keys, scalars and containers, and the name an argument  *)
(* has by its position.  The libraries are outside the repository; this    *)
(* module keeps only the grammar the adapters rely on.                     *)
(*                                                                         *)
(* A position is a record: the containers that are open, outermost first,  *)
(* each with its label and whether it is an array; the key read last in    *)
(* the innermost object; and what the grammar wants next.                  *)
(***************************************************************************)
EXTENDS Naturals, Sequences

CONSTANTS
    Byte,       \* the bytes of keys
    Dot,        \* the separator of the display convention
    ArrayName   \* the label of an array at the root

ASSUME EventsAssumption ==
    /\ Dot \in Byte
    /\ ArrayName \in Seq(Byte) /\ ArrayName # <<>>

Start == [open |-> <<>>, member |-> <<>>, next |-> "value"]

Containers == [label : Seq(Byte), array : BOOLEAN]
Positions == [open : Seq(Containers), member : Seq(Byte),
              next : {"value", "key", "end"}]

InArray(d) == d.open # <<>> /\ d.open[Len(d.open)].array
InObject(d) == d.open # <<>> /\ ~d.open[Len(d.open)].array

(***************************************************************************)
(* What the library may report next.                                       *)
(***************************************************************************)

WantsKey(d) == d.next = "key"
WantsValue(d) == d.next = "value"
MayClose(d) == InArray(d) \/ (InObject(d) /\ d.next = "key")
IsWhole(d) == d.next = "end"

(***************************************************************************)
(* Names.  A member is labelled by its key, an element by the label of its *)
(* array; dots separate labels, but nothing precedes the first label that  *)
(* is not empty.                                                           *)
(***************************************************************************)

LabelOf(d, array) ==
    CASE d.open = <<>> -> IF array THEN ArrayName ELSE <<>>
      [] InArray(d)    -> d.open[Len(d.open)].label
      [] InObject(d)   -> d.member

JoinLabel(name, label) ==
    IF name = <<>> THEN label ELSE name \o <<Dot>> \o label

\* The dotted path of a sequence of labels, built from the outside inwards.
Display(labels) ==
    LET upto[i \in 0..Len(labels)] ==
            IF i = 0 THEN <<>> ELSE JoinLabel(upto[i - 1], labels[i])
    IN  upto[Len(labels)]

OpenLabels(d) == [i \in 1..Len(d.open) |-> d.open[i].label]

\* The name of the scalar at d, and the path of the container at d.
ArgumentName(d) == Display(Append(OpenLabels(d), LabelOf(d, FALSE)))
ContainerName(d, array) == Display(Append(OpenLabels(d), LabelOf(d, array)))

(***************************************************************************)
(* The positions that follow.                                              *)
(***************************************************************************)

AfterKey(d, k) == [d EXCEPT !.member = k, !.next = "value"]

AfterValue(d) ==
    [d EXCEPT !.member = <<>>,
              !.next = IF d.open = <<>> THEN "end"
                       ELSE IF InArray(d) THEN "value" ELSE "key"]

AfterOpen(d, array) ==
    [open |-> Append(d.open, [label |-> LabelOf(d, array), array |-> array]),
     member |-> <<>>,
     next |-> IF array THEN "value" ELSE "key"]

AfterClose(d) ==
    AfterValue([d EXCEPT !.open = SubSeq(d.open, 1, Len(d.open) - 1)])

=============================================================================
