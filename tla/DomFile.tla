------------------------------- MODULE DomFile -------------------------------
(***************************************************************************)
(* dom_read_file: the text of a C DOM adapter is read to its end, from a   *)
(* file or a pipe whose size is not known, into a buffer that doubles.     *)
(* ReadFile of DomAdapter takes this as one step.                          *)
(***************************************************************************)
EXTENDS Naturals

CONSTANTS
    Sizes,       \* bytes a file may have
    Capacity,    \* bytes of the first buffer, 16384 in the code
    SIZE_MAX

ASSUME FileAssumption ==
    /\ Sizes \subseteq Nat
    /\ Capacity \in Nat /\ Capacity >= 2
    /\ SIZE_MAX \in Nat /\ Capacity <= SIZE_MAX

VARIABLES
    pc,
    size,                \* the bytes of this file
    open, broken,        \* the stream, and its error flag
    held,                \* the buffer is allocated
    capacity, used,
    result, messages     \* "none" while running

vars == <<pc, size, open, broken, held, capacity, used, result, messages>>

(***************************************************************************)
(* Mutated forms, for mutation runs only.                                  *)
(***************************************************************************)

\* The byte for the terminator is forgotten; the end is not noticed.
IsFullLate == used = capacity
NeverEnds(count) == FALSE

(***************************************************************************)
(* The loop.                                                               *)
(***************************************************************************)

\* Room is left for the terminator only.
IsFull == used = capacity - 1

\* What fread is asked for.
Wanted == capacity - used - 1

\* free, fclose and a message.
Fail ==
    /\ pc' = "done" /\ result' = "error" /\ messages' = messages + 1
    /\ open' = FALSE /\ held' = FALSE

Init ==
    /\ pc = "open"
    /\ size \in Sizes
    /\ open = FALSE /\ broken = FALSE /\ held = FALSE
    /\ capacity = Capacity /\ used = 0
    /\ result = "none" /\ messages = 0

Open ==
    /\ pc = "open"
    /\ \/ Fail
       \/ open' = TRUE /\ pc' = "allocate" /\ UNCHANGED <<held, result, messages>>
    /\ UNCHANGED <<size, broken, capacity, used>>

Allocate ==
    /\ pc = "allocate"
    /\ \/ Fail
       \/ held' = TRUE /\ pc' = "read" /\ UNCHANGED <<open, result, messages>>
    /\ UNCHANGED <<size, broken, capacity, used>>

Grow ==
    /\ pc = "read" /\ IsFull
    /\ \/ capacity > SIZE_MAX \div 2 /\ Fail /\ UNCHANGED capacity
       \/ /\ capacity <= SIZE_MAX \div 2
          /\ capacity' = capacity * 2
          /\ Fail \/ UNCHANGED <<pc, open, held, result, messages>>
    /\ UNCHANGED <<size, broken, used>>

Ends(count) == count = 0

\* fread returns less than what was wanted only at the end or after an error,
\* and the error flag stays set.
Read(count, error) ==
    /\ pc = "read" /\ ~IsFull
    /\ count <= size - used /\ count <= Wanted
    /\ ~error => count = size - used \/ count = Wanted
    /\ broken' = (broken \/ error)
    /\ used' = used + count
    /\ \/ Ends(count) /\ broken' /\ Fail
       \/ Ends(count) /\ ~broken' /\ pc' = "close"
          /\ UNCHANGED <<open, held, result, messages>>
       \/ ~Ends(count) /\ UNCHANGED <<pc, open, held, result, messages>>
    /\ UNCHANGED <<size, capacity>>

Close ==
    /\ pc = "close"
    /\ \/ Fail
       \/ /\ open' = FALSE /\ pc' = "done" /\ result' = "ok"
          /\ UNCHANGED <<held, messages>>
    /\ UNCHANGED <<size, broken, capacity, used>>

Next ==
    \/ Open \/ Allocate \/ Grow
    \/ \E count \in 0..Wanted, error \in BOOLEAN : Read(count, error)
    \/ Close

Spec == Init /\ [][Next]_vars

\* Nothing waits, as long as fread returns.
FairSpec == Spec /\ WF_vars(Next)

(***************************************************************************)
(* Properties.                                                             *)
(***************************************************************************)

\* There is always room for the terminator, also when the file has exactly the
\* size of a buffer; a text that is handed over is the whole file, although a
\* read that asks for nothing would look like its end; and whatever fails, the
\* stream is closed, the buffer is freed unless it is handed over, and there is
\* one message or none.
WholeFile ==
    /\ held => used < capacity /\ capacity <= SIZE_MAX
    /\ result = "ok" => used = size /\ ~broken
    /\ pc = "done" =>
        /\ ~open
        /\ held <=> result = "ok"
        /\ messages = IF result = "ok" THEN 0 ELSE 1

\* Reading ends, however short the reads are.
Returns == <>(pc = "done")

=============================================================================
