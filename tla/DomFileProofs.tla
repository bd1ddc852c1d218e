---------------------------- MODULE DomFileProofs ----------------------------
(***************************************************************************)
(* The read loop of the C DOM adapters hands over the whole file or        *)
(* nothing, for every size of a file, of the first buffer and of memory.   *)
(***************************************************************************)
EXTENDS DomFile, TLAPS

Types ==
    /\ pc \in {"open", "allocate", "read", "close", "done"}
    /\ size \in Nat /\ capacity \in Nat /\ used \in Nat
    /\ open \in BOOLEAN /\ broken \in BOOLEAN /\ held \in BOOLEAN
    /\ result \in {"none", "ok", "error"} /\ messages \in Nat

\* Where the program stands says what it holds: WholeFile is not inductive
\* without it, nor without the end having been seen when the file is closed.
Control ==
    /\ pc = "open" => ~open
    /\ pc \in {"open", "allocate"} => ~held /\ used = 0
    /\ pc \in {"read", "close"} => held
    /\ pc # "done" => result = "none" /\ messages = 0
    /\ pc = "done" => result # "none"
    /\ pc = "close" => used = size /\ ~broken

Bounds == used <= size /\ used < capacity /\ capacity <= SIZE_MAX

Inv == Types /\ Control /\ Bounds /\ WholeFile

\* The first state satisfies the invariant.
LEMMA InitInv == Init => Inv
<1> SUFFICES ASSUME Init PROVE Inv
  OBVIOUS
<1>1. Types
  BY FileAssumption DEF Init, Types
<1>2. Control /\ Bounds /\ WholeFile
  BY FileAssumption DEF Init, Control, Bounds, WholeFile
<1> QED
  BY <1>1, <1>2 DEF Inv

\* Every way out closes, frees and reports.
LEMMA FailInv ==
    ASSUME Inv, pc # "done", Fail, UNCHANGED size,
           used' \in Nat, used' <= size, broken' \in BOOLEAN,
           capacity' \in Nat, used' < capacity', capacity' <= SIZE_MAX
    PROVE  Inv'
<1>1. messages = 0
  BY DEF Inv, Control
<1>2. Types'
  <2>1. open' \in BOOLEAN /\ broken' \in BOOLEAN /\ held' \in BOOLEAN
    BY Zenon DEF Fail
  <2>2. /\ pc' \in {"open", "allocate", "read", "close", "done"}
        /\ result' \in {"none", "ok", "error"} /\ messages' \in Nat
    BY DEF Inv, Types, Fail
  <2>3. size' \in Nat /\ capacity' \in Nat /\ used' \in Nat
    BY DEF Inv, Types
  <2> QED
    BY <2>1, <2>2, <2>3 DEF Types
<1>3. pc' = "done" /\ result' = "error" /\ messages' = 1 /\ ~open' /\ ~held'
  BY <1>1 DEF Fail
<1>4. Control'
  BY <1>3 DEF Control
<1>5. Bounds'
  BY DEF Bounds
<1>6. WholeFile'
  BY <1>3 DEF WholeFile
<1> QED
  BY <1>2, <1>4, <1>5, <1>6 DEF Inv

\* Every step preserves the invariant.
LEMMA NextInv == Inv /\ [Next]_vars => Inv'
<1> SUFFICES ASSUME Inv, [Next]_vars PROVE Inv'
  OBVIOUS
<1> USE FileAssumption
<1>1. ASSUME Open PROVE Inv'
  <2>1. CASE Fail
    BY <1>1, <2>1, FailInv DEF Open, Inv, Types, Bounds
  <2>2. CASE open' = TRUE /\ pc' = "allocate" /\ UNCHANGED <<held, result, messages>>
    BY <1>1, <2>2 DEF Open, Inv, Types, Control, Bounds, WholeFile
  <2> QED
    BY <1>1, <2>1, <2>2 DEF Open
<1>2. ASSUME Allocate PROVE Inv'
  <2>1. CASE Fail
    BY <1>2, <2>1, FailInv DEF Allocate, Inv, Types, Bounds
  <2>2. CASE held' = TRUE /\ pc' = "read" /\ UNCHANGED <<open, result, messages>>
    BY <1>2, <2>2 DEF Allocate, Inv, Types, Control, Bounds, WholeFile
  <2> QED
    BY <1>2, <2>1, <2>2 DEF Allocate
<1>3. ASSUME Grow PROVE Inv'
  <2>1. CASE capacity > SIZE_MAX \div 2 /\ Fail /\ UNCHANGED capacity
    BY <1>3, <2>1, FailInv DEF Grow, Inv, Types, Bounds
  <2>2. CASE capacity <= SIZE_MAX \div 2 /\ capacity' = capacity * 2
    <3>1. capacity' \in Nat /\ capacity' <= SIZE_MAX /\ used < capacity'
      BY <2>2 DEF Inv, Types, Bounds
    <3>2. CASE Fail
      BY <1>3, <3>1, <3>2, FailInv DEF Grow, Inv, Types, Bounds
    <3>3. CASE UNCHANGED <<pc, open, held, result, messages>>
      BY <1>3, <3>1, <3>3 DEF Grow, Inv, Types, Control, Bounds, WholeFile
    <3> QED
      BY <1>3, <2>2, <3>2, <3>3 DEF Grow
  <2> QED
    BY <1>3, <2>1, <2>2 DEF Grow
<1>4. ASSUME NEW count \in 0..Wanted, NEW error \in BOOLEAN, Read(count, error)
      PROVE  Inv'
  <2>1. /\ used' \in Nat /\ used' <= size /\ used' < capacity
        /\ broken' \in BOOLEAN /\ UNCHANGED <<size, capacity>>
        /\ pc = "read"
    BY <1>4 DEF Read, Inv, Types, Bounds, Wanted
  <2>2. CASE Ends(count) /\ broken' /\ Fail
    BY <2>1, <2>2, FailInv DEF Inv, Types, Bounds
  <2>3. CASE Ends(count) /\ ~broken' /\ pc' = "close"
             /\ UNCHANGED <<open, held, result, messages>>
    <3>1. ~error /\ count = 0 /\ Wanted # 0
      BY <1>4, <2>3 DEF Read, Ends, IsFull, Wanted, Inv, Types, Bounds
    <3>2. used' = size
      BY <1>4, <3>1 DEF Read, Inv, Types
    <3> QED
      BY <2>1, <2>3, <3>2 DEF Inv, Types, Control, Bounds, WholeFile
  <2>4. CASE UNCHANGED <<pc, open, held, result, messages>>
    BY <2>1, <2>4 DEF Inv, Types, Control, Bounds, WholeFile
  <2> QED
    BY <1>4, <2>2, <2>3, <2>4 DEF Read
<1>5. ASSUME Close PROVE Inv'
  <2>1. CASE Fail
    BY <1>5, <2>1, FailInv DEF Close, Inv, Types, Bounds
  <2>2. CASE open' = FALSE /\ pc' = "done" /\ result' = "ok" /\ UNCHANGED <<held, messages>>
    BY <1>5, <2>2 DEF Close, Inv, Types, Control, Bounds, WholeFile
  <2> QED
    BY <1>5, <2>1, <2>2 DEF Close
<1>6. ASSUME UNCHANGED vars PROVE Inv'
  BY <1>6 DEF vars, Inv, Types, Control, Bounds, WholeFile
<1> QED
  BY <1>1, <1>2, <1>3, <1>4, <1>5, <1>6 DEF Next

\* dom_read_file never hands over part of a file for the whole of it, never
\* writes its terminator outside the buffer, and leaks nothing when it fails.
THEOREM FileCorrect == Spec => []WholeFile
<1>1. Inv => WholeFile
  BY DEF Inv
<1> QED
  BY InitInv, NextInv, <1>1, PTL DEF Spec

=============================================================================
