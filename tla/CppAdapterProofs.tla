--------------------------- MODULE CppAdapterProofs ---------------------------
(***************************************************************************)
(* The C++ path and the five adapters over it.                             *)
(*                                                                         *)
(* PathHandler, for every set of bytes and keys, every name limit and      *)
(* every nesting bound: its invariants hold, and one byte string with a    *)
(* stack of lengths implements the stack of whole places of ArgumentPath.  *)
(*                                                                         *)
(* The adapters, for any keys, limits, trees and documents of any depth:   *)
(* their path is the position, their answer is true, and each treats a     *)
(* document as ArgumentExtraction promises.                                *)
(***************************************************************************)
EXTENDS CppAdapter, SequenceTheorems, FiniteSetTheorems, TLAPS

(***************************************************************************)
(* Facts about the joined prefix.                                          *)
(***************************************************************************)

\* Joining yields a byte string whose length is the one start() and name()
\* computed before allocating it.
LEMMA JoinLength ==
    ASSUME NEW p \in Seq(Byte), NEW k \in Seq(Byte)
    PROVE  /\ Join(p, k) \in Seq(Byte)
           /\ Len(Join(p, k)) = NameLength(p, k)
BY PathAssumption DEF Join, NameLength

\* Joining leaves the first Len(p) bytes alone, so a length recorded before
\* stays a boundary of the same prefix.
LEMMA JoinKeepsPrefix ==
    ASSUME NEW p \in Seq(Byte), NEW k \in Seq(Byte), NEW n \in 0..Len(p)
    PROVE  SubSeq(Join(p, k), 1, n) = SubSeq(p, 1, n)
<1>1. CASE p = <<>>
  <2>1. n = 0  BY <1>1
  <2> QED  BY <2>1 DEF Join
<1>2. CASE p # <<>>
  <2> DEFINE q == <<Dot>> \o k
  <2>1. q \in Seq(Byte)  BY PathAssumption
  <2>2. Join(p, k) = p \o q  BY <1>2, PathAssumption DEF Join
  <2>3. p \o q \in Seq(Byte) /\ Len(p \o q) = Len(p) + Len(q)  BY <2>1
  <2>4. \A i \in 1..n : SubSeq(p \o q, 1, n)[i] = SubSeq(p, 1, n)[i]
    BY <2>1, <2>3
  <2>5. Len(SubSeq(p \o q, 1, n)) = n /\ Len(SubSeq(p, 1, n)) = n
    BY <2>1, <2>3
  <2>6. SubSeq(p \o q, 1, n) \in Seq(Byte) /\ SubSeq(p, 1, n) \in Seq(Byte)
    BY <2>1, <2>3
  <2> QED  BY <2>2, <2>4, <2>5, <2>6, SeqEqual
<1> QED  BY <1>1, <1>2

\* Shortening the prefix keeps every boundary that is not past its new end.
LEMMA ParentKeepsPrefix ==
    ASSUME NEW p \in Seq(Byte), NEW m \in 0..Len(p), NEW n \in 0..m
    PROVE  /\ ParentPrefix(p, m) \in Seq(Byte)
           /\ Len(ParentPrefix(p, m)) = m
           /\ SubSeq(ParentPrefix(p, m), 1, n) = SubSeq(p, 1, n)
<1> DEFINE q == SubSeq(p, 1, m)
<1>1. q \in Seq(Byte) /\ Len(q) = m  OBVIOUS
<1>2. \A i \in 1..n : SubSeq(q, 1, n)[i] = SubSeq(p, 1, n)[i]  BY <1>1
<1>3. Len(SubSeq(q, 1, n)) = n /\ Len(SubSeq(p, 1, n)) = n  BY <1>1
<1>4. SubSeq(q, 1, n) \in Seq(Byte) /\ SubSeq(p, 1, n) \in Seq(Byte)
  BY <1>1
<1> QED  BY <1>1, <1>2, <1>3, <1>4, SeqEqual DEF ParentPrefix

(***************************************************************************)
(* The inductive invariant.  The boundaries must be monotone for a pop to  *)
(* leave the outer ones inside the shortened prefix, and the outermost one *)
(* must be zero for the last pop to leave no residue; the saved keys must  *)
(* fit for a pop to restore one that fits.                                 *)
(***************************************************************************)

IInv == TypeOK /\ FramesAreBoundaries /\ NoResidue /\ BufferFits

LEMMA InitIInv == Init => IInv
<1> SUFFICES ASSUME Init PROVE IInv
  OBVIOUS
<1> USE DEF Init
<1>1. TypeOK
  <2>1. <<>> \in Seq(Frame) /\ <<>> \in Seq(Byte)  OBVIOUS
  <2> QED  BY <2>1 DEF TypeOK
<1>2. Len(frames) = 0  OBVIOUS
<1>3. FramesAreBoundaries /\ NoResidue /\ BufferFits
  BY <1>2 DEF FramesAreBoundaries, NoResidue, BufferFits
<1> QED  BY <1>1, <1>3 DEF IInv

\* Pushing a frame on top of well-formed frames, whatever becomes of a prefix
\* that is not shortened.
LEMMA PushKeepsFrames ==
    ASSUME IInv,
           frames' = Append(frames, FrameFor(prefix, key)),
           prefix' \in Seq(Byte), Len(prefix) <= Len(prefix')
    PROVE  /\ frames' \in Seq(Frame)
           /\ FramesAreBoundaries'
           /\ NoResidue'
           /\ \A i \in 1..Len(frames') :
                  \/ frames'[i].key = <<>>
                  \/ Len(frames'[i].key) < JSON_STRING_SIZE
<1> DEFINE n == Len(frames)
           top == FrameFor(prefix, key)
<1>0. /\ prefix \in Seq(Byte) /\ key \in Seq(Byte) /\ frames \in Seq(Frame)
      /\ n \in Nat /\ Len(prefix) \in Nat /\ Len(prefix') \in Nat
  BY DEF IInv, TypeOK
<1>1. top \in Frame /\ top.prefix_length = Len(prefix) /\ top.key = key
  BY <1>0 DEF Frame, FrameFor
<1> HIDE DEF top
<1>2. /\ frames' \in Seq(Frame) /\ Len(frames') = n + 1
      /\ \A i \in 1..n : frames'[i] = frames[i]
      /\ frames'[n + 1] = top
  <2>1. frames' = Append(frames, top)  BY DEF top
  <2> QED  BY <1>0, <1>1, <2>1
<1>3. FramesAreBoundaries'
  <2>1. frames'[1].prefix_length = 0
    <3>1. CASE frames = <<>>  BY <3>1, <1>1, <1>2 DEF NoResidue, IInv
    <3>2. CASE frames # <<>>
      <4>1. 1 \in 1..n  BY <3>2, <1>0
      <4> QED  BY <3>2, <4>1, <1>2 DEF FramesAreBoundaries, IInv
    <3> QED  BY <3>1, <3>2
  <2>2. ASSUME NEW i \in 1..Len(frames')
        PROVE  frames'[i].prefix_length <= Len(prefix)
    <3>1. CASE i = n + 1  BY <3>1, <1>0, <1>1, <1>2
    <3>2. CASE i # n + 1
      <4>1. i \in 1..n  BY <3>2, <1>0, <1>2
      <4> QED  BY <4>1, <1>2 DEF FramesAreBoundaries, IInv
    <3> QED  BY <3>1, <3>2
  <2>3. ASSUME NEW i \in 1..Len(frames')
        PROVE  frames'[i].prefix_length \in Nat
    <3>1. frames'[i] \in Frame  BY <1>2
    <3> QED  BY <3>1 DEF Frame
  <2>4. ASSUME NEW i \in 1..Len(frames'), NEW j \in i..Len(frames')
        PROVE  frames'[i].prefix_length <= frames'[j].prefix_length
    <3>1. CASE j = n + 1  BY <3>1, <2>2, <1>1, <1>2
    <3>2. CASE j # n + 1
      <4>1. i \in 1..n /\ j \in i..n /\ j \in 1..n  BY <3>2, <1>0, <1>2
      <4> QED  BY <4>1, <1>2 DEF FramesAreBoundaries, IInv
    <3> QED  BY <3>1, <3>2
  <2>5. \A i \in 1..Len(frames') : frames'[i].prefix_length <= Len(prefix')
    BY <1>0, <2>2, <2>3
  <2> QED  BY <2>1, <2>4, <2>5 DEF FramesAreBoundaries
<1>4. NoResidue'
  <2>1. Len(frames') # 0  BY <1>0, <1>2
  <2> QED  BY <2>1 DEF NoResidue
<1>5. ASSUME NEW i \in 1..Len(frames')
      PROVE  frames'[i].key = <<>> \/ Len(frames'[i].key) < JSON_STRING_SIZE
  <2>1. CASE i = n + 1  BY <2>1, <1>1, <1>2 DEF BufferFits, IInv
  <2>2. CASE i # n + 1
    <3>1. i \in 1..n  BY <2>2, <1>0, <1>2
    <3> QED  BY <3>1, <1>2 DEF BufferFits, IInv
  <2> QED  BY <2>1, <2>2
<1> QED  BY <1>2, <1>3, <1>4, <1>5

\* An operation that refuses or is ignored changes nothing the invariant
\* speaks of but the flag.
LEMMA RefuseKeepsIInv ==
    ASSUME IInv, Refuse \/ Ignored \/ UNCHANGED vars
    PROVE  IInv'
<1>1. CASE Refuse \/ Ignored
  <2>1. /\ prefix' = prefix /\ key' = key /\ frames' = frames
        /\ m_error' \in BOOLEAN /\ given' = {}
    BY <1>1 DEF Refuse, Ignored, IInv, TypeOK
  <2>2. TypeOK'  BY <2>1 DEF IInv, TypeOK
  <2>3. FramesAreBoundaries' /\ NoResidue'
    BY <2>1 DEF IInv, FramesAreBoundaries, NoResidue
  <2>4. BufferFits'  BY <2>1 DEF IInv, BufferFits
  <2> QED  BY <2>2, <2>3, <2>4 DEF IInv
<1>2. CASE UNCHANGED vars
  BY <1>2 DEF vars, IInv, TypeOK, FramesAreBoundaries, NoResidue, BufferFits
<1> QED  BY <1>1, <1>2

\* setKey, with a pointer or with none: only the key changes.
LEMMA KeyKeepsIInv ==
    ASSUME IInv, NEW k \in Seq(Byte), k = <<>> \/ Fits(Len(k)),
           key' = k, given' = {}, UNCHANGED <<prefix, frames, m_error>>
    PROVE  IInv'
<1>1. TypeOK'  BY DEF IInv, TypeOK
<1>2. FramesAreBoundaries' /\ NoResidue'
  BY DEF IInv, FramesAreBoundaries, NoResidue
<1>3. BufferFits'  BY DEF IInv, BufferFits, Fits
<1> QED  BY <1>1, <1>2, <1>3 DEF IInv

\* push and startArraySpecial, complete or interrupted by an allocation.
LEMMA StartKeepsIInv ==
    ASSUME IInv, NEW array \in BOOLEAN, Start(array)
    PROVE  IInv'
<1>0. prefix \in Seq(Byte) /\ key \in Seq(Byte) /\ ArrayName \in Seq(Byte)
  BY PathAssumption DEF IInv, TypeOK
<1>1. CASE Ignored \/ Refuse  BY <1>1, RefuseKeepsIInv
<1>2. ASSUME Fits(StartLength(array)), Entered(array)  PROVE  IInv'
  <2>1. CASE RootArray(array)
    <3>1. prefix = <<>>  BY <2>1 DEF RootArray, IInv, NoResidue
    <3>2. /\ prefix' = ArrayName /\ key' = ArrayName
          /\ Fits(Len(ArrayName)) /\ Len(prefix) <= Len(prefix')
      BY <1>0, <1>2, <2>1, <3>1 DEF Entered, StartLength
    <3>3. /\ frames' \in Seq(Frame) /\ FramesAreBoundaries' /\ NoResidue'
          /\ \A i \in 1..Len(frames') :
                 \/ frames'[i].key = <<>>
                 \/ Len(frames'[i].key) < JSON_STRING_SIZE
      BY <1>0, <1>2, <3>2, PushKeepsFrames DEF Entered
    <3>4. TypeOK'  BY <1>0, <1>2, <3>2, <3>3 DEF TypeOK, IInv, Entered
    <3>5. BufferFits'  BY <1>2, <3>2, <3>3 DEF BufferFits, Fits, Entered
    <3> QED  BY <3>3, <3>4, <3>5 DEF IInv
  <2>2. CASE ~RootArray(array)
    <3>1. prefix' = Join(prefix, key) /\ key' = key
      BY <1>2, <2>2 DEF Entered
    <3>2. prefix' \in Seq(Byte) /\ Len(prefix) <= Len(prefix')
      <4>1. Join(prefix, key) \in Seq(Byte)  BY <1>0, JoinLength
      <4>2. Len(Join(prefix, key)) = NameLength(prefix, key)
        BY <1>0, JoinLength
      <4>3. NameLength(prefix, key) >= Len(prefix)
        BY <1>0 DEF NameLength
      <4> QED  BY <1>0, <3>1, <4>1, <4>2, <4>3
    <3>3. /\ frames' \in Seq(Frame) /\ FramesAreBoundaries' /\ NoResidue'
          /\ \A i \in 1..Len(frames') :
                 \/ frames'[i].key = <<>>
                 \/ Len(frames'[i].key) < JSON_STRING_SIZE
      BY <1>2, <3>2, PushKeepsFrames DEF Entered
    <3>4. TypeOK'  BY <1>2, <3>1, <3>2, <3>3 DEF TypeOK, IInv, Entered
    <3>5. BufferFits'  BY <1>2, <3>1, <3>3 DEF BufferFits, IInv, Entered
    <3> QED  BY <3>3, <3>4, <3>5 DEF IInv
  <2> QED  BY <2>1, <2>2
<1>3. ASSUME HalfEntered  PROVE  IInv'
  <2>1. prefix' = prefix \/ prefix' = Append(prefix, Dot)
    BY <1>3 DEF HalfEntered
  <2>2. prefix' \in Seq(Byte) /\ Len(prefix) <= Len(prefix')
    BY <1>0, <2>1, PathAssumption
  <2>3. /\ frames' \in Seq(Frame) /\ FramesAreBoundaries' /\ NoResidue'
        /\ \A i \in 1..Len(frames') :
               \/ frames'[i].key = <<>>
               \/ Len(frames'[i].key) < JSON_STRING_SIZE
    BY <1>3, <2>2, PushKeepsFrames DEF HalfEntered
  <2>4. TypeOK'  BY <1>3, <2>2, <2>3 DEF TypeOK, IInv, HalfEntered
  <2>5. BufferFits'  BY <1>3, <2>3 DEF BufferFits, IInv, HalfEntered
  <2> QED  BY <2>3, <2>4, <2>5 DEF IInv
<1> QED  BY <1>1, <1>2, <1>3 DEF Start

\* What is left of the stack of frames after pop_back().
LEMMA FrontOfFrames ==
    ASSUME NEW f \in Seq(Frame), f # <<>>
    PROVE  LET outer == SubSeq(f, 1, Len(f) - 1) IN
           /\ outer \in Seq(Frame)
           /\ Len(outer) = Len(f) - 1
           /\ \A i \in 1..Len(f) - 1 : outer[i] = f[i]
<1> DEFINE n == Len(f)
           outer == SubSeq(f, 1, n - 1)
<1>1. /\ 1 \in Int /\ n - 1 \in Int /\ n - 1 >= 0
      /\ \A i \in 1..n - 1 : f[i] \in Frame
  OBVIOUS
<1>2. outer \in Seq(Frame)  BY <1>1, SubSeqProperties
<1>3. Len(outer) = IF 1 <= n - 1 THEN (n - 1) - 1 + 1 ELSE 0
  BY <1>1, SubSeqProperties
<1>4. \A i \in 1..n - 1 : outer[i] = f[i]  BY <1>1
<1>5. Len(outer) = n - 1
  <2> HIDE DEF outer, n
  <2> QED  BY <1>1, <1>3
<1> QED  BY <1>2, <1>4, <1>5

\* pop: the outer boundaries are inside the shortened prefix, and the last
\* pop leaves it empty.
LEMMA PopKeepsIInv ==
    ASSUME IInv, Pop
    PROVE  IInv'
<1> DEFINE n == Len(frames)
           m == frames[n].prefix_length
<1>0. /\ prefix \in Seq(Byte) /\ frames \in Seq(Frame) /\ n \in Nat
      /\ FramesAreBoundaries /\ NoResidue /\ BufferFits
  BY DEF IInv, TypeOK
<1>1. CASE Ignored \/ Refuse  BY <1>1, RefuseKeepsIInv
<1>2. CASE /\ ~m_error /\ frames # <<>>
           /\ prefix' = ParentPrefix(prefix, m)
           /\ key' = frames[n].key
           /\ frames' = SubSeq(frames, 1, n - 1)
           /\ given' = {} /\ UNCHANGED m_error
  <2>1. n \in 1..n /\ frames[n] \in Frame  BY <1>0, <1>2
  <2>2. m \in 0..Len(prefix) /\ frames[n].key \in Seq(Byte)
    BY <1>0, <2>1 DEF FramesAreBoundaries, Frame
  <2>3. prefix' \in Seq(Byte) /\ Len(prefix') = m
    <3>1. 0 \in 0..m  BY <1>0, <2>2
    <3> QED  BY <1>0, <1>2, <2>2, <3>1, ParentKeepsPrefix
  <2>4. /\ frames' \in Seq(Frame) /\ Len(frames') = n - 1
        /\ \A i \in 1..n - 1 : frames'[i] = frames[i]
    BY <1>0, <1>2, FrontOfFrames
  <2>5. TypeOK'  BY <1>2, <2>2, <2>3, <2>4 DEF TypeOK, IInv
  <2>6. FramesAreBoundaries'
    <3>1. frames' # <<>> => frames'[1].prefix_length = 0
      BY <1>0, <1>2, <2>4 DEF FramesAreBoundaries
    <3>2. ASSUME NEW i \in 1..n - 1
          PROVE  frames[i].prefix_length <= m
      <4>1. i \in 1..n /\ n \in i..n  BY <1>0
      <4> QED  BY <1>0, <4>1 DEF FramesAreBoundaries
    <3>3. ASSUME NEW i \in 1..n - 1, NEW j \in i..n - 1
          PROVE  frames[i].prefix_length <= frames[j].prefix_length
      <4>1. i \in 1..n /\ j \in i..n  BY <1>0
      <4> QED  BY <1>0, <4>1 DEF FramesAreBoundaries
    <3>4. \A i \in 1..n - 1 : \A j \in i..n - 1 : j \in 1..n - 1
      BY <1>0
    <3> QED  BY <2>3, <2>4, <3>1, <3>2, <3>3, <3>4 DEF FramesAreBoundaries
  <2>7. NoResidue'
    <3>1. CASE n = 1
      <4>1. m = 0  BY <1>0, <1>2, <3>1 DEF FramesAreBoundaries
      <4> QED  BY <2>3, <4>1 DEF NoResidue
    <3>2. CASE n # 1
      <4>1. Len(frames') # 0  BY <2>1, <2>4, <3>2, <1>0
      <4> QED  BY <4>1 DEF NoResidue
    <3> QED  BY <3>1, <3>2
  <2>8. BufferFits'  BY <1>0, <1>2, <2>1, <2>4 DEF BufferFits
  <2> QED  BY <2>5, <2>6, <2>7, <2>8 DEF IInv
<1> QED  BY <1>1, <1>2 DEF Pop

\* name and buildArgName: what is handed out is as long as was computed.
LEMMA NameKeepsIInv ==
    ASSUME IInv, Fits(NameLength(prefix, key)),
           given' \in {{Join(prefix, key)}, {}},
           UNCHANGED <<prefix, key, frames, m_error>>
    PROVE  IInv'
<1>1. /\ Join(prefix, key) \in Seq(Byte)
      /\ Len(Join(prefix, key)) = NameLength(prefix, key)
  BY JoinLength DEF IInv, TypeOK
<1>2. TypeOK'  BY <1>1 DEF IInv, TypeOK
<1>3. FramesAreBoundaries' /\ NoResidue'
  BY DEF IInv, FramesAreBoundaries, NoResidue
<1>4. BufferFits'  BY <1>1 DEF IInv, BufferFits, Fits
<1> QED  BY <1>2, <1>3, <1>4 DEF IInv

\* Every operation preserves the invariant.
LEMMA NextIInv == IInv /\ [Next]_vars => IInv'
<1> SUFFICES ASSUME IInv, [Next]_vars  PROVE IInv'
  OBVIOUS
<1>1. ASSUME NEW k \in Keys, SetKey(k)  PROVE IInv'
  BY <1>1, RefuseKeepsIInv, KeyKeepsIInv, PathAssumption DEF SetKey
<1>2. ASSUME NEW length \in {0, 1}, SetNullKey(length)  PROVE IInv'
  <2>1. <<>> \in Seq(Byte)  OBVIOUS
  <2> QED  BY <1>2, <2>1, RefuseKeepsIInv, KeyKeepsIInv DEF SetNullKey
<1>3. ASSUME NEW array \in BOOLEAN, Start(array)  PROVE IInv'
  BY <1>3, StartKeepsIInv
<1>4. CASE Pop  BY <1>4, PopKeepsIInv
<1>5. CASE Name  BY <1>5, RefuseKeepsIInv, NameKeepsIInv DEF Name
<1>6. ASSUME NEW null \in BOOLEAN, BuildArgName(null)  PROVE IInv'
  BY <1>6, RefuseKeepsIInv, NameKeepsIInv DEF BuildArgName
<1>7. CASE UNCHANGED vars  BY <1>7, RefuseKeepsIInv
<1> QED  BY <1>1, <1>2, <1>3, <1>4, <1>5, <1>6, <1>7 DEF Next

\* The inductive invariant holds in every reachable state.
THEOREM InductiveInvariant == Spec => []IInv
BY InitIInv, NextIInv, PTL DEF Spec

\* The handler's state keeps its types under every sequence of calls.
THEOREM TypeCorrect == Spec => []TypeOK
<1>1. IInv => TypeOK  BY DEF IInv
<1> QED  BY <1>1, InductiveInvariant, PTL

\* The lengths in the frames are boundaries of the prefix, so that pop() only
\* ever shrinks it; and nothing is left of it outside every container.
THEOREM FramesCorrect == Spec => []FramesSound
<1>1. IInv => FramesSound  BY DEF IInv, FramesSound
<1> QED  BY <1>1, InductiveInvariant, PTL

\* Names and keys fit into the callers' buffers with their terminators.
THEOREM BuffersCorrect == Spec => []BufferFits
<1>1. IInv => BufferFits  BY DEF IInv
<1> QED  BY <1>1, InductiveInvariant, PTL

(***************************************************************************)
(* Refinement of ArgumentPath.                                             *)
(***************************************************************************)

\* Whatever sets the sticky flag and hands out nothing is a refusal.
LEMMA FailStep ==
    ASSUME m_error' = TRUE, given' = {}
    PROVE  Path!PathNext
BY DEF Path!PathNext, Path!Fail, Path!Origin, Here, Outer

\* Operations that leave prefix and frames alone leave the outer places alone.
LEMMA SameOuter ==
    ASSUME UNCHANGED <<prefix, frames, m_error>>
    PROVE  Outer' = Outer
BY DEF Outer, PlaceOf

\* The mapped stack is as high as the stack of frames.
LEMMA OuterShape ==
    ASSUME IInv, ~m_error
    PROVE  /\ Outer = [i \in 1..Len(frames) |-> PlaceOf(i)]
           /\ Len(Outer) = Len(frames)
           /\ Outer = <<>> <=> frames = <<>>
<1>0. frames \in Seq(Frame) /\ Len(frames) \in Nat  BY DEF IInv, TypeOK
<1>1. Outer = [i \in 1..Len(frames) |-> PlaceOf(i)]  BY DEF Outer
<1>2. Len(Outer) = Len(frames)  BY <1>0, <1>1
<1>3. CASE frames = <<>>
  <2>1. Len(frames) = 0  BY <1>3
  <2> QED  BY <1>1, <1>2, <1>3, <2>1
<1>4. CASE frames # <<>>
  <2>1. Len(frames) # 0  BY <1>0, <1>4
  <2> QED  BY <1>1, <1>2, <1>4, <2>1
<1> QED  BY <1>1, <1>2, <1>3, <1>4

\* setKey maps to the choice of a key.
LEMMA KeyStep ==
    ASSUME IInv, ~m_error, NEW k \in Keys \cup {<<>>},
           key' = k, given' = {}, UNCHANGED <<prefix, frames, m_error>>
    PROVE  Path!PathNext
<1>1. Here' = [Here EXCEPT !.key = k]  BY DEF Here
<1>2. Outer' = Outer  BY SameOuter
<1>3. Path!ChooseKey(k)  BY <1>1, <1>2 DEF Path!ChooseKey
<1> QED  BY <1>3 DEF Path!PathNext

\* push and startArraySpecial map to entering a container: the longer prefix
\* still holds every outer place, and the new frame holds the current one.
LEMMA EnterStep ==
    ASSUME IInv, ~m_error, NEW array \in BOOLEAN,
           Fits(StartLength(array)), Entered(array)
    PROVE  Path!PathNext
<1> DEFINE n == Len(frames)
<1>0. /\ prefix \in Seq(Byte) /\ key \in Seq(Byte) /\ ArrayName \in Seq(Byte)
      /\ frames \in Seq(Frame) /\ n \in Nat
      /\ FramesAreBoundaries /\ NoResidue
  BY PathAssumption DEF IInv, TypeOK
<1>1. /\ frames' = Append(frames, FrameFor(prefix, key))
      /\ m_error' = m_error /\ given' = {}
  BY DEF Entered
<1>2. /\ Len(frames') = n + 1
      /\ \A i \in 1..n : frames'[i] = frames[i]
      /\ frames'[n + 1].prefix_length = Len(prefix)
      /\ frames'[n + 1].key = key
  BY <1>0, <1>1 DEF FrameFor
<1>3. Outer = <<>> <=> frames = <<>>  BY OuterShape
<1>4. /\ Here = [prefix |-> prefix, key |-> key]
      /\ Here' = [prefix |-> prefix', key |-> key']
  BY <1>1 DEF Here
<1>5. Path!Extend(prefix, key) = Join(prefix, key)
  BY DEF Path!Extend, Join
<1>6. Here' = Path!Inside(array)
  BY <1>3, <1>4, <1>5 DEF Path!Inside, Entered, RootArray
<1>7. Len(Path!Inside(array).prefix) < JSON_STRING_SIZE
  <2>1. CASE RootArray(array)
    BY <1>3, <2>1 DEF Path!Inside, RootArray, StartLength, Fits
  <2>2. CASE ~RootArray(array)
    <3>1. Len(Join(prefix, key)) = NameLength(prefix, key)
      BY <1>0, JoinLength
    <3> QED
      BY <1>3, <1>4, <1>5, <2>2, <3>1
      DEF Path!Inside, RootArray, StartLength, Fits
  <2> QED  BY <2>1, <2>2
<1>8. \A m \in 0..Len(prefix) : SubSeq(prefix', 1, m) = SubSeq(prefix, 1, m)
  <2>1. CASE RootArray(array)
    <3>1. prefix = <<>>  BY <1>0, <2>1 DEF RootArray, NoResidue
    <3> QED  BY <1>0, <3>1, SubSeqEmpty
  <2>2. CASE ~RootArray(array)
    <3>1. prefix' = Join(prefix, key)  BY <2>2 DEF Entered
    <3> QED  BY <1>0, <3>1, JoinKeepsPrefix
  <2> QED  BY <2>1, <2>2
<1>9. Outer' = Append(Outer, Here)
  <2>1. Outer' = [i \in 1..n + 1 |-> PlaceOf(i)']
    BY <1>1, <1>2 DEF Outer
  <2>2. ASSUME NEW i \in 1..n  PROVE PlaceOf(i)' = PlaceOf(i)
    <3>1. frames[i].prefix_length \in 0..Len(prefix)
      <4>1. frames[i] \in Frame  BY <1>0
      <4> QED  BY <1>0, <4>1 DEF FramesAreBoundaries, Frame
    <3> QED  BY <1>2, <1>8, <3>1 DEF PlaceOf
  <2>3. ASSUME NEW i \in {n + 1}  PROVE PlaceOf(i)' = Here
    <3>1. SubSeq(prefix', 1, Len(prefix)) = prefix  BY <1>0, <1>8
    <3> QED  BY <1>2, <1>4, <3>1 DEF PlaceOf
  <2>4. Outer = [i \in 1..n |-> PlaceOf(i)]  BY OuterShape
  <2>5. Append(Outer, Here) =
            [i \in 1..n + 1 |-> IF i = n + 1 THEN Here ELSE PlaceOf(i)]
    BY <1>0, <2>4
  <2>6. ASSUME NEW i \in 1..n + 1
        PROVE  PlaceOf(i)' = IF i = n + 1 THEN Here ELSE PlaceOf(i)
    BY <1>0, <2>2, <2>3
  <2> QED  BY <2>1, <2>5, <2>6
<1>10. Path!Enter(array)
  BY <1>1, <1>6, <1>7, <1>9 DEF Path!Enter
<1> QED  BY <1>10 DEF Path!PathNext

\* pop maps to leaving a container.
LEMMA LeaveStep ==
    ASSUME IInv, ~m_error, frames # <<>>,
           prefix' = ParentPrefix(prefix, frames[Len(frames)].prefix_length),
           key' = frames[Len(frames)].key,
           frames' = SubSeq(frames, 1, Len(frames) - 1),
           given' = {}, UNCHANGED m_error
    PROVE  Path!PathNext
<1> DEFINE n == Len(frames)
           m == frames[n].prefix_length
<1>0. /\ prefix \in Seq(Byte) /\ frames \in Seq(Frame) /\ n \in Nat
      /\ n \in 1..n /\ FramesAreBoundaries
  BY DEF IInv, TypeOK
<1>1. ASSUME NEW i \in 1..n
      PROVE  frames[i].prefix_length \in 0..m /\ m \in 0..Len(prefix)
  <2>1. frames[i] \in Frame /\ frames[n] \in Frame  BY <1>0
  <2>2. frames[i].prefix_length <= m /\ m <= Len(prefix)
    <3>1. n \in i..n  BY <1>0
    <3> QED  BY <1>0, <3>1 DEF FramesAreBoundaries
  <2>3. frames[i].prefix_length \in Nat /\ m \in Nat  BY <2>1 DEF Frame
  <2> QED  BY <1>0, <2>2, <2>3
<1>2. /\ Len(frames') = n - 1
      /\ \A i \in 1..n - 1 : frames'[i] = frames[i]
  BY <1>0, FrontOfFrames
<1>3. /\ Outer = [i \in 1..n |-> PlaceOf(i)]
      /\ Len(Outer) = n /\ Outer # <<>>
  BY OuterShape
<1>4. Here' = Outer[Len(Outer)]
  <2>1. Here' = [prefix |-> prefix', key |-> key']  BY DEF Here
  <2>2. Outer[Len(Outer)] = PlaceOf(n)  BY <1>0, <1>3
  <2> QED  BY <2>1, <2>2 DEF PlaceOf, ParentPrefix
<1>5. Outer' = SubSeq(Outer, 1, Len(Outer) - 1)
  <2>1. Outer' = [i \in 1..n - 1 |-> PlaceOf(i)']  BY <1>2 DEF Outer
  <2>2. ASSUME NEW i \in 1..n - 1  PROVE PlaceOf(i)' = PlaceOf(i)
    <3>1. i \in 1..n  BY <1>0
    <3>2. SubSeq(prefix', 1, frames[i].prefix_length)
              = SubSeq(prefix, 1, frames[i].prefix_length)
      BY <1>0, <1>1, <3>1, ParentKeepsPrefix
    <3> QED  BY <1>2, <3>2 DEF PlaceOf
  <2>3. SubSeq(Outer, 1, n - 1) = [i \in 1..n - 1 |-> PlaceOf(i)]
    BY <1>0, <1>3
  <2> QED  BY <1>3, <2>1, <2>2, <2>3
<1>6. Path!Leave  BY <1>3, <1>4, <1>5 DEF Path!Leave
<1> QED  BY <1>6 DEF Path!PathNext

\* name and buildArgName map to showing the name of the place, or nothing.
LEMMA ShowStep ==
    ASSUME IInv, ~m_error, Fits(NameLength(prefix, key)),
           given' \in {{Join(prefix, key)}, {}},
           UNCHANGED <<prefix, key, frames, m_error>>
    PROVE  Path!PathNext
<1>1. Here' = Here /\ Outer' = Outer  BY SameOuter DEF Here
<1>2. CASE given' = {}
  BY <1>1, <1>2 DEF Path!PathNext, Path!ShowNothing
<1>3. CASE given' = {Join(prefix, key)}
  <2>1. Len(Join(prefix, key)) < JSON_STRING_SIZE
    BY JoinLength DEF IInv, TypeOK, Fits
  <2>2. Join(prefix, key) = Path!Extend(Here.prefix, Here.key)
    BY DEF Here, Join, Path!Extend
  <2> QED  BY <1>1, <1>3, <2>1, <2>2 DEF Path!PathNext, Path!Show
<1> QED  BY <1>2, <1>3

\* Every operation is a step of the abstract path, or a stutter of it.
LEMMA StepRefines == IInv /\ [Next]_vars => [Path!PathNext]_(Path!pathVars)
<1> SUFFICES ASSUME IInv, [Next]_vars
             PROVE  Path!PathNext \/ UNCHANGED Path!pathVars
  OBVIOUS
<1>1. ASSUME Refuse \/ Ignored  PROVE Path!PathNext
  BY <1>1, FailStep DEF Refuse, Ignored, IInv, TypeOK
<1>2. ASSUME NEW k \in Keys, SetKey(k)  PROVE Path!PathNext
  BY <1>1, <1>2, KeyStep DEF SetKey
<1>3. ASSUME NEW length \in {0, 1}, SetNullKey(length)  PROVE Path!PathNext
  BY <1>1, <1>3, KeyStep DEF SetNullKey
<1>4. ASSUME NEW array \in BOOLEAN, Start(array)  PROVE Path!PathNext
  <2>1. ASSUME HalfEntered  PROVE Path!PathNext
    BY <2>1, FailStep DEF HalfEntered
  <2> QED  BY <1>1, <1>4, <2>1, EnterStep DEF Start
<1>5. CASE Pop  BY <1>1, <1>5, LeaveStep DEF Pop
<1>6. CASE Name  BY <1>1, <1>6, ShowStep DEF Name
<1>7. ASSUME NEW null \in BOOLEAN, BuildArgName(null)  PROVE Path!PathNext
  BY <1>1, <1>7, ShowStep DEF BuildArgName
<1>8. CASE UNCHANGED vars
  BY <1>8 DEF vars, Path!pathVars, Here, Outer, PlaceOf
<1> QED  BY <1>2, <1>3, <1>4, <1>5, <1>6, <1>7, <1>8 DEF Next

\* The handler implements ArgumentPath: a pop returns to exactly the place its
\* push left whatever bytes the keys held, a refusal is final and silent, and
\* every name handed out is the join of the visitor's own place.
THEOREM Refinement == Spec => ImplementsArgumentPath
<1>1. Init => Path!PathInit
  <2> SUFFICES ASSUME Init PROVE Path!PathInit
    OBVIOUS
  <2>1. Outer = <<>>
    <3>1. Len(frames) = 0  BY DEF Init
    <3> QED  BY <3>1 DEF Init, Outer
  <2> QED  BY <2>1 DEF Init, Path!PathInit, Path!Origin, Here
<1>2. IInv /\ [Next]_vars => [Path!PathNext]_(Path!pathVars)
  BY StepRefines
<1> QED
  BY <1>1, <1>2, InductiveInvariant, PTL
  DEF Spec, ImplementsArgumentPath, Path!PathSpec

Events == INSTANCE JsonEventsProofs

(***************************************************************************)
(* JsonCpp keeps the members of an object by name.  Visited in the order   *)
(* of their offsets, distinct names come in the order of the source.       *)
(***************************************************************************)

LEMMA LeastNumber ==
    ASSUME NEW T \in SUBSET Nat, T # {}
    PROVE  \E n \in T : \A m \in T : n <= m
<1> DEFINE Less == {pair \in Nat \X Nat : pair[1] < pair[2]}
<1>1. IsWellFoundedOn(Less, Nat)
  BY NatLessThanWellFounded DEF OpToRel
<1> HIDE DEF Less
<1>2. PICK n \in T : \A m \in T : <<m, n>> \notin Less
  BY <1>1, WFMin
<1>3. \A m \in T : ~(m < n)
  BY <1>2 DEF Less
<1> QED
  BY <1>3

\* Numbers that ascend within 1..n leave no gap: each is at least its place,
\* by the least place where it is not.
LEMMA AscendingAtLeast ==
    ASSUME NEW n \in Nat, NEW q \in [1..n -> Nat],
           \A i \in 1..n : q[i] >= 1,
           \A i, j \in 1..n : i < j => q[i] < q[j]
    PROVE  \A i \in 1..n : q[i] >= i
<1> SUFFICES ASSUME NEW k \in 1..n, ~(q[k] >= k) PROVE FALSE
  OBVIOUS
<1> DEFINE Low == {i \in 1..n : q[i] < i}
<1>1. Low \in SUBSET Nat /\ Low # {}
  <2>1. q[k] < k
    OBVIOUS
  <2> QED
    BY <2>1
<1>2. PICK m \in Low : \A i \in Low : m <= i
  <2> HIDE DEF Low
  <2> QED
    BY <1>1, LeastNumber
<1>3. m \in 1..n /\ q[m] < m /\ q[m] \in Nat
  BY <1>2
<1>4. m # 1
  BY <1>3
<1>5. m - 1 \in 1..n /\ m - 1 < m
  BY <1>3, <1>4
<1>6. q[m - 1] < q[m] /\ q[m - 1] \in Nat
  BY <1>3, <1>5
<1>7. q[m - 1] < m - 1
  BY <1>3, <1>6
<1>8. m - 1 \in Low
  BY <1>5, <1>7
<1>9. m <= m - 1
  BY <1>2, <1>8
<1> QED
  BY <1>3, <1>9

LEMMA AscendingIsIdentity ==
    ASSUME NEW n \in Nat, NEW q \in [1..n -> 1..n],
           \A i, j \in 1..n : i < j => q[i] < q[j]
    PROVE  \A i \in 1..n : q[i] = i
<1> DEFINE r == [i \in 1..n |-> n + 1 - q[n + 1 - i]]
<1>1. ASSUME NEW i \in 1..n
      PROVE  n + 1 - i \in 1..n /\ r[i] \in Nat /\ r[i] >= 1
             /\ r[i] = n + 1 - q[n + 1 - i]
  <2>1. n + 1 - i \in 1..n
    OBVIOUS
  <2>2. q[n + 1 - i] \in 1..n
    BY <2>1
  <2> QED
    BY <2>1, <2>2
<1>2. ASSUME NEW i \in 1..n, NEW j \in 1..n, i < j
      PROVE  r[i] < r[j]
  <2>1. n + 1 - j < n + 1 - i
    BY <1>2
  <2>2. q[n + 1 - j] < q[n + 1 - i]
    BY <1>1, <2>1
  <2>3. q[n + 1 - j] \in 1..n /\ q[n + 1 - i] \in 1..n
    BY <1>1
  <2> QED
    BY <1>1, <2>2, <2>3
<1>3. \A i \in 1..n : q[i] >= i
  <2>1. q \in [1..n -> Nat] /\ \A i \in 1..n : q[i] >= 1
    OBVIOUS
  <2> QED
    BY <2>1, AscendingAtLeast
<1>4. r \in [1..n -> Nat]
  BY <1>1
<1>5. \A i \in 1..n : r[i] >= i
  <2> HIDE DEF r
  <2> QED
    BY <1>1, <1>2, <1>4, AscendingAtLeast
<1>6. ASSUME NEW i \in 1..n PROVE q[i] = i
  <2>1. /\ n + 1 - i \in 1..n /\ n + 1 - (n + 1 - i) = i /\ q[i] \in 1..n
    OBVIOUS
  <2>2. r[n + 1 - i] = n + 1 - q[i]
    BY <1>1, <2>1
  <2>3. n + 1 - q[i] >= n + 1 - i
    BY <1>5, <2>1, <2>2
  <2> QED
    BY <1>3, <2>1, <2>3
<1> QED
  BY <1>6

\* As many names as members when no name is repeated.
LEMMA MembersCounted ==
    ASSUME NEW S, NEW t \in Seq(S), IsInjective(t)
    PROVE  Cardinality(ToSet(t)) = Len(t)
<1>1. /\ DOMAIN t = 1..Len(t) /\ Len(t) \in Nat
      /\ ToSet(t) = {t[i] : i \in 1..Len(t)}
  BY DEF ToSet
<1>2. t \in [1..Len(t) -> ToSet(t)]
  BY <1>1
<1>3. t \in Bijection(1..Len(t), ToSet(t))
  BY <1>1, <1>2 DEF Bijection, Injection, Surjection, IsInjective
<1>4. ExistsBijection(1..Len(t), ToSet(t))
  BY <1>3 DEF ExistsBijection
<1> QED
  BY <1>1, <1>4, FS_CountingElements

THEOREM VisitsInSourceOrder ==
    ASSUME NEW S, NEW t \in Seq(S), IsInjective(t)
    PROVE  VisitOrder(t) = t
<1> DEFINE n == Len(t)
           members == ToSet(t)
           Sorted(s) == \A i, j \in DOMAIN s : i < j => Offset(t, s[i]) < Offset(t, s[j])
<1>1. n \in Nat /\ DOMAIN t = 1..n /\ members = {t[i] : i \in 1..n}
      /\ t \in [1..n -> members]
  BY DEF ToSet
<1>2. \A i \in 1..n : Offset(t, t[i]) = i
  BY <1>1 DEF Offset, IsInjective
<1>3. \A k \in members : Offset(t, k) \in 1..n /\ t[Offset(t, k)] = k
  BY <1>1, <1>2
<1>4. Sorted(t)
  BY <1>1, <1>2
<1>5. ASSUME NEW s \in [1..n -> members], Sorted(s) PROVE s = t
  <2> DEFINE q == [i \in 1..n |-> Offset(t, s[i])]
  <2>1. q \in [1..n -> 1..n]
    BY <1>3
  <2>2. \A i, j \in 1..n : i < j => q[i] < q[j]
    BY <1>5
  <2>3. \A i \in 1..n : q[i] = i
    <3> HIDE DEF q, n
    <3> QED
      BY <1>1, <2>1, <2>2, AscendingIsIdentity
  <2>4. \A i \in 1..n : s[i] = t[i]
    BY <1>3, <2>3
  <2> QED
    BY <1>1, <2>4
<1>6. Cardinality(members) = n
  BY MembersCounted
<1>7. VisitOrder(t) = CHOOSE s \in [1..n -> members] : Sorted(s)
  BY <1>6 DEF VisitOrder
<1> HIDE DEF Sorted, members, n
<1>8. VisitOrder(t) \in [1..n -> members] /\ Sorted(VisitOrder(t))
  BY <1>1, <1>4, <1>7
<1> QED
  BY <1>5, <1>8

(***************************************************************************)
(* The documents of the adapters are those of the contract.                *)
(***************************************************************************)

LEMMA SameEvents ==
    /\ Doc!Start = Events!Start /\ Extraction!Start = Events!Start
    /\ \A d : /\ Doc!InArray(d) = Events!InArray(d)
              /\ Doc!InObject(d) = Events!InObject(d)
              /\ Doc!WantsKey(d) = Events!WantsKey(d)
              /\ Doc!WantsValue(d) = Events!WantsValue(d)
              /\ Doc!IsWhole(d) = Events!IsWhole(d)
              /\ Doc!OpenLabels(d) = Events!OpenLabels(d)
              /\ Extraction!InArray(d) = Events!InArray(d)
              /\ Extraction!InObject(d) = Events!InObject(d)
              /\ Extraction!WantsKey(d) = Events!WantsKey(d)
              /\ Extraction!WantsValue(d) = Events!WantsValue(d)
              /\ Extraction!IsWhole(d) = Events!IsWhole(d)
              /\ Extraction!OpenLabels(d) = Events!OpenLabels(d)
BY DEF Doc!Start, Events!Start, Extraction!Start,
       Doc!InArray, Events!InArray, Extraction!InArray,
       Doc!InObject, Events!InObject, Extraction!InObject,
       Doc!WantsKey, Events!WantsKey, Extraction!WantsKey,
       Doc!WantsValue, Events!WantsValue, Extraction!WantsValue,
       Doc!IsWhole, Events!IsWhole, Extraction!IsWhole,
       Doc!OpenLabels, Events!OpenLabels, Extraction!OpenLabels

LEMMA SameLabel ==
    \A d, array : /\ Doc!LabelOf(d, array) = Events!LabelOf(d, array)
                  /\ Extraction!LabelOf(d, array) = Events!LabelOf(d, array)
BY SameEvents DEF Doc!LabelOf, Events!LabelOf, Extraction!LabelOf

LEMMA SameDisplay ==
    \A labels : /\ Doc!Display(labels) = Events!Display(labels)
                /\ Extraction!Display(labels) = Events!Display(labels)
BY DEF Doc!Display, Events!Display, Extraction!Display,
       Doc!JoinLabel, Events!JoinLabel, Extraction!JoinLabel

LEMMA SameSteps ==
    \A d : /\ Doc!MayClose(d) = Events!MayClose(d)
           /\ Doc!AfterValue(d) = Events!AfterValue(d)
           /\ Doc!AfterClose(d) = Events!AfterClose(d)
           /\ \A k : Doc!AfterKey(d, k) = Events!AfterKey(d, k)
           /\ \A array : Doc!AfterOpen(d, array) = Events!AfterOpen(d, array)
           /\ Extraction!MayClose(d) = Events!MayClose(d)
           /\ Extraction!AfterValue(d) = Events!AfterValue(d)
           /\ Extraction!AfterClose(d) = Events!AfterClose(d)
           /\ \A k : Extraction!AfterKey(d, k) = Events!AfterKey(d, k)
           /\ \A array : Extraction!AfterOpen(d, array) = Events!AfterOpen(d, array)
<1>1. \A d : /\ Doc!MayClose(d) = Events!MayClose(d)
             /\ Extraction!MayClose(d) = Events!MayClose(d)
  BY SameEvents DEF Doc!MayClose, Events!MayClose, Extraction!MayClose
<1>2. \A d : /\ Doc!AfterValue(d) = Events!AfterValue(d)
             /\ Extraction!AfterValue(d) = Events!AfterValue(d)
  BY SameEvents DEF Doc!AfterValue, Events!AfterValue, Extraction!AfterValue
<1>3. \A d : /\ Doc!AfterClose(d) = Events!AfterClose(d)
             /\ Extraction!AfterClose(d) = Events!AfterClose(d)
  BY <1>2 DEF Doc!AfterClose, Events!AfterClose, Extraction!AfterClose
<1>4. \A d, k : /\ Doc!AfterKey(d, k) = Events!AfterKey(d, k)
                /\ Extraction!AfterKey(d, k) = Events!AfterKey(d, k)
  BY DEF Doc!AfterKey, Events!AfterKey, Extraction!AfterKey
<1>5. \A d, array : /\ Doc!AfterOpen(d, array) = Events!AfterOpen(d, array)
                    /\ Extraction!AfterOpen(d, array) = Events!AfterOpen(d, array)
  BY SameLabel DEF Doc!AfterOpen, Events!AfterOpen, Extraction!AfterOpen
<1> QED
  BY <1>1, <1>2, <1>3, <1>4, <1>5

LEMMA SameNames ==
    \A d : /\ Extraction!ArgumentName(d) = Events!ArgumentName(d)
           /\ \A array : Extraction!ContainerName(d, array) = Events!ContainerName(d, array)
BY SameEvents, SameLabel, SameDisplay
   DEF Extraction!ArgumentName, Events!ArgumentName,
       Extraction!ContainerName, Events!ContainerName

LEMMA AssumedOfEvents == Events!EventsAssumption
BY PathAssumption DEF Events!EventsAssumption

(***************************************************************************)
(* The inductive invariant.  While a document is read the frames remember  *)
(* the places of the open containers, as in JsonEventsProofs, and a tree   *)
(* visitor turns to the members in the order of the source; behind it,     *)
(* what a call still has to answer is known.                               *)
(***************************************************************************)

Lengths == [i \in 1..Len(frames) |-> frames[i].prefix_length]
Saved == [i \in 1..Len(frames) |-> frames[i].key]

InOrder == {v \in [source : Seq(Keys), order : Seq(Keys)] : v.order = v.source}

Reading ==
    /\ prefix \in Seq(Byte) /\ key \in Seq(Byte) /\ frames \in Seq(Frame)
    /\ m_error = FALSE
    /\ doc \in Events!Positions
    /\ depth = Len(doc.open) /\ Len(frames) = Len(doc.open)
    /\ Events!Stands(doc.open, prefix, key, Lengths, Saved)
    /\ Events!WantsValue(doc) => key = Events!LabelOf(doc, FALSE)
    /\ Events!WantsKey(doc) => Events!InObject(doc)
    /\ engine = "jsoncpp" => visits \in Seq(InOrder) /\ Len(visits) = Len(doc.open)

Settled ==
    /\ limits \in [depth : DepthLimits, args : ArgumentLimits]
    /\ silence \in BOOLEAN
    /\ arguments \in Nat

Answering ==
    /\ stage \in {"idle", "open", "events", "finish", "caught"}
    /\ stage = "idle" =>
          /\ outcome # "open"
          /\ messages = IF status = 0 THEN 0 ELSE 1
          /\ outcome # "none" => (status = 0 <=> outcome = "accepted")
    /\ stage # "idle" => messages = 0
    /\ stage \in {"open", "events"} => outcome = "open"
    /\ stage = "finish" => outcome \in {"open", "refused"}
    /\ stage = "finish" /\ outcome = "open" =>
          /\ Events!IsWhole(doc)
          /\ torn \/ ~rest \/ engine = "simdjson"
    /\ stage = "caught" => outcome = "refused"
    /\ outcome = "accepted" => ~rest /\ ~torn /\ Events!IsWhole(doc)

CppInv ==
    /\ Settled /\ Answering
    /\ stage \in {"open", "events"} => Reading

(***************************************************************************)
(* Names, and what the pushes and pops of the path do to the position.     *)
(***************************************************************************)

LEMMA LimitTypes ==
    ASSUME Settled
    PROVE  limits.depth \in Nat /\ limits.args \in Nat /\ arguments \in Nat
BY CppAssumption DEF Settled

LEMMA ReadingTypes ==
    ASSUME Reading
    PROVE  /\ prefix \in Seq(Byte) /\ key \in Seq(Byte) /\ frames \in Seq(Frame)
           /\ doc.open \in Seq(Events!Containers) /\ Len(doc.open) \in Nat
           /\ Len(frames) = Len(doc.open) /\ depth = Len(doc.open) /\ depth \in Nat
           /\ \A array \in BOOLEAN : RootArray(array) <=> array /\ doc.open = <<>>
<1>1. /\ prefix \in Seq(Byte) /\ key \in Seq(Byte) /\ frames \in Seq(Frame)
      /\ doc.open \in Seq(Events!Containers) /\ Len(doc.open) \in Nat
      /\ Len(frames) = Len(doc.open) /\ depth = Len(doc.open) /\ depth \in Nat
  BY DEF Reading, Events!Positions
<1>2. frames = <<>> <=> doc.open = <<>>
  BY <1>1
<1> QED
  BY <1>1, <1>2 DEF RootArray

LEMMA SameJoin ==
    ASSUME NEW p, NEW k
    PROVE  Events!JoinLabel(p, k) = Join(p, k)
BY DEF Events!JoinLabel, Join

\* The name a scalar is given is that of its position, and the length tested
\* before a container is entered is that of its path.
LEMMA NamesHere ==
    ASSUME Reading, Events!WantsValue(doc), NEW array \in BOOLEAN
    PROVE  /\ Extraction!ArgumentName(doc) = Join(prefix, key)
           /\ Extraction!ContainerName(doc, FALSE) = Join(prefix, key)
           /\ Len(Extraction!ContainerName(doc, array)) = StartLength(array)
           /\ Len(Join(prefix, key)) = NameLength(prefix, key)
           /\ Join(prefix, key) \in Seq(Byte)
<1>0. /\ prefix \in Seq(Byte) /\ key \in Seq(Byte) /\ doc \in Events!Positions
      /\ doc.open \in Seq(Events!Containers)
      /\ key = Events!LabelOf(doc, FALSE)
      /\ RootArray(array) <=> array /\ doc.open = <<>>
  BY ReadingTypes DEF Reading
<1>1. prefix = Events!Display(Events!OpenLabels(doc))
  BY AssumedOfEvents, Events!PrefixThere DEF Reading
<1>2. Events!OpenLabels(doc) \in Seq(Seq(Byte))
  <2>1. \A i \in 1..Len(doc.open) : doc.open[i] \in Events!Containers
    BY <1>0
  <2>2. Len(doc.open) \in Nat /\ \A i \in 1..Len(doc.open) : doc.open[i].label \in Seq(Byte)
    BY <1>0, <2>1 DEF Events!Containers
  <2> QED
    BY <2>2 DEF Events!OpenLabels
<1>3. ASSUME NEW a \in BOOLEAN
      PROVE  Events!ContainerName(doc, a) = Join(prefix, Events!LabelOf(doc, a))
  <2>1. Events!LabelOf(doc, a) \in Seq(Byte)
    BY <1>0, AssumedOfEvents, Events!LabelType
  <2>2. Events!Display(Append(Events!OpenLabels(doc), Events!LabelOf(doc, a)))
            = Events!JoinLabel(prefix, Events!LabelOf(doc, a))
    BY <1>1, <1>2, <2>1, AssumedOfEvents, Events!DisplayGrows
  <2> QED
    BY <2>2, SameJoin DEF Events!ContainerName
<1>4. /\ Events!ContainerName(doc, FALSE) = Join(prefix, key)
      /\ Events!ArgumentName(doc) = Events!ContainerName(doc, FALSE)
  BY <1>0, <1>3 DEF Events!ArgumentName, Events!ContainerName
<1>5. Len(Join(prefix, key)) = NameLength(prefix, key) /\ Join(prefix, key) \in Seq(Byte)
  BY <1>0, JoinLength
<1>6. CASE RootArray(array)
  <2>1. array = TRUE /\ doc.open = <<>>
    BY <1>0, <1>6
  <2>2. Events!OpenLabels(doc) = <<>>
    BY <1>2, <2>1 DEF Events!OpenLabels
  <2>3. prefix = <<>>
    BY <1>1, <2>2, AssumedOfEvents, Events!DisplayGrows
  <2>4. Events!LabelOf(doc, array) = ArrayName
    BY <2>1 DEF Events!LabelOf, Events!InArray, Events!InObject
  <2>5. Events!ContainerName(doc, array) = ArrayName
    BY <1>3, <2>3, <2>4 DEF Join
  <2> QED
    BY <1>4, <1>5, <1>6, <2>5, SameNames DEF StartLength
<1>7. CASE ~RootArray(array)
  <2>1. Events!LabelOf(doc, array) = key
    BY <1>0, <1>7 DEF Events!LabelOf, Events!InArray, Events!InObject
  <2> QED
    BY <1>3, <1>4, <1>5, <1>7, <2>1, SameNames DEF StartLength
<1> QED
  BY <1>6, <1>7

\* What is left of a sequence without its last element.
LEMMA Shorter ==
    ASSUME NEW S, NEW s \in Seq(S), NEW n \in Nat, Len(s) = n, n # 0
    PROVE  /\ SubSeq(s, 1, n - 1) \in Seq(S)
           /\ Len(SubSeq(s, 1, n - 1)) = n - 1
           /\ \A i \in 1..n - 1 : SubSeq(s, 1, n - 1)[i] = s[i]
<1> DEFINE front == SubSeq(s, 1, n - 1)
<1>1. /\ 1 \in Int /\ n - 1 \in Nat
      /\ \A i \in 1..n - 1 : s[i] \in S
  OBVIOUS
<1>2. /\ front \in Seq(S)
      /\ Len(front) = IF 1 <= n - 1 THEN (n - 1) - 1 + 1 ELSE 0
  BY <1>1, SubSeqProperties
<1>3. \A i \in 1..n - 1 : front[i] = s[i]
  BY <1>1
<1> HIDE DEF front
<1>4. Len(front) = n - 1
  BY <1>1, <1>2
<1> QED
  BY <1>2, <1>3, <1>4 DEF front

LEMMA Longer ==
    ASSUME NEW S, NEW s \in Seq(S), NEW n \in Nat, Len(s) = n, NEW e \in S
    PROVE  /\ Append(s, e) \in Seq(S)
           /\ Len(Append(s, e)) = n + 1
           /\ \A i \in 1..n : Append(s, e)[i] = s[i]
           /\ Append(s, e)[n + 1] = e
OBVIOUS

(***************************************************************************)
(* What an event does to the document and the path when nothing fails, in  *)
(* either handler.                                                         *)
(***************************************************************************)

Continues == UNCHANGED <<stage, outcome, reason, settings, input, answer>>

Opens(array) ==
    /\ Fits(StartLength(array)) /\ depth < limits.depth
    /\ frames' = Append(frames, FrameFor(prefix, key))
    /\ prefix' = IF RootArray(array) THEN ArrayName ELSE Join(prefix, key)
    /\ key' = IF RootArray(array) THEN ArrayName ELSE key
    /\ m_error' = m_error
    /\ doc' = Events!AfterOpen(doc, array)
    /\ depth' = depth + 1
    /\ Visited(array)
    /\ Continues /\ UNCHANGED <<lines, arguments>>

Closes ==
    /\ prefix' = SubSeq(prefix, 1, frames[Len(frames)].prefix_length)
    /\ key' = frames[Len(frames)].key
    /\ frames' = SubSeq(frames, 1, Len(frames) - 1)
    /\ m_error' = m_error
    /\ doc' = Events!AfterClose(doc)
    /\ depth' = depth - 1
    /\ visits' = IF engine = "jsoncpp" THEN Front(visits) ELSE visits
    /\ Continues /\ UNCHANGED <<lines, arguments>>

Keyed(k) ==
    /\ Fits(Len(k))
    /\ key' = k
    /\ UNCHANGED <<prefix, frames, m_error>>
    /\ doc' = Events!AfterKey(doc, k)
    /\ engine = "jsoncpp" =>
          /\ visits' \in Seq(InOrder) /\ Len(visits') = Len(visits)
    /\ Continues /\ UNCHANGED <<depth, lines, arguments>>

Valued ==
    /\ Fits(NameLength(prefix, key)) /\ arguments < limits.args
    /\ UNCHANGED <<prefix, key, frames, m_error>>
    /\ doc' = Events!AfterValue(doc)
    /\ arguments' = arguments + 1
    /\ lines' = IF silence THEN lines ELSE Append(lines, Join(prefix, key))
    /\ Continues /\ UNCHANGED <<depth, visits>>

\* The members that are visited are in order when an object is entered.
LEMMA VisitedInOrder ==
    ASSUME Reading, NEW array \in BOOLEAN, Visited(array), engine = "jsoncpp"
    PROVE  visits' \in Seq(InOrder) /\ Len(visits') = Len(doc.open) + 1
<1>1. visits \in Seq(InOrder) /\ Len(visits) = Len(doc.open) /\ Len(doc.open) \in Nat
  BY ReadingTypes DEF Reading
<1>2. CASE \E t \in Trees :
               visits' = Append(visits, [source |-> t, order |-> VisitOrder(t)])
  <2>1. PICK t \in Trees :
            visits' = Append(visits, [source |-> t, order |-> VisitOrder(t)])
    BY <1>2
  <2>2. t \in Seq(Keys) /\ IsInjective(t)
    BY CppAssumption
  <2>3. VisitOrder(t) = t
    BY <2>2, VisitsInSourceOrder
  <2>4. [source |-> t, order |-> VisitOrder(t)] \in InOrder
    BY <2>2, <2>3 DEF InOrder
  <2> QED
    BY <1>1, <2>1, <2>4, Longer
<1>3. CASE visits' = Append(visits, [source |-> <<>>, order |-> <<>>])
  <2>1. [source |-> <<>>, order |-> <<>>] \in InOrder
    <3>1. <<>> \in Seq(Keys)
      OBVIOUS
    <3> QED
      BY <3>1 DEF InOrder
  <2> QED
    BY <1>1, <1>3, <2>1, Longer
<1> QED
  BY <1>2, <1>3 DEF Visited

LEMMA OpenReads ==
    ASSUME Reading, Events!WantsValue(doc), NEW array \in BOOLEAN, Opens(array)
    PROVE  Reading'
<1> DEFINE n == Len(doc.open)
<1>0. /\ prefix \in Seq(Byte) /\ key \in Seq(Byte) /\ frames \in Seq(Frame)
      /\ doc \in Events!Positions /\ n \in Nat /\ Len(frames) = n
      /\ key = Events!LabelOf(doc, FALSE)
      /\ RootArray(array) <=> array /\ doc.open = <<>>
      /\ Events!Stands(doc.open, prefix, key, Lengths, Saved)
  BY ReadingTypes DEF Reading
<1>1. /\ frames' \in Seq(Frame) /\ Len(frames') = n + 1
      /\ \A i \in 1..n : frames'[i] = frames[i]
      /\ frames'[n + 1] = FrameFor(prefix, key)
  <2>1. prefix \in Seq(Byte) /\ key \in Seq(Byte) /\ Len(prefix) \in Nat
    <3>1. prefix \in Seq(Byte) /\ key \in Seq(Byte)
      BY ReadingTypes
    <3> QED
      BY <3>1
  <2>2. FrameFor(prefix, key) \in Frame
    BY <2>1 DEF FrameFor, Frame
  <2>3. frames \in Seq(Frame) /\ Len(frames) = n /\ n \in Nat
    BY <1>0
  <2>4. frames' = Append(frames, FrameFor(prefix, key))
    BY DEF Opens
  <2> HIDE DEF n
  <2> QED
    BY <2>2, <2>3, <2>4, Longer
<1>2. /\ \A i \in 1..n : Lengths'[i] = Lengths[i] /\ Saved'[i] = Saved[i]
      /\ Lengths'[n + 1] = Len(prefix) /\ Saved'[n + 1] = key
  <2>1. Len(frames) = n /\ n \in Nat /\ Len(frames') = n + 1
    BY <1>0, <1>1
  <2>2. /\ FrameFor(prefix, key).prefix_length = Len(prefix)
        /\ FrameFor(prefix, key).key = key
    BY DEF FrameFor
  <2> HIDE DEF n
  <2> QED
    BY <1>1, <2>1, <2>2 DEF Lengths, Saved
<1>3. /\ array /\ doc.open = <<>> => prefix' = ArrayName /\ key' = ArrayName
      /\ ~(array /\ doc.open = <<>>) =>
            prefix' = Events!JoinLabel(prefix, key) /\ key' = key
  BY <1>0, SameJoin DEF Opens
<1>4. Events!Stands(Events!AfterOpen(doc, array).open, prefix', key', Lengths', Saved')
  BY <1>0, <1>2, <1>3, AssumedOfEvents, Events!PushStands
<1>5. /\ doc' = Events!AfterOpen(doc, array) /\ doc' \in Events!Positions
      /\ Len(doc'.open) = n + 1
      /\ Events!WantsValue(doc') => Events!InArray(doc')
      /\ Events!WantsKey(doc') => Events!InObject(doc')
  BY <1>0, AssumedOfEvents, Events!AfterOpenType, Events!OpenDue DEF Opens
<1>6. Events!Stands(doc'.open, prefix', key', Lengths', Saved')
  BY <1>4, <1>5
<1>7. Events!WantsValue(doc') => key' = Events!LabelOf(doc', FALSE)
  BY <1>5, <1>6, AssumedOfEvents, Events!KeyThere
<1>8. prefix' \in Seq(Byte) /\ key' \in Seq(Byte)
  BY <1>0, JoinLength, PathAssumption DEF Opens
<1>9. engine' = "jsoncpp" => visits' \in Seq(InOrder) /\ Len(visits') = n + 1
  BY VisitedInOrder DEF Opens, Continues, settings
<1>10. depth' = n + 1 /\ m_error' = FALSE
  BY DEF Opens, Reading
<1> HIDE DEF n
<1> QED
  BY <1>1, <1>5, <1>6, <1>7, <1>8, <1>9, <1>10, Zenon DEF Reading

LEMMA CloseReads ==
    ASSUME Reading, doc.open # <<>>, Closes
    PROVE  Reading'
<1> DEFINE n == Len(doc.open)
<1>0. /\ prefix \in Seq(Byte) /\ frames \in Seq(Frame)
      /\ doc \in Events!Positions /\ n \in Nat /\ n # 0 /\ Len(frames) = n
      /\ Events!Stands(doc.open, prefix, key, Lengths, Saved)
  BY ReadingTypes DEF Reading
<1>1. /\ frames' \in Seq(Frame) /\ Len(frames') = n - 1
      /\ \A i \in 1..n - 1 : frames'[i] = frames[i]
      /\ frames[n] \in Frame
  <2> HIDE DEF n
  <2>1. frames[n] \in Frame
    BY <1>0
  <2> QED
    BY <1>0, <2>1, Shorter DEF Closes
<1>2. /\ \A i \in 1..n - 1 : Lengths'[i] = Lengths[i] /\ Saved'[i] = Saved[i]
      /\ Lengths[n] = frames[n].prefix_length /\ Saved[n] = frames[n].key
  <2> HIDE DEF n
  <2> QED
    BY <1>0, <1>1 DEF Lengths, Saved
<1>3. prefix' = SubSeq(prefix, 1, Lengths[n]) /\ key' = Saved[n]
  BY <1>0, <1>2 DEF Closes
<1>4. Events!Stands(Events!AfterClose(doc).open, SubSeq(prefix, 1, Lengths[n]),
                    Saved[n], Lengths', Saved')
  BY <1>0, <1>2, AssumedOfEvents, Events!PopStands
<1>5. /\ doc' = Events!AfterClose(doc) /\ doc' \in Events!Positions
      /\ Len(doc'.open) = n - 1
      /\ Events!WantsValue(doc') => Events!InArray(doc')
      /\ Events!WantsKey(doc') => Events!InObject(doc')
  BY <1>0, AssumedOfEvents, Events!AfterCloseType, Events!CloseDue DEF Closes
<1>6. Events!Stands(doc'.open, prefix', key', Lengths', Saved')
  BY <1>3, <1>4, <1>5
<1>7. Events!WantsValue(doc') => key' = Events!LabelOf(doc', FALSE)
  BY <1>5, <1>6, AssumedOfEvents, Events!KeyThere
<1>8. prefix' \in Seq(Byte) /\ key' \in Seq(Byte)
  <2>1. frames[n].prefix_length \in Nat /\ frames[n].key \in Seq(Byte)
    BY <1>1 DEF Frame
  <2>2. Lengths[n] \in 0..Len(prefix)
    BY <1>0 DEF Events!Stands, Events!Cuts
  <2>3. SubSeq(prefix, 1, Lengths[n]) \in Seq(Byte)
    <3>1. 0 \in 0..Lengths[n]
      BY <2>2
    <3> QED
      BY <1>0, <2>2, <3>1, AssumedOfEvents, Events!CutTwice
  <2> QED
    BY <1>2, <1>3, <2>1, <2>3
<1>9. engine' = "jsoncpp" => visits' \in Seq(InOrder) /\ Len(visits') = n - 1
  <2> SUFFICES ASSUME engine' = "jsoncpp"
               PROVE  visits' \in Seq(InOrder) /\ Len(visits') = n - 1
    OBVIOUS
  <2>1. engine = "jsoncpp" /\ visits' = SubSeq(visits, 1, n - 1)
    BY DEF Closes, Continues, settings, Front, Reading
  <2>2. visits \in Seq(InOrder) /\ Len(visits) = n
    BY <2>1 DEF Reading
  <2> HIDE DEF n
  <2> QED
    BY <1>0, <2>1, <2>2, Shorter
<1>10. depth' = n - 1 /\ m_error' = FALSE
  BY DEF Closes, Reading
<1> HIDE DEF n
<1> QED
  BY <1>1, <1>5, <1>6, <1>7, <1>8, <1>9, <1>10, Zenon DEF Reading

LEMMA KeyReads ==
    ASSUME Reading, Events!WantsKey(doc), NEW k \in Keys, Keyed(k)
    PROVE  Reading'
<1>0. /\ prefix \in Seq(Byte) /\ frames \in Seq(Frame) /\ doc \in Events!Positions
      /\ Len(frames) = Len(doc.open) /\ depth = Len(doc.open)
      /\ Events!Stands(doc.open, prefix, key, Lengths, Saved)
      /\ Events!InObject(doc) /\ ~Events!InArray(doc) /\ k \in Seq(Byte)
  BY PathAssumption DEF Reading, Events!InObject, Events!InArray
<1>1. doc' = Events!AfterKey(doc, k) /\ doc' \in Events!Positions /\ doc'.open = doc.open
  BY <1>0, AssumedOfEvents, Events!AfterKeyType DEF Keyed
<1>2. Events!Stands(doc.open, prefix, k, Lengths, Saved)
  BY <1>0, AssumedOfEvents, Events!KeyStands
<1>3. Lengths' = Lengths /\ Saved' = Saved
  BY DEF Keyed, Lengths, Saved
<1>4. Events!Stands(doc'.open, prefix', key', Lengths', Saved')
  BY <1>1, <1>2, <1>3 DEF Keyed
<1>5. doc'.member = k /\ doc'.next = "value"
  BY <1>0, <1>1 DEF Events!AfterKey, Events!Positions
<1>6. Events!WantsValue(doc') => key' = Events!LabelOf(doc', FALSE)
  BY <1>0, <1>1, <1>5
     DEF Keyed, Events!LabelOf, Events!InObject, Events!InArray
<1>7. Events!WantsKey(doc') => Events!InObject(doc')
  BY <1>5 DEF Events!WantsKey
<1>8. engine' = "jsoncpp" => visits' \in Seq(InOrder) /\ Len(visits') = Len(doc.open)
  BY DEF Keyed, Continues, settings, Reading
<1>9. prefix' \in Seq(Byte) /\ key' \in Seq(Byte) /\ frames' \in Seq(Frame)
  BY <1>0 DEF Keyed
<1>10. /\ depth' = Len(doc'.open) /\ m_error' = FALSE /\ Len(frames') = Len(doc'.open)
  BY <1>0, <1>1 DEF Keyed, Reading
<1> QED
  BY <1>1, <1>4, <1>6, <1>7, <1>8, <1>9, <1>10, Zenon DEF Reading

LEMMA ValueReads ==
    ASSUME Reading, Events!WantsValue(doc), Valued
    PROVE  Reading'
<1>0. /\ doc \in Events!Positions
      /\ Events!Stands(doc.open, prefix, key, Lengths, Saved)
  BY DEF Reading
<1>1. /\ doc' = Events!AfterValue(doc) /\ doc' \in Events!Positions
      /\ doc'.open = doc.open
      /\ Events!WantsValue(doc') => Events!InArray(doc')
      /\ Events!WantsKey(doc') => Events!InObject(doc')
  BY <1>0, AssumedOfEvents, Events!AfterValueType, Events!ValueDue DEF Valued
<1>2. Lengths' = Lengths /\ Saved' = Saved
  BY DEF Valued, Lengths, Saved
<1>3. Events!Stands(doc'.open, prefix', key', Lengths', Saved')
  BY <1>0, <1>1, <1>2 DEF Valued
<1>4. Events!WantsValue(doc') => key' = Events!LabelOf(doc', FALSE)
  BY <1>1, <1>3, AssumedOfEvents, Events!KeyThere
<1>5. /\ prefix' \in Seq(Byte) /\ key' \in Seq(Byte) /\ frames' \in Seq(Frame)
      /\ m_error' = FALSE
  BY DEF Valued, Reading
<1>6. depth' = Len(doc'.open) /\ Len(frames') = Len(doc'.open)
  BY <1>1 DEF Valued, Reading
<1>7. engine' = "jsoncpp" => visits' \in Seq(InOrder) /\ Len(visits') = Len(doc'.open)
  BY <1>1 DEF Valued, Continues, settings, Reading
<1> QED
  BY <1>1, <1>3, <1>4, <1>5, <1>6, <1>7, Zenon DEF Reading

(***************************************************************************)
(* Ways out: whatever fails, a document is refused on a ground that it     *)
(* gives, or that is none of a document.                                   *)
(***************************************************************************)

Stops(why) ==
    /\ outcome' = "refused" /\ reason' = why
    /\ stage' \in {"finish", "caught"}
    /\ why \in Reasons \cup {"depth", "arguments", "name", "value"}
    /\ Extraction!Justified(why)
    /\ arguments' \in IF why = "output" THEN {arguments, arguments + 1} ELSE {arguments}
    /\ UNCHANGED <<doc, lines, settings, answer>>

LEMMA EndsStops ==
    ASSUME NEW why, NEW where \in {"finish", "caught"}, Ends(why, where),
           why \in Reasons \/
              (why \in {"depth", "arguments", "name", "value"} /\ Extraction!Justified(why)),
           arguments' = arguments \/ (why = "output" /\ arguments' = arguments + 1),
           UNCHANGED <<settings, answer>>
    PROVE  Stops(why)
<1>1. Extraction!Justified(why)
  BY DEF Extraction!Justified
<1> QED
  BY <1>1 DEF Ends, Stops

LEMMA FailStops ==
    ASSUME NEW why, Fail(why) \/ Throw(why),
           why \in Reasons \/
              (why \in {"depth", "arguments", "name", "value"} /\ Extraction!Justified(why)),
           arguments' = arguments \/ (why = "output" /\ arguments' = arguments + 1),
           UNCHANGED <<settings, answer>>
    PROVE  Stops(why)
<1>1. \E where \in {"finish", "caught"} : Ends(why, where)
  BY DEF Fail, Throw
<1> QED
  BY <1>1, EndsStops

\* A name or path is refused as one exactly when that of the position is too long.
LEMMA PathErrorStops ==
    ASSUME Reading, Events!WantsValue(doc), NEW array \in BOOLEAN,
           NEW length, length = StartLength(array) \/ length = NameLength(prefix, key),
           PathError(length), arguments' = arguments, UNCHANGED <<settings, answer>>
    PROVE  \E why : Stops(why)
<1>1. CASE Fits(length)
  <2>1. Fail("memory")
    BY <1>1 DEF PathError
  <2> QED
    BY <2>1, FailStops DEF Reasons
<1>2. CASE ~Fits(length)
  <2>1. Fail("name")
    BY <1>2 DEF PathError
  <2>2. \E a \in BOOLEAN : Len(Extraction!ContainerName(doc, a)) = length
    BY NamesHere
  <2>3. \E a \in BOOLEAN : Len(Extraction!ContainerName(doc, a)) >= JSON_STRING_SIZE
    <3>1. PICK a \in BOOLEAN : Len(Extraction!ContainerName(doc, a)) = length
      BY <2>2
    <3>2. length \in Nat
      <4>1. StartLength(array) \in Nat /\ NameLength(prefix, key) \in Nat
        BY ReadingTypes, PathAssumption DEF StartLength, NameLength
      <4> QED
        BY <4>1
    <3>3. length >= JSON_STRING_SIZE
      BY <1>2, <3>2, PathAssumption DEF Fits
    <3> QED
      BY <3>1, <3>3
  <2>4. Extraction!Justified("name")
    BY <2>3, SameEvents DEF Extraction!Justified
  <2> QED
    BY <2>1, <2>4, FailStops
<1> QED
  BY <1>1, <1>2

(***************************************************************************)
(* Every event either does its part or stops the document.                 *)
(***************************************************************************)

LEMMA BeginCases ==
    ASSUME Reading, Settled, NEW array \in BOOLEAN, Begin(array)
    PROVE  /\ stage = "events" /\ outcome = "open" /\ Events!WantsValue(doc)
           /\ Opens(array) \/ \E why : Stops(why)
<1>0. /\ stage = "events" /\ outcome = "open" /\ Events!WantsValue(doc)
      /\ arguments' = arguments /\ UNCHANGED <<settings, answer>>
      /\ UNCHANGED <<settings, input, answer, arguments>>
  BY SameEvents DEF Begin, Awaits, Kept
<1>1. CASE TooDeep
  <2>1. CASE AtLimit(depth, limits.depth) /\ Fail("depth")
    <3>1. Extraction!WantsValue(doc) /\ Len(doc.open) >= limits.depth
      BY <1>0, <2>1, SameEvents, ReadingTypes DEF AtLimit
    <3>2. Extraction!Justified("depth")
      BY <3>1 DEF Extraction!Justified
    <3> QED
      BY <1>0, <2>1, <3>2, FailStops
  <2>2. CASE Fail("native depth")
    BY <1>0, <2>2, FailStops DEF Reasons
  <2> QED
    BY <1>1, <2>1, <2>2 DEF TooDeep
<1>2. CASE ~AtLimit(depth, limits.depth) /\ BeginInPathHandler(array)
  <2>1. depth < limits.depth
    BY <1>2, ReadingTypes, LimitTypes DEF AtLimit
  <2>2. CASE m_error' /\ PathError(StartLength(array))
    BY <1>0, <2>2, PathErrorStops
  <2>3. CASE /\ ~m_error'
             /\ doc' = Doc!AfterOpen(doc, array)
             /\ depth' = depth + 1
             /\ Visited(array)
             /\ Proceed
    <3>1. m_error = FALSE /\ Start(array)
      BY <1>2 DEF BeginInPathHandler, Reading
    <3>2. Fits(StartLength(array)) /\ Entered(array)
      BY <2>3, <3>1 DEF Start, Ignored, Refuse, HalfEntered
    <3> QED
      BY <1>0, <2>1, <2>3, <3>2, SameSteps DEF Opens, Entered, Proceed, Continues
  <2> QED
    BY <1>2, <2>2, <2>3 DEF BeginInPathHandler
<1>3. CASE ~AtLimit(depth, limits.depth) /\ BeginInJsoncons(array)
  <2> DEFINE length == IF RootArray(array) THEN Len(ArrayName)
                       ELSE Len(prefix) + Len(key) + IF prefix # <<>> THEN 1 ELSE 0
  <2>1. depth < limits.depth
    BY <1>3, ReadingTypes, LimitTypes DEF AtLimit
  <2>2. length = StartLength(array) /\ length \in Nat
    <3>1. Len(prefix) \in Nat /\ Len(key) \in Nat /\ Len(ArrayName) \in Nat
      BY ReadingTypes, PathAssumption
    <3> QED
      BY <3>1 DEF StartLength, NameLength
  <2>3. CASE length >= JSON_STRING_SIZE /\ Fail("name")
    <3>1. PathError(length)
      BY <2>2, <2>3, PathAssumption DEF PathError, Fits
    <3> QED
      BY <1>0, <2>2, <3>1, PathErrorStops
  <2>4. CASE Throw("memory")
    BY <1>0, <2>4, FailStops DEF Reasons
  <2>5. CASE /\ length < JSON_STRING_SIZE
             /\ frames' = Append(frames, [prefix_length |-> Len(prefix), key |-> key])
             /\ prefix' = IF RootArray(array) THEN ArrayName
                          ELSE IF prefix = <<>> THEN key
                          ELSE prefix \o <<Dot>> \o key
             /\ key' = IF RootArray(array) THEN ArrayName ELSE key
             /\ depth' = depth + 1
             /\ doc' = Doc!AfterOpen(doc, array)
             /\ Proceed
             /\ UNCHANGED <<m_error, given>>
    <3>1. Fits(StartLength(array))
      BY <2>2, <2>5 DEF Fits
    <3>2. Visited(array)
      BY <1>3 DEF BeginInJsoncons, Visited
    <3>3. /\ frames' = Append(frames, FrameFor(prefix, key))
          /\ prefix' = IF RootArray(array) THEN ArrayName ELSE Join(prefix, key)
      BY <2>5 DEF FrameFor, Join
    <3> HIDE DEF length
    <3> QED
      BY <1>0, <2>1, <2>5, <3>1, <3>2, <3>3, SameSteps DEF Opens, Proceed, Continues
  <2> QED
    BY <1>3, <2>3, <2>4, <2>5 DEF BeginInJsoncons, RootArray
<1> QED
  BY <1>1, <1>2, <1>3 DEF Begin

LEMMA EndCases ==
    ASSUME Reading, End
    PROVE  /\ stage = "events" /\ outcome = "open"
           /\ doc.open # <<>> /\ Events!MayClose(doc)
           /\ Closes
<1>0. stage = "events" /\ outcome = "open" /\ Events!MayClose(doc) /\ m_error = FALSE
  BY SameSteps DEF End, Awaits, Reading
<1>1. doc.open # <<>>
  BY <1>0 DEF Events!MayClose, Events!InArray, Events!InObject
<1>2. frames # <<>>
  BY <1>1, ReadingTypes
<1>3. /\ prefix' = SubSeq(prefix, 1, frames[Len(frames)].prefix_length)
      /\ key' = frames[Len(frames)].key
      /\ frames' = SubSeq(frames, 1, Len(frames) - 1)
      /\ m_error' = m_error
  <2>1. CASE Pop
    BY <1>0, <1>2, <2>1 DEF Pop, Ignored, ParentPrefix
  <2>2. CASE EndInJsoncons
    BY <2>2 DEF EndInJsoncons
  <2> QED
    BY <2>1, <2>2 DEF End
<1> QED
  BY <1>0, <1>1, <1>3, SameSteps DEF End, Closes, Proceed, Kept, Continues

\* The key a tree visitor turns to is the next one of the source.
LEMMA ComesInOrder ==
    ASSUME Reading, Events!WantsKey(doc), NEW k \in Keys, KeyComes(k)
    PROVE  /\ doc' = Events!AfterKey(doc, k)
           /\ engine = "jsoncpp" => visits' \in Seq(InOrder) /\ Len(visits') = Len(visits)
<1>1. CASE engine # "jsoncpp"
  BY <1>1, SameSteps DEF KeyComes
<1>2. CASE engine = "jsoncpp"
  <2> DEFINE n == Len(visits)
             top == visits[n]
             next == [source |-> Tail(top.source), order |-> Tail(top.order)]
  <2>1. /\ visits \in Seq(InOrder) /\ n = Len(doc.open) /\ doc.open # <<>>
        /\ doc.open \in Seq(Events!Containers)
    BY <1>2, ReadingTypes DEF Reading, Events!InObject
  <2>2. n \in Nat /\ n \in 1..n /\ top \in InOrder
    <3>1. Len(doc.open) \in Nat /\ Len(doc.open) # 0
      BY <2>1
    <3>2. n \in Nat /\ n \in 1..n
      BY <2>1, <3>1
    <3> QED
      BY <2>1, <3>2
  <2>3. /\ top.order # <<>> /\ k = Head(top.order)
        /\ visits' = [visits EXCEPT ![n] = next]
        /\ doc' = Doc!AfterKey(doc, Head(top.source))
    BY <1>2 DEF KeyComes
  <2>4. /\ top.source \in Seq(Keys) /\ top.order = top.source
    BY <2>2 DEF InOrder
  <2>5. next \in InOrder
    <3>1. Tail(top.source) \in Seq(Keys)
      BY <2>3, <2>4
    <3> QED
      BY <2>4, <3>1 DEF InOrder
  <2>6. doc' = Events!AfterKey(doc, k)
    BY <2>3, <2>4, SameSteps
  <2> HIDE DEF next, top, n
  <2>7. visits' \in Seq(InOrder) /\ Len(visits') = n
    BY <2>1, <2>2, <2>3, <2>5, ExceptSeq DEF n
  <2> QED
    BY <2>6, <2>7 DEF n
<1> QED
  BY <1>1, <1>2

LEMMA KeyCases ==
    ASSUME Reading, NEW k \in Keys, Key(k)
    PROVE  /\ stage = "events" /\ outcome = "open" /\ Events!WantsKey(doc)
           /\ Keyed(k) \/ \E why : Stops(why)
<1>0. /\ stage = "events" /\ outcome = "open" /\ Events!WantsKey(doc)
      /\ arguments' = arguments /\ depth' = depth
      /\ UNCHANGED <<settings, input, answer>> /\ UNCHANGED <<settings, answer>>
  BY SameEvents DEF Key, Awaits, Kept
<1>1. Len(k) \in Nat
  BY PathAssumption
<1>2. ~Fits(Len(k)) /\ Fail("name") => Stops("name")
  <2> SUFFICES ASSUME ~Fits(Len(k)), Fail("name") PROVE Stops("name")
    OBVIOUS
  <2>1. Len(k) >= JSON_STRING_SIZE
    BY <1>1, PathAssumption DEF Fits
  <2>2. Extraction!Justified("name")
    BY <1>0, <2>1, SameEvents DEF Extraction!Justified
  <2> QED
    BY <1>0, <2>2, FailStops
<1>3. /\ Fail("unicode") => Stops("unicode")
      /\ Fail("memory") \/ Throw("memory") => Stops("memory")
  BY <1>0, FailStops DEF Reasons
<1>4. CASE RapidKeyRefused(k)
  <2>1. \/ ~Fits(Len(k)) /\ Fail("name")
        \/ Fail("unicode")
    BY <1>1, <1>4, PathAssumption DEF RapidKeyRefused, Fits
  <2> QED
    BY <1>0, <1>2, <1>3, <2>1
<1>5. CASE KeyInPathHandler(k)
  <2>1. CASE m_error' /\ PathError(Len(k))
    BY <1>0, <1>2, <1>3, <2>1 DEF PathError
  <2>2. CASE ~m_error' /\ KeyComes(k) /\ Proceed
    <3>1. /\ Fits(Len(k)) /\ key' = k /\ UNCHANGED <<prefix, frames, m_error>>
      BY <1>5, <2>2 DEF KeyInPathHandler, SetKey, Ignored, Refuse
    <3> QED
      BY <1>0, <2>2, <3>1, ComesInOrder DEF Keyed, Proceed, Continues
  <2> QED
    BY <1>5, <2>1, <2>2 DEF KeyInPathHandler
<1>6. CASE KeyInJsoncons(k)
  <2>1. CASE Len(k) >= JSON_STRING_SIZE /\ Fail("name")
    <3>1. ~Fits(Len(k))
      BY <1>1, <2>1, PathAssumption DEF Fits
    <3> QED
      BY <1>0, <1>2, <2>1, <3>1
  <2>2. CASE Len(k) < JSON_STRING_SIZE /\ key' = k /\ doc' = Doc!AfterKey(doc, k) /\ Proceed
    <3>1. Fits(Len(k)) /\ engine # "jsoncpp" /\ UNCHANGED <<prefix, frames, m_error>>
      BY <1>6, <2>2 DEF Fits, KeyInJsoncons
    <3> QED
      BY <1>0, <2>2, <3>1, SameSteps DEF Keyed, Proceed, Continues
  <2>3. CASE Throw("memory")
    BY <1>0, <1>3, <2>3
  <2> QED
    BY <1>6, <2>1, <2>2, <2>3 DEF KeyInJsoncons
<1> QED
  BY <1>0, <1>4, <1>5, <1>6 DEF Key

(***************************************************************************)
(* Arguments.                                                              *)
(***************************************************************************)

\* What is left when the name is known and fits.
LEMMA EmitCases ==
    ASSUME Reading, Settled, Events!WantsValue(doc), Fits(NameLength(prefix, key)),
           NEW long, EmitOrRefuse(Join(prefix, key), long),
           UNCHANGED <<prefix, key, frames, m_error>>, UNCHANGED <<settings, input, answer>>,
           UNCHANGED <<depth, visits>>
    PROVE  Valued \/ \E why : Stops(why)
<1>0. UNCHANGED <<settings, answer>> /\ Extraction!WantsValue(doc)
  BY SameEvents
<1>1. CASE Fail("value") /\ UNCHANGED arguments
  <2>1. Extraction!Justified("value")
    BY <1>0 DEF Extraction!Justified
  <2> QED
    BY <1>0, <1>1, <2>1, FailStops
<1>2. CASE AtLimit(arguments, limits.args) /\ Fail("arguments") /\ UNCHANGED arguments
  <2>1. Extraction!Justified("arguments")
    BY <1>0, <1>2 DEF Extraction!Justified, AtLimit
  <2> QED
    BY <1>0, <1>2, <2>1, FailStops
<1>3. CASE ~AtLimit(arguments, limits.args) /\ Emit(Join(prefix, key))
  <2>1. arguments < limits.args
    BY <1>3, LimitTypes DEF AtLimit
  <2>2. CASE arguments' = arguments + 1 /\ Fail("output")
    BY <1>0, <2>2, FailStops DEF Reasons
  <2>3. CASE /\ arguments' = arguments + 1 /\ doc' = Doc!AfterValue(doc)
             /\ lines' = IF silence THEN lines ELSE Append(lines, Join(prefix, key))
             /\ UNCHANGED <<stage, outcome, reason>>
    BY <1>0, <2>1, <2>3, SameSteps DEF Valued, Continues
  <2> QED
    BY <1>3, <2>2, <2>3 DEF Emit
<1> QED
  BY <1>1, <1>2, <1>3 DEF EmitOrRefuse

LEMMA ArgumentCases ==
    ASSUME Reading, Settled, NEW long \in BOOLEAN, Argument(long)
    PROVE  /\ stage = "events" /\ outcome = "open" /\ Events!WantsValue(doc)
           /\ Valued \/ \E why : Stops(why)
<1>0. /\ stage = "events" /\ outcome = "open" /\ Events!WantsValue(doc)
      /\ UNCHANGED <<settings, input, answer>> /\ UNCHANGED <<depth, visits>>
      /\ UNCHANGED <<settings, answer>> /\ Extraction!WantsValue(doc)
  BY SameEvents DEF Argument, Awaits, Kept
<1>1. CASE TooManyFirst
  <2>1. Extraction!Justified("arguments")
    BY <1>0, <1>1 DEF Extraction!Justified, TooManyFirst, AtLimit
  <2> QED
    BY <1>0, <1>1, <2>1, FailStops DEF TooManyFirst
<1>2. CASE RapidStringRefused(long)
  <2>1. Extraction!Justified("value")
    BY <1>0 DEF Extraction!Justified
  <2> QED
    BY <1>0, <1>2, <2>1, FailStops DEF RapidStringRefused, Reasons
<1>3. CASE NamedByPathHandler(long)
  <2>0. m_error = FALSE /\ Name
    BY <1>3 DEF NamedByPathHandler, Reading
  <2>1. CASE m_error' /\ PathError(NameLength(prefix, key)) /\ UNCHANGED arguments
    BY <1>0, <2>1, PathErrorStops
  <2>2. CASE Throw("memory") /\ UNCHANGED arguments
    BY <1>0, <2>2, FailStops DEF Reasons
  <2>3. CASE ~m_error' /\ \E name \in given' : EmitOrRefuse(name, long)
    <3>1. /\ Fits(NameLength(prefix, key)) /\ given' \in {{Join(prefix, key)}, {}}
          /\ UNCHANGED <<prefix, key, frames, m_error>>
      BY <2>0, <2>3 DEF Name, Refuse
    <3>2. EmitOrRefuse(Join(prefix, key), long)
      BY <2>3, <3>1
    <3> QED
      BY <1>0, <3>1, <3>2, EmitCases
  <2> QED
    BY <1>3, <2>1, <2>2, <2>3 DEF NamedByPathHandler
<1>4. CASE NamedByJsoncons(long)
  <2>0. /\ Len(Join(prefix, key)) = NameLength(prefix, key)
        /\ NameLength(prefix, key) \in Nat
    <3>1. Join(prefix, key) \in Seq(Byte) /\ Len(Join(prefix, key)) = NameLength(prefix, key)
      BY ReadingTypes, JoinLength
    <3> QED
      BY <3>1
  <2>1. CASE /\ Len(Join(prefix, key)) >= JSON_STRING_SIZE
             /\ Fail("name") /\ UNCHANGED arguments
    <3>1. PathError(NameLength(prefix, key))
      BY <2>0, <2>1, PathAssumption DEF PathError, Fits
    <3> QED
      BY <1>0, <2>1, <3>1, PathErrorStops
  <2>2. CASE /\ Len(Join(prefix, key)) < JSON_STRING_SIZE
             /\ EmitOrRefuse(Join(prefix, key), long)
    <3>1. Fits(NameLength(prefix, key)) /\ UNCHANGED <<prefix, key, frames, m_error>>
      BY <1>4, <2>0, <2>2 DEF Fits, NamedByJsoncons, PathKept, vars
    <3> QED
      BY <1>0, <2>2, <3>1, EmitCases
  <2> QED
    BY <1>4, <2>1, <2>2 DEF NamedByJsoncons, Join
<1> QED
  BY <1>0, <1>1, <1>2, <1>3, <1>4 DEF Argument

(***************************************************************************)
(* The invariant is inductive.                                             *)
(***************************************************************************)

LEMMA StartReads ==
    ASSUME prefix' = <<>>, key' = <<>>, frames' = <<>>, m_error' = FALSE,
           depth' = 0, visits' = <<>>, doc' = Events!Start
    PROVE  Reading'
<1>1. /\ Events!Start.open = <<>> /\ Events!Start.next = "value"
      /\ Events!Start \in Events!Positions
  <2>1. <<>> \in Seq(Events!Containers) /\ <<>> \in Seq(Byte)
    OBVIOUS
  <2> QED
    BY <2>1 DEF Events!Start, Events!Positions
<1>2. Events!Stands(doc'.open, prefix', key', Lengths', Saved')
  BY AssumedOfEvents, Events!StandsAtStart
<1>3. prefix' \in Seq(Byte) /\ key' \in Seq(Byte) /\ frames' \in Seq(Frame)
  OBVIOUS
<1>4. depth' = Len(doc'.open) /\ Len(frames') = Len(doc'.open)
  BY <1>1
<1>5. Events!WantsValue(doc') => key' = Events!LabelOf(doc', FALSE)
  BY <1>1 DEF Events!LabelOf, Events!InArray, Events!InObject
<1>6. Events!WantsKey(doc') => Events!InObject(doc')
  BY <1>1 DEF Events!WantsKey
<1>7. engine' = "jsoncpp" => visits' \in Seq(InOrder) /\ Len(visits') = Len(doc'.open)
  BY <1>1
<1>8. doc' \in Events!Positions /\ m_error' = FALSE
  BY <1>1
<1> QED
  BY <1>2, <1>3, <1>4, <1>5, <1>6, <1>7, <1>8, Zenon DEF Reading

LEMMA ReadingStays ==
    ASSUME Reading, UNCHANGED <<vars, engine, doc, depth, visits>>
    PROVE  Reading'
<1>1. Lengths' = Lengths /\ Saved' = Saved
  BY DEF vars, Lengths, Saved
<1>2. /\ prefix' = prefix /\ key' = key /\ frames' = frames /\ m_error' = m_error
      /\ engine' = engine /\ doc' = doc /\ depth' = depth /\ visits' = visits
  BY DEF vars
<1> QED
  BY <1>1, <1>2, Zenon DEF Reading

LEMMA SettledStays ==
    ASSUME Settled, UNCHANGED <<limits, silence>>,
           arguments' \in {arguments, arguments + 1}
    PROVE  Settled'
<1>1. arguments' \in Nat
  BY DEF Settled
<1> QED
  BY <1>1 DEF Settled

LEMMA StopsInv ==
    ASSUME CppInv, stage # "idle", NEW why, Stops(why)
    PROVE  CppInv'
<1>1. Settled'
  BY SettledStays DEF CppInv, Stops, settings
<1>2. Answering' /\ stage' \notin {"open", "events"}
  BY DEF CppInv, Answering, Stops, settings, answer
<1> QED
  BY <1>1, <1>2 DEF CppInv

LEMMA GoesOnInv ==
    ASSUME CppInv, stage = "events", Continues, Reading',
           arguments' \in {arguments, arguments + 1}
    PROVE  CppInv'
<1>1. Settled'
  BY SettledStays DEF CppInv, Continues, settings
<1>2. Answering'
  BY DEF CppInv, Answering, Continues, settings, answer, input
<1> QED
  BY <1>1, <1>2 DEF CppInv

LEMMA EventsInv ==
    ASSUME CppInv,
           \/ \E array \in BOOLEAN : Begin(array)
           \/ End
           \/ \E k \in Keys : Key(k)
           \/ \E long \in BOOLEAN : Argument(long)
    PROVE  CppInv'
<1>1. stage = "events" /\ Reading /\ Settled
  <2>1. stage = "events"
    BY DEF Begin, End, Key, Argument, Awaits
  <2> QED
    BY <2>1 DEF CppInv
<1>2. ASSUME NEW array \in BOOLEAN, Begin(array) PROVE CppInv'
  <2>1. Events!WantsValue(doc) /\ (Opens(array) \/ \E why : Stops(why))
    BY <1>1, <1>2, BeginCases
  <2>2. CASE Opens(array)
    <3>1. Reading' /\ Continues /\ arguments' \in {arguments, arguments + 1}
      BY <1>1, <2>1, <2>2, OpenReads DEF Opens
    <3> QED
      BY <1>1, <3>1, GoesOnInv
  <2> QED
    BY <1>1, <2>1, <2>2, StopsInv
<1>3. CASE End
  <2>1. Reading' /\ Continues /\ arguments' \in {arguments, arguments + 1}
    <3>1. doc.open # <<>> /\ Closes
      BY <1>1, <1>3, EndCases
    <3> QED
      BY <1>1, <3>1, CloseReads DEF Closes
  <2> QED
    BY <1>1, <2>1, GoesOnInv
<1>4. ASSUME NEW k \in Keys, Key(k) PROVE CppInv'
  <2>1. Events!WantsKey(doc) /\ (Keyed(k) \/ \E why : Stops(why))
    BY <1>1, <1>4, KeyCases
  <2>2. CASE Keyed(k)
    <3>1. Reading' /\ Continues /\ arguments' \in {arguments, arguments + 1}
      BY <1>1, <2>1, <2>2, KeyReads DEF Keyed
    <3> QED
      BY <1>1, <3>1, GoesOnInv
  <2> QED
    BY <1>1, <2>1, <2>2, StopsInv
<1>5. ASSUME NEW long \in BOOLEAN, Argument(long) PROVE CppInv'
  <2>1. Events!WantsValue(doc) /\ (Valued \/ \E why : Stops(why))
    BY <1>1, <1>5, ArgumentCases
  <2>2. CASE Valued
    <3>1. Reading' /\ Continues /\ arguments' \in {arguments, arguments + 1}
      BY <1>1, <2>1, <2>2, ValueReads DEF Valued
    <3> QED
      BY <1>1, <3>1, GoesOnInv
  <2> QED
    BY <1>1, <2>1, <2>2, StopsInv
<1> QED
  BY <1>2, <1>3, <1>4, <1>5

\* Whatever the library or the stream does instead of an event.
LEMMA LibraryCases ==
    ASSUME CppInv, Open \/ LibraryFails \/ LibraryEnds \/ StreamBreaks
    PROVE  /\ stage \in {"open", "events"} /\ outcome = "open"
           /\ \/ \E why : Stops(why)
              \/ stage' = "events" /\ Open /\ UNCHANGED world
              \/ /\ stage' = "finish" /\ stage = "events" /\ UNCHANGED world
                 /\ Events!IsWhole(doc)
                 /\ torn' \/ ~rest' \/ engine = "simdjson"
           /\ PathKept /\ UNCHANGED <<settings, answer>>
           /\ arguments' = arguments /\ depth' = depth /\ visits' = visits
<1>0. /\ stage \in {"open", "events"} /\ outcome = "open"
      /\ PathKept /\ UNCHANGED <<settings, answer>>
      /\ arguments' = arguments /\ depth' = depth /\ visits' = visits
  BY DEF CppInv, Answering, Open, LibraryFails, LibraryEnds, StreamBreaks, Kept,
         settings, answer
<1>1. ASSUME NEW why \in Reasons, Fail(why) \/ Throw(why) PROVE Stops(why)
  BY <1>0, <1>1, FailStops
<1>2. {"memory", "file", "grammar", "unicode", "repeated", "native depth"} \subseteq Reasons
  BY DEF Reasons
<1>3. CASE Open
  <2>1. CASE stage' = "events" /\ UNCHANGED <<outcome, reason, doc, lines>>
    BY <1>0, <1>3, <2>1 DEF world
  <2>2. CASE \E why \in Reasons : Throw(why)
    BY <1>0, <1>1, <2>2
  <2> QED
    BY <1>2, <1>3, <2>1, <2>2 DEF Open
<1>4. CASE LibraryFails
  <2>1. \E why \in Reasons : Fail(why) \/ Throw(why)
    BY <1>2, <1>4 DEF LibraryFails
  <2> QED
    BY <1>0, <1>1, <2>1
<1>5. CASE LibraryEnds
  <2>1. CASE Fail("grammar")
    BY <1>0, <1>1, <1>2, <2>1
  <2>2. CASE (~rest \/ engine = "simdjson") /\ stage' = "finish" /\ UNCHANGED world
    BY <1>0, <1>5, <2>2, SameEvents DEF LibraryEnds, Kept, input
  <2> QED
    BY <1>5, <2>1, <2>2 DEF LibraryEnds
<1>6. CASE StreamBreaks
  <2>1. CASE Fail("grammar")
    BY <1>0, <1>1, <1>2, <2>1
  <2>2. CASE Doc!IsWhole(doc) /\ stage' = "finish" /\ UNCHANGED world
    BY <1>0, <1>6, <2>2, SameEvents DEF StreamBreaks
  <2> QED
    BY <1>6, <2>1, <2>2 DEF StreamBreaks
<1> QED
  BY <1>3, <1>4, <1>5, <1>6

LEMMA LibraryInv ==
    ASSUME CppInv, Open \/ LibraryFails \/ LibraryEnds \/ StreamBreaks
    PROVE  CppInv'
<1>0. /\ stage \in {"open", "events"} /\ outcome = "open" /\ Reading /\ messages = 0
      /\ PathKept /\ UNCHANGED <<settings, answer>>
      /\ arguments' = arguments /\ depth' = depth /\ visits' = visits
  BY LibraryCases DEF CppInv, Answering
<1>1. Settled'
  BY <1>0, SettledStays DEF CppInv, settings
<1>2. CASE \E why : Stops(why)
  BY <1>0, <1>2, StopsInv
<1>3. CASE stage' = "events" /\ UNCHANGED world
  <2>1. Answering'
    BY <1>0, <1>3 DEF CppInv, Answering, world, settings, answer
  <2>2. Reading'
    BY <1>0, <1>3, ReadingStays DEF PathKept, world, settings
  <2> QED
    BY <1>1, <2>1, <2>2 DEF CppInv
<1>4. CASE /\ stage' = "finish" /\ UNCHANGED world
           /\ Events!IsWhole(doc)
           /\ torn' \/ ~rest' \/ engine = "simdjson"
  <2>1. Answering'
    BY <1>0, <1>4 DEF CppInv, Answering, world, settings, answer
  <2> QED
    BY <1>1, <1>4, <2>1 DEF CppInv
<1> QED
  BY <1>2, <1>3, <1>4, LibraryCases

LEMMA InitInv == CppInit => CppInv
<1> SUFFICES ASSUME CppInit PROVE CppInv
  OBVIOUS
<1>1. Settled
  BY DEF CppInit, Settled
<1>2. Answering
  BY DEF CppInit, Answering
<1>3. stage \notin {"open", "events"}
  BY DEF CppInit
<1> QED
  BY <1>1, <1>2, <1>3 DEF CppInv

LEMMA ParseInv ==
    ASSUME CppInv, NEW fromBuffer, NEW more, Parse(fromBuffer, more)
    PROVE  CppInv'
<1>1. Settled'
  BY DEF CppInv, Settled, Parse, settings
<1>2. Answering'
  BY DEF Answering, Parse
<1>3. Reading'
  BY StartReads, SameEvents DEF Parse
<1> QED
  BY <1>1, <1>2, <1>3 DEF CppInv

LEMMA ReturnInv ==
    ASSUME CppInv, Finish \/ Caught
    PROVE  CppInv'
<1>1. stage \in {"finish", "caught"} /\ messages = 0 /\ stage' = "idle"
  BY DEF CppInv, Answering, Finish, Caught, Returns
<1>2. Settled'
  <2>1. UNCHANGED <<limits, silence, arguments>>
    BY DEF Finish, Caught, settings
  <2> QED
    BY <2>1 DEF CppInv, Settled
<1>3. CASE /\ outcome = "refused" /\ Returns(2) /\ UNCHANGED world
           /\ UNCHANGED input
  <2>1. Answering'
    BY <1>1, <1>3 DEF Answering, Returns, world, input
  <2> QED
    BY <1>1, <1>2, <2>1 DEF CppInv
<1>4. CASE outcome' = "refused" /\ Returns(2)
  <2>1. Answering'
    BY <1>1, <1>4 DEF Answering, Returns
  <2> QED
    BY <1>1, <1>2, <2>1 DEF CppInv
<1>5. CASE /\ stage = "finish" /\ outcome = "open" /\ ~torn /\ ~More
           /\ Returns(0) /\ outcome' = "accepted"
           /\ UNCHANGED <<doc, lines, reason>> /\ UNCHANGED input
  <2>1. Events!IsWhole(doc) /\ ~rest /\ ~torn
    BY <1>5 DEF CppInv, Answering, More
  <2>2. Answering'
    BY <1>1, <1>5, <2>1 DEF Answering, Returns, input
  <2> QED
    BY <1>1, <1>2, <2>2 DEF CppInv
<1>6. CASE Finish
  BY <1>3, <1>4, <1>5, <1>6 DEF Finish
<1>7. CASE Caught
  <2>1. outcome = "refused"
    BY <1>7 DEF Caught, CppInv, Answering
  <2> QED
    BY <1>3, <1>7, <2>1 DEF Caught
<1> QED
  BY <1>6, <1>7

LEMMA NextInv == CppInv /\ [CppNext]_cppVars => CppInv'
<1> SUFFICES ASSUME CppInv, [CppNext]_cppVars PROVE CppInv'
  OBVIOUS
<1>1. CASE Configure
  <2>1. Settled' /\ stage' = stage /\ stage = "idle"
    BY <1>1 DEF CppInv, Settled, Configure
  <2>2. Answering'
    BY <1>1 DEF CppInv, Answering, Configure, world, answer, input
  <2> QED
    BY <2>1, <2>2 DEF CppInv
<1>2. ASSUME NEW fromBuffer \in BOOLEAN, NEW more \in BOOLEAN, Parse(fromBuffer, more)
      PROVE  CppInv'
  BY <1>2, ParseInv
<1>3. CASE UNCHANGED cppVars
  <2>1. Settled' /\ Answering'
    BY <1>3 DEF CppInv, Settled, Answering, cppVars, settings, input, answer, world
  <2>2. UNCHANGED <<vars, engine, doc, depth, visits>> /\ stage' = stage
    BY <1>3 DEF cppVars, settings, world
  <2> QED
    BY <2>1, <2>2, ReadingStays DEF CppInv
<1> QED
  BY <1>1, <1>2, <1>3, EventsInv, LibraryInv, ReturnInv DEF CppNext

(***************************************************************************)
(* The theorems.                                                           *)
(***************************************************************************)

\* Settings, what a call still has to answer, and the path while it reads.
THEOREM CppInvariant == CppSpec => []CppInv
<1>1. CppInv /\ [CppNext]_cppVars => CppInv'
  BY NextInv
<1> QED
  BY <1>1, InitInv, PTL DEF CppSpec

\* PathIsPosition for any keys, limits and trees: the path that pops restore in
\* place is that of the open containers, at any depth, and a key that is due is
\* that of the source, also when JsonCpp keeps the members by name.
THEOREM CppPathCorrect == CppSpec => []PathIsPosition
<1>1. CppInv => PathIsPosition
  <2> SUFFICES ASSUME CppInv, stage = "events"
               PROVE  /\ ~m_error
                      /\ prefix = Doc!Display(Doc!OpenLabels(doc))
                      /\ Doc!WantsValue(doc) => key = Doc!LabelOf(doc, FALSE)
                      /\ depth = Len(doc.open) /\ Len(frames) = depth
    BY DEF PathIsPosition
  <2>1. Reading
    BY DEF CppInv
  <2>2. prefix = Events!Display(Events!OpenLabels(doc))
    BY <2>1, AssumedOfEvents, Events!PrefixThere DEF Reading
  <2>3. prefix = Doc!Display(Doc!OpenLabels(doc))
    BY <2>2, SameEvents, SameDisplay
  <2>4. Doc!WantsValue(doc) => key = Doc!LabelOf(doc, FALSE)
    BY <2>1, SameEvents, SameLabel DEF Reading
  <2> QED
    BY <2>1, <2>3, <2>4 DEF Reading
<1> QED
  BY <1>1, CppInvariant, PTL

\* AnswerIsTrue: zero and no message exactly for a document that is accepted, is
\* whole, is all of the text, and was read to the end of its stream.
THEOREM CppAnswerCorrect == CppSpec => []AnswerIsTrue
<1>1. CppInv => AnswerIsTrue
  BY SameEvents DEF CppInv, Answering, AnswerIsTrue
<1> QED
  BY <1>1, CppInvariant, PTL

(***************************************************************************)
(* The contract.                                                           *)
(***************************************************************************)

\* A document that is stopped is refused.
LEMMA StopsRefuses ==
    ASSUME outcome = "open", NEW why, Stops(why)
    PROVE  Extraction!ExtractionNext
<1>1. Extraction!Refuse(why)
  BY DEF Stops, Extraction!Refuse, settings
<1>2. why \in Reasons \cup {"depth", "arguments", "name", "value"}
  BY DEF Stops
<1> QED
  BY <1>1, <1>2 DEF Extraction!ExtractionNext

LEMMA EventsRefine ==
    ASSUME CppInv,
           \/ \E array \in BOOLEAN : Begin(array)
           \/ End
           \/ \E k \in Keys : Key(k)
           \/ \E long \in BOOLEAN : Argument(long)
    PROVE  Extraction!ExtractionNext
<1>1. stage = "events" /\ Reading /\ Settled /\ outcome = "open"
  <2>1. stage = "events" /\ outcome = "open"
    BY DEF Begin, End, Key, Argument, Awaits
  <2> QED
    BY <2>1 DEF CppInv
<1>2. ASSUME NEW array \in BOOLEAN, Begin(array) PROVE Extraction!ExtractionNext
  <2>1. Events!WantsValue(doc) /\ (Opens(array) \/ \E why : Stops(why))
    BY <1>1, <1>2, BeginCases
  <2>2. CASE Opens(array)
    <3>1. Len(Extraction!ContainerName(doc, array)) < JSON_STRING_SIZE
      BY <1>1, <2>1, <2>2, NamesHere DEF Opens, Fits
    <3>2. Len(doc.open) < limits.depth
      BY <1>1, <2>2, ReadingTypes DEF Opens
    <3>3. Extraction!Open(array)
      BY <1>1, <2>1, <2>2, <3>1, <3>2, SameEvents, SameSteps
         DEF Opens, Continues, settings, Extraction!Open
    <3> QED
      BY <3>3 DEF Extraction!ExtractionNext
  <2> QED
    BY <1>1, <2>1, <2>2, StopsRefuses
<1>3. CASE End
  <2>1. Events!MayClose(doc) /\ Closes
    BY <1>1, <1>3, EndCases
  <2>2. Extraction!Close
    BY <1>1, <2>1, SameSteps DEF Closes, Continues, settings, Extraction!Close
  <2> QED
    BY <2>2 DEF Extraction!ExtractionNext
<1>4. ASSUME NEW k \in Keys, Key(k) PROVE Extraction!ExtractionNext
  <2>1. Events!WantsKey(doc) /\ (Keyed(k) \/ \E why : Stops(why))
    BY <1>1, <1>4, KeyCases
  <2>2. CASE Keyed(k)
    <3>1. Extraction!Key(k)
      BY <1>1, <2>1, <2>2, SameEvents, SameSteps
         DEF Keyed, Continues, settings, Fits, Extraction!Key
    <3> QED
      BY <3>1 DEF Extraction!ExtractionNext
  <2> QED
    BY <1>1, <2>1, <2>2, StopsRefuses
<1>5. ASSUME NEW long \in BOOLEAN, Argument(long) PROVE Extraction!ExtractionNext
  <2>1. Events!WantsValue(doc) /\ (Valued \/ \E why : Stops(why))
    BY <1>1, <1>5, ArgumentCases
  <2>2. CASE Valued
    <3>1. /\ Extraction!ArgumentName(doc) = Join(prefix, key)
          /\ Len(Join(prefix, key)) < JSON_STRING_SIZE
      BY <1>1, <2>1, <2>2, NamesHere DEF Valued, Fits
    <3>2. Extraction!Scalar
      BY <1>1, <2>1, <2>2, <3>1, SameEvents, SameSteps
         DEF Valued, Continues, settings, Extraction!Scalar
    <3> QED
      BY <3>2 DEF Extraction!ExtractionNext
  <2> QED
    BY <1>1, <2>1, <2>2, StopsRefuses
<1> QED
  BY <1>2, <1>3, <1>4, <1>5

LEMMA StepRefinesExtraction ==
    CppInv /\ [CppNext]_cppVars => [Extraction!ExtractionNext]_(Extraction!extractionVars)
<1> SUFFICES ASSUME CppInv, [CppNext]_cppVars,
                    ~UNCHANGED Extraction!extractionVars
             PROVE  Extraction!ExtractionNext
  OBVIOUS
<1>1. CASE Configure
  <2>1. Extraction!Configure
    BY <1>1 DEF CppInv, Answering, Configure, world, Extraction!Configure
  <2> QED
    BY <2>1 DEF Extraction!ExtractionNext
<1>2. ASSUME NEW fromBuffer \in BOOLEAN, NEW more \in BOOLEAN, Parse(fromBuffer, more)
      PROVE  Extraction!ExtractionNext
  <2>1. Extraction!NewDocument
    BY <1>2, SameEvents
       DEF CppInv, Settled, Parse, settings, Extraction!NewDocument, Extraction!Fresh
  <2> QED
    BY <2>1 DEF Extraction!ExtractionNext
<1>3. CASE Open \/ LibraryFails \/ LibraryEnds \/ StreamBreaks
  <2>1. outcome = "open"
    BY <1>3, LibraryCases
  <2>2. CASE \E why : Stops(why)
    BY <2>1, <2>2, StopsRefuses
  <2>3. CASE UNCHANGED world
    <3>1. arguments' = arguments /\ UNCHANGED <<settings, answer>>
      BY <1>3, LibraryCases
    <3> QED
      BY <2>3, <3>1 DEF world, settings, Extraction!extractionVars
  <2> QED
    BY <1>3, <2>2, <2>3, LibraryCases
<1>4. CASE Finish
  <2>1. /\ UNCHANGED <<settings, arguments>>
    BY <1>4 DEF Finish
  <2>2. CASE UNCHANGED world
    BY <2>1, <2>2 DEF world, settings, Extraction!extractionVars
  <2>3. CASE /\ outcome = "open" /\ reason' \in {"file", "grammar", "output"}
             /\ outcome' = "refused" /\ UNCHANGED <<doc, lines>>
    <3>1. reason' \in Reasons
      BY <2>3 DEF Reasons
    <3>2. Extraction!Refuse(reason')
      BY <2>1, <2>3, <3>1 DEF settings, Extraction!Refuse, Extraction!Justified
    <3> QED
      BY <3>1, <3>2 DEF Extraction!ExtractionNext
  <2>4. CASE /\ outcome = "open" /\ outcome' = "accepted"
             /\ UNCHANGED <<doc, lines, reason>>
    <3>1. Events!IsWhole(doc)
      BY <1>4, <2>4 DEF Finish, CppInv, Answering
    <3>2. Extraction!Accept
      BY <2>1, <2>4, <3>1, SameEvents DEF settings, Extraction!Accept
    <3> QED
      BY <3>2 DEF Extraction!ExtractionNext
  <2> QED
    BY <1>4, <2>2, <2>3, <2>4 DEF Finish
<1>5. CASE Caught \/ UNCHANGED cppVars
  BY <1>5 DEF Caught, cppVars, world, settings, Extraction!extractionVars
<1> QED
  BY <1>1, <1>2, <1>3, <1>4, <1>5, EventsRefine DEF CppNext

\* ImplementsExtraction: each of the five adapters, through every failure of its
\* library, its stream and its memory, treats a document as ArgumentExtraction
\* promises, for any keys, limits and trees.
THEOREM CppImplements == CppSpec => ImplementsExtraction
<1>1. CppInit => Extraction!ExtractionInit
  BY SameEvents DEF CppInit, Extraction!ExtractionInit
<1>2. CppInv /\ [CppNext]_cppVars => [Extraction!ExtractionNext]_(Extraction!extractionVars)
  BY StepRefinesExtraction
<1> QED
  BY <1>1, <1>2, CppInvariant, PTL
     DEF CppSpec, ImplementsExtraction, Extraction!ExtractionSpec

=============================================================================
