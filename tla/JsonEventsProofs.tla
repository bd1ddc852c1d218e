--------------------------- MODULE JsonEventsProofs ---------------------------
(***************************************************************************)
(* The dotted path of a sequence of labels, of any length: Display exists, *)
(* is unique, and one more label is joined to what the others display.     *)
(* The proofs are by least counterexample, as an induction over lengths.   *)
(***************************************************************************)
EXTENDS JsonEvents, SequenceTheorems, WellFoundedInduction, TLAPS

\* A set of lengths that is not empty has a least element.
LEMMA LeastLength ==
    ASSUME NEW T \in SUBSET Nat, T # {}
    PROVE  \E n \in T : \A m \in T : n <= m
<1> DEFINE Less == {pair \in Nat \X Nat : pair[1] < pair[2]}
<1>1. IsWellFoundedOn(Less, Nat)
  BY NatLessThanWellFounded DEF OpToRel
<1> HIDE DEF Less
<1>2. PICK n \in T : \A m \in T : <<m, n>> \notin Less
  BY <1>1, WFMin
<1>3. \A m \in T : ~(m < n)
  BY <1>2 DEF Less
<1> QED
  BY <1>3

\* Induction, with the lengths a fact holds for as a set.
LEMMA AllLengths ==
    ASSUME NEW n \in Nat, NEW T, 0 \in T,
           \A i \in 1..n : i - 1 \in T => i \in T
    PROVE  \A i \in 0..n : i \in T
<1> DEFINE Bad == {i \in 0..n : i \notin T}
<1> SUFFICES ASSUME Bad # {} PROVE FALSE
  OBVIOUS
<1>1. PICK i \in Bad : \A j \in Bad : i <= j
  <2>1. Bad \in SUBSET Nat
    OBVIOUS
  <2> HIDE DEF Bad
  <2> QED
    BY <2>1, LeastLength
<1>2. i \in 1..n /\ i \notin T
  OBVIOUS
<1>3. i - 1 \in 0..n /\ i - 1 \notin Bad
  BY <1>1, <1>2
<1> QED
  BY <1>2, <1>3

\* A recursion over lengths has a solution if its step is a function, and
\* what two solutions have in common at one length they have at the next.
IsStep(step, S, n) == step \in [S \X (1..n) -> S]
Solution(f, S, n, b, step) ==
    /\ f \in [0..n -> S]
    /\ f[0] = b /\ \A i \in 1..n : f[i] = step[<<f[i - 1], i>>]

LEMMA Recursion ==
    ASSUME NEW n \in Nat, NEW S, NEW b \in S, NEW step, IsStep(step, S, n)
    PROVE  \E f : Solution(f, S, n, b, step)
<1>0. step \in [S \X (1..n) -> S]
  BY DEF IsStep
<1> DEFINE Solves(f, m) == f[0] = b /\ \A i \in 1..m : f[i] = step[<<f[i - 1], i>>]
           T == {m \in Nat : m <= n => \E f \in [0..m -> S] : Solves(f, m)}
<1>1. 0 \in T
  <2>1. [i \in 0..0 |-> b] \in [0..0 -> S] /\ Solves([i \in 0..0 |-> b], 0)
    OBVIOUS
  <2> QED
    BY <2>1
<1>2. ASSUME NEW i \in 1..n, i - 1 \in T PROVE i \in T
  <2>1. PICK f \in [0..(i - 1) -> S] : Solves(f, i - 1)
    BY <1>2
  <2> DEFINE g == [j \in 0..i |-> IF j = i THEN step[<<f[i - 1], i>>] ELSE f[j]]
  <2>2. f[i - 1] \in S /\ step[<<f[i - 1], i>>] \in S
    BY <1>0, <2>1
  <2>3. g \in [0..i -> S]
    BY <2>1, <2>2
  <2>4. g[0] = b
    BY <2>1
  <2>5. ASSUME NEW j \in 1..i PROVE g[j] = step[<<g[j - 1], j>>]
    <3>1. j - 1 \in 0..i /\ j - 1 # i
      OBVIOUS
    <3>2. CASE j = i
      BY <3>1, <3>2
    <3>3. CASE j # i
      <4>1. j \in 1..i - 1 /\ j \in 0..i
        BY <3>3
      <4> QED
        BY <2>1, <3>1, <3>3, <4>1
    <3> QED
      BY <3>2, <3>3
  <2>6. Solves(g, i)
    BY <2>4, <2>5
  <2> HIDE DEF g, Solves
  <2> QED
    BY <2>3, <2>6
<1> HIDE DEF T
<1>3. n \in T
  <2>1. \A i \in 0..n : i \in T
    BY <1>1, <1>2, AllLengths
  <2> QED
    BY <2>1
<1> QED
  BY <1>3 DEF T, Solution

LEMMA SameSolution ==
    ASSUME NEW n \in Nat, NEW f, NEW g, f[0] = g[0],
           \A i \in 1..n : f[i - 1] = g[i - 1] => f[i] = g[i]
    PROVE  \A i \in 0..n : f[i] = g[i]
<1> DEFINE T == {i \in Nat : f[i] = g[i]}
<1>1. 0 \in T /\ \A i \in 1..n : i - 1 \in T => i \in T
  OBVIOUS
<1> HIDE DEF T
<1>2. \A i \in 0..n : i \in T
  BY <1>1, AllLengths
<1> QED
  BY <1>2 DEF T

\* The paths of all beginnings of the labels.
IsUpto(f, labels) ==
    f = [i \in 0..Len(labels) |-> IF i = 0 THEN <<>> ELSE JoinLabel(f[i - 1], labels[i])]

LEMMA UptoUnique ==
    ASSUME NEW labels, Len(labels) \in Nat, NEW f, NEW g,
           IsUpto(f, labels), IsUpto(g, labels)
    PROVE  f = g
<1> SUFFICES ASSUME f # g PROVE FALSE
  OBVIOUS
<1> DEFINE Differ == {i \in 0..Len(labels) : f[i] # g[i]}
<1>1. /\ \A i \in 0..Len(labels) :
             f[i] = IF i = 0 THEN <<>> ELSE JoinLabel(f[i - 1], labels[i])
      /\ \A i \in 0..Len(labels) :
             g[i] = IF i = 0 THEN <<>> ELSE JoinLabel(g[i - 1], labels[i])
      /\ f = [i \in 0..Len(labels) |-> f[i]] /\ g = [i \in 0..Len(labels) |-> g[i]]
  BY DEF IsUpto
<1>2. Differ # {}
  BY <1>1
<1>3. PICK n \in Differ : \A m \in Differ : n <= m
  <2>1. Differ \in SUBSET Nat
    OBVIOUS
  <2> HIDE DEF Differ
  <2> QED
    BY <1>2, <2>1, LeastLength
<1>4. n \in 1..Len(labels) /\ n - 1 \in 0..Len(labels) /\ f[n - 1] = g[n - 1]
  <2>1. n \in 0..Len(labels) /\ f[n] # g[n] /\ n # 0
    BY <1>1, <1>3
  <2>2. n - 1 \in 0..Len(labels) /\ n - 1 \notin Differ
    BY <1>3, <2>1
  <2> QED
    BY <2>1, <2>2
<1> QED
  BY <1>1, <1>3, <1>4

LEMMA UptoAppend ==
    ASSUME NEW S, NEW labels \in Seq(S), NEW l \in S, NEW f, IsUpto(f, labels)
    PROVE  IsUpto([i \in 0..Len(labels) + 1 |->
                      IF i = Len(labels) + 1 THEN JoinLabel(f[Len(labels)], l) ELSE f[i]],
                  Append(labels, l))
<1> DEFINE n == Len(labels)
           longer == Append(labels, l)
           h == [i \in 0..n + 1 |-> IF i = n + 1 THEN JoinLabel(f[n], l) ELSE f[i]]
<1>1. /\ n \in Nat /\ Len(longer) = n + 1 /\ longer[n + 1] = l
      /\ \A i \in 1..n : longer[i] = labels[i]
  OBVIOUS
<1>2. \A i \in 0..n : f[i] = IF i = 0 THEN <<>> ELSE JoinLabel(f[i - 1], labels[i])
  BY <1>1 DEF IsUpto
<1>3. ASSUME NEW i \in 0..n + 1
      PROVE  h[i] = IF i = 0 THEN <<>> ELSE JoinLabel(h[i - 1], longer[i])
  <2> HIDE DEF longer, n
  <2>1. CASE i = n + 1
    BY <1>1, <2>1
  <2>2. CASE i = 0
    BY <1>1, <1>2, <2>2
  <2>3. CASE i \in 1..n
    BY <1>1, <1>2, <2>3
  <2> QED
    BY <1>1, <2>1, <2>2, <2>3
<1> QED
  BY <1>1, <1>3 DEF IsUpto

LEMMA UptoExists ==
    ASSUME NEW S, NEW labels \in Seq(S)
    PROVE  \E f : IsUpto(f, labels)
<1> DEFINE Bad == {n \in Nat : \E s \in Seq(S) : Len(s) = n /\ ~\E f : IsUpto(f, s)}
<1>1. IsUpto([i \in 0..0 |-> <<>>], <<>>)
  BY DEF IsUpto
<1>2. ASSUME Bad # {} PROVE FALSE
  <2>1. PICK n \in Bad : \A m \in Bad : n <= m
    <3>1. Bad \in SUBSET Nat
      OBVIOUS
    <3> HIDE DEF Bad
    <3> QED
      BY <1>2, <3>1, LeastLength
  <2>2. PICK s \in Seq(S) : Len(s) = n /\ ~\E f : IsUpto(f, s)
    BY <2>1
  <2>3. s # <<>>
    BY <1>1, <2>2
  <2> DEFINE front == SubSeq(s, 1, n - 1)
             last == s[n]
  <2>4. /\ n \in Nat \ {0} /\ front \in Seq(S) /\ Len(front) = n - 1 /\ last \in S
        /\ s = Append(front, last)
    <3>1. n \in Nat \ {0} /\ last \in S
      BY <2>2, <2>3
    <3>2. front \in Seq(S) /\ Len(front) = n - 1 /\ \A i \in 1..n - 1 : front[i] = s[i]
      BY <2>2, <3>1
    <3> HIDE DEF front, last
    <3>3. /\ Append(front, last) \in Seq(S) /\ Len(Append(front, last)) = n
          /\ Append(front, last)[n] = last
          /\ \A i \in 1..n - 1 : Append(front, last)[i] = front[i]
      BY <3>1, <3>2
    <3>4. \A i \in 1..n : Append(front, last)[i] = s[i]
      BY <3>1, <3>2, <3>3 DEF last
    <3>5. s = Append(front, last)
      BY <2>2, <3>3, <3>4, SeqEqual
    <3> QED
      BY <3>1, <3>2, <3>5
  <2> HIDE DEF front, last
  <2>5. n - 1 \notin Bad /\ n - 1 \in Nat
    BY <2>1, <2>4
  <2>6. PICK f : IsUpto(f, front)
    BY <2>4, <2>5
  <2>7. \E g : IsUpto(g, s)
    BY <2>4, <2>6, UptoAppend
  <2> QED
    BY <2>2, <2>7
<1>3. Len(labels) \in Nat /\ Len(labels) \notin Bad
  BY <1>2
<1> QED
  BY <1>3

\* Display is what the one such function gives for all labels.
LEMMA DisplayIs ==
    ASSUME NEW labels, Len(labels) \in Nat, NEW f, IsUpto(f, labels)
    PROVE  Display(labels) = f[Len(labels)]
<1>1. Display(labels) = (CHOOSE g : IsUpto(g, labels))[Len(labels)]
  BY DEF Display, IsUpto
<1>2. (CHOOSE g : IsUpto(g, labels)) = f
  BY UptoUnique, Zenon
<1> QED
  BY <1>1, <1>2

\* No label displays nothing, and one more label is joined to the path.
THEOREM DisplayGrows ==
    /\ Display(<<>>) = <<>>
    /\ \A S : \A labels \in Seq(S), l \in S :
           Display(Append(labels, l)) = JoinLabel(Display(labels), l)
<1>1. Display(<<>>) = <<>>
  <2>1. IsUpto([i \in 0..0 |-> <<>>], <<>>) /\ Len(<<>>) = 0
    BY DEF IsUpto
  <2> QED
    BY <2>1, DisplayIs
<1>2. ASSUME NEW S, NEW labels \in Seq(S), NEW l \in S
      PROVE  Display(Append(labels, l)) = JoinLabel(Display(labels), l)
  <2>1. PICK f : IsUpto(f, labels)
    BY UptoExists
  <2> DEFINE n == Len(labels)
             h == [i \in 0..n + 1 |-> IF i = n + 1 THEN JoinLabel(f[n], l) ELSE f[i]]
  <2>2. n \in Nat /\ Len(Append(labels, l)) = n + 1 /\ h[n + 1] = JoinLabel(f[n], l)
    OBVIOUS
  <2>3. IsUpto(h, Append(labels, l))
    BY <2>1, UptoAppend
  <2>4. Display(labels) = f[n]
    BY <2>1, <2>2, DisplayIs
  <2> HIDE DEF h, n
  <2>5. Display(Append(labels, l)) = h[Len(Append(labels, l))]
    <3>1. Len(Append(labels, l)) \in Nat
      BY <2>2
    <3> QED
      BY <2>3, <3>1, DisplayIs, Zenon
  <2> QED
    BY <2>2, <2>4, <2>5
<1> QED
  BY <1>1, <1>2

(***************************************************************************)
(* Positions.                                                              *)
(***************************************************************************)

\* A position has a label for every container it may open.
LEMMA LabelType ==
    ASSUME NEW d \in Positions, NEW array \in BOOLEAN
    PROVE  LabelOf(d, array) \in Seq(Byte)
<1>1. CASE d.open = <<>>
  BY <1>1, EventsAssumption DEF LabelOf, InArray, InObject
<1>2. CASE d.open # <<>>
  <2>1. d.open[Len(d.open)] \in Containers  BY <1>2 DEF Positions
  <2> QED  BY <1>2, <2>1 DEF LabelOf, InArray, InObject, Positions, Containers
<1> QED  BY <1>1, <1>2

\* The grammar leads from positions to positions.
LEMMA AfterValueType ==
    ASSUME NEW d \in Positions
    PROVE  /\ AfterValue(d) \in Positions
           /\ AfterValue(d).open = d.open
<1> DEFINE next == IF d.open = <<>> THEN "end"
                   ELSE IF InArray(d) THEN "value" ELSE "key"
           e == [d EXCEPT !.member = <<>>]
<1>1. next \in {"value", "key", "end"}  OBVIOUS
<1>2. <<>> \in Seq(Byte)  OBVIOUS
<1>3. e \in Positions /\ e.open = d.open  BY <1>2 DEF Positions
<1>4. AfterValue(d) = [e EXCEPT !.next = next]  BY DEF AfterValue
<1> HIDE DEF next, e
<1> QED  BY <1>1, <1>3, <1>4 DEF Positions

LEMMA AfterKeyType ==
    ASSUME NEW d \in Positions, NEW k \in Seq(Byte)
    PROVE  /\ AfterKey(d, k) \in Positions
           /\ AfterKey(d, k).open = d.open
<1> DEFINE e == [d EXCEPT !.member = k]
<1>1. e \in Positions /\ e.open = d.open  BY DEF Positions
<1>2. AfterKey(d, k) = [e EXCEPT !.next = "value"]  BY DEF AfterKey
<1> HIDE DEF e
<1> QED  BY <1>1, <1>2 DEF Positions

LEMMA AfterOpenType ==
    ASSUME NEW d \in Positions, NEW array \in BOOLEAN
    PROVE  /\ AfterOpen(d, array) \in Positions
           /\ Len(AfterOpen(d, array).open) = Len(d.open) + 1
           /\ \A i \in 1..Len(d.open) : AfterOpen(d, array).open[i] = d.open[i]
           /\ AfterOpen(d, array).open[Len(d.open) + 1].array = array
<1> DEFINE c == [label |-> LabelOf(d, array), array |-> array]
<1>1. c \in Containers  BY LabelType DEF Containers
<1>2. d.open \in Seq(Containers)  BY DEF Positions
<1> HIDE DEF c
<1>3. /\ Append(d.open, c) \in Seq(Containers)
      /\ Len(Append(d.open, c)) = Len(d.open) + 1
      /\ \A i \in 1..Len(d.open) : Append(d.open, c)[i] = d.open[i]
      /\ Append(d.open, c)[Len(d.open) + 1] = c
  BY <1>1, <1>2
<1>4. /\ AfterOpen(d, array).open = Append(d.open, c)
      /\ AfterOpen(d, array) =
           [open |-> Append(d.open, c), member |-> <<>>,
            next |-> IF array THEN "value" ELSE "key"]
  BY DEF AfterOpen, c
<1>5. <<>> \in Seq(Byte)  OBVIOUS
<1>6. AfterOpen(d, array) \in Positions
  BY <1>3, <1>4, <1>5 DEF Positions
<1>7. c.array = array  BY DEF c
<1> QED  BY <1>3, <1>4, <1>6, <1>7

LEMMA AfterCloseType ==
    ASSUME NEW d \in Positions, d.open # <<>>
    PROVE  /\ AfterClose(d) \in Positions
           /\ Len(AfterClose(d).open) = Len(d.open) - 1
           /\ \A i \in 1..(Len(d.open) - 1) : AfterClose(d).open[i] = d.open[i]
<1> DEFINE n == Len(d.open)
           s == SubSeq(d.open, 1, n - 1)
           e == [d EXCEPT !.open = s]
<1>1. d.open \in Seq(Containers) /\ n \in Nat /\ n >= 1  BY DEF Positions
<1>2. /\ s \in Seq(Containers) /\ Len(s) = n - 1
      /\ \A i \in 1..(n - 1) : s[i] = d.open[i]
  BY <1>1
<1> HIDE DEF s
<1>3. e \in Positions /\ e.open = s  BY <1>2 DEF Positions
<1>4. AfterClose(d) = AfterValue(e)  BY DEF AfterClose, s
<1> HIDE DEF e
<1> QED  BY <1>2, <1>3, <1>4, AfterValueType

(***************************************************************************)
(* A path kept in place.  What an adapter has of a position: the prefix,   *)
(* the key, and for each open container the length the prefix had and the  *)
(* key that was current when it was entered.                               *)
(***************************************************************************)

\* The path of the outermost n containers.
Shown(open, n) == Display([i \in 1..n |-> open[i].label])

\* The prefix is the path, and it was the path of each container's parent.
Cuts(open, p, lengths) ==
    /\ p = Shown(open, Len(open))
    /\ \A i \in 1..Len(open) : /\ lengths[i] \in 0..Len(p)
                               /\ SubSeq(p, 1, lengths[i]) = Shown(open, i - 1)

Ordered(open, lengths) ==
    \A i, j \in 1..Len(open) : i <= j => lengths[i] <= lengths[j]

\* In an array the key is the label of the array, now and when it is restored.
Labels(open, k, keys) ==
    /\ \A i \in 2..Len(open) : open[i - 1].array => keys[i] = open[i - 1].label
    /\ open # <<>> /\ open[Len(open)].array => k = open[Len(open)].label

Stands(open, p, k, lengths, keys) ==
    Cuts(open, p, lengths) /\ Ordered(open, lengths) /\ Labels(open, k, keys)

LEMMA ShownNone == ASSUME NEW open PROVE Shown(open, 0) = <<>>
<1>1. [i \in 1..0 |-> open[i].label] = <<>>
  OBVIOUS
<1> QED
  BY <1>1, DisplayGrows DEF Shown

LEMMA ShownGrows ==
    ASSUME NEW open \in Seq(Containers), NEW n \in 0..Len(open) - 1
    PROVE  /\ Shown(open, n + 1) = JoinLabel(Shown(open, n), open[n + 1].label)
           /\ open[n + 1].label \in Seq(Byte)
<1> DEFINE s == [i \in 1..n |-> open[i].label]
           t == [i \in 1..n + 1 |-> open[i].label]
           l == open[n + 1].label
<1>1. n \in Nat /\ \A i \in 1..n + 1 : open[i].label \in Seq(Byte)
  <2>1. \A i \in 1..n + 1 : open[i] \in Containers
    OBVIOUS
  <2> QED
    BY <2>1 DEF Containers
<1>2. s \in Seq(Seq(Byte)) /\ Len(s) = n /\ l \in Seq(Byte)
  BY <1>1
<1>3. t = Append(s, l)
  <2>1. t \in Seq(Seq(Byte)) /\ Len(t) = n + 1
    BY <1>1
  <2>2. /\ Append(s, l) \in Seq(Seq(Byte)) /\ Len(Append(s, l)) = n + 1
        /\ Append(s, l)[n + 1] = l
        /\ \A i \in 1..n : Append(s, l)[i] = s[i]
    <3> HIDE DEF s, l
    <3> QED
      BY <1>1, <1>2
  <2>3. \A i \in 1..n + 1 : t[i] = Append(s, l)[i]
    BY <1>1, <2>2
  <2> HIDE DEF s, t, l
  <2> QED
    BY <2>1, <2>2, <2>3, SeqEqual
<1>4. Display(Append(s, l)) = JoinLabel(Display(s), l)
  <2> HIDE DEF s, l
  <2> QED
    BY <1>2, DisplayGrows
<1> QED
  BY <1>2, <1>3, <1>4 DEF Shown

\* The path depends on the outermost labels only.
LEMMA ShownSame ==
    ASSUME NEW open, NEW other, NEW n \in Nat, \A i \in 1..n : open[i] = other[i]
    PROVE  Shown(open, n) = Shown(other, n)
<1>1. [i \in 1..n |-> open[i].label] = [i \in 1..n |-> other[i].label]
  OBVIOUS
<1> QED
  BY <1>1 DEF Shown

\* A name starts with the prefix it extends.
LEMMA JoinBeginning ==
    ASSUME NEW p \in Seq(Byte), NEW k \in Seq(Byte)
    PROVE  /\ JoinLabel(p, k) \in Seq(Byte)
           /\ Len(p) <= Len(JoinLabel(p, k))
           /\ \A n \in 0..Len(p) : SubSeq(JoinLabel(p, k), 1, n) = SubSeq(p, 1, n)
<1>1. CASE p = <<>>
  <2>1. \A n \in 0..Len(p) : n = 0
    BY <1>1
  <2>2. SubSeq(k, 1, 0) = <<>> /\ SubSeq(p, 1, 0) = <<>>
    OBVIOUS
  <2> QED
    BY <1>1, <2>1, <2>2 DEF JoinLabel
<1>2. CASE p # <<>>
  <2>1. <<Dot>> \in Seq(Byte) /\ JoinLabel(p, k) = p \o (<<Dot>> \o k)
    BY <1>2, EventsAssumption DEF JoinLabel
  <2> DEFINE r == <<Dot>> \o k
             w == p \o r
  <2>2. r \in Seq(Byte)
    BY <2>1
  <2> HIDE DEF r
  <2>3. w \in Seq(Byte) /\ Len(w) = Len(p) + Len(r) /\ \A i \in 1..Len(p) : w[i] = p[i]
    BY <2>2
  <2> HIDE DEF w
  <2>4. ASSUME NEW n \in 0..Len(p)
        PROVE  SubSeq(w, 1, n) = SubSeq(p, 1, n)
    <3>1. /\ SubSeq(w, 1, n) \in Seq(Byte) /\ Len(SubSeq(w, 1, n)) = n
          /\ \A i \in 1..n : SubSeq(w, 1, n)[i] = w[i]
      BY <2>2, <2>3
    <3>2. /\ SubSeq(p, 1, n) \in Seq(Byte) /\ Len(SubSeq(p, 1, n)) = n
          /\ \A i \in 1..n : SubSeq(p, 1, n)[i] = p[i]
      OBVIOUS
    <3>3. \A i \in 1..n : SubSeq(w, 1, n)[i] = SubSeq(p, 1, n)[i]
      BY <2>3, <3>1, <3>2
    <3> QED
      BY <3>1, <3>2, <3>3, SeqEqual
  <2>5. JoinLabel(p, k) = w
    BY <2>1 DEF w, r
  <2> QED
    BY <2>2, <2>3, <2>4, <2>5
<1> QED
  BY <1>1, <1>2

LEMMA CutTwice ==
    ASSUME NEW p \in Seq(Byte), NEW m \in 0..Len(p), NEW n \in 0..m
    PROVE  /\ SubSeq(p, 1, m) \in Seq(Byte) /\ Len(SubSeq(p, 1, m)) = m
           /\ SubSeq(SubSeq(p, 1, m), 1, n) = SubSeq(p, 1, n)
<1>1. /\ SubSeq(p, 1, m) \in Seq(Byte) /\ Len(SubSeq(p, 1, m)) = m
      /\ \A i \in 1..m : SubSeq(p, 1, m)[i] = p[i]
  OBVIOUS
<1> DEFINE q == SubSeq(p, 1, m)
<1> HIDE DEF q
<1>2. /\ SubSeq(q, 1, n) \in Seq(Byte) /\ Len(SubSeq(q, 1, n)) = n
      /\ \A i \in 1..n : SubSeq(q, 1, n)[i] = q[i]
  BY <1>1 DEF q
<1>3. /\ SubSeq(p, 1, n) \in Seq(Byte) /\ Len(SubSeq(p, 1, n)) = n
      /\ \A i \in 1..n : SubSeq(p, 1, n)[i] = p[i]
  OBVIOUS
<1>4. \A i \in 1..n : SubSeq(q, 1, n)[i] = SubSeq(p, 1, n)[i]
  BY <1>1, <1>2, <1>3 DEF q
<1>5. SubSeq(q, 1, n) = SubSeq(p, 1, n)
  BY <1>2, <1>3, <1>4, SeqEqual
<1> QED
  BY <1>1, <1>5 DEF q

\* At the start nothing is open and nothing is kept.
LEMMA StandsAtStart ==
    ASSUME NEW lengths, NEW keys
    PROVE  Stands(Start.open, <<>>, <<>>, lengths, keys)
<1>1. Start.open = <<>>
  BY DEF Start
<1>2. Cuts(<<>>, <<>>, lengths)
  BY ShownNone DEF Cuts
<1>3. Ordered(<<>>, lengths) /\ Labels(<<>>, <<>>, keys)
  BY DEF Ordered, Labels
<1> QED
  BY <1>1, <1>2, <1>3 DEF Stands

\* The prefix of a path that stands is that of its position, and in an array
\* the key is the label of the next element.
LEMMA PrefixThere ==
    ASSUME NEW d, NEW p, NEW k, NEW lengths, NEW keys,
           Stands(d.open, p, k, lengths, keys)
    PROVE  p = Display(OpenLabels(d))
BY DEF Stands, Cuts, Shown, OpenLabels

LEMMA KeyThere ==
    ASSUME NEW d, NEW p, NEW k, NEW lengths, NEW keys,
           Stands(d.open, p, k, lengths, keys), InArray(d)
    PROVE  k = LabelOf(d, FALSE)
<1>1. LabelOf(d, FALSE) = d.open[Len(d.open)].label
  BY DEF LabelOf, InArray, InObject
<1>2. k = d.open[Len(d.open)].label
  BY DEF Stands, Labels, InArray
<1> QED
  BY <1>1, <1>2

\* Another key leaves what is open alone.
LEMMA KeyStands ==
    ASSUME NEW d, NEW p, NEW k, NEW lengths, NEW keys, NEW new,
           Stands(d.open, p, k, lengths, keys), ~InArray(d)
    PROVE  Stands(d.open, p, new, lengths, keys)
BY DEF Stands, Labels, InArray

\* What is due behind a value, behind a container and inside a new one: a value
\* in an array, a key in an object.
LEMMA ValueDue ==
    ASSUME NEW d \in Positions
    PROVE  /\ WantsValue(AfterValue(d)) => InArray(AfterValue(d))
           /\ WantsKey(AfterValue(d)) => InObject(AfterValue(d))
<1>1. AfterValue(d).open = d.open
      /\ AfterValue(d).next = IF d.open = <<>> THEN "end"
                              ELSE IF InArray(d) THEN "value" ELSE "key"
  BY AfterValueType DEF AfterValue, Positions
<1> DEFINE e == AfterValue(d)
<1> HIDE DEF e
<1>2. /\ WantsValue(e) => InArray(e)
      /\ WantsKey(e) => InObject(e)
  BY <1>1 DEF WantsValue, WantsKey, InArray, InObject, e
<1> QED
  BY <1>2 DEF e

LEMMA CloseDue ==
    ASSUME NEW d \in Positions, d.open # <<>>
    PROVE  /\ WantsValue(AfterClose(d)) => InArray(AfterClose(d))
           /\ WantsKey(AfterClose(d)) => InObject(AfterClose(d))
<1> DEFINE s == SubSeq(d.open, 1, Len(d.open) - 1)
           f == [d EXCEPT !.open = s]
<1>1. s \in Seq(Containers)
  BY DEF Positions
<1> HIDE DEF s
<1>2. f \in Positions
  BY <1>1 DEF Positions
<1>3. AfterClose(d) = AfterValue(f)
  BY DEF AfterClose, s
<1> HIDE DEF f
<1> QED
  BY <1>2, <1>3, ValueDue

LEMMA OpenDue ==
    ASSUME NEW d \in Positions, NEW array \in BOOLEAN
    PROVE  /\ WantsValue(AfterOpen(d, array)) => InArray(AfterOpen(d, array))
           /\ WantsKey(AfterOpen(d, array)) => InObject(AfterOpen(d, array))
<1> DEFINE e == AfterOpen(d, array)
<1>1. e.next = IF array THEN "value" ELSE "key"
  BY DEF AfterOpen
<1>2. /\ e \in Positions /\ Len(e.open) = Len(d.open) + 1
      /\ e.open[Len(d.open) + 1].array = array
  BY AfterOpenType
<1> HIDE DEF e
<1>3. /\ WantsValue(e) => InArray(e)
      /\ WantsKey(e) => InObject(e)
  <2>1. e.open # <<>>
    BY <1>2 DEF Positions
  <2> QED
    BY <1>1, <1>2, <2>1 DEF WantsValue, WantsKey, InArray, InObject
<1> QED
  BY <1>3 DEF e

\* A container that is entered: its path is the prefix joined with the key,
\* but an array at the root has its own name, which becomes the key as well.
LEMMA PushStands ==
    ASSUME NEW d \in Positions, NEW p \in Seq(Byte), NEW k \in Seq(Byte),
           NEW lengths, NEW keys, NEW lengthsAfter, NEW keysAfter,
           NEW array \in BOOLEAN, NEW after, NEW keyAfter,
           Stands(d.open, p, k, lengths, keys), k = LabelOf(d, FALSE),
           array /\ d.open = <<>> => after = ArrayName /\ keyAfter = ArrayName,
           ~(array /\ d.open = <<>>) => after = JoinLabel(p, k) /\ keyAfter = k,
           \A i \in 1..Len(d.open) : lengthsAfter[i] = lengths[i],
           \A i \in 1..Len(d.open) : keysAfter[i] = keys[i],
           lengthsAfter[Len(d.open) + 1] = Len(p),
           keysAfter[Len(d.open) + 1] = k
    PROVE  Stands(AfterOpen(d, array).open, after, keyAfter, lengthsAfter, keysAfter)
<1> DEFINE open == d.open
           more == AfterOpen(d, array).open
           n == Len(open)
           label == IF array /\ d.open = <<>> THEN ArrayName ELSE k
           q == JoinLabel(p, label)
<1>1. n \in Nat /\ (open = <<>> <=> n = 0) /\ open \in Seq(Containers)
  BY DEF Positions
<1>2. /\ more \in Seq(Containers) /\ Len(more) = n + 1
      /\ \A i \in 1..n : more[i] = open[i]
  BY AfterOpenType DEF Positions
<1>3. more[n + 1].label = label /\ more[n + 1].array = array
  <2> DEFINE c == [label |-> LabelOf(d, array), array |-> array]
  <2>1. c \in Containers
    BY LabelType DEF Containers
  <2>2. more = Append(open, c)
    BY DEF AfterOpen
  <2>3. c.label = LabelOf(d, array) /\ c.array = array
    OBVIOUS
  <2>4. LabelOf(d, array) = label
    BY DEF LabelOf, InArray, InObject
  <2> HIDE DEF c, more, open, label
  <2>5. Append(open, c)[n + 1] = c
    BY <1>1, <2>1
  <2> QED
    BY <2>2, <2>3, <2>4, <2>5
<1>4. label \in Seq(Byte)
  BY EventsAssumption
<1>5. array /\ open = <<>> => p = <<>> /\ q = ArrayName
  BY <1>1, ShownNone DEF JoinLabel, Stands, Cuts
<1>6. ~(array /\ open = <<>>) => label = k
  OBVIOUS
<1>7. k = LabelOf(d, FALSE) /\ Stands(open, p, k, lengths, keys)
  OBVIOUS
<1>8. /\ \A i \in 1..n : lengthsAfter[i] = lengths[i]
      /\ lengthsAfter[n + 1] = Len(p)
  OBVIOUS
<1>9. (\A i \in 1..n : keysAfter[i] = keys[i]) /\ keysAfter[n + 1] = k
  OBVIOUS
<1> HIDE DEF open, more, label
<1>10. \A i \in 0..n : Shown(more, i) = Shown(open, i)
  BY <1>1, <1>2, ShownSame
<1>11. q = Shown(more, n + 1)
  <2>1. n \in 0..Len(more) - 1
    BY <1>1, <1>2
  <2>2. Shown(more, n + 1) = JoinLabel(Shown(more, n), more[n + 1].label)
    BY <1>2, <2>1, ShownGrows
  <2>3. p = Shown(open, n) /\ n \in 0..n
    BY <1>1, <1>7 DEF Stands, Cuts
  <2> QED
    BY <1>3, <1>10, <2>2, <2>3
<1>12. /\ q \in Seq(Byte) /\ Len(p) <= Len(q)
       /\ \A i \in 0..Len(p) : SubSeq(q, 1, i) = SubSeq(p, 1, i)
  BY <1>4, JoinBeginning
<1>13. Len(q) \in Nat /\ Len(p) \in Nat /\ SubSeq(p, 1, Len(p)) = p
  BY <1>12
<1> HIDE DEF n, q
<1>14. Cuts(more, q, lengthsAfter)
  <2>1. ASSUME NEW i \in 1..n
        PROVE  /\ lengthsAfter[i] \in 0..Len(q)
               /\ SubSeq(q, 1, lengthsAfter[i]) = Shown(more, i - 1)
    <3>1. /\ lengths[i] \in 0..Len(p)
          /\ SubSeq(p, 1, lengths[i]) = Shown(open, i - 1)
      BY <1>7 DEF Stands, Cuts, n
    <3>2. i - 1 \in 0..n
      BY <1>1
    <3> QED
      BY <1>8, <1>10, <1>12, <1>13, <3>1, <3>2
  <2>2. /\ lengthsAfter[n + 1] \in 0..Len(q)
        /\ SubSeq(q, 1, lengthsAfter[n + 1]) = Shown(more, n)
    <3>1. p = Shown(open, n)
      BY <1>7 DEF Stands, Cuts, n
    <3>2. n \in 0..n /\ Len(p) \in 0..Len(q) /\ Len(p) \in 0..Len(p)
      BY <1>1, <1>12, <1>13
    <3>3. Shown(more, n) = p
      BY <1>10, <3>1, <3>2
    <3>4. SubSeq(q, 1, Len(p)) = p
      BY <1>12, <1>13, <3>2
    <3> QED
      BY <1>8, <3>2, <3>3, <3>4
  <2>3. ASSUME NEW i \in 1..n + 1
        PROVE  /\ lengthsAfter[i] \in 0..Len(q)
               /\ SubSeq(q, 1, lengthsAfter[i]) = Shown(more, i - 1)
    <3>1. CASE i = n + 1
      <4>1. i - 1 = n
        BY <1>1, <3>1
      <4> QED
        BY <2>2, <3>1, <4>1
    <3>2. CASE i # n + 1
      <4>1. i \in 1..n
        BY <1>1, <3>2
      <4> QED
        BY <2>1, <4>1
    <3> QED
      BY <3>1, <3>2
  <2> QED
    BY <1>2, <1>11, <2>3 DEF Cuts
<1>15. Ordered(more, lengthsAfter)
  <2>1. \A i, j \in 1..n : i <= j => lengths[i] <= lengths[j]
    BY <1>7 DEF Stands, Ordered, n
  <2>2. \A i \in 1..n : lengths[i] \in 0..Len(p)
    BY <1>7 DEF Stands, Cuts, n
  <2>3. ASSUME NEW i \in 1..n + 1, NEW j \in 1..n + 1, i <= j
        PROVE  lengthsAfter[i] <= lengthsAfter[j]
    <3>1. CASE j = n + 1 /\ i = n + 1
      BY <1>8, <1>13, <3>1
    <3>2. CASE j = n + 1 /\ i # n + 1
      BY <1>1, <1>8, <1>13, <2>2, <3>2
    <3>3. CASE j # n + 1
      BY <1>1, <1>8, <2>1, <2>3, <3>3
    <3> QED
      BY <3>1, <3>2, <3>3
  <2> QED
    BY <1>2, <2>3 DEF Ordered
<1>16. Labels(more, label, keysAfter)
  <2>1. more # <<>> /\ more[Len(more)].label = label
    BY <1>1, <1>2, <1>3
  <2>2. ASSUME NEW i \in 2..n + 1, more[i - 1].array
        PROVE  keysAfter[i] = more[i - 1].label
    <3>1. i - 1 \in 1..n /\ more[i - 1] = open[i - 1]
      BY <1>1, <1>2
    <3>2. CASE i = n + 1
      <4>1. open # <<>> /\ i - 1 = Len(open)
        BY <1>1, <3>1, <3>2 DEF n
      <4>2. open[Len(open)].array /\ keysAfter[i] = k
        BY <1>9, <2>2, <3>1, <3>2, <4>1
      <4> QED
        BY <1>7, <3>1, <4>1, <4>2 DEF Stands, Labels
    <3>3. CASE i # n + 1
      <4>1. i \in 2..Len(open) /\ i \in 1..n
        BY <1>1, <3>3 DEF n
      <4>2. open[i - 1].array /\ keysAfter[i] = keys[i]
        BY <1>9, <2>2, <3>1, <4>1
      <4> QED
        BY <1>7, <3>1, <4>1, <4>2 DEF Stands, Labels
    <3> QED
      BY <3>2, <3>3
  <2> QED
    BY <1>2, <2>1, <2>2 DEF Labels
<1>17. Stands(more, q, label, lengthsAfter, keysAfter)
  BY <1>14, <1>15, <1>16 DEF Stands
<1>18. after = q /\ keyAfter = label
  BY <1>5, <1>6 DEF q, label, open
<1> QED
  BY <1>17, <1>18 DEF more

\* A container that is left: the prefix is cut and the key is restored.
LEMMA PopStands ==
    ASSUME NEW d \in Positions, NEW p \in Seq(Byte), NEW k,
           NEW lengths, NEW keys, NEW lengthsAfter, NEW keysAfter,
           Stands(d.open, p, k, lengths, keys), d.open # <<>>,
           \A i \in 1..Len(d.open) - 1 : lengthsAfter[i] = lengths[i],
           \A i \in 1..Len(d.open) - 1 : keysAfter[i] = keys[i]
    PROVE  Stands(AfterClose(d).open, SubSeq(p, 1, lengths[Len(d.open)]),
                  keys[Len(d.open)], lengthsAfter, keysAfter)
<1> DEFINE open == d.open
           less == AfterClose(d).open
           n == Len(open)
           m == n - 1
           q == SubSeq(p, 1, lengths[n])
<1>1. n \in Nat /\ n >= 1 /\ m \in Nat /\ n \in 1..n /\ n = m + 1
  BY DEF Positions
<1>2. /\ less \in Seq(Containers) /\ Len(less) = m
      /\ \A i \in 1..m : less[i] = open[i]
  BY AfterCloseType DEF Positions
<1>3. /\ \A i \in 1..m : lengthsAfter[i] = lengths[i]
      /\ \A i \in 1..m : keysAfter[i] = keys[i]
      /\ Stands(open, p, k, lengths, keys)
  OBVIOUS
<1> HIDE DEF less, open, m
<1>4. \A i \in 1..n : /\ lengths[i] \in 0..Len(p)
                      /\ SubSeq(p, 1, lengths[i]) = Shown(open, i - 1)
  BY <1>3 DEF Stands, Cuts
<1>5. \A i, j \in 1..n : i <= j => lengths[i] <= lengths[j]
  BY <1>3 DEF Stands, Ordered
<1>6. \A i \in 2..n : open[i - 1].array => keys[i] = open[i - 1].label
  BY <1>3 DEF Stands, Labels
<1>7. \A i \in 0..m : Shown(less, i) = Shown(open, i)
  BY <1>1, <1>2, ShownSame
<1>8. /\ q \in Seq(Byte) /\ Len(q) = lengths[n] /\ lengths[n] \in 0..Len(p)
      /\ \A i \in 0..lengths[n] : SubSeq(q, 1, i) = SubSeq(p, 1, i)
  <2>1. lengths[n] \in 0..Len(p)
    BY <1>1, <1>4
  <2> QED
    BY <2>1, CutTwice
<1>9. q = Shown(less, m)
  <2>1. n - 1 = m /\ m \in 0..m
    BY <1>1
  <2> QED
    BY <1>1, <1>4, <1>7, <2>1
<1> HIDE DEF q, n
<1>10. Cuts(less, q, lengthsAfter)
  <2>1. ASSUME NEW i \in 1..m
        PROVE  /\ lengthsAfter[i] \in 0..Len(q)
               /\ SubSeq(q, 1, lengthsAfter[i]) = Shown(less, i - 1)
    <3>1. i \in 1..n /\ i <= n /\ i - 1 \in 0..m
      BY <1>1
    <3>2. lengths[i] <= lengths[n] /\ lengths[i] \in 0..Len(p)
      BY <1>1, <1>4, <1>5, <3>1
    <3>3. lengths[i] \in 0..lengths[n]
      BY <1>8, <3>2
    <3>4. SubSeq(q, 1, lengths[i]) = Shown(less, i - 1)
      BY <1>4, <1>7, <1>8, <3>1, <3>3
    <3> QED
      BY <1>3, <1>8, <3>3, <3>4
  <2> QED
    BY <1>2, <1>9, <2>1 DEF Cuts
<1>11. Ordered(less, lengthsAfter)
  <2>1. \A i, j \in 1..m : i <= j => lengthsAfter[i] <= lengthsAfter[j]
    <3>1. \A i \in 1..m : i \in 1..n /\ lengthsAfter[i] = lengths[i]
      BY <1>1, <1>3
    <3> QED
      BY <1>5, <3>1
  <2> QED
    BY <1>2, <2>1 DEF Ordered
<1>12. Labels(less, keys[n], keysAfter)
  <2>1. ASSUME NEW i \in 2..m, less[i - 1].array
        PROVE  keysAfter[i] = less[i - 1].label
    <3>1. i \in 2..n /\ i \in 1..m /\ i - 1 \in 1..m
      BY <1>1
    <3> QED
      BY <1>2, <1>3, <1>6, <2>1, <3>1
  <2>2. ASSUME less # <<>>, less[Len(less)].array
        PROVE  keys[n] = less[Len(less)].label
    <3>1. m \in 1..m /\ n \in 2..n /\ n - 1 = m
      BY <1>1, <1>2, <2>2
    <3>2. less[m] = open[m] /\ open[m].array
      BY <1>2, <2>2, <3>1
    <3> QED
      BY <1>2, <1>6, <3>1, <3>2
  <2> QED
    BY <1>2, <2>1, <2>2 DEF Labels
<1>13. Stands(less, q, keys[n], lengthsAfter, keysAfter)
  BY <1>10, <1>11, <1>12 DEF Stands
<1> QED
  BY <1>13 DEF less, q, n, open

=============================================================================
