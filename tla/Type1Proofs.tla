----------------------------- MODULE Type1Proofs -----------------------------
(***************************************************************************)
(* Proofs about Type1: the cursors of the index pass nothing that could    *)
(* still be joined, so that reconstruct implements GreedyAssembly, for     *)
(* any fragments.                                                          *)
(***************************************************************************)
EXTENDS Type1, SequenceTheorems, FiniteSetTheorems, WellFoundedInduction, TLAPS

-----------------------------------------------------------------------------
(* Least and greatest elements.                                            *)

\* Min finds the least of any natural numbers.
LEMMA MinNat ==
  ASSUME NEW S \in SUBSET Nat, S # {}
  PROVE  Min(S) \in S /\ \A x \in S : Min(S) <= x
<1> DEFINE Below == {0 .. x : x \in S}
<1>1. Below \subseteq FiniteSubsetsOf(Nat) /\ Below # {}
  <2>1. \A x \in S : IsFiniteSet(0 .. x) /\ 0 .. x \subseteq Nat
    BY FS_Interval
  <2> QED
    BY <2>1 DEF FiniteSubsetsOf
<1>2. PICK T \in Below : \A U \in Below : ~(<<U, T>> \in StrictSubsetOrdering(Nat))
  <2> HIDE DEF Below
  <2> QED
    BY <1>1, FS_StrictSubsetOrderingWellFounded, WFMin
<1>3. PICK m \in S : T = 0 .. m
  BY <1>2
<1>4. ASSUME NEW x \in S PROVE m <= x
  <2> SUFFICES ASSUME x < m PROVE FALSE
    OBVIOUS
  <2>1. 0 .. x \subseteq 0 .. m /\ m \in 0 .. m /\ m \notin 0 .. x
    OBVIOUS
  <2>2. <<0 .. x, 0 .. m>> \in StrictSubsetOrdering(Nat)
    BY <2>1 DEF StrictSubsetOrdering
  <2> QED
    BY <1>2, <1>3, <2>2
<1> QED
  BY <1>4 DEF Min

\* Max finds the greatest of finitely many integers.
LEMMA MaxFinite ==
  ASSUME NEW S \in SUBSET Int, IsFiniteSet(S), S # {}
  PROVE  Max(S) \in S /\ \A x \in S : x <= Max(S)
<1> DEFINE HasMax(T) == \E m \in T : \A x \in T : x <= m
           Bad == {T \in FiniteSubsetsOf(S) : T # {} /\ ~HasMax(T)}
<1>1. Bad = {}
  <2> SUFFICES ASSUME Bad # {} PROVE FALSE
    OBVIOUS
  <2>1. PICK T \in Bad : \A U \in Bad : ~(<<U, T>> \in StrictSubsetOrdering(S))
    <3>1. Bad \subseteq FiniteSubsetsOf(S)
      OBVIOUS
    <3> HIDE DEF Bad
    <3> QED
      BY <3>1, FS_StrictSubsetOrderingWellFounded, WFMin
  <2>2. T \in SUBSET S /\ IsFiniteSet(T) /\ T # {} /\ ~HasMax(T)
    BY DEF FiniteSubsetsOf
  <2>3. PICK y \in T : TRUE
    BY <2>2
  <2> DEFINE U == T \ {y}
  <2>4. U # {}
    BY <2>2, <2>3
  <2>5. U \in FiniteSubsetsOf(S) /\ <<U, T>> \in StrictSubsetOrdering(S)
    BY <2>2, <2>3, FS_RemoveElement DEF FiniteSubsetsOf, StrictSubsetOrdering
  <2>6. HasMax(U)
    BY <2>1, <2>4, <2>5
  <2>7. PICK m \in U : \A x \in U : x <= m
    BY <2>6
  <2>8. \A x \in T : x <= m \/ x = y
    BY <2>7
  <2>9. m \in Int /\ y \in Int /\ T \subseteq Int
    BY <2>2, <2>3, <2>7
  <2>10. HasMax(T)
    <3>1. CASE y <= m
      BY <3>1, <2>7, <2>8
    <3>2. CASE ~(y <= m)
      BY <3>2, <2>3, <2>8, <2>9
    <3> QED
      BY <3>1, <3>2
  <2> QED
    BY <2>2, <2>10
<1>2. S \in FiniteSubsetsOf(S)
  BY DEF FiniteSubsetsOf
<1>3. HasMax(S)
  BY <1>1, <1>2
<1> QED
  BY <1>3 DEF Max

-----------------------------------------------------------------------------
(* Fragments and ends.                                                     *)

\* The ends of a sequence have the length asked for; so has what is left.
LEMMA EndTypes ==
  ASSUME NEW t \in Seq(Tokens), NEW e, NEW k \in 0 .. Len(t)
  PROVE  /\ Edge(t, e, k) \in Seq(Tokens) /\ Len(Edge(t, e, k)) = k
         /\ Shared(t, e, k) \in Seq(Tokens) /\ Len(Shared(t, e, k)) = k
         /\ Rest(t, e, k) \in Seq(Tokens)
<1>1. ASSUME NEW j \in 0 .. Len(t)
      PROVE  /\ FirstOf(t, j) \in Seq(Tokens) /\ Len(FirstOf(t, j)) = j
             /\ LastOf(t, j) \in Seq(Tokens) /\ Len(LastOf(t, j)) = j
  <2>1. FirstOf(t, j) \in Seq(Tokens) /\ Len(FirstOf(t, j)) = j
    <3>1. \A i \in 1 .. j : t[i] \in Tokens
      OBVIOUS
    <3> QED
      BY <3>1, SubSeqProperties DEF FirstOf
  <2>2. LastOf(t, j) \in Seq(Tokens) /\ Len(LastOf(t, j)) = j
    <3>1. \A i \in Len(t) - j + 1 .. Len(t) : t[i] \in Tokens
      OBVIOUS
    <3>2. Len(t) - j + 1 \in Int /\ Len(t) \in Int
      OBVIOUS
    <3> QED
      BY <3>1, <3>2, SubSeqProperties DEF LastOf
  <2> QED
    BY <2>1, <2>2
<1>2. k \in 0 .. Len(t) /\ Len(t) - k \in 0 .. Len(t)
  OBVIOUS
<1> QED
  BY <1>1, <1>2 DEF Edge, Shared, Rest

\* Positions can be compared.
LEMMA PositionsNat == \A p \in Positions : p \in Nat
<1>1. Positions \subseteq 0 .. 255
  BY FragmentsAssumption
<1>2. \A n \in 0 .. 255 : n \in Nat
  OBVIOUS
<1> QED
  BY <1>1, <1>2, Zenon

LEMMA FragmentTypes ==
  ASSUME input \in Seq(Fragment), NEW i \in All
  PROVE  /\ Text(i) \in Seq(Tokens) /\ Len(Text(i)) \in Nat
         /\ Pos(i) \in Positions /\ Pos(i) \in Int
<1>1. input[i] \in Fragment
  BY DEF All
<1>2. input[i].text \in Texts /\ input[i].pos \in Positions
  BY <1>1 DEF Fragment
<1>3. input[i].text \in Seq(Tokens)
  BY <1>2, FragmentsAssumption
<1>4. input[i].pos \in Int
  BY <1>2, PositionsNat
<1> QED
  BY <1>2, <1>3, <1>4 DEF Text, Pos

\* No fragment is longer than the cap.
LEMMA CapIsLongest ==
  ASSUME input \in Seq(Fragment), input # <<>>
  PROVE  Cap \in Nat /\ \A i \in All : Len(Text(i)) <= Cap
<1> DEFINE Sizes == {Len(Text(i)) : i \in All}
           f == [i \in All |-> Len(Text(i))]
<1>1. Sizes \subseteq Nat
  BY FragmentTypes
<1>2. IsFiniteSet(All) /\ 1 \in All
  BY FS_Interval DEF All
<1>3. IsFiniteSet(Sizes)
  <2>1. f \in Surjection(All, Sizes)
    BY DEF Surjection
  <2> QED
    BY <1>2, <2>1, FS_Surjection
<1>4. Len(Text(1)) \in Sizes
  BY <1>2
<1> HIDE DEF Sizes
<1>5. Max(Sizes) \in Sizes /\ \A n \in Sizes : n <= Max(Sizes)
  BY <1>1, <1>3, <1>4, MaxFinite
<1> QED
  BY <1>1, <1>5 DEF Cap, Sizes

-----------------------------------------------------------------------------
(* The cursors.                                                            *)

IInv == Type1OK /\ PassedStayIneligible

\* A cursor finds a fragment of its list, not behind it, or the end.
LEMMA FoundAhead ==
  ASSUME Type1OK, NEW e \in Ends, NEW node \in Nodes(e)
  PROVE  /\ Found(e, node) \in 2 .. End
         /\ \A i \in Ahead(e, node) : Found(e, node) <= i
<1>1. Len(input) \in Nat /\ All = 1 .. Len(input) /\ Len(input) >= 1
  BY DEF Type1OK, All
<1>2. Ahead(e, node) \subseteq 2 .. Len(input)
  BY <1>1 DEF Ahead, Listed
<1>3. CASE Ahead(e, node) = {}
  BY <1>1, <1>3 DEF Found, End
<1>4. CASE Ahead(e, node) # {}
  <2>1. Ahead(e, node) \in SUBSET Nat
    BY <1>1, <1>2
  <2>2. /\ Min(Ahead(e, node)) \in Ahead(e, node)
        /\ \A i \in Ahead(e, node) : Min(Ahead(e, node)) <= i
    BY <1>4, <2>1, MinNat
  <2> QED
    BY <1>1, <1>2, <1>4, <2>2 DEF Found, End
<1> QED
  BY <1>3, <1>4

\* A look moves the cursors over nothing that could still be joined.
LEMMA MovedOverIneligible ==
  ASSUME IInv
  PROVE  /\ DOMAIN Moved = Ends
         /\ \A e \in Ends : Moved[e] \in [Nodes(e) -> 2 .. End]
         /\ \A e \in Ends : \A node \in Nodes(e) : \A i \in Listed(e, node) :
              i < Moved[e][node] => ~Eligible(i, e)
<1>1. DOMAIN Moved = Ends
  BY DEF Moved
<1>2. ASSUME NEW e \in Ends
      PROVE  /\ Moved[e] \in [Nodes(e) -> 2 .. End]
             /\ \A node \in Nodes(e) : Moved[e][node] \in {Found(e, node), cursor[e][node]}
  <2>1. cursor[e] \in [Nodes(e) -> 2 .. End]
    BY DEF IInv, Type1OK
  <2>2. \A node \in Nodes(e) : Found(e, node) \in 2 .. End
    BY FoundAhead DEF IInv
  <2> QED
    BY <2>1, <2>2 DEF Moved
<1>3. ASSUME NEW e \in Ends, NEW node \in Nodes(e), NEW i \in Listed(e, node),
             i < Moved[e][node], Eligible(i, e)
      PROVE  FALSE
  <2>1. i \in Int /\ cursor[e][node] \in Int /\ Found(e, node) \in Int
    <3>1. cursor[e][node] \in 2 .. End /\ Found(e, node) \in 2 .. End /\ i \in All
      BY FoundAhead DEF IInv, Type1OK, Listed
    <3> QED
      BY <3>1 DEF End, All, IInv, Type1OK
  <2>2. ~(i < cursor[e][node])
    BY <1>3 DEF IInv, PassedStayIneligible
  <2>3. i \in Ahead(e, node)
    BY <1>3, <2>1, <2>2 DEF Ahead
  <2>4. Found(e, node) <= i
    BY <2>3, FoundAhead DEF IInv
  <2> QED
    BY <1>2, <1>3, <2>1, <2>2, <2>4
<1> QED
  BY <1>1, <1>2, <1>3

\* Bounds move outward, from one position to another.
LEMMA OutwardBounds ==
  ASSUME Type1OK, NEW j \in All, Bounds(j)
  PROVE  /\ first' \in Positions /\ first' \in Int /\ first' <= first
         /\ last' \in Positions /\ last' \in Int /\ last <= last'
<1>1. /\ first \in Nat /\ last \in Nat /\ first \in Positions /\ last \in Positions
      /\ Pos(j) \in Positions /\ Pos(j) \in Nat
  <2>1. first \in Positions /\ last \in Positions /\ input \in Seq(Fragment)
    BY DEF Type1OK
  <2>2. Pos(j) \in Positions
    BY <2>1, FragmentTypes
  <2> QED
    BY <2>1, <2>2, PositionsNat
<1>2. first' <= first /\ first' \in {first, Pos(j)}
  <2>1. {first, Pos(j)} \in SUBSET Nat /\ {first, Pos(j)} # {}
    BY <1>1
  <2> QED
    BY <2>1, MinNat DEF Bounds
<1>3. last <= last' /\ last' \in {last, Pos(j)}
  <2>1. {last, Pos(j)} \in SUBSET Int /\ {last, Pos(j)} # {} /\ IsFiniteSet({last, Pos(j)})
    <3>1. IsFiniteSet({last} \cup {Pos(j)})
      BY FS_Singleton, FS_Union
    <3>2. {last} \cup {Pos(j)} = {last, Pos(j)}
      OBVIOUS
    <3> QED
      BY <1>1, <3>1, <3>2
  <2> QED
    BY <2>1, MaxFinite DEF Bounds
<1> QED
  BY <1>1, <1>2, <1>3

\* What can be joined after a step could be joined before.
LEMMA OutwardOnly ==
  ASSUME Type1OK, NEW j \in All, Bounds(j), used' = used \cup {j}, UNCHANGED input,
         NEW i \in All, NEW e \in Ends, Eligible(i, e)'
  PROVE  Eligible(i, e)
<1>1. first \in Int /\ last \in Int /\ Pos(i) \in Int
  <2>1. first \in Positions /\ last \in Positions /\ input \in Seq(Fragment)
    BY DEF Type1OK
  <2>2. Pos(i) \in Positions
    BY <2>1, FragmentTypes
  <2> QED
    BY <2>1, <2>2, PositionsNat
<1>2. first' \in Int /\ first' <= first /\ last' \in Int /\ last <= last'
  BY OutwardBounds
<1>3. Pos(i)' = Pos(i) /\ i \notin used
  BY DEF Eligible, Pos
<1>4. CASE e = "append"
  BY <1>1, <1>2, <1>3, <1>4 DEF Eligible
<1>5. CASE e # "append"
  BY <1>1, <1>2, <1>3, <1>5 DEF Eligible
<1> QED
  BY <1>4, <1>5

-----------------------------------------------------------------------------
(* What is chosen is what looking at all fragments finds.                  *)

\* Both specifications speak of the same fragments and ends.
LEMMA SameFragments ==
  /\ Greedy!All = All /\ Greedy!Ends = Ends /\ Greedy!Inputs = Inputs
  /\ \A i : Greedy!Text(i) = Text(i) /\ Greedy!Pos(i) = Pos(i)
  /\ \A t, e, k : /\ Greedy!Edge(t, e, k) = Edge(t, e, k)
                  /\ Greedy!Shared(t, e, k) = Shared(t, e, k)
                  /\ Greedy!Rest(t, e, k) = Rest(t, e, k)
                  /\ Greedy!Joined(t, e, k) = Joined(t, e, k)
  /\ \A i, e : i \notin used => (Greedy!Outside(i, e) <=> Eligible(i, e))
  /\ \A S : Greedy!Min(S) = Min(S) /\ Greedy!Max(S) = Max(S)
<1>1. /\ Greedy!All = All /\ Greedy!Ends = Ends
      /\ \A i : Greedy!Text(i) = Text(i) /\ Greedy!Pos(i) = Pos(i)
  BY DEF Greedy!All, All, Greedy!Ends, Ends, Greedy!Text, Text, Greedy!Pos, Pos
<1>2. Greedy!Inputs = Inputs
  BY DEF Greedy!Inputs, Inputs, Greedy!Fragment, Fragment
<1>3. \A t, k : Greedy!FirstOf(t, k) = FirstOf(t, k) /\ Greedy!LastOf(t, k) = LastOf(t, k)
  BY DEF Greedy!FirstOf, FirstOf, Greedy!LastOf, LastOf
<1>4. \A t, e, k : /\ Greedy!Edge(t, e, k) = Edge(t, e, k)
                   /\ Greedy!Shared(t, e, k) = Shared(t, e, k)
                   /\ Greedy!Rest(t, e, k) = Rest(t, e, k)
                   /\ Greedy!Joined(t, e, k) = Joined(t, e, k)
  BY <1>3 DEF Greedy!Edge, Edge, Greedy!Shared, Shared, Greedy!Rest, Rest, Greedy!Joined, Joined
<1>5. \A i, e : i \notin used => (Greedy!Outside(i, e) <=> Eligible(i, e))
  BY <1>1 DEF Greedy!Outside, Eligible
<1>6. \A S : Greedy!Min(S) = Min(S) /\ Greedy!Max(S) = Max(S)
  BY DEF Greedy!Min, Min, Greedy!Max, Max
<1> QED
  BY <1>1, <1>2, <1>4, <1>5, <1>6

\* A list from its cursor on holds all that fits.
LEMMA CandidatesFit ==
  ASSUME IInv, NEW e \in Ends, NEW k \in 1 .. Len(text)
  PROVE  Candidates(e, k) = Greedy!Fitting(e, k)
<1> DEFINE node == Edge(text, e, k)
<1>1. Len(node) = k
  <2>1. text \in Seq(Tokens) /\ k \in 0 .. Len(text)
    BY DEF IInv, Type1OK
  <2> QED
    BY <2>1, EndTypes
<1>2. 1 \in used /\ input \in Seq(Fragment)
  BY DEF IInv, Type1OK
<1>3. ASSUME NEW i \in Candidates(e, k) PROVE i \in Greedy!Fitting(e, k)
  <2>1. node \in Nodes(e) /\ i \in Ahead(e, node)
    BY <1>3 DEF Candidates
  <2>2. i \in All \ {1} /\ k <= Len(Text(i)) /\ Shared(Text(i), e, k) = node /\ Eligible(i, e)
    BY <1>1, <2>1 DEF Ahead, Listed
  <2> QED
    BY <2>2, SameFragments DEF Greedy!Fitting, Eligible
<1>4. ASSUME NEW i \in Greedy!Fitting(e, k) PROVE i \in Candidates(e, k)
  <2>1. /\ i \in All \ {1} /\ k <= Len(Text(i)) /\ Shared(Text(i), e, k) = node
        /\ Eligible(i, e)
    BY <1>2, <1>4, SameFragments DEF Greedy!Fitting
  <2>2. k \in 1 .. Len(Text(i))
    BY <1>2, <2>1, FragmentTypes
  <2>3. node \in Nodes(e) /\ i \in Listed(e, node)
    BY <1>1, <2>1, <2>2 DEF Nodes, Listed
  <2>4. ~(i < cursor[e][node])
    BY <2>1, <2>3 DEF IInv, PassedStayIneligible
  <2>5. i \in Int /\ cursor[e][node] \in Int
    <3>1. cursor[e][node] \in 2 .. End
      BY <2>3 DEF IInv, Type1OK
    <3> QED
      BY <2>1, <3>1 DEF All, End
  <2> QED
    BY <2>1, <2>3, <2>4, <2>5 DEF Candidates, Ahead
<1> QED
  BY <1>3, <1>4

\* The cap on overlaps hides none.
LEMMA OverlapsFit ==
  ASSUME IInv
  PROVE  Lengths = Greedy!Overlaps /\ Lengths \subseteq 1 .. Len(text) /\ Limit \in Nat
<1>1. Cap \in Nat /\ Len(text) \in Nat /\ \A i \in All : Len(Text(i)) <= Cap
  BY CapIsLongest DEF IInv, Type1OK
<1>2. Limit \in {Cap, Len(text)} /\ Limit <= Cap /\ Limit <= Len(text)
  <2>1. {Cap, Len(text)} \in SUBSET Nat /\ {Cap, Len(text)} # {}
    BY <1>1
  <2> QED
    BY <2>1, MinNat DEF Limit
<1>3. ASSUME NEW k \in 1 .. Len(text), NEW e \in Ends, Greedy!Fitting(e, k) # {}
      PROVE  k \in 1 .. Limit
  <2>1. PICK i \in All : k <= Len(Text(i))
    BY <1>3, SameFragments DEF Greedy!Fitting
  <2>2. Len(Text(i)) \in Nat
    BY FragmentTypes DEF IInv, Type1OK
  <2> QED
    BY <1>1, <1>2, <2>1, <2>2
<1>4. 1 .. Limit \subseteq 1 .. Len(text)
  BY <1>1, <1>2
<1>5. Lengths = {k \in 1 .. Limit : \E e \in Ends : Greedy!Fitting(e, k) # {}}
  BY <1>4, CandidatesFit DEF Lengths
<1>6. Greedy!Overlaps = {k \in 1 .. Len(text) : \E e \in Ends : Greedy!Fitting(e, k) # {}}
  BY SameFragments DEF Greedy!Overlaps
<1>7. Lengths = Greedy!Overlaps
  BY <1>3, <1>4, <1>5, <1>6
<1> QED
  BY <1>1, <1>2, <1>4, <1>5, <1>7

\* Of the candidates of the longest overlap, a join takes the first.
LEMMA JoinChooses ==
  ASSUME IInv, Lengths # {}
  PROVE  LET k == Max(Lengths)
             i == Min(Candidates("append", k) \cup Candidates("prepend", k))
         IN  /\ k \in Lengths /\ \A j \in Lengths : j <= k
             /\ i \in Candidates("append", k) \cup Candidates("prepend", k)
             /\ \A f \in Ends : \A j \in Candidates(f, k) : i <= j
<1> DEFINE k == Max(Lengths)
           C == Candidates("append", k) \cup Candidates("prepend", k)
<1>1. k \in Lengths /\ \A j \in Lengths : j <= k
  <2>1. IsFiniteSet(Lengths) /\ Lengths \in SUBSET Int
    <3>1. Lengths \in SUBSET (1 .. Len(text)) /\ IsFiniteSet(1 .. Len(text))
      BY OverlapsFit, FS_Interval DEF IInv, Type1OK
    <3>2. IsFiniteSet(Lengths)
      BY <3>1, FS_Subset
    <3> QED
      BY <3>1, <3>2
  <2> QED
    BY <2>1, MaxFinite
<1>2. C \subseteq All
  BY DEF Candidates, Ahead, Listed
<1>3. C # {}
  BY <1>1 DEF Lengths, Ends
<1>4. C \in SUBSET Nat
  BY <1>2 DEF All, IInv, Type1OK
<1> HIDE DEF C
<1>5. Min(C) \in C /\ \A j \in C : Min(C) <= j
  BY <1>3, <1>4, MinNat
<1> QED
  BY <1>1, <1>5 DEF C, Ends

-----------------------------------------------------------------------------
(* The invariant.                                                          *)

\* Everything the indexes are built from is the input.
LEMMA SameIndexes ==
  ASSUME UNCHANGED input
  PROVE  /\ All' = All /\ End' = End /\ Ends' = Ends
         /\ \A e : Nodes(e)' = Nodes(e)
         /\ \A e, node : Listed(e, node)' = Listed(e, node)
BY DEF All, End, Ends, Nodes, Listed, Text

\* An assembly starts as one fragment, with every cursor at the first of its list.
LEMMA InitInvariant == Type1Init => IInv
<1> SUFFICES ASSUME Type1Init PROVE IInv
  OBVIOUS
<1>1. input \in Seq(Fragment) /\ input # <<>>
  BY DEF Type1Init, Inputs
<1>2. Len(input) \in Nat /\ Len(input) >= 1 /\ All = 1 .. Len(input)
  BY <1>1 DEF All
<1>3. 1 \in All
  BY <1>2
<1>4. text \in Seq(Tokens) /\ first \in Positions /\ last \in Positions
  BY <1>1, <1>3, FragmentTypes DEF Type1Init
<1>5. /\ DOMAIN cursor = Ends
      /\ \A e \in Ends : cursor[e] = [node \in Nodes(e) |-> 2]
  BY DEF Type1Init
<1>6. 2 \in 2 .. End
  BY <1>2 DEF End
<1>7. Type1OK
  BY <1>1, <1>3, <1>4, <1>5, <1>6 DEF Type1Init, Type1OK
<1>8. PassedStayIneligible
  BY <1>2, <1>5 DEF PassedStayIneligible, Listed
<1> QED
  BY <1>7, <1>8 DEF IInv

\* What a join leaves behind: the parts of the state it changes.
LEMMA JoinPlaces ==
  ASSUME IInv, Join
  PROVE  \E k \in 1 .. Len(text), e \in Ends, i \in All :
           /\ k \in Greedy!Overlaps /\ \A j \in Greedy!Overlaps : j <= k
           /\ i \in Greedy!Fitting(e, k)
           /\ \A f \in Ends : \A j \in Greedy!Fitting(f, k) : i <= j
           /\ e = "prepend" => i \notin Greedy!Fitting("append", k)
           /\ Place(i, e, k)
<1> DEFINE k == Max(Lengths)
           i == Min(Candidates("append", k) \cup Candidates("prepend", k))
           e == IF i \in Candidates("append", k) THEN "append" ELSE "prepend"
<1>1. Lengths # {} /\ Place(i, e, k)
  BY DEF Join
<1>2. /\ k \in Lengths /\ \A j \in Lengths : j <= k
      /\ i \in Candidates("append", k) \cup Candidates("prepend", k)
      /\ \A f \in Ends : \A j \in Candidates(f, k) : i <= j
  BY <1>1, JoinChooses
<1>3. k \in 1 .. Len(text) /\ Lengths = Greedy!Overlaps
  BY <1>2, OverlapsFit
<1>4. "append" \in Ends /\ "prepend" \in Ends /\ e \in Ends
  BY DEF Ends
<1>5. \A f \in Ends : Candidates(f, k) = Greedy!Fitting(f, k)
  BY <1>3, CandidatesFit
<1> HIDE DEF k, i
<1>6. i \in Candidates(e, k) /\ (e = "prepend" => i \notin Candidates("append", k))
  BY <1>2
<1>7. i \in All
  BY <1>6 DEF Candidates, Ahead, Listed
<1> HIDE DEF e
<1> QED
  BY <1>1, <1>2, <1>3, <1>4, <1>5, <1>6, <1>7

LEMMA JoinKeepsInvariant ==
  ASSUME IInv, Join
  PROVE  IInv'
<1>1. PICK k \in 1 .. Len(text), e \in Ends, i \in All :
        i \in Greedy!Fitting(e, k) /\ Place(i, e, k)
  BY JoinPlaces
<1>2. UNCHANGED <<input, done>> /\ cursor' = Moved
  BY DEF Join
<1>3. /\ All' = All /\ End' = End /\ Ends' = Ends
      /\ \A f : Nodes(f)' = Nodes(f)
      /\ \A f, node : Listed(f, node)' = Listed(f, node)
  BY <1>2, SameIndexes
<1>4. text' \in Seq(Tokens)
  <2>1. text \in Seq(Tokens) /\ Text(i) \in Seq(Tokens)
    BY FragmentTypes DEF IInv, Type1OK
  <2>2. k \in 0 .. Len(Text(i))
    BY <1>1, <2>1, SameFragments DEF Greedy!Fitting
  <2>3. Rest(Text(i), e, k) \in Seq(Tokens)
    BY <2>1, <2>2, EndTypes
  <2>4. text \o Rest(Text(i), e, k) \in Seq(Tokens) /\ Rest(Text(i), e, k) \o text \in Seq(Tokens)
    BY <2>1, <2>3, ConcatProperties
  <2> QED
    BY <1>1, <2>4 DEF Place, Joined
<1>5. first' \in Positions /\ last' \in Positions
  BY <1>1, OutwardBounds DEF Place, IInv
<1>6. DOMAIN cursor' = Ends /\ \A f \in Ends : cursor'[f] \in [Nodes(f) -> 2 .. End]
  BY <1>2, MovedOverIneligible
<1>7. Type1OK'
  <2>1. used' \subseteq All /\ 1 \in used'
    BY <1>1 DEF Place, IInv, Type1OK
  <2> QED
    BY <1>2, <1>3, <1>4, <1>5, <1>6, <2>1 DEF IInv, Type1OK
<1>8. PassedStayIneligible'
  <2> SUFFICES ASSUME NEW f \in Ends, NEW node \in Nodes(f), NEW j \in Listed(f, node),
                      j < Moved[f][node], Eligible(j, f)'
               PROVE  FALSE
    BY <1>2, <1>3 DEF PassedStayIneligible
  <2>1. j \in All
    BY DEF Listed
  <2>2. Eligible(j, f)
    BY <1>1, <1>2, <2>1, OutwardOnly DEF Place, IInv
  <2> QED
    BY <2>2, MovedOverIneligible
<1> QED
  BY <1>7, <1>8 DEF IInv

LEMMA StopKeepsInvariant ==
  ASSUME IInv, Stop
  PROVE  IInv'
<1>1. UNCHANGED <<input, text, used, first, last>> /\ cursor' = Moved /\ done' = TRUE
  BY DEF Stop
<1>2. /\ All' = All /\ End' = End /\ Ends' = Ends
      /\ \A f : Nodes(f)' = Nodes(f)
      /\ \A f, node : Listed(f, node)' = Listed(f, node)
  BY <1>1, SameIndexes
<1>3. \A i, e : Eligible(i, e)' <=> Eligible(i, e)
  BY <1>1 DEF Eligible, Pos
<1>4. Type1OK'
  BY <1>1, <1>2, MovedOverIneligible DEF IInv, Type1OK
<1>5. PassedStayIneligible'
  BY <1>1, <1>2, <1>3, MovedOverIneligible DEF PassedStayIneligible
<1> QED
  BY <1>4, <1>5 DEF IInv

-----------------------------------------------------------------------------
(* The theorems.                                                           *)

LEMMA Invariant == Type1Spec => []IInv
<1>1. Type1Init => IInv
  BY InitInvariant
<1>2. IInv /\ [Type1Next]_type1Vars => IInv'
  <2> SUFFICES ASSUME IInv, [Type1Next]_type1Vars PROVE IInv'
    OBVIOUS
  <2>1. CASE Join
    BY <2>1, JoinKeepsInvariant
  <2>2. CASE Stop
    BY <2>2, StopKeepsInvariant
  <2>3. CASE UNCHANGED type1Vars
    <3>1. UNCHANGED <<input, text, used, first, last, cursor, done>>
      BY <2>3 DEF type1Vars
    <3>2. /\ All' = All /\ End' = End /\ Ends' = Ends
          /\ \A e : Nodes(e)' = Nodes(e)
          /\ \A e, node : Listed(e, node)' = Listed(e, node)
      BY <3>1, SameIndexes
    <3>3. \A i, e : Eligible(i, e)' <=> Eligible(i, e)
      BY <3>1 DEF Eligible, Pos
    <3>4. Type1OK'
      BY <3>1, <3>2 DEF IInv, Type1OK
    <3>5. PassedStayIneligible'
      BY <3>1, <3>2, <3>3 DEF IInv, PassedStayIneligible
    <3> QED
      BY <3>4, <3>5 DEF IInv
  <2> QED
    BY <2>1, <2>2, <2>3 DEF Type1Next, Rested
<1> QED
  BY <1>1, <1>2, PTL DEF Type1Spec

(* Every variable of reconstruct keeps its type, and every cursor stays inside its list,
   for any fragments. *)
THEOREM TypeCorrect == Type1Spec => []Type1OK
<1>1. IInv => Type1OK
  BY DEF IInv
<1> QED
  BY <1>1, Invariant, PTL

(* What candidate skips it may skip for ever: the comment "an ineligible entry stays
   ineligible" holds for any fragments. *)
THEOREM PassedStayIneligibleHolds == Type1Spec => []PassedStayIneligible
<1>1. IInv => PassedStayIneligible
  BY DEF IInv
<1> QED
  BY <1>1, Invariant, PTL

(* The index changes the time reconstruct takes, never its result: it makes the choices of
   GreedyAssembly, which looks at every fragment in every step. *)
THEOREM GreedyImplemented == Type1Spec => ImplementsGreedy
<1>1. Type1Init => Greedy!Init
  BY SameFragments DEF Type1Init, Greedy!Init
<1>2. IInv /\ [Type1Next]_type1Vars => [Greedy!Next]_Greedy!vars
  <2> SUFFICES ASSUME IInv, [Type1Next]_type1Vars PROVE [Greedy!Next]_Greedy!vars
    OBVIOUS
  <2>1. CASE Join
    <3>1. PICK k \in 1 .. Len(text), e \in Ends, i \in All :
            /\ k \in Greedy!Overlaps /\ \A j \in Greedy!Overlaps : j <= k
            /\ i \in Greedy!Fitting(e, k)
            /\ \A f \in Ends : \A j \in Greedy!Fitting(f, k) : i <= j
            /\ e = "prepend" => i \notin Greedy!Fitting("append", k)
            /\ Place(i, e, k)
      BY <2>1, JoinPlaces
    <3>2. Greedy!Place(i, e, k)
      BY <3>1, SameFragments DEF Place, Bounds, Greedy!Place
    <3>3. ~done /\ UNCHANGED <<input, done>>
      BY <2>1 DEF Join
    <3> QED
      BY <3>1, <3>2, <3>3, SameFragments DEF Greedy!Join, Greedy!Next
  <2>2. CASE Stop
    BY <2>2, OverlapsFit DEF Stop, Greedy!Stop, Greedy!Next
  <2>3. CASE UNCHANGED type1Vars
    BY <2>3 DEF type1Vars, Greedy!vars
  <2> QED
    BY <2>1, <2>2, <2>3 DEF Type1Next, Rested
<1> QED
  BY <1>1, <1>2, Invariant, PTL DEF Type1Spec, ImplementsGreedy, Greedy!Spec

=============================================================================
