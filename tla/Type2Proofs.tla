----------------------------- MODULE Type2Proofs -----------------------------
(***************************************************************************)
(* Proofs about Type2, for any fragments, limits and budgets: no dead end  *)
(* is ever stale, no fragment has two places, every section holds its      *)
(* fragments, the best-effort text holds the sections, and what the search *)
(* says of the primary text is true of all the assemblies there are.       *)
(*                                                                         *)
(* Inv is the invariant of the assemblies and sections (Good is what it    *)
(* says of each), MergeOK that of the best-effort text and SearchTrue that *)
(* of the search: what it holds can be reached (Met), and what can be      *)
(* reached it has seen or will see (Covers).                               *)
(***************************************************************************)
EXTENDS Type2, SequenceTheorems, FiniteSetTheorems, WellFoundedInduction, TLAPS

-----------------------------------------------------------------------------
(* Fragments and ends.                                                     *)

\* Positions can be compared.
LEMMA PositionsInt == \A p \in Positions : p \in Int
<1>1. Positions \subseteq 0 .. 255
  BY FragmentsAssumption
<1>2. \A n \in 0 .. 255 : n \in Int
  OBVIOUS
<1> QED
  BY <1>1, <1>2, Zenon

LEMMA FragmentTypes ==
  ASSUME input \in Seq(Fragment), NEW i \in All
  PROVE  /\ Text(i) \in Seq(Tokens) /\ Len(Text(i)) \in Nat
         /\ Pos(i) \in Positions /\ Pos(i) \in Int
<1>1. input[i] \in Fragment
  BY DEF All
<1>2. input[i].text \in Texts /\ input[i].pos \in Positions
  BY <1>1 DEF Fragment
<1>3. input[i].text \in Seq(Tokens)
  BY <1>2, FragmentsAssumption
<1>4. input[i].pos \in Int
  BY <1>2, PositionsInt
<1> QED
  BY <1>2, <1>3, <1>4 DEF Text, Pos

\* The beginning and the end of a sequence.
LEMMA EndItems ==
  ASSUME NEW S, NEW t \in Seq(S), NEW j \in 0 .. Len(t)
  PROVE  /\ FirstOf(t, j) \in Seq(S) /\ Len(FirstOf(t, j)) = j
         /\ LastOf(t, j) \in Seq(S) /\ Len(LastOf(t, j)) = j
         /\ \A i \in 1 .. j : FirstOf(t, j)[i] = t[i] /\ LastOf(t, j)[i] = t[Len(t) - j + i]
<1>1. FirstOf(t, j) \in Seq(S) /\ Len(FirstOf(t, j)) = j /\ \A i \in 1 .. j : FirstOf(t, j)[i] = t[i]
  <2>1. \A i \in 1 .. j : t[i] \in S
    OBVIOUS
  <2> QED
    BY <2>1, SubSeqProperties DEF FirstOf
<1>2. LastOf(t, j) \in Seq(S) /\ Len(LastOf(t, j)) = j
  <2>1. \A i \in Len(t) - j + 1 .. Len(t) : t[i] \in S
    OBVIOUS
  <2>2. Len(t) - j + 1 \in Int /\ Len(t) \in Int
    OBVIOUS
  <2> QED
    BY <2>1, <2>2, SubSeqProperties DEF LastOf
<1>3. \A i \in 1 .. j : LastOf(t, j)[i] = t[Len(t) - j + i]
  BY DEF LastOf
<1> QED
  BY <1>1, <1>2, <1>3

\* What is added at one end does not change the tokens at the other.
LEMMA OtherEdge ==
  ASSUME NEW t \in Seq(Tokens), NEW r \in Seq(Tokens), NEW k \in 0 .. Len(t)
  PROVE  LastOf(r \o t, k) = LastOf(t, k) /\ FirstOf(t \o r, k) = FirstOf(t, k)
<1>1. /\ Len(r) \in Nat /\ Len(t) \in Nat /\ k \in Nat /\ k <= Len(t)
      /\ Len(r \o t) = Len(r) + Len(t) /\ Len(t \o r) = Len(t) + Len(r)
      /\ r \o t \in Seq(Tokens) /\ t \o r \in Seq(Tokens)
  BY ConcatProperties
<1>2. k \in 0 .. Len(r \o t) /\ k \in 0 .. Len(t \o r)
  BY <1>1
<1>3. LastOf(r \o t, k) = LastOf(t, k)
  <2>1. /\ LastOf(t, k) \in Seq(Tokens) /\ Len(LastOf(t, k)) = k
        /\ LastOf(r \o t, k) \in Seq(Tokens) /\ Len(LastOf(r \o t, k)) = k
    BY <1>1, <1>2, EndItems
  <2>2. ASSUME NEW i \in 1 .. k PROVE LastOf(r \o t, k)[i] = LastOf(t, k)[i]
    <3>1. LastOf(t, k)[i] = t[Len(t) - k + i]
      BY <1>1 DEF LastOf
    <3>2. LastOf(r \o t, k)[i] = (r \o t)[Len(r) + Len(t) - k + i]
      BY <1>1 DEF LastOf
    <3>3. (r \o t)[Len(r) + Len(t) - k + i] = t[Len(t) - k + i]
      BY <1>1
    <3> QED
      BY <3>1, <3>2, <3>3
  <2> QED
    BY <2>1, <2>2, SeqEqual
<1>4. FirstOf(t \o r, k) = FirstOf(t, k)
  <2>1. /\ FirstOf(t, k) \in Seq(Tokens) /\ Len(FirstOf(t, k)) = k
        /\ FirstOf(t \o r, k) \in Seq(Tokens) /\ Len(FirstOf(t \o r, k)) = k
    BY <1>1, <1>2, EndItems
  <2>2. \A i \in 1 .. k : FirstOf(t \o r, k)[i] = FirstOf(t, k)[i]
    BY <1>1 DEF FirstOf
  <2> QED
    BY <2>1, <2>2, SeqEqual
<1> QED
  BY <1>3, <1>4

LEMMA PairBounds ==
  ASSUME NEW a \in Int, NEW b \in Int
  PROVE  /\ Min({a, b}) = (IF a <= b THEN a ELSE b) /\ Max({a, b}) = (IF a <= b THEN b ELSE a)
BY DEF Min, Max

-----------------------------------------------------------------------------
(* One text in another.                                                    *)

\* A text holds another if the tokens of that follow each other somewhere.
LEMMA HoldsItems ==
  ASSUME NEW S, NEW t \in Seq(S), NEW w \in Seq(S)
  PROVE  Holds(t, w) <=> \E j \in 0 .. Len(t) - Len(w) : \A i \in 1 .. Len(w) : t[j + i] = w[i]
<1>1. ASSUME NEW j \in 0 .. Len(t) - Len(w)
      PROVE  SubSeq(t, j + 1, j + Len(w)) = w <=> \A i \in 1 .. Len(w) : t[j + i] = w[i]
  <2> DEFINE u == SubSeq(t, j + 1, j + Len(w))
  <2>1. Len(t) \in Nat /\ Len(w) \in Nat /\ j \in Nat /\ j + Len(w) <= Len(t)
    OBVIOUS
  <2>2. \A i \in j + 1 .. j + Len(w) : t[i] \in S
    BY <2>1
  <2>3. u \in Seq(S) /\ Len(u) = Len(w)
    BY <2>1, <2>2, SubSeqProperties
  <2>4. \A i \in 1 .. Len(w) : u[i] = t[j + i]
    BY <2>1
  <2> HIDE DEF u
  <2>5. u = w <=> \A i \in 1 .. Len(w) : u[i] = w[i]
    BY <2>3, SeqEqual
  <2>6. u = w <=> \A i \in 1 .. Len(w) : t[j + i] = w[i]
    BY <2>4, <2>5
  <2> QED
    BY <2>6 DEF u
<1> QED
  BY <1>1 DEF Holds

LEMMA HoldsItself == ASSUME NEW S, NEW w \in Seq(S) PROVE Holds(w, w)
<1>1. 0 \in 0 .. Len(w) - Len(w) /\ \A i \in 1 .. Len(w) : w[0 + i] = w[i]
  OBVIOUS
<1> QED
  BY <1>1, HoldsItems

\* A text that grows goes on holding what it held.
LEMMA HoldsLonger ==
  ASSUME NEW S, NEW t \in Seq(S), NEW r \in Seq(S), NEW w \in Seq(S), Holds(t, w)
  PROVE  Holds(t \o r, w) /\ Holds(r \o t, w)
<1>1. /\ Len(r) \in Nat /\ Len(t) \in Nat /\ Len(w) \in Nat
      /\ Len(r \o t) = Len(r) + Len(t) /\ Len(t \o r) = Len(t) + Len(r)
      /\ r \o t \in Seq(S) /\ t \o r \in Seq(S)
  BY ConcatProperties
<1>2. PICK j \in 0 .. Len(t) - Len(w) : \A i \in 1 .. Len(w) : t[j + i] = w[i]
  <2>1. PICK j \in 0 .. Len(t) - Len(w) : SubSeq(t, j + 1, j + Len(w)) = w
    BY DEF Holds
  <2>2. \A i \in 1 .. Len(w) : SubSeq(t, j + 1, j + Len(w))[i] = t[j + i]
    BY <1>1
  <2> QED
    BY <2>1, <2>2
<1>3. Holds(t \o r, w)
  <2>1. j \in 0 .. Len(t \o r) - Len(w)
    BY <1>1, <1>2
  <2>2. \A i \in 1 .. Len(w) : (t \o r)[j + i] = w[i]
    BY <1>1, <1>2
  <2> QED
    BY <1>1, <2>1, <2>2, HoldsItems
<1>4. Holds(r \o t, w)
  <2>1. Len(r) + j \in 0 .. Len(r \o t) - Len(w)
    BY <1>1, <1>2
  <2>2. \A i \in 1 .. Len(w) : (r \o t)[(Len(r) + j) + i] = w[i]
    BY <1>1, <1>2
  <2> QED
    BY <1>1, <2>1, <2>2, HoldsItems
<1> QED
  BY <1>3, <1>4

\* A text that ends with the k tokens another begins with holds it when the
\* rest is added; and so at the other end.
LEMMA HoldsAppended ==
  ASSUME NEW S, NEW t \in Seq(S), NEW w \in Seq(S), NEW k \in 0 .. Len(t), k <= Len(w),
         LastOf(t, k) = FirstOf(w, k)
  PROVE  Holds(t \o LastOf(w, Len(w) - k), w)
<1> DEFINE n == Len(t)
           m == Len(w)
           r == LastOf(w, m - k)
           u == t \o r
<1>1. n \in Nat /\ m \in Nat /\ k \in Nat /\ k <= n /\ k <= m /\ m - k \in 0 .. m
  OBVIOUS
<1>2. r \in Seq(S) /\ Len(r) = m - k /\ \A i \in 1 .. m - k : r[i] = w[k + i]
  <2>1. \A i \in 1 .. m - k : r[i] = w[m - (m - k) + i]
    BY <1>1, EndItems
  <2>2. \A i \in 1 .. m - k : m - (m - k) + i = k + i
    BY <1>1
  <2> QED
    BY <1>1, <2>1, <2>2, EndItems
<1>3. \A i \in 1 .. k : t[(n - k) + i] = w[i]
  <2>1. /\ \A i \in 1 .. k : FirstOf(w, k)[i] = w[i]
        /\ \A i \in 1 .. k : LastOf(t, k)[i] = t[(n - k) + i]
    BY <1>1, EndItems
  <2> QED
    BY <2>1
<1> HIDE DEF r
<1>4. /\ u \in Seq(S) /\ Len(u) = n + (m - k)
      /\ \A i \in 1 .. n : u[i] = t[i]
      /\ \A i \in 1 .. m - k : u[n + i] = r[i]
  <2>1. Len(r) = m - k /\ Len(t) = n
    BY <1>2
  <2>2. u \in Seq(S) /\ Len(u) = Len(t) + Len(r)
    BY <1>2, ConcatProperties
  <2>3. \A i \in 1 .. Len(t) : u[i] = t[i]
    BY <1>2, ConcatProperties
  <2>4. \A i \in 1 .. Len(r) : u[Len(t) + i] = r[i]
    BY <1>2
  <2> QED
    BY <2>1, <2>2, <2>3, <2>4
<1> HIDE DEF u, n, m
<1>5. n - k \in 0 .. Len(u) - m
  BY <1>1, <1>4
<1>6. ASSUME NEW i \in 1 .. m PROVE u[(n - k) + i] = w[i]
  <2>1. CASE i <= k
    <3>1. i \in 1 .. k /\ (n - k) + i \in 1 .. n
      BY <1>1, <2>1
    <3> QED
      BY <1>3, <1>4, <3>1
  <2>2. CASE ~(i <= k)
    <3>1. i - k \in 1 .. m - k /\ n + (i - k) = (n - k) + i /\ k + (i - k) = i
      BY <1>1, <2>2
    <3>2. u[n + (i - k)] = w[k + (i - k)]
      BY <1>2, <1>4, <3>1
    <3> QED
      BY <3>1, <3>2
  <2> QED
    BY <2>1, <2>2
<1>7. Holds(u, w)
  BY <1>4, <1>5, <1>6, HoldsItems DEF m
<1> QED
  BY <1>7 DEF u, r, m

LEMMA HoldsPrepended ==
  ASSUME NEW S, NEW t \in Seq(S), NEW w \in Seq(S), NEW k \in 0 .. Len(t), k <= Len(w),
         LastOf(w, k) = FirstOf(t, k)
  PROVE  Holds(FirstOf(w, Len(w) - k) \o t, w)
<1> DEFINE n == Len(t)
           m == Len(w)
           r == FirstOf(w, m - k)
           u == r \o t
<1>1. n \in Nat /\ m \in Nat /\ k \in Nat /\ k <= n /\ k <= m /\ m - k \in 0 .. m
  OBVIOUS
<1>2. r \in Seq(S) /\ Len(r) = m - k /\ \A i \in 1 .. m - k : r[i] = w[i]
  BY <1>1, EndItems
<1>3. \A i \in 1 .. k : t[i] = w[(m - k) + i]
  <2>1. \A i \in 1 .. k : FirstOf(t, k)[i] = t[i]
    BY <1>1, EndItems
  <2>2. k \in 0 .. Len(w)
    BY <1>1
  <2>3. \A i \in 1 .. k : LastOf(w, k)[i] = w[(m - k) + i]
    BY <2>2, EndItems
  <2> QED
    BY <2>1, <2>3
<1> HIDE DEF r
<1>4. /\ u \in Seq(S) /\ Len(u) = (m - k) + n
      /\ \A i \in 1 .. m - k : u[i] = r[i]
      /\ \A i \in 1 .. n : u[(m - k) + i] = t[i]
  <2>1. Len(r) = m - k /\ Len(t) = n
    BY <1>2
  <2>2. u \in Seq(S) /\ Len(u) = (m - k) + n
    BY <1>2, <2>1, ConcatProperties
  <2>3. \A i \in 1 .. Len(r) : u[i] = r[i]
    BY <1>2, ConcatProperties
  <2>4. \A i \in 1 .. Len(t) : u[Len(r) + i] = t[i]
    BY <1>2
  <2> QED
    BY <2>1, <2>2, <2>3, <2>4
<1> HIDE DEF u, n, m
<1>5. 0 \in 0 .. Len(u) - m
  BY <1>1, <1>4
<1>6. ASSUME NEW i \in 1 .. m PROVE u[0 + i] = w[i]
  <2>1. CASE i <= m - k
    <3>1. i \in 1 .. m - k /\ 0 + i = i
      BY <1>1, <2>1
    <3> QED
      BY <1>2, <1>4, <3>1
  <2>2. CASE ~(i <= m - k)
    <3>1. i - (m - k) \in 1 .. k /\ i - (m - k) \in 1 .. n /\ (m - k) + (i - (m - k)) = 0 + i /\ 0 + i = i
      BY <1>1, <2>2
    <3>2. u[(m - k) + (i - (m - k))] = w[(m - k) + (i - (m - k))]
      BY <1>3, <1>4, <3>1
    <3> QED
      BY <3>1, <3>2
  <2> QED
    BY <2>1, <2>2
<1>7. Holds(u, w)
  BY <1>4, <1>5, <1>6, HoldsItems DEF m
<1> QED
  BY <1>7 DEF u, r, m

-----------------------------------------------------------------------------
(* One join.                                                               *)

Fresh(s) == \A e \in Ends : s.dead[e] => Joins(s, e) = {}

\* The joins of an assembly depend on its text and its bounds and on what is used.
LEMMA LookedJoins ==
  ASSUME NEW s \in Assembly
  PROVE  /\ Looked(s) \in Assembly /\ \A e : Joins(Looked(s), e) = Joins(s, e)
         /\ Looked(s).order = s.order /\ Looked(s).used = s.used /\ Looked(s).text = s.text
         /\ Fresh(s) => Fresh(Looked(s))
<1>1. s.dead \in [Ends -> BOOLEAN]
  BY DEF Assembly
<1> DEFINE d == [e \in Ends |-> s.dead[e] \/ Joins(s, e) = {}]
<1>2. d \in [Ends -> BOOLEAN]
  OBVIOUS
<1> HIDE DEF d
<1>3. Looked(s) = [s EXCEPT !.dead = d]
  BY DEF Looked, d
<1>4. /\ Looked(s) \in Assembly /\ Looked(s).text = s.text /\ Looked(s).used = s.used
      /\ Looked(s).order = s.order /\ Looked(s).first = s.first /\ Looked(s).last = s.last
      /\ Looked(s).dead = d
  BY <1>2, <1>3 DEF Assembly
<1>5. \A e : Joins(Looked(s), e) = Joins(s, e)
  BY <1>4 DEF Joins, Fitting, Overlaps, Near
<1>6. Fresh(s) => Fresh(Looked(s))
  BY <1>4, <1>5 DEF Fresh, d
<1> QED
  BY <1>4, <1>5, <1>6

\* A join of an assembly.
LEMMA JoinFacts ==
  ASSUME NEW s, NEW e \in Ends, NEW m \in Joins(s, e)
  PROVE  /\ m.end = e /\ m.index \in All \ s.used /\ m.overlap \in Overlaps(s, e)
         /\ m.overlap <= Len(Text(m.index)) /\ m.index \in Fitting(s, e, m.overlap)
<1>1. PICK k \in Overlaps(s, e) : m \in {[index |-> i, overlap |-> k, end |-> e] : i \in Fitting(s, e, k)}
  BY Zenon DEF Joins
<1>2. PICK i \in Fitting(s, e, k) : m = [index |-> i, overlap |-> k, end |-> e]
  BY <1>1
<1>3. m.index = i /\ m.overlap = k /\ m.end = e
  BY <1>2
<1>4. i \in All \ s.used /\ k <= Len(Text(i))
  <2>1. k \in Int /\ Len(Text(i)) >= k
    BY <1>2, Type2Assumption DEF Fitting, Overlaps
  <2> QED
    BY <1>2, <2>1 DEF Fitting
<1> QED
  BY <1>1, <1>2, <1>3, <1>4

\* What a join adds is a text.
LEMMA ExtensionType ==
  ASSUME input \in Seq(Fragment), NEW s \in Assembly, NEW e \in Ends, NEW m \in Joins(s, e)
  PROVE  Extension(m) \in Seq(Tokens)
<1>1. /\ m.end = e /\ m.index \in All /\ m.overlap \in Overlaps(s, e)
      /\ m.overlap <= Len(Text(m.index))
  BY JoinFacts
<1>2. m.overlap \in Nat
  BY <1>1, Type2Assumption DEF Overlaps, Assembly
<1>3. Text(m.index) \in Seq(Tokens) /\ Len(Text(m.index)) \in Nat
  BY <1>1, FragmentTypes
<1>4. Len(Text(m.index)) - m.overlap \in 0 .. Len(Text(m.index))
  BY <1>1, <1>2, <1>3
<1> QED
  BY <1>3, <1>4, EndItems DEF Extension, Rest

LEMMA ApplyType ==
  ASSUME input \in Seq(Fragment), NEW s \in Assembly, NEW e \in Ends, NEW m \in Joins(s, e)
  PROVE  Apply(s, m) \in Assembly
<1>1. /\ s.text \in Seq(Tokens) /\ s.used \in SUBSET All /\ s.order \in Seq(All)
      /\ s.first \in Positions /\ s.last \in Positions
  BY DEF Assembly
<1>2. m.index \in All /\ Extension(m) \in Seq(Tokens)
  BY JoinFacts, ExtensionType
<1>3. Joined(s.text, m.end, Extension(m)) \in Seq(Tokens)
  BY <1>1, <1>2, ConcatProperties DEF Joined
<1>4. Min({s.first, Pos(m.index)}) \in Positions /\ Max({s.last, Pos(m.index)}) \in Positions
  BY <1>1, <1>2, FragmentTypes, PositionsInt, PairBounds
<1>5. Append(s.order, m.index) \in Seq(All)
  BY <1>1, <1>2, AppendProperties
<1>6. [f \in Ends |-> s.dead[f] /\ ~Reopens(s, m, f)] \in [Ends -> BOOLEAN]
  OBVIOUS
<1>7. s.used \cup {m.index} \in SUBSET All
  BY <1>1, <1>2
<1> QED
  BY <1>3, <1>4, <1>5, <1>6, <1>7 DEF Apply, Assembly

\* An end that stays dead has no join it did not have before.
LEMMA ApplyFresh ==
  ASSUME input \in Seq(Fragment), NEW s \in Assembly, Fresh(s), NEW d \in Ends, NEW m \in Joins(s, d)
  PROVE  Fresh(Apply(s, m))
<1> DEFINE t == Apply(s, m)
           x == Extension(m)
<1>1. /\ t.text = Joined(s.text, d, x) /\ t.used = s.used \cup {m.index}
      /\ t.first = Min({s.first, Pos(m.index)}) /\ t.last = Max({s.last, Pos(m.index)})
      /\ t.dead = [e \in Ends |-> s.dead[e] /\ ~Reopens(s, m, e)]
      /\ m.end = d /\ m.index \in All
  BY JoinFacts DEF Apply
<1>2. /\ s.text \in Seq(Tokens) /\ Len(s.text) \in Nat /\ x \in Seq(Tokens)
      /\ s.first \in Int /\ s.last \in Int /\ Pos(m.index) \in Int
  BY <1>1, PositionsInt, ExtensionType, FragmentTypes DEF Assembly
<1> HIDE DEF t
<1> SUFFICES ASSUME NEW e \in Ends, t.dead[e], NEW j \in Joins(t, e) PROVE FALSE
  BY DEF Fresh, t
<1>3. s.dead[e] /\ ~Reopens(s, m, e)
  BY <1>1
<1>4. /\ x # <<>> => d # e /\ ~UpToCap(Len(s.text) + 1)
      /\ e = "prepend" => ~(Pos(m.index) < s.first)
      /\ e = "append" => ~(Pos(m.index) > s.last)
  BY <1>1, <1>3 DEF Reopens
<1> DEFINE i == j.index
           k == j.overlap
<1>5. /\ i \in All \ t.used /\ k \in Overlaps(t, e) /\ k <= Len(Text(i)) /\ i \in Fitting(t, e, k)
      /\ j.end = e
  BY JoinFacts
<1> HIDE DEF i, k, x
<1>6. /\ k \in Nat /\ MinOverlap <= k /\ k <= Len(t.text) /\ UpToCap(k)
      /\ ToSet(Edge(t.text, e, k)) \cap Meaningful # {}
  <2>1. t.text \in Seq(Tokens)
    BY <1>1, <1>2, ConcatProperties DEF Joined
  <2> QED
    BY <1>5, <2>1, Type2Assumption DEF Overlaps
<1>7. k <= Len(s.text) /\ Edge(t.text, e, k) = Edge(s.text, e, k)
  <2>1. CASE x = <<>>
    <3>1. t.text = s.text
      BY <1>1, <1>2, <2>1, ConcatEmptySeq DEF Joined
    <3> QED
      BY <1>6, <3>1
  <2>2. CASE x # <<>>
    <3>1. d # e /\ ~(Len(s.text) + 1 <= Len(Text(i)))
      BY <1>4, <1>5, <2>2 DEF UpToCap
    <3>2. Len(Text(i)) \in Nat
      BY <1>5, FragmentTypes
    <3>3. k <= Len(s.text) /\ k \in 0 .. Len(s.text)
      BY <1>2, <1>5, <1>6, <3>1, <3>2
    <3>4. (e = "append" /\ d = "prepend") \/ (e = "prepend" /\ d = "append")
      BY <3>1 DEF Ends
    <3> QED
      BY <1>1, <1>2, <3>3, <3>4, OtherEdge DEF Joined, Edge
  <2> QED
    BY <2>1, <2>2
<1>8. k \in Overlaps(s, e)
  BY <1>2, <1>6, <1>7, Type2Assumption DEF Overlaps
<1>9. Near(s, i, e)
  <2>1. Near(t, i, e)
    BY <1>5 DEF Fitting
  <2>2. ASSUME e = "append" PROVE t.last = s.last
    <3>1. Pos(m.index) <= s.last
      BY <1>2, <1>4, <2>2
    <3>2. Max({s.last, Pos(m.index)}) = (IF s.last <= Pos(m.index) THEN Pos(m.index) ELSE s.last)
      BY <1>2, PairBounds
    <3> QED
      BY <1>1, <1>2, <3>1, <3>2
  <2>3. ASSUME e = "prepend" PROVE t.first = s.first
    <3>1. s.first <= Pos(m.index)
      BY <1>2, <1>4, <2>3
    <3>2. Min({s.first, Pos(m.index)}) = (IF s.first <= Pos(m.index) THEN s.first ELSE Pos(m.index))
      BY <1>2, PairBounds
    <3> QED
      BY <1>1, <1>2, <3>1, <3>2
  <2> QED
    BY <2>1, <2>2, <2>3 DEF Near, Ends
<1>10. i \in Fitting(s, e, k)
  BY <1>1, <1>5, <1>7, <1>9 DEF Fitting
<1>11. [index |-> i, overlap |-> k, end |-> e] \in Joins(s, e)
  BY <1>8, <1>10 DEF Joins
<1> QED
  BY <1>3, <1>11 DEF Fresh

\* What a join adds completes the fragment, and takes nothing from the text.
LEMMA ApplyHolds ==
  ASSUME input \in Seq(Fragment), NEW s \in Assembly, NEW e \in Ends, NEW m \in Joins(s, e)
  PROVE  /\ Holds(Apply(s, m).text, Text(m.index))
         /\ \A w \in Seq(Tokens) : Holds(s.text, w) => Holds(Apply(s, m).text, w)
<1> DEFINE k == m.overlap
           w == Text(m.index)
           t == s.text
           x == Extension(m)
<1>1. /\ m.end = e /\ m.index \in All /\ k \in Overlaps(s, e) /\ k <= Len(w)
      /\ m.index \in Fitting(s, e, k)
  BY JoinFacts
<1>2. t \in Seq(Tokens) /\ w \in Seq(Tokens) /\ x \in Seq(Tokens)
  BY <1>1, FragmentTypes, ExtensionType DEF Assembly
<1>3. k \in 0 .. Len(t) /\ k <= Len(w)
  BY <1>1, <1>2, Type2Assumption DEF Overlaps
<1>4. Shared(w, e, k) = Edge(t, e, k)
  BY <1>1 DEF Fitting
<1>5. x = Rest(w, e, k) /\ Apply(s, m).text = Joined(t, e, x)
  BY <1>1 DEF Extension, Apply
<1> HIDE DEF k, w, t, x
<1>6. CASE e = "append"
  <2>1. x = LastOf(w, Len(w) - k) /\ Apply(s, m).text = t \o x /\ LastOf(t, k) = FirstOf(w, k)
    BY <1>4, <1>5, <1>6 DEF Rest, Joined, Shared, Edge
  <2>2. Holds(t \o LastOf(w, Len(w) - k), w)
    BY <1>2, <1>3, <2>1, HoldsAppended
  <2>3. \A v \in Seq(Tokens) : Holds(t, v) => Holds(t \o x, v)
    BY <1>2, HoldsLonger
  <2> QED
    BY <2>1, <2>2, <2>3 DEF w, t
<1>7. CASE e = "prepend"
  <2>1. x = FirstOf(w, Len(w) - k) /\ Apply(s, m).text = x \o t /\ LastOf(w, k) = FirstOf(t, k)
    BY <1>4, <1>5, <1>7 DEF Rest, Joined, Shared, Edge
  <2>2. Holds(FirstOf(w, Len(w) - k) \o t, w)
    BY <1>2, <1>3, <2>1, HoldsPrepended
  <2>3. \A v \in Seq(Tokens) : Holds(t, v) => Holds(x \o t, v)
    BY <1>2, HoldsLonger
  <2> QED
    BY <2>1, <2>2, <2>3 DEF w, t
<1> QED
  BY <1>6, <1>7 DEF Ends

\* Every step follows joins of the assembly.
LEMMA StepJoins == \A s : \A m \in Step(s) : \E e \in Ends : m \in Joins(s, e)
<1> SUFFICES ASSUME NEW s, NEW m \in Step(s) PROVE \E e \in Ends : m \in Joins(s, e)
  OBVIOUS
<1> DEFINE append == Boundary(s, "append")
           prepend == Boundary(s, "prepend")
<1>1. append \subseteq Joins(s, "append") /\ prepend \subseteq Joins(s, "prepend")
  BY Zenon DEF Boundary, Moves
<1>2. \A M : Preferred(M) \subseteq M
  BY Zenon DEF Preferred, Least
<1>3. Duplicates(s, "append") \subseteq append /\ Duplicates(s, "prepend") \subseteq prepend
  BY Zenon DEF Duplicates
<1> HIDE DEF append, prepend
<1>4. m \in append \cup prepend
  <2> DEFINE duplicates == Duplicates(s, "append") \cup Duplicates(s, "prepend")
             preferred == Preferred(append) \cup Preferred(prepend)
             either == {x \in preferred : \E n \in preferred \ {x} :
                          x.index = n.index /\ Extension(x) # <<>> /\ Extension(n) # <<>>}
  <2>1. \/ m \in Least(duplicates, Order) \/ m \in either
        \/ m \in Least(preferred, LAMBDA x : <<-x.overlap, x.index, IF x.end = "append" THEN 0 ELSE 1>>)
        \/ m \in append \cup prepend
    BY DEF Step, append, prepend
  <2>2. duplicates \subseteq append \cup prepend /\ preferred \subseteq append \cup prepend /\ either \subseteq preferred
    BY <1>2, <1>3
  <2> HIDE DEF duplicates, preferred, either
  <2> QED
    BY <2>1, <2>2 DEF Least
<1> QED
  BY <1>1, <1>4 DEF Ends

\* The text of an assembly holds its fragments.
Whole(s) == \A a \in DOMAIN s.order : Holds(s.text, Text(s.order[a]))

\* An assembly on top of the fragments in base: each fragment of it once, none of base.
Good(s, base) ==
  /\ s \in Assembly /\ Fresh(s) /\ Whole(s)
  /\ base \subseteq s.used
  /\ \A a \in DOMAIN s.order : s.order[a] \in s.used \ base
  /\ \A a, b \in DOMAIN s.order : s.order[a] = s.order[b] => a = b
  /\ \A x \in s.used \ base : \E a \in DOMAIN s.order : s.order[a] = x

LEMMA GoodApplied ==
  ASSUME input \in Seq(Fragment), NEW base, NEW s, Good(s, base), NEW m \in Step(s)
  PROVE  Good(Apply(Looked(s), m), base)
<1>1. PICK e \in Ends : m \in Joins(s, e)
  BY StepJoins
<1> DEFINE l == Looked(s)
           t == Apply(l, m)
<1>2. /\ l \in Assembly /\ m \in Joins(l, e) /\ Fresh(l)
      /\ l.order = s.order /\ l.used = s.used /\ l.text = s.text
  BY <1>1, LookedJoins DEF Good
<1> HIDE DEF l
<1>3. t \in Assembly /\ Fresh(t) /\ m.index \in All \ l.used
  BY <1>2, ApplyType, ApplyFresh, JoinFacts
<1>4. t.order = Append(s.order, m.index) /\ t.used = s.used \cup {m.index} /\ m.index \notin s.used
  BY <1>2, <1>3 DEF Apply
<1>12. Holds(t.text, Text(m.index)) /\ \A w \in Seq(Tokens) : Holds(s.text, w) => Holds(t.text, w)
  BY <1>2, ApplyHolds
<1> HIDE DEF t
<1> DEFINE n == Len(s.order)
           i == m.index
<1>5. s.order \in Seq(All) /\ n \in Nat /\ DOMAIN s.order = 1 .. n /\ i \in All
  BY <1>3 DEF Good, Assembly
<1>6. /\ DOMAIN t.order = 1 .. n + 1 /\ t.order[n + 1] = i
      /\ \A a \in 1 .. n : t.order[a] = s.order[a]
  BY <1>4, <1>5, AppendProperties
<1>7. base \subseteq t.used
  BY <1>4 DEF Good
<1> HIDE DEF n, i
<1>8. \A a \in 1 .. n + 1 : a \in 1 .. n \/ a = n + 1
  BY <1>5
<1>9. \A a \in DOMAIN t.order : t.order[a] \in t.used \ base
  BY <1>4, <1>5, <1>6, <1>8 DEF Good, i
<1>10. \A a, b \in DOMAIN t.order : t.order[a] = t.order[b] => a = b
  BY <1>4, <1>5, <1>6, <1>8 DEF Good, i
<1>11. \A x \in t.used \ base : \E a \in DOMAIN t.order : t.order[a] = x
  <2>1. n + 1 \in 1 .. n + 1 /\ 1 .. n \subseteq 1 .. n + 1
    BY <1>5
  <2> QED
    BY <1>4, <1>5, <1>6, <2>1 DEF Good, i
<1>13. Whole(t)
  <2>1. \A a \in 1 .. n : Holds(s.text, Text(s.order[a])) /\ s.order[a] \in All
    BY <1>5 DEF Good, Whole
  <2>2. \A a \in 1 .. n : Holds(t.text, Text(t.order[a]))
    BY <1>6, <1>12, <2>1, FragmentTypes
  <2>3. Holds(t.text, Text(t.order[n + 1]))
    BY <1>6, <1>12 DEF i
  <2> QED
    BY <1>6, <1>8, <2>2, <2>3 DEF Whole
<1> QED
  BY <1>3, <1>7, <1>9, <1>10, <1>11, <1>13 DEF Good, t, l

LEMMA GoodLooked ==
  ASSUME NEW base, NEW s, Good(s, base) PROVE Good(Looked(s), base)
BY LookedJoins DEF Good, Whole

LEMMA GoodSeed ==
  ASSUME input \in Seq(Fragment), NEW base, base \subseteq All, NEW i \in All \ base
  PROVE  Good(Seed(i, base), base)
<1> DEFINE s == Seed(i, base)
<1>1. /\ s.text = Text(i) /\ s.used = base \cup {i} /\ s.order = <<i>>
      /\ s.dead = [e \in Ends |-> FALSE]
  BY DEF Seed
<1>2. s \in Assembly
  <2>1. <<i>> \in Seq(All) /\ base \cup {i} \in SUBSET All /\ [e \in Ends |-> FALSE] \in [Ends -> BOOLEAN]
    OBVIOUS
  <2> QED
    BY <2>1, FragmentTypes DEF Seed, Assembly
<1> HIDE DEF s
<1>3. Fresh(s)
  BY <1>1 DEF Fresh
<1>4. DOMAIN s.order = {1} /\ s.order[1] = i
  BY <1>1
<1>5. Whole(s)
  <2>1. Text(i) \in Seq(Tokens)
    BY FragmentTypes
  <2>2. Holds(Text(i), Text(i))
    BY <2>1, HoldsItself
  <2> QED
    BY <1>1, <1>4, <2>2 DEF Whole
<1> QED
  BY <1>1, <1>2, <1>3, <1>4, <1>5 DEF Good, s

\* The fragments of an article do not change.
LEMMA SameInput ==
  ASSUME UNCHANGED input
  PROVE  /\ All' = All /\ Assembly' = Assembly
         /\ \A s, e : Joins(s, e)' = Joins(s, e)
         /\ \A s : Whole(s) => Whole(s)'
<1>1. All' = All /\ (\A i : Text(i)' = Text(i)) /\ (\A i : Pos(i)' = Pos(i))
  BY DEF All, Text, Pos
<1>2. \A s, e : Overlaps(s, e)' = Overlaps(s, e)
  BY <1>1 DEF Overlaps, UpToCap
<1>3. \A s, e, k : Fitting(s, e, k)' = Fitting(s, e, k)
  BY <1>1 DEF Fitting, Near
<1>4. \A s : Whole(s) => Whole(s)'
  BY <1>1 DEF Whole, Holds
<1> QED
  BY <1>1, <1>2, <1>3, <1>4 DEF Assembly, Joins

LEMMA GoodSame ==
  ASSUME NEW base, NEW s, Good(s, base), UNCHANGED input PROVE Good(s, base)'
BY SameInput DEF Good, Fresh

\* There are finitely many joins, so the branches have a number.
LEMMA StepFinite ==
  ASSUME input \in Seq(Fragment), NEW s \in Assembly PROVE IsFiniteSet(Step(s))
<1> DEFINE Triples == (All \X (0 .. Len(s.text))) \X Ends
           R == [index : All, overlap : 0 .. Len(s.text), end : Ends]
           f == [p \in Triples |-> [index |-> p[1][1], overlap |-> p[1][2], end |-> p[2]]]
<1>1. Len(s.text) \in Nat /\ MinOverlap \in Nat
  BY Type2Assumption DEF Assembly
<1>2. IsFiniteSet(All) /\ IsFiniteSet(0 .. Len(s.text)) /\ IsFiniteSet(Ends)
  <2>1. IsFiniteSet({"append"}) /\ IsFiniteSet({"prepend"}) /\ Ends = {"append"} \cup {"prepend"}
    BY FS_Singleton DEF Ends
  <2>2. IsFiniteSet(Ends)
    BY <2>1, FS_Union
  <2>3. IsFiniteSet(0 .. Len(s.text))
    BY <1>1, FS_Interval
  <2>4. All = 1 .. Len(input) /\ Len(input) \in Int /\ 1 \in Int
    BY DEF All
  <2>5. IsFiniteSet(All)
    BY <2>4, FS_Interval
  <2> QED
    BY <2>2, <2>3, <2>5
<1>3. IsFiniteSet(Triples)
  BY <1>2, FS_Product
<1>4. f \in Surjection(Triples, R)
  <2>1. \A r \in R : \E p \in Triples : f[p] = r
    <3> SUFFICES ASSUME NEW r \in R PROVE \E p \in Triples : f[p] = r
      OBVIOUS
    <3>1. <<<<r.index, r.overlap>>, r.end>> \in Triples
      OBVIOUS
    <3> QED
      BY <3>1
  <2>2. f \in [Triples -> R]
    OBVIOUS
  <2> QED
    BY <2>1, <2>2 DEF Surjection
<1>5. IsFiniteSet(R)
  BY <1>3, <1>4, FS_Surjection
<1>6. Step(s) \subseteq R
  <2> SUFFICES ASSUME NEW m \in Step(s) PROVE m \in R
    OBVIOUS
  <2>1. PICK e \in Ends : m \in Joins(s, e)
    BY StepJoins
  <2>2. PICK k \in Overlaps(s, e) : m \in {[index |-> i, overlap |-> k, end |-> e] : i \in Fitting(s, e, k)}
    BY <2>1, Zenon DEF Joins
  <2>3. PICK i \in Fitting(s, e, k) : m = [index |-> i, overlap |-> k, end |-> e]
    BY <2>2
  <2>4. k \in 0 .. Len(s.text) /\ i \in All
    BY <1>1, <2>2, <2>3 DEF Overlaps, Fitting
  <2> QED
    BY <2>3, <2>4
<1> QED
  BY <1>5, <1>6, FS_Subset

-----------------------------------------------------------------------------
(* The inductive invariant.                                                *)

Stops == {"all_fragments_merged", "no_confident_overlap", "ambiguous_continuation"}
Phases == {"assemble", "search", "islands", "merge", "done"}

\* What the sections that are finished have placed.
Base == IF sections = <<>> THEN {} ELSE Placed

PlacedOnce ==
  \A i, j \in DOMAIN sections : \A a \in DOMAIN sections[i].part.order :
    \A b \in DOMAIN sections[j].part.order :
      sections[i].part.order[a] = sections[j].part.order[b] => i = j /\ a = b

SectionsOK ==
  /\ sections \in Seq([part : Assembly, stop : Stops])
  /\ PlacedOnce
  /\ \A i \in DOMAIN sections : \A a \in DOMAIN sections[i].part.order : sections[i].part.order[a] \in Base
  /\ \A x \in Base : \E i \in DOMAIN sections : \E a \in DOMAIN sections[i].part.order :
       sections[i].part.order[a] = x
  /\ \A i \in DOMAIN sections : Whole(sections[i].part)

\* An island stands on the sections before it, the search on none.
PhaseOK ==
  /\ phase \in Phases
  /\ phase \in {"assemble", "search"} => sections = <<>> /\ Good(section, {})
  /\ phase = "islands" => sections # <<>> /\ (section # None => Good(section, Base))
  /\ phase \in {"merge", "done"} => section = None /\ Base = All

SearchOK ==
  /\ current # None => Good(current, {})
  /\ complete # None => Good(complete, {})
  /\ pending \in Seq(Assembly)
  /\ \A i \in DOMAIN pending : Good(pending[i], {})

InputOK == input \in Seq(Fragment) /\ input # <<>>

Inv == InputOK /\ SectionsOK /\ PhaseOK /\ SearchOK

LEMMA BaseType == ASSUME SectionsOK PROVE Base \subseteq All
<1>1. CASE sections = <<>>
  BY <1>1 DEF Base
<1>2. CASE sections # <<>>
  <2>1. Len(sections) \in 1 .. Len(sections)
    BY <1>2 DEF SectionsOK
  <2>2. sections[Len(sections)] \in [part : Assembly, stop : Stops]
    <3>1. sections \in Seq([part : Assembly, stop : Stops])
      BY DEF SectionsOK
    <3> QED
      BY <2>1, <3>1, ElementOfSeq
  <2> QED
    BY <1>2, <2>2 DEF Base, Placed, Last, Assembly
<1> QED
  BY <1>1, <1>2

LEMMA InitInv == Init => Inv
<1> SUFFICES ASSUME Init PROVE Inv
  OBVIOUS
<1>1. InputOK
  BY DEF Init, Inputs, InputOK
<1>2. 1 \in All
  BY <1>1 DEF InputOK, All
<1>3. Good(Seed(1, {}), {})
  BY <1>1, <1>2, GoodSeed DEF InputOK
<1>4. SectionsOK
  BY DEF Init, SectionsOK, PlacedOnce, Base
<1> QED
  BY <1>1, <1>3, <1>4 DEF Init, Inv, PhaseOK, Phases, SearchOK

\* Whatever is not changed stays as good as it was.
LEMMA SectionsSame == ASSUME SectionsOK, UNCHANGED <<input, sections>> PROVE SectionsOK' /\ Base' = Base
<1>1. Base' = Base /\ Assembly' = Assembly
  BY SameInput DEF Base, Placed
<1>2. \A i \in DOMAIN sections : Whole(sections[i].part)'
  BY SameInput DEF SectionsOK
<1> QED
  BY <1>1, <1>2 DEF SectionsOK, PlacedOnce

LEMMA GoodOver ==
  ASSUME NEW base, UNCHANGED input PROVE \A s : Good(s, base) => Good(s, base)'
BY GoodSame

LEMMA SearchSame ==
  ASSUME SearchOK, UNCHANGED <<input, current, complete, pending>> PROVE SearchOK'
BY SameInput, GoodOver DEF SearchOK

\* A finished section takes its fragments for good.
LEMMA CloseKeeps ==
  ASSUME InputOK, SectionsOK, NEW s, Good(s, Base), NEW stop \in Stops, Close(s, stop), UNCHANGED input
  PROVE  SectionsOK' /\ PhaseOK' /\ InputOK'
<1> DEFINE n == Len(sections)
           r == [part |-> s, stop |-> stop]
<1>1. s \in Assembly /\ r \in [part : Assembly, stop : Stops] /\ r.part = s
  BY DEF Good
<1>2. /\ sections \in Seq([part : Assembly, stop : Stops]) /\ n \in Nat /\ DOMAIN sections = 1 .. n
      /\ sections' = Append(sections, r) /\ section' = None /\ phase' = "islands"
  BY DEF SectionsOK, Close
<1> HIDE DEF r
<1>3. /\ sections' \in Seq([part : Assembly, stop : Stops]) /\ Len(sections') = n + 1
      /\ DOMAIN sections' = 1 .. n + 1 /\ sections'[n + 1] = r /\ sections' # <<>>
      /\ \A i \in 1 .. n : sections'[i] = sections[i]
  BY <1>1, <1>2, AppendProperties
<1>4. Base' = s.used
  BY <1>1, <1>3 DEF Base, Placed, Last
<1> HIDE DEF n
<1>5. \A i \in 1 .. n + 1 : i \in 1 .. n \/ i = n + 1
  BY <1>2
<1>6. /\ Base \subseteq s.used
      /\ \A a \in DOMAIN s.order : s.order[a] \in s.used \ Base
      /\ \A a, b \in DOMAIN s.order : s.order[a] = s.order[b] => a = b
      /\ \A x \in s.used \ Base : \E a \in DOMAIN s.order : s.order[a] = x
  BY DEF Good
<1>7. PlacedOnce'
  <2> SUFFICES ASSUME NEW i \in 1 .. n + 1, NEW j \in 1 .. n + 1,
                      NEW a \in DOMAIN sections'[i].part.order, NEW b \in DOMAIN sections'[j].part.order,
                      sections'[i].part.order[a] = sections'[j].part.order[b]
               PROVE  i = j /\ a = b
    BY <1>3 DEF PlacedOnce
  <2>1. CASE i \in 1 .. n /\ j \in 1 .. n
    <3>1. sections'[i] = sections[i] /\ sections'[j] = sections[j]
      BY <1>3, <2>1
    <3>2. /\ a \in DOMAIN sections[i].part.order /\ b \in DOMAIN sections[j].part.order
          /\ sections[i].part.order[a] = sections[j].part.order[b]
      BY <3>1
    <3>3. i \in DOMAIN sections /\ j \in DOMAIN sections
      BY <1>2, <2>1
    <3>4. PlacedOnce
      BY DEF SectionsOK
    <3> QED
      BY <3>2, <3>3, <3>4 DEF PlacedOnce
  <2>2. CASE i = n + 1 /\ j = n + 1
    BY <1>1, <1>3, <1>6, <2>2
  <2>3. CASE i \in 1 .. n /\ j = n + 1
    BY <1>1, <1>2, <1>3, <1>6, <2>3 DEF SectionsOK
  <2>4. CASE i = n + 1 /\ j \in 1 .. n
    BY <1>1, <1>2, <1>3, <1>6, <2>4 DEF SectionsOK
  <2> QED
    BY <1>5, <2>1, <2>2, <2>3, <2>4
<1>8. \A i \in DOMAIN sections' : \A a \in DOMAIN sections'[i].part.order : sections'[i].part.order[a] \in Base'
  <2>1. ASSUME NEW i \in 1 .. n, NEW a \in DOMAIN sections'[i].part.order
        PROVE  sections'[i].part.order[a] \in s.used
    BY <1>2, <1>3, <1>6, <2>1 DEF SectionsOK
  <2>2. ASSUME NEW a \in DOMAIN r.part.order PROVE r.part.order[a] \in s.used
    BY <1>1, <1>6, <2>2
  <2> QED
    BY <1>3, <1>4, <1>5, <2>1, <2>2
<1>9. \A x \in Base' : \E i \in DOMAIN sections' : \E a \in DOMAIN sections'[i].part.order :
        sections'[i].part.order[a] = x
  <2>0. n + 1 \in 1 .. n + 1 /\ 1 .. n \subseteq 1 .. n + 1
    BY <1>2
  <2>1. ASSUME NEW x \in s.used, x \in Base
        PROVE  \E i \in DOMAIN sections' : \E a \in DOMAIN sections'[i].part.order :
                 sections'[i].part.order[a] = x
    <3>1. PICK i \in 1 .. n : \E a \in DOMAIN sections[i].part.order : sections[i].part.order[a] = x
      BY <1>2, <2>1 DEF SectionsOK
    <3> QED
      BY <1>3, <2>0, <3>1
  <2>2. ASSUME NEW x \in s.used, x \notin Base
        PROVE  \E i \in DOMAIN sections' : \E a \in DOMAIN sections'[i].part.order :
                 sections'[i].part.order[a] = x
    <3>1. \E a \in DOMAIN r.part.order : r.part.order[a] = x
      BY <1>1, <1>6, <2>2
    <3> QED
      BY <1>3, <2>0, <3>1
  <2> QED
    BY <1>4, <2>1, <2>2
<1>11. \A i \in DOMAIN sections' : Whole(sections'[i].part)
  <2>1. \A i \in 1 .. n : Whole(sections[i].part)
    BY <1>2 DEF SectionsOK
  <2>2. Whole(s)
    BY DEF Good
  <2> QED
    BY <1>1, <1>3, <1>5, <2>1, <2>2
<1>12. \A i \in DOMAIN sections' : Whole(sections[i].part)'
  BY <1>11, SameInput
<1>10. SectionsOK'
  BY <1>3, <1>7, <1>8, <1>9, <1>12, SameInput DEF SectionsOK
<1> QED
  BY <1>2, <1>3, <1>10 DEF PhaseOK, Phases, InputOK

\* The steps: the assembly that grows is good over the sections before it.
LEMMA SectionOver ==
  ASSUME Inv, section # None, phase \in {"assemble", "search", "islands"}
  PROVE  Good(section, Base) /\ (phase # "islands" => Base = {})
BY DEF Inv, PhaseOK, Base

LEMMA ExtendInv == ASSUME Inv, Extend PROVE Inv'
<1>1. PICK m \in Step(section) : section' = Apply(Looked(section), m)
  BY DEF Extend
<1>2. Good(section, Base) /\ (phase # "islands" => Base = {})
  BY SectionOver DEF Extend
<1>3. Good(section', Base)
  BY <1>1, <1>2, GoodApplied DEF Inv, InputOK
<1>4. UNCHANGED <<input, phase, sections, current, complete, pending>>
  BY DEF Extend, searchVars
<1>5. SectionsOK' /\ Base' = Base
  BY <1>4, SectionsSame DEF Inv
<1>6. SearchOK' /\ InputOK'
  BY <1>4, SearchSame DEF Inv, InputOK
<1>7. Good(section, Base)'
  <2>1. \A s : Good(s, Base) => Good(s, Base)'
    BY <1>4, <1>5, GoodOver
  <2> QED
    BY <1>3, <2>1
<1> QED
  BY <1>2, <1>4, <1>5, <1>6, <1>7 DEF Inv, PhaseOK, Extend

LEMMA FinishAssemblyInv == ASSUME Inv, FinishAssembly PROVE Inv'
<1>1. phase = "assemble" /\ Close(section, Stuck(section)) /\ UNCHANGED <<input, current, complete, pending>>
  BY DEF FinishAssembly, searchVars
<1>2. Good(section, Base) /\ Stuck(section) \in Stops
  BY <1>1 DEF Inv, PhaseOK, Base, Stuck, Stops
<1>3. SectionsOK' /\ PhaseOK' /\ InputOK'
  BY <1>1, <1>2, CloseKeeps DEF Inv
<1> QED
  BY <1>1, <1>3, SearchSame DEF Inv

LEMMA AmbiguousInv == ASSUME Inv, Ambiguous PROVE Inv'
<1>0. PICK l : l = Looked(section)
  OBVIOUS
<1>1. phase = "assemble" /\ UNCHANGED <<input, current, complete>>
  BY DEF Ambiguous
<1>2. Good(section, {}) /\ sections = <<>> /\ Base = {}
  BY <1>1 DEF Inv, PhaseOK, Base
<1>3. Good(l, {})
  BY <1>0, <1>2, GoodLooked
<1>4. Good(l, {})'
  BY <1>1, <1>3, GoodSame
<1>5. CASE budget = 0
  <2>1. Close(l, "ambiguous_continuation") /\ UNCHANGED pending
    BY <1>0, <1>5 DEF Ambiguous
  <2>2. SectionsOK' /\ PhaseOK' /\ InputOK'
    BY <1>1, <1>2, <1>3, <2>1, CloseKeeps DEF Inv, Stops
  <2> QED
    BY <1>1, <2>1, <2>2, SearchSame DEF Inv
<1>6. CASE budget # 0
  <2>1. phase' = "search" /\ section' = l /\ pending' = <<l>> /\ UNCHANGED sections
    BY <1>0, <1>6 DEF Ambiguous
  <2>2. SectionsOK' /\ InputOK'
    BY <1>1, <2>1, SectionsSame DEF Inv, InputOK
  <2>3. PhaseOK'
    BY <1>2, <1>4, <2>1 DEF PhaseOK, Phases
  <2>4. l \in Assembly'
    BY <1>4 DEF Good
  <2>5. /\ pending' \in Seq(Assembly') /\ DOMAIN pending' = {1} /\ pending'[1] = l
    BY <2>1, <2>4
  <2>6. /\ current # None => Good(current, {})'
        /\ complete # None => Good(complete, {})'
    BY <1>1, GoodOver DEF Inv, SearchOK
  <2>7. SearchOK'
    BY <1>1, <1>4, <2>5, <2>6 DEF SearchOK
  <2> QED
    BY <2>2, <2>3, <2>7 DEF Inv
<1> QED
  BY <1>5, <1>6

\* The search leaves the primary text alone until it ends.
LEMMA SearchBase == ASSUME Inv, phase = "search" PROVE Good(section, {}) /\ Base = {}
BY DEF Inv, PhaseOK, Base

LEMMA Searches ==
  ASSUME Inv, phase = "search", UNCHANGED <<input, phase, section, sections>>
  PROVE  SectionsOK' /\ PhaseOK' /\ InputOK'
<1>1. SectionsOK' /\ InputOK'
  BY SectionsSame DEF Inv, InputOK
<1>2. Good(section, {})'
  <2>1. \A s : Good(s, {}) => Good(s, {})'
    BY GoodSame
  <2> QED
    BY <2>1, SearchBase
<1>3. sections = <<>>
  BY DEF Inv, PhaseOK
<1> QED
  BY <1>1, <1>2, <1>3 DEF PhaseOK, Phases

LEMMA EndInv ==
  ASSUME Inv, phase = "search", UNCHANGED input, NEW s, Good(s, {}), NEW stop \in Stops, Close(s, stop),
         current' = None, pending' = <<>>, complete' = None
  PROVE  Inv'
<1>1. SectionsOK' /\ PhaseOK' /\ InputOK'
  BY SearchBase, CloseKeeps DEF Inv
<1>2. SearchOK'
  BY DEF SearchOK
<1> QED
  BY <1>1, <1>2 DEF Inv

LEMMA GiveUpInv ==
  ASSUME Inv, phase = "search", UNCHANGED input, NEW why, GiveUp(why) PROVE Inv'
BY SearchBase, EndInv DEF GiveUp, Stops

LEMMA AnswerInv ==
  ASSUME Inv, phase = "search", UNCHANGED input, NEW s, Good(s, {}), Answer(s) PROVE Inv'
BY EndInv DEF Answer, Stops

LEMMA PopInv == ASSUME Inv, Pop PROVE Inv'
<1> DEFINE n == Len(pending)
<1>1. /\ phase = "search" /\ pending # <<>> /\ current' = Last(pending) /\ pending' = Front(pending)
      /\ UNCHANGED <<input, phase, section, sections, complete>>
  BY DEF Pop
<1>2. pending \in Seq(Assembly) /\ \A i \in DOMAIN pending : Good(pending[i], {})
  BY DEF Inv, SearchOK
<1>3. n \in Nat \ {0} /\ DOMAIN pending = 1 .. n
  BY <1>1, <1>2
<1>4. /\ Front(pending) \in Seq(Assembly) /\ DOMAIN Front(pending) = 1 .. n - 1
      /\ \A i \in 1 .. n - 1 : Front(pending)[i] = pending[i]
  BY <1>1, <1>2, <1>3, SubSeqProperties DEF Front
<1>5. \A s : Good(s, {}) => Good(s, {})'
  BY <1>1, GoodSame
<1>6. Good(current, {})'
  BY <1>1, <1>2, <1>3, <1>5 DEF Last
<1>7. pending' \in Seq(Assembly') /\ \A i \in DOMAIN pending' : Good(pending[i], {})'
  <2>1. Assembly' = Assembly
    BY <1>1, SameInput
  <2>2. ASSUME NEW i \in DOMAIN pending' PROVE Good(pending'[i], {})
    BY <1>1, <1>2, <1>3, <1>4
  <2> QED
    BY <1>1, <1>4, <1>5, <2>1, <2>2
<1>8. SearchOK'
  BY <1>1, <1>5, <1>6, <1>7 DEF Inv, SearchOK
<1> QED
  BY <1>1, <1>8, Searches DEF Inv

\* A step that keeps the stack.
LEMMA StackKept ==
  ASSUME Inv, phase = "search", UNCHANGED <<input, phase, section, sections, pending>>,
         current' = None \/ Good(current', {}), complete' = None \/ Good(complete', {})
  PROVE  Inv'
<1>1. \A s : Good(s, {}) => Good(s, {})'
  BY GoodSame
<1>2. SearchOK'
  BY <1>1, SameInput DEF Inv, SearchOK
<1> QED
  BY <1>2, Searches DEF Inv

LEMMA SolvedInv == ASSUME Inv, Solved PROVE Inv'
<1>1. phase = "search" /\ UNCHANGED input /\ Good(current, {}) /\ (complete # None => Good(complete, {}))
  BY DEF Solved, Inv, SearchOK
<1>2. CASE complete # None /\ complete.text # current.text
  BY <1>1, <1>2, GiveUpInv DEF Solved
<1>3. CASE ~(complete # None /\ complete.text # current.text)
  <2>1. /\ complete' = (IF complete = None THEN current ELSE complete) /\ current' = None
        /\ UNCHANGED <<phase, section, sections, pending>>
    BY <1>3 DEF Solved
  <2> QED
    BY <1>1, <2>1, StackKept
<1> QED
  BY <1>2, <1>3

LEMMA FollowInv == ASSUME Inv, Follow PROVE Inv'
<1>1. /\ phase = "search" /\ Good(current, {}) /\ (complete = None \/ Good(complete, {}))
      /\ UNCHANGED <<input, phase, section, sections, pending, complete>>
  BY DEF Follow, Searching, Inv, SearchOK
<1>2. current' = None \/ Good(current', {})
  <2>1. ASSUME NEW m \in Step(current), current' = Apply(Looked(current), m) PROVE Good(current', {})
    BY <1>1, <2>1, GoodApplied DEF Inv, InputOK
  <2> QED
    BY <2>1 DEF Follow
<1> QED
  BY <1>1, <1>2, StackKept

LEMMA RepeatedInv == ASSUME Inv, Repeated PROVE Inv'
<1>1. /\ phase = "search" /\ (complete = None \/ Good(complete, {})) /\ current' = None
      /\ UNCHANGED <<input, phase, section, sections, pending, complete>>
  BY DEF Repeated, Searching, Inv, SearchOK
<1> QED
  BY <1>1, StackKept

LEMMA RunOutInv == ASSUME Inv, RunOut PROVE Inv'
BY GiveUpInv DEF RunOut, Exhausted

LEMMA ExploredInv == ASSUME Inv, Explored PROVE Inv'
<1>1. phase = "search" /\ UNCHANGED input /\ (complete # None => Good(complete, {}))
  BY DEF Explored, Inv, SearchOK
<1>2. CASE complete = None
  BY <1>1, <1>2, GiveUpInv DEF Explored
<1>3. CASE complete # None
  <2>1. Answer(complete)
    BY <1>3 DEF Explored
  <2> QED
    BY <1>1, <1>3, <2>1, AnswerInv
<1> QED
  BY <1>2, <1>3

LEMMA BranchInv == ASSUME Inv, Branch PROVE Inv'
<1>1. /\ phase = "search" /\ current # None /\ current' = None
      /\ UNCHANGED <<input, phase, section, sections, complete>>
  BY DEF Branch, Searching
<1>2. Good(current, {}) /\ (complete # None => Good(complete, {})) /\ current \in Assembly
  BY <1>1 DEF Inv, SearchOK, Good
<1>3. PICK moves \in InOrder(Step(current)) :
        pending' = pending \o [i \in DOMAIN moves |-> Apply(Looked(current), moves[i])]
  BY DEF Branch
<1> DEFINE c == Cardinality(Step(current))
<1>4. c \in Nat
  BY <1>2, StepFinite, FS_CardinalityType DEF Inv, InputOK
<1>5. moves \in [1 .. c -> Step(current)]
  BY <1>3, Zenon DEF InOrder, Sorted, SetToSeqs
<1> HIDE DEF c
<1> DEFINE b == [i \in DOMAIN moves |-> Apply(Looked(current), moves[i])]
<1>6. \A i \in 1 .. c : Good(b[i], {})
  BY <1>2, <1>5, GoodApplied DEF Inv, InputOK
<1>7. b \in Seq(Assembly) /\ Len(b) = c /\ DOMAIN b = 1 .. c
  <2>1. DOMAIN b = 1 .. c
    BY <1>5
  <2>2. \A i \in 1 .. c : b[i] \in Assembly
    BY <1>6 DEF Good
  <2>3. b = [i \in 1 .. c |-> b[i]]
    BY <1>5
  <2> HIDE DEF b
  <2>4. b \in [1 .. c -> Assembly]
    BY <2>1, <2>2, <2>3
  <2> QED
    BY <1>4, <2>1, <2>4
<1>8. pending \in Seq(Assembly) /\ \A i \in DOMAIN pending : Good(pending[i], {})
  BY DEF Inv, SearchOK
<1>9. pending' = pending \o b
  BY <1>3
<1> HIDE DEF b
<1>10. pending \o b \in Seq(Assembly) /\ \A i \in DOMAIN (pending \o b) : Good((pending \o b)[i], {})
  <2>1. pending \o b \in Seq(Assembly)
    BY <1>7, <1>8, ConcatProperties
  <2>2. ASSUME NEW i \in DOMAIN (pending \o b)
        PROVE  \/ i \in DOMAIN pending /\ (pending \o b)[i] = pending[i]
               \/ i - Len(pending) \in 1 .. c /\ (pending \o b)[i] = b[i - Len(pending)]
    BY <1>4, <1>7, <1>8, ConcatProperties
  <2> QED
    BY <1>6, <1>8, <2>1, <2>2
<1>11. \A s : Good(s, {}) => Good(s, {})'
  BY <1>1, GoodSame
<1>12. SearchOK'
  <2>1. Assembly' = Assembly
    BY <1>1, SameInput
  <2>2. \A i \in DOMAIN pending' : Good(pending[i], {})'
    BY <1>9, <1>10, <1>11
  <2> QED
    BY <1>1, <1>2, <1>9, <1>10, <1>11, <2>1, <2>2 DEF SearchOK
<1> QED
  BY <1>1, <1>12, Searches DEF Inv

LEMMA SearchInv == ASSUME Inv, Search PROVE Inv'
BY PopInv, SolvedInv, FollowInv, RepeatedInv, BranchInv, RunOutInv, ExploredInv, Zenon DEF Search

\* The search is over: islands, and the sections in one text.
LEMMA SearchKept == ASSUME Inv, UNCHANGED <<input, searchVars>> PROVE SearchOK'
BY SearchSame DEF Inv, searchVars

LEMMA OpenInv == ASSUME Inv, Open PROVE Inv'
<1>1. phase = "islands" /\ UNCHANGED <<input, phase, sections, searchVars>>
  BY DEF Open
<1>2. PICK i \in All \ Placed : section' = Seed(i, Placed)
  BY DEF Open
<1>3. Base = Placed /\ Base \subseteq All
  BY <1>1, BaseType DEF Inv, PhaseOK, Base
<1>4. Good(section', Base)
  BY <1>2, <1>3, GoodSeed DEF Inv, InputOK
<1>5. SectionsOK' /\ Base' = Base /\ InputOK'
  BY <1>1, SectionsSame DEF Inv, InputOK
<1>6. Good(section, Base)'
  <2>1. \A s : Good(s, Base) => Good(s, Base)'
    BY <1>1, <1>5, GoodOver
  <2> QED
    BY <1>4, <2>1
<1>7. PhaseOK'
  BY <1>1, <1>6 DEF Inv, PhaseOK, Phases
<1> QED
  BY <1>1, <1>5, <1>7, SearchKept DEF Inv

LEMMA CloseIslandInv == ASSUME Inv, CloseIsland PROVE Inv'
<1>1. /\ phase = "islands" /\ section # None /\ UNCHANGED <<input, searchVars>>
      /\ Close(section, IF Step(section) = {} THEN "no_confident_overlap" ELSE "ambiguous_continuation")
  BY DEF CloseIsland
<1>2. Good(section, Base)
  BY <1>1 DEF Inv, PhaseOK
<1>3. SectionsOK' /\ PhaseOK' /\ InputOK'
  BY <1>1, <1>2, CloseKeeps DEF Inv, Stops
<1> QED
  BY <1>1, <1>3, SearchKept DEF Inv

\* The best-effort text is made of the sections, and changes none.
LEMMA SectionsDone ==
  ASSUME Inv, section = None, Base = All, phase' \in {"merge", "done"},
         UNCHANGED <<input, section, sections, searchVars>>
  PROVE  Inv'
<1>1. SectionsOK' /\ Base' = Base /\ InputOK'
  BY SectionsSame DEF Inv, InputOK
<1>2. All' = All
  BY SameInput
<1>3. PhaseOK'
  BY <1>1, <1>2 DEF PhaseOK, Phases
<1> QED
  BY <1>1, <1>3, SearchKept DEF Inv

LEMMA SeededInv == ASSUME Inv, Seeded PROVE Inv'
<1>1. /\ phase = "islands" /\ section = None /\ Placed = All /\ phase' = "merge"
      /\ UNCHANGED <<input, section, sections, searchVars>>
  BY DEF Seeded
<1>2. Base = All
  BY <1>1 DEF Inv, PhaseOK, Base
<1> QED
  BY <1>1, <1>2, SectionsDone

LEMMA MergeInv == ASSUME Inv, MergeHeld \/ MergeOverlapping \/ MergeUnsupported PROVE Inv'
<1>1. phase = "merge" /\ UNCHANGED <<input, phase, section, sections, searchVars>>
  BY DEF MergeHeld, MergeOverlapping, MergeUnsupported, Merging, Take
<1>2. section = None /\ Base = All
  BY <1>1 DEF Inv, PhaseOK
<1> QED
  BY <1>1, <1>2, SectionsDone

LEMMA FinishInv == ASSUME Inv, Finish PROVE Inv'
<1>1. phase = "merge" /\ phase' = "done" /\ UNCHANGED <<input, section, sections, searchVars>>
  BY DEF Finish
<1>2. section = None /\ Base = All
  BY <1>1 DEF Inv, PhaseOK
<1> QED
  BY <1>1, <1>2, SectionsDone

LEMMA StutterInv == ASSUME Inv, UNCHANGED vars PROVE Inv'
<1>1. UNCHANGED <<input, phase, section, sections, current, pending, complete>>
  BY DEF vars, searchVars
<1>2. SectionsOK' /\ Base' = Base /\ InputOK' /\ SearchOK'
  BY <1>1, SectionsSame, SearchSame DEF Inv, InputOK
<1>3. PhaseOK'
  <2>1. All' = All
    BY <1>1, SameInput
  <2>2. \A s : (Good(s, {}) => Good(s, {})') /\ (Good(s, Base) => Good(s, Base)')
    BY <1>1, <1>2, GoodOver
  <2> QED
    BY <1>1, <1>2, <2>1, <2>2 DEF Inv, PhaseOK
<1> QED
  BY <1>2, <1>3 DEF Inv

LEMMA NextInv == Inv /\ [Next]_vars => Inv'
<1> SUFFICES ASSUME Inv, [Next]_vars PROVE Inv'
  OBVIOUS
<1>1. CASE Extend
  BY <1>1, ExtendInv
<1>2. CASE FinishAssembly
  BY <1>2, FinishAssemblyInv
<1>3. CASE Ambiguous
  BY <1>3, AmbiguousInv
<1>4. CASE Search
  BY <1>4, SearchInv
<1>5. CASE Open
  BY <1>5, OpenInv
<1>6. CASE CloseIsland
  BY <1>6, CloseIslandInv
<1>7. CASE BestEffort
  BY <1>7, SeededInv, MergeInv, FinishInv DEF BestEffort
<1>8. CASE UNCHANGED vars
  BY <1>8, StutterInv
<1> QED
  BY <1>1, <1>2, <1>3, <1>4, <1>5, <1>6, <1>7, <1>8 DEF Next, Finished

(* The inductive invariant of the assembly, the search and the islands. *)
THEOREM Invariant == Spec => []Inv
BY InitInv, NextInv, PTL DEF Spec

-----------------------------------------------------------------------------
(* The best-effort text: overlaps.                                         *)

Less == {p \in Nat \X Nat : p[1] < p[2]}

LEMMA LessWellFounded == IsWellFoundedOn(Less, Nat)
<1>1. OpToRel(<, Nat) = Less
  BY Zenon DEF OpToRel, Less
<1> QED
  BY <1>1, NatLessThanWellFounded, Zenon

\* Max finds the greatest of any numbers that have a bound.
LEMMA MaxBounded ==
  ASSUME NEW n \in Nat, NEW S, S \subseteq 0 .. n, S # {}
  PROVE  Max(S) \in S
<1> DEFINE D == {n - x : x \in S}
<1>1. D \subseteq Nat /\ D # {}
  <2>1. \A x \in S : n - x \in Nat
    <3>1. \A x \in 0 .. n : n - x \in Nat
      OBVIOUS
    <3> QED
      BY <3>1
  <2>2. D \subseteq Nat
    BY <2>1
  <2>3. PICK x \in S : TRUE
    OBVIOUS
  <2>4. n - x \in D
    BY <2>3
  <2> QED
    BY <2>2, <2>4
<1> HIDE DEF D
<1>2. PICK d \in D : \A y \in D : ~(<<y, d>> \in Less)
  BY <1>1, LessWellFounded, WFMin, Zenon
<1>3. PICK m \in S : d = n - m
  BY <1>2 DEF D
<1>4. ASSUME NEW x \in S PROVE m >= x
  <2>1. n - x \in D /\ d \in D
    BY <1>2 DEF D
  <2>2. <<n - x, d>> \in Nat \X Nat /\ <<n - x, d>>[1] = n - x /\ <<n - x, d>>[2] = d
    BY <1>1, <2>1
  <2>3. ~(n - x < d)
    BY <1>2, <2>1, <2>2 DEF Less
  <2> QED
    BY <1>3, <2>3
<1> QED
  BY <1>4 DEF Max

\* What is matched is an end of the text and a beginning of the section.
LEMMA MatchedOverlap ==
  ASSUME NEW S, NEW t \in Seq(S), NEW w \in Seq(S), ~Holds(t, w)
  PROVE  /\ Matched(t, w) \in 0 .. Len(t) /\ Matched(t, w) <= Len(w)
         /\ LastOf(t, Matched(t, w)) = FirstOf(w, Matched(t, w))
<1> DEFINE b == Min({Len(t), Len(w)})
           K == {k \in 0 .. b : LastOf(t, k) = FirstOf(w, k)}
<1>1. Len(t) \in Nat /\ Len(w) \in Nat
  OBVIOUS
<1>2. b = (IF Len(t) <= Len(w) THEN Len(t) ELSE Len(w))
  BY <1>1, PairBounds
<1> HIDE DEF b
<1>3. b \in Nat /\ b <= Len(t) /\ b <= Len(w)
  BY <1>1, <1>2
<1>4. 0 \in K
  <2>1. LastOf(t, 0) = <<>> /\ FirstOf(w, 0) = <<>>
    BY <1>1, EndItems, EmptySeq
  <2> QED
    BY <1>3, <2>1
<1>5. K \subseteq 0 .. b
  OBVIOUS
<1>6. Matched(t, w) = Max(K)
  BY DEF Matched, b
<1>7. Max(K) \in K
  <2> HIDE DEF K
  <2> QED
    BY <1>3, <1>4, <1>5, MaxBounded
<1> QED
  BY <1>1, <1>3, <1>6, <1>7

-----------------------------------------------------------------------------
(* The best-effort text: breaks, and what is joined or waits.              *)

Methods == {"seed", "contained", "overlap_estimate", "position_only"}

\* A list of joins of sections in D.
Joints(D) == Seq([section : D, method : Methods, overlap : Nat])

Breaks(t) == {i \in DOMAIN t : t[i] = Break}
Guesses(q) == {a \in DOMAIN q : q[a].method = "position_only"}

Marked == Tokens \cup {Break}

\* A section's text has no break.
LEMMA BreaksAppended ==
  ASSUME NEW t \in Seq(Marked), NEW w \in Seq(Tokens)
  PROVE  /\ t \o w \in Seq(Marked) /\ Breaks(t \o w) = Breaks(t)
         /\ IsFiniteSet(Breaks(t)) /\ Breaks(w) = {}
<1>0. Break \notin Tokens
  BY Type2Assumption
<1>1. w \in Seq(Marked)
  BY DEF Marked
<1>2. t \o w \in Seq(Marked) /\ Len(t \o w) = Len(t) + Len(w) /\ Len(t) \in Nat /\ Len(w) \in Nat
  BY <1>1, ConcatProperties
<1>3. \A i \in 1 .. Len(w) : w[i] # Break
  BY <1>0
<1>4. \A i \in 1 .. Len(t) : (t \o w)[i] = t[i]
  BY <1>1, ConcatProperties
<1>5. ASSUME NEW i \in 1 .. Len(t) + Len(w), i \notin 1 .. Len(t) PROVE (t \o w)[i] # Break
  <2>1. i - Len(t) \in 1 .. Len(w) /\ (t \o w)[i] = w[i - Len(t)]
    BY <1>1, <1>2, <1>5, ConcatProperties
  <2> QED
    BY <1>3, <2>1
<1>6. DOMAIN (t \o w) = 1 .. Len(t) + Len(w) /\ DOMAIN t = 1 .. Len(t) /\ DOMAIN w = 1 .. Len(w)
  BY <1>2
<1>7. 1 .. Len(t) \subseteq 1 .. Len(t) + Len(w)
  BY <1>2
<1>8. Breaks(t \o w) = Breaks(t)
  BY <1>4, <1>5, <1>6, <1>7 DEF Breaks
<1>9. IsFiniteSet(Breaks(t))
  <2>1. IsFiniteSet(1 .. Len(t))
    BY <1>2, FS_Interval
  <2> QED
    BY <1>6, <2>1, FS_Subset DEF Breaks
<1> QED
  BY <1>2, <1>3, <1>6, <1>8, <1>9 DEF Breaks

\* One break more.
LEMMA BreakAdded ==
  ASSUME NEW t \in Seq(Marked)
  PROVE  /\ t \o <<Break>> \in Seq(Marked)
         /\ Cardinality(Breaks(t \o <<Break>>)) = Cardinality(Breaks(t)) + 1
<1> DEFINE u == t \o <<Break>>
           n == Len(t)
<1>1. n \in Nat /\ <<Break>> \in Seq(Marked) /\ DOMAIN t = 1 .. n
  BY DEF Marked
<1>2. u \in Seq(Marked) /\ Len(u) = n + 1 /\ (\A i \in 1 .. n : u[i] = t[i]) /\ u[n + 1] = Break
  BY <1>1, ConcatProperties
<1>3. DOMAIN u = 1 .. n + 1 /\ (\A i \in 1 .. n + 1 : i \in 1 .. n \/ i = n + 1)
      /\ 1 .. n \subseteq 1 .. n + 1 /\ n + 1 \in 1 .. n + 1 /\ n + 1 \notin 1 .. n
  BY <1>1, <1>2
<1> HIDE DEF u, n
<1>4. Breaks(u) = Breaks(t) \cup {n + 1} /\ n + 1 \notin Breaks(t)
  BY <1>1, <1>2, <1>3 DEF Breaks
<1>5. IsFiniteSet(Breaks(t))
  <2>1. IsFiniteSet(1 .. n)
    BY <1>1, FS_Interval
  <2> QED
    BY <1>1, <2>1, FS_Subset DEF Breaks
<1> QED
  BY <1>2, <1>4, <1>5, FS_AddElement DEF u

LEMMA GuessAdded ==
  ASSUME NEW D, NEW q \in Joints(D), NEW j \in [section : D, method : Methods, overlap : Nat]
  PROVE  /\ Append(q, j) \in Joints(D)
         /\ Cardinality(Guesses(Append(q, j))) =
              Cardinality(Guesses(q)) + (IF j.method = "position_only" THEN 1 ELSE 0)
<1> DEFINE R == [section : D, method : Methods, overlap : Nat]
           p == Append(q, j)
           n == Len(q)
<1> HIDE DEF R
<1>1. q \in Seq(R) /\ j \in R
  BY DEF Joints, R
<1>2. n \in Nat /\ DOMAIN q = 1 .. n
  BY <1>1
<1>3. p \in Seq(R) /\ Len(p) = n + 1 /\ (\A i \in 1 .. n : p[i] = q[i]) /\ p[n + 1] = j
  BY <1>1, AppendProperties
<1>4. DOMAIN p = 1 .. n + 1 /\ (\A i \in 1 .. n + 1 : i \in 1 .. n \/ i = n + 1)
      /\ 1 .. n \subseteq 1 .. n + 1 /\ n + 1 \in 1 .. n + 1 /\ n + 1 \notin 1 .. n
  BY <1>2, <1>3
<1> HIDE DEF p, n
<1>5. /\ Guesses(p) = (IF j.method = "position_only" THEN Guesses(q) \cup {n + 1} ELSE Guesses(q))
      /\ n + 1 \notin Guesses(q)
  BY <1>2, <1>3, <1>4 DEF Guesses
<1>6. IsFiniteSet(Guesses(q)) /\ Cardinality(Guesses(q)) \in Nat
  <2>1. IsFiniteSet(1 .. n)
    BY <1>2, FS_Interval
  <2>2. IsFiniteSet(Guesses(q))
    BY <1>2, <2>1, FS_Subset DEF Guesses
  <2> QED
    BY <2>2, FS_CardinalityType
<1>7. Cardinality(Guesses(q) \cup {n + 1}) = Cardinality(Guesses(q)) + 1
  BY <1>5, <1>6, FS_AddElement
<1>8. p \in Joints(D)
  BY <1>3 DEF Joints, R
<1> QED
  BY <1>5, <1>6, <1>7, <1>8 DEF p

\* Every section of D is in q or waits in r, and is so once.
Parted(q, r, D) ==
  /\ \A a, b \in DOMAIN q : q[a].section = q[b].section => a = b
  /\ \A a, b \in DOMAIN r : r[a] = r[b] => a = b
  /\ \A a \in DOMAIN q : \A b \in DOMAIN r : q[a].section # r[b]
  /\ \A i \in D : (\E a \in DOMAIN q : q[a].section = i) \/ \E b \in DOMAIN r : r[b] = i

LEMMA RemovedItems ==
  ASSUME NEW S, NEW r \in Seq(S), NEW slot \in DOMAIN r
  PROVE  /\ RemoveAt(r, slot) \in Seq(S) /\ Len(RemoveAt(r, slot)) = Len(r) - 1
         /\ \A b \in 1 .. Len(r) - 1 : RemoveAt(r, slot)[b] = r[IF b < slot THEN b ELSE b + 1]
<1> DEFINE n == Len(r)
           x == SubSeq(r, 1, slot - 1)
           y == SubSeq(r, slot + 1, n)
<1>1. n \in Nat /\ slot \in 1 .. n /\ \A i \in 1 .. n : r[i] \in S
  OBVIOUS
<1>2. x \in Seq(S) /\ Len(x) = slot - 1 /\ \A i \in 1 .. slot - 1 : x[i] = r[i]
  <2>1. \A i \in 1 .. slot - 1 : r[i] \in S
    BY <1>1
  <2> QED
    BY <1>1, <2>1, SubSeqProperties
<1>3. y \in Seq(S) /\ Len(y) = n - slot /\ \A i \in 1 .. n - slot : y[i] = r[slot + i]
  <2>1. \A i \in slot + 1 .. n : r[i] \in S
    BY <1>1
  <2>2. slot + 1 \in Int /\ n \in Int /\ slot + 1 <= n + 1
    BY <1>1
  <2>3. y \in Seq(S) /\ Len(y) = n - slot
    BY <1>1, <2>1, <2>2, SubSeqProperties
  <2>4. \A i \in 1 .. n - slot : y[i] = r[slot + i]
    BY <1>1
  <2> QED
    BY <2>3, <2>4
<1>4. RemoveAt(r, slot) = x \o y
  BY DEF RemoveAt
<1> HIDE DEF x, y, n
<1>5. x \o y \in Seq(S) /\ Len(x \o y) = n - 1
  <2>1. x \o y \in Seq(S) /\ Len(x \o y) = Len(x) + Len(y)
    BY <1>2, <1>3, ConcatProperties
  <2> QED
    BY <1>1, <1>2, <1>3, <2>1
<1>6. /\ \A b \in 1 .. slot - 1 : (x \o y)[b] = x[b]
      /\ \A b \in 1 .. n - slot : (x \o y)[(slot - 1) + b] = y[b]
  <2>1. \A b \in 1 .. Len(x) : (x \o y)[b] = x[b]
    BY <1>2, <1>3, ConcatProperties
  <2>2. \A b \in 1 .. Len(y) : (x \o y)[Len(x) + b] = y[b]
    BY <1>2, <1>3
  <2> QED
    BY <1>2, <1>3, <2>1, <2>2
<1>7. ASSUME NEW b \in 1 .. n - 1 PROVE (x \o y)[b] = r[IF b < slot THEN b ELSE b + 1]
  <2>1. CASE b < slot
    <3>1. b \in 1 .. slot - 1
      BY <1>1, <2>1
    <3> QED
      BY <1>2, <1>6, <2>1, <3>1
  <2>2. CASE ~(b < slot)
    <3>1. /\ b - (slot - 1) \in 1 .. n - slot /\ (slot - 1) + (b - (slot - 1)) = b
          /\ slot + (b - (slot - 1)) = b + 1
      BY <1>1, <2>2
    <3>2. (x \o y)[(slot - 1) + (b - (slot - 1))] = r[slot + (b - (slot - 1))]
      BY <1>3, <1>6, <3>1
    <3> QED
      BY <2>2, <3>1, <3>2
  <2> QED
    BY <2>1, <2>2
<1> QED
  BY <1>4, <1>5, <1>7 DEF n

\* What is taken from those that wait is joined.
LEMMA TakeParted ==
  ASSUME NEW D, NEW q \in Joints(D), NEW r \in Seq(D), Parted(q, r, D),
         NEW slot \in DOMAIN r, NEW j \in [section : D, method : Methods, overlap : Nat],
         j.section = r[slot]
  PROVE  Parted(Append(q, j), RemoveAt(r, slot), D)
<1> DEFINE n == Len(q)
           m == Len(r)
           p == Append(q, j)
           u == RemoveAt(r, slot)
           from(b) == IF b < slot THEN b ELSE b + 1
<1>1. /\ n \in Nat /\ DOMAIN q = 1 .. n /\ DOMAIN p = 1 .. n + 1 /\ p[n + 1] = j
      /\ \A a \in 1 .. n : p[a] = q[a]
  BY AppendProperties DEF Joints
<1>2. /\ m \in Nat /\ DOMAIN r = 1 .. m /\ slot \in 1 .. m /\ DOMAIN u = 1 .. m - 1
      /\ \A b \in 1 .. m - 1 : u[b] = r[from(b)]
  <2>1. m \in Nat /\ DOMAIN r = 1 .. m
    OBVIOUS
  <2>2. u \in Seq(D) /\ Len(u) = m - 1 /\ \A b \in 1 .. m - 1 : u[b] = r[from(b)]
    BY RemovedItems, Zenon
  <2> HIDE DEF u, from, m
  <2> QED
    BY <2>1, <2>2
<1>3. /\ \A b \in 1 .. m - 1 : from(b) \in 1 .. m /\ from(b) # slot
      /\ \A a, b \in 1 .. m - 1 : from(a) = from(b) => a = b
  BY <1>2
<1>4. \A c \in 1 .. m : c = slot \/ \E b \in 1 .. m - 1 : from(b) = c
  <2> SUFFICES ASSUME NEW c \in 1 .. m, c # slot PROVE \E b \in 1 .. m - 1 : from(b) = c
    OBVIOUS
  <2>1. CASE c < slot
    <3>1. c \in 1 .. m - 1 /\ from(c) = c
      BY <1>2, <2>1
    <3> QED
      BY <3>1
  <2>2. CASE c > slot
    <3>1. c - 1 \in 1 .. m - 1 /\ from(c - 1) = c
      BY <1>2, <2>2
    <3> QED
      BY <3>1
  <2> QED
    BY <1>2, <2>1, <2>2
<1>5. (\A a \in 1 .. n + 1 : a \in 1 .. n \/ a = n + 1) /\ 1 .. n \subseteq 1 .. n + 1 /\ n + 1 \in 1 .. n + 1
  BY <1>1
<1> HIDE DEF from, p, u, n, m
<1>6. /\ \A a, b \in 1 .. n : q[a].section = q[b].section => a = b
      /\ \A a, b \in 1 .. m : r[a] = r[b] => a = b
      /\ \A a \in 1 .. n : \A b \in 1 .. m : q[a].section # r[b]
      /\ \A i \in D : (\E a \in 1 .. n : q[a].section = i) \/ \E b \in 1 .. m : r[b] = i
  BY <1>1, <1>2 DEF Parted
<1>7. \A a, b \in 1 .. n + 1 : p[a].section = p[b].section => a = b
  BY <1>1, <1>2, <1>5, <1>6
<1>8. \A a, b \in 1 .. m - 1 : u[a] = u[b] => a = b
  BY <1>2, <1>3, <1>6
<1>9. \A a \in 1 .. n + 1 : \A b \in 1 .. m - 1 : p[a].section # u[b]
  <2> SUFFICES ASSUME NEW a \in 1 .. n + 1, NEW b \in 1 .. m - 1 PROVE p[a].section # u[b]
    OBVIOUS
  <2>1. u[b] = r[from(b)] /\ from(b) \in 1 .. m /\ from(b) # slot
    BY <1>2, <1>3
  <2> QED
    BY <1>1, <1>2, <1>5, <1>6, <2>1
<1>10. \A i \in D : (\E a \in 1 .. n + 1 : p[a].section = i) \/ \E b \in 1 .. m - 1 : u[b] = i
  <2> SUFFICES ASSUME NEW i \in D
               PROVE  (\E a \in 1 .. n + 1 : p[a].section = i) \/ \E b \in 1 .. m - 1 : u[b] = i
    OBVIOUS
  <2>1. CASE \E a \in 1 .. n : q[a].section = i
    BY <1>1, <1>5, <2>1
  <2>2. CASE \E c \in 1 .. m : r[c] = i
    <3>1. PICK c \in 1 .. m : r[c] = i
      BY <2>2
    <3>2. CASE c = slot
      BY <1>1, <1>5, <3>1, <3>2
    <3>3. CASE c # slot
      <4>1. PICK b \in 1 .. m - 1 : from(b) = c
        BY <1>4, <3>3
      <4> QED
        BY <1>2, <3>1, <4>1
    <3> QED
      BY <3>2, <3>3
  <2> QED
    BY <1>6, <2>1, <2>2
<1> QED
  BY <1>1, <1>2, <1>7, <1>8, <1>9, <1>10 DEF Parted, p, u

\* A list of the elements of a set has each of them.
LEMMA Listed ==
  ASSUME NEW D, IsFiniteSet(D), NEW q \in SetToSeqs(D)
  PROVE  q \in [1 .. Cardinality(D) -> D] /\ \A x \in D : \E i \in 1 .. Cardinality(D) : q[i] = x
<1> DEFINE c == Cardinality(D)
<1>1. c \in Nat
  BY FS_CardinalityType
<1>2. q \in [1 .. c -> D] /\ \A a, b \in 1 .. c : a # b => q[a] # q[b]
  BY Zenon DEF SetToSeqs
<1>3. q \in Injection(1 .. c, D)
  BY <1>2 DEF Injection, IsInjective
<1>4. Cardinality(1 .. c) = c /\ IsFiniteSet(1 .. c)
  BY <1>1, FS_Interval
<1>5. q \in Surjection(1 .. c, D)
  BY <1>3, <1>4, FS_Injection
<1> QED
  BY <1>2, <1>5 DEF Surjection

\* The first of all sections is joined, the rest waits.
LEMMA SeedParted ==
  ASSUME NEW D, IsFiniteSet(D), D # {}, NEW q \in SetToSeqs(D),
         NEW j \in [section : D, method : Methods, overlap : Nat], j.section = Head(q)
  PROVE  /\ Head(q) \in D /\ Tail(q) \in Seq(D) /\ <<j>> \in Joints(D)
         /\ Parted(<<j>>, Tail(q), D)
<1> DEFINE c == Cardinality(D)
<1>1. c \in Nat
  BY FS_CardinalityType
<1>2. q \in [1 .. c -> D] /\ \A a, b \in 1 .. c : a # b => q[a] # q[b]
  BY Zenon DEF SetToSeqs
<1>3. q \in Seq(D) /\ Len(q) = c
  BY <1>1, <1>2
<1>4. \A i \in D : \E b \in 1 .. c : q[b] = i
  BY Listed
<1> HIDE DEF c
<1>5. q # <<>> /\ c >= 1
  <2>1. PICK i \in D : TRUE
    OBVIOUS
  <2>2. PICK b \in 1 .. c : q[b] = i
    BY <1>4
  <2> QED
    BY <1>1, <1>3, <2>2
<1>6. /\ Head(q) \in D /\ Tail(q) \in Seq(D) /\ Len(Tail(q)) = c - 1 /\ Head(q) = q[1]
      /\ \A b \in 1 .. c - 1 : Tail(q)[b] = q[b + 1]
  BY <1>3, <1>5, HeadTailProperties
<1>7. <<j>> \in Joints(D) /\ DOMAIN <<j>> = {1} /\ <<j>>[1] = j
  BY DEF Joints
<1>8. DOMAIN Tail(q) = 1 .. c - 1 /\ \A b \in 1 .. c - 1 : b + 1 \in 1 .. c /\ b + 1 # 1
  BY <1>1, <1>5, <1>6
<1>9. \A a, b \in 1 .. c - 1 : Tail(q)[a] = Tail(q)[b] => a = b
  <2> SUFFICES ASSUME NEW a \in 1 .. c - 1, NEW b \in 1 .. c - 1, Tail(q)[a] = Tail(q)[b] PROVE a = b
    OBVIOUS
  <2>1. q[a + 1] = q[b + 1] /\ a + 1 \in 1 .. c /\ b + 1 \in 1 .. c
    BY <1>6, <1>8
  <2>2. a + 1 = b + 1
    BY <1>2, <2>1
  <2> QED
    BY <2>2
<1>10. \A b \in 1 .. c - 1 : Tail(q)[b] # q[1]
  <2>1. 1 \in 1 .. c
    BY <1>1, <1>5
  <2> QED
    BY <1>2, <1>6, <1>8, <2>1
<1>11. \A i \in D : q[1] = i \/ \E b \in 1 .. c - 1 : Tail(q)[b] = i
  <2> SUFFICES ASSUME NEW i \in D, q[1] # i PROVE \E b \in 1 .. c - 1 : Tail(q)[b] = i
    OBVIOUS
  <2>1. PICK b \in 1 .. c : q[b] = i
    BY <1>4
  <2>2. b - 1 \in 1 .. c - 1 /\ (b - 1) + 1 = b
    BY <1>1, <2>1
  <2> QED
    BY <1>6, <2>1, <2>2
<1> DEFINE p == <<j>>
           u == Tail(q)
<1>12. DOMAIN p = {1} /\ p[1].section = q[1] /\ DOMAIN u = 1 .. c - 1
  BY <1>6, <1>7, <1>8
<1> HIDE DEF p, u
<1>13. Parted(p, u, D)
  BY <1>9, <1>10, <1>11, <1>12 DEF Parted, u
<1> QED
  BY <1>6, <1>7, <1>13 DEF p, u

-----------------------------------------------------------------------------
(* The best-effort text: its invariant.                                    *)

\* The text t of the sections that q joins, while others wait in r.
Estimated(t, q, r, parts) ==
  /\ q \in Joints(DOMAIN parts) /\ r \in Seq(DOMAIN parts) /\ t \in Seq(Marked)
  /\ Parted(q, r, DOMAIN parts)
  /\ \A a \in DOMAIN q : Holds(t, parts[q[a].section].part.text)
  /\ Cardinality(Breaks(t)) = Cardinality(Guesses(q))

MergeOK == phase \in {"merge", "done"} => Estimated(merged, joins, waiting, sections)

LEMMA PartText ==
  ASSUME Inv, NEW i \in DOMAIN sections
  PROVE  sections[i].part.text \in Seq(Tokens) /\ sections[i].part.text \in Seq(Marked)
<1>1. sections[i] \in [part : Assembly, stop : Stops]
  <2>1. sections \in Seq([part : Assembly, stop : Stops])
    BY DEF Inv, SectionsOK
  <2>2. i \in 1 .. Len(sections)
    BY <2>1
  <2> QED
    BY <2>1, <2>2, ElementOfSeq
<1>2. sections[i].part.text \in Seq(Tokens)
  BY <1>1 DEF Assembly
<1> QED
  BY <1>2 DEF Marked

\* A section that is compared waits.
LEMMA BestWaits ==
  ASSUME waiting \in Seq(DOMAIN sections), NEW slot \in Best
  PROVE  slot \in DOMAIN waiting /\ slot \in Supported
<1>1. slot \in Supported
  BY Zenon DEF Best, Least
<1>2. slot \in Nearest
  BY <1>1, Zenon DEF Supported, Compared
<1>3. Len(waiting) \in Nat /\ DOMAIN waiting = 1 .. Len(waiting) /\ Window \in Nat
  BY Type2Assumption
<1>4. Min({Window, Len(waiting)}) = (IF Window <= Len(waiting) THEN Window ELSE Len(waiting))
  BY <1>3, PairBounds
<1>5. slot \in 1 .. Len(waiting)
  BY <1>2, <1>3, <1>4 DEF Nearest
<1> QED
  BY <1>1, <1>3, <1>5

\* A section is taken into a text t that goes on holding what it held.
LEMMA TakeMerge ==
  ASSUME Inv, MergeOK, phase = "merge", NEW slot \in DOMAIN waiting, NEW method \in Methods,
         NEW overlap \in Nat, Take(slot, method, overlap), NEW t \in Seq(Marked), merged' = t,
         \A w \in Seq(Marked) : Holds(merged, w) => Holds(t, w), Holds(t, Words(slot)),
         Cardinality(Breaks(t)) = Cardinality(Breaks(merged)) + (IF method = "position_only" THEN 1 ELSE 0)
  PROVE  MergeOK'
<1> DEFINE D == DOMAIN sections
           j == [section |-> waiting[slot], method |-> method, overlap |-> overlap]
           p == Append(joins, j)
           u == RemoveAt(waiting, slot)
<1>1. /\ joins \in Joints(D) /\ waiting \in Seq(D) /\ Parted(joins, waiting, D)
      /\ \A a \in DOMAIN joins : Holds(merged, sections[joins[a].section].part.text)
      /\ Cardinality(Breaks(merged)) = Cardinality(Guesses(joins))
  BY DEF MergeOK, Estimated
<1>2. joins' = p /\ waiting' = u /\ UNCHANGED <<input, phase, sections>>
  BY DEF Take
<1>3. waiting[slot] \in D
  BY <1>1
<1>4. /\ j \in [section : D, method : Methods, overlap : Nat]
      /\ j.section = waiting[slot] /\ j.method = method
  BY <1>3
<1> HIDE DEF j
<1>5. p \in Joints(D) /\ Cardinality(Guesses(p)) = Cardinality(Guesses(joins))
                            + (IF method = "position_only" THEN 1 ELSE 0)
  BY <1>1, <1>4, GuessAdded
<1>6. u \in Seq(D)
  BY <1>1, RemovedItems
<1>7. Parted(p, u, D)
  BY <1>1, <1>4, TakeParted
<1>8. \A a \in DOMAIN p : Holds(t, sections[p[a].section].part.text)
  <2>1. /\ Len(joins) \in Nat /\ DOMAIN joins = 1 .. Len(joins) /\ DOMAIN p = 1 .. Len(joins) + 1
        /\ p[Len(joins) + 1] = j /\ \A a \in 1 .. Len(joins) : p[a] = joins[a] /\ joins[a].section \in D
    <3> DEFINE R == [section : D, method : Methods, overlap : Nat]
    <3>1. joins \in Seq(R) /\ j \in R /\ \A x \in R : x.section \in D
      BY <1>1, <1>4 DEF Joints
    <3> HIDE DEF R, D
    <3>2. Len(joins) \in Nat /\ DOMAIN joins = 1 .. Len(joins) /\ \A a \in 1 .. Len(joins) : joins[a] \in R
      BY <3>1
    <3>3. Len(p) = Len(joins) + 1 /\ p \in Seq(R) /\ p[Len(joins) + 1] = j /\ \A a \in 1 .. Len(joins) : p[a] = joins[a]
      BY <3>1, AppendProperties
    <3> QED
      BY <3>1, <3>2, <3>3
  <2>2. \A a \in 1 .. Len(joins) + 1 : a \in 1 .. Len(joins) \/ a = Len(joins) + 1
    BY <2>1
  <2> HIDE DEF p, D
  <2>3. ASSUME NEW a \in 1 .. Len(joins) PROVE Holds(t, sections[p[a].section].part.text)
    <3>1. p[a] = joins[a] /\ joins[a].section \in DOMAIN sections
      BY <2>1 DEF D
    <3>2. Holds(merged, sections[joins[a].section].part.text)
      BY <1>1, <2>1
    <3> QED
      BY <3>1, <3>2, PartText
  <2>4. Holds(t, sections[p[Len(joins) + 1].section].part.text)
    BY <1>4, <2>1 DEF Words
  <2> QED
    BY <2>1, <2>2, <2>3, <2>4
<1> HIDE DEF p, u
<1>9. /\ joins' \in Joints(D) /\ waiting' \in Seq(D) /\ merged' \in Seq(Marked)
      /\ Parted(joins', waiting', D)
      /\ \A a \in DOMAIN joins' : Holds(merged', sections[joins'[a].section].part.text)
      /\ Cardinality(Breaks(merged')) = Cardinality(Guesses(joins'))
  BY <1>1, <1>2, <1>5, <1>6, <1>7, <1>8
<1>10. Estimated(merged', joins', waiting', sections')
  BY <1>2, <1>9 DEF Estimated
<1> QED
  BY <1>10 DEF MergeOK

LEMMA SeededMerge == ASSUME Inv, Seeded PROVE MergeOK'
<1> DEFINE D == DOMAIN sections
<1>1. phase' = "merge" /\ UNCHANGED <<input, sections>> /\ phase = "islands"
  BY DEF Seeded
<1>2. PICK q \in SetToSeqs(D) :
        /\ merged' = sections[Head(q)].part.text
        /\ waiting' = Tail(q)
        /\ joins' = <<[section |-> Head(q), method |-> "seed", overlap |-> 0]>>
  BY Zenon DEF Seeded, Sorted
<1> DEFINE j == [section |-> Head(q), method |-> "seed", overlap |-> 0]
<1>3. IsFiniteSet(D) /\ D # {}
  <2>1. sections \in Seq([part : Assembly, stop : Stops]) /\ sections # <<>>
    BY <1>1 DEF Inv, SectionsOK, PhaseOK
  <2>2. D = 1 .. Len(sections) /\ Len(sections) \in Int /\ 1 \in D /\ 1 \in Int
    BY <2>1
  <2>3. IsFiniteSet(1 .. Len(sections))
    BY <2>2, FS_Interval
  <2> QED
    BY <2>2, <2>3
<1>4. Head(q) \in D
  <2>1. Cardinality(D) \in Nat /\ D # {} /\ Cardinality(D) # 0
    BY <1>3, FS_CardinalityType, FS_EmptySet
  <2>2. q \in [1 .. Cardinality(D) -> D]
    BY Zenon DEF SetToSeqs
  <2>3. 1 \in 1 .. Cardinality(D)
    BY <2>1
  <2>4. q \in Seq(D) /\ q # <<>>
    BY <2>1, <2>2, <2>3
  <2> QED
    BY <2>4, HeadTailProperties
<1>5. j \in [section : D, method : Methods, overlap : Nat] /\ j.section = Head(q) /\ j.method = "seed"
  BY <1>4 DEF Methods
<1>6. joins' = <<j>>
  BY <1>2
<1> HIDE DEF j
<1>7. Tail(q) \in Seq(D) /\ <<j>> \in Joints(D) /\ Parted(<<j>>, Tail(q), D)
  BY <1>3, <1>5, SeedParted
<1> DEFINE w == sections[Head(q)].part.text
<1>8. w \in Seq(Tokens) /\ w \in Seq(Marked)
  BY <1>4, PartText
<1>9. Holds(w, w)
  BY <1>8, HoldsItself
<1>10. Cardinality(Breaks(w)) = Cardinality(Guesses(<<j>>))
  <2>1. Breaks(w) = {}
    BY <1>8, BreaksAppended
  <2>2. Guesses(<<j>>) = {}
    BY <1>5 DEF Guesses
  <2> QED
    BY <2>1, <2>2
<1>11. \A a \in DOMAIN <<j>> : <<j>>[a] = j
  OBVIOUS
<1>12. /\ joins' \in Joints(D) /\ waiting' \in Seq(D) /\ merged' \in Seq(Marked)
       /\ Parted(joins', waiting', D)
       /\ \A a \in DOMAIN joins' : Holds(merged', sections[joins'[a].section].part.text)
       /\ Cardinality(Breaks(merged')) = Cardinality(Guesses(joins'))
  BY <1>2, <1>5, <1>6, <1>7, <1>8, <1>9, <1>10, <1>11
<1>13. Estimated(merged', joins', waiting', sections')
  BY <1>1, <1>12 DEF Estimated
<1> QED
  BY <1>13 DEF MergeOK

LEMMA HeldMerge == ASSUME Inv, MergeOK, MergeHeld PROVE MergeOK'
<1>1. phase = "merge" /\ waiting \in Seq(DOMAIN sections) /\ merged \in Seq(Marked)
  BY DEF MergeHeld, Merging, MergeOK, Estimated
<1>2. PICK slot \in Best : /\ Holds(merged, Words(slot)) /\ merged' = merged
                           /\ Take(slot, "contained", Len(Words(slot)))
  BY Zenon DEF MergeHeld
<1>3. slot \in DOMAIN waiting
  BY <1>1, BestWaits
<1>4. Words(slot) \in Seq(Tokens)
  <2>1. waiting[slot] \in DOMAIN sections
    BY <1>1, <1>3
  <2> QED
    BY <2>1, PartText DEF Words
<1>5. Len(Words(slot)) \in Nat /\ "contained" \in Methods /\ "contained" # "position_only"
  BY <1>4 DEF Methods
<1>6. Cardinality(Breaks(merged)) = Cardinality(Breaks(merged)) + (IF "contained" = "position_only" THEN 1 ELSE 0)
  <2>1. Cardinality(Breaks(merged)) \in Nat
    BY <1>1, <1>4, BreaksAppended, FS_CardinalityType
  <2> QED
    BY <1>5, <2>1
<1> QED
  BY <1>1, <1>2, <1>3, <1>5, <1>6, TakeMerge

LEMMA OverlappingMerge == ASSUME Inv, MergeOK, MergeOverlapping PROVE MergeOK'
<1>1. phase = "merge" /\ waiting \in Seq(DOMAIN sections) /\ merged \in Seq(Marked)
  BY DEF MergeOverlapping, Merging, MergeOK, Estimated
<1>2. PICK slot \in Best :
        /\ ~Holds(merged, Words(slot))
        /\ merged' = Joined(merged, "append", Rest(Words(slot), "append", Matched(merged, Words(slot))))
        /\ Take(slot, "overlap_estimate", Matched(merged, Words(slot)))
  BY Zenon DEF MergeOverlapping
<1> DEFINE w == Words(slot)
           k == Matched(merged, w)
           r == LastOf(w, Len(w) - k)
<1>3. slot \in DOMAIN waiting
  BY <1>1, BestWaits
<1>4. w \in Seq(Tokens) /\ w \in Seq(Marked)
  <2>1. waiting[slot] \in DOMAIN sections
    BY <1>1, <1>3
  <2> QED
    BY <2>1, PartText DEF Words
<1>5. merged' = merged \o r
  BY <1>2 DEF Joined, Rest
<1>6. k \in 0 .. Len(merged) /\ k <= Len(w) /\ LastOf(merged, k) = FirstOf(w, k)
  <2> HIDE DEF w
  <2> QED
    BY <1>1, <1>2, <1>4, MatchedOverlap DEF w
<1> HIDE DEF w, k
<1>7. k \in Nat /\ Len(w) - k \in 0 .. Len(w)
  BY <1>1, <1>4, <1>6
<1>8. r \in Seq(Tokens) /\ r \in Seq(Marked)
  <2>1. r \in Seq(Tokens)
    BY <1>4, <1>7, EndItems
  <2> QED
    BY <2>1 DEF Marked
<1>9. Holds(merged \o r, w)
  BY <1>1, <1>4, <1>6, HoldsAppended
<1> HIDE DEF r
<1>10. \A v \in Seq(Marked) : Holds(merged, v) => Holds(merged \o r, v)
  BY <1>1, <1>8, HoldsLonger
<1>11. /\ merged \o r \in Seq(Marked)
       /\ Cardinality(Breaks(merged \o r)) = Cardinality(Breaks(merged))
       /\ Cardinality(Breaks(merged)) \in Nat
  BY <1>1, <1>8, BreaksAppended, FS_CardinalityType
<1>12. "overlap_estimate" \in Methods /\ "overlap_estimate" # "position_only"
  BY DEF Methods
<1>13. Cardinality(Breaks(merged \o r)) =
         Cardinality(Breaks(merged)) + (IF "overlap_estimate" = "position_only" THEN 1 ELSE 0)
  BY <1>11, <1>12
<1>14. Take(slot, "overlap_estimate", k) /\ Holds(merged \o r, Words(slot))
  BY <1>2, <1>9 DEF k, w
<1> QED
  BY <1>1, <1>3, <1>5, <1>7, <1>10, <1>11, <1>12, <1>13, <1>14, TakeMerge

LEMMA UnsupportedMerge == ASSUME Inv, MergeOK, MergeUnsupported PROVE MergeOK'
<1>1. /\ phase = "merge" /\ waiting \in Seq(DOMAIN sections) /\ merged \in Seq(Marked)
      /\ waiting # <<>> /\ Take(1, "position_only", 0) /\ merged' = Unsupported(Words(1))
  BY DEF MergeUnsupported, Merging, MergeOK, Estimated
<1> DEFINE w == Words(1)
           b == merged \o <<Break>>
<1>2. 1 \in DOMAIN waiting
  BY <1>1
<1>3. w \in Seq(Tokens) /\ w \in Seq(Marked)
  <2>1. waiting[1] \in DOMAIN sections
    BY <1>1, <1>2
  <2> QED
    BY <2>1, PartText DEF Words
<1>4. merged' = b \o w
  BY <1>1 DEF Unsupported
<1> HIDE DEF w
<1>5. b \in Seq(Marked) /\ Cardinality(Breaks(b)) = Cardinality(Breaks(merged)) + 1
  BY <1>1, BreakAdded
<1>6. <<Break>> \in Seq(Marked)
  BY DEF Marked
<1>7. \A v \in Seq(Marked) : Holds(merged, v) => Holds(b, v)
  BY <1>1, <1>6, HoldsLonger
<1> HIDE DEF b
<1>8. \A v \in Seq(Marked) : Holds(b, v) => Holds(b \o w, v)
  BY <1>3, <1>5, HoldsLonger
<1>9. Holds(b \o w, w)
  <2>1. Holds(w, w)
    BY <1>3, HoldsItself
  <2> QED
    BY <1>3, <1>5, <2>1, HoldsLonger
<1>10. b \o w \in Seq(Marked) /\ Cardinality(Breaks(b \o w)) = Cardinality(Breaks(merged)) + 1
  BY <1>3, <1>5, BreaksAppended
<1>11. "position_only" \in Methods
  BY DEF Methods
<1>12. \A v \in Seq(Marked) : Holds(merged, v) => Holds(b \o w, v)
  BY <1>7, <1>8
<1>13. Holds(b \o w, Words(1))
  BY <1>9 DEF w
<1>14. Cardinality(Breaks(b \o w)) =
         Cardinality(Breaks(merged)) + (IF "position_only" = "position_only" THEN 1 ELSE 0)
  BY <1>10
<1> QED
  BY <1>1, <1>2, <1>4, <1>10, <1>11, <1>12, <1>13, <1>14, TakeMerge

\* No other step touches the text once it is begun.
LEMMA OthersMerge ==
  ASSUME MergeOK, UNCHANGED <<merged, waiting, joins>>,
         \/ phase' \notin {"merge", "done"}
         \/ phase \in {"merge", "done"} /\ UNCHANGED <<input, sections>>
  PROVE  MergeOK'
BY DEF MergeOK

LEMMA NextMerge == ASSUME Inv, MergeOK, [Next]_vars PROVE MergeOK'
<1>1. CASE Extend
  BY <1>1, OthersMerge DEF Extend, bestVars
<1>2. CASE FinishAssembly
  BY <1>2, OthersMerge DEF FinishAssembly, Close, bestVars
<1>3. CASE Ambiguous
  <2>1. phase' \in {"islands", "search"} /\ UNCHANGED <<merged, waiting, joins>>
    BY <1>3 DEF Ambiguous, Close, bestVars
  <2> QED
    BY <2>1, OthersMerge
<1>4. CASE Search
  <2>1. phase' \in {"islands", "search"} /\ UNCHANGED <<merged, waiting, joins>>
    BY <1>4 DEF Search, Pop, Solved, Follow, Repeated, Branch, RunOut, Explored, Searching, Exhausted,
                GiveUp, Answer, Close, bestVars
  <2> QED
    BY <2>1, OthersMerge
<1>5. CASE Open
  BY <1>5, OthersMerge DEF Open, bestVars
<1>6. CASE CloseIsland
  BY <1>6, OthersMerge DEF CloseIsland, Close, bestVars
<1>7. CASE BestEffort
  <2>1. CASE Finish
    BY <2>1, OthersMerge DEF Finish, bestVars
  <2> QED
    BY <1>7, <2>1, SeededMerge, HeldMerge, OverlappingMerge, UnsupportedMerge DEF BestEffort
<1>8. CASE UNCHANGED vars
  BY <1>8, OthersMerge DEF vars, bestVars, MergeOK
<1> QED
  BY <1>1, <1>2, <1>3, <1>4, <1>5, <1>6, <1>7, <1>8 DEF Next, Finished

(* The invariant of the best-effort text. *)
THEOREM MergeInvariant == Spec => []MergeOK
<1>1. Init => MergeOK
  BY DEF Init, MergeOK
<1>2. Inv /\ MergeOK /\ [Next]_vars => MergeOK'
  BY NextMerge
<1> QED
  BY <1>1, <1>2, Invariant, PTL DEF Spec

-----------------------------------------------------------------------------
(* All assemblies: Reached.                                                *)

\* Induction on a set of numbers.
LEMMA Numbers ==
  ASSUME NEW Q, 0 \in Q, \A i \in Nat : i \in Q => i + 1 \in Q
  PROVE  \A n \in Nat : n \in Q
<1> SUFFICES ASSUME NEW n \in Nat, n \notin Q PROVE FALSE
  OBVIOUS
<1> DEFINE B == {i \in Nat : i \notin Q}
<1>1. B \subseteq Nat /\ B # {}
  OBVIOUS
<1> HIDE DEF B
<1>2. PICK k \in B : \A j \in B : ~(<<j, k>> \in Less)
  BY <1>1, LessWellFounded, WFMin, Zenon
<1>3. k \in Nat /\ k \notin Q /\ k # 0 /\ k - 1 \in Nat /\ k - 1 + 1 = k
  BY <1>2 DEF B
<1>4. k - 1 \notin B
  <2> SUFFICES ASSUME k - 1 \in B PROVE FALSE
    OBVIOUS
  <2>1. <<k - 1, k>> \in Nat \X Nat /\ <<k - 1, k>>[1] = k - 1 /\ <<k - 1, k>>[2] = k /\ k - 1 < k
    BY <1>3
  <2> QED
    BY <1>2, <2>1 DEF Less
<1> QED
  BY <1>3, <1>4 DEF B

\* An assembly whose ends have not been looked at.
Bare(s) == [s EXCEPT !.dead = Seed(1, {}).dead]

Grown(A) == UNION {{Bare(Apply(s, m)) : m \in Step(s)} : s \in A}

Levels(f) == f = [n \in Nat |-> IF n = 0 THEN {Seed(1, {})} ELSE Grown(f[n - 1])]

LEMMA SeedFacts ==
  ASSUME InputOK
  PROVE  /\ Good(Seed(1, {}), {}) /\ Seed(1, {}).dead = [e \in Ends |-> FALSE]
         /\ Seed(1, {}).used = {1} /\ Bare(Seed(1, {})) = Seed(1, {}) /\ Seed(1, {}) \in Assembly
<1>1. 1 \in All
  BY DEF InputOK, All
<1>2. Good(Seed(1, {}), {})
  BY <1>1, GoodSeed DEF InputOK
<1>3. Seed(1, {}).dead = [e \in Ends |-> FALSE] /\ Seed(1, {}).used = {1}
  BY DEF Seed
<1>4. Seed(1, {}) \in Assembly
  BY <1>2 DEF Good
<1>5. Bare(Seed(1, {})) = Seed(1, {})
  <2>1. ASSUME NEW s \in Assembly PROVE [s EXCEPT !.dead = s.dead] = s
    BY DEF Assembly
  <2> QED
    BY <1>4, <2>1 DEF Bare
<1> QED
  BY <1>2, <1>3, <1>4, <1>5

LEMMA BareFacts ==
  ASSUME InputOK, NEW s \in Assembly
  PROVE  /\ Bare(s) \in Assembly /\ Bare(s).text = s.text /\ Bare(s).used = s.used
         /\ Bare(s).first = s.first /\ Bare(s).last = s.last /\ Bare(s).order = s.order
         /\ Fresh(Bare(s))
<1>1. Seed(1, {}).dead \in [Ends -> BOOLEAN] /\ \A e \in Ends : ~Seed(1, {}).dead[e]
  BY SeedFacts
<1> DEFINE d == Seed(1, {}).dead
<1> HIDE DEF d
<1>2. d \in [Ends -> BOOLEAN] /\ \A e \in Ends : ~d[e]
  BY <1>1 DEF d
<1>3. Bare(s) = [s EXCEPT !.dead = d]
  BY DEF Bare, d
<1>4. /\ Bare(s) \in Assembly /\ Bare(s).text = s.text /\ Bare(s).used = s.used
      /\ Bare(s).first = s.first /\ Bare(s).last = s.last /\ Bare(s).order = s.order
      /\ Bare(s).dead = d
  BY <1>2, <1>3 DEF Assembly
<1> QED
  BY <1>2, <1>4 DEF Fresh

\* A step from an assembly is an assembly.
LEMMA GrownType ==
  ASSUME InputOK, NEW s \in Assembly, NEW m \in Step(s)
  PROVE  Apply(s, m) \in Assembly /\ Bare(Apply(s, m)) \in Assembly
<1>1. PICK e \in Ends : m \in Joins(s, e)
  BY StepJoins
<1>2. Apply(s, m) \in Assembly
  BY <1>1, ApplyType DEF InputOK
<1> QED
  BY <1>2, BareFacts

\* The chains of n joins.
Chains(n) ==
  {c \in [0 .. n -> Assembly] :
     c[0] = Seed(1, {}) /\ \A i \in 1 .. n : \E m \in Step(c[i - 1]) : c[i] = Bare(Apply(c[i - 1], m))}

LEMMA LevelsExist == ASSUME InputOK PROVE \E f : Levels(f)
<1> DEFINE Ends0(n) == {c[n] : c \in Chains(n)}
           f == [n \in Nat |-> Ends0(n)]
<1>1. Ends0(0) = {Seed(1, {})}
  <2>1. \A c \in Chains(0) : c[0] = Seed(1, {})
    BY DEF Chains
  <2>2. [i \in 0 .. 0 |-> Seed(1, {})] \in Chains(0)
    BY SeedFacts DEF Chains
  <2>3. [i \in 0 .. 0 |-> Seed(1, {})][0] = Seed(1, {})
    OBVIOUS
  <2> QED
    BY <2>1, <2>2, <2>3
<1>2. ASSUME NEW n \in Nat, n # 0 PROVE Ends0(n) = Grown(Ends0(n - 1))
  <2>1. ASSUME NEW c \in Chains(n) PROVE c[n] \in Grown(Ends0(n - 1))
    <3> DEFINE b == [i \in 0 .. n - 1 |-> c[i]]
    <3>1. c \in [0 .. n -> Assembly] /\ n - 1 \in 0 .. n
      BY <1>2 DEF Chains
    <3>2. \A i \in 0 .. n - 1 : b[i] = c[i] /\ i \in 0 .. n
      BY <1>2
    <3>3. b \in [0 .. n - 1 -> Assembly]
      BY <3>1, <3>2
    <3>4. b[0] = Seed(1, {})
      BY <1>2, <3>2 DEF Chains
    <3>5. ASSUME NEW i \in 1 .. n - 1 PROVE \E m \in Step(b[i - 1]) : b[i] = Bare(Apply(b[i - 1], m))
      <4>1. i \in 1 .. n /\ i \in 0 .. n - 1 /\ i - 1 \in 0 .. n - 1
        BY <1>2
      <4>2. b[i] = c[i] /\ b[i - 1] = c[i - 1]
        BY <3>2, <4>1
      <4>3. \E m \in Step(c[i - 1]) : c[i] = Bare(Apply(c[i - 1], m))
        BY <4>1 DEF Chains
      <4> QED
        BY <4>2, <4>3
    <3> HIDE DEF b
    <3>6. b \in Chains(n - 1)
      BY <3>3, <3>4, <3>5 DEF Chains
    <3>7. b[n - 1] = c[n - 1]
      BY <1>2, <3>2
    <3>8. c[n - 1] \in Ends0(n - 1)
      BY <3>6, <3>7
    <3>9. PICK m \in Step(c[n - 1]) : c[n] = Bare(Apply(c[n - 1], m))
      BY <1>2 DEF Chains
    <3> DEFINE r == c[n - 1]
               A == Ends0(n - 1)
    <3>10. r \in A /\ m \in Step(r) /\ c[n] = Bare(Apply(r, m))
      BY <3>8, <3>9
    <3> HIDE DEF Ends0, A, r
    <3>11. c[n] \in {Bare(Apply(r, x)) : x \in Step(r)}
      BY <3>10
    <3>12. c[n] \in Grown(A)
      BY <3>10, <3>11, Zenon DEF Grown
    <3> QED
      BY <3>12 DEF A
  <2>2. ASSUME NEW s \in Ends0(n - 1), NEW m \in Step(s) PROVE Bare(Apply(s, m)) \in Ends0(n)
    <3>1. PICK b \in Chains(n - 1) : s = b[n - 1]
      OBVIOUS
    <3> DEFINE t == Bare(Apply(s, m))
               c == [i \in 0 .. n |-> IF i = n THEN t ELSE b[i]]
    <3>2. b \in [0 .. n - 1 -> Assembly] /\ s \in Assembly
      BY <1>2, <3>1 DEF Chains
    <3>3. t \in Assembly
      BY <3>2, GrownType
    <3> HIDE DEF t
    <3>4. c[n] = t /\ (\A i \in 0 .. n - 1 : c[i] = b[i] /\ i \in 0 .. n) /\ \A i \in 0 .. n : i = n \/ i \in 0 .. n - 1
      BY <1>2
    <3>5. c \in [0 .. n -> Assembly]
      BY <3>2, <3>3, <3>4
    <3> HIDE DEF c
    <3>6. c[0] = Seed(1, {})
      BY <1>2, <3>1, <3>4 DEF Chains
    <3>7. ASSUME NEW i \in 1 .. n PROVE \E x \in Step(c[i - 1]) : c[i] = Bare(Apply(c[i - 1], x))
      <4>1. CASE i = n
        <5>1. c[i - 1] = s
          BY <1>2, <3>1, <3>4, <4>1
        <5> QED
          BY <3>4, <4>1, <5>1 DEF t
      <4>2. CASE i # n
        <5>1. i \in 1 .. n - 1 /\ i \in 0 .. n - 1 /\ i - 1 \in 0 .. n - 1
          BY <1>2, <4>2
        <5>2. c[i] = b[i] /\ c[i - 1] = b[i - 1]
          BY <3>4, <5>1
        <5>3. \E x \in Step(b[i - 1]) : b[i] = Bare(Apply(b[i - 1], x))
          BY <3>1, <5>1 DEF Chains
        <5> QED
          BY <5>2, <5>3
      <4> QED
        BY <4>1, <4>2
    <3>8. c \in Chains(n)
      BY <3>5, <3>6, <3>7 DEF Chains
    <3> QED
      BY <3>4, <3>8 DEF t
  <2> HIDE DEF Ends0
  <2>3. ASSUME NEW x \in Grown(Ends0(n - 1)) PROVE x \in Ends0(n)
    <3>1. PICK s \in Ends0(n - 1) : \E m \in Step(s) : x = Bare(Apply(s, m))
      BY Zenon DEF Grown
    <3> QED
      BY <2>2, <3>1
  <2>4. \A x \in Ends0(n) : x \in Grown(Ends0(n - 1))
    BY <2>1 DEF Ends0
  <2> QED
    BY <2>3, <2>4
<1> HIDE DEF Ends0
<1>3. ASSUME NEW n \in Nat PROVE f[n] = IF n = 0 THEN {Seed(1, {})} ELSE Grown(f[n - 1])
  <2>1. CASE n = 0
    BY <1>1, <2>1
  <2>2. CASE n # 0
    <3>1. f[n - 1] = Ends0(n - 1)
      BY <2>2
    <3> QED
      BY <1>2, <2>2, <3>1
  <2> QED
    BY <2>1, <2>2
<1>4. f = [n \in Nat |-> f[n]]
  OBVIOUS
<1>5. Levels(f)
  <2> HIDE DEF f
  <2> QED
    BY <1>3, <1>4 DEF Levels
<1> QED
  BY <1>5

ReachedLevels == InputOK => Levels(Reached)

LEMMA ReachedNow == ReachedLevels
<1> SUFFICES ASSUME InputOK PROVE Levels(Reached)
  BY DEF ReachedLevels
<1> DEFINE f == CHOOSE f : Levels(f)
<1>1. Levels(f)
  BY LevelsExist
<1>2. Reached = f
  BY DEF Reached, Levels, Grown, Bare
<1> QED
  BY <1>1, <1>2

LEMMA ReachedNext == ReachedLevels'
BY ReachedNow, PTL

LEMMA ReachedFacts ==
  ASSUME InputOK
  PROVE  /\ Reached[0] = {Seed(1, {})}
         /\ \A n \in Nat : n # 0 => Reached[n] = Grown(Reached[n - 1])
<1>1. Levels(Reached)
  BY ReachedNow DEF ReachedLevels
<1> QED
  BY <1>1 DEF Levels

-----------------------------------------------------------------------------
(* The joins of an assembly depend on its key.                             *)

Alike(s, r) == s.text = r.text /\ s.used = r.used /\ s.first = r.first /\ s.last = r.last

LEMMA AlikeKey == \A s, r : Key(s) = Key(r) <=> Alike(s, r)
BY DEF Key, Alike

LEMMA AlikeJoins == ASSUME NEW s, NEW r, Alike(s, r) PROVE \A e : Joins(s, e) = Joins(r, e)
<1>1. s.text = r.text /\ s.used = r.used /\ s.first = r.first /\ s.last = r.last
  BY DEF Alike
<1>2. \A e : Overlaps(s, e) = Overlaps(r, e)
  BY <1>1 DEF Overlaps
<1>3. \A e, k : Fitting(s, e, k) = Fitting(r, e, k)
  BY <1>1 DEF Fitting, Near
<1> QED
  BY <1>2, <1>3 DEF Joins

LEMMA FreshMoves == ASSUME NEW s, Fresh(s), NEW e \in Ends PROVE Boundary(s, e) = Moves(s, e)
<1>1. CASE s.dead[e]
  <2>1. Joins(s, e) = {}
    BY <1>1 DEF Fresh
  <2>2. Moves(s, e) = {}
    BY <2>1 DEF Moves
  <2> QED
    BY <1>1, <2>2 DEF Boundary
<1>2. CASE ~s.dead[e]
  BY <1>2 DEF Boundary
<1> QED
  BY <1>1, <1>2

\* Step, of what is found at the ends.
Both(preferred) ==
  {m \in preferred : \E n \in preferred \ {m} :
     m.index = n.index /\ Extension(m) # <<>> /\ Extension(n) # <<>>}

StepOf(append, prepend, duplicates, preferred, either) ==
  CASE duplicates # {} -> Least(duplicates, Order)
    [] duplicates = {} /\ either # {} -> either
    [] duplicates = {} /\ either = {} /\ preferred # {} ->
         Least(preferred, LAMBDA m : <<-m.overlap, m.index, IF m.end = "append" THEN 0 ELSE 1>>)
    [] OTHER -> append \cup prepend

Liked(s) == Preferred(Boundary(s, "append")) \cup Preferred(Boundary(s, "prepend"))
Repeats(s) == Duplicates(s, "append") \cup Duplicates(s, "prepend")

LEMMA StepIs ==
  ASSUME NEW s
  PROVE  Step(s) = StepOf(Boundary(s, "append"), Boundary(s, "prepend"), Repeats(s), Liked(s), Both(Liked(s)))
BY DEF Step, StepOf, Both, Liked, Repeats

LEMMA AlikeStep == ASSUME NEW s, NEW r, Alike(s, r), Fresh(s), Fresh(r) PROVE Step(s) = Step(r)
<1>1. \A e \in Ends : Boundary(s, e) = Boundary(r, e)
  <2>1. \A e : Moves(s, e) = Moves(r, e)
    BY AlikeJoins DEF Moves
  <2> QED
    BY <2>1, FreshMoves
<1>2. Boundary(s, "append") = Boundary(r, "append") /\ Boundary(s, "prepend") = Boundary(r, "prepend")
  BY <1>1 DEF Ends
<1>3. \A e : Border(s, e) = Border(r, e)
  BY DEF Border, Alike
<1>4. Duplicates(s, "append") = Duplicates(r, "append") /\ Duplicates(s, "prepend") = Duplicates(r, "prepend")
  BY <1>2, <1>3, Zenon DEF Duplicates
<1>5. Liked(s) = Liked(r) /\ Repeats(s) = Repeats(r)
  BY <1>2, <1>4, Zenon DEF Liked, Repeats
<1> QED
  BY <1>2, <1>5, StepIs, Zenon

LEMMA AlikeApply == ASSUME NEW s, NEW r, Alike(s, r), NEW m PROVE Alike(Apply(s, m), Apply(r, m))
BY DEF Alike, Apply

LEMMA LookedAlike == ASSUME NEW s \in Assembly PROVE Alike(Looked(s), s)
BY DEF Looked, Alike, Assembly

LEMMA BareAlike ==
  ASSUME InputOK, NEW s \in Assembly PROVE Alike(Bare(s), s) /\ Fresh(Bare(s)) /\ Bare(s) \in Assembly
BY BareFacts DEF Alike

\* Assemblies that differ in their dead ends alone are equal without them.
LEMMA BareSame ==
  ASSUME InputOK, NEW s \in Assembly, NEW r \in Assembly, Alike(s, r), s.order = r.order
  PROVE  Bare(s) = Bare(r)
<1> DEFINE d == Seed(1, {}).dead
<1> HIDE DEF d
<1>1. Bare(s) = [s EXCEPT !.dead = d] /\ Bare(r) = [r EXCEPT !.dead = d]
  BY DEF Bare, d
<1> QED
  BY <1>1 DEF Assembly, Alike

-----------------------------------------------------------------------------
(* The assemblies of a number of joins.                                    *)

LEMMA UsedFinite ==
  ASSUME InputOK, NEW u, u \subseteq All
  PROVE  /\ IsFiniteSet(u) /\ Cardinality(u) \in Nat /\ Len(input) \in Nat /\ Len(input) >= 1
         /\ Cardinality(u) <= Len(input)
         /\ Cardinality(u) = Len(input) <=> u = All
<1>1. All = 1 .. Len(input) /\ Len(input) \in Nat /\ Len(input) >= 1
  BY DEF InputOK, All
<1>2. IsFiniteSet(All) /\ Cardinality(All) = Len(input)
  BY <1>1, FS_Interval
<1>3. IsFiniteSet(u) /\ Cardinality(u) <= Cardinality(All) /\ (Cardinality(All) = Cardinality(u) => All = u)
  BY <1>2, FS_Subset
<1>4. Cardinality(u) \in Nat
  BY <1>3, FS_CardinalityType
<1> QED
  BY <1>1, <1>2, <1>3, <1>4

\* An assembly that a join extends has one fragment more.
LEMMA OneMore ==
  ASSUME InputOK, NEW s \in Assembly, NEW m \in Step(s)
  PROVE  /\ Apply(s, m) \in Assembly /\ Cardinality(Apply(s, m).used) = Cardinality(s.used) + 1
         /\ s.used # All
<1>1. PICK e \in Ends : m \in Joins(s, e)
  BY StepJoins
<1>2. m.index \in All \ s.used
  BY <1>1, JoinFacts
<1>3. s.used \subseteq All /\ IsFiniteSet(s.used)
  BY UsedFinite DEF Assembly
<1>4. Apply(s, m).used = s.used \cup {m.index}
  BY DEF Apply
<1>5. Cardinality(s.used \cup {m.index}) = Cardinality(s.used) + 1
  BY <1>2, <1>3, FS_AddElement
<1> QED
  BY <1>2, <1>4, <1>5, GrownType

LEMMA ReachedType ==
  ASSUME InputOK, NEW n \in Nat, NEW s \in Reached[n]
  PROVE  s \in Assembly /\ Fresh(s) /\ Cardinality(s.used) = n + 1
<1> DEFINE Shape(r, i) == r \in Assembly /\ Fresh(r) /\ Cardinality(r.used) = i + 1
           Q == {i \in Nat : \A r \in Reached[i] : Shape(r, i)}
<1>1. 0 \in Q
  <2>1. Cardinality({1}) = 1
    BY FS_Singleton
  <2>2. Shape(Seed(1, {}), 0)
    BY <2>1, SeedFacts DEF Good
  <2>3. Reached[0] = {Seed(1, {})}
    BY ReachedFacts
  <2> HIDE DEF Shape
  <2> QED
    BY <2>2, <2>3
<1>2. ASSUME NEW i \in Nat, i \in Q PROVE i + 1 \in Q
  <2>1. Reached[i + 1] = Grown(Reached[i])
    <3>1. i + 1 \in Nat /\ i + 1 # 0 /\ i + 1 - 1 = i
      OBVIOUS
    <3> QED
      BY <3>1, ReachedFacts
  <2>2. ASSUME NEW r \in Reached[i], NEW m \in Step(r) PROVE Shape(Bare(Apply(r, m)), i + 1)
    <3>1. r \in Assembly /\ Cardinality(r.used) = i + 1
      BY <1>2
    <3>2. Apply(r, m) \in Assembly /\ Cardinality(Apply(r, m).used) = i + 1 + 1
      BY <3>1, OneMore
    <3> QED
      BY <3>2, BareFacts
  <2> HIDE DEF Shape
  <2>3. \A r \in Reached[i + 1] : Shape(r, i + 1)
    BY <2>1, <2>2, Zenon DEF Grown
  <2> QED
    BY <2>3
<1> HIDE DEF Q
<1>3. n \in Q
  BY <1>1, <1>2, Numbers
<1> QED
  BY <1>3 DEF Q

-----------------------------------------------------------------------------
(* What the search holds is among them.                                    *)

Met(s) == \E n \in Nat : Cardinality(s.used) = n + 1 /\ Bare(s) \in Reached[n]

LEMMA MetSeed == ASSUME InputOK PROVE Met(Seed(1, {}))
<1>1. Cardinality({1}) = 0 + 1
  BY FS_Singleton
<1> QED
  BY <1>1, SeedFacts, ReachedFacts DEF Met

LEMMA MetAlike ==
  ASSUME InputOK, NEW s \in Assembly, NEW r \in Assembly, Alike(s, r), s.order = r.order, Met(s)
  PROVE  Met(r)
BY BareSame DEF Met, Alike

LEMMA MetLooked == ASSUME InputOK, NEW s \in Assembly, Met(s) PROVE Met(Looked(s))
<1>1. Alike(s, Looked(s)) /\ Looked(s) \in Assembly /\ Looked(s).order = s.order
  BY LookedAlike, LookedJoins DEF Alike
<1> QED
  BY <1>1, MetAlike

LEMMA MetApplied ==
  ASSUME InputOK, NEW s, Good(s, {}), Met(s), NEW m \in Step(s) PROVE Met(Apply(Looked(s), m))
<1>1. s \in Assembly /\ Fresh(s)
  BY DEF Good
<1> DEFINE b == Bare(s)
           l == Looked(s)
<1>2. b \in Assembly /\ Alike(b, s) /\ Fresh(b) /\ b.order = s.order
  BY <1>1, BareAlike, BareFacts
<1>3. l \in Assembly /\ l.order = s.order /\ Alike(l, s) /\ Fresh(l)
  BY <1>1, LookedAlike, LookedJoins
<1>4. PICK n \in Nat : Cardinality(s.used) = n + 1 /\ b \in Reached[n]
  BY DEF Met
<1> HIDE DEF b, l
<1>5. m \in Step(b) /\ m \in Step(l)
  BY <1>1, <1>2, <1>3, AlikeStep DEF Alike
<1>6. Alike(Apply(b, m), Apply(l, m))
  BY <1>2, <1>3, AlikeApply DEF Alike
<1>7. /\ Apply(b, m) \in Assembly /\ Apply(l, m) \in Assembly
      /\ Cardinality(Apply(l, m).used) = n + 1 + 1
  BY <1>2, <1>3, <1>4, <1>5, OneMore DEF Alike
<1>8. Apply(b, m).order = Apply(l, m).order
  BY <1>2, <1>3 DEF Apply
<1>9. Bare(Apply(b, m)) = Bare(Apply(l, m))
  BY <1>6, <1>7, <1>8, BareSame
<1>10. Bare(Apply(b, m)) \in Reached[n + 1]
  <2>1. n + 1 \in Nat /\ n + 1 # 0 /\ n + 1 - 1 = n
    OBVIOUS
  <2>2. Reached[n + 1] = Grown(Reached[n])
    BY <2>1, ReachedFacts
  <2>3. Bare(Apply(b, m)) \in Grown(Reached[n])
    <3>1. Bare(Apply(b, m)) \in {Bare(Apply(b, x)) : x \in Step(b)}
      BY <1>5
    <3> QED
      BY <1>4, <3>1, Zenon DEF Grown
  <2> QED
    BY <2>2, <2>3
<1> QED
  BY <1>7, <1>9, <1>10 DEF Met, l

\* One that has placed every fragment is a completion.
LEMMA MetAll ==
  ASSUME InputOK, NEW s \in Assembly, Met(s), s.used = All PROVE s.text \in Completions
<1>1. PICK n \in Nat : Cardinality(s.used) = n + 1 /\ Bare(s) \in Reached[n]
  BY DEF Met
<1>2. Cardinality(s.used) = Len(input) /\ Len(input) \in Nat
  BY UsedFinite
<1>3. n = Len(input) - 1
  BY <1>1, <1>2
<1>4. Bare(s).text = s.text
  BY BareFacts
<1> QED
  BY <1>1, <1>3, <1>4 DEF Completions

-----------------------------------------------------------------------------
(* What the search has left out is not.                                    *)

\* The joins of s lead to keys of W.
Followed(W, s) == \A m \in Step(s) : Key(Apply(s, m)) \in W

\* W holds the first fragment, and with each key that is not open a completion or
\* what its joins lead to.
Covers(W, open, texts) ==
  /\ Key(Seed(1, {})) \in W
  /\ \A s \in Assembly : Fresh(s) /\ Key(s) \in W =>
       \/ Key(s) \in open
       \/ s.used = All /\ s.text \in texts
       \/ s.used # All /\ Followed(W, s)

LEMMA CoversAll ==
  ASSUME InputOK, NEW W, NEW texts, Covers(W, {}, texts) PROVE Completions \subseteq texts
<1> DEFINE N == Len(input)
           Q == {n \in Nat : n < N => \A s \in Reached[n] : Key(s) \in W}
<1>1. N \in Nat /\ N >= 1
  BY DEF InputOK
<1>2. 0 \in Q
  BY ReachedFacts DEF Covers
<1>3. ASSUME NEW n \in Nat, n \in Q PROVE n + 1 \in Q
  <2> SUFFICES ASSUME n + 1 < N, NEW t \in Reached[n + 1] PROVE Key(t) \in W
    OBVIOUS
  <2>1. Reached[n + 1] = Grown(Reached[n])
    <3>1. n + 1 \in Nat /\ n + 1 # 0 /\ n + 1 - 1 = n
      OBVIOUS
    <3> QED
      BY <3>1, ReachedFacts
  <2>2. PICK s \in Reached[n] : \E m \in Step(s) : t = Bare(Apply(s, m))
    BY <2>1, Zenon DEF Grown
  <2>3. PICK m \in Step(s) : t = Bare(Apply(s, m))
    BY <2>2
  <2>4. s \in Assembly /\ Fresh(s)
    BY <2>2, ReachedType
  <2>5. Key(s) \in W
    <3>1. n < N
      BY <1>1
    <3> QED
      BY <1>3, <3>1
  <2>6. s.used # All
    BY <2>3, <2>4, OneMore
  <2>7. Key(Apply(s, m)) \in W
    BY <2>3, <2>4, <2>5, <2>6 DEF Covers, Followed
  <2>8. Alike(t, Apply(s, m))
    BY <2>3, <2>4, OneMore, BareAlike
  <2> QED
    BY <2>7, <2>8, AlikeKey
<1> SUFFICES ASSUME NEW s \in Reached[N - 1] PROVE s.text \in texts
  BY DEF Completions
<1>4. N - 1 \in Nat /\ N - 1 < N
  BY <1>1
<1>5. s \in Assembly /\ Fresh(s) /\ Cardinality(s.used) = N - 1 + 1
  BY <1>4, ReachedType
<1>6. s.used \subseteq All
  BY <1>5 DEF Assembly
<1>7. s.used = All
  BY <1>1, <1>5, <1>6, UsedFinite
<1> HIDE DEF Q
<1>8. N - 1 \in Q
  BY <1>2, <1>3, <1>4, Numbers
<1>9. Key(s) \in W
  BY <1>4, <1>8 DEF Q
<1> QED
  BY <1>5, <1>7, <1>9 DEF Covers

\* One key is closed, and new ones are opened.
LEMMA CoversOn ==
  ASSUME NEW W, NEW open, NEW texts, Covers(W, open, texts),
         NEW W2, NEW open2, NEW texts2, W \subseteq W2, W2 \ W \subseteq open2, texts \subseteq texts2,
         NEW s \in Assembly, Fresh(s), open \ {Key(s)} \subseteq open2,
         (s.used = All /\ s.text \in texts2) \/ (s.used # All /\ Followed(W2, s))
  PROVE  Covers(W2, open2, texts2)
<1>1. Key(Seed(1, {})) \in W2
  BY DEF Covers
<1>2. ASSUME NEW r \in Assembly, Fresh(r), Key(r) \in W2, Key(r) \notin open2
      PROVE  (r.used = All /\ r.text \in texts2) \/ (r.used # All /\ Followed(W2, r))
  <2>1. Key(r) \in W
    BY <1>2
  <2>2. CASE Key(r) = Key(s)
    <3>1. Alike(s, r)
      BY <2>2, AlikeKey DEF Alike
    <3>2. Step(r) = Step(s) /\ r.used = s.used /\ r.text = s.text
      BY <1>2, <3>1, AlikeStep DEF Alike
    <3>3. \A m : Key(Apply(r, m)) = Key(Apply(s, m))
      BY <3>1, AlikeApply, AlikeKey
    <3> QED
      BY <3>2, <3>3 DEF Followed
  <2>3. CASE Key(r) # Key(s)
    <3>1. (r.used = All /\ r.text \in texts) \/ (r.used # All /\ Followed(W, r))
      BY <1>2, <2>1, <2>3 DEF Covers
    <3> QED
      BY <3>1 DEF Followed
  <2> QED
    BY <2>2, <2>3
<1> QED
  BY <1>1, <1>2 DEF Covers

-----------------------------------------------------------------------------
(* The fragments stay, and so do all assemblies.                           *)

StepParts ==
  \A s : Step(s) = StepOf(Boundary(s, "append"), Boundary(s, "prepend"), Repeats(s), Liked(s), Both(Liked(s)))

LEMMA StepPartsNow == StepParts
BY StepIs DEF StepParts

LEMMA StepPartsNext == StepParts'
BY StepPartsNow, PTL

LEMMA StepSame ==
  ASSUME UNCHANGED input
  PROVE  /\ \A s : Step(s)' = Step(s)
         /\ \A s, m : Apply(s, m)' = Apply(s, m)
         /\ Seed(1, {})' = Seed(1, {})
<1>1. All' = All /\ (\A i : Text(i)' = Text(i)) /\ (\A i : Pos(i)' = Pos(i))
  BY DEF All, Text, Pos
<1>2. \A m : Extension(m)' = Extension(m)
  BY <1>1 DEF Extension
<1>3. \A s, m : Apply(s, m)' = Apply(s, m)
  <2>1. \A n : UpToCap(n)' = UpToCap(n)
    BY <1>1 DEF UpToCap
  <2>2. \A s, m, e : Reopens(s, m, e)' = Reopens(s, m, e)
    BY <1>1, <1>2, <2>1 DEF Reopens
  <2> QED
    BY <1>1, <1>2, <2>2 DEF Apply
<1>4. Seed(1, {})' = Seed(1, {})
  BY <1>1 DEF Seed
<1>5. \A s, e : Boundary(s, e)' = Boundary(s, e)
  <2>1. \A s, e : Moves(s, e)' = Moves(s, e)
    BY SameInput DEF Moves
  <2> QED
    BY <2>1 DEF Boundary
<1>6. \A s, e : Duplicates(s, e)' = Duplicates(s, e)
  BY <1>1, <1>2, <1>5 DEF Duplicates, Border
<1>7. \A M : Preferred(M)' = Preferred(M)
  <2>1. \A M : Compatible(M)' = Compatible(M)
    BY <1>2 DEF Compatible
  <2> QED
    BY <1>1, <1>2, <2>1 DEF Preferred, Least
<1>8. \A M : Both(M)' = Both(M)
  BY <1>2 DEF Both
<1>9. \A s : Step(s)' = Step(s)
  <2> SUFFICES ASSUME NEW s PROVE Step(s)' = Step(s)
    OBVIOUS
  <2>1. Boundary(s, "append")' = Boundary(s, "append") /\ Boundary(s, "prepend")' = Boundary(s, "prepend")
    BY <1>5
  <2>2. Liked(s)' = Liked(s) /\ Repeats(s)' = Repeats(s)
    BY <1>6, <1>7, <2>1, Zenon DEF Liked, Repeats
  <2>3. Both(Liked(s))' = Both(Liked(s))
    BY <1>8, <2>2
  <2>4. Step(s)' = StepOf(Boundary(s, "append")', Boundary(s, "prepend")', Repeats(s)', Liked(s)', Both(Liked(s))')
    BY StepPartsNext DEF StepParts
  <2> QED
    BY <2>1, <2>2, <2>3, <2>4, StepIs
<1> QED
  BY <1>3, <1>4, <1>9

LEMMA LevelsOne == ASSUME NEW f, NEW g, Levels(f), Levels(g) PROVE f = g
<1> DEFINE Q == {n \in Nat : f[n] = g[n]}
<1>1. /\ f = [n \in Nat |-> f[n]] /\ f[0] = {Seed(1, {})} /\ \A n \in Nat : n # 0 => f[n] = Grown(f[n - 1])
      /\ g = [n \in Nat |-> g[n]] /\ g[0] = {Seed(1, {})} /\ \A n \in Nat : n # 0 => g[n] = Grown(g[n - 1])
  BY DEF Levels
<1>2. 0 \in Q
  BY <1>1
<1>3. ASSUME NEW i \in Nat, i \in Q PROVE i + 1 \in Q
  <2>1. i + 1 \in Nat /\ i + 1 # 0 /\ i + 1 - 1 = i
    OBVIOUS
  <2>2. f[i + 1] = Grown(f[i]) /\ g[i + 1] = Grown(g[i])
    BY <1>1, <2>1
  <2> QED
    BY <1>3, <2>2
<1> HIDE DEF Q
<1>4. \A n \in Nat : n \in Q
  BY <1>2, <1>3, Numbers
<1> QED
  BY <1>1, <1>4 DEF Q

LEMMA AllSame ==
  ASSUME InputOK, UNCHANGED input
  PROVE  /\ All' = All /\ Completions' = Completions
         /\ \A s : Met(s) => Met(s)'
         /\ \A W, open, texts : Covers(W, open, texts) => Covers(W, open, texts)'
         /\ \A W, s : Followed(W, s)' <=> Followed(W, s)
         /\ Assembly' = Assembly /\ \A s : Fresh(s)' <=> Fresh(s)
<1>1. InputOK' /\ All' = All /\ Assembly' = Assembly
  BY SameInput DEF InputOK
<1>2. \A s : Fresh(s)' <=> Fresh(s)
  BY SameInput DEF Fresh
<1>3. \A s : Bare(s)' = Bare(s)
  BY StepSame DEF Bare
<1>4. \A A : Grown(A)' = Grown(A)
  BY <1>3, StepSame DEF Grown
<1>5. Levels(Reached) /\ Levels(Reached)'
  BY <1>1, ReachedNow, ReachedNext DEF ReachedLevels
<1>6. Reached' = Reached
  <2>1. \A f : Levels(f)' => Levels(f)
    BY <1>4, StepSame DEF Levels
  <2>2. Levels(Reached')
    BY <1>5, <2>1
  <2> QED
    BY <1>5, <2>2, LevelsOne
<1>7. Completions' = Completions
  BY <1>6 DEF Completions
<1>8. \A s : Met(s) => Met(s)'
  BY <1>3, <1>6 DEF Met
<1>9. \A W, s : Followed(W, s)' <=> Followed(W, s)
  BY StepSame DEF Followed, Key
<1>10. \A W, open, texts : Covers(W, open, texts) => Covers(W, open, texts)'
  BY <1>1, <1>2, <1>9, StepSame DEF Covers, Key
<1> QED
  BY <1>1, <1>2, <1>7, <1>8, <1>9, <1>10

-----------------------------------------------------------------------------
(* The invariant of the search.                                            *)

Frontier(c, q) == (IF c = None THEN {} ELSE {Key(c)}) \cup {Key(q[i]) : i \in DOMAIN q}
Solution(c) == IF c = None THEN {} ELSE {c.text}

\* W covers what is still to be searched, and what has been seen is followed.
Explores(W, c, q, done, seen) ==
  /\ Covers(W, Frontier(c, q), Solution(done))
  /\ \A s \in Assembly : Fresh(s) /\ Key(s) \in seen => Followed(W, s)

Verdict(primary, st) ==
  CASE st = "unique_complete_assembly" ->
         Completions = {primary.part.text} /\ primary.part.used = All
    [] st = "multiple_complete_assemblies" -> \E a, b \in Completions : a # b
    [] st = "no_complete_assembly" -> Completions = {}
    [] st = "not_needed" ->
         Completions = IF primary.part.used = All THEN {primary.part.text} ELSE {}
    [] OTHER -> TRUE

SearchMet(c, q, done) ==
  /\ c # None => Met(c)
  /\ \A i \in DOMAIN q : Met(q[i])
  /\ done # None => Met(done) /\ done.used = All

SearchTrue ==
  /\ phase = "assemble" => /\ status = "not_needed" /\ current = None /\ complete = None /\ visited = {}
                           /\ Met(section) /\ \E W : Covers(W, {Key(section)}, {})
  /\ phase = "search" => /\ SearchMet(current, pending, complete)
                         /\ \E W : Explores(W, current, pending, complete, visited)
  /\ sections # <<>> => Verdict(Head(sections), status)

LEMMA NoneApart == ASSUME InputOK PROVE None \notin Assembly
<1>1. All \subseteq Nat
  BY DEF InputOK, All
<1>2. \A x \in Seq(All) : x \in Seq(Nat)
  <2> SUFFICES ASSUME NEW x \in Seq(All) PROVE x \in Seq(Nat)
    OBVIOUS
  <2>1. Len(x) \in Nat /\ x = [i \in 1 .. Len(x) |-> x[i]] /\ \A i \in 1 .. Len(x) : x[i] \in Nat
    BY <1>1
  <2>2. x \in [1 .. Len(x) -> Nat]
    BY <2>1
  <2> QED
    BY <2>1, <2>2
<1>3. Assembly \subseteq [text : Seq(Tokens), used : SUBSET Nat, order : Seq(Nat), first : Positions,
                          last : Positions, dead : [Ends -> BOOLEAN]]
  BY <1>1, <1>2 DEF Assembly
<1> QED
  BY <1>3, Type2Assumption DEF Ends

\* A step that goes on with the search.
LEMMA GoesOn ==
  ASSUME Inv, sections = <<>>, phase' = "search", UNCHANGED <<input, sections>>,
         SearchMet(current', pending', complete'),
         NEW W, Explores(W, current', pending', complete', visited')
  PROVE  SearchTrue'
<1>1. sections' = <<>> /\ InputOK
  BY DEF Inv
<1>2. \A c, q, d : SearchMet(c, q, d) => SearchMet(c, q, d)'
  BY <1>1, AllSame DEF SearchMet
<1>3. \A c, q, d, v : Explores(W, c, q, d, v) => Explores(W, c, q, d, v)'
  BY <1>1, AllSame DEF Explores
<1>4. SearchMet(current, pending, complete)'
  BY <1>2
<1>5. Explores(W, current, pending, complete, visited)'
  BY <1>3
<1> QED
  BY <1>1, <1>4, <1>5 DEF SearchTrue

\* The first section is finished.
LEMMA Decided ==
  ASSUME Inv, sections = <<>>, UNCHANGED input, NEW s, NEW stop, Close(s, stop),
         Verdict([part |-> s, stop |-> stop], status')
  PROVE  SearchTrue'
<1> DEFINE r == [part |-> s, stop |-> stop]
<1>1. phase' = "islands" /\ sections' = <<r>>
  BY DEF Close
<1>2. \A p, v : Verdict(p, v) => Verdict(p, v)'
  BY AllSame DEF Verdict, Inv
<1>3. Head(sections') = r
  BY <1>1
<1> HIDE DEF r
<1>4. Verdict(r, status')
  BY DEF r
<1>5. Verdict(Head(sections), status)'
  BY <1>2, <1>3, <1>4
<1> QED
  BY <1>1, <1>5 DEF SearchTrue

\* After it nothing changes the verdict.
LEMMA Stands ==
  ASSUME Inv, SearchTrue, sections # <<>>, UNCHANGED <<input, status>>, phase' \notin {"assemble", "search"},
         sections' = sections \/ \E r : sections' = Append(sections, r)
  PROVE  SearchTrue'
<1>1. \A p, v : Verdict(p, v) => Verdict(p, v)'
  BY AllSame DEF Verdict, Inv
<1>2. Head(sections') = Head(sections)
  <2>1. sections \in Seq([part : Assembly, stop : Stops])
    BY DEF Inv, SectionsOK
  <2> QED
    BY <2>1
<1>3. Verdict(Head(sections), status)
  BY DEF SearchTrue
<1>4. Verdict(Head(sections), status)'
  BY <1>1, <1>2, <1>3
<1> QED
  BY <1>4 DEF SearchTrue

-----------------------------------------------------------------------------
(* The steps of the assembly.                                              *)

\* Every join of an assembly leads to a key of its own.
LEMMA LookedKey ==
  ASSUME NEW s \in Assembly, NEW m PROVE Key(Apply(Looked(s), m)) = Key(Apply(s, m)) /\ Key(Looked(s)) = Key(s)
BY LookedAlike, AlikeApply, AlikeKey

LEMMA InitTrue == ASSUME Init PROVE SearchTrue
<1>1. InputOK
  BY InitInv DEF Inv
<1>2. Met(Seed(1, {}))
  BY <1>1, MetSeed
<1>3. Covers({Key(Seed(1, {}))}, {Key(Seed(1, {}))}, {})
  BY DEF Covers
<1> QED
  BY <1>2, <1>3 DEF Init, SearchTrue

LEMMA ExtendTrue == ASSUME Inv, SearchTrue, Extend PROVE SearchTrue'
<1>1. /\ phase \in {"assemble", "islands"} /\ section # None
      /\ UNCHANGED <<input, phase, sections, current, pending, complete, visited, status>>
  BY DEF Extend, searchVars
<1>2. InputOK
  BY DEF Inv
<1>3. CASE phase = "islands"
  <2>1. sections # <<>>
    BY <1>3 DEF Inv, PhaseOK
  <2> QED
    BY <1>1, <1>3, <2>1, Stands
<1>4. CASE phase = "assemble"
  <2>1. PICK m \in Step(section) : section' = Apply(Looked(section), m) /\ Step(section) = {m}
    BY Zenon DEF Extend, Safe
  <2>2. Good(section, {}) /\ section \in Assembly /\ Fresh(section) /\ sections = <<>>
    BY <1>4 DEF Inv, PhaseOK, Good
  <2>3. PICK W : Covers(W, {Key(section)}, {})
    BY <1>4 DEF SearchTrue
  <2> DEFINE k == Key(section')
             W2 == W \cup {k}
  <2>4. k = Key(Apply(section, m))
    BY <2>1, <2>2, LookedKey
  <2> HIDE DEF k
  <2>5. Followed(W2, section)
    BY <2>1, <2>4 DEF Followed
  <2>6. section.used # All
    BY <1>2, <2>1, <2>2, OneMore
  <2>7. Covers(W2, {k}, {})
    BY <2>2, <2>3, <2>5, <2>6, CoversOn
  <2>8. Met(section')
    BY <1>2, <1>4, <2>1, <2>2, MetApplied DEF SearchTrue
  <2>9. Met(section)'
    <3>1. \A s : Met(s) => Met(s)'
      BY <1>1, <1>2, AllSame
    <3> QED
      BY <2>8, <3>1
  <2>10. \E X : Covers(X, {Key(section)}, {})'
    <3>1. \A X, o, t : Covers(X, o, t) => Covers(X, o, t)'
      BY <1>1, <1>2, AllSame
    <3>2. PICK X, x : X = W2 /\ x = k
      OBVIOUS
    <3>3. Covers(X, {x}, {})
      BY <2>7, <3>2
    <3>4. Covers(X, {x}, {})'
      BY <3>1, <3>3
    <3>5. x = Key(section)'
      BY <3>2 DEF k, Key
    <3> QED
      BY <3>4, <3>5
  <2> QED
    BY <1>1, <1>4, <2>2, <2>9, <2>10 DEF SearchTrue
<1> QED
  BY <1>1, <1>3, <1>4

LEMMA FinishAssemblyTrue == ASSUME Inv, SearchTrue, FinishAssembly PROVE SearchTrue'
<1> DEFINE texts == IF section.used = All THEN {section.text} ELSE {}
<1>1. /\ phase = "assemble" /\ Step(section) = {} /\ Close(section, Stuck(section))
      /\ UNCHANGED <<input, status>> /\ InputOK
  BY DEF FinishAssembly, Inv
<1>2. Good(section, {}) /\ section \in Assembly /\ Fresh(section) /\ sections = <<>>
  BY <1>1 DEF Inv, PhaseOK, Good
<1>3. Met(section) /\ status' = "not_needed"
  BY <1>1 DEF SearchTrue
<1>4. PICK W : Covers(W, {Key(section)}, {})
  BY <1>1 DEF SearchTrue
<1>5. Covers(W, {}, texts)
  <2>1. Followed(W, section)
    BY <1>1 DEF Followed
  <2>2. (section.used = All /\ section.text \in texts) \/ (section.used # All /\ Followed(W, section))
    BY <2>1
  <2> HIDE DEF texts
  <2> QED
    BY <1>2, <1>4, <2>2, CoversOn
<1>6. Completions \subseteq texts
  BY <1>1, <1>5, CoversAll
<1>7. section.used = All => section.text \in Completions
  BY <1>1, <1>2, <1>3, MetAll
<1>8. Completions = texts
  BY <1>6, <1>7
<1>9. Verdict([part |-> section, stop |-> Stuck(section)], status')
  BY <1>3, <1>8 DEF Verdict
<1> QED
  BY <1>1, <1>2, <1>9, Decided

LEMMA AmbiguousTrue == ASSUME Inv, SearchTrue, Ambiguous PROVE SearchTrue'
<1>1. phase = "assemble" /\ UNCHANGED <<input, current, complete, visited>> /\ InputOK
  BY DEF Ambiguous, Inv
<1>2. Good(section, {}) /\ section \in Assembly /\ sections = <<>>
  BY <1>1 DEF Inv, PhaseOK, Good
<1>3. CASE budget = 0
  <2>1. Close(Looked(section), "ambiguous_continuation") /\ status' = "disabled"
    BY <1>3 DEF Ambiguous
  <2>2. Verdict([part |-> Looked(section), stop |-> "ambiguous_continuation"], status')
    BY <2>1 DEF Verdict
  <2> QED
    BY <1>1, <1>2, <2>1, <2>2, Decided
<1>4. CASE budget # 0
  <2>1. PICK l : l = Looked(section)
    OBVIOUS
  <2>2. phase' = "search" /\ pending' = <<l>> /\ UNCHANGED sections
    BY <1>4, <2>1 DEF Ambiguous
  <2>3. current' = None /\ complete' = None /\ visited' = {} /\ Met(section)
    BY <1>1 DEF SearchTrue
  <2>4. Met(l)
    BY <1>1, <1>2, <2>1, <2>3, MetLooked
  <2>5. DOMAIN <<l>> = {1} /\ <<l>>[1] = l
    OBVIOUS
  <2>6. SearchMet(None, <<l>>, None)
    BY <2>4, <2>5 DEF SearchMet
  <2>7. PICK W : Covers(W, {Key(section)}, {})
    BY <1>1 DEF SearchTrue
  <2>8. Frontier(None, <<l>>) = {Key(section)}
    <3>1. Key(l) = Key(section)
      BY <1>2, <2>1, LookedKey
    <3> QED
      BY <2>5, <3>1 DEF Frontier
  <2>9. Explores(W, None, <<l>>, None, {})
    BY <2>7, <2>8 DEF Explores, Solution
  <2> QED
    BY <1>1, <1>2, <2>2, <2>3, <2>6, <2>9, GoesOn
<1> QED
  BY <1>3, <1>4

-----------------------------------------------------------------------------
(* The steps of the search.                                                *)

LEMMA Exploring ==
  ASSUME Inv, SearchTrue, phase = "search"
  PROVE  /\ InputOK /\ sections = <<>> /\ None \notin Assembly
         /\ SearchMet(current, pending, complete)
         /\ \E W : Explores(W, current, pending, complete, visited)
         /\ pending \in Seq(Assembly)
         /\ current # None => Good(current, {}) /\ current \in Assembly /\ Fresh(current) /\ Met(current)
         /\ complete # None => complete \in Assembly /\ Met(complete) /\ complete.used = All
<1>1. InputOK /\ sections = <<>> /\ None \notin Assembly
  BY NoneApart DEF Inv, PhaseOK
<1>2. SearchMet(current, pending, complete) /\ \E W : Explores(W, current, pending, complete, visited)
  BY DEF SearchTrue
<1>3. pending \in Seq(Assembly)
  BY DEF Inv, SearchOK
<1>4. current # None => Good(current, {}) /\ current \in Assembly /\ Fresh(current) /\ Met(current)
  BY <1>2 DEF Inv, SearchOK, Good, SearchMet
<1>5. complete # None => complete \in Assembly /\ Met(complete) /\ complete.used = All
  BY <1>2 DEF Inv, SearchOK, Good, SearchMet
<1> QED
  BY <1>1, <1>2, <1>3, <1>4, <1>5

LEMMA FollowedAlike ==
  ASSUME NEW W, NEW s, NEW r, Alike(s, r), Fresh(s), Fresh(r), Followed(W, s) PROVE Followed(W, r)
<1>1. Step(r) = Step(s)
  BY AlikeStep
<1>2. \A m : Key(Apply(r, m)) = Key(Apply(s, m))
  BY AlikeApply, AlikeKey
<1> QED
  BY <1>1, <1>2 DEF Followed

\* The search leaves the branch c: it is complete, or what it leads to is in W2.
LEMMA Leaves ==
  ASSUME NEW W, NEW c \in Assembly, Fresh(c), c # None, NEW q, NEW done, NEW seen,
         Explores(W, c, q, done, seen),
         NEW W2, NEW c2, NEW q2, NEW done2, NEW seen2, W \subseteq W2,
         W2 \ W \subseteq Frontier(c2, q2), Frontier(None, q) \subseteq Frontier(c2, q2),
         Solution(done) \subseteq Solution(done2),
         (c.used = All /\ c.text \in Solution(done2)) \/ (c.used # All /\ Followed(W2, c)),
         seen2 = seen \/ (seen2 = seen \cup {Key(c)} /\ Followed(W2, c))
  PROVE  Explores(W2, c2, q2, done2, seen2)
<1>1. Frontier(c, q) \ {Key(c)} \subseteq Frontier(c2, q2)
  BY DEF Frontier
<1>2. Covers(W2, Frontier(c2, q2), Solution(done2))
  BY <1>1, CoversOn DEF Explores
<1>3. ASSUME NEW s \in Assembly, Fresh(s), Key(s) \in seen2 PROVE Followed(W2, s)
  <2>1. CASE Key(s) \in seen
    <3>1. Followed(W, s)
      BY <1>3, <2>1 DEF Explores
    <3> QED
      BY <3>1 DEF Followed
  <2>2. CASE Key(s) \notin seen
    <3>1. Followed(W2, c) /\ Key(c) = Key(s)
      BY <1>3, <2>2
    <3>2. Alike(c, s)
      BY <3>1, AlikeKey
    <3> QED
      BY <1>3, <3>1, <3>2, FollowedAlike
  <2> QED
    BY <2>1, <2>2
<1> QED
  BY <1>2, <1>3 DEF Explores

LEMMA PopTrue == ASSUME Inv, SearchTrue, Pop PROVE SearchTrue'
<1> DEFINE n == Len(pending)
<1>1. /\ phase = "search" /\ pending # <<>> /\ current' = Last(pending) /\ pending' = Front(pending)
      /\ current = None /\ UNCHANGED <<input, phase, section, sections, complete, visited>>
  BY DEF Pop
<1>2. /\ InputOK /\ sections = <<>> /\ None \notin Assembly /\ pending \in Seq(Assembly)
      /\ SearchMet(current, pending, complete)
  BY <1>1, Exploring
<1>3. PICK W : Explores(W, current, pending, complete, visited)
  BY <1>1, Exploring
<1>4. n \in Nat \ {0} /\ DOMAIN pending = 1 .. n
  BY <1>1, <1>2
<1>5. PICK c, q : c = Last(pending) /\ q = Front(pending)
  OBVIOUS
<1>6. /\ DOMAIN q = 1 .. n - 1 /\ (\A i \in 1 .. n - 1 : q[i] = pending[i])
  BY <1>1, <1>2, <1>4, <1>5, SubSeqProperties DEF Front
<1>7. c = pending[n] /\ c \in Assembly /\ n \in DOMAIN pending
  BY <1>1, <1>2, <1>4, <1>5 DEF Last
<1> HIDE DEF n
<1>8. (\A i \in 1 .. n - 1 : i \in 1 .. n) /\ \A i \in 1 .. n : i = n \/ i \in 1 .. n - 1
  BY <1>4
<1>9. SearchMet(c, q, complete)
  BY <1>2, <1>4, <1>6, <1>7, <1>8 DEF SearchMet
<1>10. Frontier(c, q) = Frontier(None, pending)
  <2>1. c # None
    BY <1>2, <1>7
  <2>2. \A x \in Frontier(c, q) : x \in Frontier(None, pending)
    BY <1>4, <1>6, <1>7, <1>8, <2>1 DEF Frontier
  <2>3. \A x \in Frontier(None, pending) : x \in Frontier(c, q)
    BY <1>4, <1>6, <1>7, <1>8, <2>1 DEF Frontier
  <2> QED
    BY <2>2, <2>3
<1>11. Explores(W, c, q, complete, visited)
  BY <1>1, <1>3, <1>10 DEF Explores
<1> QED
  BY <1>1, <1>2, <1>5, <1>9, <1>11, GoesOn

LEMMA SolvedTrue == ASSUME Inv, SearchTrue, Solved PROVE SearchTrue'
<1>1. phase = "search" /\ current # None /\ current.used = All /\ UNCHANGED input
  BY DEF Solved
<1>2. /\ InputOK /\ sections = <<>> /\ SearchMet(current, pending, complete)
      /\ current \in Assembly /\ Fresh(current) /\ Met(current)
      /\ complete # None => complete \in Assembly /\ Met(complete) /\ complete.used = All
  BY <1>1, Exploring
<1>3. current.text \in Completions
  BY <1>1, <1>2, MetAll
<1>4. CASE complete # None /\ complete.text # current.text
  <2>1. Close(section, "ambiguous_continuation") /\ status' = "multiple_complete_assemblies"
    BY <1>4 DEF Solved, GiveUp
  <2>2. complete.text \in Completions
    BY <1>2, <1>4, MetAll
  <2>3. Verdict([part |-> section, stop |-> "ambiguous_continuation"], status')
    BY <1>3, <1>4, <2>1, <2>2 DEF Verdict
  <2> QED
    BY <1>1, <1>2, <2>1, <2>3, Decided
<1>5. CASE ~(complete # None /\ complete.text # current.text)
  <2>1. PICK d : d = IF complete = None THEN current ELSE complete
    OBVIOUS
  <2>2. complete' = d /\ current' = None /\ UNCHANGED <<phase, section, sections, pending, visited>>
    BY <1>5, <2>1 DEF Solved
  <2>3. PICK W : Explores(W, current, pending, complete, visited)
    BY <1>1, Exploring
  <2>4. d # None /\ d.text = current.text /\ Met(d) /\ d.used = All
    BY <1>1, <1>2, <1>5, <2>1
  <2>5. Solution(complete) \subseteq Solution(d) /\ current.text \in Solution(d)
    BY <1>5, <2>1, <2>4 DEF Solution
  <2>6. SearchMet(None, pending, d)
    BY <1>2, <2>4 DEF SearchMet
  <2>7. Explores(W, None, pending, d, visited)
    BY <1>1, <1>2, <2>3, <2>5, Leaves
  <2> QED
    BY <1>1, <1>2, <2>2, <2>6, <2>7, GoesOn
<1> QED
  BY <1>4, <1>5

LEMMA FollowTrue == ASSUME Inv, SearchTrue, Follow PROVE SearchTrue'
<1>1. /\ phase = "search" /\ current # None /\ current.used # All
      /\ UNCHANGED <<input, phase, section, sections, pending, complete, visited>>
  BY DEF Follow, Searching
<1>2. /\ InputOK /\ sections = <<>> /\ SearchMet(current, pending, complete) /\ None \notin Assembly
      /\ current \in Assembly /\ Fresh(current) /\ Met(current) /\ Good(current, {})
  BY <1>1, Exploring
<1>3. PICK W : Explores(W, current, pending, complete, visited)
  BY <1>1, Exploring
<1>4. CASE Step(current) = {} /\ current' = None
  <2>1. Followed(W, current)
    BY <1>4 DEF Followed
  <2>2. Explores(W, None, pending, complete, visited)
    BY <1>1, <1>2, <1>3, <2>1, Leaves
  <2>3. SearchMet(None, pending, complete)
    BY <1>2 DEF SearchMet
  <2> QED
    BY <1>1, <1>2, <1>4, <2>2, <2>3, GoesOn
<1>5. ASSUME NEW m \in Step(current), Safe(current, m), current' = Apply(Looked(current), m)
      PROVE  SearchTrue'
  <2>1. PICK c : c = Apply(Looked(current), m)
    OBVIOUS
  <2>2. PICK k : k = Key(Apply(current, m))
    OBVIOUS
  <2>3. Met(c) /\ Key(c) = k
    BY <1>2, <2>1, <2>2, MetApplied, LookedKey
  <2>4. c # None
    <3>1. Good(c, {})
      BY <1>2, <2>1, GoodApplied DEF InputOK
    <3> QED
      BY <1>2, <3>1 DEF Good
  <2> DEFINE W2 == W \cup {k}
  <2>5. Followed(W2, current)
    BY <1>5, <2>2 DEF Followed, Safe
  <2>6. k \in Frontier(c, pending) /\ Frontier(None, pending) \subseteq Frontier(c, pending)
    BY <2>3, <2>4 DEF Frontier
  <2>7. W \subseteq W2 /\ W2 \ W \subseteq Frontier(c, pending)
    BY <2>6
  <2> HIDE DEF W2
  <2>8. Explores(W2, c, pending, complete, visited)
    BY <1>1, <1>2, <1>3, <2>5, <2>6, <2>7, Leaves
  <2>9. SearchMet(c, pending, complete)
    BY <1>2, <2>3 DEF SearchMet
  <2> QED
    BY <1>1, <1>2, <1>5, <2>1, <2>8, <2>9, GoesOn
<1> QED
  BY <1>4, <1>5, Zenon DEF Follow

LEMMA RepeatedTrue == ASSUME Inv, SearchTrue, Repeated PROVE SearchTrue'
<1>1. /\ phase = "search" /\ current # None /\ current.used # All /\ current' = None
      /\ Key(current) \in visited
      /\ UNCHANGED <<input, phase, section, sections, pending, complete, visited>>
  BY DEF Repeated, Searching
<1>2. /\ InputOK /\ sections = <<>> /\ SearchMet(current, pending, complete)
      /\ current \in Assembly /\ Fresh(current)
  BY <1>1, Exploring
<1>3. PICK W : Explores(W, current, pending, complete, visited)
  BY <1>1, Exploring
<1>4. Followed(W, current)
  BY <1>1, <1>2, <1>3 DEF Explores
<1>5. Explores(W, None, pending, complete, visited)
  BY <1>1, <1>2, <1>3, <1>4, Leaves
<1>6. SearchMet(None, pending, complete)
  BY <1>2 DEF SearchMet
<1> QED
  BY <1>1, <1>2, <1>5, <1>6, GoesOn

LEMMA RunOutTrue == ASSUME Inv, SearchTrue, RunOut PROVE SearchTrue'
<1>1. /\ phase = "search" /\ UNCHANGED input /\ status' = "budget_exhausted"
      /\ Close(section, "ambiguous_continuation")
  BY DEF RunOut, Exhausted, GiveUp
<1>2. sections = <<>>
  BY <1>1, Exploring
<1>3. Verdict([part |-> section, stop |-> "ambiguous_continuation"], status')
  BY <1>1 DEF Verdict
<1> QED
  BY <1>1, <1>2, <1>3, Decided

LEMMA ExploredTrue == ASSUME Inv, SearchTrue, Explored PROVE SearchTrue'
<1>1. phase = "search" /\ current = None /\ pending = <<>> /\ UNCHANGED input
  BY DEF Explored
<1>2. /\ InputOK /\ sections = <<>>
      /\ complete # None => complete \in Assembly /\ Met(complete) /\ complete.used = All
  BY <1>1, Exploring
<1>3. PICK W : Explores(W, current, pending, complete, visited)
  BY <1>1, Exploring
<1>4. Frontier(current, pending) = {}
  BY <1>1 DEF Frontier
<1>5. Completions \subseteq Solution(complete)
  BY <1>2, <1>3, <1>4, CoversAll DEF Explores
<1>6. CASE complete = None
  <2>1. Close(section, "ambiguous_continuation") /\ status' = "no_complete_assembly"
    BY <1>6 DEF Explored, GiveUp
  <2>2. Completions = {}
    BY <1>5, <1>6 DEF Solution
  <2>3. Verdict([part |-> section, stop |-> "ambiguous_continuation"], status')
    BY <2>1, <2>2 DEF Verdict
  <2> QED
    BY <1>1, <1>2, <2>1, <2>3, Decided
<1>7. CASE complete # None
  <2>1. Close(complete, "all_fragments_merged") /\ status' = "unique_complete_assembly"
    BY <1>7 DEF Explored, Answer
  <2>2. complete.text \in Completions
    BY <1>2, <1>7, MetAll
  <2>3. Completions = {complete.text}
    BY <1>5, <1>7, <2>2 DEF Solution
  <2>4. Verdict([part |-> complete, stop |-> "all_fragments_merged"], status')
    BY <1>2, <1>7, <2>1, <2>3 DEF Verdict
  <2> QED
    BY <1>1, <1>2, <2>1, <2>4, Decided
<1> QED
  BY <1>6, <1>7

LEMMA BranchTrue == ASSUME Inv, SearchTrue, Branch PROVE SearchTrue'
<1>1. /\ phase = "search" /\ current # None /\ current.used # All /\ current' = None
      /\ UNCHANGED <<input, phase, section, sections, complete>>
      /\ visited' = visited \cup {Key(current)}
  BY DEF Branch, Searching
<1>2. /\ InputOK /\ sections = <<>> /\ SearchMet(current, pending, complete) /\ pending \in Seq(Assembly)
      /\ current \in Assembly /\ Fresh(current) /\ Met(current) /\ Good(current, {})
  BY <1>1, Exploring
<1>3. PICK W : Explores(W, current, pending, complete, visited)
  BY <1>1, Exploring
<1>4. PICK moves \in InOrder(Step(current)) :
        pending' = pending \o [i \in DOMAIN moves |-> Apply(Looked(current), moves[i])]
  BY DEF Branch
<1> DEFINE n == Cardinality(Step(current))
<1>5. IsFiniteSet(Step(current)) /\ n \in Nat
  BY <1>2, StepFinite, FS_CardinalityType DEF InputOK
<1>6. moves \in [1 .. n -> Step(current)] /\ \A m \in Step(current) : \E i \in 1 .. n : moves[i] = m
  <2>1. moves \in SetToSeqs(Step(current))
    BY <1>4, Zenon DEF InOrder, Sorted
  <2> QED
    BY <1>5, <2>1, Listed
<1> HIDE DEF n
<1> DEFINE b == [i \in DOMAIN moves |-> Apply(Looked(current), moves[i])]
           children == {Key(Apply(current, m)) : m \in Step(current)}
           W2 == W \cup children
<1>7. \A i \in 1 .. n : Good(b[i], {}) /\ Met(b[i]) /\ Key(b[i]) = Key(Apply(current, moves[i]))
  <2> SUFFICES ASSUME NEW i \in 1 .. n
               PROVE  Good(b[i], {}) /\ Met(b[i]) /\ Key(b[i]) = Key(Apply(current, moves[i]))
    OBVIOUS
  <2>1. moves[i] \in Step(current) /\ b[i] = Apply(Looked(current), moves[i])
    BY <1>6
  <2> HIDE DEF b
  <2> QED
    BY <1>2, <2>1, GoodApplied, MetApplied, LookedKey DEF InputOK
<1>8. b \in Seq(Assembly) /\ Len(b) = n /\ DOMAIN b = 1 .. n
  <2>1. DOMAIN b = 1 .. n
    BY <1>6
  <2>2. \A i \in 1 .. n : b[i] \in Assembly
    BY <1>7 DEF Good
  <2>3. b = [i \in 1 .. n |-> b[i]]
    BY <1>6
  <2> HIDE DEF b
  <2>4. b \in [1 .. n -> Assembly]
    BY <2>1, <2>2, <2>3
  <2> QED
    BY <1>5, <2>1, <2>4
<1>9. pending' = pending \o b
  BY <1>4
<1> HIDE DEF b
<1>10. PICK q : q = pending \o b
  OBVIOUS
<1>11. \A i \in DOMAIN q : \/ i \in DOMAIN pending /\ q[i] = pending[i]
                           \/ i - Len(pending) \in 1 .. n /\ q[i] = b[i - Len(pending)]
  BY <1>2, <1>5, <1>8, <1>10, ConcatProperties
<1>12. (\A i \in DOMAIN pending : i \in DOMAIN q /\ q[i] = pending[i])
  BY <1>2, <1>5, <1>8, <1>10, ConcatProperties
<1>13. \A i \in 1 .. n : Len(pending) + i \in DOMAIN q /\ q[Len(pending) + i] = b[i]
  BY <1>2, <1>5, <1>8, <1>10, ConcatProperties
<1>14. SearchMet(None, q, complete)
  BY <1>2, <1>7, <1>11 DEF SearchMet
<1>15. children \subseteq Frontier(None, q)
  <2> SUFFICES ASSUME NEW m \in Step(current) PROVE Key(Apply(current, m)) \in Frontier(None, q)
    OBVIOUS
  <2>1. PICK i \in 1 .. n : moves[i] = m
    BY <1>6
  <2>2. Key(q[Len(pending) + i]) = Key(Apply(current, m)) /\ Len(pending) + i \in DOMAIN q
    BY <1>7, <1>13, <2>1
  <2> QED
    BY <2>2 DEF Frontier
<1>16. Frontier(None, pending) \subseteq Frontier(None, q)
  BY <1>12 DEF Frontier
<1>17. W \subseteq W2 /\ W2 \ W \subseteq Frontier(None, q) /\ Followed(W2, current)
  BY <1>15 DEF Followed
<1> HIDE DEF W2, children
<1>18. Explores(W2, None, q, complete, visited \cup {Key(current)})
  BY <1>1, <1>2, <1>3, <1>16, <1>17, Leaves
<1> QED
  BY <1>1, <1>2, <1>9, <1>10, <1>14, <1>18, GoesOn

LEMMA SearchStepTrue == ASSUME Inv, SearchTrue, Search PROVE SearchTrue'
BY PopTrue, SolvedTrue, FollowTrue, RepeatedTrue, BranchTrue, RunOutTrue, ExploredTrue, Zenon DEF Search

-----------------------------------------------------------------------------
(* The steps after the primary text.                                       *)

\* From then on the primary text is there.
LEMMA SectionsThere == ASSUME Inv, phase \in {"islands", "merge", "done"} PROVE sections # <<>>
<1>1. CASE phase = "islands"
  BY <1>1 DEF Inv, PhaseOK
<1>2. CASE phase \in {"merge", "done"}
  <2>1. Base = All /\ All # {}
    <3>1. 1 \in All
      BY DEF Inv, InputOK, All
    <3> QED
      BY <1>2, <3>1 DEF Inv, PhaseOK
  <2> QED
    BY <2>1 DEF Base
<1> QED
  BY <1>1, <1>2

LEMMA IslandsTrue == ASSUME Inv, SearchTrue, Open \/ CloseIsland \/ BestEffort PROVE SearchTrue'
<1>1. /\ UNCHANGED <<input, status>> /\ phase' \notin {"assemble", "search"}
      /\ sections' = sections \/ \E r : sections' = Append(sections, r)
  <2>1. CASE Open
    BY <2>1 DEF Open
  <2>2. CASE CloseIsland
    BY <2>2 DEF CloseIsland, Close
  <2>3. CASE BestEffort
    BY <2>3 DEF BestEffort, Seeded, MergeHeld, MergeOverlapping, MergeUnsupported, Finish, Take, Merging
  <2> QED
    BY <2>1, <2>2, <2>3
<1>2. phase \in {"islands", "merge", "done"}
  BY DEF Open, CloseIsland, BestEffort, Seeded, MergeHeld, MergeOverlapping, MergeUnsupported, Finish, Merging
<1>3. sections # <<>>
  BY <1>2, SectionsThere
<1> QED
  BY <1>1, <1>3, Stands

LEMMA StutterTrue == ASSUME Inv, SearchTrue, UNCHANGED vars PROVE SearchTrue'
<1>1. UNCHANGED <<input, phase, section, sections, current, pending, complete, visited, status>> /\ InputOK
  BY DEF vars, searchVars, Inv
<1>2. /\ \A s : Met(s) => Met(s)'
      /\ \A W, open, texts : Covers(W, open, texts) => Covers(W, open, texts)'
  BY <1>1, AllSame
<1>3. \A p, v : Verdict(p, v) => Verdict(p, v)'
  BY <1>1, AllSame DEF Verdict
<1>4. CASE phase = "search"
  <2>1. sections = <<>>
    BY <1>4, Exploring
  <2>2. PICK W : Explores(W, current, pending, complete, visited)
    BY <1>4, Exploring
  <2>3. SearchMet(current', pending', complete')
    BY <1>1, <1>4, Exploring
  <2>4. Explores(W, current', pending', complete', visited')
    BY <1>1, <2>2
  <2> QED
    BY <1>1, <1>4, <2>1, <2>3, <2>4, GoesOn
<1>5. CASE phase = "assemble"
  <2>1. sections = <<>>
    BY <1>5 DEF Inv, PhaseOK
  <2>2. PICK W : Covers(W, {Key(section)}, {})
    BY <1>5 DEF SearchTrue
  <2>3. Covers(W, {Key(section)}, {})'
    BY <1>1, <1>2, <2>2 DEF Key
  <2>4. Met(section)'
    BY <1>1, <1>2, <1>5 DEF SearchTrue
  <2> QED
    BY <1>1, <1>5, <2>1, <2>3, <2>4 DEF SearchTrue
<1>6. CASE phase \notin {"search", "assemble"}
  BY <1>1, <1>3, <1>6 DEF SearchTrue
<1> QED
  BY <1>4, <1>5, <1>6

LEMMA NextTrue == ASSUME Inv, SearchTrue, [Next]_vars PROVE SearchTrue'
<1>1. CASE Extend \/ FinishAssembly \/ Ambiguous
  BY <1>1, ExtendTrue, FinishAssemblyTrue, AmbiguousTrue
<1>2. CASE Search
  BY <1>2, SearchStepTrue
<1>3. CASE Open \/ CloseIsland \/ BestEffort
  BY <1>3, IslandsTrue
<1>4. CASE UNCHANGED vars
  BY <1>4, StutterTrue
<1> QED
  BY <1>1, <1>2, <1>3, <1>4 DEF Next, Finished

(* The invariant of the search. *)
THEOREM SearchInvariant == Spec => []SearchTrue
<1>1. Init => SearchTrue
  BY InitTrue
<1>2. Inv /\ SearchTrue /\ [Next]_vars => SearchTrue'
  BY NextTrue
<1> QED
  BY <1>1, <1>2, Invariant, PTL DEF Spec

-----------------------------------------------------------------------------
(* The theorems.                                                           *)

(* Every assembly, branch and section is one the program could hold, and the
   reconstruction is in one of its phases. *)
THEOREM TypeCorrect == Spec => []TypeOK
<1>1. Inv => TypeOK
  <2> SUFFICES ASSUME Inv PROVE TypeOK
    OBVIOUS
  <2>1. {section, current, complete} \ {None} \subseteq Assembly
    BY DEF Inv, PhaseOK, Phases, SearchOK, Good
  <2> QED
    BY <2>1 DEF Inv, InputOK, SectionsOK, PhaseOK, Phases, SearchOK, Stops, TypeOK
<1> QED
  BY <1>1, Invariant, PTL

(* For any fragments, limits and budgets: an end is marked dead only while no
   fragment that is left can be joined to it. *)
THEOREM DeadEndsTrueHolds == Spec => []DeadEndsTrue
<1>1. Inv => DeadEndsTrue
  <2> SUFFICES ASSUME Inv, NEW s \in ({section, current, complete} \cup ToSet(pending)) \ {None}
               PROVE  Fresh(s)
    BY DEF DeadEndsTrue, Fresh
  <2>1. CASE s = section
    BY <2>1 DEF Inv, PhaseOK, Phases, Good
  <2>2. CASE s = current \/ s = complete
    BY <2>2 DEF Inv, SearchOK, Good
  <2>3. CASE s \in ToSet(pending)
    <3>1. PICK i \in DOMAIN pending : s = pending[i]
      BY <2>3 DEF ToSet
    <3> QED
      BY <3>1 DEF Inv, SearchOK, Good
  <2> QED
    BY <2>1, <2>2, <2>3
<1> QED
  BY <1>1, Invariant, PTL

(* For any fragments, limits and budgets: no fragment is placed twice, and at the
   end each has its place. *)
THEOREM EveryFragmentOnceHolds == Spec => []EveryFragmentOnce
<1>1. Inv => EveryFragmentOnce
  <2> SUFFICES ASSUME Inv PROVE EveryFragmentOnce
    OBVIOUS
  <2>1. PlacedOnce
    BY DEF Inv, SectionsOK
  <2>2. ASSUME phase = "done" PROVE UNION {ToSet(sections[i].part.order) : i \in DOMAIN sections} = All
    <3>1. Base = All
      BY <2>2 DEF Inv, PhaseOK
    <3>2. \A i \in DOMAIN sections : \A a \in DOMAIN sections[i].part.order : sections[i].part.order[a] \in All
      BY <3>1 DEF Inv, SectionsOK
    <3>3. \A x \in All : \E i \in DOMAIN sections : \E a \in DOMAIN sections[i].part.order :
            sections[i].part.order[a] = x
      BY <3>1 DEF Inv, SectionsOK
    <3> QED
      BY <3>2, <3>3 DEF ToSet
  <2> QED
    BY <2>1, <2>2 DEF EveryFragmentOnce, PlacedOnce
<1> QED
  BY <1>1, Invariant, PTL

\* What Parted says of two lists, said of one after the other.
LEMMA PartedOne ==
  ASSUME NEW D, NEW q \in Joints(D), NEW r \in Seq(D), Parted(q, r, D), NEW taken \in Seq(D),
         DOMAIN taken = DOMAIN q, \A a \in DOMAIN q : taken[a] = q[a].section
  PROVE  IsInjective(taken \o r) /\ ToSet(taken \o r) = D
<1> DEFINE n == Len(taken)
           m == Len(r)
           u == taken \o r
<1>1. n \in Nat /\ m \in Nat /\ DOMAIN taken = 1 .. n /\ DOMAIN q = 1 .. n /\ DOMAIN r = 1 .. m
  OBVIOUS
<1>2. u \in Seq(D) /\ Len(u) = n + m
  BY ConcatProperties
<1>3. DOMAIN u = 1 .. n + m
  BY <1>2
<1>4. \A a \in 1 .. n : u[a] = q[a].section
  <2>1. \A a \in 1 .. Len(taken) : u[a] = taken[a]
    BY ConcatProperties
  <2> QED
    BY <1>1, <2>1
<1>5. \A b \in 1 .. m : u[n + b] = r[b]
  OBVIOUS
<1>6. /\ \A c \in 1 .. n + m : c \in 1 .. n \/ \E b \in 1 .. m : c = n + b
      /\ \A a \in 1 .. n : a \in 1 .. n + m
      /\ \A b \in 1 .. m : n + b \in 1 .. n + m
  <2> HIDE DEF n, m
  <2>1. ASSUME NEW c \in 1 .. n + m, c \notin 1 .. n PROVE \E b \in 1 .. m : c = n + b
    <3>1. c - n \in 1 .. m /\ c = n + (c - n)
      BY <1>1, <2>1
    <3> QED
      BY <3>1
  <2>2. (\A a \in 1 .. n : a \in 1 .. n + m) /\ \A b \in 1 .. m : n + b \in 1 .. n + m
    BY <1>1
  <2> QED
    BY <2>1, <2>2
<1> HIDE DEF n, m, u
<1>7. IsInjective(u)
  <2> SUFFICES ASSUME NEW c \in 1 .. n + m, NEW d \in 1 .. n + m, u[c] = u[d] PROVE c = d
    BY <1>3 DEF IsInjective
  <2>1. CASE c \in 1 .. n /\ d \in 1 .. n
    BY <1>1, <1>4, <2>1 DEF Parted
  <2>2. ASSUME NEW a \in 1 .. n, NEW b \in 1 .. m PROVE u[a] # u[n + b]
    <3>1. u[a] = q[a].section /\ u[n + b] = r[b]
      BY <1>4, <1>5
    <3>2. a \in DOMAIN q /\ b \in DOMAIN r
      BY <1>1
    <3>3. q[a].section # r[b]
      BY <3>2, Zenon DEF Parted
    <3> QED
      BY <3>1, <3>3
  <2>3. ASSUME NEW a \in 1 .. m, NEW b \in 1 .. m, u[n + a] = u[n + b] PROVE a = b
    <3>1. u[n + a] = r[a] /\ u[n + b] = r[b]
      BY <1>5
    <3>2. a \in DOMAIN r /\ b \in DOMAIN r /\ r[a] = r[b]
      BY <1>1, <2>3, <3>1
    <3> QED
      BY <3>2, Zenon DEF Parted
  <2> QED
    BY <1>6, <2>1, <2>2, <2>3
<1>8. ToSet(u) = D
  <2>1. \A c \in 1 .. n + m : u[c] \in D
    BY <1>2, <1>3
  <2>2. \A i \in D : \E c \in 1 .. n + m : u[c] = i
    <3> SUFFICES ASSUME NEW i \in D PROVE \E c \in 1 .. n + m : u[c] = i
      OBVIOUS
    <3>1. CASE \E a \in 1 .. n : q[a].section = i
      BY <1>4, <1>6, <3>1
    <3>2. CASE \E b \in 1 .. m : r[b] = i
      BY <1>5, <1>6, <3>2
    <3> QED
      BY <1>1, <3>1, <3>2 DEF Parted
  <2> QED
    BY <1>3, <2>1, <2>2 DEF ToSet
<1> QED
  BY <1>7, <1>8 DEF u

(* For any fragments, limits and budgets: a section holds every fragment placed in
   it, the best-effort text holds every section that is joined, no section is lost or
   joined twice, and every guess has its break. *)
THEOREM SectionsPreservedHolds == Spec => []SectionsPreserved
<1>1. Inv /\ MergeOK => SectionsPreserved
  <2> SUFFICES ASSUME Inv, MergeOK PROVE SectionsPreserved
    OBVIOUS
  <2>1. \A s \in ToSet(sections) : \A i \in ToSet(s.part.order) : Holds(s.part.text, Text(i))
    BY DEF Inv, SectionsOK, Whole, ToSet
  <2>2. ASSUME phase \in {"merge", "done"}
        PROVE  LET taken == [i \in DOMAIN joins |-> joins[i].section]
               IN  /\ IsInjective(taken \o waiting) /\ ToSet(taken \o waiting) = DOMAIN sections
                   /\ \A j \in ToSet(joins) : Holds(merged, sections[j.section].part.text)
                   /\ Cardinality({i \in DOMAIN merged : merged[i] = Break}) =
                        Cardinality({i \in DOMAIN joins : joins[i].method = "position_only"})
    <3> DEFINE D == DOMAIN sections
               taken == [i \in DOMAIN joins |-> joins[i].section]
    <3>1. /\ joins \in Joints(D) /\ waiting \in Seq(D) /\ Parted(joins, waiting, D)
          /\ \A a \in DOMAIN joins : Holds(merged, sections[joins[a].section].part.text)
          /\ Cardinality(Breaks(merged)) = Cardinality(Guesses(joins))
      BY <2>2 DEF MergeOK, Estimated
    <3>2. taken \in Seq(D) /\ DOMAIN taken = DOMAIN joins /\ \A a \in DOMAIN joins : taken[a] = joins[a].section
      <4> DEFINE R == [section : D, method : Methods, overlap : Nat]
      <4>1. joins \in Seq(R) /\ \A x \in R : x.section \in D
        BY <3>1 DEF Joints
      <4> HIDE DEF R, D
      <4>2. /\ Len(joins) \in Nat /\ DOMAIN joins = 1 .. Len(joins)
            /\ \A a \in 1 .. Len(joins) : joins[a].section \in D
        BY <4>1
      <4> QED
        BY <4>2
    <3> HIDE DEF taken, D
    <3>3. IsInjective(taken \o waiting) /\ ToSet(taken \o waiting) = D
      BY <3>1, <3>2, PartedOne
    <3>4. \A j \in ToSet(joins) : Holds(merged, sections[j.section].part.text)
      BY <3>1 DEF ToSet
    <3> QED
      BY <3>1, <3>3, <3>4 DEF taken, D, Breaks, Guesses
  <2> QED
    BY <2>1, <2>2 DEF SectionsPreserved
<1> QED
  BY <1>1, Invariant, MergeInvariant, PTL

(* For any fragments, limits and budgets: the search calls the primary text unique only
   if it is the text of every complete assembly, says that there are several only if
   there are, and that there is none only if there is none. *)
THEOREM StatusTrueHolds == Spec => []StatusTrue
<1>1. Inv /\ SearchTrue => StatusTrue
  <2> SUFFICES ASSUME Inv, SearchTrue, phase = "done" PROVE Verdict(Head(sections), status)
    BY DEF StatusTrue, Verdict
  <2>1. sections # <<>>
    BY SectionsThere
  <2> QED
    BY <2>1 DEF SearchTrue
<1> QED
  BY <1>1, Invariant, SearchInvariant, PTL
=============================================================================
