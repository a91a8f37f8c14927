-------------------------------- MODULE Type2 --------------------------------
(***************************************************************************)
(* Type 2 reconstruction: type2.rs, and type2_best_effort.rs.              *)
(*                                                                         *)
(* Fragments of an article are joined at either end of a growing assembly  *)
(* where they overlap most.  Where several joins conflict, a search with a *)
(* budget follows all of them; its answer is taken only if it is the only  *)
(* one.  What remains is assembled into separate sections, and these into  *)
(* one text whose order is estimated (--best-effort).                      *)
(*                                                                         *)
(* Abstractions:                                                           *)
(*  - a grapheme cluster is a token; some tokens hold a letter or digit;   *)
(*  - the two lookup structures give the candidates of an end;             *)
(*  - memory for the search may run out at any of its steps.               *)
(***************************************************************************)
EXTENDS Fragments

CONSTANTS
  None,          \* no assembly
  Meaningful,    \* tokens with a letter or digit
  MinOverlap,    \* --type2-min-overlap
  MaxGap,        \* --type2-max-position-gap
  Budgets,       \* choices for --type2-search-budget
  MaxPending,    \* states a search may keep pending (64)
  Break,         \* no token: separates what nothing connects
  BestMinimum,   \* --type2-best-effort-min-overlap
  Window,        \* sections compared for a join (64)
  Comparisons    \* work of all comparisons (20 million)

ASSUME Type2Assumption ==
  /\ MinOverlap \in Nat \ {0} /\ MaxGap \in 0 .. 255
  /\ Budgets \subseteq Nat /\ Budgets # {} /\ MaxPending \in Nat \ {0}
  /\ BestMinimum \in Nat \ {0} /\ Window \in Nat \ {0} /\ Comparisons \in Nat
  /\ Break \notin Tokens
  /\ None \notin [text : Seq(Tokens), used : SUBSET Nat, order : Seq(Nat), first : Positions,
                  last : Positions, dead : [Ends -> BOOLEAN]]

VARIABLES
  phase,     \* "assemble", "search", "islands", "merge" or "done"
  section,   \* the assembly that is extended, or None
  sections,  \* finished sections, the primary text first
  current,   \* the branch the search follows, or None
  pending,   \* its stack of branches
  complete,  \* the complete assembly it has found, or None
  visited,   \* keys of the branching states it has seen
  budget,    \* work it may still do
  status,    \* search_status
  merged,    \* the best-effort text
  waiting,   \* sections that are not in it
  joins,     \* how each got there
  effort,    \* work of comparisons that is left
  exhausted  \* it has not been enough

searchVars == <<current, pending, complete, visited>>
bestVars == <<merged, waiting, joins, effort, exhausted>>
vars == <<input, phase, section, sections, searchVars, budget, status, bestVars>>

-----------------------------------------------------------------------------
(* Ends and joins.                                                         *)

Extension(m) == Rest(Text(m.index), m.end, m.overlap)

\* The position of an end, and the fragments near enough to it.
Border(s, e) == IF e = "append" THEN s.last ELSE s.first

Near(s, i, e) ==
  IF e = "append" THEN Pos(i) \in s.last .. s.last + MaxGap
                  ELSE Pos(i) \in s.first - MaxGap .. s.first

\* Some fragment is as long as that.
UpToCap(n) == \E i \in All : n <= Len(Text(i))

\* Overlaps must be long enough and hold something meaningful.
Overlaps(s, e) ==
  {k \in MinOverlap .. Len(s.text) :
     UpToCap(k) /\ ToSet(Edge(s.text, e, k)) \cap Meaningful # {}}

Fitting(s, e, k) ==
  {i \in All \ s.used :
     /\ Near(s, i, e)
     /\ Len(Text(i)) >= k /\ Shared(Text(i), e, k) = Edge(s.text, e, k)}

Joins(s, e) ==
  UNION {{[index |-> i, overlap |-> k, end |-> e] : i \in Fitting(s, e, k)} : k \in Overlaps(s, e)}

\* The joins of the longest overlap at an end.
Moves(s, e) == {m \in Joins(s, e) : \A n \in Joins(s, e) : n.overlap <= m.overlap}

\* An end without a join is remembered as dead.
Boundary(s, e) == IF s.dead[e] THEN {} ELSE Moves(s, e)
Looked(s) == [s EXCEPT !.dead = [e \in Ends |-> s.dead[e] \/ Joins(s, e) = {}]]

-----------------------------------------------------------------------------
(* One step of an assembly.                                                *)

\* Extensions of one end agree if each is the beginning of any longer one.
Agree(e, x, y) == IF e = "append" THEN IsPrefix(x, y) \/ IsPrefix(y, x)
                                  ELSE IsSuffix(x, y) \/ IsSuffix(y, x)

Compatible(M) == \A m, n \in M : Agree(m.end, Extension(m), Extension(n))

\* The element of M that comes before all others by its rank.
Precedes(a, b) == \E i \in DOMAIN a : a[i] < b[i] /\ \A j \in 1 .. i - 1 : a[j] = b[j]
Least(M, rank(_)) == {m \in M : \A n \in M \ {m} : Precedes(rank(m), rank(n))}

\* The elements of M by their rank.
Sorted(M, rank(_)) ==
  {q \in SetToSeqs(M) : \A i, j \in DOMAIN q : i < j => Precedes(rank(q[i]), rank(q[j]))}

\* The nearest and shortest of joins that agree.
Preferred(M) ==
  IF Compatible(M)
  THEN Least(M, LAMBDA m : <<IF m.end = "append" THEN Pos(m.index) ELSE -Pos(m.index),
                             Len(Extension(m)), m.index>>)
  ELSE {}

\* A fragment that adds nothing and does not move the end.
Duplicates(s, e) ==
  {m \in Boundary(s, e) : Extension(m) = <<>> /\ Pos(m.index) = Border(s, e)}

Order(m) == <<IF m.end = "append" THEN 0 ELSE 1, m.index>>

InOrder(M) == Sorted(M, Order)

\* The joins to follow: none at an end of the assembly, one that is safe, or
\* the branches of an ambiguity.
Step(s) ==
  LET append == Boundary(s, "append")
      prepend == Boundary(s, "prepend")
      duplicates == Duplicates(s, "append") \cup Duplicates(s, "prepend")
      preferred == Preferred(append) \cup Preferred(prepend)
      either == {m \in preferred : \E n \in preferred \ {m} :
                   m.index = n.index /\ Extension(m) # <<>> /\ Extension(n) # <<>>}
  IN  CASE duplicates # {} -> Least(duplicates, Order)
        [] duplicates = {} /\ either # {} -> either
        [] duplicates = {} /\ either = {} /\ preferred # {} ->
             Least(preferred, LAMBDA m : <<-m.overlap, m.index, IF m.end = "append" THEN 0 ELSE 1>>)
        [] OTHER -> append \cup prepend

Safe(s, m) == Step(s) = {m}
Branches(s) == Cardinality(Step(s))

Seed(i, used) ==
  [text |-> Text(i), used |-> used \cup {i}, order |-> <<i>>,
   first |-> Pos(i), last |-> Pos(i), dead |-> [e \in Ends |-> FALSE]]

\* Mutant: only the end that grows is looked at again.
ReopensSameEnd(s, m, e) ==
  \/ Extension(m) # <<>> /\ m.end = e
  \/ e = "prepend" /\ Pos(m.index) < s.first
  \/ e = "append" /\ Pos(m.index) > s.last

\* A dead end is looked at again when it grows or moves, and when the whole
\* text is short enough for longer overlaps.
Reopens(s, m, e) ==
  \/ Extension(m) # <<>> /\ (m.end = e \/ UpToCap(Len(s.text) + 1))
  \/ e = "prepend" /\ Pos(m.index) < s.first
  \/ e = "append" /\ Pos(m.index) > s.last

Apply(s, m) ==
  [text |-> Joined(s.text, m.end, Extension(m)),
   used |-> s.used \cup {m.index},
   order |-> Append(s.order, m.index),
   first |-> Min({s.first, Pos(m.index)}),
   last |-> Max({s.last, Pos(m.index)}),
   dead |-> [e \in Ends |-> s.dead[e] /\ ~Reopens(s, m, e)]]

-----------------------------------------------------------------------------
(* The primary text: assemble.                                             *)

Init ==
  /\ input \in Inputs
  /\ phase = "assemble"
  /\ section = Seed(1, {})
  /\ sections = <<>>
  /\ current = None /\ pending = <<>> /\ complete = None /\ visited = {}
  /\ budget \in Budgets
  /\ status = "not_needed"
  /\ merged = <<>> /\ waiting = <<>> /\ joins = <<>>
  /\ effort = Comparisons /\ exhausted = FALSE

Extend ==
  /\ phase \in {"assemble", "islands"} /\ section # None
  /\ \E m \in Step(section) : Safe(section, m) /\ section' = Apply(Looked(section), m)
  /\ UNCHANGED <<input, phase, sections, searchVars, budget, status, bestVars>>

\* A section is finished with the assembly s.
Close(s, stop) ==
  /\ sections' = Append(sections, [part |-> s, stop |-> stop])
  /\ section' = None
  /\ phase' = "islands"

Stuck(s) == IF s.used = All THEN "all_fragments_merged" ELSE "no_confident_overlap"

\* No join is left: nothing had to be searched.
FinishAssembly ==
  /\ phase = "assemble"
  /\ Step(section) = {}
  /\ Close(section, Stuck(section))
  /\ UNCHANGED <<input, searchVars, budget, status, bestVars>>

\* Joins conflict.
Ambiguous ==
  /\ phase = "assemble"
  /\ Branches(section) > 1
  /\ IF budget = 0
       THEN /\ Close(Looked(section), "ambiguous_continuation")
            /\ status' = "disabled"
            /\ UNCHANGED pending
       ELSE /\ phase' = "search"
            /\ section' = Looked(section)
            /\ pending' = <<Looked(section)>>
            /\ UNCHANGED <<sections, status>>
  /\ UNCHANGED <<input, current, complete, visited, budget, bestVars>>

-----------------------------------------------------------------------------
(* The search.                                                             *)

\* The search ends without an answer: the primary text stays as it was.
GiveUp(why) ==
  /\ Close(section, "ambiguous_continuation")
  /\ status' = why
  /\ current' = None /\ pending' = <<>> /\ complete' = None /\ visited' = {}

Answer(s) ==
  /\ Close(s, "all_fragments_merged")
  /\ status' = "unique_complete_assembly"
  /\ current' = None /\ pending' = <<>> /\ complete' = None /\ visited' = {}

\* Mutant: what was found so far is taken for the answer.
AnswerSoFar == IF complete = None THEN GiveUp("budget_exhausted") ELSE Answer(complete)

Exhausted == GiveUp("budget_exhausted")

Pop ==
  /\ phase = "search" /\ current = None /\ pending # <<>>
  /\ current' = Last(pending)
  /\ pending' = Front(pending)
  /\ UNCHANGED <<input, phase, section, sections, complete, visited, budget, status, bestVars>>

\* The branch has placed every fragment: it must agree with what was found.
Solved ==
  /\ phase = "search" /\ current # None /\ current.used = All
  /\ IF complete # None /\ complete.text # current.text
       THEN GiveUp("multiple_complete_assemblies")
       ELSE /\ complete' = IF complete = None THEN current ELSE complete
            /\ current' = None
            /\ UNCHANGED <<phase, section, sections, pending, visited, status>>
  /\ UNCHANGED <<input, budget, bestVars>>

Searching == phase = "search" /\ current # None /\ current.used # All

Follow ==
  /\ Searching /\ budget > 0
  /\ budget' = budget - 1
  /\ \/ Step(current) = {} /\ current' = None
     \/ \E m \in Step(current) : Safe(current, m) /\ current' = Apply(Looked(current), m)
  /\ UNCHANGED <<input, phase, section, sections, pending, complete, visited, status, bestVars>>

\* States with equal keys have the same completions.
Key(s) == <<s.text, s.used, s.first, s.last>>

Repeated ==
  /\ Searching /\ budget > 0 /\ Branches(current) > 1
  /\ Key(current) \in visited
  /\ budget' = budget - 1
  /\ current' = None
  /\ UNCHANGED <<input, phase, section, sections, pending, complete, visited, status, bestVars>>

\* Every branch is one more piece of work and needs a place on the stack.
Affordable(n) == n < budget /\ Len(pending) + n <= MaxPending

Branch ==
  /\ Searching /\ budget > 0 /\ Branches(current) > 1
  /\ Key(current) \notin visited
  /\ Affordable(Branches(current))
  /\ budget' = budget - 1 - Branches(current)
  /\ visited' = visited \cup {Key(current)}
  /\ \E moves \in InOrder(Step(current)) :
       pending' = pending \o [i \in DOMAIN moves |-> Apply(Looked(current), moves[i])]
  /\ current' = None
  /\ UNCHANGED <<input, phase, section, sections, complete, status, bestVars>>

\* The budget or the stack is too small, or memory runs out: at any branch, before
\* or between its joins.
RunOut ==
  /\ phase = "search" /\ current # None
  /\ \/ budget' = budget
     \/ /\ Searching /\ budget > 0
        /\ Branches(current) > 1 /\ Key(current) \notin visited
        /\ \E done \in 0 .. Min({Branches(current), budget - 1, MaxPending - Len(pending) + 1}) :
             budget' = budget - 1 - done
  /\ Exhausted
  /\ UNCHANGED <<input, bestVars>>

Explored ==
  /\ phase = "search" /\ current = None /\ pending = <<>>
  /\ IF complete = None THEN GiveUp("no_complete_assembly") ELSE Answer(complete)
  /\ UNCHANGED <<input, budget, bestVars>>

Search == Pop \/ Solved \/ Follow \/ Repeated \/ Branch \/ RunOut \/ Explored

-----------------------------------------------------------------------------
(* What the primary text leaves: islands.                                  *)

\* Mutant: what earlier islands took is forgotten.
PlacedFirst == Head(sections).part.used

Placed == Last(sections).part.used

\* A section starts from the first fragment that has no place yet.
Open ==
  /\ phase = "islands" /\ section = None
  /\ \E i \in All \ Placed : /\ \A j \in All \ Placed : i <= j
                             /\ section' = Seed(i, Placed)
  /\ UNCHANGED <<input, phase, sections, searchVars, budget, status, bestVars>>

\* Conflicts end a section: it is never searched.
CloseIsland ==
  /\ phase = "islands" /\ section # None
  /\ Branches(section) # 1
  /\ Close(section, IF Step(section) = {} THEN "no_confident_overlap"
                                           ELSE "ambiguous_continuation")
  /\ UNCHANGED <<input, searchVars, budget, status, bestVars>>

-----------------------------------------------------------------------------
(* All sections in one text: assemble_best_effort.                         *)
(* (Without --best-effort an article ends where this begins.)              *)

Holds(t, w) == \E j \in 0 .. Len(t) - Len(w) : SubSeq(t, j + 1, j + Len(w)) = w

\* What match_text finds: the longest end of t that w begins with, all of w if t holds it.
Matched(t, w) ==
  IF Holds(t, w) THEN Len(w)
  ELSE Max({k \in 0 .. Min({Len(t), Len(w)}) : LastOf(t, k) = FirstOf(w, k)})

Words(slot) == sections[waiting[slot]].part.text

\* The waiting sections, from the first, that there is work left to compare.
Work(n) == FoldFunction(+, 0, [slot \in 1 .. n |-> Len(merged) + Len(Words(slot))])
Nearest == 1 .. Min({Window, Len(waiting)})
Compared == {n \in Nearest : Work(n) <= effort}

Supported ==
  {slot \in Compared :
     LET w == Words(slot)
     IN  \/ Holds(merged, w)
         \/ /\ Matched(merged, w) >= BestMinimum
            /\ ToSet(FirstOf(w, Matched(merged, w))) \cap Meaningful # {}}

\* Text that is held is best, then the longest overlap.
Best ==
  Least(Supported, LAMBDA slot :
    <<IF Holds(merged, Words(slot)) THEN 0 ELSE 1, -Matched(merged, Words(slot)), slot>>)

\* Mutant: an overlap that is too short is cut off all the same.
UnsupportedCut(w) == merged \o <<Break>> \o LastOf(w, Len(w) - Matched(merged, w))

\* No later overlap goes across a break.
Unsupported(w) == merged \o <<Break>> \o w

\* Sections are taken by position.  The first is the seed.
Seeded ==
  /\ phase = "islands" /\ section = None /\ Placed = All
  /\ \E order \in Sorted(DOMAIN sections, LAMBDA i : <<sections[i].part.first, i>>) :
       /\ merged' = sections[Head(order)].part.text
       /\ waiting' = Tail(order)
       /\ joins' = <<[section |-> Head(order), method |-> "seed", overlap |-> 0]>>
  /\ phase' = "merge"
  /\ UNCHANGED <<input, section, sections, searchVars, budget, status, effort, exhausted>>

Take(slot, method, overlap) ==
  /\ waiting' = RemoveAt(waiting, slot)
  /\ joins' = Append(joins, [section |-> waiting[slot], method |-> method, overlap |-> overlap])
  /\ effort' = effort - Work(Cardinality(Compared))
  /\ exhausted' = (exhausted \/ Compared # Nearest)
  /\ UNCHANGED <<input, phase, section, sections, searchVars, budget, status>>

Merging == phase = "merge" /\ waiting # <<>>

MergeHeld ==
  /\ Merging
  /\ \E slot \in Best :
       /\ Holds(merged, Words(slot))
       /\ merged' = merged
       /\ Take(slot, "contained", Len(Words(slot)))

MergeOverlapping ==
  /\ Merging
  /\ \E slot \in Best :
       LET w == Words(slot)
           overlap == Matched(merged, w)
       IN  /\ ~Holds(merged, w)
           /\ merged' = Joined(merged, "append", Rest(w, "append", overlap))
           /\ Take(slot, "overlap_estimate", overlap)

\* Nothing connects the next section: only its position says where it goes.
MergeUnsupported ==
  /\ Merging /\ Supported = {}
  /\ merged' = Unsupported(Words(1))
  /\ Take(1, "position_only", 0)

Finish ==
  /\ phase = "merge" /\ waiting = <<>>
  /\ phase' = "done"
  /\ UNCHANGED <<input, section, sections, searchVars, budget, status, bestVars>>

Finished == phase = "done" /\ UNCHANGED vars

BestEffort == Seeded \/ MergeHeld \/ MergeOverlapping \/ MergeUnsupported \/ Finish

Next ==
  \/ Extend \/ FinishAssembly \/ Ambiguous
  \/ Search
  \/ Open \/ CloseIsland
  \/ BestEffort \/ Finished

Spec == Init /\ [][Next]_vars

-----------------------------------------------------------------------------
(* Properties.                                                             *)

Assembly ==
  [text : Seq(Tokens), used : SUBSET All, order : Seq(All), first : Positions, last : Positions,
   dead : [Ends -> BOOLEAN]]

(* TypeOK: every assembly that is kept, and the phase reconstruct_type2 is in. *)
TypeOK ==
  /\ input \in Seq(Fragment)
  /\ phase \in {"assemble", "search", "islands", "merge", "done"}
  /\ {section, current, complete} \ {None} \subseteq Assembly
  /\ pending \in Seq(Assembly)
  /\ sections \in Seq([part : Assembly, stop : {"all_fragments_merged", "no_confident_overlap",
                                               "ambiguous_continuation"}])

(* The flags that spare State a lookup are never stale: at an end marked dead no fragment
   that is left can be joined, in every assembly that is kept. *)
DeadEndsTrue ==
  \A s \in ({section, current, complete} \cup ToSet(pending)) \ {None} :
    \A e \in Ends : s.dead[e] => Joins(s, e) = {}

\* All assemblies that branching without limits and without memory of what was
\* seen reaches, by the number of joins.
Reached[n \in Nat] ==
  IF n = 0 THEN {Seed(1, {})}
  ELSE UNION {{[Apply(s, m) EXCEPT !.dead = Seed(1, {}).dead] : m \in Step(s)} :
                s \in Reached[n - 1]}

Completions == {s.text : s \in Reached[Len(input) - 1]}

(* What search_status says of the primary text is true of all the assemblies the model
   admits: neither the budget, nor the stack, nor the states taken for repeated may make a
   text unique that is not, or hide one that is. *)
StatusTrue ==
  phase = "done" =>
    LET primary == Head(sections)
    IN  CASE status = "unique_complete_assembly" ->
               Completions = {primary.part.text} /\ primary.part.used = All
          [] status = "multiple_complete_assemblies" -> \E a, b \in Completions : a # b
          [] status = "no_complete_assembly" -> Completions = {}
          [] status = "not_needed" ->
               Completions = IF primary.part.used = All THEN {primary.part.text} ELSE {}
          [] OTHER -> TRUE

(* No fragment has a place in two sections, the primary text and the segments, whatever
   the search tried with it before; at the end every fragment has one. *)
EveryFragmentOnce ==
  /\ \A i, j \in DOMAIN sections : \A a \in DOMAIN sections[i].part.order :
       \A b \in DOMAIN sections[j].part.order :
         sections[i].part.order[a] = sections[j].part.order[b] => i = j /\ a = b
  /\ phase = "done" => UNION {ToSet(sections[i].part.order) : i \in DOMAIN sections} = All

(* The text of a section holds every fragment placed in it, and the best-effort text holds
   the sections ("Preserve every section as a substring"): every section is joined once or
   waits, what is joined is in the text unbroken, and each place where nothing connects two
   sections has its break. *)
SectionsPreserved ==
  /\ \A s \in ToSet(sections) : \A i \in ToSet(s.part.order) : Holds(s.part.text, Text(i))
  /\ phase \in {"merge", "done"} =>
       LET taken == [i \in DOMAIN joins |-> joins[i].section]
       IN  /\ IsInjective(taken \o waiting) /\ ToSet(taken \o waiting) = DOMAIN sections
           /\ \A j \in ToSet(joins) : Holds(merged, sections[j.section].part.text)
           /\ Cardinality({i \in DOMAIN merged : merged[i] = Break}) =
                Cardinality({i \in DOMAIN joins : joins[i].method = "position_only"})
=============================================================================
