-------------------------------- MODULE Type1 --------------------------------
(***************************************************************************)
(* Type 1 reconstruction: reconstruct and Index of lib.rs.                 *)
(*                                                                         *)
(* An index of each end lists the fragments under every sequence of words  *)
(* they begin or end with.  Each list has a cursor: what it has passed is  *)
(* never looked at again, in this article.                                 *)
(*                                                                         *)
(* Abstractions:                                                           *)
(*  - a node of an index is the sequence of words on its path;             *)
(*  - a cursor is the fragment it stands at, one past the last at the end. *)
(***************************************************************************)
EXTENDS Fragments

VARIABLES
  text,    \* result
  used,    \* fragments in it
  first,   \* min_pos
  last,    \* max_pos
  cursor,  \* of each node of the two indexes
  done     \* the loop has ended

type1Vars == <<input, text, used, first, last, cursor, done>>

-----------------------------------------------------------------------------
(* The indexes.  The first fragment is the seed and not in them.           *)

Nodes(e) ==
  UNION {{Shared(Text(i), e, k) : k \in 1 .. Len(Text(i))} : i \in All \ {1}}

Listed(e, node) ==
  {i \in All \ {1} : Len(node) <= Len(Text(i)) /\ Shared(Text(i), e, Len(node)) = node}

End == Len(input) + 1

Eligible(i, e) ==
  i \notin used /\ IF e = "append" THEN Pos(i) >= last ELSE Pos(i) <= first

\* What candidate finds from the cursor on; it moves the cursor to the first.
Ahead(e, node) == {i \in Listed(e, node) : i >= cursor[e][node] /\ Eligible(i, e)}

\* Mutant: the cursor also passes where it has stopped.
PastFound(e, node) ==
  IF Ahead(e, node) = {} THEN End + 1 ELSE Min(Ahead(e, node)) + 1

Found(e, node) == IF Ahead(e, node) = {} THEN End ELSE Min(Ahead(e, node))

-----------------------------------------------------------------------------
(* reconstruct.                                                            *)

Limit == Min({Cap, Len(text)})

Candidates(e, k) ==
  IF Edge(text, e, k) \in Nodes(e) THEN Ahead(e, Edge(text, e, k)) ELSE {}

Lengths == {k \in 1 .. Limit : \E e \in Ends : Candidates(e, k) # {}}

\* Longer overlaps come first, until one has a candidate.
Tried == {k \in 1 .. Limit : \A j \in Lengths : j <= k}

\* The cursors after the tries.
Moved ==
  LET tried == {<<e, Edge(text, e, k)>> : e \in Ends, k \in Tried}
  IN  [e \in Ends |-> [node \in Nodes(e) |->
         IF <<e, node>> \in tried THEN Found(e, node) ELSE cursor[e][node]]]

Type1Init ==
  /\ input \in Inputs
  /\ text = Text(1) /\ used = {1} /\ first = Pos(1) /\ last = Pos(1)
  /\ cursor = [e \in Ends |-> [node \in Nodes(e) |-> 2]]
  /\ done = FALSE

\* Mutant: the bounds follow the last fragment joined.
Follows(i) == first' = Pos(i) /\ last' = Pos(i)

\* Bounds only move outward.
Bounds(i) == first' = Min({first, Pos(i)}) /\ last' = Max({last, Pos(i)})

Place(i, e, k) ==
  /\ text' = Joined(text, e, Rest(Text(i), e, k))
  /\ used' = used \cup {i}
  /\ Bounds(i)

Join ==
  /\ ~done /\ Lengths # {}
  /\ LET k == Max(Lengths)
         i == Min(Candidates("append", k) \cup Candidates("prepend", k))
     IN  Place(i, IF i \in Candidates("append", k) THEN "append" ELSE "prepend", k)
  /\ cursor' = Moved
  /\ UNCHANGED <<input, done>>

Stop ==
  /\ ~done /\ Lengths = {}
  /\ done' = TRUE
  /\ cursor' = Moved
  /\ UNCHANGED <<input, text, used, first, last>>

Rested == done /\ UNCHANGED type1Vars

Type1Next == Join \/ Stop \/ Rested

Type1Spec == Type1Init /\ [][Type1Next]_type1Vars

-----------------------------------------------------------------------------
(* Properties.                                                             *)

(* The variables of reconstruct have their types, and every node of both indexes has a
   cursor inside its list or at its end. *)
Type1OK ==
  /\ input \in Seq(Fragment) /\ input # <<>>
  /\ text \in Seq(Tokens)
  /\ used \subseteq All /\ 1 \in used
  /\ first \in Positions /\ last \in Positions
  /\ DOMAIN cursor = Ends
  /\ \A e \in Ends : cursor[e] \in [Nodes(e) -> 2 .. End]
  /\ done \in BOOLEAN

(* "an ineligible entry stays ineligible": no fragment a cursor has passed could still be
   joined at that end. *)
PassedStayIneligible ==
  \A e \in Ends : \A node \in Nodes(e) : \A i \in Listed(e, node) :
    i < cursor[e][node] => ~Eligible(i, e)

(* The index with its cursors finds what looking at all fragments in every step finds:
   reconstruct implements GreedyAssembly. *)
Greedy == INSTANCE GreedyAssembly
ImplementsGreedy == Greedy!Spec

=============================================================================
