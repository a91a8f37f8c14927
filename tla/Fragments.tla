------------------------------ MODULE Fragments ------------------------------
(***************************************************************************)
(* The fragments of one article and how they join: what type 1 (lib.rs) and *)
(* type 2 (type2.rs) reconstruction share.                                 *)
(*                                                                         *)
(* A fragment is a sequence of tokens, which are words for type 1 and      *)
(* grapheme clusters for type 2, and a position in the article.            *)
(***************************************************************************)
EXTENDS Integers, Sequences, FiniteSets, FiniteSetsExt, SequencesExt

CONSTANTS
  Texts,     \* texts of fragments, after normalisation
  Positions  \* their positions

Tokens == UNION {ToSet(t) : t \in Texts}

ASSUME FragmentsAssumption ==
  /\ \A t \in Texts : t \in Seq(Tokens)
  /\ Positions \subseteq 0 .. 255 /\ Positions # {}

VARIABLE input  \* the fragments, sorted by position

Fragment == [text : Texts, pos : Positions]

\* Articles with fragments: without any nothing is assembled.
Inputs ==
  {f \in Seq(Fragment) :
     f # <<>> /\ \A i \in 1 .. Len(f) - 1 : f[i].pos <= f[i + 1].pos}

All == DOMAIN input
Text(i) == input[i].text
Pos(i) == input[i].pos

\* The length of the longest fragment.
Cap == Max({Len(Text(i)) : i \in All})

-----------------------------------------------------------------------------
(* An assembly grows at both ends.                                         *)

Ends == {"append", "prepend"}

FirstOf(t, k) == SubSeq(t, 1, k)
LastOf(t, k) == SubSeq(t, Len(t) - k + 1, Len(t))

\* The k tokens of an assembly at end e, and those a fragment shares with them.
Edge(t, e, k) == IF e = "append" THEN LastOf(t, k) ELSE FirstOf(t, k)
Shared(t, e, k) == IF e = "append" THEN FirstOf(t, k) ELSE LastOf(t, k)

\* What the fragment adds.
Rest(t, e, k) == IF e = "append" THEN LastOf(t, Len(t) - k) ELSE FirstOf(t, Len(t) - k)

Joined(t, e, rest) == IF e = "append" THEN t \o rest ELSE rest \o t

=============================================================================
