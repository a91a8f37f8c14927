--------------------------- MODULE GreedyAssembly ---------------------------
(***************************************************************************)
(* What type 1 reconstruction promises (the comment on reconstruct in      *)
(* lib.rs): every step joins a fragment that overlaps most, of these the   *)
(* first of the input, and at the end of the text rather than its          *)
(* beginning.  A fragment fits where its position is not inside what is    *)
(* assembled.  All fragments are looked at in every step.                  *)
(***************************************************************************)
EXTENDS Fragments

VARIABLES
  text,   \* the assembly
  used,   \* the fragments in it
  first,  \* their first position
  last,   \* their last position
  done    \* nothing fits any more

vars == <<input, text, used, first, last, done>>

Outside(i, e) == IF e = "append" THEN Pos(i) >= last ELSE Pos(i) <= first

\* The fragments that share k tokens with end e.
Fitting(e, k) ==
  {i \in All \ used :
     /\ Outside(i, e)
     /\ k <= Len(Text(i))
     /\ Shared(Text(i), e, k) = Edge(text, e, k)}

Overlaps == {k \in 1 .. Len(text) : \E e \in Ends : Fitting(e, k) # {}}

Init ==
  /\ input \in Inputs
  /\ text = Text(1) /\ used = {1} /\ first = Pos(1) /\ last = Pos(1)
  /\ done = FALSE

Place(i, e, k) ==
  /\ text' = Joined(text, e, Rest(Text(i), e, k))
  /\ used' = used \cup {i}
  /\ first' = Min({first, Pos(i)})
  /\ last' = Max({last, Pos(i)})

Join ==
  /\ ~done
  /\ \E k \in Overlaps :
       /\ \A j \in Overlaps : j <= k
       /\ \E e \in Ends, i \in All :
            /\ i \in Fitting(e, k)
            /\ \A f \in Ends : \A j \in Fitting(f, k) : i <= j
            /\ e = "prepend" => i \notin Fitting("append", k)
            /\ Place(i, e, k)
  /\ UNCHANGED <<input, done>>

Stop ==
  /\ ~done /\ Overlaps = {}
  /\ done' = TRUE
  /\ UNCHANGED <<input, text, used, first, last>>

Next == Join \/ Stop

Spec == Init /\ [][Next]_vars

=============================================================================
