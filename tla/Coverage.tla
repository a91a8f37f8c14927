------------------------------ MODULE Coverage ------------------------------
(***************************************************************************)
(* What the dataset promises about source minutes, without lanes, workers, *)
(* batches or revisions.  A minute is claimed once, as published or as a   *)
(* gap; a gap may be recovered, a published minute stays as it is.         *)
(* The chronological mode claims minutes in order.  From the seam on, the  *)
(* live side claims the next minutes and the backward side the newest      *)
(* unclaimed minutes, until it meets the chronological prefix.             *)
(***************************************************************************)
EXTENDS Integers

CONSTANT First     \* the first minute ever claimed

VARIABLES
  published,  \* minutes whose articles are in the dataset
  gaps,       \* claimed minutes whose source is still missing
  opened,     \* the live side has published
  floor,      \* end of the prefix: floor - 1 is its last minute
  hi,         \* the newest unclaimed minute below the seam
  top         \* the next minute of the live side

vars == <<published, gaps, opened, floor, hi, top>>

Init ==
  /\ published = {} /\ gaps = {}
  /\ opened = FALSE
  /\ floor = First /\ hi = First - 1 /\ top = First

\* The unclaimed minutes a..b become claimed, each as published or as a gap.
Claim(a, b) ==
  /\ a <= b
  /\ (a .. b) \cap (published \cup gaps) = {}
  /\ published \subseteq published' /\ gaps \subseteq gaps'
  /\ published' \cap gaps' = {}
  /\ published' \cup gaps' = published \cup gaps \cup (a .. b)

\* The chronological mode publishes the minutes after the prefix.
Extend ==
  /\ ~opened
  /\ Claim(floor, floor' - 1)
  /\ hi' = floor' - 1 /\ top' = floor'
  /\ UNCHANGED opened

\* The first live publication leaves floor..hi' to the backward side.
Open ==
  /\ ~opened /\ opened'
  /\ hi' >= floor - 1
  /\ Claim(hi' + 1, top' - 1)
  /\ UNCHANGED floor

Live ==
  /\ opened
  /\ Claim(top, top' - 1)
  /\ UNCHANGED <<opened, floor, hi>>

Backward ==
  /\ opened
  /\ hi' >= floor - 1
  /\ Claim(hi' + 1, hi)
  /\ UNCHANGED <<opened, floor, top>>

Recover ==
  /\ \E m \in gaps :
       /\ published' = published \cup {m}
       /\ gaps' = gaps \ {m}
  /\ UNCHANGED <<opened, floor, hi, top>>

Next == Extend \/ Open \/ Live \/ Backward \/ Recover

Spec == Init /\ [][Next]_vars
=============================================================================
