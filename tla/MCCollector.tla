---------------------------- MODULE MCCollector ----------------------------
(***************************************************************************)
(* Instances of Collector for TLC.                                         *)
(***************************************************************************)
EXTENDS Collector, TLC

\* Threads behave alike.
ThreadSymmetry == Permutations(Threads)

\* For the liveness run: the source has all minutes or none, and does not change.
\* Who waits for whom does not depend on it.
LiveSpec ==
  /\ Init /\ \E r \in Versions \cup {None} : server = [m \in Minutes |-> r]
  /\ [][Next /\ UNCHANGED server]_vars
  /\ Fairness
=============================================================================
