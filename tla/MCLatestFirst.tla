--------------------------- MODULE MCLatestFirst ---------------------------
(***************************************************************************)
(* Instances of LatestFirst for TLC.                                       *)
(***************************************************************************)
EXTENDS LatestFirst, TLC

\* Workers behave alike, so histories that only swap them are one.
WorkerSymmetry == Permutations(Workers)

\* A restart with a smaller collection window has sealed a backward chunk short
\* of its newest minute: no retry publishes it, whatever the window is set to.
SealedEarly(w) ==
  LET b == disk[w]["backfill"]
  IN  b.ready # None /\ b.ready.end # b.request.end

\* Every minute is published or claimed, and no lane has work on a disk.
Finished ==
  /\ hub.scheduled /\ hub.liveNext > LastClock - Lag /\ hub.backEnd < hub.floor
  /\ \A w \in Workers, l \in Lanes : disk[w][l] = EmptyBatch

\* After finitely many failures and restarts, unless one of them seals a chunk
\* early, all retained work is finished and both cursors reach their ends
\* (run_scheduler).
AllWorkFinishes == [](\A w \in Workers : ~SealedEarly(w)) => []<>Finished
=============================================================================
