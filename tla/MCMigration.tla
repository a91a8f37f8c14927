---------------------------- MODULE MCMigration ----------------------------
(***************************************************************************)
(* Model values, fairness and liveness for the run of Migration.           *)
(***************************************************************************)
EXTENDS Migration

\* A loop goes on while its process lives, its requests are answered, delays
\* end and the clocks run.
HostFairness(h) ==
  /\ WF_allVars((Step(h) \/ Land(h)) /\ WorkerNext)
  /\ WF_allVars(Expire(h) /\ WorkerNext)

FairSpec ==
  /\ MSpec
  /\ \A h \in Hosts : HostFairness(h)
  /\ WF_allVars(Tick /\ WorkerNext)

\* What an operator must see to: a batch of another pipeline, or what a crash
\* in the middle of a removal left of a published one.
Leftover(h) ==
  LET b == disk[h]
  IN  IF b.ready # None
        THEN \/ b.ready.pipeline # Native
             \/ ~b.intact
             \/ /\ ~Acknowledged(b.ready) /\ ~Fits(b.ready)
                /\ ~(b.ready.kind = "repair" /\ b.ready.missing # {})
        ELSE /\ b.request # None
             /\ \/ b.request.pipeline # Native
                \/ b.request.kind = "forward" /\ b.request.start # Remote.next
                \/ b.request.kind = "repair" /\ b.request.start \notin Remote.pending

Clear == Ours /\ \A h \in Hosts : ~Leftover(h)

Probing == \E h \in Hosts : pc[h] = "build" /\ disk[h].request.kind = "repair"

\* While nothing is left over, neither kind of work starves the other: the
\* publisher reaches the newest minute however many repairs are due and fail,
\* and it looks for late files again and again while there is a queued gap to retry
\* (next_plan, last_work_kind, defer_missing).
WorkGoesOn ==
  <>[]Clear =>
    /\ <>(Remote.next > LastClock - Lag)
    /\ <>[](\E m \in Gaps \ unqueued : m >= LastClock - Retry) => []<>Probing
=============================================================================
