-------------------------- MODULE MCEnrichedWorker --------------------------
(***************************************************************************)
(* Model values, fairness and liveness for the run of EnrichedWorker.      *)
(***************************************************************************)
EXTENDS EnrichedWorker

CONSTANTS psl, ggg

MCSources == {psl, ggg}
MCSourcesOf == [m \in Minutes |-> MCSources]

\* The loop goes on and its requests are answered, the clock runs, and a file
\* that is asked for again and again is served in the end.
FairSpec ==
  /\ Spec
  /\ WF_vars(Step \/ Land)
  /\ WF_vars(Tick)
  /\ \A u \in Sources : SF_vars(FetchBody(u))

\* What no retry gets past: the batch of a removal cut short, an enrichment
\* that lost its report, a file and a sidecar that do not agree.
Stuck ==
  \/ batch.ready # None /\ ~batch.intact
  \/ batch.ready = None /\ batch.request # None /\ batch.request.start # hub.next
  \/ pc = "idle" /\ \E m \in Minutes : enriched[m] = Torn
  \/ pc = "idle" /\ \E u \in Sources : None \notin {cache[u].file, cache[u].sidecar} /\ cache[u].file # cache[u].sidecar

\* Unless a crash leaves one of these, every minute that is old enough is
\* published, whatever sources fail and whatever responses are lost.
BatchesFinish == []~Stuck => <>(hub.next = LastCutoff + 1)
=============================================================================
