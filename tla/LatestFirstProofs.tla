------------------------- MODULE LatestFirstProofs -------------------------
(***************************************************************************)
(* TLAPS proofs about LatestFirst, for every value of its constants.       *)
(*                                                                         *)
(* The invariant has layers, each proved on top of the ones before it:     *)
(*  - what the files and processes of one worker look like (TypeInv);      *)
(*  - what progress.json says of the history, and a request on the wire of *)
(*    the progress it was computed from (HistInv);                         *)
(*  - what the history holds of the batches that are acknowledged or about *)
(*    to be removed (AckOK, BatchOK);                                      *)
(*  - for the only publisher of a dataset, what its disk, its snapshot and *)
(*    its requests know of the head (SoloInv).                             *)
(***************************************************************************)
EXTENDS LatestFirst, SequenceTheorems, TLAPS

\* A record as build_batch seals it.
WellFormed(r) == r.start <= r.end /\ r.missing \subseteq r.start .. r.end

\* The batch directories: every file belongs to its lane.
DiskOK ==
  \A w \in Workers, l \in Lanes :
    LET b == disk[w][l]
    IN  /\ b.request # None => b.request.lane = l /\ b.request.start <= b.request.end
        /\ b.ready # None => b.ready.kind = l /\ WellFormed(b.ready)

\* A process at a program point has what its next step reads.
ProcOK ==
  \A w \in Workers :
    /\ pc[w] # "idle" =>
         /\ plan[w] # None
         /\ disk[w][plan[w].lane].ready # None \/ disk[w][plan[w].lane].request # None
         /\ hub.scheduled \/ initial[w] # None
    /\ pc[w] \in {"publish", "commit", "landed", "clean"} =>
         disk[w][plan[w].lane].ready # None
    /\ pc[w] \in {"commit", "landed"} => sent[w] # None
    /\ pc[w] = "landed" => hub.scheduled
    /\ snapshot[w] # None =>
         IF snapshot[w].scheduled THEN hub.scheduled ELSE initial[w] # None
    /\ initial[w] # None => initial[w].scheduled /\ initial[w].commits = NoCommits
    /\ sent[w] # None => sent[w].progress.scheduled

\* A commit of the latest-first publisher always publishes a schedule.
WireOK == \A q \in late : q.progress.scheduled

LEMMA InitTypes == Init => TypeOK /\ DiskOK /\ ProcOK /\ WireOK
<1> SUFFICES ASSUME Init PROVE TypeOK /\ DiskOK /\ ProcOK /\ WireOK
  OBVIOUS
<1>1. hub \in Progress
  <2>1. NoCommits \in [Lanes -> Record \cup {None}]
    BY DEF NoCommits
  <2>2. QED
    BY <2>1, MinuteAssumption DEF Init, Legacy, Progress
<1>2. TypeOK
  BY <1>1, MinuteAssumption, FaultAssumption DEF Init, TypeOK, EmptyBatch, Batch
<1>3. DiskOK
  BY DEF Init, DiskOK, EmptyBatch
<1>4. ProcOK /\ WireOK
  BY DEF Init, ProcOK, WireOK
<1>5. QED
  BY <1>2, <1>3, <1>4

-----------------------------------------------------------------------------
(* What the helpers return.                                                *)

\* Bootstrapping from a progress gives a scheduled progress whose live cursor
\* stands at the seam, at or above the floor.
LEMMA BootstrapFacts ==
  ASSUME NEW p \in Progress, now \in Int
  PROVE  /\ Bootstrap(p) \in Progress
         /\ Bootstrap(p).scheduled
         /\ Bootstrap(p).floor = p.liveNext
         /\ Bootstrap(p).liveStart >= p.liveNext
         /\ Bootstrap(p).liveNext = Bootstrap(p).liveStart
         /\ Bootstrap(p).backEnd = Bootstrap(p).liveStart - 1
         /\ Bootstrap(p).pending = p.pending
         /\ Bootstrap(p).commits = NoCommits
<1>1. p.liveNext \in Int /\ p.pending \in SUBSET Int
  BY DEF Progress
<1>2. MaxOf(p.liveNext, Cutoff - (LiveSpan - 1)) \in Int
  BY <1>1, MinuteAssumption DEF MaxOf, Cutoff
<1>3. MaxOf(p.liveNext, Cutoff - (LiveSpan - 1)) >= p.liveNext
  BY <1>1, MinuteAssumption DEF MaxOf, Cutoff
<1>4. NoCommits \in [Lanes -> Record \cup {None}]
  BY DEF NoCommits
<1>5. QED
  BY <1>1, <1>2, <1>3, <1>4 DEF Bootstrap, Progress

\* New work of a lane is a nonempty interval of that lane.
LEMMA NewPlansFacts ==
  ASSUME NEW l \in Lanes, NEW q \in Progress, NEW span \in Nat \ {0}, now \in Int,
         NEW p \in NewPlans(l, q, span)
  PROVE  p \in Plan /\ p.lane = l /\ p.start <= p.end
<1>0. Cutoff \in Int
  BY MinuteAssumption DEF Cutoff
<1>1. q.liveNext \in Int /\ q.backEnd \in Int /\ q.floor \in Int /\ q.pending \subseteq Int
  BY DEF Progress
<1>2. CASE l = "live"
  <2> p \in LivePlans(q, span)
    BY <1>2 DEF NewPlans
  <2>1. q.liveNext <= Cutoff
        /\ p = [lane |-> "live", start |-> q.liveNext, end |-> MinOf(Cutoff, q.liveNext + span - 1)]
    BY <1>0, <1>1 DEF LivePlans
  <2>2. QED
    BY <2>1, <1>1, <1>2, MinuteAssumption DEF Plan, Lanes, MinOf, Cutoff
<1>3. CASE l = "backfill"
  <2> p \in BackfillPlans(q, span)
    BY <1>3 DEF NewPlans
  <2>1. q.backEnd >= q.floor
        /\ p = [lane |-> "backfill", start |-> MaxOf(q.floor, q.backEnd - span + 1),
                end |-> q.backEnd]
    BY <1>1 DEF BackfillPlans
  <2>2. QED
    BY <2>1, <1>1, <1>3 DEF Plan, Lanes, MaxOf
<1>4. CASE l = "repair"
  <2>1. PICK m \in q.pending : p = [lane |-> "repair", start |-> m, end |-> m]
    BY <1>4 DEF NewPlans, RepairPlans
  <2>2. QED
    BY <2>1, <1>1, <1>4 DEF Plan, Lanes
<1>5. QED
  BY <1>2, <1>3, <1>4 DEF Lanes

\* The progress published with a record of one of the lanes.
LEMMA AdvancedFacts ==
  ASSUME NEW p \in Progress, NEW r \in Record, r.kind \in Lanes, now \in Int, NEW protected
  PROVE  /\ Advanced(p, r, protected) \in Progress
         /\ Advanced(p, r, protected).scheduled = p.scheduled
         /\ Advanced(p, r, protected).floor = p.floor
         /\ Advanced(p, r, protected).liveStart = p.liveStart
         /\ Advanced(p, r, protected).liveNext = IF r.kind = "live" THEN r.end + 1 ELSE p.liveNext
         /\ Advanced(p, r, protected).backEnd = IF r.kind = "backfill" THEN r.start - 1 ELSE p.backEnd
         /\ Advanced(p, r, protected).pending = Queue(p.pending, r, protected)
<1>1. Queue(p.pending, r, protected) \subseteq Int
  BY DEF Queue, Progress, Record
<1>2. [p.commits EXCEPT ![r.kind] = r] \in [Lanes -> Record \cup {None}]
  BY DEF Progress
<1>3. QED
  BY <1>1, <1>2 DEF Advanced, Progress, Record

-----------------------------------------------------------------------------
(* Types and shapes are preserved, action by action.                       *)

TypeInv == TypeOK /\ DiskOK /\ ProcOK /\ WireOK

\* The parts of the type invariant that speak of one worker.
LEMMA WorkerTypes ==
  ASSUME TypeInv, NEW w \in Workers
  PROVE  /\ hub \in Progress /\ now \in Int /\ window[w] \in Nat \ {0}
         /\ initial[w] # None => initial[w] \in Progress
         /\ snapshot[w] # None => snapshot[w] \in Progress
         /\ sent[w] # None => sent[w] \in Request
         /\ pc[w] # "idle" => plan[w] \in Plan
         /\ \A l \in Lanes :
              /\ disk[w][l] \in Batch
              /\ disk[w][l].request # None =>
                   /\ disk[w][l].request \in Plan
                   /\ disk[w][l].request.lane = l
                   /\ disk[w][l].request.start <= disk[w][l].request.end
              /\ disk[w][l].ready # None =>
                   /\ disk[w][l].ready \in Record
                   /\ disk[w][l].ready.kind = l
                   /\ WellFormed(disk[w][l].ready)
<1>1. /\ hub \in Progress /\ now \in Int /\ window[w] \in Nat \ {0}
      /\ initial[w] \in Progress \cup {None} /\ snapshot[w] \in Progress \cup {None}
      /\ sent[w] \in Request \cup {None} /\ plan[w] \in Plan \cup {None}
  BY MinuteAssumption DEF TypeInv, TypeOK
<1>2. \A l \in Lanes : disk[w][l] \in Batch
  BY DEF TypeInv, TypeOK
<1>3. \A l \in Lanes :
        /\ disk[w][l].request \in Plan \cup {None}
        /\ disk[w][l].ready \in Record \cup {None}
  BY <1>2 DEF Batch
<1>4. \A l \in Lanes :
        /\ disk[w][l].request # None =>
             disk[w][l].request.lane = l /\ disk[w][l].request.start <= disk[w][l].request.end
        /\ disk[w][l].ready # None => disk[w][l].ready.kind = l /\ WellFormed(disk[w][l].ready)
  BY DEF TypeInv, DiskOK
<1>5. pc[w] # "idle" => plan[w] # None
  BY DEF TypeInv, ProcOK
<1>6. QED
  BY <1>1, <1>2, <1>3, <1>4, <1>5

\* A removal that was interrupted leaves no file that was not there.
LEMMA DebrisFacts ==
  ASSUME NEW B \in Batch, NEW b \in Debris(B)
  PROVE  b \in Batch /\ b.request \in {B.request, None} /\ b.ready \in {B.ready, None}
<1>1. B.request \in Plan \cup {None} /\ B.ready \in Record \cup {None} /\ B.intact \in BOOLEAN
  BY DEF Batch
<1>2. CASE TornCleanup
  <2>1. b \in [request : {B.request, None}, ready : {B.ready, None}, intact : {B.intact, FALSE}]
    BY <1>2 DEF Debris
  <2>2. QED
    BY <1>1, <2>1 DEF Batch
<1>3. CASE ~TornCleanup
  <2>1. b \in {B, EmptyBatch}
    BY <1>3 DEF Debris
  <2>2. EmptyBatch \in Batch /\ EmptyBatch.request = None /\ EmptyBatch.ready = None
    BY DEF Batch, EmptyBatch
  <2>3. QED
    BY <2>1, <2>2
<1>4. QED
  BY <1>2, <1>3

LEMMA RefreshTypes ==
  ASSUME TypeInv, NEW w \in Workers, Refresh(w) PROVE TypeInv'
<1>1. Bootstrap(hub) \in Progress /\ Bootstrap(hub).scheduled
      /\ Bootstrap(hub).commits = NoCommits
  BY BootstrapFacts, WorkerTypes
<1>2. Bootstrap(hub) # None /\ hub # None
  BY <1>1, NoneAssumption, WorkerTypes
<1>3. TypeOK'
  BY <1>1 DEF TypeInv, TypeOK, Refresh, hubVars
<1>4. DiskOK'
  BY DEF TypeInv, DiskOK, Refresh
<1>5. ProcOK' /\ WireOK'
  BY <1>1, <1>2 DEF TypeInv, TypeOK, ProcOK, WireOK, Refresh, hubVars
<1>6. QED
  BY <1>3, <1>4, <1>5 DEF TypeInv

LEMMA AbandonTypes ==
  ASSUME TypeInv, NEW w \in Workers, Abandon(w),
         DiskOK', disk' \in [Workers -> [Lanes -> Batch]],
         \A v \in Workers : v # w => disk'[v] = disk[v],
         late' \subseteq Request, WireOK', faults' \in Nat, window' \in [Workers -> Windows],
         UNCHANGED <<hub, log, initial, served, now>>
  PROVE  TypeInv'
<1>1. TypeOK'
  BY DEF TypeInv, TypeOK, Abandon
<1>2. ProcOK'
  BY DEF TypeInv, TypeOK, ProcOK, Abandon
<1>3. QED
  BY <1>1, <1>2 DEF TypeInv

LEMMA RaiseTypes ==
  ASSUME TypeInv, NEW w \in Workers, Raise(w) PROVE TypeInv'
<1>1. DiskOK'
  BY DEF TypeInv, DiskOK, Raise, diskVars
<1>2. QED
  BY <1>1, AbandonTypes DEF TypeInv, TypeOK, WireOK, Raise, diskVars, hubVars

LEMMA LingerTypes ==
  ASSUME TypeInv, NEW w \in Workers, MayLinger(w) PROVE late' \subseteq Request /\ WireOK'
<1>1. pc[w] = "commit" => sent[w] \in Request /\ sent[w].progress.scheduled
  BY WorkerTypes DEF TypeInv, ProcOK
<1>2. QED
  BY <1>1 DEF MayLinger, TypeInv, TypeOK, WireOK

LEMMA FailTypes ==
  ASSUME TypeInv, NEW w \in Workers, Fail(w) PROVE TypeInv'
<1>1. DiskOK'
  BY DEF TypeInv, DiskOK, Fail, diskVars
<1>2. late' \subseteq Request /\ WireOK'
  BY LingerTypes DEF Fail
<1>3. QED
  BY <1>1, <1>2, AbandonTypes DEF TypeInv, TypeOK, Fail, diskVars

LEMMA CrashTypes ==
  ASSUME TypeInv, NEW w \in Workers, Crash(w) PROVE TypeInv'
<1>1. late' \subseteq Request /\ WireOK'
  BY LingerTypes DEF Crash
<1>2. DiskOK' /\ disk' \in [Workers -> [Lanes -> Batch]]
      /\ \A v \in Workers : v # w => disk'[v] = disk[v]
  <2>1. CASE UNCHANGED disk
    BY <2>1 DEF TypeInv, TypeOK, DiskOK
  <2>2. CASE pc[w] = "clean"
    <3> DEFINE l == plan[w].lane
    <3>1. l \in Lanes
      BY <2>2, WorkerTypes DEF Plan
    <3>2. PICK b \in Debris(disk[w][l]) : disk' = [disk EXCEPT ![w][l] = b]
      BY <2>2 DEF Crash, SetBatch, Working
    <3>3. disk[w][l] \in Batch
      BY <3>1, WorkerTypes
    <3>4. /\ b \in Batch
          /\ b.request \in {disk[w][l].request, None}
          /\ b.ready \in {disk[w][l].ready, None}
      BY <3>2, <3>3, DebrisFacts
    <3>5. disk' \in [Workers -> [Lanes -> Batch]]
      BY <3>1, <3>2, <3>4 DEF TypeInv, TypeOK
    <3>6. \A v \in Workers : v # w => disk'[v] = disk[v]
      BY <3>2 DEF TypeInv, TypeOK
    <3>7. DiskOK'
      BY <3>1, <3>2, <3>4 DEF TypeInv, TypeOK, DiskOK
    <3>8. QED
      BY <3>5, <3>6, <3>7
  <2>3. QED
    BY <2>1, <2>2 DEF Crash
<1>3. window' \in [Workers -> Windows] /\ faults' \in Nat
  BY DEF Crash, TypeInv, TypeOK
<1>4. QED
  BY <1>1, <1>2, <1>3, AbandonTypes DEF Crash

LEMMA ChooseTypes ==
  ASSUME TypeInv, NEW w \in Workers, NEW l \in Lanes, Choose(w, l) PROVE TypeInv'
<1> DEFINE effective == IF snapshot[w].scheduled THEN snapshot[w] ELSE initial[w]
<1>1. effective \in Progress
  BY WorkerTypes DEF Choose, TypeInv, ProcOK
<1>2. PICK p \in Plans(w, l, effective) :
        /\ plan' = [plan EXCEPT ![w] = p]
        /\ IF PendingPlan(w, l) = None
             THEN SetBatch(w, l, [disk[w][l] EXCEPT !.request = p])
             ELSE UNCHANGED disk
  BY DEF Choose
<1>3. p \in Plan /\ p.lane = l /\ p.start <= p.end
  <2>1. CASE PendingPlan(w, l) = None
    <3>1. p \in NewPlans(l, effective, window[w])
      BY <1>2, <2>1 DEF Plans
    <3>2. QED
      BY <1>1, <3>1, NewPlansFacts, WorkerTypes
  <2>2. CASE PendingPlan(w, l) # None /\ disk[w][l].ready # None
    <3>1. p = [lane |-> l, start |-> disk[w][l].ready.start, end |-> disk[w][l].ready.end]
      BY <1>2, <2>2 DEF Plans, PendingPlan
    <3>2. disk[w][l].ready \in Record /\ WellFormed(disk[w][l].ready)
      BY <2>2, WorkerTypes
    <3>3. QED
      BY <3>1, <3>2 DEF Plan, Record, WellFormed
  <2>3. CASE PendingPlan(w, l) # None /\ disk[w][l].ready = None
    <3>1. p = disk[w][l].request /\ p # None
      BY <1>2, <2>3 DEF Plans, PendingPlan
    <3>2. QED
      BY <3>1, WorkerTypes
  <2>4. QED
    BY <2>1, <2>2, <2>3
<1>4. p # None
  BY <1>3, NoneAssumption
<1>5. /\ disk' \in [Workers -> [Lanes -> Batch]]
      /\ DiskOK'
      /\ disk'[w][l].ready # None \/ disk'[w][l].request # None
      /\ \A v \in Workers : v # w => disk'[v] = disk[v]
  <2>1. CASE PendingPlan(w, l) = None
    <3>1. disk[w][l].ready = None
      BY <2>1, WorkerTypes, NoneAssumption DEF PendingPlan, Plan, Record
    <3>2. disk[w][l] \in Batch
      BY WorkerTypes
    <3>3. [disk[w][l] EXCEPT !.request = p] \in Batch
          /\ [disk[w][l] EXCEPT !.request = p].request = p
          /\ [disk[w][l] EXCEPT !.request = p].ready = None
      BY <1>3, <3>1, <3>2 DEF Batch
    <3>4. disk' = [disk EXCEPT ![w][l] = [disk[w][l] EXCEPT !.request = p]]
      BY <1>2, <2>1 DEF SetBatch
    <3>5. QED
      BY <1>3, <1>4, <3>3, <3>4 DEF TypeInv, TypeOK, DiskOK
  <2>2. CASE PendingPlan(w, l) # None
    BY <1>2, <2>2 DEF TypeInv, TypeOK, DiskOK, PendingPlan
  <2>3. QED
    BY <2>1, <2>2
<1>6. TypeOK'
  BY <1>2, <1>3, <1>5 DEF TypeInv, TypeOK, Choose, hubVars
<1>7. ProcOK' /\ WireOK'
  BY <1>2, <1>3, <1>4, <1>5 DEF TypeInv, TypeOK, ProcOK, WireOK, Choose, hubVars
<1>8. QED
  BY <1>5, <1>6, <1>7 DEF TypeInv

\* Judge keeps the types once the disk step is known to.
LEMMA JudgeTypes ==
  ASSUME TypeInv, NEW w \in Workers, pc[w] = "build", NEW r, Judge(w, r),
         DiskOK', disk' \in [Workers -> [Lanes -> Batch]],
         disk'[w][plan[w].lane].ready # None,
         \A v \in Workers : v # w => disk'[v] = disk[v],
         served' \subseteq Int,
         UNCHANGED <<hubVars, initial, window, now, faults>>
  PROVE  TypeInv'
<1>0. WireOK'
  BY DEF TypeInv, WireOK, hubVars
<1>1. CASE plan[w].lane = "backfill" /\ r.end # plan[w].end
  <2>1. Abandon(w)
    BY <1>1 DEF Judge
  <2>2. TypeOK'
    BY <2>1 DEF TypeInv, TypeOK, Abandon, hubVars
  <2>3. ProcOK'
    BY <2>1 DEF TypeInv, TypeOK, ProcOK, Abandon, hubVars
  <2>4. QED
    BY <1>0, <2>2, <2>3 DEF TypeInv
<1>2. CASE ~(plan[w].lane = "backfill" /\ r.end # plan[w].end)
  <2>1. /\ pc' = [pc EXCEPT ![w] = IF plan[w].lane = "repair" /\ r.missing # {}
                                     THEN "clean" ELSE "publish"]
        /\ UNCHANGED <<snapshot, plan, sent>>
    BY <1>2 DEF Judge
  <2>2. TypeOK'
    BY <2>1 DEF TypeInv, TypeOK, hubVars
  <2>3. ProcOK'
    BY <2>1 DEF TypeInv, TypeOK, ProcOK, hubVars
  <2>4. QED
    BY <1>0, <2>2, <2>3 DEF TypeInv
<1>3. QED
  BY <1>1, <1>2

\* What build_batch seals: an interval from the start of the request.
LEMMA CollectFacts ==
  ASSUME TypeInv, NEW w \in Workers, Collect(w)
  PROVE  \E r \in Record :
           LET l == plan[w].lane
           IN  /\ l \in Lanes /\ pc[w] = "build" /\ r.kind = l /\ WellFormed(r) /\ r # None
               /\ disk[w][l].ready = None /\ disk[w][l].request # None
               /\ r.start = disk[w][l].request.start /\ r.end <= disk[w][l].request.end
               /\ disk' = [disk EXCEPT ![w][l] = [disk[w][l] EXCEPT !.ready = r, !.intact = TRUE]]
               /\ [disk[w][l] EXCEPT !.ready = r, !.intact = TRUE] \in Batch
               /\ [disk[w][l] EXCEPT !.ready = r, !.intact = TRUE].request = disk[w][l].request
               /\ [disk[w][l] EXCEPT !.ready = r, !.intact = TRUE].ready = r
               /\ served' = served \cup Complete(r)
               /\ Judge(w, r)
<1> DEFINE l == plan[w].lane
           q == disk[w][l].request
<1>1. /\ l \in Lanes /\ disk[w][l] \in Batch /\ q \in Plan /\ pc[w] = "build"
      /\ disk[w][l].ready = None /\ q # None
  BY WorkerTypes DEF Collect, Working, Plan
<1>2. PICK end \in SealPoints(q, window[w]) :
        \E missing \in SUBSET ((q.start .. end) \ served) :
          LET r == [kind |-> l, start |-> q.start, end |-> end, missing |-> missing]
          IN  /\ SetBatch(w, l, [disk[w][l] EXCEPT !.ready = r, !.intact = TRUE])
              /\ served' = served \cup Complete(r)
              /\ Judge(w, r)
  BY DEF Collect, Working
<1>3. PICK missing \in SUBSET ((q.start .. end) \ served) :
        LET r == [kind |-> l, start |-> q.start, end |-> end, missing |-> missing]
        IN  /\ SetBatch(w, l, [disk[w][l] EXCEPT !.ready = r, !.intact = TRUE])
            /\ served' = served \cup Complete(r)
            /\ Judge(w, r)
  BY <1>2
<1> DEFINE r == [kind |-> l, start |-> q.start, end |-> end, missing |-> missing]
<1>4. /\ end \in Int /\ q.start \in Int /\ q.start <= end /\ end <= q.end
      /\ missing \subseteq q.start .. end
  <2>1. end \in q.start .. q.end
    BY Zenon DEF SealPoints
  <2>2. q.start \in Int /\ q.end \in Int
    BY <1>1 DEF Plan
  <2>3. missing \subseteq q.start .. end
    BY Zenon
  <2>4. QED
    BY <2>1, <2>2, <2>3
<1>5. r \in Record /\ r.kind = l /\ WellFormed(r) /\ r.start = q.start /\ r.end <= q.end
  BY <1>1, <1>4 DEF Record, WellFormed
<1>6. r # None
  BY <1>5, NoneAssumption
<1>7. disk' = [disk EXCEPT ![w][l] = [disk[w][l] EXCEPT !.ready = r, !.intact = TRUE]]
  BY <1>3 DEF SetBatch
<1>8. served' = served \cup Complete(r) /\ Judge(w, r)
  BY <1>3
<1> HIDE DEF r
<1>9. [disk[w][l] EXCEPT !.ready = r, !.intact = TRUE] \in Batch
      /\ [disk[w][l] EXCEPT !.ready = r, !.intact = TRUE].request = q
      /\ [disk[w][l] EXCEPT !.ready = r, !.intact = TRUE].ready = r
  BY <1>1, <1>5 DEF Batch
<1>10. QED
  BY <1>1, <1>5, <1>6, <1>7, <1>8, <1>9

LEMMA CollectTypes ==
  ASSUME TypeInv, NEW w \in Workers, Collect(w) PROVE TypeInv'
<1> DEFINE l == plan[w].lane
<1>1. PICK r \in Record :
        /\ l \in Lanes /\ pc[w] = "build" /\ r.kind = l /\ WellFormed(r) /\ r # None
        /\ disk' = [disk EXCEPT ![w][l] = [disk[w][l] EXCEPT !.ready = r, !.intact = TRUE]]
        /\ [disk[w][l] EXCEPT !.ready = r, !.intact = TRUE] \in Batch
        /\ [disk[w][l] EXCEPT !.ready = r, !.intact = TRUE].request = disk[w][l].request
        /\ [disk[w][l] EXCEPT !.ready = r, !.intact = TRUE].ready = r
        /\ served' = served \cup Complete(r)
        /\ Judge(w, r)
  BY CollectFacts
<1>2. /\ disk' \in [Workers -> [Lanes -> Batch]] /\ DiskOK' /\ disk'[w][l].ready # None
      /\ \A v \in Workers : v # w => disk'[v] = disk[v]
  <2> HIDE DEF l
  <2> QED
    BY <1>1 DEF TypeInv, TypeOK, DiskOK
<1>3. served' \subseteq Int
  <2>1. Complete(r) \subseteq Int
    BY DEF Complete, Record
  <2>2. QED
    BY <1>1, <2>1 DEF TypeInv, TypeOK
<1>4. UNCHANGED <<hubVars, initial, window, now, faults>>
  BY DEF Collect
<1>5. QED
  BY <1>1, <1>2, <1>3, <1>4, JudgeTypes

LEMMA ReuseTypes ==
  ASSUME TypeInv, NEW w \in Workers, Reuse(w) PROVE TypeInv'
<1>1. pc[w] = "build" /\ disk[w][plan[w].lane].ready # None
      /\ Judge(w, disk[w][plan[w].lane].ready)
      /\ UNCHANGED <<hubVars, diskVars, window, served, now, faults>>
  BY DEF Reuse, Working
<1>2. DiskOK' /\ disk' \in [Workers -> [Lanes -> Batch]] /\ served' \subseteq Int
  BY <1>1 DEF TypeInv, TypeOK, DiskOK, diskVars
<1>3. QED
  BY <1>1, <1>2, JudgeTypes DEF diskVars

\* At the point of publication the base of the new progress is scheduled.
LEMMA BaseFacts ==
  ASSUME TypeInv, NEW w \in Workers, pc[w] = "publish"
  PROVE  /\ plan[w].lane \in Lanes
         /\ Working(w).ready \in Record
         /\ Working(w).ready.kind = plan[w].lane
         /\ WellFormed(Working(w).ready)
         /\ Base(w) \in Progress /\ Base(w) # None /\ Base(w).scheduled
         /\ Base(w) = hub \/ (~hub.scheduled /\ Base(w) = initial[w])
<1>1. plan[w].lane \in Lanes
  BY WorkerTypes DEF Plan
<1>2. Working(w).ready # None
  BY DEF Working, TypeInv, ProcOK
<1>3. Working(w).ready \in Record /\ Working(w).ready.kind = plan[w].lane
      /\ WellFormed(Working(w).ready)
  BY <1>1, <1>2, WorkerTypes DEF Working
<1>4. CASE hub.scheduled
  BY <1>1, <1>3, <1>4, WorkerTypes, NoneAssumption DEF Base
<1>5. CASE ~hub.scheduled
  <2>1. initial[w] # None /\ initial[w].scheduled
    BY <1>5 DEF TypeInv, ProcOK
  <2>2. QED
    BY <1>1, <1>3, <1>5, <2>1, WorkerTypes DEF Base
<1>6. QED
  BY <1>4, <1>5

\* A lane is acknowledged only by a progress that has been published: the
\* bootstrap has no acknowledgements.
LEMMA AcknowledgedScheduled ==
  ASSUME TypeInv, NEW w \in Workers, pc[w] = "publish",
         Acknowledged(Base(w), Working(w).ready)
  PROVE  hub.scheduled
<1>1. SUFFICES ASSUME ~hub.scheduled PROVE FALSE
  OBVIOUS
<1>2. initial[w] # None /\ Base(w) = initial[w]
  BY <1>1 DEF TypeInv, ProcOK, Base
<1>3. initial[w].commits = NoCommits
  BY <1>2 DEF TypeInv, ProcOK
<1>4. Working(w).ready = None
  BY <1>2, <1>3, BaseFacts DEF Acknowledged, NoCommits
<1>5. QED
  BY <1>4, BaseFacts, NoneAssumption

LEMMA FindAcknowledgedTypes ==
  ASSUME TypeInv, NEW w \in Workers, FindAcknowledged(w) PROVE TypeInv'
<1>0. /\ pc[w] = "publish" /\ SeamValid(w, Working(w).ready)
      /\ Acknowledged(Base(w), Working(w).ready)
      /\ pc' = [pc EXCEPT ![w] = "clean"]
      /\ snapshot' = [snapshot EXCEPT ![w] = Base(w)]
      /\ UNCHANGED <<hub, log, late, disk, initial, plan, sent, window, served, now, faults>>
  BY DEF FindAcknowledged, hubVars, diskVars
<1>1. Base(w) \in Progress /\ Base(w).scheduled
  BY <1>0, BaseFacts
<1>2. TypeOK'
  BY <1>0, <1>1 DEF TypeInv, TypeOK
<1>3. DiskOK' /\ WireOK'
  BY <1>0 DEF TypeInv, DiskOK, WireOK
<1>4. hub.scheduled
  BY <1>0, AcknowledgedScheduled
<1>5. ProcOK'
  BY <1>0, <1>1, <1>4 DEF TypeInv, TypeOK, ProcOK
<1>6. QED
  BY <1>2, <1>3, <1>5 DEF TypeInv

LEMMA SendTypes ==
  ASSUME TypeInv, NEW w \in Workers, Send(w) PROVE TypeInv'
<1> DEFINE r == Working(w).ready
           q == [parent |-> Len(log), rec |-> r, progress |-> Advanced(Base(w), r, Protected(w))]
<1>0. /\ pc[w] = "publish"
      /\ sent' = [sent EXCEPT ![w] = q]
      /\ pc' = [pc EXCEPT ![w] = "commit"]
      /\ UNCHANGED <<hub, log, late, disk, initial, snapshot, plan, window, served, now, faults>>
  BY DEF Send, hubVars, diskVars
<1>1. Advanced(Base(w), r, Protected(w)) \in Progress
      /\ Advanced(Base(w), r, Protected(w)).scheduled
  BY <1>0, BaseFacts, AdvancedFacts DEF TypeInv, TypeOK
<1>2. q \in Request /\ q.progress.scheduled
  BY <1>0, <1>1, BaseFacts DEF Request, TypeInv, TypeOK
<1>3. q # None
  BY <1>2, NoneAssumption
<1> HIDE DEF q
<1>4. TypeOK'
  BY <1>0, <1>2 DEF TypeInv, TypeOK
<1>5. DiskOK' /\ WireOK'
  BY <1>0 DEF TypeInv, DiskOK, WireOK
<1>6. ProcOK'
  BY <1>0, <1>2, <1>3 DEF TypeInv, TypeOK, ProcOK
<1>7. QED
  BY <1>4, <1>5, <1>6 DEF TypeInv

LEMMA ConfirmTypes ==
  ASSUME TypeInv, NEW w \in Workers, Confirm(w) PROVE TypeInv'
<1>0. /\ pc[w] = "landed"
      /\ pc' = [pc EXCEPT ![w] = "clean"]
      /\ snapshot' = [snapshot EXCEPT ![w] = sent[w].progress]
      /\ sent' = [sent EXCEPT ![w] = None]
      /\ UNCHANGED <<hub, log, late, disk, initial, plan, window, served, now, faults>>
  BY DEF Confirm, hubVars, diskVars
<1>1. sent[w] \in Request /\ sent[w].progress.scheduled /\ hub.scheduled
  BY <1>0, WorkerTypes DEF TypeInv, ProcOK
<1>2. sent[w].progress \in Progress
  BY <1>1 DEF Request
<1>3. TypeOK'
  BY <1>0, <1>2 DEF TypeInv, TypeOK
<1>4. DiskOK' /\ WireOK'
  BY <1>0 DEF TypeInv, DiskOK, WireOK
<1>5. ProcOK'
  BY <1>0, <1>1 DEF TypeInv, TypeOK, ProcOK
<1>6. QED
  BY <1>3, <1>4, <1>5 DEF TypeInv

LEMMA CleanTypes ==
  ASSUME TypeInv, NEW w \in Workers, Clean(w) PROVE TypeInv'
<1>0. /\ pc[w] = "clean"
      /\ disk' = [disk EXCEPT ![w][plan[w].lane] = EmptyBatch]
      /\ pc' = [pc EXCEPT ![w] = "idle"]
      /\ plan' = [plan EXCEPT ![w] = None]
      /\ UNCHANGED <<hub, log, late, initial, snapshot, sent, window, served, now, faults>>
  BY DEF Clean, SetBatch, hubVars
<1>1. plan[w].lane \in Lanes
  BY <1>0, WorkerTypes DEF Plan
<1>2. EmptyBatch \in Batch /\ EmptyBatch.request = None /\ EmptyBatch.ready = None
  BY DEF EmptyBatch, Batch
<1>3. TypeOK'
  BY <1>0, <1>1, <1>2 DEF TypeInv, TypeOK
<1>4. DiskOK' /\ WireOK'
  BY <1>0, <1>1, <1>2 DEF TypeInv, TypeOK, DiskOK, WireOK
<1>5. ProcOK'
  BY <1>0 DEF TypeInv, TypeOK, ProcOK
<1>6. QED
  BY <1>3, <1>4, <1>5 DEF TypeInv

\* A commit of a scheduled progress, whoever sent it.
LEMMA CommitTypes ==
  ASSUME TypeInv, NEW q \in Request, Commit(q),
         hub.scheduled => q.progress.scheduled
  PROVE  hub' \in Progress /\ log' \in Seq(Record) /\ late' \subseteq Request /\ WireOK'
         /\ (hub.scheduled => hub'.scheduled)
<1>1. q.rec \in Record /\ q.progress \in Progress
  BY DEF Request
<1>2. log \in Seq(Record)
  BY DEF TypeInv, TypeOK
<1>3. Append(log, q.rec) \in Seq(Record)
  BY <1>1, <1>2
<1>4. QED
  BY <1>1, <1>3 DEF Commit, WireOK

LEMMA LandTypes ==
  ASSUME TypeInv, NEW w \in Workers, Land(w) PROVE TypeInv'
<1>0. /\ pc[w] = "commit" /\ Commit(sent[w])
      /\ pc' = [pc EXCEPT ![w] = "landed"]
      /\ UNCHANGED <<disk, initial, snapshot, plan, sent, window, served, now, faults>>
  BY DEF Land, diskVars
<1>1. sent[w] \in Request /\ sent[w].progress.scheduled
  BY <1>0, WorkerTypes DEF TypeInv, ProcOK
<1>2. hub' \in Progress /\ log' \in Seq(Record) /\ late' \subseteq Request /\ WireOK'
  BY <1>0, <1>1, CommitTypes
<1>3. hub'.scheduled
  BY <1>0, <1>1 DEF Commit
<1>4. TypeOK' /\ DiskOK'
  BY <1>0, <1>2 DEF TypeInv, TypeOK, DiskOK
<1>5. ProcOK'
  BY <1>0, <1>3 DEF TypeInv, TypeOK, ProcOK
<1>6. QED
  BY <1>2, <1>4, <1>5 DEF TypeInv

\* A commit that no running worker waits for.
LEMMA ForeignCommitTypes ==
  ASSUME TypeInv, NEW q \in Request, Commit(q), hub.scheduled => q.progress.scheduled,
         served' \subseteq Int, UNCHANGED <<diskVars, procVars, now, faults>>
  PROVE  TypeInv'
<1>1. hub' \in Progress /\ log' \in Seq(Record) /\ late' \subseteq Request /\ WireOK'
      /\ (hub.scheduled => hub'.scheduled)
  BY CommitTypes
<1>2. UNCHANGED <<disk, initial, pc, snapshot, plan, sent, window, now, faults>>
  BY DEF diskVars, procVars
<1>3. TypeOK' /\ DiskOK'
  BY <1>1, <1>2 DEF TypeInv, TypeOK, DiskOK
<1>4. ProcOK'
  BY <1>1, <1>2 DEF TypeInv, ProcOK
<1>5. QED
  BY <1>1, <1>3, <1>4 DEF TypeInv

LEMMA LandLateTypes == ASSUME TypeInv, LandLate PROVE TypeInv'
<1>1. PICK q \in late : Commit(q)
  BY DEF LandLate
<1>2. q \in Request /\ q.progress.scheduled
  BY DEF TypeInv, TypeOK, WireOK
<1>3. served' \subseteq Int
  BY DEF LandLate, TypeInv, TypeOK
<1>4. QED
  BY <1>1, <1>2, <1>3, ForeignCommitTypes DEF LandLate

\* The progress of a chronological publication.
LEMMA LegacyFacts ==
  ASSUME NEW n \in Int, NEW queue \in SUBSET Int
  PROVE  Legacy(n, queue) \in Progress
<1>1. NoCommits \in [Lanes -> Record \cup {None}]
  BY DEF NoCommits
<1>2. QED
  BY <1>1 DEF Legacy, Progress

LEMMA LegacyForwardTypes == ASSUME TypeInv, LegacyForward PROVE TypeInv'
<1>0. hub \in Progress /\ served \subseteq Int
  BY DEF TypeInv, TypeOK
<1>1. hub.liveNext \in Int /\ hub.pending \subseteq Int
  BY <1>0 DEF Progress
<1>2. PICK e \in hub.liveNext .. Cutoff :
        \E missing \in SUBSET ((hub.liveNext .. e) \ served) :
          LET r == [kind |-> "forward", start |-> hub.liveNext, end |-> e, missing |-> missing]
          IN  /\ Commit([rec |-> r,
                         progress |-> Legacy(e + 1,
                           {m \in hub.pending \cup missing : m >= Earliest})])
              /\ served' = served \cup Complete(r)
  BY DEF LegacyForward
<1>3. PICK missing \in SUBSET ((hub.liveNext .. e) \ served) :
        LET r == [kind |-> "forward", start |-> hub.liveNext, end |-> e, missing |-> missing]
        IN  /\ Commit([rec |-> r,
                       progress |-> Legacy(e + 1,
                         {m \in hub.pending \cup missing : m >= Earliest})])
            /\ served' = served \cup Complete(r)
  BY <1>2
<1> DEFINE r == [kind |-> "forward", start |-> hub.liveNext, end |-> e, missing |-> missing]
           p == Legacy(e + 1, {m \in hub.pending \cup missing : m >= Earliest})
           q == [parent |-> 0, rec |-> r, progress |-> p]
<1>4. r \in Record /\ Complete(r) \subseteq Int
  BY <1>1 DEF Record, Complete
<1>5. p \in Progress
  <2>0. missing \subseteq Int
    BY <1>4 DEF Record
  <2>1. {m \in hub.pending \cup missing : m >= Earliest} \in SUBSET Int
    BY <1>1, <2>0
  <2>2. e + 1 \in Int
    BY <1>1
  <2>3. QED
    BY <2>1, <2>2, LegacyFacts
<1>6. q \in Request
  BY <1>4, <1>5 DEF Request
<1>7. Commit(q)
  BY <1>3 DEF Commit
<1>8. served' \subseteq Int
  BY <1>0, <1>3, <1>4
<1>9. ~hub.scheduled /\ UNCHANGED <<diskVars, procVars, now, faults>>
  BY DEF LegacyForward
<1>10. QED
  BY <1>6, <1>7, <1>8, <1>9, ForeignCommitTypes

LEMMA LegacyRepairTypes == ASSUME TypeInv, LegacyRepair PROVE TypeInv'
<1>0. hub \in Progress /\ served \subseteq Int
  BY DEF TypeInv, TypeOK
<1>1. hub.liveNext \in Int /\ hub.pending \subseteq Int
  BY <1>0 DEF Progress
<1>2. PICK m \in hub.pending :
        /\ Commit([rec |-> [kind |-> "repair", start |-> m, end |-> m, missing |-> {}],
                   progress |-> Legacy(hub.liveNext, {x \in hub.pending \ {m} : x >= Earliest})])
        /\ served' = served \cup {m}
  BY DEF LegacyRepair
<1> DEFINE r == [kind |-> "repair", start |-> m, end |-> m, missing |-> {}]
           p == Legacy(hub.liveNext, {x \in hub.pending \ {m} : x >= Earliest})
           q == [parent |-> 0, rec |-> r, progress |-> p]
<1>4. r \in Record
  BY <1>1 DEF Record, Lanes
<1>5. p \in Progress
  <2>1. {x \in hub.pending \ {m} : x >= Earliest} \in SUBSET Int
    BY <1>1
  <2>2. QED
    BY <1>1, <2>1, LegacyFacts
<1>6. q \in Request
  BY <1>4, <1>5 DEF Request
<1>7. Commit(q)
  BY <1>2 DEF Commit
<1>8. served' \subseteq Int
  BY <1>0, <1>1, <1>2
<1>9. ~hub.scheduled /\ UNCHANGED <<diskVars, procVars, now, faults>>
  BY DEF LegacyRepair
<1>10. QED
  BY <1>6, <1>7, <1>8, <1>9, ForeignCommitTypes

LEMMA TickTypes == ASSUME TypeInv, Tick PROVE TypeInv'
<1>1. UNCHANGED <<hub, log, late, disk, initial, pc, snapshot, plan, sent, window, served, faults>>
      /\ now' = now + 1
  BY DEF Tick, hubVars, diskVars, procVars
<1>2. TypeOK'
  BY <1>1 DEF TypeInv, TypeOK
<1>3. DiskOK' /\ ProcOK' /\ WireOK'
  BY <1>1 DEF TypeInv, DiskOK, ProcOK, WireOK
<1>4. QED
  BY <1>2, <1>3 DEF TypeInv

\* The type invariant is inductive.
LEMMA TypeStep == TypeInv /\ [Next]_vars => TypeInv'
<1> SUFFICES ASSUME TypeInv, [Next]_vars PROVE TypeInv'
  OBVIOUS
<1>1. ASSUME NEW w \in Workers, Step(w) PROVE TypeInv'
  BY <1>1, RefreshTypes, ChooseTypes, CollectTypes, ReuseTypes, FindAcknowledgedTypes,
     SendTypes, ConfirmTypes, CleanTypes, RaiseTypes DEF Step
<1>2. ASSUME NEW w \in Workers, Land(w) \/ Fail(w) \/ Crash(w) PROVE TypeInv'
  BY <1>2, LandTypes, FailTypes, CrashTypes
<1>3. CASE LandLate \/ LegacyForward \/ LegacyRepair \/ Tick
  BY <1>3, LandLateTypes, LegacyForwardTypes, LegacyRepairTypes, TickTypes
<1>4. CASE UNCHANGED vars
  BY <1>4 DEF vars, TypeInv, TypeOK, DiskOK, ProcOK, WireOK
<1>5. QED
  BY <1>1, <1>2, <1>3, <1>4 DEF Next

\* Every file, snapshot and request keeps its shape (TypeOK), and a process
\* always finds what its next step reads.
THEOREM TypeCorrect == Spec => []TypeOK
<1>1. Init => TypeInv
  BY InitTypes DEF TypeInv
<1>2. TypeInv /\ [Next]_vars => TypeInv'
  BY TypeStep
<1>3. TypeInv => TypeOK
  BY DEF TypeInv
<1>4. QED
  BY <1>1, <1>2, <1>3, PTL DEF Spec

-----------------------------------------------------------------------------
(* The history.                                                            *)

\* The cursors are ordered: prefix, hole, seam, live side.
CursorsOK ==
  /\ First <= hub.floor
  /\ IF hub.scheduled
       THEN /\ hub.floor <= hub.liveStart /\ hub.liveStart <= hub.liveNext
            /\ hub.floor - 1 <= hub.backEnd /\ hub.backEnd < hub.liveStart
       ELSE /\ hub.liveNext = hub.floor /\ hub.liveStart = hub.floor
            /\ hub.backEnd = hub.floor - 1

\* What only a seam repair may have published: a minute some batch missed and no
\* other commit uploads.
Outstanding ==
  {m \in UNION {log[i].missing : i \in DOMAIN log} :
     \A j \in DOMAIN log \ SeamRepairs : m \notin Complete(log[j])}

\* What progress.json says of the history is true.
HistoryOK ==
  /\ CursorsOK
  /\ \A i \in DOMAIN log : WellFormed(log[i]) /\ Interval(log[i]) \subseteq Covered
  /\ \A m \in Covered : \E i \in DOMAIN log : m \in Interval(log[i])
  /\ RepeatsOnlySeamRepairs
  /\ NoGapForgotten
  /\ hub.pending \subseteq Outstanding
  /\ hub.scheduled <=> \E i \in DOMAIN log : log[i].kind = "live"
  /\ "repair" \notin LegacyKinds => SeamRepairs = {}

\* The queue a commit of r leaves behind queue, up to expired minutes.
Requeued(queue, r) ==
  IF r.kind = "repair" THEN queue \ {r.start} ELSE queue \cup r.missing

\* q is a progress publish may compute for record r from progress p.  The first
\* live commit republishes the queue of the frozen seam, which a chronological
\* repair may have outrun.
ValidMove(p, r, q) ==
  /\ WellFormed(r)
  /\ q.scheduled
  /\ q.pending \subseteq Requeued(IF p.scheduled THEN p.pending ELSE Outstanding, r)
  /\ {m \in Requeued(p.pending, r) : m >= Earliest} \subseteq q.pending
  /\ IF p.scheduled
       THEN /\ q.floor = p.floor /\ q.liveStart = p.liveStart
            /\ \/ /\ r.kind = "live" /\ r.start = p.liveNext
                  /\ q.liveNext = r.end + 1 /\ q.backEnd = p.backEnd
               \/ /\ r.kind = "backfill" /\ r.end = p.backEnd /\ r.start >= p.floor
                  /\ q.liveNext = p.liveNext /\ q.backEnd = r.start - 1
               \/ /\ r.kind = "repair" /\ r.start = r.end /\ r.start \in p.pending
                  /\ r.missing = {}
                  /\ q.liveNext = p.liveNext /\ q.backEnd = p.backEnd
       ELSE /\ r.kind = "live" /\ r.start = q.liveStart /\ q.liveNext = r.end + 1
            /\ q.floor = p.liveNext /\ q.liveStart >= q.floor /\ q.backEnd = q.liveStart - 1

\* A request whose parent is the head moves the head as publish may.
RequestOK ==
  /\ \A w \in Workers : sent[w] # None =>
       /\ sent[w].parent <= Len(log)
       /\ sent[w].parent = Len(log) => ValidMove(hub, sent[w].rec, sent[w].progress)
  /\ \A q \in late :
       /\ q.parent <= Len(log)
       /\ q.parent = Len(log) => ValidMove(hub, q.rec, q.progress)

\* A frozen seam whose floor is still the forward cursor holds the retry queue
\* that is still published, and nothing but seam repairs have published more.
InitialOK ==
  \A w \in Workers : initial[w] # None =>
    /\ initial[w].floor >= First
    /\ initial[w].liveStart >= initial[w].floor
    /\ initial[w].liveNext = initial[w].liveStart
    /\ initial[w].backEnd = initial[w].liveStart - 1
    /\ ~hub.scheduled =>
         /\ initial[w].floor <= hub.liveNext
         /\ initial[w].floor = hub.liveNext =>
              hub.pending \subseteq initial[w].pending /\ initial[w].pending \subseteq Outstanding

\* One commit adds one record at the end of the history.
LEMMA AppendFacts ==
  ASSUME log \in Seq(Record), NEW r \in Record, log' = Append(log, r)
  PROVE  /\ Len(log) \in Nat /\ Len(log') = Len(log) + 1
         /\ DOMAIN log' = DOMAIN log \cup {Len(log) + 1}
         /\ Len(log) + 1 \notin DOMAIN log
         /\ \A i \in DOMAIN log : log'[i] = log[i]
         /\ log'[Len(log) + 1] = r
<1>1. Len(log) \in Nat /\ DOMAIN log = 1 .. Len(log)
  OBVIOUS
<1>2. Len(log') = Len(log) + 1 /\ DOMAIN log' = 1 .. Len(log) + 1
  BY AppendProperties
<1>3. \A i \in 1 .. Len(log) : log'[i] = log[i]
  BY AppendProperties
<1>4. log'[Len(log) + 1] = r
  BY AppendProperties
<1>5. QED
  BY <1>1, <1>2, <1>3, <1>4

\* A gap is missing from some batch and published by none, before and after a
\* step.
LEMMA GapMember ==
  ASSUME NEW m
  PROVE  /\ m \in Gaps <=> /\ \E i \in DOMAIN log : m \in log[i].missing
                          /\ \A j \in DOMAIN log : m \notin Complete(log[j])
         /\ m \in Gaps' <=> /\ \E i \in DOMAIN log' : m \in log'[i].missing
                           /\ \A j \in DOMAIN log' : m \notin Complete(log'[j])
<1>1. /\ m \in Gaps <=> m \in (UNION {log[i].missing : i \in DOMAIN log}) /\ m \notin Published
      /\ m \in Gaps' <=> m \in UNION {log'[i].missing : i \in DOMAIN log'} /\ m \notin Published'
  BY DEF Gaps
<1>2. /\ m \in Published <=> \E j \in DOMAIN log : m \in Complete(log[j])
      /\ m \in Published' <=> \E j \in DOMAIN log' : m \in Complete(log'[j])
  BY DEF Published, Complete
<1>3. /\ m \in UNION {log[i].missing : i \in DOMAIN log} <=>
           \E i \in DOMAIN log : m \in log[i].missing
      /\ m \in UNION {log'[i].missing : i \in DOMAIN log'} <=>
           \E i \in DOMAIN log' : m \in log'[i].missing
  OBVIOUS
<1>4. QED
  BY <1>1, <1>2, <1>3

\* An outstanding minute is missing from some batch, and published by none but
\* seam repairs, before and after a step.
LEMMA OutstandingMember ==
  ASSUME NEW m
  PROVE  /\ m \in Outstanding <=>
              /\ \E i \in DOMAIN log : m \in log[i].missing
              /\ \A j \in DOMAIN log : j \notin SeamRepairs => m \notin Complete(log[j])
         /\ m \in Outstanding' <=>
              /\ \E i \in DOMAIN log' : m \in log'[i].missing
              /\ \A j \in DOMAIN log' : j \notin SeamRepairs' => m \notin Complete(log'[j])
<1>1. m \in Outstanding <=>
        /\ \E i \in DOMAIN log : m \in log[i].missing
        /\ \A j \in DOMAIN log : j \notin SeamRepairs => m \notin Complete(log[j])
  BY DEF Outstanding
<1>2. m \in Outstanding' <=>
        /\ \E i \in DOMAIN log' : m \in log'[i].missing
        /\ \A j \in DOMAIN log' : j \notin SeamRepairs' => m \notin Complete(log'[j])
  <2>1. Outstanding' = {x \in UNION {log'[i].missing : i \in DOMAIN log'} :
                          \A j \in DOMAIN log' \ SeamRepairs' : x \notin Complete(log'[j])}
    BY DEF Outstanding, Complete
  <2>2. QED
    BY <2>1
<1>3. QED
  BY <1>1, <1>2

\* One commit keeps which older commits are seam repairs; its own record is one
\* if it repairs before the first live commit.
LEMMA SeamKept ==
  ASSUME log \in Seq(Record), NEW r \in Record, log' = Append(log, r)
  PROVE  /\ \A i \in DOMAIN log : i \in SeamRepairs' <=> i \in SeamRepairs
         /\ Len(log) + 1 \in SeamRepairs' <=>
              r.kind = "repair" /\ \A j \in DOMAIN log : log[j].kind # "live"
<1>1. /\ Len(log) \in Nat /\ DOMAIN log = 1 .. Len(log)
      /\ DOMAIN log' = DOMAIN log \cup {Len(log) + 1}
      /\ \A i \in DOMAIN log : log'[i] = log[i]
      /\ log'[Len(log) + 1] = r
  BY AppendFacts
<1>2. ASSUME NEW i \in DOMAIN log PROVE i \in SeamRepairs' <=> i \in SeamRepairs
  <2>1. \A j \in 1 .. i - 1 : j \in DOMAIN log
    BY <1>1
  <2>2. QED
    BY <1>1, <2>1 DEF SeamRepairs
<1>3. 1 .. (Len(log) + 1) - 1 = DOMAIN log
  BY <1>1
<1>4. Len(log) + 1 \in SeamRepairs' <=>
        r.kind = "repair" /\ \A j \in DOMAIN log : log[j].kind # "live"
  BY <1>1, <1>3 DEF SeamRepairs
<1>5. QED
  BY <1>2, <1>4

\* Without seam repairs, what is outstanding is exactly the gaps.
LEMMA OutstandingIsGaps ==
  /\ SeamRepairs = {} => Outstanding = Gaps
  /\ SeamRepairs' = {} => Outstanding' = Gaps'
<1>1. SeamRepairs = {} => \A m : m \in Outstanding <=> m \in Gaps
  BY OutstandingMember, GapMember
<1>2. SeamRepairs' = {} => \A m : m \in Outstanding' <=> m \in Gaps'
  BY OutstandingMember, GapMember
<1>3. QED
  BY <1>1, <1>2

\* A gap after a commit was one before it, or the record misses it.
LEMMA GapsGrow ==
  ASSUME log \in Seq(Record), NEW r \in Record, log' = Append(log, r)
  PROVE  \A m \in Gaps' : (m \in Gaps \/ m \in r.missing) /\ m \notin Complete(r)
<1>1. /\ DOMAIN log' = DOMAIN log \cup {Len(log) + 1}
      /\ \A i \in DOMAIN log : log'[i] = log[i]
      /\ log'[Len(log) + 1] = r
  BY AppendFacts
<1>2. SUFFICES ASSUME NEW m \in Gaps'
               PROVE  (m \in Gaps \/ m \in r.missing) /\ m \notin Complete(r)
  OBVIOUS
<1>3. \E i \in DOMAIN log' : m \in log'[i].missing
  BY GapMember
<1>4. \A j \in DOMAIN log' : m \notin Complete(log'[j])
  BY GapMember
<1>5. m \notin Complete(r)
  BY <1>1, <1>4
<1>6. m \notin r.missing => \E i \in DOMAIN log : m \in log[i].missing
  BY <1>1, <1>3
<1>7. \A j \in DOMAIN log : m \notin Complete(log[j])
  BY <1>1, <1>4
<1>8. QED
  BY <1>5, <1>6, <1>7, GapMember

\* A commit that claims unclaimed minutes keeps the history in order.
LEMMA ClaimKeepsHistory ==
  ASSUME log \in Seq(Record), HistoryOK, NEW r \in Record, log' = Append(log, r),
         WellFormed(r), Interval(r) \cap Covered = {}, Covered' = Covered \cup Interval(r),
         r.kind # "repair", hub'.scheduled <=> hub.scheduled \/ r.kind = "live",
         hub'.pending \subseteq Outstanding \cup r.missing,
         {m \in hub.pending \cup r.missing : m >= Earliest} \subseteq hub'.pending,
         now' = now, CursorsOK'
  PROVE  HistoryOK'
<1> DEFINE n == Len(log) + 1
<1>1. /\ DOMAIN log' = DOMAIN log \cup {n} /\ n \notin DOMAIN log
      /\ \A i \in DOMAIN log : log'[i] = log[i]
      /\ log'[n] = r
  BY AppendFacts
<1>2. n \notin SeamRepairs' /\ \A i \in DOMAIN log : i \in SeamRepairs' <=> i \in SeamRepairs
  BY SeamKept
<1> HIDE DEF n
<1>3. \A i \in DOMAIN log' : WellFormed(log'[i]) /\ Interval(log'[i]) \subseteq Covered'
  BY <1>1 DEF HistoryOK
<1>4. \A m \in Covered' : \E i \in DOMAIN log' : m \in Interval(log'[i])
  BY <1>1 DEF HistoryOK
<1>5. \A i \in DOMAIN log : Complete(log[i]) \subseteq Covered
  BY DEF HistoryOK, Complete, Interval
<1>6. Complete(r) \cap Covered = {} /\ r.missing \cap Covered = {}
      /\ Complete(r) \cap r.missing = {}
  BY DEF Complete, Interval, WellFormed
<1>7. RepeatsOnlySeamRepairs'
  <2>1. SUFFICES ASSUME NEW i \in DOMAIN log', NEW j \in DOMAIN log', i # j,
                        {i, j} \cap SeamRepairs' = {}
                 PROVE  Complete(log'[i]) \cap Complete(log'[j]) = {}
    BY DEF RepeatsOnlySeamRepairs
  <2>2. CASE i \in DOMAIN log /\ j \in DOMAIN log
    <3>1. {i, j} \cap SeamRepairs = {}
      BY <1>2, <2>1, <2>2
    <3>2. QED
      BY <1>1, <2>1, <2>2, <3>1 DEF HistoryOK, RepeatsOnlySeamRepairs
  <2>3. CASE i = n /\ j \in DOMAIN log
    BY <1>1, <1>5, <1>6, <2>3
  <2>4. CASE i \in DOMAIN log /\ j = n
    BY <1>1, <1>5, <1>6, <2>4
  <2>5. QED
    BY <1>1, <2>1, <2>2, <2>3, <2>4
<1>8. hub'.pending \subseteq Outstanding'
  <2>1. SUFFICES ASSUME NEW m \in hub'.pending PROVE m \in Outstanding'
    OBVIOUS
  <2>2. CASE m \in Outstanding
    <3>2. PICK i \in DOMAIN log : m \in log[i].missing
      BY <2>2, OutstandingMember
    <3>3. \A j \in DOMAIN log : j \notin SeamRepairs => m \notin Complete(log[j])
      BY <2>2, OutstandingMember
    <3>4. m \in Covered
      BY <3>2 DEF HistoryOK, WellFormed, Interval
    <3>5. m \notin Complete(r)
      BY <1>6, <3>4
    <3>6. QED
      BY <1>1, <1>2, <3>2, <3>3, <3>5, OutstandingMember
  <2>3. CASE m \in r.missing
    <3>1. m \notin Complete(r) /\ m \notin Covered
      BY <1>6, <2>3
    <3>2. \A j \in DOMAIN log : m \notin Complete(log[j])
      BY <1>5, <3>1
    <3>3. QED
      BY <1>1, <2>3, <3>1, <3>2, OutstandingMember
  <2>4. QED
    BY <2>2, <2>3
<1>9. NoGapForgotten'
  <2>1. \A m \in Gaps' : m >= Earliest' => m \in hub'.pending
    BY GapsGrow DEF HistoryOK, NoGapForgotten, Earliest
  <2>2. QED
    BY <2>1 DEF NoGapForgotten
<1>10. hub'.scheduled <=> \E i \in DOMAIN log' : log'[i].kind = "live"
  BY <1>1 DEF HistoryOK
<1>11. "repair" \notin LegacyKinds => SeamRepairs' = {}
  <2>1. \A i \in SeamRepairs' : i \in DOMAIN log'
    BY DEF SeamRepairs
  <2>2. QED
    BY <1>1, <1>2, <2>1 DEF HistoryOK
<1>12. QED
  BY <1>3, <1>4, <1>7, <1>8, <1>9, <1>10, <1>11 DEF HistoryOK

\* A commit that recovers a queued minute keeps the history in order, whether
\* the repair lane or a chronological publisher sent it.
LEMMA RecoveryKeepsHistory ==
  ASSUME log \in Seq(Record), HistoryOK, NEW r \in Record, log' = Append(log, r),
         r.kind = "repair", r.start = r.end, r.start \in hub.pending, r.missing = {},
         Covered' = Covered,
         hub'.scheduled <=> hub.scheduled, hub.scheduled \/ "repair" \in LegacyKinds,
         hub'.pending \subseteq hub.pending \ {r.start},
         {m \in hub.pending \ {r.start} : m >= Earliest} \subseteq hub'.pending,
         now' = now, CursorsOK'
  PROVE  HistoryOK' /\ (~hub.scheduled => Outstanding \subseteq Outstanding')
<1> DEFINE n == Len(log) + 1
<1>1. /\ DOMAIN log' = DOMAIN log \cup {n} /\ n \notin DOMAIN log
      /\ \A i \in DOMAIN log : log'[i] = log[i]
      /\ log'[n] = r
  BY AppendFacts
<1>2. /\ \A i \in DOMAIN log : i \in SeamRepairs' <=> i \in SeamRepairs
      /\ n \in SeamRepairs' <=> ~hub.scheduled
  BY SeamKept DEF HistoryOK
<1> HIDE DEF n
<1>3. Interval(r) = {r.start} /\ Complete(r) = {r.start} /\ WellFormed(r)
  BY DEF Interval, Complete, WellFormed, Record
<1>4. r.start \in Outstanding
  BY DEF HistoryOK
<1>5. r.start \in Covered
  BY <1>4, OutstandingMember DEF HistoryOK, WellFormed, Interval
<1>6. \A j \in DOMAIN log : j \notin SeamRepairs => r.start \notin Complete(log[j])
  BY <1>4, OutstandingMember
<1>7. \A i \in DOMAIN log' : WellFormed(log'[i]) /\ Interval(log'[i]) \subseteq Covered'
  BY <1>1, <1>3, <1>5 DEF HistoryOK
<1>8. \A m \in Covered' : \E i \in DOMAIN log' : m \in Interval(log'[i])
  BY <1>1 DEF HistoryOK
<1>9. RepeatsOnlySeamRepairs'
  <2>1. SUFFICES ASSUME NEW i \in DOMAIN log', NEW j \in DOMAIN log', i # j,
                        {i, j} \cap SeamRepairs' = {}
                 PROVE  Complete(log'[i]) \cap Complete(log'[j]) = {}
    BY DEF RepeatsOnlySeamRepairs
  <2>2. CASE i \in DOMAIN log /\ j \in DOMAIN log
    <3>1. {i, j} \cap SeamRepairs = {}
      BY <1>2, <2>1, <2>2
    <3>2. QED
      BY <1>1, <2>1, <2>2, <3>1 DEF HistoryOK, RepeatsOnlySeamRepairs
  <2>3. CASE i = n /\ j \in DOMAIN log
    BY <1>1, <1>2, <1>3, <1>6, <2>1, <2>3
  <2>4. CASE i \in DOMAIN log /\ j = n
    BY <1>1, <1>2, <1>3, <1>6, <2>1, <2>4
  <2>5. QED
    BY <1>1, <2>1, <2>2, <2>3, <2>4
<1>10. ASSUME NEW m \in Outstanding, m # r.start \/ ~hub.scheduled PROVE m \in Outstanding'
  <2>1. PICK i \in DOMAIN log : m \in log[i].missing
    BY OutstandingMember
  <2>2. \A j \in DOMAIN log : j \notin SeamRepairs => m \notin Complete(log[j])
    BY OutstandingMember
  <2>3. n \notin SeamRepairs' => m \notin Complete(r)
    BY <1>2, <1>3, <1>10
  <2>4. \E k \in DOMAIN log' : m \in log'[k].missing
    BY <1>1, <2>1
  <2>5. \A j \in DOMAIN log' : j \notin SeamRepairs' => m \notin Complete(log'[j])
    BY <1>1, <1>2, <2>2, <2>3
  <2>6. QED
    BY <2>4, <2>5, OutstandingMember
<1>11. hub'.pending \subseteq Outstanding'
  BY <1>10 DEF HistoryOK
<1>12. NoGapForgotten'
  <2>1. \A m \in Gaps' : m >= Earliest' => m \in hub'.pending
    BY <1>3, GapsGrow DEF HistoryOK, NoGapForgotten, Earliest
  <2>2. QED
    BY <2>1 DEF NoGapForgotten
<1>13. hub'.scheduled <=> \E i \in DOMAIN log' : log'[i].kind = "live"
  BY <1>1 DEF HistoryOK
<1>14. "repair" \notin LegacyKinds => SeamRepairs' = {}
  <2>1. \A i \in SeamRepairs' : i \in DOMAIN log'
    BY DEF SeamRepairs
  <2>2. QED
    BY <1>1, <1>2, <2>1 DEF HistoryOK
<1>15. QED
  BY <1>7, <1>8, <1>9, <1>10, <1>11, <1>12, <1>13, <1>14 DEF HistoryOK

HistInv == HistoryOK /\ RequestOK /\ InitialOK

\* A live, backward or first commit claims its interval next to the cursors; a
\* repair claims nothing.  The cursors stay ordered.
LEMMA MoveFacts ==
  ASSUME hub \in Progress, CursorsOK, NEW r \in Record, hub' \in Progress,
         ValidMove(hub, r, hub')
  PROVE  /\ CursorsOK'
         /\ r.kind # "repair" => /\ Interval(r) \cap Covered = {}
                                 /\ Covered' = Covered \cup Interval(r)
         /\ r.kind = "repair" => Covered' = Covered
<1>1. /\ hub.floor \in Int /\ hub.liveStart \in Int /\ hub.liveNext \in Int
      /\ hub.backEnd \in Int
      /\ hub'.floor \in Int /\ hub'.liveStart \in Int /\ hub'.liveNext \in Int
      /\ hub'.backEnd \in Int
      /\ r.start \in Int /\ r.end \in Int /\ First \in Int
  BY MinuteAssumption DEF Progress, Record
<1>2. r.start <= r.end /\ hub'.scheduled
  BY DEF ValidMove, WellFormed
<1>3. CASE hub.scheduled /\ r.kind = "live"
  BY <1>1, <1>2, <1>3 DEF ValidMove, CursorsOK, Covered, Interval
<1>4. CASE hub.scheduled /\ r.kind = "backfill"
  BY <1>1, <1>2, <1>4 DEF ValidMove, CursorsOK, Covered, Interval
<1>5. CASE hub.scheduled /\ r.kind = "repair"
  BY <1>1, <1>2, <1>5 DEF ValidMove, CursorsOK, Covered, Interval
<1>6. CASE ~hub.scheduled
  BY <1>1, <1>2, <1>6 DEF ValidMove, CursorsOK, Covered, Interval
<1>7. hub.scheduled => r.kind \in Lanes
  BY DEF ValidMove, Lanes
<1>8. QED
  BY <1>3, <1>4, <1>5, <1>6, <1>7 DEF Lanes

\* A commit that moves the head as publish may keeps the history in order.
LEMMA MoveKeepsHistory ==
  ASSUME TypeInv, HistoryOK, NEW r \in Record, hub' \in Progress,
         log' = Append(log, r), ValidMove(hub, r, hub'), now' = now
  PROVE  HistoryOK'
<1>1. hub \in Progress /\ log \in Seq(Record) /\ CursorsOK /\ WellFormed(r)
  BY DEF TypeInv, TypeOK, HistoryOK, ValidMove
<1>2. CASE r.kind # "repair"
  <2>1. /\ hub'.pending \subseteq Outstanding \cup r.missing
        /\ {m \in hub.pending \cup r.missing : m >= Earliest} \subseteq hub'.pending
    BY <1>2 DEF ValidMove, Requeued, HistoryOK
  <2>2. hub'.scheduled <=> hub.scheduled \/ r.kind = "live"
    BY <1>1 DEF ValidMove, Progress
  <2>3. QED
    BY <1>1, <1>2, <2>1, <2>2, MoveFacts, ClaimKeepsHistory
<1>3. CASE r.kind = "repair"
  <2>1. hub.scheduled /\ hub'.scheduled
    BY <1>3 DEF ValidMove
  <2>2. /\ hub'.pending \subseteq hub.pending \ {r.start}
        /\ {m \in hub.pending \ {r.start} : m >= Earliest} \subseteq hub'.pending
        /\ r.start = r.end /\ r.start \in hub.pending /\ r.missing = {}
    BY <1>3, <2>1 DEF ValidMove, Requeued
  <2>3. QED
    BY <1>1, <1>3, <2>1, <2>2, MoveFacts, RecoveryKeepsHistory
<1>4. QED
  BY <1>2, <1>3

\* The request publish sends moves the head as it may, if the head has not
\* changed when it arrives.
LEMMA SendMoves ==
  ASSUME TypeInv, InitialOK, NEW w \in Workers, Send(w)
  PROVE  ValidMove(hub, Working(w).ready, Advanced(Base(w), Working(w).ready, Protected(w)))
<1> DEFINE r == Working(w).ready
           b == Base(w)
           q == Advanced(b, r, Protected(w))
<1>1. pc[w] = "publish" /\ SeamValid(w, r) /\ Fits(b, r)
  BY DEF Send
<1>2. /\ r \in Record /\ r.kind \in Lanes /\ WellFormed(r)
      /\ b \in Progress /\ b.scheduled
      /\ b = hub \/ (~hub.scheduled /\ b = initial[w])
  BY <1>1, BaseFacts
<1>3. /\ q \in Progress /\ q.scheduled /\ q.floor = b.floor /\ q.liveStart = b.liveStart
      /\ q.liveNext = IF r.kind = "live" THEN r.end + 1 ELSE b.liveNext
      /\ q.backEnd = IF r.kind = "backfill" THEN r.start - 1 ELSE b.backEnd
      /\ q.pending = Queue(b.pending, r, Protected(w))
  BY <1>2, AdvancedFacts DEF TypeInv, TypeOK
<1>4. /\ q.pending \subseteq Requeued(b.pending, r)
      /\ {m \in Requeued(b.pending, r) : m >= Earliest} \subseteq q.pending
  BY <1>1, <1>3 DEF Queue, Fits, Requeued
<1> HIDE DEF r, b, q
<1>5. CASE hub.scheduled
  <2>1. b = hub
    BY <1>2, <1>5
  <2>2. QED
    BY <1>1, <1>2, <1>3, <1>4, <1>5, <2>1 DEF ValidMove, Fits, r, b, q
<1>6. CASE ~hub.scheduled
  <2>1. initial[w] # None /\ b = initial[w]
    BY <1>6 DEF TypeInv, ProcOK, Send, Base, b
  <2>2. hub.liveNext = b.floor /\ r.kind = "live"
    BY <1>1, <1>6, <2>1 DEF SeamValid
  <2>3. /\ b.liveStart >= b.floor /\ b.liveNext = b.liveStart
        /\ b.backEnd = b.liveStart - 1
        /\ hub.pending \subseteq b.pending /\ b.pending \subseteq Outstanding
    BY <1>6, <2>1, <2>2 DEF InitialOK
  <2>4. r.start = b.liveNext
    BY <1>1, <2>2 DEF Fits
  <2>5. /\ Requeued(b.pending, r) \subseteq Requeued(Outstanding, r)
        /\ Requeued(hub.pending, r) \subseteq Requeued(b.pending, r)
    BY <2>3 DEF Requeued
  <2>6. /\ q.pending \subseteq Requeued(Outstanding, r)
        /\ {m \in Requeued(hub.pending, r) : m >= Earliest} \subseteq q.pending
    BY <1>4, <2>5
  <2>7. QED
    BY <1>2, <1>3, <1>6, <2>2, <2>3, <2>4, <2>6 DEF ValidMove, r, b, q
<1>7. QED
  BY <1>5, <1>6

\* A step that leaves the Hub alone says nothing new of the history.
LEMMA SameHistory ==
  ASSUME TypeInv, HistoryOK, UNCHANGED <<hub, log>>, now' = now \/ now' = now + 1
  PROVE  HistoryOK' /\ Outstanding' = Outstanding
<1>1. /\ Gaps' = Gaps /\ Covered' = Covered /\ SeamRepairs' = SeamRepairs
      /\ Outstanding' = Outstanding
      /\ (RepeatsOnlySeamRepairs <=> RepeatsOnlySeamRepairs')
      /\ (CursorsOK <=> CursorsOK')
  BY DEF CursorsOK, Covered, Gaps, Published, SeamRepairs, Outstanding, RepeatsOnlySeamRepairs
<1>2. \A m \in Int : m >= Earliest' => m >= Earliest
  BY MinuteAssumption DEF Earliest, TypeInv, TypeOK
<1>3. \A m \in Gaps : m \in Int
  BY GapMember DEF HistoryOK, WellFormed
<1>4. NoGapForgotten'
  BY <1>1, <1>2, <1>3 DEF HistoryOK, NoGapForgotten
<1>5. QED
  BY <1>1, <1>4 DEF HistoryOK

\* A commit from a scheduled head, whoever sent it, keeps the invariant: older
\* requests have lost their parent.
LEMMA CommitKeepsHistInv ==
  ASSUME TypeInv, HistInv, NEW q \in Request, Commit(q), sent' = sent, initial' = initial,
         now' = now, hub' \in Progress, ValidMove(hub, q.rec, q.progress)
  PROVE  HistInv'
<1>1. q.rec \in Record /\ hub' = q.progress /\ log' = Append(log, q.rec) /\ late' = {}
  BY DEF Request, Commit
<1>2. HistoryOK'
  BY <1>1, MoveKeepsHistory DEF HistInv
<1>3. Len(log) \in Nat /\ Len(log') = Len(log) + 1
  BY <1>1, AppendFacts DEF TypeInv, TypeOK
<1>4. \A w \in Workers : sent[w] # None => sent[w].parent \in Nat /\ sent[w].parent <= Len(log)
  BY WorkerTypes DEF HistInv, RequestOK, Request
<1>5. RequestOK'
  BY <1>1, <1>3, <1>4 DEF RequestOK
<1>6. hub'.scheduled
  BY <1>1 DEF ValidMove
<1>7. InitialOK'
  BY <1>6 DEF HistInv, InitialOK
<1>8. QED
  BY <1>2, <1>5, <1>7 DEF HistInv

\* A step that leaves the Hub and the frozen seams alone.
LEMMA QuietKeepsHistInv ==
  ASSUME TypeInv, HistInv, UNCHANGED <<hub, log, initial>>, now' = now \/ now' = now + 1,
         late' \subseteq late \cup {sent[w] : w \in {v \in Workers : sent[v] # None}},
         \A w \in Workers : sent'[w] # None => sent'[w] = sent[w]
  PROVE  HistInv'
<1>0. \A m \in Int : m >= Earliest' => m >= Earliest
  BY MinuteAssumption DEF Earliest, TypeInv, TypeOK
<1>1. HistoryOK' /\ Outstanding' = Outstanding
  BY SameHistory DEF HistInv
<1>2. InitialOK'
  BY <1>1 DEF HistInv, InitialOK
<1>3. \A w \in Workers : sent'[w] # None =>
        /\ sent'[w].parent <= Len(log)
        /\ sent'[w].parent = Len(log) => ValidMove(hub, sent'[w].rec, sent'[w].progress)
  BY DEF HistInv, RequestOK
<1>4. \A q \in late' :
        /\ q.parent <= Len(log)
        /\ q.parent = Len(log) => ValidMove(hub, q.rec, q.progress)
  BY DEF HistInv, RequestOK
<1>5. ASSUME NEW r, NEW q, ValidMove(hub, r, q) PROVE ValidMove(hub, r, q)'
  <2>1. \A m \in Requeued(hub.pending, r) : m \in Int
    <3>1. hub.pending \subseteq Int
      BY DEF TypeInv, TypeOK, Progress
    <3>2. \A m \in r.missing : m \in Int
      BY <1>5 DEF ValidMove, WellFormed
    <3>3. QED
      BY <3>1, <3>2 DEF Requeued
  <2>2. {m \in Requeued(hub.pending, r) : m >= Earliest'} \subseteq q.pending
    BY <1>0, <1>5, <2>1 DEF ValidMove
  <2>3. QED
    BY <1>1, <1>5, <2>2 DEF ValidMove
<1>6. RequestOK'
  BY <1>3, <1>4, <1>5 DEF RequestOK
<1>7. QED
  BY <1>1, <1>2, <1>6 DEF HistInv

LEMMA RefreshHistory ==
  ASSUME TypeInv, HistInv, NEW w \in Workers, Refresh(w) PROVE HistInv'
<1>0. UNCHANGED <<hub, log, late, sent, now>>
      /\ initial' = IF hub.scheduled \/ initial[w] # None THEN initial
                    ELSE [initial EXCEPT ![w] = Bootstrap(hub)]
  BY DEF Refresh, hubVars
<1>1. CASE initial' = initial
  BY <1>0, <1>1, QuietKeepsHistInv
<1>2. CASE ~hub.scheduled /\ initial' = [initial EXCEPT ![w] = Bootstrap(hub)]
  <2>1. HistoryOK' /\ Outstanding' = Outstanding
    BY <1>0, SameHistory DEF HistInv
  <2>2. RequestOK'
    BY <1>0, <2>1 DEF HistInv, RequestOK, ValidMove, Earliest
  <2>3. /\ hub.liveNext >= First /\ hub.liveNext \in Int
        /\ hub \in Progress /\ now \in Int
    BY <1>2 DEF HistInv, HistoryOK, CursorsOK, TypeInv, TypeOK, Progress
  <2> DEFINE b == Bootstrap(hub)
  <2>4. /\ b.floor = hub.liveNext /\ b.liveStart >= b.floor /\ b.liveNext = b.liveStart
        /\ b.backEnd = b.liveStart - 1 /\ b.pending = hub.pending
    BY <2>3, BootstrapFacts
  <2> HIDE DEF b
  <2>5. \A v \in Workers : initial'[v] = IF v = w THEN b ELSE initial[v]
    BY <1>2 DEF b, TypeInv, TypeOK
  <2>6. InitialOK'
    BY <1>0, <2>1, <2>3, <2>4, <2>5 DEF HistInv, HistoryOK, InitialOK
  <2>7. QED
    BY <2>1, <2>2, <2>6 DEF HistInv
<1>3. QED
  BY <1>0, <1>1, <1>2

LEMMA SendHistory ==
  ASSUME TypeInv, HistInv, NEW w \in Workers, Send(w) PROVE HistInv'
<1> DEFINE q == [parent |-> Len(log), rec |-> Working(w).ready,
                 progress |-> Advanced(Base(w), Working(w).ready, Protected(w))]
<1>0. UNCHANGED <<hub, log, late, initial, now>> /\ sent' = [sent EXCEPT ![w] = q]
  BY DEF Send, hubVars, diskVars
<1>1. HistoryOK' /\ Outstanding' = Outstanding
  BY <1>0, SameHistory DEF HistInv
<1>2. InitialOK'
  BY <1>0, <1>1 DEF HistInv, InitialOK
<1>3. ValidMove(hub, q.rec, q.progress) /\ q.parent = Len(log)
  BY SendMoves DEF HistInv
<1>4. Len(log) \in Nat
  BY DEF TypeInv, TypeOK
<1> HIDE DEF q
<1>5. \A v \in Workers : sent'[v] = IF v = w THEN q ELSE sent[v]
  BY <1>0 DEF TypeInv, TypeOK
<1>6. RequestOK'
  BY <1>0, <1>1, <1>3, <1>4, <1>5 DEF HistInv, RequestOK, ValidMove, Earliest
<1>7. QED
  BY <1>1, <1>2, <1>6 DEF HistInv

LEMMA LandHistory ==
  ASSUME TypeInv, HistInv, NEW w \in Workers, Land(w) PROVE HistInv'
<1>0. /\ pc[w] = "commit" /\ sent[w].parent = Len(log) /\ Commit(sent[w])
      /\ UNCHANGED <<disk, initial, sent, now>>
  BY DEF Land, Accepts, diskVars
<1>1. sent[w] # None /\ sent[w] \in Request
  BY <1>0, WorkerTypes DEF TypeInv, ProcOK
<1>2. ValidMove(hub, sent[w].rec, sent[w].progress)
  BY <1>0, <1>1 DEF HistInv, RequestOK
<1>3. hub' \in Progress
  BY LandTypes DEF TypeInv, TypeOK
<1>4. QED
  BY <1>0, <1>1, <1>2, <1>3, CommitKeepsHistInv

LEMMA LandLateHistory ==
  ASSUME TypeInv, HistInv, LandLate PROVE HistInv'
<1>0. PICK q \in late : q.parent = Len(log) /\ Commit(q)
  BY DEF LandLate, Accepts
<1>1. q \in Request /\ ValidMove(hub, q.rec, q.progress)
  BY <1>0 DEF TypeInv, TypeOK, HistInv, RequestOK
<1>2. hub' \in Progress
  BY LandLateTypes DEF TypeInv, TypeOK
<1>3. UNCHANGED <<sent, initial, now>>
  BY DEF LandLate, diskVars, procVars
<1>4. QED
  BY <1>0, <1>1, <1>2, <1>3, CommitKeepsHistInv

\* A chronological commit claims the minutes after the prefix.
LEMMA LegacyForwardFacts ==
  ASSUME TypeInv, HistInv, LegacyForward
  PROVE  \E r \in Record :
           /\ WellFormed(r) /\ r.kind = "forward" /\ r.start = hub.liveNext
           /\ log' = Append(log, r)
           /\ ~hub.scheduled /\ ~hub'.scheduled /\ late' = {}
           /\ hub'.floor = r.end + 1 /\ hub'.liveStart = r.end + 1
           /\ hub'.liveNext = r.end + 1 /\ hub'.backEnd = r.end
           /\ hub'.pending \subseteq hub.pending \cup r.missing
           /\ {m \in hub.pending \cup r.missing : m >= Earliest} \subseteq hub'.pending
<1>0. hub.liveNext \in Int
  BY DEF TypeInv, TypeOK, Progress
<1>1. PICK e \in hub.liveNext .. Cutoff :
        \E missing \in SUBSET ((hub.liveNext .. e) \ served) :
          Commit([rec |-> [kind |-> "forward", start |-> hub.liveNext, end |-> e,
                           missing |-> missing],
                  progress |-> Legacy(e + 1,
                    {m \in hub.pending \cup missing : m >= Earliest})])
  BY DEF LegacyForward
<1>2. PICK missing \in SUBSET ((hub.liveNext .. e) \ served) :
          Commit([rec |-> [kind |-> "forward", start |-> hub.liveNext, end |-> e,
                           missing |-> missing],
                  progress |-> Legacy(e + 1,
                    {m \in hub.pending \cup missing : m >= Earliest})])
  BY <1>1
<1> DEFINE r == [kind |-> "forward", start |-> hub.liveNext, end |-> e, missing |-> missing]
           p == Legacy(e + 1, {m \in hub.pending \cup missing : m >= Earliest})
<1>3. log' = Append(log, r) /\ hub' = p /\ late' = {}
  BY <1>2 DEF Commit
<1>4. e \in Int /\ hub.liveNext <= e
  BY <1>0
<1>5. r \in Record /\ WellFormed(r)
  BY <1>0, <1>4 DEF Record, WellFormed
<1>6. /\ ~p.scheduled /\ p.floor = e + 1 /\ p.liveStart = e + 1 /\ p.liveNext = e + 1
      /\ p.backEnd = e /\ p.pending \subseteq hub.pending \cup missing
      /\ {m \in hub.pending \cup missing : m >= Earliest} \subseteq p.pending
  BY <1>4 DEF Legacy
<1>7. ~hub.scheduled
  BY DEF LegacyForward
<1>8. QED
  BY <1>3, <1>4, <1>5, <1>6, <1>7

LEMMA LegacyForwardHistory ==
  ASSUME TypeInv, HistInv, LegacyForward PROVE HistInv'
<1>1. PICK r \in Record :
           /\ WellFormed(r) /\ r.kind = "forward" /\ r.start = hub.liveNext
           /\ log' = Append(log, r)
           /\ ~hub.scheduled /\ ~hub'.scheduled /\ late' = {}
           /\ hub'.floor = r.end + 1 /\ hub'.liveStart = r.end + 1
           /\ hub'.liveNext = r.end + 1 /\ hub'.backEnd = r.end
           /\ hub'.pending \subseteq hub.pending \cup r.missing
           /\ {m \in hub.pending \cup r.missing : m >= Earliest} \subseteq hub'.pending
  BY LegacyForwardFacts
<1>2. /\ log \in Seq(Record) /\ r.start \in Int /\ r.end \in Int /\ r.start <= r.end
      /\ hub.floor \in Int /\ First \in Int /\ hub.liveNext \in Int
  BY <1>1, MinuteAssumption DEF TypeInv, TypeOK, Progress, Record, WellFormed
<1>3. First <= hub.floor /\ hub.liveNext = hub.floor /\ hub.backEnd = hub.floor - 1
  BY <1>1 DEF HistInv, HistoryOK, CursorsOK
<1>4. CursorsOK'
  BY <1>1, <1>2, <1>3 DEF CursorsOK
<1>5. Interval(r) \cap Covered = {} /\ Covered' = Covered \cup Interval(r)
  BY <1>1, <1>2, <1>3 DEF Covered, Interval
<1>6. HistoryOK'
  <2>1. hub'.pending \subseteq Outstanding \cup r.missing
    BY <1>1 DEF HistInv, HistoryOK
  <2>2. QED
    BY <1>1, <1>2, <1>4, <1>5, <2>1, ClaimKeepsHistory DEF HistInv, LegacyForward
<1>7. Len(log) \in Nat /\ Len(log') = Len(log) + 1
  BY <1>1, <1>2, AppendFacts
<1>8. sent' = sent /\ initial' = initial
  BY DEF LegacyForward, diskVars, procVars
<1>9. \A w \in Workers : sent[w] # None => sent[w].parent \in Nat /\ sent[w].parent <= Len(log)
  BY WorkerTypes DEF HistInv, RequestOK, Request
<1>10. RequestOK'
  BY <1>1, <1>7, <1>8, <1>9 DEF RequestOK
<1>11. \A w \in Workers : initial[w] # None => initial[w].floor \in Int
  BY WorkerTypes DEF Progress
<1>12. InitialOK'
  BY <1>1, <1>2, <1>8, <1>11 DEF HistInv, InitialOK
<1>13. QED
  BY <1>6, <1>10, <1>12 DEF HistInv

\* A chronological repair takes a minute from the queue and moves no cursor.
LEMMA LegacyRepairFacts ==
  ASSUME TypeInv, LegacyRepair
  PROVE  \E r \in Record :
           /\ r.kind = "repair" /\ r.start = r.end /\ r.start \in hub.pending /\ r.missing = {}
           /\ log' = Append(log, r)
           /\ "repair" \in LegacyKinds
           /\ ~hub.scheduled /\ ~hub'.scheduled /\ late' = {}
           /\ hub'.floor = hub.liveNext /\ hub'.liveStart = hub.liveNext
           /\ hub'.liveNext = hub.liveNext /\ hub'.backEnd = hub.liveNext - 1
           /\ hub'.pending = {x \in hub.pending \ {r.start} : x >= Earliest}
           /\ UNCHANGED <<sent, initial, now>>
<1>1. PICK m \in hub.pending :
        Commit([rec |-> [kind |-> "repair", start |-> m, end |-> m, missing |-> {}],
                progress |-> Legacy(hub.liveNext, {x \in hub.pending \ {m} : x >= Earliest})])
  BY DEF LegacyRepair
<1> DEFINE r == [kind |-> "repair", start |-> m, end |-> m, missing |-> {}]
           p == Legacy(hub.liveNext, {x \in hub.pending \ {m} : x >= Earliest})
<1>2. log' = Append(log, r) /\ hub' = p /\ late' = {}
  BY <1>1 DEF Commit
<1>3. m \in Int
  BY DEF TypeInv, TypeOK, Progress
<1>4. r \in Record
  BY <1>3 DEF Record, Lanes
<1>5. /\ ~p.scheduled /\ p.floor = hub.liveNext /\ p.liveStart = hub.liveNext
      /\ p.liveNext = hub.liveNext /\ p.backEnd = hub.liveNext - 1
      /\ p.pending = {x \in hub.pending \ {r.start} : x >= Earliest}
  BY DEF Legacy
<1>6. "repair" \in LegacyKinds /\ ~hub.scheduled /\ UNCHANGED <<sent, initial, now>>
  BY DEF LegacyRepair, diskVars, procVars
<1>7. QED
  BY <1>2, <1>4, <1>5, <1>6

LEMMA LegacyRepairHistory ==
  ASSUME TypeInv, HistInv, LegacyRepair PROVE HistInv'
<1>1. PICK r \in Record :
           /\ r.kind = "repair" /\ r.start = r.end /\ r.start \in hub.pending /\ r.missing = {}
           /\ log' = Append(log, r)
           /\ "repair" \in LegacyKinds
           /\ ~hub.scheduled /\ ~hub'.scheduled /\ late' = {}
           /\ hub'.floor = hub.liveNext /\ hub'.liveStart = hub.liveNext
           /\ hub'.liveNext = hub.liveNext /\ hub'.backEnd = hub.liveNext - 1
           /\ hub'.pending = {x \in hub.pending \ {r.start} : x >= Earliest}
           /\ UNCHANGED <<sent, initial, now>>
  BY LegacyRepairFacts
<1>2. log \in Seq(Record) /\ hub.liveNext \in Int /\ Len(log) \in Nat
  BY DEF TypeInv, TypeOK, Progress
<1>3. First <= hub.floor /\ hub.liveNext = hub.floor /\ hub.backEnd = hub.floor - 1
  BY <1>1 DEF HistInv, HistoryOK, CursorsOK
<1>4. CursorsOK' /\ Covered' = Covered
  BY <1>1, <1>2, <1>3 DEF CursorsOK, Covered
<1>5. HistoryOK' /\ Outstanding \subseteq Outstanding'
  <2>1. /\ hub'.pending \subseteq hub.pending \ {r.start}
        /\ {x \in hub.pending \ {r.start} : x >= Earliest} \subseteq hub'.pending
    BY <1>1
  <2>2. QED
    BY <1>1, <1>2, <1>4, <2>1, RecoveryKeepsHistory DEF HistInv
<1>6. Len(log') = Len(log) + 1
  BY <1>1, <1>2, AppendFacts
<1>7. \A w \in Workers : sent[w] # None => sent[w].parent \in Nat /\ sent[w].parent <= Len(log)
  BY WorkerTypes DEF HistInv, RequestOK, Request
<1>8. RequestOK'
  BY <1>1, <1>2, <1>6, <1>7 DEF RequestOK
<1>9. hub'.pending \subseteq hub.pending
  BY <1>1
<1>10. InitialOK'
  BY <1>1, <1>5, <1>9 DEF HistInv, InitialOK
<1>11. QED
  BY <1>5, <1>8, <1>10 DEF HistInv

\* The steps of one worker that neither read the Hub into a request nor commit.
LEMMA WorkerQuiet ==
  ASSUME TypeInv, NEW w \in Workers,
         \/ \E l \in Lanes : Choose(w, l)
         \/ Collect(w) \/ Reuse(w) \/ FindAcknowledged(w) \/ Confirm(w)
         \/ Clean(w) \/ Raise(w)
  PROVE  /\ UNCHANGED <<hub, log, late, initial, now>>
         /\ \A v \in Workers : sent'[v] # None => sent'[v] = sent[v]
<1>1. sent \in [Workers -> Request \cup {None}]
  BY DEF TypeInv, TypeOK
<1>2. UNCHANGED <<hub, log, late, initial, now>>
  BY DEF Choose, Collect, Reuse, FindAcknowledged, Confirm, Clean, Raise, hubVars, diskVars
<1>3. sent' = sent \/ sent' = [sent EXCEPT ![w] = None]
  <2>1. CASE \E l \in Lanes : Choose(w, l)
    BY <2>1 DEF Choose
  <2>2. CASE Collect(w)
    BY <2>2 DEF Collect, Judge, Abandon
  <2>3. CASE Reuse(w)
    BY <2>3 DEF Reuse, Judge, Abandon
  <2>4. CASE FindAcknowledged(w) \/ Confirm(w) \/ Clean(w)
    BY <2>4 DEF FindAcknowledged, Confirm, Clean
  <2>5. CASE Raise(w)
    BY <2>5 DEF Raise, Abandon
  <2>6. QED
    BY <2>1, <2>2, <2>3, <2>4, <2>5
<1>4. QED
  BY <1>1, <1>2, <1>3

\* A failure may leave the request of a waiting worker on the wire.
LEMMA FaultQuiet ==
  ASSUME TypeInv, NEW w \in Workers, Fail(w) \/ Crash(w)
  PROVE  /\ UNCHANGED <<hub, log, initial, now>>
         /\ late' \subseteq late \cup {sent[v] : v \in {u \in Workers : sent[u] # None}}
         /\ \A v \in Workers : sent'[v] # None => sent'[v] = sent[v]
<1>1. sent \in [Workers -> Request \cup {None}]
  BY DEF TypeInv, TypeOK
<1>2. UNCHANGED <<hub, log, initial, now>> /\ sent' = [sent EXCEPT ![w] = None] /\ MayLinger(w)
  BY DEF Fail, Crash, Abandon, diskVars
<1>3. late' = late \/ (pc[w] = "commit" /\ late' = late \cup {sent[w]})
  BY <1>2 DEF MayLinger
<1>4. pc[w] = "commit" => sent[w] # None
  BY DEF TypeInv, ProcOK
<1>5. late' \subseteq late \cup {sent[v] : v \in {u \in Workers : sent[u] # None}}
  BY <1>3, <1>4
<1>6. \A v \in Workers : sent'[v] # None => sent'[v] = sent[v]
  BY <1>1, <1>2
<1>7. QED
  BY <1>2, <1>5, <1>6

LEMMA HistInit == Init => HistInv
<1> SUFFICES ASSUME Init PROVE HistInv
  OBVIOUS
<1>1. hub = Legacy(First, {}) /\ log = <<>> /\ late = {}
  BY DEF Init
<1>2. CursorsOK
  BY <1>1, MinuteAssumption DEF CursorsOK, Legacy
<1>3. Covered = {} /\ hub.pending = {} /\ DOMAIN log = {}
  BY <1>1, MinuteAssumption DEF Covered, Legacy
<1>4. HistoryOK
  <2>1. NoGapForgotten /\ RepeatsOnlySeamRepairs /\ SeamRepairs = {}
    BY <1>3 DEF NoGapForgotten, Gaps, RepeatsOnlySeamRepairs, SeamRepairs
  <2>2. ~hub.scheduled
    BY <1>1 DEF Legacy
  <2>3. QED
    BY <1>2, <1>3, <2>1, <2>2 DEF HistoryOK
<1>5. RequestOK /\ InitialOK
  BY DEF Init, RequestOK, InitialOK
<1>6. QED
  BY <1>4, <1>5 DEF HistInv

LEMMA HistStep ==
  ASSUME TypeInv, HistInv, [Next]_vars
  PROVE  HistInv'
<1>1. ASSUME NEW w \in Workers, Step(w) PROVE HistInv'
  BY <1>1, RefreshHistory, SendHistory, WorkerQuiet, QuietKeepsHistInv DEF Step
<1>2. ASSUME NEW w \in Workers, Land(w) \/ Fail(w) \/ Crash(w) PROVE HistInv'
  BY <1>2, LandHistory, FaultQuiet, QuietKeepsHistInv
<1>3. CASE LandLate
  BY <1>3, LandLateHistory
<1>4. CASE LegacyForward
  BY <1>4, LegacyForwardHistory
<1>5. CASE LegacyRepair
  BY <1>5, LegacyRepairHistory
<1>6. CASE Tick
  BY <1>6, QuietKeepsHistInv DEF Tick, hubVars, diskVars, procVars
<1>7. CASE UNCHANGED vars
  BY <1>7, QuietKeepsHistInv DEF vars
<1>8. QED
  BY <1>1, <1>2, <1>3, <1>4, <1>5, <1>6, <1>7 DEF Next

LEMMA HistoryCorrect == Spec => [](TypeInv /\ HistInv)
<1>1. Init => TypeInv /\ HistInv
  BY InitTypes, HistInit DEF TypeInv
<1>2. TypeInv /\ HistInv /\ [Next]_vars => TypeInv' /\ HistInv'
  BY TypeStep, HistStep
<1>3. QED
  BY <1>1, <1>2, PTL DEF Spec

\* The cursors claim exactly the minutes some commit covers
\* (CursorsMatchHistory): no hole, no overlap.
THEOREM CursorsMatchHistoryHolds == Spec => []CursorsMatchHistory
<1>1. HistInv => CursorsMatchHistory
  BY DEF HistInv, HistoryOK, CursorsMatchHistory
<1>2. QED
  BY <1>1, HistoryCorrect, PTL

\* The retry queue holds every gap young enough to be retried (NoGapForgotten),
\* across lanes, workers, late commits and the handover from the chronological
\* mode.
THEOREM NoGapForgottenHolds == Spec => []NoGapForgotten
<1>1. HistInv => NoGapForgotten
  BY DEF HistInv, HistoryOK
<1>2. QED
  BY <1>1, HistoryCorrect, PTL

\* Whatever publishers of either mode do, only what a chronological publisher
\* repairs after a seam was frozen is ever uploaded twice
\* (RepeatsOnlySeamRepairs).
THEOREM RepeatsOnlySeamRepairsHolds == Spec => []RepeatsOnlySeamRepairs
<1>1. HistInv => RepeatsOnlySeamRepairs
  BY DEF HistInv, HistoryOK
<1>2. QED
  BY <1>1, HistoryCorrect, PTL

\* No minute's articles are uploaded twice (NoMinuteTwice), by any number of
\* workers, whatever fails, unless a chronological publisher is still repairing
\* while a seam is frozen.
THEOREM NoMinuteTwiceHolds ==
  ASSUME "repair" \notin LegacyKinds PROVE Spec => []NoMinuteTwice
<1>1. HistInv => NoMinuteTwice
  BY DEF HistInv, HistoryOK, RepeatsOnlySeamRepairs, NoMinuteTwice
<1>2. QED
  BY <1>1, HistoryCorrect, PTL

\* The retry queue holds every gap young enough to retry and nothing that has
\* been published (GapsQueued).
THEOREM GapsQueuedHolds ==
  ASSUME "repair" \notin LegacyKinds PROVE Spec => []GapsQueued
<1>1. HistInv => GapsQueued
  BY OutstandingIsGaps DEF HistInv, HistoryOK, GapsQueued
<1>2. QED
  BY <1>1, HistoryCorrect, PTL

-----------------------------------------------------------------------------
(* Steps of the history.                                                   *)

\* A step leaves the head alone, moves it as publish may, or is a
\* chronological commit.
LEMMA HeadMoves ==
  ASSUME TypeInv, HistInv, [Next]_vars
  PROVE  \/ UNCHANGED <<hub, log>>
         \/ \E r \in Record : log' = Append(log, r) /\ ValidMove(hub, r, hub') /\ now' = now
         \/ LegacyForward \/ LegacyRepair
<1>1. ASSUME NEW w \in Workers, Step(w) PROVE UNCHANGED <<hub, log>>
  BY <1>1 DEF Step, Refresh, Choose, Collect, Reuse, FindAcknowledged, Send, Confirm, Clean,
     Raise, hubVars
<1>2. ASSUME NEW w \in Workers, Land(w)
      PROVE  \E r \in Record : log' = Append(log, r) /\ ValidMove(hub, r, hub') /\ now' = now
  <2>1. pc[w] = "commit" /\ sent[w].parent = Len(log) /\ Commit(sent[w]) /\ now' = now
    BY <1>2 DEF Land, Accepts
  <2>2. sent[w] # None /\ sent[w] \in Request
    BY <2>1, WorkerTypes DEF TypeInv, ProcOK
  <2>3. ValidMove(hub, sent[w].rec, sent[w].progress)
    BY <2>1, <2>2 DEF HistInv, RequestOK
  <2>4. sent[w].rec \in Record
    BY <2>2 DEF Request
  <2>5. QED
    BY <2>1, <2>3, <2>4 DEF Commit
<1>3. ASSUME NEW w \in Workers, Fail(w) \/ Crash(w) PROVE UNCHANGED <<hub, log>>
  BY <1>3 DEF Fail, Crash
<1>4. CASE LandLate
  <2>1. PICK q \in late : q.parent = Len(log) /\ Commit(q)
    BY <1>4 DEF LandLate, Accepts
  <2>2. ValidMove(hub, q.rec, q.progress) /\ q.rec \in Record
    BY <2>1 DEF HistInv, RequestOK, TypeInv, TypeOK, Request
  <2>3. now' = now
    BY <1>4 DEF LandLate
  <2>4. QED
    BY <2>1, <2>2, <2>3 DEF Commit
<1>5. CASE Tick \/ UNCHANGED vars
  BY <1>5 DEF Tick, hubVars, vars
<1>6. QED
  BY <1>1, <1>2, <1>3, <1>4, <1>5 DEF Next

LEMMA CursorStep ==
  ASSUME TypeInv, HistInv, [Next]_vars, hub.scheduled
  PROVE  /\ hub'.scheduled
         /\ hub'.floor = hub.floor /\ hub'.liveStart = hub.liveStart
         /\ hub'.liveNext >= hub.liveNext /\ hub'.backEnd <= hub.backEnd
         /\ hub'.liveNext = hub.liveNext \/ hub'.backEnd = hub.backEnd
<1>1. hub.liveNext \in Int /\ hub.backEnd \in Int
  BY DEF TypeInv, TypeOK, Progress
<1>2. CASE UNCHANGED <<hub, log>>
  BY <1>1, <1>2
<1>3. ASSUME NEW r \in Record, ValidMove(hub, r, hub')
      PROVE  /\ hub'.scheduled
             /\ hub'.floor = hub.floor /\ hub'.liveStart = hub.liveStart
             /\ hub'.liveNext >= hub.liveNext /\ hub'.backEnd <= hub.backEnd
             /\ hub'.liveNext = hub.liveNext \/ hub'.backEnd = hub.backEnd
  BY <1>1, <1>3 DEF ValidMove, WellFormed, Record
<1>4. ~LegacyForward /\ ~LegacyRepair
  BY DEF LegacyForward, LegacyRepair
<1>5. QED
  BY <1>2, <1>3, <1>4, HeadMoves

\* The cursors never move back, one commit moves one of them, and the seam stays
\* where the first live commit put it (CursorsMonotone).
THEOREM CursorsMonotoneHolds == Spec => CursorsMonotone
<1>1. TypeInv /\ HistInv /\ [Next]_vars =>
        [hub.scheduled =>
           /\ hub'.scheduled
           /\ hub'.floor = hub.floor /\ hub'.liveStart = hub.liveStart
           /\ hub'.liveNext >= hub.liveNext /\ hub'.backEnd <= hub.backEnd
           /\ hub'.liveNext = hub.liveNext \/ hub'.backEnd = hub.backEnd]_hub
  BY CursorStep
<1>2. QED
  BY <1>1, HistoryCorrect, PTL DEF Spec, CursorsMonotone

-----------------------------------------------------------------------------
(* The history implements Coverage.                                        *)

\* What the history publishes and what it leaves open is what the cursors claim.
LEMMA ClaimedIsCovered ==
  /\ HistoryOK => Published \cup Gaps = Covered
  /\ HistoryOK' => Published' \cup Gaps' = Covered'
<1>1. ASSUME HistoryOK PROVE Published \cup Gaps = Covered
  <2>1. \A m \in Covered : m \in Published \/ \E i \in DOMAIN log : m \in log[i].missing
    BY <1>1 DEF HistoryOK, Published, Complete, Interval
  <2>2. \A m \in Covered : m \in Published \/ m \in Gaps
    BY <2>1, GapMember DEF Published
  <2>3. \A m \in Published : m \in Covered
    BY <1>1 DEF HistoryOK, Published, Complete, Interval
  <2>4. \A m \in Gaps : m \in Covered
    BY <1>1, GapMember DEF HistoryOK, WellFormed, Interval
  <2>5. QED
    BY <2>2, <2>3, <2>4
<1>2. ASSUME HistoryOK' PROVE Published' \cup Gaps' = Covered'
  <2>1. \A m \in Covered' : m \in Published' \/ \E i \in DOMAIN log' : m \in log'[i].missing
    BY <1>2 DEF HistoryOK, Published, Complete, Interval
  <2>2. \A m \in Covered' : m \in Published' \/ m \in Gaps'
    BY <2>1, GapMember DEF Published
  <2>3. \A m \in Published' : m \in Covered'
    BY <1>2 DEF HistoryOK, Published, Complete, Interval
  <2>4. \A m \in Gaps' : m \in Covered'
    BY <1>2, GapMember DEF HistoryOK, WellFormed, Interval
  <2>5. QED
    BY <2>2, <2>3, <2>4
<1>3. QED
  BY <1>1, <1>2

\* A commit that claims unclaimed minutes is a Claim of Coverage.
LEMMA ClaimImplements ==
  ASSUME log \in Seq(Record), HistoryOK, HistoryOK', NEW r \in Record, log' = Append(log, r),
         WellFormed(r), Interval(r) \cap Covered = {}, Covered' = Covered \cup Interval(r)
  PROVE  AbstractCoverage!Claim(r.start, r.end)
<1>1. /\ DOMAIN log' = DOMAIN log \cup {Len(log) + 1}
      /\ \A i \in DOMAIN log : log'[i] = log[i]
      /\ log'[Len(log) + 1] = r
  BY AppendFacts
<1>2. Published \cup Gaps = Covered /\ Published' \cup Gaps' = Covered'
  BY ClaimedIsCovered
<1>3. Published \subseteq Published'
  BY <1>1 DEF Published
<1>4. \A m \in Gaps : m \in Gaps'
  <2>1. SUFFICES ASSUME NEW m \in Gaps PROVE m \in Gaps'
    OBVIOUS
  <2>2. \E i \in DOMAIN log : m \in log[i].missing
    BY GapMember
  <2>3. \A j \in DOMAIN log : m \notin Complete(log[j])
    BY GapMember
  <2>4. m \notin Complete(r)
    BY <1>2 DEF Complete, Interval
  <2>5. \E i \in DOMAIN log' : m \in log'[i].missing
    BY <1>1, <2>2
  <2>6. \A j \in DOMAIN log' : m \notin Complete(log'[j])
    BY <1>1, <2>3, <2>4
  <2>7. QED
    BY <2>5, <2>6, GapMember
<1>5. Published' \cap Gaps' = {}
  BY DEF Gaps
<1>6. QED
  BY <1>2, <1>3, <1>4, <1>5 DEF AbstractCoverage!Claim, Interval, WellFormed

\* A repair is a Recover of Coverage.
LEMMA RecoveryImplements ==
  ASSUME "repair" \notin LegacyKinds, log \in Seq(Record), HistoryOK, HistoryOK', NEW r \in Record, log' = Append(log, r),
         r.start = r.end, r.start \in hub.pending, r.missing = {}, Covered' = Covered
  PROVE  \E m \in Gaps : Published' = Published \cup {m} /\ Gaps' = Gaps \ {m}
<1>1. /\ DOMAIN log' = DOMAIN log \cup {Len(log) + 1}
      /\ \A i \in DOMAIN log : log'[i] = log[i]
      /\ log'[Len(log) + 1] = r
  BY AppendFacts
<1>2. Complete(r) = {r.start}
  BY DEF Complete, Record
<1>3. Published' = Published \cup {r.start}
  BY <1>1, <1>2 DEF Published
<1>4. Published \cup Gaps = Covered /\ Published' \cup Gaps' = Covered'
  BY ClaimedIsCovered
<1>5. Published \cap Gaps = {} /\ Published' \cap Gaps' = {}
  BY DEF Gaps
<1>6. r.start \in Gaps
  BY OutstandingIsGaps DEF HistoryOK
<1>7. Gaps' = Gaps \ {r.start}
  BY <1>3, <1>4, <1>5, <1>6
<1>8. QED
  BY <1>3, <1>6, <1>7

LEMMA InitImplements == Init => AbstractCoverage!Init
<1> SUFFICES ASSUME Init PROVE AbstractCoverage!Init
  OBVIOUS
<1>1. hub = Legacy(First, {}) /\ DOMAIN log = {}
  BY DEF Init
<1>2. Published = {} /\ Gaps = {}
  BY <1>1 DEF Published, Gaps
<1>3. QED
  BY <1>1, <1>2 DEF Legacy, AbstractCoverage!Init

\* A commit that moves the head as publish may is a step of Coverage.
LEMMA MoveImplements ==
  ASSUME "repair" \notin LegacyKinds, TypeInv, HistInv, TypeInv', HistInv', NEW r \in Record, log' = Append(log, r),
         ValidMove(hub, r, hub')
  PROVE  AbstractCoverage!Next
<1>1. /\ hub \in Progress /\ hub' \in Progress /\ log \in Seq(Record)
      /\ HistoryOK /\ HistoryOK' /\ CursorsOK /\ WellFormed(r) /\ hub'.scheduled
  BY DEF TypeInv, TypeOK, HistInv, HistoryOK, ValidMove
<1>2. /\ hub.floor \in Int /\ hub.liveNext \in Int /\ hub.backEnd \in Int
      /\ hub'.liveNext \in Int /\ hub'.backEnd \in Int /\ hub'.liveStart \in Int
      /\ hub'.floor \in Int /\ r.start \in Int /\ r.end \in Int
      /\ hub.scheduled \in BOOLEAN /\ hub'.scheduled \in BOOLEAN
  BY <1>1 DEF Progress, Record
<1>3. r.kind # "repair" => AbstractCoverage!Claim(r.start, r.end)
  BY <1>1, MoveFacts, ClaimImplements
<1>4. CASE hub.scheduled /\ r.kind = "live"
  <2>1. /\ r.start = hub.liveNext /\ r.end = hub'.liveNext - 1
        /\ UNCHANGED <<hub.scheduled, hub.floor, hub.backEnd>>
    BY <1>1, <1>2, <1>4 DEF ValidMove
  <2>2. AbstractCoverage!Live
    BY <1>3, <1>4, <2>1 DEF AbstractCoverage!Live
  <2>3. QED
    BY <2>2 DEF AbstractCoverage!Next
<1>5. CASE hub.scheduled /\ r.kind = "backfill"
  <2>1. /\ r.start = hub'.backEnd + 1 /\ r.end = hub.backEnd /\ hub'.backEnd >= hub.floor - 1
        /\ UNCHANGED <<hub.scheduled, hub.floor, hub.liveNext>>
    BY <1>1, <1>2, <1>5 DEF ValidMove
  <2>2. AbstractCoverage!Backward
    BY <1>3, <1>5, <2>1 DEF AbstractCoverage!Backward
  <2>3. QED
    BY <2>2 DEF AbstractCoverage!Next
<1>6. CASE hub.scheduled /\ r.kind = "repair"
  <2>1. /\ r.start = r.end /\ r.start \in hub.pending /\ r.missing = {}
        /\ UNCHANGED <<hub.scheduled, hub.floor, hub.backEnd, hub.liveNext>>
    BY <1>1, <1>2, <1>6 DEF ValidMove
  <2>2. Covered' = Covered
    BY <1>1, <1>6, MoveFacts
  <2>3. \E m \in Gaps : Published' = Published \cup {m} /\ Gaps' = Gaps \ {m}
    BY <1>1, <2>1, <2>2, RecoveryImplements
  <2>4. AbstractCoverage!Recover
    BY <2>1, <2>3 DEF AbstractCoverage!Recover
  <2>5. QED
    BY <2>4 DEF AbstractCoverage!Next
<1>7. CASE ~hub.scheduled
  <2>1. r.kind = "live" /\ r.start = hub'.liveStart /\ hub'.liveNext = r.end + 1
        /\ hub'.floor = hub.liveNext /\ hub'.liveStart >= hub'.floor
        /\ hub'.backEnd = hub'.liveStart - 1
    BY <1>7 DEF ValidMove
  <2>2. hub.liveNext = hub.floor
    BY <1>1, <1>7 DEF CursorsOK
  <2>3. /\ r.start = hub'.backEnd + 1 /\ r.end = hub'.liveNext - 1
        /\ hub'.backEnd >= hub.floor - 1 /\ hub'.floor = hub.floor
    BY <1>2, <2>1, <2>2
  <2>4. AbstractCoverage!Open
    BY <1>1, <1>3, <1>7, <2>1, <2>3 DEF AbstractCoverage!Open
  <2>5. QED
    BY <2>4 DEF AbstractCoverage!Next
<1>8. r.kind \in Lanes \/ ~hub.scheduled
  BY DEF ValidMove, Lanes
<1>9. QED
  BY <1>4, <1>5, <1>6, <1>7, <1>8 DEF Lanes

\* A chronological commit extends the prefix.
LEMMA LegacyForwardImplements ==
  ASSUME TypeInv, HistInv, HistInv', LegacyForward
  PROVE  AbstractCoverage!Next
<1>1. PICK r \in Record :
           /\ WellFormed(r) /\ r.kind = "forward" /\ r.start = hub.liveNext
           /\ log' = Append(log, r)
           /\ ~hub.scheduled /\ ~hub'.scheduled /\ late' = {}
           /\ hub'.floor = r.end + 1 /\ hub'.liveStart = r.end + 1
           /\ hub'.liveNext = r.end + 1 /\ hub'.backEnd = r.end
           /\ hub'.pending \subseteq hub.pending \cup r.missing
           /\ {m \in hub.pending \cup r.missing : m >= Earliest} \subseteq hub'.pending
  BY LegacyForwardFacts
<1>2. /\ log \in Seq(Record) /\ r.start \in Int /\ r.end \in Int /\ r.start <= r.end
      /\ hub.floor \in Int /\ First \in Int /\ hub.liveNext \in Int /\ hub.scheduled \in BOOLEAN
  BY <1>1, MinuteAssumption DEF TypeInv, TypeOK, Progress, Record, WellFormed
<1>3. First <= hub.floor /\ hub.liveNext = hub.floor /\ hub.backEnd = hub.floor - 1
  BY <1>1 DEF HistInv, HistoryOK, CursorsOK
<1>4. Interval(r) \cap Covered = {} /\ Covered' = Covered \cup Interval(r)
  BY <1>1, <1>2, <1>3 DEF Covered, Interval
<1>5. AbstractCoverage!Claim(r.start, r.end)
  BY <1>1, <1>2, <1>4, ClaimImplements DEF HistInv
<1>6. hub'.scheduled = hub.scheduled
  <2>1. ~hub'.scheduled /\ hub'.scheduled \in BOOLEAN
    BY <1>1, LegacyForwardTypes DEF TypeInv, TypeOK, Progress
  <2>2. QED
    BY <1>1, <1>2, <2>1
<1>7. r.start = hub.floor /\ r.end = hub'.floor - 1 /\ hub'.backEnd = hub'.floor - 1
      /\ hub'.liveNext = hub'.floor
  BY <1>1, <1>2, <1>3
<1>8. AbstractCoverage!Extend
  BY <1>1, <1>5, <1>6, <1>7 DEF AbstractCoverage!Extend
<1>9. QED
  BY <1>8 DEF AbstractCoverage!Next

\* The publisher implements Coverage (ImplementsCoverage): whatever the lanes,
\* workers, crashes and late commits do, every commit claims the minutes next to
\* what one side has claimed, or recovers one gap.
THEOREM CoverageImplemented ==
  ASSUME "repair" \notin LegacyKinds PROVE Spec => ImplementsCoverage
<1>1. Init => AbstractCoverage!Init
  BY InitImplements
<1>2. TypeInv /\ HistInv /\ TypeInv' /\ HistInv' /\ [Next]_vars =>
        [AbstractCoverage!Next]_AbstractCoverage!vars
  <2> SUFFICES ASSUME TypeInv, HistInv, TypeInv', HistInv', [Next]_vars
               PROVE  [AbstractCoverage!Next]_AbstractCoverage!vars
    OBVIOUS
  <2>1. CASE UNCHANGED <<hub, log>>
    BY <2>1 DEF AbstractCoverage!vars, Published, Gaps
  <2>2. ASSUME NEW r \in Record, log' = Append(log, r), ValidMove(hub, r, hub')
        PROVE  AbstractCoverage!Next
    BY <2>2, MoveImplements
  <2>3. CASE LegacyForward
    BY <2>3, LegacyForwardImplements
  <2>4. ~LegacyRepair
    BY DEF LegacyRepair
  <2>5. QED
    BY <2>1, <2>2, <2>3, <2>4, HeadMoves
<1>3. QED
  BY <1>1, <1>2, HistoryCorrect, PTL DEF Spec, ImplementsCoverage, AbstractCoverage!Spec

-----------------------------------------------------------------------------
(* What is removed from a disk.                                            *)

InLog(r) == \E i \in DOMAIN log : log[i] = r

\* Every acknowledgement a request publishes is in the history it extends, or is
\* its own.
AckedBy(q) ==
  \A l \in Lanes : q.progress.commits[l] # None =>
    q.progress.commits[l] = q.rec \/ InLog(q.progress.commits[l])

\* progress.json acknowledges only what the history holds, and no request on
\* the wire will change that.
AckOK ==
  /\ \A l \in Lanes : hub.commits[l] # None => InLog(hub.commits[l])
  /\ \A w \in Workers : sent[w] # None /\ sent[w].parent = Len(log) => AckedBy(sent[w])
  /\ \A q \in late : q.parent = Len(log) => AckedBy(q)

\* The request a worker waits for carries the batch of its lane, and a worker
\* past its commit works on a batch that may be removed.
BatchOf(w) ==
  LET l == plan[w].lane
  IN  /\ pc[w] \in {"commit", "landed"} => sent[w].rec = disk[w][l].ready
      /\ pc[w] \in {"landed", "clean"} =>
           InLog(disk[w][l].ready) \/ (l = "repair" /\ disk[w][l].ready.missing # {})

BatchOK == \A w \in Workers : BatchOf(w)

\* What a step does to the Hub and to the requests on the wire.
LEMMA WireMoves ==
  ASSUME TypeInv, [Next]_vars
  PROVE  \/ /\ UNCHANGED <<hub, log>>
            /\ late' \subseteq late \cup {sent[v] : v \in {u \in Workers : sent[u] # None}}
            /\ \A v \in Workers : sent'[v] # None => sent'[v] = sent[v]
         \/ \E w \in Workers : Send(w)
         \/ \E q \in Request : /\ q.parent = Len(log) /\ Commit(q) /\ sent' = sent
                               /\ q \in late \/ \E w \in Workers : sent[w] # None /\ q = sent[w]
         \/ LegacyForward \/ LegacyRepair
<1> DEFINE Quiet == /\ UNCHANGED <<hub, log>>
                    /\ late' \subseteq late \cup {sent[v] : v \in {u \in Workers : sent[u] # None}}
                    /\ \A v \in Workers : sent'[v] # None => sent'[v] = sent[v]
           Committed == \E q \in Request :
                          /\ q.parent = Len(log) /\ Commit(q) /\ sent' = sent
                          /\ q \in late \/ \E w \in Workers : sent[w] # None /\ q = sent[w]
<1>1. ASSUME NEW w \in Workers, Step(w) PROVE Quiet \/ Send(w)
  <2>1. CASE Refresh(w)
    BY <2>1 DEF Refresh, hubVars
  <2>2. QED
    BY <1>1, <2>1, WorkerQuiet DEF Step
<1>2. ASSUME NEW w \in Workers, Fail(w) \/ Crash(w) PROVE Quiet
  BY <1>2, FaultQuiet
<1>3. ASSUME NEW w \in Workers, Land(w) PROVE Committed
  <2>1. sent[w] # None /\ sent[w] \in Request
    BY <1>3, WorkerTypes DEF Land, TypeInv, ProcOK
  <2>2. sent[w].parent = Len(log) /\ Commit(sent[w]) /\ sent' = sent
    BY <1>3 DEF Land, Accepts
  <2>3. QED
    BY <2>1, <2>2
<1>4. ASSUME LandLate PROVE Committed
  <2>1. PICK q \in late : q.parent = Len(log) /\ Commit(q)
    BY <1>4 DEF LandLate, Accepts
  <2>2. q \in Request /\ sent' = sent
    BY <1>4 DEF LandLate, procVars, TypeInv, TypeOK
  <2>3. QED
    BY <2>1, <2>2
<1>5. ASSUME Tick \/ UNCHANGED vars PROVE Quiet
  BY <1>5 DEF Tick, hubVars, procVars, vars
<1> HIDE DEF Quiet, Committed
<1>6. ASSUME NEW w \in Workers, Step(w) \/ Land(w) \/ Fail(w) \/ Crash(w)
      PROVE  Quiet \/ Committed \/ Send(w)
  BY <1>1, <1>2, <1>3, <1>6
<1>7. Quiet \/ Committed \/ (\E w \in Workers : Send(w)) \/ LegacyForward \/ LegacyRepair
  BY <1>4, <1>5, <1>6 DEF Next
<1>8. QED
  BY <1>7 DEF Quiet, Committed

\* The history only grows.
LEMMA LogGrows ==
  ASSUME TypeInv, HistInv, [Next]_vars
  PROVE  \A r : InLog(r) => InLog(r)'
<1>1. log' = log \/ \E r \in Record : log' = Append(log, r)
  BY HeadMoves, LegacyForwardFacts, LegacyRepairFacts
<1>2. log \in Seq(Record)
  BY DEF TypeInv, TypeOK
<1>3. CASE log' = log
  BY <1>3 DEF InLog
<1>4. ASSUME NEW r \in Record, log' = Append(log, r)
      PROVE  \A i \in DOMAIN log : i \in DOMAIN log' /\ log'[i] = log[i]
  BY <1>2, <1>4, AppendFacts
<1>5. QED
  BY <1>1, <1>3, <1>4 DEF InLog

LEMMA AckStep ==
  ASSUME TypeInv, HistInv, AckOK, [Next]_vars PROVE AckOK'
<1>0. Len(log) \in Nat /\ log \in Seq(Record)
  BY DEF TypeInv, TypeOK
<1>1. CASE /\ UNCHANGED <<hub, log>>
           /\ late' \subseteq late \cup {sent[v] : v \in {u \in Workers : sent[u] # None}}
           /\ \A v \in Workers : sent'[v] # None => sent'[v] = sent[v]
  BY <1>1 DEF AckOK, AckedBy, InLog
<1>2. ASSUME NEW w \in Workers, Send(w) PROVE AckOK'
  <2> DEFINE r == Working(w).ready
             q == [parent |-> Len(log), rec |-> r, progress |-> Advanced(Base(w), r, Protected(w))]
  <2>1. UNCHANGED <<hub, log, late>> /\ sent' = [sent EXCEPT ![w] = q]
    BY <1>2 DEF Send, hubVars
  <2>2. r.kind \in Lanes /\ Base(w) \in Progress
        /\ (Base(w) = hub \/ Base(w) = initial[w])
    BY <1>2, BaseFacts DEF Send
  <2>3. q.progress.commits = [Base(w).commits EXCEPT ![r.kind] = r] /\ q.rec = r
    BY DEF Advanced
  <2>4. \A l \in Lanes : Base(w).commits[l] # None => InLog(Base(w).commits[l])
    BY <1>2, <2>2 DEF AckOK, TypeInv, ProcOK, Send, Base, NoCommits
  <2> HIDE DEF r
  <2>5. AckedBy(q)
    <3>1. Base(w).commits \in [Lanes -> Record \cup {None}]
      BY <2>2 DEF Progress
    <3>2. QED
      BY <2>2, <2>3, <2>4, <3>1 DEF AckedBy
  <2> HIDE DEF q
  <2>6. \A v \in Workers : sent'[v] = IF v = w THEN q ELSE sent[v]
    BY <2>1 DEF TypeInv, TypeOK
  <2>7. QED
    BY <2>1, <2>5, <2>6 DEF AckOK, AckedBy, InLog
<1>3. \A v \in Workers : sent[v] # None => sent[v].parent \in Nat /\ sent[v].parent <= Len(log)
  BY WorkerTypes DEF HistInv, RequestOK, Request
<1>4. ASSUME NEW q \in Request, q.parent = Len(log), Commit(q), sent' = sent,
             q \in late \/ \E w \in Workers : sent[w] # None /\ q = sent[w]
      PROVE  AckOK'
  <2>1. hub' = q.progress /\ late' = {} /\ q.rec \in Record /\ log' = Append(log, q.rec)
    BY <1>4 DEF Commit, Request
  <2>2. AckedBy(q)
    BY <1>4 DEF AckOK
  <2>3. InLog(q.rec)' /\ Len(log') = Len(log) + 1
    BY <1>0, <2>1, AppendFacts DEF InLog
  <2>4. \A l \in Lanes : hub'.commits[l] # None => InLog(hub.commits[l])'
    <3>1. \A r : InLog(r) => \E i \in DOMAIN log' : log'[i] = r
      BY LogGrows DEF InLog
    <3>2. \E i \in DOMAIN log' : log'[i] = q.rec
      BY <2>3 DEF InLog
    <3>3. QED
      BY <2>1, <2>2, <3>1, <3>2 DEF AckedBy, InLog
  <2>5. QED
    BY <1>0, <1>3, <1>4, <2>1, <2>3, <2>4 DEF AckOK
<1>5. CASE LegacyForward \/ LegacyRepair
  <2>1. \A l \in Lanes : hub'.commits[l] = None
    <3>1. \E n, queue : hub' = Legacy(n, queue)
      <4>1. CASE LegacyForward
        BY <4>1 DEF LegacyForward, Commit
      <4>2. CASE LegacyRepair
        BY <4>2 DEF LegacyRepair, Commit
      <4>3. QED
        BY <1>5, <4>1, <4>2
    <3>2. QED
      BY <3>1 DEF Legacy, NoCommits
  <2>2. late' = {} /\ sent' = sent
    BY <1>5 DEF LegacyForward, LegacyRepair, Commit, procVars
  <2>3. Len(log') = Len(log) + 1
    BY <1>0, <1>5, LegacyForwardFacts, LegacyRepairFacts, AppendFacts
  <2>4. QED
    BY <1>0, <1>3, <2>1, <2>2, <2>3 DEF AckOK
<1>6. QED
  BY <1>1, <1>2, <1>4, <1>5, WireMoves

\* A step of one worker leaves the others alone, and a step of the Hub or of the
\* clock all of them.
LEMMA OthersUnchanged ==
  ASSUME TypeInv, NEW w \in Workers, Step(w) \/ Land(w) \/ Fail(w) \/ Crash(w),
         NEW v \in Workers, v # w
  PROVE  /\ pc'[v] = pc[v] /\ plan'[v] = plan[v] /\ sent'[v] = sent[v]
         /\ snapshot'[v] = snapshot[v] /\ disk'[v] = disk[v]
<1>0. /\ \A x : [pc EXCEPT ![w] = x][v] = pc[v]
      /\ \A x : [plan EXCEPT ![w] = x][v] = plan[v]
      /\ \A x : [sent EXCEPT ![w] = x][v] = sent[v]
      /\ \A x : [snapshot EXCEPT ![w] = x][v] = snapshot[v]
  BY DEF TypeInv, TypeOK
<1>1. ASSUME NEW l, NEW b, disk' = [disk EXCEPT ![w][l] = b] PROVE disk'[v] = disk[v]
  BY <1>1 DEF TypeInv, TypeOK
<1>2. Abandon(w) => /\ pc'[v] = pc[v] /\ plan'[v] = plan[v] /\ sent'[v] = sent[v]
                    /\ snapshot'[v] = snapshot[v]
  BY <1>0 DEF Abandon
<1>3. CASE Refresh(w)
  BY <1>0, <1>3 DEF Refresh
<1>4. CASE \E l \in Lanes : Choose(w, l)
  <2>1. PICK l \in Lanes : Choose(w, l)
    BY <1>4
  <2>2. \E p : /\ plan' = [plan EXCEPT ![w] = p]
               /\ disk' = disk \/ \E b : disk' = [disk EXCEPT ![w][l] = b]
    BY <2>1, Zenon DEF Choose, SetBatch
  <2>3. pc' = [pc EXCEPT ![w] = "build"] /\ UNCHANGED <<sent, snapshot>>
    BY <2>1 DEF Choose
  <2>4. PICK p : /\ plan' = [plan EXCEPT ![w] = p]
                 /\ disk' = disk \/ \E b : disk' = [disk EXCEPT ![w][l] = b]
    BY <2>2
  <2>5. disk'[v] = disk[v]
    BY <1>1, <2>4
  <2>6. QED
    BY <1>0, <2>3, <2>4, <2>5
<1>5. \A r : Judge(w, r) => /\ pc'[v] = pc[v] /\ plan'[v] = plan[v] /\ sent'[v] = sent[v]
                            /\ snapshot'[v] = snapshot[v]
  BY <1>0, <1>2 DEF Judge
<1>6. CASE Collect(w)
  BY <1>1, <1>5, <1>6 DEF Collect, SetBatch
<1>7. CASE Reuse(w)
  BY <1>5, <1>7 DEF Reuse, diskVars
<1>8. CASE FindAcknowledged(w) \/ Send(w) \/ Confirm(w) \/ Land(w)
  BY <1>0, <1>8 DEF FindAcknowledged, Send, Confirm, Land, diskVars
<1>9. CASE Clean(w)
  BY <1>0, <1>1, <1>9 DEF Clean, SetBatch
<1>10. CASE Raise(w) \/ Fail(w)
  BY <1>2, <1>10 DEF Raise, Fail, diskVars
<1>11. CASE Crash(w)
  <2>1. disk' = disk \/ \E b : disk' = [disk EXCEPT ![w][plan[w].lane] = b]
    BY <1>11, Zenon DEF Crash, SetBatch
  <2>2. disk'[v] = disk[v]
    BY <1>1, <2>1
  <2>3. QED
    BY <1>2, <1>11, <2>2 DEF Crash
<1>12. QED
  BY <1>3, <1>4, <1>6, <1>7, <1>8, <1>9, <1>10, <1>11 DEF Step

\* A lane judged after collecting or reusing r works on a batch it may remove.
LEMMA JudgeBatch ==
  ASSUME TypeInv, NEW w \in Workers, NEW r, Judge(w, r), disk'[w][plan[w].lane].ready = r
  PROVE  BatchOf(w)'
<1>1. CASE Abandon(w)
  <2>1. pc'[w] = "idle"
    BY <1>1 DEF Abandon, TypeInv, TypeOK
  <2>2. QED
    BY <2>1 DEF BatchOf
<1>2. CASE ~Abandon(w)
  <2>1. /\ pc'[w] = IF plan[w].lane = "repair" /\ r.missing # {} THEN "clean" ELSE "publish"
        /\ plan' = plan
    BY <1>2 DEF Judge, TypeInv, TypeOK
  <2>2. QED
    BY <2>1 DEF BatchOf
<1>3. QED
  BY <1>1, <1>2

\* The worker that acts keeps its side of BatchOK.
LEMMA ActorBatch ==
  ASSUME TypeInv, HistInv, AckOK, BatchOK, [Next]_vars,
         NEW w \in Workers, Step(w) \/ Land(w) \/ Fail(w) \/ Crash(w)
  PROVE  BatchOf(w)'
<1>0. pc'[w] \notin {"commit", "landed", "clean"} => BatchOf(w)'
  BY DEF BatchOf
<1>1. CASE Refresh(w) \/ (\E l \in Lanes : Choose(w, l)) \/ Clean(w)
  BY <1>0, <1>1 DEF Refresh, Choose, Clean, TypeInv, TypeOK
<1>2. CASE Raise(w) \/ Fail(w) \/ Crash(w)
  BY <1>0, <1>2 DEF Raise, Fail, Crash, Abandon, TypeInv, TypeOK
<1>3. CASE Collect(w)
  <2> DEFINE l == plan[w].lane
  <2>1. PICK r \in Record :
          /\ l \in Lanes
          /\ disk' = [disk EXCEPT ![w][l] = [disk[w][l] EXCEPT !.ready = r, !.intact = TRUE]]
          /\ [disk[w][l] EXCEPT !.ready = r, !.intact = TRUE].ready = r
          /\ Judge(w, r)
    BY <1>3, CollectFacts
  <2>2. disk'[w][l].ready = r
    BY <2>1 DEF TypeInv, TypeOK
  <2>3. QED
    BY <2>1, <2>2, JudgeBatch
<1>4. CASE Reuse(w)
  BY <1>4, JudgeBatch DEF Reuse, Working, diskVars
<1>5. CASE FindAcknowledged(w)
  <2> DEFINE r == disk[w][plan[w].lane].ready
  <2>1. /\ pc[w] = "publish" /\ Acknowledged(Base(w), r) /\ UNCHANGED <<log, disk, plan>>
        /\ pc'[w] = "clean"
    BY <1>5 DEF FindAcknowledged, Working, hubVars, diskVars, TypeInv, TypeOK
  <2>2. hub.scheduled /\ r \in Record /\ r.kind \in Lanes
    BY <2>1, BaseFacts, AcknowledgedScheduled DEF Working
  <2>3. hub.commits[r.kind] = r /\ r # None
    BY <2>1, <2>2, NoneAssumption DEF Base, Acknowledged
  <2>4. InLog(r)
    BY <2>2, <2>3 DEF AckOK
  <2>5. QED
    BY <2>1, <2>4 DEF BatchOf, InLog
<1>6. CASE Send(w)
  <2>1. /\ sent'[w].rec = Working(w).ready /\ pc'[w] = "commit" /\ UNCHANGED <<disk, plan>>
    BY <1>6 DEF Send, diskVars, TypeInv, TypeOK
  <2>2. QED
    BY <2>1 DEF BatchOf, Working
<1>7. CASE Confirm(w)
  <2>1. /\ pc[w] = "landed" /\ pc'[w] = "clean" /\ UNCHANGED <<log, disk, plan>>
    BY <1>7 DEF Confirm, hubVars, diskVars, TypeInv, TypeOK
  <2>2. QED
    BY <2>1 DEF BatchOK, BatchOf, InLog
<1>8. CASE Land(w)
  <2>1. /\ pc[w] = "commit" /\ log' = Append(log, sent[w].rec) /\ UNCHANGED <<disk, plan, sent>>
    BY <1>8 DEF Land, Commit, diskVars
  <2>2. log \in Seq(Record) /\ sent[w].rec \in Record
    BY <2>1, WorkerTypes DEF Request, TypeInv, TypeOK, ProcOK
  <2>3. \E i \in DOMAIN log' : log'[i] = sent[w].rec
    BY <2>1, <2>2, AppendFacts
  <2>4. sent[w].rec = disk[w][plan[w].lane].ready
    BY <2>1 DEF BatchOK, BatchOf
  <2>5. QED
    BY <2>1, <2>3, <2>4 DEF BatchOf, InLog
<1>9. QED
  BY <1>1, <1>2, <1>3, <1>4, <1>5, <1>6, <1>7, <1>8 DEF Step

LEMMA BatchStep ==
  ASSUME TypeInv, HistInv, AckOK, BatchOK, [Next]_vars PROVE BatchOK'
<1>1. ASSUME NEW v \in Workers,
             pc'[v] = pc[v], plan'[v] = plan[v], sent'[v] = sent[v], disk'[v] = disk[v]
      PROVE  BatchOf(v)'
  <2>1. InLog(disk[v][plan[v].lane].ready) =>
          \E i \in DOMAIN log' : log'[i] = disk[v][plan[v].lane].ready
    BY LogGrows DEF InLog
  <2>2. QED
    BY <1>1, <2>1 DEF BatchOK, BatchOf, InLog
<1>2. ASSUME NEW w \in Workers, Step(w) \/ Land(w) \/ Fail(w) \/ Crash(w), NEW v \in Workers
      PROVE  BatchOf(v)'
  BY <1>1, <1>2, ActorBatch, OthersUnchanged
<1>3. ASSUME UNCHANGED <<disk, pc, plan, sent>>, NEW v \in Workers PROVE BatchOf(v)'
  BY <1>1, <1>3
<1>4. LandLate \/ LegacyForward \/ LegacyRepair \/ Tick \/ UNCHANGED vars =>
        UNCHANGED <<disk, pc, plan, sent>>
  BY DEF LandLate, LegacyForward, LegacyRepair, Tick, diskVars, procVars, vars
<1>5. QED
  BY <1>2, <1>3, <1>4 DEF Next, BatchOK

\* A lane has work on the disk, and where that work starts (pending_plan).
Held(w, l) == disk[w][l].ready # None \/ disk[w][l].request # None
StartOf(w, l) ==
  IF disk[w][l].ready # None THEN disk[w][l].ready.start ELSE disk[w][l].request.start

\* PendingPlan in the words of Held and StartOf.
LEMMA PendingFacts ==
  ASSUME TypeInv, NEW w \in Workers, NEW l \in Lanes
  PROVE  /\ Held(w, l) <=> PendingPlan(w, l) # None
         /\ Held(w, l) => PendingPlan(w, l).start = StartOf(w, l)
<1>1. CASE disk[w][l].ready # None
  <2> DEFINE p == [lane |-> l, start |-> disk[w][l].ready.start, end |-> disk[w][l].ready.end]
  <2>1. PendingPlan(w, l) = p
    BY <1>1 DEF PendingPlan
  <2>2. p \in Plan
    BY <1>1, WorkerTypes DEF Plan, Record
  <2>3. p # None
    BY <2>2, NoneAssumption
  <2>4. QED
    BY <1>1, <2>1, <2>3 DEF Held, StartOf
<1>2. CASE disk[w][l].ready = None
  BY <1>2 DEF PendingPlan, Held, StartOf
<1>3. QED
  BY <1>1, <1>2

\* The three ways a step changes a batch directory: choose_work records a
\* request, build_batch seals what it collected, remove_owned (or a crash in the
\* middle of it) takes files away.
Requested(w, k) ==
  /\ Choose(w, k)
  /\ disk[w][k].ready = None /\ disk[w][k].request = None /\ disk'[w][k].ready = None
  /\ disk'[w][k].request \in
       NewPlans(k, IF snapshot[w].scheduled THEN snapshot[w] ELSE initial[w], window[w])

Sealed(w, k) ==
  /\ Collect(w) /\ k = plan[w].lane
  /\ disk[w][k].ready = None /\ disk[w][k].request # None
  /\ disk'[w][k].request = disk[w][k].request
  /\ disk'[w][k].ready # None
  /\ disk'[w][k].ready.start = disk[w][k].request.start
  /\ disk[w][k].request.start <= disk'[w][k].ready.end
  /\ disk'[w][k].ready.end <= disk[w][k].request.end

Removed(w, k) ==
  /\ Clean(w) \/ Crash(w)
  /\ pc[w] = "clean" /\ k = plan[w].lane
  /\ disk'[w][k].request \in {disk[w][k].request, None}
  /\ disk'[w][k].ready \in {disk[w][k].ready, None}

LEMMA LaneMoves ==
  ASSUME TypeInv, [Next]_vars, NEW v \in Workers, NEW k \in Lanes
  PROVE  disk'[v][k] = disk[v][k] \/ Requested(v, k) \/ Sealed(v, k) \/ Removed(v, k)
<1>0. disk \in [Workers -> [Lanes -> Batch]]
  BY DEF TypeInv, TypeOK
<1>1. SUFFICES ASSUME disk'[v][k] # disk[v][k]
               PROVE  Requested(v, k) \/ Sealed(v, k) \/ Removed(v, k)
  OBVIOUS
<1>2. PICK w \in Workers : Step(w) \/ Land(w) \/ Fail(w) \/ Crash(w)
  BY <1>1 DEF Next, LandLate, LegacyForward, LegacyRepair, Tick, diskVars, vars
<1>3. v = w
  BY <1>1, <1>2, OthersUnchanged
<1>4. ASSUME NEW l, NEW b, disk' = [disk EXCEPT ![w][l] = b]
      PROVE  k = l /\ disk'[w][k] = b
  BY <1>0, <1>1, <1>3, <1>4
<1>5. CASE \E l \in Lanes : Choose(w, l)
  <2>1. PICK l \in Lanes : Choose(w, l)
    BY <1>5
  <2> DEFINE effective == IF snapshot[w].scheduled THEN snapshot[w] ELSE initial[w]
  <2>2. PICK p \in Plans(w, l, effective) :
          IF PendingPlan(w, l) = None
            THEN disk' = [disk EXCEPT ![w][l] = [disk[w][l] EXCEPT !.request = p]]
            ELSE UNCHANGED disk
    BY <2>1 DEF Choose, SetBatch
  <2>3. /\ PendingPlan(w, l) = None
        /\ disk' = [disk EXCEPT ![w][l] = [disk[w][l] EXCEPT !.request = p]]
    BY <1>1, <2>2
  <2>4. k = l /\ disk'[w][k] = [disk[w][k] EXCEPT !.request = p]
    BY <1>4, <2>3
  <2>5. disk[w][k].ready = None /\ disk[w][k].request = None
    BY <2>3, <2>4, PendingFacts DEF Held
  <2>6. p \in NewPlans(k, effective, window[w])
    BY <2>2, <2>3, <2>4 DEF Plans
  <2>7. disk'[w][k].ready = disk[w][k].ready /\ disk'[w][k].request = p
    BY <1>0, <2>4 DEF Batch
  <2>8. QED
    BY <1>3, <2>1, <2>4, <2>5, <2>6, <2>7 DEF Requested
<1>6. CASE Collect(w)
  <2> DEFINE l == plan[w].lane
             q == disk[w][l].request
  <2>1. PICK r \in Record :
          /\ l \in Lanes /\ WellFormed(r) /\ r # None
          /\ disk[w][l].ready = None /\ q # None /\ r.start = q.start /\ r.end <= q.end
          /\ disk' = [disk EXCEPT ![w][l] = [disk[w][l] EXCEPT !.ready = r, !.intact = TRUE]]
          /\ [disk[w][l] EXCEPT !.ready = r, !.intact = TRUE].request = q
          /\ [disk[w][l] EXCEPT !.ready = r, !.intact = TRUE].ready = r
    BY <1>6, CollectFacts
  <2>2. k = l /\ disk'[w][k] = [disk[w][l] EXCEPT !.ready = r, !.intact = TRUE]
    BY <1>4, <2>1
  <2>3. disk'[w][k].ready = r /\ disk'[w][k].request = q
    BY <2>1, <2>2
  <2>4. QED
    BY <1>3, <1>6, <2>1, <2>2, <2>3 DEF Sealed, WellFormed
<1>7. CASE Clean(w) \/ (pc[w] = "clean" /\ Crash(w))
  <2> DEFINE l == plan[w].lane
             x == disk[w][l]
  <2>1. pc[w] = "clean" /\ l \in Lanes /\ x \in Batch
    BY <1>7, WorkerTypes DEF Clean, Plan
  <2>2. \E b : /\ disk' = [disk EXCEPT ![w][l] = b]
               /\ b.request \in {x.request, None} /\ b.ready \in {x.ready, None}
    <3>1. CASE Clean(w)
      <4>1. disk' = [disk EXCEPT ![w][l] = EmptyBatch]
        BY <3>1 DEF Clean, SetBatch
      <4>2. EmptyBatch.request = None /\ EmptyBatch.ready = None
        BY DEF EmptyBatch
      <4>3. QED
        BY <4>1, <4>2
    <3>2. CASE Crash(w)
      BY <2>1, <3>2, DebrisFacts DEF Crash, SetBatch, Working
    <3>3. QED
      BY <1>7, <3>1, <3>2
  <2>3. QED
    BY <1>3, <1>4, <1>7, <2>1, <2>2 DEF Removed
<1>8. CASE ~Collect(w) /\ ~(\E l \in Lanes : Choose(w, l)) /\ ~Clean(w) /\ pc[w] # "clean"
  BY <1>1, <1>2, <1>8 DEF Step, Refresh, Reuse, FindAcknowledged, Send, Confirm, Raise, Land,
     Fail, Crash, diskVars
<1>9. CASE pc[w] = "clean" /\ ~Collect(w) /\ ~(\E l \in Lanes : Choose(w, l)) /\ ~Clean(w)
           /\ ~Crash(w)
  BY <1>1, <1>2, <1>9 DEF Step, Refresh, Reuse, FindAcknowledged, Send, Confirm, Raise, Land,
     Fail, diskVars
<1>10. QED
  BY <1>5, <1>6, <1>7, <1>8, <1>9 DEF Clean

\* A step that changes the ready batch of a lane that has one removes it, and
\* then its commit is in the history, or it is a repair whose minute is missing.
LEMMA RemovalStep ==
  ASSUME TypeInv, BatchOK, [Next]_vars, NEW w \in Workers, NEW l \in Lanes,
         disk[w][l].ready # None, disk'[w][l].ready # disk[w][l].ready
  PROVE  InLog(disk[w][l].ready) \/ (l = "repair" /\ disk[w][l].ready.missing # {})
<1>1. Removed(w, l)
  BY LaneMoves DEF Requested, Sealed
<1>2. QED
  BY <1>1 DEF Removed, BatchOK, BatchOf

LEMMA BatchCorrect == Spec => [](TypeInv /\ HistInv /\ AckOK /\ BatchOK)
<1>1. Init => AckOK /\ BatchOK
  BY DEF Init, AckOK, BatchOK, BatchOf, Legacy, NoCommits
<1>2. TypeInv /\ HistInv /\ AckOK /\ BatchOK /\ [Next]_vars => AckOK' /\ BatchOK'
  BY AckStep, BatchStep
<1>3. QED
  BY <1>1, <1>2, HistoryCorrect, PTL DEF Spec

\* Local work is dropped only once its commit is in the history, or as a repair
\* that found its minute still missing (RemovedOnlyPublished): by any number of
\* workers, through lost responses, refused commits and torn removals.
THEOREM RemovedOnlyPublishedHolds == Spec => RemovedOnlyPublished
<1>1. TypeInv /\ BatchOK /\ [Next]_vars =>
        [\A w \in Workers, l \in Lanes :
           LET r == disk[w][l].ready
           IN  (r # None /\ disk'[w][l].ready # r) =>
                 \/ \E i \in DOMAIN log : log[i] = r
                 \/ l = "repair" /\ r.missing # {}]_disk
  BY RemovalStep DEF InLog
<1>2. QED
  BY <1>1, BatchCorrect, PTL DEF Spec, RemovedOnlyPublished

-----------------------------------------------------------------------------
(* One publisher: what its disk, its snapshot and the wire know of the Hub. *)

\* A request on the wire that the Hub would still apply.
InFlight(q) ==
  /\ q.parent = Len(log)
  /\ q \in late \/ \E w \in Workers : sent[w] # None /\ q = sent[w]

\* A request acknowledges its record and keeps what the other lanes acknowledge.
WireAcks ==
  /\ ~hub.scheduled => hub.commits = NoCommits
  /\ \A q \in Request : InFlight(q) =>
       /\ q.rec.kind \in Lanes
       /\ q.progress.commits = [hub.commits EXCEPT ![q.rec.kind] = q.rec]

\* A published repair is one minute that was served.
LogRepairs ==
  \A i \in DOMAIN log :
    log[i].kind = "repair" => log[i].start = log[i].end /\ log[i].missing = {}

\* The two files of a batch agree on its start, a repair is one minute, and only
\* the live lane works before the first live commit.
LanesOK ==
  \A w \in Workers, l \in Lanes :
    LET b == disk[w][l]
    IN  /\ b.ready # None /\ b.request # None => b.ready.start = b.request.start
        /\ l = "repair" /\ b.request # None => b.request.start = b.request.end
        /\ l = "repair" /\ b.ready # None => b.ready.start = b.ready.end
        /\ Held(w, l) => hub.scheduled \/ l = "live"

\* A request the Hub would apply moves the head as publish may.
LEMMA InFlightMoves ==
  ASSUME TypeInv, HistInv, NEW q \in Request, InFlight(q)
  PROVE  ValidMove(hub, q.rec, q.progress) /\ q.rec \in Record /\ q.progress \in Progress
  BY DEF HistInv, RequestOK, InFlight, Request

\* After a commit no request on the wire can be applied.
LEMMA WireEmpty ==
  ASSUME TypeInv, HistInv, NEW r \in Record, log' = Append(log, r), late' = {}, sent' = sent
  PROVE  \A q : ~InFlight(q)'
<1>1. Len(log) \in Nat /\ Len(log') = Len(log) + 1
  BY AppendFacts DEF TypeInv, TypeOK
<1>2. \A v \in Workers : sent[v] # None => sent[v].parent \in Nat /\ sent[v].parent <= Len(log)
  BY WorkerTypes DEF HistInv, RequestOK, Request
<1>3. QED
  BY <1>1, <1>2 DEF InFlight

\* A step that sends and commits nothing puts no request in flight.
LEMMA WireQuiet ==
  ASSUME log' = log,
         late' \subseteq late \cup {sent[v] : v \in {u \in Workers : sent[u] # None}},
         \A v \in Workers : sent'[v] # None => sent'[v] = sent[v],
         NEW q, InFlight(q)'
  PROVE  InFlight(q)
  BY DEF InFlight

\* What publish sends.
LEMMA SendFacts ==
  ASSUME TypeInv, HistInv, NEW w \in Workers, Send(w)
  PROVE  \E r \in Record, p \in Progress :
           /\ r = disk[w][plan[w].lane].ready /\ r.kind = plan[w].lane /\ r.kind \in Lanes
           /\ sent' = [sent EXCEPT ![w] = [parent |-> Len(log), rec |-> r, progress |-> p]]
           /\ p = Advanced(Base(w), r, Protected(w))
           /\ ValidMove(hub, r, p)
           /\ Base(w) \in Progress /\ Fits(Base(w), r)
           /\ Base(w) = hub \/ (~hub.scheduled /\ Base(w).commits = NoCommits)
           /\ UNCHANGED <<hub, log, late, disk, snapshot, plan, now>>
<1> DEFINE r == Working(w).ready
           p == Advanced(Base(w), r, Protected(w))
<1>1. pc[w] = "publish" /\ Fits(Base(w), r)
  BY DEF Send
<1>2. /\ r \in Record /\ r.kind = plan[w].lane /\ r.kind \in Lanes
      /\ Base(w) \in Progress
      /\ Base(w) = hub \/ (~hub.scheduled /\ Base(w) = initial[w])
  BY <1>1, BaseFacts
<1>3. p \in Progress
  BY <1>2, AdvancedFacts DEF TypeInv, TypeOK
<1>4. ValidMove(hub, r, p)
  BY SendMoves DEF HistInv
<1>5. ~hub.scheduled => initial[w].commits = NoCommits
  BY <1>1 DEF TypeInv, ProcOK
<1>6. /\ sent' = [sent EXCEPT ![w] = [parent |-> Len(log), rec |-> r, progress |-> p]]
      /\ UNCHANGED <<hub, log, late, disk, snapshot, plan, now>>
  BY DEF Send, hubVars, diskVars
<1>7. r = disk[w][plan[w].lane].ready
  BY DEF Working
<1> HIDE DEF p, r
<1>8. p = Advanced(Base(w), r, Protected(w))
  BY DEF p
<1>9. QED
  BY <1>1, <1>2, <1>3, <1>4, <1>5, <1>6, <1>7, <1>8

\* A chronological commit publishes a checkpoint without acknowledgements.
LEMMA LegacyForgets ==
  ASSUME LegacyForward \/ LegacyRepair PROVE hub'.commits = NoCommits
<1>1. \E n, queue : hub' = Legacy(n, queue)
  <2>1. CASE LegacyForward
    BY <2>1 DEF LegacyForward, Commit
  <2>2. CASE LegacyRepair
    BY <2>2 DEF LegacyRepair, Commit
  <2>3. QED
    BY <2>1, <2>2
<1>2. QED
  BY <1>1 DEF Legacy

\* A chronological commit appends one record before the first live commit.
LEMMA LegacyAppends ==
  ASSUME TypeInv, HistInv, LegacyForward \/ LegacyRepair
  PROVE  \E r \in Record :
           /\ log' = Append(log, r) /\ late' = {}
           /\ ~hub.scheduled /\ ~hub'.scheduled
           /\ r.kind = "forward" \/ (r.kind = "repair" /\ r.start = r.end /\ r.missing = {})
           /\ UNCHANGED <<disk, pc, snapshot, plan, sent, now>>
<1>1. UNCHANGED <<disk, pc, snapshot, plan, sent, now>>
  BY DEF LegacyForward, LegacyRepair, diskVars, procVars
<1>2. QED
  BY <1>1, LegacyForwardFacts, LegacyRepairFacts

LEMMA WireAcksStep ==
  ASSUME TypeInv, HistInv, WireAcks, [Next]_vars PROVE WireAcks'
<1>0. Len(log) \in Nat /\ log \in Seq(Record)
  BY DEF TypeInv, TypeOK
<1>1. CASE /\ UNCHANGED <<hub, log>>
           /\ late' \subseteq late \cup {sent[v] : v \in {u \in Workers : sent[u] # None}}
           /\ \A v \in Workers : sent'[v] # None => sent'[v] = sent[v]
  BY <1>1, WireQuiet DEF WireAcks
<1>2. ASSUME NEW w \in Workers, Send(w) PROVE WireAcks'
  <2>1. PICK r \in Record, p \in Progress :
           /\ r.kind \in Lanes
           /\ sent' = [sent EXCEPT ![w] = [parent |-> Len(log), rec |-> r, progress |-> p]]
           /\ p = Advanced(Base(w), r, Protected(w))
           /\ Base(w) = hub \/ (~hub.scheduled /\ Base(w).commits = NoCommits)
           /\ UNCHANGED <<hub, log, late>>
    BY <1>2, SendFacts
  <2>2. p.commits = [hub.commits EXCEPT ![r.kind] = r]
    BY <2>1 DEF Advanced, WireAcks
  <2> DEFINE q == [parent |-> Len(log), rec |-> r, progress |-> p]
  <2>3. q.rec = r /\ q.progress = p
    OBVIOUS
  <2> HIDE DEF q
  <2>4. \A v \in Workers : sent'[v] = IF v = w THEN q ELSE sent[v]
    BY <2>1 DEF q, TypeInv, TypeOK
  <2>5. \A x : InFlight(x)' => InFlight(x) \/ x = q
    BY <2>1, <2>4 DEF InFlight
  <2>6. QED
    BY <2>1, <2>2, <2>3, <2>5 DEF WireAcks
<1>3. ASSUME NEW q \in Request, q.parent = Len(log), Commit(q), sent' = sent,
             q \in late \/ \E w \in Workers : sent[w] # None /\ q = sent[w]
      PROVE  WireAcks'
  <2>1. q.rec \in Record /\ hub' = q.progress /\ log' = Append(log, q.rec) /\ late' = {}
    BY <1>3 DEF Commit, Request
  <2>2. hub'.scheduled
    BY <1>3, <2>1, InFlightMoves DEF InFlight, ValidMove
  <2>3. QED
    BY <1>3, <2>1, <2>2, WireEmpty DEF WireAcks
<1>4. CASE LegacyForward \/ LegacyRepair
  BY <1>4, LegacyForgets, LegacyAppends, WireEmpty DEF WireAcks
<1>5. QED
  BY <1>1, <1>2, <1>3, <1>4, WireMoves

LEMMA LogRepairsStep ==
  ASSUME TypeInv, HistInv, LogRepairs, [Next]_vars PROVE LogRepairs'
<1>0. log \in Seq(Record)
  BY DEF TypeInv, TypeOK
<1>1. ASSUME NEW r \in Record, log' = Append(log, r),
             r.kind = "repair" => r.start = r.end /\ r.missing = {}
      PROVE  LogRepairs'
  BY <1>0, <1>1, AppendFacts DEF LogRepairs
<1>2. CASE log' = log
  BY <1>2 DEF LogRepairs
<1>3. CASE LegacyForward \/ LegacyRepair
  BY <1>1, <1>3, LegacyAppends
<1>4. ASSUME NEW r \in Record, log' = Append(log, r), ValidMove(hub, r, hub') PROVE LogRepairs'
  BY <1>1, <1>4 DEF ValidMove
<1>5. QED
  BY <1>2, <1>3, <1>4, HeadMoves

LEMMA LanesStep ==
  ASSUME TypeInv, HistInv, LanesOK, [Next]_vars PROVE LanesOK'
<1> SUFFICES ASSUME NEW w \in Workers, NEW l \in Lanes
             PROVE  LET b == disk'[w][l]
                    IN  /\ b.ready # None /\ b.request # None => b.ready.start = b.request.start
                        /\ l = "repair" /\ b.request # None => b.request.start = b.request.end
                        /\ l = "repair" /\ b.ready # None => b.ready.start = b.ready.end
                        /\ b.ready # None \/ b.request # None => hub'.scheduled \/ l = "live"
  BY DEF LanesOK, Held
<1>1. hub.scheduled => hub'.scheduled
  BY CursorStep
<1>2. CASE disk'[w][l] = disk[w][l]
  BY <1>1, <1>2 DEF LanesOK, Held
<1>3. CASE Requested(w, l)
  <2>1. snapshot[w] # None /\ (snapshot[w].scheduled \/ l = "live")
    BY <1>3 DEF Requested, Choose
  <2>2. hub.scheduled \/ l = "live"
    BY <2>1 DEF TypeInv, ProcOK
  <2>3. l = "repair" => disk'[w][l].request.start = disk'[w][l].request.end
    BY <1>3 DEF Requested, NewPlans, RepairPlans
  <2>4. QED
    BY <1>1, <1>3, <2>2, <2>3 DEF Requested
<1>4. CASE Sealed(w, l)
  <2>1. disk[w][l].request \in Plan /\ disk'[w][l].ready \in Record
    <3>1. disk'[w][l] \in Batch
      BY TypeStep DEF TypeInv, TypeOK
    <3>2. QED
      BY <1>4, <3>1, WorkerTypes DEF Sealed, Batch
  <2>2. l = "repair" => disk'[w][l].ready.start = disk'[w][l].ready.end
    BY <1>4, <2>1 DEF Sealed, LanesOK, Plan, Record
  <2>3. QED
    BY <1>1, <1>4, <2>2 DEF Sealed, LanesOK, Held
<1>5. CASE Removed(w, l)
  BY <1>1, <1>5 DEF Removed, LanesOK, Held
<1>6. QED
  BY <1>2, <1>3, <1>4, <1>5, LaneMoves

\* Work of lane l at minute s that no commit has published.
Free(l, s) ==
  \/ l = "live" /\ (hub.scheduled => s = hub.liveNext)
  \/ l = "backfill" /\ hub.scheduled /\ hub.floor <= s /\ s <= hub.backEnd
  \/ l = "repair" /\ hub.scheduled /\ s \in hub.pending

LEMMA FreeNotTaken ==
  ASSUME "repair" \notin LegacyKinds, TypeInv, HistInv, LogRepairs, NEW l \in Lanes,
         NEW s \in Int, Free(l, s), NEW i \in DOMAIN log
  PROVE  ~(log[i].kind = l /\ log[i].start = s)
<1> SUFFICES ASSUME log[i].kind = l, log[i].start = s PROVE FALSE
  OBVIOUS
<1>1. log[i] \in Record /\ hub \in Progress /\ log \in Seq(Record)
  BY DEF TypeInv, TypeOK
<1>2. WellFormed(log[i]) /\ Interval(log[i]) \subseteq Covered /\ CursorsOK
  BY DEF HistInv, HistoryOK
<1>3. s \in Covered
  BY <1>1, <1>2 DEF WellFormed, Interval, Record
<1>4. /\ hub.floor \in Int /\ hub.liveStart \in Int /\ hub.liveNext \in Int
      /\ hub.backEnd \in Int /\ First \in Int
  BY <1>1, MinuteAssumption DEF Progress
<1>5. CASE l = "live"
  <2>1. hub.scheduled
    BY <1>5 DEF HistInv, HistoryOK
  <2>2. QED
    BY <1>2, <1>3, <1>4, <1>5, <2>1 DEF Free, CursorsOK, Covered
<1>6. CASE l = "backfill"
  BY <1>2, <1>3, <1>4, <1>6 DEF Free, CursorsOK, Covered
<1>7. CASE l = "repair"
  <2>1. s \in Gaps
    BY <1>7, OutstandingIsGaps DEF Free, HistInv, HistoryOK
  <2>2. s \in Complete(log[i])
    BY <1>1, <1>7 DEF LogRepairs, Complete, Record
  <2>3. QED
    BY <2>1, <2>2, GapMember
<1>8. QED
  BY <1>5, <1>6, <1>7 DEF Lanes

\* What publish may send has not been published.
LEMMA MoveIsFree ==
  ASSUME TypeInv, NEW r \in Record, NEW q \in Progress, ValidMove(hub, r, q)
  PROVE  r.kind \in Lanes /\ Free(r.kind, r.start)
<1>1. hub.backEnd \in Int /\ hub.floor \in Int /\ r.start \in Int /\ r.end \in Int
  BY DEF TypeInv, TypeOK, Progress, Record
<1>2. QED
  BY <1>1 DEF ValidMove, WellFormed, Free, Lanes

\* The lanes whose next work is planned from the snapshot, and what the snapshot
\* must say for it to be unpublished.
Vacant(w, l) ==
  \/ disk[w][l].ready = None
  \/ l = "repair" /\ disk[w][l].ready.missing # {}
  \/ pc[w] = "clean" /\ plan[w].lane = l

Fresh(w, l) ==
  IF snapshot[w].scheduled
    THEN /\ l = "live" => snapshot[w].liveNext = hub.liveNext
         /\ l = "backfill" => snapshot[w].backEnd = hub.backEnd /\ snapshot[w].floor = hub.floor
         /\ l = "repair" => \A m \in snapshot[w].pending : m >= Earliest => m \in hub.pending
    ELSE l = "live" => ~hub.scheduled

LEMMA FreshPlanFree ==
  ASSUME TypeInv, NEW w \in Workers, NEW l \in Lanes, Requested(w, l), Fresh(w, l)
  PROVE  /\ disk'[w][l].request.start \in Int /\ Free(l, disk'[w][l].request.start)
         /\ l = "repair" => disk'[w][l].request.start >= Earliest
<1> DEFINE p == disk'[w][l].request
           e == IF snapshot[w].scheduled THEN snapshot[w] ELSE initial[w]
<1>1. /\ snapshot[w] # None /\ (snapshot[w].scheduled \/ l = "live")
      /\ p \in NewPlans(l, e, window[w])
  BY DEF Requested, Choose
<1>2. /\ snapshot[w].scheduled => hub.scheduled
      /\ e \in Progress /\ window[w] \in Nat \ {0} /\ now \in Int
  BY <1>1, WorkerTypes DEF TypeInv, ProcOK
<1>3. p \in Plan
  BY <1>1, <1>2, NewPlansFacts
<1>4. CASE ~snapshot[w].scheduled
  BY <1>1, <1>3, <1>4 DEF Fresh, Free, Plan, Lanes
<1>5. CASE snapshot[w].scheduled
  <2>1. e = snapshot[w] /\ hub.scheduled
    BY <1>2, <1>5
  <2>2. e.liveNext \in Int /\ e.backEnd \in Int /\ e.floor \in Int
    BY <1>2 DEF Progress
  <2>3. CASE l = "live"
    <3>1. p.start = e.liveNext
      BY <1>1, <2>3 DEF NewPlans, LivePlans
    <3>2. QED
      BY <1>3, <1>5, <2>1, <2>3, <3>1 DEF Fresh, Free, Plan
  <2>4. CASE l = "backfill"
    <3>1. p \in BackfillPlans(e, window[w])
      BY <1>1, <2>4 DEF NewPlans
    <3>2. ~(e.backEnd < e.floor) /\ p.start = MaxOf(e.floor, e.backEnd - window[w] + 1)
      BY <3>1 DEF BackfillPlans
    <3>3. e.floor <= p.start /\ p.start <= e.backEnd
      BY <1>2, <2>2, <3>2 DEF MaxOf
    <3>4. QED
      BY <1>3, <1>5, <2>1, <2>4, <3>3 DEF Fresh, Free, Plan
  <2>5. CASE l = "repair"
    <3>1. p.start \in e.pending /\ p.start >= Earliest
      BY <1>1, <2>5 DEF NewPlans, RepairPlans
    <3>2. QED
      BY <1>3, <1>5, <2>1, <2>5, <3>1 DEF Fresh, Free, Plan
  <2>6. QED
    BY <2>3, <2>4, <2>5 DEF Lanes
<1>6. QED
  BY <1>4, <1>5

\* The only publisher of a dataset, next to at most a chronological one that no
\* longer repairs.
OnePublisher == (\A v, w \in Workers : v = w) /\ "repair" \notin LegacyKinds

\* A sent request belongs to a worker that waits for it, and once it has landed
\* the head is what it published.
SentOf(w) ==
  /\ sent[w] # None => pc[w] \in {"commit", "landed"}
  /\ pc[w] = "landed" => sent[w].parent < Len(log) /\ hub = sent[w].progress /\ late = {}
SentOK == \A w \in Workers : SentOf(w)

\* The batch of a request nobody waits for is still on the disk.
LateOK ==
  \A w \in Workers : \A q \in late :
    q.parent = Len(log) => disk[w][q.rec.kind].ready = q.rec

\* The one commit of a lane that starts where its work on the disk starts is the
\* one its lane acknowledges.
Unique ==
  \A w \in Workers, l \in Lanes : Held(w, l) =>
    \A i \in DOMAIN log :
      log[i].kind = l /\ log[i].start = StartOf(w, l) => log[i] = hub.commits[l]

\* New work is planned from what the Hub still says.
SnapshotOK ==
  \A w \in Workers, l \in Lanes : snapshot[w] # None /\ Vacant(w, l) => Fresh(w, l)

\* The minute of a repair on the disk is queued or published, and no request in
\* flight takes it out of the queue.
QueueOK ==
  \A w \in Workers : Held(w, "repair") =>
    LET m == StartOf(w, "repair")
    IN  /\ m \in hub.pending \/ \E i \in DOMAIN log : log[i].kind = "repair" /\ log[i].start = m
        /\ \A q \in Request :
             InFlight(q) /\ q.rec.kind # "repair" /\ m \in hub.pending => m \in q.progress.pending

WireInv == TypeInv /\ HistInv /\ AckOK /\ BatchOK /\ WireAcks /\ LogRepairs /\ LanesOK
SoloInv == WireInv /\ SentOK /\ LateOK /\ Unique /\ SnapshotOK /\ QueueOK

\* The batch of a request in flight is on the disk, its lane plans nothing new,
\* and what it publishes is not published.
LEMMA Holder ==
  ASSUME OnePublisher, SoloInv, NEW w \in Workers, NEW q \in Request, InFlight(q)
  PROVE  /\ q.rec.kind \in Lanes /\ q.rec \in Record /\ q.rec # None
         /\ disk[w][q.rec.kind].ready = q.rec
         /\ ~Vacant(w, q.rec.kind)
         /\ \A i \in DOMAIN log : ~(log[i].kind = q.rec.kind /\ log[i].start = q.rec.start)
<1> DEFINE l == q.rec.kind
<1>1. ValidMove(hub, q.rec, q.progress) /\ q.rec \in Record /\ q.progress \in Progress
  BY InFlightMoves DEF SoloInv, WireInv
<1>2. l \in Lanes /\ Free(l, q.rec.start) /\ q.rec.start \in Int
  BY <1>1, MoveIsFree DEF SoloInv, WireInv, Record
<1>3. \A i \in DOMAIN log : ~(log[i].kind = l /\ log[i].start = q.rec.start)
  BY <1>2, FreeNotTaken DEF OnePublisher, SoloInv, WireInv
<1>4. q.rec # None
  BY <1>1, NoneAssumption
<1>5. disk[w][l].ready = q.rec
  <2>1. CASE q \in late
    BY <2>1 DEF SoloInv, LateOK, InFlight
  <2>2. CASE q \notin late
    <3>1. sent[w] # None /\ q = sent[w] /\ sent[w].parent = Len(log)
      BY <2>2 DEF InFlight, OnePublisher
    <3>2. Len(log) \in Nat
      BY DEF SoloInv, WireInv, TypeInv, TypeOK
    <3>3. pc[w] = "commit"
      BY <3>1, <3>2 DEF SoloInv, SentOK, SentOf
    <3>4. /\ sent[w].rec = disk[w][plan[w].lane].ready
          /\ disk[w][plan[w].lane].ready # None /\ plan[w].lane \in Lanes
      BY <3>3, WorkerTypes DEF SoloInv, WireInv, BatchOK, BatchOf, TypeInv, ProcOK, Plan
    <3>5. q.rec.kind = plan[w].lane
      BY <3>1, <3>4, WorkerTypes DEF SoloInv, WireInv
    <3>6. QED
      BY <3>1, <3>4, <3>5
  <2>3. QED
    BY <2>1, <2>2
<1>6. l = "repair" => q.rec.missing = {}
  BY <1>1 DEF ValidMove
<1>7. ~Vacant(w, l)
  <2>1. CASE pc[w] = "clean" /\ plan[w].lane = l
    <3>1. InLog(q.rec)
      BY <1>5, <1>6, <2>1 DEF SoloInv, WireInv, BatchOK, BatchOf
    <3>2. QED
      BY <1>3, <3>1 DEF InLog
  <2>2. CASE ~(pc[w] = "clean" /\ plan[w].lane = l)
    BY <1>4, <1>5, <1>6, <2>2 DEF Vacant
  <2>3. QED
    BY <2>1, <2>2
<1>8. QED
  BY <1>1, <1>2, <1>3, <1>4, <1>5, <1>7

\* Work that stays on the disk keeps its start.
LEMMA StartKept ==
  ASSUME SoloInv, [Next]_vars, NEW w \in Workers, NEW l \in Lanes, Held(w, l)', ~Requested(w, l)
  PROVE  Held(w, l) /\ StartOf(w, l)' = StartOf(w, l)
<1>1. CASE disk'[w][l] = disk[w][l]
  BY <1>1 DEF Held, StartOf
<1>2. CASE Sealed(w, l)
  BY <1>2 DEF Sealed, Held, StartOf
<1>3. CASE Removed(w, l)
  BY <1>3 DEF Removed, Held, StartOf, SoloInv, WireInv, LanesOK
<1>4. QED
  BY <1>1, <1>2, <1>3, LaneMoves DEF SoloInv, WireInv

\* Work that is new on the disk has not been published.
LEMMA RequestFree ==
  ASSUME SoloInv, NEW w \in Workers, NEW l \in Lanes, Requested(w, l)
  PROVE  /\ UNCHANGED <<hub, log>>
         /\ StartOf(w, l)' \in Int /\ Free(l, StartOf(w, l)')
         /\ l = "repair" => StartOf(w, l)' >= Earliest
<1>1. UNCHANGED <<hub, log>> /\ snapshot[w] # None /\ disk[w][l].ready = None
      /\ disk'[w][l].ready = None
  BY DEF Requested, Choose, hubVars
<1>2. Fresh(w, l)
  BY <1>1 DEF SoloInv, SnapshotOK, Vacant
<1>3. StartOf(w, l)' = disk'[w][l].request.start
  BY <1>1 DEF StartOf
<1>4. QED
  BY <1>1, <1>2, <1>3, FreshPlanFree DEF SoloInv, WireInv

LEMMA LateStep ==
  ASSUME OnePublisher, SoloInv, [Next]_vars PROVE LateOK'
<1> SUFFICES ASSUME NEW w \in Workers, NEW q \in late', q.parent = Len(log')
             PROVE  disk'[w][q.rec.kind].ready = q.rec
  BY DEF LateOK
<1>1. CASE /\ UNCHANGED <<hub, log>>
           /\ late' \subseteq late \cup {sent[v] : v \in {u \in Workers : sent[u] # None}}
           /\ \A v \in Workers : sent'[v] # None => sent'[v] = sent[v]
  <2>1. InFlight(q)
    BY <1>1 DEF InFlight
  <2>2. q \in Request
    BY TypeStep DEF SoloInv, WireInv, TypeInv, TypeOK
  <2>3. /\ q.rec.kind \in Lanes /\ disk[w][q.rec.kind].ready = q.rec /\ q.rec # None
        /\ ~Vacant(w, q.rec.kind)
    BY <2>1, <2>2, Holder
  <2>4. ~Requested(w, q.rec.kind) /\ ~Sealed(w, q.rec.kind) /\ ~Removed(w, q.rec.kind)
    BY <2>3 DEF Requested, Sealed, Removed, Vacant
  <2>5. QED
    BY <2>3, <2>4, LaneMoves DEF SoloInv, WireInv
<1>2. ASSUME NEW v \in Workers, Send(v) PROVE disk'[w][q.rec.kind].ready = q.rec
  BY <1>2 DEF Send, hubVars, diskVars, SoloInv, LateOK
<1>3. late' # {}
  OBVIOUS
<1>4. QED
  BY <1>1, <1>2, <1>3, WireMoves, LegacyAppends DEF Commit, SoloInv, WireInv

LEMMA UniqueStep ==
  ASSUME OnePublisher, SoloInv, [Next]_vars PROVE Unique'
<1> SUFFICES ASSUME NEW w \in Workers, NEW l \in Lanes, Held(w, l)', NEW i \in DOMAIN log',
                    log'[i].kind = l, log'[i].start = StartOf(w, l)'
             PROVE  log'[i] = hub'.commits[l]
  BY DEF Unique
<1>0. log \in Seq(Record) /\ hub \in Progress
  BY DEF SoloInv, WireInv, TypeInv, TypeOK
<1>1. CASE Requested(w, l)
  BY <1>1, RequestFree, FreeNotTaken DEF OnePublisher, SoloInv, WireInv
<1>2. CASE ~Requested(w, l)
  <2>1. Held(w, l) /\ StartOf(w, l)' = StartOf(w, l)
    BY <1>2, StartKept
  <2>2. CASE UNCHANGED <<hub, log>>
    BY <2>1, <2>2 DEF SoloInv, Unique
  <2>3. ASSUME NEW q \in Request, InFlight(q), Commit(q) PROVE log'[i] = hub'.commits[l]
    <3>1. /\ q.rec.kind \in Lanes /\ q.rec \in Record /\ q.rec # None
          /\ disk[w][q.rec.kind].ready = q.rec
          /\ \A j \in DOMAIN log : ~(log[j].kind = q.rec.kind /\ log[j].start = q.rec.start)
      BY <2>3, Holder
    <3>2. /\ log' = Append(log, q.rec)
          /\ hub'.commits = [hub.commits EXCEPT ![q.rec.kind] = q.rec]
      BY <2>3 DEF Commit, SoloInv, WireInv, WireAcks
    <3>3. hub.commits \in [Lanes -> Record \cup {None}]
      BY <1>0 DEF Progress
    <3>4. CASE i \notin DOMAIN log
      <4>1. log'[i] = q.rec
        BY <1>0, <3>1, <3>2, <3>4, AppendFacts
      <4>2. QED
        BY <3>1, <3>2, <3>3, <4>1
    <3>5. CASE i \in DOMAIN log
      <4>1. log'[i] = log[i]
        BY <1>0, <3>1, <3>2, <3>5, AppendFacts
      <4>2. l # q.rec.kind
        BY <2>1, <3>1, <3>5, <4>1 DEF StartOf
      <4>3. log[i] = hub.commits[l]
        BY <2>1, <3>5, <4>1 DEF SoloInv, Unique
      <4>4. QED
        BY <3>2, <3>3, <4>1, <4>2, <4>3
    <3>6. QED
      BY <3>4, <3>5
  <2>4. CASE LegacyForward \/ LegacyRepair
    <3>1. PICK r \in Record :
            log' = Append(log, r) /\ ~hub.scheduled /\ (r.kind = "forward" \/ r.kind = "repair")
      BY <2>4, LegacyAppends DEF SoloInv, WireInv
    <3>2. r.kind = "forward"
      <4>1. LegacyForward
        BY <2>4 DEF OnePublisher, LegacyRepair
      <4>2. \E x \in Record : log' = Append(log, x) /\ x.kind = "forward"
        BY <4>1, LegacyForwardFacts DEF SoloInv, WireInv
      <4>3. QED
        BY <1>0, <3>1, <4>2, AppendFacts
    <3>3. i \in DOMAIN log /\ log'[i] = log[i]
      BY <1>0, <3>1, <3>2, AppendFacts DEF Lanes
    <3>4. hub'.commits = hub.commits
      BY <2>4, <3>1, LegacyForgets DEF SoloInv, WireInv, WireAcks
    <3>5. QED
      BY <2>1, <3>3, <3>4 DEF SoloInv, Unique
  <2>5. ASSUME NEW v \in Workers, Send(v) PROVE UNCHANGED <<hub, log>>
    BY <2>5 DEF Send, hubVars
  <2>6. QED
    BY <2>2, <2>3, <2>4, <2>5, WireMoves DEF InFlight, SoloInv, WireInv
<1>3. QED
  BY <1>1, <1>2

\* A minute on the repair lane stays queued until its commit is in the history.
LEMMA QueueStep ==
  ASSUME OnePublisher, SoloInv, [Next]_vars PROVE QueueOK'
<1> SUFFICES ASSUME NEW w \in Workers, Held(w, "repair")'
             PROVE  LET m == StartOf(w, "repair")'
                    IN  /\ \/ m \in hub'.pending
                           \/ \E i \in DOMAIN log' : log'[i].kind = "repair" /\ log'[i].start = m
                        /\ \A q \in Request :
                             InFlight(q)' /\ q.rec.kind # "repair" /\ m \in hub'.pending =>
                               m \in q.progress.pending
  BY DEF QueueOK
<1> PICK m : m = StartOf(w, "repair")'
  OBVIOUS
<1>0. log \in Seq(Record) /\ "repair" \in Lanes
  BY DEF SoloInv, WireInv, TypeInv, TypeOK, Lanes
<1>1. CASE Requested(w, "repair")
  <2>1. UNCHANGED <<hub, log>> /\ m \in hub.pending /\ m >= Earliest
    BY <1>0, <1>1, RequestFree DEF Free
  <2>2. late' = late /\ sent' = sent
    BY <1>1 DEF Requested, Choose, hubVars
  <2>3. ASSUME NEW q \in Request, InFlight(q)', q.rec.kind # "repair"
        PROVE  m \in q.progress.pending
    <3>1. InFlight(q)
      BY <2>1, <2>2, <2>3 DEF InFlight
    <3>2. ValidMove(hub, q.rec, q.progress)
      BY <3>1, InFlightMoves DEF SoloInv, WireInv
    <3>3. QED
      BY <2>1, <2>3, <3>2 DEF ValidMove, Requeued
  <2>4. QED
    BY <2>1, <2>3
<1>2. CASE ~Requested(w, "repair")
  <2>1. Held(w, "repair") /\ m = StartOf(w, "repair")
    BY <1>0, <1>2, StartKept
  <2>2. /\ m \in hub.pending \/ \E i \in DOMAIN log : log[i].kind = "repair" /\ log[i].start = m
        /\ \A q \in Request :
             InFlight(q) /\ q.rec.kind # "repair" /\ m \in hub.pending => m \in q.progress.pending
    BY <2>1 DEF SoloInv, QueueOK
  <2>3. hub.scheduled
    BY <1>0, <2>1 DEF SoloInv, WireInv, LanesOK
  <2>4. CASE /\ UNCHANGED <<hub, log>>
             /\ late' \subseteq late \cup {sent[v] : v \in {u \in Workers : sent[u] # None}}
             /\ \A v \in Workers : sent'[v] # None => sent'[v] = sent[v]
    BY <2>2, <2>4, WireQuiet
  <2>5. ASSUME NEW v \in Workers, Send(v)
        PROVE  /\ m \in hub'.pending
                    \/ \E i \in DOMAIN log' : log'[i].kind = "repair" /\ log'[i].start = m
               /\ \A q \in Request :
                    InFlight(q)' /\ q.rec.kind # "repair" /\ m \in hub'.pending =>
                      m \in q.progress.pending
    <3>1. v = w
      BY DEF OnePublisher
    <3>2. PICK r \in Record, p \in Progress :
            /\ sent' = [sent EXCEPT ![w] = [parent |-> Len(log), rec |-> r, progress |-> p]]
            /\ p = Advanced(Base(w), r, Protected(w))
            /\ Base(w) = hub \/ ~hub.scheduled
            /\ UNCHANGED <<hub, log, late>>
      BY <2>5, <3>1, SendFacts DEF SoloInv, WireInv
    <3> DEFINE n == [parent |-> Len(log), rec |-> r, progress |-> p]
    <3>3. n.rec = r /\ n.progress = p
      OBVIOUS
    <3> HIDE DEF n
    <3>4. \A u \in Workers : sent'[u] = IF u = w THEN n ELSE sent[u]
      BY <3>2 DEF n, SoloInv, WireInv, TypeInv, TypeOK
    <3>5. \A q : InFlight(q)' => InFlight(q) \/ q = n
      BY <3>2, <3>4 DEF InFlight
    <3>6. Protected(w) = {m}
      BY <1>0, <2>1, PendingFacts DEF Protected, SoloInv, WireInv
    <3>7. p.pending = Queue(hub.pending, r, {m})
      BY <2>3, <3>2, <3>6 DEF Advanced
    <3>8. r.kind # "repair" /\ m \in hub.pending => m \in p.pending
      BY <3>7 DEF Queue
    <3>9. QED
      BY <2>2, <3>2, <3>3, <3>5, <3>8
  <2>6. ASSUME NEW q \in Request, InFlight(q), Commit(q), sent' = sent
        PROVE  /\ m \in hub'.pending
                    \/ \E i \in DOMAIN log' : log'[i].kind = "repair" /\ log'[i].start = m
               /\ \A x : ~InFlight(x)'
    <3>1. q.rec \in Record /\ disk[w][q.rec.kind].ready = q.rec /\ q.rec # None
      BY <2>6, Holder
    <3>2. hub' = q.progress /\ log' = Append(log, q.rec) /\ late' = {}
      BY <2>6 DEF Commit
    <3>3. \A x : ~InFlight(x)'
      BY <2>6, <3>1, <3>2, WireEmpty DEF SoloInv, WireInv
    <3>4. /\ \A i \in DOMAIN log : i \in DOMAIN log' /\ log'[i] = log[i]
          /\ \E i \in DOMAIN log' : log'[i] = q.rec
      BY <1>0, <3>1, <3>2, AppendFacts
    <3>5. q.rec.kind = "repair" => q.rec.start = m
      BY <2>1, <3>1 DEF StartOf
    <3>6. QED
      BY <2>2, <2>6, <3>2, <3>3, <3>4, <3>5
  <2>7. ~LegacyForward /\ ~LegacyRepair
    BY <2>3 DEF LegacyForward, LegacyRepair
  <2>8. QED
    BY <2>4, <2>5, <2>6, <2>7, WireMoves DEF InFlight, SoloInv, WireInv
<1>3. QED
  BY <1>1, <1>2

\* What Judge leaves of the process and its snapshot.
LEMMA JudgeProcess ==
  ASSUME TypeInv, NEW w \in Workers, NEW r, Judge(w, r)
  PROVE  \/ Abandon(w)
         \/ /\ pc'[w] = IF plan[w].lane = "repair" /\ r.missing # {} THEN "clean" ELSE "publish"
            /\ UNCHANGED <<snapshot, plan, sent>>
  BY DEF Judge, TypeInv, TypeOK

LEMMA SentStep ==
  ASSUME OnePublisher, SoloInv, [Next]_vars PROVE SentOK'
<1> SUFFICES ASSUME NEW w \in Workers PROVE SentOf(w)'
  BY DEF SentOK
<1>0. TypeInv /\ Len(log) \in Nat /\ SentOf(w)
  BY DEF SoloInv, WireInv, SentOK, TypeInv, TypeOK
<1>1. ASSUME pc'[w] \in {"idle", "build", "publish", "clean"}, sent'[w] = None PROVE SentOf(w)'
  BY <1>1 DEF SentOf
<1>2. CASE Abandon(w)
  BY <1>0, <1>1, <1>2 DEF Abandon, TypeInv, TypeOK
<1>3. pc[w] \in {"idle", "build", "publish", "clean"} => sent[w] = None
  BY <1>0 DEF SentOf
<1>4. CASE Refresh(w) \/ (\E l \in Lanes : Choose(w, l)) \/ FindAcknowledged(w) \/ Clean(w)
  BY <1>0, <1>1, <1>3, <1>4 DEF Refresh, Choose, FindAcknowledged, Clean, TypeInv, TypeOK
<1>5. CASE Collect(w) \/ Reuse(w)
  <2>1. pc[w] = "build" /\ \E r : Judge(w, r)
    BY <1>5 DEF Collect, Reuse
  <2>2. QED
    BY <1>0, <1>1, <1>2, <1>3, <2>1, JudgeProcess
<1>6. CASE Send(w)
  <2>1. pc'[w] = "commit"
    BY <1>0, <1>6 DEF Send, TypeInv, TypeOK
  <2>2. QED
    BY <2>1 DEF SentOf
<1>7. CASE Confirm(w)
  BY <1>0, <1>1, <1>7 DEF Confirm, TypeInv, TypeOK
<1>8. CASE Land(w)
  <2>1. /\ sent[w] # None /\ sent[w] \in Request /\ sent[w].parent = Len(log)
        /\ log' = Append(log, sent[w].rec) /\ hub' = sent[w].progress /\ late' = {}
        /\ sent' = sent /\ pc'[w] = "landed"
    BY <1>0, <1>8, WorkerTypes DEF Land, Accepts, Commit, TypeInv, TypeOK, ProcOK
  <2>2. Len(log') = Len(log) + 1
    BY <1>0, <2>1, AppendFacts DEF TypeInv, TypeOK, Request
  <2>3. QED
    BY <1>0, <2>1, <2>2 DEF SentOf
<1>9. CASE LandLate \/ LegacyForward \/ LegacyRepair
  <2>1. pc' = pc /\ sent' = sent
    BY <1>9 DEF LandLate, LegacyForward, LegacyRepair, procVars
  <2>2. pc[w] # "landed"
    BY <1>0, <1>9 DEF LandLate, LegacyForward, LegacyRepair, SentOf, TypeInv, ProcOK
  <2>3. QED
    BY <1>0, <2>1, <2>2 DEF SentOf
<1>10. CASE Tick \/ UNCHANGED vars
  BY <1>0, <1>10 DEF Tick, SentOf, hubVars, procVars, vars
<1>11. \A v \in Workers : v = w
  BY DEF OnePublisher
<1>12. QED
  BY <1>2, <1>4, <1>5, <1>6, <1>7, <1>8, <1>9, <1>10, <1>11 DEF Next, Step, Raise, Fail, Crash

\* A snapshot that is kept stays good for the lanes it was good for while the
\* head does not move.
LEMMA FreshKept ==
  ASSUME TypeInv, NEW w \in Workers, NEW l \in Lanes, Fresh(w, l), snapshot[w] # None,
         hub' = hub, snapshot'[w] = snapshot[w], now' = now \/ now' = now + 1
  PROVE  Fresh(w, l)'
<1>1. /\ \A m \in snapshot[w].pending : m \in Int
      /\ now \in Int
  BY WorkerTypes DEF Progress
<1>2. \A m \in snapshot[w].pending : m >= Earliest' => m >= Earliest
  BY <1>1, MinuteAssumption DEF Earliest
<1>3. QED
  BY <1>2 DEF Fresh

\* The snapshot is out of date only for the lane whose commit landed, and that
\* lane plans nothing new.
LEMMA FreshCommit ==
  ASSUME OnePublisher, SoloInv, NEW w \in Workers, NEW l \in Lanes, Vacant(w, l),
         snapshot[w] # None, NEW q \in Request, InFlight(q), Commit(q),
         snapshot' = snapshot, now' = now
  PROVE  Fresh(w, l)'
<1>1. /\ ValidMove(hub, q.rec, q.progress) /\ hub' = q.progress
      /\ q.progress \in Progress /\ hub \in Progress
  BY InFlightMoves, WorkerTypes DEF Commit, SoloInv, WireInv
<1>2. l # q.rec.kind
  BY Holder
<1>3. Fresh(w, l)
  BY DEF SoloInv, SnapshotOK
<1>4. CASE ~snapshot[w].scheduled
  BY <1>1, <1>2, <1>3, <1>4 DEF Fresh, ValidMove
<1>5. CASE snapshot[w].scheduled
  <2>1. hub.scheduled
    BY <1>5 DEF SoloInv, WireInv, TypeInv, ProcOK
  <2>2. /\ l = "live" => q.progress.liveNext = hub.liveNext
        /\ l = "backfill" => q.progress.backEnd = hub.backEnd
        /\ q.progress.floor = hub.floor
    BY <1>1, <1>2, <2>1 DEF ValidMove
  <2>3. l = "repair" => \A m \in hub.pending : m >= Earliest => m \in q.progress.pending
    BY <1>1, <1>2 DEF ValidMove, Requeued
  <2>4. Earliest' = Earliest
    BY DEF Earliest
  <2>5. QED
    BY <1>1, <1>3, <1>5, <2>2, <2>3, <2>4 DEF Fresh
<1>6. QED
  BY <1>4, <1>5

LEMMA SnapshotStep ==
  ASSUME OnePublisher, SoloInv, [Next]_vars PROVE SnapshotOK'
<1> SUFFICES ASSUME NEW w \in Workers, NEW l \in Lanes, snapshot'[w] # None, Vacant(w, l)'
             PROVE  Fresh(w, l)'
  BY DEF SnapshotOK
<1>0. /\ TypeInv /\ hub \in Progress
      /\ pc \in [Workers -> {"idle", "build", "publish", "commit", "landed", "clean"}]
      /\ snapshot \in [Workers -> Progress \cup {None}]
      /\ disk \in [Workers -> [Lanes -> Batch]]
      /\ plan \in [Workers -> Plan \cup {None}]
  BY DEF SoloInv, WireInv, TypeInv, TypeOK
<1>1. ASSUME hub' = hub, snapshot'[w] = snapshot[w], now' = now \/ now' = now + 1,
             Vacant(w, l)
      PROVE  Fresh(w, l)'
  <2>1. Fresh(w, l)
    BY <1>1 DEF SoloInv, SnapshotOK
  <2>2. QED
    BY <1>0, <1>1, <2>1, FreshKept
<1>2. ASSUME snapshot'[w] = hub' PROVE Fresh(w, l)'
  BY <1>2 DEF Fresh
<1>3. ~Abandon(w)
  BY <1>0 DEF Abandon
<1>4. CASE Refresh(w)
  BY <1>0, <1>2, <1>4 DEF Refresh, hubVars
<1>5. CASE \E k \in Lanes : Choose(w, k)
  <2>1. pc[w] = "idle" /\ pc'[w] = "build" /\ UNCHANGED <<hub, snapshot, now>>
    BY <1>0, <1>5 DEF Choose, hubVars
  <2>2. disk'[w][l].ready = disk[w][l].ready
    BY <1>0, <2>1, LaneMoves DEF Requested, Sealed, Removed, Collect
  <2>3. QED
    BY <1>1, <2>1, <2>2 DEF Vacant
<1>6. ASSUME NEW r, Judge(w, r), UNCHANGED <<hub, now>>,
             \/ disk' = disk /\ r = disk[w][plan[w].lane].ready
             \/ disk[w][plan[w].lane].ready = None
                /\ \A k \in Lanes : k # plan[w].lane => disk'[w][k] = disk[w][k]
      PROVE  Fresh(w, l)'
  <2>1. /\ pc'[w] = IF plan[w].lane = "repair" /\ r.missing # {} THEN "clean" ELSE "publish"
        /\ UNCHANGED <<snapshot, plan>>
    BY <1>0, <1>3, <1>6, JudgeProcess
  <2>2. Vacant(w, l)
    <3>1. CASE disk' = disk /\ r = disk[w][plan[w].lane].ready
      BY <2>1, <3>1 DEF Vacant
    <3>2. CASE /\ disk[w][plan[w].lane].ready = None
               /\ \A k \in Lanes : k # plan[w].lane => disk'[w][k] = disk[w][k]
      BY <2>1, <3>2 DEF Vacant
    <3>3. QED
      BY <1>6, <3>1, <3>2
  <2>3. QED
    BY <1>1, <1>6, <2>1, <2>2
<1>7. CASE Collect(w)
  <2>1. \E r : /\ Judge(w, r) /\ disk[w][plan[w].lane].ready = None
               /\ \E b : disk' = [disk EXCEPT ![w][plan[w].lane] = b]
    BY <1>7 DEF Collect, SetBatch, Working
  <2>2. UNCHANGED <<hub, now>>
    BY <1>7 DEF Collect, hubVars
  <2>3. ASSUME NEW b, disk' = [disk EXCEPT ![w][plan[w].lane] = b]
        PROVE  \A k \in Lanes : k # plan[w].lane => disk'[w][k] = disk[w][k]
    BY <1>0, <2>3
  <2>4. QED
    BY <1>6, <2>1, <2>2, <2>3
<1>8. CASE Reuse(w)
  BY <1>6, <1>8 DEF Reuse, Working, hubVars, diskVars
<1>9. CASE FindAcknowledged(w)
  <2>1. pc[w] = "publish" /\ snapshot'[w] = Base(w) /\ hub' = hub
        /\ Acknowledged(Base(w), Working(w).ready)
    BY <1>0, <1>9 DEF FindAcknowledged, hubVars
  <2>2. hub.scheduled
    BY <1>0, <2>1, AcknowledgedScheduled
  <2>3. QED
    BY <1>2, <2>1, <2>2 DEF Base
<1>10. CASE Send(w)
  <2>1. pc'[w] = "commit" /\ UNCHANGED <<hub, disk, snapshot, now>>
    BY <1>0, <1>10 DEF Send, hubVars, diskVars
  <2>2. QED
    BY <1>1, <2>1 DEF Vacant
<1>11. CASE Confirm(w)
  <2>1. snapshot'[w] = sent[w].progress /\ hub' = hub /\ pc[w] = "landed"
    BY <1>0, <1>11 DEF Confirm, hubVars
  <2>2. QED
    BY <1>2, <2>1 DEF SoloInv, SentOK, SentOf
<1>12. CASE Clean(w)
  <2>1. /\ pc[w] = "clean" /\ pc'[w] = "idle" /\ UNCHANGED <<hub, snapshot, now>>
        /\ disk' = [disk EXCEPT ![w][plan[w].lane] = EmptyBatch]
    BY <1>0, <1>12 DEF Clean, SetBatch, hubVars
  <2>2. l # plan[w].lane => disk'[w][l] = disk[w][l]
    BY <1>0, <2>1
  <2>3. QED
    BY <1>1, <2>1, <2>2 DEF Vacant
<1>13. CASE Land(w)
  <2>1. /\ sent[w] # None /\ sent[w] \in Request /\ InFlight(sent[w]) /\ Commit(sent[w])
        /\ pc'[w] = "landed" /\ UNCHANGED <<disk, snapshot, now>>
    BY <1>0, <1>13, WorkerTypes DEF Land, Accepts, InFlight, TypeInv, ProcOK, diskVars
  <2>2. Vacant(w, l)
    BY <2>1 DEF Vacant
  <2>3. QED
    BY <2>1, <2>2, FreshCommit
<1>14. CASE LandLate
  <2>1. PICK q \in late : q.parent = Len(log) /\ Commit(q)
    BY <1>14 DEF LandLate, Accepts
  <2>2. q \in Request /\ InFlight(q)
    BY <1>0, <2>1 DEF InFlight, TypeInv, TypeOK
  <2>3. UNCHANGED <<disk, pc, plan, snapshot, now>>
    BY <1>14 DEF LandLate, diskVars, procVars
  <2>4. Vacant(w, l)
    BY <2>3 DEF Vacant
  <2>5. QED
    BY <2>1, <2>2, <2>3, <2>4, FreshCommit
<1>15. CASE LegacyForward \/ LegacyRepair
  <2>1. ~hub.scheduled /\ ~hub'.scheduled /\ snapshot' = snapshot
    BY <1>15, LegacyAppends DEF SoloInv, WireInv
  <2>2. ~snapshot[w].scheduled
    BY <1>0, <2>1 DEF TypeInv, ProcOK
  <2>3. QED
    BY <2>1, <2>2 DEF Fresh
<1>16. CASE Tick \/ UNCHANGED vars
  <2>1. UNCHANGED <<hub, disk, pc, plan, snapshot>> /\ (now' = now \/ now' = now + 1)
    BY <1>16 DEF Tick, hubVars, diskVars, procVars, vars
  <2>2. QED
    BY <1>1, <2>1 DEF Vacant
<1>17. CASE Raise(w) \/ Fail(w) \/ Crash(w)
  BY <1>3, <1>17 DEF Raise, Fail, Crash
<1>18. \A v \in Workers : v = w
  BY DEF OnePublisher
<1>19. QED
  BY <1>4, <1>5, <1>7, <1>8, <1>9, <1>10, <1>11, <1>12, <1>13, <1>14, <1>15, <1>16, <1>17, <1>18
  DEF Next, Step

LEMMA SoloCorrect ==
  ASSUME OnePublisher PROVE Spec => []SoloInv
<1>1. Init => SoloInv
  <2> SUFFICES ASSUME Init PROVE SoloInv
    OBVIOUS
  <2>1. TypeInv /\ HistInv
    BY InitTypes, HistInit DEF TypeInv
  <2>2. AckOK /\ BatchOK /\ WireAcks /\ LogRepairs
    BY DEF Init, AckOK, BatchOK, BatchOf, WireAcks, LogRepairs, InFlight, Legacy, NoCommits
  <2>3. \A w \in Workers, l \in Lanes : ~Held(w, l)
    BY DEF Init, Held, EmptyBatch
  <2>4. LanesOK /\ Unique /\ QueueOK
    BY <2>3 DEF Init, LanesOK, Unique, QueueOK, EmptyBatch, Lanes
  <2>5. SentOK /\ LateOK /\ SnapshotOK
    BY DEF Init, SentOK, SentOf, LateOK, SnapshotOK
  <2>6. QED
    BY <2>1, <2>2, <2>4, <2>5 DEF SoloInv, WireInv
<1>2. SoloInv /\ [Next]_vars => SoloInv'
  <2> SUFFICES ASSUME SoloInv, [Next]_vars PROVE SoloInv'
    OBVIOUS
  <2>1. WireInv'
    BY TypeStep, HistStep, AckStep, BatchStep, WireAcksStep, LogRepairsStep, LanesStep
    DEF SoloInv, WireInv
  <2>2. QED
    BY <2>1, SentStep, LateStep, UniqueStep, SnapshotStep, QueueStep DEF SoloInv
<1>3. QED
  BY <1>1, <1>2, PTL DEF Spec

\* With one publisher, and no chronological repairs next to it, a batch whose
\* commit landed is acknowledged by its lane until the batch is gone, whatever
\* the other lanes publish in between: the retry after a lost response finds it
\* (publish, receipt_matches).
THEOREM LandedIsAcknowledgedHolds ==
  ASSUME OnePublisher PROVE Spec => []LandedIsAcknowledged
<1>1. SoloInv => LandedIsAcknowledged
  <2> SUFFICES ASSUME SoloInv, NEW w \in Workers, NEW l \in Lanes, NEW i \in DOMAIN log,
                      log[i] = disk[w][l].ready
               PROVE  hub.commits[l] = log[i]
    BY DEF LandedIsAcknowledged
  <2>1. log[i] \in Record /\ log[i] # None
    BY NoneAssumption DEF SoloInv, WireInv, TypeInv, TypeOK
  <2>2. log[i].kind = l
    BY <2>1, WorkerTypes DEF SoloInv, WireInv
  <2>3. QED
    BY <2>1, <2>2 DEF SoloInv, Unique, Held, StartOf
<1>2. QED
  BY <1>1, SoloCorrect, PTL

\* With one publisher a repair on the disk stays in the retry queue until it is
\* published, however old its minute becomes (protected_missing).
THEOREM RepairStaysQueuedHolds ==
  ASSUME OnePublisher PROVE Spec => []RepairStaysQueued
<1>1. SoloInv => RepairStaysQueued
  <2> SUFFICES ASSUME SoloInv, NEW w \in Workers, disk[w]["repair"].ready # None,
                      disk[w]["repair"].ready.missing = {},
                      disk[w]["repair"].ready.start \notin hub.pending
               PROVE  \E i \in DOMAIN log : log[i] = disk[w]["repair"].ready
    BY DEF RepairStaysQueued
  <2> DEFINE r == disk[w]["repair"].ready
  <2>1. "repair" \in Lanes
    BY DEF Lanes
  <2>2. /\ r \in Record /\ r.kind = "repair" /\ r.start = r.end /\ r.missing = {}
    BY <2>1, WorkerTypes DEF SoloInv, WireInv, LanesOK
  <2>3. PICK i \in DOMAIN log : log[i].kind = "repair" /\ log[i].start = r.start
    BY <2>1 DEF SoloInv, QueueOK, Held, StartOf
  <2>4. log[i] \in Record /\ log[i].start = log[i].end /\ log[i].missing = {}
    BY <2>3 DEF SoloInv, WireInv, LogRepairs, TypeInv, TypeOK
  <2>5. \A a, b \in Record :
          a.kind = b.kind /\ a.start = b.start /\ a.end = b.end /\ a.missing = b.missing => a = b
    BY DEF Record
  <2>6. log[i].kind = r.kind /\ log[i].start = r.start /\ log[i].end = r.end
        /\ log[i].missing = r.missing
    BY <2>2, <2>3, <2>4
  <2>7. log[i] = r
    BY <2>2, <2>4, <2>5, <2>6
  <2>8. QED
    BY <2>7
<1>2. QED
  BY <1>1, SoloCorrect, PTL
=============================================================================
