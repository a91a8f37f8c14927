--------------------------- MODULE Chronological ---------------------------
(***************************************************************************)
(* The publisher of compact_worker.py in its chronological mode: the loop  *)
(* of main without --latest-first, next_plan, build_batch and publish.     *)
(*                                                                         *)
(* A host has one state directory, held by a file lock: one process, one   *)
(* batch directory, one late-retries.json.  All hosts publish to one       *)
(* dataset, whose head is a revision, a progress.json and a tree of data   *)
(* shards; a commit names its parent revision.                             *)
(*                                                                         *)
(* A minute is an integer, a batch is its record, equal records have equal *)
(* receipts, and a minute that is published counts as one observation.     *)
(* Every other exception is a step of Fail.  A checkpoint with a schedule  *)
(* is refused as one of another pipeline is: the handover to the           *)
(* latest-first mode is the subject of LatestFirst.                        *)
(***************************************************************************)
EXTENDS Integers, FiniteSets, FiniteSetsExt

CONSTANTS
  Hosts,         \* machines that run the publisher
  None,          \* absent file, nothing sent, no work done yet
  First,         \* --start
  Clock0,        \* minute shown by the clocks in the initial state
  LastClock,     \* bound: the last minute the clocks reach
  Lag,           \* --lag-minutes
  NearMinutes,   \* distance from the cutoff that counts as near live (10)
  BatchMinutes,  \* --batch-minutes
  Window,        \* --collect-window-minutes
  Retry,         \* --retry-missing-hours, in minutes
  MaxFaults      \* bound: failures and crashes in a behaviour

ASSUME ChronologicalAssumption ==
  /\ First \in Int /\ Clock0 \in Int /\ LastClock \in Int
  /\ Lag \in Nat /\ NearMinutes \in Nat /\ Retry \in Nat
  /\ BatchMinutes \in Nat \ {0} /\ Window \in Nat \ {0} /\ MaxFaults \in Nat

VARIABLES
  hub,      \* progress.json at the head revision
  rev,      \* the head revision
  tree,     \* the data shards of the head revision
  late,     \* commit requests on the wire whose sender no longer waits
  disk,     \* disk[h]: the batch directory
  waiting,  \* waiting[h]: minutes late-retries.json defers
  pc,       \* where the loop is
  last,     \* last_work_kind
  sent,     \* the commit request the loop waits for
  served,   \* source minutes that have been downloaded: they stay available
  now,      \* the clock
  faults    \* failures and crashes so far

hubVars == <<hub, rev, tree, late>>
hostVars == <<disk, waiting, pc, last, sent>>
vars == <<hub, rev, tree, late, disk, waiting, pc, last, sent, served, now, faults>>

-----------------------------------------------------------------------------
(* Data.                                                                   *)

Native == "native"                          \* PIPELINE of compact_worker
Pipelines == {Native, "plain", "enriched"}  \* v3, the four-column v2, v1
Kinds == {"forward", "repair"}

Plan == [kind : Kinds, start : Int, end : Int, pipeline : Pipelines]

\* ready.json: what one batch covers.
Record == [kind : Kinds, start : Int, end : Int, missing : SUBSET Int, pipeline : Pipelines]

Complete(r) == (r.start .. r.end) \ r.missing

\* A data shard: the batch it holds, and whether a migration wrote it.
Shard == [rec : Record, moved : BOOLEAN]

Progress == [pipeline : Pipelines, next : Int, action : Kinds, pending : SUBSET Int,
             receipt : Record \cup {None}, total : Nat]

Batch == [request : Plan \cup {None}, ready : Record \cup {None}, intact : BOOLEAN]
EmptyBatch == [request |-> None, ready |-> None, intact |-> FALSE]

Request == [parent : Nat, rec : Record, progress : Progress]

ASSUME NoneAssumption ==
  None \notin Record /\ None \notin Plan /\ None \notin Progress /\ None \notin Request

\* The remote progress, with the defaults of an empty dataset.
Remote ==
  IF hub # None THEN hub
  ELSE [pipeline |-> Native, next |-> First, action |-> "forward", pending |-> {},
        receipt |-> None, total |-> 0]

Cutoff == now - Lag
Earliest == now - Retry

\* pending_within_window
Retryable == {m \in Remote.pending : m >= Earliest}

-----------------------------------------------------------------------------
(* Planning.                                                               *)

NearLive == Remote.next >= Cutoff - NearMinutes

\* What next_plan takes for the last action: this process's, then the remote.
LastAction(h) == IF last[h] # None THEN last[h] ELSE Remote.action

Due(h) == Retryable \ waiting[h]

\* A late file is looked for when nothing else is to do, or after forward work.
RepairTurn(h) ==
  /\ Due(h) # {}
  /\ Remote.next > Cutoff \/ (NearLive /\ LastAction(h) # "repair")

\* The end of the next forward batch: one minute near the edge, a span behind.
ForwardEnd ==
  LET span == IF NearLive \/ hub = None THEN 1 ELSE BatchMinutes
  IN  IF Remote.next + span - 1 <= Cutoff THEN Remote.next + span - 1 ELSE Cutoff

\* next_plan; which due minute comes first is left open.
NextPlans(h) ==
  IF RepairTurn(h)
    THEN {[kind |-> "repair", start |-> m, end |-> m, pipeline |-> Native] : m \in Due(h)}
    ELSE {[kind |-> "forward", start |-> Remote.next, end |-> ForwardEnd,
           pipeline |-> Native] : x \in {y \in {Remote.next} : y <= Cutoff}}

-----------------------------------------------------------------------------
(* Publication.                                                            *)

\* Mutant: any checkpoint is continued.
OursAlways == TRUE

\* The checks on the pipeline of the remote checkpoint.
Ours == Remote.pipeline = Native

\* Mutant: only an unchanged cursor counts as the commit of this batch.
AcknowledgedByCursor(r) == Remote.next = r.end + 1

\* The last commit carried this batch.
Acknowledged(r) == Remote.receipt = r

\* Mutant: a batch from before the cursor is published again.
FitsBehind(r) ==
  IF r.kind = "repair" THEN r.start = r.end /\ r.start \in Remote.pending /\ r.missing = {}
  ELSE r.start <= Remote.next

\* The conflict checks of publish.
Fits(r) ==
  IF r.kind = "repair" THEN r.start = r.end /\ r.start \in Remote.pending /\ r.missing = {}
  ELSE r.start = Remote.next

\* Mutant: what a batch misses does not join the queue.
AdvancedNoQueue(r) ==
  [pipeline |-> Native, next |-> IF r.kind = "repair" THEN Remote.next ELSE r.end + 1,
   action |-> r.kind, pending |-> Retryable \ {r.start},
   receipt |-> r, total |-> Remote.total + Cardinality(Complete(r))]

\* The progress published with r.
Advanced(r) ==
  LET kept == IF r.kind = "repair" THEN Remote.pending \ {r.start} ELSE Remote.pending
  IN  [pipeline |-> Native,
       next |-> IF r.kind = "repair" THEN Remote.next ELSE r.end + 1,
       action |-> r.kind,
       pending |-> {m \in kept \cup r.missing : m >= Earliest},
       receipt |-> r,
       total |-> Remote.total + Cardinality(Complete(r))]

-----------------------------------------------------------------------------
Init ==
  /\ hub = None /\ rev = 0 /\ tree = {} /\ late = {}
  /\ disk = [h \in Hosts |-> EmptyBatch]
  /\ waiting = [h \in Hosts |-> {}]
  /\ pc = [h \in Hosts |-> "idle"]
  /\ last = [h \in Hosts |-> None]
  /\ sent = [h \in Hosts |-> None]
  /\ served = {}
  /\ now = Clock0
  /\ faults = 0

-----------------------------------------------------------------------------
(* The loop.                                                               *)

\* Mutant: a repair that found nothing does not count as work.
JudgeSilently(h, r, deferred) ==
  IF r.kind = "repair" /\ r.missing # {}
    THEN /\ pc' = [pc EXCEPT ![h] = "clean"]
         /\ waiting' = [waiting EXCEPT ![h] = deferred \cup {r.start}]
         /\ UNCHANGED last
    ELSE /\ pc' = [pc EXCEPT ![h] = "publish"]
         /\ waiting' = [waiting EXCEPT ![h] = deferred]
         /\ UNCHANGED last

\* A repair that found its minute still absent is deferred, not published.
Judge(h, r, deferred) ==
  IF r.kind = "repair" /\ r.missing # {}
    THEN /\ pc' = [pc EXCEPT ![h] = "clean"]
         /\ waiting' = [waiting EXCEPT ![h] = deferred \cup {r.start}]
         /\ last' = [last EXCEPT ![h] = "repair"]
    ELSE /\ pc' = [pc EXCEPT ![h] = "publish"]
         /\ waiting' = [waiting EXCEPT ![h] = deferred]
         /\ UNCHANGED last

\* The deferrals a turn keeps: minutes that are still in the queue.
Deferred(h) == waiting[h] \cap Retryable

\* The turn finds a finished batch.
TakeReady(h) ==
  /\ pc[h] = "idle" /\ Ours
  /\ disk[h].ready # None /\ disk[h].ready.pipeline = Native
  /\ Judge(h, disk[h].ready, Deferred(h))
  /\ UNCHANGED <<hubVars, disk, sent, served, now, faults>>

\* It finds a request, or plans one.
StartBuild(h) ==
  /\ pc[h] = "idle" /\ Ours
  /\ disk[h].ready = None
  /\ IF disk[h].request # None
       THEN disk[h].request.pipeline = Native /\ UNCHANGED disk
       ELSE \E p \in NextPlans(h) : disk' = [disk EXCEPT ![h].request = p]
  /\ pc' = [pc EXCEPT ![h] = "build"]
  /\ waiting' = [waiting EXCEPT ![h] = Deferred(h)]
  /\ UNCHANGED <<hubVars, last, sent, served, now, faults>>

\* A batch is sealed at the end of a collection window or of the request.
SealPoints(p) == {x \in p.start .. p.end : x = p.end \/ (x - p.start + 1) % Window = 0}

\* build_batch: collect the minutes and write ready.json.
Build(h) ==
  /\ pc[h] = "build"
  /\ LET p == disk[h].request
     IN  \E end \in SealPoints(p) : \E missing \in SUBSET ((p.start .. end) \ served) :
           LET r == [kind |-> p.kind, start |-> p.start, end |-> end,
                     missing |-> missing, pipeline |-> Native]
           IN  /\ disk' = [disk EXCEPT ![h].ready = r, ![h].intact = TRUE]
               /\ served' = served \cup Complete(r)
               /\ Judge(h, r, waiting[h])
  /\ UNCHANGED <<hubVars, sent, now, faults>>

\* publish: read the head again, check it, and send the commit.
Send(h) ==
  /\ pc[h] = "publish" /\ disk[h].intact /\ Ours
  /\ ~Acknowledged(disk[h].ready) /\ Fits(disk[h].ready)
  /\ sent' = [sent EXCEPT ![h] = [parent |-> rev, rec |-> disk[h].ready,
                                  progress |-> Advanced(disk[h].ready)]]
  /\ pc' = [pc EXCEPT ![h] = "commit"]
  /\ UNCHANGED <<hubVars, disk, waiting, last, served, now, faults>>

\* What main does after publish, given the progress it returned.
Settle(h, pending) ==
  /\ pc' = [pc EXCEPT ![h] = "clean"]
  /\ last' = [last EXCEPT ![h] = disk[h].ready.kind]
  /\ waiting' = [waiting EXCEPT ![h] = @ \cup (disk[h].ready.missing \cap pending)]

\* publish: the head already carries this batch.
FindAcknowledged(h) ==
  /\ pc[h] = "publish" /\ disk[h].intact /\ Ours
  /\ Acknowledged(disk[h].ready)
  /\ Settle(h, Remote.pending)
  /\ UNCHANGED <<hubVars, disk, sent, served, now, faults>>

\* The commit is verified.
Confirm(h) ==
  /\ pc[h] = "landed"
  /\ Settle(h, sent[h].progress.pending)
  /\ sent' = [sent EXCEPT ![h] = None]
  /\ UNCHANGED <<hubVars, disk, served, now, faults>>

Clean(h) ==
  /\ pc[h] = "clean"
  /\ disk' = [disk EXCEPT ![h] = EmptyBatch]
  /\ pc' = [pc EXCEPT ![h] = "idle"]
  /\ UNCHANGED <<hubVars, waiting, last, sent, served, now, faults>>

\* An exception: back to the top of the loop, the disk and last_work_kind stay.
Abandon(h) ==
  /\ pc' = [pc EXCEPT ![h] = "idle"]
  /\ sent' = [sent EXCEPT ![h] = None]

\* The exceptions the state itself provokes.
Refused(h) ==
  \/ /\ pc[h] = "publish"
     /\ \/ ~disk[h].intact \/ ~Ours
        \/ ~Acknowledged(disk[h].ready) /\ ~Fits(disk[h].ready)
  \/ pc[h] = "commit" /\ sent[h].parent # rev

Raise(h) ==
  /\ Refused(h)
  /\ Abandon(h)
  /\ UNCHANGED <<hubVars, disk, waiting, last, served, now, faults>>

\* The delay of a deferred minute is over (at most five minutes).
Expire(h) ==
  /\ \E m \in waiting[h] : waiting' = [waiting EXCEPT ![h] = @ \ {m}]
  /\ UNCHANGED <<hubVars, disk, pc, last, sent, served, now, faults>>

-----------------------------------------------------------------------------
(* Failures and the Hub.                                                   *)

\* A host that stops waiting may leave its request on the wire.
MayLinger(h) ==
  IF pc[h] = "commit" /\ sent[h].parent = rev
    THEN late' \in {late, late \cup {sent[h]}}
    ELSE UNCHANGED late

Fail(h) ==
  /\ faults < MaxFaults /\ pc[h] # "idle"
  /\ Abandon(h) /\ MayLinger(h)
  /\ faults' = faults + 1
  /\ UNCHANGED <<hub, rev, tree, disk, waiting, last, served, now>>

\* What an interrupted removal leaves of a batch.
Debris(b) ==
  {d \in [request : {b.request, None}, ready : {b.ready, None}, intact : {b.intact, FALSE}] :
     d.intact => d.ready # None}

\* Power failure and restart: last_work_kind is lost.
Crash(h) ==
  /\ faults < MaxFaults
  /\ Abandon(h) /\ MayLinger(h)
  /\ last' = [last EXCEPT ![h] = None]
  /\ IF pc[h] = "clean" THEN \E b \in Debris(disk[h]) : disk' = [disk EXCEPT ![h] = b]
                        ELSE UNCHANGED disk
  /\ faults' = faults + 1
  /\ UNCHANGED <<hub, rev, tree, waiting, served, now>>

\* Mutant: the parent revision is not compared.
AcceptsAnything(q) == TRUE

\* create_commit with parent_commit: only a request on the head is applied.
Accepts(q) == q.parent = rev

\* One commit: a batch with rows adds a shard, progress.json is replaced.
Commit(q) ==
  /\ rev' = rev + 1
  /\ hub' = q.progress
  /\ tree' = IF Complete(q.rec) = {} THEN tree ELSE tree \cup {[rec |-> q.rec, moved |-> FALSE]}

Land(h) ==
  /\ pc[h] = "commit"
  /\ Accepts(sent[h]) /\ Commit(sent[h])
  /\ pc' = [pc EXCEPT ![h] = "landed"]
  /\ UNCHANGED <<late, disk, waiting, last, sent, served, now, faults>>

LandLate ==
  /\ \E q \in late : Accepts(q) /\ Commit(q) /\ late' = late \ {q}
  /\ UNCHANGED <<hostVars, served, now, faults>>

Tick ==
  /\ now < LastClock
  /\ now' = now + 1
  /\ UNCHANGED <<hubVars, hostVars, served, faults>>

-----------------------------------------------------------------------------
Step(h) ==
  \/ TakeReady(h) \/ StartBuild(h) \/ Build(h) \/ Send(h)
  \/ FindAcknowledged(h) \/ Confirm(h) \/ Clean(h) \/ Raise(h)

Next ==
  \/ \E h \in Hosts : Step(h) \/ Land(h) \/ Expire(h) \/ Fail(h) \/ Crash(h)
  \/ LandLate \/ Tick

Spec == Init /\ [][Next]_vars
=============================================================================
