---------------------------- MODULE LatestFirst ----------------------------
(***************************************************************************)
(* The deployed publisher: latest_first_worker.py on top of the batch      *)
(* builder of compact_worker.py and the Hub client of worker.py.           *)
(*                                                                         *)
(* One worker is one host: a process that runs run_scheduler and a disk    *)
(* with one batch directory per lane.  All workers publish to one dataset  *)
(* on the Hub, whose history is a sequence of commits; progress.json is    *)
(* replaced by every commit and a commit names its parent revision.        *)
(*                                                                         *)
(* Abstractions:                                                           *)
(*  - a minute is an integer, a batch is its record (interval and missing  *)
(*    minutes), and equal records have equal receipts (sha256);            *)
(*  - a source minute answers 404 any number of times, until it is served; *)
(*  - which lane runs next is any lane with work.  The order, the backoffs *)
(*    and the due times are the subject of LaneScheduling;                 *)
(*  - a response of the Hub that does not arrive in time and any other     *)
(*    exception are steps of Fail; a power failure and the restart that    *)
(*    follows are one step of Crash.                                       *)
(***************************************************************************)
EXTENDS Integers, Sequences, FiniteSets

CONSTANTS
  Workers,     \* hosts that run the latest-first publisher
  None,        \* absent file, absent snapshot, nothing sent
  First,       \* --start: the first minute ever collected
  Clock0,      \* minute shown by the clocks in the initial state
  LastClock,   \* bound: the last minute the clocks reach
  Lag,         \* --lag-minutes
  LiveSpan,    \* minutes of the first live window (15 in bootstrap)
  Retry,       \* --retry-missing-hours, in minutes
  Windows,     \* values --collect-window-minutes takes over restarts
  LegacyKinds, \* what a publisher of the old chronological mode still commits
  TornCleanup, \* a crash may interrupt the recursive removal of a batch
  MaxFaults    \* bound: failures and crashes in a behaviour

ASSUME MinuteAssumption ==
  /\ First \in Int /\ Clock0 \in Int /\ LastClock \in Int
  /\ Lag \in Nat /\ Retry \in Nat /\ LiveSpan \in Nat \ {0}
  /\ Windows # {} /\ Windows \subseteq Nat \ {0}

ASSUME FaultAssumption ==
  /\ LegacyKinds \subseteq {"forward", "repair"}
  /\ TornCleanup \in BOOLEAN
  /\ MaxFaults \in Nat

VARIABLES
  \* the Hub
  hub,      \* progress.json at the head revision
  log,      \* the records of the commits, oldest first; Len(log) is the head
  late,     \* commit requests on the wire whose sender no longer waits
  \* the disks
  disk,     \* disk[w][l]: the batch directory of lane l
  initial,  \* initial[w]: latest-first-bootstrap.json
  \* the processes
  pc,       \* where run_scheduler is
  snapshot, \* the progress it last read from the Hub
  plan,     \* the work it has chosen
  sent,     \* the commit request it waits for
  window,   \* its --collect-window-minutes
  \* the environment
  served,   \* source minutes that have been downloaded: they stay available
  now,      \* the clock
  faults    \* failures and crashes so far

hubVars == <<hub, log, late>>
diskVars == <<disk, initial>>
procVars == <<pc, snapshot, plan, sent, window>>
vars == <<hub, log, late, disk, initial, pc, snapshot, plan, sent, window, served, now, faults>>

-----------------------------------------------------------------------------
(* Data.                                                                   *)

Lanes == {"live", "backfill", "repair"}

Plan == [lane : Lanes, start : Int, end : Int]

\* ready.json: what one batch covers.  Its receipt is a hash of this record.
Record == [kind : Lanes \cup {"forward"}, start : Int, end : Int, missing : SUBSET Int]

\* Minutes whose articles the batch uploads.
Complete(r) == (r.start .. r.end) \ r.missing

\* progress.json.  A checkpoint of the chronological mode has scheduled FALSE
\* and only the forward cursor: its other cursors stand for absent keys.
Progress == [scheduled : BOOLEAN, floor : Int, liveStart : Int, liveNext : Int,
             backEnd : Int, pending : SUBSET Int, commits : [Lanes -> Record \cup {None}]]

Batch == [request : Plan \cup {None}, ready : Record \cup {None}, intact : BOOLEAN]

Request == [parent : Nat, rec : Record, progress : Progress]

\* An absent file is none of these.
ASSUME NoneAssumption ==
  None \notin Record /\ None \notin Plan /\ None \notin Progress /\ None \notin Request

NoCommits == [l \in Lanes |-> None]
EmptyBatch == [request |-> None, ready |-> None, intact |-> FALSE]

Legacy(next, queue) ==
  [scheduled |-> FALSE, floor |-> next, liveStart |-> next, liveNext |-> next,
   backEnd |-> next - 1, pending |-> queue, commits |-> NoCommits]

MinOf(a, b) == IF a <= b THEN a ELSE b
MaxOf(a, b) == IF a >= b THEN a ELSE b

Cutoff == now - Lag        \* newest minute a plan may contain
Earliest == now - Retry    \* oldest minute the retry queue keeps

-----------------------------------------------------------------------------
(* Planning.                                                               *)

\* Mutant: the backward cursor leaves out the minute below the seam.
BootstrapHole(p) ==
  LET seam == MaxOf(p.liveNext, Cutoff - (LiveSpan - 1))
  IN  [scheduled |-> TRUE, floor |-> p.liveNext, liveStart |-> seam, liveNext |-> seam,
       backEnd |-> seam - 2, pending |-> p.pending, commits |-> NoCommits]

\* Mutant: the retry queue of the chronological mode is not taken over.
BootstrapNoQueue(p) ==
  LET seam == MaxOf(p.liveNext, Cutoff - (LiveSpan - 1))
  IN  [scheduled |-> TRUE, floor |-> p.liveNext, liveStart |-> seam, liveNext |-> seam,
       backEnd |-> seam - 1, pending |-> {}, commits |-> NoCommits]

\* bootstrap: the seam between the live and the backward cursor.
Bootstrap(p) ==
  LET seam == MaxOf(p.liveNext, Cutoff - (LiveSpan - 1))
  IN  [scheduled |-> TRUE, floor |-> p.liveNext, liveStart |-> seam, liveNext |-> seam,
       backEnd |-> seam - 1, pending |-> p.pending, commits |-> NoCommits]

\* plan_for_lane: new work of a lane under progress p.  Which of the queued
\* minutes is due is left open.
LivePlans(p, span) ==
  IF p.liveNext > Cutoff THEN {}
  ELSE {[lane |-> "live", start |-> p.liveNext, end |-> MinOf(Cutoff, p.liveNext + span - 1)]}

BackfillPlans(p, span) ==
  IF p.backEnd < p.floor THEN {}
  ELSE {[lane |-> "backfill", start |-> MaxOf(p.floor, p.backEnd - span + 1), end |-> p.backEnd]}

RepairPlans(p) ==
  {[lane |-> "repair", start |-> m, end |-> m] : m \in {x \in p.pending : x >= Earliest}}

NewPlans(l, p, span) ==
  CASE l = "live"     -> LivePlans(p, span)
    [] l = "backfill" -> BackfillPlans(p, span)
    [] l = "repair"   -> RepairPlans(p)

\* pending_plan: work already on the disk, ready.json before request.json.
PendingPlan(w, l) ==
  LET b == disk[w][l]
  IN  IF b.ready # None
        THEN [lane |-> l, start |-> b.ready.start, end |-> b.ready.end]
        ELSE b.request

Plans(w, l, p) ==
  IF PendingPlan(w, l) # None THEN {PendingPlan(w, l)} ELSE NewPlans(l, p, window[w])

-----------------------------------------------------------------------------
(* Publication.                                                            *)

\* What publish starts from: the remote progress, or before the first live
\* commit the frozen bootstrap.
Base(w) == IF hub.scheduled THEN hub ELSE initial[w]

\* Mutant: the forward cursor may have moved since the bootstrap was frozen.
SeamUnchecked(w, r) == ~hub.scheduled => r.kind = "live"

\* The checks on a first publication.
SeamValid(w, r) ==
  ~hub.scheduled => hub.liveNext = initial[w].floor /\ r.kind = "live"

\* Mutant: a batch that has landed is not recognised.
NeverAcknowledged(p, r) == FALSE

\* receipt_matches on the acknowledgement of the lane.
Acknowledged(p, r) == p.commits[r.kind] = r

\* The interval checks of publish against progress p.
Fits(p, r) ==
  \/ r.kind = "live" /\ r.start = p.liveNext
  \/ r.kind = "backfill" /\ r.end = p.backEnd /\ r.start >= p.floor /\ r.end < p.liveStart
  \/ r.kind = "repair" /\ r.start = r.end /\ r.start \in p.pending /\ r.missing = {}

\* Mutant: only live batches queue what they miss.
QueueForgetsBackfill(queue, r, protected) ==
  {m \in (queue \ {r.start}) \cup (IF r.kind = "live" THEN r.missing ELSE {}) :
     m >= Earliest \/ m \in protected}

\* The retry queue after publishing r.
Queue(queue, r, protected) ==
  LET kept  == IF r.kind = "repair" THEN queue \ {r.start} ELSE queue
      added == {m \in r.missing : m >= Earliest}
  IN  {m \in kept \cup added : m >= Earliest \/ m \in protected}

\* Mutant: a commit forgets the acknowledgements of the other lanes.
AdvancedForgetful(p, r, protected) ==
  [p EXCEPT !.liveNext = IF r.kind = "live" THEN r.end + 1 ELSE @,
            !.backEnd = IF r.kind = "backfill" THEN r.start - 1 ELSE @,
            !.pending = Queue(@, r, protected),
            !.commits = [NoCommits EXCEPT ![r.kind] = r]]

\* Mutant: the acknowledgements are not kept by lane.
AdvancedUnkeyed(p, r, protected) ==
  [p EXCEPT !.liveNext = IF r.kind = "live" THEN r.end + 1 ELSE @,
            !.backEnd = IF r.kind = "backfill" THEN r.start - 1 ELSE @,
            !.pending = Queue(@, r, protected),
            !.commits = [l \in {r.kind} |-> r]]

\* The progress published with r.
Advanced(p, r, protected) ==
  [scheduled |-> p.scheduled, floor |-> p.floor, liveStart |-> p.liveStart,
   liveNext |-> IF r.kind = "live" THEN r.end + 1 ELSE p.liveNext,
   backEnd |-> IF r.kind = "backfill" THEN r.start - 1 ELSE p.backEnd,
   pending |-> Queue(p.pending, r, protected),
   commits |-> [p.commits EXCEPT ![r.kind] = r]]

\* Mutant: a repair in flight may leave the queue.
NothingProtected(w) == {}

\* The minute of a repair batch on the disk: it must not leave the queue.
Protected(w) ==
  IF PendingPlan(w, "repair") = None THEN {} ELSE {PendingPlan(w, "repair").start}

-----------------------------------------------------------------------------
Init ==
  /\ hub = Legacy(First, {})
  /\ log = <<>>
  /\ late = {}
  /\ disk = [w \in Workers |-> [l \in Lanes |-> EmptyBatch]]
  /\ initial = [w \in Workers |-> None]
  /\ pc = [w \in Workers |-> "idle"]
  /\ snapshot = [w \in Workers |-> None]
  /\ plan = [w \in Workers |-> None]
  /\ sent = [w \in Workers |-> None]
  /\ window \in [Workers -> Windows]
  /\ served = {}
  /\ now = Clock0
  /\ faults = 0

-----------------------------------------------------------------------------
(* The scheduler loop.                                                     *)

\* Read the remote progress; while it is not scheduled, freeze the seam once.
Refresh(w) ==
  /\ pc[w] = "idle"
  /\ snapshot' = [snapshot EXCEPT ![w] = hub]
  /\ initial' = IF hub.scheduled \/ initial[w] # None THEN initial
                ELSE [initial EXCEPT ![w] = Bootstrap(hub)]
  /\ UNCHANGED <<hubVars, disk, pc, plan, sent, window, served, now, faults>>

\* The batch directory of the lane in work.
Working(w) == disk[w][plan[w].lane]
SetBatch(w, l, b) == disk' = [disk EXCEPT ![w][l] = b]

\* Choose work under the snapshot, which may be out of date, and record the
\* request unless the lane already has one.  Before the first live commit only
\* the live lane may move.
Choose(w, l) ==
  /\ pc[w] = "idle"
  /\ snapshot[w] # None
  /\ snapshot[w].scheduled \/ l = "live"
  /\ LET effective == IF snapshot[w].scheduled THEN snapshot[w] ELSE initial[w]
     IN  \E p \in Plans(w, l, effective) :
           /\ plan' = [plan EXCEPT ![w] = p]
           /\ IF PendingPlan(w, l) = None
                THEN SetBatch(w, l, [disk[w][l] EXCEPT !.request = p])
                ELSE UNCHANGED disk
  /\ pc' = [pc EXCEPT ![w] = "build"]
  /\ UNCHANGED <<hubVars, initial, snapshot, sent, window, served, now, faults>>

\* An exception: forget the snapshot, keep the disk.
Abandon(w) ==
  /\ pc' = [pc EXCEPT ![w] = "idle"]
  /\ snapshot' = [snapshot EXCEPT ![w] = None]
  /\ plan' = [plan EXCEPT ![w] = None]
  /\ sent' = [sent EXCEPT ![w] = None]

\* Mutant: a live or backward batch with missing minutes is deferred like a repair.
JudgeDefersAll(w, r) ==
  IF plan[w].lane = "backfill" /\ r.end # plan[w].end
    THEN Abandon(w)
    ELSE /\ pc' = [pc EXCEPT ![w] = IF r.missing # {} THEN "clean" ELSE "publish"]
         /\ UNCHANGED <<snapshot, plan, sent>>

\* What run_scheduler does with the record build_batch returned.
Judge(w, r) ==
  IF plan[w].lane = "backfill" /\ r.end # plan[w].end
    THEN Abandon(w)
    ELSE /\ pc' = [pc EXCEPT ![w] = IF plan[w].lane = "repair" /\ r.missing # {}
                                      THEN "clean" ELSE "publish"]
         /\ UNCHANGED <<snapshot, plan, sent>>

\* A batch is sealed at the end of a collection window or of the request.
SealPoints(p, span) == {x \in p.start .. p.end : x = p.end \/ (x - p.start + 1) % span = 0}

\* build_batch with a request: collect its minutes and write ready.json.
Collect(w) ==
  /\ pc[w] = "build"
  /\ Working(w).ready = None /\ Working(w).request # None
  /\ \E end \in SealPoints(Working(w).request, window[w]) :
       \E missing \in SUBSET ((Working(w).request.start .. end) \ served) :
         LET r == [kind |-> plan[w].lane, start |-> Working(w).request.start,
                   end |-> end, missing |-> missing]
         IN  /\ SetBatch(w, plan[w].lane, [Working(w) EXCEPT !.ready = r, !.intact = TRUE])
             /\ served' = served \cup Complete(r)
             /\ Judge(w, r)
  /\ UNCHANGED <<hubVars, initial, window, now, faults>>

\* build_batch with a ready batch whose files still match it.
Reuse(w) ==
  /\ pc[w] = "build"
  /\ Working(w).ready # None /\ Working(w).intact
  /\ Judge(w, Working(w).ready)
  /\ UNCHANGED <<hubVars, diskVars, window, served, now, faults>>

\* publish: the lane already acknowledges this receipt.
FindAcknowledged(w) ==
  /\ pc[w] = "publish"
  /\ SeamValid(w, Working(w).ready)
  /\ Acknowledged(Base(w), Working(w).ready)
  /\ pc' = [pc EXCEPT ![w] = "clean"]
  /\ snapshot' = [snapshot EXCEPT ![w] = Base(w)]
  /\ UNCHANGED <<hubVars, diskVars, plan, sent, window, served, now, faults>>

\* publish: read the head, compute the progress and send the commit.
Send(w) ==
  /\ pc[w] = "publish"
  /\ SeamValid(w, Working(w).ready)
  /\ ~Acknowledged(Base(w), Working(w).ready)
  /\ Fits(Base(w), Working(w).ready)
  /\ sent' = [sent EXCEPT ![w] =
                [parent |-> Len(log), rec |-> Working(w).ready,
                 progress |-> Advanced(Base(w), Working(w).ready, Protected(w))]]
  /\ pc' = [pc EXCEPT ![w] = "commit"]
  /\ UNCHANGED <<hubVars, diskVars, snapshot, plan, window, served, now, faults>>

\* The commit is verified: its progress is the new snapshot.
Confirm(w) ==
  /\ pc[w] = "landed"
  /\ pc' = [pc EXCEPT ![w] = "clean"]
  /\ snapshot' = [snapshot EXCEPT ![w] = sent[w].progress]
  /\ sent' = [sent EXCEPT ![w] = None]
  /\ UNCHANGED <<hubVars, diskVars, plan, window, served, now, faults>>

\* remove_owned on the batch: the lane is done.
Clean(w) ==
  /\ pc[w] = "clean"
  /\ SetBatch(w, plan[w].lane, EmptyBatch)
  /\ pc' = [pc EXCEPT ![w] = "idle"]
  /\ plan' = [plan EXCEPT ![w] = None]
  /\ UNCHANGED <<hubVars, initial, snapshot, sent, window, served, now, faults>>

\* The exceptions the state itself provokes: a ready batch without its files, a
\* publication that conflicts with the remote progress, a commit whose parent
\* is no longer the head.
Refused(w) ==
  \/ pc[w] = "build" /\ Working(w).ready # None /\ ~Working(w).intact
  \/ pc[w] = "publish" /\ ~SeamValid(w, Working(w).ready)
  \/ /\ pc[w] = "publish"
     /\ ~Acknowledged(Base(w), Working(w).ready) /\ ~Fits(Base(w), Working(w).ready)
  \/ pc[w] = "commit" /\ sent[w].parent # Len(log)

Raise(w) ==
  /\ Refused(w)
  /\ Abandon(w)
  /\ UNCHANGED <<hubVars, diskVars, window, served, now, faults>>

-----------------------------------------------------------------------------
(* Failures.                                                               *)

\* A worker that stops waiting may leave its request on the wire.
MayLinger(w) ==
  IF pc[w] = "commit" /\ sent[w].parent = Len(log)
    THEN late' \in {late, late \cup {sent[w]}}
    ELSE UNCHANGED late

\* A source, disk, quota or network error, or a lost response.
Fail(w) ==
  /\ faults < MaxFaults
  /\ pc[w] # "idle"
  /\ Abandon(w)
  /\ MayLinger(w)
  /\ faults' = faults + 1
  /\ UNCHANGED <<hub, log, diskVars, window, served, now>>

\* What an interrupted removal leaves of a batch.
Debris(b) ==
  IF TornCleanup
    THEN {d \in [request : {b.request, None}, ready : {b.ready, None}, intact : {b.intact, FALSE}] :
            d.intact => d.ready # None}
    ELSE {b, EmptyBatch}

\* Power failure and restart, with any configured window.
Crash(w) ==
  /\ faults < MaxFaults
  /\ Abandon(w)
  /\ MayLinger(w)
  /\ IF pc[w] = "clean" THEN \E b \in Debris(Working(w)) : SetBatch(w, plan[w].lane, b)
                        ELSE UNCHANGED disk
  /\ \E span \in Windows : window' = [window EXCEPT ![w] = span]
  /\ faults' = faults + 1
  /\ UNCHANGED <<hub, log, initial, served, now>>

-----------------------------------------------------------------------------
(* The Hub.                                                                *)

\* Mutant: the parent revision is not compared.
AcceptsAnything(q) == TRUE

\* create_commit with parent_commit: only a request on the head is applied.
Accepts(q) == q.parent = Len(log)

\* One commit: the record joins the history and progress.json is replaced.
\* Requests with the old parent can only be refused now, so they are dropped.
Commit(q) ==
  /\ log' = Append(log, q.rec)
  /\ hub' = q.progress
  /\ late' = {}

Land(w) ==
  /\ pc[w] = "commit"
  /\ Accepts(sent[w])
  /\ Commit(sent[w])
  /\ pc' = [pc EXCEPT ![w] = "landed"]
  /\ UNCHANGED <<diskVars, snapshot, plan, sent, window, served, now, faults>>

LandLate ==
  /\ \E q \in late : Accepts(q) /\ Commit(q)
  /\ UNCHANGED <<diskVars, procVars, served, now, faults>>

\* A publisher of the chronological mode commits the next minutes ...
LegacyForward ==
  /\ "forward" \in LegacyKinds /\ ~hub.scheduled
  /\ \E end \in hub.liveNext .. Cutoff :
       \E missing \in SUBSET ((hub.liveNext .. end) \ served) :
         LET r == [kind |-> "forward", start |-> hub.liveNext, end |-> end,
                   missing |-> missing]
         IN  /\ Commit([rec |-> r,
                        progress |-> Legacy(end + 1,
                          {m \in hub.pending \cup missing : m >= Earliest})])
             /\ served' = served \cup Complete(r)
  /\ UNCHANGED <<diskVars, procVars, now, faults>>

\* ... or a minute of the retry queue.
LegacyRepair ==
  /\ "repair" \in LegacyKinds /\ ~hub.scheduled
  /\ \E m \in hub.pending :
       /\ Commit([rec |-> [kind |-> "repair", start |-> m, end |-> m, missing |-> {}],
                  progress |-> Legacy(hub.liveNext,
                                      {x \in hub.pending \ {m} : x >= Earliest})])
       /\ served' = served \cup {m}
  /\ UNCHANGED <<diskVars, procVars, now, faults>>

Tick ==
  /\ now < LastClock
  /\ now' = now + 1
  /\ UNCHANGED <<hubVars, diskVars, procVars, served, faults>>

-----------------------------------------------------------------------------
Step(w) ==
  \/ Refresh(w) \/ (\E l \in Lanes : Choose(w, l))
  \/ Collect(w) \/ Reuse(w)
  \/ FindAcknowledged(w) \/ Send(w) \/ Confirm(w) \/ Clean(w) \/ Raise(w)

Next ==
  \/ \E w \in Workers : Step(w) \/ Land(w) \/ Fail(w) \/ Crash(w)
  \/ LandLate \/ LegacyForward \/ LegacyRepair \/ Tick

Spec == Init /\ [][Next]_vars

-----------------------------------------------------------------------------
(* Types.                                                                  *)

\* TypeOK: every file, snapshot and request has the shape its writer gives it.
TypeOK ==
  /\ hub \in Progress
  /\ log \in Seq(Record)
  /\ late \subseteq Request
  /\ disk \in [Workers -> [Lanes -> Batch]]
  /\ initial \in [Workers -> Progress \cup {None}]
  /\ pc \in [Workers -> {"idle", "build", "publish", "commit", "landed", "clean"}]
  /\ snapshot \in [Workers -> Progress \cup {None}]
  /\ plan \in [Workers -> Plan \cup {None}]
  /\ sent \in [Workers -> Request \cup {None}]
  /\ window \in [Workers -> Windows]
  /\ served \subseteq Int
  /\ now \in Int
  /\ faults \in Nat

-----------------------------------------------------------------------------
(* Safety.                                                                 *)

Interval(r) == r.start .. r.end

\* The minutes progress.json claims: the retained prefix and what the two
\* cursors have passed.
Covered == (First .. hub.floor - 1) \cup (hub.backEnd + 1 .. hub.liveNext - 1)

\* What the history has published, and claimed without publishing.
Published == UNION {Complete(log[i]) : i \in DOMAIN log}
Gaps == (UNION {log[i].missing : i \in DOMAIN log}) \ Published

\* No minute's articles are uploaded by two commits, whatever the lanes, the
\* workers, lost responses and late requests do (publish, latest_first_worker).
NoMinuteTwice ==
  \A i, j \in DOMAIN log : i # j => Complete(log[i]) \cap Complete(log[j]) = {}

\* Repairs of the chronological mode, before the first live commit.
SeamRepairs ==
  {i \in DOMAIN log : log[i].kind = "repair" /\ \A j \in 1 .. i - 1 : log[j].kind # "live"}

\* Next to a chronological publisher that goes on through the handover, only
\* what it repairs after the seam was frozen can be published a second time:
\* every other pair of commits uploads different minutes, whichever mode,
\* lane and host they come from.
RepeatsOnlySeamRepairs ==
  \A i, j \in DOMAIN log :
    i # j /\ {i, j} \cap SeamRepairs = {} => Complete(log[i]) \cap Complete(log[j]) = {}

\* The cursors claim exactly the minutes some commit covers: backward chunks
\* meet the retained prefix and the live seam with no hole and no overlap.
CursorsMatchHistory == Covered = UNION {Interval(log[i]) : i \in DOMAIN log}

\* The retry queue holds every gap young enough to be retried: no lane, no
\* worker and no handover from the chronological mode drops one.
NoGapForgotten == {m \in Gaps : m >= Earliest} \subseteq hub.pending

\* The retry queue holds the gaps that are young enough and nothing that has
\* been published (pending_missing_minutes).
GapsQueued == NoGapForgotten /\ hub.pending \subseteq Gaps

\* A live or backward commit moves its own cursor forward and nothing else, a
\* repair moves none, and the seam and the schedule are never changed again.
CursorsMonotone ==
  [][hub.scheduled =>
       /\ hub'.scheduled
       /\ hub'.floor = hub.floor /\ hub'.liveStart = hub.liveStart
       /\ hub'.liveNext >= hub.liveNext /\ hub'.backEnd <= hub.backEnd
       /\ hub'.liveNext = hub.liveNext \/ hub'.backEnd = hub.backEnd]_hub

\* Local work is dropped only once its commit is in the history: the batch a
\* step removes is published, or a repair that found the minute still missing.
RemovedOnlyPublished ==
  [][\A w \in Workers, l \in Lanes :
       LET r == disk[w][l].ready
       IN  (r # None /\ disk'[w][l].ready # r) =>
             \/ \E i \in DOMAIN log : log[i] = r
             \/ l = "repair" /\ r.missing # {}]_disk

\* With one publisher, a batch whose commit landed is acknowledged by its lane
\* until the batch is gone, even if other lanes publish in between: the retry
\* after a lost response is recognised.
LandedIsAcknowledged ==
  \A w \in Workers, l \in Lanes :
    \A i \in DOMAIN log : log[i] = disk[w][l].ready => hub.commits[l] = log[i]

\* With one publisher, a repair on the disk stays in the retry queue until it
\* is published, however old its minute becomes (protected_missing).
RepairStaysQueued ==
  \A w \in Workers :
    LET r == disk[w]["repair"].ready
    IN  r # None => \/ r.missing # {}
                    \/ r.start \in hub.pending
                    \/ \E i \in DOMAIN log : log[i] = r

\* The history implements Coverage: whatever fails, every commit claims the
\* minutes next to what one side has claimed, or recovers a gap.
AbstractCoverage == INSTANCE Coverage WITH
  published <- Published, gaps <- Gaps, opened <- hub.scheduled,
  floor <- hub.floor, hi <- hub.backEnd, top <- hub.liveNext

ImplementsCoverage == AbstractCoverage!Spec

-----------------------------------------------------------------------------
(* Liveness, for one publisher whose failures are finite.                  *)

\* A worker that is not idle goes on; the Hub answers; every lane that keeps
\* having work gets its turn (what LaneScheduling shows of choose_work).
Fairness ==
  /\ WF_vars(Tick)
  /\ \A w \in Workers :
       /\ WF_vars(Refresh(w))
       /\ WF_vars(Collect(w) \/ Reuse(w))
       /\ WF_vars(FindAcknowledged(w) \/ Send(w) \/ Confirm(w) \/ Clean(w) \/ Raise(w))
       /\ WF_vars(Land(w))
       /\ \A l \in Lanes : SF_vars(Choose(w, l))

FairSpec == Spec /\ Fairness

\* Work retained on a disk is finished: its directory is empty again.
RetainedWorkFinishes ==
  \A w \in Workers, l \in Lanes :
    (disk[w][l] # EmptyBatch) ~> (disk[w][l] = EmptyBatch)
=============================================================================
