-------------------------- MODULE LaneScheduling --------------------------
(***************************************************************************)
(* Which lane runs next: choose_work and the retry bookkeeping of          *)
(* run_scheduler in latest_first_worker.py, after the first live commit.   *)
(*                                                                         *)
(* Time is relative.  The clock moves in half minutes, the first retry     *)
(* delay; a queued minute is its age, a timer is what is left of it, so    *)
(* the process may run for ever in finitely many states.  What a lane      *)
(* does with its turn is a step of Finish: it succeeds, finds its source   *)
(* still missing, raises an exception or meets the Hub's rate limit.       *)
(* LatestFirst models the turns themselves.                                *)
(***************************************************************************)
EXTENDS Integers, FiniteSets

CONSTANTS
  None,         \* no lane, no request on the disk
  Period,       \* half minutes between two source minutes (2)
  Fresh,        \* FRESH_RETRY_MINUTES
  Retry,        \* --retry-missing-hours
  Burst,        \* FRESH_REPAIR_BURST
  MissingCap,   \* longest delay of a missing minute (300 s)
  LaneCap,      \* longest delay of a failed lane (900 s)
  HubWaits,     \* cooldowns a 429 response may ask for
  LiveTime,     \* how long a turn of each lane takes
  BackfillTime,
  RepairTime,
  FailingLanes, \* lanes whose work may raise exceptions, any number of times
  MaxBacklog,   \* bound: live minutes counted exactly
  MaxTries,     \* bound: attempts counted exactly, enough to reach the caps
  MaxFaults     \* bound: rate limits and restarts in a behaviour

ASSUME TimeAssumption ==
  /\ Period \in Nat \ {0} /\ Fresh \in Nat /\ Retry \in Nat /\ Fresh <= Retry
  /\ MissingCap \in Nat \ {0} /\ LaneCap \in Nat \ {0}
  /\ HubWaits \subseteq Nat \ {0}
  /\ FailingLanes \subseteq {"live", "backfill", "repair"}
  /\ LiveTime \subseteq Nat /\ BackfillTime \subseteq Nat /\ RepairTime \subseteq Nat

\* The reserved probes divide a burst, so a longer streak may be counted modulo 4.
ASSUME BurstAssumption == Burst \in Nat \ {0} /\ Burst % 4 = 0

ASSUME NoneAssumption == None \notin Nat /\ None \notin {"live", "backfill", "repair"}

ASSUME BoundAssumption ==
  MaxBacklog \in Nat \ {0} /\ MaxTries \in Nat \ {0} /\ MaxFaults \in Nat

VARIABLES
  phase,    \* half minutes since the last whole minute
  backlog,  \* live minutes up to the cutoff that are not published
  history,  \* the backward cursor has not reached the floor
  queue,    \* late-retries.json over the retry queue: age -> next check, attempts
  held,     \* request.json of a lane: its minutes (live), its age (repair)
  retries,  \* scheduler-retries.json: what a failed lane still has to wait
  hubWait,  \* its "hub" entry: the cooldown of a 429
  streak,   \* repair_streak
  work,     \* the lane in work
  busy,     \* how long it still takes
  faults,   \* rate limits and restarts so far
  seen      \* history variable of the properties, read by no step

vars == <<phase, backlog, history, queue, held, retries, hubWait, streak, work, busy,
          faults, seen>>

-----------------------------------------------------------------------------
Lanes == {"live", "backfill", "repair"}

MinOf(a, b) == IF a <= b THEN a ELSE b
MaxOf(a, b) == IF a >= b THEN a ELSE b

\* 30 * 2 ** (attempts - 1) seconds, up to a limit: the delay of defer_missing
\* and of the exception handler.
Delay(attempts, cap) == LET d == 2 ^ (attempts - 1) IN IF d \in 0 .. cap THEN d ELSE cap

\* A queued minute without an entry in late-retries.json is due since ever.
Unscheduled == [check |-> -(Retry + 1), tries |-> 0]

Deferred(entry) ==
  LET tries == MinOf(entry.tries + 1, MaxTries)
  IN  [check |-> Delay(tries, MissingCap), tries |-> tries]

Idle == [wait |-> 0, attempts |-> 0]

FailedOnce(r) ==
  LET attempts == MinOf(r.attempts + 1, MaxTries)
  IN  [wait |-> Delay(attempts, LaneCap), attempts |-> attempts]

\* Ages of the minutes of a live request for n minutes: the oldest unpublished.
LiveAges(n) == {phase + Period * i : i \in (backlog - n) .. (backlog - 1)}

-----------------------------------------------------------------------------
(* plan_for_lane and choose_work.                                          *)

Due == {a \in DOMAIN queue : queue[a].check <= 0}

\* Fresh minutes are at most Fresh old, counted from the last whole minute.
IsFresh(a) == a - phase <= Fresh

\* The minute that has been due for longest, the older one of two.
Overdue(S) ==
  CHOOSE a \in S : \A b \in S \ {a} :
    queue[a].check < queue[b].check \/ (queue[a].check = queue[b].check /\ a > b)

\* The repair plan: fresh minutes first, unless this probe is reserved for an
\* older one.
RepairPlan(preferOlder) ==
  LET fresh == {a \in Due : IsFresh(a)}
      older == Due \ fresh
  IN  IF Due = {} THEN None
      ELSE Overdue(IF fresh # {} /\ ~(preferOlder /\ older # {}) THEN fresh ELSE older)

\* A request on the disk goes before new work of its lane.
Repair == IF held["repair"] # None THEN held["repair"] ELSE RepairPlan(FALSE)

RecentRepair == Repair # None /\ IsFresh(Repair)

\* Mutant: no probe is reserved.
NothingReserved == Repair

\* Every fourth probe is reserved, unless a request is on the disk.
ChosenRepair ==
  IF held["repair"] = None /\ streak % 4 = 3 THEN RepairPlan(TRUE) ELSE Repair

LanePlan(l) ==
  CASE l = "live"     -> IF held["live"] # None THEN held["live"]
                         ELSE IF backlog > 0 THEN backlog ELSE None
    [] l = "backfill" -> IF held["backfill"] # None \/ history THEN 0 ELSE None
    [] l = "repair"   -> ChosenRepair

\* Mutant: a burst of fresh minutes does not end.
NeverYield == ~RecentRepair /\ streak >= 1

\* Mutant: repairs always come last.
AlwaysYield == TRUE

\* After a burst, or after one probe of an older minute, history goes first.
YieldToBackfill == streak >= (IF RecentRepair THEN Burst ELSE 1)

\* The lanes that come before l in the order of this turn.
Before(l) ==
  CASE l = "live"     -> {}
    [] l = "backfill" -> IF YieldToBackfill THEN {"live"} ELSE {"live", "repair"}
    [] l = "repair"   -> IF YieldToBackfill THEN {"live", "backfill"} ELSE {"live"}

Eligible(l) == retries[l].wait = 0 /\ LanePlan(l) # None

-----------------------------------------------------------------------------
(* What the properties remember of the turns of one process.               *)

NothingSeen == [over |-> FALSE, probes |-> 0, passed |-> 0]

\* A new probe of a fresh minute passes over an older one that is due.
Passes == (\E a \in Due : ~IsFresh(a)) /\ IsFresh(LanePlan("repair"))

\* over: backfill could have run.  passed: probes in a row since the last
\* backward chunk that passed over an older minute, one being due all the time.
SeenStart(l) ==
  LET counted(n) == IF held["repair"] # None \/ ~Passes THEN 0 ELSE MinOf(n + 1, 4)
  IN  CASE l = "live"     -> seen
        [] l = "backfill" -> [seen EXCEPT !.probes = 0, !.passed = 0]
        [] l = "repair"   -> [seen EXCEPT !.over = Eligible("backfill"), !.passed = counted(@)]

\* probes: probes completed since backfill could have run.
SeenEnd(l) ==
  IF l = "repair" THEN [seen EXCEPT !.probes = IF seen.over THEN MinOf(@ + 1, Burst + 1) ELSE @]
                  ELSE seen

-----------------------------------------------------------------------------
\* A process that starts on what the Hub and the disk hold: a queue without
\* recorded checks, no work in progress.
Init ==
  /\ phase = 0 /\ backlog = 1 /\ history = TRUE
  /\ \E S \in SUBSET {a \in 1 .. Retry : a % Period = 0} : queue = [a \in S |-> Unscheduled]
  /\ held = [l \in Lanes |-> None]
  /\ retries = [l \in Lanes |-> Idle]
  /\ hubWait = 0
  /\ streak = 0
  /\ work = None /\ busy = 0
  /\ faults = 0
  /\ seen = NothingSeen

Time(l) == CASE l = "live" -> LiveTime [] l = "backfill" -> BackfillTime [] l = "repair" -> RepairTime

\* The turn goes to the first lane in the order that may run; its request is on
\* the disk from here.
Start(l) ==
  /\ work = None /\ hubWait = 0
  /\ Eligible(l)
  /\ \A k \in Before(l) : ~Eligible(k)
  /\ work' = l
  /\ \E t \in Time(l) : busy' = t
  /\ held' = [held EXCEPT ![l] = LanePlan(l)]
  /\ seen' = SeenStart(l)
  /\ UNCHANGED <<phase, backlog, history, queue, retries, hubWait, streak, faults>>

\* Mutant: a live turn starts the count again.
StreakReset(l) ==
  IF l = "repair" THEN (IF streak = Burst + 3 THEN Burst ELSE streak + 1) ELSE 0

\* repair_streak after a turn of l.
StreakAfter(l) ==
  CASE l = "repair"   -> IF streak = Burst + 3 THEN Burst ELSE streak + 1
    [] l = "backfill" -> 0
    [] l = "live"     -> streak

\* The batch is published or, for a repair, found missing once more: the
\* directory is removed and the lane owes no delay.
Complete(l) ==
  /\ work = l /\ busy = 0
  /\ work' = None
  /\ held' = [held EXCEPT ![l] = None]
  /\ retries' = [retries EXCEPT ![l] = Idle]
  /\ streak' = StreakAfter(l)
  /\ seen' = SeenEnd(l)
  /\ UNCHANGED <<phase, hubWait, busy, faults>>

\* Missing minutes of a published batch enter the queue.
Enqueue(ages) ==
  queue' = [a \in DOMAIN queue \cup ages |->
              IF a \in ages THEN Deferred(Unscheduled) ELSE queue[a]]

PublishLive ==
  /\ Complete("live")
  /\ backlog' = backlog - held["live"]
  /\ \E missing \in SUBSET LiveAges(held["live"]) :
       Enqueue({a \in missing : a <= Retry})
  /\ UNCHANGED history

\* A backward chunk near the seam may leave minutes that are still retried.
PublishBackfill ==
  /\ Complete("backfill")
  /\ history' \in BOOLEAN
  /\ \E missing \in SUBSET ({Retry} \ DOMAIN queue) : Enqueue(missing)
  /\ UNCHANGED backlog

PublishRepair ==
  /\ Complete("repair")
  /\ queue' = [a \in DOMAIN queue \ {held["repair"]} |-> queue[a]]
  /\ UNCHANGED <<backlog, history>>

\* A probe that met another 404: no commit, defer_missing.
StillMissing ==
  /\ Complete("repair")
  /\ queue' = [a \in DOMAIN queue |->
                 IF a = held["repair"] THEN Deferred(queue[a]) ELSE queue[a]]
  /\ UNCHANGED <<backlog, history>>

\* An exception of the lane: its work is retained, only this lane waits.
LaneFails ==
  /\ work \in FailingLanes /\ busy = 0
  /\ retries' = [retries EXCEPT ![work] = FailedOnce(@)]
  /\ work' = None
  /\ UNCHANGED <<phase, backlog, history, queue, held, hubWait, streak, busy, faults, seen>>

\* A 429: every lane waits, and no lane is charged for it.
RateLimited ==
  /\ faults < MaxFaults
  /\ work # None /\ busy = 0
  /\ hubWait' \in HubWaits
  /\ work' = None
  /\ faults' = faults + 1
  /\ UNCHANGED <<phase, backlog, history, queue, held, retries, streak, busy, seen>>

\* The process stops and starts again: the streak is lost, the files are not.
Restart ==
  /\ faults < MaxFaults
  /\ work' = None /\ busy' = 0 /\ streak' = 0
  /\ seen' = NothingSeen
  /\ faults' = faults + 1
  /\ UNCHANGED <<phase, backlog, history, queue, held, retries, hubWait>>

\* Half a minute of work, of the cooldown or of the poll interval.
Elapse ==
  /\ \/ busy > 0
     \/ work = None /\ hubWait > 0
     \/ work = None /\ \A l \in Lanes : ~Eligible(l)
  /\ phase' = (phase + 1) % Period
  /\ backlog' = IF phase' = 0 THEN MinOf(backlog + 1, MaxBacklog) ELSE backlog
  /\ queue' = [a \in {x \in 1 .. Retry : x - 1 \in DOMAIN queue} |->
                 [queue[a - 1] EXCEPT !.check = MaxOf(@ - 1, Unscheduled.check)]]
  /\ held' = IF held["repair"] = None THEN held
             ELSE [held EXCEPT !["repair"] = MinOf(@ + 1, Retry + 1)]
  /\ retries' = [l \in Lanes |-> [retries[l] EXCEPT !.wait = MaxOf(@ - 1, 0)]]
  /\ hubWait' = MaxOf(hubWait - 1, 0)
  /\ busy' = MaxOf(busy - 1, 0)
  /\ UNCHANGED <<history, streak, work, faults, seen>>

Finish == PublishLive \/ PublishBackfill \/ PublishRepair \/ StillMissing \/ LaneFails

Next == (\E l \in Lanes : Start(l)) \/ Finish \/ RateLimited \/ Restart \/ Elapse

Spec == Init /\ [][Next]_vars

-----------------------------------------------------------------------------
(* Properties.                                                             *)

Entry == [check : -(Retry + 1) .. MissingCap, tries : 0 .. MaxTries]

\* TypeOK: queued minutes are inside the retry window, timers inside their caps.
TypeOK ==
  /\ phase \in 0 .. Period - 1
  /\ backlog \in 0 .. MaxBacklog
  /\ history \in BOOLEAN
  /\ queue \in UNION {[S -> Entry] : S \in SUBSET (0 .. Retry)}
  /\ held \in [Lanes -> Nat \cup {None}]
  /\ retries \in [Lanes -> [wait : 0 .. LaneCap, attempts : 0 .. MaxTries]]
  /\ hubWait \in Nat
  /\ streak \in 0 .. Burst + 3
  /\ work \in Lanes \cup {None}
  /\ busy \in Nat
  /\ faults \in 0 .. MaxFaults
  /\ seen \in [over : BOOLEAN, probes : 0 .. Burst + 1, passed : 0 .. 4]

\* While a backward chunk could run, at most Burst probes are completed before
\* it does, whatever live work, failures and cooldowns come in between.
BurstBounded == seen.probes <= Burst

\* Between two backward chunks, no four new probes in a row pass over an older
\* minute that is due.
BurstReservesOlder == seen.passed < 4

\* Lanes make progress as long as the process runs: the clock moves, turns are
\* taken and end.  A lane may fail any number of times.
Fairness ==
  /\ WF_vars(Elapse)
  /\ WF_vars(\E l \in Lanes : Start(l))
  /\ WF_vars(Finish)

FairSpec == Spec /\ Fairness

\* choose_work takes live work whenever there is some, so while every live turn
\* takes a source minute or more no other lane needs ever run; and while many do,
\* live work may fill each delay of a failing repair, which then has the next turn
\* too.  What follows is for live turns that are in the end shorter than that.
LiveIsShort == <>[](work = "live" => busy < Period)

\* A history with work left gets turns for ever: repairs, which may be due and
\* fail at every moment, failures of live work and of the backward lane itself
\* and cooldowns do not take them all (choose_work, run_scheduler).
HistoryGetsTurns ==
  LiveIsShort => []<>(work = "backfill" \/ ~(history \/ held["backfill"] # None))

\* A repair lane that keeps having due minutes gets turns for ever, though
\* backward chunks have work and may fail at every moment and its own failures
\* delay it (choose_work, run_scheduler).
RepairGetsTurns == LiveIsShort => []<>(work = "repair" \/ LanePlan("repair") = None)

\* "Up to four recent repair attempts can run between backward chunks"
\* (deploy/README.md:94): at most four probes are completed while a backward
\* chunk could run.  The code completes FRESH_REPAIR_BURST.
FourBetweenChunks == seen.probes <= 4
=============================================================================
