------------------------ MODULE LaneSchedulingProofs ------------------------
(***************************************************************************)
(* The order of the lanes for every length of the retry window, burst and  *)
(* delay, and any number of failures and restarts.                         *)
(***************************************************************************)
EXTENDS LaneScheduling, WellFoundedInduction, TLAPS

USE DEF Lanes, MinOf, MaxOf

-----------------------------------------------------------------------------
(* The least element of a set of numbers, and the choice of a repair.      *)

Below == {p \in Nat \X Nat : p[1] < p[2]}

LEMMA BelowWellFounded == IsWellFoundedOn(Below, Nat)
<1>1. OpToRel(<, Nat) = Below
  BY Zenon DEF OpToRel, Below
<1> QED
  BY <1>1, NatLessThanWellFounded, Zenon

LEMMA LeastNumber ==
  ASSUME NEW S, S \subseteq Nat, S # {}
  PROVE  \E x \in S : \A y \in S : x <= y
<1>1. PICK x \in S : \A y \in S : ~(<<y, x>> \in Below)
  BY BelowWellFounded, WFMin, Zenon
<1>2. ASSUME NEW y \in S PROVE x <= y
  <2>1. <<y, x>>[1] = y /\ <<y, x>>[2] = x
    OBVIOUS
  <2>2. <<y, x>> \in Nat \X Nat
    OBVIOUS
  <2>3. ~(y < x)
    BY <1>1, <2>1, <2>2 DEF Below
  <2> QED
    BY <2>3, SMT
<1> QED
  BY <1>2

LEMMA QueueType ==
  ASSUME TypeOK
  PROVE  /\ DOMAIN queue \subseteq 0 .. Retry
         /\ queue \in [DOMAIN queue -> Entry]
         /\ \A a \in DOMAIN queue : queue[a] \in Entry
<1>1. PICK S \in SUBSET (0 .. Retry) : queue \in [S -> Entry]
  BY DEF TypeOK
<1> QED
  BY <1>1

\* Among minutes of the queue there is one that is overdue.
LEMMA OverdueIn ==
  ASSUME TypeOK, NEW S, S \subseteq DOMAIN queue, S # {}
  PROVE  Overdue(S) \in S
<1> DEFINE score(a) == queue[a].check + Retry + 1
<1>1. \A a \in S : /\ a \in 0 .. Retry /\ score(a) \in Nat
                   /\ queue[a].check \in Int /\ Retry \in Nat
  BY QueueType, TimeAssumption, SMT DEF Entry
<1>2. PICK c \in {score(a) : a \in S} : \A y \in {score(a) : a \in S} : c <= y
  <2> DEFINE T == {score(a) : a \in S}
  <2>1. T \subseteq Nat /\ T # {}
    BY <1>1
  <2> QED
    BY <2>1, LeastNumber
<1> DEFINE U == {a \in S : score(a) = c}
<1>3. PICK d \in {Retry - a : a \in U} : \A y \in {Retry - a : a \in U} : d <= y
  <2> DEFINE T == {Retry - a : a \in U}
  <2>1. T \subseteq Nat /\ T # {}
    BY <1>1, <1>2, SMT
  <2> QED
    BY <2>1, LeastNumber
<1>4. PICK a \in U : d = Retry - a
  BY <1>3
<1>5. ASSUME NEW b \in S \ {a}
      PROVE  queue[a].check < queue[b].check \/ (queue[a].check = queue[b].check /\ a > b)
  <2>1. c <= score(b) /\ score(a) = c
    BY <1>2, <1>4
  <2>2. score(b) = c => a >= b
    <3> SUFFICES ASSUME score(b) = c PROVE a >= b
      OBVIOUS
    <3>1. d <= Retry - b
      BY <1>3
    <3> QED
      BY <3>1, <1>4, <1>1, SMT
  <2>3. CASE score(b) = c
    BY <2>1, <2>2, <2>3, <1>1, <1>4, SMT
  <2>4. CASE score(b) # c
    BY <2>1, <2>4, <1>1, <1>4, SMT
  <2> QED
    BY <2>3, <2>4
<1>6. a \in S
  BY <1>4
<1> QED
  BY <1>5, <1>6, Zenon DEF Overdue

LEMMA DueType == TypeOK => Due \subseteq DOMAIN queue
BY DEF Due

\* A repair plan is a queued minute; a reserved probe is an older one.
LEMMA RepairPlanIn ==
  ASSUME TypeOK, NEW p \in BOOLEAN
  PROVE  /\ RepairPlan(p) \in DOMAIN queue \cup {None}
         /\ Due # {} => RepairPlan(p) \in Due
         /\ (p /\ \E a \in Due : ~IsFresh(a)) => ~IsFresh(RepairPlan(p))
<1> DEFINE fresh == {a \in Due : IsFresh(a)}
           older == Due \ fresh
           pick == IF fresh # {} /\ ~(p /\ older # {}) THEN fresh ELSE older
<1>1. RepairPlan(p) = IF Due = {} THEN None ELSE Overdue(pick)
  BY DEF RepairPlan
<1>2. CASE Due = {}
  BY <1>1, <1>2
<1>3. CASE Due # {}
  <2>1. pick \subseteq Due /\ pick # {} /\ pick \subseteq DOMAIN queue
    BY <1>3, DueType
  <2>2. Overdue(pick) \in pick
    BY <2>1, OverdueIn
  <2>3. (p /\ older # {}) => pick = older
    OBVIOUS
  <2>4. (\E a \in Due : ~IsFresh(a)) => older # {}
    OBVIOUS
  <2> QED
    BY <1>1, <1>3, <2>1, <2>2, <2>3, <2>4
<1> QED
  BY <1>2, <1>3

-----------------------------------------------------------------------------
(* Type correctness.                                                       *)

\* The lane in work has its request on the disk, a live request asks for
\* minutes that are counted, and the counts of the properties fit the streak.
WorkOK ==
  /\ work # None => held[work] # None
  /\ held["live"] # None => held["live"] \in 1 .. backlog

TypeInv == TypeOK /\ WorkOK

LEMMA DelayType ==
  ASSUME NEW n \in Nat, NEW cap \in Nat \ {0} PROVE Delay(n, cap) \in 0 .. cap
BY SMT DEF Delay

LEMMA DeferredType == ASSUME NEW e \in Entry PROVE Deferred(e) \in Entry
<1>1. e.tries \in 0 .. MaxTries
  BY DEF Entry
<1> DEFINE n == IF e.tries + 1 <= MaxTries THEN e.tries + 1 ELSE MaxTries
<1>2. n \in 0 .. MaxTries /\ n \in Nat
  BY <1>1, BoundAssumption, SMT
<1>3. Delay(n, MissingCap) \in -(Retry + 1) .. MissingCap
  BY <1>2, DelayType, TimeAssumption, SMT
<1> QED
  BY <1>2, <1>3 DEF Deferred, Entry

LEMMA UnscheduledType == Unscheduled \in Entry
BY TimeAssumption, BoundAssumption, SMT DEF Unscheduled, Entry

LEMMA LanePlanType ==
  ASSUME TypeOK, NEW l \in Lanes
  PROVE  /\ LanePlan(l) \in Nat \cup {None}
         /\ (l = "live" /\ WorkOK /\ LanePlan(l) # None) => LanePlan(l) \in 1 .. backlog
<1>1. held[l] \in Nat \cup {None} /\ backlog \in Nat
  BY BoundAssumption, SMT DEF TypeOK
<1>2. CASE l = "live"
  BY <1>1, <1>2, NoneAssumption, SMT DEF LanePlan, WorkOK
<1>3. CASE l = "backfill"
  BY <1>1, <1>3 DEF LanePlan
<1>4. CASE l = "repair"
  <2>1. RepairPlan(TRUE) \in Nat \cup {None} /\ RepairPlan(FALSE) \in Nat \cup {None}
    <3>1. DOMAIN queue \subseteq Nat
      BY QueueType, SMT
    <3> QED
      BY <3>1, RepairPlanIn
  <2>2. LanePlan(l) = ChosenRepair
    BY <1>4 DEF LanePlan
  <2>3. held["repair"] \in Nat \cup {None}
    BY <1>1, <1>4
  <2> QED
    BY <1>4, <2>1, <2>2, <2>3, Zenon DEF ChosenRepair, Repair
<1> QED
  BY <1>2, <1>3, <1>4

LEMMA InitType == Init => TypeInv
<1> SUFFICES ASSUME Init PROVE TypeInv
  OBVIOUS
<1>1. queue \in UNION {[S -> Entry] : S \in SUBSET (0 .. Retry)}
  <2>1. PICK S \in SUBSET {a \in 1 .. Retry : a % Period = 0} : queue = [a \in S |-> Unscheduled]
    BY DEF Init
  <2>2. S \in SUBSET (0 .. Retry)
    BY TimeAssumption, SMT
  <2>3. queue \in [S -> Entry]
    BY <2>1, UnscheduledType
  <2> QED
    BY <2>2, <2>3, Zenon
<1> QED
  BY <1>1, TimeAssumption, BurstAssumption, BoundAssumption, NoneAssumption, SMT
  DEF Init, TypeInv, TypeOK, WorkOK, Idle, NothingSeen

LEMMA StartType == ASSUME TypeInv, NEW l \in Lanes, Start(l) PROVE TypeInv'
<1>1. LanePlan(l) \in Nat \cup {None} /\ LanePlan(l) # None
      /\ (l = "live" => LanePlan(l) \in 1 .. backlog)
  BY LanePlanType DEF TypeInv, Start, Eligible
<1>2. seen' \in [over : BOOLEAN, probes : 0 .. Burst + 1, passed : 0 .. 4]
  <2>1. seen' = SeenStart(l) /\ seen \in [over : BOOLEAN, probes : 0 .. Burst + 1, passed : 0 .. 4]
    BY DEF Start, TypeInv, TypeOK
  <2>2. CASE l = "live"
    BY <2>1, <2>2 DEF SeenStart
  <2>3. CASE l = "backfill"
    <3>1. 0 \in 0 .. Burst + 1 /\ 0 \in 0 .. 4
      BY BurstAssumption, SMT
    <3>2. seen' = [seen EXCEPT !.probes = 0, !.passed = 0]
      BY <2>1, <2>3 DEF SeenStart
    <3> QED
      BY <2>1, <3>1, <3>2
  <2>4. CASE l = "repair"
    <3>1. Eligible("backfill") \in BOOLEAN
      BY DEF Eligible
    <3> DEFINE n == IF held["repair"] # None \/ ~Passes THEN 0 ELSE MinOf(seen.passed + 1, 4)
    <3>2. n \in 0 .. 4
      BY <2>1, SMT
    <3>3. seen' = [seen EXCEPT !.over = Eligible("backfill"), !.passed = n]
      BY <2>1, <2>4, Zenon DEF SeenStart
    <3> HIDE DEF n
    <3> QED
      BY <2>1, <3>1, <3>2, <3>3
  <2> QED
    BY <2>2, <2>3, <2>4
<1>3. busy' \in Nat
  BY TimeAssumption DEF Start, Time
<1>4. held' \in [Lanes -> Nat \cup {None}] /\ held'[l] = LanePlan(l)
      /\ \A k \in Lanes \ {l} : held'[k] = held[k]
  BY <1>1 DEF Start, TypeInv, TypeOK
<1>5. WorkOK'
  <2>1. work' = l /\ backlog' = backlog
    BY DEF Start
  <2>2. held'["live"] # None => held'["live"] \in 1 .. backlog
    <3>1. CASE l = "live"
      BY <3>1, <1>1, <1>4
    <3>2. CASE l # "live"
      BY <3>2, <1>4 DEF TypeInv, WorkOK
    <3> QED
      BY <3>1, <3>2
  <2> QED
    BY <2>1, <2>2, <1>1, <1>4 DEF WorkOK
<1> QED
  BY <1>2, <1>3, <1>4, <1>5 DEF Start, TypeInv, TypeOK

\* What a completed turn changes of the lanes and the counts.
LEMMA CompleteType ==
  ASSUME TypeInv, NEW l \in Lanes, Complete(l)
  PROVE  /\ phase' \in 0 .. Period - 1 /\ hubWait' \in Nat /\ faults' \in 0 .. MaxFaults
         /\ work' = None /\ busy' \in Nat
         /\ held' \in [Lanes -> Nat \cup {None}] /\ held'[l] = None
         /\ \A k \in Lanes \ {l} : held'[k] = held[k]
         /\ retries' \in [Lanes -> [wait : 0 .. LaneCap, attempts : 0 .. MaxTries]]
         /\ streak' \in 0 .. Burst + 3
         /\ seen' \in [over : BOOLEAN, probes : 0 .. Burst + 1, passed : 0 .. 4]
<1> USE DEF TypeInv, TypeOK, Complete
<1>1. Idle \in [wait : 0 .. LaneCap, attempts : 0 .. MaxTries]
  BY TimeAssumption, BoundAssumption, SMT DEF Idle
<1>2. streak' \in 0 .. Burst + 3
  BY BurstAssumption, SMT DEF StreakAfter
<1>3. seen' \in [over : BOOLEAN, probes : 0 .. Burst + 1, passed : 0 .. 4]
  <2> DEFINE n == IF seen.over THEN MinOf(seen.probes + 1, Burst + 1) ELSE seen.probes
  <2>1. n \in 0 .. Burst + 1
    BY BurstAssumption, SMT
  <2>2. seen' = IF l = "repair" THEN [seen EXCEPT !.probes = n] ELSE seen
    BY Zenon DEF SeenEnd
  <2> HIDE DEF n
  <2> QED
    BY <2>1, <2>2
<1> QED
  BY <1>1, <1>2, <1>3

LEMMA EnqueueType ==
  ASSUME TypeInv, NEW ages, ages \subseteq 0 .. Retry, Enqueue(ages)
  PROVE  queue' \in UNION {[S -> Entry] : S \in SUBSET (0 .. Retry)}
<1> DEFINE S == DOMAIN queue \cup ages
<1>1. S \in SUBSET (0 .. Retry)
  BY QueueType DEF TypeInv
<1>2. \A a \in S : (IF a \in ages THEN Deferred(Unscheduled) ELSE queue[a]) \in Entry
  BY QueueType, DeferredType, UnscheduledType DEF TypeInv
<1>3. queue' \in [S -> Entry]
  BY <1>2, Zenon DEF Enqueue
<1> HIDE DEF S
<1> QED
  BY <1>1, <1>3, Zenon

LEMMA FinishType == ASSUME TypeInv, Finish PROVE TypeInv'
<1>1. CASE PublishLive
  <2>1. held["live"] \in 1 .. backlog /\ backlog \in 0 .. MaxBacklog /\ Complete("live")
    BY <1>1, NoneAssumption DEF TypeInv, TypeOK, WorkOK, PublishLive, Complete
  <2>2. backlog' \in 0 .. MaxBacklog /\ history' \in BOOLEAN
    BY <1>1, <2>1, BoundAssumption, SMT DEF PublishLive, TypeInv, TypeOK
  <2>3. queue' \in UNION {[S -> Entry] : S \in SUBSET (0 .. Retry)}
    <3>1. PICK missing \in SUBSET LiveAges(held["live"]) : Enqueue({a \in missing : a <= Retry})
      BY <1>1 DEF PublishLive
    <3>2. LiveAges(held["live"]) \subseteq Nat
      <4>1. ASSUME NEW i \in (backlog - held["live"]) .. (backlog - 1)
            PROVE  phase + Period * i \in Nat
        <5>1. i \in Nat /\ phase \in Nat /\ Period \in Nat
          BY <2>1, BoundAssumption, TimeAssumption, SMT DEF TypeInv, TypeOK
        <5> QED
          BY <5>1, SMT
      <4> QED
        BY <4>1 DEF LiveAges
    <3>3. {a \in missing : a <= Retry} \subseteq 0 .. Retry
      BY <3>2, TimeAssumption, SMT
    <3> QED
      BY <3>1, <3>3, EnqueueType
  <2> QED
    BY <2>1, <2>2, <2>3, CompleteType DEF TypeInv, TypeOK, WorkOK
<1>2. CASE PublishBackfill
  <2>1. Complete("backfill") /\ history' \in BOOLEAN /\ backlog' = backlog
    BY <1>2 DEF PublishBackfill
  <2>2. queue' \in UNION {[S -> Entry] : S \in SUBSET (0 .. Retry)}
    <3>1. PICK missing \in SUBSET ({Retry} \ DOMAIN queue) : Enqueue(missing)
      BY <1>2 DEF PublishBackfill
    <3>2. missing \subseteq 0 .. Retry
      BY TimeAssumption, SMT
    <3> QED
      BY <3>1, <3>2, EnqueueType
  <2> QED
    BY <2>1, <2>2, CompleteType DEF TypeInv, TypeOK, WorkOK
<1>3. CASE PublishRepair \/ StillMissing
  <2>1. Complete("repair") /\ history' = history /\ backlog' = backlog
    BY <1>3 DEF PublishRepair, StillMissing
  <2>2. queue' \in UNION {[S -> Entry] : S \in SUBSET (0 .. Retry)}
    <3>1. CASE PublishRepair
      <4> DEFINE S == DOMAIN queue \ {held["repair"]}
      <4>1. S \in SUBSET (0 .. Retry) /\ queue' \in [S -> Entry]
        BY <3>1, QueueType DEF PublishRepair, TypeInv
      <4> HIDE DEF S
      <4> QED
        BY <4>1, Zenon
    <3>2. CASE StillMissing
      <4> DEFINE S == DOMAIN queue
      <4>1. \A a \in S : (IF a = held["repair"] THEN Deferred(queue[a]) ELSE queue[a]) \in Entry
        BY QueueType, DeferredType DEF TypeInv
      <4>2. S \in SUBSET (0 .. Retry) /\ queue' \in [S -> Entry]
        BY <3>2, <4>1, QueueType DEF StillMissing, TypeInv
      <4> HIDE DEF S
      <4> QED
        BY <4>2, Zenon
    <3> QED
      BY <1>3, <3>1, <3>2
  <2> QED
    BY <2>1, <2>2, CompleteType DEF TypeInv, TypeOK, WorkOK
<1>4. CASE LaneFails
  <2>1. work \in Lanes /\ work # None
    BY <1>4, TimeAssumption, NoneAssumption DEF LaneFails
  <2>2. FailedOnce(retries[work]) \in [wait : 0 .. LaneCap, attempts : 0 .. MaxTries]
    <3> DEFINE r == retries[work]
               n == MinOf(r.attempts + 1, MaxTries)
    <3>1. r.attempts \in 0 .. MaxTries
      BY <2>1 DEF TypeInv, TypeOK
    <3> HIDE DEF r
    <3>2. n \in 0 .. MaxTries /\ n \in Nat
      BY <3>1, BoundAssumption, SMT
    <3>3. FailedOnce(r) = [wait |-> Delay(n, LaneCap), attempts |-> n]
      BY DEF FailedOnce
    <3>4. Delay(n, LaneCap) \in 0 .. LaneCap
      BY <3>2, DelayType, TimeAssumption
    <3> HIDE DEF n
    <3> QED
      BY <3>2, <3>3, <3>4 DEF r
  <2> QED
    BY <1>4, <2>1, <2>2 DEF LaneFails, TypeInv, TypeOK, WorkOK
<1> QED
  BY <1>1, <1>2, <1>3, <1>4 DEF Finish

LEMMA ElapseType == ASSUME TypeInv, Elapse PROVE TypeInv'
<1>1. phase' \in 0 .. Period - 1
  BY TimeAssumption, SMT DEF Elapse, TypeInv, TypeOK
<1>2. backlog' \in 0 .. MaxBacklog /\ backlog <= backlog'
  BY BoundAssumption, SMT DEF Elapse, TypeInv, TypeOK
<1>3. queue' \in UNION {[S -> Entry] : S \in SUBSET (0 .. Retry)}
  <2> DEFINE S == {x \in 1 .. Retry : x - 1 \in DOMAIN queue}
  <2>1. ASSUME NEW a \in S
        PROVE  [queue[a - 1] EXCEPT !.check = MaxOf(@ - 1, Unscheduled.check)] \in Entry
    <3>1. queue[a - 1] \in Entry
      BY QueueType DEF TypeInv
    <3> DEFINE e == queue[a - 1]
               c == MaxOf(e.check - 1, Unscheduled.check)
    <3>2. c \in -(Retry + 1) .. MissingCap
      BY <3>1, TimeAssumption, SMT DEF Entry, Unscheduled
    <3> HIDE DEF c
    <3>3. [e EXCEPT !.check = c] \in Entry
      BY <3>1, <3>2 DEF Entry
    <3> QED
      BY <3>3 DEF c
  <2>2. queue' \in [S -> Entry]
    BY <2>1, Zenon DEF Elapse
  <2>3. S \in SUBSET (0 .. Retry)
    BY TimeAssumption, SMT
  <2> HIDE DEF S
  <2> QED
    BY <2>2, <2>3, Zenon
<1>4. /\ held' \in [Lanes -> Nat \cup {None}]
      /\ \A k \in Lanes : held'[k] # None <=> held[k] # None
      /\ held'["live"] = held["live"]
  <2>1. CASE held["repair"] = None
    BY <2>1 DEF Elapse, TypeInv, TypeOK
  <2>2. CASE held["repair"] # None
    <3> DEFINE n == MinOf(held["repair"] + 1, Retry + 1)
    <3>1. held["repair"] \in Nat
      BY <2>2 DEF TypeInv, TypeOK
    <3>2. n \in Nat /\ n # None
      BY <3>1, TimeAssumption, NoneAssumption, SMT
    <3>3. held' = [held EXCEPT !["repair"] = n]
      BY <2>2 DEF Elapse
    <3> HIDE DEF n
    <3> QED
      BY <2>2, <3>2, <3>3 DEF TypeInv, TypeOK
  <2> QED
    BY <2>1, <2>2
<1>5. retries' \in [Lanes -> [wait : 0 .. LaneCap, attempts : 0 .. MaxTries]]
  <2>1. ASSUME NEW l \in Lanes
        PROVE  [retries[l] EXCEPT !.wait = MaxOf(@ - 1, 0)] \in [wait : 0 .. LaneCap, attempts : 0 .. MaxTries]
    <3> DEFINE r == retries[l]
               w == MaxOf(r.wait - 1, 0)
    <3>1. r \in [wait : 0 .. LaneCap, attempts : 0 .. MaxTries]
      BY DEF TypeInv, TypeOK
    <3>2. w \in 0 .. LaneCap
      BY <3>1, TimeAssumption, SMT
    <3> HIDE DEF w
    <3>3. [r EXCEPT !.wait = w] \in [wait : 0 .. LaneCap, attempts : 0 .. MaxTries]
      BY <3>1, <3>2
    <3> QED
      BY <3>3 DEF w
  <2> QED
    BY <2>1, Zenon DEF Elapse
<1>6. hubWait' \in Nat /\ busy' \in Nat
  BY SMT DEF Elapse, TypeInv, TypeOK
<1>7. WorkOK'
  <2>1. work' = work /\ work \in Lanes \cup {None}
    BY DEF Elapse, TypeInv, TypeOK
  <2>2. held["live"] # None => held["live"] \in 1 .. backlog'
    BY <1>2, BoundAssumption, SMT DEF TypeInv, TypeOK, WorkOK
  <2> QED
    BY <2>1, <2>2, <1>4 DEF TypeInv, WorkOK
<1> QED
  BY <1>1, <1>2, <1>3, <1>4, <1>5, <1>6, <1>7 DEF Elapse, TypeInv, TypeOK

LEMMA StepType == TypeInv /\ [Next]_vars => TypeInv'
<1> SUFFICES ASSUME TypeInv, [Next]_vars PROVE TypeInv'
  OBVIOUS
<1>1. CASE RateLimited
  BY <1>1, TimeAssumption, BoundAssumption, SMT DEF RateLimited, TypeInv, TypeOK, WorkOK
<1>2. CASE Restart
  BY <1>2, TimeAssumption, BoundAssumption, BurstAssumption, SMT
  DEF Restart, TypeInv, TypeOK, WorkOK, NothingSeen
<1>3. CASE UNCHANGED vars
  BY <1>3 DEF vars, TypeInv, TypeOK, WorkOK
<1> QED
  BY <1>1, <1>2, <1>3, StartType, FinishType, ElapseType DEF Next

\* Every age, timer and request stays in its range, however often lanes fail.
THEOREM TypeCorrect == Spec => []TypeOK
<1>1. TypeInv => TypeOK
  BY DEF TypeInv
<1> QED
  BY InitType, StepType, <1>1, PTL DEF Spec

-----------------------------------------------------------------------------
(* The burst.                                                              *)

\* Why: probes while history waits are counted by the streak as well, and one
\* that starts while history could run finds the burst unfinished.
BurstInv ==
  /\ seen.probes <= streak /\ seen.probes <= Burst
  /\ (work = "repair" /\ seen.over) => streak < Burst
  /\ work = "backfill" => seen.probes = 0

\* Why: probes that pass over an older minute follow each other in the streak,
\* and the one at three modulo four is reserved.
ReserveInv ==
  /\ seen.passed < 4
  /\ (work # "repair" /\ held["repair"] = None) => seen.passed <= streak % 4
  /\ work = "repair" => /\ seen.passed <= (streak % 4) + 1
                        /\ streak % 4 = 3 => seen.passed = 0
  /\ work = "backfill" => seen.passed = 0

SeenType == seen \in [over : BOOLEAN, probes : 0 .. Burst + 1, passed : 0 .. 4]

LEMMA StartBurst ==
  ASSUME TypeInv, BurstInv, NEW l \in Lanes, Start(l) PROVE BurstInv'
<1> USE DEF BurstInv
<1>1. seen' = SeenStart(l) /\ work' = l /\ streak' = streak /\ streak \in Nat /\ SeenType
  BY BurstAssumption, SMT DEF Start, TypeInv, TypeOK, SeenType
<1>2. CASE l = "live"
  BY <1>1, <1>2 DEF SeenStart
<1>3. CASE l = "backfill"
  <2>1. seen' = [seen EXCEPT !.probes = 0, !.passed = 0]
    BY <1>1, <1>3 DEF SeenStart
  <2>2. seen'.probes = 0
    BY <1>1, <2>1 DEF SeenType
  <2> QED
    BY <1>1, <1>3, <2>2, BurstAssumption, SMT
<1>4. CASE l = "repair"
  <2> DEFINE n == IF held["repair"] # None \/ ~Passes THEN 0 ELSE MinOf(seen.passed + 1, 4)
  <2>1. seen' = [seen EXCEPT !.over = Eligible("backfill"), !.passed = n]
    BY <1>1, <1>4, Zenon DEF SeenStart
  <2> HIDE DEF n
  <2>2. seen'.probes = seen.probes /\ seen'.over = Eligible("backfill")
    BY <1>1, <2>1 DEF SeenType
  <2>3. ASSUME Eligible("backfill") PROVE streak < Burst
    <3>1. ~YieldToBackfill
      BY <1>4, <2>3 DEF Start, Before
    <3> QED
      BY <1>1, <3>1, BurstAssumption, SMT DEF YieldToBackfill
  <2> QED
    BY <1>1, <1>4, <2>2, <2>3
<1> QED
  BY <1>2, <1>3, <1>4

LEMMA StartReserve ==
  ASSUME TypeInv, ReserveInv, NEW l \in Lanes, Start(l) PROVE ReserveInv'
<1> USE DEF ReserveInv
<1>1. /\ seen' = SeenStart(l) /\ work' = l /\ streak' = streak /\ streak \in Nat /\ SeenType
      /\ work = None /\ held' = [held EXCEPT ![l] = LanePlan(l)]
      /\ held \in [Lanes -> Nat \cup {None}]
  BY BurstAssumption, SMT DEF Start, TypeInv, TypeOK, SeenType
<1>2. CASE l = "live"
  BY <1>1, <1>2, NoneAssumption DEF SeenStart
<1>3. CASE l = "backfill"
  <2>1. seen' = [seen EXCEPT !.probes = 0, !.passed = 0]
    BY <1>1, <1>3 DEF SeenStart
  <2>2. seen'.passed = 0
    BY <1>1, <2>1 DEF SeenType
  <2> QED
    BY <1>1, <1>3, <2>2, SMT
<1>4. CASE l = "repair"
  <2> DEFINE n == IF held["repair"] # None \/ ~Passes THEN 0 ELSE MinOf(seen.passed + 1, 4)
  <2>1. seen' = [seen EXCEPT !.over = Eligible("backfill"), !.passed = n]
    BY <1>1, <1>4, Zenon DEF SeenStart
  <2>2. seen'.passed = n
    BY <1>1, <2>1 DEF SeenType
  <2>3. CASE held["repair"] # None \/ ~Passes
    BY <1>1, <1>4, <2>2, <2>3, SMT
  <2>4. CASE held["repair"] = None /\ Passes
    <3>1. seen.passed <= streak % 4 /\ n <= seen.passed + 1 /\ seen.passed \in Nat /\ n \in Nat
      BY <1>1, <2>4, NoneAssumption, SMT DEF SeenType
    <3>2. streak % 4 # 3
      <4> SUFFICES ASSUME streak % 4 = 3 PROVE FALSE
        OBVIOUS
      <4>1. LanePlan("repair") = RepairPlan(TRUE)
        BY <2>4 DEF LanePlan, ChosenRepair
      <4>2. ~IsFresh(RepairPlan(TRUE))
        BY <2>4, RepairPlanIn DEF Passes, TypeInv
      <4> QED
        BY <2>4, <4>1, <4>2 DEF Passes
    <3> HIDE DEF n
    <3> QED
      BY <1>1, <1>4, <2>2, <3>1, <3>2, SMT
  <2> QED
    BY <2>3, <2>4
<1> QED
  BY <1>2, <1>3, <1>4

LEMMA CompleteBurst ==
  ASSUME TypeInv, BurstInv, ReserveInv, NEW l \in Lanes, Complete(l)
  PROVE  BurstInv' /\ ReserveInv'
<1>1. /\ work = l /\ work' = None /\ streak' = StreakAfter(l) /\ seen' = SeenEnd(l) /\ SeenType
      /\ streak \in 0 .. Burst + 3 /\ held' = [held EXCEPT ![l] = None]
      /\ held \in [Lanes -> Nat \cup {None}]
  BY DEF Complete, TypeInv, TypeOK, SeenType
<1>2. CASE l = "live"
  <2>1. streak' = streak /\ seen' = seen /\ held'["repair"] = held["repair"]
    BY <1>1, <1>2 DEF StreakAfter, SeenEnd
  <2> QED
    BY <1>1, <1>2, <2>1, NoneAssumption DEF BurstInv, ReserveInv
<1>3. CASE l = "backfill"
  <2>1. streak' = 0 /\ seen' = seen
    BY <1>1, <1>3 DEF StreakAfter, SeenEnd
  <2> QED
    BY <1>1, <1>3, <2>1, NoneAssumption, BurstAssumption, SMT DEF BurstInv, ReserveInv
<1>4. CASE l = "repair"
  <2> DEFINE n == IF seen.over THEN MinOf(seen.probes + 1, Burst + 1) ELSE seen.probes
  <2>1. seen' = [seen EXCEPT !.probes = n]
    BY <1>1, <1>4, Zenon DEF SeenEnd
  <2>2. seen'.probes = n /\ seen'.passed = seen.passed /\ seen'.over = seen.over
    BY <1>1, <2>1 DEF SeenType
  <2>3. seen.probes \in Nat /\ seen.passed \in Nat /\ seen.over \in BOOLEAN
    BY <1>1, SMT DEF SeenType
  <2>4. streak' = IF streak = Burst + 3 THEN Burst ELSE streak + 1
    BY <1>1, <1>4 DEF StreakAfter
  <2>5. n <= streak' /\ n <= Burst
    BY <1>1, <1>4, <2>3, <2>4, BurstAssumption, SMT DEF BurstInv
  <2>6. seen.passed <= streak' % 4
    <3>1. streak \in Nat /\ Burst \in Nat /\ Burst % 4 = 0
      BY <1>1, BurstAssumption, SMT
    <3>2. CASE streak % 4 = 3
      <4>1. seen.passed = 0 /\ streak' \in Nat
        BY <1>1, <1>4, <2>4, <3>1, <3>2, SMT DEF ReserveInv
      <4>2. \A k \in Nat : 0 <= k % 4
        BY SMT
      <4>3. 0 <= streak' % 4
        BY <4>1, <4>2
      <4> QED
        BY <4>1, <4>3
    <3>3. CASE streak % 4 # 3
      <4>1. streak # Burst + 3
        BY <3>1, <3>3, SMT
      <4>2. streak' = streak + 1 /\ streak' % 4 = (streak % 4) + 1
        BY <2>4, <3>1, <3>3, <4>1, SMT
      <4> QED
        BY <1>1, <1>4, <4>2 DEF ReserveInv
    <3> QED
      BY <3>2, <3>3
  <2> HIDE DEF n
  <2> QED
    BY <1>1, <2>2, <2>5, <2>6, NoneAssumption DEF BurstInv, ReserveInv
<1> QED
  BY <1>2, <1>3, <1>4

LEMMA InitBurst == Init => BurstInv /\ ReserveInv
BY NoneAssumption, BurstAssumption, SMT DEF Init, BurstInv, ReserveInv, NothingSeen

LEMMA StepBurst == TypeInv /\ BurstInv /\ ReserveInv /\ [Next]_vars => (BurstInv /\ ReserveInv)'
<1> SUFFICES ASSUME TypeInv, BurstInv, ReserveInv, [Next]_vars PROVE (BurstInv /\ ReserveInv)'
  OBVIOUS
<1>1. CASE \E l \in Lanes : Start(l)
  BY <1>1, StartBurst, StartReserve
<1>2. CASE Finish
  <2>1. CASE LaneFails
    <3>1. work' = None /\ work # None /\ UNCHANGED <<held, streak, seen>>
      BY <2>1, TimeAssumption, NoneAssumption DEF LaneFails
    <3>2. work = "repair" => held["repair"] # None
      BY <3>1, NoneAssumption DEF TypeInv, WorkOK
    <3> QED
      BY <3>1, <3>2, NoneAssumption DEF BurstInv, ReserveInv
  <2>2. CASE ~LaneFails
    <3>1. PICK l \in Lanes : Complete(l)
      BY <1>2, <2>2 DEF Finish, PublishLive, PublishBackfill, PublishRepair, StillMissing
    <3> QED
      BY <3>1, CompleteBurst
  <2> QED
    BY <2>1, <2>2
<1>3. CASE RateLimited
  <2>1. work' = None /\ work # None /\ UNCHANGED <<held, streak, seen>>
    BY <1>3 DEF RateLimited
  <2>2. work = "repair" => held["repair"] # None
    BY <2>1, NoneAssumption DEF TypeInv, WorkOK
  <2> QED
    BY <2>1, <2>2, NoneAssumption DEF BurstInv, ReserveInv
<1>4. CASE Restart
  BY <1>4, NoneAssumption, BurstAssumption, SMT DEF Restart, BurstInv, ReserveInv, NothingSeen
<1>5. CASE Elapse
  <2>1. work' = work /\ UNCHANGED <<streak, seen>>
    BY <1>5 DEF Elapse
  <2>2. held'["repair"] = None <=> held["repair"] = None
    <3>1. CASE held["repair"] = None
      BY <1>5, <3>1 DEF Elapse
    <3>2. CASE held["repair"] # None
      <4> DEFINE n == MinOf(held["repair"] + 1, Retry + 1)
      <4>1. held["repair"] \in Nat /\ held \in [Lanes -> Nat \cup {None}]
        BY <3>2 DEF TypeInv, TypeOK
      <4>2. n # None
        BY <4>1, TimeAssumption, NoneAssumption, SMT
      <4>3. held' = [held EXCEPT !["repair"] = n]
        BY <1>5, <3>2 DEF Elapse
      <4> HIDE DEF n
      <4> QED
        BY <3>2, <4>1, <4>2, <4>3
    <3> QED
      BY <3>1, <3>2
  <2> QED
    BY <2>1, <2>2 DEF BurstInv, ReserveInv
<1>6. CASE UNCHANGED vars
  BY <1>6 DEF vars, BurstInv, ReserveInv
<1> QED
  BY <1>1, <1>2, <1>3, <1>4, <1>5, <1>6 DEF Next

\* However live work, failures, cooldowns and restarts come in between, at most
\* Burst probes are completed while a backward chunk could run (choose_work).
THEOREM BurstBoundedHolds == Spec => []BurstBounded
<1>1. BurstInv => BurstBounded
  BY DEF BurstInv, BurstBounded
<1> QED
  BY InitType, StepType, InitBurst, StepBurst, <1>1, PTL DEF Spec

\* Between two backward chunks no four new probes in a row pass over an older
\* minute that is due (choose_work, repair_streak).
THEOREM BurstReservesOlderHolds == Spec => []BurstReservesOlder
<1>1. ReserveInv => BurstReservesOlder
  BY DEF ReserveInv, BurstReservesOlder
<1> QED
  BY InitType, StepType, InitBurst, StepBurst, <1>1, PTL DEF Spec
=============================================================================
