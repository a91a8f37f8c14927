-------------------------- MODULE MigrationProofs --------------------------
(***************************************************************************)
(* TLAPS proofs about Migration, and with it about Chronological, for      *)
(* every value of the constants.                                           *)
(*                                                                         *)
(* The invariant has layers: what the files, processes and tools hold      *)
(* (TypeInv), what the head says of the published minutes (HeadOK), what a *)
(* request on the wire (RequestsOK) or a migration (ToolsOK) says of the   *)
(* head it was computed from, and what is published of the batches about   *)
(* to be removed (RemovalInv; AloneOK for the only host of a dataset).     *)
(***************************************************************************)
EXTENDS Migration, FiniteSetTheorems, TLAPS

\* A record as build_batch seals it.
WellFormed(r) == r.start <= r.end /\ r.missing \subseteq r.start .. r.end

DiskOK == \A h \in Hosts : disk[h].ready # None => WellFormed(disk[h].ready)

\* A process at a program point has what its next step reads.
ProcOK ==
  \A h \in Hosts :
    /\ pc[h] = "build" => disk[h].request # None
    /\ pc[h] \in {"publish", "commit", "landed", "clean"} =>
         disk[h].ready # None /\ disk[h].ready.pipeline = Native
    /\ pc[h] \in {"commit", "landed"} => sent[h] # None

\* Everything but the tools, and the whole.
CoreInv ==
  /\ HubTypes /\ HostTypes /\ served \subseteq Int /\ now \in Int /\ faults \in Nat
  /\ DiskOK /\ ProcOK

TypeInv == CoreInv /\ ToolTypes

\* The head counts what its tree holds, in one format, up to its cursor.
HeadOK ==
  /\ hub = None => tree = {}
  /\ First <= Remote.next /\ Published \subseteq First .. Remote.next - 1
  /\ Remote.pipeline = "enriched" => Remote.pending = {}
  /\ EachObservationOnce /\ TreeUniform
  /\ GapsQueued /\ unqueued \subseteq Gaps

\* What the queue keeps of a set of minutes.
Keeps(queue, minutes) ==
  queue \subseteq minutes /\ {m \in minutes : m >= Earliest} \subseteq queue

\* The progress p claims the minutes of r after the cursor, and queues what r
\* misses but the minutes that are lost.
Claims(r, p, lost) ==
  /\ r.start = Remote.next /\ p.next = r.end + 1
  /\ Keeps(p.pending, Remote.pending \cup (r.missing \ lost))

\* The progress p takes the minute of r out of the queue.
Recovers(r, p) ==
  /\ r.start = r.end /\ r.missing = {} /\ r.start \in Remote.pending
  /\ p.next = Remote.next
  /\ Keeps(p.pending, Remote.pending \ {r.start})

\* The progress p may follow the head with the batch r, which queues all but lost.
Follows(r, p, lost) ==
  /\ WellFormed(r)
  /\ r.pipeline = p.pipeline /\ (hub # None => p.pipeline = hub.pipeline)
  /\ p.total = Remote.total + Cardinality(Complete(r))
  /\ p.pipeline = "enriched" => p.pending = {}
  /\ Claims(r, p, lost) \/ Recovers(r, p)

\* A request whose parent is the head moves the head as publish may.
RequestOK(q) ==
  /\ q.parent <= rev
  /\ q.parent = rev => q.progress.pipeline = Native /\ Follows(q.rec, q.progress, {})

RequestsOK ==
  /\ \A q \in late : RequestOK(q)
  /\ \A h \in Hosts : pc[h] = "commit" => RequestOK(sent[h])

\* The native shard that stands for the shard s of a dataset of pipeline p.
Image(s, p) ==
  [rec |-> [s.rec EXCEPT !.pipeline = Native,
                         !.kind = IF p = "enriched" THEN "forward" ELSE @],
   moved |-> TRUE]

\* A migration whose parent is the head has read the head, and has converted
\* the shards that are not left to do.
Converting(t) ==
  /\ t.parent <= rev
  /\ t.parent = rev =>
       /\ hub # None /\ hub.pipeline # Native /\ t.progress = hub
       /\ t.todo \subseteq tree
       /\ t.out = {Image(s, hub.pipeline) : s \in tree \ t.todo}

ToolsOK ==
  /\ tool.step # "idle" => Converting(tool)
  /\ tool.step = "commit" => tool.todo = {}
  /\ \A t \in flying : Converting(t) /\ t.todo = {}

MInv == HeadOK /\ RequestsOK /\ ToolsOK

-----------------------------------------------------------------------------
(* Types and shapes.                                                       *)

LEMMA RemoteType ==
  ASSUME hub \in Progress \cup {None} PROVE Remote \in Progress /\ (hub # None => Remote = hub)
<1>1. [pipeline |-> Native, next |-> First, action |-> "forward", pending |-> {},
       receipt |-> None, total |-> 0] \in Progress
  BY ChronologicalAssumption DEF Progress, Pipelines, Kinds
<1>2. QED
  BY <1>1 DEF Remote

\* The parts of the type invariant that speak of one host.
LEMMA HostFacts ==
  ASSUME CoreInv, NEW h \in Hosts
  PROVE  /\ disk[h] \in Batch /\ waiting[h] \in SUBSET Int
         /\ disk[h].request # None => disk[h].request \in Plan
         /\ disk[h].ready # None => disk[h].ready \in Record /\ WellFormed(disk[h].ready)
         /\ sent[h] # None => sent[h] \in Request
         /\ pc[h] = "build" => disk[h].request # None
         /\ pc[h] \in {"publish", "commit", "landed", "clean"} =>
              disk[h].ready # None /\ disk[h].ready.pipeline = Native
         /\ pc[h] \in {"commit", "landed"} => sent[h] # None
<1>1. disk[h] \in Batch /\ waiting[h] \in SUBSET Int /\ sent[h] \in Request \cup {None}
  BY DEF CoreInv, HostTypes
<1>2. disk[h].request \in Plan \cup {None} /\ disk[h].ready \in Record \cup {None}
  BY <1>1 DEF Batch
<1>3. QED
  BY <1>1, <1>2 DEF CoreInv, DiskOK, ProcOK

LEMMA Clocks == ASSUME now \in Int PROVE Cutoff \in Int /\ Earliest \in Int
  BY ChronologicalAssumption DEF Cutoff, Earliest

\* The minutes of a batch that were found are finitely many.
LEMMA CompleteFacts ==
  ASSUME NEW r \in Record
  PROVE  Complete(r) \subseteq Int /\ IsFiniteSet(Complete(r)) /\ Cardinality(Complete(r)) \in Nat
<1>1. r.start \in Int /\ r.end \in Int
  BY DEF Record
<1>2. IsFiniteSet(r.start .. r.end)
  BY <1>1, FS_Interval
<1>3. Complete(r) \subseteq r.start .. r.end
  BY DEF Complete
<1>4. QED
  BY <1>1, <1>2, <1>3, FS_Subset, FS_CardinalityType

\* The progress published with a batch.
LEMMA AdvancedFacts ==
  ASSUME hub \in Progress \cup {None}, now \in Int, NEW r \in Record
  PROVE  /\ Advanced(r) \in Progress
         /\ Advanced(r).pipeline = Native /\ Advanced(r).receipt = r
         /\ Advanced(r).next = IF r.kind = "repair" THEN Remote.next ELSE r.end + 1
         /\ Advanced(r).total = Remote.total + Cardinality(Complete(r))
         /\ Keeps(Advanced(r).pending,
                  (IF r.kind = "repair" THEN Remote.pending \ {r.start} ELSE Remote.pending)
                    \cup r.missing)
<1> DEFINE kept == IF r.kind = "repair" THEN Remote.pending \ {r.start} ELSE Remote.pending
           queue == {m \in kept \cup r.missing : m >= Earliest}
           next == IF r.kind = "repair" THEN Remote.next ELSE r.end + 1
           total == Remote.total + Cardinality(Complete(r))
<1>1. Remote \in Progress
  BY RemoteType
<1>2. Remote.next \in Int /\ Remote.pending \in SUBSET Int /\ Remote.total \in Nat
  BY <1>1 DEF Progress
<1>3. r.start \in Int /\ r.end \in Int /\ r.missing \in SUBSET Int /\ r.kind \in Kinds
  BY DEF Record
<1>4. queue \in SUBSET Int /\ next \in Int /\ total \in Nat
  BY <1>2, <1>3, CompleteFacts
<1>5. Advanced(r) = [pipeline |-> Native, next |-> next, action |-> r.kind, pending |-> queue,
                     receipt |-> r, total |-> total]
  BY DEF Advanced
<1>6. Keeps(queue, kept \cup r.missing)
  BY DEF Keeps
<1> HIDE DEF queue, next, total
<1>7. Advanced(r) \in Progress
  BY <1>3, <1>4, <1>5 DEF Progress, Pipelines
<1>8. QED
  BY <1>5, <1>6, <1>7 DEF next, total

\* A removal that was interrupted leaves no file that was not there.
LEMMA DebrisFacts ==
  ASSUME NEW B \in Batch, NEW b \in Debris(B)
  PROVE  b \in Batch /\ b.ready \in {B.ready, None}
<1>1. B.request \in Plan \cup {None} /\ B.ready \in Record \cup {None} /\ B.intact \in BOOLEAN
  BY DEF Batch
<1>2. b \in [request : {B.request, None}, ready : {B.ready, None}, intact : {B.intact, FALSE}]
  BY DEF Debris
<1>3. QED
  BY <1>1, <1>2 DEF Batch

LEMMA InitTypes == MInit => TypeInv
<1> SUFFICES ASSUME MInit PROVE TypeInv
  OBVIOUS
<1>1. EmptyBatch \in Batch /\ EmptyBatch.ready = None
  BY DEF EmptyBatch, Batch
<1>2. Idle \in Tool
  BY DEF Idle, Tool
<1>3. HubTypes /\ HostTypes /\ ToolTypes
  BY <1>1, <1>2 DEF MInit, Init, HubTypes, HostTypes, ToolTypes
<1>4. QED
  BY <1>1, <1>3, ChronologicalAssumption DEF MInit, Init, TypeInv, CoreInv, DiskOK, ProcOK

-----------------------------------------------------------------------------
(* Types are preserved by the publisher, action by action.                 *)

LEMMA JudgeTypes ==
  ASSUME CoreInv, NEW h \in Hosts, NEW r \in Record, NEW deferred \in SUBSET Int,
         Judge(h, r, deferred)
  PROVE  /\ waiting' \in [Hosts -> SUBSET Int] /\ last' \in [Hosts -> Kinds \cup {None}]
         /\ pc' \in [Hosts -> {"idle", "build", "publish", "commit", "landed", "clean"}]
         /\ pc'[h] \in {"publish", "clean"}
         /\ \A g \in Hosts : g # h => pc'[g] = pc[g]
<1>1. r.start \in Int /\ r.kind \in Kinds
  BY DEF Record
<1>2. CASE r.kind = "repair" /\ r.missing # {}
  <2>1. deferred \cup {r.start} \in SUBSET Int
    BY <1>1
  <2>2. QED
    BY <1>2, <2>1, Zenon DEF Judge, CoreInv, HostTypes, Kinds
<1>3. CASE ~(r.kind = "repair" /\ r.missing # {})
  BY <1>1, <1>3 DEF Judge, CoreInv, HostTypes
<1>4. QED
  BY <1>2, <1>3

LEMMA DeferredType == ASSUME CoreInv, NEW h \in Hosts PROVE Deferred(h) \in SUBSET Int
  BY HostFacts DEF Deferred

LEMMA TakeReadyTypes == ASSUME CoreInv, NEW h \in Hosts, TakeReady(h) PROVE CoreInv'
<1>1. disk[h].ready \in Record /\ disk[h].ready.pipeline = Native /\ disk[h].ready # None
  BY HostFacts DEF TakeReady
<1>2. Judge(h, disk[h].ready, Deferred(h))
      /\ UNCHANGED <<hub, rev, tree, late, disk, sent, served, now, faults>>
  BY DEF TakeReady, hubVars
<1>3. HostTypes'
  BY <1>1, <1>2, JudgeTypes, DeferredType DEF CoreInv, HostTypes
<1>4. ProcOK'
  <2>1. pc'[h] \in {"publish", "clean"} /\ \A g \in Hosts : g # h => pc'[g] = pc[g]
    BY <1>1, <1>2, JudgeTypes, DeferredType
  <2>2. QED
    BY <1>1, <1>2, <2>1 DEF CoreInv, ProcOK
<1>5. QED
  BY <1>2, <1>3, <1>4 DEF CoreInv, HubTypes, DiskOK

LEMMA PlanTypes ==
  ASSUME CoreInv, NEW h \in Hosts, NEW p \in NextPlans(h) PROVE p \in Plan
<1>1. Remote \in Progress
  BY RemoteType DEF CoreInv, HubTypes
<1>2. Remote.next \in Int /\ Remote.pending \subseteq Int /\ Cutoff \in Int
  BY <1>1, Clocks DEF Progress, CoreInv
<1>3. CASE RepairTurn(h)
  <2>1. PICK m \in Due(h) : p = [kind |-> "repair", start |-> m, end |-> m, pipeline |-> Native]
    BY <1>3 DEF NextPlans
  <2>2. m \in Int
    BY <1>2 DEF Due, Retryable
  <2>3. QED
    BY <2>1, <2>2 DEF Plan, Kinds, Pipelines
<1>4. CASE ~RepairTurn(h)
  <2>1. p = [kind |-> "forward", start |-> Remote.next, end |-> ForwardEnd, pipeline |-> Native]
    BY <1>4 DEF NextPlans
  <2>2. ForwardEnd \in Int
    BY <1>2, ChronologicalAssumption DEF ForwardEnd
  <2>3. QED
    BY <1>2, <2>1, <2>2 DEF Plan, Kinds, Pipelines
<1>5. QED
  BY <1>3, <1>4

LEMMA StartBuildTypes == ASSUME CoreInv, NEW h \in Hosts, StartBuild(h) PROVE CoreInv'
<1>0. /\ pc' = [pc EXCEPT ![h] = "build"] /\ waiting' = [waiting EXCEPT ![h] = Deferred(h)]
      /\ UNCHANGED <<hub, rev, tree, late, last, sent, served, now, faults>>
      /\ disk[h].ready = None
  BY DEF StartBuild, hubVars
<1>1. PICK p \in Plan : disk' = [disk EXCEPT ![h].request = p]
  <2>1. CASE disk[h].request # None
    <3>1. disk' = [disk EXCEPT ![h].request = disk[h].request]
      BY <2>1, HostFacts DEF StartBuild, CoreInv, HostTypes, Batch
    <3>2. QED
      BY <2>1, <3>1, HostFacts
  <2>2. CASE disk[h].request = None
    BY <2>2, PlanTypes DEF StartBuild
  <2>3. QED
    BY <2>1, <2>2
<1>2. /\ disk' \in [Hosts -> Batch]
      /\ disk'[h].request # None /\ disk'[h].ready = None
      /\ \A g \in Hosts : g # h => disk'[g] = disk[g]
  <2> DEFINE b == [disk[h] EXCEPT !.request = p]
  <2>1. b \in Batch /\ b.request = p /\ b.ready = None
    BY <1>0, HostFacts DEF Batch
  <2>2. disk' = [disk EXCEPT ![h] = b]
    BY <1>1
  <2> HIDE DEF b
  <2>3. p # None
    BY NoneAssumption
  <2>4. QED
    BY <2>1, <2>2, <2>3 DEF CoreInv, HostTypes
<1>3. HostTypes'
  BY <1>0, <1>2, DeferredType DEF CoreInv, HostTypes
<1>4. DiskOK' /\ ProcOK'
  BY <1>0, <1>2 DEF CoreInv, HostTypes, DiskOK, ProcOK
<1>5. QED
  BY <1>0, <1>3, <1>4 DEF CoreInv, HubTypes

LEMMA BuildTypes == ASSUME CoreInv, NEW h \in Hosts, Build(h) PROVE CoreInv'
<1>1. disk[h].request \in Plan
  BY HostFacts DEF Build
<1>2. PICK end \in SealPoints(disk[h].request) :
        \E missing \in SUBSET ((disk[h].request.start .. end) \ served) :
          LET r == [kind |-> disk[h].request.kind, start |-> disk[h].request.start, end |-> end,
                    missing |-> missing, pipeline |-> Native]
          IN  /\ disk' = [disk EXCEPT ![h].ready = r, ![h].intact = TRUE]
              /\ served' = served \cup Complete(r)
              /\ Judge(h, r, waiting[h])
  BY DEF Build
<1>3. PICK missing \in SUBSET ((disk[h].request.start .. end) \ served) :
          LET r == [kind |-> disk[h].request.kind, start |-> disk[h].request.start, end |-> end,
                    missing |-> missing, pipeline |-> Native]
          IN  /\ disk' = [disk EXCEPT ![h].ready = r, ![h].intact = TRUE]
              /\ served' = served \cup Complete(r)
              /\ Judge(h, r, waiting[h])
  BY <1>2
<1> DEFINE r == [kind |-> disk[h].request.kind, start |-> disk[h].request.start, end |-> end,
                 missing |-> missing, pipeline |-> Native]
           b == [disk[h] EXCEPT !.ready = r, !.intact = TRUE]
<1>4. /\ disk' = [disk EXCEPT ![h] = b]
      /\ served' = served \cup Complete(r)
      /\ Judge(h, r, waiting[h])
      /\ UNCHANGED <<hub, rev, tree, late, sent, now, faults>>
  BY <1>3 DEF Build, hubVars
<1>5. end \in Int /\ disk[h].request.start <= end /\ disk[h].request.start \in Int
  BY <1>1 DEF SealPoints, Plan
<1>6. missing \in SUBSET Int /\ missing \subseteq disk[h].request.start .. end
  BY <1>3, <1>5
<1>7. r \in Record /\ WellFormed(r) /\ r.pipeline = Native
  BY <1>1, <1>5, <1>6 DEF Record, WellFormed, Plan, Pipelines
<1>8. b \in Batch /\ b.ready = r /\ b.request = disk[h].request
  BY <1>7, HostFacts DEF Batch
<1> HIDE DEF r, b
<1>9. r # None
  BY <1>7, NoneAssumption
<1>10. /\ disk' \in [Hosts -> Batch] /\ disk'[h] = b
       /\ \A g \in Hosts : g # h => disk'[g] = disk[g]
  BY <1>4, <1>8 DEF CoreInv, HostTypes
<1>11. waiting[h] \in SUBSET Int
  BY HostFacts
<1>12. HostTypes'
  BY <1>4, <1>7, <1>10, <1>11, JudgeTypes DEF CoreInv, HostTypes
<1>13. pc'[h] \in {"publish", "clean"} /\ \A g \in Hosts : g # h => pc'[g] = pc[g]
  BY <1>4, <1>7, <1>11, JudgeTypes
<1>14. DiskOK' /\ ProcOK'
  BY <1>4, <1>7, <1>8, <1>9, <1>10, <1>13 DEF CoreInv, DiskOK, ProcOK
<1>15. served' \subseteq Int
  BY <1>4, <1>7, CompleteFacts DEF CoreInv
<1>16. QED
  BY <1>4, <1>12, <1>14, <1>15 DEF CoreInv, HubTypes

\* The request a host sends moves the head as it finds it.
LEMMA SendTypes == ASSUME CoreInv, NEW h \in Hosts, Send(h) PROVE CoreInv'
<1> DEFINE q == [parent |-> rev, rec |-> disk[h].ready, progress |-> Advanced(disk[h].ready)]
<1>0. /\ sent' = [sent EXCEPT ![h] = q] /\ pc' = [pc EXCEPT ![h] = "commit"]
      /\ UNCHANGED <<hub, rev, tree, late, disk, waiting, last, served, now, faults>>
      /\ pc[h] = "publish"
  BY DEF Send, hubVars
<1>1. disk[h].ready \in Record /\ disk[h].ready # None /\ disk[h].ready.pipeline = Native
  BY <1>0, HostFacts
<1>2. q \in Request
  BY <1>1, AdvancedFacts DEF CoreInv, HubTypes, Request
<1> HIDE DEF q
<1>3. q # None
  BY <1>2, NoneAssumption
<1>4. HostTypes'
  BY <1>0, <1>2 DEF CoreInv, HostTypes
<1>5. DiskOK' /\ ProcOK'
  BY <1>0, <1>1, <1>3 DEF CoreInv, HostTypes, DiskOK, ProcOK
<1>6. QED
  BY <1>0, <1>4, <1>5 DEF CoreInv, HubTypes

LEMMA SettleTypes ==
  ASSUME CoreInv, NEW h \in Hosts, NEW pending \in SUBSET Int, Settle(h, pending),
         disk[h].ready # None
  PROVE  /\ waiting' \in [Hosts -> SUBSET Int] /\ last' \in [Hosts -> Kinds \cup {None}]
         /\ pc' = [pc EXCEPT ![h] = "clean"]
<1>1. disk[h].ready \in Record
  BY HostFacts
<1>2. disk[h].ready.kind \in Kinds
  BY <1>1 DEF Record
<1>3. waiting[h] \cup (disk[h].ready.missing \cap pending) \in SUBSET Int
  BY HostFacts
<1>4. waiting' = [waiting EXCEPT ![h] = waiting[h] \cup (disk[h].ready.missing \cap pending)]
  BY DEF Settle
<1>5. QED
  BY <1>2, <1>3, <1>4, Zenon DEF Settle, CoreInv, HostTypes

LEMMA FindAcknowledgedTypes ==
  ASSUME CoreInv, NEW h \in Hosts, FindAcknowledged(h) PROVE CoreInv'
<1>0. /\ pc[h] = "publish" /\ Settle(h, Remote.pending)
      /\ UNCHANGED <<hub, rev, tree, late, disk, sent, served, now, faults>>
  BY DEF FindAcknowledged, hubVars
<1>1. disk[h].ready # None /\ disk[h].ready.pipeline = Native
  BY <1>0, HostFacts
<1>2. Remote.pending \in SUBSET Int
  BY RemoteType DEF CoreInv, HubTypes, Progress
<1>3. HostTypes' /\ pc' = [pc EXCEPT ![h] = "clean"]
  BY <1>0, <1>1, <1>2, SettleTypes DEF CoreInv, HostTypes
<1>4. QED
  BY <1>0, <1>1, <1>3 DEF CoreInv, HostTypes, HubTypes, DiskOK, ProcOK

LEMMA ConfirmTypes == ASSUME CoreInv, NEW h \in Hosts, Confirm(h) PROVE CoreInv'
<1>0. /\ pc[h] = "landed" /\ Settle(h, sent[h].progress.pending)
      /\ sent' = [sent EXCEPT ![h] = None]
      /\ UNCHANGED <<hub, rev, tree, late, disk, served, now, faults>>
  BY DEF Confirm, hubVars
<1>1. disk[h].ready # None /\ disk[h].ready.pipeline = Native /\ sent[h] \in Request
  BY <1>0, HostFacts
<1>2. sent[h].progress.pending \in SUBSET Int
  BY <1>1 DEF Request, Progress
<1>3. HostTypes' /\ pc' = [pc EXCEPT ![h] = "clean"]
  BY <1>0, <1>1, <1>2, SettleTypes DEF CoreInv, HostTypes
<1>4. QED
  BY <1>0, <1>1, <1>3 DEF CoreInv, HostTypes, HubTypes, DiskOK, ProcOK

LEMMA CleanTypes == ASSUME CoreInv, NEW h \in Hosts, Clean(h) PROVE CoreInv'
<1>0. /\ disk' = [disk EXCEPT ![h] = EmptyBatch] /\ pc' = [pc EXCEPT ![h] = "idle"]
      /\ UNCHANGED <<hub, rev, tree, late, waiting, last, sent, served, now, faults>>
  BY DEF Clean, hubVars
<1>1. EmptyBatch \in Batch /\ EmptyBatch.ready = None
  BY DEF EmptyBatch, Batch
<1>2. QED
  BY <1>0, <1>1 DEF CoreInv, HostTypes, HubTypes, DiskOK, ProcOK

LEMMA RaiseTypes == ASSUME CoreInv, NEW h \in Hosts, Raise(h) PROVE CoreInv'
  BY DEF Raise, Abandon, hubVars, CoreInv, HostTypes, HubTypes, DiskOK, ProcOK

LEMMA ExpireTypes == ASSUME CoreInv, NEW h \in Hosts, Expire(h) PROVE CoreInv'
<1>1. PICK m \in waiting[h] : waiting' = [waiting EXCEPT ![h] = waiting[h] \ {m}]
  BY DEF Expire
<1>2. waiting[h] \ {m} \in SUBSET Int
  BY HostFacts
<1>3. waiting' \in [Hosts -> SUBSET Int]
  BY <1>1, <1>2, Zenon DEF CoreInv, HostTypes
<1>4. QED
  BY <1>3 DEF Expire, hubVars, CoreInv, HostTypes, HubTypes, DiskOK, ProcOK

LEMMA LingerTypes ==
  ASSUME CoreInv, NEW h \in Hosts, MayLinger(h) PROVE late' \subseteq Request
  BY HostFacts DEF MayLinger, CoreInv, HubTypes

LEMMA FailTypes == ASSUME CoreInv, NEW h \in Hosts, Fail(h) PROVE CoreInv'
<1>1. late' \subseteq Request /\ faults' \in Nat
  BY LingerTypes DEF Fail, CoreInv
<1>2. QED
  BY <1>1 DEF Fail, Abandon, CoreInv, HostTypes, HubTypes, DiskOK, ProcOK

LEMMA CrashTypes == ASSUME CoreInv, NEW h \in Hosts, Crash(h) PROVE CoreInv'
<1>1. late' \subseteq Request /\ faults' \in Nat
  BY LingerTypes DEF Crash, CoreInv
<1>2. disk' \in [Hosts -> Batch] /\ DiskOK' /\ \A g \in Hosts : g # h => disk'[g] = disk[g]
  <2>1. CASE UNCHANGED disk
    BY <2>1 DEF CoreInv, HostTypes, DiskOK
  <2>2. CASE pc[h] = "clean"
    <3>1. PICK b \in Debris(disk[h]) : disk' = [disk EXCEPT ![h] = b]
      BY <2>2 DEF Crash
    <3>2. b \in Batch /\ b.ready \in {disk[h].ready, None}
      BY DebrisFacts, HostFacts
    <3>3. QED
      BY <3>1, <3>2 DEF CoreInv, HostTypes, DiskOK
  <2>3. QED
    BY <2>1, <2>2 DEF Crash
<1>3. QED
  BY <1>1, <1>2 DEF Crash, Abandon, CoreInv, HostTypes, HubTypes, DiskOK, ProcOK

LEMMA CommitTypes ==
  ASSUME CoreInv, NEW q \in Request, Commit(q)
  PROVE  hub' \in Progress \cup {None} /\ rev' \in Nat /\ tree' \subseteq Shard
<1>1. q.rec \in Record /\ q.progress \in Progress
  BY DEF Request
<1>2. [rec |-> q.rec, moved |-> FALSE] \in Shard
  BY <1>1 DEF Shard
<1>3. rev' = rev + 1 /\ hub' = q.progress
      /\ tree' \in {tree, tree \cup {[rec |-> q.rec, moved |-> FALSE]}}
  BY DEF Commit
<1>4. rev' \in Nat /\ hub' \in Progress
  BY <1>1, <1>3 DEF CoreInv, HubTypes
<1>5. tree \subseteq Shard
  BY DEF CoreInv, HubTypes
<1>6. QED
  BY <1>2, <1>3, <1>4, <1>5, Zenon

LEMMA LandTypes == ASSUME CoreInv, NEW h \in Hosts, Land(h) PROVE CoreInv'
<1>1. sent[h] \in Request /\ Commit(sent[h])
  BY HostFacts DEF Land
<1>2. HubTypes'
  BY <1>1, CommitTypes DEF Land, CoreInv, HubTypes
<1>3. QED
  BY <1>2 DEF Land, CoreInv, HostTypes, DiskOK, ProcOK

LEMMA LandLateTypes == ASSUME CoreInv, LandLate PROVE CoreInv'
<1>1. PICK q \in late : Commit(q) /\ late' = late \ {q}
  BY DEF LandLate
<1>2. q \in Request
  BY DEF CoreInv, HubTypes
<1>3. HubTypes'
  BY <1>1, <1>2, CommitTypes DEF CoreInv, HubTypes
<1>4. QED
  BY <1>3 DEF LandLate, hostVars, CoreInv, HostTypes, DiskOK, ProcOK

LEMMA TickTypes == ASSUME CoreInv, Tick PROVE CoreInv'
  BY DEF Tick, hubVars, hostVars, CoreInv, HostTypes, HubTypes, DiskOK, ProcOK

LEMMA CoreStep == ASSUME CoreInv, Next PROVE CoreInv'
<1>1. ASSUME NEW h \in Hosts, Step(h) PROVE CoreInv'
  BY <1>1, TakeReadyTypes, StartBuildTypes, BuildTypes, SendTypes, FindAcknowledgedTypes,
     ConfirmTypes, CleanTypes, RaiseTypes DEF Step
<1>2. ASSUME NEW h \in Hosts, Land(h) \/ Expire(h) \/ Fail(h) \/ Crash(h) PROVE CoreInv'
  BY <1>2, LandTypes, ExpireTypes, FailTypes, CrashTypes
<1>3. QED
  BY <1>1, <1>2, LandLateTypes, TickTypes DEF Next

-----------------------------------------------------------------------------
(* Types are preserved by the earlier publishers and the tools.            *)

LEMMA OvertakenTypes == ASSUME ToolTypes, Overtaken PROVE ToolTypes'
<1>1. Idle \in Tool
  BY DEF Idle, Tool
<1>2. QED
  BY <1>1 DEF Overtaken, ToolTypes

\* The checkpoint of an earlier publisher.
LEMMA EarlierProgress ==
  ASSUME CoreInv, NEW r \in Record, NEW p \in Pipelines, NEW queue \in SUBSET Int
  PROVE  [Advanced(r) EXCEPT !.pipeline = p, !.pending = queue] \in Progress
<1>1. Advanced(r) \in Progress
  BY AdvancedFacts DEF CoreInv, HubTypes
<1>2. QED
  BY <1>1 DEF Progress

\* What an earlier publisher commits: it claims the minutes after the cursor,
\* and an enriched batch queues nothing.
LEMMA EarlierForwardFacts ==
  ASSUME CoreInv, NEW p \in Earlier, EarlierForward(p)
  PROVE  \E r \in Record, moved \in BOOLEAN, enriched \in BOOLEAN, queue \in SUBSET Int :
           /\ r.kind = "forward" /\ r.start = Remote.next /\ r.pipeline = p /\ WellFormed(r)
           /\ p = "enriched" => enriched
           /\ enriched => p = "enriched" \/ hub = None
           /\ queue = IF enriched THEN {} ELSE Advanced(r).pending
           /\ hub' = [Advanced(r) EXCEPT !.pipeline = p, !.pending = queue]
           /\ unqueued' = IF enriched THEN unqueued \cup r.missing ELSE unqueued
           /\ tree' = tree \cup {[rec |-> r, moved |-> moved]}
           /\ served' = served \cup Complete(r)
<1>1. Remote \in Progress /\ p \in Pipelines
  BY RemoteType, EarlierAssumption DEF CoreInv, HubTypes, Pipelines
<1>2. PICK moved \in {FALSE} \cup {p = "plain" /\ hub = None} :
      LET enriched == p = "enriched" \/ moved
      IN  \E end \in Remote.next .. (IF enriched THEN now - EarlierLag ELSE Cutoff) :
          \E missing \in SUBSET ((Remote.next .. end) \ served) :
            LET r == [kind |-> "forward", start |-> Remote.next, end |-> end,
                      missing |-> missing, pipeline |-> p]
            IN  /\ hub' = [Advanced(r) EXCEPT !.pipeline = p,
                                              !.pending = IF enriched THEN {} ELSE @]
                /\ unqueued' = IF enriched THEN unqueued \cup missing ELSE unqueued
                /\ tree' = tree \cup {[rec |-> r, moved |-> moved]}
                /\ served' = served \cup Complete(r)
  BY DEF EarlierForward
<1> DEFINE enriched == p = "enriched" \/ moved
           newest == IF enriched THEN now - EarlierLag ELSE Cutoff
<1>3. PICK end \in Remote.next .. newest :
      \E missing \in SUBSET ((Remote.next .. end) \ served) :
        LET r == [kind |-> "forward", start |-> Remote.next, end |-> end,
                  missing |-> missing, pipeline |-> p]
        IN  /\ hub' = [Advanced(r) EXCEPT !.pipeline = p,
                                          !.pending = IF enriched THEN {} ELSE @]
            /\ unqueued' = IF enriched THEN unqueued \cup missing ELSE unqueued
            /\ tree' = tree \cup {[rec |-> r, moved |-> moved]}
            /\ served' = served \cup Complete(r)
  BY <1>2
<1>4. PICK missing \in SUBSET ((Remote.next .. end) \ served) :
        LET r == [kind |-> "forward", start |-> Remote.next, end |-> end,
                  missing |-> missing, pipeline |-> p]
        IN  /\ hub' = [Advanced(r) EXCEPT !.pipeline = p,
                                          !.pending = IF enriched THEN {} ELSE @]
            /\ unqueued' = IF enriched THEN unqueued \cup missing ELSE unqueued
            /\ tree' = tree \cup {[rec |-> r, moved |-> moved]}
            /\ served' = served \cup Complete(r)
  BY <1>3
<1> DEFINE r == [kind |-> "forward", start |-> Remote.next, end |-> end,
                 missing |-> missing, pipeline |-> p]
           queue == IF enriched THEN {} ELSE Advanced(r).pending
<1>5. newest \in Int
  <2>1. now \in Int
    BY DEF CoreInv
  <2>2. QED
    BY <2>1, Clocks, EarlierAssumption
<1>6. moved \in BOOLEAN /\ enriched \in BOOLEAN
      /\ (p = "enriched" => enriched) /\ (enriched => p = "enriched" \/ hub = None)
  BY Zenon
<1> HIDE DEF enriched, newest
<1>7. Remote.next \in Int /\ end \in Int /\ Remote.next <= end /\ end <= newest
  BY <1>1, <1>4, <1>5 DEF Progress
<1>8. missing \in SUBSET Int /\ missing \subseteq Remote.next .. end
  BY <1>7
<1>9. r \in Record /\ WellFormed(r)
  BY <1>1, <1>7, <1>8 DEF Record, Kinds, WellFormed
<1>10. r.kind = "forward" /\ r.start = Remote.next /\ r.pipeline = p /\ r.missing = missing
  OBVIOUS
<1>11. /\ hub' = [Advanced(r) EXCEPT !.pipeline = p, !.pending = queue]
       /\ unqueued' = IF enriched THEN unqueued \cup r.missing ELSE unqueued
       /\ tree' = tree \cup {[rec |-> r, moved |-> moved]} /\ served' = served \cup Complete(r)
  BY <1>4
<1> HIDE DEF r
<1>12. queue \in SUBSET Int
  BY <1>9, AdvancedFacts DEF CoreInv, HubTypes, Progress
<1>13. QED
  BY <1>6, <1>9, <1>10, <1>11, <1>12

LEMMA EarlierForwardTypes ==
  ASSUME CoreInv, NEW p \in Earlier, EarlierForward(p) PROVE CoreInv'
<1>1. PICK r \in Record, moved \in BOOLEAN, queue \in SUBSET Int :
        /\ hub' = [Advanced(r) EXCEPT !.pipeline = p, !.pending = queue]
        /\ tree' = tree \cup {[rec |-> r, moved |-> moved]}
        /\ served' = served \cup Complete(r)
  BY EarlierForwardFacts
<1>2. hub' \in Progress
  BY <1>1, EarlierProgress, EarlierAssumption DEF Pipelines
<1>3. tree' \subseteq Shard /\ served' \subseteq Int
  BY <1>1, CompleteFacts DEF CoreInv, HubTypes, Shard
<1>4. rev' = rev + 1 /\ faults' \in Nat /\ UNCHANGED <<late, disk, waiting, pc, last, sent, now>>
  BY DEF EarlierForward, Unstopped, hostVars, CoreInv
<1>5. HubTypes' /\ HostTypes'
  BY <1>2, <1>3, <1>4 DEF CoreInv, HubTypes, HostTypes
<1>6. QED
  BY <1>3, <1>4, <1>5 DEF CoreInv, DiskOK, ProcOK

\* A late file of the plain dataset takes its minute out of the queue.
LEMMA EarlierRepairFacts ==
  ASSUME CoreInv, EarlierRepair
  PROVE  /\ hub \in Progress /\ hub.pipeline = "plain"
         /\ \E r \in Record :
              /\ r.kind = "repair" /\ r.start = r.end /\ r.missing = {} /\ r.start \in hub.pending
              /\ r.pipeline = "plain" /\ WellFormed(r) /\ Complete(r) = {r.start}
              /\ hub' = [Advanced(r) EXCEPT !.pipeline = "plain"]
              /\ tree' = tree \cup {[rec |-> r, moved |-> FALSE]}
              /\ served' = served \cup {r.start}
<1>1. hub \in Progress /\ hub.pipeline = "plain"
  BY DEF EarlierRepair, CoreInv, HubTypes
<1>2. PICK m \in hub.pending :
        LET r == [kind |-> "repair", start |-> m, end |-> m, missing |-> {}, pipeline |-> "plain"]
        IN  /\ hub' = [Advanced(r) EXCEPT !.pipeline = "plain"]
            /\ tree' = tree \cup {[rec |-> r, moved |-> FALSE]}
            /\ served' = served \cup {m}
  BY DEF EarlierRepair
<1> DEFINE r == [kind |-> "repair", start |-> m, end |-> m, missing |-> {}, pipeline |-> "plain"]
<1>3. m \in Int
  BY <1>1 DEF Progress
<1>4. r \in Record /\ WellFormed(r) /\ Complete(r) = {m}
  BY <1>3 DEF Record, WellFormed, Complete, Kinds, Pipelines
<1>5. /\ hub' = [Advanced(r) EXCEPT !.pipeline = "plain"]
      /\ tree' = tree \cup {[rec |-> r, moved |-> FALSE]} /\ served' = served \cup {m}
  BY <1>2
<1>6. /\ r.kind = "repair" /\ r.start = m /\ r.end = m /\ r.missing = {}
      /\ r.pipeline = "plain"
  OBVIOUS
<1> HIDE DEF r
<1>7. QED
  BY <1>1, <1>4, <1>5, <1>6

LEMMA EarlierRepairTypes == ASSUME CoreInv, EarlierRepair PROVE CoreInv'
<1>1. PICK r \in Record :
        /\ r.start \in hub.pending
        /\ hub' = [Advanced(r) EXCEPT !.pipeline = "plain"]
        /\ tree' = tree \cup {[rec |-> r, moved |-> FALSE]}
        /\ served' = served \cup {r.start}
  BY EarlierRepairFacts
<1>2. Advanced(r) \in Progress
  BY AdvancedFacts DEF CoreInv, HubTypes
<1>3. hub' \in Progress
  BY <1>1, <1>2 DEF Progress, Pipelines
<1>31. [rec |-> r, moved |-> FALSE] \in Shard
  BY DEF Shard
<1>4. tree' \subseteq Shard /\ served' \subseteq Int
  <2>1. r.start \in Int
    BY DEF Record
  <2>2. QED
    BY <1>1, <1>31, <2>1 DEF CoreInv, HubTypes
<1>5. rev' = rev + 1 /\ faults' \in Nat /\ UNCHANGED <<late, disk, waiting, pc, last, sent, now>>
  BY DEF EarlierRepair, Unstopped, hostVars, CoreInv
<1>6. HubTypes' /\ HostTypes'
  BY <1>3, <1>4, <1>5 DEF CoreInv, HubTypes, HostTypes
<1>7. QED
  BY <1>4, <1>5, <1>6 DEF CoreInv, DiskOK, ProcOK

LEMMA EarlierLeavesTypes ==
  ASSUME CoreInv, NEW h \in Hosts, EarlierLeaves(h) PROVE CoreInv'
<1> DEFINE p == [kind |-> "forward", start |-> hub.next, end |-> hub.next,
                 pipeline |-> hub.pipeline]
           r == [kind |-> "forward", start |-> hub.next, end |-> hub.next,
                 missing |-> {hub.next}, pipeline |-> hub.pipeline]
           b1 == [request |-> p, ready |-> None, intact |-> FALSE]
           b2 == [request |-> p, ready |-> r, intact |-> TRUE]
<1>1. PICK b \in {b1, b2} : disk' = [disk EXCEPT ![h] = b]
  BY DEF EarlierLeaves
<1>2. hub \in Progress
  BY DEF EarlierLeaves, CoreInv, HubTypes
<1>3. hub.next \in Int /\ hub.pipeline \in Pipelines
  BY <1>2 DEF Progress
<1>4. p \in Plan /\ r \in Record /\ WellFormed(r)
  BY <1>3 DEF Plan, Record, Kinds, WellFormed
<1>5. b1.ready = None /\ b2.ready = r
  OBVIOUS
<1> HIDE DEF p, r
<1>6. b1 \in Batch /\ b2 \in Batch
  BY <1>4 DEF Batch
<1> HIDE DEF b1, b2
<1>7. pc[h] = "idle" /\ UNCHANGED <<hub, rev, tree, late, waiting, pc, last, sent, served, now, faults>>
  BY DEF EarlierLeaves, hubVars
<1>8. b \in Batch /\ (b.ready # None => WellFormed(b.ready))
  BY <1>1, <1>4, <1>5, <1>6
<1>9. disk' \in [Hosts -> Batch] /\ disk'[h] = b /\ \A g \in Hosts : g # h => disk'[g] = disk[g]
  BY <1>1, <1>8 DEF CoreInv, HostTypes
<1>10. QED
  BY <1>7, <1>8, <1>9 DEF CoreInv, HostTypes, HubTypes, DiskOK, ProcOK

\* The native shard of a batch.
LEMMA DeliverTypes ==
  ASSUME tool \in Tool, NEW s \in Shard, NEW r \in Record, Deliver(s, r)
  PROVE  tool' \in Tool
<1> DEFINE kind == IF tool.progress.pipeline = "enriched" THEN "forward" ELSE s.rec.kind
           image == [rec |-> [r EXCEPT !.pipeline = Native, !.kind = kind], moved |-> TRUE]
<1>1. kind \in Kinds
  BY DEF Shard, Record, Kinds
<1> HIDE DEF kind
<1>2. image \in Shard
  BY <1>1 DEF Shard, Record, Pipelines
<1>3. tool' = [tool EXCEPT !.todo = tool.todo \ {s}, !.out = tool.out \cup {image}]
  BY DEF Deliver, kind
<1> HIDE DEF image
<1>4. tool.todo \ {s} \in SUBSET Shard /\ tool.out \cup {image} \in SUBSET Shard
  BY <1>2 DEF Tool
<1>5. QED
  BY <1>3, <1>4 DEF Tool

\* No step of a tool but its commit touches the head, the disks or the clock.
ToolQuiet == UNCHANGED <<hub, rev, tree, late, disk, waiting, pc, last, sent, now>>

LEMMA QuietTypes ==
  ASSUME CoreInv, ToolQuiet, served' \subseteq Int, faults' \in Nat PROVE CoreInv'
  BY DEF ToolQuiet, CoreInv, HubTypes, HostTypes, DiskOK, ProcOK

\* The work of a conversion, and how it ends.
Converts == ToolConvert \/ ToolAccept
Ends == ToolRefuse \/ ToolEnd \/ ToolFail \/ ToolConflict

LEMMA ToolReadTypes == ASSUME TypeInv, ToolRead PROVE TypeInv' /\ ToolQuiet
<1>1. tool' = [step |-> "convert", parent |-> rev, progress |-> hub, todo |-> tree, out |-> {}]
      /\ UNCHANGED <<hub, rev, tree, late, disk, waiting, pc, last, sent, served, now, faults>>
      /\ UNCHANGED <<rebuilt, flying>>
  BY DEF ToolRead, vars
<1>2. tool' \in Tool
  BY <1>1 DEF TypeInv, CoreInv, HubTypes, Tool
<1>3. ToolQuiet
  BY <1>1 DEF ToolQuiet
<1>4. QED
  BY <1>1, <1>2, <1>3, QuietTypes DEF TypeInv, CoreInv, ToolTypes

LEMMA ConvertsTypes == ASSUME TypeInv, Converts PROVE TypeInv' /\ ToolQuiet
<1>1. UNCHANGED <<hub, rev, tree, late, disk, waiting, pc, last, sent, served, now, faults>>
      /\ UNCHANGED <<rebuilt, flying>>
  BY DEF Converts, ToolConvert, ToolAccept, vars
<1>2. PICK s \in tool.todo : \E r \in {s.rec} \cup rebuilt : Deliver(s, r)
  BY DEF Converts, ToolConvert, ToolAccept, Kept
<1>3. s \in Shard /\ s.rec \in Record /\ rebuilt \subseteq Record /\ tool \in Tool
  <2>1. tool \in Tool /\ rebuilt \subseteq Record
    BY DEF TypeInv, ToolTypes
  <2>2. s \in Shard
    BY <2>1 DEF Tool
  <2>3. QED
    BY <2>1, <2>2 DEF Shard
<1>4. tool' \in Tool
  BY <1>2, <1>3, DeliverTypes
<1>5. ToolQuiet
  BY <1>1 DEF ToolQuiet
<1>6. QED
  BY <1>1, <1>4, <1>5, QuietTypes DEF TypeInv, CoreInv, ToolTypes

LEMMA ToolRebuildTypes == ASSUME TypeInv, ToolRebuild PROVE TypeInv' /\ ToolQuiet
<1>1. UNCHANGED <<hub, rev, tree, late, disk, waiting, pc, last, sent, now, faults, tool, flying>>
  BY DEF ToolRebuild, hubVars, hostVars
<1>11. PICK s \in tool.todo : \E end \in SealPoints(s.rec) :
        \E missing \in SUBSET ((s.rec.start .. end) \ served) :
          LET r == [s.rec EXCEPT !.end = end, !.missing = missing, !.pipeline = Native]
          IN  rebuilt' = rebuilt \cup {r} /\ served' = served \cup Complete(r)
  BY Zenon DEF ToolRebuild
<1>2. PICK end \in SealPoints(s.rec) :
        \E missing \in SUBSET ((s.rec.start .. end) \ served) :
          LET r == [s.rec EXCEPT !.end = end, !.missing = missing, !.pipeline = Native]
          IN  rebuilt' = rebuilt \cup {r} /\ served' = served \cup Complete(r)
  BY <1>11, Zenon
<1>3. PICK missing \in SUBSET ((s.rec.start .. end) \ served) :
        LET r == [s.rec EXCEPT !.end = end, !.missing = missing, !.pipeline = Native]
        IN  rebuilt' = rebuilt \cup {r} /\ served' = served \cup Complete(r)
  BY <1>2
<1> DEFINE r == [s.rec EXCEPT !.end = end, !.missing = missing, !.pipeline = Native]
<1>4. s.rec \in Record
  <2>1. tool \in Tool
    BY DEF TypeInv, ToolTypes
  <2>2. s \in Shard
    BY <2>1 DEF Tool
  <2>3. QED
    BY <2>2 DEF Shard
<1>5. end \in Int /\ missing \in SUBSET Int
  <2>1. s.rec.start \in Int /\ s.rec.end \in Int
    BY <1>4 DEF Record
  <2>2. end \in Int
    BY <2>1 DEF SealPoints
  <2>3. QED
    BY <2>1, <2>2
<1>6. r \in Record
  BY <1>4, <1>5 DEF Record, Pipelines
<1>7. rebuilt' = rebuilt \cup {r} /\ served' = served \cup Complete(r)
  BY <1>3
<1> HIDE DEF r
<1>8. ToolTypes' /\ served' \subseteq Int
  BY <1>1, <1>6, <1>7, CompleteFacts DEF TypeInv, CoreInv, ToolTypes
<1>9. ToolQuiet
  BY <1>1 DEF ToolQuiet
<1>10. QED
  BY <1>1, <1>8, <1>9, QuietTypes DEF TypeInv, CoreInv

LEMMA ToolSendTypes == ASSUME TypeInv, ToolSend PROVE TypeInv' /\ ToolQuiet
<1>1. tool' = [tool EXCEPT !.step = "commit"]
      /\ UNCHANGED <<hub, rev, tree, late, disk, waiting, pc, last, sent, served, now, faults>>
      /\ UNCHANGED <<rebuilt, flying>>
  BY DEF ToolSend, vars
<1>2. tool' \in Tool
  BY <1>1 DEF TypeInv, ToolTypes, Tool
<1>3. ToolQuiet
  BY <1>1 DEF ToolQuiet
<1>4. QED
  BY <1>1, <1>2, <1>3, QuietTypes DEF TypeInv, CoreInv, ToolTypes

LEMMA EndsTypes == ASSUME TypeInv, Ends PROVE TypeInv' /\ ToolQuiet
<1>1. /\ tool' = Idle /\ flying' \in {flying, {tool}} /\ faults' \in {faults, faults + 1}
      /\ UNCHANGED <<hub, rev, tree, late, disk, waiting, pc, last, sent, served, now, rebuilt>>
  BY DEF Ends, ToolRefuse, ToolEnd, ToolFail, ToolConflict, vars, hubVars, hostVars
<1>2. Idle \in Tool
  BY DEF Idle, Tool
<1>3. ToolQuiet
  BY <1>1 DEF ToolQuiet
<1>4. QED
  BY <1>1, <1>2, <1>3, QuietTypes DEF TypeInv, CoreInv, ToolTypes

-----------------------------------------------------------------------------
(* The head.                                                               *)

\* The tree gets the shard of r, if r has rows.
Adds(r) ==
  \/ \E moved \in BOOLEAN : tree' = tree \cup {[rec |-> r, moved |-> moved]}
  \/ Complete(r) = {} /\ tree' = tree

\* A batch that follows the head publishes new minutes, and claims them or
\* takes them from the gaps.
LEMMA MoveFacts ==
  ASSUME CoreInv, HeadOK, NEW r \in Record, NEW lost \in SUBSET r.missing,
         hub' \in Progress, Follows(r, hub', lost), Adds(r)
  PROVE  /\ Remote' = hub'
         /\ Published' = Published \cup Complete(r) /\ Complete(r) \cap Published = {}
         /\ Published' \subseteq First .. hub'.next - 1
         /\ Claims(r, hub', lost) =>
              /\ hub'.next > Remote.next
              /\ Gaps' = Gaps \cup r.missing
              /\ (r.start .. r.end) \cap (First .. Remote.next - 1) = {}
              /\ First .. hub'.next - 1 = (First .. Remote.next - 1) \cup (r.start .. r.end)
              /\ r.missing \cap Gaps = {}
         /\ Recovers(r, hub') => /\ r.start \in Gaps /\ Gaps' = Gaps \ {r.start}
                                 /\ Complete(r) = {r.start}
<1>1. Remote \in Progress /\ Remote.next \in Int /\ Remote.pending \subseteq Int
  BY RemoteType DEF CoreInv, HubTypes, Progress
<1>2. hub' # None /\ Remote' = hub' /\ hub'.next \in Int
  BY NoneAssumption DEF Remote, Progress
<1>3. r.start \in Int /\ r.end \in Int /\ r.start <= r.end /\ r.missing \subseteq r.start .. r.end
  BY DEF Record, Follows, WellFormed
<1>4. Published' = Published \cup Complete(r)
  <2>1. CASE Complete(r) = {} /\ tree' = tree
    BY <2>1 DEF Published
  <2>2. CASE \E moved \in BOOLEAN : tree' = tree \cup {[rec |-> r, moved |-> moved]}
    <3>1. PICK moved \in BOOLEAN : tree' = tree \cup {[rec |-> r, moved |-> moved]}
      BY <2>2
    <3> DEFINE new == [rec |-> r, moved |-> moved]
    <3>2. new.rec = r /\ tree' = tree \cup {new}
      BY <3>1
    <3> HIDE DEF new
    <3>3. Published' = UNION {Complete(s.rec) : s \in tree'}
      BY DEF Published, Complete
    <3>4. QED
      BY <3>2, <3>3 DEF Published
  <2>3. QED
    BY <2>1, <2>2 DEF Adds
<1>5. Published \subseteq First .. Remote.next - 1 /\ First <= Remote.next /\ First \in Int
  BY ChronologicalAssumption DEF HeadOK
<1>6. Complete(r) \subseteq r.start .. r.end /\ r.missing \cap Complete(r) = {}
      /\ r.start .. r.end = Complete(r) \cup r.missing
  BY <1>3 DEF Complete
<1>7. Gaps' = (First .. hub'.next - 1) \ Published'
      /\ Gaps = (First .. Remote.next - 1) \ Published
  BY <1>2 DEF Gaps
<1>8. CASE Claims(r, hub', lost)
  <2>1. r.start = Remote.next /\ hub'.next = r.end + 1
    BY <1>8 DEF Claims
  <2>2. (r.start .. r.end) \cap (First .. Remote.next - 1) = {}
        /\ First .. hub'.next - 1 = (First .. Remote.next - 1) \cup (r.start .. r.end)
    BY <1>1, <1>2, <1>3, <1>5, <2>1
  <2>3. Gaps' = Gaps \cup r.missing
    BY <1>4, <1>5, <1>6, <1>7, <2>2
  <2>4. ~Recovers(r, hub')
    BY <1>3, <2>1 DEF Recovers
  <2>5. hub'.next > Remote.next
    BY <1>1, <1>3, <2>1
  <2>6. Complete(r) \cap Published = {} /\ Published' \subseteq First .. hub'.next - 1
    BY <1>4, <1>5, <1>6, <2>2
  <2>7. r.missing \cap Gaps = {}
    BY <1>3, <1>7, <2>2
  <2>8. QED
    BY <1>2, <1>4, <2>2, <2>3, <2>4, <2>5, <2>6, <2>7
<1>9. CASE Recovers(r, hub')
  <2>1. r.start = r.end /\ r.missing = {} /\ r.start \in Remote.pending /\ hub'.next = Remote.next
    BY <1>9 DEF Recovers
  <2>2. Complete(r) = {r.start}
    BY <1>3, <2>1 DEF Complete
  <2>3. r.start \in Gaps
    BY <2>1 DEF HeadOK, GapsQueued
  <2>4. Gaps' = Gaps \ {r.start} /\ Complete(r) \cap Published = {}
        /\ Published' \subseteq First .. hub'.next - 1
    BY <1>4, <1>5, <1>7, <2>1, <2>2, <2>3
  <2>5. ~Claims(r, hub', lost)
    BY <1>3, <2>1 DEF Claims
  <2>6. QED
    BY <1>2, <1>4, <2>2, <2>3, <2>4, <2>5
<1>10. QED
  BY <1>8, <1>9 DEF Follows

LEMMA PublishedFinite ==
  ASSUME Published \subseteq First .. Remote.next - 1, Remote.next \in Int
  PROVE  IsFiniteSet(Published) /\ Cardinality(Published) \in Nat
<1>1. IsFiniteSet(First .. Remote.next - 1)
  BY FS_Interval, ChronologicalAssumption
<1>2. QED
  BY <1>1, FS_Subset, FS_CardinalityType

\* Such a batch keeps what the head says true.
LEMMA MoveKeepsHead ==
  ASSUME CoreInv, HeadOK, NEW r \in Record, NEW lost \in SUBSET r.missing,
         hub' \in Progress, Follows(r, hub', lost), Adds(r),
         unqueued' = unqueued \cup lost, now' = now
  PROVE  HeadOK'
<1>0. /\ Remote' = hub'
      /\ Published' = Published \cup Complete(r) /\ Complete(r) \cap Published = {}
      /\ Published' \subseteq First .. hub'.next - 1
      /\ Claims(r, hub', lost) =>
           hub'.next > Remote.next /\ Gaps' = Gaps \cup r.missing /\ r.missing \cap Gaps = {}
      /\ Recovers(r, hub') => Gaps' = Gaps \ {r.start}
  BY MoveFacts
<1>1. Remote \in Progress /\ Remote.next \in Int /\ hub'.next \in Int /\ (hub # None => Remote = hub)
  BY RemoteType DEF CoreInv, HubTypes, Progress
<1>2. hub' # None
  BY NoneAssumption
<1>3. First <= Remote'.next /\ Published' \subseteq First .. Remote'.next - 1
  <2>1. CASE Claims(r, hub', lost)
    BY <1>0, <1>1, <2>1, ChronologicalAssumption DEF HeadOK
  <2>2. CASE Recovers(r, hub')
    BY <1>0, <1>1, <2>2 DEF HeadOK, Recovers
  <2>3. QED
    BY <2>1, <2>2 DEF Follows
<1>4. Remote'.pipeline = "enriched" => Remote'.pending = {}
  BY <1>0 DEF Follows
<1>5. TreeUniform'
  <2>1. \A s \in tree : s.rec.pipeline = hub'.pipeline
    BY <1>1 DEF HeadOK, TreeUniform, Follows
  <2>2. r.pipeline = hub'.pipeline
    BY DEF Follows
  <2>3. QED
    BY <1>0, <2>1, <2>2 DEF Adds, TreeUniform
<1>6. Remote'.total = Cardinality(Published')
  <2>1. IsFiniteSet(Published) /\ IsFiniteSet(Complete(r))
    BY <1>1, PublishedFinite, CompleteFacts DEF HeadOK
  <2>2. Cardinality(Published') = Cardinality(Published) + Cardinality(Complete(r))
                                    - Cardinality(Published \cap Complete(r))
    BY <1>0, <2>1, FS_Union
  <2>3. Cardinality(Published \cap Complete(r)) = 0
    BY <1>0, FS_EmptySet
  <2>4. Cardinality(Published) \in Nat /\ Cardinality(Complete(r)) \in Nat
    BY <2>1, FS_CardinalityType
  <2>5. QED
    BY <1>0, <2>2, <2>3, <2>4 DEF HeadOK, EachObservationOnce, Follows
<1>7. \A s, t \in tree' : s # t => Complete(s.rec) \cap Complete(t.rec) = {}
  <2>1. \A s \in tree : Complete(s.rec) \subseteq Published
    BY DEF Published
  <2>2. \A s \in tree : Complete(s.rec) \cap Complete(r) = {}
    BY <1>0, <2>1
  <2>3. \A s, t \in tree : s # t => Complete(s.rec) \cap Complete(t.rec) = {}
    BY DEF HeadOK, EachObservationOnce
  <2>4. CASE tree' = tree
    BY <2>3, <2>4
  <2>5. CASE \E moved \in BOOLEAN : tree' = tree \cup {[rec |-> r, moved |-> moved]}
    <3>1. PICK moved \in BOOLEAN : tree' = tree \cup {[rec |-> r, moved |-> moved]}
      BY <2>5
    <3> DEFINE new == [rec |-> r, moved |-> moved]
    <3>2. new.rec = r /\ tree' = tree \cup {new}
      BY <3>1
    <3> HIDE DEF new
    <3>3. QED
      BY <2>2, <2>3, <3>2
  <2>6. QED
    BY <2>4, <2>5 DEF Adds
<1>8. GapsQueued' /\ unqueued' \subseteq Gaps'
  <2>1. /\ {m \in Gaps \ unqueued : m >= Earliest} \subseteq Remote.pending
        /\ Remote.pending \subseteq Gaps \ unqueued /\ unqueued \subseteq Gaps
    BY DEF HeadOK, GapsQueued
  <2>2. Earliest' = Earliest
    BY DEF Earliest
  <2>3. CASE Claims(r, hub', lost)
    BY <1>0, <2>1, <2>2, <2>3 DEF Claims, Keeps, GapsQueued
  <2>4. CASE Recovers(r, hub')
    <3>1. lost = {} /\ r.start \in Remote.pending /\ r.start \notin unqueued
      BY <2>1, <2>4 DEF Recovers
    <3>2. QED
      BY <1>0, <2>1, <2>2, <2>4, <3>1 DEF Recovers, Keeps, GapsQueued
  <2>5. QED
    BY <2>3, <2>4 DEF Follows
<1>9. QED
  BY <1>2, <1>3, <1>4, <1>5, <1>6, <1>7, <1>8 DEF HeadOK, EachObservationOnce

LEMMA EarliestGrows ==
  ASSUME now \in Int, now' \in Int, now' >= now
  PROVE  Earliest \in Int /\ Earliest' \in Int /\ Earliest' >= Earliest
<1>1. Retry \in Int
  BY ChronologicalAssumption
<1>2. Earliest = now - Retry /\ Earliest' = now' - Retry
  BY DEF Earliest
<1>3. \A a, b \in Int : b >= a => b - Retry >= a - Retry
  BY <1>1
<1>4. \A a \in Int : a - Retry \in Int
  BY <1>1
<1>5. QED
  BY <1>2, <1>3, <1>4, Zenon

\* The queue may get smaller as the minutes age.
LEMMA KeepsOlder ==
  ASSUME now \in Int, now' \in Int, now' >= now,
         NEW queue, NEW minutes \in SUBSET Int, Keeps(queue, minutes)
  PROVE  queue \subseteq minutes /\ {m \in minutes : m >= Earliest'} \subseteq queue
<1>1. Earliest \in Int /\ Earliest' \in Int /\ Earliest' >= Earliest
  BY EarliestGrows
<1>2. \A m \in minutes : m >= Earliest => m \in queue
  BY DEF Keeps
<1>3. \A m \in minutes : m >= Earliest' => m >= Earliest
  BY <1>1
<1>4. QED
  BY <1>2, <1>3 DEF Keeps

\* Of what the clock changes, only the age of the gaps matters.
LEMMA TickKeepsHead ==
  ASSUME CoreInv, HeadOK, Tick, UNCHANGED unqueued PROVE HeadOK'
<1>1. now' = now + 1 /\ now \in Int /\ UNCHANGED <<hub, rev, tree, late>>
  BY DEF Tick, hubVars, CoreInv
<1>2. Remote' = Remote /\ Published' = Published
  BY <1>1 DEF Remote, Published
<1>3. Gaps' = Gaps
  BY <1>2 DEF Gaps
<1>5. Gaps \subseteq Int
  BY RemoteType, ChronologicalAssumption DEF Gaps, CoreInv, HubTypes, Progress
<1>4. Keeps(Remote.pending, Gaps \ unqueued)
  BY DEF HeadOK, GapsQueued, Keeps
<1>6. GapsQueued' /\ unqueued' \subseteq Gaps'
  BY <1>1, <1>2, <1>3, <1>4, <1>5, KeepsOlder DEF GapsQueued, HeadOK
<1>7. QED
  BY <1>1, <1>2, <1>6 DEF HeadOK, EachObservationOnce, TreeUniform

LEMMA QuietKeepsHead ==
  ASSUME HeadOK, UNCHANGED <<hub, tree, now, unqueued>> PROVE HeadOK'
<1>1. Remote' = Remote /\ Published' = Published /\ Earliest' = Earliest
  BY DEF Remote, Published, Earliest
<1>2. Gaps' = Gaps
  BY <1>1 DEF Gaps
<1>3. QED
  BY <1>1, <1>2 DEF HeadOK, EachObservationOnce, TreeUniform, GapsQueued

-----------------------------------------------------------------------------
(* Requests.                                                               *)

\* A commit of any writer takes the parent from the requests before it.
LEMMA OvertakenRequests ==
  ASSUME CoreInv, RequestsOK, rev' = rev + 1, late' \subseteq late,
         \A h \in Hosts : pc'[h] = "commit" => pc[h] = "commit" /\ sent'[h] = sent[h]
  PROVE  RequestsOK'
<1>1. rev \in Nat /\ late \subseteq Request
  BY DEF CoreInv, HubTypes
<1>2. \A q \in late' : q.parent <= rev /\ q.parent \in Nat
  BY <1>1 DEF RequestsOK, RequestOK, Request
<1>3. \A h \in Hosts : pc'[h] = "commit" => sent'[h].parent <= rev /\ sent'[h].parent \in Nat
  BY HostFacts DEF RequestsOK, RequestOK, Request
<1>4. QED
  BY <1>1, <1>2, <1>3 DEF RequestsOK, RequestOK

\* A request stays good while the head is the same: the clock only makes the
\* queue it must carry smaller.
LEMMA RequestKept ==
  ASSUME CoreInv, UNCHANGED <<hub, rev, tree>>, now' \in Int, now' >= now,
         NEW q \in Request, RequestOK(q)
  PROVE  RequestOK(q)'
<1>1. Remote' = Remote
  BY DEF Remote
<1>2. now \in Int
  BY DEF CoreInv
<1>3. Remote.pending \subseteq Int /\ q.rec.missing \subseteq Int
  BY RemoteType DEF CoreInv, HubTypes, Progress, Request, Record
<1>4. Claims(q.rec, q.progress, {}) => Claims(q.rec, q.progress, {})'
  <2> DEFINE minutes == Remote.pending \cup (q.rec.missing \ {})
  <2>1. minutes \in SUBSET Int
    BY <1>3
  <2>2. Keeps(q.progress.pending, minutes) =>
          /\ q.progress.pending \subseteq minutes
          /\ {m \in minutes : m >= Earliest'} \subseteq q.progress.pending
    BY <1>2, <2>1, KeepsOlder
  <2>3. QED
    BY <1>1, <2>2 DEF Claims, Keeps
<1>5. Recovers(q.rec, q.progress) => Recovers(q.rec, q.progress)'
  <2> DEFINE minutes == Remote.pending \ {q.rec.start}
  <2>1. minutes \in SUBSET Int
    BY <1>3
  <2>2. Keeps(q.progress.pending, minutes) =>
          /\ q.progress.pending \subseteq minutes
          /\ {m \in minutes : m >= Earliest'} \subseteq q.progress.pending
    BY <1>2, <2>1, KeepsOlder
  <2>3. QED
    BY <1>1, <2>2 DEF Recovers, Keeps
<1>7. Follows(q.rec, q.progress, {}) => Follows(q.rec, q.progress, {})'
  BY <1>1, <1>4, <1>5 DEF Follows
<1>8. QED
  BY <1>7 DEF RequestOK

LEMMA QuietRequests ==
  ASSUME CoreInv, RequestsOK, UNCHANGED <<hub, rev, tree>>, now' \in Int, now' >= now,
         \A q \in late' : q \in late \/ \E h \in Hosts : pc[h] = "commit" /\ q = sent[h],
         \A h \in Hosts : pc'[h] = "commit" => pc[h] = "commit" /\ sent'[h] = sent[h]
  PROVE  RequestsOK'
<1>1. \A h \in Hosts : pc[h] = "commit" => sent[h] \in Request /\ RequestOK(sent[h])
  BY HostFacts DEF RequestsOK
<1>2. \A q \in late : q \in Request /\ RequestOK(q)
  BY DEF RequestsOK, CoreInv, HubTypes
<1>3. \A q \in Request : RequestOK(q) => RequestOK(q)'
  BY RequestKept
<1>4. \A q \in late' : q \in Request /\ RequestOK(q)
  BY <1>1, <1>2
<1>5. \A h \in Hosts : pc'[h] = "commit" => sent'[h] \in Request /\ RequestOK(sent'[h])
  BY <1>1
<1>6. QED
  BY <1>3, <1>4, <1>5 DEF RequestsOK

\* What publish sends follows the head it has read.
LEMMA AdvancedFollows ==
  ASSUME CoreInv, NEW r \in Record, WellFormed(r), r.pipeline = Native, Ours, Fits(r)
  PROVE  Follows(r, Advanced(r), {})
<1>1. /\ Advanced(r).pipeline = Native
      /\ Advanced(r).next = IF r.kind = "repair" THEN Remote.next ELSE r.end + 1
      /\ Advanced(r).total = Remote.total + Cardinality(Complete(r))
      /\ Keeps(Advanced(r).pending,
               (IF r.kind = "repair" THEN Remote.pending \ {r.start} ELSE Remote.pending)
                 \cup r.missing)
  BY AdvancedFacts DEF CoreInv, HubTypes
<1>2. hub # None => hub.pipeline = Native
  BY DEF Ours, Remote
<1>3. Native # "enriched"
  BY DEF Native
<1>4. CASE r.kind = "repair"
  <2>1. r.start = r.end /\ r.start \in Remote.pending /\ r.missing = {}
    BY <1>4 DEF Fits
  <2>2. (Remote.pending \ {r.start}) \cup r.missing = Remote.pending \ {r.start}
    BY <2>1
  <2>3. Recovers(r, Advanced(r))
    BY <1>1, <1>4, <2>1, <2>2 DEF Recovers
  <2>4. QED
    BY <1>1, <1>2, <1>3, <2>3 DEF Follows
<1>5. CASE r.kind # "repair"
  <2>1. Claims(r, Advanced(r), {})
    BY <1>1, <1>5 DEF Claims, Fits
  <2>2. QED
    BY <1>1, <1>2, <1>3, <2>1 DEF Follows
<1>6. QED
  BY <1>4, <1>5

LEMMA SendRequests ==
  ASSUME CoreInv, RequestsOK, NEW h \in Hosts, Send(h) PROVE RequestsOK'
<1> DEFINE q == [parent |-> rev, rec |-> disk[h].ready, progress |-> Advanced(disk[h].ready)]
<1>0. /\ sent' = [sent EXCEPT ![h] = q] /\ pc' = [pc EXCEPT ![h] = "commit"]
      /\ UNCHANGED <<hub, rev, tree, late, now>> /\ Ours /\ Fits(disk[h].ready)
      /\ pc[h] = "publish"
  BY DEF Send, hubVars
<1>1. disk[h].ready \in Record /\ WellFormed(disk[h].ready) /\ disk[h].ready.pipeline = Native
  BY <1>0, HostFacts
<1>2. q \in Request /\ Advanced(disk[h].ready).pipeline = Native
  BY <1>1, AdvancedFacts DEF CoreInv, HubTypes, Request
<1>3. RequestOK(q)
  <2>1. Follows(disk[h].ready, Advanced(disk[h].ready), {})
    BY <1>0, <1>1, AdvancedFollows
  <2>2. rev \in Nat
    BY DEF CoreInv, HubTypes
  <2>3. q.parent = rev /\ q.rec = disk[h].ready /\ q.progress = Advanced(disk[h].ready)
    OBVIOUS
  <2> HIDE DEF q
  <2>4. QED
    BY <1>2, <2>1, <2>2, <2>3 DEF RequestOK
<1> HIDE DEF q
<1>4. now \in Int /\ now' \in Int /\ now' >= now
  BY <1>0 DEF CoreInv
<1>5. \A p \in Request : RequestOK(p) => RequestOK(p)'
  BY <1>0, <1>4, RequestKept
<1>6. \A p \in late' : p \in Request /\ RequestOK(p)
  BY <1>0 DEF RequestsOK, CoreInv, HubTypes
<1>7. sent'[h] = q /\ \A g \in Hosts : g # h => sent'[g] = sent[g] /\ pc'[g] = pc[g]
  BY <1>0 DEF CoreInv, HostTypes
<1>8. \A g \in Hosts : pc'[g] = "commit" => sent'[g] \in Request /\ RequestOK(sent'[g])
  BY <1>2, <1>3, <1>7, HostFacts DEF RequestsOK
<1>9. QED
  BY <1>5, <1>6, <1>8 DEF RequestsOK

-----------------------------------------------------------------------------
(* The migrations.                                                         *)

\* A commit of another writer takes the parent from the migrations before it.
LEMMA OvertakenTools ==
  ASSUME TypeInv, ToolsOK, Overtaken, rev' = rev + 1 PROVE ToolsOK'
<1>1. rev \in Nat /\ tool \in Tool
  BY DEF TypeInv, CoreInv, HubTypes, ToolTypes
<1>2. flying' = {} /\ tool' = IF tool.step = "convert" THEN Idle ELSE tool
  BY <1>1 DEF Overtaken
<1>3. tool.step # "idle" => tool.parent <= rev
  BY DEF ToolsOK, Converting
<1>4. CASE tool' = Idle
  BY <1>2, <1>4 DEF ToolsOK, Idle
<1>5. CASE tool' = tool /\ tool.step # "convert"
  <2>1. tool.parent \in Nat
    BY <1>1 DEF Tool
  <2>2. QED
    BY <1>1, <1>2, <1>3, <1>5, <2>1 DEF ToolsOK, Converting
<1>6. QED
  BY <1>2, <1>4, <1>5

LEMMA QuietTools ==
  ASSUME ToolsOK, UNCHANGED <<hub, rev, tree, tool, flying>> PROVE ToolsOK'
  BY DEF ToolsOK, Converting

\* A step that commits nothing overtakes nothing.
LEMMA OvertakenQuiet ==
  ASSUME ToolsOK, Overtaken, UNCHANGED <<hub, rev, tree>> PROVE ToolsOK'
  BY QuietTools DEF Overtaken

LEMMA ImageFacts ==
  ASSUME NEW s \in Shard, NEW p
  PROVE  /\ Image(s, p) \in Shard /\ Image(s, p).rec.pipeline = Native
         /\ Complete(Image(s, p).rec) = Complete(s.rec)
<1> DEFINE kind == IF p = "enriched" THEN "forward" ELSE s.rec.kind
           r == [s.rec EXCEPT !.pipeline = Native, !.kind = kind]
<1>1. s.rec \in Record
  BY DEF Shard
<1>2. kind \in Kinds
  BY <1>1 DEF Record, Kinds
<1>3. Image(s, p) = [rec |-> r, moved |-> TRUE]
  BY <1>1 DEF Image, Record
<1> HIDE DEF kind
<1>4. r \in Record /\ r.pipeline = Native
      /\ r.start = s.rec.start /\ r.end = s.rec.end /\ r.missing = s.rec.missing
  BY <1>1, <1>2 DEF Record, Pipelines
<1> HIDE DEF r
<1>5. QED
  BY <1>3, <1>4 DEF Shard, Complete

\* The shard a conversion delivers is the image of the shard it replaces,
\* whether it was converted or reconstructed.
LEMMA DeliverImage ==
  ASSUME tool \in Tool, NEW s \in Shard, NEW r \in Record, r = s.rec \/ Same(s, r),
         Deliver(s, r)
  PROVE  tool' = [tool EXCEPT !.todo = tool.todo \ {s},
                              !.out = tool.out \cup {Image(s, tool.progress.pipeline)}]
<1> DEFINE kind == IF tool.progress.pipeline = "enriched" THEN "forward" ELSE s.rec.kind
<1>1. s.rec \in Record
  BY DEF Shard
<1>2. r.start = s.rec.start /\ r.end = s.rec.end /\ r.missing = s.rec.missing
  <2>1. CASE r = s.rec
    BY <2>1
  <2>2. CASE Same(s, r)
    BY <1>1, <2>2 DEF Same, Record
  <2>3. QED
    BY <2>1, <2>2
<1>3. [r EXCEPT !.pipeline = Native, !.kind = kind]
        = [s.rec EXCEPT !.pipeline = Native, !.kind = kind]
  <2> HIDE DEF kind
  <2>1. QED
    BY <1>1, <1>2 DEF Record
<1>4. Image(s, tool.progress.pipeline)
        = [rec |-> [s.rec EXCEPT !.pipeline = Native, !.kind = kind], moved |-> TRUE]
  BY <1>1 DEF Image, Record
<1>5. tool' = [tool EXCEPT !.todo = tool.todo \ {s},
                 !.out = tool.out \cup
                   {[rec |-> [r EXCEPT !.pipeline = Native, !.kind = kind], moved |-> TRUE]}]
  BY DEF Deliver
<1>6. QED
  BY <1>3, <1>4, <1>5, Zenon

LEMMA ToolReadTools == ASSUME TypeInv, ToolsOK, ToolRead PROVE ToolsOK'
<1>1. /\ tool' = [step |-> "convert", parent |-> rev, progress |-> hub, todo |-> tree, out |-> {}]
      /\ hub # None /\ hub.pipeline # Native
      /\ UNCHANGED <<hub, rev, tree, flying>>
  BY DEF ToolRead, vars
<1>2. rev \in Nat
  BY DEF TypeInv, CoreInv, HubTypes
<1>3. {Image(s, hub.pipeline) : s \in tree \ tree} = {}
  OBVIOUS
<1>4. Converting(tool)' /\ tool'.step = "convert"
  BY <1>1, <1>2, <1>3 DEF Converting
<1>5. \A t \in flying' : Converting(t)' /\ t.todo = {}
  BY <1>1 DEF ToolsOK, Converting
<1>6. QED
  BY <1>4, <1>5 DEF ToolsOK

LEMMA ConvertsTools == ASSUME TypeInv, ToolsOK, Converts PROVE ToolsOK'
<1>1. UNCHANGED <<hub, rev, tree, flying>>
  BY DEF Converts, ToolConvert, ToolAccept, vars
<1>2. PICK s \in tool.todo :
        Current(s) /\ \E r \in Record : (r = s.rec \/ Same(s, r)) /\ Deliver(s, r)
  <2>1. tool \in Tool /\ rebuilt \subseteq Record
    BY DEF TypeInv, ToolTypes
  <2>2. \A s \in tool.todo : s.rec \in Record
    BY <2>1 DEF Tool, Shard
  <2>3. QED
    BY <2>1, <2>2 DEF Converts, ToolConvert, ToolAccept, Kept
<1>3. tool \in Tool /\ s \in Shard /\ tool.step = "convert" /\ tree \subseteq Shard
  BY <1>2 DEF TypeInv, CoreInv, HubTypes, ToolTypes, Tool, Current
<1>4. tool' = [tool EXCEPT !.todo = tool.todo \ {s},
                           !.out = tool.out \cup {Image(s, tool.progress.pipeline)}]
  BY <1>2, <1>3, DeliverImage
<1>5. /\ tool'.step = "convert" /\ tool'.parent = tool.parent /\ tool'.progress = tool.progress
      /\ tool'.todo = tool.todo \ {s}
      /\ tool'.out = tool.out \cup {Image(s, tool.progress.pipeline)}
  BY <1>3, <1>4 DEF Tool
<1>6. Converting(tool)
  BY <1>3 DEF ToolsOK
<1>7. Converting(tool)'
  <2>1. CASE tool.parent = rev
    <3>1. /\ hub # None /\ hub.pipeline # Native /\ tool.progress = hub /\ tool.todo \subseteq tree
          /\ tool.out = {Image(t, hub.pipeline) : t \in tree \ tool.todo}
      BY <1>6, <2>1 DEF Converting
    <3>2. tree \ (tool.todo \ {s}) = (tree \ tool.todo) \cup {s}
      BY <1>2, <3>1
    <3>3. tool'.out = {Image(t, hub.pipeline) : t \in tree \ tool'.todo}
      BY <1>5, <3>1, <3>2
    <3>4. QED
      BY <1>1, <1>5, <1>6, <3>1, <3>3 DEF Converting, Image
  <2>2. CASE tool.parent # rev
    BY <1>1, <1>5, <1>6, <2>2 DEF Converting
  <2>3. QED
    BY <2>1, <2>2
<1>8. \A t \in flying' : Converting(t)' /\ t.todo = {}
  BY <1>1 DEF ToolsOK, Converting
<1>9. QED
  BY <1>5, <1>7, <1>8 DEF ToolsOK

LEMMA ToolSendTools == ASSUME TypeInv, ToolsOK, ToolSend PROVE ToolsOK'
<1>1. /\ tool.step = "convert" /\ tool.todo = {} /\ tool' = [tool EXCEPT !.step = "commit"]
      /\ UNCHANGED <<hub, rev, tree, flying>>
  BY DEF ToolSend, vars
<1>2. /\ tool'.parent = tool.parent /\ tool'.progress = tool.progress
      /\ tool'.todo = tool.todo /\ tool'.out = tool.out
  BY <1>1 DEF TypeInv, ToolTypes, Tool
<1>3. Converting(tool)
  BY <1>1 DEF ToolsOK
<1>4. Converting(tool)'
  BY <1>1, <1>2, <1>3 DEF Converting
<1>5. \A t \in flying' : Converting(t)' /\ t.todo = {}
  BY <1>1 DEF ToolsOK, Converting
<1>6. QED
  BY <1>1, <1>2, <1>4, <1>5 DEF ToolsOK

LEMMA EndsTools == ASSUME TypeInv, ToolsOK, Ends PROVE ToolsOK'
<1>1. tool' = Idle /\ UNCHANGED <<hub, rev, tree>>
  BY DEF Ends, ToolRefuse, ToolEnd, ToolFail, ToolConflict, vars, hubVars
<1>2. \A t \in flying' : t \in flying \/ (tool.step = "commit" /\ t = tool)
  BY DEF Ends, ToolRefuse, ToolEnd, ToolFail, ToolConflict
<1>3. \A t \in flying' : Converting(t) /\ t.todo = {}
  BY <1>2 DEF ToolsOK
<1>4. \A t \in flying' : Converting(t)' /\ t.todo = {}
  BY <1>1, <1>3 DEF Converting
<1>5. QED
  BY <1>1, <1>4 DEF ToolsOK, Idle

\* The commit of a migration replaces every shard by its image and takes the
\* checkpoint over.
Migrates ==
  /\ hub \in Progress /\ hub.pipeline # Native
  /\ hub' \in Progress /\ hub'.pipeline = Native /\ hub'.next = hub.next
  /\ hub'.total = hub.total
  /\ hub'.pending = IF hub.pipeline = "enriched" THEN {} ELSE hub.pending
  /\ tree' = {Image(s, hub.pipeline) : s \in tree}

LEMMA ReplaceFacts ==
  ASSUME CoreInv, NEW q \in Tool, Converting(q), q.todo = {}, Replace(q)
  PROVE  /\ Migrates /\ rev' = rev + 1 /\ flying' = {} /\ rebuilt' = {}
         /\ UNCHANGED <<late, disk, waiting, pc, last, sent, served, now, faults, unqueued>>
<1>1. /\ q.parent = rev /\ hub' = Migrated(q.progress) /\ tree' = q.out
      /\ rev' = rev + 1 /\ flying' = {} /\ rebuilt' = {}
      /\ UNCHANGED <<late, disk, waiting, pc, last, sent, served, now, faults, unqueued>>
  BY DEF Replace, Accepts, hostVars
<1>2. /\ hub # None /\ hub.pipeline # Native /\ q.progress = hub
      /\ q.out = {Image(s, hub.pipeline) : s \in tree \ {}}
  BY <1>1 DEF Converting
<1>3. hub \in Progress /\ tree \ {} = tree
  BY <1>2 DEF CoreInv, HubTypes
<1>4. hub' \in Progress /\ hub'.pipeline = Native /\ hub'.next = hub.next /\ hub'.total = hub.total
      /\ hub'.pending = IF hub.pipeline = "enriched" THEN {} ELSE hub.pending
  <2>1. CASE hub.pipeline = "enriched"
    <3>1. hub' = [hub EXCEPT !.pipeline = Native, !.action = "forward", !.pending = {},
                             !.receipt = None]
      BY <1>1, <1>2, <2>1 DEF Migrated
    <3>2. QED
      BY <1>3, <2>1, <3>1 DEF Progress, Pipelines, Kinds
  <2>2. CASE hub.pipeline # "enriched"
    <3>1. hub' = [hub EXCEPT !.pipeline = Native]
      BY <1>1, <1>2, <2>2 DEF Migrated
    <3>2. QED
      BY <1>3, <2>2, <3>1 DEF Progress, Pipelines
  <2>3. QED
    BY <2>1, <2>2
<1>5. QED
  BY <1>1, <1>2, <1>3, <1>4 DEF Migrates

LEMMA MigratesFacts ==
  ASSUME CoreInv, HeadOK, Migrates
  PROVE  /\ tree' \subseteq Shard /\ Remote' = hub' /\ Remote = hub
         /\ Published' = Published /\ Gaps' = Gaps
         /\ Remote'.next = Remote.next /\ Remote'.pending = Remote.pending
<1>1. hub # None /\ hub' # None
  BY NoneAssumption DEF Migrates
<1>2. Remote = hub /\ Remote' = hub'
  BY <1>1 DEF Remote
<1>3. \A s \in tree : Image(s, hub.pipeline) \in Shard
                      /\ Complete(Image(s, hub.pipeline).rec) = Complete(s.rec)
  BY ImageFacts DEF CoreInv, HubTypes
<1>4. Published' = UNION {Complete(s.rec) : s \in tree'}
  BY DEF Published, Complete
<1>5. Published' = Published
  BY <1>3, <1>4 DEF Migrates, Published
<1>6. Remote'.next = Remote.next /\ Remote'.pending = Remote.pending
  BY <1>2 DEF Migrates, HeadOK
<1>7. Gaps' = Gaps
  BY <1>5, <1>6 DEF Gaps
<1>8. tree' \subseteq Shard
  BY <1>3 DEF Migrates
<1>9. QED
  BY <1>2, <1>5, <1>6, <1>7, <1>8

LEMMA MigratesKeepsHead ==
  ASSUME CoreInv, HeadOK, Migrates, UNCHANGED <<now, unqueued>> PROVE HeadOK'
<1>1. /\ Remote' = hub' /\ Remote = hub /\ Published' = Published /\ Gaps' = Gaps
      /\ Remote'.next = Remote.next /\ Remote'.pending = Remote.pending
  BY MigratesFacts
<1>2. hub' # None /\ Remote'.pipeline = Native /\ Native # "enriched"
  BY <1>1, NoneAssumption DEF Migrates, Native
<1>3. \A s \in tree : Image(s, hub.pipeline).rec.pipeline = Native
                      /\ Complete(Image(s, hub.pipeline).rec) = Complete(s.rec)
  BY ImageFacts DEF CoreInv, HubTypes
<1>4. TreeUniform'
  BY <1>2, <1>3 DEF TreeUniform, Migrates
<1>5. EachObservationOnce'
  <2>1. \A s, t \in tree' : s # t => Complete(s.rec) \cap Complete(t.rec) = {}
    <3>1. \A s, t \in tree : s # t => Complete(s.rec) \cap Complete(t.rec) = {}
      BY DEF HeadOK, EachObservationOnce
    <3>2. QED
      BY <1>3, <3>1 DEF Migrates
  <2>2. Remote'.total = Cardinality(Published')
    BY <1>1 DEF Migrates, HeadOK, EachObservationOnce
  <2>3. QED
    BY <2>1, <2>2 DEF EachObservationOnce, Complete
<1>6. GapsQueued' /\ unqueued' \subseteq Gaps'
  <2>1. Earliest' = Earliest
    BY DEF Earliest
  <2>2. QED
    BY <1>1, <2>1 DEF HeadOK, GapsQueued
<1>7. QED
  BY <1>1, <1>2, <1>4, <1>5, <1>6 DEF HeadOK

-----------------------------------------------------------------------------
(* Steps of the head.                                                      *)

\* A batch is published.
Publishes ==
  /\ hub' \in Progress /\ now' = now /\ rev' = rev + 1
  /\ \E r \in Record : \E lost \in SUBSET r.missing :
       Follows(r, hub', lost) /\ Adds(r) /\ unqueued' = unqueued \cup lost

LEMMA CommitMoves ==
  ASSUME CoreInv, NEW q \in Request, RequestOK(q), Accepts(q), Commit(q),
         UNCHANGED <<now, unqueued>>
  PROVE  Publishes
<1>1. q.rec \in Record /\ q.progress \in Progress
  BY DEF Request
<1>2. Follows(q.rec, q.progress, {}) /\ hub' = q.progress /\ rev' = rev + 1
  BY DEF RequestOK, Accepts, Commit
<1>3. Adds(q.rec)
  <2>1. CASE Complete(q.rec) = {}
    BY <2>1 DEF Adds, Commit
  <2>2. CASE Complete(q.rec) # {}
    BY <2>2 DEF Adds, Commit
  <2>3. QED
    BY <2>1, <2>2
<1>4. {} \in SUBSET q.rec.missing /\ unqueued' = unqueued \cup {}
  OBVIOUS
<1>5. QED
  BY <1>1, <1>2, <1>3, <1>4 DEF Publishes

LEMMA EarlierForwardMoves ==
  ASSUME CoreInv, HeadOK, NEW p \in Earlier, EarlierForward(p) PROVE Publishes
<1>1. PICK r \in Record, moved \in BOOLEAN, enriched \in BOOLEAN, queue \in SUBSET Int :
        /\ r.kind = "forward" /\ r.start = Remote.next /\ r.pipeline = p /\ WellFormed(r)
        /\ p = "enriched" => enriched
        /\ enriched => p = "enriched" \/ hub = None
        /\ queue = IF enriched THEN {} ELSE Advanced(r).pending
        /\ hub' = [Advanced(r) EXCEPT !.pipeline = p, !.pending = queue]
        /\ unqueued' = IF enriched THEN unqueued \cup r.missing ELSE unqueued
        /\ tree' = tree \cup {[rec |-> r, moved |-> moved]}
        /\ served' = served \cup Complete(r)
  BY EarlierForwardFacts, Zenon
<1>2. /\ Advanced(r) \in Progress /\ Advanced(r).next = r.end + 1
      /\ Advanced(r).total = Remote.total + Cardinality(Complete(r))
      /\ Keeps(Advanced(r).pending, Remote.pending \cup r.missing)
  BY <1>1, AdvancedFacts DEF CoreInv, HubTypes
<1>3. p \in Pipelines
  BY EarlierAssumption DEF Pipelines
<1>4. /\ hub' \in Progress /\ hub'.pipeline = p /\ hub'.pending = queue
      /\ hub'.next = r.end + 1 /\ hub'.total = Remote.total + Cardinality(Complete(r))
  BY <1>1, <1>2, <1>3 DEF Progress
<1>5. hub # None => hub'.pipeline = hub.pipeline
  BY <1>4 DEF EarlierForward
<1> DEFINE lost == IF enriched THEN r.missing ELSE {}
<1>6. lost \in SUBSET r.missing /\ unqueued' = unqueued \cup lost
  BY <1>1
<1>7. Keeps(queue, Remote.pending \cup (r.missing \ lost)) /\ (p = "enriched" => queue = {})
  <2>1. CASE enriched
    <3>1. Remote.pending = {}
      BY <1>1, <2>1 DEF EarlierForward, HeadOK, Remote
    <3>2. queue = {} /\ lost = r.missing
      BY <1>1, <2>1
    <3>3. QED
      BY <3>1, <3>2 DEF Keeps
  <2>2. CASE ~enriched
    BY <1>1, <1>2, <2>2
  <2>3. QED
    BY <2>1, <2>2
<1> HIDE DEF lost
<1>8. Follows(r, hub', lost)
  BY <1>1, <1>4, <1>5, <1>7 DEF Follows, Claims
<1>9. Adds(r)
  BY <1>1 DEF Adds
<1>10. rev' = rev + 1 /\ now' = now
  BY DEF EarlierForward
<1>11. QED
  BY <1>4, <1>6, <1>8, <1>9, <1>10 DEF Publishes

LEMMA EarlierRepairMoves ==
  ASSUME CoreInv, HeadOK, EarlierRepair PROVE Publishes
<1>1. PICK r \in Record :
        /\ r.kind = "repair" /\ r.start = r.end /\ r.missing = {} /\ r.start \in hub.pending
        /\ r.pipeline = "plain" /\ WellFormed(r)
        /\ hub' = [Advanced(r) EXCEPT !.pipeline = "plain"]
        /\ tree' = tree \cup {[rec |-> r, moved |-> FALSE]}
  BY EarlierRepairFacts
<1>2. hub \in Progress /\ hub.pipeline = "plain" /\ Remote = hub
  BY EarlierRepairFacts, NoneAssumption DEF Remote
<1>3. /\ Advanced(r) \in Progress /\ Advanced(r).next = Remote.next
      /\ Advanced(r).total = Remote.total + Cardinality(Complete(r))
      /\ Keeps(Advanced(r).pending, (Remote.pending \ {r.start}) \cup r.missing)
  BY <1>1, AdvancedFacts DEF CoreInv, HubTypes
<1>4. /\ hub' \in Progress /\ hub'.pipeline = "plain" /\ hub'.pending = Advanced(r).pending
      /\ hub'.next = Remote.next /\ hub'.total = Remote.total + Cardinality(Complete(r))
  BY <1>1, <1>3 DEF Progress, Pipelines
<1>5. (Remote.pending \ {r.start}) \cup r.missing = Remote.pending \ {r.start}
  BY <1>1
<1>6. Recovers(r, hub')
  BY <1>1, <1>2, <1>3, <1>4, <1>5 DEF Recovers
<1>7. Follows(r, hub', {})
  BY <1>1, <1>2, <1>4, <1>6 DEF Follows
<1>8. Adds(r)
  BY <1>1 DEF Adds
<1>9. rev' = rev + 1 /\ now' = now /\ {} \in SUBSET r.missing /\ unqueued' = unqueued \cup {}
  BY DEF EarlierRepair
<1>10. QED
  BY <1>4, <1>7, <1>8, <1>9 DEF Publishes

\* Every step publishes a batch, migrates the dataset or leaves the head alone.
HeadQuiet == UNCHANGED <<hub, rev, tree>>

LEMMA WorkerMoves ==
  ASSUME CoreInv, MInv, Next, UNCHANGED unqueued
  PROVE  Publishes \/ (HeadQuiet /\ now' = now) \/ Tick
<1>1. ASSUME NEW h \in Hosts, Step(h) PROVE HeadQuiet /\ now' = now
  BY <1>1 DEF Step, TakeReady, StartBuild, Build, Send, FindAcknowledged, Confirm, Clean, Raise,
              hubVars, HeadQuiet
<1>2. ASSUME NEW h \in Hosts, Land(h) PROVE Publishes
  <2>1. sent[h] \in Request /\ RequestOK(sent[h]) /\ Accepts(sent[h]) /\ Commit(sent[h])
        /\ now' = now
    BY <1>2, HostFacts DEF Land, MInv, RequestsOK
  <2>2. QED
    BY <2>1, CommitMoves
<1>3. ASSUME NEW h \in Hosts, Expire(h) \/ Fail(h) \/ Crash(h) PROVE HeadQuiet /\ now' = now
  BY <1>3 DEF Expire, Fail, Crash, hubVars, HeadQuiet
<1>4. ASSUME LandLate PROVE Publishes
  <2>1. PICK q \in late : Accepts(q) /\ Commit(q)
    BY <1>4 DEF LandLate
  <2>2. q \in Request /\ RequestOK(q) /\ now' = now
    BY <1>4 DEF LandLate, CoreInv, HubTypes, MInv, RequestsOK
  <2>3. QED
    BY <2>1, <2>2, CommitMoves
<1>5. QED
  BY <1>1, <1>2, <1>3, <1>4 DEF Next

\* The requests of the publisher's own steps.
LEMMA WorkerRequests ==
  ASSUME CoreInv, RequestsOK, Next PROVE RequestsOK'
<1>0. now \in Int /\ rev \in Nat
  BY DEF CoreInv, HubTypes
<1>1. ASSUME NEW h \in Hosts, Step(h) PROVE RequestsOK'
  <2>1. CASE Send(h)
    BY <2>1, SendRequests
  <2>2. CASE TakeReady(h) \/ StartBuild(h) \/ Build(h) \/ FindAcknowledged(h) \/ Confirm(h)
             \/ Clean(h) \/ Raise(h)
    <3>1. UNCHANGED <<hub, rev, tree, late, now>>
      BY <2>2 DEF TakeReady, StartBuild, Build, FindAcknowledged, Confirm, Clean, Raise, hubVars
    <3>2. \A g \in Hosts : pc'[g] = "commit" => pc[g] = "commit" /\ sent'[g] = sent[g]
      BY <2>2 DEF TakeReady, StartBuild, Build, FindAcknowledged, Confirm, Clean, Raise,
                  Judge, Settle, Abandon, CoreInv, HostTypes
    <3>3. QED
      BY <1>0, <3>1, <3>2, QuietRequests
  <2>3. QED
    BY <1>1, <2>1, <2>2 DEF Step
<1>2. ASSUME NEW h \in Hosts, Land(h) PROVE RequestsOK'
  BY <1>2, OvertakenRequests DEF Land, Commit, CoreInv, HostTypes
<1>3. ASSUME NEW h \in Hosts, Expire(h) \/ Fail(h) \/ Crash(h) PROVE RequestsOK'
  <2>1. UNCHANGED <<hub, rev, tree, now>>
    BY <1>3 DEF Expire, Fail, Crash, hubVars
  <2>2. \A q \in late' : q \in late \/ (pc[h] = "commit" /\ q = sent[h])
    BY <1>3 DEF Expire, Fail, Crash, MayLinger, hubVars
  <2>3. \A g \in Hosts : pc'[g] = "commit" => pc[g] = "commit" /\ sent'[g] = sent[g]
    BY <1>3 DEF Expire, Fail, Crash, Abandon, CoreInv, HostTypes
  <2>4. QED
    BY <1>0, <2>1, <2>2, <2>3, QuietRequests
<1>4. ASSUME LandLate PROVE RequestsOK'
  BY <1>4, OvertakenRequests DEF LandLate, Commit, hostVars
<1>5. ASSUME Tick PROVE RequestsOK'
  <2>1. now' \in Int /\ now' >= now
    BY <1>0, <1>5 DEF Tick
  <2>2. QED
    BY <1>5, <2>1, QuietRequests DEF Tick, hubVars, hostVars
<1>6. QED
  BY <1>1, <1>2, <1>3, <1>4, <1>5 DEF Next

-----------------------------------------------------------------------------
(* The invariant.                                                          *)

\* What a step does to the head.
HeadStep ==
  \/ Publishes
  \/ UNCHANGED unqueued /\ ((HeadQuiet /\ now' = now) \/ Tick \/ (Migrates /\ now' = now))

LEMMA HeadKept == ASSUME CoreInv, HeadOK, HeadStep PROVE HeadOK'
<1>1. CASE Publishes
  BY <1>1, MoveKeepsHead DEF Publishes
<1>2. CASE HeadQuiet /\ UNCHANGED <<now, unqueued>>
  BY <1>2, QuietKeepsHead DEF HeadQuiet
<1>3. QED
  BY <1>1, <1>2, TickKeepsHead, MigratesKeepsHead DEF HeadStep

Preserved == TypeInv' /\ MInv' /\ HeadStep

LEMMA WorkerKeeps == ASSUME TypeInv, MInv, WorkerNext PROVE Preserved
<1>1. CoreInv /\ Next /\ Overtaken /\ UNCHANGED unqueued /\ ToolTypes /\ ToolsOK /\ RequestsOK /\ HeadOK
  BY DEF TypeInv, WorkerNext, MInv
<1>2. Publishes \/ (HeadQuiet /\ now' = now) \/ Tick
  BY <1>1, WorkerMoves
<1>3. TypeInv'
  BY <1>1, CoreStep, OvertakenTypes DEF TypeInv
<1>4. ToolsOK'
  <2>1. CASE Publishes
    BY <1>1, <2>1, OvertakenTools DEF Publishes
  <2>2. CASE (HeadQuiet /\ now' = now) \/ Tick
    BY <1>1, <2>2, OvertakenQuiet DEF HeadQuiet, Tick, hubVars
  <2>3. QED
    BY <1>2, <2>1, <2>2
<1>5. RequestsOK'
  BY <1>1, WorkerRequests
<1>6. HeadStep
  BY <1>1, <1>2 DEF HeadStep
<1>7. QED
  BY <1>1, <1>3, <1>4, <1>5, <1>6, HeadKept DEF Preserved, MInv

LEMMA EarlierKeeps == ASSUME TypeInv, MInv, EarlierNext PROVE Preserved
<1>1. CoreInv /\ ToolTypes /\ ToolsOK /\ RequestsOK /\ HeadOK
  BY DEF TypeInv, MInv
<1>2. CASE (\E p \in Earlier : EarlierForward(p)) \/ EarlierRepair
  <2>1. Publishes /\ CoreInv'
    BY <1>1, <1>2, EarlierForwardMoves, EarlierRepairMoves, EarlierForwardTypes,
       EarlierRepairTypes
  <2>2. Overtaken /\ UNCHANGED <<late, pc, sent>>
    BY <1>2 DEF EarlierForward, EarlierRepair, hostVars
  <2>3. rev' = rev + 1
    BY <2>1 DEF Publishes
  <2>4. RequestsOK'
    BY <1>1, <2>2, <2>3, OvertakenRequests
  <2>5. ToolsOK' /\ ToolTypes'
    BY <1>1, <2>2, <2>3, OvertakenTools, OvertakenTypes
  <2>6. HeadStep
    BY <2>1 DEF HeadStep
  <2>7. QED
    BY <1>1, <2>1, <2>4, <2>5, <2>6, HeadKept DEF Preserved, TypeInv, MInv
<1>3. CASE \E h \in Hosts : EarlierLeaves(h)
  <2>1. CoreInv'
    BY <1>1, <1>3, EarlierLeavesTypes
  <2>2. UNCHANGED <<hub, rev, tree, late, pc, sent, now, tool, rebuilt, flying, unqueued>>
    BY <1>3 DEF EarlierLeaves, hubVars, toolVars
  <2>3. HeadStep
    BY <2>2 DEF HeadStep, HeadQuiet
  <2>4. RequestsOK'
    <3>1. now' \in Int /\ now' >= now
      BY <1>1, <2>2 DEF CoreInv
    <3>2. QED
      BY <1>1, <2>2, <3>1, QuietRequests
  <2>5. ToolsOK' /\ ToolTypes'
    BY <1>1, <2>2, QuietTools DEF ToolTypes
  <2>6. QED
    BY <1>1, <2>1, <2>3, <2>4, <2>5, HeadKept DEF Preserved, TypeInv, MInv
<1>4. QED
  BY <1>2, <1>3 DEF EarlierNext

LEMMA ReplaceKeeps ==
  ASSUME TypeInv, MInv, NEW q \in Tool, Converting(q), q.todo = {}, Replace(q),
         tool' \in {tool, Idle}
  PROVE  Preserved
<1>1. CoreInv /\ ToolTypes /\ ToolsOK /\ RequestsOK /\ HeadOK
  BY DEF TypeInv, MInv
<1>2. /\ Migrates /\ rev' = rev + 1 /\ flying' = {} /\ rebuilt' = {}
      /\ UNCHANGED <<late, disk, waiting, pc, last, sent, served, now, faults, unqueued>>
  BY <1>1, ReplaceFacts
<1>3. HubTypes' /\ HostTypes'
  BY <1>1, <1>2, MigratesFacts DEF CoreInv, HubTypes, HostTypes, Migrates
<1>4. CoreInv'
  BY <1>1, <1>2, <1>3 DEF CoreInv, DiskOK, ProcOK
<1>5. Idle \in Tool
  BY DEF Idle, Tool
<1>6. ToolTypes'
  BY <1>1, <1>2, <1>5 DEF ToolTypes
<1>7. RequestsOK'
  BY <1>1, <1>2, OvertakenRequests
<1>8. ToolsOK'
  <2>1. CASE tool' = Idle
    BY <1>2, <2>1 DEF ToolsOK, Idle
  <2>2. CASE tool' = tool
    <3>1. rev \in Nat /\ tool.parent \in Nat
      BY <1>1 DEF CoreInv, HubTypes, ToolTypes, Tool
    <3>2. tool.step # "idle" => tool.parent <= rev
      BY <1>1 DEF ToolsOK, Converting
    <3>3. tool.step = "commit" => tool.todo = {}
      BY <1>1 DEF ToolsOK
    <3>4. QED
      BY <1>2, <2>2, <3>1, <3>2, <3>3 DEF ToolsOK, Converting
  <2>3. QED
    BY <2>1, <2>2
<1>9. HeadStep
  BY <1>2 DEF HeadStep
<1>10. QED
  BY <1>1, <1>4, <1>6, <1>7, <1>8, <1>9, HeadKept DEF Preserved, TypeInv, MInv

LEMMA ToolKeeps == ASSUME TypeInv, MInv, ToolNext PROVE Preserved
<1>1. CoreInv /\ ToolTypes /\ ToolsOK /\ RequestsOK /\ HeadOK
  BY DEF TypeInv, MInv
<1>2. CASE ToolRead \/ Converts \/ ToolRebuild \/ ToolSend \/ Ends
  <2>1. TypeInv' /\ ToolQuiet
    BY <1>2, ToolReadTypes, ConvertsTypes, ToolRebuildTypes, ToolSendTypes, EndsTypes
  <2>2. UNCHANGED <<hub, rev, tree, late, pc, sent, now, unqueued>>
    BY <1>2, <2>1 DEF ToolQuiet, ToolRead, Converts, ToolConvert, ToolAccept, ToolRebuild, ToolSend,
                      Ends, ToolRefuse, ToolEnd, ToolFail, ToolConflict
  <2>3. ToolsOK'
    <3>1. CASE ToolRebuild
      <4>1. UNCHANGED <<tool, flying>>
        BY <3>1 DEF ToolRebuild
      <4>2. QED
        BY <1>1, <2>2, <4>1, QuietTools
    <3>2. QED
      BY <1>1, <1>2, <3>1, ToolReadTools, ConvertsTools, ToolSendTools, EndsTools
  <2>4. RequestsOK'
    <3>1. now' \in Int /\ now' >= now
      BY <1>1, <2>2 DEF CoreInv
    <3>2. QED
      BY <1>1, <2>2, <3>1, QuietRequests
  <2>5. HeadStep
    BY <2>2 DEF HeadStep, HeadQuiet
  <2>6. QED
    BY <1>1, <2>1, <2>3, <2>4, <2>5, HeadKept DEF Preserved, MInv
<1>3. CASE ToolLand
  <2>1. tool \in Tool /\ Converting(tool) /\ tool.todo = {} /\ Replace(tool) /\ tool' = Idle
    BY <1>1, <1>3 DEF ToolLand, ToolTypes, ToolsOK
  <2>2. QED
    BY <2>1, ReplaceKeeps
<1>4. CASE ToolLandLate
  <2>1. PICK q \in flying : Replace(q) /\ tool' = tool
    BY <1>4 DEF ToolLandLate
  <2>2. q \in Tool /\ Converting(q) /\ q.todo = {}
    BY <1>1 DEF ToolTypes, ToolsOK
  <2>3. QED
    BY <2>1, <2>2, ReplaceKeeps
<1>5. QED
  BY <1>2, <1>3, <1>4 DEF ToolNext, Converts, Ends

LEMMA StutterKeeps == ASSUME TypeInv, MInv, UNCHANGED allVars PROVE Preserved
<1>1. CoreInv /\ ToolTypes /\ ToolsOK /\ RequestsOK /\ HeadOK
  BY DEF TypeInv, MInv
<1>2. UNCHANGED <<hub, rev, tree, late, disk, waiting, pc, last, sent, served, now, faults>>
      /\ UNCHANGED <<tool, rebuilt, flying, unqueued>>
  BY DEF allVars, vars, toolVars
<1>3. CoreInv'
  BY <1>1, <1>2, QuietTypes DEF CoreInv, ToolQuiet
<1>4. ToolsOK' /\ ToolTypes'
  BY <1>1, <1>2, QuietTools DEF ToolTypes
<1>5. RequestsOK'
  <2>1. now' \in Int /\ now' >= now
    BY <1>1, <1>2 DEF CoreInv
  <2>2. QED
    BY <1>1, <1>2, <2>1, QuietRequests
<1>6. HeadStep
  BY <1>2 DEF HeadStep, HeadQuiet
<1>7. QED
  BY <1>1, <1>3, <1>4, <1>5, <1>6, HeadKept DEF Preserved, TypeInv, MInv

LEMMA StepKeeps == TypeInv /\ MInv /\ [MNext]_allVars => Preserved
  BY WorkerKeeps, EarlierKeeps, ToolKeeps, StutterKeeps DEF MNext

LEMMA InitHead == MInit => MInv
<1> SUFFICES ASSUME MInit PROVE MInv
  OBVIOUS
<1>1. hub = None /\ tree = {} /\ late = {} /\ flying = {} /\ tool = Idle /\ unqueued = {}
      /\ \A h \in Hosts : pc[h] = "idle"
  BY DEF MInit, Init
<1>2. Published = {}
  BY <1>1 DEF Published
<1>3. Remote.next = First /\ Remote.pending = {} /\ Remote.total = 0 /\ Remote.pipeline = Native
  BY <1>1 DEF Remote
<1>4. First .. First - 1 = {} /\ First <= First
  BY ChronologicalAssumption
<1>5. Gaps = {}
  BY <1>3, <1>4 DEF Gaps
<1>6. HeadOK
  BY <1>1, <1>2, <1>3, <1>4, <1>5, FS_EmptySet
     DEF HeadOK, EachObservationOnce, TreeUniform, GapsQueued
<1>7. QED
  BY <1>1, <1>6 DEF MInv, RequestsOK, ToolsOK, Idle

LEMMA Invariant == MSpec => [](TypeInv /\ MInv)
<1>1. MInit => TypeInv /\ MInv
  BY InitTypes, InitHead
<1>2. TypeInv /\ MInv /\ [MNext]_allVars => (TypeInv /\ MInv)'
  BY StepKeeps DEF Preserved
<1>3. QED
  BY <1>1, <1>2, PTL DEF MSpec

-----------------------------------------------------------------------------
(* The theorems.                                                           *)

\* Files, requests, checkpoints and migrations keep their shape in every run
\* of publishers, crashes and migrations.
THEOREM TypeCorrect == MSpec => []TypeOK
<1>1. TypeInv => TypeOK
  BY DEF TypeInv, CoreInv, TypeOK
<1>2. QED
  BY <1>1, Invariant, PTL

\* Whatever publishers, lost responses, late requests, crashes and migrations
\* there are, no observation is published twice or counted twice.
THEOREM EachObservationOnceHolds == MSpec => []EachObservationOnce
<1>1. MInv => EachObservationOnce
  BY DEF MInv, HeadOK
<1>2. QED
  BY <1>1, Invariant, PTL

\* Every shard at the head is of the pipeline its checkpoint names.
THEOREM TreeUniformHolds == MSpec => []TreeUniform
<1>1. MInv => TreeUniform
  BY DEF MInv, HeadOK
<1>2. QED
  BY <1>1, Invariant, PTL

\* No gap young enough to be retried is forgotten but what the enriched
\* pipeline missed, and nothing published is queued, over every migration and
\* for any lag and retry window.
THEOREM GapsQueuedHolds == MSpec => []GapsQueued
<1>1. MInv => GapsQueued
  BY DEF MInv, HeadOK
<1>2. QED
  BY <1>1, Invariant, PTL

-----------------------------------------------------------------------------
(* The dataset implements Coverage.                                        *)

AbstractVars == <<Published, Gaps, FALSE, Remote.next, Remote.next - 1, Remote.next>>

\* Publishing a batch claims minutes after the prefix or recovers a gap.
LEMMA PublishesImplements == ASSUME CoreInv, HeadOK, Publishes PROVE Abstract!Next
<1>0. PICK r \in Record : \E lost \in SUBSET r.missing : Follows(r, hub', lost) /\ Adds(r)
  BY DEF Publishes
<1>1. PICK lost \in SUBSET r.missing : Follows(r, hub', lost) /\ Adds(r)
  BY <1>0
<1>2. hub' \in Progress
  BY DEF Publishes
<1>3. /\ Remote' = hub'
      /\ Published' = Published \cup Complete(r) /\ Complete(r) \cap Published = {}
      /\ Claims(r, hub', lost) => /\ hub'.next > Remote.next
                                  /\ Gaps' = Gaps \cup r.missing
                                  /\ (r.start .. r.end) \cap (First .. Remote.next - 1) = {}
      /\ Recovers(r, hub') => r.start \in Gaps /\ Gaps' = Gaps \ {r.start}
                              /\ Complete(r) = {r.start}
  BY <1>1, <1>2, MoveFacts
<1>4. Remote \in Progress
  BY RemoteType DEF CoreInv, HubTypes
<1>5. Remote.next \in Int /\ hub'.next \in Int /\ r.start \in Int /\ r.end \in Int
  BY <1>2, <1>4 DEF Progress, Record
<1>6. Published \cup Gaps = First .. Remote.next - 1
  BY DEF HeadOK, Gaps
<1>7. Published' \cap Gaps' = {}
  BY DEF Gaps
<1>8. CASE Claims(r, hub', lost)
  <2>1. r.start = Remote.next /\ hub'.next - 1 = r.end /\ r.start <= r.end
        /\ r.start .. r.end = Complete(r) \cup r.missing
    BY <1>1, <1>5, <1>8 DEF Claims, Follows, WellFormed, Complete
  <2>2. Abstract!Claim(Remote.next, hub'.next - 1)
    BY <1>3, <1>6, <1>7, <1>8, <2>1 DEF Abstract!Claim
  <2>3. Abstract!Extend
    BY <1>3, <2>2 DEF Abstract!Extend
  <2>4. QED
    BY <2>3 DEF Abstract!Next
<1>9. CASE Recovers(r, hub')
  <2>1. Remote'.next = Remote.next
    BY <1>3, <1>9 DEF Recovers
  <2>2. Abstract!Recover
    BY <1>3, <1>9, <2>1 DEF Abstract!Recover
  <2>3. QED
    BY <2>2 DEF Abstract!Next
<1>10. QED
  BY <1>1, <1>8, <1>9 DEF Follows

LEMMA HeadStepImplements ==
  ASSUME CoreInv, HeadOK, HeadStep PROVE [Abstract!Next]_AbstractVars
<1>1. CASE Publishes
  BY <1>1, PublishesImplements
<1>2. CASE HeadQuiet \/ Tick
  <2>1. Remote' = Remote /\ Published' = Published
    BY <1>2 DEF HeadQuiet, Tick, hubVars, Remote, Published
  <2>2. Gaps' = Gaps
    BY <2>1 DEF Gaps
  <2>3. QED
    BY <2>1, <2>2 DEF AbstractVars
<1>3. CASE Migrates
  BY <1>3, MigratesFacts DEF AbstractVars
<1>4. QED
  BY <1>1, <1>2, <1>3 DEF HeadStep

LEMMA InitImplements == MInit => Abstract!Init
<1> SUFFICES ASSUME MInit PROVE Abstract!Init
  OBVIOUS
<1>1. hub = None /\ tree = {}
  BY DEF MInit, Init
<1>2. Published = {} /\ Remote.next = First
  BY <1>1 DEF Published, Remote
<1>3. First .. First - 1 = {}
  BY ChronologicalAssumption
<1>4. Gaps = {}
  BY <1>2, <1>3 DEF Gaps
<1>5. QED
  BY <1>2, <1>4 DEF Abstract!Init

\* The chronological publisher claims every minute once and in order, recovers
\* gaps and changes nothing else; earlier publishers do the same and a
\* migration changes nothing of it.
THEOREM CoverageImplemented == MSpec => ImplementsCoverage
<1>1. MInit => Abstract!Init
  BY InitImplements
<1>2. TypeInv /\ MInv /\ [MNext]_allVars => [Abstract!Next]_AbstractVars
  BY StepKeeps, HeadStepImplements DEF Preserved, TypeInv, MInv
<1>3. Abstract!vars = AbstractVars
  BY DEF Abstract!vars, AbstractVars
<1>4. TypeInv /\ MInv /\ [MNext]_allVars => [Abstract!Next]_(Abstract!vars)
  BY <1>2, <1>3 DEF Abstract!vars, AbstractVars
<1>5. QED
  BY <1>1, <1>4, Invariant, PTL DEF MSpec, ImplementsCoverage, Abstract!Spec

-----------------------------------------------------------------------------
(* What is removed from a disk.                                            *)

\* A native batch that is published: its rows are in the tree, its minutes
\* before the cursor.
Settled(r) ==
  /\ hub # None /\ hub.pipeline = Native
  /\ Complete(r) # {} => \E s \in tree : s.rec = r
  /\ r.end < hub.next

\* The receipt of the head is that of a published batch, unless the checkpoint
\* came out of a migration.
ReceiptOK == Remote.receipt # None /\ Remote.receipt.pipeline = Native => Settled(Remote.receipt)

\* A repair that found its minute still absent.
Fruitless(r) == r.kind = "repair" /\ r.missing # {}

\* A request carries its own receipt, and the batch of its sender.
Carries(q) == q.progress.receipt = q.rec /\ ~Fruitless(q.rec)
CarriesOK ==
  /\ \A q \in late : Carries(q)
  /\ \A h \in Hosts : pc[h] \in {"commit", "landed"} =>
       sent[h].rec = disk[h].ready /\ Carries(sent[h])

\* A batch about to be removed is published or fruitless, and none is there when
\* one is built.
FinishedOK ==
  \A h \in Hosts :
    /\ pc[h] \in {"landed", "clean"} => Fruitless(disk[h].ready) \/ Settled(disk[h].ready)
    /\ pc[h] = "build" => disk[h].ready = None

RemovalInv == ReceiptOK /\ CarriesOK /\ FinishedOK

\* The only host of a dataset.
OneHost == \A g, h \in Hosts : g = h

\* Its requests on the wire carry the batch on the disk, which is not yet
\* acknowledged, and what it has published the head acknowledges.
AloneOK ==
  \A h \in Hosts :
    /\ \A q \in late : q.parent = rev =>
         /\ pc[h] \notin {"landed", "clean"}
         /\ disk[h].ready = q.rec /\ ~Acknowledged(q.rec)
    /\ pc[h] = "commit" /\ sent[h].parent = rev => ~Acknowledged(sent[h].rec)
    /\ pc[h] \in {"landed", "clean"} => Fruitless(disk[h].ready) \/ Acknowledged(disk[h].ready)

\* What is published stays published: a native dataset is not migrated.
LEMMA SettledKept ==
  ASSUME CoreInv, HeadOK, HeadStep, NEW r \in Record, Settled(r) PROVE Settled(r)'
<1>0. /\ Remote \in Progress /\ Remote = hub /\ Remote.next \in Int /\ r.end \in Int
  BY RemoteType DEF Settled, CoreInv, HubTypes, Progress, Record
<1>1. ASSUME HeadQuiet PROVE Settled(r)'
  BY <1>1 DEF HeadQuiet, Settled, Complete
<1>2. CASE Publishes
  <2>0. PICK x \in Record : \E lost \in SUBSET x.missing :
          Follows(x, hub', lost) /\ Adds(x) /\ hub' \in Progress
    BY <1>2 DEF Publishes
  <2>1. PICK lost \in SUBSET x.missing : Follows(x, hub', lost) /\ Adds(x) /\ hub' \in Progress
    BY <2>0
  <2>2. hub' # None /\ hub'.pipeline = Native /\ hub'.next \in Int
    BY <2>1, NoneAssumption DEF Follows, Settled, Progress
  <2>3. hub'.next >= hub.next
    <3>1. Claims(x, hub', lost) => hub'.next > Remote.next
      BY <2>1, MoveFacts
    <3>2. QED
      BY <1>0, <2>1, <2>2, <3>1 DEF Follows, Recovers
  <2>4. tree \subseteq tree'
    BY <2>1 DEF Adds
  <2>5. r.end < hub'.next
    BY <1>0, <2>2, <2>3 DEF Settled
  <2>6. QED
    BY <2>2, <2>4, <2>5 DEF Settled, Complete
<1>3. CASE Tick
  BY <1>1, <1>3 DEF Tick, HeadQuiet, hubVars
<1>4. ~Migrates
  BY DEF Migrates, Settled
<1>5. QED
  BY <1>1, <1>2, <1>3, <1>4 DEF HeadStep

\* A commit publishes its batch and acknowledges it.
LEMMA CommitSettles ==
  ASSUME CoreInv, HeadOK, NEW q \in Request, RequestOK(q), Carries(q), Accepts(q), Commit(q)
  PROVE  Settled(q.rec)' /\ Remote'.receipt = q.rec /\ rev' = rev + 1
<1>1. q.rec \in Record /\ q.progress \in Progress
  BY DEF Request
<1>2. /\ Follows(q.rec, hub', {}) /\ hub' = q.progress /\ hub'.pipeline = Native
      /\ hub'.receipt = q.rec /\ rev' = rev + 1
  BY DEF RequestOK, Accepts, Commit, Carries
<1>3. Adds(q.rec) /\ (Complete(q.rec) # {} => [rec |-> q.rec, moved |-> FALSE] \in tree')
  BY DEF Adds, Commit
<1>4. hub' # None /\ Remote' = hub'
  BY <1>1, <1>2, NoneAssumption DEF Remote
<1>5. q.rec.end < hub'.next
  <2>1. q.rec.end \in Int /\ hub'.next \in Int
    BY <1>1, <1>2 DEF Record, Progress
  <2>2. CASE Claims(q.rec, hub', {})
    BY <2>1, <2>2 DEF Claims
  <2>3. CASE Recovers(q.rec, hub')
    <3>1. q.rec.start \in Gaps
      BY <1>1, <1>2, <1>3, <2>3, MoveFacts
    <3>2. q.rec.start \in First .. Remote.next - 1 /\ Remote.next \in Int
      BY <3>1, RemoteType DEF Gaps, CoreInv, HubTypes, Progress
    <3>3. QED
      BY <2>1, <2>3, <3>2, ChronologicalAssumption DEF Recovers
  <2>4. QED
    BY <1>2, <2>2, <2>3 DEF Follows
<1>6. \A s : s = [rec |-> q.rec, moved |-> FALSE] => s.rec = q.rec
  OBVIOUS
<1>7. QED
  BY <1>2, <1>3, <1>4, <1>5, <1>6 DEF Settled, Complete

\* A commit of a pipeline before the native one.
EarlierCommits ==
  /\ ~(hub # None /\ hub.pipeline = Native)
  /\ Remote'.receipt # None /\ Remote'.receipt.pipeline # Native

LEMMA EarlierReceipt ==
  ASSUME CoreInv, (\E p \in Earlier : EarlierForward(p)) \/ EarlierRepair
  PROVE  EarlierCommits /\ rev' = rev + 1
<1>0. Native \notin Earlier /\ Native # "plain"
  BY EarlierAssumption DEF Native
<1>1. ASSUME NEW r \in Record, NEW p \in Pipelines, NEW queue \in SUBSET Int, p # Native,
             hub' = [Advanced(r) EXCEPT !.pipeline = p, !.pending = queue], r.pipeline = p,
             hub # None => hub.pipeline = p
      PROVE  EarlierCommits
  <2>1. Advanced(r) \in Progress /\ Advanced(r).receipt = r
    BY AdvancedFacts DEF CoreInv, HubTypes
  <2>2. hub' \in Progress /\ hub'.receipt = r
    BY <1>1, <2>1 DEF Progress
  <2>3. r # None /\ Remote' = hub'
    BY <2>2, NoneAssumption DEF Remote
  <2>4. QED
    BY <1>1, <2>2, <2>3 DEF EarlierCommits
<1>2. ASSUME NEW p \in Earlier, EarlierForward(p) PROVE EarlierCommits /\ rev' = rev + 1
  <2>1. rev' = rev + 1 /\ (hub # None => hub.pipeline = p)
    BY <1>2 DEF EarlierForward
  <2>2. p # Native /\ p \in Pipelines
    BY <1>0, EarlierAssumption DEF Pipelines
  <2>3. PICK r \in Record, queue \in SUBSET Int :
          r.pipeline = p /\ hub' = [Advanced(r) EXCEPT !.pipeline = p, !.pending = queue]
    BY <1>2, EarlierForwardFacts, Zenon
  <2>4. QED
    BY <1>1, <2>1, <2>2, <2>3
<1>3. ASSUME EarlierRepair PROVE EarlierCommits /\ rev' = rev + 1
  <2>1. PICK r \in Record : r.pipeline = "plain" /\ hub' = [Advanced(r) EXCEPT !.pipeline = "plain"]
    BY <1>3, EarlierRepairFacts
  <2>2. hub.pipeline = "plain" /\ rev' = rev + 1
    BY <1>3 DEF EarlierRepair
  <2>3. Advanced(r) \in Progress
    BY AdvancedFacts DEF CoreInv, HubTypes
  <2>4. Advanced(r).pending \in SUBSET Int
    BY <2>3 DEF Progress
  <2>5. hub' = [Advanced(r) EXCEPT !.pipeline = "plain", !.pending = Advanced(r).pending]
    BY <2>1, <2>3 DEF Progress
  <2>6. QED
    BY <1>0, <1>1, <2>1, <2>2, <2>4, <2>5 DEF Pipelines
<1>4. QED
  BY <1>2, <1>3

\* A migration keeps the receipt of the checkpoint or drops it.
LEMMA ReplaceReceipt ==
  ASSUME CoreInv, NEW q \in Tool, Converting(q), q.todo = {}, Replace(q)
  PROVE  /\ hub # None /\ hub.pipeline # Native /\ rev' = rev + 1
         /\ Remote'.receipt \in {Remote.receipt, None}
<1>1. Migrates /\ rev' = rev + 1
  BY ReplaceFacts
<1>2. hub # None /\ hub' # None /\ hub.pipeline # Native /\ hub \in Progress
  BY <1>1, NoneAssumption DEF Migrates
<1>3. hub' = Migrated(hub)
  BY DEF Replace, Accepts, Converting
<1>4. hub'.receipt \in {hub.receipt, None}
  BY <1>2, <1>3 DEF Migrated, Progress
<1>5. QED
  BY <1>1, <1>2, <1>4 DEF Remote

\* What a step does to the head and its receipt.
LEMMA HeadMoves ==
  ASSUME TypeInv, MInv, [MNext]_allVars
  PROVE  \/ HeadQuiet
         \/ \E q \in Request :
              /\ RequestOK(q) /\ Accepts(q) /\ Commit(q)
              /\ q \in late \/ \E h \in Hosts : pc[h] = "commit" /\ q = sent[h]
         \/ EarlierCommits /\ rev' = rev + 1
         \/ /\ hub # None /\ hub.pipeline # Native /\ rev' = rev + 1
            /\ Remote'.receipt \in {Remote.receipt, None}
<1> DEFINE Committed == \E q \in Request :
              /\ RequestOK(q) /\ Accepts(q) /\ Commit(q)
              /\ q \in late \/ \E h \in Hosts : pc[h] = "commit" /\ q = sent[h]
<1>0. CoreInv /\ ToolTypes /\ ToolsOK /\ RequestsOK
  BY DEF TypeInv, MInv
<1>1. ASSUME NEW h \in Hosts, Step(h) \/ Expire(h) \/ Fail(h) \/ Crash(h) PROVE HeadQuiet
  BY <1>1 DEF Step, TakeReady, StartBuild, Build, Send, FindAcknowledged, Confirm, Clean, Raise,
              Expire, Fail, Crash, hubVars, HeadQuiet
<1>2. ASSUME NEW h \in Hosts, Land(h) PROVE Committed
  <2>1. /\ sent[h] \in Request /\ RequestOK(sent[h]) /\ Accepts(sent[h]) /\ Commit(sent[h])
        /\ pc[h] = "commit"
    BY <1>0, <1>2, HostFacts DEF Land, RequestsOK
  <2>2. QED
    BY <2>1
<1>3. ASSUME LandLate PROVE Committed
  <2>1. PICK q \in late : Accepts(q) /\ Commit(q)
    BY <1>3 DEF LandLate
  <2>2. q \in Request /\ RequestOK(q)
    BY <1>0 DEF CoreInv, HubTypes, RequestsOK
  <2>3. QED
    BY <2>1, <2>2
<1>4. ASSUME Tick \/ UNCHANGED allVars \/ \E h \in Hosts : EarlierLeaves(h) PROVE HeadQuiet
  BY <1>4 DEF Tick, EarlierLeaves, HeadQuiet, hubVars, allVars, vars
<1>5. ASSUME ToolLand \/ ToolLandLate
      PROVE  /\ hub # None /\ hub.pipeline # Native /\ rev' = rev + 1
             /\ Remote'.receipt \in {Remote.receipt, None}
  <2>1. PICK q \in Tool : Converting(q) /\ q.todo = {} /\ Replace(q)
    BY <1>0, <1>5 DEF ToolLand, ToolLandLate, ToolTypes, ToolsOK
  <2>2. QED
    BY <1>0, <2>1, ReplaceReceipt
<1>6. ASSUME ToolNext PROVE HeadQuiet \/ ToolLand \/ ToolLandLate
  BY <1>6 DEF ToolNext, ToolRead, ToolConvert, ToolRebuild, ToolAccept, ToolRefuse, ToolSend,
              ToolEnd, ToolFail, ToolConflict, HeadQuiet, hubVars, vars
<1> HIDE DEF Committed
<1>7. ASSUME WorkerNext PROVE HeadQuiet \/ Committed
  BY <1>1, <1>2, <1>3, <1>4, <1>7 DEF WorkerNext, Next
<1>8. ASSUME EarlierNext PROVE HeadQuiet \/ (EarlierCommits /\ rev' = rev + 1)
  BY <1>0, <1>4, <1>8, EarlierReceipt DEF EarlierNext
<1>9. QED
  BY <1>4, <1>5, <1>6, <1>7, <1>8 DEF MNext, Committed

\* What a step does to one host.
HostQuiet(h) == pc'[h] = pc[h] /\ disk'[h] = disk[h] /\ sent'[h] = sent[h]

LEMMA HostMoves ==
  ASSUME TypeInv, [MNext]_allVars, NEW h \in Hosts
  PROVE  \/ HostQuiet(h)
         \/ pc'[h] \in {"idle", "publish"}
         \/ pc'[h] = "build" /\ disk'[h].ready = None
         \/ pc'[h] = "clean" /\ Fruitless(disk'[h].ready)
         \/ Send(h) \/ Land(h) \/ FindAcknowledged(h) \/ Confirm(h)
<1> DEFINE Moves(g) == \/ HostQuiet(g)
                       \/ pc'[g] \in {"idle", "publish"}
                       \/ pc'[g] = "build" /\ disk'[g].ready = None
                       \/ pc'[g] = "clean" /\ Fruitless(disk'[g].ready)
                       \/ Send(g) \/ Land(g) \/ FindAcknowledged(g) \/ Confirm(g)
<1>0. /\ disk \in [Hosts -> Batch] /\ waiting \in [Hosts -> SUBSET Int]
      /\ pc \in [Hosts -> {"idle", "build", "publish", "commit", "landed", "clean"}]
      /\ sent \in [Hosts -> Request \cup {None}]
  BY DEF TypeInv, CoreInv, HostTypes
<1>1. ASSUME UNCHANGED <<disk, pc, sent>> PROVE Moves(h)
  BY <1>1 DEF HostQuiet
<1>2. ASSUME NEW g \in Hosts, g # h, Step(g) \/ Land(g) \/ Expire(g) \/ Fail(g) \/ Crash(g)
      PROVE  HostQuiet(h)
  <2>1. \A x : pc' = [pc EXCEPT ![g] = x] => pc'[h] = pc[h]
    BY <1>0, <1>2
  <2>2. \A x : sent' = [sent EXCEPT ![g] = x] => sent'[h] = sent[h]
    BY <1>0, <1>2
  <2>3. \A x : disk' = [disk EXCEPT ![g] = x] => disk'[h] = disk[h]
    BY <1>0, <1>2
  <2>4. pc'[h] = pc[h]
    BY <1>2, <2>1 DEF Step, TakeReady, StartBuild, Build, Send, FindAcknowledged, Confirm, Clean,
                      Raise, Land, Expire, Fail, Crash, Judge, Settle, Abandon
  <2>5. sent'[h] = sent[h]
    BY <1>2, <2>2 DEF Step, TakeReady, StartBuild, Build, Send, FindAcknowledged, Confirm, Clean,
                      Raise, Land, Expire, Fail, Crash, Abandon
  <2>6. disk'[h] = disk[h]
    <3>1. CASE StartBuild(g)
      BY <1>0, <1>2, <3>1 DEF StartBuild
    <3>2. CASE Build(g)
      BY <1>0, <1>2, <3>2 DEF Build
    <3>3. CASE Clean(g) \/ Crash(g)
      BY <2>3, <3>3 DEF Clean, Crash
    <3>4. QED
      BY <1>2, <3>1, <3>2, <3>3 DEF Step, TakeReady, Send, FindAcknowledged, Confirm, Raise, Land,
                                    Expire, Fail
  <2>7. QED
    BY <2>4, <2>5, <2>6 DEF HostQuiet
<1>3. ASSUME NEW r, NEW deferred, Judge(h, r, deferred)
      PROVE  pc'[h] = IF Fruitless(r) THEN "clean" ELSE "publish"
  BY <1>0, <1>3 DEF Judge, Fruitless
<1>4. ASSUME TakeReady(h) PROVE Moves(h)
  <2>1. Judge(h, disk[h].ready, Deferred(h)) /\ disk' = disk
    BY <1>4 DEF TakeReady
  <2>2. QED
    BY <1>3, <2>1
<1>5. ASSUME StartBuild(h) PROVE Moves(h)
  <2>1. pc'[h] = "build" /\ disk[h].ready = None
    BY <1>0, <1>5 DEF StartBuild
  <2>2. disk'[h].ready = disk[h].ready
    BY <1>0, <1>5 DEF StartBuild, Batch
  <2>3. QED
    BY <2>1, <2>2
<1>6. ASSUME Build(h) PROVE Moves(h)
  <2>1. \E r : /\ disk' = [disk EXCEPT ![h].ready = r, ![h].intact = TRUE]
               /\ Judge(h, r, waiting[h])
    BY <1>6 DEF Build
  <2>2. \A r : disk' = [disk EXCEPT ![h].ready = r, ![h].intact = TRUE] => disk'[h].ready = r
    BY <1>0 DEF Batch
  <2>3. QED
    BY <1>3, <2>1, <2>2
<1>7. ASSUME Clean(h) \/ Raise(h) \/ Fail(h) \/ Crash(h) PROVE Moves(h)
  BY <1>0, <1>7 DEF Clean, Raise, Fail, Crash, Abandon
<1>8. ASSUME Expire(h) \/ Tick \/ LandLate \/ UNCHANGED allVars \/ EarlierRepair
             \/ (\E p \in Earlier : EarlierForward(p)) \/ ToolNext
      PROVE  UNCHANGED <<disk, pc, sent>>
  BY <1>8 DEF Expire, Tick, LandLate, EarlierRepair, EarlierForward, ToolNext, ToolRead,
     ToolConvert, ToolRebuild, ToolAccept, ToolRefuse, ToolSend, ToolLand, ToolLandLate, ToolEnd,
     ToolFail, ToolConflict, Replace, hostVars, vars, allVars
<1>9. ASSUME NEW g \in Hosts, EarlierLeaves(g) PROVE Moves(h)
  <2>1. pc[g] = "idle" /\ pc' = pc /\ sent' = sent /\ \E b : disk' = [disk EXCEPT ![g] = b]
    BY <1>9 DEF EarlierLeaves
  <2>2. CASE g = h
    BY <2>1, <2>2
  <2>3. CASE g # h
    BY <1>0, <2>1, <2>3 DEF HostQuiet
  <2>4. QED
    BY <2>2, <2>3
<1> HIDE DEF Moves
<1>10. ASSUME NEW g \in Hosts, Step(g) \/ Land(g) \/ Expire(g) \/ Fail(g) \/ Crash(g)
       PROVE  Moves(h)
  <2>1. CASE g # h
    BY <1>2, <1>10, <2>1 DEF Moves
  <2>2. CASE g = h
    <3>1. Send(h) \/ Land(h) \/ FindAcknowledged(h) \/ Confirm(h) => Moves(h)
      BY DEF Moves
    <3>2. QED
      BY <1>1, <1>4, <1>5, <1>6, <1>7, <1>8, <1>10, <2>2, <3>1 DEF Step
  <2>3. QED
    BY <2>1, <2>2
<1>11. Moves(h)
  BY <1>1, <1>8, <1>9, <1>10 DEF MNext, WorkerNext, Next, EarlierNext
<1>12. QED
  BY <1>11 DEF Moves

\* The requests on the wire were sent, and are kept by who no longer waits.
LEMMA LateMoves ==
  ASSUME [MNext]_allVars
  PROVE  \A q \in late' :
           q \in late \/ \E h \in Hosts : pc[h] = "commit" /\ sent[h].parent = rev /\ q = sent[h]
<1>1. ASSUME NEW h \in Hosts, Step(h) \/ Land(h) \/ Expire(h) PROVE late' = late
  BY <1>1 DEF Step, TakeReady, StartBuild, Build, Send, FindAcknowledged, Confirm, Clean, Raise,
              Land, Expire, hubVars
<1>2. ASSUME NEW h \in Hosts, MayLinger(h)
      PROVE  \A q \in late' :
               q \in late \/ (pc[h] = "commit" /\ sent[h].parent = rev /\ q = sent[h])
  BY <1>2 DEF MayLinger
<1>3. ASSUME NEW h \in Hosts, Fail(h) \/ Crash(h) PROVE MayLinger(h)
  BY <1>3 DEF Fail, Crash
<1>4. ASSUME LandLate \/ Tick PROVE late' \subseteq late
  BY <1>4 DEF LandLate, Tick, hubVars
<1>5. ASSUME EarlierNext \/ ToolNext \/ UNCHANGED allVars PROVE late' = late
  BY <1>5 DEF EarlierNext, EarlierForward, EarlierRepair, EarlierLeaves, ToolNext, ToolRead,
     ToolConvert, ToolRebuild, ToolAccept, ToolRefuse, ToolSend, ToolLand, ToolLandLate, ToolEnd,
     ToolFail, ToolConflict, Replace, hubVars, vars, allVars
<1>6. QED
  BY <1>1, <1>2, <1>3, <1>4, <1>5 DEF MNext, WorkerNext, Next

\* A batch on the disk changes only when it is removed.
LEMMA ReadyKept ==
  ASSUME TypeInv, FinishedOK, [MNext]_allVars, NEW h \in Hosts,
         disk[h].ready # None, disk'[h].ready # disk[h].ready
  PROVE  pc[h] = "clean"
<1>0. disk \in [Hosts -> Batch]
  BY DEF TypeInv, CoreInv, HostTypes
<1>1. SUFFICES ASSUME pc[h] # "clean" PROVE FALSE
  OBVIOUS
<1>2. ASSUME NEW g \in Hosts, NEW b, disk' = [disk EXCEPT ![g] = b] PROVE g = h
  BY <1>0, <1>2
<1>3. ASSUME NEW g \in Hosts, StartBuild(g) PROVE FALSE
  <2>1. disk'[h].ready = disk[h].ready
    BY <1>0, <1>3 DEF StartBuild, Batch
  <2>2. QED
    BY <2>1
<1>4. ASSUME NEW g \in Hosts, Build(g) PROVE FALSE
  <2>1. g = h
    BY <1>0, <1>4 DEF Build
  <2>2. QED
    BY <1>4, <2>1 DEF Build, FinishedOK
<1>5. ASSUME NEW g \in Hosts, Clean(g) \/ Crash(g) PROVE FALSE
  <2>1. g = h
    BY <1>2, <1>5 DEF Clean, Crash
  <2>2. QED
    BY <1>1, <1>5, <2>1 DEF Clean, Crash
<1>6. ASSUME NEW g \in Hosts, EarlierLeaves(g) PROVE FALSE
  <2>1. g = h /\ disk[g] = EmptyBatch
    BY <1>2, <1>6 DEF EarlierLeaves
  <2>2. QED
    BY <2>1 DEF EmptyBatch
<1>7. disk' # disk
  OBVIOUS
<1>8. QED
  BY <1>3, <1>4, <1>5, <1>6, <1>7 DEF MNext, WorkerNext, Next, Step, TakeReady, Send,
     FindAcknowledged, Confirm, Raise, Land, Expire, Fail, LandLate, Tick, EarlierNext,
     EarlierForward, EarlierRepair, ToolNext, ToolRead,
     ToolConvert, ToolRebuild, ToolAccept, ToolRefuse, ToolSend, ToolLand, ToolLandLate, ToolEnd,
     ToolFail, ToolConflict, Replace, hostVars, vars, allVars

\* What publish sends carries its receipt.
LEMMA SendCarries ==
  ASSUME CoreInv, NEW h \in Hosts, Send(h)
  PROVE  /\ pc[h] = "publish" /\ pc'[h] = "commit" /\ disk' = disk
         /\ UNCHANGED <<hub, rev, tree, late>>
         /\ sent'[h].parent = rev /\ sent'[h].rec = disk[h].ready /\ Carries(sent'[h])
         /\ ~Acknowledged(disk[h].ready)
<1> DEFINE q == [parent |-> rev, rec |-> disk[h].ready, progress |-> Advanced(disk[h].ready)]
<1>1. /\ sent' = [sent EXCEPT ![h] = q] /\ pc' = [pc EXCEPT ![h] = "commit"]
      /\ UNCHANGED <<hub, rev, tree, late, disk>> /\ Fits(disk[h].ready)
      /\ pc[h] = "publish" /\ ~Acknowledged(disk[h].ready)
  BY DEF Send, hubVars
<1>2. disk[h].ready \in Record
  BY <1>1, HostFacts
<1>3. Advanced(disk[h].ready).receipt = disk[h].ready
  BY <1>2, AdvancedFacts DEF CoreInv, HubTypes
<1>4. q.parent = rev /\ q.rec = disk[h].ready /\ q.progress = Advanced(disk[h].ready)
  OBVIOUS
<1> HIDE DEF q
<1>5. sent'[h] = q /\ pc'[h] = "commit"
  BY <1>1 DEF CoreInv, HostTypes
<1>6. ~Fruitless(disk[h].ready)
  BY <1>1 DEF Fits, Fruitless
<1>7. QED
  BY <1>1, <1>3, <1>4, <1>5, <1>6 DEF Carries

LEMMA CarriesStep ==
  ASSUME TypeInv, MInv, CarriesOK, [MNext]_allVars PROVE CarriesOK'
<1>0. CoreInv
  BY DEF TypeInv
<1>1. \A q \in late' : Carries(q)
  BY LateMoves DEF CarriesOK
<1>2. ASSUME NEW h \in Hosts, pc'[h] \in {"commit", "landed"}
      PROVE  sent'[h].rec = disk'[h].ready /\ Carries(sent'[h])
  <2>1. CASE HostQuiet(h)
    BY <1>2, <2>1 DEF HostQuiet, CarriesOK
  <2>2. CASE Send(h)
    BY <1>0, <2>2, SendCarries
  <2>3. CASE Land(h)
    BY <2>3 DEF Land, CarriesOK
  <2>4. ~FindAcknowledged(h) /\ ~Confirm(h)
    BY <1>0, <1>2 DEF FindAcknowledged, Confirm, Settle, CoreInv, HostTypes
  <2>5. QED
    BY <1>2, <2>1, <2>2, <2>3, <2>4, HostMoves
<1>3. QED
  BY <1>1, <1>2 DEF CarriesOK, Carries, Fruitless

LEMMA ReceiptStep ==
  ASSUME TypeInv, MInv, CarriesOK, ReceiptOK, [MNext]_allVars PROVE ReceiptOK'
<1>0. CoreInv /\ HeadOK /\ HeadStep
  BY StepKeeps DEF TypeInv, MInv, Preserved
<1> PICK r : r = Remote'.receipt
  OBVIOUS
<1>1. SUFFICES ASSUME r # None, r.pipeline = Native PROVE Settled(r)'
  BY DEF ReceiptOK
<1>2. CASE r = Remote.receipt
  <2>1. r \in Record
    BY <1>0, <1>1, <1>2, RemoteType DEF CoreInv, HubTypes, Progress
  <2>2. Settled(r)
    BY <1>1, <1>2 DEF ReceiptOK
  <2>3. QED
    BY <1>0, <2>1, <2>2, SettledKept
<1>3. CASE HeadQuiet
  BY <1>2, <1>3 DEF HeadQuiet, Remote
<1>4. ASSUME NEW q \in Request, RequestOK(q), Accepts(q), Commit(q),
             q \in late \/ \E h \in Hosts : pc[h] = "commit" /\ q = sent[h]
      PROVE  Settled(r)'
  <2>1. Carries(q)
    BY <1>4 DEF CarriesOK
  <2>2. Settled(q.rec)' /\ r = q.rec
    BY <1>0, <1>4, <2>1, CommitSettles
  <2>3. QED
    BY <2>2
<1>5. ~EarlierCommits
  BY <1>1 DEF EarlierCommits
<1>6. QED
  BY <1>1, <1>2, <1>3, <1>4, <1>5, HeadMoves

LEMMA FinishedStep ==
  ASSUME TypeInv, MInv, RemovalInv, [MNext]_allVars PROVE FinishedOK'
<1>0. CoreInv /\ CoreInv' /\ HeadOK /\ HeadStep /\ RequestsOK
  BY StepKeeps DEF TypeInv, MInv, Preserved
<1> SUFFICES ASSUME NEW h \in Hosts
             PROVE  /\ pc'[h] \in {"landed", "clean"} =>
                         Fruitless(disk'[h].ready) \/ Settled(disk[h].ready)'
                    /\ pc'[h] = "build" => disk'[h].ready = None
  BY DEF FinishedOK, Fruitless
<1> PICK r : r = disk'[h].ready
  OBVIOUS
<1>1. ASSUME pc'[h] \in {"landed", "clean"}
      PROVE  r \in Record /\ r.pipeline = Native
  <2>1. disk'[h] \in Batch /\ disk'[h].ready # None /\ disk'[h].ready.pipeline = Native
    BY <1>0, <1>1 DEF CoreInv, HostTypes, ProcOK
  <2>2. QED
    BY <2>1 DEF Batch
<1>2. ASSUME pc'[h] \in {"landed", "clean"}, Settled(r) PROVE Settled(disk[h].ready)'
  <2>1. Settled(r)'
    BY <1>0, <1>1, <1>2, SettledKept
  <2>2. QED
    BY <2>1
<1>3. CASE HostQuiet(h)
  <2>1. r = disk[h].ready /\ pc'[h] = pc[h]
    BY <1>3 DEF HostQuiet
  <2>2. QED
    BY <1>2, <2>1 DEF RemovalInv, FinishedOK, HostQuiet
<1>4. CASE Send(h)
  BY <1>0, <1>4, SendCarries
<1>5. CASE Land(h)
  <2>1. /\ sent[h] \in Request /\ RequestOK(sent[h]) /\ Accepts(sent[h]) /\ Commit(sent[h])
        /\ pc[h] = "commit" /\ disk' = disk /\ pc'[h] = "landed"
    BY <1>0, <1>5, HostFacts DEF Land, RequestsOK, CoreInv, HostTypes
  <2>2. PICK q \in Request : q = sent[h]
    BY <2>1
  <2>3. Carries(q) /\ q.rec = r
    BY <2>1, <2>2 DEF RemovalInv, CarriesOK
  <2>4. Settled(q.rec)'
    BY <1>0, <2>1, <2>2, <2>3, CommitSettles
  <2>5. QED
    BY <2>1, <2>3, <2>4
<1>6. CASE FindAcknowledged(h)
  <2>1. /\ pc[h] = "publish" /\ Acknowledged(disk[h].ready) /\ disk' = disk /\ pc'[h] = "clean"
    BY <1>0, <1>6 DEF FindAcknowledged, Settle, CoreInv, HostTypes
  <2>2. r = Remote.receipt /\ r # None /\ r.pipeline = Native
    BY <1>0, <2>1, HostFacts DEF Acknowledged
  <2>3. Settled(r)
    BY <2>2 DEF RemovalInv, ReceiptOK
  <2>4. QED
    BY <1>2, <2>1, <2>3
<1>7. CASE Confirm(h)
  <2>1. pc[h] = "landed" /\ disk' = disk /\ pc'[h] = "clean"
    BY <1>0, <1>7 DEF Confirm, Settle, CoreInv, HostTypes
  <2>2. QED
    BY <1>2, <2>1 DEF RemovalInv, FinishedOK
<1>8. QED
  BY <1>3, <1>4, <1>5, <1>6, <1>7, HostMoves

\* One host: a step that moves the head leaves no request that could be applied.
LEMMA AloneStep ==
  ASSUME OneHost, TypeInv, MInv, RemovalInv, AloneOK, [MNext]_allVars PROVE AloneOK'
<1>0. /\ CoreInv /\ HeadOK /\ RequestsOK /\ rev \in Nat /\ CarriesOK /\ FinishedOK /\ CarriesOK'
  BY CarriesStep DEF TypeInv, MInv, CoreInv, HubTypes, RemovalInv
<1> SUFFICES ASSUME NEW h \in Hosts
             PROVE  /\ \A q \in late' : q.parent = rev' =>
                         /\ pc'[h] \notin {"landed", "clean"}
                         /\ disk'[h].ready = q.rec /\ q.rec # Remote'.receipt
                    /\ pc'[h] = "commit" /\ sent'[h].parent = rev' => sent'[h].rec # Remote'.receipt
                    /\ pc'[h] \in {"landed", "clean"} =>
                         Fruitless(disk'[h].ready) \/ disk'[h].ready = Remote'.receipt
  BY DEF AloneOK, Acknowledged, Fruitless
<1>1. \A q \in late' : q \in late \/ (pc[h] = "commit" /\ sent[h].parent = rev /\ q = sent[h])
  BY LateMoves DEF OneHost
<1>2. CASE HeadQuiet
  <2>1. rev' = rev /\ Remote' = Remote
    BY <1>2 DEF HeadQuiet, Remote
  <2>2. \A q \in late' : q.parent = rev =>
          /\ pc[h] \notin {"landed", "clean"} /\ disk[h].ready = q.rec /\ q.rec # Remote.receipt
          /\ ~Fruitless(q.rec)
    BY <1>0, <1>1 DEF AloneOK, CarriesOK, Acknowledged, Carries
  <2>3. \A q \in late' : q.parent = rev => q.rec # None
    <3>1. \A q \in late : q.rec \in Record
      BY <1>0 DEF CoreInv, HubTypes, Request
    <3>2. pc[h] = "commit" => sent[h].rec \in Record
      BY <1>0, HostFacts DEF Request
    <3>3. QED
      BY <1>1, <3>1, <3>2, NoneAssumption
  <2>4. \A q \in late' : q.parent = rev => disk'[h].ready = q.rec
    BY <1>0, <2>2, <2>3, ReadyKept
  <2>5. CASE HostQuiet(h)
    BY <2>1, <2>2, <2>4, <2>5 DEF HostQuiet, AloneOK, Acknowledged
  <2>6. CASE pc'[h] \in {"idle", "publish", "build"}
    BY <2>1, <2>2, <2>4, <2>6
  <2>7. CASE pc'[h] = "clean" /\ Fruitless(disk'[h].ready)
    BY <2>1, <2>2, <2>4, <2>7
  <2>8. CASE Send(h)
    BY <1>0, <2>1, <2>2, <2>4, <2>8, SendCarries DEF Acknowledged
  <2>9. CASE FindAcknowledged(h)
    BY <1>0, <2>1, <2>2, <2>4, <2>9
    DEF FindAcknowledged, Acknowledged, Settle, CoreInv, HostTypes
  <2>10. CASE Confirm(h)
    <3>1. pc[h] = "landed" /\ disk' = disk /\ pc'[h] = "clean"
      BY <1>0, <2>10 DEF Confirm, Settle, CoreInv, HostTypes
    <3>2. QED
      BY <2>1, <2>2, <3>1 DEF AloneOK, Acknowledged
  <2>11. ~Land(h)
    BY <1>0, <2>1 DEF Land, Commit
  <2>12. QED
    BY <2>5, <2>6, <2>7, <2>8, <2>9, <2>10, <2>11, HostMoves
<1>3. ASSUME rev' = rev + 1,
             pc[h] \in {"landed", "clean"} =>
               Fruitless(disk[h].ready) \/ disk[h].ready = Remote'.receipt,
             Land(h) => disk[h].ready = Remote'.receipt
      PROVE  /\ \A q \in late' : q.parent # rev'
             /\ ~(pc'[h] = "commit" /\ sent'[h].parent = rev')
             /\ pc'[h] \in {"landed", "clean"} =>
                  Fruitless(disk'[h].ready) \/ disk'[h].ready = Remote'.receipt
  <2>1. \A q \in late : q.parent \in Nat /\ q.parent <= rev
    BY <1>0 DEF RequestsOK, RequestOK, CoreInv, HubTypes, Request
  <2>2. pc[h] = "commit" => sent[h].parent \in Nat /\ sent[h].parent <= rev
    BY <1>0, HostFacts DEF RequestsOK, RequestOK, Request
  <2>3. \A q \in late' : q.parent # rev'
    BY <1>0, <1>1, <1>3, <2>1, <2>2
  <2>4. ~Send(h) /\ ~FindAcknowledged(h) /\ ~Confirm(h)
    BY <1>0, <1>3 DEF Send, FindAcknowledged, Confirm, hubVars
  <2>5. CASE HostQuiet(h)
    BY <1>0, <1>3, <2>2, <2>3, <2>5 DEF HostQuiet
  <2>6. CASE Land(h)
    <3>1. pc'[h] = "landed" /\ disk' = disk
      BY <1>0, <2>6 DEF Land, CoreInv, HostTypes
    <3>2. QED
      BY <1>3, <2>3, <2>6, <3>1
  <2>7. QED
    BY <2>3, <2>4, <2>5, <2>6, HostMoves
<1>4. ASSUME NEW q \in Request, RequestOK(q), Accepts(q), Commit(q),
             q \in late \/ \E g \in Hosts : pc[g] = "commit" /\ q = sent[g]
      PROVE  /\ rev' = rev + 1
             /\ pc[h] \notin {"landed", "clean"}
             /\ Land(h) => disk[h].ready = Remote'.receipt
  <2>1. q \in late \/ (pc[h] = "commit" /\ q = sent[h])
    BY <1>4 DEF OneHost
  <2>2. Carries(q) /\ disk[h].ready = q.rec /\ pc[h] \notin {"landed", "clean"}
    BY <1>0, <1>4, <2>1 DEF CarriesOK, AloneOK, Accepts
  <2>3. rev' = rev + 1 /\ Remote'.receipt = q.rec
    BY <1>0, <1>4, <2>2, CommitSettles
  <2>4. QED
    BY <2>2, <2>3
<1>5. ASSUME ~(hub # None /\ hub.pipeline = Native)
      PROVE  pc[h] \in {"landed", "clean"} => Fruitless(disk[h].ready)
  BY <1>0, <1>5 DEF FinishedOK, Settled
<1>6. ASSUME Land(h), ~HeadQuiet PROVE disk[h].ready = Remote'.receipt
  <2>1. /\ sent[h] \in Request /\ RequestOK(sent[h]) /\ Accepts(sent[h]) /\ Commit(sent[h])
        /\ pc[h] = "commit"
    BY <1>0, <1>6, HostFacts DEF Land, RequestsOK
  <2>2. QED
    BY <1>4, <1>6, <2>1
<1>7. QED
  BY <1>2, <1>3, <1>4, <1>5, <1>6, HeadMoves DEF EarlierCommits

LEMMA RemovalCorrect == MSpec => [](TypeInv /\ MInv /\ RemovalInv)
<1>1. MInit => TypeInv /\ MInv /\ RemovalInv
  <2> SUFFICES ASSUME MInit PROVE RemovalInv
    BY InitTypes, InitHead
  <2>1. hub = None /\ late = {} /\ \A h \in Hosts : pc[h] = "idle"
    BY DEF MInit, Init
  <2>2. Remote.receipt = None
    BY <2>1 DEF Remote
  <2>3. QED
    BY <2>1, <2>2 DEF RemovalInv, ReceiptOK, CarriesOK, FinishedOK
<1>2. TypeInv /\ MInv /\ RemovalInv /\ [MNext]_allVars => (TypeInv /\ MInv /\ RemovalInv)'
  BY StepKeeps, ReceiptStep, CarriesStep, FinishedStep DEF Preserved, RemovalInv
<1>3. QED
  BY <1>1, <1>2, PTL DEF MSpec

\* A batch that a step removes is native, and published or fruitless.
LEMMA RemovalStep ==
  ASSUME TypeInv, FinishedOK, [MNext]_allVars, NEW h \in Hosts,
         disk[h].ready # None, disk'[h].ready # disk[h].ready
  PROVE  /\ pc[h] = "clean" /\ disk[h].ready.pipeline = Native
         /\ Fruitless(disk[h].ready) \/ Settled(disk[h].ready)
<1>1. pc[h] = "clean"
  BY ReadyKept
<1>2. QED
  BY <1>1, HostFacts DEF TypeInv, FinishedOK

\* A removed batch is native, and in the dataset or fruitless.
RemovedOnlySettled ==
  [][\A h \in Hosts :
       LET r == disk[h].ready
       IN  (r # None /\ disk'[h].ready # r) =>
             r.pipeline = Native /\ (Settled(r) \/ Fruitless(r))]_disk

\* For any number of hosts, a batch leaves a disk only when it is in the dataset:
\* its rows in the tree, its minutes before the cursor (main, remove_owned).
THEOREM RemovedOnlySettledHolds == MSpec => RemovedOnlySettled
<1>1. TypeInv /\ RemovalInv /\ [MNext]_allVars =>
        [\A h \in Hosts :
           LET r == disk[h].ready
           IN  (r # None /\ disk'[h].ready # r) =>
                 r.pipeline = Native /\ (Settled(r) \/ Fruitless(r))]_disk
  BY RemovalStep DEF RemovalInv
<1>2. QED
  BY <1>1, RemovalCorrect, PTL DEF MSpec, RemovedOnlySettled

\* On the only host of a dataset the checkpoint acknowledges what is removed
\* even when it has no rows, whatever is on the wire and whichever pipelines
\* and migrations came before.
THEOREM RemovedOnlyPublishedHolds ==
  ASSUME OneHost PROVE MSpec => RemovedOnlyPublished
<1>1. MInit => AloneOK
  BY DEF MInit, Init, AloneOK
<1>2. TypeInv /\ MInv /\ RemovalInv /\ AloneOK /\ [MNext]_allVars => AloneOK'
  BY AloneStep
<1>3. TypeInv /\ MInv /\ RemovalInv /\ AloneOK /\ [MNext]_allVars =>
        [\A h \in Hosts :
           LET r == disk[h].ready
           IN  (r # None /\ disk'[h].ready # r) =>
                 /\ r.pipeline = Native
                 /\ \/ Complete(r) # {} /\ \E s \in tree : s.rec = r
                    \/ Complete(r) = {} /\ Acknowledged(r)
                    \/ r.kind = "repair" /\ r.missing # {}]_disk
  BY RemovalStep DEF RemovalInv, AloneOK, Settled, Fruitless
<1>4. QED
  BY <1>1, <1>2, <1>3, RemovalCorrect, PTL DEF MSpec, RemovedOnlyPublished
=============================================================================
