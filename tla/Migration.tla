----------------------------- MODULE Migration -----------------------------
(***************************************************************************)
(* The two migrations of a published dataset, beside the publisher they    *)
(* prepare it for: migrate_compact.py turns the enriched v1 tree into      *)
(* native shards, upgrade_native_metadata.py the four-column v2 tree.      *)
(*                                                                         *)
(* A tool reads everything at one parent revision, converts shard by shard *)
(* into a staging directory, compares the totals, and with --apply makes   *)
(* one commit on that parent.  A v2 shard that itself came out of a        *)
(* migration is converted from its ancestor; the others are reconstructed  *)
(* from the source, and a reconstruction is kept by its start minute.      *)
(* The publishers of the earlier pipelines are outside these sources       *)
(* (v2) or in EnrichedWorker (v1): here they only commit.                  *)
(***************************************************************************)
EXTENDS Chronological

CONSTANTS
  Earlier,    \* the earlier pipelines that may have published
  EarlierLag  \* --lag-hours of the enriched pipeline, in minutes

ASSUME EarlierAssumption == Earlier \subseteq {"plain", "enriched"} /\ EarlierLag \in Nat

VARIABLES
  tool,     \* the migration in progress
  rebuilt,  \* reconstruct/<start>: the batches the upgrade has rebuilt
  flying,   \* commits on the wire whose tool no longer waits
  unqueued  \* history: gaps of the enriched pipeline, which has no retry queue

toolVars == <<tool, rebuilt, flying>>
allVars == <<vars, toolVars, unqueued>>

\* A migration: what it read at its parent, and what it has converted of it.
Tool == [step : {"idle", "convert", "commit"}, parent : Nat, progress : Progress \cup {None},
         todo : SUBSET Shard, out : SUBSET Shard]

Idle == [step |-> "idle", parent |-> 0, progress |-> None, todo |-> {}, out |-> {}]

\* A commit of another writer takes the parent from the requests on the wire.
\* Bound: a conversion it overtakes, which could only be refused, is not followed.
Overtaken ==
  /\ flying' = IF rev' = rev THEN flying ELSE {}
  /\ tool' = IF rev' # rev /\ tool.step = "convert" THEN Idle ELSE tool
  /\ UNCHANGED rebuilt

MInit == Init /\ tool = Idle /\ rebuilt = {} /\ flying = {} /\ unqueued = {}

-----------------------------------------------------------------------------
(* The earlier publishers.                                                 *)

\* Bound: a publisher that was not stopped for the migration counts as a fault.
Unstopped ==
  /\ tool.step # "idle" => faults < MaxFaults
  /\ faults' = faults + (IF tool.step = "idle" THEN 0 ELSE 1)

\* An enriched or plain batch after the cursor; every batch has a data shard.
\* The first batches of a plain dataset may be enriched ones of an earlier
\* migration.  What an enriched batch misses is not queued, then or later.
EarlierForward(p) ==
  /\ hub # None => hub.pipeline = p
  /\ \E moved \in {FALSE} \cup {p = "plain" /\ hub = None} :
     LET enriched == p = "enriched" \/ moved
     IN  \E end \in Remote.next .. (IF enriched THEN now - EarlierLag ELSE Cutoff) :
         \E missing \in SUBSET ((Remote.next .. end) \ served) :
           LET r == [kind |-> "forward", start |-> Remote.next, end |-> end,
                     missing |-> missing, pipeline |-> p]
           IN  /\ hub' = [Advanced(r) EXCEPT !.pipeline = p,
                                             !.pending = IF enriched THEN {} ELSE @]
               /\ unqueued' = IF enriched THEN unqueued \cup missing ELSE unqueued
               /\ tree' = tree \cup {[rec |-> r, moved |-> moved]}
               /\ served' = served \cup Complete(r)
  /\ rev' = rev + 1 /\ Overtaken /\ Unstopped
  /\ UNCHANGED <<late, hostVars, now>>

\* A late file of the plain dataset.
EarlierRepair ==
  /\ hub # None /\ hub.pipeline = "plain"
  /\ \E m \in hub.pending :
       LET r == [kind |-> "repair", start |-> m, end |-> m, missing |-> {}, pipeline |-> "plain"]
       IN  /\ hub' = [Advanced(r) EXCEPT !.pipeline = "plain"]
           /\ tree' = tree \cup {[rec |-> r, moved |-> FALSE]}
           /\ served' = served \cup {m}
  /\ rev' = rev + 1 /\ Overtaken /\ Unstopped
  /\ UNCHANGED <<late, hostVars, now, unqueued>>

\* A stopped publisher of an earlier pipeline leaves its batch on the disk.
EarlierLeaves(h) ==
  /\ hub # None /\ hub.pipeline # Native /\ tool.step = "idle"
  /\ pc[h] = "idle" /\ disk[h] = EmptyBatch
  /\ LET p == [kind |-> "forward", start |-> hub.next, end |-> hub.next, pipeline |-> hub.pipeline]
         r == [kind |-> "forward", start |-> hub.next, end |-> hub.next,
               missing |-> {hub.next}, pipeline |-> hub.pipeline]
     IN  \E b \in {[request |-> p, ready |-> None, intact |-> FALSE],
                   [request |-> p, ready |-> r, intact |-> TRUE]} :
           disk' = [disk EXCEPT ![h] = b]
  /\ UNCHANGED <<hubVars, waiting, pc, last, sent, served, now, faults, toolVars, unqueued>>

-----------------------------------------------------------------------------
(* The tools.                                                              *)

\* migrate and upgrade: pin the head.  A native dataset needs nothing.
ToolRead ==
  /\ tool.step = "idle" /\ hub # None /\ hub.pipeline # Native
  /\ tool' = [step |-> "convert", parent |-> rev, progress |-> hub, todo |-> tree, out |-> {}]
  /\ UNCHANGED <<vars, rebuilt, flying, unqueued>>

\* The native shard that replaces s holds the batch r.
Deliver(s, r) ==
  LET kind == IF tool.progress.pipeline = "enriched" THEN "forward" ELSE s.rec.kind
  IN  tool' = [tool EXCEPT
        !.todo = @ \ {s},
        !.out = @ \cup {[rec |-> [r EXCEPT !.pipeline = Native, !.kind = kind], moved |-> TRUE]}]

FromSource(s) == tool.progress.pipeline = "plain" /\ ~s.moved

\* Both tools go through the manifests by name: by start, then by end.
Current(s) ==
  /\ tool.step = "convert"
  /\ s \in tool.todo
  /\ \A t \in tool.todo :
       s.rec.start < t.rec.start \/ (s.rec.start = t.rec.start /\ s.rec.end <= t.rec.end)

\* convert_parquet: a shard that is, or whose ancestor is, an enriched one.
ToolConvert ==
  /\ \E s \in tool.todo : Current(s) /\ ~FromSource(s) /\ Deliver(s, s.rec)
  /\ UNCHANGED <<vars, rebuilt, flying, unqueued>>

Kept(s) == {r \in rebuilt : r.start = s.rec.start}

\* The first reconstruction of a batch: build_batch in reconstruct/<start>.
ToolRebuild ==
  /\ \E s \in tool.todo :
       /\ Current(s) /\ FromSource(s) /\ Kept(s) = {}
       /\ \E end \in SealPoints(s.rec) : \E missing \in SUBSET ((s.rec.start .. end) \ served) :
            LET r == [s.rec EXCEPT !.end = end, !.missing = missing, !.pipeline = Native]
            IN  rebuilt' = rebuilt \cup {r} /\ served' = served \cup Complete(r)
  /\ UNCHANGED <<hubVars, hostVars, now, faults, tool, flying, unqueued>>

\* A reconstruction stands for the shard when it is the same batch.
Same(s, r) == [r EXCEPT !.pipeline = s.rec.pipeline] = s.rec

ToolAccept ==
  /\ \E s \in tool.todo : /\ Current(s) /\ FromSource(s)
                          /\ \E r \in Kept(s) : Same(s, r) /\ Deliver(s, r)
  /\ UNCHANGED <<vars, rebuilt, flying, unqueued>>

\* A reconstruction that differs is an error, in this run and the next ones.
ToolRefuse ==
  /\ \E s \in tool.todo : Current(s) /\ FromSource(s) /\ \E r \in Kept(s) : ~Same(s, r)
  /\ tool' = Idle
  /\ UNCHANGED <<vars, rebuilt, flying, unqueued>>

\* Every shard is converted and the rows add up to the published total.
Balanced ==
  MapThenSumSet(LAMBDA s : Cardinality(Complete(s.rec)), tool.out) = tool.progress.total

\* The checkpoint of the migrated dataset: no batch of the native publisher has
\* the receipt of a converted manifest.
Migrated(p) ==
  IF p.pipeline = "enriched"
    THEN [p EXCEPT !.pipeline = Native, !.action = "forward", !.pending = {}, !.receipt = None]
    ELSE [p EXCEPT !.pipeline = Native]

\* With --apply, the commit; without it the tool ends here.
ToolSend ==
  /\ tool.step = "convert" /\ tool.todo = {} /\ Balanced
  /\ tool' = [tool EXCEPT !.step = "commit"]
  /\ UNCHANGED <<vars, rebuilt, flying, unqueued>>

\* One commit replaces the tree and the checkpoint.  Reconstructions are not
\* looked at again.
Replace(q) ==
  /\ Accepts(q)
  /\ rev' = rev + 1 /\ hub' = Migrated(q.progress) /\ tree' = q.out
  /\ flying' = {} /\ rebuilt' = {}
  /\ UNCHANGED <<late, hostVars, served, now, faults, unqueued>>

ToolLand == tool.step = "commit" /\ Replace(tool) /\ tool' = Idle

ToolLandLate == \E q \in flying : Replace(q) /\ UNCHANGED tool

\* The tool ends before its commit: refused, without --apply or by a failure.
ToolEnd ==
  /\ tool.step = "convert"
  /\ tool' = Idle
  /\ UNCHANGED <<vars, rebuilt, flying, unqueued>>

\* It stops waiting for its commit, which may stay on the wire.
ToolFail ==
  /\ tool.step = "commit" /\ faults < MaxFaults
  /\ tool' = Idle /\ faults' = faults + 1
  /\ IF tool.parent = rev THEN flying' \in {flying, {tool}} ELSE UNCHANGED flying
  /\ UNCHANGED <<hubVars, hostVars, served, now, rebuilt, unqueued>>

\* Its commit has lost the parent.
ToolConflict ==
  /\ tool.step = "commit" /\ tool.parent # rev
  /\ tool' = Idle
  /\ UNCHANGED <<vars, rebuilt, flying, unqueued>>

-----------------------------------------------------------------------------
ToolNext ==
  \/ ToolRead \/ ToolConvert \/ ToolRebuild \/ ToolAccept \/ ToolRefuse
  \/ ToolSend \/ ToolLand \/ ToolLandLate
  \/ ToolEnd \/ ToolFail \/ ToolConflict

EarlierNext ==
  \/ \E p \in Earlier : EarlierForward(p)
  \/ EarlierRepair
  \/ \E h \in Hosts : EarlierLeaves(h)

WorkerNext == Next /\ Overtaken /\ UNCHANGED unqueued

MNext == WorkerNext \/ EarlierNext \/ ToolNext

MSpec == MInit /\ [][MNext]_allVars

-----------------------------------------------------------------------------
(* Properties.                                                             *)

\* TypeOK: what the Hub, the disks, the processes and the tool may hold.
HubTypes ==
  hub \in Progress \cup {None} /\ rev \in Nat /\ tree \subseteq Shard /\ late \subseteq Request

HostTypes ==
  /\ disk \in [Hosts -> Batch]
  /\ waiting \in [Hosts -> SUBSET Int]
  /\ pc \in [Hosts -> {"idle", "build", "publish", "commit", "landed", "clean"}]
  /\ last \in [Hosts -> Kinds \cup {None}]
  /\ sent \in [Hosts -> Request \cup {None}]

ToolTypes == tool \in Tool /\ flying \subseteq Tool /\ rebuilt \subseteq Record

TypeOK ==
  HubTypes /\ HostTypes /\ ToolTypes /\ served \subseteq Int /\ now \in Int /\ faults \in Nat

Published == UNION {Complete(s.rec) : s \in tree}

\* The claimed minutes that have no articles in the tree.
Gaps == (First .. Remote.next - 1) \ Published

\* Each observation is in the tree once and is counted once: no lost response,
\* late request or migration doubles or loses one (publish, migrate, upgrade).
EachObservationOnce ==
  /\ Remote.total = Cardinality(Published)
  /\ \A s, t \in tree : s # t => Complete(s.rec) \cap Complete(t.rec) = {}

\* Readers see one format: every shard at the head is of the pipeline the
\* checkpoint names, before, between and after the migrations.
TreeUniform == \A s \in tree : s.rec.pipeline = Remote.pipeline

\* The retry queue holds the gaps young enough to be retried and nothing that
\* is published, over repairs, late commits and migrations.  Only what the
\* enriched pipeline missed never gets there, however young it still is:
\* migrate starts with an empty queue.
GapsQueued ==
  /\ {m \in Gaps \ unqueued : m >= Earliest} \subseteq Remote.pending
  /\ Remote.pending \subseteq Gaps \ unqueued

\* A batch leaves the disk only when it is published, or when it is a repair
\* that found nothing; a batch of another pipeline never leaves it.
RemovedOnlyPublished ==
  [][\A h \in Hosts :
       LET r == disk[h].ready
       IN  (r # None /\ disk'[h].ready # r) =>
             /\ r.pipeline = Native
             /\ \/ Complete(r) # {} /\ \E s \in tree : s.rec = r
                \/ Complete(r) = {} /\ Acknowledged(r)
                \/ r.kind = "repair" /\ r.missing # {}]_disk

\* The chronological mode, and a migration under it, implements Coverage: the
\* minutes after the prefix are claimed once and in order, and a migration
\* changes nothing of what is published.
Abstract == INSTANCE Coverage WITH
  published <- Published, gaps <- Gaps, opened <- FALSE,
  floor <- Remote.next, hi <- Remote.next - 1, top <- Remote.next

ImplementsCoverage == Abstract!Spec
=============================================================================
