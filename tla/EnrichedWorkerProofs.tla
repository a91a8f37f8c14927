------------------------ MODULE EnrichedWorkerProofs ------------------------
(***************************************************************************)
(* TLAPS proofs about EnrichedWorker, for every interval, batch length and *)
(* set of sources, and any number of replaced files, failures and crashes. *)
(***************************************************************************)
EXTENDS EnrichedWorker, SequenceTheorems, FiniteSetTheorems, WellFoundedInduction, TLAPS

-----------------------------------------------------------------------------
(* The inductive invariant.                                                *)

Results == Versions \cup {Missing, Failure}
Files == Reports \cup {None, Torn}
Evidence == [Sources -> Versions \cup {None}]
Building == {"collect", "fetch", "check"}

\* A report with the suffix list and without failures, and evidence for it.
IsReport(m, f) == f \in [SourcesOf[m] -> Results]
Good(m, f, evidence) ==
  /\ IsReport(m, f) /\ f[PSL] \in Versions
  /\ \A u \in SourcesOf[m] : f[u] # Failure /\ (f[u] \in Versions => evidence[u] = f[u])

Records == [start : Minutes, end : Minutes, missing : SUBSET Minutes,
            reports : [Minutes -> Files], evidence : Evidence]

GoodRecord(r) ==
  /\ r \in Records /\ r.start <= r.end
  /\ \A m \in Complete(r) : Good(m, r.reports[m], r.evidence)

\* The cache has version v of a source, with its sidecar.
Cached(u, v) == cache[u].file = v /\ cache[u].sidecar = v

\* What is enriched can still be checked against the cache.
CitedOK(m, f) ==
  /\ IsReport(m, f) /\ f[PSL] \in Versions
  /\ \A u \in SourcesOf[m] : f[u] \in Versions => Cached(u, f[u])

EnrichedOK ==
  /\ enriched \in [Minutes -> Files]
  /\ \A m \in Minutes : enriched[m] \in {None, Torn} \/ CitedOK(m, enriched[m])

CacheOK == cache \in [Sources -> [file : Versions \cup {None}, sidecar : Versions \cup {None}]]

RequestOK ==
  /\ batch.request.start \in Minutes /\ batch.request.end \in Minutes
  /\ batch.request.start <= batch.request.end

BatchOK ==
  /\ DOMAIN batch = {"request", "ready", "intact"}
  /\ batch.ready # None => GoodRecord(batch.ready)
  /\ batch.request # None => RequestOK

HubOK ==
  /\ hub.next \in First .. LastCutoff + 1
  /\ log \in Seq(Records)
  /\ \A i \in 1 .. Len(log) : GoodRecord(log[i]) /\ log[i].end < hub.next
  /\ hub.receipt # None => Len(log) >= 1 /\ hub.receipt = log[Len(log)]

\* A request whose parent is the head starts at the cursor.
WireOK(q) ==
  /\ q.parent \in Nat /\ q.parent <= Len(log) /\ GoodRecord(q.rec)
  /\ q.parent = Len(log) => hub.next = q.rec.start

LateOK == \A q \in late : WireOK(q)
EnvOK == cutoff \in Minutes /\ upstream \in [Sources -> Versions]

WorkOK ==
  /\ DOMAIN work = {"minute", "missing", "reports", "evidence", "fetched"}
  /\ work.minute \in Minutes /\ work.missing \subseteq Minutes
  /\ work.reports \in [Minutes -> Files] /\ work.evidence \in Evidence
  /\ work.fetched \in [Sources -> Results \cup {Writing, None}]

\* The batch in memory is good so far, and the cache still has its evidence.
BuildOK ==
  pc \in Building =>
    /\ batch.ready = None /\ RequestOK
    /\ batch.request.start <= work.minute /\ work.minute <= batch.request.end
    /\ \A m \in (batch.request.start .. work.minute - 1) \ work.missing :
         Good(m, work.reports[m], work.evidence)
    /\ \A u \in Sources : work.evidence[u] \in Versions => Cached(u, work.evidence[u])

FetchOK ==
  /\ pc = "collect" => work.fetched = NoWork.fetched
  /\ pc = "fetch" => \A u \in Sources :
       /\ work.fetched[u] \in Versions => Cached(u, work.fetched[u])
       /\ work.fetched[u] = Writing => cache[u].file \in Versions

CheckOK == pc = "check" => Report = Torn \/ CitedOK(work.minute, Report)

PublishOK ==
  /\ pc \in {"publish", "commit"} => GoodRecord(batch.ready)
  /\ pc = "commit" => WireOK(sent) /\ sent.rec = batch.ready
  /\ pc \in {"landed", "clean"} /\ batch.ready # None => \E i \in 1 .. Len(log) : log[i] = batch.ready
  /\ pc = "cleancache" => \A m \in Minutes : enriched[m] = None

PcOK == pc \in {"idle", "collect", "fetch", "check", "purge", "publish", "commit", "landed",
                "clean", "cleancache"}

DiskOK == EnrichedOK /\ CacheOK /\ BatchOK
ProcOK == WorkOK /\ BuildOK /\ FetchOK /\ CheckOK /\ PublishOK /\ PcOK
Inv == DiskOK /\ HubOK /\ LateOK /\ EnvOK /\ ProcOK

-----------------------------------------------------------------------------
(* Frames.                                                                 *)

LEMMA Constants ==
  /\ First \in Int /\ LastCutoff \in Int /\ First <= LastCutoff /\ First \in Minutes
  /\ Minutes = First .. LastCutoff /\ PSL \in Sources /\ None \notin Versions
  /\ Failure \notin Versions /\ Missing \notin Versions /\ Writing \notin Versions
  /\ Writing \notin Results /\ None \notin Results /\ BatchMinutes \in Nat \ {0}
  /\ \A m \in Minutes : PSL \in SourcesOf[m] /\ SourcesOf[m] \subseteq Sources
<1>1. /\ First \in Int /\ LastCutoff \in Int /\ First <= LastCutoff /\ MaxVersion \in Nat /\ PSL \in Sources
      /\ BatchMinutes \in Nat \ {0}
  BY EnrichedAssumption
<1>2. None \notin Versions \cup {Missing, Failure, Writing}
  BY EnrichedAssumption
<1>3. \A m \in Minutes : PSL \in SourcesOf[m] /\ SourcesOf[m] \subseteq Sources
  BY EnrichedAssumption
<1>4. Failure \notin Versions /\ Missing \notin Versions /\ Writing \notin Versions /\ Writing # Missing /\ Writing # Failure
  BY <1>1, SMT DEF Versions, Failure, Missing, Writing
<1> QED
  BY <1>1, <1>2, <1>3, <1>4 DEF Minutes, Results

LEMMA HubSame == ASSUME HubOK, LateOK, UNCHANGED <<hub, log>>, late' \subseteq late PROVE HubOK' /\ LateOK'
BY DEF HubOK, LateOK, WireOK

LEMMA WireSame == ASSUME NEW q, WireOK(q), UNCHANGED <<hub, log>> PROVE WireOK(q)'
BY DEF WireOK

LEMMA CacheKeptFiles ==
  ASSUME EnrichedOK, UNCHANGED enriched,
         \A u \in Sources : \A v \in Versions : Cached(u, v) => Cached(u, v)'
  PROVE  EnrichedOK' /\ \A m \in Minutes : enriched[m] \in {None, Torn} \/ CitedOK(m, enriched[m])'
<1>1. ASSUME NEW m \in Minutes, CitedOK(m, enriched[m]) PROVE CitedOK(m, enriched[m])'
  <2> DEFINE f == enriched[m]
  <2>1. enriched'[m] = f
    OBVIOUS
  <2>2. \A u \in SourcesOf[m] : f[u] \in Versions => cache'[u].file = f[u] /\ cache'[u].sidecar = f[u]
    BY <1>1, Constants DEF CitedOK, Cached
  <2>3. IsReport(m, f) /\ f[PSL] \in Versions
    BY <1>1 DEF CitedOK
  <2> QED
    BY <2>1, <2>2, <2>3 DEF CitedOK, Cached
<1> QED
  BY <1>1 DEF EnrichedOK

LEMMA NoWorkOK == ASSUME work' = NoWork PROVE WorkOK'
<1>1. [m \in Minutes |-> None] \in [Minutes -> Files]
  BY DEF Files
<1>2. [u \in Sources |-> None] \in Evidence
  BY DEF Evidence
<1>3. [u \in Sources |-> None] \in [Sources -> Results \cup {Writing, None}]
  OBVIOUS
<1>4. First \in Minutes
  BY Constants
<1> QED
  BY <1>1, <1>2, <1>3, <1>4 DEF NoWork, WorkOK

\* Back at the top of the loop nothing is known of the batch in memory.
LEMMA IdleOK == ASSUME Abandon PROVE ProcOK'
<1>1. pc' = "idle" /\ work' = NoWork
  BY DEF Abandon
<1>2. WorkOK'
  BY <1>1, NoWorkOK
<1> QED
  BY <1>1, <1>2 DEF ProcOK, BuildOK, FetchOK, CheckOK, PublishOK, PcOK, Building

\* A step of the environment.
LEMMA ProcSame ==
  ASSUME ProcOK, UNCHANGED <<diskVars, pc, work, sent, hub, log>> PROVE ProcOK'
BY DEF ProcOK, WorkOK, BuildOK, FetchOK, CheckOK, PublishOK, PcOK, RequestOK, Cached, CitedOK, WireOK,
   Report, diskVars

LEMMA DiskSame == ASSUME DiskOK, UNCHANGED diskVars PROVE DiskOK'
BY DEF DiskOK, EnrichedOK, CacheOK, BatchOK, RequestOK, CitedOK, Cached, diskVars

LEMMA EnvSame == ASSUME EnvOK, UNCHANGED <<upstream, cutoff>> PROVE EnvOK'
BY DEF EnvOK

-----------------------------------------------------------------------------
LEMMA InitInv == Init => Inv
<1> SUFFICES ASSUME Init PROVE Inv
  OBVIOUS
<1>1. EnrichedOK
  BY DEF Init, EnrichedOK, Files
<1>2. CacheOK
  BY DEF Init, CacheOK, NoCache
<1>3. BatchOK
  BY DEF Init, BatchOK, NoBatch
<1>4. HubOK
  <2>1. First \in First .. LastCutoff + 1
    BY Constants
  <2>2. log = <<>> /\ Len(log) = 0 /\ hub.next = First /\ hub.receipt = None
    BY DEF Init
  <2> QED
    BY <2>1, <2>2 DEF HubOK
<1>5. LateOK
  BY DEF Init, LateOK
<1>6. EnvOK
  <2>1. 0 \in Versions
    BY EnrichedAssumption, SMT DEF Versions
  <2> QED
    BY <2>1, Constants DEF Init, EnvOK
<1>7. ProcOK
  <2>1. WorkOK
    <3>1. [m \in Minutes |-> None] \in [Minutes -> Files]
      BY DEF Files
    <3>2. [u \in Sources |-> None] \in Evidence
      BY DEF Evidence
    <3>3. [u \in Sources |-> None] \in [Sources -> Results \cup {Writing, None}]
      OBVIOUS
    <3> QED
      BY <3>1, <3>2, <3>3, Constants DEF NoWork, WorkOK, Init
  <2>2. pc = "idle"
    BY DEF Init
  <2> QED
    BY <2>1, <2>2 DEF ProcOK, BuildOK, FetchOK, CheckOK, PublishOK, PcOK, Building
<1> QED
  BY <1>1, <1>2, <1>3, <1>4, <1>5, <1>6, <1>7 DEF Inv, DiskOK

-----------------------------------------------------------------------------
(* The batch.                                                              *)

LEMMA TakeReadyInv == ASSUME Inv, TakeReady PROVE Inv'
<1> USE DEF Inv
<1>1. DiskOK' /\ HubOK' /\ LateOK' /\ EnvOK'
  BY DiskSame, HubSame, EnvSame DEF TakeReady, hubVars, envVars
<1>2. GoodRecord(batch.ready) /\ batch' = batch /\ pc' = "publish" /\ work' = work
  BY DEF TakeReady, DiskOK, BatchOK, diskVars
<1>3. ProcOK'
  BY <1>2 DEF ProcOK, WorkOK, BuildOK, FetchOK, CheckOK, PublishOK, PcOK, Building
<1> QED
  BY <1>1, <1>3

LEMMA StartBatchInv == ASSUME Inv, StartBatch PROVE Inv'
<1> USE DEF Inv
<1> DEFINE span == IF hub.receipt = None THEN 1 ELSE BatchMinutes
           last == IF hub.next + span - 1 <= cutoff THEN hub.next + span - 1 ELSE cutoff
<1>1. /\ hub.next <= cutoff /\ batch.ready = None /\ pc' = "collect"
      /\ batch.request # None => batch.request.start = hub.next
      /\ batch' = IF batch.request # None THEN batch
                  ELSE [batch EXCEPT !.request = [start |-> hub.next, end |-> last]]
      /\ work' = [NoWork EXCEPT !.minute = hub.next]
  BY DEF StartBatch
<1>2. hub.next \in Minutes /\ last \in Minutes /\ hub.next <= last
  <2>1. hub.next \in Int /\ cutoff \in Int /\ First <= hub.next /\ cutoff <= LastCutoff /\ span \in Nat /\ span >= 1
    BY Constants DEF HubOK, EnvOK
  <2> HIDE DEF span
  <2> QED
    BY <1>1, <2>1, Constants
<1> HIDE DEF last
<1>3. HubOK' /\ LateOK' /\ EnvOK' /\ UNCHANGED <<enriched, cache>>
  BY HubSame, EnvSame DEF StartBatch, hubVars, envVars
<1>4. /\ DOMAIN batch' = {"request", "ready", "intact"} /\ batch'.ready = None
      /\ batch'.request.start = hub.next /\ RequestOK'
  <2>1. CASE batch.request # None
    BY <1>1, <2>1 DEF DiskOK, BatchOK, RequestOK
  <2>2. CASE batch.request = None
    <3>1. /\ batch'.request = [start |-> hub.next, end |-> last] /\ batch'.ready = batch.ready
          /\ DOMAIN batch' = DOMAIN batch
      BY <1>1, <2>2 DEF DiskOK, BatchOK
    <3> QED
      BY <1>1, <1>2, <3>1 DEF RequestOK, DiskOK, BatchOK
  <2> QED
    BY <2>1, <2>2
<1>5. DiskOK'
  BY <1>3, <1>4 DEF DiskOK, BatchOK, EnrichedOK, CacheOK, CitedOK, Cached
<1>6. /\ DOMAIN work' = {"minute", "missing", "reports", "evidence", "fetched"}
      /\ work'.minute = hub.next /\ work'.missing = {} /\ work'.reports = [m \in Minutes |-> None]
      /\ work'.evidence = [u \in Sources |-> None] /\ work'.fetched = [u \in Sources |-> None]
  BY <1>1 DEF NoWork
<1>7. WorkOK'
  <2>1. [m \in Minutes |-> None] \in [Minutes -> Files]
    BY DEF Files
  <2>2. [u \in Sources |-> None] \in Evidence
    BY DEF Evidence
  <2>3. [u \in Sources |-> None] \in [Sources -> Results \cup {Writing, None}]
    OBVIOUS
  <2> QED
    BY <1>2, <1>6, <2>1, <2>2, <2>3 DEF WorkOK
<1>8. BuildOK'
  <2>1. hub.next <= batch'.request.end
    BY <1>4 DEF RequestOK
  <2>2. (hub.next .. hub.next - 1) = {}
    BY <1>2, Constants
  <2>3. \A u \in Sources : work'.evidence[u] \notin Versions
    BY <1>6, Constants
  <2>4. batch'.request.start <= work'.minute
    BY <1>2, <1>4, <1>6, Constants
  <2>5. batch'.request.start .. work'.minute - 1 = {}
    BY <1>4, <1>6, <2>2
  <2> QED
    BY <1>4, <1>6, <2>1, <2>3, <2>4, <2>5 DEF BuildOK
<1>9. ProcOK'
  BY <1>1, <1>6, <1>7, <1>8 DEF ProcOK, FetchOK, CheckOK, PublishOK, PcOK, NoWork
<1> QED
  BY <1>3, <1>5, <1>9

\* The minute joins the batch, which goes on or is sealed.
LEMMA AdvanceInv ==
  ASSUME Inv, pc \in Building, NEW missing \in SUBSET Minutes, NEW reports \in [Minutes -> Files],
         NEW evidence \in Evidence,
         \A m \in (batch.request.start .. work.minute) \ missing : Good(m, reports[m], evidence),
         \A u \in Sources : evidence[u] \in Versions => Cached(u, evidence[u]),
         Advance(missing, reports, evidence),
         UNCHANGED <<hub, log, late, enriched, cache, sent, upstream, cutoff>>
  PROVE  Inv'
<1> USE DEF Inv
<1>1. HubOK' /\ LateOK' /\ EnvOK'
  BY HubSame, EnvSame
<1>2. EnrichedOK' /\ CacheOK'
  BY DEF DiskOK, EnrichedOK, CacheOK, CitedOK, Cached
<1>3. /\ RequestOK /\ batch.request.start <= work.minute /\ work.minute <= batch.request.end
      /\ batch.ready = None /\ work.minute \in Minutes
      /\ DOMAIN batch = {"request", "ready", "intact"}
  BY DEF ProcOK, BuildOK, WorkOK, DiskOK, BatchOK
<1>4. CASE /\ work.minute < batch.request.end
           /\ work' = [minute |-> work.minute + 1, missing |-> missing, reports |-> reports,
                       evidence |-> evidence, fetched |-> NoWork.fetched]
           /\ pc' = "collect" /\ UNCHANGED batch
  <2>1. /\ work.minute + 1 \in Minutes /\ work.minute + 1 <= batch.request.end
        /\ batch.request.start <= work.minute + 1
        /\ batch.request.start .. (work.minute + 1) - 1 = batch.request.start .. work.minute
    BY <1>3, <1>4, Constants DEF RequestOK
  <2>2. NoWork.fetched \in [Sources -> Results \cup {Writing, None}]
    BY DEF NoWork
  <2>3. /\ DOMAIN work' = {"minute", "missing", "reports", "evidence", "fetched"}
        /\ work'.minute = work.minute + 1 /\ work'.missing = missing /\ work'.reports = reports
        /\ work'.evidence = evidence /\ work'.fetched = NoWork.fetched
    BY <1>4
  <2>4. WorkOK'
    BY <2>1, <2>2, <2>3 DEF WorkOK
  <2>5. RequestOK' /\ BatchOK'
    BY <1>3, <1>4 DEF RequestOK, DiskOK, BatchOK
  <2>6. BuildOK'
    <3>1. /\ batch'.ready = None /\ batch'.request.start <= work'.minute /\ work'.minute <= batch'.request.end
      BY <1>3, <1>4, <2>1, <2>3
    <3>2. \A m \in (batch'.request.start .. work'.minute - 1) \ work'.missing :
            Good(m, work'.reports[m], work'.evidence)
      BY <1>4, <2>1, <2>3
    <3>3. \A u \in Sources : work'.evidence[u] \in Versions =>
            cache'[u].file = work'.evidence[u] /\ cache'[u].sidecar = work'.evidence[u]
      BY <2>3 DEF Cached
    <3> QED
      BY <2>5, <3>1, <3>2, <3>3 DEF BuildOK, Cached
  <2>7. ProcOK'
    BY <1>4, <2>3, <2>4, <2>6 DEF ProcOK, FetchOK, CheckOK, PublishOK, PcOK
  <2> QED
    BY <1>1, <1>2, <2>5, <2>7 DEF DiskOK
<1>5. CASE /\ batch' = [batch EXCEPT !.intact = TRUE, !.ready =
                [start |-> batch.request.start, end |-> work.minute, missing |-> missing,
                 reports |-> reports, evidence |-> evidence]]
           /\ work' = NoWork /\ pc' = "publish"
  <2> DEFINE r == [start |-> batch.request.start, end |-> work.minute, missing |-> missing,
                   reports |-> reports, evidence |-> evidence]
  <2>1. GoodRecord(r)
    BY <1>3 DEF GoodRecord, Records, Complete, RequestOK
  <2> HIDE DEF r
  <2>2. /\ batch'.ready = r /\ batch'.request = batch.request
        /\ DOMAIN batch' = {"request", "ready", "intact"}
    BY <1>3, <1>5 DEF r
  <2>3. BatchOK'
    BY <1>3, <2>1, <2>2 DEF BatchOK, RequestOK
  <2>4. WorkOK'
    BY <1>5, NoWorkOK
  <2>5. ProcOK'
    BY <1>5, <2>1, <2>2, <2>4 DEF ProcOK, BuildOK, FetchOK, CheckOK, PublishOK, PcOK, Building
  <2> QED
    BY <1>1, <1>2, <2>3, <2>5 DEF DiskOK
<1> QED
  BY <1>4, <1>5 DEF Advance

LEMMA CollectInv == ASSUME Inv, CollectMissing \/ CollectComplete PROVE Inv'
<1>1. CASE CollectMissing
  <2> DEFINE missing == work.missing \cup {work.minute}
  <2>1. /\ pc \in Building /\ work.minute \in Minutes /\ missing \in SUBSET Minutes
        /\ work.reports \in [Minutes -> Files] /\ work.evidence \in Evidence
        /\ Advance(missing, work.reports, work.evidence)
        /\ UNCHANGED <<hub, log, late, enriched, cache, sent, upstream, cutoff>>
    BY <1>1 DEF CollectMissing, Inv, ProcOK, WorkOK, Building, hubVars, envVars
  <2>2. /\ \A m \in (batch.request.start .. work.minute - 1) \ work.missing :
             Good(m, work.reports[m], work.evidence)
        /\ \A u \in Sources : work.evidence[u] \in Versions => Cached(u, work.evidence[u])
        /\ batch.request.start \in Minutes
    BY <2>1 DEF Inv, ProcOK, BuildOK, RequestOK
  <2>3. (batch.request.start .. work.minute) \ missing \subseteq
          (batch.request.start .. work.minute - 1) \ work.missing
    BY <2>1, <2>2, Constants
  <2>4. \A m \in (batch.request.start .. work.minute) \ missing : Good(m, work.reports[m], work.evidence)
    BY <2>2, <2>3
  <2> HIDE DEF missing
  <2> QED
    BY <2>1, <2>2, <2>4, AdvanceInv
<1>2. CASE CollectComplete
  <2> USE DEF Inv
  <2>1. DiskOK' /\ HubOK' /\ LateOK' /\ EnvOK'
    BY <1>2, DiskSame, HubSame, EnvSame DEF CollectComplete, hubVars
  <2>2. /\ pc = "collect" /\ UNCHANGED <<batch, cache, enriched, work>>
        /\ pc' = IF enriched[work.minute] = None THEN "fetch" ELSE "check"
    BY <1>2 DEF CollectComplete, diskVars
  <2>3. WorkOK' /\ BuildOK'
    BY <2>2 DEF ProcOK, WorkOK, BuildOK, Building, RequestOK, Cached
  <2>4. FetchOK'
    <3>1. \A u \in Sources : work.fetched[u] = None
      BY <2>2 DEF ProcOK, FetchOK, NoWork
    <3>2. None \notin Versions /\ None # Writing
      BY EnrichedAssumption
    <3>3. work' = work /\ pc' # "collect"
      BY <2>2
    <3> QED
      BY <3>1, <3>2, <3>3 DEF FetchOK
  <2>5. CheckOK'
    BY <2>2 DEF CheckOK, Report, DiskOK, EnrichedOK, ProcOK, WorkOK, CitedOK, Cached
  <2>6. ProcOK'
    BY <2>2, <2>3, <2>4, <2>5 DEF ProcOK, PublishOK, PcOK
  <2> QED
    BY <2>1, <2>6
<1> QED
  BY <1>1, <1>2

-----------------------------------------------------------------------------
(* Enrichment.                                                             *)

\* A fetch that leaves what the cache holds with its sidecar as it is.
LEMMA FetchKeeps ==
  ASSUME Inv, pc = "fetch", NEW u \in Sources, NEW result \in Results \cup {Writing},
         Fetched(u, result), CacheOK',
         \A w \in Sources : \A v \in Versions : Cached(w, v) => Cached(w, v)',
         \A w \in Sources \ {u} : cache'[w] = cache[w],
         result \in Versions => cache'[u].file = result /\ cache'[u].sidecar = result,
         result = Writing => cache'[u].file \in Versions,
         UNCHANGED <<hub, log, late, batch, enriched, pc, sent, upstream, cutoff>>
  PROVE  Inv'
<1> USE DEF Inv
<1>1. HubOK' /\ LateOK' /\ EnvOK'
  BY HubSame, EnvSame
<1>2. EnrichedOK'
  BY CacheKeptFiles DEF DiskOK
<1>3. BatchOK'
  BY DEF DiskOK, BatchOK, RequestOK
<1>4. /\ DOMAIN work' = DOMAIN work /\ work'.minute = work.minute /\ work'.missing = work.missing
      /\ work'.reports = work.reports /\ work'.evidence = work.evidence
      /\ work'.fetched = [work.fetched EXCEPT ![u] = result]
  BY DEF Fetched, ProcOK, WorkOK
<1>5. WorkOK'
  <2>1. work'.fetched \in [Sources -> Results \cup {Writing, None}]
    BY <1>4 DEF ProcOK, WorkOK
  <2> QED
    BY <1>4, <2>1 DEF ProcOK, WorkOK
<1>6. BuildOK'
  <2>1. \A w \in Sources : work'.evidence[w] \in Versions => Cached(w, work.evidence[w])'
    BY <1>4 DEF ProcOK, BuildOK, Building, WorkOK, Cached
  <2>2. \A w \in Sources : work'.evidence[w] \in Versions =>
          cache'[w].file = work'.evidence[w] /\ cache'[w].sidecar = work'.evidence[w]
    BY <1>4, <2>1 DEF Cached
  <2> QED
    BY <1>4, <2>2 DEF ProcOK, BuildOK, RequestOK, Building, Cached
<1>7. FetchOK'
  <2>1. ASSUME NEW w \in Sources
        PROVE  /\ work'.fetched[w] \in Versions =>
                    cache'[w].file = work'.fetched[w] /\ cache'[w].sidecar = work'.fetched[w]
               /\ work'.fetched[w] = Writing => cache'[w].file \in Versions
    <3>1. CASE w = u
      <4>1. work'.fetched[w] = result
        BY <1>4, <3>1 DEF ProcOK, WorkOK
      <4> QED
        BY <3>1, <4>1
    <3>2. CASE w # u
      <4>1. work'.fetched[w] = work.fetched[w] /\ cache'[w] = cache[w]
        BY <1>4, <3>2 DEF ProcOK, WorkOK
      <4> QED
        BY <4>1 DEF ProcOK, FetchOK, Cached
    <3> QED
      BY <3>1, <3>2
  <2>2. pc' = "fetch"
    OBVIOUS
  <2> QED
    BY <2>1, <2>2 DEF FetchOK, Cached
<1>8. ProcOK'
  BY <1>5, <1>6, <1>7 DEF ProcOK, CheckOK, PublishOK, PcOK
<1> QED
  BY <1>1, <1>2, <1>3, <1>8 DEF DiskOK

LEMMA FetchInv == ASSUME Inv, NEW u \in Sources, Fetch(u) PROVE Inv'
<1>1. /\ CacheOK /\ cache[u].file \in Versions \cup {None} /\ cache[u].sidecar \in Versions \cup {None}
      /\ upstream[u] \in Versions /\ None \notin Versions /\ Writing \notin Versions
      /\ DOMAIN cache = Sources
  BY Constants DEF Inv, DiskOK, CacheOK, EnvOK
<1>2. CASE FetchCached(u)
  <2>1. /\ pc = "fetch" /\ cache[u].file \in Versions /\ cache[u].sidecar = cache[u].file
        /\ Fetched(u, cache[u].file)
        /\ UNCHANGED <<hub, log, late, batch, enriched, cache, pc, sent, upstream, cutoff>>
    BY <1>1, <1>2 DEF FetchCached, Pending, Known, hubVars, diskVars, envVars
  <2>2. cache[u].file \in Results \cup {Writing} /\ cache[u].file # Writing
    BY <1>1, <2>1 DEF Results
  <2>3. CacheOK' /\ \A w \in Sources : \A v \in Versions : Cached(w, v) => Cached(w, v)'
    BY <1>1, <2>1 DEF CacheOK, Cached
  <2> DEFINE result == cache[u].file
  <2>4. result \in Versions => cache'[u].file = result /\ cache'[u].sidecar = result
    BY <2>1
  <2> HIDE DEF result
  <2> QED
    BY <2>1, <2>2, <2>3, <2>4, FetchKeeps DEF result
<1>3. CASE FetchBody(u)
  <2>1. /\ pc = "fetch" /\ ~Known(u) /\ cache' = [cache EXCEPT ![u].file = upstream[u]]
        /\ Fetched(u, Writing)
        /\ UNCHANGED <<hub, log, late, batch, enriched, pc, sent, upstream, cutoff>>
    BY <1>3 DEF FetchBody, Pending, hubVars, envVars
  <2>2. CacheOK' /\ cache'[u].file = upstream[u] /\ \A w \in Sources \ {u} : cache'[w] = cache[w]
    BY <1>1, <2>1 DEF CacheOK
  <2>3. \A v \in Versions : ~Cached(u, v)
    BY <1>1, <2>1 DEF Known, Cached
  <2>4. \A w \in Sources : \A v \in Versions : Cached(w, v) => Cached(w, v)'
    BY <2>2, <2>3 DEF Cached
  <2> QED
    BY <1>1, <2>1, <2>2, <2>4, FetchKeeps
<1>4. CASE FetchSidecar(u)
  <2>1. /\ pc = "fetch" /\ cache' = [cache EXCEPT ![u].sidecar = cache[u].file]
        /\ Fetched(u, cache[u].file) /\ cache[u].file \in Versions
        /\ UNCHANGED <<hub, log, late, batch, enriched, pc, sent, upstream, cutoff>>
    BY <1>4 DEF FetchSidecar, hubVars, envVars, Inv, ProcOK, FetchOK
  <2>2. /\ CacheOK' /\ cache'[u].file = cache[u].file /\ cache'[u].sidecar = cache[u].file
        /\ \A w \in Sources \ {u} : cache'[w] = cache[w]
    BY <1>1, <2>1 DEF CacheOK
  <2>3. \A w \in Sources : \A v \in Versions : Cached(w, v) => Cached(w, v)'
    BY <2>2 DEF Cached
  <2>4. cache[u].file \in Results \cup {Writing} /\ cache[u].file # Writing
    BY <1>1, <2>1 DEF Results
  <2> DEFINE result == cache[u].file
  <2>5. result \in Versions => cache'[u].file = result /\ cache'[u].sidecar = result
    BY <2>2
  <2> HIDE DEF result
  <2> QED
    BY <2>1, <2>2, <2>3, <2>4, <2>5, FetchKeeps DEF result
<1>5. CASE FetchNothing(u)
  <2>1. PICK result \in {Missing, Failure} : Fetched(u, result)
    BY <1>5 DEF FetchNothing
  <2>2. /\ pc = "fetch"
        /\ UNCHANGED <<hub, log, late, batch, enriched, cache, pc, sent, upstream, cutoff>>
    BY <1>5 DEF FetchNothing, Pending, hubVars, diskVars, envVars
  <2>3. result \in Results \cup {Writing} /\ result \notin Versions /\ result # Writing
    BY Constants DEF Results
  <2>4. CacheOK' /\ \A w \in Sources : \A v \in Versions : Cached(w, v) => Cached(w, v)'
    BY <1>1, <2>2 DEF CacheOK, Cached
  <2> QED
    BY <2>1, <2>2, <2>3, <2>4, FetchKeeps
<1> QED
  BY <1>2, <1>3, <1>4, <1>5 DEF Fetch

LEMMA EnrichInv == ASSUME Inv, Enrich PROVE Inv'
<1> USE DEF Inv
<1> DEFINE f == [u \in SourcesOf[work.minute] |-> work.fetched[u]]
<1>1. /\ pc = "fetch" /\ AllFetched /\ work.fetched[PSL] \in Versions /\ pc' = "check"
      /\ enriched' = [enriched EXCEPT ![work.minute] = f]
      /\ UNCHANGED <<hub, log, late, batch, cache, work, sent, upstream, cutoff>>
  BY DEF Enrich, hubVars, envVars
<1>2. /\ work.minute \in Minutes /\ PSL \in SourcesOf[work.minute]
      /\ SourcesOf[work.minute] \subseteq Sources
  BY Constants DEF ProcOK, WorkOK
<1>3. /\ \A u \in SourcesOf[work.minute] : f[u] \in Results
      /\ \A u \in SourcesOf[work.minute] : f[u] \in Versions => Cached(u, f[u])
  BY <1>1, <1>2 DEF AllFetched, ProcOK, WorkOK, FetchOK
<1>4. f \in Files /\ CitedOK(work.minute, f)
  <2>1. f \in [SourcesOf[work.minute] -> Results]
    BY <1>3
  <2>2. f[PSL] \in Versions
    BY <1>1, <1>2
  <2>3. f \in Reports
    BY <1>2, <2>1 DEF Reports, Results
  <2> HIDE DEF f
  <2> QED
    BY <1>3, <2>1, <2>2, <2>3 DEF CitedOK, IsReport, Files
<1> HIDE DEF f
<1>5. /\ enriched \in [Minutes -> Files] /\ enriched' \in [Minutes -> Files]
      /\ enriched'[work.minute] = f /\ \A m \in Minutes \ {work.minute} : enriched'[m] = enriched[m]
  BY <1>1, <1>2, <1>4 DEF DiskOK, EnrichedOK
<1>6. EnrichedOK'
  <2>1. ASSUME NEW m \in Minutes PROVE enriched'[m] \in {None, Torn} \/ CitedOK(m, enriched'[m])
    BY <1>4, <1>5 DEF DiskOK, EnrichedOK
  <2> QED
    BY <1>1, <1>5, <2>1 DEF EnrichedOK, CitedOK, Cached
<1>7. HubOK' /\ LateOK' /\ EnvOK'
  BY <1>1, HubSame, EnvSame
<1>8. BatchOK' /\ CacheOK' /\ WorkOK'
  BY <1>1 DEF DiskOK, BatchOK, RequestOK, CacheOK, ProcOK, WorkOK
<1>9. BuildOK'
  BY <1>1 DEF ProcOK, BuildOK, Building, RequestOK, Cached
<1>10. CheckOK'
  BY <1>1, <1>4, <1>5 DEF CheckOK, Report, CitedOK, Cached
<1>11. ProcOK'
  BY <1>1, <1>8, <1>9, <1>10 DEF ProcOK, FetchOK, PublishOK, PcOK
<1> QED
  BY <1>6, <1>7, <1>8, <1>11 DEF DiskOK

\* A source cited before is enclosed already, in the version the cache still has.
LEMMA CheckInv == ASSUME Inv, Check PROVE Inv'
<1> USE DEF Inv
<1> DEFINE f == Report
           reports == [work.reports EXCEPT ![work.minute] = f]
           evidence == [u \in Sources |-> IF work.evidence[u] = None /\ u \in Cited(f)
                                            THEN cache[u].file ELSE work.evidence[u]]
<1>1. /\ pc = "check" /\ f # Torn /\ ~Failed(f) /\ Advance(work.missing, reports, evidence)
      /\ UNCHANGED <<hub, log, late, enriched, cache, sent, upstream, cutoff>>
  BY DEF Check, hubVars, envVars
<1>2. /\ work.minute \in Minutes /\ work.missing \in SUBSET Minutes
      /\ work.reports \in [Minutes -> Files] /\ work.evidence \in Evidence
      /\ batch.request.start \in Int /\ None \notin Versions
      /\ SourcesOf[work.minute] \subseteq Sources
  BY <1>1, Constants DEF ProcOK, WorkOK, BuildOK, Building, RequestOK
<1>3. CitedOK(work.minute, f) /\ f \in Files
  BY <1>1, <1>2 DEF ProcOK, CheckOK, DiskOK, EnrichedOK, Report
<1> HIDE DEF f
<1>4. /\ DOMAIN f = SourcesOf[work.minute] /\ f[PSL] \in Versions /\ IsReport(work.minute, f)
      /\ \A u \in SourcesOf[work.minute] : f[u] # Failure
      /\ \A u \in SourcesOf[work.minute] : f[u] \in Versions => u \in Cited(f) /\ Cached(u, f[u])
  BY <1>1, <1>3 DEF CitedOK, IsReport, Failed, Cited
<1>5. \A u \in Sources : work.evidence[u] \in Versions => Cached(u, work.evidence[u])
  BY <1>1 DEF ProcOK, BuildOK, Building
<1>6. \A u \in Sources :
        /\ work.evidence[u] # None => evidence[u] = work.evidence[u]
        /\ work.evidence[u] = None /\ u \in Cited(f) => evidence[u] = cache[u].file
        /\ u \notin Cited(f) => evidence[u] = work.evidence[u]
        /\ work.evidence[u] \in Versions \cup {None}
  BY <1>2 DEF Evidence
<1>7. \A u \in Cited(f) : u \in Sources /\ f[u] \in Versions /\ Cached(u, f[u])
  BY <1>2, <1>4 DEF Cited
<1>8. evidence \in Evidence
  <2>1. \A u \in Sources : evidence[u] \in Versions \cup {None}
    BY <1>6, <1>7 DEF Cached
  <2> QED
    BY <2>1 DEF Evidence
<1>9. reports \in [Minutes -> Files] /\ reports[work.minute] = f
      /\ \A m \in Minutes \ {work.minute} : reports[m] = work.reports[m]
  BY <1>2, <1>3
<1> HIDE DEF reports, evidence
<1>10. \A u \in Sources : evidence[u] \in Versions => Cached(u, evidence[u])
  BY <1>5, <1>6, <1>7 DEF Cached
<1>11. Good(work.minute, f, evidence)
  <2>1. ASSUME NEW u \in SourcesOf[work.minute], f[u] \in Versions PROVE evidence[u] = f[u]
    <3>1. u \in Sources /\ u \in Cited(f) /\ cache[u].file = f[u]
      BY <1>2, <1>4, <2>1 DEF Cached
    <3>2. CASE work.evidence[u] = None
      BY <1>6, <3>1, <3>2
    <3>3. CASE work.evidence[u] # None
      <4>1. work.evidence[u] \in Versions /\ evidence[u] = work.evidence[u]
        BY <1>6, <3>1, <3>3
      <4> QED
        BY <1>5, <3>1, <4>1 DEF Cached
    <3> QED
      BY <3>2, <3>3
  <2> QED
    BY <1>4, <2>1 DEF Good
<1>12. ASSUME NEW m \in (batch.request.start .. work.minute) \ work.missing
       PROVE  Good(m, reports[m], evidence)
  <2>1. CASE m = work.minute
    BY <1>9, <1>11, <2>1
  <2>2. CASE m # work.minute
    <3>1. m \in (batch.request.start .. work.minute - 1) \ work.missing
      BY <1>2, <2>2, Constants
    <3>2. Good(m, work.reports[m], work.evidence)
      BY <1>1, <3>1 DEF ProcOK, BuildOK, Building
    <3>3. m \in Minutes
      BY <1>1, <1>2, <3>1, Constants DEF ProcOK, BuildOK, Building, RequestOK
    <3>4. reports[m] = work.reports[m] /\ SourcesOf[m] \subseteq Sources
      BY <1>9, <2>2, <3>3, Constants
    <3>5. \A u \in SourcesOf[m] : work.reports[m][u] \in Versions => evidence[u] = work.reports[m][u]
      BY <1>2, <1>6, <3>2, <3>4 DEF Good
    <3> QED
      BY <3>2, <3>4, <3>5 DEF Good
  <2> QED
    BY <2>1, <2>2
<1>13. pc \in Building
  BY <1>1 DEF Building
<1> QED
  BY <1>1, <1>2, <1>8, <1>9, <1>10, <1>12, <1>13, AdvanceInv

LEMMA PurgeInv == ASSUME Inv, Purge \/ PurgeDirectory PROVE Inv'
<1> USE DEF Inv
<1>1. PICK v \in {Torn, None} :
        /\ enriched' = [enriched EXCEPT ![work.minute] = v]
        /\ UNCHANGED <<hub, log, late, batch, cache, upstream, cutoff>>
  BY Zenon DEF Purge, PurgeDirectory, hubVars, envVars
<1>2. EnrichedOK'
  <2>1. enriched' \in [Minutes -> Files]
    BY <1>1 DEF DiskOK, EnrichedOK, Files
  <2>2. \A m \in Minutes : enriched'[m] \in {None, Torn} \/ (enriched'[m] = enriched[m] /\ CitedOK(m, enriched[m]))
    BY <1>1 DEF DiskOK, EnrichedOK
  <2> QED
    BY <1>1, <2>1, <2>2 DEF EnrichedOK, CitedOK, Cached
<1>3. BatchOK' /\ CacheOK'
  BY <1>1 DEF DiskOK, BatchOK, RequestOK, CacheOK
<1>4. HubOK' /\ LateOK' /\ EnvOK'
  BY <1>1, HubSame, EnvSame
<1>5. ProcOK'
  <2>1. CASE Purge
    <3>1. pc' = "purge" /\ work' = work
      BY <2>1 DEF Purge
    <3> QED
      BY <3>1 DEF ProcOK, WorkOK, BuildOK, FetchOK, CheckOK, PublishOK, PcOK, Building
  <2>2. CASE PurgeDirectory
    BY <2>2, IdleOK DEF PurgeDirectory
  <2> QED
    BY <2>1, <2>2
<1> QED
  BY <1>2, <1>3, <1>4, <1>5 DEF DiskOK

-----------------------------------------------------------------------------
(* Publication.                                                            *)

LEMMA SendInv == ASSUME Inv, Send PROVE Inv'
<1> USE DEF Inv
<1>1. DiskOK' /\ HubOK' /\ LateOK' /\ EnvOK'
  BY DiskSame, HubSame, EnvSame DEF Send, hubVars, envVars
<1>2. /\ GoodRecord(batch.ready) /\ hub.next = batch.ready.start
      /\ sent' = [parent |-> Len(log), rec |-> batch.ready] /\ pc' = "commit"
      /\ UNCHANGED <<batch, work, hub, log>>
  BY DEF Send, Fits, ProcOK, PublishOK, hubVars, diskVars
<1>3. Len(log) \in Nat
  BY DEF HubOK
<1>4. sent'.parent = Len(log) /\ sent'.rec = batch.ready
  BY <1>2
<1>5. WireOK(sent)'
  BY <1>2, <1>3, <1>4 DEF WireOK
<1> QED
  BY <1>1, <1>2, <1>4, <1>5 DEF ProcOK, WorkOK, BuildOK, FetchOK, CheckOK, PublishOK, PcOK, Building

LEMMA FindAcknowledgedInv == ASSUME Inv, FindAcknowledged PROVE Inv'
<1> USE DEF Inv
<1>1. DiskOK' /\ HubOK' /\ LateOK' /\ EnvOK'
  BY DiskSame, HubSame, EnvSame DEF FindAcknowledged, hubVars, envVars
<1>2. /\ hub.receipt = batch.ready /\ pc' = "clean" /\ UNCHANGED <<batch, work, log>>
  BY DEF FindAcknowledged, Acknowledged, hubVars, diskVars
<1>3. Len(log) \in Nat
  BY DEF HubOK
<1>4. batch.ready # None => Len(log) \in 1 .. Len(log) /\ log[Len(log)] = batch.ready
  BY <1>2, <1>3 DEF HubOK
<1>5. PublishOK'
  BY <1>2, <1>4 DEF PublishOK
<1> QED
  BY <1>1, <1>2, <1>5 DEF ProcOK, WorkOK, BuildOK, FetchOK, CheckOK, PcOK, Building

LEMMA ConfirmInv == ASSUME Inv, Confirm PROVE Inv'
<1> USE DEF Inv
<1>1. DiskOK' /\ HubOK' /\ LateOK' /\ EnvOK'
  BY DiskSame, HubSame, EnvSame DEF Confirm, hubVars, envVars
<1>2. pc = "landed" /\ pc' = "clean" /\ UNCHANGED <<batch, work, log>>
  BY DEF Confirm, hubVars, diskVars
<1> QED
  BY <1>1, <1>2 DEF ProcOK, WorkOK, BuildOK, FetchOK, CheckOK, PublishOK, PcOK, Building

LEMMA CleanInv == ASSUME Inv, CleanBatch \/ CleanCache PROVE Inv'
<1> USE DEF Inv
<1>1. HubOK' /\ LateOK' /\ EnvOK' /\ work' = work /\ WorkOK'
  BY HubSame, EnvSame DEF CleanBatch, CleanCache, hubVars, envVars, ProcOK, WorkOK
<1>2. CASE CleanBatch
  <2>1. /\ batch' = NoBatch /\ enriched' = [m \in Minutes |-> None] /\ cache' = cache
        /\ pc' = "cleancache"
    BY <1>2 DEF CleanBatch
  <2>2. EnrichedOK' /\ BatchOK' /\ CacheOK'
    BY <2>1 DEF EnrichedOK, BatchOK, NoBatch, Files, DiskOK, CacheOK
  <2>3. ProcOK'
    BY <1>1, <2>1 DEF ProcOK, BuildOK, FetchOK, CheckOK, PublishOK, PcOK, Building
  <2> QED
    BY <1>1, <2>2, <2>3 DEF DiskOK
<1>3. CASE CleanCache
  <2>1. /\ cache' = [u \in Sources |-> NoCache] /\ UNCHANGED <<batch, enriched>> /\ pc' = "idle"
        /\ \A m \in Minutes : enriched[m] = None
    BY <1>3 DEF CleanCache, ProcOK, PublishOK
  <2>2. EnrichedOK' /\ BatchOK'
    BY <2>1 DEF EnrichedOK, BatchOK, RequestOK, DiskOK
  <2>3. CacheOK'
    BY <2>1 DEF CacheOK, NoCache
  <2>4. ProcOK'
    BY <1>1, <2>1 DEF ProcOK, BuildOK, FetchOK, CheckOK, PublishOK, PcOK, Building
  <2> QED
    BY <1>1, <2>2, <2>3, <2>4 DEF DiskOK
<1> QED
  BY <1>2, <1>3

LEMMA RaiseInv == ASSUME Inv, Raise PROVE Inv'
<1>1. DiskOK' /\ HubOK' /\ LateOK' /\ EnvOK' /\ ProcOK'
  BY DiskSame, HubSame, EnvSame, IdleOK DEF Raise, Inv, hubVars, envVars
<1> QED
  BY <1>1 DEF Inv

-----------------------------------------------------------------------------
(* Failures, the Hub and the sources.                                      *)

LEMMA Lingers == ASSUME Inv, MayLinger, UNCHANGED <<hub, log>> PROVE LateOK'
<1>1. \A q \in late' : WireOK(q)
  BY DEF MayLinger, Inv, LateOK, ProcOK, PublishOK
<1> QED
  BY <1>1 DEF LateOK, WireOK

LEMMA FailInv == ASSUME Inv, Fail PROVE Inv'
<1>1. DiskOK' /\ LateOK' /\ EnvOK' /\ ProcOK'
  BY DiskSame, Lingers, EnvSame, IdleOK DEF Fail, Inv, envVars
<1>2. HubOK'
  BY DEF Fail, Inv, HubOK
<1> QED
  BY <1>1, <1>2 DEF Inv

LEMMA CrashInv == ASSUME Inv, Crash PROVE Inv'
<1> USE DEF Inv
<1>1. LateOK' /\ EnvOK' /\ ProcOK' /\ UNCHANGED <<hub, log, enriched>>
  BY Lingers, EnvSame, IdleOK DEF Crash, envVars
<1>2. HubOK'
  BY <1>1 DEF HubOK
<1>3. BatchOK'
  <2>1. CASE pc # "clean"
    BY <2>1 DEF Crash, DiskOK, BatchOK, RequestOK
  <2>2. CASE pc = "clean"
    <3>1. batch' \in [request : {batch.request, None}, ready : {batch.ready, None}, intact : {FALSE}]
      BY <2>2 DEF Crash
    <3>2. DOMAIN batch' = {"request", "ready", "intact"}
      BY <3>1
    <3>3. batch'.ready \in {batch.ready, None} /\ batch'.request \in {batch.request, None}
      BY <3>1
    <3> QED
      BY <3>2, <3>3 DEF DiskOK, BatchOK, RequestOK
  <2> QED
    BY <2>1, <2>2
<1>4. CacheOK' /\ EnrichedOK'
  <2>1. CASE pc # "cleancache"
    BY <1>1, <2>1 DEF Crash, DiskOK, CacheOK, EnrichedOK, CitedOK, Cached
  <2>2. CASE pc = "cleancache"
    <3>1. cache' \in [Sources -> [file : Versions \cup {None}, sidecar : Versions \cup {None}]]
      BY <2>2 DEF Crash
    <3>2. \A m \in Minutes : enriched[m] = None
      BY <2>2 DEF ProcOK, PublishOK
    <3> QED
      BY <1>1, <3>1, <3>2 DEF CacheOK, EnrichedOK, DiskOK
  <2> QED
    BY <2>1, <2>2
<1> QED
  BY <1>1, <1>2, <1>3, <1>4 DEF DiskOK

\* A commit that is accepted adds a batch after every batch of the history, and
\* makes every other request stale.
LEMMA CommitFacts ==
  ASSUME HubOK, NEW q, WireOK(q), Accepts(q), Commit(q)
  PROVE  /\ HubOK' /\ hub.next = q.rec.start /\ hub'.next = q.rec.end + 1 /\ q.rec \in Records
         /\ q.rec.start <= q.rec.end
         /\ Len(log') = Len(log) + 1 /\ log'[Len(log) + 1] = q.rec
         /\ \A i \in 1 .. Len(log) : log'[i] = log[i]
         /\ \A p : WireOK(p) => p.parent < Len(log')
<1> DEFINE r == q.rec
           n == Len(log)
<1>1. /\ n \in Nat /\ log \in Seq(Records) /\ GoodRecord(r) /\ hub.next = r.start
      /\ log' = Append(log, r) /\ hub' = [next |-> r.end + 1, receipt |-> r]
      /\ First \in Int /\ LastCutoff \in Int
  BY Constants DEF HubOK, WireOK, Accepts, Commit
<1>2. r \in Records /\ r.start \in Int /\ r.end \in Minutes /\ r.end \in Int /\ r.start <= r.end
  BY <1>1 DEF GoodRecord, Records, Minutes
<1> HIDE DEF r
<1>3. /\ log' \in Seq(Records) /\ Len(log') = n + 1 /\ log'[n + 1] = r
      /\ \A i \in 1 .. n : log'[i] = log[i]
  BY <1>1, <1>2, AppendProperties
<1>4. hub'.next = r.end + 1 /\ hub'.receipt = r
  BY <1>1
<1>5. r.end + 1 \in First .. LastCutoff + 1
  BY <1>1, <1>2 DEF Minutes
<1>6. ASSUME NEW i \in 1 .. Len(log') PROVE GoodRecord(log'[i]) /\ log'[i].end < hub'.next
  <2>1. CASE i = n + 1
    BY <1>1, <1>2, <1>3, <1>4, <2>1
  <2>2. CASE i # n + 1
    <3>1. i \in 1 .. n /\ log'[i] = log[i]
      BY <1>1, <1>3, <2>2
    <3>2. GoodRecord(log[i]) /\ log[i].end < hub.next
      BY <3>1 DEF HubOK
    <3>3. log[i].end \in Int
      BY <3>2 DEF GoodRecord, Records, Minutes
    <3> QED
      BY <1>1, <1>2, <1>4, <3>1, <3>2, <3>3
  <2> QED
    BY <2>1, <2>2
<1>7. Len(log') >= 1 /\ log'[Len(log')] = r
  BY <1>1, <1>3
<1>8. HubOK'
  BY <1>3, <1>4, <1>5, <1>6, <1>7 DEF HubOK
<1>9. \A p : WireOK(p) => p.parent < Len(log')
  BY <1>1, <1>3 DEF WireOK
<1> QED
  BY <1>1, <1>2, <1>3, <1>4, <1>8, <1>9 DEF r

LEMMA WireStale ==
  ASSUME NEW q, WireOK(q), q.parent < Len(log'), Len(log') \in Nat PROVE WireOK(q)'
BY DEF WireOK

LEMMA LandInv == ASSUME Inv, Land PROVE Inv'
<1> USE DEF Inv
<1>1. /\ pc = "commit" /\ Accepts(sent) /\ Commit(sent) /\ WireOK(sent) /\ sent.rec = batch.ready
      /\ pc' = "landed" /\ UNCHANGED <<late, batch, enriched, cache, work, sent>>
  BY DEF Land, diskVars, ProcOK, PublishOK
<1>2. /\ HubOK' /\ Len(log') = Len(log) + 1 /\ log'[Len(log) + 1] = batch.ready
      /\ \A p : WireOK(p) => p.parent < Len(log')
  BY <1>1, CommitFacts
<1>3. Len(log) \in Nat
  BY DEF HubOK
<1>4. LateOK'
  <2>1. ASSUME NEW q \in late PROVE WireOK(q)'
    BY <1>2, <1>3, WireStale DEF LateOK
  <2> QED
    BY <1>1, <2>1 DEF LateOK
<1>5. DiskOK' /\ EnvOK'
  BY DiskSame, EnvSame DEF Land, envVars
<1>6. PublishOK'
  <2>1. Len(log) + 1 \in 1 .. Len(log')
    BY <1>2, <1>3
  <2> QED
    BY <1>1, <1>2, <2>1 DEF PublishOK
<1> QED
  BY <1>1, <1>2, <1>4, <1>5, <1>6 DEF ProcOK, WorkOK, BuildOK, FetchOK, CheckOK, PcOK, Building

LEMMA LandLateInv == ASSUME Inv, LandLate PROVE Inv'
<1> USE DEF Inv
<1>1. PICK q \in late : Accepts(q) /\ Commit(q) /\ late' = late \ {q}
  BY DEF LandLate
<1>2. WireOK(q) /\ UNCHANGED <<batch, enriched, cache, pc, work, sent>>
  BY DEF LandLate, diskVars, LateOK
<1>3. /\ HubOK' /\ Len(log') = Len(log) + 1 /\ \A i \in 1 .. Len(log) : log'[i] = log[i]
      /\ \A p : WireOK(p) => p.parent < Len(log')
  BY <1>1, <1>2, CommitFacts
<1>4. Len(log) \in Nat
  BY DEF HubOK
<1>5. LateOK'
  <2>1. ASSUME NEW p \in late PROVE WireOK(p)'
    BY <1>3, <1>4, WireStale DEF LateOK
  <2>2. late' \subseteq late
    BY <1>1
  <2> QED
    BY <2>1, <2>2 DEF LateOK
<1>6. DiskOK' /\ EnvOK'
  BY DiskSame, EnvSame DEF LandLate, envVars
<1>7. PublishOK'
  <2>1. ASSUME pc \in {"landed", "clean"}, batch.ready # None
        PROVE  \E i \in 1 .. Len(log') : log'[i] = batch.ready
    <3>1. PICK i \in 1 .. Len(log) : log[i] = batch.ready
      BY <2>1 DEF ProcOK, PublishOK
    <3>2. i \in 1 .. Len(log') /\ log'[i] = batch.ready
      BY <1>3, <1>4, <3>1
    <3> QED
      BY <3>2
  <2>2. ASSUME pc = "commit" PROVE WireOK(sent)'
    <3>1. WireOK(sent)
      BY <2>2 DEF ProcOK, PublishOK
    <3>2. sent.parent < Len(log') /\ Len(log') \in Nat
      BY <1>3, <1>4, <3>1
    <3> QED
      BY <1>2, <3>1, <3>2 DEF WireOK
  <2> QED
    BY <1>2, <2>1, <2>2 DEF ProcOK, PublishOK
<1>8. ProcOK'
  BY <1>2, <1>7 DEF ProcOK, WorkOK, BuildOK, FetchOK, CheckOK, PcOK, RequestOK, Cached, CitedOK, Report
<1> QED
  BY <1>3, <1>5, <1>6, <1>8

LEMMA WorldInv == ASSUME Inv, Tick \/ \E u \in Sources : Replace(u) PROVE Inv'
<1> USE DEF Inv
<1>1. UNCHANGED <<hubVars, diskVars, pc, work, sent>>
  BY DEF Tick, Replace
<1>2. DiskOK' /\ HubOK' /\ LateOK' /\ ProcOK'
  BY <1>1, DiskSame, HubSame, ProcSame DEF hubVars
<1>3. EnvOK'
  <2>1. CASE Tick
    BY <2>1, Constants DEF Tick, EnvOK
  <2>2. ASSUME NEW u \in Sources, Replace(u) PROVE EnvOK'
    <3>1. /\ upstream[u] < MaxVersion /\ upstream' = [upstream EXCEPT ![u] = @ + 1]
          /\ cutoff' = cutoff /\ MaxVersion \in Nat
      BY <2>2, EnrichedAssumption DEF Replace
    <3>2. upstream[u] + 1 \in Versions
      BY <3>1 DEF EnvOK, Versions
    <3> QED
      BY <3>1, <3>2 DEF EnvOK
  <2> QED
    BY <2>1, <2>2
<1> QED
  BY <1>2, <1>3

LEMMA StepInv == ASSUME Inv, [Next]_vars PROVE Inv'
<1>1. CASE UNCHANGED vars
  <2>1. /\ UNCHANGED <<hub, log, late, diskVars, pc, work, sent, upstream, cutoff>>
    BY <1>1 DEF vars, diskVars
  <2> QED
    BY <2>1, DiskSame, HubSame, ProcSame, EnvSame DEF Inv
<1>2. CASE Step
  BY <1>2, TakeReadyInv, StartBatchInv, CollectInv, FetchInv, EnrichInv, CheckInv, PurgeInv,
     SendInv, FindAcknowledgedInv, ConfirmInv, CleanInv, RaiseInv DEF Step
<1>3. CASE Land \/ LandLate \/ Fail \/ Crash \/ Tick \/ \E u \in Sources : Replace(u)
  BY <1>3, LandInv, LandLateInv, FailInv, CrashInv, WorldInv
<1> QED
  BY <1>1, <1>2, <1>3 DEF Next

LEMMA Invariant == Spec => []Inv
<1>1. Inv /\ [Next]_vars => Inv'
  BY StepInv
<1> QED
  BY <1>1, InitInv, PTL DEF Spec

-----------------------------------------------------------------------------
(* The theorems.                                                           *)

LEMMA RecordShape == ASSUME NEW r, GoodRecord(r) PROVE IsRecord(r)
BY DEF GoodRecord, Records, IsRecord, Files, Evidence

LEMMA InvTypes == Inv => TypeOK
<1> SUFFICES ASSUME Inv PROVE TypeOK
  OBVIOUS
<1> USE DEF Inv
<1>1. hub.next \in First .. LastCutoff + 1 /\ DOMAIN log = 1 .. Len(log)
  BY DEF HubOK
<1>2. \A i \in DOMAIN log : IsRecord(log[i])
  BY <1>1, RecordShape DEF HubOK
<1>3. hub.receipt # None => IsRecord(hub.receipt)
  <2>1. Len(log) \in Nat
    BY DEF HubOK
  <2>2. hub.receipt # None => Len(log) \in 1 .. Len(log) /\ hub.receipt = log[Len(log)]
    BY <2>1 DEF HubOK
  <2> QED
    BY <1>1, <1>2, <2>2
<1>4. \A q \in late : q.parent \in Nat /\ IsRecord(q.rec)
  BY RecordShape DEF LateOK, WireOK
<1>5. batch.ready # None => IsRecord(batch.ready)
  BY RecordShape DEF DiskOK, BatchOK
<1>6. batch.request # None => batch.request.start \in Minutes /\ batch.request.end \in Minutes
  BY DEF DiskOK, BatchOK, RequestOK
<1>7. enriched \in [Minutes -> Reports \cup {None, Torn}]
  BY DEF DiskOK, EnrichedOK, Files
<1>8. work.fetched \in [Sources -> Versions \cup {Missing, Failure, Writing, None}]
  BY DEF ProcOK, WorkOK, Results
<1> QED
  BY <1>1, <1>2, <1>3, <1>4, <1>5, <1>6, <1>7, <1>8
     DEF TypeOK, DiskOK, CacheOK, ProcOK, PcOK, WorkOK, EnvOK

\* Files, requests, the batch in memory and the history keep their shape.
THEOREM TypeCorrect == Spec => []TypeOK
BY InvTypes, Invariant, PTL

LEMMA InvEvidence == Inv => EvidenceComplete
<1> SUFFICES ASSUME Inv, NEW r \in Sealed, NEW m \in Complete(r)
             PROVE  LET report == r.reports[m]
                    IN  /\ (\A u \in DOMAIN report : report[u] # Failure) /\ report[PSL] \in Versions
                        /\ \A u \in Cited(report) : r.evidence[u] = report[u]
  BY DEF EvidenceComplete
<1>1. GoodRecord(r)
  BY DEF Inv, HubOK, DiskOK, BatchOK, Sealed
<1>2. Good(m, r.reports[m], r.evidence)
  BY <1>1 DEF GoodRecord
<1> QED
  BY <1>2 DEF Good, IsReport, Cited

\* Whatever sources are replaced, fail or are fetched by whichever thread, and
\* whatever crashes interrupt it, a sealed batch encloses exactly the versions
\* its minutes were enriched with, and no minute of it has a failed source.
THEOREM EvidenceCompleteHolds == Spec => []EvidenceComplete
BY InvEvidence, Invariant, PTL

-----------------------------------------------------------------------------
(* What a step keeps.                                                      *)

KeepsBatch ==
  (batch.ready # None /\ batch'.ready # batch.ready) => \E i \in DOMAIN log : log[i] = batch.ready

KeepsFiles ==
  \A u \in Sources : cache[u].file # None /\ cache'[u].file # cache[u].file =>
    \A m \in Minutes : enriched'[m] \notin {None, Torn} => u \notin Cited(enriched'[m])

\* While a minute is built nothing is sealed yet.
LEMMA BatchKept == ASSUME Inv, Next PROVE KeepsBatch
<1> USE DEF Inv
<1>1. DOMAIN log = 1 .. Len(log)
  BY DEF HubOK
<1>2. CASE batch' = batch
  BY <1>2 DEF KeepsBatch
<1>3. CASE pc = "clean"
  BY <1>1, <1>3 DEF KeepsBatch, ProcOK, PublishOK
<1>4. CASE StartBatch \/ pc \in Building
  BY <1>4 DEF KeepsBatch, StartBatch, ProcOK, BuildOK
<1>5. batch' = batch \/ pc = "clean" \/ StartBatch \/ pc \in Building
  <2>1. CASE Step
    <3>1. Check \/ CollectMissing => pc \in Building
      BY DEF Check, CollectMissing, Building
    <3>2. CleanBatch => pc = "clean"
      BY DEF CleanBatch
    <3>3. TakeReady \/ CollectComplete \/ Send \/ FindAcknowledged \/ Confirm \/ Raise => batch' = batch
      BY DEF TakeReady, CollectComplete, Send, FindAcknowledged, Confirm, Raise, diskVars
    <3>4. Enrich \/ Purge \/ PurgeDirectory \/ CleanCache => batch' = batch
      BY DEF Enrich, Purge, PurgeDirectory, CleanCache
    <3>5. (\E u \in Sources : Fetch(u)) => batch' = batch
      BY DEF Fetch, FetchCached, FetchBody, FetchSidecar, FetchNothing, diskVars
    <3> QED
      BY <2>1, <3>1, <3>2, <3>3, <3>4, <3>5 DEF Step
  <2>2. CASE Crash
    BY <2>2 DEF Crash
  <2>3. CASE Land \/ LandLate \/ Fail \/ Tick \/ \E u \in Sources : Replace(u)
    BY <2>3 DEF Land, LandLate, Fail, Tick, Replace, diskVars
  <2> QED
    BY <2>1, <2>2, <2>3 DEF Next
<1> QED
  BY <1>2, <1>3, <1>4, <1>5

\* A file is written only over one without a sidecar, which nothing cites.
LEMMA FilesKept == ASSUME Inv, Next PROVE KeepsFiles
<1> USE DEF Inv
<1>1. CASE cache' = cache
  BY <1>1 DEF KeepsFiles
<1>2. CASE pc = "cleancache" /\ enriched' = enriched
  BY <1>2 DEF KeepsFiles, ProcOK, PublishOK
<1>3. ASSUME NEW w \in Sources, FetchBody(w) PROVE KeepsFiles
  <2>1. /\ enriched' = enriched /\ cache' = [cache EXCEPT ![w].file = upstream[w]]
        /\ cache[w].file = None \/ cache[w].sidecar = None
    BY <1>3 DEF FetchBody, Known
  <2>2. SUFFICES ASSUME NEW u \in Sources, cache[u].file # None, cache'[u].file # cache[u].file,
                        NEW m \in Minutes, enriched[m] \notin {None, Torn}, u \in Cited(enriched[m])
                 PROVE  FALSE
    BY <2>1 DEF KeepsFiles
  <2>3. u = w
    BY <2>1, <2>2 DEF DiskOK, CacheOK
  <2>4. cache[w].sidecar = None
    BY <2>1, <2>2, <2>3
  <2>5. Cached(w, enriched[m][w]) /\ enriched[m][w] \in Versions
    BY <2>2, <2>3 DEF Cited, DiskOK, EnrichedOK, CitedOK, IsReport
  <2> QED
    BY <2>4, <2>5, Constants DEF Cached
<1>4. ASSUME NEW w \in Sources, FetchSidecar(w) PROVE KeepsFiles
  <2>1. cache' = [cache EXCEPT ![w].sidecar = cache[w].file]
    BY <1>4 DEF FetchSidecar
  <2>2. \A u \in Sources : cache'[u].file = cache[u].file
    BY <2>1 DEF DiskOK, CacheOK
  <2> QED
    BY <2>2 DEF KeepsFiles
<1>5. \/ cache' = cache
      \/ pc = "cleancache" /\ enriched' = enriched
      \/ \E w \in Sources : FetchBody(w) \/ FetchSidecar(w)
  <2>1. CASE Step
    <3>1. CleanCache => pc = "cleancache" /\ enriched' = enriched
      BY DEF CleanCache
    <3>2. TakeReady \/ CollectComplete \/ Send \/ FindAcknowledged \/ Confirm \/ Raise => cache' = cache
      BY DEF TakeReady, CollectComplete, Send, FindAcknowledged, Confirm, Raise, diskVars
    <3>3. StartBatch \/ CollectMissing \/ Enrich \/ Check \/ Purge \/ PurgeDirectory \/ CleanBatch => cache' = cache
      BY DEF StartBatch, CollectMissing, Enrich, Check, Purge, PurgeDirectory, CleanBatch
    <3>4. ASSUME NEW w \in Sources, Fetch(w) PROVE cache' = cache \/ FetchBody(w) \/ FetchSidecar(w)
      BY <3>4 DEF Fetch, FetchCached, FetchNothing, diskVars
    <3> QED
      BY <2>1, <3>1, <3>2, <3>3, <3>4 DEF Step
  <2>2. CASE Crash
    BY <2>2 DEF Crash
  <2>3. CASE Land \/ LandLate \/ Fail \/ Tick \/ \E u \in Sources : Replace(u)
    BY <2>3 DEF Land, LandLate, Fail, Tick, Replace, diskVars
  <2> QED
    BY <2>1, <2>2, <2>3 DEF Next
<1> QED
  BY <1>1, <1>2, <1>3, <1>4, <1>5

\* No sealed batch leaves the disk before it is in the history, whatever late
\* commits land, and no file is replaced that an enrichment on the disk cites.
THEOREM KeptUntilPublishedHolds == Spec => KeptUntilPublished
<1>1. Inv /\ [Next]_vars => KeepsBatch /\ KeepsFiles
  <2>1. UNCHANGED vars => KeepsBatch /\ KeepsFiles
    BY DEF vars, KeepsBatch, KeepsFiles
  <2> QED
    BY <2>1, BatchKept, FilesKept
<1>2. Inv /\ [Next]_vars =>
        [/\ (batch.ready # None /\ batch'.ready # batch.ready) =>
              \E i \in DOMAIN log : log[i] = batch.ready
         /\ \A u \in Sources : cache[u].file # None /\ cache'[u].file # cache[u].file =>
              \A m \in Minutes : enriched'[m] \notin {None, Torn} => u \notin Cited(enriched'[m])
        ]_<<batch, enriched, cache>>
  BY <1>1 DEF KeepsBatch, KeepsFiles
<1> QED
  BY <1>2, Invariant, PTL DEF Spec, KeptUntilPublished

-----------------------------------------------------------------------------
(* The publisher implements Coverage.                                      *)

AbstractGaps == (First .. hub.next - 1) \ Published
AbstractVars == <<Published, AbstractGaps, FALSE, hub.next, hub.next - 1, hub.next>>

LEMMA PublishedBelow == ASSUME HubOK PROVE Published \subseteq First .. hub.next - 1
<1>1. ASSUME NEW i \in DOMAIN log, NEW m \in Complete(log[i]) PROVE m \in First .. hub.next - 1
  <2>1. GoodRecord(log[i]) /\ log[i].end < hub.next /\ hub.next \in Int /\ First \in Int
    BY Constants DEF HubOK
  <2>2. log[i].start \in Int /\ First <= log[i].start /\ log[i].end \in Int
    BY <2>1 DEF GoodRecord, Records, Minutes
  <2>3. m \in Int /\ log[i].start <= m /\ m <= log[i].end
    BY <2>2 DEF Complete
  <2> QED
    BY <2>1, <2>2, <2>3
<1> QED
  BY <1>1 DEF Published

\* A commit claims the minutes from the cursor to the end of the batch.
LEMMA CommitImplements ==
  ASSUME HubOK, NEW q, WireOK(q), Accepts(q), Commit(q) PROVE Abstract!Next
<1> DEFINE r == q.rec
<1>1. /\ HubOK' /\ hub.next = r.start /\ hub'.next = r.end + 1 /\ r \in Records /\ r.start <= r.end
      /\ Len(log') = Len(log) + 1 /\ log'[Len(log) + 1] = r
      /\ \A i \in 1 .. Len(log) : log'[i] = log[i]
  BY CommitFacts
<1>2. /\ r.start \in Int /\ r.end \in Int /\ First <= r.start /\ First \in Int
      /\ Len(log) \in Nat /\ DOMAIN log = 1 .. Len(log) /\ DOMAIN log' = 1 .. Len(log')
  BY <1>1, Constants DEF Records, HubOK
<1> HIDE DEF r
<1>3. Published' = Published \cup Complete(r)
  <2>1. DOMAIN log' = DOMAIN log \cup {Len(log) + 1}
    BY <1>1, <1>2
  <2>2. \A i \in DOMAIN log : log'[i] = log[i]
    BY <1>1, <1>2
  <2>3. ASSUME NEW x \in Published' PROVE x \in Published \cup Complete(r)
    <3>1. PICK i \in DOMAIN log' : x \in (log'[i].start .. log'[i].end) \ log'[i].missing
      BY Zenon DEF Published, Complete
    <3> QED
      BY <1>1, <2>1, <2>2, <3>1 DEF Published, Complete
  <2>4. ASSUME NEW x \in Published PROVE x \in Published'
    <3>1. PICK i \in DOMAIN log : x \in (log[i].start .. log[i].end) \ log[i].missing
      BY Zenon DEF Published, Complete
    <3> QED
      BY <2>1, <2>2, <3>1 DEF Published, Complete
  <2>5. ASSUME NEW x \in Complete(r) PROVE x \in Published'
    BY <1>1, <2>1, <2>5 DEF Published, Complete
  <2> QED
    BY <2>3, <2>4, <2>5
<1>4. Published \subseteq First .. r.start - 1
  BY <1>1, PublishedBelow
<1>5. Complete(r) \subseteq r.start .. r.end
  BY DEF Complete
<1>6. AbstractGaps = (First .. r.start - 1) \ Published /\ AbstractGaps' = (First .. r.end) \ Published'
  BY <1>1, <1>2 DEF AbstractGaps
<1>7. /\ First .. r.end = (First .. r.start - 1) \cup (r.start .. r.end)
      /\ (First .. r.start - 1) \cap (r.start .. r.end) = {}
  BY <1>1, <1>2
<1>8. /\ (r.start .. r.end) \cap (Published \cup AbstractGaps) = {}
      /\ Published \subseteq Published' /\ AbstractGaps \subseteq AbstractGaps'
      /\ Published' \cap AbstractGaps' = {}
      /\ Published' \cup AbstractGaps' = Published \cup AbstractGaps \cup (r.start .. r.end)
  BY <1>3, <1>4, <1>5, <1>6, <1>7, Zenon
<1>9. hub'.next - 1 = r.end
  BY <1>1, <1>2
<1>10. Abstract!Claim(hub.next, hub'.next - 1)
  BY <1>1, <1>8, <1>9 DEF Abstract!Claim, AbstractGaps
<1>11. Abstract!Extend
  BY <1>10 DEF Abstract!Extend
<1> QED
  BY <1>11 DEF Abstract!Next

LEMMA StepImplements == ASSUME Inv, [Next]_vars PROVE [Abstract!Next]_AbstractVars
<1>1. CASE Land
  BY <1>1, CommitImplements DEF Land, Inv, ProcOK, PublishOK
<1>2. CASE LandLate
  BY <1>2, CommitImplements DEF LandLate, Inv, LateOK
<1>3. CASE UNCHANGED <<hub, log>>
  BY <1>3 DEF AbstractVars, AbstractGaps, Published
<1>4. Land \/ LandLate \/ UNCHANGED <<hub, log>>
  <2>1. CASE Step
    <3>1. TakeReady \/ StartBatch \/ CollectMissing \/ CollectComplete \/ Enrich \/ Check => UNCHANGED <<hub, log>>
      BY DEF TakeReady, StartBatch, CollectMissing, CollectComplete, Enrich, Check, hubVars
    <3>2. Purge \/ PurgeDirectory \/ Send \/ FindAcknowledged \/ Confirm => UNCHANGED <<hub, log>>
      BY DEF Purge, PurgeDirectory, Send, FindAcknowledged, Confirm, hubVars
    <3>3. CleanBatch \/ CleanCache \/ Raise => UNCHANGED <<hub, log>>
      BY DEF CleanBatch, CleanCache, Raise, hubVars
    <3>4. (\E u \in Sources : Fetch(u)) => UNCHANGED <<hub, log>>
      BY DEF Fetch, FetchCached, FetchBody, FetchSidecar, FetchNothing, hubVars
    <3> QED
      BY <2>1, <3>1, <3>2, <3>3, <3>4 DEF Step
  <2>2. CASE Fail \/ Crash \/ Tick \/ \E u \in Sources : Replace(u)
    BY <2>2 DEF Fail, Crash, Tick, Replace, hubVars
  <2>3. CASE UNCHANGED vars
    BY <2>3 DEF vars
  <2> QED
    BY <2>1, <2>2, <2>3 DEF Next
<1> QED
  BY <1>1, <1>2, <1>3, <1>4

LEMMA InitImplements == Init => Abstract!Init
<1> SUFFICES ASSUME Init PROVE Abstract!Init
  OBVIOUS
<1>1. hub.next = First /\ log = <<>> /\ First .. First - 1 = {}
  BY Constants DEF Init
<1>2. Published = {}
  BY <1>1 DEF Published
<1> QED
  BY <1>1, <1>2 DEF Abstract!Init

\* Whatever commits land late or are sent again, the forward publisher claims
\* every minute once and in order, and nothing it claimed changes.
THEOREM CoverageImplemented == Spec => ImplementsCoverage
<1>1. Inv /\ [Next]_vars => [Abstract!Next]_AbstractVars
  BY StepImplements
<1>2. Abstract!vars = AbstractVars
  BY DEF Abstract!vars, AbstractVars, AbstractGaps
<1>3. Inv /\ [Next]_vars => [Abstract!Next]_(Abstract!vars)
  BY <1>1, <1>2 DEF Abstract!vars, AbstractVars, AbstractGaps
<1> QED
  BY <1>3, InitImplements, Invariant, PTL DEF Spec, ImplementsCoverage, Abstract!Spec

-----------------------------------------------------------------------------
(* The country of an outlet: numbers.                                      *)

Smaller == {p \in Nat \X Nat : p[1] < p[2]}

LEMMA SmallerWellFounded == IsWellFoundedOn(Smaller, Nat)
<1>1. OpToRel(<, Nat) = Smaller
  BY Zenon DEF OpToRel, Smaller
<1> QED
  BY <1>1, NatLessThanWellFounded, Zenon

LEMMA LeastOf ==
  ASSUME NEW S, S \subseteq Nat, S # {}
  PROVE  \E x \in S : \A y \in S : x <= y
<1>1. PICK x \in S : \A y \in S : ~(<<y, x>> \in Smaller)
  BY SmallerWellFounded, WFMin, Zenon
<1>2. ASSUME NEW y \in S PROVE x <= y
  <2>1. <<y, x>>[1] = y /\ <<y, x>>[2] = x /\ <<y, x>> \in Nat \X Nat
    OBVIOUS
  <2>2. ~(y < x)
    BY <1>1, <2>1 DEF Smaller
  <2> QED
    BY <2>2, SMT
<1> QED
  BY <1>2

\* Induction up to n, on a set.
LEMMA Upto ==
  ASSUME NEW n \in Nat, NEW Q, 0 \in Q, \A i \in 1 .. n : i - 1 \in Q => i \in Q
  PROVE  \A i \in 0 .. n : i \in Q
<1> SUFFICES ASSUME NEW i \in 0 .. n, i \notin Q PROVE FALSE
  OBVIOUS
<1> DEFINE B == {j \in 0 .. n : j \notin Q}
<1>1. B \subseteq Nat /\ B # {}
  OBVIOUS
<1>2. PICK k \in B : \A j \in B : k <= j
  <2> HIDE DEF B
  <2> QED
    BY <1>1, LeastOf
<1>3. k # 0 /\ k \in 1 .. n /\ k \notin Q
  BY <1>2
<1>4. k - 1 \in Q
  <2>1. k - 1 \in 0 .. n /\ ~(k <= k - 1)
    BY <1>3
  <2> QED
    BY <1>2, <2>1
<1> QED
  BY <1>3, <1>4

\* What Max and Min are when there is such an element.
LEMMA MaxIs ==
  ASSUME NEW S, S \subseteq Int, NEW v \in S, \A x \in S : v >= x
  PROVE  Max(S) = v
<1>1. \A x \in S : (\A y \in S : x >= y) => x = v
  BY SMT
<1> QED
  BY <1>1 DEF Max

-----------------------------------------------------------------------------
(* The search of registrable.                                              *)

Found(list, d, f) ==
  f = [i \in 0 .. Len(d) |-> IF i = 0 THEN [length |-> 1, done |-> FALSE] ELSE Look(list, d, i, f[i - 1])]

LEMMA SearchDefined == ASSUME NEW list, NEW d, Len(d) \in Nat PROVE \E f : Found(list, d, f)
<1> DEFINE n == Len(d)
           start == [length |-> 1, done |-> FALSE]
           P(k) == \E f : /\ f = [i \in 0 .. k |-> f[i]] /\ f[0] = start
                          /\ \A i \in 1 .. k : f[i] = Look(list, d, i, f[i - 1])
           Q == {k \in 0 .. n : P(k)}
<1> HIDE DEF start
<1>1. 0 \in Q
  <2> DEFINE f == [i \in 0 .. 0 |-> start]
  <2>1. f = [i \in 0 .. 0 |-> f[i]] /\ f[0] = start /\ \A i \in 1 .. 0 : f[i] = Look(list, d, i, f[i - 1])
    OBVIOUS
  <2>2. P(0)
    BY <2>1
  <2> QED
    BY <2>2
<1>2. ASSUME NEW k \in 1 .. n, k - 1 \in Q PROVE k \in Q
  <2>1. PICK f : /\ f = [i \in 0 .. k - 1 |-> f[i]] /\ f[0] = start
                 /\ \A i \in 1 .. k - 1 : f[i] = Look(list, d, i, f[i - 1])
    BY <1>2
  <2> DEFINE g == [i \in 0 .. k |-> IF i = k THEN Look(list, d, k, f[k - 1]) ELSE f[i]]
  <2>2. g = [i \in 0 .. k |-> g[i]]
    OBVIOUS
  <2>3. g[0] = start
    BY <2>1
  <2>4. ASSUME NEW i \in 1 .. k PROVE g[i] = Look(list, d, i, g[i - 1])
    <3>1. i - 1 \in 0 .. k /\ i - 1 # k
      OBVIOUS
    <3>2. g[i - 1] = f[i - 1]
      BY <3>1
    <3>3. CASE i = k
      BY <3>2, <3>3
    <3>4. CASE i # k
      <4>1. i \in 1 .. k - 1 /\ i \in 0 .. k
        BY <3>4
      <4> QED
        BY <2>1, <3>2, <3>4, <4>1
    <3> QED
      BY <3>3, <3>4
  <2>5. P(k)
    <3> HIDE DEF g
    <3> QED
      BY <2>2, <2>3, <2>4
  <2> QED
    BY <2>5
<1>3. n \in Q
  <2> HIDE DEF Q
  <2>1. \A i \in 0 .. n : i \in Q
    BY <1>1, <1>2, Upto
  <2> QED
    BY <2>1
<1>4. PICK f : /\ f = [i \in 0 .. n |-> f[i]] /\ f[0] = start
               /\ \A i \in 1 .. n : f[i] = Look(list, d, i, f[i - 1])
  BY <1>3
<1>5. ASSUME NEW i \in 0 .. n PROVE f[i] = IF i = 0 THEN start ELSE Look(list, d, i, f[i - 1])
  <2>1. i = 0 \/ i \in 1 .. n
    OBVIOUS
  <2> QED
    BY <1>4, <2>1
<1>6. f = [i \in 0 .. n |-> IF i = 0 THEN start ELSE Look(list, d, i, f[i - 1])]
  BY <1>4, <1>5
<1> QED
  BY <1>6 DEF Found, start

LEMMA SearchOf ==
  ASSUME NEW list, NEW d, Len(d) \in Nat
  PROVE  \E f : Found(list, d, f) /\ SuffixLength(list, d) = f[Len(d)].length
<1> DEFINE f == CHOOSE f : Found(list, d, f)
<1>1. Found(list, d, f)
  BY SearchDefined
<1>2. SuffixLength(list, d) = f[Len(d)].length
  BY DEF SuffixLength, Found
<1> QED
  BY <1>1, <1>2
-----------------------------------------------------------------------------
(* The search and the definition of the list.                              *)

Exceptions(list, d) == {i \in 1 .. Len(d) : <<"exception", From(d, i)>> \in list}
Exact(list, d, k) == {i \in 1 .. k : <<"exact", From(d, i)>> \in list}
Wild(list, d, k) == {i \in 2 .. k : <<"wild", From(d, i)>> \in list}

\* What the first k labels offer.
Offers(list, d, k) ==
  {1} \cup {Len(d) - i + 1 : i \in Exact(list, d, k)} \cup {Len(d) - i + 2 : i \in Wild(list, d, k)}

\* What the search has found when it has looked at k labels.
FoundUpTo(list, d, k, s) ==
  /\ s.done \in BOOLEAN /\ s.length \in Int
  /\ s.done => \E e \in Exceptions(list, d) :
                 (\A i \in Exceptions(list, d) : e <= i) /\ s.length = Len(d) - e
  /\ ~s.done => /\ \A i \in 1 .. k : i \notin Exceptions(list, d)
                /\ s.length \in Offers(list, d, k) /\ \A x \in Offers(list, d, k) : s.length >= x

\* Each label adds at most one length of either kind.
LEMMA MaxOfThree ==
  ASSUME NEW v \in Int, NEW a \in Int, NEW b \in Int, NEW A, NEW B, A = {} \/ A = {a}, B = {} \/ B = {b}
  PROVE  /\ Max({v} \cup A \cup B) \in {v} \cup A \cup B /\ Max({v} \cup A \cup B) \in Int
         /\ \A x \in {v} \cup A \cup B : Max({v} \cup A \cup B) >= x
<1> DEFINE S == {v} \cup A \cup B
<1>1. S \subseteq Int
  OBVIOUS
<1>2. \E w \in S : \A x \in S : w >= x
  <2>1. CASE A = {} /\ B = {}
    BY <2>1
  <2>2. CASE A = {a} /\ B = {}
    BY <2>2
  <2>3. CASE A = {} /\ B = {b}
    BY <2>3
  <2>4. CASE A = {a} /\ B = {b}
    <3>1. S = {v, a, b}
      BY <2>4
    <3>2. (v >= a /\ v >= b) \/ (a >= v /\ a >= b) \/ (b >= v /\ b >= a)
      OBVIOUS
    <3> QED
      BY <3>1, <3>2
  <2> QED
    BY <2>1, <2>2, <2>3, <2>4
<1> HIDE DEF S
<1>3. Max(S) \in S /\ \A x \in S : Max(S) >= x
  BY <1>2 DEF Max
<1>4. Max(S) \in Int
  BY <1>1, <1>3
<1> QED
  BY <1>3, <1>4 DEF S

LEMMA LookFinds ==
  ASSUME NEW list, NEW d, Len(d) \in Nat, NEW k \in 1 .. Len(d), NEW s, FoundUpTo(list, d, k - 1, s)
  PROVE  FoundUpTo(list, d, k, Look(list, d, k, s))
<1> DEFINE n == Len(d)
           t == Look(list, d, k, s)
<1>0. k \in Int /\ n \in Int /\ (\A i \in 1 .. k : i \in 1 .. k - 1 \/ i = k)
      /\ (\A i \in 2 .. k : i \in 2 .. k - 1 \/ i = k) /\ 1 .. k - 1 \subseteq 1 .. k /\ 2 .. k - 1 \subseteq 2 .. k
      /\ k \in 1 .. k /\ (k > 1 => k \in 2 .. k) /\ (~(k > 1) => k \notin 2 .. k)
  OBVIOUS
<1>1. CASE s.done
  <2>1. t = s
    BY <1>1 DEF Look
  <2> QED
    BY <1>1, <2>1 DEF FoundUpTo
<1>2. CASE ~s.done /\ <<"exception", From(d, k)>> \in list
  <2>1. t.length = n - k /\ t.done = TRUE
    BY <1>2 DEF Look
  <2>2. k \in Exceptions(list, d)
    BY <1>2 DEF Exceptions
  <2>3. ASSUME NEW i \in Exceptions(list, d) PROVE k <= i
    <3>1. i \in Int /\ i >= 1 /\ i \notin 1 .. k - 1
      BY <1>2 DEF FoundUpTo, Exceptions
    <3> QED
      BY <1>0, <3>1
  <2> HIDE DEF t
  <2>6. t.length \in Int
    BY <1>0, <2>1
  <2>7. t.done /\ t.done \in BOOLEAN
    BY <2>1, Zenon
  <2>4. t.done /\ t.done \in BOOLEAN /\ t.length \in Int
    BY <2>6, <2>7, Zenon
  <2>5. \E e \in Exceptions(list, d) : (\A i \in Exceptions(list, d) : e <= i) /\ t.length = Len(d) - e
    BY <2>1, <2>2, <2>3
  <2>8. FoundUpTo(list, d, k, t)
    BY <2>4, <2>5 DEF FoundUpTo
  <2> QED
    BY <2>8 DEF t
<1>3. CASE ~s.done /\ <<"exception", From(d, k)>> \notin list
  <2> DEFINE A == IF <<"exact", From(d, k)>> \in list THEN {n - k + 1} ELSE {}
             B == IF k > 1 /\ <<"wild", From(d, k)>> \in list THEN {n - k + 2} ELSE {}
             S == {s.length} \cup A \cup B
  <2>1. t = [length |-> Max(S), done |-> FALSE]
    BY <1>3 DEF Look
  <2>2. s.length \in Int /\ n - k + 1 \in Int /\ n - k + 2 \in Int /\ (A = {} \/ A = {n - k + 1}) /\ (B = {} \/ B = {n - k + 2})
    BY <1>0 DEF FoundUpTo
  <2>3. Max(S) \in S /\ Max(S) \in Int /\ \A x \in S : Max(S) >= x
    <3>1. PICK a : a = n - k + 1
      OBVIOUS
    <3>2. PICK b : b = n - k + 2
      OBVIOUS
    <3>3. PICK v : v = s.length
      OBVIOUS
    <3>4. v \in Int /\ a \in Int /\ b \in Int /\ (A = {} \/ A = {a}) /\ (B = {} \/ B = {b})
      BY <2>2, <3>1, <3>2, <3>3
    <3> HIDE DEF A, B
    <3>5. Max({v} \cup A \cup B) \in {v} \cup A \cup B /\ Max({v} \cup A \cup B) \in Int
          /\ \A x \in {v} \cup A \cup B : Max({v} \cup A \cup B) >= x
      BY <3>4, MaxOfThree, Zenon
    <3> QED
      BY <3>3, <3>5
  <2>4. /\ \A i \in 1 .. k - 1 : i \notin Exceptions(list, d)
        /\ s.length \in Offers(list, d, k - 1) /\ \A x \in Offers(list, d, k - 1) : s.length >= x
    BY <1>3 DEF FoundUpTo
  <2>5. \A i \in 1 .. k : i \notin Exceptions(list, d)
    BY <1>0, <1>3, <2>4 DEF Exceptions
  <2>6. Offers(list, d, k) = Offers(list, d, k - 1) \cup A \cup B
    <3>1. Exact(list, d, k) = Exact(list, d, k - 1) \cup (IF <<"exact", From(d, k)>> \in list THEN {k} ELSE {})
      BY <1>0 DEF Exact
    <3>2. Wild(list, d, k) = Wild(list, d, k - 1) \cup (IF k > 1 /\ <<"wild", From(d, k)>> \in list THEN {k} ELSE {})
      BY <1>0 DEF Wild
    <3>3. {n - i + 1 : i \in Exact(list, d, k)} = {n - i + 1 : i \in Exact(list, d, k - 1)} \cup A
      BY <3>1, Zenon
    <3>4. {n - i + 2 : i \in Wild(list, d, k)} = {n - i + 2 : i \in Wild(list, d, k - 1)} \cup B
      BY <3>2, Zenon
    <3> HIDE DEF A, B
    <3> QED
      BY <3>3, <3>4, Zenon DEF Offers
  <2>7. Offers(list, d, k - 1) \subseteq Int
    <3>1. \A i \in Exact(list, d, k - 1) : i \in Int
      BY DEF Exact
    <3>2. \A i \in Wild(list, d, k - 1) : i \in Int
      BY DEF Wild
    <3> QED
      BY <1>0, <3>1, <3>2 DEF Offers
  <2> HIDE DEF A, B
  <2>8. Max(S) \in Offers(list, d, k) /\ \A x \in Offers(list, d, k) : Max(S) >= x
    <3>1. S \subseteq Offers(list, d, k)
      BY <2>4, <2>6
    <3>2. Max(S) >= s.length
      BY <2>3
    <3>3. ASSUME NEW x \in Offers(list, d, k - 1) PROVE Max(S) >= x
      BY <2>2, <2>3, <2>4, <2>7, <3>2
    <3> QED
      BY <2>3, <2>6, <3>1, <3>3
  <2>9. t.done = FALSE /\ t.length = Max(S)
    BY <2>1
  <2> HIDE DEF S, t
  <2>10. t.done \in BOOLEAN /\ ~t.done /\ t.length \in Int
    BY <2>3, <2>9
  <2>11. t.length \in Offers(list, d, k) /\ \A x \in Offers(list, d, k) : t.length >= x
    BY <2>8, <2>9
  <2>12. FoundUpTo(list, d, k, t)
    BY <2>5, <2>10, <2>11 DEF FoundUpTo
  <2> QED
    BY <2>12 DEF t
<1>4. s.done \in BOOLEAN
  BY DEF FoundUpTo
<1> QED
  BY <1>1, <1>2, <1>3, <1>4

LEMMA SearchFinds ==
  ASSUME NEW list, NEW d, Len(d) \in Nat, NEW f, Found(list, d, f)
  PROVE  FoundUpTo(list, d, Len(d), f[Len(d)])
<1> DEFINE n == Len(d)
           Q == {k \in 0 .. n : FoundUpTo(list, d, k, f[k])}
<1>1. \A i \in 0 .. n : f[i] = IF i = 0 THEN [length |-> 1, done |-> FALSE] ELSE Look(list, d, i, f[i - 1])
  BY DEF Found
<1>2. 0 \in Q
  <2>1. f[0].length = 1 /\ f[0].done = FALSE
    BY <1>1
  <2>2. 1 .. 0 = {} /\ 2 .. 0 = {}
    OBVIOUS
  <2>3. Offers(list, d, 0) = {1}
    BY <2>2 DEF Offers, Exact, Wild
  <2>7. f[0].done \in BOOLEAN /\ ~f[0].done
    BY <2>1, Zenon
  <2>8. f[0].length \in Int /\ f[0].length \in {1} /\ \A x \in {1} : f[0].length >= x
    BY <2>1
  <2>5. f[0].length \in Int /\ f[0].done \in BOOLEAN /\ ~f[0].done
        /\ f[0].length \in {1} /\ \A x \in {1} : f[0].length >= x
    BY <2>7, <2>8, Zenon
  <2>6. \A i \in 1 .. 0 : i \notin Exceptions(list, d)
    BY <2>2
  <2>4. FoundUpTo(list, d, 0, f[0])
    BY <2>3, <2>5, <2>6 DEF FoundUpTo
  <2> QED
    BY <2>4
<1>3. ASSUME NEW k \in 1 .. n, k - 1 \in Q PROVE k \in Q
  <2>1. f[k] = Look(list, d, k, f[k - 1])
    BY <1>1
  <2>2. FoundUpTo(list, d, k, f[k])
    BY <1>3, <2>1, LookFinds
  <2> QED
    BY <2>2
<1> HIDE DEF Q
<1>4. \A i \in 0 .. n : i \in Q
  BY <1>2, <1>3, Upto
<1> QED
  BY <1>4 DEF Q

LEMMA HostFacts ==
  ASSUME NEW d \in Hosts
  PROVE  /\ d \in Seq(Labels) /\ Len(d) \in Nat /\ Len(d) >= 1
         /\ \A i \in 1 .. Len(d) : From(d, i) \in Seq(Labels) /\ Len(From(d, i)) = Len(d) - i + 1
<1>1. PICK n \in 1 .. MaxLabels : d \in [1 .. n -> Labels]
  BY DEF Hosts
<1>2. n \in Nat /\ n >= 1
  BY SourceCountryAssumption
<1>3. d \in Seq(Labels) /\ Len(d) = n
  BY <1>1, <1>2
<1>4. ASSUME NEW i \in 1 .. Len(d) PROVE From(d, i) \in Seq(Labels) /\ Len(From(d, i)) = Len(d) - i + 1
  <2>1. \A j \in i .. Len(d) : d[j] \in Labels
    BY <1>2, <1>3
  <2>2. i \in Int /\ Len(d) \in Int /\ i <= Len(d) + 1
    BY <1>2, <1>3
  <2> QED
    BY <1>3, <2>1, <2>2, SubSeqProperties DEF From
<1> QED
  BY <1>2, <1>3, <1>4

LEMMA RuleFacts ==
  ASSUME NEW list \in Lists, NEW r \in list
  PROVE  /\ r = <<r[1], r[2]>> /\ r[1] \in {"exact", "wild", "exception"}
         /\ r[2] \in Seq(Labels) /\ Len(r[2]) \in Nat /\ Len(r[2]) >= 1
<1>1. list \subseteq Rules
  BY DEF Lists, kSubset
<1>2. r \in {"exact", "wild", "exception"} \X UNION {[1 .. n -> Labels] : n \in 1 .. MaxLabels - 1}
  BY <1>1 DEF Rules
<1>3. PICK n \in 1 .. MaxLabels - 1 : r[2] \in [1 .. n -> Labels]
  BY <1>2
<1>4. n \in Nat /\ n >= 1
  BY SourceCountryAssumption
<1> QED
  BY <1>2, <1>3, <1>4

\* A rule matches the labels from some label on; a wildcard needs one before it.
LEMMA MatchFacts ==
  ASSUME NEW d \in Hosts, NEW list \in Lists, NEW r \in list
  PROVE  /\ Matches(r, d) => \E i \in 1 .. Len(d) : r[2] = From(d, i) /\ (r[1] = "wild" => i > 1)
         /\ \A i \in 1 .. Len(d) : r[2] = From(d, i) /\ (r[1] = "wild" => i > 1) =>
              Matches(r, d) /\ Len(r[2]) = Len(d) - i + 1
<1> DEFINE n == Len(d)
           m == Len(r[2])
<1>1. n \in Nat /\ n >= 1 /\ \A i \in 1 .. n : Len(From(d, i)) = n - i + 1
  BY HostFacts
<1>2. m \in Nat /\ m >= 1
  BY RuleFacts
<1>3. ASSUME Matches(r, d) PROVE \E i \in 1 .. n : r[2] = From(d, i) /\ (r[1] = "wild" => i > 1)
  <2>1. /\ m + (IF r[1] = "wild" THEN 1 ELSE 0) <= n
        /\ From(d, n - m + 1) = r[2]
    BY <1>3 DEF Matches
  <2> HIDE DEF n, m
  <2>2. n - m + 1 \in 1 .. n /\ (r[1] = "wild" => n - m + 1 > 1)
    <3>1. CASE r[1] = "wild"
      <4>1. m + 1 <= n
        BY <2>1, <3>1
      <4> QED
        BY <1>1, <1>2, <4>1
    <3>2. CASE r[1] # "wild"
      <4>1. m + 0 <= n
        BY <2>1, <3>2
      <4> QED
        BY <1>1, <1>2, <3>2, <4>1
    <3> QED
      BY <3>1, <3>2
  <2> QED
    BY <2>1, <2>2
<1>4. ASSUME NEW i \in 1 .. n, r[2] = From(d, i), r[1] = "wild" => i > 1
      PROVE  Matches(r, d) /\ m = n - i + 1
  <2>1. m = n - i + 1
    BY <1>1, <1>4
  <2>2. n - m + 1 = i /\ m + (IF r[1] = "wild" THEN 1 ELSE 0) <= n
    BY <1>1, <1>4, <2>1
  <2>3. Matches(r, d)
    BY <1>4, <2>2 DEF Matches
  <2> QED
    BY <2>1, <2>3
<1> QED
  BY <1>3, <1>4

\* The exceptions that match, and the lengths they leave.
LEMMA ExceptionLengths ==
  ASSUME NEW d \in Hosts, NEW list \in Lists
  PROVE  LET E == {r \in {r \in list : Matches(r, d)} : r[1] = "exception"}
         IN  {MatchLength(r) : r \in E} = {Len(d) - i : i \in Exceptions(list, d)}
<1> DEFINE E == {r \in {r \in list : Matches(r, d)} : r[1] = "exception"}
           n == Len(d)
<1>0. n \in Nat
  BY HostFacts
<1>1. ASSUME NEW r \in E PROVE \E i \in Exceptions(list, d) : MatchLength(r) = n - i
  <2>1. r \in list /\ Matches(r, d) /\ r[1] = "exception"
    OBVIOUS
  <2>2. PICK i \in 1 .. n : r[2] = From(d, i)
    BY <2>1, MatchFacts
  <2>3. Len(r[2]) = n - i + 1
    BY <2>1, <2>2, MatchFacts
  <2>4. r = <<"exception", From(d, i)>>
    BY <2>1, <2>2, RuleFacts
  <2>5. i \in Exceptions(list, d)
    BY <2>1, <2>4 DEF Exceptions
  <2>6. MatchLength(r) = n - i
    BY <1>0, <2>1, <2>3 DEF MatchLength
  <2> QED
    BY <2>5, <2>6
<1>2. ASSUME NEW i \in Exceptions(list, d) PROVE \E r \in E : MatchLength(r) = n - i
  <2> DEFINE r == <<"exception", From(d, i)>>
  <2>1. r \in list /\ i \in 1 .. n
    BY DEF Exceptions
  <2>2. r[1] = "exception" /\ r[2] = From(d, i)
    OBVIOUS
  <2> HIDE DEF r
  <2>3. Matches(r, d) /\ Len(r[2]) = n - i + 1
    BY <2>1, <2>2, MatchFacts
  <2>4. MatchLength(r) = n - i
    BY <1>0, <2>1, <2>2, <2>3 DEF MatchLength
  <2> QED
    BY <2>1, <2>2, <2>3, <2>4
<1> HIDE DEF E
<1>3. {MatchLength(r) : r \in E} = {n - i : i \in Exceptions(list, d)}
  BY <1>1, <1>2
<1> QED
  BY <1>3 DEF E

\* Without exceptions, the lengths of the rules that match.
LEMMA OtherLengths ==
  ASSUME NEW d \in Hosts, NEW list \in Lists, Exceptions(list, d) = {}
  PROVE  {1} \cup {MatchLength(r) : r \in {r \in list : Matches(r, d)}} = Offers(list, d, Len(d))
<1> DEFINE R == {r \in list : Matches(r, d)}
           n == Len(d)
<1>0. n \in Nat
  BY HostFacts
<1>1. ASSUME NEW r \in R PROVE MatchLength(r) \in Offers(list, d, n)
  <2>1. r \in list /\ Matches(r, d) /\ r[1] \in {"exact", "wild", "exception"}
    BY RuleFacts
  <2>2. PICK i \in 1 .. n : r[2] = From(d, i) /\ (r[1] = "wild" => i > 1)
    BY <2>1, MatchFacts
  <2>3. Len(r[2]) = n - i + 1
    BY <2>1, <2>2, MatchFacts
  <2>4. r = <<r[1], From(d, i)>>
    BY <2>1, <2>2, RuleFacts
  <2>5. CASE r[1] = "exact"
    <3>1. i \in Exact(list, d, n) /\ MatchLength(r) = n - i + 1
      BY <2>1, <2>3, <2>4, <2>5 DEF Exact, MatchLength
    <3> QED
      BY <3>1 DEF Offers
  <2>6. CASE r[1] = "wild"
    <3>1. i \in Wild(list, d, n)
      BY <2>1, <2>2, <2>4, <2>6 DEF Wild
    <3>2. MatchLength(r) = n - i + 2
      BY <1>0, <2>3, <2>6 DEF MatchLength
    <3> QED
      BY <3>1, <3>2 DEF Offers
  <2>7. CASE r[1] = "exception"
    BY <2>1, <2>4, <2>7 DEF Exceptions
  <2> QED
    BY <2>1, <2>5, <2>6, <2>7
<1>2. ASSUME NEW i \in Exact(list, d, n) PROVE \E r \in R : MatchLength(r) = n - i + 1
  <2> DEFINE r == <<"exact", From(d, i)>>
  <2>1. r \in list /\ i \in 1 .. n
    BY DEF Exact
  <2>2. r[1] = "exact" /\ r[2] = From(d, i)
    OBVIOUS
  <2> HIDE DEF r
  <2>3. Matches(r, d) /\ Len(r[2]) = n - i + 1
    BY <2>1, <2>2, MatchFacts
  <2>4. MatchLength(r) = n - i + 1
    BY <2>2, <2>3 DEF MatchLength
  <2> QED
    BY <2>1, <2>3, <2>4
<1>3. ASSUME NEW i \in Wild(list, d, n) PROVE \E r \in R : MatchLength(r) = n - i + 2
  <2> DEFINE r == <<"wild", From(d, i)>>
  <2>1. r \in list /\ i \in 1 .. n /\ i > 1
    BY <1>0 DEF Wild
  <2>2. r[1] = "wild" /\ r[2] = From(d, i)
    OBVIOUS
  <2> HIDE DEF r
  <2>3. Matches(r, d) /\ Len(r[2]) = n - i + 1
    BY <2>1, <2>2, MatchFacts
  <2>4. MatchLength(r) = n - i + 2
    BY <1>0, <2>1, <2>2, <2>3 DEF MatchLength
  <2> QED
    BY <2>1, <2>3, <2>4
<1> HIDE DEF R
<1>4. {1} \cup {MatchLength(r) : r \in R} = Offers(list, d, n)
  BY <1>1, <1>2, <1>3 DEF Offers
<1> QED
  BY <1>4 DEF R

\* registrable finds the public suffix.
LEMMA SuffixFound ==
  ASSUME NEW d \in Hosts, NEW list \in Lists
  PROVE  /\ SuffixLength(list, d) = PublicSuffixLength(list, d)
         /\ PublicSuffixLength(list, d) \in Int /\ PublicSuffixLength(list, d) >= 0
<1> DEFINE n == Len(d)
           matching == {r \in list : Matches(r, d)}
           E == {r \in matching : r[1] = "exception"}
<1>0. n \in Nat /\ n >= 1
  BY HostFacts
<1>1. PICK f : Found(list, d, f) /\ SuffixLength(list, d) = f[n].length
  BY <1>0, SearchOf
<1>2. FoundUpTo(list, d, n, f[n])
  BY <1>0, <1>1, SearchFinds
<1>3. {MatchLength(r) : r \in E} = {n - i : i \in Exceptions(list, d)}
  BY ExceptionLengths
<1>4. PublicSuffixLength(list, d) =
        IF E # {} THEN Max({MatchLength(r) : r \in E}) ELSE Max({1} \cup {MatchLength(r) : r \in matching})
  BY Zenon DEF PublicSuffixLength
<1>5. f[n].done \in BOOLEAN /\ f[n].length \in Int
  BY <1>2 DEF FoundUpTo
<1>6. CASE f[n].done
  <2>1. PICK e \in Exceptions(list, d) :
          (\A i \in Exceptions(list, d) : e <= i) /\ f[n].length = n - e
    BY <1>2, <1>6 DEF FoundUpTo
  <2> DEFINE S == {n - i : i \in Exceptions(list, d)}
  <2>2. S \subseteq Int /\ n - e \in S /\ (\A x \in S : n - e >= x) /\ n - e >= 0
    <3>1. \A i \in Exceptions(list, d) : i \in Int /\ i <= n
      BY <1>0 DEF Exceptions
    <3> QED
      BY <1>0, <2>1, <3>1
  <2> HIDE DEF S
  <2>3. Max(S) = n - e
    BY <2>2, MaxIs
  <2>4. E # {}
    <3>1. \E x \in {MatchLength(r) : r \in E} : x = n - e
      BY <1>3, <2>2 DEF S
    <3> QED
      BY <3>1
  <2>5. PublicSuffixLength(list, d) = n - e
    BY <1>3, <1>4, <2>3, <2>4 DEF S
  <2> QED
    BY <1>0, <1>1, <1>5, <2>1, <2>2, <2>5
<1>7. CASE ~f[n].done
  <2>1. /\ \A i \in 1 .. n : i \notin Exceptions(list, d)
        /\ f[n].length \in Offers(list, d, n) /\ \A x \in Offers(list, d, n) : f[n].length >= x
    BY <1>2, <1>7 DEF FoundUpTo
  <2>2. Exceptions(list, d) = {}
    BY <2>1 DEF Exceptions
  <2>3. E = {}
    <3> SUFFICES ASSUME NEW r \in E PROVE FALSE
      OBVIOUS
    <3>1. MatchLength(r) \in {n - i : i \in Exceptions(list, d)}
      BY <1>3
    <3> QED
      BY <2>2, <3>1
  <2>4. {1} \cup {MatchLength(r) : r \in matching} = Offers(list, d, n)
    BY <2>2, OtherLengths
  <2>5. Offers(list, d, n) \subseteq Int
    <3>1. \A i \in Exact(list, d, n) : i \in Int
      BY DEF Exact
    <3>2. \A i \in Wild(list, d, n) : i \in Int
      BY DEF Wild
    <3> QED
      BY <1>0, <3>1, <3>2 DEF Offers
  <2>6. Max(Offers(list, d, n)) = f[n].length
    BY <2>1, <2>5, MaxIs
  <2>7. PublicSuffixLength(list, d) = f[n].length
    BY <1>4, <2>3, <2>4, <2>6
  <2>8. f[n].length >= 1
    BY <2>1 DEF Offers
  <2> QED
    BY <1>1, <1>5, <2>7, <2>8
<1> QED
  BY <1>5, <1>6, <1>7

Within(list, d, key) ==
  /\ Len(d) > PublicSuffixLength(list, d)
  /\ \E i \in 1 .. Len(d) - PublicSuffixLength(list, d) : From(d, i) = key

\* The code that is joined is that of a name within the registrable domain.
LEMMA JoinedWithin ==
  ASSUME NEW list \in Lists, NEW d \in Hosts, NEW key, NEW code,
         NEW lookup, DOMAIN lookup = {key}, lookup[key] = {code}
  PROVE  (ChooseCountry(list, d, {}, {}, lookup).status = "estimated") <=> Within(list, d, key)
<1> DEFINE n == Len(d)
           s == PublicSuffixLength(list, d)
           names == Candidates(list, d)
           known == {i \in DOMAIN names : names[i] \in DOMAIN lookup}
           codes == Historical(list, d, lookup)
<1>1. n \in Nat /\ s \in Int /\ s >= 0 /\ SuffixLength(list, d) = s
  BY HostFacts, SuffixFound
<1>2. names = IF n <= s THEN <<>> ELSE [i \in 1 .. n - s |-> From(d, i)]
  BY <1>1 DEF Candidates
<1>3. codes = IF known = {} THEN {} ELSE lookup[names[Min(known)]]
  BY Zenon DEF Historical
<1>4. DOMAIN lookup = {key} /\ lookup[key] = {code}
  OBVIOUS
<1>5. ChooseCountry(list, d, {}, {}, lookup).status = "estimated" <=> codes # {} /\ Cardinality(codes) = 1
  <2> HIDE DEF codes
  <2>0. codes = Historical(list, d, lookup)
    BY DEF codes
  <2>1. ChooseCountry(list, d, {}, {}, lookup) =
          CASE codes = {} -> [status |-> "unknown", codes |-> {}]
            [] Cardinality(codes) = 1 -> [status |-> "estimated", codes |-> codes]
            [] OTHER -> [status |-> "conflicting", codes |-> codes]
    BY <2>0 DEF ChooseCountry
  <2>2. CASE codes = {}
    <3>1. Cardinality(codes) = 0
      BY <2>2, FS_EmptySet
    <3> QED
      BY <2>1, <2>2, <3>1
  <2>3. CASE codes # {}
    BY <2>1, <2>3
  <2> QED
    BY <2>2, <2>3
<1> HIDE DEF codes
<1>6. CASE n <= s
  <2>1. DOMAIN names = {}
    BY <1>2, <1>6
  <2>2. codes = {}
    BY <1>3, <2>1
  <2> QED
    BY <1>1, <1>5, <1>6, <2>2 DEF Within
<1>7. CASE n > s
  <2>1. DOMAIN names = 1 .. n - s /\ \A i \in 1 .. n - s : names[i] = From(d, i)
    BY <1>1, <1>2, <1>7
  <2> HIDE DEF names
  <2>2. known = {i \in 1 .. n - s : From(d, i) = key}
    BY <1>4, <2>1
  <2> HIDE DEF known
  <2>3. CASE known = {}
    <3>1. codes = {}
      BY <1>3, <2>3
    <3>2. ~\E i \in 1 .. n - s : From(d, i) = key
      BY <2>2, <2>3
    <3> QED
      BY <1>5, <3>1, <3>2 DEF Within
  <2>4. CASE known # {}
    <3>1. known \subseteq Nat
      BY <1>1, <2>2
    <3>2. PICK m \in known : \A i \in known : m <= i
      BY <2>4, <3>1, LeastOf
    <3>3. Min(known) \in known
      BY <3>2 DEF Min
    <3>4. names[Min(known)] = key
      BY <2>1, <2>2, <3>3
    <3>5. codes = {code}
      BY <1>3, <1>4, <2>4, <3>4
    <3>6. Cardinality(codes) = 1 /\ codes # {}
      BY <3>5, FS_Singleton
    <3>7. \E i \in 1 .. n - s : From(d, i) = key
      BY <2>2, <3>3
    <3> QED
      BY <1>5, <1>7, <3>6, <3>7 DEF Within
  <2> QED
    BY <2>3, <2>4
<1> QED
  BY <1>1, <1>6, <1>7

LEMMA WithinDomain == WithinDomainOnly
<1>1. ASSUME NEW list \in Lists, NEW d \in Hosts, NEW key \in Hosts, NEW code \in Codes
      PROVE  (ChooseCountry(list, d, {}, {}, [k \in {key} |-> {code}]).status = "estimated") <=>
               Within(list, d, key)
  <2> DEFINE lookup == [k \in {key} |-> {code}]
  <2>1. DOMAIN lookup = {key} /\ lookup[key] = {code}
    OBVIOUS
  <2> HIDE DEF lookup
  <2>2. (ChooseCountry(list, d, {}, {}, lookup).status = "estimated") <=> Within(list, d, key)
    BY <2>1, JoinedWithin, Zenon
  <2> QED
    BY <2>2 DEF lookup
<1> QED
  BY <1>1, Zenon DEF WithinDomainOnly, Within

\* For every suffix list and host name, of any number of rules and labels, the
\* search from the whole name down finds the public suffix by its definition, and
\* an outlet takes the country of exactly the names within its registrable domain.
THEOREM JoinsStopAtSuffixHolds == Spec => []JoinsStopAtSuffix
<1>1. JoinsStopAtSuffix
  BY WithinDomain DEF JoinsStopAtSuffix
<1> QED
  BY <1>1, PTL
=============================================================================
