--------------------------- MODULE EnrichedWorker ---------------------------
(***************************************************************************)
(* The first publisher, worker.py: it collects minute by minute, enriches  *)
(* each minute with the metadata datasets of enrich_metadata.py, and seals *)
(* the minutes of a batch together with the evidence they rest on.         *)
(*                                                                         *)
(* The metadata files of a minute are fetched by a pool of threads into a  *)
(* cache, each as a file and then a sidecar with its hash.  A file is its  *)
(* version: the source may replace it at any time.  A minute's enrichment  *)
(* is its report: for every source a version, Missing or Failure.       *)
(*                                                                         *)
(* One process runs, under a file lock; no other writer publishes, but a   *)
(* commit may land after its sender stopped waiting.  A failed download of *)
(* a minute, a disk or Hub error is a step of Fail.                        *)
(***************************************************************************)
EXTENDS Integers, Sequences, FiniteSets, SourceCountry

CONSTANTS
  None,          \* absent file, nothing sent
  Torn,          \* an enrichment directory that has lost its report
  First,         \* --start
  LastCutoff,    \* bound: the newest minute that gets old enough
  BatchMinutes,  \* --batch-minutes
  Sources,       \* the metadata files
  SourcesOf,     \* dataset_urls: those of a minute
  PSL,           \* the Public Suffix List, needed for every minute
  MaxVersion,    \* bound: replacements of a metadata file at its source
  MaxFaults      \* bound: failures and crashes in a behaviour

Minutes == First .. LastCutoff
Versions == 0 .. MaxVersion

\* Results of a fetch other than a version.
Missing == -1
Failure == -2
Writing == -3

ASSUME EnrichedAssumption ==
  /\ First \in Int /\ LastCutoff \in Int /\ First <= LastCutoff /\ BatchMinutes \in Nat \ {0}
  /\ SourcesOf \in [Minutes -> SUBSET Sources] /\ \A m \in Minutes : PSL \in SourcesOf[m]
  /\ PSL \in Sources /\ None \notin Versions \cup {Missing, Failure, Writing}
  /\ MaxVersion \in Nat /\ MaxFaults \in Nat

VARIABLES
  hub,      \* progress.json: the cursor and the receipt of the last batch
  log,      \* the batches published, oldest first
  late,     \* commit requests on the wire whose sender no longer waits
  batch,    \* request.json, ready.json, and whether the sealed files are whole
  enriched, \* enriched[m]: the report, or Torn
  cache,    \* cache[u]: the version of the file and the one its sidecar names
  pc,       \* where main is
  work,     \* the batch in memory: minute, missing, reports, evidence, fetched
  sent,     \* the commit request main waits for
  upstream, \* the version each source serves
  served,   \* source minutes that have been downloaded: they stay available
  cutoff,   \* the newest minute that is 48 hours old
  faults    \* failures and crashes so far

hubVars == <<hub, log, late>>
diskVars == <<batch, enriched, cache>>
envVars == <<upstream, served, cutoff>>
vars == <<hub, log, late, batch, enriched, cache, pc, work, sent, upstream, served, cutoff, faults>>

-----------------------------------------------------------------------------
(* Data.                                                                   *)

Reports == UNION {[SourcesOf[m] -> Versions \cup {Missing, Failure}] : m \in Minutes}

NoBatch == [request |-> None, ready |-> None, intact |-> FALSE]
NoCache == [file |-> None, sidecar |-> None]

NoWork == [minute |-> First, missing |-> {}, reports |-> [m \in Minutes |-> None],
           evidence |-> [u \in Sources |-> None], fetched |-> [u \in Sources |-> None]]

Complete(r) == (r.start .. r.end) \ r.missing

\* The sources a report cites, with their versions.
Cited(report) == {u \in DOMAIN report : report[u] \in Versions}

Init ==
  /\ hub = [next |-> First, receipt |-> None] /\ log = <<>> /\ late = {}
  /\ batch = NoBatch
  /\ enriched = [m \in Minutes |-> None]
  /\ cache = [u \in Sources |-> NoCache]
  /\ pc = "idle" /\ work = NoWork /\ sent = None
  /\ upstream = [u \in Sources |-> 0]
  /\ served = {}
  /\ cutoff = First
  /\ faults = 0

-----------------------------------------------------------------------------
(* The batch.                                                              *)

\* An exception: back to the top of the loop, the disk stays.
Abandon == pc' = "idle" /\ work' = NoWork /\ sent' = None

\* The turn finds a sealed batch.
TakeReady ==
  /\ pc = "idle" /\ batch.ready # None
  /\ pc' = "publish"
  /\ UNCHANGED <<hubVars, diskVars, work, sent, envVars, faults>>

\* build_batch: a request for the next minutes, one minute the first time.  A
\* request that is already there must start at the cursor.
StartBatch ==
  /\ pc = "idle" /\ batch.ready = None
  /\ hub.next <= cutoff
  /\ batch.request # None => batch.request.start = hub.next
  /\ LET span == IF hub.receipt = None THEN 1 ELSE BatchMinutes
         end  == IF hub.next + span - 1 <= cutoff THEN hub.next + span - 1 ELSE cutoff
     IN  batch' = IF batch.request # None THEN batch
                  ELSE [batch EXCEPT !.request = [start |-> hub.next, end |-> end]]
  /\ pc' = "collect" /\ work' = [NoWork EXCEPT !.minute = hub.next]
  /\ UNCHANGED <<hubVars, enriched, cache, sent, envVars, faults>>

\* After a minute: seal at the end of the request, or earlier when the evidence
\* is large or the disk nearly full; otherwise go on with the next minute.
Advance(missing, reports, evidence) ==
  \/ /\ work.minute < batch.request.end
     /\ work' = [minute |-> work.minute + 1, missing |-> missing, reports |-> reports,
                 evidence |-> evidence, fetched |-> NoWork.fetched]
     /\ pc' = "collect" /\ UNCHANGED batch
  \/ /\ batch' = [batch EXCEPT !.intact = TRUE, !.ready =
          [start |-> batch.request.start, end |-> work.minute, missing |-> missing,
           reports |-> reports, evidence |-> evidence]]
     /\ work' = NoWork /\ pc' = "publish"

\* The source minute is absent.
CollectMissing ==
  /\ pc = "collect" /\ work.minute \notin served
  /\ Advance(work.missing \cup {work.minute}, work.reports, work.evidence)
  /\ UNCHANGED <<hubVars, enriched, cache, sent, envVars, faults>>

\* It is there; an enrichment that exists is not made again.
CollectComplete ==
  /\ pc = "collect"
  /\ served' = served \cup {work.minute}
  /\ pc' = IF enriched[work.minute] = None THEN "fetch" ELSE "check"
  /\ UNCHANGED <<hubVars, diskVars, work, sent, upstream, cutoff, faults>>

-----------------------------------------------------------------------------
(* Enrichment of a minute.                                                 *)

Fetched(u, result) == work' = [work EXCEPT !.fetched[u] = result]

Pending(u) == pc = "fetch" /\ u \in SourcesOf[work.minute] /\ work.fetched[u] = None

\* Mutant: a file is used again only while it is the newest version.
KnownNewest(u) == cache[u].file = upstream[u] /\ cache[u].sidecar # None

\* fetch: a file with a sidecar is not downloaded again.
Known(u) == cache[u].file # None /\ cache[u].sidecar # None

FetchCached(u) ==
  /\ Pending(u) /\ Known(u) /\ cache[u].file = cache[u].sidecar
  /\ Fetched(u, cache[u].file)
  /\ UNCHANGED <<hubVars, diskVars, pc, sent, envVars, faults>>

\* The file is written, then its sidecar; other threads go on in between.
FetchBody(u) ==
  /\ Pending(u) /\ ~Known(u)
  /\ cache' = [cache EXCEPT ![u].file = upstream[u]]
  /\ Fetched(u, Writing)
  /\ UNCHANGED <<hubVars, batch, enriched, pc, sent, envVars, faults>>

FetchSidecar(u) ==
  /\ pc = "fetch" /\ work.fetched[u] = Writing
  /\ cache' = [cache EXCEPT ![u].sidecar = cache[u].file]
  /\ Fetched(u, cache[u].file)
  /\ UNCHANGED <<hubVars, batch, enriched, pc, sent, envVars, faults>>

\* 404 and any other error.
FetchNothing(u) ==
  /\ Pending(u) /\ ~Known(u)
  /\ \E result \in {Missing, Failure} : Fetched(u, result)
  /\ UNCHANGED <<hubVars, diskVars, pc, sent, envVars, faults>>

AllFetched == \A u \in SourcesOf[work.minute] : work.fetched[u] \notin {None, Writing}

\* build: with the suffix list there, the enrichment appears in one rename.
Enrich ==
  /\ pc = "fetch" /\ AllFetched
  /\ work.fetched[PSL] \in Versions
  /\ enriched' = [enriched EXCEPT ![work.minute] = [u \in SourcesOf[work.minute] |-> work.fetched[u]]]
  /\ pc' = "check"
  /\ UNCHANGED <<hubVars, batch, cache, work, sent, envVars, faults>>

Report == enriched[work.minute]

\* Mutant: only the suffix list is looked at.
FailedSuffixes(report) == report[PSL] = Failure

Failed(report) == \E u \in DOMAIN report : report[u] = Failure

\* The cache still holds what the report cites.
Backed(report) == \A u \in Cited(report) : cache[u].file = report[u]

\* A whole report backed by the cache: its sources join the evidence, once.
Check ==
  /\ pc = "check" /\ Report # Torn
  /\ ~Failed(Report) /\ Backed(Report)
  /\ Advance(work.missing, [work.reports EXCEPT ![work.minute] = Report],
             [u \in Sources |-> IF work.evidence[u] = None /\ u \in Cited(Report)
                                  THEN cache[u].file ELSE work.evidence[u]])
  /\ UNCHANGED <<hubVars, enriched, cache, sent, envVars, faults>>

\* A report with a failed source is removed, file by file, then the directory.
Purge ==
  /\ pc = "check" /\ Report # Torn /\ Failed(Report)
  /\ enriched' = [enriched EXCEPT ![work.minute] = Torn]
  /\ pc' = "purge"
  /\ UNCHANGED <<hubVars, batch, cache, work, sent, envVars, faults>>

PurgeDirectory ==
  /\ pc = "purge"
  /\ enriched' = [enriched EXCEPT ![work.minute] = None]
  /\ Abandon
  /\ UNCHANGED <<hubVars, batch, cache, envVars, faults>>

-----------------------------------------------------------------------------
(* Publication.                                                            *)

\* Mutant: a batch that has landed is not recognised.
AcknowledgedNever(r) == FALSE

Acknowledged(r) == hub.next = r.end + 1 /\ hub.receipt = r

Fits(r) == hub.next = r.start

Send ==
  /\ pc = "publish" /\ batch.intact
  /\ ~Acknowledged(batch.ready) /\ Fits(batch.ready)
  /\ sent' = [parent |-> Len(log), rec |-> batch.ready] /\ pc' = "commit"
  /\ UNCHANGED <<hubVars, diskVars, work, envVars, faults>>

FindAcknowledged ==
  /\ pc = "publish" /\ batch.intact /\ Acknowledged(batch.ready)
  /\ pc' = "clean"
  /\ UNCHANGED <<hubVars, diskVars, work, sent, envVars, faults>>

Confirm ==
  /\ pc = "landed"
  /\ pc' = "clean" /\ sent' = None
  /\ UNCHANGED <<hubVars, diskVars, work, envVars, faults>>

\* The batch directory goes first, then the cache.
CleanBatch ==
  /\ pc = "clean"
  /\ batch' = NoBatch /\ enriched' = [m \in Minutes |-> None]
  /\ pc' = "cleancache"
  /\ UNCHANGED <<hubVars, cache, work, sent, envVars, faults>>

CleanCache ==
  /\ pc = "cleancache"
  /\ cache' = [u \in Sources |-> NoCache]
  /\ pc' = "idle"
  /\ UNCHANGED <<hubVars, batch, enriched, work, sent, envVars, faults>>

\* The exceptions the state itself provokes.
Refused ==
  \/ /\ pc = "idle" /\ batch.ready = None /\ hub.next <= cutoff
     /\ batch.request # None /\ batch.request.start # hub.next
  \/ pc = "fetch" /\ \E u \in Sources : Pending(u) /\ Known(u) /\ cache[u].file # cache[u].sidecar
  \/ pc = "fetch" /\ AllFetched /\ work.fetched[PSL] \notin Versions
  \/ pc = "check" /\ Report = Torn
  \/ pc = "check" /\ Report # Torn /\ ~Failed(Report) /\ ~Backed(Report)
  \/ pc = "publish" /\ ~batch.intact
  \/ pc = "publish" /\ ~Acknowledged(batch.ready) /\ ~Fits(batch.ready)
  \/ pc = "commit" /\ sent.parent # Len(log)

Raise ==
  /\ Refused /\ Abandon
  /\ UNCHANGED <<hubVars, diskVars, envVars, faults>>

-----------------------------------------------------------------------------
(* Failures, the Hub and the sources.                                      *)

MayLinger == IF pc = "commit" /\ sent.parent = Len(log) THEN late' \in {late, late \cup {sent}}
                                                       ELSE UNCHANGED late

Fail ==
  /\ faults < MaxFaults /\ pc # "idle"
  /\ Abandon /\ MayLinger /\ faults' = faults + 1
  /\ UNCHANGED <<hub, log, diskVars, envVars>>

\* Power failure and restart.  A removal it interrupts leaves any of its files.
Crash ==
  /\ faults < MaxFaults
  /\ Abandon /\ MayLinger /\ faults' = faults + 1
  /\ batch' \in IF pc # "clean" THEN {batch}
                ELSE [request : {batch.request, None}, ready : {batch.ready, None}, intact : {FALSE}]
  /\ cache' \in IF pc # "cleancache" THEN {cache}
                ELSE {c \in [Sources -> [file : Versions \cup {None}, sidecar : Versions \cup {None}]] :
                        \A u \in Sources : /\ c[u].file \in {cache[u].file, None}
                                           /\ c[u].sidecar \in {cache[u].sidecar, None}}
  /\ UNCHANGED <<hub, log, enriched, envVars>>

Commit(q) ==
  /\ log' = Append(log, q.rec)
  /\ hub' = [next |-> q.rec.end + 1, receipt |-> q.rec]

\* Mutant: the parent revision is not compared.
AcceptsAnything(q) == TRUE

Accepts(q) == q.parent = Len(log)

Land ==
  /\ pc = "commit" /\ Accepts(sent) /\ Commit(sent)
  /\ pc' = "landed"
  /\ UNCHANGED <<late, diskVars, work, sent, envVars, faults>>

LandLate ==
  /\ \E q \in late : Accepts(q) /\ Commit(q) /\ late' = late \ {q}
  /\ UNCHANGED <<diskVars, pc, work, sent, envVars, faults>>

\* A source replaces one of its files.
Replace(u) ==
  /\ upstream[u] < MaxVersion
  /\ upstream' = [upstream EXCEPT ![u] = @ + 1]
  /\ UNCHANGED <<hubVars, diskVars, pc, work, sent, served, cutoff, faults>>

Tick ==
  /\ cutoff < LastCutoff
  /\ cutoff' = cutoff + 1
  /\ UNCHANGED <<hubVars, diskVars, pc, work, sent, upstream, served, faults>>

-----------------------------------------------------------------------------
Fetch(u) == FetchCached(u) \/ FetchBody(u) \/ FetchSidecar(u) \/ FetchNothing(u)

Step ==
  \/ TakeReady \/ StartBatch \/ CollectMissing \/ CollectComplete
  \/ (\E u \in Sources : Fetch(u)) \/ Enrich \/ Check \/ Purge \/ PurgeDirectory
  \/ Send \/ FindAcknowledged \/ Confirm \/ CleanBatch \/ CleanCache \/ Raise

Next ==
  \/ Step \/ Land \/ LandLate \/ Fail \/ Crash \/ Tick
  \/ \E u \in Sources : Replace(u)

Spec == Init /\ [][Next]_vars

-----------------------------------------------------------------------------
(* Properties.                                                             *)

IsRecord(r) ==
  /\ {r.start, r.end} \cup r.missing \subseteq Minutes
  /\ r.start <= r.end
  /\ r.reports \in [Minutes -> Reports \cup {None, Torn}]
  /\ r.evidence \in [Sources -> Versions \cup {None}]

\* TypeOK: what the files, the requests and the memory of the process may hold.
TypeOK ==
  /\ hub.next \in First .. LastCutoff + 1
  /\ \A i \in DOMAIN log : IsRecord(log[i])
  /\ hub.receipt # None => IsRecord(hub.receipt)
  /\ \A q \in late : q.parent \in Nat /\ IsRecord(q.rec)
  /\ batch.ready # None => IsRecord(batch.ready)
  /\ batch.request # None => batch.request.start \in Minutes /\ batch.request.end \in Minutes
  /\ enriched \in [Minutes -> Reports \cup {None, Torn}]
  /\ cache \in [Sources -> [file : Versions \cup {None}, sidecar : Versions \cup {None}]]
  /\ pc \in {"idle", "collect", "fetch", "check", "purge", "publish", "commit", "landed",
             "clean", "cleancache"}
  /\ work.minute \in Minutes
  /\ work.fetched \in [Sources -> Versions \cup {Missing, Failure, Writing, None}]
  /\ upstream \in [Sources -> Versions]

Sealed == {log[i] : i \in DOMAIN log} \cup ({batch.ready} \ {None})

\* Every batch that is sealed carries the evidence of its reports: no source of
\* a minute has failed, the suffix list was there, and each source a report
\* cites is enclosed in exactly the version the minute was enriched with,
\* although the sources change and the minutes are enriched hours apart
\* (build_batch of worker.py, fetch).
EvidenceComplete ==
  \A r \in Sealed : \A m \in Complete(r) :
    LET report == r.reports[m]
    IN  /\ (\A u \in DOMAIN report : report[u] # Failure) /\ report[PSL] \in Versions
        /\ \A u \in Cited(report) : r.evidence[u] = report[u]

\* The minutes that are enriched name outlets; whatever suffix list was fetched
\* and whatever outlet it is, its country is joined within its own registrable
\* domain (Suffixes.registrable, candidates and choose_country).
JoinsStopAtSuffix ==
  (\E m \in Minutes : enriched[m] \notin {None, Torn}) => WithinDomainOnly

\* "No local source is removed until that exact remote commit and its file
\* hashes are verified": a sealed batch leaves the disk only when it is in the
\* history, and a metadata file is never replaced or removed while an
\* enrichment on the disk cites it.
KeptUntilPublished ==
  [][/\ (batch.ready # None /\ batch'.ready # batch.ready) =>
          \E i \in DOMAIN log : log[i] = batch.ready
     /\ \A u \in Sources : cache[u].file # None /\ cache'[u].file # cache[u].file =>
          \A m \in Minutes : enriched'[m] \notin {None, Torn} => u \notin Cited(enriched'[m])
    ]_<<batch, enriched, cache>>

Published == UNION {Complete(log[i]) : i \in DOMAIN log}

\* The forward publisher implements Coverage: it claims each minute once and in
\* order, and what it finds missing stays a gap.
Abstract == INSTANCE Coverage WITH
  published <- Published, gaps <- (First .. hub.next - 1) \ Published, opened <- FALSE,
  floor <- hub.next, hi <- hub.next - 1, top <- hub.next

ImplementsCoverage == Abstract!Spec
=============================================================================
