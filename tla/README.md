# GDELT-News: a TLA+ verification project

This directory holds TLA+ modules that model the collector and the publishers of
GDELT-News, the TLC configurations that check them on small instances, and
theorems checked by TLAPS. Every definition is translated from the source
(`src/src/*.rs`, `src/scripts/*.py`); `PROJECT.json` maps each one to its lines.

## 1. The system

GDELT publishes, for every minute, one gzip file of overlapping text fragments
of news articles. A host runs a Python worker for ever. It asks a Rust collector
for ranges of minutes, turns the result into Parquet batches and commits them to
one dataset repository on the Hugging Face Hub. The worker has had three
generations: the enriched worker (`worker.py`), the chronological mode of the
compact worker, and its latest-first mode. Two tools migrate a published dataset
from one generation to the next.

| component | source | state it keeps | operations |
| --- | --- | --- | --- |
| latest-first publisher | `latest_first_worker.py`, on `compact_worker.py` and `worker.py` | a batch directory per lane (`request.json`, Parquet, `ready.json`), the frozen seam `latest-first-bootstrap.json`, `late-retries.json`, `scheduler-retries.json`; on the Hub `progress.json` and the commit history | plan, build, publish, acknowledge, remove; retry and restart |
| chronological worker | `compact_worker.py` | one batch directory, `late-retries.json`, `last_work_kind`; on the Hub forward cursor and retry queue | the same with one cursor; late files and new minutes take turns |
| enriched worker | `worker.py`, `enrich_metadata.py` | one batch directory, a report per enriched minute, a cache of metadata files with sidecars; on the Hub one cursor | collect, fetch metadata on threads, enrich, seal with evidence, publish |
| migrations | `migrate_compact.py`, `upgrade_native_metadata.py` | a staging directory, kept reconstructions | read the head, convert or rebuild each shard, replace tree and checkpoint in one commit |
| request pacing | `hub_traffic.py` | `next_request_at` under a lock | spaces the SDK requests of all threads, pauses after a 429 or a low allowance |
| collector | `main.rs`, `download.rs` | raw files with sidecars, per-run outcomes; shared counter, channel, cooldown | fetch minutes on several threads, reconstruct one file at a time |
| archive | `archive.rs` | articles, quarantine and manifest of a raw file | checkpoint, parse, write, describe |
| type 1 / type 2 reconstruction | `lib.rs`, `type2*.rs` | none (pure) | assemble fragments by overlap; bounded search for a unique assembly; best-effort text of all sections |
| exporter, parsers, benchmarks | `bin/gdelt-export.rs`, `metadata_parsers.py`, `measure_export.py`, ... | files they convert | sequential conversions |

How they interact. The worker runs the collector as a subprocess and reads its
`request.json`, `summary.json` and per-minute outcome files
(`collect_window`). The lanes of the worker share the process, the disk and
`progress.json`; they never run at the same time. Workers on different hosts and
the migrations share only the Hub, whose `create_commit` compares the parent
revision. The collector's threads share a counter, a bounded channel, the disk
and one `Retry-After` cooldown; the threads of an enrichment share the cache.

What is hard:

* three lanes replace one `progress.json`, and a commit may land although its
  response is lost, or land after the worker has given up on it;
* work is chosen under a snapshot up to 30 s old, and a batch on the disk may be
  older than the progress it must fit;
* a crash between any two of: request, files, `ready.json`, commit, removal;
* the seam between live and backward cursor is frozen on one disk while others
  may still publish in the old mode;
* a migration replaces the whole dataset from what it read hours before;
* live work, repairs with backoff and backward chunks compete for turns;
* metadata files are fetched concurrently, replaced at their source, and must
  be published in the version that the reports of a batch cite;
* collector threads race for the disk reserve and the cooldown, the channel is
  bounded, and a killed run leaves raw files without sidecars;
* threads that send requests to the Hub wait with the lock held.

What makes each component correct:

* publishers: no minute published twice, cursors equal to what the history
  covers, every young gap queued, retained work finished, every minute reached;
* migrations: every observation kept once, one format at every revision;
* enriched worker: the evidence of a batch is complete and of one version;
* lane choice: live work goes first, and no other lane starves while live turns are short;
* collector: what a run reports is what the archive holds, bytes are retained,
  the disk reserve and the cooldown are kept, every run ends;
* archive: a manifest only describes complete files;
* reconstruction: what an index skips could not be joined, an assembly called
  unique is unique, an exhausted search is never reported as an answer, and
  every fragment is in one section.

## 2. Modules

| module | models | kind |
| --- | --- | --- |
| `Coverage` | what the dataset promises about minutes | abstract specification |
| `LatestFirst` | publishers in the latest-first mode, their disks and the Hub | detailed specification, implements `Coverage` |
| `LaneScheduling` | whose turn it is, in relative time | detailed specification of one decision `LatestFirst` leaves open |
| `Chronological` | the loop of the chronological mode | detailed specification |
| `Migration` | both migrations and the earlier publishers, beside `Chronological` | composition, implements `Coverage` |
| `EnrichedWorker` | the enriched worker with its fetch threads and cache | detailed specification, implements `Coverage` |
| `SourceCountry` | public suffixes and the choice of an outlet's country | pure algorithm, against the definition of the list |
| `HubTraffic` | the request limiter and its threads | detailed specification |
| `Collector` | `collect`: threads, main loop, archive files, reruns | detailed specification |
| `Fragments` | fragments of an article and how they join | shared by the next four |
| `GreedyAssembly` | what type 1 reconstruction promises | abstract specification |
| `Type1` | `reconstruct` of `lib.rs` with its indexes and cursors | detailed specification, implements `GreedyAssembly` |
| `Type2` | `type2.rs`: assembly, search and segments; `type2_best_effort.rs` | detailed specification |
| `Reconstruction` | an article of either segmentation type | composition of `Type1` and `Type2` |
| `LatestFirstProofs`, `LaneSchedulingProofs`, `MigrationProofs`, `EnrichedWorkerProofs`, `HubTrafficProofs`, `CollectorProofs`, `Type1Proofs`, `Type2Proofs` | theorems of the module in their name | proofs |
| `MCLatestFirst`, `MCLaneScheduling`, `MCMigration`, `MCEnrichedWorker`, `MCCollector`, `MCReconstruction` | instances: symmetry sets, texts, fairness and liveness of one instance | model checking |

`LatestFirst` and `LaneScheduling` divide one program. `LatestFirst` has the
batches, the disks and the Hub, and lets any lane with work have the next turn.
`LaneScheduling` has the order of the lanes, the retry delays and the cooldown,
and treats a turn as a step that succeeds, finds its source missing, fails or is
rate limited. What it shows (`HistoryGetsTurns`, `RepairGetsTurns`, live lane
first) is what the fairness of `LatestFirst` assumes of `Choose`. `Collector` is
the subprocess behind `Collect` of `LatestFirst` and `Build` of `Chronological`:
`OutcomesTrue` and `ReportAgrees` are what `collect_window` takes from its files.
In `LatestFirst` a chronological publisher only commits (`LegacyForward`,
`LegacyRepair`); its loop is `Chronological`.

### LatestFirst

A worker is one host: `pc` is its place in `run_scheduler`, `disk[w][l]` the batch
directory of a lane (`request`, `ready`, and whether the files still match
`ready`), `initial[w]` the frozen seam, `snapshot[w]` the cached progress,
`window[w]` the collection window of the running process, `sent[w]` the request it
waits for. The Hub is `hub` (`progress.json` at the head), `log` (the records of all
commits) and `late` (requests whose sender no longer waits but that may still be
applied).

| action | code |
| --- | --- |
| `Refresh` | read the remote progress, freeze the seam once (lines 226-241) |
| `Choose` | `choose_work` with pending work first; `request.json` (242-271) |
| `Collect`, `Reuse` | `build_batch` without and with a ready batch |
| `FindAcknowledged`, `Send` | `publish`: acknowledgement, checks, new progress, commit |
| `Land`, `LandLate` | `create_commit` applied by the Hub, in time or late |
| `Confirm`, `Clean` | verification, `remove_owned` |
| `Raise` | exceptions the state provokes: conflict, refused parent, damaged batch |
| `Fail`, `Crash` | any other exception or lost response; power failure and restart |
| `LegacyForward`, `LegacyRepair` | commits of a publisher in the chronological mode |

A batch is its record (interval and missing minutes); equal records have equal
receipts. Articles, Parquet and quotas are left out.

### LaneScheduling

Time moves in half minutes, the smallest retry delay. A queued minute is its age
and a timer is what is left of it, so a process may run for ever in finitely many
states. `Start` is `choose_work` (`RepairPlan`, `YieldToBackfill`, `Before`); the
disjuncts of `Finish` are what a turn may come to; `RateLimited` is a 429;
`Restart` loses `repair_streak` and keeps the files. The streak is counted exactly
up to the burst and modulo four beyond it, which is all the code asks of it.
`seen` is a history variable that no step reads: whether a backward chunk could
run, the probes completed since, and the probes in a row that passed over an
older minute.

The reserved probe of an older gap is reserved within a burst.
Every backward chunk resets `repair_streak`, so `BurstReservesOlder` speaks of the probes
between two chunks: when fewer fresh minutes than that are due between chunks, no
reserved probe is reached.

### Chronological and Migration

`Chronological` is `main` of `compact_worker.py` without `--latest-first`: `pc[h]` is
the place in the loop, `last[h]` is `last_work_kind`, `waiting[h]` the minutes that
`late-retries.json` defers. `NextPlans` is `next_plan`: a late file is looked for when no
new minute is old enough, or near the newest minute after forward work.

| action | code |
| --- | --- |
| `TakeReady`, `StartBuild` | the top of the loop: a ready batch, a request, or `next_plan` |
| `Build` | `build_batch`, sealed at a collection window or at the end |
| `Judge` (in both) | a repair that found its minute missing is deferred and not published |
| `Send`, `FindAcknowledged`, `Land`, `LandLate`, `Confirm` | `publish` and the Hub |
| `Clean`, `Raise`, `Fail`, `Crash`, `Expire` | removal, exceptions, restart, a delay that ends |

`Migration` adds the tools. `tool` is the migration in progress: what it read at
its parent (`progress`, `todo`) and what it has converted (`out`). `ToolConvert` is
`convert_parquet`; `ToolRebuild`, `ToolAccept` and `ToolRefuse` reconstruct a batch of a
v2 dataset and compare it with the published one; `rebuilt` are the
reconstructions that reruns find again. `unqueued` is a history variable: the minutes that
enriched batches missed. Their pipeline has no retry queue, and `migrate` starts the new one
empty (`migrate_compact.py:77`), whatever the age of those minutes: the enriched
pipeline stays 48 h or more behind (`worker.py:370`), the compact one retries for
up to 168 h (`compact_worker.py:355`), so with a window beyond the lag a young gap is dropped.
`GapsQueued` leaves exactly these minutes out. `ToolLand` replaces tree and checkpoint in one
commit. `EarlierForward`, `EarlierRepair` and `EarlierLeaves` are the publishers of the
earlier pipelines: they only commit, or leave a batch on a disk.

### EnrichedWorker and SourceCountry

`work` is the batch in memory: its current minute, the reports and evidence so far and the
results of the minute's fetches. `cache[u]` has the version of a metadata file and the
version its sidecar names, which may differ when a writer stops between the two.
`FetchCached`, `FetchBody`, `FetchSidecar` and `FetchNothing` are the steps of the pool's
threads; `Enrich` is `build`, which publishes a minute's report in one rename; `Check`,
`Purge` and `PurgeDirectory` are what `build_batch` does with it; `Send` to `CleanCache`
are `publish` and the removal. `Replace` changes a file at its source, `Crash`
may interrupt either removal.

`SourceCountry` translates `Suffixes.registrable`, `candidates` and `choose_country`;
`Look` is one label of the loop. `PublicSuffixLength` is the definition of the Public Suffix List
they are compared with. `EnrichedWorker` extends it: the country of an outlet is one of the datasets of a minute.

### HubTraffic

`Enter`, `LetThrough` are the request hook, which sleeps with the lock held; `RunsLow` and
`Note` the response hook, which needs the lock to set a pause. `reported` is what
responses have announced on arrival, `noted` what has passed the hook, `last` the
last request that was let through.

### Collector

`thread[t].pc` follows `Downloader::fetch`: `cache`, `wait` (the shared cooldown),
`space` (the disk is checked and the request sent), `request`, `save` (body in a temporary file), `sidecar`, `send`. `main`
follows the loop of `run`: `take`, `process`, `output`, `manifest`, `record`, and
`abort` when an outcome cannot be written. Raw files and sidecars belong to a
minute, the files of `process` to a content hash, so two minutes with equal
content share them. `Kill` ends a run anywhere and leaves temporary files,
`Start` runs the same command again, `Damage` spoils a file between runs,
`Publish` changes the source, `Elapse` lets the cooldown run down.

The lock on the cooldown is released once it has been read, so between `AwaitCooldown` and
`Admit` another thread may be told to wait. The thread that has looked already sends its
request all the same. `early` is a history variable that no guard reads: the threads in
that position when a `Retry-After` was noted. `CooldownRespected` allows each of them
this one request and nobody else any.

A source object is a version: `Malformed` versions are rejected by `process`,
`Dirty` ones have records for the quarantine file. A file is replaced in one step
(temporary file, sync, rename), which is what `persist` gives.

### Type1, Type2 and Reconstruction

An article is a sequence of fragments sorted by position; a fragment is a
sequence of tokens (words in `lib.rs`, grapheme clusters in `type2.rs`) and a
position. `Fragments` has what both pipelines do with them: compare the last or
first `k` tokens of the assembly with the first or last `k` of a fragment, and add the
rest.

`Type1`: `Join` and `Stop` are one round of the loop of `reconstruct`. The
variable `cursor` holds, for both indexes and every node, where `Index::candidate` goes on.
A cursor is never moved back; it may pass a fragment only because
the fragment can never be joined there again. `GreedyAssembly` has no cursors and looks at all
fragments in every step.

`Reconstruction` gives a group of fragments to one of them by its segmentation type, as
`process` does; the run checks both on it.

`Type2`: `phase` is the place in `reconstruct` of `type2.rs`.

| action | code |
| --- | --- |
| `Extend`, `FinishAssembly`, `Ambiguous` | the loop of `assemble` with `step`: a duplicate, a safe join, or a conflict |
| `Pop`, `Solved`, `Follow`, `Repeated`, `Branch`, `Explored` | the loop of `search` over its stack, with `visited` and `budget` |
| `RunOut` | budget, stack or memory exhausted, before or between the joins of a branch |
| `Open`, `CloseIsland` | the segments that the fragments left over are assembled into |
| `Seeded`, `MergeHeld`, `MergeOverlapping`, `MergeUnsupported`, `Finish` | `assemble_best_effort`: one text of all sections, with a window and a budget of comparisons |

An assembly (`State`) keeps its dead ends, which spare it lookups. The lookup
structures (trie and hash buckets, dense index) are abstracted to the set of
fragments that fit; memory limits, which depend on them, to a choice. Normalisation of the
text before, and its formatting after, are left out.

## 3. Runs

| run | instance | what it shows |
| --- | --- | --- |
| `single` | one publisher, a clock of two minutes, windows 1 and 2, one fault | type invariant; the queue matches the history; a landed commit stays acknowledged for its lane; a repair on the disk stays queued; only published work is removed; the history implements `Coverage`; all work finishes and both cursors arrive |
| `pair` | two publishers and a chronological one that goes on, one fault | cursors match the history and are monotone; no gap is forgotten in the handover; no minute is published twice but one repaired behind the frozen seam |
| `torn` | one publisher, removals that stop half way | violated: a lane may be stuck for ever (finding 1) |
| `legacy` | repairs of the chronological mode, no fault | violated: a minute is published twice (finding 2) |
| `lanes` | burst of 4, retry window 6, all lanes fail at will | a burst ends before a waiting backward chunk; its reserved probes go to older gaps; neither history nor repairs starve, if live turns get shorter than a minute |
| `burst` | the burst of 20 of the code | violated: more than four recent probes run before a waiting backward chunk (finding 4) |
| `migration` | one host, one migration at a time from either earlier format, one fault anywhere | every observation once in tree and total; one format at every revision; queue and gaps agree but for those of enriched batches; only published work is removed; the dataset implements `Coverage`; repairs and new minutes do not starve each other |
| `enriched` | three minutes, batches of up to two, a suffix list and one other source, each replaced once, two faults; suffix lists of up to three rules | published evidence is complete and of one version and is kept until published; the history implements `Coverage`; every minute gets published; a country is joined only within its registrable domain |
| `hub_low` | three threads, seven seconds, two low responses | violated: a request passes inside a reported pause (finding 3) |
| `collector` | two threads, two minutes, two contents, two runs, two faults | outcomes are true, summaries agree with them, a manifest is written last, the disk reserve is kept, nobody who looks at a noted cooldown sends inside it, verified files stay, bytes are retained |
| `collector_live` | two threads, four minutes, channel of two, one fault | every run ends, also when a thread waits at the full channel as the main thread aborts |
| `reconstruct` | articles of up to 4 fragments. Type 1: 7 texts over two words, 3 positions. Type 2: 5 texts over two characters, gap 2, search with a budget of 16 or none, stack of 5 | type 1: cursors pass only what stays ineligible; the index implements `GreedyAssembly`. Type 2: dead ends stay dead; `search_status` is true of all assemblies; every fragment is in one section and every section in the best-effort text |

### Bounds

*Publisher.* Two live batches, two backward chunks (seam to floor) and a gap that
crosses the edge of the retry window are what its rules distinguish; the clock of
`single`, a live span of 1 and `Retry` of 2 give all of them. `single` restarts with another
window (1 or 2), which seals chunks early. `pair` has a standing clock: a race of commits
needs two hosts on one head. One fault is enough for each hazard
taken alone; a lost response, a late request and a restart are each one fault, and
a request that lands late is in flight beside the retry.

*Lanes.* `FRESH_REPAIR_BURST` is scaled from 20 to 4, a multiple of four as in the
code, the retry window from 24 h to 3 minutes and the caps accordingly. `MaxBacklog`
stops counting live minutes at two, where the planner no longer distinguishes
them; `MaxTries` stops counting attempts where the delays reach their caps. Live turns
take half a minute or a whole one: longer ones add nothing, since one of a minute
already leaves the next minute due. `burst` has the burst of the code.

*Migration.* Three or four minutes make up to three shards of one or two minutes, forward and
repaired. A conversion that another commit has overtaken could only be
refused and is not followed (`Overtaken`); an earlier publisher that commits during a migration
counts as a fault (`Unstopped`). `EarlierLag` equals `Retry`, so a minute the enriched
pipeline has missed may still be inside the retry window when the dataset is migrated.

*Enriched worker.* One minute, then a batch of two; two sources (the suffix list every
minute needs, and one it does not need); two faults interrupt
a retry after an interruption. The suffix lists are all sets of up to three rules of one or two labels
over two labels, the hosts all names of up to three labels: every pair of rules that
overlap, with the exception or wildcard that decides between them, is among them.

*Hub requests.* Three threads: one that sleeps, one whose response waits for the lock,
one that takes the lock first.

*Collector.* Two threads and a channel of two: in a run of four minutes (`collector_live`)
the main thread may have one, the channel hold two, and a thread wait with the fourth when
the main thread aborts. That run leaves out contents that `collector` has. Two runs are needed for everything found in the archive, and two faults
for a kill after a disk error or a damaged file after a kill. The disk has room for four
files beside the reserve: with less, the reserve hides the retry of a download next to copies
set aside; with more, it is not reached.

*Reconstruction.* Four fragments let an assembly grow at both ends and move a
bound past a fragment that was looked at before. Texts over two tokens overlap with
themselves and each other, so ties, duplicates and joins at either end occur. In
the texts of type 2 the token `-` is not meaningful; positions 0, 1 and 3 with a gap of 2
are near, at the gap and beyond it. The overlap minimum is scaled from the
default to 1, the stack from 64 to 5 and the budget to 16, so that the search finishes in
some articles, repeats a state in others, and runs out in others. A window of 2 and 14
comparisons make the best-effort assembly meet both limits.

Liveness is checked without symmetry. `CHECK_DEADLOCK FALSE` stands where the system
ends by design or at a bound of the model: `collector_live` (the last run is over),
`enriched` (every minute of the bounded clock is published, or a crash has
left what no retry gets past), `migration` (the clock is at its bound and nothing is queued, or the
dataset was never converted), `hub_low` (the clock is at its bound and a pause
reaches beyond it). In the other runs some step is always possible.

### Fairness

`LatestFirst`: weak fairness on every step of a process that goes on by itself and
on the Hub's answer; strong fairness on `Choose` per lane. Strong, because
another lane may be in work whenever one is chosen: a lane that has work again
and again gets a turn. That is what `LaneScheduling` shows of `choose_work`.
Nothing is assumed of failures but that they are finitely many
(`MaxFaults`); `Fail`, `Crash` and `LandLate` are never forced.

`LaneScheduling`: weak fairness on the clock, on starting a lane and on ending a
turn. Lanes may fail for ever, repairs may be due at every moment, and no assumption is made
on the length of backward chunks and probes. Live turns are different: `choose_work` takes live work
whenever there is some (`latest_first_worker.py:105`), and nothing bounds how long such a turn
takes. If each takes a source minute or more, live work is always due and neither history nor repairs
ever run; the comment of `choose_work` and `deploy/README.md:94` want that precedence.
And if such turns go on for ever between shorter ones, they may fill every delay of a failing
repair, so that the repair has each free turn: a failed lane does not raise `repair_streak`.
`HistoryGetsTurns` and `RepairGetsTurns` therefore assume `LiveIsShort`, that from some point on
live turns end within a minute; the run has turns of both lengths.

`Migration`: weak fairness on the loop of a host with the Hub's answer, on the end of a delay and on
the clock; the tools are run by hand and are never forced.

`EnrichedWorker`: weak fairness on the loop and on the clock, and strong fairness on the
download of each file: a source that is asked again and again answers in the end. It is
the weakest assumption under which a minute with a failing source can finish, since
`build_batch` repeats it until no source has failed.

`Collector`: weak fairness on each thread, on the main thread and on time. The
operating system schedules threads, and the HTTP client has a timeout, so
every request is answered or fails.

Liveness properties name what they need: `HistoryGetsTurns` and `RepairGetsTurns` as said above. `AllWorkFinishes` leaves out
behaviours in which a restart with a smaller window has sealed a backward chunk short of its
newest minute (`SealedEarly`): no retry publishes it. `BatchesFinish` leaves out
what only an operator can remove (`Stuck`): the remains of a removal or purge that a
crash cut short, and a cached file whose sidecar disagrees.
`WorkGoesOn` speaks of behaviours that end `Clear`: the dataset is native and no disk holds a
batch of another format, damaged, or refused for ever (`Leftover`).

## 4. Findings

1. `torn`, `worker.py:81`. `remove_owned` deletes a published batch with
   `shutil.rmtree`. A power failure inside it may leave `ready.json` without its
   files, or `request.json` alone whose rebuilt batch differs. The lane then raises for
   ever. `deploy/README.md:115` promises that a power failure retries the same batch.
2. `legacy`, `latest_first_worker.py:125`. The first live commit starts from the
   frozen copy of the progress and checks only the forward cursor. A repair
   published by the chronological mode meanwhile is overwritten: its minute is queued
   and published again. `deploy/README.md:177` promises that no progress is
   overwritten silently.
3. `hub_low`, `hub_traffic.py:55`. The request hook sleeps with the lock held, and the
   response hook needs the lock to set a pause. A response that reports the allowance spent while
   a thread sleeps is noted only after that thread's request has gone out.
   `hub_traffic.py:39` and `deploy/README.md:138` promise to stop before exhaustion. What does hold,
   `PausesKept`, is proved: no request passes a pause that has been noted.
4. `burst`, `latest_first_worker.py:104`. `deploy/README.md:94` says that up to four
   recent repair attempts can run between backward chunks. The code yields after 20
   (`FRESH_REPAIR_BURST`), as `deploy/README.md:127` says: the two passages disagree and the first
   is out of date.

## 5. Proofs

`LatestFirstProofs` proves, for every number of workers, windows, clock and fault
bound:

* `TypeCorrect`: `Spec => []TypeOK`. `TypeOK` alone is not inductive: a process
  reads its plan, its batch and its request without a check. `TypeInv` adds what
  is on the disk of a lane (`DiskOK`), what each program point has (`ProcOK`) and
  what is on the wire (`WireOK`).
* `CursorsMatchHistoryHolds`, `NoGapForgottenHolds`, `RepeatsOnlySeamRepairsHolds`: from one
  inductive invariant `HistInv` over the history and the progress at the head, whatever a
  chronological publisher repairs. Its core is about requests: one whose parent is the head
  carries the progress that `Advanced` makes of the head and a record that fits it, also when
  its sender is gone. A request with an older parent cannot land. The seam adds that a frozen
  bootstrap whose floor is still the forward cursor agrees with the legacy progress up to
  what was repaired since, and that these minutes are the only ones that come twice.
* `NoMinuteTwiceHolds`, `GapsQueuedHolds`: from the same invariant, when the chronological mode
  commits no repairs (`"repair" \notin LegacyKinds`). Run `legacy` shows that `NoMinuteTwice`
  fails without it; `pair` checks the two weaker properties with repairs allowed.
* `CursorsMonotoneHolds`: the action property, from the same invariant.
* `RemovedOnlyPublishedHolds`, for any number of publishers: a batch is removed when the head
  acknowledges it or after a commit of its own. `AckOK` says that every acknowledgement, at the
  head and in every progress on the wire, names a commit of the history; `BatchOK` that the
  program points between the answer and the removal are reached only with a published batch.
* `LandedIsAcknowledgedHolds`, `RepairStaysQueuedHolds`, under `OnePublisher`: one worker, next to
  a chronological publisher that no longer repairs. They need it: of two workers one may
  publish the next batch of a lane, or let old minutes leave the queue, while the other still has
  the earlier work on its disk. `SoloInv` adds
  to the invariants above that a request in flight is the one its lane waits for or one whose batch is still on
  the disk (`SentOK`, `LateOK`), that a lane's work on the disk starts where at most one commit of its kind
  does (`Unique`), that plans are made from what the head still says (`SnapshotOK`), and that no
  request in flight takes the minute of a repair out of the queue (`QueueOK`).
* `CoverageImplemented`: `Spec => AbstractCoverage!Spec`, every commit one step of
  `Coverage`, everything else a stutter; without repairs of the chronological mode, which
  claim a minute that is already claimed.

All of these hold with removals that stop half way (`TornCleanup`).

`LaneSchedulingProofs` proves, for every retry window, burst, cap, turn length and number
of faults:

* `TypeCorrect`: the queue stays inside its window and the timers inside their caps (no delay of a
  missing minute or a failed lane grows beyond its cap). It rests on
  `Overdue` being defined, that is on a finite set of due minutes having a least one
  under the order of `RepairPlan` (well-founded induction on the numbers).
* `BurstBoundedHolds`: probes are counted in `seen.probes` only while a backward chunk could run;
  as long as it can, `streak` is at least that count, and `YieldToBackfill` stops at `Burst`.
* `BurstReservesOlderHolds`: `seen.passed` in a row force `streak` through every residue
  modulo four, and at three `RepairPlan(TRUE)` takes an older minute when one is due.

`MigrationProofs` proves about `Migration`, and so about `Chronological`, for any number of
hosts, minutes, faults and migrations:

* `TypeCorrect`: files, processes, requests and tools keep their types.
* `EachObservationOnceHolds`, `TreeUniformHolds`, `GapsQueuedHolds`: from one inductive
  invariant `MInv`. `HeadOK` says that the head counts what its tree holds, in one format,
  up to its cursor. `RequestsOK` says that a request whose parent is the head moves it as
  `publish` may, and `ToolsOK` that a migration whose parent is the head has read
  the head and converted exactly the shards that are not left to do. Whatever has an older parent says
  nothing and cannot land. `GapsQueuedHolds` needs no relation between the lag of the enriched
  pipeline and the retry window: its gaps, `unqueued`, are not in the queue and
  nothing brings them there.
* `CoverageImplemented`: `MSpec => Abstract!Spec`; a migration is a stutter of `Coverage`.
* `RemovedOnlySettledHolds`, for any number of hosts: what leaves a disk has its rows in the tree
  and its minutes before the cursor, or is a repair that found nothing (`RemovalInv`: the receipt
  at the head, the receipt a request carries and the batch about to be removed are
  all of that kind). With two hosts the rows may be those of the other host's batch of the same
  minutes, so the batch itself need not be in the history.
* `RemovedOnlyPublishedHolds`, under `OneHost`: it is in the history. `AloneOK` adds that the requests
  of the host carry the batch on its disk and that none of them is acknowledged yet.

`EnrichedWorkerProofs` proves, for any sources, batch length, replaced files, failures and crashes:

* `TypeCorrect`, `EvidenceCompleteHolds`: from `Inv`. `CitedOK` says that the cache still has, with
  its sidecar, each version an enrichment on the disk cites: a file with a sidecar is never
  written again, and the cache is cleaned after the enrichments. So a source that two minutes
  of a batch cite is the same version in both, and the copy made for the first is right for the second (`BuildOK`).
* `KeptUntilPublishedHolds`: while a minute is built nothing is sealed, and only a batch that
  is in the history is cleaned (`PublishOK`), also when a late commit brought it there.
* `CoverageImplemented`: a request whose parent is the head starts at the cursor (`WireOK`), so
  every commit is one `Extend` of `Coverage`.
* `JoinsStopAtSuffixHolds`, about `SourceCountry` and so for suffix lists of any size and names of any length.
  `LookFinds` says what the search knows after each label: the first exception
  ends it, and without one it has the longest length the rules so far offer (`FoundUpTo`).
  `SuffixFound` concludes that `registrable` agrees with `PublicSuffixLength`, and `JoinedWithin` that
  the nearest candidate with a country is a name within the registrable domain. The induction over
  labels is on the set of positions where the fact holds (`Upto`, from the least element of a set of
  numbers); the function that `SuffixLength` defines by recursion exists by the same argument (`SearchDefined`).

`HubTrafficProofs` proves `PausesKeptHolds` under `TrafficConstants`, for any number of threads:
requests are apart and outside every pause that was noted.

`CollectorProofs` proves every safety property of `Collector`, for any number of threads,
minutes, attempts, runs and faults and every content of the source:

* `TypeCorrect`, from `TypeInv`: a thread has a minute at its program points, and a valid body
  when it writes the sidecar.
* `DiskReserveKeptHolds`: the files there are and those that open requests may bring never exceed
  what `Reserve` leaves. Only `Admit` adds to them, and it asks for room for
  one file of every thread; setting aside, receiving and saving move a file, a kill turns it into litter.
* `CooldownRespectedHolds`: what is owed never exceeds the shared cooldown, and while something is
  owed the threads between their look and their request are those in `early` (`CooldownInv`).
  So a thread that looks after the 429 waits, and one in `early` leaves the set as it sends.
* `ManifestIsLastHolds`, `VerifiedStaysHolds`.
* `OutcomesTrueHolds`, `BytesRetainedHolds`: from `Order` and `Truth`. `Order` says that a claimed
  minute has one holder: a thread, a place in the channel, the main thread or its outcome file. So
  no step of another thread touches the files a result speaks of, and `Truth`, which
  says what each holder knows of those files, stays true on the way.
* `ReportAgreesHolds`: from `Order` and `Covered`, that no claimed minute is without a holder; when the
  channel is empty and the threads are done only outcomes are left.

`Type1Proofs` proves, for every set of texts and positions and every number of
fragments:

* `TypeCorrect`: `Type1Spec => []Type1OK`.
* `PassedStayIneligibleHolds`: the comment of `Index` that an ineligible entry
  stays ineligible. `used` only grows and the bounds only move outward (`Bounds` takes
  minimum and maximum), so what is ineligible stays so; a cursor moves
  only to the first eligible entry. With `Type1OK` this is inductive (`IInv`).
* `GreedyImplemented`: `Type1Spec => Greedy!Spec`. Under the invariant, the candidates
  ahead of a cursor are all that fit, and overlaps longer than the longest fragment
  have none, so the cap loses nothing. Every `Join` is a step of
  `GreedyAssembly`, by the same choice of overlap, fragment and end.

`Type2Proofs` proves, for any fragments, overlap and gap limits, budgets and stack:

* `DeadEndsTrueHolds`. `ApplyFresh` is the argument the resets in `State::apply` need: if an end
  stays dead across a join, its border did not move and either nothing was added or the
  text grew at the other end beyond the longest fragment. Then every overlap of that end within the
  fragments' length lies in the old text (`OtherEdge`), and a join there now would have been one before.
* `EveryFragmentOnceHolds`. `Good(s, base)` says that an assembly holds each fragment of `used`
  beyond `base` exactly once in `order`. The search works on `base = {}`; an island has for
  `base` what the last section used, so `Close` can add it to the sections (`CloseKeeps`), whether
  it is a branch the search found or the text before the search.
* `SectionsPreservedHolds`. That a section holds its fragments is part of `Good` (`Whole`): the joined text
  holds the old one (`HoldsAppended`, `HoldsPrepended`) and, since the overlap is the same in both, the fragment. `MergeOK`
  says of the best-effort text that joined and waiting sections are all sections, each once
  (`Parted`), that every joined one is held, and that breaks and guesses are equally many: a section
  that overlaps brings only tokens, and no overlap goes across a break because sections have none.
* `StatusTrueHolds`. `SearchTrue` says of the search that what it holds is among all assemblies (`Met`), and
  that nothing of these is lost (`Covers`): some set of keys holds the first fragment and, with every
  key that no branch has open, the text of a completion already found or every key its joins lead to.
  The set grows with each join; a branch skipped as repeated needs no more, because its
  key has been followed and equal keys have equal joins whatever their dead ends say (`AlikeStep`,
  which rests on `DeadEndsTrue`). When nothing is open the set holds every complete assembly (`CoversAll`), so
  what was found is all there is. `Reached`, which both parts speak of, is defined by recursion; that
  the function exists is proved from the chains of joins (`LevelsExist`), and induction on it is an
  argument about the least element of a set of numbers (`Numbers`).
* `TypeCorrect`, from the same invariant.

The theorems assume the named assumptions on the constants and nothing else but
what is said above. Only model-checked: all liveness (`AllWorkFinishes`, `HistoryGetsTurns`,
`RepairGetsTurns`, `RunEnds`, `WorkGoesOn`, `BatchesFinish`), which is out of the prover's reach. Every
invariant and action property that a run checks and that holds is a theorem, for the constants
its bullet names.

## 6. Not modelled

* Parsing, limits, text and formats of articles and metadata
  (`metadata_parsers.py`, the parsers of `archive.rs`, Parquet columns): sequential data
  conversion without state; the models keep only whether a file is accepted.
* The lookup structures of `type2_index.rs` and the prefix function of
  `type2_best_effort.rs`: data structures of one call; what they find is a set.
* `import` and `reconstruct` of the collector: the same main loop over local files, without
  threads or network.
* Exporter, benchmarks, validation scripts: run by hand on files, they change
  no state of the system.
* The Hub's storage limit, quotas and the upload budget: a refused upload is a `Fail`.
* The installation of the limiter's hooks and the parsing of rate-limit headers.

## 7. What is left

* The dense index of `type2_index.rs`: failure links and anchors against the set
   of fragments that fit.
