----------------------------- MODULE Collector -----------------------------
(***************************************************************************)
(* The collect command of the Rust collector: main.rs, download.rs and the *)
(* file protocol of archive.rs.                                            *)
(*                                                                         *)
(* Download threads claim the minutes of the interval and send what they   *)
(* get through a bounded channel; the main thread reconstructs one file at *)
(* a time and writes one outcome per minute.  The archive directory        *)
(* outlives the process: a run that fails or is killed is started again    *)
(* on what its predecessors left.                                          *)
(*                                                                         *)
(* Abstractions:                                                           *)
(*  - a source object is a version, which stands for its bytes and their   *)
(*    sha256; files derived from it are named by that hash;                *)
(*  - a file is replaced in one step (temporary file, sync, rename), and   *)
(*    every file a download leaves takes MaxDownload of the disk;          *)
(*  - the archive is locked, so there is one process;                      *)
(*  - time passes only for the shared cooldown; the pauses between two     *)
(*    attempts are part of any delay of a thread.                          *)
(***************************************************************************)
EXTENDS Integers, Sequences, FiniteSets

CONSTANTS
  Threads,     \* --downloads: as many threads as places in the channel
  Last,        \* the interval is the minutes 1..Last
  None,        \* absent file, 404
  Failed,      \* a fetch that failed
  Damaged,     \* bytes that are no source object
  Versions,    \* contents of source objects
  Malformed,   \* those process rejects
  Dirty,       \* those with records for the quarantine file
  Attempts,    \* --attempts
  MaxWait,     \* the longest Retry-After that is waited for (300 s)
  Waits,       \* what Retry-After may ask for
  MaxDownload, \* --max-download-mib
  MinFree,     \* free space the operator keeps
  Space,       \* bound: disk for downloads, besides derived files
  MaxRuns,     \* bound: runs of the command
  MaxFaults    \* bound: disk errors, damaged files and kills

ASSUME CollectorAssumption ==
  /\ IsFiniteSet(Threads) /\ Threads # {}
  /\ Last \in Nat \ {0} /\ Attempts \in Nat \ {0}
  /\ IsFiniteSet(Versions) /\ Malformed \subseteq Versions /\ Dirty \subseteq Versions
  /\ {None, Failed, Damaged} \cap Versions = {}
  /\ None # Failed /\ None # Damaged /\ Failed # Damaged
  /\ MaxWait \in Nat /\ Waits \subseteq Nat
  /\ MaxDownload \in Nat \ {0} /\ MinFree \in Nat /\ Space \in Nat /\ Space >= MinFree
  /\ MaxRuns \in Nat /\ MaxFaults \in Nat

ASSUME NoneAssumption == None \notin {"complete", "missing", "failed"}

VARIABLES
  \* the source
  server,     \* the object of a minute, or None
  \* the archive
  raw,        \* the raw file of a minute
  sidecar,    \* its .source.json: the hash it names
  aside,      \* its .unverified copies
  litter,     \* temporary files of killed processes
  output,     \* the articles file of a raw hash
  quarantine, \* its quarantine file
  manifest,   \* whether its manifest exists
  \* the process
  running,
  next,       \* the shared counter
  thread,     \* what a download thread does
  channel,
  cooldown,   \* the shared cooldown, as what is left of it
  main,       \* what the main thread does
  item,       \* the message it handles: minute and result
  outcome,    \* the per-minute files of the run directory
  summary,    \* counters of the main thread
  report,     \* summary.json of the last run
  \* bounds and history
  runs,
  faults,
  owed,       \* the longest Retry-After still to be respected
  early,      \* threads that looked at the cooldown before it and have not sent since
  absent      \* minutes that were answered 404 in this run

raws == <<raw, sidecar, aside, litter>>
derived == <<output, quarantine, manifest>>
timers == <<cooldown, owed, early>>
mainVars == <<main, item, outcome, summary, report>>
bounds == <<running, runs, faults>>
vars == <<server, raws, derived, next, thread, channel, timers, absent, mainVars, bounds>>

-----------------------------------------------------------------------------
Minutes == 1 .. Last
Result == Versions \cup {None, Failed}
File == {"absent", "good", "damaged"}

\* What a thread is doing, and what it sends.
Download == [pc : {"claim", "cache", "wait", "space", "request", "save", "sidecar", "send", "done"},
             minute : 0 .. Last, tries : 0 .. Attempts - 1, got : Result \cup {Damaged}]
Message == [minute : Minutes, got : Result]

MaxOf(a, b) == IF a >= b THEN a ELSE b

NoThread == [pc |-> "claim", minute |-> 0, tries |-> 0, got |-> None]
NoSummary == [complete |-> 0, missing |-> 0, failed |-> 0]

\* Disk the downloads take: raw files, copies set aside, temporary files.
Used ==
  Cardinality({m \in Minutes : raw[m] # None})
  + Cardinality({c \in Minutes \X (Versions \cup {Damaged}) : c[2] \in aside[c[1]]})
  + Cardinality({t \in Threads : thread[t].pc = "save"})
  + litter

Free == Space - MaxDownload * Used

\* Mutant: no headroom for the other downloads.
ReserveAlone == MinFree

\* --min-free-gib as collect_window sets it: headroom for the other downloads.
Reserve == MinFree + (Cardinality(Threads) - 1) * MaxDownload

-----------------------------------------------------------------------------
(* The download threads: Downloader::fetch.                                *)

At(t, pc) == running /\ thread[t].pc = pc
Put(t, r) == thread' = [thread EXCEPT ![t] = r]
Goto(t, pc) == Put(t, [thread[t] EXCEPT !.pc = pc])
Answer(t, r) == Put(t, [thread[t] EXCEPT !.pc = "send", !.got = r])

\* The next minute of the shared counter.
Claim(t) ==
  /\ At(t, "claim")
  /\ IF next <= Last
       THEN Put(t, [NoThread EXCEPT !.pc = "cache", !.minute = next])
       ELSE Goto(t, "done")
  /\ next' = next + 1
  /\ UNCHANGED <<server, raws, derived, channel, timers, absent, mainVars, bounds>>

\* Mutant: nothing is reused.
NeverCached(m) == FALSE

Cached(m) == raw[m] # None /\ sidecar[m] = raw[m]

\* Mutant: an unverified file is overwritten in place.
NotRenamed(m) == FALSE

\* A copy with the same hash may have been set aside before.
Renamed(m) == raw[m] # None /\ raw[m] \notin aside[m]

\* A raw file whose hash its sidecar names is reused, any other is set aside.
LookUp(t) ==
  LET m == thread[t].minute
  IN  /\ At(t, "cache")
      /\ IF Cached(m) THEN Answer(t, sidecar[m]) ELSE Goto(t, "wait")
      /\ IF ~Cached(m) /\ Renamed(m)
           THEN /\ aside' = [aside EXCEPT ![m] = @ \cup {raw[m]}]
                /\ raw' = [raw EXCEPT ![m] = None]
           ELSE UNCHANGED <<aside, raw>>
      /\ UNCHANGED <<server, sidecar, litter, derived, next, channel, timers, absent,
                     mainVars, bounds>>

\* The shared cooldown is over.  Its lock is released: what another thread notes
\* from here on does not hold this one back.
AwaitCooldown(t) ==
  /\ At(t, "wait")
  /\ cooldown = 0
  /\ Goto(t, "space")
  /\ UNCHANGED <<server, raws, derived, next, channel, timers, absent, mainVars, bounds>>

\* The request is sent if the disk has room.
Admit(t) ==
  /\ At(t, "space")
  /\ IF Free >= Reserve + MaxDownload THEN Goto(t, "request") ELSE Answer(t, Failed)
  /\ early' = early \ {t}
  /\ UNCHANGED <<server, raws, derived, next, channel, cooldown, owed, absent, mainVars, bounds>>

\* The disk fails outside the saving of a body: no other attempt is made.
FetchFails(t) ==
  /\ At(t, "cache") \/ At(t, "space")
  /\ faults < MaxFaults /\ faults' = faults + 1
  /\ Answer(t, Failed)
  /\ early' = early \ {t}
  /\ UNCHANGED <<server, raws, derived, next, channel, cooldown, owed, absent, mainVars, running, runs>>

\* The attempt failed.
Retry(t) ==
  IF thread[t].tries + 1 < Attempts
    THEN Put(t, [thread[t] EXCEPT !.pc = "wait", !.tries = @ + 1])
    ELSE Answer(t, Failed)

\* Mutant: the last Retry-After wins.
CooldownReplaced(w) == w

CooldownAfter(w) == MaxOf(cooldown, w)

\* The threads between their look at the cooldown and their request.
Looked == {t \in Threads : thread[t].pc = "space"}

\* 404: the minute is missing.
NotFound(t) ==
  /\ server[thread[t].minute] = None
  /\ Answer(t, None)
  /\ absent' = absent \cup {thread[t].minute}
  /\ UNCHANGED timers

\* 200: the body is in a temporary file, intact or not.
Receive(t) ==
  /\ server[thread[t].minute] # None
  /\ \E body \in {server[thread[t].minute], Damaged} :
       Put(t, [thread[t] EXCEPT !.pc = "save", !.got = body])
  /\ UNCHANGED <<timers, absent>>

\* 429 or 503: every thread waits, unless that would take too long.
Throttled(t) ==
  /\ \E w \in Waits :
       IF w > MaxWait
         THEN Answer(t, Failed) /\ UNCHANGED timers
         ELSE /\ Retry(t)
              /\ cooldown' = CooldownAfter(w) /\ owed' = MaxOf(owed, w)
              /\ early' = IF owed = 0 THEN Looked ELSE early
  /\ UNCHANGED absent

\* A server error or no response in time may be tried again, any other not.
Refused(t) == (Retry(t) \/ Answer(t, Failed)) /\ UNCHANGED <<timers, absent>>

Respond(t) ==
  /\ At(t, "request")
  /\ NotFound(t) \/ Receive(t) \/ Throttled(t) \/ Refused(t)
  /\ UNCHANGED <<server, raws, derived, next, channel, mainVars, bounds>>

\* A body that is no valid gzip is dropped, or the disk fails.
DropBody(t) ==
  /\ \/ At(t, "save") /\ thread[t].got = Damaged /\ UNCHANGED faults
     \/ /\ At(t, "save") \/ At(t, "sidecar")
        /\ faults < MaxFaults /\ faults' = faults + 1
  /\ Retry(t)
  /\ UNCHANGED <<server, raws, derived, next, channel, timers, absent, mainVars, running, runs>>

\* The raw file first ...
SaveRaw(t) ==
  /\ At(t, "save") /\ thread[t].got # Damaged
  /\ raw' = [raw EXCEPT ![thread[t].minute] = thread[t].got]
  /\ Goto(t, "sidecar")
  /\ UNCHANGED <<server, sidecar, aside, litter, derived, next, channel, timers, absent,
                 mainVars, bounds>>

\* ... then its sidecar.
SaveSidecar(t) ==
  /\ At(t, "sidecar")
  /\ sidecar' = [sidecar EXCEPT ![thread[t].minute] = thread[t].got]
  /\ Answer(t, thread[t].got)
  /\ UNCHANGED <<server, raw, aside, litter, derived, next, channel, timers, absent,
                 mainVars, bounds>>

\* Mutant: the receiver lives on while the main thread waits for the threads.
ReceiverKept == FALSE

\* The main thread has left its loop and dropped the receiver.
ReceiverGone == main = "abort"

\* The result goes into the channel when it has room; a thread without a
\* receiver ends.
Send(t) ==
  /\ At(t, "send")
  /\ IF ReceiverGone
       THEN Put(t, [NoThread EXCEPT !.pc = "done"]) /\ UNCHANGED channel
       ELSE /\ Len(channel) < Cardinality(Threads)
            /\ channel' = Append(channel, [minute |-> thread[t].minute, got |-> thread[t].got])
            /\ Put(t, NoThread)
  /\ UNCHANGED <<server, raws, derived, next, timers, absent, mainVars, bounds>>

Fetch(t) ==
  \/ Claim(t) \/ LookUp(t) \/ AwaitCooldown(t) \/ Admit(t) \/ FetchFails(t) \/ Respond(t)
  \/ DropBody(t) \/ SaveRaw(t) \/ SaveSidecar(t) \/ Send(t)

-----------------------------------------------------------------------------
(* The main thread: the loop of run, handle and process.                   *)

Main(from, to) == running /\ main = from /\ main' = to

ThreadsDone == \A t \in Threads : thread[t].pc = "done"

Take ==
  /\ channel # <<>>
  /\ Main("take", IF Head(channel).got \in Versions THEN "process" ELSE "record")
  /\ item' = Head(channel)
  /\ channel' = Tail(channel)
  /\ UNCHANGED <<server, raws, derived, next, thread, timers, absent, outcome, summary,
                 report, bounds>>

\* Mutant: a checkpoint is accepted by its manifest alone.
ManifestFound(v) == manifest[v]

\* A manifest, an articles file and a quarantine file that agree.
Checkpoint(v) ==
  /\ manifest[v]
  /\ output[v] = "good"
  /\ v \in Dirty => quarantine[v] = "good"

\* process accepts a checkpoint, or reads the raw file, which may be malformed,
\* and writes the quarantine file.  The raw file still has the hash fetch found:
\* the minute has one thread, and damage happens between runs.
Process ==
  LET v == item.got
      rejected == ~Checkpoint(v) /\ v \in Malformed
      read == ~Checkpoint(v) /\ v \notin Malformed
  IN  /\ Main("process", IF read THEN "output" ELSE "record")
      /\ item' = IF rejected THEN [item EXCEPT !.got = Failed] ELSE item
      /\ quarantine' = IF read /\ v \in Dirty THEN [quarantine EXCEPT ![v] = "good"] ELSE quarantine
      /\ UNCHANGED <<server, raws, output, manifest, next, thread, channel, timers, absent,
                     outcome, summary, report, bounds>>

\* Mutant: the manifest is written before the articles.
ManifestFirst ==
  /\ Main("output", "manifest")
  /\ manifest' = [manifest EXCEPT ![item.got] = TRUE]
  /\ UNCHANGED <<server, raws, output, quarantine, next, thread, channel, timers, absent,
                 item, outcome, summary, report, bounds>>

WriteOutput ==
  /\ Main("output", "manifest")
  /\ output' = [output EXCEPT ![item.got] = "good"]
  /\ UNCHANGED <<server, raws, quarantine, manifest, next, thread, channel, timers, absent,
                 item, outcome, summary, report, bounds>>

WriteManifest ==
  /\ Main("manifest", "record")
  /\ manifest' = [manifest EXCEPT ![item.got] = TRUE]
  /\ UNCHANGED <<server, raws, output, quarantine, next, thread, channel, timers, absent,
                 item, outcome, summary, report, bounds>>

\* The disk fails while the files are written: the minute has failed.
ProcessFails ==
  /\ \E at \in {"process", "output", "manifest"} : Main(at, "record")
  /\ faults < MaxFaults /\ faults' = faults + 1
  /\ item' = [item EXCEPT !.got = Failed]
  /\ UNCHANGED <<server, raws, derived, next, thread, channel, timers, absent, outcome,
                 summary, report, running, runs>>

Status == CASE item.got = None -> "missing" [] item.got = Failed -> "failed" [] OTHER -> "complete"

Record ==
  /\ Main("record", "take")
  /\ outcome' = [outcome EXCEPT ![item.minute] = Status]
  /\ summary' = [summary EXCEPT ![Status] = @ + 1]
  /\ UNCHANGED <<server, raws, derived, next, thread, channel, timers, absent, item, report,
                 bounds>>

\* The outcome cannot be written: the loop returns the error.
RecordFails ==
  /\ Main("record", "abort")
  /\ channel' = <<>>
  /\ faults < MaxFaults /\ faults' = faults + 1
  /\ UNCHANGED <<server, raws, derived, next, thread, timers, absent, item, outcome, summary,
                 report, running, runs>>

\* Mutant: the main thread keeps a sender of its own.
SenderKept == FALSE

\* Mutant: the main thread does not wait for the threads.
ChannelEmpty == channel = <<>>

\* All senders are dropped and the channel is empty.
Disconnected == channel = <<>> /\ ThreadsDone

\* The threads are joined.  The summary is written unless the loop or the disk
\* failed.
Finish ==
  /\ running /\ running' = FALSE
  /\ \/ main = "take" /\ Disconnected /\ report' \in {summary, None}
     \/ main = "abort" /\ ThreadsDone /\ UNCHANGED report
  /\ UNCHANGED <<server, raws, derived, next, thread, channel, timers, absent, main, item,
                 outcome, summary, runs, faults>>

Work ==
  \/ Take \/ Process \/ WriteOutput \/ WriteManifest \/ ProcessFails
  \/ Record \/ RecordFails \/ Finish

-----------------------------------------------------------------------------
(* Runs and surroundings.                                                  *)

Init ==
  /\ server \in [Minutes -> Versions \cup {None}]
  /\ raw = [m \in Minutes |-> None]
  /\ sidecar = [m \in Minutes |-> None]
  /\ aside = [m \in Minutes |-> {}]
  /\ litter = 0
  /\ output = [v \in Versions |-> "absent"]
  /\ quarantine = [v \in Versions |-> "absent"]
  /\ manifest = [v \in Versions |-> FALSE]
  /\ running = FALSE /\ runs = 0 /\ faults = 0
  /\ next = 1
  /\ thread = [t \in Threads |-> NoThread]
  /\ channel = <<>>
  /\ cooldown = 0 /\ owed = 0 /\ early = {} /\ absent = {}
  /\ main = "take" /\ item = [minute |-> 1, got |-> None]
  /\ outcome = [m \in Minutes |-> None]
  /\ summary = NoSummary /\ report = None

\* The command is started, again with the same interval.
Start ==
  /\ ~running /\ running' = TRUE
  /\ runs < MaxRuns /\ runs' = runs + 1
  /\ next' = 1
  /\ thread' = [t \in Threads |-> NoThread]
  /\ channel' = <<>>
  /\ cooldown' = 0 /\ owed' = 0 /\ early' = {} /\ absent' = {}
  /\ main' = "take" /\ item' = [minute |-> 1, got |-> None]
  /\ outcome' = [m \in Minutes |-> None]
  /\ summary' = NoSummary /\ report' = None
  /\ UNCHANGED <<server, raws, derived, faults>>

\* The process is killed and leaves its temporary files.
Kill ==
  /\ running /\ running' = FALSE
  /\ faults < MaxFaults /\ faults' = faults + 1
  /\ litter' = litter + Cardinality({t \in Threads : thread[t].pc = "save"})
  /\ thread' = [t \in Threads |-> NoThread]
  /\ UNCHANGED <<server, raw, sidecar, aside, derived, next, channel, timers, absent,
                 mainVars, runs>>

\* Between two runs a file loses its contents.
Damage ==
  /\ ~running
  /\ faults < MaxFaults /\ faults' = faults + 1
  /\ \/ \E m \in Minutes : raw[m] # None /\ raw' = [raw EXCEPT ![m] = Damaged]
                           /\ UNCHANGED <<output, quarantine>>
     \/ \E v \in Versions : output[v] = "good" /\ output' = [output EXCEPT ![v] = "damaged"]
                            /\ UNCHANGED <<raw, quarantine>>
     \/ \E v \in Versions : quarantine[v] = "good"
                            /\ quarantine' = [quarantine EXCEPT ![v] = "damaged"]
                            /\ UNCHANGED <<raw, output>>
  /\ UNCHANGED <<server, sidecar, aside, litter, manifest, next, thread, channel, timers,
                 absent, mainVars, running, runs>>

\* A source object appears or is replaced.
Publish ==
  /\ \E m \in Minutes, v \in Versions : server[m] # v /\ server' = [server EXCEPT ![m] = v]
  /\ UNCHANGED <<raws, derived, next, thread, channel, timers, absent, mainVars, bounds>>

Elapse ==
  /\ running
  /\ cooldown > 0 /\ cooldown' = cooldown - 1
  /\ owed' = MaxOf(owed - 1, 0)
  /\ early' = IF owed' = 0 THEN {} ELSE early
  /\ UNCHANGED <<server, raws, derived, next, thread, channel, absent, mainVars, bounds>>

Next ==
  \/ \E t \in Threads : Fetch(t)
  \/ Work \/ Start \/ Kill \/ Damage \/ Publish \/ Elapse

Spec == Init /\ [][Next]_vars

-----------------------------------------------------------------------------
(* Properties.                                                             *)

\* TypeOK: the archive holds what its writers put there, and every thread is
\* at a place where fetch can be.
TypeOK ==
  /\ server \in [Minutes -> Versions \cup {None}]
  /\ raw \in [Minutes -> Versions \cup {None, Damaged}]
  /\ sidecar \in [Minutes -> Versions \cup {None}]
  /\ aside \in [Minutes -> SUBSET (Versions \cup {Damaged})]
  /\ litter \in Nat
  /\ output \in [Versions -> File]
  /\ quarantine \in [Versions -> File]
  /\ manifest \in [Versions -> BOOLEAN]
  /\ running \in BOOLEAN
  /\ next \in Nat
  /\ thread \in [Threads -> Download]
  /\ channel \in Seq(Message)
  /\ cooldown \in 0 .. MaxWait
  /\ main \in {"take", "process", "output", "manifest", "record", "abort"}
  /\ item \in Message
  /\ outcome \in [Minutes -> {None, "complete", "missing", "failed"}]
  /\ runs \in Nat /\ faults \in Nat
  /\ owed \in Nat /\ early \subseteq Threads /\ absent \subseteq Minutes

\* A minute whose raw, sidecar, articles, quarantine and manifest files agree.
Verified(m) ==
  /\ raw[m] \in Versions /\ sidecar[m] = raw[m]
  /\ manifest[raw[m]] /\ output[raw[m]] = "good"
  /\ raw[m] \in Dirty => quarantine[raw[m]] = "good"

\* What a run says of a minute is true: complete means that all its files are
\* on the disk and agree, missing that the source answered 404 in this run.
OutcomesTrue ==
  running => \A m \in Minutes : /\ outcome[m] = "complete" => Verified(m)
                                /\ outcome[m] = "missing" => m \in absent

\* The summary counts every minute of the interval once, as its outcome file
\* says: what collect_window relies on.
ReportAgrees ==
  report # None =>
    /\ \A s \in DOMAIN report : report[s] = Cardinality({m \in Minutes : outcome[m] = s})
    /\ report.complete + report.missing + report.failed = Last

\* Whatever is killed or fails in between, a manifest describes files that were
\* written before it.
ManifestIsLast ==
  \A v \in Versions : manifest[v] => /\ output[v] # "absent"
                                     /\ v \in Dirty => quarantine[v] # "absent"

\* Downloads that check the free space at the same time do not use up what the
\* operator reserved.
DiskReserveKept == Free >= MinFree

\* While a Retry-After is owed, only a thread that had looked at the cooldown
\* before it was noted may send a request, and only the one it was about to send:
\* not the thread that was told, none that looks later, and not when a shorter
\* Retry-After was noted since (the loop of fetch, until.max).
CooldownRespected ==
  [][\A t \in Threads :
       (thread[t].pc = "space" /\ thread'[t].pc = "request") => owed = 0 \/ t \in early]_thread

\* The minutes whose file a thread has found unverified and is fetching.
Downloading(m) ==
  \E t \in Threads :
    thread[t].minute = m /\ thread[t].pc \in {"wait", "space", "request", "save", "sidecar"}

\* A run never takes apart what is verified.  Only a download that has stored
\* its object again and could not renew the sidecar may replace it once more.
VerifiedStays ==
  [][running => \A m \in Minutes : Verified(m) /\ ~Downloading(m) => Verified(m)']_<<raws, derived>>

\* The bytes a fetch finds are retained, whatever replaces them.
BytesRetained ==
  [][\A m \in Minutes :
       (running /\ raw[m] # None /\ raw'[m] # raw[m]) =>
          \/ raw[m] \in aside'[m]
          \/ \E t \in Threads : thread[t].minute = m /\ thread[t].tries > 0]_raw

\* Threads and the main thread go on, and time passes.
Fairness ==
  /\ \A t \in Threads : WF_vars(Fetch(t))
  /\ WF_vars(Work)
  /\ WF_vars(Elapse)

FairSpec == Spec /\ Fairness

\* Every run ends, whatever the source answers and the disk refuses: no thread
\* waits for ever on the channel or on another thread.
RunEnds == running ~> ~running
=============================================================================
