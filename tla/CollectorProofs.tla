-------------------------- MODULE CollectorProofs --------------------------
(***************************************************************************)
(* TLAPS proofs about Collector, for every number of threads, minutes and  *)
(* attempts, every content of the source and any number of runs, kills and *)
(* disk errors.                                                            *)
(***************************************************************************)
EXTENDS Collector, FiniteSetTheorems, SequenceTheorems, TLAPS

-----------------------------------------------------------------------------
(* Types: what a thread and the main thread have at their program points.  *)

Places == {"cache", "wait", "space", "request", "save", "sidecar", "send"}
Processing == {"process", "output", "manifest"}
Counts == [complete : Nat, missing : Nat, failed : Nat]

DownloadOK(r) ==
  /\ r \in Download
  /\ r.pc \in Places => r.minute \in Minutes
  /\ r.pc = "save" => r.got \in Versions \cup {Damaged}
  /\ r.pc = "sidecar" => r.got \in Versions
  /\ r.pc = "send" => r.got \in Result

ThreadTypes ==
  thread \in [Threads -> Download] /\ \A t \in Threads : DownloadOK(thread[t])

ArchiveTypes ==
  /\ server \in [Minutes -> Versions \cup {None}]
  /\ raw \in [Minutes -> Versions \cup {None, Damaged}]
  /\ sidecar \in [Minutes -> Versions \cup {None}]
  /\ aside \in [Minutes -> SUBSET (Versions \cup {Damaged})]
  /\ litter \in Nat
  /\ output \in [Versions -> File]
  /\ quarantine \in [Versions -> File]
  /\ manifest \in [Versions -> BOOLEAN]

MainTypes ==
  /\ channel \in Seq(Message)
  /\ main \in Processing \cup {"take", "record", "abort"}
  /\ item \in Message
  /\ main \in Processing => item.got \in Versions
  /\ outcome \in [Minutes -> {None, "complete", "missing", "failed"}]
  /\ summary \in Counts /\ report \in Counts \cup {None}

ScalarTypes ==
  /\ running \in BOOLEAN /\ next \in Nat /\ next >= 1
  /\ cooldown \in 0 .. MaxWait /\ owed \in Nat /\ early \subseteq Threads
  /\ absent \subseteq Minutes
  /\ runs \in Nat /\ faults \in Nat

TypeInv == ThreadTypes /\ ArchiveTypes /\ MainTypes /\ ScalarTypes

LEMMA TypeInvTypes == TypeInv => TypeOK
BY DEF TypeInv, ThreadTypes, ArchiveTypes, MainTypes, ScalarTypes, TypeOK, Processing

LEMMA Distinct ==
  /\ None \notin Versions /\ Failed \notin Versions /\ Damaged \notin Versions
  /\ None # Failed /\ None # Damaged /\ Failed # Damaged
BY CollectorAssumption

LEMMA Bounds ==
  /\ Last \in Nat \ {0} /\ Attempts \in Nat \ {0} /\ MaxWait \in Nat /\ Waits \subseteq Nat
  /\ MaxDownload \in Nat \ {0} /\ MinFree \in Nat /\ Space \in Nat /\ Space >= MinFree
BY CollectorAssumption

\* What a thread may become.
LEMMA DownloadOf ==
  ASSUME NEW x \in Download, x.minute \in Minutes
  PROVE  /\ \A v \in Result : DownloadOK([x EXCEPT !.pc = "send", !.got = v])
         /\ \A v \in Versions \cup {Damaged} : DownloadOK([x EXCEPT !.pc = "save", !.got = v])
         /\ \A n \in 0 .. Attempts - 1 : DownloadOK([x EXCEPT !.pc = "wait", !.tries = n])
<1> DEFINE P == Places \cup {"claim", "done"}
           G == Result \cup {Damaged}
           N == 0 .. Attempts - 1
<1>1. Download = [pc : P, minute : 0 .. Last, tries : N, got : G]
  BY DEF Download, Places
<1>2. "send" \in P /\ "save" \in P /\ "wait" \in P /\ Result \subseteq G /\ Versions \cup {Damaged} \subseteq G
  BY DEF Places, Result
<1> HIDE DEF P, G, N
<1>3. ASSUME NEW v \in Result PROVE DownloadOK([x EXCEPT !.pc = "send", !.got = v])
  <2> DEFINE r == [x EXCEPT !.pc = "send", !.got = v]
  <2>1. r \in Download
    BY <1>1, <1>2
  <2>2. r.pc = "send" /\ r.got = v /\ r.minute = x.minute
    BY <1>1
  <2> QED
    BY <2>1, <2>2 DEF DownloadOK
<1>4. ASSUME NEW v \in Versions \cup {Damaged} PROVE DownloadOK([x EXCEPT !.pc = "save", !.got = v])
  <2> DEFINE r == [x EXCEPT !.pc = "save", !.got = v]
  <2>1. r \in Download
    BY <1>1, <1>2
  <2>2. r.pc = "save" /\ r.got = v /\ r.minute = x.minute
    BY <1>1
  <2> QED
    BY <2>1, <2>2 DEF DownloadOK
<1>5. ASSUME NEW n \in N PROVE DownloadOK([x EXCEPT !.pc = "wait", !.tries = n])
  <2> DEFINE r == [x EXCEPT !.pc = "wait", !.tries = n]
  <2>1. r \in Download
    BY <1>1, <1>2
  <2>2. r.pc = "wait" /\ r.minute = x.minute
    BY <1>1
  <2> QED
    BY <2>1, <2>2 DEF DownloadOK
<1> QED
  BY <1>3, <1>4, <1>5 DEF N

\* A thread goes on with r.
LEMMA PutType ==
  ASSUME ThreadTypes, NEW t \in Threads, NEW r, DownloadOK(r), Put(t, r)
  PROVE  ThreadTypes'
<1>1. r \in Download
  BY DEF DownloadOK
<1>2. thread' \in [Threads -> Download]
  BY <1>1 DEF Put, ThreadTypes
<1>3. \A u \in Threads : DownloadOK(thread'[u])
  <2> SUFFICES ASSUME NEW u \in Threads PROVE DownloadOK(thread'[u])
    OBVIOUS
  <2>1. CASE u = t
    <3>1. thread'[u] = r
      BY <2>1 DEF Put, ThreadTypes
    <3> QED
      BY <3>1
  <2>2. CASE u # t
    <3>1. thread'[u] = thread[u]
      BY <2>2 DEF Put, ThreadTypes
    <3> QED
      BY <3>1 DEF ThreadTypes
  <2> QED
    BY <2>1, <2>2
<1> QED
  BY <1>2, <1>3 DEF ThreadTypes, DownloadOK

\* The thread t as its steps find it.
LEMMA DownloadFacts ==
  ASSUME ThreadTypes, NEW t \in Threads
  PROVE  /\ thread[t] \in Download /\ DownloadOK(thread[t])
         /\ thread[t].pc \in Places => thread[t].minute \in Minutes
         /\ NoThread \in Download /\ DownloadOK(NoThread)
<1>1. NoThread \in Download /\ DownloadOK(NoThread)
  BY CollectorAssumption, SMT DEF NoThread, Download, DownloadOK, Result, Places
<1> QED
  BY <1>1 DEF ThreadTypes, DownloadOK

LEMMA GotoType ==
  ASSUME ThreadTypes, NEW t \in Threads, NEW place \in {"wait", "space", "request", "done"}, Goto(t, place),
         place = "done" \/ thread[t].pc \in Places
  PROVE  ThreadTypes'
<1> DEFINE r == [thread[t] EXCEPT !.pc = place]
<1>1. thread[t] \in Download /\ (place = "done" \/ thread[t].minute \in Minutes)
  BY DownloadFacts
<1>2. DownloadOK(r)
  BY <1>1, SMT DEF Download, DownloadOK, Places
<1> QED
  BY <1>2, PutType DEF Goto

LEMMA AnswerType ==
  ASSUME ThreadTypes, NEW t \in Threads, NEW v \in Result, Answer(t, v), thread[t].pc \in Places
  PROVE  ThreadTypes'
<1>1. thread[t] \in Download /\ thread[t].minute \in Minutes
  BY DownloadFacts
<1>2. DownloadOK([thread[t] EXCEPT !.pc = "send", !.got = v])
  BY <1>1, DownloadOf
<1> QED
  BY <1>2, PutType DEF Answer

LEMMA RetryType ==
  ASSUME ThreadTypes, NEW t \in Threads, Retry(t), thread[t].pc \in Places
  PROVE  ThreadTypes'
<1>1. thread[t] \in Download /\ thread[t].minute \in Minutes
  BY DownloadFacts
<1>2. CASE thread[t].tries + 1 < Attempts
  <2>1. thread[t].tries + 1 \in 0 .. Attempts - 1
    BY <1>1, <1>2, CollectorAssumption, SMT DEF Download
  <2>2. DownloadOK([thread[t] EXCEPT !.pc = "wait", !.tries = @ + 1])
    BY <1>1, <2>1, DownloadOf
  <2> QED
    BY <2>2, <1>2, PutType DEF Retry
<1>3. CASE ~(thread[t].tries + 1 < Attempts)
  <2>1. Answer(t, Failed) /\ Failed \in Result
    BY <1>3 DEF Retry, Result
  <2> QED
    BY <2>1, AnswerType
<1> QED
  BY <1>2, <1>3

-----------------------------------------------------------------------------
LEMMA InitTypes == Init => TypeInv
<1> SUFFICES ASSUME Init PROVE TypeInv
  OBVIOUS
<1>1. 1 \in Minutes
  BY CollectorAssumption, SMT DEF Minutes
<1>2. ThreadTypes
  <2>1. \A t \in Threads : thread[t] = NoThread
    BY DEF Init
  <2>2. NoThread \in Download /\ DownloadOK(NoThread)
    BY CollectorAssumption, SMT DEF NoThread, Download, DownloadOK, Result, Places
  <2> QED
    BY <2>1, <2>2 DEF ThreadTypes, Init
<1>3. ArchiveTypes
  BY DEF ArchiveTypes, Init, File
<1>4. MainTypes
  BY <1>1 DEF MainTypes, Init, Message, Result, Processing, Counts, NoSummary
<1>5. ScalarTypes
  <2>1. absent = {} /\ running = FALSE /\ next = 1 /\ cooldown = 0 /\ owed = 0 /\ runs = 0 /\ faults = 0
       /\ early = {}
    BY DEF Init
  <2>2. running \in BOOLEAN /\ absent \subseteq Minutes /\ early \subseteq Threads
    BY <2>1, Zenon
  <2>3. next \in Nat /\ next >= 1 /\ cooldown \in 0 .. MaxWait /\ owed \in Nat /\ runs \in Nat /\ faults \in Nat
    BY <2>1, Bounds
  <2> QED
    BY <2>1, <2>2, <2>3 DEF ScalarTypes
<1> QED
  BY <1>2, <1>3, <1>4, <1>5 DEF TypeInv

\* Steps that leave a part alone.
LEMMA SameArchive ==
  ASSUME ArchiveTypes, UNCHANGED <<server, raws, derived>> PROVE ArchiveTypes'
BY DEF ArchiveTypes, raws, derived

LEMMA SameMain ==
  ASSUME MainTypes, UNCHANGED <<channel, mainVars>> PROVE MainTypes'
BY DEF MainTypes, mainVars

LEMMA SameThreads == ASSUME ThreadTypes, UNCHANGED thread PROVE ThreadTypes'
BY DEF ThreadTypes, DownloadOK

LEMMA ClaimTypes == ASSUME TypeInv, NEW t \in Threads, Claim(t) PROVE TypeInv'
<1> USE DEF TypeInv
<1>1. ThreadTypes'
  <2>1. CASE next <= Last
    <3> DEFINE r == [NoThread EXCEPT !.pc = "cache", !.minute = next]
    <3>1. next \in Minutes
      BY <2>1, SMT DEF ScalarTypes, Minutes
    <3>2. r.pc = "cache" /\ r.minute = next
      BY DEF NoThread
    <3>3. next \in 0 .. Last
      BY <3>1, Bounds DEF Minutes
    <3>4. r \in Download
      BY <3>3, DownloadFacts DEF Download
    <3>5. DownloadOK(r)
      BY <3>1, <3>2, <3>4 DEF DownloadOK
    <3> QED
      BY <3>5, <2>1, PutType DEF Claim
  <2>2. CASE ~(next <= Last)
    BY <2>2, GotoType DEF Claim
  <2> QED
    BY <2>1, <2>2
<1>2. ArchiveTypes' /\ MainTypes'
  BY SameArchive, SameMain DEF Claim
<1>3. ScalarTypes'
  BY SMT DEF Claim, ScalarTypes, timers, bounds
<1> QED
  BY <1>1, <1>2, <1>3

LEMMA LookUpTypes == ASSUME TypeInv, NEW t \in Threads, LookUp(t) PROVE TypeInv'
<1> USE DEF TypeInv
<1> DEFINE m == thread[t].minute
<1>1. m \in Minutes /\ thread[t].pc \in Places
  BY DownloadFacts DEF LookUp, At, Places
<1>2. ThreadTypes'
  <2>1. CASE Cached(m)
    <3>1. Answer(t, sidecar[m]) /\ sidecar[m] \in Result
      BY <1>1, <2>1 DEF LookUp, Cached, ArchiveTypes, Result
    <3> QED
      BY <3>1, <1>1, AnswerType
  <2>2. CASE ~Cached(m)
    BY <2>2, <1>1, GotoType DEF LookUp
  <2> QED
    BY <2>1, <2>2
<1>3. ArchiveTypes'
  <2>1. CASE ~Cached(m) /\ Renamed(m)
    <3>1. raw[m] \in Versions \cup {Damaged}
      BY <1>1, <2>1 DEF Renamed, ArchiveTypes
    <3> QED
      BY <1>1, <2>1, <3>1 DEF LookUp, ArchiveTypes, derived
  <2>2. CASE ~(~Cached(m) /\ Renamed(m))
    BY <2>2 DEF LookUp, ArchiveTypes, derived
  <2> QED
    BY <2>1, <2>2
<1>4. MainTypes' /\ ScalarTypes'
  BY SameMain DEF LookUp, ScalarTypes, timers, bounds
<1> QED
  BY <1>2, <1>3, <1>4

LEMMA AwaitCooldownTypes ==
  ASSUME TypeInv, NEW t \in Threads, AwaitCooldown(t) PROVE TypeInv'
<1> USE DEF TypeInv
<1>1. thread[t].pc \in Places
  BY DEF AwaitCooldown, At, Places
<1>2. ThreadTypes'
  BY <1>1, GotoType DEF AwaitCooldown
<1>3. ArchiveTypes' /\ MainTypes' /\ ScalarTypes'
  BY SameArchive, SameMain DEF AwaitCooldown, ScalarTypes, timers, bounds
<1> QED
  BY <1>2, <1>3

LEMMA AdmitTypes == ASSUME TypeInv, NEW t \in Threads, Admit(t) PROVE TypeInv'
<1> USE DEF TypeInv
<1>1. thread[t].pc \in Places /\ Failed \in Result
  BY DEF Admit, At, Places, Result
<1>2. ThreadTypes'
  BY <1>1, GotoType, AnswerType DEF Admit
<1>3. ArchiveTypes' /\ MainTypes' /\ ScalarTypes'
  BY SameArchive, SameMain DEF Admit, ScalarTypes, bounds
<1> QED
  BY <1>2, <1>3

LEMMA FetchFailsTypes == ASSUME TypeInv, NEW t \in Threads, FetchFails(t) PROVE TypeInv'
<1> USE DEF TypeInv
<1>1. thread[t].pc \in Places /\ Failed \in Result
  BY DEF FetchFails, At, Places, Result
<1>2. ThreadTypes'
  BY <1>1, AnswerType DEF FetchFails
<1>3. ArchiveTypes' /\ MainTypes'
  BY SameArchive, SameMain DEF FetchFails
<1>4. ScalarTypes'
  BY SMT DEF FetchFails, ScalarTypes
<1> QED
  BY <1>2, <1>3, <1>4

LEMMA RespondTypes == ASSUME TypeInv, NEW t \in Threads, Respond(t) PROVE TypeInv'
<1> USE DEF TypeInv
<1>1. thread[t].pc \in Places /\ thread[t].minute \in Minutes /\ thread[t] \in Download
  BY DownloadFacts DEF Respond, At, Places
<1>2. None \in Result /\ Failed \in Result
  BY DEF Result
<1>3. ArchiveTypes' /\ MainTypes'
  BY SameArchive, SameMain DEF Respond
<1>4. running' = running /\ next' = next /\ runs' = runs /\ faults' = faults
  BY DEF Respond, bounds
<1>5. CASE NotFound(t)
  BY <1>1, <1>2, <1>3, <1>4, <1>5, AnswerType DEF NotFound, ScalarTypes, timers
<1>6. CASE Receive(t)
  <2>1. PICK body \in {server[thread[t].minute], Damaged} :
          Put(t, [thread[t] EXCEPT !.pc = "save", !.got = body])
    BY <1>6 DEF Receive
  <2>2. body \in Versions \cup {Damaged}
    BY <1>1, <1>6 DEF Receive, ArchiveTypes
  <2>3. DownloadOK([thread[t] EXCEPT !.pc = "save", !.got = body])
    BY <1>1, <2>2, DownloadOf
  <2>4. ThreadTypes'
    BY <2>1, <2>3, PutType
  <2> QED
    BY <1>3, <1>4, <1>6, <2>4 DEF Receive, ScalarTypes, timers
<1>7. CASE Throttled(t)
  <2>1. PICK w \in Waits :
          IF w > MaxWait
            THEN Answer(t, Failed) /\ UNCHANGED timers
            ELSE /\ Retry(t)
                 /\ cooldown' = CooldownAfter(w) /\ owed' = MaxOf(owed, w)
                 /\ early' = IF owed = 0 THEN Looked ELSE early
    BY <1>7 DEF Throttled
  <2>2. ThreadTypes'
    BY <1>1, <1>2, <2>1, AnswerType, RetryType
  <2>3. cooldown' \in 0 .. MaxWait /\ owed' \in Nat
    BY <2>1, CollectorAssumption, SMT DEF ScalarTypes, timers, CooldownAfter, MaxOf
  <2>4. early' \subseteq Threads
    BY <2>1 DEF ScalarTypes, timers, Looked
  <2> QED
    BY <1>3, <1>4, <1>7, <2>2, <2>3, <2>4 DEF Throttled, ScalarTypes
<1>8. CASE Refused(t)
  BY <1>1, <1>2, <1>3, <1>4, <1>8, AnswerType, RetryType DEF Refused, ScalarTypes, timers
<1> QED
  BY <1>5, <1>6, <1>7, <1>8 DEF Respond

LEMMA DropBodyTypes == ASSUME TypeInv, NEW t \in Threads, DropBody(t) PROVE TypeInv'
<1> USE DEF TypeInv
<1>1. thread[t].pc \in Places
  BY DEF DropBody, At, Places
<1>2. ThreadTypes'
  BY <1>1, RetryType DEF DropBody
<1>3. ArchiveTypes' /\ MainTypes'
  BY SameArchive, SameMain DEF DropBody
<1>4. ScalarTypes'
  BY SMT DEF DropBody, ScalarTypes, timers
<1> QED
  BY <1>2, <1>3, <1>4

LEMMA SaveRawTypes == ASSUME TypeInv, NEW t \in Threads, SaveRaw(t) PROVE TypeInv'
<1> USE DEF TypeInv
<1>1. /\ thread[t].pc \in Places /\ thread[t].minute \in Minutes /\ thread[t] \in Download
      /\ thread[t].got \in Versions
  BY DownloadFacts DEF SaveRaw, At, Places, DownloadOK
<1>2. DownloadOK([thread[t] EXCEPT !.pc = "sidecar"])
  BY <1>1, SMT DEF DownloadOK, Download, Result, Places
<1>3. ThreadTypes'
  BY <1>2, PutType DEF SaveRaw, Goto
<1>4. ArchiveTypes'
  BY <1>1 DEF SaveRaw, ArchiveTypes, derived
<1>5. MainTypes' /\ ScalarTypes'
  BY SameMain DEF SaveRaw, ScalarTypes, timers, bounds
<1> QED
  BY <1>3, <1>4, <1>5

LEMMA SaveSidecarTypes == ASSUME TypeInv, NEW t \in Threads, SaveSidecar(t) PROVE TypeInv'
<1> USE DEF TypeInv
<1>1. /\ thread[t].pc \in Places /\ thread[t].minute \in Minutes
      /\ thread[t].got \in Versions /\ thread[t].got \in Result
  BY DownloadFacts DEF SaveSidecar, At, Places, DownloadOK, Result
<1>2. ThreadTypes'
  BY <1>1, AnswerType DEF SaveSidecar
<1>3. ArchiveTypes'
  BY <1>1 DEF SaveSidecar, ArchiveTypes, derived
<1>4. MainTypes' /\ ScalarTypes'
  BY SameMain DEF SaveSidecar, ScalarTypes, timers, bounds
<1> QED
  BY <1>2, <1>3, <1>4

LEMMA SendTypes == ASSUME TypeInv, NEW t \in Threads, Send(t) PROVE TypeInv'
<1> USE DEF TypeInv
<1> DEFINE r == [NoThread EXCEPT !.pc = "done"]
           x == [minute |-> thread[t].minute, got |-> thread[t].got]
<1>1. /\ thread[t].minute \in Minutes /\ thread[t].got \in Result
      /\ DownloadOK(NoThread) /\ NoThread \in Download
  BY DownloadFacts DEF Send, At, Places, DownloadOK
<1>2. DownloadOK(r) /\ x \in Message
  BY <1>1, SMT DEF DownloadOK, Download, NoThread, Places, Message
<1>3. ThreadTypes'
  BY <1>1, <1>2, PutType DEF Send
<1>4. channel' \in Seq(Message)
  <2>1. channel \in Seq(Message) /\ channel' \in {channel, Append(channel, x)}
    BY DEF Send, MainTypes
  <2> HIDE DEF x
  <2> QED
    BY <1>2, <2>1
<1>5. ArchiveTypes' /\ MainTypes' /\ ScalarTypes'
  BY <1>4, SameArchive DEF Send, MainTypes, ScalarTypes, timers, bounds, mainVars
<1> QED
  BY <1>3, <1>5

LEMMA FetchTypes == ASSUME TypeInv, NEW t \in Threads, Fetch(t) PROVE TypeInv'
BY ClaimTypes, LookUpTypes, AwaitCooldownTypes, AdmitTypes, FetchFailsTypes, RespondTypes, DropBodyTypes,
   SaveRawTypes, SaveSidecarTypes, SendTypes DEF Fetch

-----------------------------------------------------------------------------
(* The main thread and the surroundings.                                   *)

LEMMA TakeTypes == ASSUME TypeInv, Take PROVE TypeInv'
<1> USE DEF TypeInv
<1>1. channel \in Seq(Message) /\ channel # <<>>
  BY DEF Take, MainTypes
<1>2. Head(channel) \in Message /\ Tail(channel) \in Seq(Message)
  BY <1>1, HeadTailProperties
<1>3. channel' \in Seq(Message) /\ item' \in Message
  BY <1>2 DEF Take
<1>4. main' \in Processing \cup {"take", "record", "abort"} /\ (main' \in Processing => item'.got \in Versions)
  BY DEF Take, Main, Processing
<1>5. ThreadTypes' /\ ArchiveTypes' /\ MainTypes' /\ ScalarTypes'
  BY <1>3, <1>4, SameThreads, SameArchive DEF Take, MainTypes, ScalarTypes, timers, bounds
<1> QED
  BY <1>5

LEMMA ProcessTypes == ASSUME TypeInv, Process PROVE TypeInv'
<1> USE DEF TypeInv
<1>1. main = "process" /\ item \in Message /\ item.got \in Versions
  BY DEF Process, Main, MainTypes, Processing
<1>2. item' \in Message
  <2>1. [item EXCEPT !.got = Failed] \in Message
    BY <1>1 DEF Message, Result
  <2> QED
    BY <1>1, <2>1 DEF Process
<1>3. main' \in {"output", "record"} /\ (main' = "output" => item' = item)
  BY DEF Process, Main
<1>4. MainTypes'
  BY <1>1, <1>2, <1>3 DEF Process, MainTypes, Processing
<1>5. ArchiveTypes'
  BY <1>1 DEF Process, ArchiveTypes, raws, File
<1>6. ThreadTypes' /\ ScalarTypes'
  BY SameThreads DEF Process, ScalarTypes, timers, bounds
<1> QED
  BY <1>4, <1>5, <1>6

LEMMA WriteTypes == ASSUME TypeInv, WriteOutput \/ WriteManifest PROVE TypeInv'
<1> USE DEF TypeInv
<1>1. item \in Message /\ item.got \in Versions /\ item' = item
  BY DEF WriteOutput, WriteManifest, Main, MainTypes, Processing
<1>2. main' \in {"manifest", "record"}
  BY DEF WriteOutput, WriteManifest, Main
<1>3. MainTypes'
  BY <1>1, <1>2 DEF WriteOutput, WriteManifest, MainTypes, Processing
<1>4. ArchiveTypes'
  BY <1>1 DEF WriteOutput, WriteManifest, ArchiveTypes, raws, File
<1>5. ThreadTypes' /\ ScalarTypes'
  BY SameThreads DEF WriteOutput, WriteManifest, ScalarTypes, timers, bounds
<1> QED
  BY <1>3, <1>4, <1>5

LEMMA ProcessFailsTypes == ASSUME TypeInv, ProcessFails PROVE TypeInv'
<1> USE DEF TypeInv
<1>1. [item EXCEPT !.got = Failed] \in Message
  BY DEF MainTypes, Message, Result
<1>2. main' = "record" /\ item' \in Message
  BY <1>1 DEF ProcessFails, Main
<1>3. MainTypes'
  BY <1>2 DEF ProcessFails, MainTypes, Processing
<1>4. ThreadTypes' /\ ArchiveTypes' /\ ScalarTypes'
  BY SameThreads, SameArchive DEF ProcessFails, ScalarTypes, timers
<1> QED
  BY <1>3, <1>4

LEMMA StatusType == Status \in {"complete", "missing", "failed"}
BY DEF Status

LEMMA RecordTypes == ASSUME TypeInv, Record \/ RecordFails PROVE TypeInv'
<1> USE DEF TypeInv
<1>1. ThreadTypes' /\ ArchiveTypes' /\ ScalarTypes'
  BY SameThreads, SameArchive DEF Record, RecordFails, ScalarTypes, timers, bounds
<1>2. CASE Record
  <2>1. item.minute \in Minutes /\ item' = item /\ channel' = channel /\ report' = report /\ main' = "take"
    BY <1>2 DEF MainTypes, Message, Record, Main
  <2>2. outcome' \in [Minutes -> {None, "complete", "missing", "failed"}]
    BY <1>2, <2>1, StatusType DEF MainTypes, Record
  <2>3. summary' \in Counts
    <3> HIDE DEF Status
    <3>1. summary \in Counts /\ summary' = [summary EXCEPT ![Status] = @ + 1]
      BY <1>2 DEF MainTypes, Record
    <3>2. CASE Status = "complete"
      BY <3>1, <3>2 DEF Counts
    <3>3. CASE Status = "missing"
      BY <3>1, <3>3 DEF Counts
    <3>4. CASE Status = "failed"
      BY <3>1, <3>4 DEF Counts
    <3> QED
      BY <3>2, <3>3, <3>4, StatusType
  <2> QED
    BY <1>1, <2>1, <2>2, <2>3 DEF MainTypes, Processing
<1>3. CASE RecordFails
  <2>1. main' = "abort" /\ channel' = <<>> /\ UNCHANGED <<item, outcome, summary, report>>
    BY <1>3 DEF RecordFails, Main
  <2> QED
    BY <1>1, <2>1 DEF MainTypes, Processing
<1> QED
  BY <1>2, <1>3

LEMMA FinishTypes == ASSUME TypeInv, Finish PROVE TypeInv'
<1> USE DEF TypeInv
<1>1. report' \in Counts \cup {None}
  BY DEF Finish, MainTypes
<1>2. ThreadTypes' /\ ArchiveTypes' /\ MainTypes'
  BY <1>1, SameThreads, SameArchive DEF Finish, MainTypes
<1>3. ScalarTypes'
  BY Zenon DEF Finish, ScalarTypes, timers
<1> QED
  BY <1>2, <1>3

LEMMA StartTypes == ASSUME TypeInv, Start PROVE TypeInv'
<1> USE DEF TypeInv
<1>1. 1 \in Minutes
  BY Bounds DEF Minutes
<1>2. ThreadTypes'
  <2>1. \A t \in Threads : thread'[t] = NoThread
    BY DEF Start
  <2>2. NoThread \in Download /\ DownloadOK(NoThread)
    BY CollectorAssumption, SMT DEF NoThread, Download, DownloadOK, Result, Places
  <2> QED
    BY <2>1, <2>2 DEF ThreadTypes, Start, DownloadOK
<1>3. ArchiveTypes'
  BY SameArchive DEF Start
<1>4. MainTypes'
  BY <1>1 DEF MainTypes, Start, Message, Result, Processing, Counts, NoSummary
<1>5. ScalarTypes'
  <2>1. /\ absent' = {} /\ running' = TRUE /\ next' = 1 /\ cooldown' = 0 /\ owed' = 0
        /\ early' = {} /\ runs' = runs + 1 /\ faults' = faults
    BY DEF Start
  <2>2. running' \in BOOLEAN /\ absent' \subseteq Minutes /\ early' \subseteq Threads
    BY <2>1, Zenon
  <2>3. /\ next' \in Nat /\ next' >= 1 /\ cooldown' \in 0 .. MaxWait /\ owed' \in Nat
        /\ runs' \in Nat /\ faults' \in Nat
    BY <2>1, Bounds DEF ScalarTypes
  <2> QED
    BY <2>2, <2>3 DEF ScalarTypes
<1> QED
  BY <1>2, <1>3, <1>4, <1>5

LEMMA SurroundingsTypes ==
  ASSUME TypeInv, Kill \/ Damage \/ Publish \/ Elapse PROVE TypeInv'
<1> USE DEF TypeInv
<1>1. CASE Kill
  <2>1. ThreadTypes'
    <3>1. \A t \in Threads : thread'[t] = NoThread
      BY <1>1 DEF Kill
    <3>2. NoThread \in Download /\ DownloadOK(NoThread)
      BY CollectorAssumption, SMT DEF NoThread, Download, DownloadOK, Result, Places
    <3> QED
      BY <1>1, <3>1, <3>2 DEF ThreadTypes, Kill, DownloadOK
  <2>2. litter' \in Nat
    <3>1. IsFiniteSet(Threads)
      BY CollectorAssumption
    <3>2. Cardinality({t \in Threads : thread[t].pc = "save"}) \in Nat
      BY <3>1, FS_Subset, FS_CardinalityType, Zenon
    <3> QED
      BY <1>1, <3>2 DEF Kill, ArchiveTypes
  <2>3. ArchiveTypes' /\ MainTypes'
    BY <1>1, <2>2, SameMain DEF Kill, ArchiveTypes, derived
  <2>4. ScalarTypes'
    <3>1. running' \in BOOLEAN /\ UNCHANGED <<next, cooldown, owed, early, absent, runs>>
      BY <1>1, Zenon DEF Kill, timers
    <3>2. faults' \in Nat
      BY <1>1 DEF Kill, ScalarTypes
    <3> QED
      BY <3>1, <3>2 DEF ScalarTypes
  <2> QED
    BY <2>1, <2>3, <2>4
<1>2. CASE Damage
  <2>1. ArchiveTypes'
    BY <1>2 DEF Damage, ArchiveTypes, File
  <2>2. ThreadTypes' /\ MainTypes' /\ ScalarTypes'
    BY <1>2, SameThreads, SameMain DEF Damage, ScalarTypes, timers
  <2> QED
    BY <2>1, <2>2
<1>3. CASE Publish
  <2>1. ArchiveTypes'
    BY <1>3 DEF Publish, ArchiveTypes, raws, derived
  <2>2. ThreadTypes' /\ MainTypes' /\ ScalarTypes'
    BY <1>3, SameThreads, SameMain DEF Publish, ScalarTypes, timers, bounds
  <2> QED
    BY <2>1, <2>2
<1>4. CASE Elapse
  <2>1. ThreadTypes' /\ ArchiveTypes' /\ MainTypes'
    BY <1>4, SameThreads, SameArchive, SameMain DEF Elapse
  <2>2. ScalarTypes'
    BY <1>4, Bounds, SMT DEF Elapse, ScalarTypes, bounds, MaxOf
  <2> QED
    BY <2>1, <2>2
<1> QED
  BY <1>1, <1>2, <1>3, <1>4

LEMMA StepTypes == TypeInv /\ [Next]_vars => TypeInv'
<1> SUFFICES ASSUME TypeInv, [Next]_vars PROVE TypeInv'
  OBVIOUS
<1>1. CASE UNCHANGED vars
  <2>1. ThreadTypes' /\ ArchiveTypes' /\ MainTypes'
    BY <1>1, SameThreads, SameArchive, SameMain DEF vars, TypeInv
  <2>2. ScalarTypes'
    BY <1>1 DEF vars, TypeInv, ScalarTypes, timers, bounds
  <2> QED
    BY <2>1, <2>2 DEF TypeInv
<1>2. CASE Next
  BY <1>2, FetchTypes, TakeTypes, ProcessTypes, WriteTypes, ProcessFailsTypes, RecordTypes,
     FinishTypes, StartTypes, SurroundingsTypes DEF Next, Work
<1> QED
  BY <1>1, <1>2

\* Whatever fails, is killed or damaged, the archive, the threads and the main
\* thread hold what their writers put there (collect, fetch, process).
THEOREM TypeCorrect == Spec => []TypeOK
<1>1. Init => TypeInv
  BY InitTypes
<1>2. TypeInv /\ [Next]_vars => TypeInv'
  BY StepTypes
<1>3. TypeInv => TypeOK
  BY TypeInvTypes
<1> QED
  BY <1>1, <1>2, <1>3, PTL DEF Spec

-----------------------------------------------------------------------------
(* The shared cooldown.                                                    *)

\* The step of one thread leaves the others where they are.
LEMMA FetchFrame ==
  ASSUME TypeInv, NEW t \in Threads, Fetch(t), NEW u \in Threads, u # t
  PROVE  thread'[u] = thread[u]
<1>1. ASSUME NEW r, Put(t, r) PROVE thread'[u] = thread[u]
  BY <1>1 DEF Put, TypeInv, ThreadTypes
<1>2. \E r : Put(t, r)
  BY Zenon DEF Fetch, Claim, LookUp, AwaitCooldown, Admit, FetchFails, Respond, NotFound, Receive, Throttled, Refused,
     DropBody, SaveRaw, SaveSidecar, Send, Retry, Answer, Goto
<1> QED
  BY <1>1, <1>2

LEMMA PutThread ==
  ASSUME TypeInv, NEW t \in Threads, NEW r, Put(t, r) PROVE thread'[t] = r
BY DEF Put, TypeInv, ThreadTypes

\* A thread that is between its look at the cooldown and its request looked
\* before anything was owed: what is owed never exceeds the cooldown.
CooldownInv ==
  /\ owed <= cooldown
  /\ \A u \in Threads : thread[u].pc = "space" => owed = 0 \/ u \in early

\* A step that brings no thread behind its look keeps the second part.
LEMMA SameEarly ==
  ASSUME TypeInv, CooldownInv, UNCHANGED timers,
         \A u \in Threads : thread'[u].pc = "space" => thread[u].pc = "space"
  PROVE  CooldownInv'
BY DEF CooldownInv, timers

\* Where an answer or a retry leaves a thread.
LEMMA NotLooking ==
  ASSUME TypeInv, NEW t \in Threads, Retry(t) \/ (\E v : Answer(t, v)) \/ Goto(t, "request")
  PROVE  thread'[t].pc # "space"
<1>1. thread[t] \in Download
  BY DEF TypeInv, ThreadTypes
<1>2. ASSUME NEW v, Answer(t, v) PROVE thread'[t].pc = "send"
  BY <1>1, <1>2, PutThread DEF Answer, Download
<1>3. CASE Retry(t) /\ thread[t].tries + 1 < Attempts
  <2>1. thread'[t] = [thread[t] EXCEPT !.pc = "wait", !.tries = @ + 1]
    BY <1>3, PutThread DEF Retry
  <2> QED
    BY <1>1, <2>1 DEF Download
<1>4. CASE Goto(t, "request")
  BY <1>1, <1>4, PutThread DEF Goto, Download
<1> QED
  BY <1>2, <1>3, <1>4 DEF Retry

LEMMA AwaitCooldownRespects ==
  ASSUME TypeInv, CooldownInv, NEW t \in Threads, AwaitCooldown(t) PROVE CooldownInv'
<1>1. owed = 0 /\ cooldown = 0 /\ UNCHANGED timers
  BY DEF AwaitCooldown, CooldownInv, TypeInv, ScalarTypes
<1> QED
  BY <1>1 DEF CooldownInv, timers

\* The thread is past its request, or has failed.
LEMMA LeavesSpace ==
  ASSUME TypeInv, CooldownInv, NEW t \in Threads, Admit(t) \/ FetchFails(t) PROVE CooldownInv'
<1>1. Fetch(t)
  BY DEF Fetch
<1>2. thread'[t].pc # "space"
  BY NotLooking DEF Admit, FetchFails
<1>3. \A u \in Threads : u # t => thread'[u] = thread[u]
  BY <1>1, FetchFrame
<1>4. cooldown' = cooldown /\ owed' = owed /\ early' = early \ {t}
  BY DEF Admit, FetchFails
<1>5. owed' <= cooldown'
  BY <1>4 DEF CooldownInv
<1>6. ASSUME NEW u \in Threads, thread'[u].pc = "space" PROVE owed' = 0 \/ u \in early'
  <2>1. u # t /\ thread[u].pc = "space"
    BY <1>2, <1>3, <1>6
  <2> QED
    BY <1>4, <2>1 DEF CooldownInv
<1> QED
  BY <1>5, <1>6 DEF CooldownInv

LEMMA RespondRespects ==
  ASSUME TypeInv, CooldownInv, NEW t \in Threads, Respond(t) PROVE CooldownInv'
<1>1. Fetch(t)
  BY DEF Fetch
<1>2. cooldown \in Nat /\ owed \in Nat /\ thread[t] \in Download
  BY Bounds DEF TypeInv, ScalarTypes, ThreadTypes
<1>3. thread'[t].pc # "space"
  <2>1. CASE Receive(t)
    <3>1. PICK body : Put(t, [thread[t] EXCEPT !.pc = "save", !.got = body])
      BY <2>1 DEF Receive
    <3> QED
      BY <1>2, <3>1, PutThread DEF Download
  <2>2. CASE ~Receive(t)
    BY <2>2, NotLooking DEF Respond, NotFound, Throttled, Refused
  <2> QED
    BY <2>1, <2>2
<1>4. \A u \in Threads : u # t => thread'[u] = thread[u]
  BY <1>1, FetchFrame
<1>5. \A u \in Threads : thread'[u].pc = "space" => thread[u].pc = "space"
  BY <1>3, <1>4
<1>6. ASSUME NEW w \in Waits, cooldown' = CooldownAfter(w), owed' = MaxOf(owed, w),
             early' = IF owed = 0 THEN Looked ELSE early
      PROVE  CooldownInv'
  <2>1. w \in Nat
    BY Bounds
  <2>2. owed' <= cooldown'
    BY <1>2, <1>6, <2>1, SMT DEF CooldownInv, CooldownAfter, MaxOf
  <2>3. ASSUME NEW u \in Threads, thread'[u].pc = "space" PROVE u \in early'
    BY <1>5, <1>6, <2>3 DEF CooldownInv, Looked
  <2> QED
    BY <2>2, <2>3 DEF CooldownInv
<1>7. CASE Throttled(t)
  <2>1. PICK w \in Waits :
          \/ UNCHANGED timers
          \/ /\ cooldown' = CooldownAfter(w) /\ owed' = MaxOf(owed, w)
             /\ early' = IF owed = 0 THEN Looked ELSE early
    BY <1>7 DEF Throttled
  <2> QED
    BY <1>5, <1>6, <2>1, SameEarly
<1>8. CASE ~Throttled(t)
  <2>1. UNCHANGED timers
    BY <1>8 DEF Respond, NotFound, Receive, Refused
  <2> QED
    BY <1>5, <2>1, SameEarly
<1> QED
  BY <1>7, <1>8

\* The other steps of a thread bring it elsewhere and leave the timers alone.
LEMMA OtherFetchRespects ==
  ASSUME TypeInv, CooldownInv, NEW t \in Threads,
         Claim(t) \/ LookUp(t) \/ DropBody(t) \/ SaveRaw(t) \/ SaveSidecar(t) \/ Send(t)
  PROVE  CooldownInv'
<1>1. Fetch(t)
  BY DEF Fetch
<1>2. thread[t] \in Download /\ NoThread \in Download
  BY DownloadFacts DEF TypeInv, ThreadTypes
<1>3. UNCHANGED timers
  BY DEF Claim, LookUp, DropBody, SaveRaw, SaveSidecar, Send
<1>4. ASSUME NEW place, Goto(t, place) PROVE thread'[t].pc = place
  BY <1>2, <1>4, PutThread DEF Goto, Download
<1>5. thread'[t].pc # "space"
  <2>1. CASE Claim(t)
    <3>1. thread'[t] = [NoThread EXCEPT !.pc = "cache", !.minute = next] \/ Goto(t, "done")
      BY <2>1, PutThread DEF Claim
    <3>2. [NoThread EXCEPT !.pc = "cache", !.minute = next].pc = "cache"
      BY DEF NoThread
    <3> QED
      BY <1>4, <3>1, <3>2
  <2>2. CASE LookUp(t) \/ SaveRaw(t)
    <3>1. (\E v : Answer(t, v)) \/ Goto(t, "wait") \/ Goto(t, "sidecar")
      BY <2>2, Zenon DEF LookUp, SaveRaw
    <3> QED
      BY <1>4, <3>1, NotLooking
  <2>3. CASE DropBody(t) \/ SaveSidecar(t)
    <3>1. Retry(t) \/ (\E v : Answer(t, v))
      BY <2>3, Zenon DEF DropBody, SaveSidecar
    <3> QED
      BY <3>1, NotLooking
  <2>4. CASE Send(t)
    <3>1. thread'[t] = [NoThread EXCEPT !.pc = "done"] \/ thread'[t] = NoThread
      BY <2>4, PutThread DEF Send
    <3>2. [NoThread EXCEPT !.pc = "done"].pc = "done" /\ NoThread.pc = "claim"
      BY DEF NoThread
    <3> QED
      BY <3>1, <3>2
  <2> QED
    BY <2>1, <2>2, <2>3, <2>4
<1>6. \A u \in Threads : u # t => thread'[u] = thread[u]
  BY <1>1, FetchFrame
<1>7. \A u \in Threads : thread'[u].pc = "space" => thread[u].pc = "space"
  BY <1>5, <1>6
<1> QED
  BY <1>3, <1>7, SameEarly

LEMMA StepCooldown == TypeInv /\ CooldownInv /\ [Next]_vars => CooldownInv'
<1> SUFFICES ASSUME TypeInv, CooldownInv, [Next]_vars PROVE CooldownInv'
  OBVIOUS
<1>1. cooldown \in Nat /\ owed \in Nat
  BY Bounds DEF TypeInv, ScalarTypes
<1>2. ASSUME UNCHANGED timers, UNCHANGED thread PROVE CooldownInv'
  BY <1>2, SameEarly
<1>3. ASSUME NEW t \in Threads, Fetch(t) PROVE CooldownInv'
  BY <1>3, AwaitCooldownRespects, LeavesSpace, RespondRespects, OtherFetchRespects DEF Fetch
<1>4. ASSUME Work PROVE CooldownInv'
  BY <1>2, <1>4 DEF Work, Take, Process, WriteOutput, WriteManifest, ProcessFails, Record,
     RecordFails, Finish
<1>5. CASE Start
  BY <1>5 DEF Start, CooldownInv
<1>6. CASE Damage \/ Publish \/ UNCHANGED vars
  BY <1>2, <1>6 DEF Damage, Publish, vars
<1>7. CASE Kill
  <2>1. UNCHANGED timers /\ \A u \in Threads : thread'[u] = NoThread
    BY <1>7 DEF Kill
  <2> QED
    BY <2>1, SameEarly DEF NoThread
<1>8. CASE Elapse
  <2>1. owed' = MaxOf(owed - 1, 0) /\ cooldown' = cooldown - 1 /\ cooldown > 0
        /\ early' = (IF owed' = 0 THEN {} ELSE early) /\ thread' = thread
    BY <1>8 DEF Elapse
  <2>2. owed' <= cooldown' /\ (owed = 0 => owed' = 0)
    BY <1>1, <2>1, SMT DEF CooldownInv, MaxOf
  <2> QED
    BY <2>1, <2>2 DEF CooldownInv
<1> QED
  BY <1>3, <1>4, <1>5, <1>6, <1>7, <1>8 DEF Next

\* While a Retry-After is owed, each thread sends at most one request: the one
\* for which it had looked at the cooldown before, and neither the thread that
\* was told nor one that looks later sends any, however many are throttled, and
\* whichever is noted last (fetch).
THEOREM CooldownRespectedHolds == Spec => CooldownRespected
<1>1. Init => TypeInv /\ CooldownInv
  BY InitTypes DEF Init, CooldownInv
<1>2. TypeInv /\ CooldownInv /\ [Next]_vars => (TypeInv /\ CooldownInv)'
  BY StepTypes, StepCooldown
<1>3. TypeInv /\ CooldownInv /\ [Next]_vars =>
        [\A t \in Threads :
           (thread[t].pc = "space" /\ thread'[t].pc = "request") => owed = 0 \/ t \in early]_thread
  BY DEF CooldownInv
<1> QED
  BY <1>1, <1>2, <1>3, PTL DEF Spec, CooldownRespected

-----------------------------------------------------------------------------
(* The disk reserve.                                                       *)

Saved == {m \in Minutes : raw[m] # None}
Copies == {c \in Minutes \X (Versions \cup {Damaged}) : c[2] \in aside[c[1]]}
Writing == {t \in Threads : thread[t].pc = "save"}
Asking == {t \in Threads : thread[t].pc = "request"}

\* The files there are, with those that requests may still bring.
Load == Cardinality(Saved) + Cardinality(Copies) + Cardinality(Writing) + litter + Cardinality(Asking)

\* Why: a request is admitted only when there is room for one file of every
\* thread, and no other step needs more room than it gives back.
DiskInv == Space - MaxDownload * Load >= MinFree

LEMMA SetsFinite ==
  /\ IsFiniteSet(Minutes) /\ IsFiniteSet(Threads)
  /\ IsFiniteSet(Minutes \X (Versions \cup {Damaged}))
<1>1. IsFiniteSet(Minutes) /\ IsFiniteSet(Threads) /\ IsFiniteSet(Versions)
  BY CollectorAssumption, Bounds, FS_Interval DEF Minutes
<1>2. IsFiniteSet(Versions \cup {Damaged})
  BY <1>1, FS_AddElement
<1> QED
  BY <1>1, <1>2, FS_Product

LEMMA LoadFinite ==
  /\ IsFiniteSet(Saved) /\ IsFiniteSet(Copies) /\ IsFiniteSet(Writing) /\ IsFiniteSet(Asking)
  /\ Cardinality(Saved) \in Nat /\ Cardinality(Copies) \in Nat
  /\ Cardinality(Writing) \in Nat /\ Cardinality(Asking) \in Nat
<1>1. /\ Saved \subseteq Minutes /\ Copies \subseteq Minutes \X (Versions \cup {Damaged})
      /\ Writing \subseteq Threads /\ Asking \subseteq Threads
  BY DEF Saved, Copies, Writing, Asking
<1>2. IsFiniteSet(Saved) /\ IsFiniteSet(Copies) /\ IsFiniteSet(Writing) /\ IsFiniteSet(Asking)
  BY <1>1, SetsFinite, FS_Subset, Zenon
<1> QED
  BY <1>2, FS_CardinalityType, Zenon

LEMMA LoadFinitePrimed ==
  /\ IsFiniteSet(Saved') /\ IsFiniteSet(Copies') /\ IsFiniteSet(Writing') /\ IsFiniteSet(Asking')
  /\ Cardinality(Saved') \in Nat /\ Cardinality(Copies') \in Nat
  /\ Cardinality(Writing') \in Nat /\ Cardinality(Asking') \in Nat
<1>1. /\ Saved' \subseteq Minutes /\ Copies' \subseteq Minutes \X (Versions \cup {Damaged})
      /\ Writing' \subseteq Threads /\ Asking' \subseteq Threads
  BY DEF Saved, Copies, Writing, Asking
<1>2. IsFiniteSet(Saved') /\ IsFiniteSet(Copies') /\ IsFiniteSet(Writing') /\ IsFiniteSet(Asking')
  BY <1>1, SetsFinite, FS_Subset, Zenon
<1> QED
  BY <1>2, FS_CardinalityType, Zenon

LEMMA UsedIs == Used = Cardinality(Saved) + Cardinality(Copies) + Cardinality(Writing) + litter
BY DEF Used, Saved, Copies, Writing

LEMMA LessLoad ==
  ASSUME NEW a \in Nat, NEW b \in Nat, b <= a, Space - MaxDownload * a >= MinFree
  PROVE  Space - MaxDownload * b >= MinFree
<1>1. \A d \in Nat, x \in Nat, y \in Nat : y <= x => d * y <= d * x
  <2> SUFFICES ASSUME NEW d \in Nat, NEW x \in Nat, NEW y \in Nat, y <= x PROVE d * y <= d * x
    OBVIOUS
  <2>1. x - y \in Nat /\ d * (x - y) \in Nat
    BY SMT
  <2>2. d * x = d * y + d * (x - y)
    BY SMT
  <2>3. d * x \in Nat /\ d * y \in Nat
    BY SMT
  <2> QED
    BY <2>1, <2>2, <2>3, SMT
<1>2. MaxDownload * b <= MaxDownload * a
  BY <1>1, Bounds
<1>3. MaxDownload * a \in Int /\ MaxDownload * b \in Int /\ Space \in Int /\ MinFree \in Int
  BY Bounds
<1> QED
  BY <1>2, <1>3, SMT

LEMMA LoadType == ASSUME TypeInv PROVE Load \in Nat
BY LoadFinite, SMT DEF Load, TypeInv, ArchiveTypes

LEMMA LoadShrinks ==
  ASSUME TypeInv, TypeInv', DiskInv, Load' <= Load PROVE DiskInv'
<1>1. Load \in Nat /\ Load' \in Nat
  BY LoadType, LoadFinitePrimed, SMT DEF Load, TypeInv, ArchiveTypes
<1> QED
  BY <1>1, LessLoad DEF DiskInv

\* What the step of t does to the sets of threads.
LEMMA ThreadSets ==
  ASSUME TypeInv, NEW t \in Threads, NEW r, Put(t, r)
  PROVE  /\ Writing' = IF r.pc = "save" THEN Writing \cup {t} ELSE Writing \ {t}
         /\ Asking' = IF r.pc = "request" THEN Asking \cup {t} ELSE Asking \ {t}
<1>1. \A u \in Threads : thread'[u] = IF u = t THEN r ELSE thread[u]
  BY DEF Put, TypeInv, ThreadTypes
<1> QED
  BY <1>1 DEF Writing, Asking

LEMMA FewerOf ==
  ASSUME NEW A, NEW B, IsFiniteSet(A), B \subseteq A
  PROVE  Cardinality(B) <= Cardinality(A)
BY FS_Subset, Zenon

\* A step of t that neither saves nor asks, and leaves the raw files.
LEMMA LeavesLoad ==
  ASSUME TypeInv, NEW t \in Threads, NEW r, Put(t, r), r.pc \notin {"save", "request"},
         UNCHANGED <<raw, aside, litter>>
  PROVE  Load' <= Load
<1>1. Writing' \subseteq Writing /\ Asking' \subseteq Asking
  BY ThreadSets
<1>2. Cardinality(Writing') <= Cardinality(Writing) /\ Cardinality(Asking') <= Cardinality(Asking)
  BY <1>1, LoadFinite, FewerOf, Zenon
<1>3. Saved' = Saved /\ Copies' = Copies /\ litter' = litter
  BY Zenon DEF Saved, Copies
<1>4. litter \in Nat
  BY DEF TypeInv, ArchiveTypes
<1> QED
  BY <1>2, <1>3, <1>4, LoadFinite, LoadFinitePrimed, SMT DEF Load

LEMMA RetryPlace ==
  ASSUME TypeInv, NEW t \in Threads, Retry(t)
  PROVE  \E r : Put(t, r) /\ r.pc \in {"wait", "send"}
<1>1. thread[t] \in Download
  BY DEF TypeInv, ThreadTypes
<1>2. [thread[t] EXCEPT !.pc = "wait", !.tries = @ + 1].pc = "wait"
  BY <1>1 DEF Download
<1>3. [thread[t] EXCEPT !.pc = "send", !.got = Failed].pc = "send"
  BY <1>1 DEF Download
<1> QED
  BY <1>2, <1>3 DEF Retry, Answer

LEMMA AnswerPlace ==
  ASSUME TypeInv, NEW t \in Threads, NEW v, Answer(t, v)
  PROVE  \E r : Put(t, r) /\ r.pc \in {"wait", "send"}
<1>1. thread[t] \in Download
  BY DEF TypeInv, ThreadTypes
<1>2. [thread[t] EXCEPT !.pc = "send", !.got = v].pc = "send"
  BY <1>1 DEF Download
<1> QED
  BY <1>2 DEF Answer

LEMMA GotoPlace ==
  ASSUME TypeInv, NEW t \in Threads, NEW place, Goto(t, place)
  PROVE  \E r : Put(t, r) /\ r.pc = place
<1>1. thread[t] \in Download
  BY DEF TypeInv, ThreadTypes
<1>2. [thread[t] EXCEPT !.pc = place].pc = place
  BY <1>1 DEF Download
<1> QED
  BY <1>2 DEF Goto

\* Setting a file aside moves it.
LEMMA LookUpLoad ==
  ASSUME TypeInv, NEW t \in Threads, LookUp(t) PROVE Load' <= Load
<1> DEFINE m == thread[t].minute
           c == <<m, raw[m]>>
<1>1. m \in Minutes /\ litter \in Nat
  BY DownloadFacts DEF LookUp, At, Places, TypeInv, ArchiveTypes
<1>2. PICK r : Put(t, r) /\ r.pc \in {"wait", "send"}
  BY AnswerPlace, GotoPlace DEF LookUp
<1>3. CASE ~Cached(m) /\ Renamed(m)
  <2>1. raw[m] # None /\ raw[m] \in Versions \cup {Damaged} /\ raw[m] \notin aside[m]
    BY <1>1, <1>3 DEF Renamed, TypeInv, ArchiveTypes
  <2>2. /\ aside' = [aside EXCEPT ![m] = @ \cup {raw[m]}] /\ raw' = [raw EXCEPT ![m] = None]
        /\ litter' = litter
    BY <1>3 DEF LookUp
  <2>3. Saved' = Saved \ {m} /\ m \in Saved
    BY <1>1, <2>1, <2>2 DEF Saved, TypeInv, ArchiveTypes
  <2>4. Cardinality(Saved') = Cardinality(Saved) - 1
    BY <2>3, LoadFinite, FS_RemoveElement, Zenon
  <2>5. Copies' \subseteq Copies \cup {c}
    BY <1>1, <2>1, <2>2 DEF Copies, TypeInv, ArchiveTypes
  <2>6. /\ IsFiniteSet(Copies \cup {c})
        /\ Cardinality(Copies \cup {c}) = Cardinality(Copies) \/ Cardinality(Copies \cup {c}) = Cardinality(Copies) + 1
    BY LoadFinite, FS_AddElement, Zenon
  <2>7. Cardinality(Copies') <= Cardinality(Copies \cup {c})
    BY <2>5, <2>6, FewerOf, Zenon
  <2>8. Cardinality(Copies') <= Cardinality(Copies) + 1
    <3> HIDE DEF c
    <3> QED
      BY <2>6, <2>7, LoadFinite, LoadFinitePrimed, SMT
  <2>9. Cardinality(Writing') <= Cardinality(Writing) /\ Cardinality(Asking') <= Cardinality(Asking)
    BY <1>2, ThreadSets, LoadFinite, FewerOf, Zenon
  <2> QED
    BY <1>1, <2>2, <2>4, <2>8, <2>9, LoadFinite, LoadFinitePrimed, SMT DEF Load
<1>4. CASE ~(~Cached(m) /\ Renamed(m))
  BY <1>2, <1>4, LeavesLoad DEF LookUp
<1> QED
  BY <1>3, <1>4

\* An answer with a body takes the room its request had.
LEMMA ReceiveLoad ==
  ASSUME TypeInv, NEW t \in Threads, Respond(t), Receive(t) PROVE Load' <= Load
<1>1. PICK body : Put(t, [thread[t] EXCEPT !.pc = "save", !.got = body])
  BY DEF Receive
<1> DEFINE r == [thread[t] EXCEPT !.pc = "save", !.got = body]
<1>2. r.pc = "save" /\ litter \in Nat /\ litter' = litter /\ t \in Asking
  BY DEF TypeInv, ThreadTypes, ArchiveTypes, Download, Respond, At, raws, Asking
<1>3. Writing' = Writing \cup {t} /\ Asking' = Asking \ {t}
  <2> HIDE DEF r
  <2> QED
    BY <1>1, <1>2, ThreadSets DEF r
<1>4. Cardinality(Asking') = Cardinality(Asking) - 1
  BY <1>2, <1>3, LoadFinite, FS_RemoveElement, Zenon
<1>5. Cardinality(Writing') = Cardinality(Writing) \/ Cardinality(Writing') = Cardinality(Writing) + 1
  BY <1>3, LoadFinite, FS_AddElement, Zenon
<1>6. Saved' = Saved /\ Copies' = Copies
  BY DEF Saved, Copies, Respond, raws
<1> QED
  BY <1>2, <1>4, <1>5, <1>6, LoadFinite, LoadFinitePrimed, SMT DEF Load

\* A temporary file becomes a raw file.
LEMMA SaveRawLoad ==
  ASSUME TypeInv, NEW t \in Threads, SaveRaw(t) PROVE Load' <= Load
<1> DEFINE m == thread[t].minute
<1>1. PICK r : Put(t, r) /\ r.pc = "sidecar"
  BY GotoPlace DEF SaveRaw
<1>2. t \in Writing /\ litter \in Nat /\ litter' = litter /\ m \in Minutes
  BY DownloadFacts DEF SaveRaw, At, Writing, TypeInv, ArchiveTypes, Places
<1>3. Writing' = Writing \ {t} /\ Asking' \subseteq Asking
  BY <1>1, ThreadSets
<1>4. Cardinality(Writing') = Cardinality(Writing) - 1
  BY <1>2, <1>3, LoadFinite, FS_RemoveElement, Zenon
<1>5. Cardinality(Asking') <= Cardinality(Asking)
  BY <1>3, LoadFinite, FewerOf, Zenon
<1>6. Saved' \subseteq Saved \cup {m} /\ Copies' = Copies
  BY <1>2 DEF Saved, Copies, SaveRaw, TypeInv, ArchiveTypes
<1>7. /\ IsFiniteSet(Saved \cup {m})
      /\ Cardinality(Saved \cup {m}) = Cardinality(Saved) \/ Cardinality(Saved \cup {m}) = Cardinality(Saved) + 1
  BY LoadFinite, FS_AddElement, Zenon
<1>8. Cardinality(Saved') <= Cardinality(Saved \cup {m})
  BY <1>6, <1>7, FewerOf, Zenon
<1>9. Cardinality(Saved') <= Cardinality(Saved) + 1
  <2> HIDE DEF m
  <2> QED
    BY <1>7, <1>8, LoadFinite, LoadFinitePrimed, SMT
<1> QED
  BY <1>2, <1>4, <1>5, <1>6, <1>9, LoadFinite, LoadFinitePrimed, SMT DEF Load

\* A request is admitted only with room for one file of every thread.
LEMMA AdmitLoad ==
  ASSUME TypeInv, TypeInv', DiskInv, NEW t \in Threads, Admit(t) PROVE DiskInv'
<1>1. UNCHANGED <<raw, aside, litter>> /\ litter \in Nat
  BY DEF Admit, raws, TypeInv, ArchiveTypes
<1>2. CASE Free >= Reserve + MaxDownload
  <2>1. PICK r : Put(t, r) /\ r.pc = "request"
    BY <1>2, GotoPlace DEF Admit
  <2>2. Writing' \subseteq Writing /\ Asking' \subseteq Threads
    BY <2>1, ThreadSets DEF Asking
  <2>3. Cardinality(Writing') <= Cardinality(Writing)
    BY <2>2, LoadFinite, FewerOf, Zenon
  <2>4. Cardinality(Asking') <= Cardinality(Threads) /\ Cardinality(Threads) \in Nat
    BY <2>2, SetsFinite, FewerOf, FS_CardinalityType, Zenon
  <2>5. Saved' = Saved /\ Copies' = Copies
    BY <1>1, Zenon DEF Saved, Copies
  <2>6. Used \in Nat /\ Load' \in Nat /\ Load' <= Used + Cardinality(Threads)
    BY <1>1, <2>3, <2>4, <2>5, LoadFinite, LoadFinitePrimed, UsedIs, SMT DEF Load
  <2>7. Space - MaxDownload * (Used + Cardinality(Threads)) >= MinFree
    <3>1. \A d \in Nat, n \in Nat, u \in Nat, s \in Nat, f \in Nat :
            s - d * u >= f + (n - 1) * d + d => s - d * (u + n) >= f
      BY SMT
    <3>2. Space - MaxDownload * Used >= MinFree + (Cardinality(Threads) - 1) * MaxDownload + MaxDownload
      BY <1>2 DEF Free, Reserve
    <3> QED
      BY <2>4, <2>6, <3>1, <3>2, Bounds
  <2> DEFINE n == Used + Cardinality(Threads)
  <2>8. n \in Nat /\ Load' <= n /\ Space - MaxDownload * n >= MinFree
    BY <2>4, <2>6, <2>7
  <2> HIDE DEF n
  <2>9. Space - MaxDownload * Load' >= MinFree
    BY <2>6, <2>8, LessLoad
  <2> QED
    BY <2>9 DEF DiskInv
<1>3. CASE ~(Free >= Reserve + MaxDownload)
  <2>1. PICK r : Put(t, r) /\ r.pc \in {"wait", "send"}
    BY <1>3, AnswerPlace DEF Admit
  <2>2. Load' <= Load
    BY <1>1, <2>1, LeavesLoad
  <2> QED
    BY <2>2, LoadShrinks
<1> QED
  BY <1>2, <1>3

LEMMA FetchDisk ==
  ASSUME TypeInv, TypeInv', DiskInv, NEW t \in Threads, Fetch(t) PROVE DiskInv'
<1>1. thread[t] \in Download
  BY DEF TypeInv, ThreadTypes
<1>2. ASSUME UNCHANGED <<raw, aside, litter>>,
             \E r : Put(t, r) /\ r.pc \notin {"save", "request"}
      PROVE  DiskInv'
  BY <1>2, LeavesLoad, LoadShrinks
<1>3. CASE Claim(t)
  <2>1. \E r : Put(t, r) /\ r.pc \notin {"save", "request"}
    <3>1. [NoThread EXCEPT !.pc = "cache", !.minute = next].pc = "cache"
      BY DEF NoThread
    <3> QED
      <4>1. CASE Goto(t, "done")
        BY <4>1, GotoPlace
      <4>2. CASE Put(t, [NoThread EXCEPT !.pc = "cache", !.minute = next])
        BY <3>1, <4>2
      <4> QED
        BY <1>3, <4>1, <4>2 DEF Claim
  <2> QED
    BY <1>2, <1>3, <2>1 DEF Claim, raws
<1>4. CASE LookUp(t)
  BY <1>4, LookUpLoad, LoadShrinks
<1>5. CASE Admit(t)
  BY <1>5, AdmitLoad
<1>6. CASE FetchFails(t)
  BY <1>2, <1>6, AnswerPlace DEF FetchFails, raws
<1>7. CASE Respond(t)
  <2>1. CASE Receive(t)
    BY <1>7, <2>1, ReceiveLoad, LoadShrinks
  <2>2. CASE NotFound(t) \/ Throttled(t) \/ Refused(t)
    BY <1>2, <1>7, <2>2, AnswerPlace, RetryPlace
       DEF Respond, NotFound, Throttled, Refused, raws
  <2> QED
    BY <1>7, <2>1, <2>2 DEF Respond
<1>8. CASE DropBody(t)
  BY <1>2, <1>8, RetryPlace DEF DropBody, raws
<1>9. CASE SaveRaw(t)
  BY <1>9, SaveRawLoad, LoadShrinks
<1>10. CASE SaveSidecar(t)
  BY <1>2, <1>10, AnswerPlace DEF SaveSidecar
<1>11. CASE Send(t)
  <2>1. NoThread.pc = "claim" /\ [NoThread EXCEPT !.pc = "done"].pc = "done"
    BY DEF NoThread
  <2> QED
    BY <1>2, <1>11, <2>1 DEF Send, raws
<1>12. CASE AwaitCooldown(t)
  BY <1>2, <1>12, GotoPlace DEF AwaitCooldown, raws
<1> QED
  BY <1>3, <1>4, <1>5, <1>6, <1>7, <1>8, <1>9, <1>10, <1>11, <1>12 DEF Fetch, TypeInv

LEMMA StepDisk == TypeInv /\ DiskInv /\ [Next]_vars => DiskInv'
<1> SUFFICES ASSUME TypeInv, DiskInv, [Next]_vars PROVE DiskInv'
  OBVIOUS
<1>1. TypeInv'
  BY StepTypes
<1>2. litter \in Nat
  BY DEF TypeInv, ArchiveTypes
<1>3. ASSUME UNCHANGED <<raw, aside, litter, thread>> PROVE DiskInv'
  <2>1. Saved' = Saved /\ Copies' = Copies /\ Writing' = Writing /\ Asking' = Asking /\ litter' = litter
    BY <1>3, Zenon DEF Saved, Copies, Writing, Asking
  <2> QED
    BY <2>1 DEF DiskInv, Load
<1>4. ASSUME Work \/ Publish \/ Elapse \/ UNCHANGED vars PROVE DiskInv'
  BY <1>3, <1>4 DEF Work, Take, Process, WriteOutput, WriteManifest, ProcessFails, Record,
     RecordFails, Finish, Publish, Elapse, vars, raws
<1>5. CASE Start \/ Kill
  <2>1. Writing' = {} /\ Asking' = {}
    <3>1. thread' = [u \in Threads |-> NoThread]
      BY <1>5 DEF Start, Kill
    <3>2. \A u \in Threads : thread'[u].pc = "claim"
      BY <3>1 DEF NoThread
    <3> QED
      BY <3>2 DEF Writing, Asking
  <2>2. Cardinality(Writing') = 0 /\ Cardinality(Asking') = 0
    BY <2>1, FS_EmptySet, Zenon
  <2>3. Saved' = Saved /\ Copies' = Copies
    BY <1>5 DEF Saved, Copies, Start, Kill, raws
  <2>4. litter' \in {litter, litter + Cardinality(Writing)}
    BY <1>5 DEF Start, Kill, raws, Writing
  <2>5. Load' <= Load
    BY <1>2, <2>2, <2>3, <2>4, LoadFinite, SMT DEF Load
  <2> QED
    BY <1>1, <2>5, LoadShrinks
<1>6. CASE Damage
  <2>1. Saved' = Saved
    <3>1. CASE UNCHANGED raw
      BY <3>1 DEF Saved
    <3>2. CASE \E m \in Minutes : raw[m] # None /\ raw' = [raw EXCEPT ![m] = Damaged]
      BY <3>2, Distinct DEF Saved, TypeInv, ArchiveTypes
    <3> QED
      BY <1>6, <3>1, <3>2 DEF Damage
  <2>2. Copies' = Copies /\ Writing' = Writing /\ Asking' = Asking /\ litter' = litter
    BY <1>6, Zenon DEF Copies, Writing, Asking, Damage
  <2> QED
    BY <2>1, <2>2 DEF DiskInv, Load
<1> QED
  BY <1>1, <1>4, <1>5, <1>6, FetchDisk DEF Next

\* However many downloads check the free space at the same time, and whatever
\* killed runs have left, the reserve of the operator is kept (reserve_space).
THEOREM DiskReserveKeptHolds == Spec => []DiskReserveKept
<1>1. Init => TypeInv /\ DiskInv
  <2> SUFFICES ASSUME Init PROVE DiskInv
    BY InitTypes
  <2>1. Saved = {} /\ Copies = {} /\ litter = 0
    BY DEF Init, Saved, Copies
  <2>2. Writing = {} /\ Asking = {}
    BY DEF Init, Writing, Asking, NoThread
  <2>3. Load = 0
    BY <2>1, <2>2, FS_EmptySet, SMT DEF Load
  <2> QED
    BY <2>3, Bounds, SMT DEF DiskInv
<1>2. TypeInv /\ DiskInv /\ [Next]_vars => (TypeInv /\ DiskInv)'
  BY StepTypes, StepDisk
<1>3. TypeInv /\ DiskInv => DiskReserveKept
  <2> SUFFICES ASSUME TypeInv, DiskInv PROVE DiskReserveKept
    OBVIOUS
  <2>1. Used \in Nat /\ Used <= Load /\ Load \in Nat
    BY UsedIs, LoadFinite, SMT DEF Load, TypeInv, ArchiveTypes
  <2>2. Space - MaxDownload * Used >= MinFree
    BY <2>1, LessLoad DEF DiskInv
  <2> QED
    BY <2>2 DEF DiskReserveKept, Free
<1> QED
  BY <1>1, <1>2, <1>3, PTL DEF Spec

-----------------------------------------------------------------------------
(* The order of the files of a minute.                                     *)

\* Why: the main thread writes the quarantine file, then the articles, then the
\* manifest, and no file is ever removed.
WrittenInv ==
  /\ ManifestIsLast
  /\ main = "manifest" => output[item.got] # "absent"
  /\ main \in {"output", "manifest"} /\ item.got \in Dirty => quarantine[item.got] # "absent"

\* What the files keep while nothing is written, or something is damaged.
LEMMA WrittenKept ==
  ASSUME TypeInv, WrittenInv, UNCHANGED manifest,
         \A v \in Versions : /\ output[v] # "absent" => output'[v] # "absent"
                             /\ quarantine[v] # "absent" => quarantine'[v] # "absent",
         UNCHANGED <<main, item>> \/ main' \notin {"output", "manifest"}
  PROVE  WrittenInv'
<1>1. ManifestIsLast'
  BY DEF WrittenInv, ManifestIsLast
<1>2. main \in {"output", "manifest"} => item.got \in Versions
  BY DEF TypeInv, MainTypes, Processing
<1> QED
  BY <1>1, <1>2 DEF WrittenInv

LEMMA StepWritten == TypeInv /\ WrittenInv /\ [Next]_vars => WrittenInv'
<1> SUFFICES ASSUME TypeInv, WrittenInv, [Next]_vars PROVE WrittenInv'
  OBVIOUS
<1>1. ASSUME UNCHANGED derived, UNCHANGED <<main, item>> \/ main' \notin {"output", "manifest"}
      PROVE  WrittenInv'
  BY <1>1, WrittenKept DEF derived
<1>2. ASSUME NEW t \in Threads, Fetch(t) PROVE WrittenInv'
  BY <1>1, <1>2 DEF Fetch, Claim, LookUp, AwaitCooldown, Admit, FetchFails, Respond, DropBody, SaveRaw, SaveSidecar,
     Send, mainVars
<1>3. CASE Take \/ ProcessFails \/ Record \/ RecordFails \/ Finish
  BY <1>1, <1>3 DEF Take, Main, ProcessFails, Record, RecordFails, Finish
<1>4. CASE Process
  <2>1. /\ item.got \in Versions /\ quarantine \in [Versions -> File] /\ UNCHANGED <<output, manifest>>
        /\ quarantine' = quarantine \/ quarantine' = [quarantine EXCEPT ![item.got] = "good"]
    BY <1>4 DEF Process, Main, TypeInv, ArchiveTypes, MainTypes, Processing
  <2>2. \A v \in Versions : quarantine[v] # "absent" => quarantine'[v] # "absent"
    BY <2>1
  <2>3. CASE main' = "record"
    BY <2>1, <2>2, <2>3, WrittenKept
  <2>4. CASE main' = "output"
    <3>1. item' = item /\ (item.got \in Dirty => quarantine'[item.got] = "good")
      BY <1>4, <2>1, <2>4 DEF Process, Main
    <3>2. ManifestIsLast'
      BY <2>1, <2>2 DEF WrittenInv, ManifestIsLast
    <3> QED
      BY <2>4, <3>1, <3>2 DEF WrittenInv
  <2> QED
    BY <1>4, <2>3, <2>4 DEF Process, Main
<1>5. CASE WriteOutput
  <2>1. /\ item.got \in Versions /\ output \in [Versions -> File] /\ UNCHANGED <<quarantine, manifest, item>>
        /\ main = "output" /\ main' = "manifest" /\ output' = [output EXCEPT ![item.got] = "good"]
    BY <1>5 DEF WriteOutput, Main, TypeInv, ArchiveTypes, MainTypes, Processing
  <2>2. output'[item.got] = "good" /\ \A v \in Versions : output[v] # "absent" => output'[v] # "absent"
    BY <2>1
  <2> QED
    BY <2>1, <2>2 DEF WrittenInv, ManifestIsLast
<1>6. CASE WriteManifest
  <2>1. /\ item.got \in Versions /\ manifest \in [Versions -> BOOLEAN] /\ UNCHANGED <<quarantine, output, item>>
        /\ main = "manifest" /\ main' = "record" /\ manifest' = [manifest EXCEPT ![item.got] = TRUE]
    BY <1>6 DEF WriteManifest, Main, TypeInv, ArchiveTypes, MainTypes, Processing
  <2>2. \A v \in Versions : manifest'[v] => manifest[v] \/ v = item.got
    BY <2>1
  <2> QED
    BY <2>1, <2>2 DEF WrittenInv, ManifestIsLast
<1>7. CASE Start \/ Kill \/ Publish \/ Elapse \/ UNCHANGED vars
  BY <1>1, <1>7 DEF Start, Kill, Publish, Elapse, vars, mainVars
<1>8. CASE Damage
  <2>1. /\ output \in [Versions -> File] /\ quarantine \in [Versions -> File]
        /\ UNCHANGED <<manifest, main, item>>
    BY <1>8 DEF Damage, mainVars, TypeInv, ArchiveTypes
  <2>2. \A v \in Versions : /\ output[v] # "absent" => output'[v] # "absent"
                            /\ quarantine[v] # "absent" => quarantine'[v] # "absent"
    BY <1>8, <2>1 DEF Damage
  <2> QED
    BY <2>1, <2>2, WrittenKept
<1> QED
  BY <1>2, <1>3, <1>4, <1>5, <1>6, <1>7, <1>8 DEF Next, Work

\* Wherever a run is killed or the disk fails, a manifest describes articles
\* and quarantine files that were written before it (process).
THEOREM ManifestIsLastHolds == Spec => []ManifestIsLast
<1>1. Init => TypeInv /\ WrittenInv
  BY InitTypes DEF Init, WrittenInv, ManifestIsLast
<1>2. TypeInv /\ WrittenInv /\ [Next]_vars => (TypeInv /\ WrittenInv)'
  BY StepTypes, StepWritten
<1>3. WrittenInv => ManifestIsLast
  BY DEF WrittenInv
<1> QED
  BY <1>1, <1>2, <1>3, PTL DEF Spec

\* No step of a run takes apart a minute whose files agree, unless a thread is
\* fetching that minute again (fetch, process).
THEOREM VerifiedStaysHolds == Spec => VerifiedStays
<1>1. Init => TypeInv
  BY InitTypes
<1>2. TypeInv /\ [Next]_vars => TypeInv'
  BY StepTypes
<1>3. TypeInv /\ [Next]_vars =>
        [running => \A m \in Minutes : Verified(m) /\ ~Downloading(m) => Verified(m)']_<<raws, derived>>
  <2> SUFFICES ASSUME TypeInv, [Next]_vars, running,
                      NEW m \in Minutes, Verified(m), ~Downloading(m)
               PROVE  Verified(m)'
    OBVIOUS
  <2>1. /\ raw[m] \in Versions /\ sidecar[m] = raw[m] /\ manifest[raw[m]]
        /\ output[raw[m]] = "good" /\ (raw[m] \in Dirty => quarantine[raw[m]] = "good")
    BY DEF Verified
  <2>2. ASSUME raw'[m] = raw[m], sidecar'[m] = sidecar[m],
               output'[raw[m]] = "good", manifest'[raw[m]],
               quarantine[raw[m]] = "good" => quarantine'[raw[m]] = "good"
        PROVE  Verified(m)'
    BY <2>1, <2>2 DEF Verified
  <2>3. ASSUME raw'[m] = raw[m], sidecar'[m] = sidecar[m], UNCHANGED derived PROVE Verified(m)'
    BY <2>1, <2>2, <2>3 DEF derived
  <2>4. ASSUME NEW t \in Threads, Fetch(t) PROVE Verified(m)'
    <3>1. CASE LookUp(t)
      <4>1. Cached(m)
        BY <2>1, Distinct DEF Cached
      <4>2. raw'[m] = raw[m]
        BY <3>1, <4>1 DEF LookUp, TypeInv, ArchiveTypes
      <4> QED
        BY <2>3, <3>1, <4>2 DEF LookUp
    <3>2. CASE SaveRaw(t) \/ SaveSidecar(t)
      <4>1. thread[t].minute # m
        BY <3>2 DEF SaveRaw, SaveSidecar, At, Downloading
      <4> QED
        BY <2>3, <3>2, <4>1 DEF SaveRaw, SaveSidecar, TypeInv, ArchiveTypes
    <3>3. CASE Claim(t) \/ AwaitCooldown(t) \/ Admit(t) \/ FetchFails(t) \/ Respond(t) \/ DropBody(t) \/ Send(t)
      BY <2>3, <3>3 DEF Claim, AwaitCooldown, Admit, FetchFails, Respond, DropBody, Send, raws
    <3> QED
      BY <2>4, <3>1, <3>2, <3>3 DEF Fetch
  <2>5. CASE Process
    BY <2>1, <2>2, <2>5 DEF Process, raws, TypeInv, ArchiveTypes
  <2>6. CASE WriteOutput \/ WriteManifest
    BY <2>1, <2>2, <2>6 DEF WriteOutput, WriteManifest, raws, TypeInv, ArchiveTypes
  <2>7. CASE Take \/ ProcessFails \/ Record \/ RecordFails \/ Finish \/ Kill \/ Publish \/ Elapse
             \/ UNCHANGED vars
    BY <2>3, <2>7 DEF Take, ProcessFails, Record, RecordFails, Finish, Kill, Publish, Elapse, vars, raws
  <2>8. ~Start /\ ~Damage
    BY DEF Start, Damage
  <2> QED
    BY <2>4, <2>5, <2>6, <2>7, <2>8 DEF Next, Work
<1> QED
  BY <1>1, <1>2, <1>3, PTL DEF Spec, VerifiedStays

-----------------------------------------------------------------------------
(* Every minute has one holder: a thread, the channel, the main thread or  *)
(* its outcome.                                                            *)

Active(t) == thread[t].pc \in Places
Busy == main \in Processing \cup {"record"}

ThreadOrder ==
  \A t \in Threads : Active(t) =>
    /\ thread[t].minute < next /\ outcome[thread[t].minute] = None
    /\ Busy => item.minute # thread[t].minute
    /\ \A u \in Threads : Active(u) /\ u # t => thread[u].minute # thread[t].minute
    /\ \A i \in 1 .. Len(channel) : channel[i].minute # thread[t].minute

ChannelOrder ==
  \A i \in 1 .. Len(channel) :
    /\ channel[i].minute < next /\ outcome[channel[i].minute] = None
    /\ Busy => item.minute # channel[i].minute
    /\ \A j \in 1 .. Len(channel) : j # i => channel[j].minute # channel[i].minute

MainOrder ==
  /\ Busy => item.minute < next /\ outcome[item.minute] = None
  /\ \A m \in Minutes : outcome[m] # None => m < next

Order == ThreadOrder /\ ChannelOrder /\ MainOrder

LEMMA ChannelType ==
  ASSUME TypeInv
  PROVE  Len(channel) \in Nat /\ \A i \in 1 .. Len(channel) : channel[i] \in Message /\ channel[i].minute \in Minutes
<1>1. channel \in Seq(Message)
  BY DEF TypeInv, MainTypes
<1>2. Len(channel) \in Nat /\ \A i \in 1 .. Len(channel) : channel[i] \in Message
  BY <1>1, LenProperties, ElementOfSeq, Zenon
<1> QED
  BY <1>2 DEF Message

\* A thread goes on with its minute.
LEMMA KeepsMinute ==
  ASSUME TypeInv, Order, NEW t \in Threads, Active(t), NEW r, Put(t, r),
         r.minute = thread[t].minute, UNCHANGED <<next, channel, main, item, outcome>>
  PROVE  Order'
<1>1. thread'[t] = r
  BY PutThread
<1>2. \A u \in Threads : u # t => thread'[u] = thread[u]
  BY DEF Put, TypeInv, ThreadTypes
<1>3. \A u \in Threads : thread'[u].minute = thread[u].minute /\ (Active(u)' => Active(u))
  BY <1>1, <1>2 DEF Active
<1>4. Busy' = Busy
  BY DEF Busy
<1>5. ThreadOrder'
  BY <1>3, <1>4 DEF Order, ThreadOrder
<1>6. ChannelOrder' /\ MainOrder'
  BY <1>4 DEF Order, ChannelOrder, MainOrder
<1> QED
  BY <1>5, <1>6 DEF Order

\* What a step of a thread with a minute makes of it.
LEMMA StepPlaces ==
  ASSUME TypeInv, NEW t \in Threads,
         LookUp(t) \/ AwaitCooldown(t) \/ Admit(t) \/ FetchFails(t) \/ Respond(t) \/ DropBody(t) \/ SaveRaw(t) \/ SaveSidecar(t)
  PROVE  /\ Active(t)
         /\ \E r : Put(t, r) /\ r.minute = thread[t].minute /\ r.pc \in Places
         /\ UNCHANGED <<next, channel, main, item, outcome, summary, report, running>>
<1>1. Active(t)
  BY DEF LookUp, AwaitCooldown, Admit, FetchFails, Respond, DropBody, SaveRaw, SaveSidecar, At, Active, Places
<1>2. thread[t] \in Download
  BY DEF TypeInv, ThreadTypes
<1>3. ASSUME NEW v, Answer(t, v) PROVE \E r : Put(t, r) /\ r.minute = thread[t].minute /\ r.pc \in Places
  <2>1. [thread[t] EXCEPT !.pc = "send", !.got = v].minute = thread[t].minute /\ [thread[t] EXCEPT !.pc = "send", !.got = v].pc = "send"
    BY <1>2 DEF Download
  <2> QED
    BY <1>3, <2>1 DEF Answer, Places
<1>4. ASSUME NEW v \in Places, Goto(t, v) PROVE \E r : Put(t, r) /\ r.minute = thread[t].minute /\ r.pc \in Places
  <2>1. [thread[t] EXCEPT !.pc = v].minute = thread[t].minute /\ [thread[t] EXCEPT !.pc = v].pc = v
    BY <1>2 DEF Download
  <2> QED
    BY <1>4, <2>1 DEF Goto
<1>5. ASSUME Retry(t) PROVE \E r : Put(t, r) /\ r.minute = thread[t].minute /\ r.pc \in Places
  <2>1. [thread[t] EXCEPT !.pc = "wait", !.tries = @ + 1].minute = thread[t].minute
       /\ [thread[t] EXCEPT !.pc = "wait", !.tries = @ + 1].pc = "wait"
    BY <1>2 DEF Download
  <2> QED
    BY <1>3, <1>5, <2>1 DEF Retry, Places
<1>6. ASSUME Receive(t) PROVE \E r : Put(t, r) /\ r.minute = thread[t].minute /\ r.pc \in Places
  <2>1. PICK body : Put(t, [thread[t] EXCEPT !.pc = "save", !.got = body])
    BY <1>6 DEF Receive
  <2>2. [thread[t] EXCEPT !.pc = "save", !.got = body].minute = thread[t].minute
       /\ [thread[t] EXCEPT !.pc = "save", !.got = body].pc = "save"
    BY <1>2 DEF Download
  <2> QED
    BY <2>1, <2>2 DEF Places
<1>7. \E r : Put(t, r) /\ r.minute = thread[t].minute /\ r.pc \in Places
  <2>1. "wait" \in Places /\ "space" \in Places /\ "request" \in Places /\ "sidecar" \in Places
    BY DEF Places
  <2> QED
    BY <2>1, <1>3, <1>4, <1>5, <1>6, Zenon
       DEF LookUp, AwaitCooldown, Admit, FetchFails, Respond, NotFound, Throttled, Refused, DropBody, SaveRaw, SaveSidecar
<1>8. UNCHANGED <<next, channel, main, item, outcome, summary, report, running>>
  BY DEF LookUp, AwaitCooldown, Admit, FetchFails, Respond, DropBody, SaveRaw, SaveSidecar, mainVars, bounds
<1> QED
  BY <1>1, <1>7, <1>8

LEMMA ClaimOrder == ASSUME TypeInv, Order, NEW t \in Threads, Claim(t) PROVE Order'
<1>1. /\ next \in Nat /\ next' = next + 1 /\ UNCHANGED <<channel, main, item, outcome>>
      /\ ~Active(t) /\ Busy' = Busy
  BY DEF Claim, TypeInv, ScalarTypes, mainVars, At, Active, Places, Busy
<1>2. \A u \in Threads : u # t => thread'[u] = thread[u]
  BY FetchFrame DEF Fetch
<1>3. \A u \in Threads : Active(u) => thread[u].minute \in Minutes
  BY DownloadFacts DEF TypeInv, Active
<1>4. Minutes \subseteq Nat /\ item.minute \in Minutes
  BY Bounds DEF Minutes, TypeInv, MainTypes, Message
<1>5. Active(t)' => thread'[t].minute = next /\ next \in Minutes
  <2>1. CASE next <= Last
    <3>1. thread'[t] = [NoThread EXCEPT !.pc = "cache", !.minute = next]
      BY <2>1, PutThread DEF Claim
    <3>2. thread'[t].minute = next
      BY <3>1 DEF NoThread
    <3>3. next \in Minutes
      BY <2>1, Bounds DEF Minutes, TypeInv, ScalarTypes
    <3> QED
      BY <3>2, <3>3
  <2>2. CASE ~(next <= Last)
    <3>1. thread'[t] = [thread[t] EXCEPT !.pc = "done"]
      BY <2>2, PutThread DEF Claim, Goto
    <3>2. thread'[t].pc = "done"
      BY <3>1 DEF TypeInv, ThreadTypes, Download
    <3> QED
      BY <3>2 DEF Active, Places
  <2> QED
    BY <2>1, <2>2
<1>6. ThreadOrder'
  <2> SUFFICES ASSUME NEW u \in Threads, Active(u)'
               PROVE  /\ thread'[u].minute < next' /\ outcome'[thread'[u].minute] = None
                      /\ Busy' => item'.minute # thread'[u].minute
                      /\ \A w \in Threads : Active(w)' /\ w # u => thread'[w].minute # thread'[u].minute
                      /\ \A i \in 1 .. Len(channel') : channel'[i].minute # thread'[u].minute
    BY DEF ThreadOrder
  <2>1. CASE u = t
    <3>1. thread'[u].minute = next /\ next \in Minutes
      BY <1>5, <2>1
    <3>2. outcome[next] = None
      BY <1>1, <3>1 DEF Order, MainOrder
    <3>3. \A w \in Threads : Active(w)' /\ w # u => thread'[w].minute # next
      BY <1>1, <1>2, <1>3, <1>4, <2>1 DEF Order, ThreadOrder, Active
    <3>4. \A i \in 1 .. Len(channel) : channel[i].minute # next
      BY <1>1, <1>4, ChannelType DEF Order, ChannelOrder
    <3>5. Busy => item.minute # next
      BY <1>1, <1>4 DEF Order, MainOrder
    <3> QED
      BY <1>1, <3>1, <3>2, <3>3, <3>4, <3>5
  <2>2. CASE u # t
    <3>1. thread'[u] = thread[u] /\ Active(u) /\ thread[u].minute < next /\ thread[u].minute \in Nat
      BY <1>2, <1>3, <1>4, <2>2 DEF Active, Order, ThreadOrder
    <3>2. \A w \in Threads : Active(w)' /\ w # u => thread'[w].minute # thread'[u].minute
      BY <1>1, <1>2, <1>5, <3>1 DEF Active, Order, ThreadOrder
    <3>3. thread'[u].minute < next'
      BY <1>1, <3>1
    <3> QED
      BY <1>1, <3>1, <3>2, <3>3 DEF Order, ThreadOrder
  <2> QED
    BY <2>1, <2>2
<1>7. \A m \in Minutes : m < next => m < next'
  BY <1>1, <1>4
<1>8. ChannelOrder'
  <2>1. \A i \in 1 .. Len(channel) : channel[i].minute < next'
    BY <1>7, ChannelType DEF Order, ChannelOrder
  <2> QED
    BY <1>1, <2>1, Zenon DEF Order, ChannelOrder
<1>9. MainOrder'
  <2>1. Busy => item.minute < next'
    BY <1>4, <1>7 DEF Order, MainOrder
  <2>2. \A m \in Minutes : outcome[m] # None => m < next'
    BY <1>7 DEF Order, MainOrder
  <2> QED
    BY <1>1, <2>1, <2>2, Zenon DEF Order, MainOrder
<1> QED
  BY <1>6, <1>8, <1>9 DEF Order

LEMMA SendOrder == ASSUME TypeInv, Order, NEW t \in Threads, Send(t) PROVE Order'
<1>1. /\ UNCHANGED <<next, main, item, outcome>> /\ Active(t) /\ Busy' = Busy
  BY DEF Send, mainVars, At, Active, Places, Busy
<1>2. \A u \in Threads : u # t => thread'[u] = thread[u]
  BY FetchFrame DEF Fetch
<1>3. ~Active(t)'
  <2>1. thread'[t] \in {NoThread, [NoThread EXCEPT !.pc = "done"]}
    BY PutThread DEF Send
  <2> QED
    BY <2>1 DEF Active, Places, NoThread
<1>4. \A u \in Threads : Active(u)' => u # t /\ thread'[u] = thread[u] /\ Active(u)
  BY <1>2, <1>3 DEF Active
<1>5. MainOrder'
  BY <1>1 DEF Order, MainOrder
<1>6. CASE UNCHANGED channel
  BY <1>1, <1>4, <1>5, <1>6 DEF Order, ThreadOrder, ChannelOrder
<1>7. CASE channel' = Append(channel, [minute |-> thread[t].minute, got |-> thread[t].got])
  <2> DEFINE x == [minute |-> thread[t].minute, got |-> thread[t].got]
  <2>1. x.minute = thread[t].minute
    OBVIOUS
  <2> HIDE DEF x
  <2>2. Len(channel) \in Nat /\ channel \in Seq(Message)
    BY ChannelType DEF TypeInv, MainTypes
  <2>3. Len(channel') = Len(channel) + 1
    BY <1>7, <2>2 DEF x
  <2>4. \A i \in 1 .. Len(channel') :
          \/ i \in 1 .. Len(channel) /\ channel'[i] = channel[i]
          \/ i = Len(channel) + 1 /\ channel'[i] = x
    BY <1>7, <2>2 DEF x
  <2>5. ThreadOrder'
    BY <1>1, <1>4, <2>1, <2>4 DEF Order, ThreadOrder
  <2>6. \A i \in 1 .. Len(channel) : channel[i].minute # x.minute
    BY <1>1, <2>1 DEF Order, ThreadOrder
  <2>7. x.minute < next /\ outcome[x.minute] = None /\ (Busy => item.minute # x.minute)
    BY <1>1, <2>1 DEF Order, ThreadOrder
  <2>8. ChannelOrder'
    <3> SUFFICES ASSUME NEW i \in 1 .. Len(channel')
                 PROVE  /\ channel'[i].minute < next /\ outcome[channel'[i].minute] = None
                        /\ Busy => item.minute # channel'[i].minute
                        /\ \A j \in 1 .. Len(channel') : j # i => channel'[j].minute # channel'[i].minute
      BY <1>1 DEF ChannelOrder
    <3>1. CASE i \in 1 .. Len(channel) /\ channel'[i] = channel[i]
      BY <2>4, <2>6, <3>1 DEF Order, ChannelOrder
    <3>2. CASE i = Len(channel) + 1 /\ channel'[i] = x
      BY <2>4, <2>6, <2>7, <3>2
    <3> QED
      BY <2>4, <3>1, <3>2
  <2> QED
    BY <1>5, <2>5, <2>8 DEF Order
<1> QED
  BY <1>6, <1>7 DEF Send

LEMMA TakeOrder == ASSUME TypeInv, Order, Take PROVE Order'
<1>1. /\ UNCHANGED <<next, thread, outcome>> /\ ~Busy /\ item' = Head(channel) /\ channel' = Tail(channel)
      /\ channel \in Seq(Message) /\ channel # <<>>
  BY DEF Take, Main, Busy, Processing, TypeInv, MainTypes
<1>2. /\ Len(channel') = Len(channel) - 1 /\ Len(channel) \in Nat /\ Len(channel) >= 1
      /\ item' = channel[1]
      /\ \A i \in 1 .. Len(channel') : channel'[i] = channel[i + 1]
  BY <1>1
<1>3. \A i \in 1 .. Len(channel') : i + 1 \in 1 .. Len(channel) /\ i + 1 # 1
  BY <1>2
<1>4. 1 \in 1 .. Len(channel)
  BY <1>2
<1>5. \A u \in Threads : Active(u)' = Active(u)
  BY <1>1 DEF Active
<1>6. ThreadOrder'
  BY <1>1, <1>2, <1>3, <1>4, <1>5 DEF Order, ThreadOrder
<1>7. ChannelOrder'
  <2> SUFFICES ASSUME NEW i \in 1 .. Len(channel')
               PROVE  /\ channel'[i].minute < next /\ outcome[channel'[i].minute] = None
                      /\ Busy' => item'.minute # channel'[i].minute
                      /\ \A j \in 1 .. Len(channel') : j # i => channel'[j].minute # channel'[i].minute
    BY <1>1 DEF ChannelOrder
  <2>1. channel'[i] = channel[i + 1] /\ i + 1 \in 1 .. Len(channel) /\ i + 1 # 1
    BY <1>2, <1>3
  <2>2. \A j \in 1 .. Len(channel') : j # i => j + 1 # i + 1
    BY <1>2
  <2> QED
    BY <1>2, <1>3, <1>4, <2>1, <2>2 DEF Order, ChannelOrder
<1>8. MainOrder'
  BY <1>1, <1>2, <1>4 DEF Order, ChannelOrder, MainOrder
<1> QED
  BY <1>6, <1>7, <1>8 DEF Order

LEMMA RecordOrder == ASSUME TypeInv, Order, Record PROVE Order'
<1>1. /\ UNCHANGED <<next, thread, channel, item>> /\ Busy /\ ~Busy'
      /\ outcome' = [outcome EXCEPT ![item.minute] = Status]
  BY DEF Record, Main, Busy, Processing
<1>2. \A m \in Minutes : m # item.minute => outcome'[m] = outcome[m]
  BY <1>1 DEF TypeInv, MainTypes
<1>3. \A u \in Threads : Active(u)' = Active(u)
  BY <1>1 DEF Active
<1>4. \A u \in Threads : Active(u) => thread[u].minute \in Minutes /\ thread[u].minute # item.minute
  BY <1>1, DownloadFacts DEF TypeInv, Active, Order, ThreadOrder
<1>5. ThreadOrder'
  BY <1>1, <1>2, <1>3, <1>4 DEF Order, ThreadOrder
<1>6. ChannelOrder'
  BY <1>1, <1>2, ChannelType DEF Order, ChannelOrder
<1>7. MainOrder'
  BY <1>1, <1>2 DEF Order, MainOrder
<1> QED
  BY <1>5, <1>6, <1>7 DEF Order

\* The main thread goes on with its minute, or gives it up.
LEMMA MainKeeps ==
  ASSUME TypeInv, Order, UNCHANGED <<next, thread, outcome>>, channel' \in {channel, <<>>},
         Busy' => Busy, item'.minute = item.minute
  PROVE  Order'
<1>1. Len(channel') = Len(channel) \/ Len(channel') = 0
  OBVIOUS
<1>2. \A u \in Threads : Active(u)' = Active(u)
  BY DEF Active
<1>3. CASE channel' = channel
  BY <1>2, <1>3 DEF Order, ThreadOrder, ChannelOrder, MainOrder
<1>4. CASE channel' = <<>>
  <2>1. 1 .. Len(channel') = {}
    BY <1>4
  <2> QED
    BY <1>2, <2>1 DEF Order, ThreadOrder, ChannelOrder, MainOrder
<1> QED
  BY <1>3, <1>4

LEMMA StartOrder == ASSUME Start PROVE Order'
<1>1. \A u \in Threads : ~Active(u)'
  BY DEF Start, Active, NoThread, Places
<1>2. 1 .. Len(channel') = {} /\ ~Busy'
  BY DEF Start, Busy, Processing
<1>3. \A m \in Minutes : outcome'[m] = None
  BY DEF Start
<1> QED
  BY <1>1, <1>2, <1>3 DEF Order, ThreadOrder, ChannelOrder, MainOrder

OrderInv == running => Order

LEMMA StepOrder == TypeInv /\ OrderInv /\ [Next]_vars => OrderInv'
<1> SUFFICES ASSUME TypeInv, OrderInv, [Next]_vars, running' PROVE Order'
  BY DEF OrderInv
<1>1. CASE Start
  BY <1>1, StartOrder
<1>2. CASE ~Start
  <2>1. running
    BY <1>2 DEF Next, Fetch, Claim, LookUp, AwaitCooldown, Admit, FetchFails, Respond, DropBody, SaveRaw, SaveSidecar, Send,
       At, Work, Take, Process, WriteOutput, WriteManifest, ProcessFails, Record, RecordFails, Finish, Main,
       Kill, Damage, Publish, Elapse, vars, bounds
  <2>2. Order
    BY <2>1 DEF OrderInv
  <2>3. ASSUME NEW t \in Threads, Fetch(t) PROVE Order'
    <3>1. CASE Claim(t)
      BY <2>2, <3>1, ClaimOrder
    <3>2. CASE Send(t)
      BY <2>2, <3>2, SendOrder
    <3>3. CASE ~Claim(t) /\ ~Send(t)
      <4>1. \/ LookUp(t) \/ AwaitCooldown(t) \/ Admit(t) \/ FetchFails(t) \/ Respond(t) \/ DropBody(t) \/ SaveRaw(t)
            \/ SaveSidecar(t)
        BY <2>3, <3>3 DEF Fetch
      <4>2. /\ Active(t) /\ \E r : Put(t, r) /\ r.minute = thread[t].minute
            /\ UNCHANGED <<next, channel, main, item, outcome>>
        BY <4>1, StepPlaces
      <4>3. PICK r : Put(t, r) /\ r.minute = thread[t].minute
        BY <4>2
      <4> QED
        BY <2>2, <4>2, <4>3, KeepsMinute
    <3> QED
      BY <3>1, <3>2, <3>3
  <2>4. CASE Take
    BY <2>2, <2>4, TakeOrder
  <2>5. CASE Record
    BY <2>2, <2>5, RecordOrder
  <2>6. ASSUME UNCHANGED <<next, thread, outcome>>, channel' \in {channel, <<>>}, Busy' => Busy,
               item'.minute = item.minute
        PROVE  Order'
    BY <2>2, <2>6, MainKeeps
  <2>7. CASE Process \/ ProcessFails
    <3>1. [item EXCEPT !.got = Failed].minute = item.minute
      BY DEF TypeInv, MainTypes, Message
    <3>2. Busy
      BY <2>7 DEF Process, ProcessFails, Main, Busy, Processing
    <3> QED
      BY <2>6, <2>7, <3>1, <3>2 DEF Process, ProcessFails
  <2>8. CASE WriteOutput \/ WriteManifest
    BY <2>6, <2>8 DEF WriteOutput, WriteManifest, Main, Busy, Processing
  <2>9. CASE RecordFails
    BY <2>6, <2>9 DEF RecordFails, Main, Busy, Processing
  <2>10. CASE Publish \/ Elapse \/ UNCHANGED vars
    BY <2>6, <2>10 DEF Publish, Elapse, vars, mainVars, Busy
  <2>11. ~Finish /\ ~Kill /\ ~Damage
    BY <2>1 DEF Finish, Kill, Damage
  <2> QED
    BY <1>2, <2>3, <2>4, <2>5, <2>7, <2>8, <2>9, <2>10, <2>11 DEF Next, Work
<1> QED
  BY <1>1, <1>2

-----------------------------------------------------------------------------
(* What is passed on is true.                                              *)

\* What a result says of a minute.
Settled(m, r) ==
  /\ r \in Versions => raw[m] = r /\ sidecar[m] = r
  /\ r = None => m \in absent

ThreadTruth ==
  \A t \in Threads :
    /\ thread[t].pc = "send" => Settled(thread[t].minute, thread[t].got)
    /\ thread[t].pc = "sidecar" => raw[thread[t].minute] = thread[t].got
    /\ thread[t].pc \in {"wait", "space", "request", "save"} /\ thread[t].tries = 0 =>
          raw[thread[t].minute] = None \/ raw[thread[t].minute] \in aside[thread[t].minute]

ChannelTruth == \A i \in 1 .. Len(channel) : Settled(channel[i].minute, channel[i].got)

MainTruth ==
  /\ Busy => Settled(item.minute, item.got)
  /\ main \in {"output", "manifest"} /\ item.got \in Dirty => quarantine[item.got] = "good"
  /\ main = "manifest" => output[item.got] = "good"
  /\ main = "record" /\ item.got \in Versions => Checkpoint(item.got)

OutcomeTruth ==
  \A m \in Minutes : /\ outcome[m] = "complete" => Verified(m)
                     /\ outcome[m] = "missing" => m \in absent

Truth == ThreadTruth /\ ChannelTruth /\ MainTruth /\ OutcomeTruth
TruthInv == running => Truth

\* A thread touches the files of its minute only.
LEMMA FetchFiles ==
  ASSUME TypeInv, NEW t \in Threads, Fetch(t)
  PROVE  /\ absent \subseteq absent' /\ UNCHANGED <<derived, main, item, outcome>>
         /\ \A m \in Minutes : \/ Active(t) /\ thread[t].minute = m
                               \/ raw'[m] = raw[m] /\ sidecar'[m] = sidecar[m] /\ aside'[m] = aside[m]
<1>1. UNCHANGED <<derived, main, item, outcome>>
  BY DEF Fetch, Claim, LookUp, AwaitCooldown, Admit, FetchFails, Respond, DropBody, SaveRaw, SaveSidecar, Send, mainVars
<1>2. absent \subseteq absent'
  BY DEF Fetch, Claim, LookUp, AwaitCooldown, Admit, FetchFails, Respond, NotFound, Receive, Throttled, Refused,
     DropBody, SaveRaw, SaveSidecar, Send
<1>3. ASSUME NEW m \in Minutes
      PROVE  \/ Active(t) /\ thread[t].minute = m
             \/ raw'[m] = raw[m] /\ sidecar'[m] = sidecar[m] /\ aside'[m] = aside[m]
  <2>1. CASE LookUp(t) \/ SaveRaw(t) \/ SaveSidecar(t)
    <3>1. Active(t)
      BY <2>1, StepPlaces
    <3>2. CASE thread[t].minute # m
      BY <2>1, <3>2 DEF LookUp, SaveRaw, SaveSidecar, TypeInv, ArchiveTypes
    <3> QED
      BY <3>1, <3>2
  <2>2. CASE Claim(t) \/ AwaitCooldown(t) \/ Admit(t) \/ FetchFails(t) \/ Respond(t) \/ DropBody(t) \/ Send(t)
    BY <2>2 DEF Claim, AwaitCooldown, Admit, FetchFails, Respond, DropBody, Send, raws
  <2> QED
    BY <2>1, <2>2 DEF Fetch
<1> QED
  BY <1>1, <1>2, <1>3

LEMMA VerifiedKept ==
  ASSUME TypeInv, NEW m \in Minutes, Verified(m), raw'[m] = raw[m], sidecar'[m] = sidecar[m],
         \A v \in Versions : /\ output[v] = "good" => output'[v] = "good"
                             /\ quarantine[v] = "good" => quarantine'[v] = "good"
                             /\ manifest[v] => manifest'[v]
  PROVE  Verified(m)'
BY DEF Verified

LEMMA SettledKept ==
  ASSUME NEW m, NEW r, Settled(m, r), raw'[m] = raw[m], sidecar'[m] = sidecar[m], absent \subseteq absent'
  PROVE  Settled(m, r)'
BY DEF Settled

\* The thread of the step itself.
LEMMA OwnTruth ==
  ASSUME TypeInv, Truth, NEW t \in Threads, Fetch(t)
  PROVE  /\ thread'[t].pc = "send" => Settled(thread[t].minute, thread[t].got)'
         /\ thread'[t].pc = "sidecar" => raw'[thread'[t].minute] = thread'[t].got
         /\ thread'[t].pc \in {"wait", "space", "request", "save"} /\ thread'[t].tries = 0 =>
               \/ raw'[thread'[t].minute] = None
               \/ raw'[thread'[t].minute] \in aside'[thread'[t].minute]
<1> DEFINE x == thread[t]
           m == x.minute
           y == thread'[t]
<1>1. x \in Download /\ (Active(t) => m \in Minutes)
  BY DownloadFacts DEF TypeInv, ThreadTypes, Active
<1>2. ASSUME NEW v, Answer(t, v) PROVE y.pc = "send" /\ y.minute = m /\ y.got = v
  <2>1. y = [x EXCEPT !.pc = "send", !.got = v]
    BY <1>2, PutThread DEF Answer
  <2> QED
    BY <1>1, <2>1 DEF Download
<1>3. ASSUME NEW place, Goto(t, place) PROVE y.pc = place /\ y.minute = m /\ y.got = x.got /\ y.tries = x.tries
  <2>1. y = [x EXCEPT !.pc = place]
    BY <1>3, PutThread DEF Goto
  <2> QED
    BY <1>1, <2>1 DEF Download
<1>4. ASSUME Answer(t, Failed) PROVE y.pc = "send" /\ Settled(thread[t].minute, thread[t].got)'
  <2>1. Failed \notin Versions /\ Failed # None
    BY Distinct
  <2> QED
    BY <1>2, <1>4, <2>1 DEF Settled
<1>5. ASSUME Retry(t)
      PROVE  \/ y.pc = "send" /\ Settled(thread[t].minute, thread[t].got)'
             \/ y.pc = "wait" /\ y.tries # 0
  <2>1. CASE x.tries + 1 < Attempts
    <3>1. y = [x EXCEPT !.pc = "wait", !.tries = @ + 1]
      BY <1>5, <2>1, PutThread DEF Retry
    <3>2. y.pc = "wait" /\ y.tries = x.tries + 1 /\ x.tries \in 0 .. Attempts - 1
      BY <1>1, <3>1 DEF Download
    <3> HIDE DEF x, y
    <3> QED
      BY <3>2, Bounds
  <2>2. CASE ~(x.tries + 1 < Attempts)
    BY <1>4, <1>5, <2>2 DEF Retry
  <2> QED
    BY <2>1, <2>2
<1> HIDE DEF y
<1>6. CASE Claim(t) \/ Send(t)
  <2>1. y \in {NoThread, [NoThread EXCEPT !.pc = "done"], [NoThread EXCEPT !.pc = "cache", !.minute = next],
               [x EXCEPT !.pc = "done"]}
    BY <1>6, PutThread DEF Claim, Send, Goto, y
  <2>2. y.pc \in {"claim", "cache", "done"}
    <3>1. /\ NoThread.pc = "claim" /\ [NoThread EXCEPT !.pc = "done"].pc = "done"
          /\ [NoThread EXCEPT !.pc = "cache", !.minute = next].pc = "cache"
      BY DEF NoThread
    <3>2. [x EXCEPT !.pc = "done"].pc = "done"
      BY <1>1 DEF Download
    <3> QED
      BY <2>1, <3>1, <3>2, Zenon
  <2> QED
    BY <2>2 DEF y
<1>7. CASE LookUp(t)
  <2>1. m \in Minutes
    BY <1>1, <1>7, StepPlaces
  <2>2. CASE Cached(m)
    <3>1. /\ y.pc = "send" /\ y.minute = m /\ y.got = sidecar[m] /\ UNCHANGED <<raw, aside, sidecar>>
      BY <1>2, <1>7, <2>2 DEF LookUp
    <3>2. raw[m] = sidecar[m] /\ sidecar[m] # None
      BY <2>1, <2>2 DEF Cached
    <3>3. Settled(thread[t].minute, thread[t].got)'
      BY <3>1, <3>2 DEF Settled, y
    <3> QED
      BY <3>1, <3>3 DEF y
  <2>3. CASE ~Cached(m)
    <3>1. y.pc = "wait" /\ y.minute = m
      BY <1>3, <1>7, <2>3 DEF LookUp
    <3>2. raw'[m] = None \/ raw'[m] \in aside'[m]
      BY <1>7, <2>1, <2>3 DEF LookUp, Renamed, TypeInv, ArchiveTypes
    <3> QED
      BY <3>1, <3>2 DEF y
  <2> QED
    BY <2>2, <2>3
<1>8. CASE Admit(t)
  <2>1. x.pc = "space" /\ UNCHANGED <<raw, aside>>
    BY <1>8 DEF Admit, At, raws
  <2>2. CASE Goto(t, "request")
    BY <1>3, <2>1, <2>2 DEF Truth, ThreadTruth, y
  <2>3. CASE Answer(t, Failed)
    BY <1>4, <2>3 DEF y
  <2> QED
    BY <1>8, <2>2, <2>3 DEF Admit
<1>9. CASE FetchFails(t)
  BY <1>4, <1>9 DEF FetchFails, y
<1>10. CASE Respond(t)
  <2>1. x.pc = "request" /\ UNCHANGED <<raw, aside>>
    BY <1>10 DEF Respond, At, raws
  <2>2. CASE NotFound(t)
    <3>1. y.pc = "send" /\ y.minute = m /\ y.got = None /\ m \in absent'
      BY <1>2, <2>2 DEF NotFound
    <3> QED
      BY <3>1, Distinct DEF y, Settled
  <2>3. CASE Receive(t)
    <3>1. PICK body : Put(t, [x EXCEPT !.pc = "save", !.got = body])
      BY <2>3 DEF Receive
    <3>2. y = [x EXCEPT !.pc = "save", !.got = body]
      BY <3>1, PutThread DEF y
    <3>3. y.pc = "save" /\ y.minute = m /\ y.tries = x.tries
      BY <1>1, <3>2 DEF Download
    <3> QED
      BY <2>1, <3>3 DEF Truth, ThreadTruth, y
  <2>4. CASE Throttled(t) \/ Refused(t)
    <3>1. Retry(t) \/ Answer(t, Failed)
      BY <2>4 DEF Throttled, Refused
    <3> QED
      BY <1>4, <1>5, <3>1 DEF y
  <2> QED
    BY <1>10, <2>2, <2>3, <2>4 DEF Respond
<1>11. CASE DropBody(t)
  BY <1>5, <1>11 DEF DropBody, y
<1>12. CASE SaveRaw(t)
  <2>1. m \in Minutes /\ y.pc = "sidecar" /\ y.minute = m /\ y.got = x.got
    BY <1>1, <1>3, <1>12, StepPlaces DEF SaveRaw
  <2>2. raw'[m] = x.got
    BY <1>12, <2>1 DEF SaveRaw, TypeInv, ArchiveTypes
  <2> QED
    BY <2>1, <2>2 DEF y
<1>13. CASE SaveSidecar(t)
  <2>1. /\ m \in Minutes /\ y.pc = "send" /\ y.minute = m /\ y.got = x.got
        /\ raw'[m] = raw[m] /\ x.pc = "sidecar"
    BY <1>1, <1>2, <1>13, StepPlaces DEF SaveSidecar, At
  <2>2. sidecar'[m] = x.got /\ raw[m] = x.got
    BY <1>13, <2>1 DEF SaveSidecar, TypeInv, ArchiveTypes, Truth, ThreadTruth
  <2>3. x.got \in Versions
    BY <2>1 DEF TypeInv, ThreadTypes, DownloadOK
  <2> QED
    BY <2>1, <2>2, <2>3, Distinct DEF y, Settled
<1>14. CASE AwaitCooldown(t)
  <2>1. x.pc = "wait" /\ UNCHANGED <<raw, aside>> /\ Goto(t, "space")
    BY <1>14 DEF AwaitCooldown, At, raws
  <2> QED
    BY <1>3, <2>1 DEF Truth, ThreadTruth, y
<1> QED
  BY <1>6, <1>7, <1>8, <1>9, <1>10, <1>11, <1>12, <1>13, <1>14 DEF Fetch

LEMMA FetchTruth == ASSUME TypeInv, Order, Truth, NEW t \in Threads, Fetch(t) PROVE Truth'
<1>1. /\ absent \subseteq absent' /\ UNCHANGED <<output, quarantine, manifest, main, item, outcome>>
      /\ \A m \in Minutes : \/ Active(t) /\ thread[t].minute = m
                            \/ raw'[m] = raw[m] /\ sidecar'[m] = sidecar[m] /\ aside'[m] = aside[m]
  BY FetchFiles DEF derived
<1>2. \A u \in Threads : u # t => thread'[u] = thread[u]
  BY FetchFrame
<1>3. \A m \in Minutes : ~(Active(t) /\ thread[t].minute = m) =>
        raw'[m] = raw[m] /\ sidecar'[m] = sidecar[m] /\ aside'[m] = aside[m]
  BY <1>1
<1>4. ASSUME NEW m \in Minutes, ~(Active(t) /\ thread[t].minute = m), NEW r, Settled(m, r)
      PROVE  Settled(m, r)'
  BY <1>1, <1>3, <1>4, SettledKept
<1>5. ThreadTruth'
  <2> SUFFICES ASSUME NEW u \in Threads
               PROVE  /\ thread'[u].pc = "send" => Settled(thread[u].minute, thread[u].got)'
                      /\ thread'[u].pc = "sidecar" => raw'[thread'[u].minute] = thread'[u].got
                      /\ thread'[u].pc \in {"wait", "space", "request", "save"} /\ thread'[u].tries = 0 =>
                            \/ raw'[thread'[u].minute] = None
                            \/ raw'[thread'[u].minute] \in aside'[thread'[u].minute]
    BY DEF ThreadTruth
  <2>1. CASE u = t
    BY <2>1, OwnTruth
  <2>2. CASE u # t
    <3>1. thread'[u] = thread[u]
      BY <1>2, <2>2
    <3>2. Active(u) => thread[u].minute \in Minutes /\ ~(Active(t) /\ thread[t].minute = thread[u].minute)
      BY <2>2, DownloadFacts DEF TypeInv, Active, Order, ThreadOrder
    <3> DEFINE m == thread[u].minute
    <3>3. CASE Active(u)
      <4>1. raw'[m] = raw[m] /\ sidecar'[m] = sidecar[m] /\ aside'[m] = aside[m]
        BY <1>3, <3>2, <3>3
      <4>2. Settled(m, thread[u].got) => Settled(thread[u].minute, thread[u].got)'
        BY <1>1, <3>1, <4>1 DEF Settled
      <4> QED
        BY <3>1, <4>1, <4>2 DEF Truth, ThreadTruth
    <3>4. CASE ~Active(u)
      BY <3>1, <3>4 DEF Active, Places
    <3> QED
      BY <3>3, <3>4
  <2> QED
    BY <2>1, <2>2
<1>6. ChannelTruth'
  <2>1. ASSUME NEW i \in 1 .. Len(channel), channel'[i] = channel[i] PROVE Settled(channel[i].minute, channel[i].got)'
    <3> DEFINE m == channel[i].minute
    <3>1. m \in Minutes /\ ~(Active(t) /\ thread[t].minute = m)
      BY ChannelType DEF Order, ThreadOrder
    <3>2. raw'[m] = raw[m] /\ sidecar'[m] = sidecar[m]
      BY <1>3, <3>1
    <3>3. Settled(m, channel[i].got)
      BY DEF Truth, ChannelTruth
    <3> QED
      BY <1>1, <2>1, <3>2, <3>3 DEF Settled
  <2>2. CASE UNCHANGED channel
    BY <2>1, <2>2 DEF ChannelTruth
  <2>3. CASE Send(t) /\ channel' = Append(channel, [minute |-> thread[t].minute, got |-> thread[t].got])
    <3> DEFINE x == [minute |-> thread[t].minute, got |-> thread[t].got]
    <3>1. x.minute = thread[t].minute /\ x.got = thread[t].got
      OBVIOUS
    <3> HIDE DEF x
    <3>2. Len(channel) \in Nat /\ channel \in Seq(Message)
      BY ChannelType DEF TypeInv, MainTypes
    <3>3. \A i \in 1 .. Len(channel') :
            \/ i \in 1 .. Len(channel) /\ channel'[i] = channel[i]
            \/ i = Len(channel) + 1 /\ channel'[i] = x
      BY <2>3, <3>2 DEF x
    <3>4. Settled(thread[t].minute, thread[t].got) /\ UNCHANGED <<raw, sidecar, absent>>
      BY <2>3 DEF Send, At, Truth, ThreadTruth, raws
    <3> SUFFICES ASSUME NEW i \in 1 .. Len(channel') PROVE Settled(channel[i].minute, channel[i].got)'
      BY DEF ChannelTruth
    <3>5. CASE i \in 1 .. Len(channel) /\ channel'[i] = channel[i]
      BY <2>1, <3>5
    <3>6. CASE channel'[i] = x
      BY <3>1, <3>4, <3>6 DEF Settled
    <3> QED
      BY <3>3, <3>5, <3>6
  <2> QED
    BY <2>2, <2>3, StepPlaces DEF Fetch, Claim, Send
<1>7. MainTruth'
  <2>1. item.minute \in Minutes /\ (Busy => ~(Active(t) /\ thread[t].minute = item.minute))
    BY DEF TypeInv, MainTypes, Message, Order, ThreadOrder
  <2>2. Busy => Settled(item.minute, item.got)'
    <3> SUFFICES ASSUME Busy PROVE Settled(item.minute, item.got)'
      OBVIOUS
    <3>1. raw'[item.minute] = raw[item.minute] /\ sidecar'[item.minute] = sidecar[item.minute]
      BY <1>3, <2>1
    <3> QED
      BY <1>1, <3>1 DEF Settled, Truth, MainTruth
  <2>3. Busy' = Busy
    BY <1>1 DEF Busy
  <2> QED
    BY <1>1, <2>2, <2>3 DEF Truth, MainTruth, Checkpoint
<1>8. OutcomeTruth'
  <2> SUFFICES ASSUME NEW m \in Minutes
               PROVE  /\ outcome[m] = "complete" => Verified(m)'
                      /\ outcome[m] = "missing" => m \in absent'
    BY <1>1 DEF OutcomeTruth
  <2>1. outcome[m] = "missing" => m \in absent'
    BY <1>1 DEF Truth, OutcomeTruth
  <2>2. ASSUME outcome[m] = "complete" PROVE Verified(m)'
    <3>1. outcome[m] # None
      BY <2>2, NoneAssumption
    <3>2. raw'[m] = raw[m] /\ sidecar'[m] = sidecar[m]
      BY <1>3, <3>1 DEF Order, ThreadOrder
    <3> QED
      BY <1>1, <2>2, <3>2, VerifiedKept DEF Truth, OutcomeTruth
  <2> QED
    BY <2>1, <2>2
<1> QED
  BY <1>5, <1>6, <1>7, <1>8 DEF Truth

\* Steps that leave the downloads alone and only add to the derived files.
LEMMA MainFrame ==
  ASSUME TypeInv, Truth, UNCHANGED <<raw, sidecar, aside, absent, thread>>,
         \A v \in Versions : /\ output[v] = "good" => output'[v] = "good"
                             /\ quarantine[v] = "good" => quarantine'[v] = "good"
                             /\ manifest[v] => manifest'[v]
  PROVE  /\ ThreadTruth'
         /\ channel' \in {channel, <<>>} => ChannelTruth'
         /\ outcome' = outcome => OutcomeTruth'
         /\ \A m, r : Settled(m, r) => Settled(m, r)'
<1>1. ThreadTruth'
  BY DEF Truth, ThreadTruth, Settled
<1>2. ASSUME channel' = channel PROVE ChannelTruth'
  BY <1>2 DEF Truth, ChannelTruth, Settled
<1>3. ASSUME channel' = <<>> PROVE ChannelTruth'
  <2>1. 1 .. Len(channel') = {}
    BY <1>3
  <2> QED
    BY <2>1 DEF ChannelTruth
<1>4. ASSUME outcome' = outcome PROVE OutcomeTruth'
  BY <1>4, VerifiedKept DEF Truth, OutcomeTruth
<1>5. \A m, r : Settled(m, r) => Settled(m, r)'
  BY DEF Settled
<1> QED
  BY <1>1, <1>2, <1>3, <1>4, <1>5

LEMMA TakeTruth == ASSUME TypeInv, Truth, Take PROVE Truth'
<1>1. /\ UNCHANGED <<raw, sidecar, aside, absent, thread, output, quarantine, manifest, outcome>>
      /\ item' = Head(channel) /\ channel' = Tail(channel) /\ channel \in Seq(Message) /\ channel # <<>>
      /\ main' = IF Head(channel).got \in Versions THEN "process" ELSE "record"
  BY DEF Take, Main, raws, derived, TypeInv, MainTypes
<1>2. ThreadTruth' /\ OutcomeTruth' /\ \A m, r : Settled(m, r) => Settled(m, r)'
  BY <1>1, MainFrame
<1>3. /\ Len(channel) \in Nat /\ Len(channel) >= 1 /\ item' = channel[1] /\ 1 \in 1 .. Len(channel)
      /\ \A i \in 1 .. Len(channel') : channel'[i] = channel[i + 1] /\ i + 1 \in 1 .. Len(channel)
  BY <1>1
<1>4. ChannelTruth'
  BY <1>1, <1>3 DEF Truth, ChannelTruth, Settled
<1>5. Settled(item.minute, item.got)'
  BY <1>1, <1>3 DEF Truth, ChannelTruth, Settled
<1>6. MainTruth'
  BY <1>1, <1>5 DEF MainTruth
<1> QED
  BY <1>2, <1>4, <1>6 DEF Truth

LEMMA ProcessTruth == ASSUME TypeInv, Truth, Process PROVE Truth'
<1> DEFINE v == item.got
           read == ~Checkpoint(v) /\ v \notin Malformed
<1>1. /\ UNCHANGED <<raw, sidecar, aside, absent, thread, output, manifest, outcome, channel>>
      /\ quarantine' = IF read /\ v \in Dirty THEN [quarantine EXCEPT ![v] = "good"] ELSE quarantine
      /\ main' = IF read THEN "output" ELSE "record"
      /\ item' = IF ~Checkpoint(v) /\ v \in Malformed THEN [item EXCEPT !.got = Failed] ELSE item
      /\ v \in Versions /\ Busy /\ quarantine \in [Versions -> File] /\ item \in Message
  BY DEF Process, Main, raws, TypeInv, ArchiveTypes, MainTypes, Processing, Busy
<1>2. \A w \in Versions : quarantine[w] = "good" => quarantine'[w] = "good"
  BY <1>1
<1>3. ThreadTruth' /\ ChannelTruth' /\ OutcomeTruth' /\ \A m, r : Settled(m, r) => Settled(m, r)'
  BY <1>1, <1>2, MainFrame
<1>4. CASE read
  <2>1. item' = item /\ main' = "output" /\ (v \in Dirty => quarantine'[v] = "good")
    BY <1>1, <1>4
  <2>2. Settled(item.minute, item.got)'
    BY <1>1, <2>1 DEF Truth, MainTruth, Settled
  <2>3. MainTruth'
    BY <2>1, <2>2 DEF MainTruth
  <2> QED
    BY <1>3, <2>3 DEF Truth
<1>5. CASE Checkpoint(v)
  <2>1. item' = item /\ main' = "record" /\ quarantine' = quarantine
    BY <1>1, <1>5
  <2>2. Settled(item.minute, item.got)'
    BY <1>1, <2>1 DEF Truth, MainTruth, Settled
  <2>3. Checkpoint(item.got)'
    BY <1>1, <1>5, <2>1 DEF Checkpoint
  <2>4. MainTruth'
    BY <2>1, <2>2, <2>3 DEF MainTruth
  <2> QED
    BY <1>3, <2>4 DEF Truth
<1>6. CASE ~Checkpoint(v) /\ v \in Malformed
  <2>1. item'.got = Failed /\ main' = "record"
    BY <1>1, <1>6 DEF Message
  <2>2. Settled(item.minute, item.got)'
    BY <2>1, Distinct DEF Settled
  <2>3. MainTruth'
    BY <2>1, <2>2, Distinct DEF MainTruth
  <2> QED
    BY <1>3, <2>3 DEF Truth
<1> QED
  BY <1>4, <1>5, <1>6

LEMMA WriteTruth == ASSUME TypeInv, Truth, WriteOutput \/ WriteManifest PROVE Truth'
<1>1. /\ UNCHANGED <<raw, sidecar, aside, absent, thread, quarantine, outcome, channel, item>>
      /\ item.got \in Versions /\ Busy /\ main \in {"output", "manifest"}
      /\ output \in [Versions -> File] /\ manifest \in [Versions -> BOOLEAN]
  BY DEF WriteOutput, WriteManifest, Main, raws, TypeInv, ArchiveTypes, MainTypes, Processing, Busy
<1>2. \A w \in Versions : /\ output[w] = "good" => output'[w] = "good"
                          /\ manifest[w] => manifest'[w]
  BY <1>1 DEF WriteOutput, WriteManifest
<1>3. ThreadTruth' /\ ChannelTruth' /\ OutcomeTruth'
  BY <1>1, <1>2, MainFrame
<1>4. Settled(item.minute, item.got)' /\ (item.got \in Dirty => quarantine'[item.got] = "good")
  BY <1>1 DEF Truth, MainTruth, Settled
<1>5. CASE WriteOutput
  <2>1. main' = "manifest" /\ output'[item.got] = "good"
    BY <1>1, <1>5 DEF WriteOutput, Main
  <2>2. MainTruth'
    BY <1>1, <1>4, <2>1 DEF MainTruth
  <2> QED
    BY <1>3, <2>2 DEF Truth
<1>6. CASE WriteManifest
  <2>1. main = "manifest" /\ main' = "record" /\ manifest'[item.got] /\ output' = output
    BY <1>1, <1>6 DEF WriteManifest, Main
  <2>2. Checkpoint(item.got)'
    BY <1>1, <1>4, <2>1 DEF Checkpoint, Truth, MainTruth
  <2>3. MainTruth'
    BY <1>1, <1>4, <2>1, <2>2 DEF MainTruth
  <2> QED
    BY <1>3, <2>3 DEF Truth
<1> QED
  BY <1>5, <1>6

LEMMA RecordTruth == ASSUME TypeInv, Truth, Record PROVE Truth'
<1>1. /\ UNCHANGED <<raw, sidecar, aside, absent, thread, output, quarantine, manifest, channel, item>>
      /\ main = "record" /\ main' = "take" /\ Busy /\ outcome' = [outcome EXCEPT ![item.minute] = Status]
      /\ item.minute \in Minutes /\ item.got \in Result /\ DOMAIN outcome = Minutes
  BY DEF Record, Main, raws, derived, Busy, TypeInv, MainTypes, Message
<1>2. ThreadTruth' /\ ChannelTruth'
  BY <1>1, MainFrame
<1>3. MainTruth'
  BY <1>1 DEF MainTruth, Busy, Processing
<1>4. \A m \in Minutes : Verified(m) => Verified(m)'
  BY <1>1 DEF Verified
<1>5. OutcomeTruth'
  <2> SUFFICES ASSUME NEW m \in Minutes
               PROVE  /\ outcome'[m] = "complete" => Verified(m)'
                      /\ outcome'[m] = "missing" => m \in absent
    BY <1>1 DEF OutcomeTruth
  <2>1. CASE m # item.minute
    <3>1. outcome'[m] = outcome[m]
      BY <1>1, <2>1
    <3> QED
      BY <1>4, <3>1 DEF Truth, OutcomeTruth
  <2>2. CASE m = item.minute
    <3>1. outcome'[m] = Status
      BY <1>1, <2>2
    <3>2. Status = "complete" => Verified(m)
      <4> SUFFICES ASSUME Status = "complete" PROVE Verified(m)
        OBVIOUS
      <4>1. item.got \in Versions
        BY <1>1 DEF Status, Result
      <4> QED
        BY <1>1, <2>2, <4>1 DEF Truth, MainTruth, Settled, Checkpoint, Verified
    <3>3. Status = "missing" => m \in absent
      <4>1. Status = "missing" => item.got = None
        BY DEF Status
      <4> QED
        BY <1>1, <2>2, <4>1 DEF Truth, MainTruth, Settled
    <3> QED
      BY <1>4, <3>1, <3>2, <3>3
  <2> QED
    BY <2>1, <2>2
<1> QED
  BY <1>2, <1>3, <1>5 DEF Truth

LEMMA FailureTruth == ASSUME TypeInv, Truth, ProcessFails \/ RecordFails PROVE Truth'
<1>1. /\ UNCHANGED <<raw, sidecar, aside, absent, thread, output, quarantine, manifest, outcome>>
      /\ channel' \in {channel, <<>>}
  BY DEF ProcessFails, RecordFails, raws, derived
<1>2. ThreadTruth' /\ ChannelTruth' /\ OutcomeTruth'
  BY <1>1, MainFrame
<1>3. CASE ProcessFails
  <2>1. item'.got = Failed /\ main' = "record"
    BY <1>3 DEF ProcessFails, Main, TypeInv, MainTypes, Message
  <2>2. Settled(item.minute, item.got)'
    BY <2>1, Distinct DEF Settled
  <2>3. MainTruth'
    BY <2>1, <2>2, Distinct DEF MainTruth
  <2> QED
    BY <1>2, <2>3 DEF Truth
<1>4. CASE RecordFails
  <2>1. main' = "abort"
    BY <1>4 DEF RecordFails, Main
  <2>2. MainTruth'
    BY <2>1 DEF MainTruth, Busy, Processing
  <2> QED
    BY <1>2, <2>2 DEF Truth
<1> QED
  BY <1>3, <1>4

LEMMA StartTruth == ASSUME Start PROVE Truth'
<1>1. ThreadTruth'
  BY DEF Start, ThreadTruth, NoThread
<1>2. 1 .. Len(channel') = {} /\ main' = "take" /\ \A m \in Minutes : outcome'[m] = None
  BY DEF Start
<1>3. ChannelTruth' /\ MainTruth'
  BY <1>2 DEF ChannelTruth, MainTruth, Busy, Processing
<1>4. OutcomeTruth'
  BY <1>2, NoneAssumption DEF OutcomeTruth
<1> QED
  BY <1>1, <1>3, <1>4 DEF Truth

LEMMA StepTruth == TypeInv /\ OrderInv /\ TruthInv /\ [Next]_vars => TruthInv'
<1> SUFFICES ASSUME TypeInv, OrderInv, TruthInv, [Next]_vars, running' PROVE Truth'
  BY DEF TruthInv
<1>1. CASE Start
  BY <1>1, StartTruth
<1>2. CASE ~Start
  <2>1. running
    BY <1>2 DEF Next, Fetch, Claim, LookUp, AwaitCooldown, Admit, FetchFails, Respond, DropBody, SaveRaw, SaveSidecar, Send,
       At, Work, Take, Process, WriteOutput, WriteManifest, ProcessFails, Record, RecordFails, Finish, Main,
       Kill, Damage, Publish, Elapse, vars, bounds
  <2>2. Order /\ Truth
    BY <2>1 DEF OrderInv, TruthInv
  <2>3. ASSUME NEW t \in Threads, Fetch(t) PROVE Truth'
    BY <2>2, <2>3, FetchTruth
  <2>4. CASE Work
    BY <2>1, <2>2, <2>4, TakeTruth, ProcessTruth, WriteTruth, FailureTruth, RecordTruth DEF Work, Finish
  <2>5. CASE Publish \/ Elapse \/ UNCHANGED vars
    <3>1. UNCHANGED <<raw, sidecar, aside, absent, thread, output, quarantine, manifest, outcome, channel, main, item>>
      BY <2>5 DEF Publish, Elapse, vars, raws, derived, mainVars
    <3>2. ThreadTruth' /\ ChannelTruth' /\ OutcomeTruth'
      BY <2>2, <3>1, MainFrame
    <3>3. MainTruth'
      BY <2>2, <3>1 DEF Truth, MainTruth, Busy, Settled, Checkpoint
    <3> QED
      BY <3>2, <3>3 DEF Truth
  <2>6. ~Kill /\ ~Damage
    BY <2>1 DEF Kill, Damage
  <2> QED
    BY <1>2, <2>3, <2>4, <2>5, <2>6 DEF Next
<1> QED
  BY <1>1, <1>2

\* The invariant behind what a run says.
RunInv == TypeInv /\ OrderInv /\ TruthInv

LEMMA InitRun == Init => RunInv
<1> SUFFICES ASSUME Init PROVE RunInv
  OBVIOUS
<1>1. TypeInv /\ ~running
  BY InitTypes DEF Init
<1> QED
  BY <1>1 DEF RunInv, OrderInv, TruthInv

LEMMA StepRun == RunInv /\ [Next]_vars => RunInv'
BY StepTypes, StepOrder, StepTruth DEF RunInv

\* What a run says of a minute is true at every moment of the run: complete
\* minutes have their files and they agree, missing ones were answered 404.
THEOREM OutcomesTrueHolds == Spec => []OutcomesTrue
<1>1. RunInv => OutcomesTrue
  BY DEF RunInv, TruthInv, Truth, OutcomeTruth, OutcomesTrue
<1> QED
  BY <1>1, InitRun, StepRun, PTL DEF Spec

\* The bytes a fetch finds are never lost to what replaces them: they are set
\* aside before the first attempt, whatever the other threads do (fetch).
THEOREM BytesRetainedHolds == Spec => BytesRetained
<1>1. RunInv /\ [Next]_vars =>
        [\A m \in Minutes :
           (running /\ raw[m] # None /\ raw'[m] # raw[m]) =>
              \/ raw[m] \in aside'[m]
              \/ \E t \in Threads : thread[t].minute = m /\ thread[t].tries > 0]_raw
  <2> SUFFICES ASSUME RunInv, [Next]_vars, NEW m \in Minutes, running, raw[m] # None, raw'[m] # raw[m]
               PROVE  \/ raw[m] \in aside'[m]
                      \/ \E t \in Threads : thread[t].minute = m /\ thread[t].tries > 0
    OBVIOUS
  <2> USE DEF RunInv
  <2>1. PICK t \in Threads : LookUp(t) \/ SaveRaw(t)
    BY DEF Next, Fetch, Claim, AwaitCooldown, Admit, FetchFails, Respond, DropBody, SaveSidecar, Send, Work, Take, Process,
       WriteOutput, WriteManifest, ProcessFails, Record, RecordFails, Finish, Start, Kill, Damage, Publish,
       Elapse, vars, raws
  <2>2. thread[t].minute = m
    BY <2>1 DEF LookUp, SaveRaw, TypeInv, ArchiveTypes
  <2>3. CASE LookUp(t)
    BY <2>2, <2>3 DEF LookUp, TypeInv, ArchiveTypes
  <2>4. CASE SaveRaw(t)
    <3>1. thread[t].pc = "save" /\ aside' = aside
      BY <2>4 DEF SaveRaw, At
    <3>2. CASE thread[t].tries = 0
      BY <2>2, <3>1, <3>2 DEF TruthInv, Truth, ThreadTruth
    <3>3. CASE thread[t].tries # 0
      <4>1. thread[t].tries \in Nat
        BY Bounds DEF TypeInv, ThreadTypes, Download
      <4> QED
        BY <2>2, <3>3, <4>1
    <3> QED
      BY <3>2, <3>3
  <2> QED
    BY <2>1, <2>3, <2>4
<1> QED
  BY <1>1, InitRun, StepRun, PTL DEF Spec, BytesRetained

-----------------------------------------------------------------------------
(* No minute is lost, and each is counted once.                            *)

HeldByThread(m) == \E t \in Threads : Active(t) /\ thread[t].minute = m
HeldByChannel(m) == \E i \in 1 .. Len(channel) : channel[i].minute = m
HeldByMain(m) == Busy /\ item.minute = m
Held(m) == HeldByThread(m) \/ HeldByChannel(m) \/ HeldByMain(m) \/ outcome[m] # None

Statuses == {"complete", "missing", "failed"}
With(s) == {m \in Minutes : outcome[m] = s}

Covered ==
  main # "abort" => /\ \A m \in Minutes : m < next => Held(m)
                    /\ \A t \in Threads : thread[t].pc = "done" => next > Last

Counted == \A s \in Statuses : summary[s] = Cardinality(With(s))

CountInv == running => Covered /\ Counted /\ report = None

LEMMA WithFinite == \A s : IsFiniteSet(With(s)) /\ Cardinality(With(s)) \in Nat
<1> SUFFICES ASSUME NEW s PROVE IsFiniteSet(With(s)) /\ Cardinality(With(s)) \in Nat
  OBVIOUS
<1>1. With(s) \subseteq Minutes
  BY DEF With
<1>2. IsFiniteSet(With(s))
  BY <1>1, SetsFinite, FS_Subset, Zenon
<1> QED
  BY <1>2, FS_CardinalityType, Zenon

\* A step of a thread that has a minute.
LEMMA KeepsCovered ==
  ASSUME TypeInv, Covered, NEW t \in Threads, NEW r, Put(t, r), r.minute = thread[t].minute,
         r.pc \in Places, UNCHANGED <<next, channel, main, item, outcome>>
  PROVE  Covered'
<1>1. thread'[t] = r
  BY PutThread
<1>2. \A u \in Threads : u # t => thread'[u] = thread[u]
  BY DEF Put, TypeInv, ThreadTypes
<1>3. \A u \in Threads : thread'[u].minute = thread[u].minute /\ (Active(u) => Active(u)')
  BY <1>1, <1>2 DEF Active
<1>4. \A m \in Minutes : Held(m) => Held(m)'
  BY <1>3 DEF Held, HeldByThread, HeldByChannel, HeldByMain, Busy
<1>5. \A u \in Threads : thread'[u].pc = "done" => thread[u].pc = "done"
  BY <1>1, <1>2 DEF Places
<1> QED
  BY <1>4, <1>5 DEF Covered

LEMMA ClaimCovered == ASSUME TypeInv, Covered, NEW t \in Threads, Claim(t) PROVE Covered'
<1>1. /\ next \in Nat /\ next' = next + 1 /\ UNCHANGED <<channel, main, item, outcome>> /\ ~Active(t)
  BY DEF Claim, TypeInv, ScalarTypes, mainVars, At, Active, Places
<1>2. \A u \in Threads : u # t => thread'[u] = thread[u]
  BY FetchFrame DEF Fetch
<1>3. \A m \in Minutes : Held(m) => Held(m)'
  BY <1>1, <1>2 DEF Held, HeldByThread, HeldByChannel, HeldByMain, Busy, Active
<1>4. Minutes \subseteq Nat /\ Last \in Nat /\ \A m \in Minutes : m <= Last
  BY Bounds DEF Minutes
<1>5. CASE next <= Last
  <2>1. thread'[t] = [NoThread EXCEPT !.pc = "cache", !.minute = next]
    BY <1>5, PutThread DEF Claim
  <2>2. thread'[t].pc = "cache" /\ thread'[t].minute = next
    BY <2>1 DEF NoThread
  <2>3. Active(t)'
    BY <2>2 DEF Active, Places
  <2>4. \A m \in Minutes : m < next' => m < next \/ m = next
    BY <1>1, <1>4
  <2>5. \A u \in Threads : thread'[u].pc = "done" => u # t /\ thread[u].pc = "done"
    BY <1>2, <2>2
  <2>6. main # "abort" => \A u \in Threads : thread[u].pc # "done"
    BY <1>1, <1>4, <1>5 DEF Covered
  <2>7. main # "abort" => \A m \in Minutes : m < next' => Held(m)'
    <3> SUFFICES ASSUME main # "abort", NEW m \in Minutes, m < next' PROVE Held(m)'
      OBVIOUS
    <3>1. CASE m = next
      <4>1. HeldByThread(m)'
        BY <2>2, <2>3, <3>1 DEF HeldByThread
      <4> QED
        BY <4>1 DEF Held
    <3>2. CASE m < next
      BY <1>3, <3>2 DEF Covered
    <3> QED
      BY <2>4, <3>1, <3>2
  <2> QED
    BY <1>1, <2>5, <2>6, <2>7 DEF Covered
<1>6. CASE ~(next <= Last)
  <2>1. \A m \in Minutes : m < next
    BY <1>1, <1>4, <1>6
  <2>2. next' > Last
    BY <1>1, <1>4, <1>6
  <2> QED
    BY <1>1, <1>3, <2>1, <2>2 DEF Covered
<1> QED
  BY <1>5, <1>6

LEMMA SendCovered == ASSUME TypeInv, Covered, NEW t \in Threads, Send(t) PROVE Covered'
<1>1. UNCHANGED <<next, main, item, outcome>> /\ Active(t)
  BY DEF Send, mainVars, At, Active, Places
<1>2. \A u \in Threads : u # t => thread'[u] = thread[u]
  BY FetchFrame DEF Fetch
<1>3. CASE main = "abort"
  BY <1>1, <1>3 DEF Covered
<1>4. CASE main # "abort"
  <2> DEFINE x == [minute |-> thread[t].minute, got |-> thread[t].got]
  <2>1. channel' = Append(channel, x) /\ thread'[t] = NoThread
    BY <1>4, PutThread DEF Send, ReceiverGone
  <2>2. x.minute = thread[t].minute
    OBVIOUS
  <2> HIDE DEF x
  <2>3. Len(channel) \in Nat /\ channel \in Seq(Message)
    BY ChannelType DEF TypeInv, MainTypes
  <2>4. /\ Len(channel') = Len(channel) + 1 /\ channel'[Len(channel) + 1] = x
        /\ \A i \in 1 .. Len(channel) : channel'[i] = channel[i]
    BY <2>1, <2>3 DEF x
  <2>5. \A i \in 1 .. Len(channel) : i \in 1 .. Len(channel')
    BY <2>3, <2>4
  <2>6. Len(channel) + 1 \in 1 .. Len(channel')
    BY <2>3, <2>4
  <2>7. \A m \in Minutes : Held(m) => Held(m)'
    <3> SUFFICES ASSUME NEW m \in Minutes, Held(m) PROVE Held(m)'
      OBVIOUS
    <3>1. CASE HeldByThread(m)
      <4>1. PICK u \in Threads : Active(u) /\ thread[u].minute = m
        BY <3>1 DEF HeldByThread
      <4>2. CASE u = t
        <5>1. HeldByChannel(m)'
          BY <2>2, <2>4, <2>6, <4>1, <4>2 DEF HeldByChannel
        <5> QED
          BY <5>1 DEF Held
      <4>3. CASE u # t
        <5>1. HeldByThread(m)'
          BY <1>2, <4>1, <4>3 DEF HeldByThread, Active
        <5> QED
          BY <5>1 DEF Held
      <4> QED
        BY <4>2, <4>3
    <3>2. CASE HeldByChannel(m)
      <4>1. HeldByChannel(m)'
        BY <2>4, <2>5, <3>2 DEF HeldByChannel
      <4> QED
        BY <4>1 DEF Held
    <3>3. CASE HeldByMain(m) \/ outcome[m] # None
      BY <1>1, <3>3 DEF Held, HeldByMain, Busy
    <3> QED
      BY <3>1, <3>2, <3>3 DEF Held
  <2>8. \A u \in Threads : thread'[u].pc = "done" => thread[u].pc = "done"
    BY <1>2, <2>1 DEF NoThread
  <2> QED
    BY <1>1, <2>7, <2>8 DEF Covered
<1> QED
  BY <1>3, <1>4

\* The steps of the main thread.
LEMMA MainCovered ==
  ASSUME TypeInv, Covered, UNCHANGED <<next, thread>>, main # "abort" \/ main' = "abort",
         main' # "abort" => \A m \in Minutes : Held(m) => Held(m)'
  PROVE  Covered'
BY DEF Covered

LEMMA TakeHolds == ASSUME TypeInv, Take PROVE \A m \in Minutes : Held(m) => Held(m)'
<1> SUFFICES ASSUME NEW m \in Minutes, Held(m) PROVE Held(m)'
  OBVIOUS
<1>1. /\ UNCHANGED <<next, thread, outcome>> /\ item' = Head(channel) /\ channel' = Tail(channel)
      /\ channel \in Seq(Message) /\ channel # <<>> /\ ~Busy /\ Busy'
  BY DEF Take, Main, Busy, Processing, TypeInv, MainTypes
<1>2. /\ Len(channel) \in Nat /\ Len(channel) >= 1 /\ item' = channel[1] /\ Len(channel') = Len(channel) - 1
      /\ \A i \in 1 .. Len(channel') : channel'[i] = channel[i + 1]
  BY <1>1
<1>3. CASE HeldByThread(m) \/ outcome[m] # None
  BY <1>1, <1>3 DEF Held, HeldByThread, Active
<1>4. CASE HeldByChannel(m)
  <2>1. PICK i \in 1 .. Len(channel) : channel[i].minute = m
    BY <1>4 DEF HeldByChannel
  <2>2. CASE i = 1
    BY <1>1, <1>2, <2>1, <2>2 DEF Held, HeldByMain
  <2>3. CASE i # 1
    <3> DEFINE j == i - 1
    <3>1. j \in 1 .. Len(channel') /\ j + 1 = i
      BY <1>2, <2>3
    <3> HIDE DEF j
    <3>2. channel'[j] = channel[i]
      BY <1>2, <3>1
    <3> QED
      BY <2>1, <3>1, <3>2 DEF Held, HeldByChannel
  <2> QED
    BY <2>2, <2>3
<1> QED
  BY <1>1, <1>3, <1>4 DEF Held, HeldByMain

LEMMA RecordCounts ==
  ASSUME TypeInv, Order, Covered, Counted, Record PROVE Covered' /\ Counted'
<1> USE NoneAssumption
<1>1. /\ UNCHANGED <<next, thread, channel, item>> /\ main = "record" /\ main' = "take" /\ Busy
      /\ outcome' = [outcome EXCEPT ![item.minute] = Status] /\ summary' = [summary EXCEPT ![Status] = @ + 1]
      /\ item.minute \in Minutes /\ DOMAIN outcome = Minutes /\ summary \in Counts
  BY DEF Record, Main, Busy, TypeInv, MainTypes, Message
<1>2. Status \in Statuses /\ Status # None
  BY StatusType DEF Statuses
<1> HIDE DEF Status
<1>3. outcome'[item.minute] = Status /\ \A m \in Minutes : m # item.minute => outcome'[m] = outcome[m]
  BY <1>1
<1>4. outcome[item.minute] = None
  BY <1>1 DEF Order, MainOrder
<1>5. \A m \in Minutes : Held(m) => Held(m)'
  BY <1>1, <1>2, <1>3 DEF Held, HeldByThread, HeldByChannel, HeldByMain, Active
<1>6. Covered'
  BY <1>1, <1>5, MainCovered
<1>7. Counted'
  <2> SUFFICES ASSUME NEW s \in Statuses PROVE summary'[s] = Cardinality(With(s)')
    BY DEF Counted
  <2>1. s # None /\ summary[s] = Cardinality(With(s)) /\ DOMAIN summary = Statuses
    BY <1>1 DEF Counted, Statuses, Counts
  <2>2. CASE s = Status
    <3>1. With(s)' = With(s) \cup {item.minute} /\ item.minute \notin With(s)
      BY <1>1, <1>3, <1>4, <2>1, <2>2 DEF With
    <3>2. Cardinality(With(s)') = Cardinality(With(s)) + 1
      BY <3>1, WithFinite, FS_AddElement, Zenon
    <3>3. summary'[s] = summary[s] + 1
      BY <1>1, <1>2, <2>1, <2>2
    <3> QED
      BY <2>1, <3>2, <3>3
  <2>3. CASE s # Status
    <3>1. With(s)' = With(s)
      BY <1>1, <1>3, <1>4, <2>1, <2>3 DEF With
    <3>2. summary'[s] = summary[s]
      BY <1>1, <1>2, <2>1, <2>3
    <3> QED
      BY <2>1, <3>1, <3>2
  <2> QED
    BY <2>2, <2>3
<1> QED
  BY <1>6, <1>7

LEMMA StepCount == TypeInv /\ OrderInv /\ CountInv /\ [Next]_vars => CountInv'
<1> SUFFICES ASSUME TypeInv, OrderInv, CountInv, [Next]_vars, running'
             PROVE  Covered' /\ Counted' /\ report' = None
  BY DEF CountInv
<1>1. CASE Start
  <2>1. next' = 1 /\ \A m \in Minutes : ~(m < 1)
    BY <1>1, Bounds DEF Start, Minutes
  <2>2. \A t \in Threads : thread'[t].pc # "done"
    BY <1>1 DEF Start, NoThread
  <2>3. Covered'
    BY <2>1, <2>2 DEF Covered
  <2>4. \A s \in Statuses : With(s)' = {} /\ summary'[s] = 0
    BY <1>1, NoneAssumption DEF Start, With, Statuses, NoSummary
  <2>5. Counted'
    BY <2>4, FS_EmptySet, Zenon DEF Counted
  <2> QED
    BY <1>1, <2>3, <2>5 DEF Start
<1>2. CASE ~Start
  <2>1. running
    BY <1>2 DEF Next, Fetch, Claim, LookUp, AwaitCooldown, Admit, FetchFails, Respond, DropBody, SaveRaw, SaveSidecar, Send,
       At, Work, Take, Process, WriteOutput, WriteManifest, ProcessFails, Record, RecordFails, Finish, Main,
       Kill, Damage, Publish, Elapse, vars, bounds
  <2>2. Order /\ Covered /\ Counted /\ report = None
    BY <2>1 DEF OrderInv, CountInv
  <2>3. ASSUME UNCHANGED <<outcome, summary>> PROVE Counted'
    BY <2>2, <2>3 DEF Counted, With
  <2>4. ASSUME NEW t \in Threads, Fetch(t) PROVE Covered' /\ UNCHANGED <<outcome, summary, report>>
    <3>1. CASE Claim(t)
      BY <2>2, <3>1, ClaimCovered DEF Claim, mainVars
    <3>2. CASE Send(t)
      BY <2>2, <3>2, SendCovered DEF Send, mainVars
    <3>3. CASE ~Claim(t) /\ ~Send(t)
      <4>1. \/ LookUp(t) \/ AwaitCooldown(t) \/ Admit(t) \/ FetchFails(t) \/ Respond(t) \/ DropBody(t) \/ SaveRaw(t)
            \/ SaveSidecar(t)
        BY <2>4, <3>3 DEF Fetch
      <4>2. /\ \E r : Put(t, r) /\ r.minute = thread[t].minute /\ r.pc \in Places
            /\ UNCHANGED <<next, channel, main, item, outcome, summary, report>>
        BY <4>1, StepPlaces
      <4>3. PICK r : Put(t, r) /\ r.minute = thread[t].minute /\ r.pc \in Places
        BY <4>2
      <4> QED
        BY <2>2, <4>2, <4>3, KeepsCovered
    <3> QED
      BY <3>1, <3>2, <3>3
  <2>5. CASE Record
    BY <2>2, <2>5, RecordCounts DEF Record
  <2>6. CASE Take \/ Process \/ WriteOutput \/ WriteManifest \/ ProcessFails
    <3>1. UNCHANGED <<next, thread, outcome, summary, report>> /\ main # "abort"
      BY <2>6 DEF Take, Process, WriteOutput, WriteManifest, ProcessFails, Main
    <3>2. \A m \in Minutes : Held(m) => Held(m)'
      <4>1. CASE Take
        BY <4>1, TakeHolds
      <4>2. CASE ~Take
        <5>1. [item EXCEPT !.got = Failed].minute = item.minute
          BY DEF TypeInv, MainTypes, Message
        <5>2. item'.minute = item.minute /\ channel' = channel /\ Busy'
          BY <2>6, <4>2, <5>1 DEF Process, WriteOutput, WriteManifest, ProcessFails, Main, Busy, Processing
        <5> QED
          BY <3>1, <5>2 DEF Held, HeldByThread, HeldByChannel, HeldByMain, Active
      <4> QED
        BY <4>1, <4>2
    <3> QED
      BY <2>2, <2>3, <3>1, <3>2, MainCovered
  <2>7. CASE RecordFails
    BY <2>2, <2>3, <2>7, MainCovered DEF RecordFails, Main
  <2>8. CASE Publish \/ Elapse \/ UNCHANGED vars
    <3>1. UNCHANGED <<next, thread, channel, main, item, outcome, summary, report>>
      BY <2>8 DEF Publish, Elapse, vars, mainVars
    <3>2. Covered'
      BY <2>2, <3>1 DEF Covered, Held, HeldByThread, HeldByChannel, HeldByMain, Active, Busy
    <3> QED
      BY <2>2, <2>3, <3>1, <3>2
  <2>9. ~Finish /\ ~Kill /\ ~Damage
    BY <2>1 DEF Finish, Kill, Damage
  <2> QED
    BY <1>2, <2>2, <2>3, <2>4, <2>5, <2>6, <2>7, <2>8, <2>9 DEF Next, Work
<1> QED
  BY <1>1, <1>2

\* The outcomes of a finished run share the minutes out.
LEMMA Shared ==
  ASSUME \A m \in Minutes : outcome[m] \in Statuses
  PROVE  Cardinality(With("complete")) + Cardinality(With("missing")) + Cardinality(With("failed")) = Last
<1> DEFINE C == With("complete")
           M == With("missing")
           F == With("failed")
<1>1. /\ IsFiniteSet(C) /\ IsFiniteSet(M) /\ IsFiniteSet(F)
      /\ Cardinality(C) \in Nat /\ Cardinality(M) \in Nat /\ Cardinality(F) \in Nat
  BY WithFinite
<1>2. C \cap M = {} /\ (C \cup M) \cap F = {} /\ (C \cup M) \cup F = 1 .. Last
  BY DEF With, Statuses, Minutes
<1> HIDE DEF C, M, F
<1>3. Cardinality({}) = 0
  BY FS_EmptySet
<1>4. /\ IsFiniteSet(C \cup M)
      /\ Cardinality(C \cup M) = Cardinality(C) + Cardinality(M) - Cardinality(C \cap M)
  BY <1>1, FS_Union, Zenon
<1>5. Cardinality((C \cup M) \cup F) = Cardinality(C \cup M) + Cardinality(F) - Cardinality((C \cup M) \cap F)
  BY <1>1, <1>4, FS_Union, Zenon
<1>6. Cardinality(1 .. Last) = Last
  BY Bounds, FS_Interval
<1>7. /\ Cardinality(C \cap M) = 0 /\ Cardinality((C \cup M) \cap F) = 0
      /\ Cardinality((C \cup M) \cup F) = Last
  BY <1>2, <1>3, <1>6, Zenon
<1>8. Cardinality(C \cup M) \in Nat
  BY <1>4, FS_CardinalityType, Zenon
<1>9. Cardinality(C) + Cardinality(M) + Cardinality(F) = Last
  <2>1. \A c, m, f, cm, z1, z2 \in Int : cm = c + m - z1 /\ Last = cm + f - z2 /\ z1 = 0 /\ z2 = 0 => c + m + f = Last
    BY Bounds
  <2> QED
    BY <1>1, <1>4, <1>5, <1>7, <1>8, <2>1
<1> QED
  BY <1>9 DEF C, M, F

LEMMA StepReport ==
  TypeInv /\ CountInv /\ ReportAgrees /\ [Next]_vars => ReportAgrees'
<1> SUFFICES ASSUME TypeInv, CountInv, ReportAgrees, [Next]_vars PROVE ReportAgrees'
  OBVIOUS
<1>1. CASE ~running /\ ~Start
  <2>1. UNCHANGED <<outcome, report>>
    BY <1>1 DEF Next, Fetch, Claim, LookUp, AwaitCooldown, Admit, FetchFails, Respond, DropBody, SaveRaw, SaveSidecar, Send,
       At, Work, Take, Process, WriteOutput, WriteManifest, ProcessFails, Record, RecordFails, Finish, Main,
       Kill, Damage, Publish, Elapse, vars, mainVars
  <2> QED
    BY <2>1 DEF ReportAgrees
<1>2. CASE Start
  BY <1>2 DEF Start, ReportAgrees
<1>3. CASE running /\ ~Finish /\ ~Start
  <2>1. report' = report
    BY <1>3 DEF Next, Fetch, Claim, LookUp, AwaitCooldown, Admit, FetchFails, Respond, DropBody, SaveRaw, SaveSidecar, Send,
       Work, Take, Process, WriteOutput, WriteManifest, ProcessFails, Record, RecordFails, Main,
       Kill, Damage, Publish, Elapse, vars, mainVars
  <2> QED
    BY <1>3, <2>1 DEF CountInv, ReportAgrees
<1>4. CASE running /\ Finish
  <2>1. report = None /\ outcome' = outcome
    BY <1>4 DEF CountInv, Finish
  <2>2. CASE report' = None
    BY <2>2 DEF ReportAgrees
  <2>3. CASE report' # None
    <3>1. main = "take" /\ Disconnected /\ report' = summary
      BY <1>4, <2>1, <2>3 DEF Finish
    <3>2. PICK t \in Threads : TRUE
      BY CollectorAssumption
    <3>3. next > Last
      BY <1>4, <3>1, <3>2 DEF CountInv, Covered, Disconnected, ThreadsDone
    <3>4. \A m \in Minutes : m < next
      BY <3>3, Bounds DEF Minutes, TypeInv, ScalarTypes
    <3>5. \A m \in Minutes : Held(m)
      BY <1>4, <3>1, <3>4 DEF CountInv, Covered
    <3>6. /\ \A m : ~HeldByThread(m)
          /\ \A m : ~HeldByMain(m)
      BY <3>1 DEF HeldByThread, HeldByMain, Active, Places, Busy, Processing, Disconnected, ThreadsDone
    <3>7. 1 .. Len(channel) = {}
      BY <3>1 DEF Disconnected
    <3>8. \A m \in Minutes : outcome[m] # None
      BY <3>5, <3>6, <3>7 DEF Held, HeldByChannel
    <3>9. \A m \in Minutes : outcome[m] \in Statuses
      BY <3>8 DEF TypeInv, MainTypes, Statuses
    <3>10. Counted /\ summary \in Counts
      BY <1>4 DEF CountInv, TypeInv, MainTypes
    <3>11. /\ DOMAIN summary = Statuses
           /\ summary.complete = Cardinality(With("complete"))
           /\ summary.missing = Cardinality(With("missing"))
           /\ summary.failed = Cardinality(With("failed"))
      BY <3>10 DEF Counted, Statuses, Counts
    <3>12. summary.complete + summary.missing + summary.failed = Last
      BY <3>9, <3>11, Shared
    <3> QED
      BY <2>1, <3>1, <3>10, <3>11, <3>12 DEF ReportAgrees, Counted, With
  <2> QED
    BY <2>2, <2>3
<1> QED
  BY <1>1, <1>2, <1>3, <1>4

\* The summary of a run that ended by itself counts every minute once, as the
\* outcome files say: no minute is lost or handled twice (run, collect_window).
THEOREM ReportAgreesHolds == Spec => []ReportAgrees
<1> DEFINE I == TypeInv /\ OrderInv /\ CountInv /\ ReportAgrees
<1>1. Init => I
  BY InitTypes DEF Init, OrderInv, CountInv, ReportAgrees
<1>2. I /\ [Next]_vars => I'
  BY StepTypes, StepOrder, StepCount, StepReport
<1>3. I => ReportAgrees
  OBVIOUS
<1> HIDE DEF I
<1> QED
  BY <1>1, <1>2, <1>3, PTL DEF Spec
=============================================================================
