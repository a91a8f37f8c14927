----------------------------- MODULE HubTraffic -----------------------------
(***************************************************************************)
(* HubRequestLimiter of hub_traffic.py: the hooks that every SDK thread    *)
(* passes before a request to the Hub and after its response.              *)
(*                                                                         *)
(* Both hooks share one lock and next_request_at.  The request hook sleeps *)
(* with the lock held.  The lock is not fair: any waiting thread may get   *)
(* it next.  Time is in seconds; a response says whether the allowance is  *)
(* low or spent (429), and what reset its headers advertise.  Responses of *)
(* other hosts pass both hooks without a trace and are left out.           *)
(***************************************************************************)
EXTENDS Integers

CONSTANTS
  Threads,  \* threads of the SDK
  None,     \* the lock is free, no header
  Resets,   \* seconds a Retry-After or RateLimit header may name
  Default,  \* the pause when a response names none (300)
  LastTime, \* bound: the clock stops there
  MaxLow    \* bound: responses with a low allowance

\* What the constants stand for.
TrafficConstants ==
  /\ Resets \subseteq Nat /\ Default \in Nat /\ LastTime \in Nat /\ MaxLow \in Nat
  /\ None \notin Threads

VARIABLES
  clock,
  nextRequestAt,
  lock,     \* the thread that holds it
  pc,       \* pc[t]: where t is in its request
  delay,    \* delay[t]: the pause its response asks for
  lows,     \* responses with a low allowance so far
  reported, \* latest reset any response has advertised on arrival
  noted,    \* the same of the responses that have passed their hook
  last      \* the last request let through: its time, the one before, and both

vars == <<clock, nextRequestAt, lock, pc, delay, lows, reported, noted, last>>
history == <<reported, noted, last>>

MaxOf(a, b) == IF a >= b THEN a ELSE b

\* reset_delay, of the longest reset the headers name.
ResetDelay(reset) == MaxOf(1, IF reset = None THEN Default ELSE reset) + 1

Goto(t, place) == pc' = [pc EXCEPT ![t] = place]

Init ==
  /\ clock = 0 /\ nextRequestAt = 0 /\ lock = None
  /\ pc = [t \in Threads |-> "idle"]
  /\ delay = [t \in Threads |-> 0]
  /\ lows = 0 /\ reported = 0 /\ noted = 0
  /\ last = [at |-> -1, before |-> -2, reported |-> -1, noted |-> -1]

\* request: the hook takes the lock.
Enter(t) ==
  /\ pc[t] = "idle" /\ lock = None
  /\ lock' = t /\ Goto(t, "wait")
  /\ UNCHANGED <<clock, nextRequestAt, delay, lows, history>>

\* It waits with the lock until the time has come, and the request goes out.
LetThrough(t) ==
  /\ pc[t] = "wait" /\ nextRequestAt <= clock
  /\ nextRequestAt' = clock + 1
  /\ lock' = None /\ Goto(t, "flight")
  /\ last' = [at |-> clock, before |-> last.at, reported |-> reported, noted |-> noted]
  /\ UNCHANGED <<clock, delay, lows, reported, noted>>

\* A response with allowance left needs no lock.
Answered(t) ==
  /\ pc[t] = "flight"
  /\ Goto(t, "idle")
  /\ UNCHANGED <<clock, nextRequestAt, lock, delay, lows, history>>

\* A 429, or a remaining allowance of at most 100 requests.
RunsLow(t) ==
  /\ pc[t] = "flight" /\ lows < MaxLow
  /\ \E reset \in Resets \cup {None} :
       /\ delay' = [delay EXCEPT ![t] = ResetDelay(reset)]
       /\ reported' = MaxOf(reported, clock + (IF reset = None THEN 0 ELSE reset))
  /\ Goto(t, "note") /\ lows' = lows + 1
  /\ UNCHANGED <<clock, nextRequestAt, lock, noted, last>>

\* A longer pause that was noted before stays.
Cooldown(t) == MaxOf(nextRequestAt, clock + delay[t])

\* response: with the lock, the pause is noted.
Note(t) ==
  /\ pc[t] = "note" /\ lock = None
  /\ nextRequestAt' = Cooldown(t)
  /\ noted' = MaxOf(noted, clock + delay[t])
  /\ delay' = [delay EXCEPT ![t] = 0]
  /\ Goto(t, "idle")
  /\ UNCHANGED <<clock, lock, lows, reported, last>>

Tick ==
  /\ clock < LastTime
  /\ clock' = clock + 1
  /\ UNCHANGED <<nextRequestAt, lock, pc, delay, lows, history>>

Next ==
  \/ \E t \in Threads : Enter(t) \/ LetThrough(t) \/ Answered(t) \/ RunsLow(t) \/ Note(t)
  \/ Tick

Spec == Init /\ [][Next]_vars

-----------------------------------------------------------------------------
(* Properties.                                                             *)

\* TypeOK: times and pauses are whole seconds.
TypeOK ==
  /\ clock \in Nat /\ nextRequestAt \in Nat
  /\ lock \in Threads \cup {None}
  /\ pc \in [Threads -> {"idle", "wait", "flight", "note"}]
  /\ delay \in [Threads -> Nat]
  /\ lows \in Nat /\ reported \in Int /\ noted \in Int
  /\ last \in [at : Int, before : Int, reported : Int, noted : Int]

\* Whatever threads wait and whatever responses overtake each other, requests
\* go out at least a second apart, and none inside a pause that a response
\* hook has noted, also when a shorter one was noted later (request, response).
PausesKept == last.at > last.before /\ last.at >= last.noted

\* No request goes out between the arrival of a response that reports the
\* allowance low or spent and the reset it advertises (HubRequestLimiter: "stop
\* before reported exhaustion").
StopsBeforeExhaustion == last.at >= last.reported
=============================================================================
