-------------------------- MODULE HubTrafficProofs --------------------------
(***************************************************************************)
(* The limiter keeps its pauses for any number of threads, resets and      *)
(* responses, however long it runs.                                        *)
(***************************************************************************)
EXTENDS HubTraffic, TLAPS

\* Why: next_request_at is never before a noted pause, and always after the
\* last request let through.
PausesInv ==
  /\ noted <= nextRequestAt
  /\ last.at < nextRequestAt
  /\ PausesKept

IInv == TypeOK /\ PausesInv

LEMMA ResetDelayType ==
  ASSUME TrafficConstants, NEW reset \in Resets \cup {None}
  PROVE  ResetDelay(reset) \in Nat
BY SMT DEF TrafficConstants, ResetDelay, MaxOf

LEMMA InitInv == Init => IInv
BY SMT DEF Init, IInv, TypeOK, PausesInv, PausesKept

LEMMA StepInv == TrafficConstants /\ IInv /\ [Next]_vars => IInv'
<1> SUFFICES ASSUME TrafficConstants, IInv, [Next]_vars PROVE IInv'
  OBVIOUS
<1> USE DEF IInv, TypeOK, PausesInv, PausesKept
<1>1. ASSUME NEW t \in Threads, Enter(t) PROVE IInv'
  BY <1>1, SMT DEF Enter, Goto, history
<1>2. ASSUME NEW t \in Threads, LetThrough(t) PROVE IInv'
  BY <1>2, SMT DEF LetThrough, Goto
<1>3. ASSUME NEW t \in Threads, Answered(t) PROVE IInv'
  BY <1>3, SMT DEF Answered, Goto, history
<1>4. ASSUME NEW t \in Threads, RunsLow(t) PROVE IInv'
  <2>1. PICK reset \in Resets \cup {None} :
          /\ delay' = [delay EXCEPT ![t] = ResetDelay(reset)]
          /\ reported' = MaxOf(reported, clock + (IF reset = None THEN 0 ELSE reset))
    BY <1>4 DEF RunsLow
  <2>2. delay' \in [Threads -> Nat] /\ reported' \in Int
    BY <2>1, ResetDelayType, SMT DEF TrafficConstants, MaxOf
  <2> QED
    BY <1>4, <2>2, SMT DEF RunsLow, Goto
<1>5. ASSUME NEW t \in Threads, Note(t) PROVE IInv'
  BY <1>5, SMT DEF Note, Goto, Cooldown, MaxOf
<1>6. ASSUME Tick PROVE IInv'
  BY <1>6, SMT DEF Tick, history
<1>7. ASSUME UNCHANGED vars PROVE IInv'
  BY <1>7, SMT DEF vars, history
<1> QED
  BY <1>1, <1>2, <1>3, <1>4, <1>5, <1>6, <1>7 DEF Next

\* A request goes out no sooner than a second after the one before and not
\* inside a noted pause (HubRequestLimiter.request, response).
THEOREM PausesKeptHolds == ASSUME TrafficConstants PROVE Spec => []PausesKept
<1>0. IInv /\ [Next]_vars => IInv'
  BY StepInv
<1>1. IInv => PausesKept
  BY DEF IInv, PausesInv
<1> QED
  BY InitInv, <1>0, <1>1, PTL DEF Spec
=============================================================================
