------------------------- MODULE VenueHealthProofs -------------------------
(***************************************************************************)
(* What crypto/health.py promises about one venue, for all thresholds,     *)
(* windows and intervals: proofs about VenueHealth.                        *)
(***************************************************************************)
EXTENDS VenueHealth, SequenceTheorems, WellFoundedInduction, TLAPS

-----------------------------------------------------------------------------
(* Helpers.                                                                *)

\* A nonempty set of naturals holds its minimum.
LEMMA MinInSet ==
  ASSUME NEW S \in SUBSET Nat, S # {}
  PROVE  Min(S) \in S
<1>1. PICK x \in S : \A y \in S : ~ (<<y, x>> \in OpToRel(<, Nat))
  BY NatLessThanWellFounded, WFMin
<1>2. ASSUME NEW y \in S PROVE x <= y
  <2>1. <<y, x>> \in Nat \X Nat /\ <<y, x>>[1] = y /\ <<y, x>>[2] = x
    OBVIOUS
  <2>2. ~ (<<y, x>>[1] < <<y, x>>[2])
    BY <1>1, <2>1, Zenon DEF OpToRel
  <2> QED
    BY <2>1, <2>2
<1> QED
  BY <1>2 DEF Min

\* A counter that is capped stays below its cap.
LEMMA OlderBounds ==
  ASSUME NEW most \in Nat, NEW n \in 0..most
  PROVE  Older(n, most) \in 0..most
BY DEF Older

\* Outcome is the type of a request outcome.
Outcome == [age: 0..(ErrorWindow + 1), ok: BOOLEAN]

\* Trimming keeps a sequence of outcomes and makes it no longer.
LEMMA TrimType ==
  ASSUME NEW outcomes \in Seq(Outcome)
  PROVE  Trim(outcomes) \in Seq(Outcome) /\ Len(Trim(outcomes)) <= Len(outcomes)
<1> DEFINE fresh == {i \in 1..Len(outcomes) : outcomes[i].age <= ErrorWindow}
<1>1. CASE fresh = {}
  BY <1>1 DEF Trim
<1>2. CASE fresh # {}
  <2>1. fresh \in SUBSET Nat
    OBVIOUS
  <2>2. Min(fresh) \in fresh
    BY <1>2, <2>1, MinInSet
  <2>3. Min(fresh) \in 1..Len(outcomes) /\ Len(outcomes) \in Nat
    BY <2>2
  <2>4. Trim(outcomes) = SubSeq(outcomes, Min(fresh), Len(outcomes))
    BY <1>2 DEF Trim
  <2>5. 1 <= Min(fresh) /\ Min(fresh) <= Len(outcomes) + 1
    BY <2>3
  <2>6. /\ Trim(outcomes) \in Seq(Outcome)
        /\ Len(Trim(outcomes)) = Len(outcomes) - Min(fresh) + 1
    <3> HIDE DEF fresh
    <3> QED
      BY <2>3, <2>4, <2>5, SubSeqProperties
  <2> QED
    BY <2>3, <2>6
<1> QED
  BY <1>1, <1>2

-----------------------------------------------------------------------------
(* The types.                                                              *)

\* One more outcome is one more outcome.
LEMMA AppendOutcome ==
  ASSUME TypeOK, NEW ok \in BOOLEAN, Len(requests) < MaxRequests
  PROVE  LET longer == Append(requests, [age |-> 0, ok |-> ok])
         IN longer \in Seq(Outcome) /\ Len(longer) <= MaxRequests
<1>1. requests \in Seq(Outcome)
  BY DEF TypeOK, Outcome
<1>2. [age |-> 0, ok |-> ok] \in Outcome
  BY PolicyAssumption DEF Outcome
<1>3. Len(Append(requests, [age |-> 0, ok |-> ok])) = Len(requests) + 1
  BY <1>1, <1>2
<1> QED
  BY <1>1, <1>2, <1>3, PolicyAssumption

\* A state follows from the four.
LEMMA NextStateType ==
  ASSUME TypeOK, NEW outcomes
  PROVE  NextState(outcomes) \in HealthState
BY DEF NextState, TypeOK, HealthState

\* A venue begins healthy, with nothing observed.
LEMMA HealthInit == Init => TypeOK
<1> SUFFICES ASSUME Init PROVE TypeOK
  OBVIOUS
<1>1. requests \in Seq(Outcome) /\ Len(requests) = 0
  BY DEF Init
<1>2. /\ age \in [Sources -> Nat \cup {None}]
      /\ \A source \in Sources : age[source] \in 0..MaxAge(source) \cup {None}
  BY DEF Init
<1>3. CheckInterval \in Nat /\ MaxRequests \in Nat /\ Len(requests) <= MaxRequests
  BY <1>1, PolicyAssumption
<1>4. state \in HealthState /\ restOk \in BOOLEAN
  BY Zenon DEF Init, HealthState
<1>5. /\ sinceCheck \in 0..CheckInterval \cup {None}
      /\ unchecked \in 0..CheckInterval
  <2>1. unchecked = 0 /\ sinceCheck = None
    BY DEF Init
  <2> QED
    BY <1>3, <2>1
<1> QED
  BY <1>1, <1>2, <1>3, <1>4, <1>5 DEF TypeOK, Outcome

\* No observation, check, tick or step of the operator breaks the invariant.
LEMMA HealthStep == TypeOK /\ [Next]_vars => TypeOK'
<1> SUFFICES ASSUME TypeOK, [Next]_vars PROVE TypeOK'
  OBVIOUS
<1> USE PolicyAssumption
<1>0. /\ CheckInterval \in Nat /\ requests \in Seq(Outcome)
      /\ \A source \in Sources : MaxAge(source) \in Nat
  BY DEF TypeOK, Outcome, MaxAge
<1>1. ASSUME NEW ok \in BOOLEAN, RecordRequest(ok) PROVE TypeOK'
  BY <1>1, AppendOutcome DEF RecordRequest, TypeOK, Outcome
<1>2. ASSUME NEW ok \in BOOLEAN, RecordRest(ok) PROVE TypeOK'
  <2>1. age' \in [Sources -> Nat \cup {None}]
         /\ \A source \in Sources : age'[source] \in 0..MaxAge(source) \cup {None}
    BY <1>0, <1>2 DEF RecordRest, TypeOK
  <2> QED
    BY <1>2, <2>1, AppendOutcome DEF RecordRest, TypeOK, Outcome
<1>3. ASSUME NEW source \in Sources, NEW old \in 0..MaxAge(source), Record(source, old)
      PROVE  TypeOK'
  <2>1. age' \in [Sources -> Nat \cup {None}]
         /\ \A s \in Sources : age'[s] \in 0..MaxAge(s) \cup {None}
    BY <1>0, <1>3 DEF Record, TypeOK
  <2> QED
    BY <1>3, <2>1 DEF Record, TypeOK
<1>4. ASSUME Check PROVE TypeOK'
  <2>1. Evaluate(Trim(requests))
    BY <1>4 DEF Check
  <2>2. requests' \in Seq(Outcome) /\ Len(requests') <= MaxRequests
    <3>1. Len(requests) \in Nat /\ Len(requests) <= MaxRequests
      BY <1>0 DEF TypeOK
    <3>2. Len(Trim(requests)) \in Nat
      BY <1>0, TrimType
    <3> QED
      BY <1>0, <2>1, <3>1, <3>2, TrimType DEF Evaluate
  <2>3. state' \in HealthState
    BY <2>1, NextStateType DEF Evaluate
  <2> QED
    BY <1>0, <2>1, <2>2, <2>3 DEF Evaluate, TypeOK, Outcome
<1>5. ASSUME Quarantine PROVE TypeOK'
  BY <1>5 DEF Quarantine, TypeOK, HealthState
<1>6. ASSUME ManualRearm PROVE TypeOK'
  BY <1>6 DEF ManualRearm, TypeOK, HealthState
<1>7. ASSUME ForceFailed PROVE TypeOK'
  BY <1>7 DEF ForceFailed, TypeOK, HealthState
<1>8. ASSUME Tick PROVE TypeOK'
  <2>1. age' \in [Sources -> Nat \cup {None}]
         /\ \A source \in Sources : age'[source] \in 0..MaxAge(source) \cup {None}
    <3>1. ASSUME NEW source \in Sources, age[source] # None
          PROVE  Older(age[source], MaxAge(source)) \in 0..MaxAge(source)
      BY <1>0, <3>1, OlderBounds DEF TypeOK
    <3>2. \A source \in Sources : MaxAge(source) \in Nat
      BY <1>0
    <3>3. age' = [source \in Sources |-> IF age[source] = None THEN None
                                         ELSE Older(age[source], MaxAge(source))]
      BY <1>8 DEF Tick
    <3>4. \A source \in Sources : age'[source] \in 0..MaxAge(source) \cup {None}
      BY ONLY <3>1, <3>3
    <3>5. \A source \in Sources : age'[source] \in Nat \cup {None}
      BY ONLY <3>2, <3>4
    <3> QED
      BY ONLY <3>3, <3>4, <3>5
  <2>2. requests' \in Seq(Outcome) /\ Len(requests') = Len(requests)
    <3>1. ASSUME NEW i \in 1..Len(requests)
          PROVE  [requests[i] EXCEPT !.age = Older(@, ErrorWindow + 1)] \in Outcome
      <4>1. requests[i] \in Outcome /\ ErrorWindow + 1 \in Nat
        BY <1>0
      <4>2. Older(requests[i].age, ErrorWindow + 1) \in 0..(ErrorWindow + 1)
        BY <4>1, OlderBounds DEF Outcome
      <4> QED
        BY <4>1, <4>2 DEF Outcome
    <3>2. requests' = [i \in 1..Len(requests) |->
                         [requests[i] EXCEPT !.age = Older(@, ErrorWindow + 1)]]
      BY <1>8 DEF Tick
    <3>3. Len(requests) \in Nat
      BY ONLY <1>0
    <3> DEFINE outcome(i) == [requests[i] EXCEPT !.age = Older(@, ErrorWindow + 1)]
    <3>4. \A i \in 1..Len(requests) : outcome(i) \in Outcome
      BY ONLY <3>1
    <3> HIDE DEF outcome
    <3>5. requests' = [i \in 1..Len(requests) |-> outcome(i)]
      BY ONLY <3>2 DEF outcome
    <3> QED
      BY ONLY <3>3, <3>4, <3>5
  <2>3. /\ sinceCheck' \in 0..CheckInterval \cup {None}
        /\ unchecked' \in 0..CheckInterval
    <3>1. /\ sinceCheck \in 0..CheckInterval \cup {None}
          /\ unchecked \in 0..CheckInterval /\ unchecked < CheckInterval
          /\ sinceCheck' = IF sinceCheck = None THEN None
                           ELSE Older(sinceCheck, CheckInterval)
          /\ unchecked' = unchecked + 1
      BY <1>8 DEF Tick, TypeOK
    <3> QED
      BY ONLY <1>0, <3>1, OlderBounds
  <2> QED
    BY <1>8, <2>1, <2>2, <2>3 DEF Tick, TypeOK, Outcome
<1>9. CASE UNCHANGED vars
  BY <1>9 DEF vars, TypeOK
<1> QED
  BY <1>1, <1>2, <1>3, <1>4, <1>5, <1>6, <1>7, <1>8, <1>9 DEF Next, Observe

\* Every variable of the health state machine keeps its shape (check, the
\* observations and the operator's two commands).
THEOREM HealthTypeCorrect == Spec => []TypeOK
<1> QED
  BY HealthInit, HealthStep, PTL DEF Spec

-----------------------------------------------------------------------------
(* Action properties.                                                      *)

\* Nothing makes a venue HEALTHY but a check that finds every signal fresh, an
\* operator's rearm included (manual_rearm, check).
THEOREM HealthyOnEvidence == Spec => EvidenceBeforeHealthy
<1> DEFINE Evidence == state # "HEALTHY" /\ state' = "HEALTHY"
                         => restOk /\ \A source \in Sources : ~Stale(source)
<1>1. TypeOK /\ [Next]_vars => [Evidence]_vars
  <2> SUFFICES ASSUME TypeOK, Next, state # "HEALTHY", state' = "HEALTHY"
               PROVE  restOk /\ \A source \in Sources : ~Stale(source)
    BY DEF vars
  <2>1. Check
    BY DEF Next, Observe, RecordRequest, RecordRest, Record, Quarantine, ManualRearm,
           ForceFailed, Tick
  <2>2. NextState(Trim(requests)) = "HEALTHY"
    BY <2>1 DEF Check, Evaluate
  <2>3. ~Severe(Trim(requests)) /\ ~Degraded(Trim(requests))
    BY <2>2 DEF NextState
  <2> QED
    BY <2>3 DEF Severe, Degraded, Stale
<1> QED
  BY HealthTypeCorrect, <1>1, PTL DEF Spec, EvidenceBeforeHealthy
=============================================================================
