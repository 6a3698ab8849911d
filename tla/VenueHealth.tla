---------------------------- MODULE VenueHealth ----------------------------
(***************************************************************************)
(* crypto/health.py: the health state machine of one venue, which the      *)
(* router reads before it sends an order there.                            *)
(*                                                                         *)
(* Time passes in ticks.  A timestamp is modelled by its age, counted up   *)
(* to the last value the policy tells apart; None is a signal never seen.  *)
(***************************************************************************)
EXTENDS Integers, SequencesExt, FiniteSetsExt

CONSTANTS
  Sources,       \* the signals that age: "rest", "websocket", "book"
  StaleAfter,    \* [Sources -> ticks], the staleness thresholds
  CheckInterval, \* ticks between evaluations that are not forced
  ErrorWindow,   \* ticks a request outcome counts for
  MinSamples,    \* minimum_error_samples
  MaxRequests,   \* bound: request outcomes kept at a time
  Forced,        \* whether checks are forced, as the engine's are
  None           \* no observation

ASSUME PolicyAssumption ==
  /\ "rest" \in Sources
  /\ StaleAfter \in [Sources -> Nat \ {0}]
  /\ CheckInterval \in Nat \ {0}
  /\ {ErrorWindow, MinSamples, MaxRequests} \subseteq Nat
  /\ Forced \in BOOLEAN
  /\ None \notin Nat

VARIABLES
  state,      \* HealthState
  age,        \* per source, the age of its last observation, or None
  restOk,     \* outcome of the last REST status
  requests,   \* recent request outcomes with their ages, oldest first
  sinceCheck, \* ticks since the last evaluation (_last_check), or None
  unchecked   \* history: ticks since the last evaluation or the start

vars == <<state, age, restOk, requests, sinceCheck, unchecked>>

HealthState == {"HEALTHY", "DEGRADED", "FAILED", "QUARANTINED"}

MaxAge(source) == 2 * StaleAfter[source]

Older(n, most) == IF n < most THEN n + 1 ELSE most

Init ==
  /\ state = "HEALTHY"
  /\ age = [source \in Sources |-> None]
  /\ restOk = FALSE
  /\ requests = <<>>
  /\ sinceCheck = None
  /\ unchecked = 0

-----------------------------------------------------------------------------
(* Observations.                                                           *)

RecordRequest(ok) ==
  /\ Len(requests) < MaxRequests
  /\ requests' = Append(requests, [age |-> 0, ok |-> ok])
  /\ UNCHANGED <<state, age, restOk, sinceCheck, unchecked>>

RecordRest(ok) ==
  /\ Len(requests) < MaxRequests
  /\ age' = [age EXCEPT !["rest"] = 0]
  /\ restOk' = ok
  /\ requests' = Append(requests, [age |-> 0, ok |-> ok])
  /\ UNCHANGED <<state, sinceCheck, unchecked>>

\* record_ws_heartbeat and record_book take the timestamp they are given, which
\* may be older than the one before.
Record(source, old) ==
  /\ source # "rest"
  /\ age' = [age EXCEPT ![source] = old]
  /\ UNCHANGED <<state, restOk, requests, sinceCheck, unchecked>>

-----------------------------------------------------------------------------
(* The evaluation.                                                         *)

\* _trim_errors drops from the old end what left the window.
Trim(outcomes) ==
  LET fresh == {i \in 1..Len(outcomes) : outcomes[i].age <= ErrorWindow}
  IN IF fresh = {} THEN <<>> ELSE SubSeq(outcomes, Min(fresh), Len(outcomes))

\* Among enough outcomes, at least one part in so many failed.
ErrorRate(outcomes, parts) ==
  LET failures == Cardinality({i \in 1..Len(outcomes) : ~outcomes[i].ok})
  IN /\ Len(outcomes) >= MinSamples
     /\ outcomes # <<>>
     /\ failures * parts >= Len(outcomes)

Severe(outcomes) ==
  \/ \E source \in Sources : age[source] = None \/ age[source] >= MaxAge(source)
  \/ ~restOk /\ age["rest"] # None
  \/ ErrorRate(outcomes, 2)

\* Mutant: only the REST signal is looked at before it is twice too old.
MutDegraded(outcomes) ==
  \/ age["rest"] # None /\ age["rest"] >= StaleAfter["rest"]
  \/ ~restOk
  \/ ErrorRate(outcomes, 5)

Degraded(outcomes) ==
  \/ \E source \in Sources : age[source] # None /\ age[source] >= StaleAfter[source]
  \/ ~restOk
  \/ ErrorRate(outcomes, 5)

\* Mutant: a failed venue only gets as far as degraded.
MutNextStateSticky(outcomes) ==
  IF state = "QUARANTINED" THEN state
  ELSE IF Severe(outcomes)
    THEN IF state \in {"DEGRADED", "FAILED"} THEN "FAILED" ELSE "DEGRADED"
  ELSE IF Degraded(outcomes) \/ state # "HEALTHY" THEN "DEGRADED"
  ELSE "HEALTHY"

NextState(outcomes) ==
  IF state = "QUARANTINED" THEN state
  ELSE IF Severe(outcomes)
    THEN IF state \in {"DEGRADED", "FAILED"} THEN "FAILED" ELSE "DEGRADED"
  ELSE IF Degraded(outcomes) THEN "DEGRADED"
  ELSE "HEALTHY"

Evaluate(outcomes) ==
  /\ state' = NextState(outcomes)
  /\ requests' = outcomes
  /\ sinceCheck' = 0
  /\ unchecked' = 0
  /\ UNCHANGED <<age, restOk>>

\* check(): within the interval nothing is evaluated unless it is forced, as it is
\* by refresh_quotes, its one caller.
Check ==
  /\ ~Forced /\ sinceCheck # None => sinceCheck >= CheckInterval
  /\ Evaluate(Trim(requests))

-----------------------------------------------------------------------------
(* Operator and router.                                                    *)

Quarantine ==
  /\ state = "FAILED"
  /\ state' = "QUARANTINED"
  /\ UNCHANGED <<age, restOk, requests, sinceCheck, unchecked>>

ManualRearm ==
  /\ state = "QUARANTINED"
  /\ state' = "DEGRADED"
  /\ sinceCheck' = None
  /\ UNCHANGED <<age, restOk, requests, unchecked>>

ForceFailed ==
  /\ state' = "FAILED"
  /\ UNCHANGED <<age, restOk, requests, sinceCheck, unchecked>>

\* A tick.  The cadence: somebody calls check() at least once per interval, so
\* time does not go on while one is due.
Tick ==
  /\ unchecked < CheckInterval
  /\ age' = [source \in Sources |->
               IF age[source] = None THEN None ELSE Older(age[source], MaxAge(source))]
  /\ requests' = [i \in 1..Len(requests) |->
                    [requests[i] EXCEPT !.age = Older(@, ErrorWindow + 1)]]
  /\ sinceCheck' = IF sinceCheck = None THEN None ELSE Older(sinceCheck, CheckInterval)
  /\ unchecked' = unchecked + 1
  /\ UNCHANGED <<state, restOk>>

Observe ==
  \/ \E ok \in BOOLEAN : RecordRequest(ok) \/ RecordRest(ok)
  \/ \E source \in Sources : \E old \in 0..MaxAge(source) : Record(source, old)

Next ==
  \/ Observe
  \/ Check
  \/ Quarantine
  \/ ManualRearm
  \/ ForceFailed
  \/ Tick

Spec == Init /\ [][Next]_vars

\* Time passes and check() keeps being called (the 30 second loop of the engine).
Fairness == WF_vars(Tick) /\ WF_vars(Check)

FairSpec == Spec /\ Fairness

-----------------------------------------------------------------------------
(* Properties.                                                             *)

\* Every variable has its shape.
TypeOK ==
  /\ state \in HealthState
  /\ age \in [Sources -> Nat \cup {None}]
  /\ \A source \in Sources : age[source] \in 0..MaxAge(source) \cup {None}
  /\ restOk \in BOOLEAN
  /\ requests \in Seq([age: 0..(ErrorWindow + 1), ok: BOOLEAN])
  /\ Len(requests) <= MaxRequests
  /\ sinceCheck \in 0..CheckInterval \cup {None}
  /\ unchecked \in 0..CheckInterval

Stale(source) == age[source] = None \/ age[source] >= StaleAfter[source]

\* A venue whose signal stays stale, or never came, does not stay HEALTHY and
\* so routable: the cadence notices (check, _classify_age).
StaleNoticed ==
  \A source \in Sources :
    (Stale(source) /\ state = "HEALTHY") ~> (~Stale(source) \/ state # "HEALTHY")

Fresh == /\ \A source \in Sources : ~Stale(source)
         /\ restOk
         /\ \A i \in 1..Len(requests) : requests[i].ok

\* A venue whose signals stay fresh becomes HEALTHY again from wherever it was,
\* unless somebody quarantined it (check's last branch).
Recovers == <>[]Fresh => []<>(state \in {"HEALTHY", "QUARANTINED"})

\* Nothing makes a venue HEALTHY but a check that finds every signal fresh, not
\* even an operator who rearms it (manual_rearm goes to DEGRADED).
EvidenceBeforeHealthy ==
  [][state # "HEALTHY" /\ state' = "HEALTHY" =>
       restOk /\ \A source \in Sources : ~Stale(source)]_vars
=============================================================================
