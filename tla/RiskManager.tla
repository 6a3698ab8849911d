---------------------------- MODULE RiskManager ----------------------------
(***************************************************************************)
(* core/risk.py, RiskManager: its approvals, the high-water-mark kill      *)
(* switch that rewrites the configuration, and the process around it that  *)
(* dies and is started again by people who may edit that configuration.    *)
(*                                                                         *)
(* approve() holds a lock, so calls of several threads do not interleave.  *)
(* The one thing that can come between its steps is the death of the       *)
(* process, so an action ends where the file is replaced, where the latch  *)
(* is set and where the veto is journaled.                                 *)
(***************************************************************************)
EXTENDS RiskPolicy

CONSTANTS
  Ids,        \* client order ids
  Orders,     \* the orders approve() may be asked about
  Snapshots,  \* the portfolio snapshots they come with
  Live,       \* whether the execution mode is LIVE
  MaxEdits,   \* bound: operator edits of the configuration file
  None        \* no request

ASSUME RequestsAssumption ==
  /\ Orders \subseteq RiskOrder(Ids)
  /\ Snapshots \subseteq PortfolioSnapshot
  /\ Live \in BOOLEAN
  /\ MaxEdits \in Nat

Request == [order: Orders, snap: Snapshots]

ASSUME NoneAssumption == None \notin Request

VARIABLES
  document,    \* the configuration file: live_enabled true, false, or no JSON object
  liveEnabled, \* LiveGateConfig.live_enabled as the process read it
  armed,       \* arm file and environment satisfy is_live_permitted
  killed,      \* RiskManager._live_killed
  known,       \* RiskManager._approved_client_ids
  step,        \* where the current call stands
  request,     \* the order and snapshot of the current call
  reason,      \* its outcome, once known
  tripped,     \* history: the switch rewrote the file, see Restart
  overruled,   \* history: a person wrote live_enabled true after that
  edits        \* number of operator edits so far

vars == <<document, liveEnabled, armed, killed, known, step, request, reason,
          tripped, overruled, edits>>

Reasons ==
  {"approved", "none"} \cup {RuleOrder[i] : i \in 1..Len(RuleOrder)}

\* is_live_permitted: every gate present, as far as this process can tell.
LivePermitted == liveEnabled /\ armed

\* Mutant: the latch of the kill switch is not consulted.
MutGateShut(order) == Live /\ ~LivePermitted

\* Mutant: after the switch nothing passes the gate.
MutGateShutForAll(order) == Live /\ (killed \/ ~LivePermitted)

\* The first rule.  After the switch it lets exits through without looking at
\* the gates again.
GateShut(order) ==
  /\ Live
  /\ \/ killed /\ ~order.exit
     \/ ~killed /\ ~LivePermitted

Init ==
  /\ document \in {"enabled", "disabled"}
  /\ liveEnabled = (document = "enabled")
  /\ armed \in BOOLEAN
  /\ killed = FALSE
  /\ known = {}
  /\ step = "ready"
  /\ request = None
  /\ reason = "none"
  /\ tripped = FALSE
  /\ overruled = FALSE
  /\ edits = 0

\* How a call ends: an approval returns at once, a veto is journaled first.
Settle(order, snap, verdict) ==
  /\ reason' = verdict
  /\ request' = [order |-> order, snap |-> snap]
  /\ IF verdict = "approved"
       THEN known' = known \cup {order.id} /\ step' = "ready"
       ELSE step' = "vetoing" /\ UNCHANGED known

\* approve() when the kill switch is not reached, not tripped, or was before.
Approve(order, snap) ==
  /\ step = "ready"
  /\ killed \/ ~TripsSwitch(order, snap, GateShut(order), known)
  /\ Settle(order, snap, Verdict(order, snap, GateShut(order), known))
  /\ UNCHANGED <<document, liveEnabled, armed, killed, tripped, overruled, edits>>

\* approve() finds the drawdown for the first time: _disable_live begins.
ApproveTrips(order, snap) ==
  /\ step = "ready"
  /\ ~killed
  /\ TripsSwitch(order, snap, GateShut(order), known)
  /\ request' = [order |-> order, snap |-> snap]
  /\ reason' = "none"
  /\ step' = "disabling"
  /\ UNCHANGED <<document, liveEnabled, armed, killed, known, tripped, overruled, edits>>

\* _disable_live replaces the file.
RewriteDocument ==
  /\ step = "disabling"
  /\ document # "broken"
  /\ document' = "disabled"
  /\ tripped' = TRUE
  /\ overruled' = FALSE
  /\ step' = "latching"
  /\ UNCHANGED <<liveEnabled, armed, killed, known, request, reason, edits>>

\* _disable_live raises on a file that is no JSON object; approve() with it.
RewriteFails ==
  /\ step = "disabling"
  /\ document = "broken"
  /\ request' = None
  /\ step' = "ready"
  /\ UNCHANGED <<document, liveEnabled, armed, killed, known, reason, tripped, overruled, edits>>

\* _disable_live sets its latch and approve() goes on with the later rules;
\* the gate was passed before and is not looked at again.
Latch ==
  /\ step = "latching"
  /\ killed' = TRUE
  /\ Settle(request.order, request.snap,
            Verdict(request.order, request.snap, FALSE, known))
  /\ UNCHANGED <<document, liveEnabled, armed, tripped, overruled, edits>>

\* _veto appends to the journal and the call returns.
JournalVeto ==
  /\ step = "vetoing"
  /\ request' = None
  /\ step' = "ready"
  /\ UNCHANGED <<document, liveEnabled, armed, killed, known, reason, tripped, overruled, edits>>

\* People: the configuration file and the arm file.
EditDocument(content) ==
  /\ edits < MaxEdits
  /\ content # document
  /\ document' = content
  /\ overruled' = (content = "enabled")
  /\ edits' = edits + 1
  /\ UNCHANGED <<liveEnabled, armed, killed, known, step, request, reason, tripped>>

TouchArmFile ==
  /\ armed' = ~armed
  /\ UNCHANGED <<document, liveEnabled, killed, known, step, request, reason,
                 tripped, overruled, edits>>

Crash ==
  /\ step # "down"
  /\ step' = "down"
  /\ request' = None
  /\ reason' = "none"
  /\ killed' = FALSE
  /\ known' = {}
  /\ UNCHANGED <<document, liveEnabled, armed, tripped, overruled, edits>>

\* build_engine reads the file.  A trip is over when a person has written
\* live_enabled true after it and the process is started with that.
Restart ==
  /\ step = "down"
  /\ document # "broken"
  /\ liveEnabled' = (document = "enabled")
  /\ tripped' = (tripped /\ ~overruled)
  /\ step' = "ready"
  /\ UNCHANGED <<document, armed, killed, known, request, reason, overruled, edits>>

Next ==
  \/ \E order \in Orders, snap \in Snapshots : Approve(order, snap)
  \/ \E order \in Orders, snap \in Snapshots : ApproveTrips(order, snap)
  \/ RewriteDocument
  \/ RewriteFails
  \/ Latch
  \/ JournalVeto
  \/ \E content \in {"enabled", "disabled", "broken"} : EditDocument(content)
  \/ TouchArmFile
  \/ Crash
  \/ Restart

Spec == Init /\ [][Next]_vars

-----------------------------------------------------------------------------
(* Properties.                                                             *)

\* Every variable has its shape.
TypeOK ==
  /\ document \in {"enabled", "disabled", "broken"}
  /\ liveEnabled \in BOOLEAN /\ armed \in BOOLEAN /\ killed \in BOOLEAN
  /\ known \subseteq Ids
  /\ step \in {"ready", "disabling", "latching", "vetoing", "down"}
  /\ request \in Request \cup {None}
  /\ reason \in Reasons
  /\ tripped \in BOOLEAN /\ overruled \in BOOLEAN
  /\ edits \in 0..MaxEdits

\* Once the drawdown has rewritten the configuration, LIVE approves nothing
\* but orders that shrink a position, through crashes at any point of the
\* rewrite, restarts and edits, until a person has enabled LIVE again and the
\* process was started after that (_disable_live and the first rule).
KillHolds ==
  Live /\ tripped /\ reason = "approved" => Shrinks(request.order, request.snap)

\* An approval satisfies everything the README's table lists, and a veto that
\* names neither the gate nor a repeated id comes with an order that does not:
\* the order of the rules, the bypasses for orders that reduce risk and the
\* boundary cases add up to the table (_approve_locked).
VerdictIsTheTable ==
  /\ reason = "approved" => Admissible(request.order, request.snap)
  /\ step = "vetoing" /\ reason \notin {"execution_mode_gate", "duplicate_order"} =>
       ~Admissible(request.order, request.snap)

\* The flatten window of README's table: in the process that tripped the
\* switch an exit is not refused for the LIVE gates, whatever people did to the
\* files since.
FlattenWindow ==
  step = "vetoing" /\ killed /\ request.order.exit
    /\ Admissible(request.order, request.snap) => reason = "duplicate_order"

\* Why KillHolds holds: a trip is remembered by the file, unless a person
\* overruled it, and by the latch or else by the live_enabled the process was
\* started with.
TripRemembered ==
  /\ tripped /\ ~overruled => document # "enabled"
  /\ tripped /\ step # "down" => killed \/ step = "latching" \/ ~liveEnabled
  /\ step \in {"disabling", "latching"} =>
       request # None /\ reason = "none" /\ Drawdown(request.snap)
  /\ step = "latching" => tripped
  /\ reason = "approved" => request # None /\ step = "ready"

\* The inductive invariant.
KillInv == TypeOK /\ TripRemembered /\ KillHolds
=============================================================================
