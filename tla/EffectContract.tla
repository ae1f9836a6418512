--------------------------- MODULE EffectContract ---------------------------
(***************************************************************************)
(* What the durable workflow promises for each declared workflow step,     *)
(* with no dispatchers, no crashes and no outbox rows: a step is requested *)
(* once; its authority is consumed before anything external happens; the   *)
(* external effect happens at most once, whatever is retried; and the step *)
(* gets one outcome that never changes, which is the provider's own        *)
(* receipt or a denial.                                                    *)
(*                                                                         *)
(* A denial does not exclude that the effect happened: see the run         *)
(* outbox_denial for what the documentation says about that.               *)
(***************************************************************************)
CONSTANTS
  Steps,         \* the declared workflow steps
  Performances   \* the occasions on which a provider acts

Receipts == {"succeeded", "failed"}

VARIABLES
  requested,   \* the steps whose effect has been asked for
  authorized,  \* the steps whose grant has been consumed
  performed,   \* for each step, the times the provider acted on it
  outcome      \* for each step, its one recorded outcome

vars == <<requested, authorized, performed, outcome>>

Init ==
  /\ requested = {}
  /\ authorized = {}
  /\ performed = [s \in Steps |-> {}]
  /\ outcome = [s \in Steps |-> "none"]

Request(s) ==
  /\ s \notin requested
  /\ requested' = requested \cup {s}
  /\ UNCHANGED <<authorized, performed, outcome>>

Authorize(s) ==
  /\ s \in requested \ authorized
  /\ authorized' = authorized \cup {s}
  /\ UNCHANGED <<requested, performed, outcome>>

Perform(s, p) ==
  /\ s \in authorized
  /\ performed[s] = {}
  /\ performed' = [performed EXCEPT ![s] = {p}]
  /\ UNCHANGED <<requested, authorized, outcome>>

Settle(s, receipt) ==
  /\ performed[s] # {}
  /\ outcome[s] = "none"
  /\ outcome' = [outcome EXCEPT ![s] = receipt]
  /\ UNCHANGED <<requested, authorized, performed>>

Deny(s) ==
  /\ s \in requested
  /\ outcome[s] = "none"
  /\ outcome' = [outcome EXCEPT ![s] = "denied"]
  /\ UNCHANGED <<requested, authorized, performed>>

Next ==
  \E s \in Steps :
    \/ Request(s)
    \/ Authorize(s)
    \/ \E p \in Performances : Perform(s, p)
    \/ \E receipt \in Receipts : Settle(s, receipt)
    \/ Deny(s)

Spec == Init /\ [][Next]_vars

=============================================================================
