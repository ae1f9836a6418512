----------------------------- MODULE Lifecycle -----------------------------
(***************************************************************************)
(* The closed state machines of companyos_runtime/state_machine.py.        *)
(*                                                                         *)
(* A Run moves through the loop table: a rule names the state it leaves,   *)
(* the event that takes it, the guards the runtime must establish from     *)
(* persisted facts, and its target.  A Task moves only along the edges of  *)
(* the task table.  Everything else in the runtime that changes either     *)
(* state goes through one of these two tables.                             *)
(***************************************************************************)

TaskState ==
  {"ready", "leased", "running", "suspended", "evidence_pending",
   "evaluator_pending", "integration_pending", "retry_pending", "blocked",
   "delivered", "failed", "canceled", "deleted", "retired"}

TASK_TRANSITIONS ==
  [ready               |-> {"leased", "canceled", "blocked", "deleted"},
   leased              |-> {"running", "ready", "retry_pending", "blocked"},
   running             |-> {"suspended", "evidence_pending", "retry_pending",
                            "failed", "blocked"},
   suspended           |-> {"leased", "canceled", "blocked"},
   evidence_pending    |-> {"evaluator_pending", "integration_pending",
                            "running", "blocked"},
   evaluator_pending   |-> {"integration_pending", "running", "blocked"},
   integration_pending |-> {"delivered", "running", "blocked"},
   retry_pending       |-> {"ready", "failed", "blocked"},
   blocked             |-> {"ready", "canceled", "deleted", "retired"},
   delivered           |-> {"retired"},
   failed              |-> {"retry_pending", "retired"},
   canceled            |-> {"retired"},
   deleted             |-> {},
   retired             |-> {}]

(* require_transition: a move that is not an edge of the table is refused. *)
TaskMayMove(from, to) == to \in TASK_TRANSITIONS[from]

-----------------------------------------------------------------------------

LoopState ==
  {"intake", "compiled", "ready", "running", "suspended",
   "evidence_pending", "integration_pending", "ci_pending",
   "deploy_dir_updated", "runtime_stale", "runtime_check_pending",
   "runtime_fresh", "delivered", "improvement_pending",
   "blocked_missing_state", "blocked_capability", "blocked_decision"}

DeliveryGuards ==
  {"evidence_satisfied", "evaluator_satisfied", "integration_satisfied",
   "freshness_satisfied", "tasks_terminal"}

Rule(from, event, guards, to) ==
  [from |-> from, event |-> event, guards |-> guards, to |-> to]

LOOP_TRANSITIONS ==
  {Rule("intake", "goal_compiled", {"contract_valid"}, "compiled"),
   Rule("intake", "missing_state_detected", {}, "blocked_missing_state"),
   Rule("compiled", "run_ready", {"readiness_gate_passed"}, "ready"),
   Rule("compiled", "capability_gap_detected", {}, "blocked_capability"),
   Rule("ready", "task_started", {"lease_valid"}, "running"),
   Rule("ready", "capability_gap_detected", {}, "blocked_capability"),
   Rule("running", "human_approval_requested", {}, "suspended"),
   Rule("running", "evidence_submitted", {}, "evidence_pending"),
   Rule("running", "circuit_breaker_triggered", {}, "blocked_decision"),
   Rule("running", "capability_gap_detected", {}, "blocked_capability"),
   Rule("suspended", "human_approval_received",
        {"approval_valid"}, "running"),
   Rule("suspended", "resume_requested",
        {"resume_authorized"}, "running"),
   Rule("evidence_pending", "evaluator_verdict_received",
        {"evidence_satisfied", "evaluator_satisfied"}, "integration_pending"),
   Rule("evidence_pending", "task_started",
        {"repair_route_selected"}, "running"),
   Rule("integration_pending", "ci_check_started", {}, "ci_pending"),
   Rule("integration_pending", "deploy_directory_updated", {},
        "deploy_dir_updated"),
   Rule("integration_pending", "delivery_confirmed", DeliveryGuards,
        "delivered"),
   Rule("ci_pending", "ci_check_completed", {"ci_green"},
        "integration_pending"),
   Rule("ci_pending", "circuit_breaker_triggered", {}, "blocked_decision"),
   Rule("deploy_dir_updated", "service_restart_attempted", {},
        "runtime_check_pending"),
   Rule("deploy_dir_updated", "runtime_drift_detected", {}, "runtime_stale"),
   Rule("runtime_stale", "service_restart_attempted", {},
        "runtime_check_pending"),
   Rule("runtime_check_pending", "runtime_freshness_verified",
        {"freshness_satisfied"}, "runtime_fresh"),
   Rule("runtime_check_pending", "runtime_drift_detected", {},
        "runtime_stale"),
   Rule("runtime_fresh", "delivery_confirmed", DeliveryGuards, "delivered"),
   Rule("delivered", "improvement_requested", {}, "improvement_pending"),
   Rule("blocked_missing_state", "owner_intent_received", {}, "intake"),
   Rule("blocked_capability", "resume_requested",
        {"capability_available"}, "ready"),
   Rule("blocked_decision", "resume_requested",
        {"owner_decision_recorded"}, "ready"),
   Rule("improvement_pending", "delivery_confirmed",
        {"improvement_routed"}, "delivered")}

=============================================================================
