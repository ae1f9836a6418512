------------------------------- MODULE Grants -------------------------------
(***************************************************************************)
(* Approval-backed capability grants (policy.py, PolicyEngine), on top of  *)
(* the identity boundary: an owner decides on a worker's exact request,    *)
(* issues a grant within the approval, the goal budget and the task        *)
(* budget, may revoke it, and the worker spends it.                        *)
(*                                                                         *)
(* Every command is one immediate transaction that verifies the sessions,  *)
(* the roles, the lifecycle and the budgets it needs in itself; it is one  *)
(* action, and a command that raises is disabled.  A request is the exact  *)
(* (capability, action, resource, digest) of one task, within the task's   *)
(* scopes; the grants modelled carry no required_fence.  Expiry times are  *)
(* kept as what is left of them.                                           *)
(***************************************************************************)
EXTENDS Identity, Lifecycle

CONSTANTS
  Tasks,
  Requests,       \* exact requests
  TaskOf,         \* the task of a request
  CapabilityOf,   \* its capability
  TargetOf,       \* its (capability, action, resource), digest left out
  Bound,          \* the tasks with a compiled authority binding
  Contracts,      \* the requests that are a decision gate of their task
  GoalBudget,     \* provider_budget_minor_units of the goal
  GoalCalls,      \* provider_call_limit of the goal
  TaskBudget,     \* the same, of the bound tasks
  TaskCalls,
  Approvals,      \* bound: approvals recorded
  GrantIds,       \* bound: grants issued
  Keys,           \* idempotency keys of consume; "effect" is an outbox effect
  Makers,         \* bound: the principals that request
  Decisions,      \* bound: the <<request, decision>> of approvals
  ApprovalTTLs,   \* bound: TTLs of approvals, in ticks
  GrantTTLs,      \* bound: TTLs of grants
  Limits,         \* bound: the <<max_uses, cost_limit>> of grants
  Costs,          \* bound: the costs of one use
  NoOne,
  Start,          \* bound: the state of each task at the start
  Moves           \* bound: the moves scheduler and kernel make, per task

Capability ==
  {"read_local", "write_local", "network", "external_download",
   "repo_remote", "server_read", "server_write", "provider_cost",
   "public_release", "destructive", "durable_memory_promotion",
   "active_rule_promotion", "control_resume"}

ASSUME GrantsAssumption ==
  /\ TaskOf \in [Requests -> Tasks]
  /\ CapabilityOf \in [Requests -> Capability]
  /\ Bound \subseteq Tasks
  /\ \A c \in Contracts : c \in Requests /\ TaskOf[c] \in Bound
  /\ GoalBudget \in Nat /\ GoalCalls \in Nat
  /\ TaskBudget \in [Bound -> 0..GoalBudget]
  /\ TaskCalls \in [Bound -> 0..GoalCalls]
  /\ Makers \subseteq Principals
  /\ Decisions \subseteq Requests \X {"approved", "denied"}
  /\ ApprovalTTLs \subseteq Nat \ {0}
  /\ GrantTTLs \subseteq Nat \ {0}
  /\ Limits \subseteq (Nat \ {0}) \X Nat
  /\ Costs \subseteq Nat
  /\ NoOne \notin Principals
  /\ Start \in [Tasks -> TaskState]
  /\ Moves \in [Tasks -> SUBSET (TaskState \X TaskState)]
  /\ \A t \in Tasks : \A m \in Moves[t] : TaskMayMove(m[1], m[2])

VARIABLES
  run_state,  \* loop_state of the run
  tasks,      \* state of each task
  claim,      \* the holder of the live lease on task://t
  approvals,  \* approvals table
  grants,     \* capability_grants table
  usage       \* capability_usage: key and cost, per grant

supervision == <<run_state, tasks, claim>>
authority == <<approvals, grants, usage>>
vars == <<identity, supervision, authority>>

NoApproval == [request |-> "none"]
NoGrant == [approval |-> "none"]

Recorded(a) == approvals[a] # NoApproval
Granted(g) == grants[g] # NoGrant

(* The exact request of a grant: issue_grant copies the approval's. *)
RequestOf(g) == approvals[grants[g].approval].request

ApprovalRow ==
  [request : Requests, requester : Principals, approver : Principals,
   decision : {"approved", "denied"}, left : Nat]

GrantRow ==
  [approval : Approvals, principal : Principals, left : Nat,
   max_uses : Nat, used_count : Nat, cost_limit : Nat, cost_used : Nat,
   revoked : BOOLEAN]

(***************************************************************************)
(* Type correctness, and the counters of a grant within its limits, its    *)
(* used_count equal to the number of its usage rows.                       *)
(***************************************************************************)
TypeOK ==
  /\ IdentityTypeOK
  /\ run_state \in LoopState
  /\ tasks \in [Tasks -> TaskState]
  /\ claim \in [Tasks -> Principals \cup {NoOne}]
  /\ \A a \in Approvals : Recorded(a) => approvals[a] \in ApprovalRow
  /\ \A g \in GrantIds : Granted(g) =>
       /\ grants[g] \in GrantRow
       /\ grants[g].used_count = Cardinality(usage[g])
       /\ grants[g].used_count <= grants[g].max_uses
       /\ grants[g].cost_used <= grants[g].cost_limit
  /\ \A g \in GrantIds : ~ Granted(g) => usage[g] = {}

Init ==
  /\ IdentityInit
  /\ run_state = "running"
  /\ tasks = Start
  /\ claim = [t \in Tasks |-> NoOne]
  /\ approvals = [a \in Approvals |-> NoApproval]
  /\ grants = [g \in GrantIds |-> NoGrant]
  /\ usage = [g \in GrantIds |-> {}]

-----------------------------------------------------------------------------
(* The closed tables of policy.py. *)

IntegrationCapabilities ==
  {"repo_remote", "server_read", "server_write", "public_release",
   "destructive"}

PromotionCapabilities == {"durable_memory_promotion", "active_rule_promotion"}

ExecutableRunStates == {"ready", "running"}
ExecutableTaskStates == {"ready", "leased", "running"}

IntegrationRunStates ==
  {"ready", "running", "evidence_pending", "integration_pending",
   "ci_pending", "deploy_dir_updated", "runtime_stale",
   "runtime_check_pending", "runtime_fresh"}

IntegrationTaskStates ==
  {"ready", "leased", "running", "evidence_pending", "evaluator_pending",
   "integration_pending"}

ExecutionRoles(capability) ==
  CASE capability \in {"repo_remote", "server_write"} ->
         {"worker", "release", "system"}
    [] capability = "public_release" -> {"release", "system"}
    [] capability = "destructive" -> {"worker", "owner", "system"}
    [] capability \in PromotionCapabilities \cup {"control_resume"} ->
         {"owner", "system"}
    [] OTHER -> {"worker", "system"}

HasExecutionRole(p, capability) ==
  principals[p].roles \cap ExecutionRoles(capability) # {}

(* _assert_task_lifecycle; phase is "approval", "grant" or "consume". *)
LifecycleAllows(t, capability, phase) ==
  CASE capability \in PromotionCapabilities ->
         /\ phase = "approval"
         /\ tasks[t] \notin {"canceled", "deleted", "retired"}
    [] capability = "control_resume" ->
         /\ run_state \in {"suspended", "blocked_capability",
                           "blocked_decision", "blocked_missing_state"}
         /\ tasks[t] \notin {"delivered", "canceled", "deleted", "retired"}
    [] capability \in IntegrationCapabilities ->
         IF phase = "consume"
           THEN /\ run_state \in IntegrationRunStates \ {"ready"}
                /\ tasks[t] \in IntegrationTaskStates \ {"ready", "leased"}
           ELSE /\ run_state \in IntegrationRunStates
                /\ tasks[t] \in IntegrationTaskStates
    [] OTHER ->
         IF phase = "consume"
           THEN run_state = "running" /\ tasks[t] = "running"
           ELSE /\ run_state \in ExecutableRunStates
                /\ tasks[t] \in ExecutableTaskStates

-----------------------------------------------------------------------------
(* Decision gates and budgets. *)

(* _decision_gates_for_request: the gates on the target of q. *)
GatesFor(q) ==
  {c \in Contracts : TaskOf[c] = TaskOf[q] /\ TargetOf[c] = TargetOf[q]}

LiveApproval(a) ==
  /\ Recorded(a)
  /\ approvals[a].decision = "approved"
  /\ approvals[a].left > 0

(* _required_decision_gates_satisfied, with q as the exact request. *)
GatesSatisfied(q) ==
  \A c \in GatesFor(q) :
    c = q /\ \E a \in Approvals : LiveApproval(a) /\ approvals[a].request = c

(* Unrevoked and unexpired, the grants that reserve and may be spent. *)
LiveGrant(g) ==
  Granted(g) /\ ~ grants[g].revoked /\ grants[g].left > 0

ProviderGrants ==
  {g \in GrantIds : Granted(g) /\ CapabilityOf[RequestOf(g)] = "provider_cost"}

LiveProviderGrants == {g \in ProviderGrants : LiveGrant(g)}

GrantsOf(t) == {g \in ProviderGrants : TaskOf[RequestOf(g)] = t}

(***************************************************************************)
(* Amounts are counts, of minor units or of calls: the SUM of a column is  *)
(* the number of units, each named by the row it belongs to.               *)
(***************************************************************************)
CostUnits(S) == UNION {{g} \X (1..grants[g].cost_limit) : g \in S}
CallUnits(S) == UNION {{g} \X (1..grants[g].max_uses) : g \in S}

ReservedCost(S) == Cardinality(CostUnits(S))
ReservedCalls(S) == Cardinality(CallUnits(S))

(* The usage rows of a set of grants, their COUNT and their SUM(u.cost). *)
UsesOf(S) == UNION {{g} \X usage[g] : g \in S}
SpentUnits(S) == UNION {{use} \X (1..use[2].cost) : use \in UsesOf(S)}

SpentCost(S) == Cardinality(SpentUnits(S))
SpentCalls(S) == Cardinality(UsesOf(S))

(* Reserves against the budget of the task alone. *)
ReservationIgnoresGoal(t, max_uses, cost_limit) ==
  t \in Bound =>
    LET live == LiveProviderGrants \cap GrantsOf(t) IN
    /\ ReservedCost(live) + cost_limit <= TaskBudget[t]
    /\ ReservedCalls(live) + max_uses <= TaskCalls[t]

(* issue_grant: the reservation of a provider_cost grant. *)
ReservationFits(t, max_uses, cost_limit) ==
  /\ ReservedCost(LiveProviderGrants) + cost_limit <= GoalBudget
  /\ ReservedCalls(LiveProviderGrants) + max_uses <= GoalCalls
  /\ t \in Bound =>
       LET live == LiveProviderGrants \cap GrantsOf(t) IN
       /\ ReservedCost(live) + cost_limit <= TaskBudget[t]
       /\ ReservedCalls(live) + max_uses <= TaskCalls[t]

(* Counts what the live grants of the task have spent, and forgets the     *)
(* others.                                                                 *)
SpendFitsLive(t, cost) ==
  t \in Bound =>
    LET counted == GrantsOf(t) \cap LiveProviderGrants IN
    /\ SpentCost(counted) + cost <= TaskBudget[t]
    /\ SpentCalls(counted) + 1 <= TaskCalls[t]

(* _consume_as_principal: a bound task's whole spending so far counts. *)
SpendFits(t, cost) ==
  t \in Bound =>
    /\ SpentCost(GrantsOf(t)) + cost <= TaskBudget[t]
    /\ SpentCalls(GrantsOf(t)) + 1 <= TaskCalls[t]

-----------------------------------------------------------------------------

RecordApproval(a, q, requester, approver, decision, ttl) ==
  /\ ~ Recorded(a)
  /\ Presents(requester)
  /\ OwnerPresents(approver)
  /\ requester # approver
  /\ LifecycleAllows(TaskOf[q], CapabilityOf[q], "approval")
  /\ approvals' = [approvals EXCEPT ![a] =
                    [request |-> q, requester |-> requester,
                     approver |-> approver, decision |-> decision,
                     left |-> ttl]]
  /\ UNCHANGED <<identity, supervision, grants, usage>>

(* Any grant TTL is accepted. *)
OutlivesApproval(ttl, a) == TRUE

(* julianday(expires_at) <= julianday(approval.expires_at) *)
WithinApproval(ttl, a) == ttl <= approvals[a].left

(* The row INSERTed, and the capability_grant_issued event's payload. *)
NewGrant(a, principal, max_uses, cost_limit, ttl) ==
  [approval |-> a, principal |-> principal, left |-> ttl,
   max_uses |-> max_uses, used_count |-> 0,
   cost_limit |-> cost_limit, cost_used |-> 0, revoked |-> FALSE]

IssueGrant(g, a, issuer, principal, max_uses, cost_limit, ttl) ==
  LET q == approvals[a].request
      t == TaskOf[q]
  IN
  /\ ~ Granted(g)
  /\ LiveApproval(a)
  /\ OwnerPresents(issuer) /\ approvals[a].approver = issuer
  /\ Presents(principal) /\ approvals[a].requester = principal
  /\ HasExecutionRole(principal, CapabilityOf[q])
  /\ GatesSatisfied(q)
  /\ LifecycleAllows(t, CapabilityOf[q], "grant")
  /\ IF CapabilityOf[q] = "provider_cost"
       THEN ReservationFits(t, max_uses, cost_limit)
       ELSE cost_limit = 0
  /\ WithinApproval(ttl, a)
  /\ grants' = [grants EXCEPT ![g] =
                 NewGrant(a, principal, max_uses, cost_limit, ttl)]
  /\ UNCHANGED <<identity, supervision, approvals, usage>>

(* Any present owner; revoking again changes nothing. *)
RevokeGrant(g) ==
  /\ SomeOwnerPresents
  /\ Granted(g)
  /\ grants' = [grants EXCEPT ![g].revoked = TRUE]
  /\ UNCHANGED <<identity, supervision, approvals, usage>>

(* What consume and _consume_effect require of a grant and its spender. *)
MaySpend(g) ==
  LET q == RequestOf(g)
      p == grants[g].principal
  IN
  /\ LiveGrant(g)
  /\ HasExecutionRole(p, CapabilityOf[q])
  /\ LifecycleAllows(TaskOf[q], CapabilityOf[q], "consume")
  /\ GatesSatisfied(q)
  /\ "worker" \in principals[p].roles => claim[TaskOf[q]] = p

(* Charges the cost and forgets the use. *)
UncountedCharge(g, cost) ==
  [grants EXCEPT ![g].cost_used = @ + cost]

(* The guarded UPDATE of capability_grants. *)
Charged(g, cost) ==
  [grants EXCEPT ![g].used_count = @ + 1, ![g].cost_used = @ + cost]

(***************************************************************************)
(* _consume_as_principal for a key the grant has not seen.  A key that it  *)
(* has seen with the same cost is a replay, which changes nothing; with    *)
(* another cost it is refused.                                             *)
(***************************************************************************)
Spend(g, key, cost) ==
  LET q == RequestOf(g) IN
  /\ MaySpend(g)
  /\ \A u \in usage[g] : u.key # key
  /\ grants[g].used_count < grants[g].max_uses
  /\ grants[g].cost_used + cost <= grants[g].cost_limit
  /\ CapabilityOf[q] = "provider_cost" => SpendFits(TaskOf[q], cost)
  /\ usage' = [usage EXCEPT ![g] = @ \cup {[key |-> key, cost |-> cost]}]
  /\ grants' = Charged(g, cost)
  /\ UNCHANGED <<identity, supervision, approvals>>

(* consume: the spender presents a session. *)
Consume(g, key, cost) ==
  /\ Granted(g) /\ Presents(grants[g].principal)
  /\ Spend(g, key, cost)

(* _consume_effect: the persisted principal only has to be enabled, so a  *)
(* queued effect outlives the session that queued it; it costs nothing.   *)
ConsumeEffect(g) ==
  /\ Granted(g) /\ principals[grants[g].principal].enabled
  /\ Spend(g, "effect", 0)

-----------------------------------------------------------------------------
(* The rest of the runtime: scheduler, kernel, and the clock. *)

MoveTask(t, to) ==
  /\ <<tasks[t], to>> \in Moves[t]
  /\ tasks' = [tasks EXCEPT ![t] = to]
  /\ UNCHANGED <<identity, run_state, claim, authority>>

ClaimChanges(t, holder) ==
  /\ claim[t] # holder
  /\ holder # NoOne =>
       principals[holder].enabled /\ "worker" \in principals[holder].roles
  /\ claim' = [claim EXCEPT ![t] = holder]
  /\ UNCHANGED <<identity, run_state, tasks, authority>>

Older(n) == IF n > 0 THEN n - 1 ELSE 0

Tick ==
  /\ \/ \E a \in Approvals : Recorded(a) /\ approvals[a].left > 0
     \/ \E g \in GrantIds : Granted(g) /\ grants[g].left > 0
  /\ approvals' = [a \in Approvals |->
                    IF Recorded(a) THEN [approvals[a] EXCEPT !.left = Older(@)]
                                   ELSE approvals[a]]
  /\ grants' = [g \in GrantIds |->
                 IF Granted(g) THEN [grants[g] EXCEPT !.left = Older(@)]
                               ELSE grants[g]]
  /\ UNCHANGED <<identity, supervision, usage>>

Next ==
  \/ IdentityNext /\ UNCHANGED <<supervision, authority>>
  \/ \E a \in Approvals, r \in Makers, o \in Principals :
       \E d \in Decisions, ttl \in ApprovalTTLs :
         RecordApproval(a, d[1], r, o, d[2], ttl)
  \/ \E g \in GrantIds, a \in Approvals, i \in Principals, p \in Principals :
       \E limit \in Limits, ttl \in GrantTTLs :
         Recorded(a) /\ IssueGrant(g, a, i, p, limit[1], limit[2], ttl)
  \/ \E g \in GrantIds :
       \/ RevokeGrant(g)
       \/ \E key \in Keys, cost \in Costs : Consume(g, key, cost)
       \/ ConsumeEffect(g)
  \/ \E t \in Tasks :
       \/ \E to \in TaskState : MoveTask(t, to)
       \/ \E holder \in Principals \cup {NoOne} : ClaimChanges(t, holder)
  \/ Tick

Spec == Init /\ [][Next]_vars

-----------------------------------------------------------------------------

(***************************************************************************)
(* Maker and checker along the whole chain: whoever may still spend a      *)
(* grant was approved by another principal, and the approval outlasts the  *)
(* grant, whatever roles, sessions and credentials changed in between.     *)
(***************************************************************************)
GrantsWithinApproval ==
  \A g \in GrantIds : LiveGrant(g) =>
    LET a == grants[g].approval IN
    /\ LiveApproval(a)
    /\ grants[g].left <= approvals[a].left
    /\ approvals[a].requester = grants[g].principal
    /\ approvals[a].approver # grants[g].principal

(***************************************************************************)
(* What the live grants of a run may still cost never exceeds the goal's   *)
(* budget nor its call limit, across tasks.  (issue_grant)                 *)
(***************************************************************************)
GoalReservation ==
  /\ ReservedCost(LiveProviderGrants) <= GoalBudget
  /\ ReservedCalls(LiveProviderGrants) <= GoalCalls

(***************************************************************************)
(* What a task with a compiled authority has ever spent, through every     *)
(* grant it was issued, revoked and expired ones included, stays within    *)
(* its own budget: revoking a grant and issuing another does not reset it. *)
(* (_consume_as_principal)                                                 *)
(***************************************************************************)
TaskNeverOverspends ==
  \A t \in Bound :
    /\ SpentCost(GrantsOf(t)) <= TaskBudget[t]
    /\ SpentCalls(GrantsOf(t)) <= TaskCalls[t]

=============================================================================
