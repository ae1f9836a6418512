------------------------------ MODULE Delivery ------------------------------
(***************************************************************************)
(* How a run is delivered: the facts that EvidenceRegistry (evidence.py),  *)
(* IntegrationQueue (integration.py) and ObservationRegistry               *)
(* (observations.py) record, the guards GuardResolver (gates.py) computes  *)
(* from them, and the kernel commands that act on the guards (kernel.py:   *)
(* add_task, advance_loop, accept_task_evidence, confirm_task_delivery).   *)
(*                                                                         *)
(* One goal with one run.  Every command is one BEGIN IMMEDIATE            *)
(* transaction, hence one action; a command that raises is disabled.       *)
(* Times are kept relative to the clock: an observation by its `age' (now  *)
(* minus observed_at, negative when future-dated) and by what is `left' of *)
(* it, an approval by what is left of it.                                  *)
(***************************************************************************)
EXTENDS Integers, Sequences, FiniteSets, Lifecycle, Evidence

CONSTANTS
  Tasks,                \* the tasks that may be added to the run
  Target,               \* TaskSpec.evidence_target, per task
  EvaluatorRequired,    \* the tasks with evaluator_required
  IntegrationRequired,  \* the tasks with integration_required
  Stepped,              \* the tasks with a declared workflow step
  GateOf,               \* the decision gate a task's authority binds it to
  GoalStates,           \* GoalSpec.success_evidence_states
  GoalEvaluator,        \* GoalSpec.evaluator_required
  Surfaces,             \* GoalSpec.required_runtime_surfaces
  MaxTTL,               \* their max_ttl_seconds, in ticks
  MaxIterations,        \* GoalSpec.max_iterations_without_evidence
  Principals,           \* whoever produces, verifies or observes
  RolesOf,              \* their roles
  Items,                \* integration ids
  Signatures,           \* what a probe may report of a surface
  Healthy,              \* those that say the surface is healthy
  Skew,                 \* how far ahead observed_at may be (five minutes)
  ArtifactInputs,       \* bound: the artifacts that get registered
  ClaimInputs,          \* bound: the <<state, verdict>> of claims explored
  MaxClaims,            \* bound: claims per task
  MaxRows,              \* bound: observations per surface
  ProbeStates,          \* bound: the loop states in which probes report
  ItemStates,           \* bound: the integration states explored
  WorkMoves,            \* bound: the scheduler's and owner's task moves
  RunStates             \* bound: the loop states explored

Gates == {"none", "provider", "merge", "release"}

TERMINAL_TASK_STATES == {"delivered", "canceled", "deleted", "retired"}

Sealed == {"delivered", "improvement_pending"}

(* _TRANSITIONS of integration.py *)
ITEM_TRANSITIONS ==
  [review_pending |->
     {"evaluator_pending", "push_pr_pending", "deploy_pending",
      "delete_pending", "retire_pending", "delivered", "defer_with_owner",
      "superseded"},
   evaluator_pending |->
     {"review_pending", "push_pr_pending", "defer_with_owner", "superseded"},
   push_pr_pending |-> {"ci_pending", "defer_with_owner", "superseded"},
   ci_pending |-> {"merge_pending", "ci_failed", "defer_with_owner"},
   ci_failed |-> {"push_pr_pending", "defer_with_owner", "superseded"},
   merge_pending |-> {"deploy_pending", "delivered", "defer_with_owner"},
   deploy_pending |->
     {"deploy_dir_updated", "defer_with_owner", "superseded"},
   deploy_dir_updated |->
     {"service_restart_required", "runtime_check_pending",
      "defer_with_owner"},
   service_restart_required |->
     {"runtime_check_pending", "defer_with_owner"},
   runtime_check_pending |->
     {"delivered", "runtime_stale", "defer_with_owner"},
   runtime_stale |->
     {"service_restart_required", "deploy_pending", "defer_with_owner"},
   delete_pending |-> {"delivered", "defer_with_owner"},
   retire_pending |-> {"delivered", "defer_with_owner"},
   defer_with_owner |->
     {"review_pending", "delete_pending", "retire_pending", "superseded"},
   delivered |-> {},
   superseded |-> {}]

ItemState == DOMAIN ITEM_TRANSITIONS

ItemFinal == {"delivered", "superseded"}

(* No id is "none"; only confirm_task_delivery targets "delivered". *)
ASSUME DeliveryAssumption ==
  /\ "none" \notin Tasks
  /\ EvaluatorRequired \subseteq Tasks
  /\ IntegrationRequired \subseteq Tasks
  /\ Stepped \subseteq Tasks
  /\ Target \in [Tasks -> EvidenceState]
  /\ GateOf \in [Tasks -> Gates]
  /\ GoalStates \subseteq EvidenceState
  /\ GoalEvaluator \in BOOLEAN
  /\ MaxTTL \in Nat \ {0}
  /\ MaxIterations \in Nat \ {0}
  /\ RolesOf \in [Principals -> SUBSET Role]
  /\ Healthy \subseteq Signatures
  /\ Skew \in Nat
  /\ ArtifactInputs \subseteq
       [task : Tasks, kind : ArtifactKind, producer : Principals]
  /\ ClaimInputs \subseteq EvidenceState \X EvaluatorVerdict
  /\ MaxClaims \in Nat /\ MaxRows \in Nat
  /\ ProbeStates \subseteq LoopState
  /\ ItemStates \subseteq ItemState
  /\ RunStates \subseteq LoopState
  /\ WorkMoves \subseteq TaskState \X (TaskState \ {"delivered"})
  /\ \A m \in WorkMoves : TaskMayMove(m[1], m[2])

VARIABLES
  loop_state,            \* the run's loop_state
  tasks,                 \* tasks table: state, or "absent"
  steps,                 \* workflow_steps: status of a task's step
  artifacts,             \* artifacts table
  evidence_claims,       \* evidence_claims table
  integration_items,     \* integration_items table
  runtime_observations,  \* runtime_observations, per surface, as recorded
  trusted,               \* enabled principals that hold the observer role
  gates,                 \* what is left of the best approval of a gate
  resume_left,           \* the same, of the approval to resume the run
  negative_results,      \* the tasks with a retained failure
  starts                 \* task_started events since the last claim

registries == <<artifacts, evidence_claims, integration_items>>
clocked == <<runtime_observations, gates, resume_left>>
supervised == <<steps, negative_results, trusted>>

vars == <<loop_state, tasks, starts, registries, clocked, supervised>>

ClaimRow ==
  [task : Tasks, state : EvidenceState, verdict : EvaluatorVerdict,
   verifier : Principals, arts : SUBSET ArtifactInputs]

Absent == [task |-> "none", state |-> "absent", refs |-> {}]

(* An observation that has expired is kept at the greatest age. *)
Observation ==
  [age : (-Skew)..MaxTTL, left : 0..(MaxTTL + Skew), says : Signatures,
   observer : Principals]

TypeOK ==
  /\ loop_state \in LoopState
  /\ tasks \in [Tasks -> TaskState \cup {"absent"}]
  /\ steps \in [Tasks -> {"none", "pending", "succeeded", "failed"}]
  /\ artifacts \subseteq ArtifactInputs
  /\ \A c \in evidence_claims : c \in ClaimRow /\ c.arts \subseteq artifacts
  /\ \A i \in Items : integration_items[i] # Absent =>
       /\ integration_items[i].task \in Tasks
       /\ integration_items[i].state \in ItemState
       /\ integration_items[i].refs \subseteq evidence_claims
  /\ runtime_observations \in [Surfaces -> Seq(Observation)]
  /\ trusted \subseteq Principals
  /\ gates \in [Tasks -> 0..MaxTTL]
  /\ resume_left \in 0..MaxTTL
  /\ negative_results \subseteq Tasks
  /\ starts \in 0..MaxIterations

(* create_goal and create_run: a run at intake, without tasks. *)
Init ==
  /\ loop_state = "intake"
  /\ tasks = [t \in Tasks |-> "absent"]
  /\ steps = [t \in Tasks |-> "none"]
  /\ artifacts = {}
  /\ evidence_claims = {}
  /\ integration_items = [i \in Items |-> Absent]
  /\ runtime_observations = [s \in Surfaces |-> <<>>]
  /\ trusted = {p \in Principals : "observer" \in RolesOf[p]}
  /\ gates = [t \in Tasks |-> 0]
  /\ resume_left = 0
  /\ negative_results = {}
  /\ starts = 0

-----------------------------------------------------------------------------
(* The facts, as the guards read them.                                     *)

Present == {t \in Tasks : tasks[t] # "absent"}

Open == {t \in Present : tasks[t] \notin TERMINAL_TASK_STATES}

(* _required_decision_gates_satisfied: some approval is in force.  One     *)
(* that was denied later does not count against it.                        *)
GateSatisfied(t) == GateOf[t] # "none" => gates[t] > 0

OnTarget(t) == {c \in evidence_claims : c.task = t /\ c.state = Target[t]}

(* The evidence half of _task_evidence_status and _evidence_status. *)
EvidenceOk(t) == \E c \in OnTarget(t) : c.verdict \in PASSING_EVIDENCE

IndependentlyPassed(t) ==
  \E c \in OnTarget(t) : c.verdict \in PASSING_EVALUATOR

EvaluatorOk(t) == t \in EvaluatorRequired => IndependentlyPassed(t)

(* accept_task_evidence and advance: a claim that itself passes the task. *)
Passes(c, t) ==
  /\ c \in OnTarget(t)
  /\ c.verdict \in IF t \in EvaluatorRequired THEN PASSING_EVALUATOR
                                              ELSE PASSING_EVIDENCE

(* _evidence_status: all tasks of the run, and the states the goal names. *)
EvidenceSatisfied ==
  /\ Present # {}
  /\ \A t \in Present : EvidenceOk(t)
  /\ GoalStates \subseteq {Target[t] : t \in {u \in Present : EvidenceOk(u)}}

EvaluatorSatisfied ==
  /\ Present # {}
  /\ \A t \in Present : EvaluatorOk(t)
  /\ GoalEvaluator =>
       GoalStates \subseteq
         {Target[t] : t \in {u \in Present : IndependentlyPassed(u)}}

ItemsOf(t) == {i \in Items : integration_items[i].task = t}

Integrated(t) ==
  t \in IntegrationRequired =>
    /\ ItemsOf(t) # {}
    /\ \A i \in ItemsOf(t) : integration_items[i].state \in ItemFinal

(* _integration_satisfied *)
IntegrationSatisfied ==
  Present # {} /\ \A t \in Present : GateSatisfied(t) /\ Integrated(t)

(* _tasks_terminal: delivered, nothing else, and still under its gates. *)
TasksTerminal ==
  /\ Present # {}
  /\ \A t \in Present : tasks[t] = "delivered" /\ GateSatisfied(t)

(* Takes the row that was recorded last, whenever it was observed. *)
NewestRecorded(rows) == Len(rows)

(* ORDER BY observed_at DESC, recorded_at DESC *)
Newest(rows) ==
  CHOOSE n \in DOMAIN rows :
    \A m \in DOMAIN rows : \/ rows[n].age < rows[m].age
                           \/ rows[n].age = rows[m].age /\ n >= m

(***************************************************************************)
(* _freshness_satisfied, for a surface: the newest row is healthy, of an   *)
(* observer still trusted, neither future-dated nor expired, and no other  *)
(* row of its instant contradicts it.                                      *)
(***************************************************************************)
Fresh(s) ==
  LET rows == runtime_observations[s]
      latest == rows[Newest(rows)]
  IN  /\ rows # <<>>
      /\ latest.says \in Healthy
      /\ latest.observer \in trusted
      /\ latest.age >= 0
      /\ latest.left > 0
      /\ \A n \in DOMAIN rows :
           rows[n].age = latest.age => rows[n].says = latest.says

FreshnessSatisfied == \A s \in Surfaces : Fresh(s)

(* _contract_valid, the part that is not a check of documents. *)
ContractValid ==
  Present # {} /\ GoalStates \subseteq {Target[t] : t \in Present}

(***************************************************************************)
(* GuardResolver._resolve_one.  lease_valid is a fact of the scheduler     *)
(* (module Scheduler), capability_available one of the policy engine,      *)
(* improvement_routed one of the evaluation registry (ConfirmImprovement   *)
(* of Promotion): inputs, taken to hold, so that the loop moves at least   *)
(* as freely here as in the code.                                          *)
(***************************************************************************)
Resolve(guard) ==
  CASE guard \in {"contract_valid", "readiness_gate_passed"} -> ContractValid
    [] guard \in {"approval_valid", "resume_authorized",
                  "owner_decision_recorded"} -> resume_left > 0
    [] guard = "evidence_satisfied"    -> EvidenceSatisfied
    [] guard = "evaluator_satisfied"   -> EvaluatorSatisfied
    [] guard = "integration_satisfied" -> IntegrationSatisfied
    [] guard = "freshness_satisfied"   -> FreshnessSatisfied
    [] guard = "tasks_terminal"        -> TasksTerminal
    [] guard = "ci_green" ->
         \E i \in Items : integration_items[i].state \in
                            {"merge_pending", "deploy_pending", "delivered"}
    [] guard = "repair_route_selected" -> negative_results # {}
    [] OTHER -> TRUE

-----------------------------------------------------------------------------
(* Kernel commands.                                                        *)

(* Accepts tasks as long as the run is not delivered, improving or not. *)
AddTaskLate(t) ==
  /\ tasks[t] = "absent"
  /\ loop_state # "delivered"
  /\ tasks' = [tasks EXCEPT ![t] = "ready"]
  /\ UNCHANGED <<loop_state, starts, registries, clocked, supervised>>

AddTask(t) ==
  /\ tasks[t] = "absent"
  /\ loop_state \notin Sealed
  /\ tasks' = [tasks EXCEPT ![t] = "ready"]
  /\ UNCHANGED <<loop_state, starts, registries, clocked, supervised>>

(* Counts the iterations without evidence one too late. *)
BreakerClosedLate == starts <= MaxIterations

(* max_iterations_without_evidence *)
BreakerClosed == starts < MaxIterations

(***************************************************************************)
(* advance_loop: the circuit breaker of task_started, the guards of the    *)
(* rule, the new state.  Caller-supplied guard results can only refuse.    *)
(***************************************************************************)
AdvanceLoop(rule) ==
  /\ rule.from = loop_state
  /\ rule.to \in RunStates
  /\ rule.event = "task_started" => BreakerClosed
  /\ \A guard \in rule.guards : Resolve(guard)
  /\ loop_state' = rule.to
  /\ starts' = IF rule.event = "task_started" THEN starts + 1 ELSE starts
  /\ UNCHANGED <<tasks, registries, clocked, supervised>>

AcceptTaskEvidence(t, c) ==
  /\ Passes(c, t)
  /\ EvidenceOk(t)
  /\ tasks[t] \in {"evidence_pending", "evaluator_pending"}
  /\ tasks[t] = "evaluator_pending" => EvaluatorOk(t)
  /\ tasks' = [tasks EXCEPT ![t] = IF EvaluatorOk(t)
                                     THEN "integration_pending"
                                     ELSE "evaluator_pending"]
  /\ UNCHANGED <<loop_state, starts, registries, clocked, supervised>>

StepsSucceeded(t) == t \in Stepped => steps[t] = "succeeded"

ConfirmTaskDelivery(t) ==
  /\ tasks[t] = "integration_pending"
  /\ EvidenceOk(t) /\ EvaluatorOk(t)
  /\ GateSatisfied(t)
  /\ StepsSucceeded(t)
  /\ Integrated(t)
  /\ FreshnessSatisfied
  /\ tasks' = [tasks EXCEPT ![t] = "delivered"]
  /\ UNCHANGED <<loop_state, starts, registries, clocked, supervised>>

(***************************************************************************)
(* The task moves of the scheduler and of control_task (module Scheduler), *)
(* and the step that a running task gets from the outbox (module Outbox).  *)
(* control_task does not look at the run: a delivered task may be retired. *)
(***************************************************************************)
Move(t, to) ==
  /\ <<tasks[t], to>> \in WorkMoves
  /\ to = "running" => loop_state = "running"
  /\ to = "leased" => loop_state \in {"ready", "running"}
  /\ tasks' = [tasks EXCEPT ![t] = to]
  /\ negative_results' = IF to \in {"retry_pending", "failed"}
                           THEN negative_results \cup {t}
                           ELSE negative_results
  /\ UNCHANGED <<loop_state, starts, registries, clocked, steps, trusted>>

EnqueueStep(t) ==
  /\ t \in Stepped
  /\ steps[t] = "none"
  /\ tasks[t] = "running" /\ loop_state = "running"
  /\ steps' = [steps EXCEPT ![t] = "pending"]
  /\ UNCHANGED <<loop_state, tasks, starts, registries, clocked,
                 negative_results, trusted>>

(* The checkpoint comes whenever recovery gets to it; a failure is kept. *)
SettleStep(t, outcome) ==
  /\ steps[t] = "pending"
  /\ steps' = [steps EXCEPT ![t] = outcome]
  /\ negative_results' = IF outcome = "failed" THEN negative_results \cup {t}
                                               ELSE negative_results
  /\ UNCHANGED <<loop_state, tasks, starts, registries, clocked, trusted>>

-----------------------------------------------------------------------------
(* The registries.                                                         *)

RegisterArtifact(a) ==
  /\ a \notin artifacts
  /\ a.task \in Open
  /\ MayProduce(RolesOf[a.producer], a.kind)
  /\ artifacts' = artifacts \cup {a}
  /\ UNCHANGED <<loop_state, tasks, starts, evidence_claims,
                 integration_items, clocked, supervised>>

(* A claim of the run, whatever it says, closes the circuit breaker. *)
RecordClaim(t, state, verdict, env, p, arts) ==
  /\ t \in Open
  /\ arts # {}
  /\ \A a \in arts : a.task = t
  /\ EnforceProvenance(state, env, verdict, p, RolesOf[p], arts)
  /\ Cardinality({c \in evidence_claims : c.task = t}) < MaxClaims
  /\ evidence_claims' = evidence_claims \cup
       {[task |-> t, state |-> state, verdict |-> verdict,
         verifier |-> p, arts |-> arts]}
  /\ starts' = 0
  /\ UNCHANGED <<loop_state, tasks, artifacts, integration_items, clocked,
                 supervised>>

ClaimsOf(t) == {c \in evidence_claims : c.task = t}

(* Only the run is sealed against new items, its delivered tasks are not. *)
CreateItemAnytime(i, t, refs) ==
  /\ integration_items[i] = Absent
  /\ t \in Present
  /\ loop_state \notin Sealed
  /\ refs \subseteq ClaimsOf(t)
  /\ integration_items' = [integration_items EXCEPT ![i] =
       [task |-> t, state |-> "review_pending", refs |-> refs]]
  /\ UNCHANGED <<loop_state, tasks, starts, artifacts, evidence_claims,
                 clocked, supervised>>

CreateItem(i, t, refs) ==
  /\ integration_items[i] = Absent
  /\ t \in Open
  /\ loop_state \notin Sealed
  /\ refs \subseteq ClaimsOf(t)
  /\ integration_items' = [integration_items EXCEPT ![i] =
       [task |-> t, state |-> "review_pending", refs |-> refs]]
  /\ UNCHANGED <<loop_state, tasks, starts, artifacts, evidence_claims,
                 clocked, supervised>>

(***************************************************************************)
(* IntegrationQueue.advance: a final state needs the decision gates and,   *)
(* among all the references given so far, a claim that passes the task.    *)
(***************************************************************************)
AdvanceItem(i, to, refs) ==
  LET item == integration_items[i]
      all == item.refs \cup refs
  IN  /\ item # Absent
      /\ item.task \in Open
      /\ to \in ITEM_TRANSITIONS[item.state] \cap ItemStates
      /\ refs \subseteq ClaimsOf(item.task)
      /\ to \in ItemFinal => /\ GateSatisfied(item.task)
                             /\ \E c \in all : Passes(c, item.task)
      /\ integration_items' = [integration_items EXCEPT
           ![i].state = to, ![i].refs = all]
      /\ UNCHANGED <<loop_state, tasks, starts, artifacts, evidence_claims,
                     clocked, supervised>>

(* A row after some ticks. *)
Older(row, ticks) ==
  [row EXCEPT !.age = IF @ + ticks < MaxTTL THEN @ + ticks ELSE MaxTTL,
              !.left = IF @ > ticks THEN @ - ticks ELSE 0]

Insert(rows, n, row) ==
  [k \in 1..(Len(rows) + 1) |-> CASE k < n -> rows[k]
                                  [] k = n -> row
                                  [] k > n -> rows[k - 1]]

(***************************************************************************)
(* ObservationRegistry.record: the run may be in any state.  The caller    *)
(* gives observed_at, so a row may arrive late or be dated ahead, but not  *)
(* expired already; probe, target and trigger are those of the contract.   *)
(* That is checked, and recorded_at taken, before the transaction, which   *)
(* may have to wait: the row is then that much older, and ranks before     *)
(* rows that were recorded since and committed first.                      *)
(***************************************************************************)
RecordObservation(s, age, ttl, says, p, waited, rank) ==
  LET rows == runtime_observations[s]
      row == [age |-> age, left |-> ttl - age, says |-> says, observer |-> p]
  IN  /\ ttl > age
      /\ p \in trusted
      /\ loop_state \in ProbeStates
      /\ Len(rows) < MaxRows
      /\ rank \in 1..(Len(rows) + 1)
      /\ runtime_observations' = [runtime_observations EXCEPT ![s] =
           Insert(rows, rank, Older(row, waited))]
      /\ UNCHANGED <<loop_state, tasks, starts, registries, gates,
                     resume_left, supervised>>

(* An observer is disabled or loses the role, or gets it back. *)
SetTrusted(p) ==
  /\ "observer" \in RolesOf[p]
  /\ trusted' = IF p \in trusted THEN trusted \ {p} ELSE trusted \cup {p}
  /\ UNCHANGED <<loop_state, tasks, starts, registries, clocked, steps,
                 negative_results>>

-----------------------------------------------------------------------------
(* Approvals (policy.py, record_approval) that the guards read.            *)

Longer(a, b) == IF a > b THEN a ELSE b

(* _assert_task_lifecycle in the approval phase, for a gate's capability. *)
GateApprovable(t) ==
  \/ /\ GateOf[t] \in {"merge", "release"}
     /\ loop_state \in {"ready", "running", "evidence_pending",
                        "integration_pending", "ci_pending",
                        "deploy_dir_updated", "runtime_stale",
                        "runtime_check_pending", "runtime_fresh"}
     /\ tasks[t] \in {"ready", "leased", "running", "evidence_pending",
                      "evaluator_pending", "integration_pending"}
  \/ /\ GateOf[t] = "provider"
     /\ loop_state \in {"ready", "running"}
     /\ tasks[t] \in {"ready", "leased", "running"}

ApproveGate(t, ttl) ==
  /\ GateApprovable(t)
  /\ gates' = [gates EXCEPT ![t] = Longer(@, ttl)]
  /\ UNCHANGED <<loop_state, tasks, starts, registries,
                 runtime_observations, resume_left, supervised>>

(* Approval to resume the run: until it expires it may be used again. *)
ApproveResume(t, ttl) ==
  /\ t \in Open
  /\ loop_state \in {"suspended", "blocked_capability", "blocked_decision",
                     "blocked_missing_state"}
  /\ resume_left' = Longer(resume_left, ttl)
  /\ UNCHANGED <<loop_state, tasks, starts, registries,
                 runtime_observations, gates, supervised>>

Less(n) == IF n > 0 THEN n - 1 ELSE 0

Tick ==
  /\ runtime_observations' = [s \in Surfaces |->
       [n \in DOMAIN runtime_observations[s] |->
         Older(runtime_observations[s][n], 1)]]
  /\ gates' = [t \in Tasks |-> Less(gates[t])]
  /\ resume_left' = Less(resume_left)
  /\ UNCHANGED <<loop_state, tasks, starts, registries, supervised>>

-----------------------------------------------------------------------------

KernelNext ==
  \/ \E t \in Tasks : \/ AddTask(t)
                      \/ \E c \in evidence_claims : AcceptTaskEvidence(t, c)
                      \/ ConfirmTaskDelivery(t)
  \/ \E rule \in LOOP_TRANSITIONS : AdvanceLoop(rule)

WorkNext ==
  \E t \in Tasks : \/ \E to \in TaskState : Move(t, to)
                   \/ EnqueueStep(t)
                   \/ \E o \in {"succeeded", "failed"} : SettleStep(t, o)

RegistryNext ==
  \/ \E a \in ArtifactInputs : RegisterArtifact(a)
  \/ \E t \in Tasks, in \in ClaimInputs, env \in Reality, p \in Principals,
        arts \in SUBSET artifacts : RecordClaim(t, in[1], in[2], env, p, arts)
  \/ \E i \in Items, t \in Tasks, refs \in SUBSET evidence_claims :
       CreateItem(i, t, refs)
  \/ \E i \in Items, to \in ItemState, refs \in SUBSET evidence_claims :
       AdvanceItem(i, to, refs)
  \/ \E s \in Surfaces, age \in (-Skew)..MaxTTL, ttl \in 1..MaxTTL,
        says \in Signatures, p \in Principals,
        waited \in 0..(MaxTTL + Skew), rank \in 1..MaxRows :
       RecordObservation(s, age, ttl, says, p, waited, rank)
  \/ \E p \in Principals : SetTrusted(p)

ApprovalNext ==
  \E t \in Tasks, ttl \in 1..MaxTTL : ApproveGate(t, ttl)
                                      \/ ApproveResume(t, ttl)

Next == KernelNext \/ WorkNext \/ RegistryNext \/ ApprovalNext \/ Tick

Spec == Init /\ [][Next]_vars

-----------------------------------------------------------------------------
(* What delivery promises.                                                 *)

Done(t) == tasks[t] = "delivered"

(***************************************************************************)
(* Delivery is sealed: the claim, the workflow step and the integration    *)
(* items a task was delivered on are there and final for as long as it is  *)
(* delivered.  confirm_task_delivery checks them once; record_claim,       *)
(* create, advance and the outbox could each undo them later.              *)
(***************************************************************************)
DeliveredTaskStands ==
  \A t \in Tasks : Done(t) =>
    /\ \E c \in OnTarget(t) : Passes(c, t)
    /\ t \in Stepped => steps[t] = "succeeded"
    /\ t \in IntegrationRequired =>
         {integration_items[i].state : i \in ItemsOf(t)}
           \in (SUBSET ItemFinal) \ {{}}

(***************************************************************************)
(* Maker and checker: a task that needs an evaluator is never delivered,   *)
(* and its integration item never closed, on the verdict of someone who    *)
(* made one of the artifacts the claim rests on, or without the role.      *)
(***************************************************************************)
IndependentCheck(t) ==
  \E c \in OnTarget(t) :
    /\ c.verdict \in PASSING_EVALUATOR
    /\ "evaluator" \in RolesOf[c.verifier]
    /\ \A a \in c.arts : a.task = t /\ a.producer # c.verifier

MakerIsNotChecker ==
  \A t \in EvaluatorRequired :
    \/ Done(t)
    \/ \E i \in ItemsOf(t) : integration_items[i].state \in ItemFinal
    => IndependentCheck(t)

(***************************************************************************)
(* A delivered run is sealed (add_task, create, record_claim, advance):    *)
(* from delivered on, through improvement_pending and back, every task it  *)
(* has is delivered, or was delivered and has been retired.                *)
(***************************************************************************)
SealedRun ==
  loop_state \in Sealed =>
    \A t \in Present : tasks[t] \in {"delivered", "retired"}

(***************************************************************************)
(* Freshness at the instant of delivery, of a task or of the run: every    *)
(* surface has a healthy observation in force from an observer trusted     *)
(* now, and nothing observed at the same instant or after it says          *)
(* otherwise, in whatever order the rows arrived (record takes late and    *)
(* future-dated rows).                                                     *)
(***************************************************************************)
FreshNow ==
  \A s \in Surfaces :
    LET rows == runtime_observations[s]
    IN  \E n \in DOMAIN rows :
          /\ rows[n].says \in Healthy /\ rows[n].observer \in trusted
          /\ rows[n].age >= 0 /\ rows[n].left > 0
          /\ \A m \in DOMAIN rows :
               rows[m].age <= rows[n].age => rows[m].says = rows[n].says

FreshDelivery ==
  [][\/ \E t \in Tasks : ~Done(t) /\ Done(t)'
     \/ /\ loop_state \in {"integration_pending", "runtime_fresh"}
        /\ loop_state' = "delivered"
     => FreshNow]_vars

=============================================================================
