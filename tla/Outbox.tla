------------------------------- MODULE Outbox -------------------------------
(***************************************************************************)
(* The durable workflow (workflow.py, DurableWorkflow): effects are put in *)
(* an outbox, dispatched through an idempotent provider (fake_provider.py) *)
(* and checkpointed, with authority consumed from capability grants        *)
(* (policy.py, _consume_effect).                                           *)
(*                                                                         *)
(* dispatch is not one transaction.  It reads, checks the step binding,    *)
(* consumes authority, asks the provider, marks the row, calls the         *)
(* provider and checkpoints, each in a transaction of its own; any number  *)
(* of callers and recovery scans may be anywhere in that sequence for the  *)
(* same effect, a process may die between any two of the steps, and the    *)
(* task, its claim, the run and the grant may change meanwhile.  `pc' is   *)
(* the step a process takes next.                                          *)
(***************************************************************************)
EXTENDS Integers, FiniteSets, Lifecycle

CONSTANTS
  Tasks, Steps, Effects, Grants,
  Workers, System, NoHolder,
  Callers,      \* processes that call dispatch
  Recoverers,   \* processes that call recover_pending
  DirectKeys,   \* idempotency keys of PolicyEngine.consume
  TaskOf,       \* the task that declares a step
  StepOf,       \* the step whose exact request a grant covers
  GrantOf,      \* the grant named in an effect's envelope
  PrincipalOf,  \* the principal a grant was issued to
  Integration,  \* the grants of an integration capability
  MaxUses,      \* max_uses of a grant
  ScanLimit,    \* the `limit' argument of recover_pending
  MaxCrashes,   \* bound: process deaths explored
  MayVoid,      \* bound: the grants that may become void
  MayDisable,   \* bound: the principals that may be disabled
  TaskStates,   \* bound: the task states explored
  RunStates     \* bound: the loop states explored

Principals == Workers \cup {System}
Processes == Callers \cup Recoverers

ASSUME OutboxAssumption ==
  /\ TaskOf \in [Steps -> Tasks]
  /\ StepOf \in [Grants -> Steps]
  /\ GrantOf \in [Effects -> Grants]
  /\ PrincipalOf \in [Grants -> Principals]
  /\ Integration \subseteq Grants
  /\ MaxUses \in [Grants -> Nat \ {0}]
  /\ NoHolder \notin Workers
  /\ System \notin Workers
  /\ Callers \cap Recoverers = {}
  /\ DirectKeys \cap Effects = {}
  /\ ScanLimit \in Nat \ {0}
  /\ MaxCrashes \in Nat
  /\ MayVoid \subseteq Grants
  /\ MayDisable \subseteq Principals
  /\ TaskStates \subseteq TaskState
  /\ RunStates \subseteq LoopState

VARIABLES
  outbox,            \* outbox.status by effect, "absent" before enqueue
  workflow_steps,    \* by step: status and the effect it is bound to
  effect_receipts,   \* by effect; "denied" is failed with a NULL receipt
  negative_results,  \* recurrences retained by _retain_negative
  capability_usage,  \* by grant: the idempotency keys that used it
  used_count,        \* by grant: the column of capability_grants
  provider_effects,  \* the provider's rows, in its own database
  tasks,             \* task state
  claim,             \* the holder of the live lease on task://t
  loop_state,        \* state of the parent run
  void,              \* grants that will never authorize again
  disabled,          \* disabled principals
  process,           \* what each process has in memory
  crashes

supervision == <<tasks, claim, loop_state, void, disabled>>
ledger == <<outbox, workflow_steps, effect_receipts, negative_results>>
usage == <<capability_usage, used_count>>
vars == <<ledger, usage, provider_effects, supervision, process, crashes>>

NoEffect == "none"
Idle == [pc |-> "idle", effect |-> NoEffect, rows |-> {}]

Step(e) == StepOf[GrantOf[e]]
Task(e) == TaskOf[Step(e)]

PendingStatus == {"authorization_pending", "ready"}
Receipts == {"succeeded", "failed"}

(* Writes the denial itself into the status columns. *)
StatusRaw(receipt) == receipt

(* The status columns written for a receipt. *)
StatusOf(receipt) == IF receipt = "denied" THEN "failed" ELSE receipt

TypeOK ==
  /\ outbox \in [Effects -> {"absent"} \cup PendingStatus \cup Receipts]
  /\ workflow_steps \in
       [Steps -> [status : {"absent", "queued"} \cup Receipts,
                  effect : Effects \cup {NoEffect}]]
  /\ effect_receipts \in [Effects -> Receipts \cup {"denied", "none"}]
  /\ negative_results \in Nat
  /\ capability_usage \in [Grants -> SUBSET (Effects \cup DirectKeys)]
  /\ used_count \in [Grants -> Nat]
  /\ provider_effects \in
       [Effects -> [rows : Nat, status : Receipts \cup {"none"}]]
  /\ tasks \in [Tasks -> TaskState]
  /\ claim \in [Tasks -> Workers \cup {NoHolder}]
  /\ loop_state \in LoopState
  /\ void \subseteq Grants
  /\ disabled \subseteq Principals
  /\ process \in
       [Processes ->
         [pc : {"idle", "scan", "bind", "consume", "lookup", "mark",
                "execute", "checkpoint", "deny"},
          effect : Effects \cup {NoEffect}, rows : SUBSET Effects]]
  /\ crashes \in 0..MaxCrashes

(***************************************************************************)
(* Every task is running under a live claim, in a running run, and every   *)
(* grant has just been issued: the state in which effects are enqueued.    *)
(***************************************************************************)
Init ==
  /\ outbox = [e \in Effects |-> "absent"]
  /\ workflow_steps = [s \in Steps |->
                        [status |-> "absent", effect |-> NoEffect]]
  /\ effect_receipts = [e \in Effects |-> "none"]
  /\ negative_results = 0
  /\ capability_usage = [g \in Grants |-> {}]
  /\ used_count = [g \in Grants |-> 0]
  /\ provider_effects = [e \in Effects |-> [rows |-> 0, status |-> "none"]]
  /\ tasks = [t \in Tasks |-> "running"]
  /\ claim \in [Tasks -> Workers]
  /\ loop_state = "running"
  /\ void = {}
  /\ disabled = {}
  /\ process = [p \in Processes |-> Idle]
  /\ crashes = 0

-----------------------------------------------------------------------------

(***************************************************************************)
(* _assert_task_lifecycle, phase "consume".  An integration capability may *)
(* also be used after the task has been completed and before delivery.     *)
(***************************************************************************)
RunAllows(g) ==
  IF g \in Integration
    THEN loop_state \in
           {"running", "evidence_pending", "integration_pending",
            "ci_pending", "deploy_dir_updated", "runtime_stale",
            "runtime_check_pending", "runtime_fresh"}
    ELSE loop_state = "running"

TaskAllows(g) ==
  IF g \in Integration
    THEN tasks[TaskOf[StepOf[g]]] \in
           {"running", "evidence_pending", "evaluator_pending",
            "integration_pending"}
    ELSE tasks[TaskOf[StepOf[g]]] = "running"

(***************************************************************************)
(* What every use of a grant re-checks, replays of a use included: the     *)
(* principal, the lifecycle, a worker's current task claim, and that the   *)
(* grant is neither revoked nor expired nor at a lost fence.               *)
(***************************************************************************)
Authorizes(g) ==
  LET principal == PrincipalOf[g]
  IN  /\ principal \notin disabled
      /\ RunAllows(g) /\ TaskAllows(g)
      /\ principal \in Workers => claim[TaskOf[StepOf[g]]] = principal
      /\ g \notin void

(* Counts a replayed use again. *)
UseAgain(g, key) ==
  /\ capability_usage' = [capability_usage EXCEPT ![g] = @ \cup {key}]
  /\ used_count' = [used_count EXCEPT ![g] = @ + 1]

(* _consume_as_principal, once the checks have passed. *)
Use(g, key) ==
  IF key \in capability_usage[g]
    THEN UNCHANGED usage
    ELSE /\ used_count[g] < MaxUses[g]
         /\ capability_usage' = [capability_usage EXCEPT ![g] = @ \cup {key}]
         /\ used_count' = [used_count EXCEPT ![g] = @ + 1]

MayUse(g, key) ==
  Authorizes(g) /\ (key \in capability_usage[g] \/ used_count[g] < MaxUses[g])

-----------------------------------------------------------------------------

(* Lets a second effect be queued for a step that already has one. *)
BindAny(e) == TRUE

(* "workflow step is already bound to another outbox effect" *)
Unbound(e) == workflow_steps[Step(e)].status = "absent"

(***************************************************************************)
(* enqueue.  A prior row with the same idempotency key is either the same  *)
(* request (a replay, no change) or refused.                               *)
(***************************************************************************)
Enqueue(e) ==
  /\ outbox[e] = "absent"
  /\ tasks[Task(e)] = "running" /\ loop_state = "running"
  /\ Authorizes(GrantOf[e])
  /\ used_count[GrantOf[e]] < MaxUses[GrantOf[e]]
  /\ Unbound(e)
  /\ outbox' = [outbox EXCEPT ![e] = "authorization_pending"]
  /\ workflow_steps' = [workflow_steps EXCEPT ![Step(e)] =
                         [status |-> "queued", effect |-> e]]
  /\ UNCHANGED <<effect_receipts, negative_results, usage,
                 provider_effects, supervision, process, crashes>>

-----------------------------------------------------------------------------
(* One process p in dispatch.                                              *)

At(p, pc) == process[p].pc = pc

Goto(p, pc) == process' = [process EXCEPT ![p].pc = pc]

(* dispatch raises: recover_pending does not catch it, the scan is over. *)
Raise(p) == process' = [process EXCEPT ![p] = Idle]

(* dispatch returns: a scan goes on with its next row. *)
Return(p) ==
  process' = [process EXCEPT ![p] =
    IF process[p].rows = {} THEN Idle
                            ELSE [@ EXCEPT !.pc = "scan", !.effect = NoEffect]]

(* A dispatch of an effect that has a receipt only returns it. *)
Dispatch(p, e) ==
  /\ At(p, "idle")
  /\ outbox[e] # "absent"
  /\ effect_receipts[e] = "none"
  /\ process' = [process EXCEPT ![p] =
                  [pc |-> "bind", effect |-> e, rows |-> {}]]
  /\ UNCHANGED <<ledger, usage, provider_effects, supervision, crashes>>

(* Misses a row that a dead process had already marked ready. *)
PendingUnmarked == {e \in Effects : outbox[e] = "authorization_pending"}

Pending == {e \in Effects : outbox[e] \in PendingStatus}

(* The rows of one scan, oldest first; which ones are oldest is left open. *)
ScanOf(S) ==
  {R \in SUBSET S : \/ R = S /\ Cardinality(S) <= ScanLimit
                    \/ Cardinality(R) = ScanLimit}

RecoverPending(p) ==
  /\ At(p, "idle")
  /\ Pending # {}
  /\ \E R \in ScanOf(Pending) :
       process' = [process EXCEPT ![p] =
                    [pc |-> "scan", effect |-> NoEffect, rows |-> R]]
  /\ UNCHANGED <<ledger, usage, provider_effects, supervision, crashes>>

RecoverNext(p) ==
  /\ At(p, "scan")
  /\ \E e \in process[p].rows :
       LET rest == process[p].rows \ {e}
       IN  process' = [process EXCEPT ![p] =
             IF effect_receipts[e] = "none"
               THEN [pc |-> "bind", effect |-> e, rows |-> rest]
               ELSE IF rest = {} THEN Idle ELSE [@ EXCEPT !.rows = rest]]
  /\ UNCHANGED <<ledger, usage, provider_effects, supervision, crashes>>

(* _assert_persisted_step_binding *)
Bind(p) ==
  LET e == process[p].effect
  IN  /\ At(p, "bind")
      /\ IF workflow_steps[Step(e)] = [status |-> "queued", effect |-> e]
           THEN Goto(p, "consume")
           ELSE Raise(p)
      /\ UNCHANGED <<ledger, usage, provider_effects, supervision, crashes>>

(* policy._consume_effect; recover_pending catches its AuthorizationError. *)
Consume(p) ==
  LET e == process[p].effect
      g == GrantOf[e]
  IN  /\ At(p, "consume")
      /\ \/ /\ MayUse(g, e)
            /\ Use(g, e)
            /\ Goto(p, "lookup")
         \/ /\ ~MayUse(g, e)
            /\ UNCHANGED usage
            /\ IF p \in Recoverers THEN Goto(p, "deny") ELSE Raise(p)
      /\ UNCHANGED <<ledger, provider_effects, supervision, crashes>>

Lookup(p) ==
  /\ At(p, "lookup")
  /\ Goto(p, IF provider_effects[process[p].effect].rows > 0
               THEN "checkpoint" ELSE "mark")
  /\ UNCHANGED <<ledger, usage, provider_effects, supervision, crashes>>

(* Marks the row whatever has become of it meanwhile. *)
MarkedAlways(e) == [outbox EXCEPT ![e] = "ready"]

(* UPDATE ... WHERE effect_id = ? AND status = 'authorization_pending' *)
Marked(e) ==
  IF outbox[e] = "authorization_pending"
    THEN [outbox EXCEPT ![e] = "ready"] ELSE outbox

MarkReady(p) ==
  /\ At(p, "mark")
  /\ outbox' = Marked(process[p].effect)
  /\ Goto(p, "execute")
  /\ UNCHANGED <<workflow_steps, effect_receipts, negative_results, usage,
                 provider_effects, supervision, crashes>>

(* Trusts the caller's earlier lookup instead of looking again. *)
ProviderActs(e, status) ==
  provider_effects' = [provider_effects EXCEPT ![e] =
                        [rows |-> @.rows + 1, status |-> status]]

(* The provider's execute: one transaction, which first looks for a row. *)
ProviderExecute(e, status) ==
  IF provider_effects[e].rows > 0
    THEN UNCHANGED provider_effects
    ELSE provider_effects' = [provider_effects EXCEPT ![e] =
                               [rows |-> 1, status |-> status]]

Execute(p) ==
  /\ At(p, "execute")
  /\ \E status \in Receipts : ProviderExecute(process[p].effect, status)
  /\ Goto(p, "checkpoint")
  /\ UNCHANGED <<ledger, usage, supervision, crashes>>

(* The receipt, the outbox row, the step and the failure, together. *)
Record(e, receipt) ==
  /\ effect_receipts' = [effect_receipts EXCEPT ![e] = receipt]
  /\ outbox' = [outbox EXCEPT ![e] = StatusOf(receipt)]
  /\ workflow_steps' = [workflow_steps EXCEPT ![Step(e)].status =
                         StatusOf(receipt)]
  /\ negative_results' =
       negative_results + (IF receipt = "succeeded" THEN 0 ELSE 1)

(* Records the provider's receipt over whatever is there. *)
CheckpointOver(p) ==
  LET e == process[p].effect
  IN  /\ At(p, "checkpoint")
      /\ Record(e, provider_effects[e].status)
      /\ Return(p)
      /\ UNCHANGED <<usage, provider_effects, supervision, crashes>>

(***************************************************************************)
(* _checkpoint.  A prior receipt is kept: equal to the provider's it is a  *)
(* replay, different from it (a denial) it is an IntegrityError.           *)
(***************************************************************************)
Checkpoint(p) ==
  LET e == process[p].effect
      receipt == provider_effects[e].status
  IN  /\ At(p, "checkpoint")
      /\ \/ /\ effect_receipts[e] = "none"
            /\ Record(e, receipt)
            /\ Return(p)
         \/ /\ effect_receipts[e] = receipt
            /\ Return(p)
            /\ UNCHANGED ledger
         \/ /\ effect_receipts[e] \notin {"none", receipt}
            /\ Raise(p)
            /\ UNCHANGED ledger
      /\ UNCHANGED <<usage, provider_effects, supervision, crashes>>

(* Denies without looking for a receipt that arrived meanwhile. *)
DenyOver(p) ==
  /\ At(p, "deny")
  /\ Record(process[p].effect, "denied")
  /\ Return(p)
  /\ UNCHANGED <<usage, provider_effects, supervision, crashes>>

(* _checkpoint_authorization_failure, from recover_pending. *)
CheckpointAuthorizationFailure(p) ==
  LET e == process[p].effect
  IN  /\ At(p, "deny")
      /\ IF effect_receipts[e] = "none" THEN Record(e, "denied")
                                        ELSE UNCHANGED ledger
      /\ Return(p)
      /\ UNCHANGED <<usage, provider_effects, supervision, crashes>>

(* A process dies between two of its transactions; its memory is lost. *)
Crash(p) ==
  /\ ~At(p, "idle")
  /\ crashes < MaxCrashes
  /\ crashes' = crashes + 1
  /\ process' = [process EXCEPT ![p] = Idle]
  /\ UNCHANGED <<ledger, usage, provider_effects, supervision>>

-----------------------------------------------------------------------------
(* What happens around the outbox.                                         *)

(* PolicyEngine.consume: a use of the grant that is not an effect's. *)
ConsumeDirectly(g, key) ==
  /\ MayUse(g, key)
  /\ Use(g, key)
  /\ UNCHANGED <<ledger, provider_effects, supervision, process, crashes>>

Claimed == {"leased", "running", "suspended"}
Withdrawn == {"blocked", "canceled", "deleted", "retired"}

(***************************************************************************)
(* The supervision of module Scheduler, reduced to the two facts this one  *)
(* reads: the task's state and who holds its live lease.  claim_next gives *)
(* the claim, start and resume need one, and whatever takes the task from  *)
(* its worker (complete, fail, the reaper, the owner) ends it.             *)
(***************************************************************************)
MoveTask(t, s) ==
  /\ s \in TaskStates
  /\ TaskMayMove(tasks[t], s)
  /\ tasks' = [tasks EXCEPT ![t] = s]
  /\ \/ /\ tasks[t] = "ready" /\ s = "leased"
        /\ claim[t] = NoHolder
        /\ \E w \in Workers : claim' = [claim EXCEPT ![t] = w]
     \/ /\ tasks[t] \in Claimed /\ s \in Claimed
        /\ s = "suspended" \/ claim[t] # NoHolder
        /\ UNCHANGED claim
     \/ /\ s \notin Claimed
        /\ claim' = IF tasks[t] \in Claimed \/ s \in Withdrawn
                      THEN [claim EXCEPT ![t] = NoHolder] ELSE claim
  /\ UNCHANGED <<ledger, usage, provider_effects, loop_state, void, disabled,
                 process, crashes>>

(* The lease on task://t expires or is released; acquire takes it anew. *)
LoseClaim(t) ==
  /\ claim[t] # NoHolder
  /\ claim' = [claim EXCEPT ![t] = NoHolder]
  /\ UNCHANGED <<ledger, usage, provider_effects, tasks, loop_state, void,
                 disabled, process, crashes>>

AcquireClaim(t, w) ==
  /\ claim[t] = NoHolder
  /\ claim' = [claim EXCEPT ![t] = w]
  /\ UNCHANGED <<ledger, usage, provider_effects, tasks, loop_state, void,
                 disabled, process, crashes>>

(* advance_loop, its guards taken as inputs. *)
AdvanceLoop(rule) ==
  /\ rule.from = loop_state
  /\ rule.to \in RunStates
  /\ loop_state' = rule.to
  /\ UNCHANGED <<ledger, usage, provider_effects, tasks, claim, void,
                 disabled, process, crashes>>

(***************************************************************************)
(* revoke_grant, expires_at, or the loss of the lease whose fence the      *)
(* grant requires: a lost fence is never current again (TakeoverFenced of  *)
(* module Scheduler), so all three are for good.                           *)
(***************************************************************************)
VoidGrant(g) ==
  /\ g \notin void
  /\ void' = void \cup {g}
  /\ UNCHANGED <<ledger, usage, provider_effects, tasks, claim, loop_state,
                 disabled, process, crashes>>

(* disable_principal and enable_principal (or the loss of its roles). *)
SwitchPrincipal(p) ==
  /\ disabled' = IF p \in disabled THEN disabled \ {p} ELSE disabled \cup {p}
  /\ UNCHANGED <<ledger, usage, provider_effects, tasks, claim, loop_state,
                 void, process, crashes>>

-----------------------------------------------------------------------------

InDispatch(p) ==
  \/ Bind(p) \/ Consume(p) \/ Lookup(p) \/ MarkReady(p)
  \/ Execute(p) \/ Checkpoint(p)

Recovery(p) == RecoverNext(p) \/ CheckpointAuthorizationFailure(p)

WorkflowNext ==
  \/ \E e \in Effects : Enqueue(e)
  \/ \E p \in Callers, e \in Effects : Dispatch(p, e)
  \/ \E p \in Recoverers : RecoverPending(p) \/ Recovery(p)
  \/ \E p \in Processes : InDispatch(p) \/ Crash(p)

SupervisionNext ==
  \/ \E t \in Tasks : \/ \E s \in TaskState : MoveTask(t, s)
                      \/ LoseClaim(t)
                      \/ \E w \in Workers : AcquireClaim(t, w)
  \/ \E rule \in LOOP_TRANSITIONS : AdvanceLoop(rule)
  \/ \E g \in MayVoid : VoidGrant(g)
  \/ \E p \in MayDisable : SwitchPrincipal(p)
  \/ \E g \in Grants, key \in DirectKeys : ConsumeDirectly(g, key)

Next == WorkflowNext \/ SupervisionNext

Spec == Init /\ [][Next]_vars

(***************************************************************************)
(* A process that is in dispatch and does not die goes on, and a trusted   *)
(* process keeps running recovery while anything is pending                *)
(* (docs/operations-runbook.md, "Restart Recovery").  Deaths are finite in *)
(* number (MaxCrashes).  Nothing is assumed of callers, tasks or grants.   *)
(***************************************************************************)
FairSpec ==
  /\ Spec
  /\ \A p \in Processes : WF_vars(InDispatch(p))
  /\ \A p \in Recoverers : WF_vars(Recovery(p)) /\ WF_vars(RecoverPending(p))

-----------------------------------------------------------------------------
(* What the workflow promises.                                             *)

(***************************************************************************)
(* enqueue, dispatch and the provider's execute: whatever is retried, by   *)
(* however many processes, a declared workflow step causes at most one     *)
(* external effect, and only an effect that consumed its grant causes one. *)
(***************************************************************************)
EffectOnce ==
  \A e \in Effects :
    provider_effects[e].rows > 0 =>
      /\ provider_effects[e].rows = 1
      /\ e \in capability_usage[GrantOf[e]]
      /\ \A f \in Effects \ {e} :
           Step(f) = Step(e) => provider_effects[f].rows = 0

(***************************************************************************)
(* _checkpoint, _checkpoint_authorization_failure and the 'ready' update:  *)
(* the outbox row, the step it is bound to and the receipt always tell the *)
(* same story, although a late process may still be working on the effect. *)
(***************************************************************************)
RowsAgree ==
  \A e \in Effects :
    LET receipt == effect_receipts[e]
    IN  /\ receipt = "none" <=> outbox[e] \in {"absent"} \cup PendingStatus
        /\ receipt # "none" => outbox[e] = StatusOf(receipt)
        /\ receipt \in Receipts => receipt = provider_effects[e].status
        /\ outbox[e] # "absent" =>
             workflow_steps[Step(e)] =
               [status |-> IF receipt = "none" THEN "queued"
                                               ELSE StatusOf(receipt),
                effect |-> e]

(***************************************************************************)
(* _consume_as_principal: used_count is the number of distinct uses, and   *)
(* never more than max_uses, also when the same effect is consumed again   *)
(* by a recovery scan or by two processes at once.                         *)
(***************************************************************************)
UsesCounted ==
  \A g \in Grants : /\ used_count[g] = Cardinality(capability_usage[g])
                    /\ used_count[g] <= MaxUses[g]

(***************************************************************************)
(* _retain_negative (docs/evaluation-plan.md: "no lost negative result"):  *)
(* every failed or denied effect is retained once, replays not at all.     *)
(***************************************************************************)
FailuresRetained ==
  negative_results =
    Cardinality({e \in Effects : effect_receipts[e] \in {"failed", "denied"}})

(***************************************************************************)
(* The workflow implements the contract: requested is the bound steps,     *)
(* authorized those whose bound effect has a recorded use, performed the   *)
(* provider's rows, outcome the bound effect's receipt.                    *)
(***************************************************************************)
Bound == {s \in Steps : workflow_steps[s].status # "absent"}

Contract == INSTANCE EffectContract WITH
  Performances <- Effects \X (1..2),
  requested <- Bound,
  authorized <- {s \in Bound :
                  LET e == workflow_steps[s].effect
                  IN  e \in capability_usage[GrantOf[e]]},
  performed <- [s \in Steps |->
                 {p \in Effects \X (1..2) :
                   Step(p[1]) = s /\ p[2] <= provider_effects[p[1]].rows}],
  outcome <- [s \in Steps |->
               IF s \in Bound THEN effect_receipts[workflow_steps[s].effect]
                              ELSE "none"]

(* The refinement: every behaviour of the outbox is one of the contract. *)
ImplementsContract == Contract!Spec

(***************************************************************************)
(* recover_pending: an effect that was enqueued gets a receipt in the end, *)
(* whatever crashed, was revoked, or aborted a scan half-way.              *)
(***************************************************************************)
PendingSettles ==
  \A e \in Effects : outbox[e] # "absent" ~> effect_receipts[e] # "none"

(***************************************************************************)
(* docs/operations-runbook.md: "If provider lookup proves the exact effect *)
(* already happened before sealing, recovery may checkpoint that existing  *)
(* receipt": recovery does not record a denial of an effect that happened. *)
(***************************************************************************)
DenialsAreReal ==
  [][\A e \in Effects :
       effect_receipts[e] = "none" /\ effect_receipts'[e] = "denied" =>
         provider_effects[e].rows = 0]_vars

(***************************************************************************)
(* README.md: "stale or terminal work cannot create a new external         *)
(* effect": when the provider acts, the task is executable and, for a      *)
(* worker, claimed by it.                                                  *)
(***************************************************************************)
NoStaleEffect ==
  [][\A e \in Effects :
       provider_effects'[e].rows > provider_effects[e].rows =>
         Authorizes(GrantOf[e])]_vars

=============================================================================
