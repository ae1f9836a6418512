----------------------------- MODULE Scheduler -----------------------------
(***************************************************************************)
(* Task supervision: TaskScheduler (scheduler.py), LeaseManager            *)
(* (leases.py) and the owner's task controls (kernel.py, control_task),    *)
(* over the rows of one SQLite database.                                   *)
(*                                                                         *)
(* Every operation of the code is one BEGIN IMMEDIATE transaction, so it   *)
(* is one atomic action here; an operation that raises rolls back and is a *)
(* disabled action.  Concurrency is the interleaving of transactions of    *)
(* several workers, the system's sweeps, the owner and the clock.          *)
(*                                                                         *)
(* Time is kept as what remains of it.  A lease row is active exactly when *)
(* its `left' is positive: the code only ever asks whether a row is        *)
(* unreleased and unexpired, so release and expiry both end in left = 0.   *)
(* A task's due_at is the remaining backoff, or NoDue for NULL.            *)
(***************************************************************************)
EXTENDS Integers, FiniteSets, Lifecycle

CONSTANTS
  NumTasks,      \* the tasks of the run, in order of creation
  Workers,       \* worker principals
  System,        \* the system principal, which may hold leases too
  OtherKeys,     \* resource keys that are not task claims
  AcquireKeys,   \* the keys LeaseManager.acquire is used on
  MaxAttempts,   \* TaskSpec.max_attempts, per task
  AttemptLimit,  \* bound: no max_attempts is greater
  RetryBase,     \* retry_base_seconds
  RetryMax,      \* retry_max_seconds
  SweepLimit,    \* the `limit' argument of the two sweeps
  MaxTTL,        \* bound: the longest ttl_seconds explored
  MaxFence,      \* bound: LeaseManager.acquire stops here
  MayCrash,      \* bound: the workers that may go down
  RunStates,     \* bound: the loop states the run explores
  Controls       \* bound: the control_task actions the owner takes

Tasks == 1..NumTasks

(* The resource key "task://t" is represented by t itself. *)
Keys == Tasks \cup OtherKeys

Holders == Workers \cup {System}

ControlTargets == {"blocked", "canceled", "deleted", "retired", "suspended"}

ASSUME SchedulerAssumption ==
  /\ NumTasks \in Nat \ {0}
  /\ OtherKeys \cap Tasks = {}
  /\ AcquireKeys \subseteq Keys
  /\ AttemptLimit \in Nat
  /\ MaxAttempts \in [Tasks -> 1..AttemptLimit]
  /\ RetryBase \in Nat \ {0}
  /\ RetryMax \in Nat /\ RetryMax >= RetryBase
  /\ SweepLimit \in Nat \ {0}
  /\ MaxTTL \in Nat \ {0}
  /\ MaxFence \in Nat
  /\ MayCrash \subseteq Workers
  /\ RunStates \subseteq LoopState
  /\ "ready" \in RunStates
  /\ Controls \subseteq ControlTargets \cup {"resume"}

VARIABLES
  tasks,             \* tasks table: state, attempt_count, due_at
  attempts,          \* attempts table, by task and attempt_number
  leases,            \* leases table, by resource_key
  negative_results,  \* the tasks that have a retained failure
  loop_state,        \* the parent run's loop_state
  crashed            \* the worker processes that are down

vars == <<tasks, attempts, leases, negative_results, loop_state, crashed>>

NoDue == -1
NoTask == 0

Numbers == 1..AttemptLimit

OpenStates == {"leased", "running"}
EndedStates == {"succeeded", "failed", "abandoned",
                "blocked", "canceled", "deleted", "retired"}

(***************************************************************************)
(* An attempt row.  `fence' is the fence of the TaskClaim that claim_next  *)
(* handed out with the attempt: the worker keeps it in memory and presents *)
(* it with every later call.                                               *)
(***************************************************************************)
AttemptRow ==
  [worker : Holders, fence : Nat,
   state : OpenStates \cup EndedStates \cup {"absent"}]

TaskRow == [state : TaskState, attempt_count : Nat, due : Int]

LeaseRow ==
  [task : Tasks \cup {NoTask}, holder : Holders, fence : Nat, left : Nat]

TypeOK ==
  /\ tasks \in [Tasks -> TaskRow]
  /\ \A t \in Tasks : tasks[t].attempt_count <= MaxAttempts[t]
  /\ attempts \in [Tasks -> [Numbers -> AttemptRow]]
  /\ leases \in [Keys -> LeaseRow]
  /\ negative_results \subseteq Tasks
  /\ loop_state \in LoopState
  /\ crashed \subseteq Workers

(***************************************************************************)
(* add_task leaves every task ready, with no attempt, no lease and no due  *)
(* time; run_ready has been applied.  A row not yet inserted has fence 0.  *)
(***************************************************************************)
Init ==
  /\ tasks = [t \in Tasks |->
               [state |-> "ready", attempt_count |-> 0, due |-> NoDue]]
  /\ attempts = [t \in Tasks |-> [n \in Numbers |->
                  [worker |-> System, fence |-> 0, state |-> "absent"]]]
  /\ leases = [k \in Keys |->
                [task |-> NoTask, holder |-> System, fence |-> 0, left |-> 0]]
  /\ negative_results = {}
  /\ loop_state = "ready"
  /\ crashed = {}

-----------------------------------------------------------------------------

(* LeaseManager._is_active: unreleased and unexpired. *)
Live(k) == leases[k].left > 0

DueElapsed(t) == tasks[t].due <= 0

RunExecutable == loop_state \in {"ready", "running"}

Open(t, n) == attempts[t][n].state \in OpenStates

(* Off by one: one attempt more than max_attempts. *)
ExhaustedLate(t) == tasks[t].attempt_count > MaxAttempts[t]

Exhausted(t) == tasks[t].attempt_count >= MaxAttempts[t]

(* _retry_due: exponential backoff, capped. *)
RetryDue(n) ==
  LET delay == RetryBase * 2^(IF n > 0 THEN n - 1 ELSE 0)
  IN  IF delay < RetryMax THEN delay ELSE RetryMax

(* Schedules the retry without a due time. *)
AfterFailureUndated(t, n) ==
  [tasks[t] EXCEPT !.state = IF Exhausted(t) THEN "failed"
                                             ELSE "retry_pending"]

(* The task row when attempt n has failed: retry later, or give up. *)
AfterFailure(t, n) ==
  IF Exhausted(t)
    THEN [tasks[t] EXCEPT !.state = "failed", !.due = NoDue]
    ELSE [tasks[t] EXCEPT !.state = "retry_pending", !.due = RetryDue(n)]

(* Takeover of an old row that forgets to advance its fence. *)
GrantSameFence(k, t, h, ttl) ==
  [leases EXCEPT ![k] =
    [task |-> t, holder |-> h, left |-> ttl,
     fence |-> IF leases[k].fence = 0 THEN 1 ELSE leases[k].fence]]

(* A row is inserted with fence 1; taking over an inactive row adds 1. *)
Grant(k, t, h, ttl) ==
  [leases EXCEPT ![k] = [task |-> t, holder |-> h,
                         fence |-> leases[k].fence + 1, left |-> ttl]]

Release(k) == [leases EXCEPT ![k].left = 0]

(* Forgets to end the attempts of a task taken from its worker. *)
EndNone(T, outcome) == attempts

(* UPDATE attempts ... WHERE task_id = ? AND ended_at IS NULL *)
EndOpen(T, outcome) ==
  [t \in Tasks |-> [n \in Numbers |->
    IF t \in T /\ Open(t, n) THEN [attempts[t][n] EXCEPT !.state = outcome]
                             ELSE attempts[t][n]]]

(* Only asks whether the worker holds the task's lease. *)
ClaimByHolder(t, n) ==
  /\ leases[t].task = t
  /\ leases[t].holder = attempts[t][n].worker
  /\ Live(t)

(***************************************************************************)
(* _require_claim: the lease row of the task is live and carries the       *)
(* claim's task, holder and fence, and the claim's attempt is still open.  *)
(***************************************************************************)
ClaimCurrent(t, n) ==
  LET claim == attempts[t][n]
  IN  /\ leases[t].task = t
      /\ leases[t].holder = claim.worker
      /\ leases[t].fence = claim.fence
      /\ Live(t)
      /\ Open(t, n)

(***************************************************************************)
(* claim_next orders by due_at (NULL first), then created_at, and takes    *)
(* the first row with attempts left.  The order among tasks whose backoff  *)
(* has elapsed is left open: only the remaining time is kept.              *)
(***************************************************************************)
Claimable(t) ==
  /\ tasks[t].state = "ready"
  /\ RunExecutable
  /\ DueElapsed(t)
  /\ ~Exhausted(t)

Precedes(t, u) ==
  /\ tasks[t].due = NoDue
  /\ tasks[u].due = NoDue => t < u

Selected(t) == Claimable(t) /\ \A u \in Tasks \ {t} :
                                 Claimable(u) => ~Precedes(u, t)

(* If the selected task's lease is live, claim_next returns None. *)
ClaimNext(w, ttl) ==
  /\ w \notin crashed
  /\ \E t \in Tasks :
       LET n == tasks[t].attempt_count + 1
       IN  /\ Selected(t)
           /\ ~Live(t)
           /\ TaskMayMove(tasks[t].state, "leased")
           /\ leases' = Grant(t, t, w, ttl)
           /\ attempts' = [attempts EXCEPT ![t][n] =
                            [worker |-> w, fence |-> leases[t].fence + 1,
                             state |-> "leased"]]
           /\ tasks' = [tasks EXCEPT ![t] =
                         [state |-> "leased", attempt_count |-> n,
                          due |-> NoDue]]
  /\ UNCHANGED <<negative_results, loop_state, crashed>>

Start(t, n) ==
  /\ attempts[t][n].worker \notin crashed
  /\ ClaimCurrent(t, n)
  /\ loop_state = "running"
  /\ TaskMayMove(tasks[t].state, "running")
  /\ tasks' = [tasks EXCEPT ![t].state = "running"]
  /\ attempts' = [attempts EXCEPT ![t][n].state = "running"]
  /\ UNCHANGED <<leases, negative_results, loop_state, crashed>>

Complete(t, n) ==
  /\ attempts[t][n].worker \notin crashed
  /\ ClaimCurrent(t, n)
  /\ TaskMayMove(tasks[t].state, "evidence_pending")
  /\ tasks' = [tasks EXCEPT ![t].state = "evidence_pending"]
  /\ attempts' = [attempts EXCEPT ![t][n].state = "succeeded"]
  /\ leases' = Release(t)
  /\ UNCHANGED <<negative_results, loop_state, crashed>>

(* fail moves to failed and, with attempts left, on to retry_pending. *)
Fail(t, n) ==
  /\ attempts[t][n].worker \notin crashed
  /\ ClaimCurrent(t, n)
  /\ TaskMayMove(tasks[t].state, "failed")
  /\ tasks' = [tasks EXCEPT ![t] = AfterFailure(t, n)]
  /\ attempts' = [attempts EXCEPT ![t][n].state = "failed"]
  /\ leases' = Release(t)
  /\ negative_results' = negative_results \cup {t}
  /\ UNCHANGED <<loop_state, crashed>>

-----------------------------------------------------------------------------

(* A sweep takes at most `limit' rows; which ones is left open. *)
SweepOf(S) ==
  {T \in SUBSET S : \/ T = S /\ Cardinality(S) <= SweepLimit
                    \/ Cardinality(T) = SweepLimit}

Retriable ==
  {t \in Tasks : /\ tasks[t].state = "retry_pending"
                 /\ RunExecutable
                 /\ DueElapsed(t)}

(* due_at is kept: it orders the promoted task in claim_next. *)
PromoteDueRetries ==
  /\ Retriable # {}
  /\ \E T \in SweepOf(Retriable) :
       tasks' = [t \in Tasks |->
                  IF t \in T THEN [tasks[t] EXCEPT !.state = "ready"]
                             ELSE tasks[t]]
  /\ UNCHANGED <<attempts, leases, negative_results, loop_state, crashed>>

(* Misses a claim whose worker died before it called start. *)
AbandonedRunning ==
  {t \in Tasks : tasks[t].state = "running" /\ ~Live(t)}

Abandoned ==
  {t \in Tasks : tasks[t].state \in {"leased", "running"} /\ ~Live(t)}

(***************************************************************************)
(* reap_expired: any holder's live lease on task://t keeps t from the      *)
(* sweep.  Every open attempt of a swept task ends.                        *)
(***************************************************************************)
ReapExpired ==
  /\ Abandoned # {}
  /\ \E T \in SweepOf(Abandoned) :
       /\ tasks' = [t \in Tasks |->
            IF t \in T THEN AfterFailure(t, tasks[t].attempt_count)
                       ELSE tasks[t]]
       /\ attempts' = EndOpen(T, "abandoned")
       /\ negative_results' = negative_results \cup T
  /\ UNCHANGED <<leases, loop_state, crashed>>

-----------------------------------------------------------------------------

(***************************************************************************)
(* LeaseManager.  A live row held by the same holder for the same task is  *)
(* returned as it is (a replay changes nothing); a live row of anyone else *)
(* refuses.  The key and the task are independent arguments: any task of   *)
(* the project may be named, in any state.                                 *)
(***************************************************************************)
Acquire(k, t, h, ttl) ==
  /\ h \notin crashed
  /\ ~Live(k)
  /\ leases[k].fence < MaxFence
  /\ leases' = Grant(k, t, h, ttl)
  /\ UNCHANGED <<tasks, attempts, negative_results, loop_state, crashed>>

(* Revives a row that has already expired, under its old fence. *)
RenewLate(k, ttl) ==
  /\ leases[k].holder \notin crashed
  /\ leases[k].fence > 0
  /\ leases' = [leases EXCEPT ![k].left = ttl]
  /\ UNCHANGED <<tasks, attempts, negative_results, loop_state, crashed>>

(* renew and release: exact holder and fence, on a row that is active. *)
Renew(k, ttl) ==
  /\ leases[k].holder \notin crashed
  /\ Live(k)
  /\ leases' = [leases EXCEPT ![k].left = ttl]
  /\ UNCHANGED <<tasks, attempts, negative_results, loop_state, crashed>>

ReleaseLease(k) ==
  /\ leases[k].holder \notin crashed
  /\ Live(k)
  /\ leases' = Release(k)
  /\ UNCHANGED <<tasks, attempts, negative_results, loop_state, crashed>>

-----------------------------------------------------------------------------

(***************************************************************************)
(* control_task.  A target that takes the task away from its worker also   *)
(* releases every lease that names the task, on whatever key, and ends its *)
(* open attempts; suspending keeps both.                                   *)
(***************************************************************************)
Control(t, target) ==
  LET withdraws == target # "suspended"
  IN  /\ TaskMayMove(tasks[t].state, target)
      /\ tasks' = [tasks EXCEPT ![t].state = target]
      /\ leases' = [k \in Keys |->
           IF withdraws /\ leases[k].task = t
             THEN [leases[k] EXCEPT !.left = 0] ELSE leases[k]]
      /\ attempts' = IF withdraws THEN EndOpen({t}, target) ELSE attempts
      /\ UNCHANGED <<negative_results, loop_state, crashed>>

(* Resume: the live claim it asks for is any live lease of task://t for t. *)
Resume(t) ==
  /\ \/ /\ tasks[t].state = "blocked"
        /\ tasks' = [tasks EXCEPT ![t].state = "ready"]
     \/ /\ tasks[t].state = "suspended"
        /\ leases[t].task = t
        /\ Live(t)
        /\ tasks' = [tasks EXCEPT ![t].state = "leased"]
  /\ UNCHANGED <<attempts, leases, negative_results, loop_state, crashed>>

(***************************************************************************)
(* accept_task_evidence and confirm_task_delivery: the evidence, evaluator *)
(* and integration facts they check are inputs here.                       *)
(***************************************************************************)
AcceptTaskEvidence(t, target) ==
  /\ tasks[t].state \in {"evidence_pending", "evaluator_pending"}
  /\ target \in {"evaluator_pending", "integration_pending"}
  /\ TaskMayMove(tasks[t].state, target)
  /\ tasks' = [tasks EXCEPT ![t].state = target]
  /\ UNCHANGED <<attempts, leases, negative_results, loop_state, crashed>>

ConfirmTaskDelivery(t) ==
  /\ tasks[t].state = "integration_pending"
  /\ TaskMayMove(tasks[t].state, "delivered")
  /\ tasks' = [tasks EXCEPT ![t].state = "delivered"]
  /\ UNCHANGED <<attempts, leases, negative_results, loop_state, crashed>>

(***************************************************************************)
(* advance_loop, as the scheduler sees it: the run takes a rule of the     *)
(* loop table.  lease_valid (any live lease that names a task of the run)  *)
(* and repair_route_selected are facts of this module; the other guards    *)
(* and the circuit breaker of task_started are inputs.                     *)
(***************************************************************************)
AdvanceLoop(rule) ==
  /\ rule.from = loop_state
  /\ rule.to \in RunStates
  /\ "lease_valid" \in rule.guards =>
       \E k \in Keys : /\ Live(k)
                       /\ leases[k].task \in Tasks
                       /\ leases[k].holder \notin crashed
  /\ "repair_route_selected" \in rule.guards => negative_results # {}
  /\ loop_state' = rule.to
  /\ UNCHANGED <<tasks, attempts, leases, negative_results, crashed>>

(* The clock: every live lease and every pending backoff gets closer. *)
Tick ==
  /\ \/ \E k \in Keys : Live(k)
     \/ \E t \in Tasks : tasks[t].due > 0
  /\ leases' = [k \in Keys |->
       IF Live(k) THEN [leases[k] EXCEPT !.left = @ - 1] ELSE leases[k]]
  /\ tasks' = [t \in Tasks |->
       IF tasks[t].due > 0 THEN [tasks[t] EXCEPT !.due = @ - 1]
                           ELSE tasks[t]]
  /\ UNCHANGED <<attempts, negative_results, loop_state, crashed>>

(* A worker process dies, and comes back under the same principal. *)
Crash(w) ==
  /\ w \notin crashed
  /\ crashed' = crashed \cup {w}
  /\ UNCHANGED <<tasks, attempts, leases, negative_results, loop_state>>

Restart(w) ==
  /\ w \in crashed
  /\ crashed' = crashed \ {w}
  /\ UNCHANGED <<tasks, attempts, leases, negative_results, loop_state>>

-----------------------------------------------------------------------------
(* What RuntimeKernel.replay(verify=True) asks of the operational columns, *)
(* which events do not carry and which it can only cross-check.            *)

FailureStates == {"failed", "abandoned"}

DueMustBeNull ==
  {"leased", "running", "suspended", "evidence_pending",
   "evaluator_pending", "integration_pending", "delivered", "failed"}

(* The attempt numbered attempt_count is one that failed. *)
LatestFailed(t) ==
  /\ tasks[t].attempt_count > 0
  /\ attempts[t][tasks[t].attempt_count].state \in FailureStates

(* _verify_due_at *)
VerifyDueAt(t) ==
  LET row == tasks[t]
  IN  /\ row.state = "retry_pending" =>
           /\ row.due # NoDue
           /\ LatestFailed(t)
           /\ row.attempt_count < MaxAttempts[t]
      /\ row.state = "failed" =>
           LatestFailed(t) /\ row.attempt_count >= MaxAttempts[t]
      /\ row.due # NoDue => row.state \notin DueMustBeNull /\ LatestFailed(t)

(***************************************************************************)
(* _verify_task_operational_projections: gapless attempts, as many as      *)
(* attempt_count says, and a retained result behind every failed one.      *)
(* Left out are the checks of columns that the failing transaction writes  *)
(* together: last_error_fingerprint, the failure_id of an attempt that did *)
(* not fail, the owner of a negative result, and due_at after ended_at.    *)
(***************************************************************************)
VerifyOperational(t) ==
  LET rows == {n \in Numbers : attempts[t][n].state # "absent"}
  IN  /\ rows = 1..tasks[t].attempt_count
      /\ \A n \in rows :
           attempts[t][n].state \in FailureStates => t \in negative_results
      /\ VerifyDueAt(t)

-----------------------------------------------------------------------------

WorkerNext ==
  \/ \E w \in Workers, ttl \in 1..MaxTTL : ClaimNext(w, ttl)
  \/ \E t \in Tasks, n \in Numbers : Start(t, n) \/ Complete(t, n) \/ Fail(t, n)
  \/ \E w \in MayCrash : Crash(w) \/ Restart(w)

LeaseNext ==
  \/ \E k \in AcquireKeys, t \in Tasks, h \in Holders, ttl \in 1..MaxTTL :
       Acquire(k, t, h, ttl)
  \/ \E k \in Keys, ttl \in 1..MaxTTL : Renew(k, ttl)
  \/ \E k \in Keys : ReleaseLease(k)

SystemNext == PromoteDueRetries \/ ReapExpired \/ Tick

KernelNext ==
  \/ \E t \in Tasks : \/ \E c \in Controls \ {"resume"} : Control(t, c)
                      \/ "resume" \in Controls /\ Resume(t)
                      \/ \E s \in TaskState : AcceptTaskEvidence(t, s)
                      \/ ConfirmTaskDelivery(t)
  \/ \E rule \in LOOP_TRANSITIONS : AdvanceLoop(rule)

Next == WorkerNext \/ LeaseNext \/ SystemNext \/ KernelNext

Spec == Init /\ [][Next]_vars

(***************************************************************************)
(* scheduler.py offers primitives and leaves their cadence to an external  *)
(* supervisor, so that time passes and that the two sweeps keep being run  *)
(* are the only fairness assumed; no worker and no owner has to act.       *)
(***************************************************************************)
FairSpec ==
  /\ Spec
  /\ WF_vars(Tick)
  /\ WF_vars(PromoteDueRetries)
  /\ WF_vars(ReapExpired)

-----------------------------------------------------------------------------
(* What the scheduler promises.                                            *)

Claimed == {"leased", "running", "suspended"}

(***************************************************************************)
(* The attempts table and the tasks table agree at all times: a task that  *)
(* is leased, running or suspended has exactly one open attempt, the one   *)
(* numbered attempt_count; any other task has none; and there is a row for *)
(* each of 1..attempt_count.  claim_next, start, complete, fail,           *)
(* reap_expired and control_task all update the two tables separately.     *)
(***************************************************************************)
AttemptLedger ==
  \A t \in Tasks, n \in Numbers :
    /\ attempts[t][n].state = "absent" <=> n > tasks[t].attempt_count
    /\ Open(t, n) <=> /\ n = tasks[t].attempt_count
                      /\ tasks[t].state \in Claimed

(***************************************************************************)
(* Fencing (claim_next, LeaseManager.acquire, _require_claim): a later     *)
(* attempt of a task was claimed under a strictly greater fence than every *)
(* earlier one, no claim is ahead of the task's lease row, and a row that  *)
(* carries a claim's fence carries its worker and its task.  So two claims *)
(* of a task are never current together, however they were obtained.       *)
(***************************************************************************)
ClaimsFenced ==
  \A t \in Tasks : \A n \in 1..tasks[t].attempt_count :
    LET claim == attempts[t][n]
    IN  /\ claim.fence <= leases[t].fence
        /\ claim.fence = leases[t].fence =>
             leases[t].holder = claim.worker /\ leases[t].task = t
        /\ \A m \in 1..tasks[t].attempt_count :
             n < m => claim.fence < attempts[t][m].fence

(***************************************************************************)
(* fail and reap_expired: a retry is only ever scheduled for a task that   *)
(* has attempts left, and a task only fails for good with none left.       *)
(***************************************************************************)
RetryBudget ==
  \A t \in Tasks :
    LET used == tasks[t].attempt_count
    IN  /\ tasks[t].state = "retry_pending" => used < MaxAttempts[t]
        /\ tasks[t].state = "failed" => used = MaxAttempts[t]

(***************************************************************************)
(* Replay after a crash: whatever sequence of claims, failures, sweeps and *)
(* owner controls came before, the operational columns and the attempts    *)
(* and negative_results ledgers, written by different operations, pass the *)
(* cross-check of _verify_task_operational_projections, as far as it is in *)
(* VerifyOperational (replay fails closed, and repair starts with it).     *)
(***************************************************************************)
ReplayVerifies == \A t \in Tasks : VerifyOperational(t)

(***************************************************************************)
(* complete: work that awaits evidence, evaluation or integration, or is   *)
(* delivered, is the work of the newest attempt, and that attempt ended    *)
(* succeeded; no late or superseded worker put it there.                   *)
(***************************************************************************)
SettledBySuccess ==
  \A t \in Tasks :
    tasks[t].state \in {"evidence_pending", "evaluator_pending",
                        "integration_pending", "delivered"} =>
      /\ tasks[t].attempt_count > 0
      /\ attempts[t][tasks[t].attempt_count].state = "succeeded"

(***************************************************************************)
(* complete and fail update an attempt by its id alone; reap_expired and   *)
(* control_task by task: none of them ever rewrites an attempt that has    *)
(* ended, whatever the order in which a late worker, the sweep and the     *)
(* owner arrive.                                                           *)
(***************************************************************************)
AttemptOutcomeFinal ==
  [][\A t \in Tasks, n \in Numbers :
       attempts[t][n].state \in EndedStates =>
         attempts'[t][n] = attempts[t][n]]_vars

(***************************************************************************)
(* acquire, renew, release and claim_next: a lease row's fence never goes  *)
(* back, and a row changes hands, changes task or comes back to life only  *)
(* under a greater fence, so that whoever held it before can be told apart.*)
(***************************************************************************)
TakeoverFenced ==
  [][\A k \in Keys :
       /\ leases'[k].fence >= leases[k].fence
       /\ leases'[k].fence = leases[k].fence =>
            /\ leases'[k].holder = leases[k].holder
            /\ leases'[k].task = leases[k].task
            /\ leases'[k].left > 0 => leases[k].left > 0]_vars

(***************************************************************************)
(* reap_expired with promote_due_retries: while the run stays executable,  *)
(* a claim whose worker is down does not hold its task: the task is in the *)
(* end ready again, out of attempts, or the owner has taken it, unless the *)
(* worker comes back.                                                      *)
(***************************************************************************)
Orphaned(t) ==
  /\ tasks[t].state \in {"leased", "running"}
  /\ leases[t].holder \in crashed

CrashedWorkReturns ==
  \A t \in Tasks :
    Orphaned(t) ~> \/ tasks[t].state \notin
                       {"leased", "running", "retry_pending"}
                  \/ leases[t].holder \notin crashed
                  \/ ~RunExecutable

(***************************************************************************)
(* kernel.py, control_task's docstring: "resuming a suspended task         *)
(* requires that exact claim to remain current".                           *)
(***************************************************************************)
ResumeKeepsClaim ==
  [][\A t \in Tasks :
       tasks[t].state = "suspended" /\ tasks'[t].state = "leased" =>
         ClaimCurrent(t, tasks[t].attempt_count)]_vars

=============================================================================
