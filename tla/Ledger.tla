------------------------------- MODULE Ledger -------------------------------
(***************************************************************************)
(* The event ledger (store.py, SQLiteStore), the projections the kernel    *)
(* and the scheduler keep beside it, and their replay and repair           *)
(* (replay.py, ProjectionReplayer).                                        *)
(*                                                                         *)
(* A core command is one BEGIN IMMEDIATE transaction: it looks its         *)
(* idempotency key up, decides on the projection row, appends one event    *)
(* (a failed attempt: two) at the version the row carries, and writes the  *)
(* row and the key.  It is one action; a command that raises is rolled     *)
(* back and disabled.  No other connection writes inside it, but its clock *)
(* runs on: the session is checked at one instant and the event is stamped *)
(* at a later one.                                                         *)
(*                                                                         *)
(* The hash chain is abstracted to the order of the events: the store      *)
(* never updates or deletes one.  The projections are mutable tables, and  *)
(* the faults are those the repair is for: a row that is stale, lost or    *)
(* without events.                                                         *)
(***************************************************************************)
EXTENDS Lifecycle, Naturals, FiniteSets, Sequences, FiniteSetsExt

CONSTANTS
  Tasks,
  Sessions,
  SessionRoles,  \* the roles of the principal behind a session
  ExpiresAt,     \* expires_at of a session; issued_at is 0
  Keys,          \* idempotency keys the commands carry
  RunEvents,     \* bound: the loop events sent
  TaskTargets,   \* bound: the task states commands move to
  Faulty,        \* bound: the aggregates whose row a fault may damage
  MaxNow,        \* bound: the clock
  MaxEvents,     \* bound: the events appended
  MaxFaults      \* bound: the faults met

Aggregates == {"goal", "run"} \cup Tasks

Role ==
  {"owner", "worker", "evaluator", "observer", "release", "system"}

ASSUME LedgerAssumption ==
  /\ {"goal", "run"} \cap Tasks = {}
  /\ SessionRoles \in [Sessions -> SUBSET Role]
  /\ ExpiresAt \in [Sessions -> Nat]
  /\ "none" \notin Keys
  /\ RunEvents \subseteq {r.event : r \in LOOP_TRANSITIONS}
  /\ TaskTargets \subseteq TaskState
  /\ Faulty \subseteq Aggregates
  /\ MaxNow \in Nat /\ MaxEvents \in Nat /\ MaxFaults \in Nat

VARIABLES
  now,
  revoked_at,     \* of each session, Never while it is not revoked
  events,         \* the events table, by seq
  idempotency,    \* idempotency_records: <<scope, aggregate, key>>
  rows,           \* goals, runs and tasks: state and aggregate_version
  attempt_count,  \* the column of tasks
  attempts,       \* how many rows of attempts a task has
  faults          \* faults met

ledger == <<events, idempotency>>
projections == <<rows, attempt_count, attempts>>
vars == <<now, revoked_at, ledger, projections, faults>>

NoRow == [state |-> "none", version |-> 0]
Row(state, version) == [state |-> state, version |-> version]

Never == MaxNow + 1

Exists(a) == rows[a] # NoRow

(* The history of an aggregate, by the seq of its events. *)
HistoryOf(a) == {i \in DOMAIN events : events[i].agg = a}

(* SELECT COALESCE(MAX(aggregate_version), 0) of an aggregate. *)
HeadVersion(a) == Max({0} \cup {events[i].version : i \in HistoryOf(a)})

(***************************************************************************)
(* The claims of a task: the scheduler's moves from ready to leased, each  *)
(* of which opened an attempt.                                             *)
(***************************************************************************)
Claims(t) ==
  {i \in HistoryOf(t) :
     events[i].from = "ready" /\ events[i].target = "leased"}

Init ==
  /\ now = 0
  /\ revoked_at = [s \in Sessions |-> Never]
  /\ events = <<>>
  /\ idempotency = {}
  /\ rows = [a \in Aggregates |-> NoRow]
  /\ attempt_count = [t \in Tasks |-> 0]
  /\ attempts = [t \in Tasks |-> 0]
  /\ faults = 0

-----------------------------------------------------------------------------
(* Who may append what. *)

RunEventRoles ==
  [owner_intent_received      |-> {"owner", "system"},
   goal_compiled              |-> {"system"},
   run_ready                  |-> {"system"},
   task_started               |-> {"worker", "system"},
   human_approval_requested   |-> {"worker", "system"},
   human_approval_received    |-> {"owner", "system"},
   evidence_submitted         |-> {"worker", "system"},
   evaluator_verdict_received |-> {"evaluator"},
   ci_check_started           |-> {"release", "system"},
   ci_check_completed         |-> {"release", "system"},
   deploy_directory_updated   |-> {"release"},
   service_restart_attempted  |-> {"release"},
   runtime_freshness_verified |-> {"observer"},
   runtime_drift_detected     |-> {"observer", "system"},
   delivery_confirmed         |-> {"release"},
   improvement_requested      |-> {"owner", "system"},
   resume_requested           |-> {"owner", "system"},
   capability_gap_detected    |-> {"system"},
   missing_state_detected     |-> {"system"},
   circuit_breaker_triggered  |-> {"worker", "system"}]

TaskTargetRoles ==
  [leased              |-> {"worker", "system"},
   running             |-> {"worker", "system"},
   evidence_pending    |-> {"worker", "system"},
   evaluator_pending   |-> {"evaluator", "system"},
   integration_pending |-> {"evaluator", "system"},
   delivered           |-> {"release"},
   retry_pending       |-> {"worker", "system"},
   failed              |-> {"worker", "system"},
   blocked             |-> {"owner", "system"},
   canceled            |-> {"owner", "system"},
   deleted             |-> {"owner", "system"},
   retired             |-> {"owner", "system"},
   suspended           |-> {"owner", "worker", "system"},
   ready               |-> {"system"}]

CoreRoles(e) ==
  CASE e.agg = "goal" -> {"owner"}
    [] e.agg = "run" -> RunEventRoles[e.type]
    [] e.agg \in Tasks /\ e.type = "task_added" -> {"owner", "system"}
    [] OTHER -> TaskTargetRoles[e.target]
                  \cup (IF /\ e.handler = "runtime_kernel"
                           /\ e.target \in {"leased", "ready"}
                          THEN {"owner"} ELSE {})

HandlerSupports(e) ==
  \/ e.handler = "runtime_kernel"
  \/ /\ e.handler = "task_scheduler"
     /\ e.agg \in Tasks
     /\ e.type = "task_state_changed"

Live(s, at) == revoked_at[s] = Never /\ at < ExpiresAt[s]

(* _authorize_core_event, at the instant it reads the session. *)
Authorized(e, at) ==
  /\ HandlerSupports(e)
  /\ Live(e.session, at)
  /\ SessionRoles[e.session] \cap CoreRoles(e) # {}

(* The role it records: the first one that is allowed. *)
AuthorizedRole(e) ==
  CHOOSE r \in SessionRoles[e.session] \cap CoreRoles(e) : TRUE

-----------------------------------------------------------------------------
(* Appending. *)

Event(a, type, from, target, guards, handler, s, key) ==
  [agg |-> a, type |-> type, from |-> from, target |-> target,
   guards |-> guards, handler |-> handler, session |-> s, key |-> key]

Stamped(e, version, occurred) ==
  [agg |-> e.agg, type |-> e.type, from |-> e.from, target |-> e.target,
   guards |-> e.guards, handler |-> e.handler, session |-> e.session,
   key |-> e.key, version |-> version, role |-> AuthorizedRole(e),
   occurred |-> occurred]

(* Mutant: both events of a transaction take the version after the head. *)
AppendSameVersion(new, late) ==
  events \o [i \in DOMAIN new |->
    Stamped(new[i], HeadVersion(new[i].agg) + 1,
            IF late # 0 /\ i >= late THEN now + 1 ELSE now)]

AppendEvents(new, late) ==
  events \o [i \in DOMAIN new |->
    Stamped(new[i], HeadVersion(new[i].agg) + i,
            IF late # 0 /\ i >= late THEN now + 1 ELSE now)]

(* Mutant: append at the head, whatever version the caller read. *)
AppendsBlindly(new, expected, late) ==
  /\ Len(events) + Len(new) <= MaxEvents
  /\ late = 0 \/ now < MaxNow
  /\ \A i \in DOMAIN new :
       Authorized(new[i], IF late # 0 /\ i > late THEN now + 1 ELSE now)
  /\ events' = AppendEvents(new, late)
  /\ now' = IF late = 0 THEN now ELSE now + 1

(***************************************************************************)
(* append_event, for the events of one transaction: every one is           *)
(* authorized before it is stamped, and continues the history of its       *)
(* aggregate from the version the caller read.  When late is not 0 the     *)
(* clock moves between the authorization and the stamp of event late.      *)
(***************************************************************************)
Appends(new, expected, late) ==
  /\ Len(events) + Len(new) <= MaxEvents
  /\ late = 0 \/ now < MaxNow
  /\ HeadVersion(new[1].agg) = expected
  /\ \A i \in DOMAIN new :
       Authorized(new[i], IF late # 0 /\ i > late THEN now + 1 ELSE now)
  /\ events' = AppendEvents(new, late)
  /\ now' = IF late = 0 THEN now ELSE now + 1

(* get_idempotent_result: a recorded key answers and the command stops. *)
Unanswered(scope, a, key) == <<scope, a, key>> \notin idempotency

(* Mutant: the answer is not saved. *)
SaveNothing(scope, a, key) == idempotency' = idempotency

SaveAnswer(scope, a, key) ==
  idempotency' = idempotency \cup {<<scope, a, key>>}

-----------------------------------------------------------------------------
(* Core commands. *)

CreateGoal(s, key, late) ==
  /\ Unanswered("goal.create", "goal", key)
  /\ ~ Exists("goal")
  /\ Appends(<<Event("goal", "goal_created", "none", "none", {},
                     "runtime_kernel", s, key)>>, 0, late)
  /\ rows' = [rows EXCEPT !["goal"] = Row("compiled", 1)]
  /\ SaveAnswer("goal.create", "goal", key)
  /\ UNCHANGED <<revoked_at, attempt_count, attempts, faults>>

CreateRun(s, key, late) ==
  /\ Unanswered("run.create", "run", key)
  /\ Exists("goal")
  /\ Appends(<<Event("run", "owner_intent_received", "none", "none", {},
                     "runtime_kernel", s, key)>>, 0, late)
  /\ ~ Exists("run")
  /\ rows' = [rows EXCEPT !["run"] = Row("intake", 1)]
  /\ SaveAnswer("run.create", "run", key)
  /\ UNCHANGED <<revoked_at, attempt_count, attempts, faults>>

(* The INSERT fails on a row that exists, as in create_run. *)
AddTask(t, s, key, late) ==
  /\ Unanswered("task.add", t, key)
  /\ Exists("goal") /\ Exists("run")
  /\ rows["run"].state \notin {"delivered", "improvement_pending"}
  /\ Appends(<<Event(t, "task_added", "none", "none", {},
                     "runtime_kernel", s, key)>>, 0, late)
  /\ ~ Exists(t)
  /\ rows' = [rows EXCEPT ![t] = Row("ready", 1)]
  /\ attempt_count' = [attempt_count EXCEPT ![t] = 0]
  /\ SaveAnswer("task.add", t, key)
  /\ UNCHANGED <<revoked_at, attempts, faults>>

(***************************************************************************)
(* advance_loop.  The guards are resolved from persisted facts (Delivery); *)
(* a rule fires only when all it names hold, and the event records them.   *)
(***************************************************************************)
AdvanceLoop(rule, s, key, late) ==
  /\ Exists("run")
  /\ Unanswered("run.event", "run", key)
  /\ rule.from = rows["run"].state
  /\ Appends(<<Event("run", rule.event, "none", "none", rule.guards,
                     "runtime_kernel", s, key)>>,
             rows["run"].version, late)
  /\ rows' = [rows EXCEPT !["run"] =
                Row(rule.to, rows["run"].version + 1)]
  /\ SaveAnswer("run.event", "run", key)
  /\ UNCHANGED <<revoked_at, attempt_count, attempts, faults>>

(***************************************************************************)
(* The moves of a task the kernel makes, by the command that makes them,   *)
(* and the roles that command asks for.                                    *)
(***************************************************************************)
KernelScope(from, to) ==
  CASE from \in {"evidence_pending", "evaluator_pending"}
         /\ to \in {"evaluator_pending", "integration_pending"}
         -> "task.evidence"
    [] to = "delivered" -> "task.delivery"
    [] \/ to \in {"blocked", "canceled", "deleted", "retired", "suspended"}
       \/ from = "blocked" /\ to = "ready"
       \/ from = "suspended" /\ to = "leased" -> "task.control"
    [] OTHER -> "none"

CommandRoles(scope) ==
  CASE scope = "task.evidence" -> {"evaluator", "system"}
    [] scope = "task.delivery" -> {"release"}
    [] scope = "task.control"  -> {"owner", "system"}

KernelMove(t, to, s, key, late) ==
  LET from == rows[t].state
      scope == KernelScope(from, to)
  IN  /\ Exists(t)
      /\ scope # "none"
      /\ Unanswered(scope, t, key)
      /\ SessionRoles[s] \cap CommandRoles(scope) # {}
      /\ TaskMayMove(from, to)
      /\ Appends(<<Event(t, "task_state_changed", from, to, {},
                         "runtime_kernel", s, key)>>,
                 rows[t].version, late)
      /\ rows' = [rows EXCEPT ![t] = Row(to, rows[t].version + 1)]
      /\ SaveAnswer(scope, t, key)
      /\ UNCHANGED <<revoked_at, attempt_count, attempts, faults>>

(***************************************************************************)
(* The moves the scheduler makes in one transaction: claim, start,         *)
(* complete, fail, promote and reap.  A failure that may be retried and an *)
(* abandoned last attempt pass through a state in between.                 *)
(***************************************************************************)
SchedulerPaths ==
  {<<"ready", "leased">>, <<"leased", "running">>,
   <<"running", "evidence_pending">>, <<"running", "failed">>,
   <<"running", "failed", "retry_pending">>, <<"retry_pending", "ready">>}
  \cup {<<s, "retry_pending">> : s \in {"leased", "running"}}
  \cup {<<s, "retry_pending", "failed">> : s \in {"leased", "running"}}

(* _transition carries no idempotency key; a claim opens an attempt. *)
SchedulerMove(t, path, s, late) ==
  LET moves == [i \in 1..(Len(path) - 1) |->
                  Event(t, "task_state_changed", path[i], path[i + 1], {},
                        "task_scheduler", s, "none")]
      opens == IF path[2] = "leased" THEN 1 ELSE 0
  IN  /\ Exists(t)
      /\ rows[t].state = path[1]
      /\ late <= Len(moves)
      /\ Appends(moves, rows[t].version, late)
      /\ rows' = [rows EXCEPT ![t] =
                    Row(path[Len(path)], rows[t].version + Len(moves))]
      /\ attempt_count' = [attempt_count EXCEPT ![t] = @ + opens]
      /\ attempts' = [attempts EXCEPT ![t] = @ + opens]
      /\ UNCHANGED <<revoked_at, idempotency, faults>>

RevokeSession(s) ==
  /\ revoked_at[s] = Never
  /\ revoked_at' = [revoked_at EXCEPT ![s] = now]
  /\ UNCHANGED <<now, ledger, projections, faults>>

Tick ==
  /\ now < MaxNow
  /\ now' = now + 1
  /\ UNCHANGED <<revoked_at, ledger, projections, faults>>

-----------------------------------------------------------------------------
(* verify_event_chain: what it asks of the session of a core event. *)

(* Mutant: the session must still stand. *)
SessionStillStands(e) ==
  e.occurred < ExpiresAt[e.session] /\ revoked_at[e.session] = Never

SessionStoodThen(e) ==
  /\ e.occurred < ExpiresAt[e.session]
  /\ revoked_at[e.session] >= e.occurred

EventVerifies(e) ==
  /\ HandlerSupports(e)
  /\ e.role \in CoreRoles(e)
  /\ SessionStoodThen(e)

ChainVerifies == \A i \in DOMAIN events : EventVerifies(events[i])

-----------------------------------------------------------------------------
(* Replay: the rows a history stands for. *)

FirstEvent(a) ==
  CASE a = "goal" -> "goal_created"
    [] a = "run" -> "owner_intent_received"
    [] OTHER -> "task_added"

FirstState(a) ==
  CASE a = "goal" -> "compiled" [] a = "run" -> "intake" [] OTHER -> "ready"

(* What must have been replayed before the first event of an aggregate. *)
Parents(a) ==
  CASE a = "goal" -> {} [] a = "run" -> {"goal"} [] OTHER -> {"goal", "run"}

(* _apply_goal, _apply_run, _apply_task: the states an event leads to. *)
Successors(replayed, e) ==
  LET row == replayed[e.agg]
  IN  CASE row = NoRow ->
             {to \in {FirstState(e.agg)} :
                /\ e.type = FirstEvent(e.agg)
                /\ \A p \in Parents(e.agg) : replayed[p] # NoRow}
        [] row # NoRow /\ e.agg = "goal" -> {}
        [] row # NoRow /\ e.agg = "run" ->
             {r.to : r \in {q \in LOOP_TRANSITIONS :
                /\ q.from = row.state /\ q.event = e.type
                /\ q.guards \subseteq e.guards}}
        [] OTHER ->
             {to \in {e.target} :
                /\ e.type = "task_state_changed"
                /\ e.from = row.state
                /\ TaskMayMove(row.state, to)}

ReplayStep(acc, e) ==
  LET next == Successors(acc.rows, e)
  IN  IF /\ acc.ok
         /\ e.version = acc.rows[e.agg].version + 1
         /\ next # {}
        THEN [acc EXCEPT !.rows[e.agg] =
                Row(CHOOSE to \in next : TRUE, e.version)]
        ELSE [acc EXCEPT !.ok = FALSE]

(* replay: the rows after each event of the history, from the first on. *)
Replay(history) ==
  LET after[n \in 0..Len(history)] ==
        IF n = 0 THEN [ok |-> TRUE, rows |-> [a \in Aggregates |-> NoRow]]
                 ELSE ReplayStep(after[n - 1], history[n])
  IN  after

Replayed == Replay(events)[Len(events)]

-----------------------------------------------------------------------------
(* Repair. *)

ExecutionStates ==
  {"leased", "running", "suspended", "evidence_pending",
   "evaluator_pending", "integration_pending", "retry_pending", "failed",
   "delivered"}

(* Mutant: secondary rows are asked for, the history is not. *)
SafeToRebuildUnread(t) == attempts[t] = 0

(* _require_safe_missing_task_rebuild *)
SafeToRebuild(t) ==
  /\ attempts[t] = 0
  /\ \A i \in HistoryOf(t) : events[i].target \notin ExecutionStates

(***************************************************************************)
(* _verify_projections_in_transaction: the same aggregates in the same     *)
(* state and version, and no attempt missing or uncounted.                 *)
(***************************************************************************)
VerifyProjections(expected, actual, counted) ==
  /\ \A a \in Aggregates : actual[a] = expected[a]
  /\ \A t \in Tasks : expected[t] # NoRow => counted[t] = attempts[t]

(***************************************************************************)
(* repair: replays the verified chain, refuses rows it has no events for   *)
(* and missing tasks whose counters it would have to guess, rewrites the   *)
(* rows, and rolls back unless the whole verification then passes.  A row  *)
(* that exists keeps its attempt_count; one that is rebuilt starts at 0.   *)
(***************************************************************************)
Repair(s) ==
  LET replayed == Replayed
      missing == {t \in Tasks : replayed.rows[t] # NoRow /\ ~ Exists(t)}
  IN  /\ Live(s, now) /\ "system" \in SessionRoles[s]
      /\ ChainVerifies
      /\ replayed.ok
      /\ \A a \in Aggregates : Exists(a) => replayed.rows[a] # NoRow
      /\ \A t \in missing : SafeToRebuild(t)
      /\ rows' = replayed.rows
      /\ attempt_count' = [t \in Tasks |->
                             IF t \in missing THEN 0 ELSE attempt_count[t]]
      /\ VerifyProjections(replayed.rows, rows', attempt_count')
      /\ UNCHANGED <<now, revoked_at, ledger, attempts, faults>>

-----------------------------------------------------------------------------
(* Faults of the mutable tables: external to the program. *)

(* A row falls back to what it was after an earlier event of its history. *)
StaleRow(a, n) ==
  /\ faults < MaxFaults
  /\ Exists(a) /\ rows[a].version > events[n].version
  /\ faults' = faults + 1
  /\ rows' = [rows EXCEPT ![a] = Replay(events)[n].rows[a]]
  /\ attempt_count' = [t \in Tasks |->
       IF t = a THEN Cardinality({i \in Claims(t) : i <= n})
                ELSE attempt_count[t]]
  /\ UNCHANGED <<now, revoked_at, ledger, attempts>>

(* A row is deleted, alone or with the rows of attempts that refer to it. *)
LoseRow(a, alone) ==
  /\ faults < MaxFaults
  /\ Exists(a)
  /\ faults' = faults + 1
  /\ rows' = [rows EXCEPT ![a] = NoRow]
  /\ attempt_count' = [t \in Tasks |-> IF t = a THEN 0 ELSE attempt_count[t]]
  /\ attempts' = [t \in Tasks |-> IF t = a /\ ~ alone THEN 0 ELSE attempts[t]]
  /\ UNCHANGED <<now, revoked_at, ledger>>

(***************************************************************************)
(* A task row nobody has an event for.  (A run row is left out: add_task   *)
(* reads the row of the run and not its events, and would add a task whose *)
(* replay then misses the run.)                                            *)
(***************************************************************************)
PlantRow(a) ==
  /\ faults < MaxFaults
  /\ a \in Tasks
  /\ ~ Exists(a) /\ HeadVersion(a) = 0
  /\ faults' = faults + 1
  /\ rows' = [rows EXCEPT ![a] = Row(FirstState(a), 1)]
  /\ UNCHANGED <<now, revoked_at, ledger, attempt_count, attempts>>

-----------------------------------------------------------------------------

Command(s, key, late) ==
  \/ CreateGoal(s, key, late)
  \/ CreateRun(s, key, late)
  \/ \E t \in Tasks : AddTask(t, s, key, late)
  \/ \E r \in LOOP_TRANSITIONS :
       r.event \in RunEvents /\ AdvanceLoop(r, s, key, late)
  \/ \E t \in Tasks, to \in TaskTargets : KernelMove(t, to, s, key, late)

Scheduled(s, late) ==
  \E t \in Tasks, path \in SchedulerPaths :
    /\ \A i \in 2..Len(path) : path[i] \in TaskTargets
    /\ SchedulerMove(t, path, s, late)

Fault ==
  \E a \in Faulty :
    \/ \E n \in HistoryOf(a) : StaleRow(a, n)
    \/ \E alone \in BOOLEAN : LoseRow(a, alone)
    \/ PlantRow(a)

Next ==
  \/ \E s \in Sessions, late \in 0..1, key \in Keys : Command(s, key, late)
  \/ \E s \in Sessions, late \in 0..2 : Scheduled(s, late)
  \/ \E s \in Sessions : RevokeSession(s)
  \/ Tick
  \/ \E s \in Sessions : Repair(s)
  \/ Fault

Spec == Init /\ [][Next]_vars

-----------------------------------------------------------------------------
(* Properties. *)

EventRow ==
  [agg : Aggregates,
   type : {r.event : r \in LOOP_TRANSITIONS}
            \cup {"goal_created", "task_added", "task_state_changed"},
   from : TaskState \cup {"none"}, target : TaskState \cup {"none"},
   guards : SUBSET UNION {r.guards : r \in LOOP_TRANSITIONS},
   handler : {"runtime_kernel", "task_scheduler"}, session : Sessions,
   key : Keys \cup {"none"}, version : 1..MaxEvents, role : Role,
   occurred : 0..MaxNow]

(***************************************************************************)
(* Type correctness; the versions of an aggregate number its events        *)
(* without a gap, and events are stamped in the order of their seq.        *)
(***************************************************************************)
TypeOK ==
  /\ now \in 0..MaxNow
  /\ revoked_at \in [Sessions -> 0..Never]
  /\ \A i \in DOMAIN events : events[i] \in EventRow
  /\ \A a \in Aggregates :
       /\ {events[i].version : i \in HistoryOf(a)} = 1..HeadVersion(a)
       /\ \A i, j \in HistoryOf(a) :
            i < j => events[i].version < events[j].version
  /\ \A i, j \in DOMAIN events : i < j =>
       events[i].occurred <= events[j].occurred
  /\ idempotency \subseteq
       {"goal.create", "run.create", "task.add", "run.event",
        "task.evidence", "task.delivery", "task.control"}
         \X Aggregates \X Keys
  /\ \A a \in Aggregates :
       rows[a].version \in Nat
         /\ rows[a].state \in LoopState \cup TaskState \cup {"none"}
  /\ attempt_count \in [Tasks -> Nat] /\ attempts \in [Tasks -> Nat]
  /\ faults \in 0..MaxFaults

(***************************************************************************)
(* The history can always be replayed, whatever happened to the rows the   *)
(* commands decided on, and a row that carries the version of the head is  *)
(* the row the history stands for.  Without a fault every row is.          *)
(* (append_event's expected_version against a stale or planted row; the    *)
(* two transition tables against their replay.)                            *)
(***************************************************************************)
LedgerReplays ==
  /\ Replayed.ok
  /\ \A a \in Aggregates :
       \/ rows[a] = Replayed.rows[a]
       \/ faults # 0 /\ rows[a].version # HeadVersion(a)

(***************************************************************************)
(* A task that is up to date has counted every claim in its history: no    *)
(* loss of rows and no repair gives a task back the attempts it has used.  *)
(* (repair, which rebuilds a lost task with attempt_count 0.)              *)
(***************************************************************************)
AttemptsNotForgotten ==
  \A t \in Tasks :
    Exists(t) /\ rows[t].version = HeadVersion(t) =>
      attempt_count[t] = Cardinality(Claims(t))

(***************************************************************************)
(* An event that was stamped while its session stood verifies for ever:    *)
(* expiry and revocation end a session without unmaking what was done in   *)
(* it.  (verify_event_chain, which repair, backup and promotion require.)  *)
(***************************************************************************)
HistoryVerifies ==
  \A i \in DOMAIN events :
    events[i].occurred < ExpiresAt[events[i].session] =>
      EventVerifies(events[i])

(* The scope the command of an event answered under. *)
ScopeOf(e) ==
  CASE e.type = "goal_created" -> "goal.create"
    [] e.type = "task_added" -> "task.add"
    [] e.agg = "run" /\ e.version = 1 -> "run.create"
    [] e.agg = "run" /\ e.version # 1 -> "run.event"
    [] OTHER -> KernelScope(e.from, e.target)

(***************************************************************************)
(* A key that has an answer stands for exactly one event, and every event  *)
(* that carries a key has its answer: a command sent again, before or      *)
(* after a repair, is never applied twice and never lost.                  *)
(* (get_idempotent_result and save_idempotent_result in the transaction    *)
(* of the event.)                                                          *)
(***************************************************************************)
AnswersApplied ==
  LET keyed == {i \in DOMAIN events : events[i].key # "none"}
      answer(i) == <<ScopeOf(events[i]), events[i].agg, events[i].key>>
  IN  /\ {answer(i) : i \in keyed} = idempotency
      /\ Cardinality(keyed) = Cardinality(idempotency)

=============================================================================
