-------------------------- MODULE SchedulerProofs --------------------------
(***************************************************************************)
(* Proofs about the scheduler, for any number of tasks and workers and any *)
(* attempt limits, fences and lease times.                                 *)
(***************************************************************************)
EXTENDS Scheduler, FiniteSetTheorems, TLAPS

(* 2^e counts the subsets of e elements. *)
LEMMA PowerType == ASSUME NEW e \in Nat PROVE 2^e \in Nat
<1>1. IsFiniteSet(1..e) /\ Cardinality(1..e) = e
  BY FS_Interval
<1>2. IsFiniteSet(SUBSET (1..e)) /\ Cardinality(SUBSET (1..e)) = 2^e
  BY <1>1, FS_SUBSET
<1> QED BY <1>2, FS_CardinalityType

(* The backoff of _retry_due is an integer, and none of them is NULL. *)
LEMMA RetryDueType ==
  ASSUME NEW n \in Nat
  PROVE  RetryDue(n) \in Int /\ RetryDue(n) # NoDue
<1> DEFINE e == IF n > 0 THEN n - 1 ELSE 0
<1>1. e \in Nat
  OBVIOUS
<1>2. 2^e \in Nat
  BY <1>1, PowerType
<1> HIDE DEF e
<1>3. RetryBase * 2^e \in Nat
  <2> DEFINE x == 2^e
  <2>1. x \in Nat /\ RetryBase \in Nat
    BY <1>2, SchedulerAssumption
  <2> HIDE DEF x
  <2>2. RetryBase * x \in Nat
    BY <2>1
  <2> QED BY <2>2 DEF x
<1>4. RetryDue(n) = IF RetryBase * 2^e < RetryMax THEN RetryBase * 2^e
                                                  ELSE RetryMax
  BY DEF RetryDue, e
<1>5. RetryDue(n) \in Nat
  BY <1>3, <1>4, SchedulerAssumption
<1> QED BY <1>5 DEF NoDue

(* A sweep takes a part of the rows its query finds. *)
LEMMA SweepIsPart == ASSUME NEW S, NEW T \in SweepOf(S) PROVE T \subseteq S
BY DEF SweepOf

(* The rules of the loop table lead to loop states. *)
LEMMA RulesLeadToStates ==
  \A rule \in LOOP_TRANSITIONS : rule.to \in LoopState
BY DEF LOOP_TRANSITIONS, Rule, LoopState

(* Updates of one column: what is left alone, and that rows stay rows. *)
LEMMA TaskMoves ==
  ASSUME TypeOK, NEW t \in Tasks, NEW s \in TaskState,
         tasks' = [tasks EXCEPT ![t].state = s]
  PROVE  /\ tasks' \in [Tasks -> TaskRow]
         /\ \A u \in Tasks :
              /\ tasks'[u].attempt_count = tasks[u].attempt_count
              /\ tasks'[u].state = IF u = t THEN s ELSE tasks[u].state
              /\ tasks'[u].due = tasks[u].due
BY DEF TypeOK, TaskRow

LEMMA AfterFailureType ==
  ASSUME tasks \in [Tasks -> TaskRow], NEW t \in Tasks, NEW n \in Nat
  PROVE  /\ AfterFailure(t, n) \in TaskRow
         /\ AfterFailure(t, n).attempt_count = tasks[t].attempt_count
         /\ AfterFailure(t, n).state =
              IF Exhausted(t) THEN "failed" ELSE "retry_pending"
         /\ AfterFailure(t, n).due = NoDue <=> Exhausted(t)
<1>1. RetryDue(n) \in Int /\ NoDue \in Int /\ RetryDue(n) # NoDue
  BY RetryDueType DEF NoDue
<1>2. CASE Exhausted(t)
  BY <1>1, <1>2 DEF AfterFailure, TaskRow, TaskState
<1>3. CASE ~Exhausted(t)
  BY <1>1, <1>3 DEF AfterFailure, TaskRow, TaskState
<1> QED BY <1>2, <1>3

LEMMA AttemptMoves ==
  ASSUME TypeOK, NEW t \in Tasks, NEW n \in Numbers,
         NEW s \in OpenStates \cup EndedStates,
         attempts' = [attempts EXCEPT ![t][n].state = s]
  PROVE  /\ attempts' \in [Tasks -> [Numbers -> AttemptRow]]
         /\ \A u \in Tasks, m \in Numbers :
              /\ attempts'[u][m].worker = attempts[u][m].worker
              /\ attempts'[u][m].fence = attempts[u][m].fence
              /\ attempts'[u][m].state =
                   IF u = t /\ m = n THEN s ELSE attempts[u][m].state
              /\ u # t \/ m # n => attempts'[u][m] = attempts[u][m]
<1> DEFINE r == [attempts[t][n] EXCEPT !.state = s]
<1>1. attempts \in [Tasks -> [Numbers -> AttemptRow]]
  BY DEF TypeOK
<1>2. /\ r \in AttemptRow
      /\ r.worker = attempts[t][n].worker
      /\ r.fence = attempts[t][n].fence
      /\ r.state = s
  <2> DEFINE a == attempts[t][n]
  <2>1. a \in AttemptRow
    BY <1>1
  <2> HIDE DEF a
  <2>2. /\ [a EXCEPT !.state = s] \in AttemptRow
        /\ [a EXCEPT !.state = s].worker = a.worker
        /\ [a EXCEPT !.state = s].fence = a.fence
        /\ [a EXCEPT !.state = s].state = s
    BY <2>1 DEF AttemptRow
  <2> QED BY <2>2 DEF a
<1>3. attempts' = [attempts EXCEPT ![t][n] = r]
  OBVIOUS
<1> HIDE DEF r
<1>4. \A u \in Tasks, m \in Numbers :
        attempts'[u][m] = IF u = t /\ m = n THEN r ELSE attempts[u][m]
  BY <1>1, <1>3
<1>5. attempts' \in [Tasks -> [Numbers -> AttemptRow]]
  BY <1>1, <1>2, <1>3
<1> QED BY <1>2, <1>4, <1>5

LEMMA LeaseLeftUpdate ==
  ASSUME NEW f \in [Keys -> LeaseRow], NEW k \in Keys, NEW v \in Nat
  PROVE  [f EXCEPT ![k].left = v] \in [Keys -> LeaseRow]
BY DEF LeaseRow

LEMMA GrantType ==
  ASSUME leases \in [Keys -> LeaseRow], NEW k \in Keys, NEW t \in Tasks,
         NEW h \in Holders, NEW ttl \in Nat
  PROVE  Grant(k, t, h, ttl) \in [Keys -> LeaseRow]
<1>1. [task |-> t, holder |-> h, fence |-> leases[k].fence + 1, left |-> ttl]
        \in LeaseRow
  BY DEF LeaseRow
<1> QED BY <1>1 DEF Grant

LEMMA AttemptsEnd ==
  ASSUME TypeOK, NEW T, NEW s \in EndedStates, attempts' = EndOpen(T, s)
  PROVE  /\ attempts' \in [Tasks -> [Numbers -> AttemptRow]]
         /\ \A t \in Tasks, n \in Numbers :
              /\ attempts'[t][n].worker = attempts[t][n].worker
              /\ attempts'[t][n].fence = attempts[t][n].fence
              /\ attempts'[t][n].state = IF t \in T /\ Open(t, n)
                                         THEN s ELSE attempts[t][n].state
              /\ ~Open(t, n) => attempts'[t][n] = attempts[t][n]
<1> DEFINE r(t, n) == [attempts[t][n] EXCEPT !.state = s]
<1>0. \A t \in Tasks, n \in Numbers : attempts[t][n] \in AttemptRow
  BY DEF TypeOK
<1>1. \A t \in Tasks, n \in Numbers :
        /\ attempts[t][n] \in AttemptRow
        /\ r(t, n) \in AttemptRow
        /\ r(t, n).worker = attempts[t][n].worker
        /\ r(t, n).fence = attempts[t][n].fence
        /\ r(t, n).state = s
  BY <1>0 DEF AttemptRow
<1>2. attempts' = [t \in Tasks |-> [n \in Numbers |->
        IF t \in T /\ Open(t, n) THEN r(t, n) ELSE attempts[t][n]]]
  BY DEF EndOpen
<1> HIDE DEF r
<1> QED BY <1>1, <1>2

(* The names the actions write. *)
LEMMA Names ==
  /\ {"ready", "leased", "running", "suspended", "evidence_pending",
      "delivered", "failed", "retry_pending"} \subseteq TaskState
  /\ ControlTargets \subseteq TaskState
  /\ {"leased", "running", "succeeded", "failed", "abandoned"}
       \subseteq OpenStates \cup EndedStates
  /\ "abandoned" \in EndedStates
  /\ ControlTargets \ {"suspended"} \subseteq EndedStates
BY DEF TaskState, ControlTargets, OpenStates, EndedStates

LEMMA TypeInit == Init => TypeOK
<1> SUFFICES ASSUME Init PROVE TypeOK
  OBVIOUS
<1> QED
  BY SchedulerAssumption DEF Init, TypeOK, TaskRow, Holders, NoTask, NoDue, AttemptRow, LeaseRow,
     TaskState, LoopState, OpenStates, EndedStates

LEMMA TypeNext == TypeOK /\ [Next]_vars => TypeOK'
<1> SUFFICES ASSUME TypeOK, [Next]_vars PROVE TypeOK'
  OBVIOUS
<1> USE SchedulerAssumption
<1>0. /\ tasks \in [Tasks -> TaskRow]
      /\ \A t \in Tasks : tasks[t].attempt_count \in Nat
      /\ attempts \in [Tasks -> [Numbers -> AttemptRow]]
      /\ leases \in [Keys -> LeaseRow]
      /\ Tasks \subseteq Keys
  BY DEF TypeOK, TaskRow, Keys
<1>1. ASSUME NEW w \in Workers, NEW ttl \in 1..MaxTTL, ClaimNext(w, ttl)
      PROVE TypeOK'
  <2> DEFINE n(t) == tasks[t].attempt_count + 1
             row(t) == [worker |-> w, fence |-> leases[t].fence + 1,
                        state |-> "leased"]
             task(t) == [state |-> "leased", attempt_count |-> n(t),
                         due |-> NoDue]
  <2> PICK t \in Tasks :
        /\ Selected(t)
        /\ leases' = Grant(t, t, w, ttl)
        /\ attempts' = [attempts EXCEPT ![t][n(t)] = row(t)]
        /\ tasks' = [tasks EXCEPT ![t] = task(t)]
    BY <1>1 DEF ClaimNext
  <2>1. n(t) <= MaxAttempts[t]
    BY <1>0 DEF Selected, Claimable, Exhausted
  <2>2. task(t) \in TaskRow
    BY <1>0 DEF NoDue, TaskState, TaskRow
  <2>3. row(t) \in AttemptRow
    BY <1>0 DEF AttemptRow, OpenStates, Holders, LeaseRow
  <2>4. leases' \in [Keys -> LeaseRow]
    BY <1>0, GrantType DEF Holders
  <2>5. attempts' \in [Tasks -> [Numbers -> AttemptRow]]
    <3> HIDE DEF row, n
    <3> QED BY <1>0, <2>3
  <2>6. /\ tasks' \in [Tasks -> TaskRow]
        /\ \A u \in Tasks : tasks'[u].attempt_count <= MaxAttempts[u]
    BY <1>0, <2>1, <2>2 DEF TypeOK
  <2> QED BY <1>1, <2>4, <2>5, <2>6 DEF ClaimNext, TypeOK
<1>2. ASSUME NEW t \in Tasks, NEW n \in Numbers, Start(t, n) PROVE TypeOK'
  <2>1. attempts' \in [Tasks -> [Numbers -> AttemptRow]]
    BY <1>2, AttemptMoves, Names DEF Start
  <2>2. /\ tasks' \in [Tasks -> TaskRow]
        /\ \A u \in Tasks : tasks'[u].attempt_count = tasks[u].attempt_count
    BY <1>2, TaskMoves, Names DEF Start
  <2> QED BY <1>2, <2>1, <2>2 DEF Start, TypeOK
<1>3. ASSUME NEW t \in Tasks, NEW n \in Numbers, Complete(t, n) PROVE TypeOK'
  <2>1. attempts' \in [Tasks -> [Numbers -> AttemptRow]]
    BY <1>3, AttemptMoves, Names DEF Complete
  <2>2. /\ tasks' \in [Tasks -> TaskRow]
        /\ \A u \in Tasks : tasks'[u].attempt_count = tasks[u].attempt_count
    BY <1>3, TaskMoves, Names DEF Complete
  <2>3. leases' \in [Keys -> LeaseRow]
    BY <1>0, <1>3, LeaseLeftUpdate DEF Complete, Release
  <2> QED BY <1>3, <2>1, <2>2, <2>3 DEF Complete, TypeOK
<1>4. ASSUME NEW t \in Tasks, NEW n \in Numbers, Fail(t, n) PROVE TypeOK'
  <2>1. attempts' \in [Tasks -> [Numbers -> AttemptRow]]
    BY <1>4, AttemptMoves, Names DEF Fail
  <2>2. n \in Nat
    BY DEF Numbers
  <2>3. /\ tasks' \in [Tasks -> TaskRow]
        /\ \A u \in Tasks : tasks'[u].attempt_count = tasks[u].attempt_count
    BY <1>0, <1>4, <2>2, AfterFailureType DEF Fail
  <2>4. leases' \in [Keys -> LeaseRow]
    BY <1>0, <1>4, LeaseLeftUpdate DEF Fail, Release
  <2> QED BY <1>4, <2>1, <2>3, <2>4 DEF Fail, TypeOK
<1>5. ASSUME NEW w \in MayCrash, Crash(w) \/ Restart(w) PROVE TypeOK'
  BY <1>5 DEF Crash, Restart, TypeOK
<1>6. ASSUME NEW k \in AcquireKeys, NEW t \in Tasks, NEW h \in Holders,
             NEW ttl \in 1..MaxTTL, Acquire(k, t, h, ttl)
      PROVE TypeOK'
  <2>1. leases' \in [Keys -> LeaseRow]
    BY <1>0, <1>6, GrantType DEF Acquire
  <2> QED BY <1>6, <2>1 DEF Acquire, TypeOK
<1>7. ASSUME NEW k \in Keys, NEW ttl \in 1..MaxTTL, Renew(k, ttl)
      PROVE TypeOK'
  <2>1. leases' \in [Keys -> LeaseRow]
    BY <1>0, <1>7, LeaseLeftUpdate DEF Renew
  <2> QED BY <1>7, <2>1 DEF Renew, TypeOK
<1>8. ASSUME NEW k \in Keys, ReleaseLease(k) PROVE TypeOK'
  <2>1. leases' \in [Keys -> LeaseRow]
    BY <1>0, <1>8, LeaseLeftUpdate DEF ReleaseLease, Release
  <2> QED BY <1>8, <2>1 DEF ReleaseLease, TypeOK
<1>9. CASE PromoteDueRetries
  <2> PICK T \in SweepOf(Retriable) :
        tasks' = [t \in Tasks |->
                   IF t \in T THEN [tasks[t] EXCEPT !.state = "ready"]
                              ELSE tasks[t]]
    BY <1>9 DEF PromoteDueRetries
  <2>1. \A t \in Tasks : [tasks[t] EXCEPT !.state = "ready"] \in TaskRow
    BY <1>0 DEF TaskRow, TaskState
  <2>2. tasks' \in [Tasks -> TaskRow]
    BY <1>0, <2>1
  <2>3. \A t \in Tasks : tasks'[t].attempt_count = tasks[t].attempt_count
    BY <1>0 DEF TaskRow
  <2> QED BY <1>9, <2>2, <2>3 DEF PromoteDueRetries, TypeOK
<1>10. CASE ReapExpired
  <2> PICK T \in SweepOf(Abandoned) :
        /\ tasks' = [t \in Tasks |->
             IF t \in T THEN AfterFailure(t, tasks[t].attempt_count)
                        ELSE tasks[t]]
        /\ attempts' = EndOpen(T, "abandoned")
        /\ negative_results' = negative_results \cup T
    BY <1>10 DEF ReapExpired
  <2>1. T \subseteq Tasks
    BY SweepIsPart DEF Abandoned
  <2>4. /\ tasks' \in [Tasks -> TaskRow]
        /\ \A t \in Tasks : tasks'[t].attempt_count = tasks[t].attempt_count
    BY <1>0, AfterFailureType
  <2>5. attempts' \in [Tasks -> [Numbers -> AttemptRow]]
    BY AttemptsEnd, Names
  <2> QED BY <1>10, <2>1, <2>4, <2>5 DEF ReapExpired, TypeOK
<1>11. CASE Tick
  <2>1. leases' \in [Keys -> LeaseRow]
    <3>1. \A k \in Keys : Live(k) =>
            [leases[k] EXCEPT !.left = @ - 1] \in LeaseRow
      <4> SUFFICES ASSUME NEW k \in Keys, leases[k].left > 0
                   PROVE  [leases[k] EXCEPT !.left = @ - 1] \in LeaseRow
        BY DEF Live
      <4>1. leases[k] \in LeaseRow
        BY <1>0
      <4>2. leases[k].left - 1 \in Nat
        BY <4>1 DEF LeaseRow
      <4> QED BY <4>1, <4>2 DEF LeaseRow
    <3> QED BY <1>0, <1>11, <3>1 DEF Tick
  <2>2. /\ tasks' \in [Tasks -> TaskRow]
        /\ \A t \in Tasks : tasks'[t].attempt_count = tasks[t].attempt_count
    <3>1. \A t \in Tasks :
            /\ [tasks[t] EXCEPT !.due = @ - 1] \in TaskRow
            /\ [tasks[t] EXCEPT !.due = @ - 1].attempt_count
                 = tasks[t].attempt_count
      BY <1>0 DEF TaskRow
    <3> QED BY <1>0, <1>11, <3>1 DEF Tick
  <2> QED BY <1>11, <2>1, <2>2 DEF Tick, TypeOK
<1>12. ASSUME NEW t \in Tasks, NEW c \in Controls \ {"resume"}, Control(t, c)
       PROVE TypeOK'
  <2>1. c \in TaskState /\ (c # "suspended" => c \in EndedStates)
    BY Names
  <2>2. attempts' \in [Tasks -> [Numbers -> AttemptRow]]
    BY <1>0, <1>12, <2>1, AttemptsEnd DEF Control
  <2>3. leases' \in [Keys -> LeaseRow]
    <3>1. \A k \in Keys : [leases[k] EXCEPT !.left = 0] \in LeaseRow
      BY <1>0 DEF LeaseRow
    <3> QED BY <1>0, <1>12, <3>1 DEF Control
  <2>4. /\ tasks' \in [Tasks -> TaskRow]
        /\ \A u \in Tasks : tasks'[u].attempt_count = tasks[u].attempt_count
    BY <1>12, <2>1, TaskMoves DEF Control
  <2> QED BY <1>12, <2>2, <2>3, <2>4 DEF Control, TypeOK
<1>13. ASSUME NEW t \in Tasks, NEW s \in TaskState,
              tasks' = [tasks EXCEPT ![t].state = s],
              UNCHANGED <<attempts, leases, negative_results, loop_state,
                          crashed>>
       PROVE TypeOK'
  <2>1. /\ tasks' \in [Tasks -> TaskRow]
        /\ \A u \in Tasks : tasks'[u].attempt_count = tasks[u].attempt_count
    BY <1>13, TaskMoves
  <2> QED BY <1>13, <2>1 DEF TypeOK
<1>14. ASSUME NEW t \in Tasks,
              \/ Resume(t)
              \/ \E s \in TaskState : AcceptTaskEvidence(t, s)
              \/ ConfirmTaskDelivery(t)
       PROVE TypeOK'
  <2>1. {"ready", "leased", "delivered"} \subseteq TaskState
    BY DEF TaskState
  <2> QED
    BY <1>13, <1>14, <2>1 DEF Resume, AcceptTaskEvidence, ConfirmTaskDelivery
<1>15. ASSUME NEW rule \in LOOP_TRANSITIONS, AdvanceLoop(rule) PROVE TypeOK'
  BY <1>15, RulesLeadToStates DEF AdvanceLoop, TypeOK
<1>16. CASE UNCHANGED vars
  BY <1>16 DEF vars, TypeOK
<1> QED
  BY <1>1, <1>2, <1>3, <1>4, <1>5, <1>6, <1>7, <1>8, <1>9, <1>10, <1>11,
     <1>12, <1>14, <1>15, <1>16
     DEF Next, WorkerNext, LeaseNext, SystemNext, KernelNext

(***************************************************************************)
(* Every row of the tasks, attempts and leases tables is well formed, and  *)
(* no task is ever attempted more often than its TaskSpec allows.          *)
(***************************************************************************)
THEOREM TypeCorrect == Spec => []TypeOK
BY TypeInit, TypeNext, PTL DEF Spec

-----------------------------------------------------------------------------
(* What the actions do to the three tables, row by row.                    *)

Claims(w, ttl, t, n) ==
  /\ n = tasks[t].attempt_count + 1
  /\ tasks[t].state = "ready"
  /\ ~Live(t)
  /\ \A u \in Tasks :
       /\ tasks'[u].attempt_count = IF u = t THEN n ELSE tasks[u].attempt_count
       /\ tasks'[u].state = IF u = t THEN "leased" ELSE tasks[u].state
       /\ tasks'[u].due = IF u = t THEN NoDue ELSE tasks[u].due
  /\ negative_results' = negative_results
  /\ \A u \in Tasks, m \in Numbers :
       attempts'[u][m] = IF u = t /\ m = n
                           THEN [worker |-> w, fence |-> leases[t].fence + 1,
                                 state |-> "leased"]
                           ELSE attempts[u][m]
  /\ \A k \in Keys :
       leases'[k] = IF k = t
                      THEN [task |-> t, holder |-> w,
                            fence |-> leases[t].fence + 1, left |-> ttl]
                      ELSE leases[k]

LEMMA ClaimEffect ==
  ASSUME TypeOK, NEW w \in Workers, NEW ttl \in 1..MaxTTL, ClaimNext(w, ttl)
  PROVE  \E t \in Tasks, n \in Numbers : Claims(w, ttl, t, n)
<1> DEFINE num(t) == tasks[t].attempt_count + 1
           row(t) == [worker |-> w, fence |-> leases[t].fence + 1,
                      state |-> "leased"]
           task(t) == [state |-> "leased", attempt_count |-> num(t),
                       due |-> NoDue]
<1> PICK t \in Tasks :
      /\ Selected(t)
      /\ ~Live(t)
      /\ leases' = Grant(t, t, w, ttl)
      /\ attempts' = [attempts EXCEPT ![t][num(t)] = row(t)]
      /\ tasks' = [tasks EXCEPT ![t] = task(t)]
      /\ negative_results' = negative_results
  BY DEF ClaimNext
<1>1. /\ tasks \in [Tasks -> TaskRow]
      /\ attempts \in [Tasks -> [Numbers -> AttemptRow]]
      /\ leases \in [Keys -> LeaseRow]
      /\ t \in Keys
  BY DEF TypeOK, Keys
<1>2. num(t) \in Numbers /\ tasks[t].state = "ready"
  BY <1>1, SchedulerAssumption
     DEF Selected, Claimable, Exhausted, Numbers, TaskRow
<1>3. \A u \in Tasks :
        /\ tasks'[u].attempt_count =
             IF u = t THEN num(t) ELSE tasks[u].attempt_count
        /\ tasks'[u].state = IF u = t THEN "leased" ELSE tasks[u].state
        /\ tasks'[u].due = IF u = t THEN NoDue ELSE tasks[u].due
  BY <1>1
<1>4. \A u \in Tasks, m \in Numbers :
        attempts'[u][m] = IF u = t /\ m = num(t) THEN row(t) ELSE attempts[u][m]
  <2> HIDE DEF row, num
  <2> QED BY <1>1, <1>2
<1>5. \A k \in Keys :
        leases'[k] = IF k = t
                       THEN [task |-> t, holder |-> w,
                             fence |-> leases[t].fence + 1, left |-> ttl]
                       ELSE leases[k]
  BY <1>1 DEF Grant
<1>6. Claims(w, ttl, t, num(t))
  BY <1>2, <1>3, <1>4, <1>5 DEF Claims
<1> QED BY <1>2, <1>6

LEMMA SettleEffect ==
  ASSUME TypeOK, NEW t \in Tasks, NEW n \in Numbers, NEW s, NEW o,
         \/ Start(t, n) /\ s = "running" /\ o = "running"
         \/ Complete(t, n) /\ s = "evidence_pending" /\ o = "succeeded"
         \/ /\ Fail(t, n)
            /\ s = IF Exhausted(t) THEN "failed" ELSE "retry_pending"
            /\ o = "failed"
  PROVE  /\ ClaimCurrent(t, n)
         /\ \A u \in Tasks :
              /\ tasks'[u].attempt_count = tasks[u].attempt_count
              /\ tasks'[u].state = IF u = t THEN s ELSE tasks[u].state
              /\ u # t \/ o # "failed" => tasks'[u].due = tasks[u].due
         /\ o = "failed" => (tasks'[t].due = NoDue <=> s = "failed")
         /\ negative_results' = IF o = "failed" THEN negative_results \cup {t}
                                               ELSE negative_results
         /\ \A u \in Tasks, m \in Numbers :
              /\ attempts'[u][m].worker = attempts[u][m].worker
              /\ attempts'[u][m].fence = attempts[u][m].fence
              /\ attempts'[u][m].state =
                   IF u = t /\ m = n THEN o ELSE attempts[u][m].state
              /\ u # t \/ m # n => attempts'[u][m] = attempts[u][m]
<1>1. n \in Nat /\ tasks \in [Tasks -> TaskRow]
  BY DEF Numbers, TypeOK
<1>a. o \in OpenStates \cup EndedStates
  BY Names
<1>b. attempts' = [attempts EXCEPT ![t][n].state = o]
  BY DEF Start, Complete, Fail
<1>c. \A u \in Tasks, m \in Numbers :
        /\ attempts'[u][m].worker = attempts[u][m].worker
        /\ attempts'[u][m].fence = attempts[u][m].fence
        /\ attempts'[u][m].state =
             IF u = t /\ m = n THEN o ELSE attempts[u][m].state
        /\ u # t \/ m # n => attempts'[u][m] = attempts[u][m]
  BY <1>a, <1>b, AttemptMoves
<1>d. ASSUME tasks' = [tasks EXCEPT ![t].state = s], s \in TaskState
      PROVE  \A u \in Tasks :
               /\ tasks'[u].attempt_count = tasks[u].attempt_count
               /\ tasks'[u].state = IF u = t THEN s ELSE tasks[u].state
               /\ tasks'[u].due = tasks[u].due
  BY <1>d, TaskMoves
<1>2. CASE Start(t, n) /\ s = "running" /\ o = "running"
  BY <1>2, <1>c, <1>d, Names DEF Start
<1>3. CASE Complete(t, n) /\ s = "evidence_pending" /\ o = "succeeded"
  BY <1>3, <1>c, <1>d, Names DEF Complete
<1>4. CASE /\ Fail(t, n)
           /\ s = IF Exhausted(t) THEN "failed" ELSE "retry_pending"
           /\ o = "failed"
  <2>1. \A u \in Tasks :
          /\ tasks'[u].attempt_count = tasks[u].attempt_count
          /\ tasks'[u].state = IF u = t THEN s ELSE tasks[u].state
          /\ u # t => tasks'[u].due = tasks[u].due
    BY <1>1, <1>4, AfterFailureType DEF Fail
  <2>2. tasks'[t].due = NoDue <=> s = "failed"
    BY <1>1, <1>4, AfterFailureType DEF Fail
  <2> QED BY <1>4, <1>c, <2>1, <2>2 DEF Fail
<1> QED BY <1>2, <1>3, <1>4

LEMMA ReapEffect ==
  ASSUME TypeOK, ReapExpired
  PROVE  \E T \in SUBSET Abandoned :
           /\ \A u \in Tasks :
                /\ tasks'[u].attempt_count = tasks[u].attempt_count
                /\ tasks'[u].state =
                     IF u \notin T THEN tasks[u].state
                     ELSE IF Exhausted(u) THEN "failed" ELSE "retry_pending"
                /\ u \notin T => tasks'[u].due = tasks[u].due
                /\ u \in T => (tasks'[u].due = NoDue <=> Exhausted(u))
           /\ negative_results' = negative_results \cup T
           /\ \A u \in Tasks, m \in Numbers :
                /\ attempts'[u][m].worker = attempts[u][m].worker
                /\ attempts'[u][m].fence = attempts[u][m].fence
                /\ attempts'[u][m].state =
                     IF u \in T /\ Open(u, m) THEN "abandoned"
                                              ELSE attempts[u][m].state
                /\ ~Open(u, m) => attempts'[u][m] = attempts[u][m]
<1> PICK T \in SweepOf(Abandoned) :
      /\ tasks' = [t \in Tasks |->
           IF t \in T THEN AfterFailure(t, tasks[t].attempt_count)
                      ELSE tasks[t]]
      /\ attempts' = EndOpen(T, "abandoned")
      /\ negative_results' = negative_results \cup T
  BY DEF ReapExpired
<1>1. T \in SUBSET Abandoned
  BY SweepIsPart
<1>2. /\ tasks \in [Tasks -> TaskRow]
      /\ \A u \in Tasks : tasks[u].attempt_count \in Nat
  BY DEF TypeOK, TaskRow
<1>3. \A u \in Tasks :
        /\ tasks'[u].attempt_count = tasks[u].attempt_count
        /\ tasks'[u].state = IF u \notin T THEN tasks[u].state
                             ELSE IF Exhausted(u) THEN "failed"
                                                  ELSE "retry_pending"
        /\ u \notin T => tasks'[u].due = tasks[u].due
        /\ u \in T => (tasks'[u].due = NoDue <=> Exhausted(u))
  BY <1>2, AfterFailureType
<1>4. \A u \in Tasks, m \in Numbers :
        /\ attempts'[u][m].worker = attempts[u][m].worker
        /\ attempts'[u][m].fence = attempts[u][m].fence
        /\ attempts'[u][m].state =
             IF u \in T /\ Open(u, m) THEN "abandoned"
                                      ELSE attempts[u][m].state
        /\ ~Open(u, m) => attempts'[u][m] = attempts[u][m]
  <2>1. "abandoned" \in EndedStates
    BY Names
  <2> QED BY <2>1, AttemptsEnd
<1> QED BY <1>1, <1>3, <1>4

LEMMA ControlEffect ==
  ASSUME TypeOK, NEW t \in Tasks, NEW c \in Controls \ {"resume"}, Control(t, c)
  PROVE  /\ TaskMayMove(tasks[t].state, c)
         /\ c \in ControlTargets
         /\ \A u \in Tasks :
              /\ tasks'[u].attempt_count = tasks[u].attempt_count
              /\ tasks'[u].state = IF u = t THEN c ELSE tasks[u].state
              /\ tasks'[u].due = tasks[u].due
         /\ negative_results' = negative_results
         /\ \A u \in Tasks, m \in Numbers :
              /\ attempts'[u][m].worker = attempts[u][m].worker
              /\ attempts'[u][m].fence = attempts[u][m].fence
              /\ attempts'[u][m].state =
                   IF u = t /\ c # "suspended" /\ Open(u, m)
                     THEN c ELSE attempts[u][m].state
              /\ ~Open(u, m) => attempts'[u][m] = attempts[u][m]
<1>1. c \in ControlTargets
  BY SchedulerAssumption
<1>2. \A u \in Tasks :
        /\ tasks'[u].attempt_count = tasks[u].attempt_count
        /\ tasks'[u].state = IF u = t THEN c ELSE tasks[u].state
        /\ tasks'[u].due = tasks[u].due
  <2>1. c \in TaskState /\ tasks' = [tasks EXCEPT ![t].state = c]
    BY <1>1, Names DEF Control
  <2> QED BY <2>1, TaskMoves
<1>3. CASE c = "suspended"
  <2>1. attempts' = attempts
    BY <1>3 DEF Control
  <2> QED BY <1>1, <1>2, <1>3, <2>1 DEF Control
<1>4. CASE c # "suspended"
  <2>1. c \in EndedStates /\ attempts' = EndOpen({t}, c)
    BY <1>1, <1>4, Names DEF Control
  <2>2. \A u \in Tasks, m \in Numbers :
          /\ attempts'[u][m].worker = attempts[u][m].worker
          /\ attempts'[u][m].fence = attempts[u][m].fence
          /\ attempts'[u][m].state = IF u \in {t} /\ Open(u, m)
                                       THEN c ELSE attempts[u][m].state
          /\ ~Open(u, m) => attempts'[u][m] = attempts[u][m]
    BY <2>1, AttemptsEnd
  <2> QED BY <1>1, <1>2, <1>4, <2>2 DEF Control
<1> QED BY <1>3, <1>4

(* The remaining actions leave the attempts alone and move at most one     *)
(* task, along these edges.                                                *)
QuietMove(t) ==
  \/ tasks'[t].state = tasks[t].state
  \/ tasks[t].state = "retry_pending" /\ tasks'[t].state = "ready"
  \/ tasks[t].state = "blocked" /\ tasks'[t].state = "ready"
  \/ tasks[t].state = "suspended" /\ tasks'[t].state = "leased"
  \/ /\ tasks[t].state \in {"evidence_pending", "evaluator_pending"}
     /\ tasks'[t].state \in {"evaluator_pending", "integration_pending"}
  \/ tasks[t].state = "integration_pending" /\ tasks'[t].state = "delivered"

QuietNext ==
  \/ \E w \in MayCrash : Crash(w) \/ Restart(w)
  \/ LeaseNext
  \/ PromoteDueRetries
  \/ Tick
  \/ \E t \in Tasks : \/ Resume(t)
                      \/ \E s \in TaskState : AcceptTaskEvidence(t, s)
                      \/ ConfirmTaskDelivery(t)
  \/ \E rule \in LOOP_TRANSITIONS : AdvanceLoop(rule)
  \/ UNCHANGED vars

LEMMA QuietEffect ==
  ASSUME TypeOK, QuietNext
  PROVE  /\ attempts' = attempts
         /\ negative_results' = negative_results
         /\ \A t \in Tasks : /\ tasks'[t].attempt_count = tasks[t].attempt_count
                             /\ tasks'[t].due = NoDue <=> tasks[t].due = NoDue
                             /\ QuietMove(t)
<1>0. tasks \in [Tasks -> TaskRow]
  BY DEF TypeOK
<1>1. CASE \/ \E w \in MayCrash : Crash(w) \/ Restart(w)
           \/ LeaseNext
           \/ \E rule \in LOOP_TRANSITIONS : AdvanceLoop(rule)
           \/ UNCHANGED vars
  BY <1>1 DEF Crash, Restart, LeaseNext, Acquire, Renew, ReleaseLease,
              AdvanceLoop, vars, QuietMove
<1>2. CASE PromoteDueRetries
  <2> PICK T \in SweepOf(Retriable) :
        tasks' = [t \in Tasks |->
                   IF t \in T THEN [tasks[t] EXCEPT !.state = "ready"]
                              ELSE tasks[t]]
    BY <1>2 DEF PromoteDueRetries
  <2>1. \A t \in T : tasks[t].state = "retry_pending"
    BY SweepIsPart DEF Retriable
  <2> QED BY <1>0, <1>2, <2>1 DEF PromoteDueRetries, QuietMove, TaskRow
<1>3. CASE Tick
  <2>1. \A t \in Tasks : tasks[t] \in TaskRow /\ tasks[t].due \in Int
    BY <1>0 DEF TaskRow
  <2> QED BY <1>0, <1>3, <2>1 DEF Tick, QuietMove, TaskRow, NoDue
<1>4. ASSUME NEW t \in Tasks,
             \/ Resume(t)
             \/ \E s \in TaskState : AcceptTaskEvidence(t, s)
             \/ ConfirmTaskDelivery(t)
      PROVE  /\ attempts' = attempts
             /\ negative_results' = negative_results
             /\ \A u \in Tasks :
                  /\ tasks'[u].attempt_count = tasks[u].attempt_count
                  /\ tasks'[u].due = NoDue <=> tasks[u].due = NoDue
                  /\ QuietMove(u)
  <2>1. PICK s \in TaskState :
          /\ tasks' = [tasks EXCEPT ![t].state = s]
          /\ attempts' = attempts
          /\ negative_results' = negative_results
          /\ \/ tasks[t].state = "blocked" /\ s = "ready"
             \/ tasks[t].state = "suspended" /\ s = "leased"
             \/ /\ tasks[t].state \in {"evidence_pending", "evaluator_pending"}
                /\ s \in {"evaluator_pending", "integration_pending"}
             \/ tasks[t].state = "integration_pending" /\ s = "delivered"
    BY <1>4, Names DEF Resume, AcceptTaskEvidence, ConfirmTaskDelivery
  <2>2. \A u \in Tasks :
          /\ tasks'[u].attempt_count = tasks[u].attempt_count
          /\ tasks'[u].state = IF u = t THEN s ELSE tasks[u].state
          /\ tasks'[u].due = tasks[u].due
    BY <2>1, TaskMoves
  <2> QED BY <2>1, <2>2 DEF QuietMove
<1> QED BY <1>1, <1>2, <1>3, <1>4 DEF QuietNext

(* The cases of a step, as the proofs below take them. *)
LEMMA NextCases ==
  ASSUME [Next]_vars
  PROVE  \/ \E w \in Workers, ttl \in 1..MaxTTL : ClaimNext(w, ttl)
         \/ \E t \in Tasks, n \in Numbers :
              Start(t, n) \/ Complete(t, n) \/ Fail(t, n)
         \/ ReapExpired
         \/ \E t \in Tasks, c \in Controls \ {"resume"} : Control(t, c)
         \/ QuietNext
BY DEF Next, WorkerNext, SystemNext, KernelNext, QuietNext

-----------------------------------------------------------------------------
(* The attempts table agrees with the tasks table.                         *)

LEMMA LedgerInit == Init => AttemptLedger
BY DEF Init, AttemptLedger, Open, OpenStates, Claimed, Numbers

LEMMA LedgerNext == TypeOK /\ AttemptLedger /\ [Next]_vars => AttemptLedger'
<1> SUFFICES ASSUME TypeOK, AttemptLedger, [Next]_vars,
                    NEW u \in Tasks, NEW m \in Numbers
             PROVE  /\ attempts'[u][m].state = "absent" <=>
                         m > tasks'[u].attempt_count
                    /\ attempts'[u][m].state \in OpenStates <=>
                         /\ m = tasks'[u].attempt_count
                         /\ tasks'[u].state \in Claimed
  BY DEF AttemptLedger, Open
<1>0. /\ attempts[u][m].state = "absent" <=> m > tasks[u].attempt_count
      /\ Open(u, m) <=> m = tasks[u].attempt_count /\ tasks[u].state \in Claimed
      /\ tasks[u].attempt_count \in Nat
      /\ m \in Nat
  BY DEF AttemptLedger, TypeOK, TaskRow, Numbers
<1> USE DEF Open, OpenStates, Claimed
<1>1. ASSUME NEW w \in Workers, NEW ttl \in 1..MaxTTL, ClaimNext(w, ttl)
      PROVE  /\ attempts'[u][m].state = "absent" <=>
                  m > tasks'[u].attempt_count
             /\ attempts'[u][m].state \in OpenStates <=>
                  m = tasks'[u].attempt_count /\ tasks'[u].state \in Claimed
  <2>1. PICK t \in Tasks, n \in Numbers : Claims(w, ttl, t, n)
    BY <1>1, ClaimEffect
  <2> QED BY <1>0, <2>1 DEF Claims
<1>2. ASSUME NEW t \in Tasks, NEW n \in Numbers,
             Start(t, n) \/ Complete(t, n) \/ Fail(t, n)
      PROVE  /\ attempts'[u][m].state = "absent" <=>
                  m > tasks'[u].attempt_count
             /\ attempts'[u][m].state \in OpenStates <=>
                  m = tasks'[u].attempt_count /\ tasks'[u].state \in Claimed
  <2>1. PICK s, o :
          /\ \/ Start(t, n) /\ s = "running" /\ o = "running"
             \/ Complete(t, n) /\ s = "evidence_pending" /\ o = "succeeded"
             \/ /\ Fail(t, n)
                /\ s = IF Exhausted(t) THEN "failed" ELSE "retry_pending"
                /\ o = "failed"
    BY <1>2
  <2>2. Open(t, n)
    BY <2>1, SettleEffect DEF ClaimCurrent
  <2>3. n = tasks[t].attempt_count
    BY <2>2 DEF AttemptLedger
  <2>4. /\ tasks'[u].attempt_count = tasks[u].attempt_count
        /\ tasks'[u].state = IF u = t THEN s ELSE tasks[u].state
        /\ attempts'[u][m].state =
             IF u = t /\ m = n THEN o ELSE attempts[u][m].state
    BY <2>1, SettleEffect
  <2>5. tasks[t].state \in Claimed
    BY <2>2 DEF AttemptLedger
  <2>6. /\ s \in Claimed <=> o \in OpenStates
        /\ o # "absent"
    BY <2>1
  <2> QED BY <1>0, <2>2, <2>3, <2>4, <2>5, <2>6
<1>3. CASE ReapExpired
  <2>1. PICK T \in SUBSET Abandoned :
          /\ tasks'[u].attempt_count = tasks[u].attempt_count
          /\ tasks'[u].state =
               IF u \notin T THEN tasks[u].state
               ELSE IF Exhausted(u) THEN "failed" ELSE "retry_pending"
          /\ attempts'[u][m].state =
               IF u \in T /\ Open(u, m) THEN "abandoned"
                                        ELSE attempts[u][m].state
    BY <1>3, ReapEffect
  <2> QED BY <1>0, <2>1 DEF Abandoned
<1>4. ASSUME NEW t \in Tasks, NEW c \in Controls \ {"resume"}, Control(t, c)
      PROVE  /\ attempts'[u][m].state = "absent" <=>
                  m > tasks'[u].attempt_count
             /\ attempts'[u][m].state \in OpenStates <=>
                  m = tasks'[u].attempt_count /\ tasks'[u].state \in Claimed
  <2>1. c = "suspended" => tasks[t].state = "running"
    <3>1. tasks[t].state \in TaskState /\ TaskMayMove(tasks[t].state, c)
      BY <1>4, ControlEffect DEF TypeOK, TaskRow
    <3> QED BY <3>1 DEF TaskMayMove, TASK_TRANSITIONS, TaskState
  <2>2. c \in {"blocked", "canceled", "deleted", "retired", "suspended"}
    BY <1>4, ControlEffect DEF ControlTargets
  <2> QED BY <1>0, <1>4, <2>1, <2>2, ControlEffect
<1>5. CASE QuietNext
  <2>1. /\ attempts'[u][m] = attempts[u][m]
        /\ tasks'[u].attempt_count = tasks[u].attempt_count
        /\ QuietMove(u)
    BY <1>5, QuietEffect
  <2> QED BY <1>0, <2>1 DEF QuietMove
<1> QED BY <1>1, <1>2, <1>3, <1>4, <1>5, NextCases

(***************************************************************************)
(* However workers, sweeps, owner and clock interleave, the tasks and the  *)
(* attempts tables agree: a claimed task has exactly one open attempt, its *)
(* newest, and no other task has one.                                      *)
(***************************************************************************)
THEOREM LedgerCorrect == Spec => []AttemptLedger
BY LedgerInit, LedgerNext, TypeCorrect, PTL DEF Spec

-----------------------------------------------------------------------------
(* Delivered work is the work of the newest attempt.                       *)

LEMMA SettledNext ==
  TypeOK /\ AttemptLedger /\ SettledBySuccess /\ [Next]_vars
    => SettledBySuccess'
<1> DEFINE Settled == {"evidence_pending", "evaluator_pending",
                       "integration_pending", "delivered"}
<1> SUFFICES ASSUME TypeOK, AttemptLedger, SettledBySuccess, [Next]_vars,
                    NEW u \in Tasks, tasks'[u].state \in Settled
             PROVE  /\ tasks'[u].attempt_count > 0
                    /\ attempts'[u][tasks'[u].attempt_count].state = "succeeded"
  BY DEF SettledBySuccess
<1> DEFINE m == tasks[u].attempt_count
<1>0. /\ m \in Nat
      /\ m > 0 => m \in Numbers
      /\ tasks[u].state \in Settled => m > 0 /\ attempts[u][m].state = "succeeded"
  BY SchedulerAssumption DEF SettledBySuccess, TypeOK, TaskRow, Numbers
<1>1. ASSUME NEW w \in Workers, NEW ttl \in 1..MaxTTL, ClaimNext(w, ttl)
      PROVE  tasks'[u].attempt_count = m /\ m > 0
                /\ attempts'[u][m].state = "succeeded"
  <2>1. PICK t \in Tasks, n \in Numbers : Claims(w, ttl, t, n)
    BY <1>1, ClaimEffect
  <2> QED BY <1>0, <2>1 DEF Claims
<1>2. ASSUME NEW t \in Tasks, NEW n \in Numbers,
             Start(t, n) \/ Complete(t, n) \/ Fail(t, n)
      PROVE  tasks'[u].attempt_count = m /\ m > 0
                /\ attempts'[u][m].state = "succeeded"
  <2>1. PICK s, o :
          /\ \/ Start(t, n) /\ s = "running" /\ o = "running"
             \/ Complete(t, n) /\ s = "evidence_pending" /\ o = "succeeded"
             \/ /\ Fail(t, n)
                /\ s = IF Exhausted(t) THEN "failed" ELSE "retry_pending"
                /\ o = "failed"
    BY <1>2
  <2>2. Open(t, n)
    BY <2>1, SettleEffect DEF ClaimCurrent
  <2>3. n = tasks[t].attempt_count
    BY <2>2 DEF AttemptLedger
  <2>4. n > 0
    BY DEF Numbers
  <2>5. CASE u = t
    <3>1. s \in Settled
      BY <2>1, <2>5, SettleEffect
    <3>2. o = "succeeded"
      BY <2>1, <3>1
    <3> QED BY <2>1, <2>3, <2>4, <2>5, <3>2, SettleEffect
  <2>6. CASE u # t
    BY <1>0, <2>1, <2>6, SettleEffect
  <2> QED BY <2>5, <2>6
<1>3. CASE ReapExpired
  BY <1>0, <1>3, ReapEffect DEF Open, OpenStates
<1>4. ASSUME NEW t \in Tasks, NEW c \in Controls \ {"resume"}, Control(t, c)
      PROVE  tasks'[u].attempt_count = m /\ m > 0
                /\ attempts'[u][m].state = "succeeded"
  BY <1>0, <1>4, ControlEffect DEF ControlTargets, Open, OpenStates
<1>5. CASE QuietNext
  <2>1. /\ attempts' = attempts
        /\ tasks'[u].attempt_count = m
        /\ QuietMove(u)
    BY <1>5, QuietEffect
  <2>2. tasks[u].state \in Settled
    BY <2>1 DEF QuietMove
  <2> QED BY <1>0, <2>1, <2>2
<1> QED BY <1>1, <1>2, <1>3, <1>4, <1>5, NextCases

(***************************************************************************)
(* Only the newest attempt of a task, and only by succeeding, takes the    *)
(* task on to evidence, evaluation, integration and delivery.              *)
(***************************************************************************)
THEOREM SettledCorrect == Spec => []SettledBySuccess
<1>1. Init => SettledBySuccess
  BY DEF Init, SettledBySuccess
<1> QED BY <1>1, SettledNext, TypeCorrect, LedgerCorrect, PTL DEF Spec

-----------------------------------------------------------------------------
(* Bounded retry.                                                          *)

Within(t) ==
  /\ tasks[t].state = "retry_pending" => ~Exhausted(t)
  /\ tasks[t].state = "failed" => Exhausted(t)

LEMMA CountRange ==
  ASSUME TypeOK, NEW t \in Tasks
  PROVE  /\ MaxAttempts[t] \in Int
         /\ tasks[t].attempt_count \in Int
         /\ tasks[t].attempt_count <= MaxAttempts[t]
<1>1. tasks[t] \in TaskRow
  BY DEF TypeOK
<1>2. tasks[t].attempt_count \in Nat
  BY <1>1 DEF TaskRow
<1> QED BY <1>2, SchedulerAssumption DEF SchedulerAssumption, TypeOK

(* As attempt_count never exceeds max_attempts, "none left" is equality. *)
LEMMA BudgetNext == TypeOK /\ RetryBudget /\ [Next]_vars => RetryBudget'
<1> SUFFICES ASSUME TypeOK, RetryBudget, [Next]_vars, NEW u \in Tasks
             PROVE  /\ tasks'[u].state = "retry_pending" =>
                          tasks'[u].attempt_count < MaxAttempts[u]
                    /\ tasks'[u].state = "failed" =>
                          tasks'[u].attempt_count = MaxAttempts[u]
  BY DEF RetryBudget
<1>0. Within(u)
  BY CountRange DEF RetryBudget, Within, Exhausted
<1>a. TypeOK'
  BY TypeNext
<1>b. /\ MaxAttempts[u] \in Int
      /\ tasks'[u].attempt_count \in Int
      /\ tasks'[u].attempt_count <= MaxAttempts[u]
  <2>1. tasks'[u] \in TaskRow
    BY <1>a DEF TypeOK
  <2>2. tasks'[u].attempt_count \in Nat
    BY <2>1 DEF TaskRow
  <2> QED BY <2>2, <1>a, CountRange DEF TypeOK
<1> SUFFICES Within(u)'
  BY <1>b DEF Within, Exhausted
<1>1. ASSUME NEW w \in Workers, NEW ttl \in 1..MaxTTL, ClaimNext(w, ttl)
      PROVE  Within(u)'
  <2>1. PICK t \in Tasks, n \in Numbers : Claims(w, ttl, t, n)
    BY <1>1, ClaimEffect
  <2> QED BY <1>0, <2>1 DEF Claims, Exhausted, Within
<1>2. ASSUME NEW t \in Tasks, NEW n \in Numbers,
             Start(t, n) \/ Complete(t, n) \/ Fail(t, n)
      PROVE  Within(u)'
  <2>1. PICK s, o :
          /\ \/ Start(t, n) /\ s = "running" /\ o = "running"
             \/ Complete(t, n) /\ s = "evidence_pending" /\ o = "succeeded"
             \/ /\ Fail(t, n)
                /\ s = IF Exhausted(t) THEN "failed" ELSE "retry_pending"
                /\ o = "failed"
    BY <1>2
  <2> QED BY <1>0, <2>1, SettleEffect DEF Exhausted, Within
<1>3. CASE ReapExpired
  BY <1>0, <1>3, ReapEffect DEF Exhausted, Within
<1>4. ASSUME NEW t \in Tasks, NEW c \in Controls \ {"resume"}, Control(t, c)
      PROVE  Within(u)'
  BY <1>0, <1>4, ControlEffect DEF Exhausted, Within, ControlTargets
<1>5. CASE QuietNext
  BY <1>0, <1>5, QuietEffect DEF QuietMove, Exhausted, Within
<1> QED BY <1>1, <1>2, <1>3, <1>4, <1>5, NextCases

(***************************************************************************)
(* A retry is only ever scheduled with attempts left, and a task fails for *)
(* good only with none left.                                               *)
(***************************************************************************)
THEOREM BudgetCorrect == Spec => []RetryBudget
<1>1. Init => RetryBudget
  BY DEF Init, RetryBudget
<1> QED BY <1>1, BudgetNext, TypeCorrect, PTL DEF Spec

-----------------------------------------------------------------------------
(* Fencing.                                                                *)

KeepsFence(k) ==
  /\ leases'[k].fence >= leases[k].fence
  /\ leases'[k].fence = leases[k].fence =>
       /\ leases'[k].holder = leases[k].holder
       /\ leases'[k].task = leases[k].task
       /\ leases'[k].left > 0 => leases[k].left > 0

LEMMA LeaseEffect ==
  ASSUME TypeOK, [Next]_vars, NEW k \in Keys
  PROVE  KeepsFence(k)
<1>0. /\ leases \in [Keys -> LeaseRow]
      /\ leases[k].fence \in Nat
      /\ leases[k].left \in Nat
      /\ Tasks \subseteq Keys
  BY DEF TypeOK, LeaseRow, Keys
<1> DEFINE Lowered == /\ leases'[k].fence = leases[k].fence
                      /\ leases'[k].holder = leases[k].holder
                      /\ leases'[k].task = leases[k].task
                      /\ leases'[k].left > 0 => leases[k].left > 0
<1>1. Lowered => KeepsFence(k)
  BY <1>0 DEF KeepsFence
<1>2. ASSUME NEW w \in Workers, NEW ttl \in 1..MaxTTL, ClaimNext(w, ttl)
      PROVE  KeepsFence(k)
  <2>1. PICK t \in Tasks, n \in Numbers : Claims(w, ttl, t, n)
    BY <1>2, ClaimEffect
  <2>2. CASE k = t
    BY <1>0, <2>1, <2>2 DEF Claims, KeepsFence
  <2>3. CASE k # t
    BY <1>0, <2>1, <2>3 DEF Claims, KeepsFence
  <2> QED BY <2>2, <2>3
<1>3. ASSUME NEW j \in AcquireKeys, NEW t \in Tasks, NEW h \in Holders,
             NEW ttl \in 1..MaxTTL, Acquire(j, t, h, ttl)
      PROVE  KeepsFence(k)
  <2>1. leases'[k] = IF k = j THEN [task |-> t, holder |-> h,
                                    fence |-> leases[j].fence + 1, left |-> ttl]
                              ELSE leases[k]
    BY <1>0, <1>3, SchedulerAssumption DEF Acquire, Grant
  <2>2. CASE k = j
    BY <1>0, <2>1, <2>2 DEF KeepsFence
  <2>3. CASE k # j
    BY <1>0, <2>1, <2>3 DEF KeepsFence
  <2> QED BY <2>2, <2>3
<1>4. ASSUME NEW j \in Keys, NEW ttl \in 1..MaxTTL, Renew(j, ttl)
      PROVE  KeepsFence(k)
  BY <1>0, <1>1, <1>4 DEF Renew, Live, LeaseRow
<1>5. ASSUME NEW j \in Keys, leases' = Release(j) PROVE KeepsFence(k)
  BY <1>0, <1>1, <1>5 DEF Release, LeaseRow
<1>6. CASE Tick
  BY <1>0, <1>1, <1>6 DEF Tick, Live, LeaseRow
<1>7. ASSUME NEW t \in Tasks, NEW c \in Controls \ {"resume"}, Control(t, c)
      PROVE  KeepsFence(k)
  BY <1>0, <1>1, <1>7 DEF Control, LeaseRow
<1>8. ASSUME UNCHANGED leases PROVE KeepsFence(k)
  BY <1>0, <1>1, <1>8
<1>9. CASE WorkerNext
  <2>1. ASSUME NEW t \in Tasks, NEW n \in Numbers,
               Start(t, n) \/ Complete(t, n) \/ Fail(t, n)
        PROVE  KeepsFence(k)
    BY <1>0, <1>5, <1>8, <2>1 DEF Start, Complete, Fail
  <2>2. ASSUME NEW w \in MayCrash, Crash(w) \/ Restart(w) PROVE KeepsFence(k)
    BY <1>8, <2>2 DEF Crash, Restart
  <2> QED BY <1>2, <1>9, <2>1, <2>2 DEF WorkerNext
<1>10. CASE LeaseNext
  <2>1. ASSUME NEW j \in Keys, ReleaseLease(j) PROVE KeepsFence(k)
    BY <1>5, <2>1 DEF ReleaseLease
  <2> QED BY <1>3, <1>4, <1>10, <2>1 DEF LeaseNext
<1>11. CASE SystemNext
  BY <1>6, <1>8, <1>11 DEF SystemNext, PromoteDueRetries, ReapExpired
<1>12. CASE KernelNext
  <2>1. ASSUME NEW t \in Tasks,
               \/ Resume(t)
               \/ \E s \in TaskState : AcceptTaskEvidence(t, s)
               \/ ConfirmTaskDelivery(t)
        PROVE  KeepsFence(k)
    BY <1>8, <2>1 DEF Resume, AcceptTaskEvidence, ConfirmTaskDelivery
  <2>2. ASSUME NEW rule \in LOOP_TRANSITIONS, AdvanceLoop(rule)
        PROVE  KeepsFence(k)
    BY <1>8, <2>2 DEF AdvanceLoop
  <2> QED BY <1>7, <1>12, <2>1, <2>2 DEF KernelNext
<1>13. CASE UNCHANGED vars
  BY <1>8, <1>13 DEF vars
<1> QED BY <1>9, <1>10, <1>11, <1>12, <1>13 DEF Next

(***************************************************************************)
(* A lease row's fence never goes back; a row changes hands, changes task  *)
(* or comes back to life only under a greater fence.                       *)
(***************************************************************************)
THEOREM TakeoverCorrect == Spec => TakeoverFenced
<1>1. TypeOK /\ [Next]_vars =>
        [\A k \in Keys :
           /\ leases'[k].fence >= leases[k].fence
           /\ leases'[k].fence = leases[k].fence =>
                /\ leases'[k].holder = leases[k].holder
                /\ leases'[k].task = leases[k].task
                /\ leases'[k].left > 0 => leases[k].left > 0]_vars
  BY LeaseEffect DEF KeepsFence
<1> QED BY <1>1, TypeCorrect, PTL DEF Spec, TakeoverFenced

(* Who claimed, and under which fence, is never rewritten. *)
LEMMA ClaimantsKept ==
  ASSUME TypeOK, [Next]_vars,
         ~\E w \in Workers, ttl \in 1..MaxTTL : ClaimNext(w, ttl)
  PROVE  \A u \in Tasks :
           /\ tasks'[u].attempt_count = tasks[u].attempt_count
           /\ \A m \in Numbers :
                /\ attempts'[u][m].worker = attempts[u][m].worker
                /\ attempts'[u][m].fence = attempts[u][m].fence
<1>1. ASSUME NEW t \in Tasks, NEW n \in Numbers,
             Start(t, n) \/ Complete(t, n) \/ Fail(t, n),
             NEW u \in Tasks
      PROVE  /\ tasks'[u].attempt_count = tasks[u].attempt_count
             /\ \A m \in Numbers :
                  /\ attempts'[u][m].worker = attempts[u][m].worker
                  /\ attempts'[u][m].fence = attempts[u][m].fence
  <2>1. PICK s, o :
          /\ \/ Start(t, n) /\ s = "running" /\ o = "running"
             \/ Complete(t, n) /\ s = "evidence_pending" /\ o = "succeeded"
             \/ /\ Fail(t, n)
                /\ s = IF Exhausted(t) THEN "failed" ELSE "retry_pending"
                /\ o = "failed"
    BY <1>1
  <2> QED BY <2>1, SettleEffect
<1> QED BY <1>1, ReapEffect, ControlEffect, QuietEffect, NextCases

LEMMA FencedNext == TypeOK /\ ClaimsFenced /\ [Next]_vars => ClaimsFenced'
<1> SUFFICES ASSUME TypeOK, ClaimsFenced, [Next]_vars,
                    NEW u \in Tasks, NEW n \in 1..tasks'[u].attempt_count
             PROVE  /\ attempts'[u][n].fence <= leases'[u].fence
                    /\ attempts'[u][n].fence = leases'[u].fence =>
                         /\ leases'[u].holder = attempts'[u][n].worker
                         /\ leases'[u].task = u
                    /\ \A m \in 1..tasks'[u].attempt_count :
                         n < m => attempts'[u][n].fence < attempts'[u][m].fence
  BY DEF ClaimsFenced
<1>0. /\ \A m \in 1..tasks[u].attempt_count : m \in Numbers
      /\ \A m \in Numbers : attempts[u][m].fence \in Nat
      /\ tasks[u].attempt_count \in Nat
      /\ leases[u].fence \in Nat
      /\ u \in Keys
  <2>1. tasks[u].attempt_count \in Nat /\ MaxAttempts[u] \in 1..AttemptLimit
    BY SchedulerAssumption DEF TypeOK, TaskRow
  <2>2. tasks[u].attempt_count <= MaxAttempts[u]
    BY DEF TypeOK
  <2>3. \A m \in Numbers : attempts[u][m] \in AttemptRow
    BY DEF TypeOK
  <2>4. u \in Keys /\ leases[u] \in LeaseRow
    BY DEF TypeOK, Keys
  <2> QED
    BY <2>1, <2>2, <2>3, <2>4, SchedulerAssumption
       DEF Numbers, AttemptRow, LeaseRow
<1>1. \A i \in 1..tasks[u].attempt_count :
        /\ attempts[u][i].fence <= leases[u].fence
        /\ attempts[u][i].fence = leases[u].fence =>
             leases[u].holder = attempts[u][i].worker /\ leases[u].task = u
        /\ \A m \in 1..tasks[u].attempt_count :
             i < m => attempts[u][i].fence < attempts[u][m].fence
  BY DEF ClaimsFenced
<1>2. /\ leases'[u].fence >= leases[u].fence
      /\ leases'[u].fence = leases[u].fence =>
           /\ leases'[u].holder = leases[u].holder
           /\ leases'[u].task = leases[u].task
  BY <1>0, LeaseEffect DEF KeepsFence
<1>3. leases'[u].fence \in Nat
  BY <1>0, TypeNext DEF TypeOK, LeaseRow
<1>4. CASE \E w \in Workers, ttl \in 1..MaxTTL : ClaimNext(w, ttl)
  <2>1. PICK w \in Workers, ttl \in 1..MaxTTL, t \in Tasks, c \in Numbers :
          Claims(w, ttl, t, c)
    BY <1>4, ClaimEffect
  <2>2. CASE u # t
    <3>1. /\ tasks'[u].attempt_count = tasks[u].attempt_count
          /\ \A m \in Numbers : attempts'[u][m] = attempts[u][m]
          /\ leases'[u] = leases[u]
      BY <1>0, <2>1, <2>2 DEF Claims
    <3> QED BY <1>0, <1>1, <3>1
  <2>3. CASE u = t
    <3>1. /\ c = tasks[u].attempt_count + 1
          /\ tasks'[u].attempt_count = c
          /\ \A m \in Numbers : m # c => attempts'[u][m] = attempts[u][m]
          /\ attempts'[u][c].worker = w
          /\ attempts'[u][c].fence = leases[u].fence + 1
          /\ leases'[u].fence = leases[u].fence + 1
          /\ leases'[u].holder = w
          /\ leases'[u].task = u
      BY <1>0, <2>1, <2>3 DEF Claims
    <3>2. \A m \in 1..c : m = c \/ m \in 1..tasks[u].attempt_count
      BY <1>0, <3>1
    <3> QED BY <1>0, <1>1, <3>1, <3>2
  <2> QED BY <2>2, <2>3
<1>5. CASE ~\E w \in Workers, ttl \in 1..MaxTTL : ClaimNext(w, ttl)
  <2>1. /\ tasks'[u].attempt_count = tasks[u].attempt_count
        /\ \A m \in Numbers : /\ attempts'[u][m].worker = attempts[u][m].worker
                              /\ attempts'[u][m].fence = attempts[u][m].fence
    BY <1>5, ClaimantsKept
  <2> QED BY <1>0, <1>1, <1>2, <1>3, <2>1
<1> QED BY <1>4, <1>5

(***************************************************************************)
(* Claims of a task are strictly ordered by fence, none is ahead of the    *)
(* lease row, and the row's fence identifies its claim.                    *)
(***************************************************************************)
THEOREM FencedCorrect == Spec => []ClaimsFenced
<1>1. Init => ClaimsFenced
  BY DEF Init, ClaimsFenced
<1> QED BY <1>1, FencedNext, TypeCorrect, PTL DEF Spec

(***************************************************************************)
(* What the fences are for: at most one claim of a task ever matches the   *)
(* fence of the task's lease row, even of claims of one and the same       *)
(* worker, so a superseded claim is refused on the lease row alone         *)
(* (require_current_fence, _require_claim, _assert_current_lease).         *)
(***************************************************************************)
THEOREM ExclusiveFence ==
  Spec => [](\A t \in Tasks : \A m, n \in 1..tasks[t].attempt_count :
               /\ attempts[t][m].fence = leases[t].fence
               /\ attempts[t][n].fence = leases[t].fence
               => m = n)
<1>1. TypeOK /\ ClaimsFenced =>
        \A t \in Tasks : \A m, n \in 1..tasks[t].attempt_count :
          /\ attempts[t][m].fence = leases[t].fence
          /\ attempts[t][n].fence = leases[t].fence
          => m = n
  <2> SUFFICES ASSUME TypeOK, ClaimsFenced, NEW t \in Tasks,
                      NEW m \in 1..tasks[t].attempt_count,
                      NEW n \in 1..tasks[t].attempt_count,
                      attempts[t][m].fence = leases[t].fence,
                      attempts[t][n].fence = leases[t].fence
               PROVE  m = n
    OBVIOUS
  <2>1. leases[t] \in LeaseRow
    BY DEF TypeOK, Keys
  <2>2. leases[t].fence \in Nat
    BY <2>1 DEF LeaseRow
  <2>3. ~(m < n) /\ ~(n < m)
    BY <2>2 DEF ClaimsFenced
  <2> QED BY <2>3
<1> QED BY <1>1, FencedCorrect, TypeCorrect, PTL

-----------------------------------------------------------------------------
(* An attempt that has ended is never rewritten.                           *)

LEMMA OutcomeKept ==
  ASSUME TypeOK, AttemptLedger, [Next]_vars, NEW u \in Tasks, NEW m \in Numbers,
         attempts[u][m].state \in EndedStates
  PROVE  attempts'[u][m] = attempts[u][m]
<1>0. ~Open(u, m) /\ attempts[u][m].state # "absent"
  BY DEF Open, OpenStates, EndedStates
<1>1. ASSUME NEW w \in Workers, NEW ttl \in 1..MaxTTL, ClaimNext(w, ttl)
      PROVE  attempts'[u][m] = attempts[u][m]
  <2>1. PICK t \in Tasks, n \in Numbers : Claims(w, ttl, t, n)
    BY <1>1, ClaimEffect
  <2>2. tasks[t].attempt_count \in Nat
    BY DEF TypeOK, TaskRow
  <2>3. attempts[t][n].state = "absent"
    BY <2>1, <2>2 DEF Claims, AttemptLedger
  <2> QED BY <1>0, <2>1, <2>3 DEF Claims
<1>2. ASSUME NEW t \in Tasks, NEW n \in Numbers,
             Start(t, n) \/ Complete(t, n) \/ Fail(t, n)
      PROVE  attempts'[u][m] = attempts[u][m]
  <2>1. PICK s, o :
          /\ \/ Start(t, n) /\ s = "running" /\ o = "running"
             \/ Complete(t, n) /\ s = "evidence_pending" /\ o = "succeeded"
             \/ /\ Fail(t, n)
                /\ s = IF Exhausted(t) THEN "failed" ELSE "retry_pending"
                /\ o = "failed"
    BY <1>2
  <2>2. Open(t, n)
    BY <2>1, SettleEffect DEF ClaimCurrent
  <2> QED BY <1>0, <2>1, <2>2, SettleEffect
<1>3. CASE ReapExpired
  BY <1>0, <1>3, ReapEffect
<1>4. ASSUME NEW t \in Tasks, NEW c \in Controls \ {"resume"}, Control(t, c)
      PROVE  attempts'[u][m] = attempts[u][m]
  BY <1>0, <1>4, ControlEffect
<1>5. CASE QuietNext
  BY <1>5, QuietEffect
<1> QED BY <1>1, <1>2, <1>3, <1>4, <1>5, NextCases

(***************************************************************************)
(* No late worker, sweep or owner command rewrites an attempt's outcome.   *)
(***************************************************************************)
THEOREM OutcomeCorrect == Spec => AttemptOutcomeFinal
<1>1. TypeOK /\ AttemptLedger /\ [Next]_vars =>
        [\A t \in Tasks, n \in Numbers :
           attempts[t][n].state \in EndedStates =>
             attempts'[t][n] = attempts[t][n]]_vars
  BY OutcomeKept
<1> QED BY <1>1, TypeCorrect, LedgerCorrect, PTL DEF Spec, AttemptOutcomeFinal
-----------------------------------------------------------------------------
(* Replay.                                                                 *)

(***************************************************************************)
(* What the operational columns of a task say of its attempts: a claimed   *)
(* task has one, a failed one is retained, and a due time is set only      *)
(* behind a failure.                                                       *)
(***************************************************************************)
Recoverable(t) ==
  /\ tasks[t].state \in Claimed => tasks[t].attempt_count > 0
  /\ \A n \in Numbers :
       attempts[t][n].state \in FailureStates => t \in negative_results
  /\ tasks[t].state \in {"retry_pending", "failed"} => LatestFailed(t)
  /\ tasks[t].state = "retry_pending" => tasks[t].due # NoDue
  /\ tasks[t].due # NoDue =>
       tasks[t].state \notin DueMustBeNull /\ LatestFailed(t)

LEMMA RecoverableNext ==
  TypeOK /\ AttemptLedger /\ (\A t \in Tasks : Recoverable(t)) /\ [Next]_vars
    => \A t \in Tasks : Recoverable(t)'
<1> SUFFICES ASSUME TypeOK, AttemptLedger, \A t \in Tasks : Recoverable(t),
                    [Next]_vars, NEW u \in Tasks
             PROVE  Recoverable(u)'
  OBVIOUS
<1> DEFINE c0 == tasks[u].attempt_count
<1>0. /\ Recoverable(u) /\ c0 \in Nat /\ tasks[u].state \in TaskState
      /\ c0 > 0 => c0 \in Numbers
      /\ \A n \in Numbers :
           Open(u, n) <=> n = c0 /\ tasks[u].state \in Claimed
  BY SchedulerAssumption DEF TypeOK, TaskRow, Numbers, AttemptLedger
<1> USE DEF FailureStates, DueMustBeNull, LatestFailed, Claimed
<1>1. ASSUME NEW w \in Workers, NEW ttl \in 1..MaxTTL, ClaimNext(w, ttl)
      PROVE  Recoverable(u)'
  <2>1. PICK t \in Tasks, n \in Numbers : Claims(w, ttl, t, n)
    BY <1>1, ClaimEffect
  <2>2. CASE u = t
    <3>1. /\ tasks'[u].state = "leased" /\ tasks'[u].due = NoDue
          /\ tasks'[u].attempt_count = c0 + 1
          /\ negative_results' = negative_results
          /\ \A m \in Numbers : \/ attempts'[u][m].state = "leased"
                                \/ attempts'[u][m] = attempts[u][m]
      BY <2>1, <2>2 DEF Claims
    <3> QED BY <1>0, <3>1 DEF Recoverable
  <2>3. CASE u # t
    <3>1. /\ tasks'[u].state = tasks[u].state /\ tasks'[u].due = tasks[u].due
          /\ tasks'[u].attempt_count = c0
          /\ negative_results' = negative_results
          /\ \A m \in Numbers : attempts'[u][m] = attempts[u][m]
      BY <2>1, <2>3 DEF Claims
    <3> QED BY <1>0, <3>1 DEF Recoverable
  <2> QED BY <2>2, <2>3
<1>2. ASSUME NEW t \in Tasks, NEW n \in Numbers,
             Start(t, n) \/ Complete(t, n) \/ Fail(t, n)
      PROVE  Recoverable(u)'
  <2>1. PICK s, o :
          /\ \/ Start(t, n) /\ s = "running" /\ o = "running"
             \/ Complete(t, n) /\ s = "evidence_pending" /\ o = "succeeded"
             \/ /\ Fail(t, n)
                /\ s = IF Exhausted(t) THEN "failed" ELSE "retry_pending"
                /\ o = "failed"
    BY <1>2
  <2>2. /\ ClaimCurrent(t, n)
        /\ \A v \in Tasks :
             /\ tasks'[v].attempt_count = tasks[v].attempt_count
             /\ tasks'[v].state = IF v = t THEN s ELSE tasks[v].state
             /\ v # t \/ o # "failed" => tasks'[v].due = tasks[v].due
        /\ o = "failed" => (tasks'[t].due = NoDue <=> s = "failed")
        /\ negative_results' = IF o = "failed" THEN negative_results \cup {t}
                                               ELSE negative_results
        /\ \A v \in Tasks, m \in Numbers :
             attempts'[v][m].state =
               IF v = t /\ m = n THEN o ELSE attempts[v][m].state
    BY <2>1, SettleEffect
  <2>3. CASE u = t
    <3>1. Open(u, n)
      BY <2>2, <2>3 DEF ClaimCurrent
    <3>2. n = c0 /\ tasks[u].state \in Claimed /\ c0 \in Numbers /\ c0 > 0
      BY <1>0, <3>1 DEF Numbers
    <3>3. tasks[u].due = NoDue
      BY <1>0, <3>2 DEF Recoverable
    <3>4. /\ \/ s = "running" /\ o = "running"
             \/ s = "evidence_pending" /\ o = "succeeded"
             \/ s \in {"failed", "retry_pending"} /\ o = "failed"
          /\ tasks'[u].state = s /\ tasks'[u].attempt_count = c0
          /\ attempts'[u][c0].state = o
          /\ \A m \in Numbers \ {c0} :
               attempts'[u][m].state = attempts[u][m].state
          /\ o # "failed" => tasks'[u].due = NoDue
          /\ o = "failed" => (tasks'[u].due = NoDue <=> s = "failed")
          /\ o = "failed" => u \in negative_results'
          /\ negative_results \subseteq negative_results'
      BY <2>1, <2>2, <2>3, <3>2, <3>3
    <3> QED BY <1>0, <3>2, <3>4 DEF Recoverable
  <2>4. CASE u # t
    <3>1. /\ tasks'[u].state = tasks[u].state /\ tasks'[u].due = tasks[u].due
          /\ tasks'[u].attempt_count = c0
          /\ negative_results \subseteq negative_results'
          /\ \A m \in Numbers : attempts'[u][m].state = attempts[u][m].state
      BY <2>2, <2>4
    <3> QED BY <1>0, <3>1 DEF Recoverable
  <2> QED BY <2>3, <2>4
<1>3. CASE ReapExpired
  <2>1. PICK T \in SUBSET Abandoned :
          /\ tasks'[u].attempt_count = c0
          /\ tasks'[u].state =
               IF u \notin T THEN tasks[u].state
               ELSE IF Exhausted(u) THEN "failed" ELSE "retry_pending"
          /\ u \notin T => tasks'[u].due = tasks[u].due
          /\ u \in T => (tasks'[u].due = NoDue <=> Exhausted(u))
          /\ negative_results' = negative_results \cup T
          /\ \A m \in Numbers :
               attempts'[u][m].state =
                 IF u \in T /\ Open(u, m) THEN "abandoned"
                                          ELSE attempts[u][m].state
    BY <1>3, ReapEffect
  <2>2. CASE u \in T
    <3>1. tasks[u].state \in Claimed
      BY <2>2 DEF Abandoned
    <3>2. c0 > 0 /\ Open(u, c0) /\ c0 \in Numbers
      BY <1>0, <3>1 DEF Recoverable
    <3>3. attempts'[u][c0].state = "abandoned" /\ u \in negative_results'
      BY <2>1, <2>2, <3>2
    <3> QED BY <1>0, <2>1, <2>2, <3>2, <3>3 DEF Recoverable
  <2>3. CASE u \notin T
    <3>1. /\ tasks'[u].state = tasks[u].state /\ tasks'[u].due = tasks[u].due
          /\ tasks'[u].attempt_count = c0
          /\ negative_results \subseteq negative_results'
          /\ \A m \in Numbers : attempts'[u][m].state = attempts[u][m].state
      BY <2>1, <2>3
    <3> QED BY <1>0, <3>1 DEF Recoverable
  <2> QED BY <2>2, <2>3
<1>4. ASSUME NEW t \in Tasks, NEW c \in Controls \ {"resume"}, Control(t, c)
      PROVE  Recoverable(u)'
  <2>1. /\ TaskMayMove(tasks[t].state, c) /\ c \in ControlTargets
        /\ tasks'[u].attempt_count = c0
        /\ tasks'[u].state = IF u = t THEN c ELSE tasks[u].state
        /\ tasks'[u].due = tasks[u].due
        /\ negative_results' = negative_results
        /\ \A m \in Numbers :
             /\ attempts'[u][m].state =
                  IF u = t /\ c # "suspended" /\ Open(u, m)
                    THEN c ELSE attempts[u][m].state
             /\ ~Open(u, m) => attempts'[u][m] = attempts[u][m]
    BY <1>4, ControlEffect
  <2>2. c = "suspended" => tasks[t].state = "running"
    <3>1. tasks[t].state \in TaskState
      BY DEF TypeOK, TaskRow
    <3> QED BY <2>1, <3>1 DEF TaskMayMove, TASK_TRANSITIONS, TaskState
  <2>3. /\ c \in {"blocked", "canceled", "deleted", "retired", "suspended"}
        /\ \A m \in Numbers :
             /\ attempts'[u][m].state \in FailureStates =>
                  attempts[u][m].state \in FailureStates
             /\ attempts[u][m].state \in FailureStates =>
                  attempts'[u][m] = attempts[u][m]
    BY <2>1 DEF ControlTargets, Open, OpenStates
  <2>4. CASE u = t
    BY <1>0, <2>1, <2>2, <2>3, <2>4 DEF Recoverable
  <2>5. CASE u # t
    BY <1>0, <2>1, <2>3, <2>5 DEF Recoverable
  <2> QED BY <2>4, <2>5
<1>5. CASE QuietNext
  <2>1. /\ attempts' = attempts /\ negative_results' = negative_results
        /\ tasks'[u].attempt_count = c0
        /\ tasks'[u].due = NoDue <=> tasks[u].due = NoDue
        /\ QuietMove(u)
    BY <1>5, QuietEffect
  <2> QED BY <1>0, <2>1 DEF Recoverable, QuietMove
<1> QED BY <1>1, <1>2, <1>3, <1>4, <1>5, NextCases

LEMMA RecoverableReplays ==
  TypeOK /\ AttemptLedger /\ RetryBudget /\ (\A t \in Tasks : Recoverable(t))
    => ReplayVerifies
<1> SUFFICES ASSUME TypeOK, AttemptLedger, RetryBudget,
                    \A t \in Tasks : Recoverable(t), NEW t \in Tasks
             PROVE  VerifyOperational(t)
  BY DEF ReplayVerifies
<1>1. Recoverable(t)
  OBVIOUS
<1>2. /\ tasks[t].attempt_count \in 0..AttemptLimit
      /\ MaxAttempts[t] \in Int
      /\ tasks[t].state = "retry_pending" =>
           tasks[t].attempt_count < MaxAttempts[t]
      /\ tasks[t].state = "failed" => tasks[t].attempt_count = MaxAttempts[t]
  BY SchedulerAssumption DEF TypeOK, TaskRow, RetryBudget
<1>3. {n \in Numbers : attempts[t][n].state # "absent"}
        = 1..tasks[t].attempt_count
  <2>1. \A n \in Numbers :
          attempts[t][n].state # "absent" <=> n <= tasks[t].attempt_count
    BY <1>2 DEF AttemptLedger, Numbers
  <2> QED BY <1>2, <2>1, SchedulerAssumption DEF Numbers
<1>4. VerifyDueAt(t)
  BY <1>1, <1>2 DEF VerifyDueAt, Recoverable
<1> QED BY <1>1, <1>3, <1>4 DEF VerifyOperational, Recoverable

(***************************************************************************)
(* A database the scheduler and the owner's controls have written, in any  *)
(* order and with crashes anywhere between transactions, passes the        *)
(* cross-checks of replay between what different operations write          *)
(* (_verify_task_operational_projections, _verify_due_at): gapless         *)
(* attempts, attempt_count, a result behind every failure, due_at.         *)
(***************************************************************************)
THEOREM ReplayCorrect == Spec => []ReplayVerifies
<1>1. Init => \A t \in Tasks : Recoverable(t)
  BY DEF Init, Recoverable, Claimed, FailureStates
<1>2. TypeOK /\ AttemptLedger /\ (\A t \in Tasks : Recoverable(t)) /\ [Next]_vars
        => (\A t \in Tasks : Recoverable(t))'
  BY RecoverableNext
<1>3. Spec => [](\A t \in Tasks : Recoverable(t))
  BY <1>1, <1>2, TypeCorrect, LedgerCorrect, PTL DEF Spec
<1> QED BY <1>3, RecoverableReplays, TypeCorrect, LedgerCorrect, BudgetCorrect,
           PTL


=============================================================================
