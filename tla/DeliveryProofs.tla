--------------------------- MODULE DeliveryProofs ---------------------------
(***************************************************************************)
(* Proofs about delivery, for any number of tasks, artifacts, claims,      *)
(* integration items, surfaces and observations.                           *)
(***************************************************************************)
EXTENDS Delivery, WellFoundedInduction, TLAPS

-----------------------------------------------------------------------------
(* The inductive invariant.                                                *)

ItemRow == [task : Tasks, state : ItemState, refs : SUBSET ClaimRow]

DeliveryType ==
  /\ loop_state \in LoopState
  /\ tasks \in [Tasks -> TaskState \cup {"absent"}]
  /\ steps \in [Tasks -> {"none", "pending", "succeeded", "failed"}]
  /\ artifacts \subseteq ArtifactInputs
  /\ evidence_claims \subseteq ClaimRow
  /\ integration_items \in [Items -> ItemRow \cup {Absent}]
  /\ runtime_observations \in [Surfaces -> Seq(Observation)]
  /\ trusted \subseteq Principals
  /\ gates \in [Tasks -> 0..MaxTTL]
  /\ resume_left \in 0..MaxTTL
  /\ negative_results \subseteq Tasks
  /\ starts \in 0..MaxIterations

(***************************************************************************)
(* What record_claim established of a claim, and no later step undoes: its *)
(* artifacts are registered and its task's, and a passing verdict is an    *)
(* evaluator's who made none of them.                                      *)
(***************************************************************************)
ClaimsChecked ==
  \A c \in evidence_claims :
    /\ c.arts \subseteq artifacts
    /\ \A x \in c.arts : x.task = c.task
    /\ c.verdict \in PASSING_EVALUATOR =>
         /\ "evaluator" \in RolesOf[c.verifier]
         /\ \A x \in c.arts : x.producer # c.verifier

ItemsRefer ==
  \A i \in Items : integration_items[i] # Absent =>
    integration_items[i].refs \subseteq evidence_claims

(* What confirm_task_delivery found, in the words of its guards. *)
Stands(t) ==
  /\ \E c \in evidence_claims : Passes(c, t)
  /\ StepsSucceeded(t)
  /\ Integrated(t)

Standing == \A t \in Tasks : Done(t) => Stands(t)

(* A final item of a task had a claim that passes the task. *)
ClosedOnClaim ==
  \A i \in Items :
    integration_items[i] # Absent /\ integration_items[i].state \in ItemFinal
      => \E c \in evidence_claims : Passes(c, integration_items[i].task)

Inv ==
  /\ DeliveryType
  /\ ClaimsChecked
  /\ ItemsRefer
  /\ Standing
  /\ ClosedOnClaim
  /\ SealedRun

-----------------------------------------------------------------------------
(* Steps that leave most of it alone.                                      *)

LEMMA ItemFacts ==
  ASSUME DeliveryType, NEW i \in Items
  PROVE  /\ integration_items[i] # Absent =>
              /\ integration_items[i] \in ItemRow
              /\ integration_items[i].task \in Tasks
              /\ integration_items[i].state \in ItemState
         /\ integration_items[i].task \in Tasks =>
              integration_items[i] # Absent
<1>1. Absent.task \notin Tasks
  BY DeliveryAssumption DEF Absent
<1>2. integration_items[i] # Absent => integration_items[i] \in ItemRow
  BY DEF DeliveryType
<1> QED BY <1>1, <1>2 DEF ItemRow

(* Tasks, steps and registries as they were. *)
LEMMA FactsStand ==
  ASSUME Inv, UNCHANGED <<tasks, steps>>, UNCHANGED registries
  PROVE  ClaimsChecked' /\ ItemsRefer' /\ Standing' /\ ClosedOnClaim'
<1>1. /\ UNCHANGED artifacts /\ UNCHANGED evidence_claims
      /\ UNCHANGED integration_items
  BY DEF registries
<1>2. ClaimsChecked' /\ ItemsRefer'
  BY <1>1 DEF Inv, ClaimsChecked, ItemsRefer
<1>3. Standing'
  BY <1>1 DEF Inv, Standing, Stands, Done, Passes, OnTarget, StepsSucceeded,
              Integrated, ItemsOf
<1>4. ClosedOnClaim'
  BY <1>1 DEF Inv, ClosedOnClaim, Passes, OnTarget
<1> QED BY <1>2, <1>3, <1>4

(* One task moves; if it moves to delivered, it stands. *)
LEMMA TaskMoves ==
  ASSUME Inv, NEW t \in Tasks, NEW to \in TaskState,
         tasks' = [tasks EXCEPT ![t] = to],
         to = "delivered" => Stands(t),
         \/ loop_state \notin Sealed
         \/ tasks[t] # "absent" /\ (tasks[t] = to \/ to = "retired"),
         UNCHANGED <<loop_state, starts, steps, trusted>>,
         UNCHANGED registries, UNCHANGED clocked,
         negative_results' \subseteq Tasks
  PROVE  Inv'
<1>1. /\ UNCHANGED artifacts /\ UNCHANGED evidence_claims
      /\ UNCHANGED integration_items /\ UNCHANGED runtime_observations
      /\ UNCHANGED gates /\ UNCHANGED resume_left /\ UNCHANGED loop_state
      /\ UNCHANGED starts /\ UNCHANGED steps /\ UNCHANGED trusted
  BY DEF registries, clocked
<1>2. /\ tasks'[t] = to
      /\ \A u \in Tasks \ {t} : tasks'[u] = tasks[u]
      /\ tasks' \in [Tasks -> TaskState \cup {"absent"}]
  BY DEF Inv, DeliveryType
<1>3. DeliveryType'
  BY <1>1, <1>2 DEF Inv, DeliveryType
<1>4. ClaimsChecked' /\ ItemsRefer' /\ ClosedOnClaim'
  BY <1>1 DEF Inv, ClaimsChecked, ItemsRefer, ClosedOnClaim, Passes, OnTarget
<1>5. \A u \in Tasks : Stands(u)' <=> Stands(u)
  BY <1>1 DEF Stands, Passes, OnTarget, StepsSucceeded, Integrated, ItemsOf
<1>6. Standing'
  <2> SUFFICES ASSUME NEW u \in Tasks, tasks'[u] = "delivered"
               PROVE  Stands(u)
    BY <1>5 DEF Standing, Done
  <2>1. CASE u = t
    BY <2>1, <1>2
  <2>2. CASE u # t
    BY <2>2, <1>2 DEF Inv, Standing, Done
  <2> QED BY <2>1, <2>2
<1>7. SealedRun'
  <2> SUFFICES ASSUME loop_state \in Sealed, NEW u \in Tasks,
                      tasks'[u] # "absent"
               PROVE  tasks'[u] \in {"delivered", "retired"}
    BY <1>1 DEF SealedRun, Present
  <2>1. \A v \in Tasks :
          tasks[v] # "absent" => tasks[v] \in {"delivered", "retired"}
    BY DEF Inv, SealedRun, Present
  <2> QED BY <2>1, <1>2
<1> QED BY <1>3, <1>4, <1>6, <1>7 DEF Inv

-----------------------------------------------------------------------------
(* Kernel commands and the moves of the work.                              *)

LEMMA AddTaskKeeps ==
  ASSUME Inv, NEW t \in Tasks, AddTask(t)
  PROVE  Inv'
<1>1. /\ loop_state \notin Sealed /\ tasks' = [tasks EXCEPT ![t] = "ready"]
      /\ UNCHANGED <<loop_state, starts, steps, trusted>>
      /\ UNCHANGED registries /\ UNCHANGED clocked
      /\ UNCHANGED negative_results
  BY DEF AddTask, supervised
<1>2. "ready" \in TaskState
  BY DEF TaskState
<1>3. negative_results' \subseteq Tasks
  BY <1>1 DEF Inv, DeliveryType
<1> QED BY <1>1, <1>2, <1>3, TaskMoves

LEMMA AcceptKeeps ==
  ASSUME Inv, NEW t \in Tasks, NEW c, AcceptTaskEvidence(t, c)
  PROVE  Inv'
<1> DEFINE to == IF EvaluatorOk(t) THEN "integration_pending"
                                   ELSE "evaluator_pending"
<1>1. /\ tasks[t] \in {"evidence_pending", "evaluator_pending"}
      /\ tasks' = [tasks EXCEPT ![t] = to]
      /\ UNCHANGED <<loop_state, starts, steps, trusted>>
      /\ UNCHANGED registries /\ UNCHANGED clocked
      /\ UNCHANGED negative_results
  BY DEF AcceptTaskEvidence, supervised
<1>2. to \in TaskState /\ to # "delivered"
  BY DEF TaskState
<1>3. loop_state \notin Sealed
  BY <1>1 DEF Inv, SealedRun, Present
<1>4. negative_results' \subseteq Tasks
  BY <1>1 DEF Inv, DeliveryType
<1> HIDE DEF to
<1> QED BY <1>1, <1>2, <1>3, <1>4, TaskMoves

(* The guards of confirm_task_delivery are what it means to stand. *)
LEMMA ConfirmStands ==
  ASSUME NEW t \in Tasks, ConfirmTaskDelivery(t)
  PROVE  Stands(t)
<1>1. EvidenceOk(t) /\ EvaluatorOk(t) /\ StepsSucceeded(t) /\ Integrated(t)
  BY DEF ConfirmTaskDelivery
<1>2. \E c \in evidence_claims : Passes(c, t)
  BY <1>1 DEF EvidenceOk, EvaluatorOk, IndependentlyPassed, Passes, OnTarget
<1> QED BY <1>1, <1>2 DEF Stands

LEMMA ConfirmKeeps ==
  ASSUME Inv, NEW t \in Tasks, ConfirmTaskDelivery(t)
  PROVE  Inv'
<1>1. /\ tasks[t] = "integration_pending"
      /\ tasks' = [tasks EXCEPT ![t] = "delivered"]
      /\ UNCHANGED <<loop_state, starts, steps, trusted>>
      /\ UNCHANGED registries /\ UNCHANGED clocked
      /\ UNCHANGED negative_results
  BY DEF ConfirmTaskDelivery, supervised
<1>2. "delivered" \in TaskState
  BY DEF TaskState
<1>3. loop_state \notin Sealed
  BY <1>1 DEF Inv, SealedRun, Present
<1>4. negative_results' \subseteq Tasks
  BY <1>1 DEF Inv, DeliveryType
<1> QED BY <1>1, <1>2, <1>3, <1>4, ConfirmStands, TaskMoves

LEMMA MoveKeeps ==
  ASSUME Inv, NEW t \in Tasks, NEW to \in TaskState, Move(t, to)
  PROVE  Inv'
<1>1. /\ <<tasks[t], to>> \in WorkMoves
      /\ tasks' = [tasks EXCEPT ![t] = to]
      /\ negative_results' = IF to \in {"retry_pending", "failed"}
                               THEN negative_results \cup {t}
                               ELSE negative_results
      /\ UNCHANGED <<loop_state, starts, steps, trusted>>
      /\ UNCHANGED registries /\ UNCHANGED clocked
  BY DEF Move
<1>2. /\ tasks[t] \in TaskState /\ to # "delivered"
      /\ to \in TASK_TRANSITIONS[tasks[t]]
  <2>1. <<tasks[t], to>> \in TaskState \X (TaskState \ {"delivered"})
    BY <1>1, DeliveryAssumption
  <2>2. TaskMayMove(<<tasks[t], to>>[1], <<tasks[t], to>>[2])
    BY <1>1, DeliveryAssumption
  <2> QED BY <2>1, <2>2 DEF TaskMayMove
<1>3. loop_state \in Sealed => tasks[t] # "absent" /\ to = "retired"
  <2> SUFFICES ASSUME loop_state \in Sealed
               PROVE  tasks[t] # "absent" /\ to = "retired"
    OBVIOUS
  <2>1. tasks[t] # "absent"
    BY <1>2 DEF TaskState
  <2>2. tasks[t] \in {"delivered", "retired"}
    BY <2>1 DEF Inv, SealedRun, Present
  <2>3. /\ TASK_TRANSITIONS["delivered"] = {"retired"}
        /\ TASK_TRANSITIONS["retired"] = {}
    BY DEF TASK_TRANSITIONS
  <2> QED BY <1>2, <2>1, <2>2, <2>3
<1>4. negative_results' \subseteq Tasks
  BY <1>1 DEF Inv, DeliveryType
<1> QED BY <1>1, <1>2, <1>3, <1>4, TaskMoves

(* A step is enqueued while its task runs, and settles once. *)
LEMMA StepKeeps ==
  ASSUME Inv, NEW t \in Tasks,
         \/ EnqueueStep(t)
         \/ \E o \in {"succeeded", "failed"} : SettleStep(t, o)
  PROVE  Inv'
<1>1. PICK to \in {"pending", "succeeded", "failed"} :
        steps' = [steps EXCEPT ![t] = to]
  BY DEF EnqueueStep, SettleStep
<1>2. /\ UNCHANGED <<loop_state, tasks, starts, trusted>>
      /\ UNCHANGED registries /\ UNCHANGED clocked
      /\ steps[t] \in {"none", "pending"}
      /\ negative_results' \in {negative_results, negative_results \cup {t}}
  BY DEF EnqueueStep, SettleStep
<1>3. /\ UNCHANGED artifacts /\ UNCHANGED evidence_claims
      /\ UNCHANGED integration_items /\ UNCHANGED runtime_observations
      /\ UNCHANGED gates /\ UNCHANGED resume_left /\ UNCHANGED loop_state
      /\ UNCHANGED starts /\ UNCHANGED tasks /\ UNCHANGED trusted
  BY <1>2 DEF registries, clocked
<1>4. DeliveryType'
  BY <1>1, <1>2, <1>3 DEF Inv, DeliveryType
<1>5. ClaimsChecked' /\ ItemsRefer' /\ ClosedOnClaim'
  BY <1>3 DEF Inv, ClaimsChecked, ItemsRefer, ClosedOnClaim, Passes, OnTarget
<1>6. Standing'
  <2> SUFFICES ASSUME NEW u \in Tasks, tasks[u] = "delivered"
               PROVE  Stands(u)'
    BY <1>3 DEF Standing, Done
  <2>1. Stands(u)
    BY DEF Inv, Standing, Done
  <2>2. StepsSucceeded(u)'
    <3>1. u \in Stepped => steps[u] = "succeeded"
      BY <2>1 DEF Stands, StepsSucceeded
    <3>2. CASE u = t
      <4>1. u \notin Stepped
        BY <3>1, <3>2, <1>2
      <4> QED BY <4>1 DEF StepsSucceeded
    <3>3. CASE u # t
      BY <3>1, <3>3, <1>1 DEF StepsSucceeded, Inv, DeliveryType
    <3> QED BY <3>2, <3>3
  <2> QED BY <2>1, <2>2, <1>3 DEF Stands, Passes, OnTarget, Integrated, ItemsOf
<1>7. SealedRun'
  BY <1>3 DEF Inv, SealedRun, Present
<1> QED BY <1>4, <1>5, <1>6, <1>7 DEF Inv

(***************************************************************************)
(* The loop table: delivery is reached under the delivery guards, or back  *)
(* from improvement, which itself is entered from delivered alone.         *)
(***************************************************************************)
LEMMA RulesToSealed ==
  ASSUME NEW rule \in LOOP_TRANSITIONS
  PROVE  /\ rule.to = "delivered" =>
              \/ rule.from = "improvement_pending"
              \/ rule.guards = DeliveryGuards
         /\ rule.to = "improvement_pending" => rule.from = "delivered"
BY DEF LOOP_TRANSITIONS, Rule

LEMMA DeliveryResolves ==
  ASSUME \A guard \in DeliveryGuards : Resolve(guard)
  PROVE  TasksTerminal /\ FreshnessSatisfied
<1>1. Resolve("tasks_terminal") /\ Resolve("freshness_satisfied")
  BY DEF DeliveryGuards
<1> QED BY <1>1 DEF Resolve

LEMMA AdvanceLoopKeeps ==
  ASSUME Inv, NEW rule \in LOOP_TRANSITIONS, AdvanceLoop(rule)
  PROVE  Inv'
<1>1. /\ rule.from = loop_state /\ rule.to \in RunStates
      /\ rule.event = "task_started" => starts < MaxIterations
      /\ \A guard \in rule.guards : Resolve(guard)
      /\ loop_state' = rule.to
      /\ starts' = IF rule.event = "task_started" THEN starts + 1 ELSE starts
      /\ UNCHANGED <<tasks, steps, negative_results, trusted>>
      /\ UNCHANGED registries /\ UNCHANGED clocked
  BY DEF AdvanceLoop, BreakerClosed, supervised
<1>2. /\ UNCHANGED artifacts /\ UNCHANGED evidence_claims
      /\ UNCHANGED integration_items /\ UNCHANGED runtime_observations
      /\ UNCHANGED gates /\ UNCHANGED resume_left /\ UNCHANGED tasks
      /\ UNCHANGED steps /\ UNCHANGED trusted /\ UNCHANGED negative_results
  BY <1>1 DEF registries, clocked
<1>3. loop_state' \in LoopState /\ starts' \in 0..MaxIterations
  <2>1. starts \in Nat /\ starts <= MaxIterations /\ MaxIterations \in Nat
    BY DeliveryAssumption DEF Inv, DeliveryType
  <2> QED BY <1>1, <2>1, DeliveryAssumption
<1>4. DeliveryType'
  BY <1>2, <1>3 DEF Inv, DeliveryType
<1>5. ClaimsChecked' /\ ItemsRefer' /\ Standing' /\ ClosedOnClaim'
  BY <1>1, FactsStand
<1>6. SealedRun'
  <2>1. CASE loop_state \in Sealed
    BY <2>1, <1>2 DEF Inv, SealedRun, Present
  <2>2. CASE loop_state \notin Sealed /\ rule.to = "delivered"
    <3>1. rule.guards = DeliveryGuards
      BY <2>2, <1>1, RulesToSealed DEF Sealed
    <3>2. TasksTerminal
      BY <3>1, <1>1, DeliveryResolves
    <3> QED BY <3>2, <1>2 DEF TasksTerminal, SealedRun, Present
  <2>3. CASE loop_state \notin Sealed /\ rule.to # "delivered"
    <3>1. rule.to # "improvement_pending"
      BY <2>3, <1>1, RulesToSealed DEF Sealed
    <3> QED BY <2>3, <3>1, <1>1 DEF SealedRun, Sealed
  <2> QED BY <2>1, <2>2, <2>3
<1> QED BY <1>4, <1>5, <1>6 DEF Inv

-----------------------------------------------------------------------------
(* The registries.                                                         *)

LEMMA RegisterArtifactKeeps ==
  ASSUME Inv, NEW x \in ArtifactInputs, RegisterArtifact(x)
  PROVE  Inv'
<1>1. /\ artifacts' = artifacts \cup {x}
      /\ UNCHANGED <<loop_state, tasks, starts, evidence_claims,
                     integration_items, steps, negative_results, trusted>>
      /\ UNCHANGED clocked
  BY DEF RegisterArtifact, supervised
<1>2. /\ UNCHANGED evidence_claims /\ UNCHANGED integration_items
      /\ UNCHANGED runtime_observations /\ UNCHANGED gates
      /\ UNCHANGED resume_left /\ UNCHANGED tasks /\ UNCHANGED loop_state
      /\ UNCHANGED steps /\ UNCHANGED trusted /\ UNCHANGED negative_results
      /\ UNCHANGED starts
  BY <1>1 DEF clocked
<1>3. DeliveryType'
  BY <1>1, <1>2 DEF Inv, DeliveryType
<1>4. ClaimsChecked' /\ ItemsRefer' /\ ClosedOnClaim'
  BY <1>1, <1>2
     DEF Inv, ClaimsChecked, ItemsRefer, ClosedOnClaim, Passes, OnTarget
<1>5. Standing'
  BY <1>2 DEF Inv, Standing, Stands, Done, Passes, OnTarget, StepsSucceeded,
              Integrated, ItemsOf
<1>6. SealedRun'
  BY <1>2 DEF Inv, SealedRun, Present
<1> QED BY <1>3, <1>4, <1>5, <1>6 DEF Inv

LEMMA RecordClaimKeeps ==
  ASSUME Inv, NEW t \in Tasks, NEW state \in EvidenceState,
         NEW verdict \in EvaluatorVerdict, NEW env, NEW p \in Principals,
         NEW arts \in SUBSET artifacts,
         RecordClaim(t, state, verdict, env, p, arts)
  PROVE  Inv'
<1> DEFINE c == [task |-> t, state |-> state, verdict |-> verdict,
                 verifier |-> p, arts |-> arts]
<1>1. /\ \A x \in arts : x.task = t
      /\ EnforceProvenance(state, env, verdict, p, RolesOf[p], arts)
      /\ evidence_claims' = evidence_claims \cup {c}
      /\ starts' = 0
      /\ UNCHANGED <<loop_state, tasks, artifacts, integration_items, steps,
                     negative_results, trusted>>
      /\ UNCHANGED clocked
  BY DEF RecordClaim, supervised
<1>2. /\ UNCHANGED artifacts /\ UNCHANGED integration_items
      /\ UNCHANGED runtime_observations /\ UNCHANGED gates
      /\ UNCHANGED resume_left /\ UNCHANGED tasks /\ UNCHANGED loop_state
      /\ UNCHANGED steps /\ UNCHANGED trusted /\ UNCHANGED negative_results
  BY <1>1 DEF clocked
<1>3. c \in ClaimRow /\ c.arts = arts /\ c.task = t /\ c.verdict = verdict
      /\ c.verifier = p
  BY DEF Inv, DeliveryType, ClaimRow
<1> HIDE DEF c
<1>4. DeliveryType'
  <2>1. starts' \in 0..MaxIterations
    BY <1>1, DeliveryAssumption
  <2> QED BY <1>1, <1>2, <1>3, <2>1 DEF Inv, DeliveryType
<1>5. ClaimsChecked'
  <2>1. verdict \in PASSING_EVALUATOR =>
          "evaluator" \in RolesOf[p] /\ \A x \in arts : x.producer # p
    BY <1>1 DEF EnforceProvenance
  <2>2. /\ c.arts \subseteq artifacts
        /\ \A x \in c.arts : x.task = c.task
        /\ c.verdict \in PASSING_EVALUATOR =>
             /\ "evaluator" \in RolesOf[c.verifier]
             /\ \A x \in c.arts : x.producer # c.verifier
    BY <1>1, <1>3, <2>1
  <2> QED BY <1>1, <1>2, <2>2 DEF Inv, ClaimsChecked
<1>6. ItemsRefer'
  BY <1>1, <1>2 DEF Inv, ItemsRefer
<1>7. \A d \in evidence_claims : \A u : Passes(d, u) => Passes(d, u)'
  BY <1>1 DEF Passes, OnTarget
<1>8. ClosedOnClaim'
  <2> SUFFICES ASSUME NEW i \in Items, integration_items[i] # Absent,
                      integration_items[i].state \in ItemFinal,
                      NEW u, u = integration_items[i].task
               PROVE  \E d \in evidence_claims' : Passes(d, u)'
    BY <1>2 DEF ClosedOnClaim
  <2>1. PICK d \in evidence_claims : Passes(d, u)
    BY DEF Inv, ClosedOnClaim
  <2> QED BY <2>1, <1>1, <1>7
<1>9. Standing'
  <2> SUFFICES ASSUME NEW u \in Tasks, tasks[u] = "delivered"
               PROVE  Stands(u)'
    BY <1>2 DEF Standing, Done
  <2>1. Stands(u)
    BY DEF Inv, Standing, Done
  <2>2. PICK d \in evidence_claims : Passes(d, u)
    BY <2>1 DEF Stands
  <2>3. \E e \in evidence_claims' : Passes(e, u)'
    BY <2>2, <1>1, <1>7
  <2> QED BY <2>1, <2>3, <1>2 DEF Stands, StepsSucceeded, Integrated, ItemsOf
<1>10. SealedRun'
  BY <1>2 DEF Inv, SealedRun, Present
<1> QED BY <1>4, <1>5, <1>6, <1>8, <1>9, <1>10 DEF Inv

(* An item of an open task changes: no delivered task is concerned. *)
LEMMA ItemChanges ==
  ASSUME Inv, NEW i \in Items, NEW row \in ItemRow, row.task \in Open,
         integration_items[i] = Absent \/ integration_items[i].task = row.task,
         row.refs \subseteq evidence_claims,
         row.state \in ItemFinal =>
           \E c \in evidence_claims : Passes(c, row.task),
         integration_items' = [integration_items EXCEPT ![i] = row],
         UNCHANGED <<loop_state, tasks, starts, artifacts, evidence_claims,
                     steps, negative_results, trusted>>,
         UNCHANGED clocked
  PROVE  Inv'
<1>1. /\ UNCHANGED artifacts /\ UNCHANGED evidence_claims
      /\ UNCHANGED runtime_observations /\ UNCHANGED gates
      /\ UNCHANGED resume_left /\ UNCHANGED tasks /\ UNCHANGED loop_state
      /\ UNCHANGED steps /\ UNCHANGED trusted /\ UNCHANGED negative_results
      /\ UNCHANGED starts
  BY DEF clocked
<1>2. /\ integration_items'[i] = row
      /\ \A j \in Items \ {i} : integration_items'[j] = integration_items[j]
  BY DEF Inv, DeliveryType
<1>3. DeliveryType'
  BY <1>1 DEF Inv, DeliveryType
<1>4. ClaimsChecked'
  BY <1>1 DEF Inv, ClaimsChecked
<1>5. ItemsRefer'
  BY <1>1, <1>2 DEF Inv, ItemsRefer
<1>6. \A c, u : Passes(c, u)' <=> Passes(c, u)
  BY <1>1 DEF Passes, OnTarget
<1>7. ClosedOnClaim'
  <2> SUFFICES ASSUME NEW j \in Items, integration_items'[j] # Absent,
                      integration_items'[j].state \in ItemFinal
               PROVE  \E c \in evidence_claims :
                        Passes(c, integration_items'[j].task)
    BY <1>1, <1>6 DEF ClosedOnClaim
  <2>1. CASE j = i
    BY <2>1, <1>2
  <2>2. CASE j # i
    BY <2>2, <1>2 DEF Inv, ClosedOnClaim
  <2> QED BY <2>1, <2>2
<1>8. Standing'
  <2> SUFFICES ASSUME NEW u \in Tasks, tasks[u] = "delivered"
               PROVE  Stands(u)'
    BY <1>1 DEF Standing, Done
  <2>1. Stands(u)
    BY DEF Inv, Standing, Done
  <2>2. u # row.task
    BY DEF Open, TERMINAL_TASK_STATES
  <2>3. integration_items[i].task # u
    BY <2>2, DeliveryAssumption DEF Absent
  <2>4. ItemsOf(u)' = ItemsOf(u)
    BY <1>2, <2>2, <2>3 DEF ItemsOf
  <2>5. \A j \in ItemsOf(u) : integration_items'[j] = integration_items[j]
    BY <1>2, <2>3 DEF ItemsOf
  <2>6. Integrated(u)'
    BY <2>1, <2>4, <2>5 DEF Stands, Integrated
  <2> QED BY <2>1, <2>6, <1>1, <1>6 DEF Stands, StepsSucceeded
<1>9. SealedRun'
  BY <1>1 DEF Inv, SealedRun, Present
<1> QED BY <1>3, <1>4, <1>5, <1>7, <1>8, <1>9 DEF Inv

LEMMA CreateItemKeeps ==
  ASSUME Inv, NEW i \in Items, NEW t \in Tasks,
         NEW refs \in SUBSET evidence_claims, CreateItem(i, t, refs)
  PROVE  Inv'
<1> DEFINE row == [task |-> t, state |-> "review_pending", refs |-> refs]
<1>1. /\ integration_items[i] = Absent /\ t \in Open
      /\ integration_items' = [integration_items EXCEPT ![i] = row]
      /\ UNCHANGED <<loop_state, tasks, starts, artifacts, evidence_claims,
                     steps, negative_results, trusted>>
      /\ UNCHANGED clocked
  BY DEF CreateItem, supervised
<1>2. "review_pending" \in ItemState /\ "review_pending" \notin ItemFinal
  BY DEF ItemState, ITEM_TRANSITIONS, ItemFinal
<1>3. /\ row \in ItemRow /\ row.task = t /\ row.state = "review_pending"
      /\ row.refs = refs
  BY <1>2 DEF Inv, DeliveryType, ItemRow
<1> HIDE DEF row
<1> QED BY <1>1, <1>2, <1>3, ItemChanges

LEMMA AdvanceItemKeeps ==
  ASSUME Inv, NEW i \in Items, NEW to \in ItemState,
         NEW refs \in SUBSET evidence_claims, AdvanceItem(i, to, refs)
  PROVE  Inv'
<1> DEFINE item == integration_items[i]
           all == item.refs \cup refs
           r1 == [item EXCEPT !.state = to]
           row == [r1 EXCEPT !.refs = all]
<1>1. /\ item # Absent /\ item.task \in Open
      /\ to \in ItemFinal => \E c \in all : Passes(c, item.task)
      /\ UNCHANGED <<loop_state, tasks, starts, artifacts, evidence_claims,
                     steps, negative_results, trusted>>
      /\ UNCHANGED clocked
  BY DEF AdvanceItem, supervised
<1>2. integration_items' = [integration_items EXCEPT ![i] = row]
  BY DEF AdvanceItem, Inv, DeliveryType
<1>3. item \in ItemRow /\ all \subseteq evidence_claims
  BY <1>1, ItemFacts DEF Inv, ItemsRefer
<1>4. all \in SUBSET ClaimRow
  BY <1>3 DEF Inv, DeliveryType
<1>5. /\ row \in ItemRow /\ row.task = item.task /\ row.state = to
      /\ row.refs = all
  <2> HIDE DEF item, all
  <2>1. r1 \in ItemRow /\ r1.task = item.task /\ r1.state = to
    BY <1>3 DEF ItemRow
  <2> HIDE DEF r1
  <2> QED BY <2>1, <1>4 DEF ItemRow
<1> HIDE DEF row
<1> QED BY <1>1, <1>2, <1>3, <1>5, ItemChanges

-----------------------------------------------------------------------------
(* Observations, approvals and the clock.                                  *)

(* Only what is read from clocks and observers has changed. *)
LEMMA ClocksMove ==
  ASSUME Inv, UNCHANGED <<loop_state, tasks, starts, steps, negative_results>>,
         UNCHANGED registries,
         runtime_observations' \in [Surfaces -> Seq(Observation)],
         trusted' \subseteq Principals, gates' \in [Tasks -> 0..MaxTTL],
         resume_left' \in 0..MaxTTL
  PROVE  Inv'
<1>1. /\ UNCHANGED artifacts /\ UNCHANGED evidence_claims
      /\ UNCHANGED integration_items /\ UNCHANGED tasks
      /\ UNCHANGED loop_state /\ UNCHANGED steps
      /\ UNCHANGED negative_results /\ UNCHANGED starts
  BY DEF registries
<1>2. DeliveryType'
  BY <1>1 DEF Inv, DeliveryType
<1>3. ClaimsChecked' /\ ItemsRefer' /\ Standing' /\ ClosedOnClaim'
  BY FactsStand
<1>4. SealedRun'
  BY <1>1 DEF Inv, SealedRun, Present
<1> QED BY <1>2, <1>3, <1>4 DEF Inv

LEMMA OlderRow ==
  ASSUME NEW row \in Observation, NEW ticks \in Nat
  PROVE  Older(row, ticks) \in Observation
<1> DEFINE age == IF row.age + ticks < MaxTTL THEN row.age + ticks ELSE MaxTTL
           left == IF row.left > ticks THEN row.left - ticks ELSE 0
           r1 == [row EXCEPT !.age = age]
<1>1. Skew \in Nat /\ MaxTTL \in Nat \ {0}
  BY DeliveryAssumption
<1>2. row.age \in (-Skew)..MaxTTL /\ row.left \in 0..(MaxTTL + Skew)
  BY DEF Observation
<1>3. age \in (-Skew)..MaxTTL /\ left \in 0..(MaxTTL + Skew)
  BY <1>1, <1>2
<1>4. Older(row, ticks) = [[row EXCEPT !.age = age] EXCEPT !.left = left]
  BY DEF Older, Observation
<1> HIDE DEF age, left
<1>5. r1 \in Observation
  BY <1>3 DEF Observation
<1> HIDE DEF r1
<1>6. [r1 EXCEPT !.left = left] \in Observation
  BY <1>3, <1>5 DEF Observation
<1> QED BY <1>4, <1>6 DEF r1

LEMMA InsertRow ==
  ASSUME NEW rows \in Seq(Observation), NEW row \in Observation,
         NEW n \in 1..(Len(rows) + 1)
  PROVE  Insert(rows, n, row) \in Seq(Observation)
<1> DEFINE e(k) == CASE k < n -> rows[k]
                     [] k = n -> row
                     [] k > n -> rows[k - 1]
<1>1. Len(rows) \in Nat /\ \A k \in 1..Len(rows) : rows[k] \in Observation
  OBVIOUS
<1>2. ASSUME NEW k \in 1..(Len(rows) + 1)
      PROVE  e(k) \in Observation
  <2>1. CASE k < n
    BY <1>1, <2>1
  <2>2. CASE k = n
    BY <2>2
  <2>3. CASE k > n
    <3>1. k - 1 \in 1..Len(rows)
      BY <1>1, <2>3
    <3> QED BY <1>1, <2>3, <3>1
  <2> QED BY <1>1, <2>1, <2>2, <2>3
<1> HIDE DEF e
<1>3. [k \in 1..(Len(rows) + 1) |-> e(k)] \in Seq(Observation)
  BY <1>1, <1>2
<1> QED BY <1>3 DEF Insert, e

LEMMA RecordObservationKeeps ==
  ASSUME Inv, NEW s \in Surfaces, NEW age \in (-Skew)..MaxTTL,
         NEW ttl \in 1..MaxTTL, NEW says \in Signatures,
         NEW p \in Principals, NEW waited \in 0..(MaxTTL + Skew), NEW rank,
         RecordObservation(s, age, ttl, says, p, waited, rank)
  PROVE  Inv'
<1> DEFINE row == [age |-> age, left |-> ttl - age, says |-> says,
                   observer |-> p]
           late == Older(row, waited)
           rows == runtime_observations[s]
<1>1. /\ ttl > age /\ rank \in 1..(Len(rows) + 1)
      /\ runtime_observations' =
           [runtime_observations EXCEPT ![s] = Insert(rows, rank, late)]
      /\ UNCHANGED <<loop_state, tasks, starts, steps, negative_results>>
      /\ UNCHANGED registries /\ UNCHANGED trusted /\ UNCHANGED gates
      /\ UNCHANGED resume_left
  BY DEF RecordObservation, supervised
<1>2. row \in Observation
  <2>1. Skew \in Nat /\ MaxTTL \in Nat
    BY DeliveryAssumption
  <2>2. ttl - age \in 0..(MaxTTL + Skew)
    BY <1>1, <2>1
  <2> QED BY <2>2 DEF Observation
<1> HIDE DEF row
<1>3. late \in Observation
  <2>1. waited \in Nat
    BY DeliveryAssumption
  <2> QED BY <1>2, <2>1, OlderRow
<1>4. Insert(rows, rank, late) \in Seq(Observation)
  <2>1. rows \in Seq(Observation)
    BY DEF Inv, DeliveryType
  <2> HIDE DEF late, rows
  <2> QED BY <1>1, <1>3, <2>1, InsertRow
<1> HIDE DEF late, rows
<1>5. runtime_observations' \in [Surfaces -> Seq(Observation)]
  BY <1>1, <1>4 DEF Inv, DeliveryType
<1> QED BY <1>1, <1>5, ClocksMove DEF Inv, DeliveryType

LEMMA SetTrustedKeeps ==
  ASSUME Inv, NEW p \in Principals, SetTrusted(p)
  PROVE  Inv'
<1>1. /\ trusted' = IF p \in trusted THEN trusted \ {p} ELSE trusted \cup {p}
      /\ UNCHANGED <<loop_state, tasks, starts, steps, negative_results>>
      /\ UNCHANGED registries /\ UNCHANGED runtime_observations
      /\ UNCHANGED gates /\ UNCHANGED resume_left
  BY DEF SetTrusted, clocked
<1>2. trusted' \subseteq Principals
  BY <1>1 DEF Inv, DeliveryType
<1> QED BY <1>1, <1>2, ClocksMove DEF Inv, DeliveryType

LEMMA ApprovalKeeps ==
  ASSUME Inv, NEW t \in Tasks, NEW ttl \in 1..MaxTTL,
         ApproveGate(t, ttl) \/ ApproveResume(t, ttl)
  PROVE  Inv'
<1>0. \A m, n \in 0..MaxTTL : Longer(m, n) \in 0..MaxTTL
  BY DEF Longer
<1>1. ttl \in 0..MaxTTL
  BY DeliveryAssumption
<1>2. CASE ApproveGate(t, ttl)
  <2>1. /\ gates' = [gates EXCEPT ![t] = Longer(gates[t], ttl)]
        /\ UNCHANGED <<loop_state, tasks, starts, steps, negative_results>>
        /\ UNCHANGED registries /\ UNCHANGED runtime_observations
        /\ UNCHANGED trusted /\ UNCHANGED resume_left
    BY <1>2 DEF ApproveGate, supervised
  <2>2. gates' \in [Tasks -> 0..MaxTTL]
    BY <1>0, <1>1, <2>1 DEF Inv, DeliveryType
  <2> QED BY <2>1, <2>2, ClocksMove DEF Inv, DeliveryType
<1>3. CASE ApproveResume(t, ttl)
  <2>1. /\ resume_left' = Longer(resume_left, ttl)
        /\ UNCHANGED <<loop_state, tasks, starts, steps, negative_results>>
        /\ UNCHANGED registries /\ UNCHANGED runtime_observations
        /\ UNCHANGED trusted /\ UNCHANGED gates
    BY <1>3 DEF ApproveResume, supervised
  <2>2. resume_left' \in 0..MaxTTL
    BY <1>0, <1>1, <2>1 DEF Inv, DeliveryType
  <2> QED BY <2>1, <2>2, ClocksMove DEF Inv, DeliveryType
<1> QED BY <1>2, <1>3

LEMMA TickKeeps ==
  ASSUME Inv, Tick
  PROVE  Inv'
<1> DEFINE aged(s) == [n \in DOMAIN runtime_observations[s] |->
                         Older(runtime_observations[s][n], 1)]
<1>1. /\ runtime_observations' = [s \in Surfaces |-> aged(s)]
      /\ gates' = [t \in Tasks |-> Less(gates[t])]
      /\ resume_left' = Less(resume_left)
      /\ UNCHANGED <<loop_state, tasks, starts, steps, negative_results>>
      /\ UNCHANGED registries /\ UNCHANGED trusted
  BY DEF Tick, supervised
<1>2. \A n \in 0..MaxTTL : Less(n) \in 0..MaxTTL
  BY DeliveryAssumption DEF Less
<1>3. gates' \in [Tasks -> 0..MaxTTL] /\ resume_left' \in 0..MaxTTL
  BY <1>1, <1>2 DEF Inv, DeliveryType
<1>4. ASSUME NEW s \in Surfaces
      PROVE  aged(s) \in Seq(Observation)
  <2> DEFINE rows == runtime_observations[s]
  <2>1. rows \in Seq(Observation)
    BY DEF Inv, DeliveryType
  <2>2. DOMAIN rows = 1..Len(rows) /\ Len(rows) \in Nat
    BY <2>1
  <2>3. \A n \in 1..Len(rows) : rows[n] \in Observation
    BY <2>1
  <2> HIDE DEF rows
  <2>4. \A n \in 1..Len(rows) : Older(rows[n], 1) \in Observation
    BY <2>3, OlderRow
  <2>5. [n \in 1..Len(rows) |-> Older(rows[n], 1)] \in Seq(Observation)
    BY <2>2, <2>4
  <2> QED BY <2>2, <2>5 DEF rows
<1> HIDE DEF aged
<1>5. runtime_observations' \in [Surfaces -> Seq(Observation)]
  BY <1>1, <1>4
<1> QED BY <1>1, <1>3, <1>5, ClocksMove DEF Inv, DeliveryType

-----------------------------------------------------------------------------

LEMMA InvInit == Init => Inv
<1> SUFFICES ASSUME Init PROVE Inv
  OBVIOUS
<1>1. DeliveryType
  <2>1. <<>> \in Seq(Observation)
    OBVIOUS
  <2>2. 0 \in 0..MaxTTL /\ 0 \in 0..MaxIterations
    BY DeliveryAssumption
  <2> QED BY <2>1, <2>2 DEF Init, DeliveryType, LoopState
<1>2. \A t \in Tasks : tasks[t] = "absent"
  BY DEF Init
<1>3. evidence_claims = {} /\ \A i \in Items : integration_items[i] = Absent
  BY DEF Init
<1>4. loop_state \notin Sealed
  BY DEF Init, Sealed
<1> QED BY <1>1, <1>2, <1>3, <1>4
           DEF Inv, ClaimsChecked, ItemsRefer, Standing, Done, ClosedOnClaim,
               SealedRun

LEMMA InvStep == Inv /\ [Next]_vars => Inv'
<1> SUFFICES ASSUME Inv, [Next]_vars PROVE Inv'
  OBVIOUS
<1>1. CASE UNCHANGED vars
  <2>1. /\ UNCHANGED <<loop_state, tasks, starts, steps, negative_results>>
        /\ UNCHANGED registries /\ UNCHANGED runtime_observations
        /\ UNCHANGED trusted /\ UNCHANGED gates /\ UNCHANGED resume_left
    BY <1>1 DEF vars, clocked, supervised
  <2> QED BY <2>1, ClocksMove DEF Inv, DeliveryType
<1>2. CASE KernelNext
  BY <1>2, AddTaskKeeps, AcceptKeeps, ConfirmKeeps, AdvanceLoopKeeps
     DEF KernelNext
<1>3. CASE WorkNext
  BY <1>3, MoveKeeps, StepKeeps DEF WorkNext
<1>4. CASE RegistryNext
  <2>1. ASSUME NEW t \in Tasks, NEW in \in ClaimInputs, NEW env \in Reality,
               NEW p \in Principals, NEW arts \in SUBSET artifacts,
               RecordClaim(t, in[1], in[2], env, p, arts)
        PROVE  Inv'
    <3>1. in[1] \in EvidenceState /\ in[2] \in EvaluatorVerdict
      BY DeliveryAssumption
    <3> QED BY <2>1, <3>1, RecordClaimKeeps
  <2> QED BY <1>4, <2>1, RegisterArtifactKeeps, CreateItemKeeps,
             AdvanceItemKeeps, RecordObservationKeeps, SetTrustedKeeps
          DEF RegistryNext
<1>5. CASE ApprovalNext
  BY <1>5, ApprovalKeeps DEF ApprovalNext
<1>6. CASE Tick
  BY <1>6, TickKeeps
<1> QED BY <1>1, <1>2, <1>3, <1>4, <1>5, <1>6 DEF Next

LEMMA InvHolds == Spec => []Inv
BY InvInit, InvStep, PTL DEF Spec

-----------------------------------------------------------------------------
(* The newest row of a surface.                                            *)

LEMMA SmallestExists ==
  ASSUME NEW T \in SUBSET Nat, T # {}
  PROVE  \E m \in T : \A n \in T : m <= n
<1> DEFINE R == OpToRel(<, Nat)
<1>1. IsWellFoundedOn(R, Nat)
  BY NatLessThanWellFounded
<1>2. \A x, y \in Nat : x < y => <<x, y>> \in R
  BY DEF OpToRel
<1> HIDE DEF R
<1>3. PICK m \in T : \A n \in T : ~ (<<n, m>> \in R)
  BY <1>1, WFMin
<1>4. \A n \in T : ~ (n < m)
  BY <1>2, <1>3
<1> QED BY <1>4

(* Of rows there is one that is observed last and, of those, recorded last. *)
LEMMA NewestRow ==
  ASSUME NEW rows \in Seq(Observation), rows # <<>>
  PROVE  /\ Newest(rows) \in DOMAIN rows
         /\ \A m \in DOMAIN rows : rows[Newest(rows)].age <= rows[m].age
<1> DEFINE First(n) == \A m \in DOMAIN rows :
                         \/ rows[n].age < rows[m].age
                         \/ rows[n].age = rows[m].age /\ n >= m
<1>1. /\ DOMAIN rows = 1..Len(rows) /\ Len(rows) \in Nat /\ Len(rows) # 0
      /\ \A n \in 1..Len(rows) : rows[n] \in Observation
  OBVIOUS
<1>2. \A n \in 1..Len(rows) : rows[n].age \in Int /\ rows[n].age + Skew \in Nat
  <2>1. Skew \in Nat /\ MaxTTL \in Nat
    BY DeliveryAssumption
  <2>2. \A n \in 1..Len(rows) : rows[n].age \in (-Skew)..MaxTTL
    BY <1>1 DEF Observation
  <2> QED BY <2>1, <2>2
<1>3. PICK k \in 1..Len(rows) :
        \A m \in 1..Len(rows) : rows[k].age + Skew <= rows[m].age + Skew
  <2> DEFINE T == {rows[n].age + Skew : n \in 1..Len(rows)}
  <2>1. T \in SUBSET Nat
    BY <1>2
  <2>2. T # {}
    <3>1. 1 \in 1..Len(rows)
      BY <1>1
    <3>2. rows[1].age + Skew \in T
      BY <3>1
    <3> QED BY <3>2
  <2>3. PICK x \in T : \A y \in T : x <= y
    BY <2>1, <2>2, SmallestExists
  <2> QED BY <2>3
<1>4. \A m \in 1..Len(rows) : rows[k].age <= rows[m].age
  BY <1>2, <1>3, DeliveryAssumption
<1>5. PICK n \in 1..Len(rows) :
        /\ rows[n].age = rows[k].age
        /\ \A m \in 1..Len(rows) : rows[m].age = rows[k].age => n >= m
  <2> DEFINE T == {Len(rows) - m :
                     m \in {j \in 1..Len(rows) : rows[j].age = rows[k].age}}
  <2>1. T \in SUBSET Nat
    BY <1>1
  <2>2. Len(rows) - k \in T
    OBVIOUS
  <2>3. PICK x \in T : \A y \in T : x <= y
    BY <2>1, <2>2, SmallestExists
  <2>4. PICK n \in 1..Len(rows) : rows[n].age = rows[k].age /\ x = Len(rows) - n
    BY <2>3
  <2>5. \A m \in 1..Len(rows) : rows[m].age = rows[k].age =>
          Len(rows) - n <= Len(rows) - m
    BY <2>3, <2>4
  <2>6. \A m \in 1..Len(rows) : rows[m].age = rows[k].age => n >= m
    BY <1>1, <2>5
  <2> QED BY <2>4, <2>6
<1>6. First(n)
  <2> SUFFICES ASSUME NEW m \in 1..Len(rows), ~ (rows[n].age < rows[m].age)
               PROVE  rows[n].age = rows[m].age /\ n >= m
    BY <1>1
  <2>1. rows[n].age = rows[m].age
    BY <1>2, <1>4, <1>5
  <2> QED BY <2>1, <1>5
<1>7. Newest(rows) = CHOOSE x \in DOMAIN rows : First(x)
  BY DEF Newest
<1> HIDE DEF First
<1>8. Newest(rows) \in DOMAIN rows /\ First(Newest(rows))
  BY <1>1, <1>6, <1>7
<1> QED BY <1>1, <1>2, <1>8 DEF First

(* The guard implies what it is meant to say. *)
LEMMA FreshIsFreshNow ==
  ASSUME DeliveryType, FreshnessSatisfied
  PROVE  FreshNow
<1> SUFFICES ASSUME NEW s \in Surfaces, NEW rows,
                    rows = runtime_observations[s]
             PROVE  \E n \in DOMAIN rows :
                      /\ rows[n].says \in Healthy
                      /\ rows[n].observer \in trusted
                      /\ rows[n].age >= 0 /\ rows[n].left > 0
                      /\ \A m \in DOMAIN rows :
                           rows[m].age <= rows[n].age =>
                             rows[m].says = rows[n].says
  BY DEF FreshNow
<1> DEFINE k == Newest(rows)
<1>1. /\ rows # <<>> /\ rows[k].says \in Healthy
      /\ rows[k].observer \in trusted
      /\ rows[k].age >= 0 /\ rows[k].left > 0
      /\ \A n \in DOMAIN rows :
           rows[n].age = rows[k].age => rows[n].says = rows[k].says
  BY DEF FreshnessSatisfied, Fresh
<1>2. rows \in Seq(Observation)
  BY DEF DeliveryType
<1>3. k \in DOMAIN rows /\ \A m \in DOMAIN rows : rows[k].age <= rows[m].age
  BY <1>1, <1>2, NewestRow
<1>4. \A m \in DOMAIN rows : rows[m].age \in Int
  <2>1. \A m \in DOMAIN rows : rows[m] \in Observation
    BY <1>2
  <2> QED BY <2>1, DeliveryAssumption DEF Observation
<1> HIDE DEF k
<1> QED BY <1>1, <1>3, <1>4

(* A task is delivered by confirm_task_delivery alone. *)
LEMMA OnlyConfirmDelivers ==
  ASSUME Inv, Next, NEW t \in Tasks, ~ Done(t), Done(t)'
  PROVE  ConfirmTaskDelivery(t)
<1>0. tasks' # tasks /\ tasks'[t] = "delivered" /\ tasks[t] # "delivered"
  BY DEF Done
<1>1. ASSUME NEW u \in Tasks, NEW to, to # "delivered",
             tasks' = [tasks EXCEPT ![u] = to]
      PROVE  FALSE
  BY <1>0, <1>1 DEF Inv, DeliveryType
<1>2. ASSUME NEW u \in Tasks, AddTask(u)
      PROVE  FALSE
  BY <1>1, <1>2 DEF AddTask
<1>3. ASSUME NEW u \in Tasks, NEW c, AcceptTaskEvidence(u, c)
      PROVE  FALSE
  <2>1. PICK to \in {"integration_pending", "evaluator_pending"} :
          tasks' = [tasks EXCEPT ![u] = to]
    BY <1>3 DEF AcceptTaskEvidence
  <2> QED BY <1>1, <2>1
<1>4. ASSUME NEW u \in Tasks, ConfirmTaskDelivery(u)
      PROVE  u = t
  BY <1>0, <1>4 DEF ConfirmTaskDelivery, Inv, DeliveryType
<1>5. ASSUME NEW u \in Tasks, NEW to \in TaskState, Move(u, to)
      PROVE  FALSE
  <2>1. to # "delivered" /\ tasks' = [tasks EXCEPT ![u] = to]
    BY <1>5, DeliveryAssumption DEF Move
  <2> QED BY <1>1, <2>1
<1>6. \A rule \in LOOP_TRANSITIONS : ~ AdvanceLoop(rule)
  BY <1>0 DEF AdvanceLoop
<1>7. KernelNext => ConfirmTaskDelivery(t)
  BY <1>2, <1>3, <1>4, <1>6 DEF KernelNext
<1>8. ~ WorkNext
  BY <1>0, <1>5 DEF WorkNext, EnqueueStep, SettleStep
<1>9. ~ RegistryNext
  BY <1>0 DEF RegistryNext, RegisterArtifact, RecordClaim, CreateItem,
              AdvanceItem, RecordObservation, SetTrusted
<1>10. ~ ApprovalNext /\ ~ Tick
  BY <1>0 DEF ApprovalNext, ApproveGate, ApproveResume, Tick
<1> QED BY <1>7, <1>8, <1>9, <1>10 DEF Next

(* And the run by advance_loop alone. *)
LEMMA OnlyAdvanceDelivers ==
  ASSUME Inv, Next, loop_state # loop_state'
  PROVE  \E rule \in LOOP_TRANSITIONS : AdvanceLoop(rule)
<1>1. KernelNext => \E rule \in LOOP_TRANSITIONS : AdvanceLoop(rule)
  BY DEF KernelNext, AddTask, AcceptTaskEvidence, ConfirmTaskDelivery
<1>2. ~ WorkNext
  BY DEF WorkNext, Move, EnqueueStep, SettleStep
<1>3. ~ RegistryNext
  BY DEF RegistryNext, RegisterArtifact, RecordClaim, CreateItem,
         AdvanceItem, RecordObservation, SetTrusted
<1>4. ~ ApprovalNext /\ ~ Tick
  BY DEF ApprovalNext, ApproveGate, ApproveResume, Tick
<1> QED BY <1>1, <1>2, <1>3, <1>4 DEF Next

(* What FreshDelivery says of one step. *)
DeliversFresh ==
  \/ \E t \in Tasks : ~Done(t) /\ Done(t)'
  \/ /\ loop_state \in {"integration_pending", "runtime_fresh"}
     /\ loop_state' = "delivered"
  => FreshNow

LEMMA FreshStep == Inv /\ [Next]_vars => [DeliversFresh]_vars
<1> SUFFICES ASSUME Inv, Next PROVE DeliversFresh
  OBVIOUS
<1>1. ASSUME NEW t \in Tasks, ~Done(t), Done(t)'
      PROVE  FreshnessSatisfied
  BY <1>1, OnlyConfirmDelivers DEF ConfirmTaskDelivery
<1>2. ASSUME loop_state \in {"integration_pending", "runtime_fresh"},
             loop_state' = "delivered"
      PROVE  FreshnessSatisfied
  <2>1. PICK rule \in LOOP_TRANSITIONS : AdvanceLoop(rule)
    BY <1>2, OnlyAdvanceDelivers
  <2>2. /\ rule.from = loop_state /\ rule.to = "delivered"
        /\ \A guard \in rule.guards : Resolve(guard)
    BY <1>2, <2>1 DEF AdvanceLoop
  <2>3. rule.guards = DeliveryGuards
    BY <1>2, <2>2, RulesToSealed
  <2> QED BY <2>2, <2>3, DeliveryResolves
<1> QED BY <1>1, <1>2, FreshIsFreshNow DEF Inv, DeliversFresh

-----------------------------------------------------------------------------

(***************************************************************************)
(* Type correctness, with every claim on registered artifacts and every    *)
(* integration item on recorded claims.                                    *)
(***************************************************************************)
THEOREM TypeCorrect == Spec => []TypeOK
<1>1. Inv => TypeOK
  <2> SUFFICES ASSUME Inv PROVE TypeOK
    OBVIOUS
  <2>1. \A c \in evidence_claims : c \in ClaimRow /\ c.arts \subseteq artifacts
    BY DEF Inv, DeliveryType, ClaimsChecked
  <2>2. \A i \in Items : integration_items[i] # Absent =>
          /\ integration_items[i].task \in Tasks
          /\ integration_items[i].state \in ItemState
          /\ integration_items[i].refs \subseteq evidence_claims
    BY ItemFacts DEF Inv, ItemsRefer
  <2> QED BY <2>1, <2>2 DEF Inv, DeliveryType, TypeOK
<1> QED BY <1>1, InvHolds, PTL

(***************************************************************************)
(* A delivered task keeps the claim, the step and the closed integration   *)
(* items it was delivered on, whatever record_claim, the integration queue *)
(* and the outbox do afterwards.  (kernel.py, confirm_task_delivery)       *)
(***************************************************************************)
THEOREM DeliveryCorrect == Spec => []DeliveredTaskStands
<1>1. Inv => DeliveredTaskStands
  <2> SUFFICES ASSUME Inv, NEW t \in Tasks, Done(t)
               PROVE  /\ \E c \in OnTarget(t) : Passes(c, t)
                      /\ t \in Stepped => steps[t] = "succeeded"
                      /\ t \in IntegrationRequired =>
                           {integration_items[i].state : i \in ItemsOf(t)}
                             \in (SUBSET ItemFinal) \ {{}}
    BY DEF DeliveredTaskStands
  <2>1. Stands(t)
    BY DEF Inv, Standing
  <2>2. \E c \in OnTarget(t) : Passes(c, t)
    BY <2>1 DEF Stands, Passes
  <2>3. t \in IntegrationRequired =>
          {integration_items[i].state : i \in ItemsOf(t)}
            \in (SUBSET ItemFinal) \ {{}}
    BY <2>1 DEF Stands, Integrated
  <2> QED BY <2>1, <2>2, <2>3 DEF Stands, StepsSucceeded
<1> QED BY <1>1, InvHolds, PTL

(***************************************************************************)
(* No task that needs an evaluator is delivered, nor an item of it closed, *)
(* but on the verdict of an evaluator who made none of the artifacts.      *)
(* (evidence.py, _enforce_provenance)                                      *)
(***************************************************************************)
THEOREM CheckerCorrect == Spec => []MakerIsNotChecker
<1>1. Inv => MakerIsNotChecker
  <2> SUFFICES ASSUME Inv, NEW t \in EvaluatorRequired,
                      \/ Done(t)
                      \/ \E i \in ItemsOf(t) :
                           integration_items[i].state \in ItemFinal
               PROVE  IndependentCheck(t)
    BY DEF MakerIsNotChecker
  <2>0. t \in Tasks
    BY DeliveryAssumption
  <2>1. PICK c \in evidence_claims : Passes(c, t)
    <3>1. CASE Done(t)
      BY <3>1, <2>0 DEF Inv, Standing, Stands
    <3>2. CASE \E i \in ItemsOf(t) : integration_items[i].state \in ItemFinal
      <4>1. PICK i \in Items : /\ integration_items[i].task = t
                               /\ integration_items[i].state \in ItemFinal
        BY <3>2 DEF ItemsOf
      <4>2. integration_items[i] # Absent
        BY <4>1, <2>0, ItemFacts DEF Inv
      <4> QED BY <4>1, <4>2 DEF Inv, ClosedOnClaim
    <3> QED BY <3>1, <3>2
  <2>2. c \in OnTarget(t) /\ c.task = t /\ c.verdict \in PASSING_EVALUATOR
    BY <2>1 DEF Passes, OnTarget
  <2>3. /\ "evaluator" \in RolesOf[c.verifier]
        /\ \A x \in c.arts : x.task = t /\ x.producer # c.verifier
    BY <2>2 DEF Inv, ClaimsChecked
  <2> QED BY <2>2, <2>3 DEF IndependentCheck
<1> QED BY <1>1, InvHolds, PTL

(***************************************************************************)
(* A delivered run is sealed: no task of it is, or becomes, anything but   *)
(* delivered or retired, through improvement and back.  (kernel.py,        *)
(* add_task and advance_loop; state_machine.py)                            *)
(***************************************************************************)
THEOREM SealCorrect == Spec => []SealedRun
<1>1. Inv => SealedRun
  BY DEF Inv
<1> QED BY <1>1, InvHolds, PTL

(***************************************************************************)
(* Whenever a task or the run is delivered, every surface is fresh at that *)
(* instant, for observations of any age that arrived in any order.         *)
(* (gates.py, _freshness_satisfied)                                        *)
(***************************************************************************)
THEOREM FreshCorrect == Spec => FreshDelivery
BY FreshStep, InvHolds, PTL DEF Spec, FreshDelivery, DeliversFresh


=============================================================================
