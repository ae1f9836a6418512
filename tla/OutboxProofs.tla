---------------------------- MODULE OutboxProofs ----------------------------
(***************************************************************************)
(* Proofs about the durable workflow, for any number of effects, steps,    *)
(* grants, callers, recovery scans and process deaths.                     *)
(***************************************************************************)
EXTENDS Outbox, FiniteSetTheorems, TLAPS

(***************************************************************************)
(* What the invariants rest on.  A bound step names an enqueued effect of  *)
(* its own; a use that is an effect's belongs to an enqueued effect.       *)
(***************************************************************************)
Enqueued == {e \in Effects : outbox[e] # "absent"}

Bindings ==
  /\ \A s \in Bound : /\ workflow_steps[s].effect \in Enqueued
                      /\ Step(workflow_steps[s].effect) = s
  /\ \A e \in Effects : e \in capability_usage[GrantOf[e]] => e \in Enqueued

(* The provider only has rows of enqueued effects whose use is recorded. *)
ProviderRows ==
  \A e \in Effects :
    /\ provider_effects[e].rows \in {0, 1}
    /\ provider_effects[e].rows = 0 => provider_effects[e].status = "none"
    /\ provider_effects[e].rows = 1 =>
         /\ e \in Enqueued
         /\ e \in capability_usage[GrantOf[e]]
         /\ provider_effects[e].status \in Receipts

(***************************************************************************)
(* What a process in dispatch may rely on, however old its reads are: none *)
(* of it is undone by another process, by a death or by the supervision.   *)
(***************************************************************************)
InFlight(p) ==
  /\ process[p].rows \subseteq Enqueued
  /\ process[p].pc \notin {"idle", "scan"} => process[p].effect \in Enqueued
  /\ process[p].pc \in {"lookup", "mark", "execute", "checkpoint"} =>
       process[p].effect \in capability_usage[GrantOf[process[p].effect]]
  /\ process[p].pc = "checkpoint" =>
       provider_effects[process[p].effect].rows = 1

AllInFlight == \A p \in Processes : InFlight(p)

Rejected == {e \in Effects : effect_receipts[e] \in {"failed", "denied"}}

(* Uses and retained failures are finite in number, whatever the constants. *)
Finite ==
  /\ \A g \in Grants : IsFiniteSet(capability_usage[g])
  /\ IsFiniteSet(Rejected)

Inv ==
  /\ TypeOK
  /\ RowsAgree
  /\ Bindings
  /\ ProviderRows
  /\ AllInFlight
  /\ Finite
  /\ UsesCounted
  /\ FailuresRetained

-----------------------------------------------------------------------------
(* Types of the constants, and what the updates of one row do.             *)

LEMMA ConstantTypes ==
  /\ \A e \in Effects : /\ GrantOf[e] \in Grants
                        /\ Step(e) \in Steps
                        /\ Task(e) \in Tasks
  /\ \A g \in Grants : TaskOf[StepOf[g]] \in Tasks /\ MaxUses[g] \in Nat \ {0}
BY OutboxAssumption DEF Step, Task

ProcessRow ==
  [pc : {"idle", "scan", "bind", "consume", "lookup", "mark",
         "execute", "checkpoint", "deny"},
   effect : Effects \cup {NoEffect}, rows : SUBSET Effects]

LEMMA IdleRow == /\ Idle \in ProcessRow
                 /\ Idle.pc = "idle" /\ Idle.rows = {}
BY DEF Idle, ProcessRow

(* Goto changes the program counter of one process and nothing else. *)
LEMMA GotoMoves ==
  ASSUME process \in [Processes -> ProcessRow], NEW p \in Processes,
         NEW c \in {"idle", "scan", "bind", "consume", "lookup", "mark",
                    "execute", "checkpoint", "deny"},
         Goto(p, c)
  PROVE  /\ process' \in [Processes -> ProcessRow]
         /\ process'[p].pc = c
         /\ process'[p].effect = process[p].effect
         /\ process'[p].rows = process[p].rows
         /\ \A q \in Processes \ {p} : process'[q] = process[q]
<1> DEFINE r == [process[p] EXCEPT !.pc = c]
<1>1. r \in ProcessRow /\ r.pc = c /\ r.effect = process[p].effect
        /\ r.rows = process[p].rows
  <2> DEFINE a == process[p]
  <2>1. a \in ProcessRow
    OBVIOUS
  <2> HIDE DEF a
  <2>2. /\ [a EXCEPT !.pc = c] \in ProcessRow
        /\ [a EXCEPT !.pc = c].pc = c
        /\ [a EXCEPT !.pc = c].effect = a.effect
        /\ [a EXCEPT !.pc = c].rows = a.rows
    BY <2>1 DEF ProcessRow
  <2> QED BY <2>2 DEF a
<1>2. process' = [process EXCEPT ![p] = r]
  BY DEF Goto
<1> HIDE DEF r
<1> QED BY <1>1, <1>2

(* A process that starts over, or ends: its row is replaced. *)
LEMMA RowReplaced ==
  ASSUME process \in [Processes -> ProcessRow], NEW p \in Processes,
         NEW r \in ProcessRow, process' = [process EXCEPT ![p] = r]
  PROVE  /\ process' \in [Processes -> ProcessRow]
         /\ process'[p] = r
         /\ \A q \in Processes \ {p} : process'[q] = process[q]
OBVIOUS

LEMMA ReturnMoves ==
  ASSUME process \in [Processes -> ProcessRow], NEW p \in Processes, Return(p)
  PROVE  /\ process' \in [Processes -> ProcessRow]
         /\ process'[p].pc \in {"idle", "scan"}
         /\ process'[p].rows = process[p].rows
         /\ \A q \in Processes \ {p} : process'[q] = process[q]
<1> DEFINE a == process[p]
           b == [a EXCEPT !.pc = "scan", !.effect = NoEffect]
           r == IF a.rows = {} THEN Idle ELSE b
<1>1. a \in ProcessRow
  OBVIOUS
<1>2. b \in ProcessRow /\ b.pc = "scan" /\ b.rows = a.rows
  <2> HIDE DEF a
  <2> QED BY <1>1 DEF ProcessRow
<1>3. process' = [process EXCEPT ![p] = r]
  BY DEF Return
<1> HIDE DEF b
<1>4. r \in ProcessRow /\ r.pc \in {"idle", "scan"} /\ r.rows = a.rows
  BY <1>2, IdleRow
<1> HIDE DEF r
<1> QED BY <1>3, <1>4

-----------------------------------------------------------------------------
(* What the ledger's writes preserve.                                      *)

LedgerType ==
  /\ outbox \in [Effects -> {"absent"} \cup PendingStatus \cup Receipts]
  /\ workflow_steps \in
       [Steps -> [status : {"absent", "queued"} \cup Receipts,
                  effect : Effects \cup {NoEffect}]]
  /\ effect_receipts \in [Effects -> Receipts \cup {"denied", "none"}]
  /\ negative_results \in Nat

(* The step of an enqueued effect is bound, to that effect. *)
LEMMA EnqueuedIsBound ==
  ASSUME RowsAgree, LedgerType, NEW e \in Enqueued
  PROVE  /\ workflow_steps[Step(e)].effect = e
         /\ workflow_steps[Step(e)].status # "absent"
<1> DEFINE st == IF effect_receipts[e] = "none" THEN "queued"
                                        ELSE StatusOf(effect_receipts[e])
<1>1. workflow_steps[Step(e)] = [status |-> st, effect |-> e]
  BY DEF RowsAgree, Enqueued
<1>2. st # "absent"
  BY DEF StatusOf, Enqueued, LedgerType, Receipts
<1> HIDE DEF st
<1> QED BY <1>1, <1>2

(* Two enqueued effects of one step are the same effect. *)
LEMMA OneEffectPerStep ==
  ASSUME RowsAgree, LedgerType,
         NEW e \in Enqueued, NEW f \in Enqueued, Step(e) = Step(f)
  PROVE  e = f
BY EnqueuedIsBound

(***************************************************************************)
(* Record of the first receipt of an enqueued effect: the rows still agree *)
(* and exactly one more failure is retained when it was not a success.     *)
(***************************************************************************)
LEMMA RecordKeeps ==
  ASSUME Inv, NEW e \in Enqueued, NEW receipt \in Receipts \cup {"denied"},
         effect_receipts[e] = "none",
         receipt \in Receipts => receipt = provider_effects[e].status,
         Record(e, receipt), UNCHANGED <<usage, provider_effects>>
  PROVE  /\ LedgerType' /\ RowsAgree' /\ Bindings'
         /\ Enqueued' = Enqueued
         /\ IsFiniteSet(Rejected') /\ FailuresRetained'
<1> DEFINE s == Step(e)
           st == StatusOf(receipt)
<1>0. /\ e \in Effects /\ s \in Steps /\ st \in Receipts /\ st # "absent"
      /\ outbox[e] # "absent" /\ LedgerType
  BY ConstantTypes DEF Enqueued, StatusOf, Receipts, Inv, TypeOK, LedgerType
<1>1. /\ effect_receipts' = [effect_receipts EXCEPT ![e] = receipt]
      /\ outbox' = [outbox EXCEPT ![e] = st]
      /\ negative_results' =
           negative_results + (IF receipt = "succeeded" THEN 0 ELSE 1)
  BY DEF Record
<1>2. workflow_steps[s] = [status |-> "queued", effect |-> e]
  BY <1>0 DEF Inv, RowsAgree
<1>3. workflow_steps' = [workflow_steps EXCEPT ![s] =
                          [status |-> st, effect |-> e]]
  <2>1. workflow_steps' = [workflow_steps EXCEPT ![s] =
                            [workflow_steps[s] EXCEPT !.status = st]]
    BY DEF Record
  <2>2. [workflow_steps[s] EXCEPT !.status = st]
          = [status |-> st, effect |-> e]
    BY <1>2
  <2> QED BY <2>1, <2>2
<1> HIDE DEF st
<1>4. LedgerType'
  BY <1>0, <1>1, <1>3 DEF LedgerType
<1>5. Enqueued' = Enqueued
  BY <1>0, <1>1 DEF Enqueued, LedgerType
<1>6. RowsAgree'
  <2> SUFFICES ASSUME NEW f \in Effects
               PROVE  RowsAgree!(f)'
    BY DEF RowsAgree
  <2>1. CASE f = e
    BY <2>1, <1>0, <1>1, <1>3
       DEF LedgerType, st, StatusOf, Receipts, PendingStatus
  <2>2. CASE f # e
    <3>1. outbox'[f] = outbox[f] /\ effect_receipts'[f] = effect_receipts[f]
      BY <2>2, <1>0, <1>1 DEF LedgerType
    <3>2. f \in Enqueued => Step(f) # s
      BY <2>2, <1>0, OneEffectPerStep DEF Inv
    <3>3. outbox[f] # "absent" =>
            workflow_steps'[Step(f)] = workflow_steps[Step(f)]
      BY <3>2, <1>0, <1>3, ConstantTypes DEF LedgerType, Enqueued
    <3> QED BY <3>1, <3>3 DEF Inv, RowsAgree
  <2> QED BY <2>1, <2>2
<1>7. Bindings'
  <2>1. \A t \in Steps : /\ t \in Bound' <=> t \in Bound
                         /\ workflow_steps'[t].effect = workflow_steps[t].effect
    BY <1>0, <1>2, <1>3 DEF Bound, LedgerType
  <2> QED BY <2>1, <1>5 DEF Inv, Bindings, Bound, usage, Enqueued
<1>8. Rejected' = IF receipt = "succeeded" THEN Rejected ELSE Rejected \cup {e}
  BY <1>0, <1>1 DEF Rejected, LedgerType, Receipts
<1>9. e \notin Rejected
  BY DEF Rejected
<1>10. IsFiniteSet(Rejected') /\ FailuresRetained'
  <2>1. IsFiniteSet(Rejected) /\ negative_results = Cardinality(Rejected)
    BY DEF Inv, Finite, FailuresRetained, Rejected
  <2>2. CASE receipt = "succeeded"
    <3>1. Rejected' = Rejected /\ negative_results' = negative_results
      BY <2>2, <1>0, <1>1, <1>8 DEF LedgerType
    <3>2. negative_results' = Cardinality(Rejected')
      BY <3>1, <2>1
    <3> QED BY <2>1, <3>1, <3>2 DEF FailuresRetained, Rejected
  <2>3. CASE receipt # "succeeded"
    <3>1. /\ IsFiniteSet(Rejected \cup {e})
          /\ Cardinality(Rejected \cup {e}) = Cardinality(Rejected) + 1
      BY <2>1, <1>9, FS_AddElement
    <3>2. Rejected' = Rejected \cup {e}
          /\ negative_results' = negative_results + 1
      BY <2>3, <1>1, <1>8
    <3>3. negative_results' = Cardinality(Rejected')
      BY <3>1, <3>2, <2>1
    <3> QED BY <3>1, <3>2, <3>3 DEF FailuresRetained, Rejected
  <2> QED BY <2>2, <2>3
<1> QED BY <1>4, <1>5, <1>6, <1>7, <1>10

(* A new row, bound to a step that had none. *)
LEMMA EnqueueKeeps ==
  ASSUME Inv, NEW e \in Effects, Enqueue(e)
  PROVE  /\ LedgerType' /\ RowsAgree' /\ Bindings'
         /\ Enqueued' = Enqueued \cup {e}
         /\ Bound' = Bound \cup {Step(e)}
         /\ e \notin Enqueued
         /\ Step(e) \notin Bound
<1> DEFINE s == Step(e)
           row == [status |-> "queued", effect |-> e]
<1>0. /\ s \in Steps /\ LedgerType
      /\ outbox[e] = "absent"
      /\ workflow_steps[s].status = "absent"
      /\ outbox' = [outbox EXCEPT ![e] = "authorization_pending"]
      /\ workflow_steps' = [workflow_steps EXCEPT ![s] = row]
      /\ UNCHANGED <<effect_receipts, negative_results, capability_usage,
                     provider_effects>>
  BY ConstantTypes DEF Enqueue, Unbound, Inv, TypeOK, LedgerType, usage
<1>1. row \in [status : {"absent", "queued"} \cup Receipts,
               effect : Effects \cup {NoEffect}]
      /\ row.status = "queued" /\ row.effect = e
  OBVIOUS
<1> HIDE DEF row
<1>2. LedgerType'
  BY <1>0, <1>1 DEF LedgerType, PendingStatus
<1>3. Enqueued' = Enqueued \cup {e} /\ e \notin Enqueued
  BY <1>0 DEF Enqueued, LedgerType
<1>4. Bound' = Bound \cup {s} /\ s \notin Bound
  BY <1>0, <1>1 DEF Bound, LedgerType
<1>5. RowsAgree'
  <2> SUFFICES ASSUME NEW f \in Effects
               PROVE  RowsAgree!(f)'
    BY DEF RowsAgree
  <2>1. CASE f = e
    <3>1. effect_receipts[e] = "none"
      BY <1>0 DEF Inv, RowsAgree
    <3> QED BY <3>1, <2>1, <1>0
               DEF LedgerType, StatusOf, Receipts, PendingStatus, row
  <2>2. CASE f # e
    <3>1. outbox'[f] = outbox[f]
      BY <2>2, <1>0 DEF LedgerType
    <3>2. outbox[f] # "absent" => workflow_steps[Step(f)].status # "absent"
      BY <1>0, EnqueuedIsBound DEF Inv, Enqueued
    <3>3. outbox[f] # "absent" =>
            workflow_steps'[Step(f)] = workflow_steps[Step(f)]
      BY <3>2, <1>0, ConstantTypes DEF LedgerType
    <3> QED BY <3>1, <3>3, <1>0 DEF Inv, RowsAgree
  <2> QED BY <2>1, <2>2
<1>6. Bindings'
  <2>1. \A t \in Bound : t # s /\ workflow_steps'[t] = workflow_steps[t]
    BY <1>4, <1>0 DEF Bound, LedgerType
  <2>2. workflow_steps'[s].effect = e
    BY <1>0, <1>1 DEF LedgerType
  <2> QED BY <2>1, <2>2, <1>0, <1>3, <1>4 DEF Inv, Bindings
<1> QED BY <1>2, <1>3, <1>4, <1>5, <1>6

-----------------------------------------------------------------------------
(* The step of one actor, by what it writes.                               *)

UsageType ==
  /\ capability_usage \in [Grants -> SUBSET (Effects \cup DirectKeys)]
  /\ used_count \in [Grants -> Nat]

ProviderType ==
  provider_effects \in
    [Effects -> [rows : Nat, status : Receipts \cup {"none"}]]

SupervisionType ==
  /\ tasks \in [Tasks -> TaskState]
  /\ claim \in [Tasks -> Workers \cup {NoHolder}]
  /\ loop_state \in LoopState
  /\ void \subseteq Grants
  /\ disabled \subseteq Principals

ProcessType ==
  /\ process \in [Processes -> ProcessRow]
  /\ crashes \in 0..MaxCrashes

LEMMA TypeParts ==
  TypeOK <=> /\ LedgerType /\ UsageType /\ ProviderType
             /\ SupervisionType /\ ProcessType
BY DEF TypeOK, LedgerType, UsageType, ProviderType, SupervisionType,
       ProcessType, ProcessRow

LEMMA TypePartsNext ==
  TypeOK' <=> /\ LedgerType' /\ UsageType' /\ ProviderType'
              /\ SupervisionType' /\ ProcessType'
BY DEF TypeOK, LedgerType, UsageType, ProviderType, SupervisionType,
       ProcessType, ProcessRow

(* Nothing a process relies on is ever taken back. *)
Monotone ==
  /\ Enqueued \subseteq Enqueued'
  /\ \A g \in Grants : capability_usage[g] \subseteq capability_usage'[g]
  /\ \A e \in Effects : provider_effects[e].rows = 1 =>
                          provider_effects'[e].rows = 1

LEMMA OthersInFlight ==
  ASSUME Inv, Monotone, NEW q \in Processes, process'[q] = process[q]
  PROVE  InFlight(q)'
<1>1. InFlight(q)
  BY DEF Inv, AllInFlight
<1>2. Enqueued \subseteq Effects /\ \A e \in Effects : GrantOf[e] \in Grants
  BY ConstantTypes DEF Enqueued
<1> QED BY <1>1, <1>2 DEF InFlight, Monotone

LEMMA SameLedger ==
  ASSUME Inv, UNCHANGED <<ledger, usage, provider_effects>>
  PROVE  /\ LedgerType' /\ UsageType' /\ ProviderType'
         /\ RowsAgree' /\ Bindings' /\ ProviderRows' /\ Finite'
         /\ UsesCounted' /\ FailuresRetained'
         /\ Enqueued' = Enqueued
         /\ Monotone
<1>1. LedgerType /\ UsageType /\ ProviderType
  BY TypeParts DEF Inv
<1>2. /\ UNCHANGED <<outbox, workflow_steps, effect_receipts,
                     negative_results, capability_usage, used_count>>
      /\ UNCHANGED provider_effects
  BY DEF ledger, usage
<1>3. Enqueued' = Enqueued /\ Bound' = Bound /\ Rejected' = Rejected
  BY <1>2 DEF Enqueued, Bound, Rejected
<1>4. LedgerType' /\ UsageType' /\ ProviderType'
  BY <1>1, <1>2 DEF LedgerType, UsageType, ProviderType
<1>5. RowsAgree'
  BY <1>2 DEF Inv, RowsAgree
<1>6. Bindings' /\ ProviderRows'
  BY <1>2, <1>3 DEF Inv, Bindings, ProviderRows
<1>7. Finite' /\ UsesCounted' /\ FailuresRetained'
  BY <1>2, <1>3 DEF Inv, Finite, UsesCounted, FailuresRetained
<1>8. Monotone
  BY <1>2, <1>3 DEF Monotone
<1> QED BY <1>3, <1>4, <1>5, <1>6, <1>7, <1>8

(* A step that only changes where a process is. *)
LEMMA ProcessStep ==
  ASSUME Inv, NEW p \in Processes,
         UNCHANGED <<ledger, usage, provider_effects, supervision>>,
         process' \in [Processes -> ProcessRow], crashes' \in 0..MaxCrashes,
         \A q \in Processes \ {p} : process'[q] = process[q],
         InFlight(p)'
  PROVE  Inv'
<1>1. SupervisionType' /\ ProcessType'
  BY TypeParts DEF Inv, SupervisionType, ProcessType, supervision
<1>2. AllInFlight'
  BY SameLedger, OthersInFlight DEF AllInFlight
<1> QED BY <1>1, <1>2, SameLedger, TypePartsNext DEF Inv

(* A step of the supervision around the outbox. *)
LEMMA SupervisionStep ==
  ASSUME Inv, UNCHANGED <<ledger, usage, provider_effects, process, crashes>>,
         SupervisionType'
  PROVE  Inv'
<1>1. ProcessType'
  BY TypeParts DEF Inv, ProcessType
<1>2. AllInFlight'
  BY SameLedger, OthersInFlight DEF AllInFlight
<1> QED BY <1>1, <1>2, SameLedger, TypePartsNext DEF Inv

(* A recorded use: counted once, and only up to max_uses. *)
LEMMA UseKeeps ==
  ASSUME Inv, NEW g \in Grants, NEW key \in Effects \cup DirectKeys,
         key \in Effects => key \in Enqueued,
         Use(g, key), UNCHANGED <<ledger, provider_effects>>
  PROVE  /\ LedgerType' /\ UsageType' /\ ProviderType'
         /\ RowsAgree' /\ Bindings' /\ ProviderRows' /\ Finite'
         /\ UsesCounted' /\ FailuresRetained'
         /\ Enqueued' = Enqueued
         /\ Monotone
         /\ key \in capability_usage'[g]
<1>1. CASE key \in capability_usage[g]
  BY <1>1, SameLedger DEF Use, usage
<1>2. CASE key \notin capability_usage[g]
  <2>1. /\ used_count[g] < MaxUses[g]
        /\ capability_usage' =
             [capability_usage EXCEPT ![g] = capability_usage[g] \cup {key}]
        /\ used_count' = [used_count EXCEPT ![g] = used_count[g] + 1]
    BY <1>2 DEF Use
  <2>2. LedgerType /\ UsageType /\ ProviderType
    BY TypeParts DEF Inv
  <2>3. UNCHANGED <<outbox, workflow_steps, effect_receipts,
                    negative_results>>
    BY DEF ledger
  <2>4. Enqueued' = Enqueued /\ Bound' = Bound /\ Rejected' = Rejected
    BY <2>3 DEF Enqueued, Bound, Rejected
  <2>5. LedgerType' /\ ProviderType'
    BY <2>2, <2>3 DEF LedgerType, ProviderType
  <2>6. UsageType'
    BY <2>1, <2>2 DEF UsageType
  <2>7. \A h \in Grants :
          /\ h # g => /\ capability_usage'[h] = capability_usage[h]
                      /\ used_count'[h] = used_count[h]
          /\ capability_usage[h] \subseteq capability_usage'[h]
    BY <2>1, <2>2 DEF UsageType
  <2>8. capability_usage'[g] = capability_usage[g] \cup {key}
        /\ used_count'[g] = used_count[g] + 1
    BY <2>1, <2>2 DEF UsageType
  <2>9. RowsAgree'
    BY <2>3 DEF Inv, RowsAgree
  <2>10. Bindings'
    BY <2>3, <2>4, <2>7, <2>8, ConstantTypes DEF Inv, Bindings
  <2>11. ProviderRows' /\ Monotone
    BY <2>4, <2>7, ConstantTypes DEF Inv, ProviderRows, Monotone
  <2>12. /\ IsFiniteSet(capability_usage'[g])
         /\ used_count'[g] = Cardinality(capability_usage'[g])
    <3>1. /\ IsFiniteSet(capability_usage[g])
          /\ used_count[g] = Cardinality(capability_usage[g])
      BY DEF Inv, Finite, UsesCounted
    <3>2. /\ IsFiniteSet(capability_usage[g] \cup {key})
          /\ Cardinality(capability_usage[g] \cup {key})
               = Cardinality(capability_usage[g]) + 1
      BY <1>2, <3>1, FS_AddElement
    <3> QED BY <3>1, <3>2, <2>8
  <2>13. used_count'[g] <= MaxUses[g]
    BY <2>1, <2>2, <2>8, ConstantTypes DEF UsageType
  <2>14. Finite'
    BY <2>4, <2>7, <2>12 DEF Inv, Finite
  <2>15. UsesCounted'
    <3> SUFFICES ASSUME NEW h \in Grants
                 PROVE  /\ used_count'[h] = Cardinality(capability_usage'[h])
                        /\ used_count'[h] <= MaxUses[h]
      BY DEF UsesCounted
    <3>1. CASE h = g
      BY <3>1, <2>12, <2>13
    <3>2. CASE h # g
      BY <3>2, <2>7 DEF Inv, UsesCounted
    <3> QED BY <3>1, <3>2
  <2>16. FailuresRetained'
    BY <2>3 DEF Inv, FailuresRetained
  <2> QED BY <2>4, <2>5, <2>6, <2>8, <2>9, <2>10, <2>11, <2>14, <2>15, <2>16
<1> QED BY <1>1, <1>2

LEMMA ConsumeKeeps ==
  ASSUME Inv, NEW p \in Processes, Consume(p)
  PROVE  Inv'
<1> DEFINE e == process[p].effect
           g == GrantOf[e]
<1>0. /\ process \in [Processes -> ProcessRow] /\ crashes \in 0..MaxCrashes
      /\ InFlight(p) /\ process[p].pc = "consume"
      /\ UNCHANGED <<ledger, provider_effects, supervision, crashes>>
  BY TypeParts DEF Inv, ProcessType, AllInFlight, Consume, At
<1>1. e \in Enqueued /\ e \in Effects /\ g \in Grants
      /\ process[p].rows \subseteq Enqueued
  BY <1>0, ConstantTypes DEF InFlight, Enqueued
<1>2. CASE Use(g, e) /\ Goto(p, "lookup")
  <2>1. /\ LedgerType' /\ UsageType' /\ ProviderType'
        /\ RowsAgree' /\ Bindings' /\ ProviderRows' /\ Finite'
        /\ UsesCounted' /\ FailuresRetained' /\ Enqueued' = Enqueued
        /\ Monotone /\ e \in capability_usage'[g]
    BY <1>0, <1>1, <1>2, UseKeeps
  <2>2. /\ process' \in [Processes -> ProcessRow]
        /\ process'[p].pc = "lookup"
        /\ process'[p].effect = e
        /\ process'[p].rows = process[p].rows
        /\ \A q \in Processes \ {p} : process'[q] = process[q]
    BY <1>0, <1>2, GotoMoves
  <2>3. InFlight(p)'
    BY <1>1, <2>1, <2>2 DEF InFlight
  <2>4. AllInFlight'
    BY <2>1, <2>2, <2>3, OthersInFlight DEF AllInFlight
  <2>5. SupervisionType' /\ ProcessType'
    BY <1>0, <2>2, TypeParts DEF Inv, SupervisionType, ProcessType, supervision
  <2> QED BY <2>1, <2>4, <2>5, TypePartsNext DEF Inv
<1>3. CASE UNCHANGED usage /\ Goto(p, "deny")
  <2>1. /\ process' \in [Processes -> ProcessRow]
        /\ process'[p].pc = "deny"
        /\ process'[p].effect = e
        /\ process'[p].rows = process[p].rows
        /\ \A q \in Processes \ {p} : process'[q] = process[q]
    BY <1>0, <1>3, GotoMoves
  <2>2. InFlight(p)'
    BY <1>0, <1>1, <1>3, <2>1, SameLedger DEF InFlight
  <2> QED BY <1>0, <1>3, <2>1, <2>2, ProcessStep
<1>4. CASE UNCHANGED usage /\ Raise(p)
  <2>1. /\ process' \in [Processes -> ProcessRow]
        /\ process'[p] = Idle
        /\ \A q \in Processes \ {p} : process'[q] = process[q]
    BY <1>0, <1>4, RowReplaced, IdleRow DEF Raise
  <2>2. InFlight(p)'
    BY <2>1, IdleRow DEF InFlight
  <2> QED BY <1>0, <1>4, <2>1, <2>2, ProcessStep
<1> QED BY <1>2, <1>3, <1>4 DEF Consume

(* Steps that only read: dispatch begins, scans, checks, looks, dies. *)
LEMMA ReadingKeeps ==
  ASSUME Inv, NEW p \in Processes,
         \/ \E e \in Effects : Dispatch(p, e)
         \/ RecoverPending(p) \/ RecoverNext(p)
         \/ Bind(p) \/ Lookup(p) \/ Crash(p)
  PROVE  Inv'
<1>0. /\ process \in [Processes -> ProcessRow] /\ crashes \in 0..MaxCrashes
      /\ MaxCrashes \in Nat
      /\ InFlight(p) /\ \A q \in Processes : process[q] \in ProcessRow
  BY TypeParts, OutboxAssumption DEF Inv, ProcessType, AllInFlight
<1>1. ASSUME NEW e \in Effects, Dispatch(p, e) PROVE Inv'
  <2> DEFINE r == [pc |-> "bind", effect |-> e, rows |-> {}]
  <2>1. r \in ProcessRow /\ r.pc = "bind" /\ r.effect = e /\ r.rows = {}
    BY DEF ProcessRow
  <2>2. /\ e \in Enqueued /\ process' = [process EXCEPT ![p] = r]
        /\ UNCHANGED <<ledger, usage, provider_effects, supervision, crashes>>
    BY <1>1 DEF Dispatch, Enqueued
  <2> HIDE DEF r
  <2>3. /\ process' \in [Processes -> ProcessRow] /\ process'[p] = r
        /\ \A q \in Processes \ {p} : process'[q] = process[q]
    BY <1>0, <2>1, <2>2, RowReplaced
  <2>4. InFlight(p)'
    BY <2>1, <2>2, <2>3, SameLedger DEF InFlight
  <2> QED BY <1>0, <2>2, <2>3, <2>4, ProcessStep
<1>2. ASSUME RecoverPending(p) PROVE Inv'
  <2>1. PICK R \in ScanOf(Pending) :
          process' = [process EXCEPT ![p] =
                       [pc |-> "scan", effect |-> NoEffect, rows |-> R]]
    BY <1>2 DEF RecoverPending
  <2> DEFINE r == [pc |-> "scan", effect |-> NoEffect, rows |-> R]
  <2>2. R \subseteq Enqueued /\ R \subseteq Effects
    BY DEF ScanOf, Pending, Enqueued, PendingStatus
  <2>3. r \in ProcessRow /\ r.pc = "scan" /\ r.rows = R
    BY <2>2 DEF ProcessRow
  <2>4. UNCHANGED <<ledger, usage, provider_effects, supervision, crashes>>
    BY <1>2 DEF RecoverPending
  <2>5. process' = [process EXCEPT ![p] = r]
    BY <2>1
  <2> HIDE DEF r
  <2>6. /\ process' \in [Processes -> ProcessRow] /\ process'[p] = r
        /\ \A q \in Processes \ {p} : process'[q] = process[q]
    BY <1>0, <2>3, <2>5, RowReplaced
  <2>7. InFlight(p)'
    BY <2>2, <2>3, <2>4, <2>6, SameLedger DEF InFlight
  <2> QED BY <1>0, <2>4, <2>6, <2>7, ProcessStep
<1>3. ASSUME RecoverNext(p) PROVE Inv'
  <2> DEFINE a == process[p]
  <2>1. PICK e \in a.rows :
          process' = [process EXCEPT ![p] =
            IF effect_receipts[e] = "none"
              THEN [pc |-> "bind", effect |-> e, rows |-> a.rows \ {e}]
              ELSE IF a.rows \ {e} = {} THEN Idle
                   ELSE [a EXCEPT !.rows = a.rows \ {e}]]
    BY <1>3 DEF RecoverNext
  <2> DEFINE b == [pc |-> "bind", effect |-> e, rows |-> a.rows \ {e}]
             c == [a EXCEPT !.rows = a.rows \ {e}]
             r == IF effect_receipts[e] = "none" THEN b
                  ELSE IF a.rows \ {e} = {} THEN Idle ELSE c
  <2>2. a.pc = "scan" /\ a \in ProcessRow /\ a.rows \subseteq Enqueued
        /\ e \in Enqueued /\ a.rows \subseteq Effects
    BY <1>0, <1>3 DEF RecoverNext, At, InFlight, Enqueued
  <2>3. b \in ProcessRow /\ b.pc = "bind" /\ b.effect = e
        /\ b.rows = a.rows \ {e}
    BY <2>2 DEF ProcessRow
  <2>4. c \in ProcessRow /\ c.pc = "scan" /\ c.rows = a.rows \ {e}
    <3> HIDE DEF a
    <3> QED BY <2>2 DEF ProcessRow
  <2>5. process' = [process EXCEPT ![p] = r]
    BY <2>1
  <2>6. UNCHANGED <<ledger, usage, provider_effects, supervision, crashes>>
    BY <1>3 DEF RecoverNext
  <2> HIDE DEF b, c
  <2>7. /\ r \in ProcessRow /\ r.pc \in {"idle", "scan", "bind"}
        /\ r.pc = "bind" => r.effect = e
        /\ r.rows \subseteq a.rows
    BY <2>3, <2>4, IdleRow
  <2> HIDE DEF r
  <2>8. /\ process' \in [Processes -> ProcessRow] /\ process'[p] = r
        /\ \A q \in Processes \ {p} : process'[q] = process[q]
    BY <1>0, <2>5, <2>7, RowReplaced
  <2>9. InFlight(p)'
    BY <2>2, <2>6, <2>7, <2>8, SameLedger DEF InFlight
  <2> QED BY <1>0, <2>6, <2>8, <2>9, ProcessStep
<1>4. ASSUME Bind(p) PROVE Inv'
  <2>1. /\ process[p].pc = "bind"
        /\ UNCHANGED <<ledger, usage, provider_effects, supervision, crashes>>
        /\ Goto(p, "consume") \/ Raise(p)
    BY <1>4 DEF Bind, At
  <2>2. CASE Goto(p, "consume")
    <3>1. /\ process' \in [Processes -> ProcessRow]
          /\ process'[p].pc = "consume"
          /\ process'[p].effect = process[p].effect
          /\ process'[p].rows = process[p].rows
          /\ \A q \in Processes \ {p} : process'[q] = process[q]
      BY <1>0, <2>2, GotoMoves
    <3>2. InFlight(p)'
      BY <1>0, <2>1, <3>1, SameLedger DEF InFlight
    <3> QED BY <1>0, <2>1, <3>1, <3>2, ProcessStep
  <2>3. CASE Raise(p)
    <3>1. /\ process' \in [Processes -> ProcessRow] /\ process'[p] = Idle
          /\ \A q \in Processes \ {p} : process'[q] = process[q]
      BY <1>0, <2>3, RowReplaced, IdleRow DEF Raise
    <3>2. InFlight(p)'
      BY <3>1, IdleRow DEF InFlight
    <3> QED BY <1>0, <2>1, <3>1, <3>2, ProcessStep
  <2> QED BY <2>1, <2>2, <2>3
<1>5. ASSUME Lookup(p) PROVE Inv'
  <2> DEFINE c == IF provider_effects[process[p].effect].rows > 0
                    THEN "checkpoint" ELSE "mark"
  <2>1. /\ process[p].pc = "lookup" /\ Goto(p, c)
        /\ UNCHANGED <<ledger, usage, provider_effects, supervision, crashes>>
    BY <1>5 DEF Lookup, At
  <2>2. process[p].effect \in Effects
    BY <1>0, <2>1 DEF InFlight, Enqueued
  <2>3. \/ c = "mark"
        \/ /\ c = "checkpoint"
           /\ provider_effects[process[p].effect].rows = 1
    BY <2>2 DEF Inv, ProviderRows
  <2> HIDE DEF c
  <2>4. /\ process' \in [Processes -> ProcessRow]
        /\ process'[p].pc = c
        /\ process'[p].effect = process[p].effect
        /\ process'[p].rows = process[p].rows
        /\ \A q \in Processes \ {p} : process'[q] = process[q]
    BY <1>0, <2>1, <2>3, GotoMoves
  <2>5. InFlight(p)'
    BY <1>0, <2>1, <2>3, <2>4, SameLedger DEF InFlight, usage
  <2> QED BY <1>0, <2>1, <2>4, <2>5, ProcessStep
<1>6. ASSUME Crash(p) PROVE Inv'
  <2>1. /\ crashes' \in 0..MaxCrashes
        /\ UNCHANGED <<ledger, usage, provider_effects, supervision>>
        /\ process' = [process EXCEPT ![p] = Idle]
    BY <1>0, <1>6 DEF Crash
  <2>2. /\ process' \in [Processes -> ProcessRow] /\ process'[p] = Idle
        /\ \A q \in Processes \ {p} : process'[q] = process[q]
    BY <1>0, <2>1, RowReplaced, IdleRow
  <2>3. InFlight(p)'
    BY <2>2, IdleRow DEF InFlight
  <2> QED BY <2>1, <2>2, <2>3, ProcessStep
<1> QED BY <1>1, <1>2, <1>3, <1>4, <1>5, <1>6

(* A new row disturbs nobody: the rest of the ledger is as it was. *)
LEMMA EnqueueStep ==
  ASSUME Inv, NEW e \in Effects, Enqueue(e)
  PROVE  Inv'
<1>1. /\ UNCHANGED <<effect_receipts, negative_results, capability_usage,
                     used_count, provider_effects, tasks, claim, loop_state,
                     void, disabled, process, crashes>>
  BY DEF Enqueue, usage, supervision
<1>2. /\ LedgerType' /\ RowsAgree' /\ Bindings'
      /\ Enqueued' = Enqueued \cup {e}
  BY EnqueueKeeps
<1>3. UsageType' /\ ProviderType' /\ SupervisionType' /\ ProcessType'
  BY <1>1, TypeParts
     DEF Inv, UsageType, ProviderType, SupervisionType, ProcessType
<1>4. ProviderRows' /\ Monotone
  BY <1>1, <1>2 DEF Inv, ProviderRows, Monotone
<1>5. AllInFlight'
  BY <1>1, <1>4, OthersInFlight DEF AllInFlight
<1>6. Rejected' = Rejected
  BY <1>1 DEF Rejected
<1>7. Finite' /\ UsesCounted' /\ FailuresRetained'
  BY <1>1, <1>6 DEF Inv, Finite, UsesCounted, FailuresRetained
<1> QED BY <1>2, <1>3, <1>4, <1>5, <1>7, TypePartsNext DEF Inv

LEMMA MarkReadyKeeps ==
  ASSUME Inv, NEW p \in Processes, MarkReady(p)
  PROVE  Inv'
<1> DEFINE e == process[p].effect
<1>1. /\ process[p].pc = "mark" /\ outbox' = Marked(e) /\ Goto(p, "execute")
      /\ UNCHANGED <<workflow_steps, effect_receipts, negative_results,
                     capability_usage, used_count, provider_effects, tasks,
                     claim, loop_state, void, disabled, crashes>>
  BY DEF MarkReady, At, usage, supervision
<1>2. /\ LedgerType /\ process \in [Processes -> ProcessRow]
      /\ crashes \in 0..MaxCrashes /\ InFlight(p)
  BY TypeParts DEF Inv, ProcessType, AllInFlight
<1>3. e \in Enqueued /\ e \in Effects
  BY <1>1, <1>2 DEF InFlight, Enqueued
<1>4. \A f \in Effects :
        \/ outbox'[f] = outbox[f]
        \/ outbox[f] = "authorization_pending" /\ outbox'[f] = "ready"
  BY <1>1, <1>2, <1>3 DEF Marked, LedgerType
<1>5. LedgerType'
  BY <1>1, <1>2, <1>3 DEF Marked, LedgerType, PendingStatus
<1>6. Enqueued' = Enqueued
  BY <1>4 DEF Enqueued
<1>7. RowsAgree'
  <2> SUFFICES ASSUME NEW f \in Effects
               PROVE  RowsAgree!(f)'
    BY DEF RowsAgree
  <2>1. CASE outbox'[f] = outbox[f]
    BY <2>1, <1>1 DEF Inv, RowsAgree
  <2>2. CASE outbox[f] = "authorization_pending" /\ outbox'[f] = "ready"
    <3>1. effect_receipts[f] = "none" /\ "none" \notin Receipts
      BY <2>2 DEF Inv, RowsAgree, PendingStatus, Receipts
    <3>2. workflow_steps[Step(f)] = [status |-> "queued", effect |-> f]
      BY <3>1, <2>2 DEF Inv, RowsAgree
    <3>3. "ready" \in {"absent"} \cup PendingStatus
      BY DEF PendingStatus
    <3> QED BY <3>1, <3>2, <3>3, <2>2, <1>1
  <2> QED BY <1>4, <2>1, <2>2
<1>8. Bindings' /\ ProviderRows' /\ Monotone
  <2>1. Bound' = Bound
    BY <1>1 DEF Bound
  <2> QED BY <2>1, <1>1, <1>6 DEF Inv, Bindings, ProviderRows, Monotone
<1>9. /\ process' \in [Processes -> ProcessRow]
      /\ process'[p].pc = "execute"
      /\ process'[p].effect = e
      /\ process'[p].rows = process[p].rows
      /\ \A q \in Processes \ {p} : process'[q] = process[q]
  BY <1>1, <1>2, GotoMoves
<1>10. InFlight(p)'
  BY <1>1, <1>2, <1>6, <1>9 DEF InFlight
<1>11. AllInFlight'
  BY <1>8, <1>9, <1>10, OthersInFlight DEF AllInFlight
<1>12. UsageType' /\ ProviderType' /\ SupervisionType' /\ ProcessType'
  BY <1>1, <1>9, TypeParts
     DEF Inv, UsageType, ProviderType, SupervisionType, ProcessType
<1>13. Finite' /\ UsesCounted' /\ FailuresRetained'
  <2>1. Rejected' = Rejected
    BY <1>1 DEF Rejected
  <2> QED BY <1>1, <2>1 DEF Inv, Finite, UsesCounted, FailuresRetained
<1> QED BY <1>5, <1>7, <1>8, <1>11, <1>12, <1>13, TypePartsNext DEF Inv

(* The provider acts, once; the ledger does not know of it yet. *)
LEMMA ExecuteKeeps ==
  ASSUME Inv, NEW p \in Processes, Execute(p)
  PROVE  Inv'
<1> DEFINE e == process[p].effect
<1>1. /\ process[p].pc = "execute" /\ Goto(p, "checkpoint")
      /\ \E status \in Receipts : ProviderExecute(e, status)
      /\ UNCHANGED <<ledger, usage, tasks, claim, loop_state, void, disabled,
                     crashes>>
  BY DEF Execute, At, supervision
<1>2. /\ LedgerType /\ UsageType /\ ProviderType
      /\ process \in [Processes -> ProcessRow]
      /\ crashes \in 0..MaxCrashes /\ InFlight(p)
  BY TypeParts DEF Inv, ProcessType, AllInFlight
<1>3. e \in Enqueued /\ e \in Effects /\ e \in capability_usage[GrantOf[e]]
  BY <1>1, <1>2 DEF InFlight, Enqueued
<1>4. PICK status \in Receipts : ProviderExecute(e, status)
  BY <1>1
<1>5. /\ ProviderType'
      /\ \A f \in Effects \ {e} : provider_effects'[f] = provider_effects[f]
      /\ provider_effects'[e].rows = 1
      /\ provider_effects'[e].status \in Receipts
      /\ provider_effects[e].rows # 0 =>
           provider_effects'[e] = provider_effects[e]
  <2> DEFINE row == [rows |-> 1, status |-> status]
  <2>0. provider_effects[e].rows \in {0, 1}
    BY <1>3 DEF Inv, ProviderRows
  <2>1. row \in [rows : Nat, status : Receipts \cup {"none"}]
        /\ row.rows = 1 /\ row.status = status
    OBVIOUS
  <2>2. CASE provider_effects[e].rows = 0
    <3>1. provider_effects' = [provider_effects EXCEPT ![e] = row]
      BY <1>4, <2>2 DEF ProviderExecute
    <3> HIDE DEF row
    <3> QED BY <3>1, <2>1, <2>2, <1>2, <1>3 DEF ProviderType
  <2>3. CASE provider_effects[e].rows = 1
    <3>1. provider_effects' = provider_effects
      BY <1>4, <2>3 DEF ProviderExecute
    <3> QED BY <3>1, <2>3, <1>2, <1>3 DEF ProviderType, Inv, ProviderRows
  <2> QED BY <2>0, <2>2, <2>3
<1>6. /\ UNCHANGED <<outbox, workflow_steps, effect_receipts,
                     negative_results, capability_usage, used_count>>
      /\ Enqueued' = Enqueued /\ Bound' = Bound /\ Rejected' = Rejected
  BY <1>1 DEF ledger, usage, Enqueued, Bound, Rejected
<1>7. RowsAgree'
  <2>1. \A f \in Effects : effect_receipts[f] \in Receipts =>
          effect_receipts[f] = provider_effects'[f].status
    <3> SUFFICES ASSUME NEW f \in Effects, effect_receipts[f] \in Receipts
                 PROVE  provider_effects'[f] = provider_effects[f]
      BY DEF Inv, RowsAgree
    <3>1. effect_receipts[f] = provider_effects[f].status
      BY DEF Inv, RowsAgree
    <3>2. provider_effects[f].rows # 0
      BY <3>1 DEF Inv, ProviderRows, Receipts
    <3> QED BY <1>5, <3>2
  <2> QED BY <1>6, <2>1 DEF Inv, RowsAgree
<1>8. Bindings'
  BY <1>6 DEF Inv, Bindings
<1>9. ProviderRows' /\ Monotone
  BY <1>3, <1>5, <1>6 DEF Inv, ProviderRows, Monotone
<1>10. /\ process' \in [Processes -> ProcessRow]
       /\ process'[p].pc = "checkpoint"
       /\ process'[p].effect = e
       /\ process'[p].rows = process[p].rows
       /\ \A q \in Processes \ {p} : process'[q] = process[q]
  BY <1>1, <1>2, GotoMoves
<1>11. InFlight(p)'
  BY <1>1, <1>2, <1>3, <1>5, <1>6, <1>10 DEF InFlight
<1>12. AllInFlight'
  BY <1>9, <1>10, <1>11, OthersInFlight DEF AllInFlight
<1>13. LedgerType' /\ UsageType' /\ SupervisionType' /\ ProcessType'
  BY <1>1, <1>2, <1>6, <1>10, TypeParts
     DEF Inv, LedgerType, UsageType, SupervisionType, ProcessType
<1>14. Finite' /\ UsesCounted' /\ FailuresRetained'
  BY <1>6 DEF Inv, Finite, UsesCounted, FailuresRetained
<1> QED BY <1>5, <1>7, <1>8, <1>9, <1>12, <1>13, <1>14, TypePartsNext DEF Inv

(* A receipt is recorded, over no other; the process goes on or is done. *)
LEMMA RecordStep ==
  ASSUME Inv, NEW p \in Processes, NEW receipt \in Receipts \cup {"denied"},
         process[p].effect \in Enqueued,
         effect_receipts[process[p].effect] = "none",
         receipt \in Receipts =>
           receipt = provider_effects[process[p].effect].status,
         Record(process[p].effect, receipt), Return(p),
         UNCHANGED <<usage, provider_effects, supervision, crashes>>
  PROVE  Inv'
<1>1. /\ LedgerType' /\ RowsAgree' /\ Bindings' /\ Enqueued' = Enqueued
      /\ IsFiniteSet(Rejected') /\ FailuresRetained'
  BY RecordKeeps
<1>2. /\ process \in [Processes -> ProcessRow]
      /\ crashes \in 0..MaxCrashes /\ InFlight(p)
  BY TypeParts DEF Inv, ProcessType, AllInFlight
<1>3. UNCHANGED <<capability_usage, used_count, tasks, claim, loop_state,
                  void, disabled>>
  BY DEF usage, supervision
<1>4. /\ process' \in [Processes -> ProcessRow]
      /\ process'[p].pc \in {"idle", "scan"}
      /\ process'[p].rows = process[p].rows
      /\ \A q \in Processes \ {p} : process'[q] = process[q]
  BY <1>2, ReturnMoves
<1>5. ProviderRows' /\ Monotone
  BY <1>1, <1>3 DEF Inv, ProviderRows, Monotone
<1>6. InFlight(p)'
  BY <1>1, <1>2, <1>4 DEF InFlight
<1>7. AllInFlight'
  BY <1>4, <1>5, <1>6, OthersInFlight DEF AllInFlight
<1>8. UsageType' /\ ProviderType' /\ SupervisionType' /\ ProcessType'
  BY <1>2, <1>3, <1>4, TypeParts
     DEF Inv, UsageType, ProviderType, SupervisionType, ProcessType
<1>9. Finite' /\ UsesCounted'
  BY <1>1, <1>3 DEF Inv, Finite, UsesCounted
<1> QED BY <1>1, <1>5, <1>7, <1>8, <1>9, TypePartsNext DEF Inv

(* A checkpoint that records nothing: a replay, or an integrity error. *)
LEMMA LeavingKeeps ==
  ASSUME Inv, NEW p \in Processes, Return(p) \/ Raise(p),
         UNCHANGED <<ledger, usage, provider_effects, supervision, crashes>>
  PROVE  Inv'
<1>1. /\ process \in [Processes -> ProcessRow]
      /\ crashes \in 0..MaxCrashes /\ InFlight(p)
  BY TypeParts DEF Inv, ProcessType, AllInFlight
<1>2. /\ process' \in [Processes -> ProcessRow]
      /\ process'[p].pc \in {"idle", "scan"}
      /\ process'[p].rows = process[p].rows \/ process'[p].rows = {}
      /\ \A q \in Processes \ {p} : process'[q] = process[q]
  <2>1. CASE Return(p)
    BY <2>1, <1>1, ReturnMoves
  <2>2. CASE Raise(p)
    BY <2>2, <1>1, RowReplaced, IdleRow DEF Raise
  <2> QED BY <2>1, <2>2
<1>3. InFlight(p)'
  BY <1>1, <1>2, SameLedger DEF InFlight
<1> QED BY <1>1, <1>2, <1>3, ProcessStep

LEMMA CheckpointKeeps ==
  ASSUME Inv, NEW p \in Processes, Checkpoint(p)
  PROVE  Inv'
<1> DEFINE e == process[p].effect
           receipt == provider_effects[e].status
<1>1. /\ process[p].pc = "checkpoint" /\ InFlight(p)
      /\ UNCHANGED <<usage, provider_effects, supervision, crashes>>
  BY DEF Checkpoint, At, Inv, AllInFlight
<1>2. e \in Enqueued /\ receipt \in Receipts
  BY <1>1 DEF InFlight, Enqueued, Inv, ProviderRows
<1>3. CASE effect_receipts[e] = "none" /\ Record(e, receipt) /\ Return(p)
  BY <1>1, <1>2, <1>3, RecordStep
<1>4. CASE (Return(p) \/ Raise(p)) /\ UNCHANGED ledger
  BY <1>1, <1>4, LeavingKeeps
<1> QED BY <1>3, <1>4 DEF Checkpoint

LEMMA DenyKeeps ==
  ASSUME Inv, NEW p \in Processes, CheckpointAuthorizationFailure(p)
  PROVE  Inv'
<1> DEFINE e == process[p].effect
<1>1. /\ process[p].pc = "deny" /\ InFlight(p) /\ Return(p)
      /\ UNCHANGED <<usage, provider_effects, supervision, crashes>>
  BY DEF CheckpointAuthorizationFailure, At, Inv, AllInFlight
<1>2. e \in Enqueued /\ "denied" \notin Receipts
  BY <1>1 DEF InFlight, Receipts
<1>3. CASE effect_receipts[e] = "none" /\ Record(e, "denied")
  BY <1>1, <1>2, <1>3, RecordStep
<1>4. CASE UNCHANGED ledger
  BY <1>1, <1>4, LeavingKeeps
<1> QED BY <1>3, <1>4 DEF CheckpointAuthorizationFailure

(* A direct use of a grant is nobody's effect. *)
LEMMA ConsumeDirectlyKeeps ==
  ASSUME Inv, NEW g \in Grants, NEW key \in DirectKeys,
         ConsumeDirectly(g, key)
  PROVE  Inv'
<1>1. key \notin Effects
  BY OutboxAssumption
<1>2. Use(g, key) /\ UNCHANGED <<ledger, provider_effects>>
      /\ UNCHANGED <<tasks, claim, loop_state, void, disabled, process,
                     crashes>>
  BY DEF ConsumeDirectly, supervision
<1>3. /\ LedgerType' /\ UsageType' /\ ProviderType'
      /\ RowsAgree' /\ Bindings' /\ ProviderRows' /\ Finite'
      /\ UsesCounted' /\ FailuresRetained' /\ Monotone
  BY <1>1, <1>2, UseKeeps
<1>4. AllInFlight'
  BY <1>2, <1>3, OthersInFlight DEF AllInFlight
<1>5. SupervisionType' /\ ProcessType'
  BY <1>2, TypeParts DEF Inv, SupervisionType, ProcessType
<1> QED BY <1>3, <1>4, <1>5, TypePartsNext DEF Inv

LEMMA RulesLeadToStates ==
  \A rule \in LOOP_TRANSITIONS : rule.to \in LoopState
BY DEF LOOP_TRANSITIONS, Rule, LoopState

LEMMA SupervisionKeeps ==
  ASSUME Inv, SupervisionNext
  PROVE  Inv'
<1>0. SupervisionType
  BY TypeParts DEF Inv
<1>1. ASSUME NEW t \in Tasks, NEW s \in TaskState, MoveTask(t, s) PROVE Inv'
  <2>1. /\ tasks' = [tasks EXCEPT ![t] = s]
        /\ UNCHANGED <<ledger, usage, provider_effects, loop_state, void,
                       disabled, process, crashes>>
    BY <1>1 DEF MoveTask
  <2>2. \/ \E w \in Workers : claim' = [claim EXCEPT ![t] = w]
        \/ claim' = claim
        \/ claim' = [claim EXCEPT ![t] = NoHolder]
    BY <1>1 DEF MoveTask
  <2>3. SupervisionType'
    BY <1>0, <2>1, <2>2 DEF SupervisionType
  <2> QED BY <2>1, <2>3, SupervisionStep
<1>2. ASSUME NEW t \in Tasks, LoseClaim(t) PROVE Inv'
  BY <1>0, <1>2, SupervisionStep DEF LoseClaim, SupervisionType
<1>3. ASSUME NEW t \in Tasks, NEW w \in Workers, AcquireClaim(t, w) PROVE Inv'
  BY <1>0, <1>3, SupervisionStep DEF AcquireClaim, SupervisionType
<1>4. ASSUME NEW rule \in LOOP_TRANSITIONS, AdvanceLoop(rule) PROVE Inv'
  <2>1. SupervisionType'
    BY <1>0, <1>4, RulesLeadToStates DEF AdvanceLoop, SupervisionType
  <2> QED BY <1>4, <2>1, SupervisionStep DEF AdvanceLoop
<1>5. ASSUME NEW g \in MayVoid, VoidGrant(g) PROVE Inv'
  <2>1. SupervisionType'
    BY <1>0, <1>5, OutboxAssumption DEF VoidGrant, SupervisionType
  <2> QED BY <1>5, <2>1, SupervisionStep DEF VoidGrant
<1>6. ASSUME NEW p \in MayDisable, SwitchPrincipal(p) PROVE Inv'
  <2>1. SupervisionType'
    BY <1>0, <1>6, OutboxAssumption DEF SwitchPrincipal, SupervisionType
  <2> QED BY <1>6, <2>1, SupervisionStep DEF SwitchPrincipal
<1>7. ASSUME NEW g \in Grants, NEW key \in DirectKeys, ConsumeDirectly(g, key)
      PROVE  Inv'
  BY <1>7, ConsumeDirectlyKeeps
<1> QED BY <1>1, <1>2, <1>3, <1>4, <1>5, <1>6, <1>7 DEF SupervisionNext

-----------------------------------------------------------------------------

LEMMA InvInit == Init => Inv
<1> SUFFICES ASSUME Init PROVE Inv
  OBVIOUS
<1>1. /\ Enqueued = {} /\ Bound = {} /\ Rejected = {}
      /\ "none" \notin Receipts
  BY ConstantTypes DEF Init, Enqueued, Bound, Rejected, Receipts
<1>2. TypeOK
  <2>1. LedgerType /\ UsageType /\ ProviderType
    BY DEF Init, LedgerType, UsageType, ProviderType
  <2>2. SupervisionType
    BY DEF Init, SupervisionType, TaskState, LoopState
  <2>3. ProcessType
    BY IdleRow, OutboxAssumption DEF Init, ProcessType
  <2> QED BY <2>1, <2>2, <2>3, TypeParts
<1>3. RowsAgree
  BY DEF Init, RowsAgree, Receipts, StatusOf
<1>4. Bindings /\ ProviderRows
  BY <1>1, ConstantTypes DEF Init, Bindings, ProviderRows
<1>5. AllInFlight
  BY IdleRow DEF Init, AllInFlight, InFlight
<1>6. Finite /\ UsesCounted /\ FailuresRetained
  <2>1. \A g \in Grants : capability_usage[g] = {} /\ used_count[g] = 0
    BY DEF Init
  <2>2. negative_results = 0
    BY DEF Init
  <2>3. \A g \in Grants : 0 <= MaxUses[g]
    BY ConstantTypes
  <2> QED BY <1>1, <2>1, <2>2, <2>3, FS_EmptySet
             DEF Finite, UsesCounted, FailuresRetained, Rejected
<1> QED BY <1>2, <1>3, <1>4, <1>5, <1>6 DEF Inv

LEMMA InvStep == Inv /\ [Next]_vars => Inv'
<1> SUFFICES ASSUME Inv, [Next]_vars PROVE Inv'
  OBVIOUS
<1>1. \A p : p \in Callers \/ p \in Recoverers => p \in Processes
  BY DEF Processes
<1>2. CASE WorkflowNext
  <2>1. ASSUME NEW p \in Recoverers, RecoverPending(p) \/ Recovery(p)
        PROVE  Inv'
    BY <1>1, <2>1, ReadingKeeps, DenyKeeps DEF Recovery
  <2>2. ASSUME NEW p \in Processes, InDispatch(p) \/ Crash(p)
        PROVE  Inv'
    BY <2>2, ReadingKeeps, ConsumeKeeps, MarkReadyKeeps, ExecuteKeeps,
       CheckpointKeeps DEF InDispatch
  <2> QED BY <1>1, <1>2, <2>1, <2>2, EnqueueStep, ReadingKeeps
             DEF WorkflowNext
<1>3. CASE SupervisionNext
  BY <1>3, SupervisionKeeps
<1>4. CASE UNCHANGED vars
  <2>1. SupervisionType'
    BY <1>4, TypeParts DEF Inv, SupervisionType, vars, supervision
  <2> QED BY <1>4, <2>1, SupervisionStep DEF vars
<1> QED BY <1>2, <1>3, <1>4 DEF Next

LEMMA InvHolds == Spec => []Inv
BY InvInit, InvStep, PTL DEF Spec

(***************************************************************************)
(* Whatever is retried, by however many processes, however they interleave *)
(* and die: a declared step causes at most one external effect, and only   *)
(* after a recorded use of its grant (enqueue, dispatch, the provider's    *)
(* execute).                                                               *)
(***************************************************************************)
THEOREM EffectOnceCorrect == Spec => []EffectOnce
<1>1. Inv => EffectOnce
  <2> SUFFICES ASSUME Inv, NEW e \in Effects, provider_effects[e].rows > 0
               PROVE  /\ provider_effects[e].rows = 1
                      /\ e \in capability_usage[GrantOf[e]]
                      /\ \A f \in Effects \ {e} :
                           Step(f) = Step(e) => provider_effects[f].rows = 0
    BY DEF EffectOnce
  <2>1. provider_effects[e].rows = 1
    BY DEF Inv, ProviderRows
  <2>2. e \in capability_usage[GrantOf[e]] /\ e \in Enqueued
    BY <2>1 DEF Inv, ProviderRows
  <2>3. ASSUME NEW f \in Effects \ {e}, Step(f) = Step(e),
               provider_effects[f].rows # 0
        PROVE  FALSE
    <3>1. f \in Enqueued
      BY <2>3 DEF Inv, ProviderRows
    <3> QED BY <2>2, <2>3, <3>1, OneEffectPerStep, TypeParts DEF Inv
  <2> QED BY <2>1, <2>2, <2>3
<1> QED BY <1>1, InvHolds, PTL

(***************************************************************************)
(* The types of every row and of every process in dispatch.                *)
(***************************************************************************)
THEOREM TypeCorrect == Spec => []TypeOK
<1>1. Inv => TypeOK
  BY DEF Inv
<1> QED BY <1>1, InvHolds, PTL

(***************************************************************************)
(* The outbox row, the step and the receipt agree at every moment, although*)
(* late processes mark, check and checkpoint the same effect (_checkpoint, *)
(* _checkpoint_authorization_failure, the guarded 'ready' update).         *)
(***************************************************************************)
THEOREM RowsCorrect == Spec => []RowsAgree
<1>1. Inv => RowsAgree
  BY DEF Inv
<1> QED BY <1>1, InvHolds, PTL

(***************************************************************************)
(* used_count is the number of distinct uses and stays within max_uses     *)
(* (_consume_as_principal), for any number of concurrent dispatches.       *)
(***************************************************************************)
THEOREM UsesCorrect == Spec => []UsesCounted
<1>1. Inv => UsesCounted
  BY DEF Inv
<1> QED BY <1>1, InvHolds, PTL

(***************************************************************************)
(* Every failed or denied effect is retained exactly once                  *)
(* (_retain_negative), whichever process recorded it.                      *)
(***************************************************************************)
THEOREM FailuresCorrect == Spec => []FailuresRetained
<1>1. Inv => FailuresRetained
  BY DEF Inv
<1> QED BY <1>1, InvHolds, PTL

-----------------------------------------------------------------------------
(* The refinement of the contract.                                         *)

AuthorizedSteps ==
  {s \in Bound : LET e == workflow_steps[s].effect
                 IN  e \in capability_usage[GrantOf[e]]}

PerformedOn(s) ==
  {p \in Effects \X (1..2) :
    Step(p[1]) = s /\ p[2] <= provider_effects[p[1]].rows}

Performed == [s \in Steps |-> PerformedOn(s)]

OutcomeOf ==
  [s \in Steps |-> IF s \in Bound
                     THEN effect_receipts[workflow_steps[s].effect]
                     ELSE "none"]

mapped == <<Bound, AuthorizedSteps, Performed, OutcomeOf>>

LEMMA MappedVars == Contract!vars = mapped
BY DEF Contract!vars, mapped, AuthorizedSteps, Performed, PerformedOn,
       OutcomeOf

LEMMA MappedVarsNext == (Contract!vars)' = mapped'
BY DEF Contract!vars, mapped, AuthorizedSteps, Performed, PerformedOn,
       OutcomeOf

(* What the mapping reads: a step that changes none of it is a stutter. *)
LEMMA MappedSame ==
  ASSUME UNCHANGED <<workflow_steps, effect_receipts, capability_usage,
                     provider_effects>>
  PROVE  UNCHANGED Contract!vars
BY DEF Contract!vars, Bound

LEMMA BoundEffect ==
  ASSUME Inv, NEW s \in Bound
  PROVE  /\ s \in Steps
         /\ workflow_steps[s].effect \in Effects
         /\ workflow_steps[s].effect \in Enqueued
         /\ Step(workflow_steps[s].effect) = s
BY DEF Inv, Bindings, Bound, Enqueued

(* enqueue is the request of its step. *)
LEMMA EnqueueRequests ==
  ASSUME Inv, NEW e \in Effects, Enqueue(e)
  PROVE  Contract!Request(Step(e))
<1>1. /\ Bound' = Bound \cup {Step(e)} /\ Step(e) \notin Bound
      /\ e \notin Enqueued
  BY EnqueueKeeps
<1>2. /\ Step(e) \in Steps
      /\ workflow_steps' = [workflow_steps EXCEPT ![Step(e)] =
                             [status |-> "queued", effect |-> e]]
      /\ UNCHANGED <<effect_receipts, capability_usage, provider_effects>>
      /\ LedgerType
  BY ConstantTypes, TypeParts DEF Enqueue, usage, Inv
<1>3. /\ workflow_steps'[Step(e)].effect = e
      /\ \A s \in Bound : workflow_steps'[s] = workflow_steps[s]
  BY <1>1, <1>2 DEF LedgerType, Bound
<1>4. /\ e \notin capability_usage[GrantOf[e]]
      /\ effect_receipts[e] = "none"
  BY <1>1 DEF Inv, Bindings, RowsAgree, Enqueued
<1>5. AuthorizedSteps' = AuthorizedSteps
  BY <1>1, <1>2, <1>3, <1>4 DEF AuthorizedSteps
<1>6. Performed' = Performed
  BY <1>2 DEF Performed, PerformedOn
<1>7. OutcomeOf' = OutcomeOf
  BY <1>1, <1>2, <1>3, <1>4 DEF OutcomeOf
<1> QED BY <1>1, <1>5, <1>6, <1>7
           DEF Contract!Request, AuthorizedSteps, Performed, PerformedOn,
               OutcomeOf

(* The first use of its grant by an effect authorizes its step. *)
LEMMA UseAuthorizes ==
  ASSUME Inv, NEW g \in Grants, NEW key \in Effects \cup DirectKeys,
         key \in Effects => key \in Enqueued /\ g = GrantOf[key],
         Use(g, key),
         UNCHANGED <<workflow_steps, effect_receipts, provider_effects>>
  PROVE  \/ UNCHANGED Contract!vars
         \/ key \in Effects /\ Contract!Authorize(Step(key))
<1>1. CASE key \in capability_usage[g]
  BY <1>1, MappedSame DEF Use, usage
<1>2. CASE key \notin capability_usage[g]
  <2>1. \A h \in Grants : capability_usage'[h] =
          IF h = g THEN capability_usage[h] \cup {key}
                   ELSE capability_usage[h]
    BY <1>2, TypeParts DEF Use, UsageType, Inv
  <2>2. Bound' = Bound /\ Performed' = Performed /\ OutcomeOf' = OutcomeOf
    BY DEF Bound, Performed, PerformedOn, OutcomeOf
  <2>3. CASE key \in Effects
    <3> DEFINE s == Step(key)
    <3>1. /\ s \in Steps /\ workflow_steps[s].effect = key /\ s \in Bound
      BY <2>3, EnqueuedIsBound, ConstantTypes, TypeParts DEF Inv, Bound
    <3>2. s \notin AuthorizedSteps
      BY <1>2, <2>3, <3>1 DEF AuthorizedSteps
    <3>3. \A t \in Bound :
            /\ workflow_steps[t].effect \in Effects
            /\ GrantOf[workflow_steps[t].effect] \in Grants
            /\ t # s => workflow_steps[t].effect # key
      BY BoundEffect, ConstantTypes
    <3>4. AuthorizedSteps' = AuthorizedSteps \cup {s}
      <4> DEFINE uses(t) == capability_usage[GrantOf[workflow_steps[t].effect]]
      <4>1. \A t \in Bound \ {s} :
              workflow_steps[t].effect \in uses(t)' <=>
                workflow_steps[t].effect \in uses(t)
        BY <2>1, <3>3
      <4>2. workflow_steps[s].effect \in uses(s)'
        BY <2>1, <2>3, <3>1, ConstantTypes
      <4>3. \A t \in Bound : t \in AuthorizedSteps' <=>
                               t \in AuthorizedSteps \/ t = s
        BY <2>2, <4>1, <4>2 DEF AuthorizedSteps
      <4> QED BY <2>2, <3>1, <4>3 DEF AuthorizedSteps
    <3>5. Contract!Authorize(s)
      BY <2>2, <3>1, <3>2, <3>4
         DEF Contract!Authorize, AuthorizedSteps, Performed, PerformedOn,
             OutcomeOf
    <3> QED BY <2>3, <3>5
  <2>4. CASE key \notin Effects
    <3>1. \A t \in Bound :
            /\ workflow_steps[t].effect # key
            /\ GrantOf[workflow_steps[t].effect] \in Grants
      BY <2>4, BoundEffect, ConstantTypes
    <3>2. AuthorizedSteps' = AuthorizedSteps
      BY <2>1, <2>2, <3>1 DEF AuthorizedSteps
    <3> QED BY <2>2, <3>2, MappedVars, MappedVarsNext DEF mapped
  <2> QED BY <2>3, <2>4
<1> QED BY <1>1, <1>2

(* The provider's first act on an effect performs its step. *)
LEMMA ExecutePerforms ==
  ASSUME Inv, NEW p \in Processes, Execute(p),
         NEW e, e = process[p].effect, NEW s, s = Step(e)
  PROVE  \/ UNCHANGED Contract!vars
         \/ \E x \in Effects \X (1..2) : Contract!Perform(s, x)
<1>1. /\ process[p].pc = "execute" /\ InFlight(p)
      /\ \E status \in Receipts : ProviderExecute(e, status)
      /\ UNCHANGED <<outbox, workflow_steps, effect_receipts,
                     capability_usage>>
  BY DEF Execute, At, Inv, AllInFlight, ledger, usage
<1>2. e \in Enqueued /\ e \in Effects /\ e \in capability_usage[GrantOf[e]]
      /\ s \in Steps
  BY <1>1, ConstantTypes DEF InFlight, Enqueued
<1>3. provider_effects[e].rows \in {0, 1} /\ LedgerType /\ ProviderType
  BY <1>2, TypeParts DEF Inv, ProviderRows
<1>4. CASE provider_effects[e].rows = 1
  <2>1. UNCHANGED provider_effects
    BY <1>1, <1>4 DEF ProviderExecute
  <2> QED BY <1>1, <2>1, MappedSame
<1>5. CASE provider_effects[e].rows = 0
  <2>1. PICK status \in Receipts :
          provider_effects' = [provider_effects EXCEPT ![e] =
                                [rows |-> 1, status |-> status]]
    BY <1>1, <1>5 DEF ProviderExecute
  <2>2. /\ provider_effects'[e].rows = 1
        /\ \A f \in Effects \ {e} :
             provider_effects'[f] = provider_effects[f]
    BY <1>2, <1>3, <2>1 DEF ProviderType
  <2>3. \A f \in Effects : Step(f) = s => provider_effects[f].rows = 0
    <3> SUFFICES ASSUME NEW f \in Effects, Step(f) = s,
                        provider_effects[f].rows # 0
                 PROVE  FALSE
      OBVIOUS
    <3>1. f \in Enqueued
      BY DEF Inv, ProviderRows
    <3>2. f = e
      BY <1>2, <1>3, <3>1, OneEffectPerStep DEF Inv
    <3> QED BY <1>5, <3>2
  <2>4. PerformedOn(s) = {}
    BY <2>3 DEF PerformedOn
  <2>5. PerformedOn(s)' = {<<e, 1>>}
    <3>1. <<e, 1>> \in PerformedOn(s)'
      BY <1>2, <2>2 DEF PerformedOn
    <3>2. ASSUME NEW x \in PerformedOn(s)' PROVE x = <<e, 1>>
      <4>1. /\ x \in Effects \X (1..2) /\ Step(x[1]) = s
            /\ x[2] <= provider_effects'[x[1]].rows
        BY <3>2 DEF PerformedOn
      <4>2. x[1] = e
        BY <2>2, <2>3, <4>1
      <4>3. x[2] = 1
        BY <2>2, <4>1, <4>2
      <4> QED BY <4>1, <4>2, <4>3
    <3> QED BY <3>1, <3>2
  <2>6. \A t \in Steps \ {s} : PerformedOn(t)' = PerformedOn(t)
    BY <2>2 DEF PerformedOn
  <2>7. Performed' = [Performed EXCEPT ![s] = {<<e, 1>>}]
    BY <1>2, <2>5, <2>6 DEF Performed
  <2>8. s \in AuthorizedSteps
    BY <1>2, <1>3, EnqueuedIsBound DEF AuthorizedSteps, Bound, Inv
  <2>9. Bound' = Bound /\ AuthorizedSteps' = AuthorizedSteps
        /\ OutcomeOf' = OutcomeOf
    BY <1>1 DEF Bound, AuthorizedSteps, OutcomeOf
  <2>10. Performed[s] = {}
    BY <1>2, <2>4 DEF Performed
  <2>11. Contract!Perform(s, <<e, 1>>)
    BY <2>7, <2>8, <2>9, <2>10
       DEF Contract!Perform, AuthorizedSteps, Performed, PerformedOn,
           OutcomeOf
  <2>12. <<e, 1>> \in Effects \X (1..2)
    BY <1>2
  <2> QED BY <2>11, <2>12
<1> QED BY <1>3, <1>4, <1>5

(* A recorded receipt is the outcome of its step, the first and only one. *)
LEMMA RecordSettles ==
  ASSUME Inv, NEW e \in Enqueued, NEW s, s = Step(e),
         NEW receipt \in Receipts \cup {"denied"},
         effect_receipts[e] = "none",
         Record(e, receipt), UNCHANGED <<usage, provider_effects>>
  PROVE  /\ s \in Steps /\ s \in Bound
         /\ OutcomeOf[s] = "none"
         /\ OutcomeOf' = [OutcomeOf EXCEPT ![s] = receipt]
         /\ UNCHANGED <<Bound, AuthorizedSteps, Performed>>
<1>1. /\ LedgerType /\ e \in Effects /\ s \in Steps
      /\ workflow_steps[s].effect = e
      /\ workflow_steps[s].status # "absent"
  BY EnqueuedIsBound, TypeParts, ConstantTypes DEF Inv, Enqueued
<1>2. /\ effect_receipts' = [effect_receipts EXCEPT ![e] = receipt]
      /\ workflow_steps' = [workflow_steps EXCEPT ![s].status =
                             StatusOf(receipt)]
      /\ UNCHANGED capability_usage
  BY DEF Record, usage
<1>3. StatusOf(receipt) # "absent"
  BY DEF StatusOf, Receipts
<1>4. \A t \in Steps :
        /\ workflow_steps'[t].effect = workflow_steps[t].effect
        /\ t \in Bound' <=> t \in Bound
  <2> DEFINE a == workflow_steps[s]
             b == [a EXCEPT !.status = StatusOf(receipt)]
  <2>1. a \in [status : {"absent", "queued"} \cup Receipts,
               effect : Effects \cup {NoEffect}]
    BY <1>1 DEF LedgerType
  <2>2. b.effect = a.effect /\ b.status = StatusOf(receipt)
    <3> HIDE DEF a
    <3> QED BY <2>1
  <2>3. workflow_steps' = [workflow_steps EXCEPT ![s] = b]
    BY <1>2
  <2> HIDE DEF b
  <2> QED BY <1>1, <1>3, <2>2, <2>3 DEF LedgerType, Bound
<1>5. Bound' = Bound /\ s \in Bound
  BY <1>1, <1>4 DEF Bound
<1>6. AuthorizedSteps' = AuthorizedSteps
  BY <1>2, <1>4, <1>5 DEF AuthorizedSteps, Bound
<1>7. Performed' = Performed
  BY DEF Performed, PerformedOn
<1>8. \A t \in Bound : t # s => workflow_steps[t].effect # e
  BY BoundEffect
<1>9. \A t \in Steps : OutcomeOf'[t] = IF t = s THEN receipt ELSE OutcomeOf[t]
  <2> SUFFICES ASSUME NEW t \in Steps
               PROVE  OutcomeOf'[t] = IF t = s THEN receipt ELSE OutcomeOf[t]
    OBVIOUS
  <2>1. CASE t = s
    BY <2>1, <1>1, <1>2, <1>4, <1>5 DEF OutcomeOf, LedgerType
  <2>2. CASE t # s /\ t \in Bound
    <3>1. workflow_steps[t].effect \in Effects
      BY <2>2, BoundEffect
    <3> QED BY <2>2, <3>1, <1>2, <1>4, <1>5, <1>8 DEF OutcomeOf, LedgerType
  <2>3. CASE t # s /\ t \notin Bound
    BY <2>3, <1>4 DEF OutcomeOf
  <2> QED BY <2>1, <2>2, <2>3
<1>10. OutcomeOf' = [OutcomeOf EXCEPT ![s] = receipt]
  <2>1. OutcomeOf' = [t \in Steps |-> OutcomeOf'[t]]
    BY DEF OutcomeOf
  <2>2. OutcomeOf = [t \in Steps |-> OutcomeOf[t]]
    BY DEF OutcomeOf
  <2> QED BY <1>9, <2>1, <2>2
<1>11. OutcomeOf[s] = "none"
  BY <1>1, <1>5 DEF OutcomeOf
<1> QED BY <1>1, <1>5, <1>6, <1>7, <1>10, <1>11

LEMMA CheckpointSettles ==
  ASSUME Inv, NEW p \in Processes, Checkpoint(p)
  PROVE  UNCHANGED Contract!vars \/ Contract!Next
<1> SUFFICES ASSUME NEW e, e = process[p].effect, NEW s, s = Step(e),
                    NEW receipt, receipt = provider_effects[e].status
             PROVE  UNCHANGED Contract!vars \/ Contract!Next
  OBVIOUS
<1>1. /\ process[p].pc = "checkpoint" /\ InFlight(p)
      /\ UNCHANGED <<usage, provider_effects>>
  BY DEF Checkpoint, At, Inv, AllInFlight
<1>2. /\ e \in Enqueued /\ e \in Effects /\ receipt \in Receipts
      /\ provider_effects[e].rows = 1
  BY <1>1 DEF InFlight, Enqueued, Inv, ProviderRows
<1>3. CASE effect_receipts[e] = "none" /\ Record(e, receipt)
  <2>1. /\ s \in Steps /\ OutcomeOf[s] = "none"
        /\ OutcomeOf' = [OutcomeOf EXCEPT ![s] = receipt]
        /\ UNCHANGED <<Bound, AuthorizedSteps, Performed>>
    BY <1>1, <1>2, <1>3, RecordSettles
  <2>2. <<e, 1>> \in PerformedOn(s)
    BY <1>2 DEF PerformedOn
  <2>3. Performed[s] # {}
    BY <2>1, <2>2 DEF Performed
  <2>4. Contract!Settle(s, receipt)
    BY <2>1, <2>3 DEF Contract!Settle, AuthorizedSteps, Performed,
                      PerformedOn, OutcomeOf
  <2>5. receipt \in Contract!Receipts
    BY <1>2 DEF Receipts, Contract!Receipts
  <2> QED BY <2>1, <2>4, <2>5 DEF Contract!Next
<1>4. CASE UNCHANGED ledger
  BY <1>1, <1>4, MappedSame DEF ledger, usage
<1> QED BY <1>3, <1>4 DEF Checkpoint

LEMMA DenialSettles ==
  ASSUME Inv, NEW p \in Processes, CheckpointAuthorizationFailure(p)
  PROVE  UNCHANGED Contract!vars \/ Contract!Next
<1> SUFFICES ASSUME NEW e, e = process[p].effect, NEW s, s = Step(e)
             PROVE  UNCHANGED Contract!vars \/ Contract!Next
  OBVIOUS
<1>1. /\ process[p].pc = "deny" /\ InFlight(p)
      /\ UNCHANGED <<usage, provider_effects>>
  BY DEF CheckpointAuthorizationFailure, At, Inv, AllInFlight
<1>2. e \in Enqueued
  BY <1>1 DEF InFlight
<1>3. CASE effect_receipts[e] = "none" /\ Record(e, "denied")
  <2>1. /\ s \in Steps /\ s \in Bound /\ OutcomeOf[s] = "none"
        /\ OutcomeOf' = [OutcomeOf EXCEPT ![s] = "denied"]
        /\ UNCHANGED <<Bound, AuthorizedSteps, Performed>>
    BY <1>1, <1>2, <1>3, RecordSettles
  <2>2. Contract!Deny(s)
    BY <2>1 DEF Contract!Deny, AuthorizedSteps, Performed, PerformedOn,
                OutcomeOf
  <2> QED BY <2>1, <2>2 DEF Contract!Next
<1>4. CASE UNCHANGED ledger
  BY <1>1, <1>4, MappedSame DEF ledger, usage
<1> QED BY <1>3, <1>4 DEF CheckpointAuthorizationFailure

(* Each step of the outbox is a step of the contract or changes nothing. *)
LEMMA StepImplements ==
  ASSUME Inv, [Next]_vars
  PROVE  UNCHANGED Contract!vars \/ Contract!Next
<1>1. ASSUME NEW e \in Effects, Enqueue(e) PROVE Contract!Next
  BY <1>1, EnqueueRequests, ConstantTypes DEF Contract!Next
<1>2. ASSUME NEW p \in Processes, Consume(p)
      PROVE  UNCHANGED Contract!vars \/ Contract!Next
  <2> SUFFICES ASSUME NEW e, e = process[p].effect
               PROVE  UNCHANGED Contract!vars \/ Contract!Next
    OBVIOUS
  <2>1. e \in Enqueued /\ e \in Effects /\ GrantOf[e] \in Grants
        /\ Step(e) \in Steps
    BY <1>2, ConstantTypes DEF Inv, AllInFlight, InFlight, Consume, At,
                               Enqueued
  <2>2. /\ Use(GrantOf[e], e) \/ UNCHANGED usage
        /\ UNCHANGED <<workflow_steps, effect_receipts, provider_effects>>
    BY <1>2 DEF Consume, ledger
  <2>3. CASE Use(GrantOf[e], e)
    <3>1. UNCHANGED Contract!vars \/ Contract!Authorize(Step(e))
      BY <2>1, <2>2, <2>3, UseAuthorizes
    <3> QED BY <2>1, <3>1 DEF Contract!Next
  <2>4. CASE UNCHANGED usage
    BY <2>2, <2>4, MappedSame DEF usage
  <2> QED BY <2>2, <2>3, <2>4
<1>3. ASSUME NEW p \in Processes, Execute(p)
      PROVE  UNCHANGED Contract!vars \/ Contract!Next
  <2> SUFFICES ASSUME NEW e, e = process[p].effect, NEW s, s = Step(e)
               PROVE  UNCHANGED Contract!vars \/ Contract!Next
    OBVIOUS
  <2>1. s \in Steps
    BY <1>3, ConstantTypes DEF Inv, AllInFlight, InFlight, Execute, At,
                               Enqueued
  <2>2. \/ UNCHANGED Contract!vars
        \/ \E x \in Effects \X (1..2) : Contract!Perform(s, x)
    BY <1>3, ExecutePerforms
  <2> QED BY <2>1, <2>2 DEF Contract!Next
<1>4. ASSUME NEW g \in Grants, NEW key \in DirectKeys, ConsumeDirectly(g, key)
      PROVE  UNCHANGED Contract!vars
  <2>1. key \notin Effects
    BY OutboxAssumption
  <2> QED BY <1>4, <2>1, UseAuthorizes DEF ConsumeDirectly, ledger
<1>5. ASSUME NEW p \in Processes,
             \/ \E e \in Effects : Dispatch(p, e)
             \/ RecoverPending(p) \/ RecoverNext(p)
             \/ Bind(p) \/ Lookup(p) \/ MarkReady(p) \/ Crash(p)
      PROVE  UNCHANGED Contract!vars
  <2>1. UNCHANGED <<workflow_steps, effect_receipts, capability_usage,
                    provider_effects>>
    BY <1>5 DEF Dispatch, RecoverPending, RecoverNext, Bind, Lookup,
                MarkReady, Crash, ledger, usage
  <2> QED BY <2>1, MappedSame
<1>6. CASE WorkflowNext
  <2>1. Callers \subseteq Processes /\ Recoverers \subseteq Processes
    BY DEF Processes
  <2> QED BY <2>1, <1>1, <1>2, <1>3, <1>5, <1>6, CheckpointSettles,
             DenialSettles DEF WorkflowNext, InDispatch, Recovery
<1>7. CASE SupervisionNext
  <2>1. CASE UNCHANGED <<ledger, usage, provider_effects>>
    BY <2>1, MappedSame DEF ledger, usage
  <2> QED BY <2>1, <1>4, <1>7
             DEF SupervisionNext, MoveTask, LoseClaim, AcquireClaim,
                 AdvanceLoop, VoidGrant, SwitchPrincipal
<1>8. CASE UNCHANGED vars
  BY <1>8, MappedSame DEF vars, ledger, usage
<1> QED BY <1>6, <1>7, <1>8 DEF Next

LEMMA InitImplements == Init => Contract!Init
<1> SUFFICES ASSUME Init PROVE Contract!Init
  OBVIOUS
<1>1. Bound = {}
  BY DEF Init, Bound
<1>2. AuthorizedSteps = {}
  BY <1>1 DEF AuthorizedSteps
<1>3. Performed = [s \in Steps |-> {}]
  BY DEF Init, Performed, PerformedOn
<1>4. OutcomeOf = [s \in Steps |-> "none"]
  BY <1>1 DEF OutcomeOf
<1> QED BY <1>1, <1>2, <1>3, <1>4
           DEF Contract!Init, AuthorizedSteps, Performed, PerformedOn,
               OutcomeOf

(***************************************************************************)
(* The outbox implements the effect contract: with any number of callers,  *)
(* recovery scans and deaths between the transactions of dispatch, a step  *)
(* is requested once, authorized before it is performed, performed at most *)
(* once, and settled once, by a receipt of the provider that acted or by a *)
(* denial.                                                                 *)
(***************************************************************************)
THEOREM OutboxImplementsContract == Spec => ImplementsContract
<1>1. Inv /\ [Next]_vars => [Contract!Next]_(Contract!vars)
  BY StepImplements
<1> QED BY <1>1, InitImplements, InvHolds, PTL
           DEF Spec, ImplementsContract, Contract!Spec

=============================================================================
