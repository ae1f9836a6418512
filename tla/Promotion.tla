----------------------------- MODULE Promotion -----------------------------
(***************************************************************************)
(* How a rule or a memory is promoted: EvaluationRegistry (evaluation.py), *)
(* MemoryRegistry (memory.py), and what they read of the approvals         *)
(* (policy.py) and of the source run and task (kernel.py).                 *)
(*                                                                         *)
(* A command is one BEGIN IMMEDIATE transaction and one action; one that   *)
(* raises is disabled.  record_eval is two actions: it stamps created_at   *)
(* before it waits for the transaction, and others commit in between; so   *)
(* does the promote of a memory.  The promote of a rule compares the       *)
(* approval's expiry with the clock inside its transaction, and its event  *)
(* is stamped by a later reading: late says that the approval expired in   *)
(* between.                                                                *)
(*                                                                         *)
(* The order of two events (their seq, or created_at and decided_at) is    *)
(* kept as what the later one found: an evaluation knows which subjects    *)
(* were limited, an approval which evaluations existed, a promotion which  *)
(* evaluations had been recorded.  Digests are the records they are taken  *)
(* of.  A clean evaluation can be attached to a proposal only once, so its *)
(* attachment event is its column.                                         *)
(***************************************************************************)
EXTENDS Naturals, FiniteSets, Sequences

CONSTANTS
  Proposals,
  Memories,
  CandidateOf,   \* candidate_digest, per proposal and memory
  Others,        \* candidate digests of other projects
  Evals,         \* eval ids
  Datasets,      \* dataset digests
  Approvals,     \* approval ids
  Principals,
  RolesOf,       \* their roles
  Custodians,    \* external custodians of sealed data, by principal id
  EvalInputs,    \* bound: the results evaluators record
  Requesters,    \* bound: whoever asks for an approval
  MaxSubjects,   \* bound: the proposals and memories created
  MaxWaiting,    \* bound: the calls of record_eval waiting at a time
  MaxDelivered   \* bound: how often the source run is delivered

Subjects == Proposals \cup Memories

Role ==
  {"owner", "worker", "evaluator", "observer", "release", "system"}

Splits == {"held_in", "held_out", "sealed"}

None == "none"

ProposalState ==
  {"candidate", "heldout_pending", "owner_review", "limited", "active",
   "rejected"}

Candidates == {CandidateOf[s] : s \in Subjects} \cup Others

EvalResult ==
  [cand : Candidates, split : Splits,
   data : Datasets, evaluator : Principals, clean : BOOLEAN]

ASSUME PromotionAssumption ==
  /\ Proposals \cap Memories = {}
  /\ DOMAIN CandidateOf = Subjects
  /\ RolesOf \in [Principals -> SUBSET Role]
  /\ Custodians \subseteq Principals
  /\ EvalInputs \subseteq EvalResult
  /\ Requesters \subseteq Principals
  /\ MaxSubjects \in Nat /\ MaxWaiting \in Nat
  /\ MaxDelivered \in Nat \ {0}
  /\ None \notin Evals \cup Approvals \cup Principals

VARIABLES
  source,     \* run and task the proposals and memories come from
  evals,      \* eval_runs and their events; "begun" while a call waits
  proposals,  \* improvement_proposals
  custody,    \* sealed_custody_attestations, per proposal
  approvals,  \* approvals of promotions
  limited,    \* limited_rule_promotion_record of a proposal's event
  active,     \* active_rule_promotion_record of a proposal's event
  memories,   \* memory_items
  promoted,   \* the eval ids of a memory's memory_promoted events
  waiting     \* a call of MemoryRegistry.promote that waits

vars == <<source, evals, proposals, custody, approvals, limited, active,
          memories, promoted, waiting>>

NoEval == [phase |-> "absent"]
NoProposal == [state |-> None]
NoCustody == [eval |-> None]
NoApproval == [subject |-> None]
NoRecord == [before |-> {}]
NoMemory == [status |-> None]
NoCall == [waits |-> FALSE]

Init ==
  /\ source = [run |-> "open", task |-> "open", deliveries |-> 0]
  /\ evals = [e \in Evals |-> NoEval]
  /\ proposals = [p \in Proposals |-> NoProposal]
  /\ custody = [p \in Proposals |-> NoCustody]
  /\ approvals = [a \in Approvals |-> NoApproval]
  /\ limited = [p \in Proposals |-> NoRecord]
  /\ active = [p \in Proposals |-> NoRecord]
  /\ memories = [m \in Memories |-> NoMemory]
  /\ promoted = [m \in Memories |-> <<>>]
  /\ waiting = [m \in Memories |-> NoCall]

HasRole(w, role) == role \in RolesOf[w]

Begun == {e \in Evals : evals[e] # NoEval}
Recorded == {e \in Begun : evals[e].phase = "recorded"}

Clean(e) == e \in Recorded /\ evals[e].clean

(***************************************************************************)
(* The subjects whose limited promotion has been committed.                *)
(***************************************************************************)
LimitedNow ==
  {p \in Proposals : limited[p] # NoRecord}
    \cup {m \in Memories : promoted[m] # <<>>}

(* The proposals and memories there are. *)
Created ==
  {p \in Proposals : proposals[p] # NoProposal}
    \cup {m \in Memories : memories[m] # NoMemory}

-----------------------------------------------------------------------------
(* The source run and task, up to their delivery and after it. *)

(* confirm_task_delivery and the delivery_confirmed event of the run. *)
Deliver ==
  /\ source.run = "open"
  /\ source' = [run |-> "delivered", task |-> "delivered", deliveries |-> 1]

(* improvement_requested, open to any delivered run.  Bound: here and in   *)
(* RetireTask, once a rule is limited; earlier it only refuses that.       *)
RequestImprovement ==
  /\ source.run = "delivered"
  /\ \E p \in Proposals : limited[p] # NoRecord
  /\ source.deliveries < MaxDelivered
  /\ source' = [source EXCEPT !.run = "improvement_pending"]

(* delivery_confirmed under the guard improvement_routed. *)
ConfirmImprovement ==
  /\ source.run = "improvement_pending"
  /\ \E p \in Proposals : proposals[p] # NoProposal
  /\ source' = [source EXCEPT !.run = "delivered", !.deliveries = @ + 1]

(* control_task: a delivered task is retired. *)
RetireTask ==
  /\ source.task = "delivered"
  /\ \E p \in Proposals : limited[p] # NoRecord
  /\ source' = [source EXCEPT !.task = "retired"]

SourceStep ==
  /\ Deliver \/ RequestImprovement \/ ConfirmImprovement \/ RetireTask
  /\ UNCHANGED <<evals, proposals, custody, approvals, limited, active,
                 memories, promoted, waiting>>

(***************************************************************************)
(* _verified_limited_source_evidence: the run and the task are delivered   *)
(* now, and the run has exactly one delivery_confirmed event.              *)
(***************************************************************************)
SourceStands ==
  /\ source.run = "delivered"
  /\ source.task = "delivered"
  /\ source.deliveries = 1

-----------------------------------------------------------------------------
(* Evaluations. *)

(***************************************************************************)
(* record_eval up to the transaction: the attestation is verified and      *)
(* created_at is taken.  Bound: a candidate is evaluated once its proposal *)
(* or memory exists.                                                       *)
(***************************************************************************)
BeginEval(e, input) ==
  /\ HasRole(input.evaluator, "evaluator")
  /\ input.cand \in {CandidateOf[s] : s \in Created} \cup Others
  /\ evals[e] = NoEval
  /\ Cardinality(Begun \ Recorded) < MaxWaiting
  /\ evals' = [evals EXCEPT ![e] =
       [cand |-> input.cand, split |-> input.split, data |-> input.data,
        evaluator |-> input.evaluator, clean |-> input.clean,
        phase |-> "begun", after |-> LimitedNow]]
  /\ UNCHANGED <<source, proposals, custody, approvals, limited, active,
                 memories, promoted, waiting>>

(***************************************************************************)
(* The transaction.  The same result under a recorded id is returned and   *)
(* changes nothing; a sealed dataset is burned by its first evaluation.    *)
(***************************************************************************)
Unburned(e) ==
  evals[e].split = "sealed" =>
    ~ \E f \in Recorded :
        evals[f].split = "sealed" /\ evals[f].data = evals[e].data

RecordEval(e) ==
  /\ evals[e] # NoEval /\ evals[e].phase = "begun"
  /\ Unburned(e)
  /\ evals' = [evals EXCEPT ![e].phase = "recorded"]
  /\ UNCHANGED <<source, proposals, custody, approvals, limited, active,
                 memories, promoted, waiting>>

-----------------------------------------------------------------------------
(* Proposals. *)

Propose(p, w) ==
  /\ RolesOf[w] \cap {"worker", "system"} # {}
  /\ proposals[p] = NoProposal
  /\ Cardinality(Created) < MaxSubjects
  /\ proposals' = [proposals EXCEPT ![p] =
       [state |-> "candidate", maker |-> w, held_in |-> None,
        held_out |-> None, sealed |-> None, approval |-> None]]
  /\ UNCHANGED <<source, evals, custody, approvals, limited, active,
                 memories, promoted, waiting>>

AttachTargetUnread(e) ==
  [held_in |-> "heldout_pending", held_out |-> "owner_review",
   sealed |-> "limited"][evals[e].split]

(***************************************************************************)
(* Where attach_eval takes a proposal.  An evaluation that is not a clean  *)
(* pass rejects it, whatever its state.                                    *)
(***************************************************************************)
AttachTarget(e) ==
  IF ~ evals[e].clean
    THEN "rejected"
    ELSE [held_in |-> "heldout_pending", held_out |-> "owner_review",
          sealed |-> "limited"][evals[e].split]

Isolated(e, others) == \A f \in others : evals[f].data # evals[e].data

MayReattach(p, e) ==
  LET row == proposals[p] IN
    \/ ~ evals[e].clean
    \/ evals[e].split = "held_in"
    \/ /\ evals[e].split = "held_out"
       /\ row.state = "heldout_pending" /\ row.held_in # None
       /\ Isolated(e, {row.held_in})
    \/ /\ evals[e].split = "sealed"
       /\ row.state = "limited" /\ row.held_out # None
       /\ row.sealed = None
       /\ limited[p] # NoRecord /\ p \in evals[e].after
       /\ Isolated(e, {row.held_in, row.held_out})

(***************************************************************************)
(* What each split asks of the proposal.  A clean held-in evaluation asks  *)
(* only that none is attached yet: the state does not matter.              *)
(***************************************************************************)
MayAttach(p, e) ==
  LET row == proposals[p] IN
    \/ ~ evals[e].clean
    \/ evals[e].split = "held_in" /\ row.held_in = None
    \/ /\ evals[e].split = "held_out"
       /\ row.state = "heldout_pending" /\ row.held_in # None
       /\ Isolated(e, {row.held_in})
    \/ /\ evals[e].split = "sealed"
       /\ row.state = "limited" /\ row.held_out # None
       /\ row.sealed = None
       /\ limited[p] # NoRecord /\ p \in evals[e].after
       /\ Isolated(e, {row.held_in, row.held_out})

IndependentOnceSealed(p, e) ==
  evals[e].split = "sealed" => proposals[p].maker # evals[e].evaluator

(* The maker does not evaluate their own proposal. *)
Independent(p, e) == proposals[p].maker # evals[e].evaluator

AttachEval(p, e) ==
  /\ proposals[p] # NoProposal /\ e \in Recorded
  /\ Independent(p, e)
  /\ evals[e].cand = CandidateOf[p]
  /\ MayAttach(p, e)
  /\ proposals' = [proposals EXCEPT
       ![p] = [@ EXCEPT ![evals[e].split] = e,
                        !.state = AttachTarget(e)]]
  /\ UNCHANGED <<source, evals, custody, approvals, limited, active,
                 memories, promoted, waiting>>

(***************************************************************************)
(* record_sealed_custody_attestation: at most one per proposal and per     *)
(* evaluation (UNIQUE columns), by someone other than the evaluator.       *)
(***************************************************************************)
RecordSealedCustody(p, w) ==
  LET sealed == proposals[p].sealed IN
  /\ proposals[p].state = "limited"
  /\ sealed # None /\ Clean(sealed)
  /\ w # evals[sealed].evaluator
  /\ \A q \in Proposals : custody[q].eval # sealed
  /\ custody[p] = NoCustody
  /\ custody' = [custody EXCEPT ![p] = [eval |-> sealed, custodian |-> w]]
  /\ UNCHANGED <<source, evals, proposals, approvals, limited, active,
                 memories, promoted, waiting>>

-----------------------------------------------------------------------------
(* Approvals: PolicyEngine.record_approval for the promotion capabilities. *)

UseCountNow(split, data, before) ==
  Cardinality({e \in Recorded :
                 evals[e].split = split /\ evals[e].data = data})

(***************************************************************************)
(* _eval_dataset_use_count: the events of evaluations on a dataset among   *)
(* those recorded before some point.                                       *)
(***************************************************************************)
UseCount(split, data, before) ==
  Cardinality({e \in before : evals[e].split = split /\ evals[e].data = data})

Request(e, count) == [eval |-> e, count |-> count]

(***************************************************************************)
(* What a limited request may say.  Its digest can be taken by anyone, of  *)
(* a request built by build_limited_promotion_request or by hand, also     *)
(* before its evaluation is recorded.  The digest of an active request     *)
(* holds a record id and instants the registry made up, and exists only    *)
(* once it is built.                                                       *)
(***************************************************************************)
LimitedRequests(p) ==
  {Request(e, UseCount("held_out", evals[e].data, Recorded \cup {e})) :
     e \in {f \in Begun : /\ evals[f].cand = CandidateOf[p]
                          /\ evals[f].split = "held_out"}}

(***************************************************************************)
(* An approval, with what it found: the evaluations dated before it and,   *)
(* for a rule, the ones recorded before it and the source's delivery.      *)
(***************************************************************************)
NewApproval(subject, target, digest, gates, requester, approver) ==
  [subject |-> subject, target |-> target, digest |-> digest,
   requester |-> requester, approver |-> approver, dated |-> gates,
   seen |-> {e \in gates : subject \in Proposals /\ e \in Recorded},
   delivered |-> subject \in Proposals /\ source.deliveries > 0,
   live |-> TRUE]

(***************************************************************************)
(* gates: the evaluations it may come to back, of those begun so far.      *)
(***************************************************************************)
RecordApproval(a, subject, target, digest, gates, requester, approver) ==
  /\ HasRole(approver, "owner")
  /\ requester # approver
  /\ source.task # "retired"
  /\ approvals[a] = NoApproval
  /\ approvals' = [approvals EXCEPT ![a] =
       NewApproval(subject, target, digest, gates, requester, approver)]
  /\ UNCHANGED <<source, evals, proposals, custody, limited, active,
                 memories, promoted, waiting>>

Lapse(a) ==
  /\ approvals[a] # NoApproval /\ approvals[a].live
  /\ approvals' = [approvals EXCEPT ![a].live = FALSE]
  /\ UNCHANGED <<source, evals, proposals, custody, limited, active,
                 memories, promoted, waiting>>

-----------------------------------------------------------------------------
(* Promotion of a proposal to limited. *)

(***************************************************************************)
(* _build_limited_request, as of the evaluations recorded before a point:  *)
(* what must hold of the proposal, and the request.                        *)
(***************************************************************************)
Buildable(p, before) ==
  LET heldout == proposals[p].held_out IN
  /\ proposals[p].state \in {"owner_review", "limited", "active"}
  /\ heldout # None /\ Clean(heldout) /\ heldout \in before
  /\ evals[heldout].split = "held_out"
  /\ evals[heldout].cand = CandidateOf[p]
  /\ SourceStands

LimitedRequest(p, before) ==
  LET heldout == proposals[p].held_out IN
    Request(heldout, UseCount("held_out", evals[heldout].data, before))

(***************************************************************************)
(* _verified_approval_authority: the approval is for this promotion and    *)
(* this request, was asked for by the maker, and follows the evaluation.   *)
(* Once the promotion has its event (before_seq), timely is asked as well: *)
(* the event was stamped before the approval expired.                      *)
(***************************************************************************)
Authorizes(a, p, target, gate, digest, timely) ==
  LET row == approvals[a] IN
  /\ row # NoApproval
  /\ row.subject = p /\ row.target = target
  /\ row.digest = digest
  /\ row.requester = proposals[p].maker
  /\ gate \in row.dated /\ gate \in row.seen
  /\ timely

(* The approval is live when it is read, and may expire before the stamp. *)
Spend(a, late) ==
  /\ approvals[a].live
  /\ approvals' = [approvals EXCEPT ![a].live = ~ late]

PromoteLimited(p, a, late) ==
  /\ proposals[p].state = "owner_review"
  /\ Buildable(p, Recorded)
  /\ LET request == LimitedRequest(p, Recorded) IN
     /\ Authorizes(a, p, "limited", request.eval, request, TRUE)
     /\ Spend(a, late)
     /\ approvals[a].delivered
     /\ limited' = [limited EXCEPT ![p] =
          [request |-> request, approval |-> a,
           owner |-> approvals[a].approver, before |-> Recorded,
           timely |-> ~ late]]
  /\ proposals' = [proposals EXCEPT ![p].state = "limited",
                                    ![p].approval = a]
  /\ UNCHANGED <<source, evals, custody, active, memories,
                 promoted, waiting>>

-----------------------------------------------------------------------------
(* Promotion of a proposal to active. *)

(***************************************************************************)
(* _verified_limited_record: the record is rebuilt as of its event and     *)
(* must come out the same.                                                 *)
(***************************************************************************)
LimitedVerifies(p) ==
  LET record == limited[p] IN
  /\ record # NoRecord
  /\ Buildable(p, record.before)
  /\ record.request = LimitedRequest(p, record.before)
  /\ Authorizes(record.approval, p, "limited", record.request.eval,
                record.request, record.timely)
  /\ record.owner = approvals[record.approval].approver
  /\ approvals[record.approval].delivered

(* _verified_sealed_custody *)
CustodyVerifies(p) ==
  /\ custody[p] # NoCustody
  /\ custody[p].eval = proposals[p].sealed

(* _active_request_digest *)
ActiveRequest(p) ==
  [limited |-> limited[p], sealed |-> proposals[p].sealed,
   custody |-> custody[p]]

FourDistinct(p, a) ==
  Cardinality({proposals[p].maker, evals[proposals[p].sealed].evaluator,
               custody[p].custodian, approvals[a].approver}) = 4

(***************************************************************************)
(* _assemble_active_rule_promotion_record: what must hold, as of the       *)
(* evaluations recorded before a point, and the record; timely as above.   *)
(***************************************************************************)
ActiveAssembles(p, a, before, timely) ==
  LET sealed == proposals[p].sealed IN
  /\ sealed # None /\ Clean(sealed) /\ sealed \in before
  /\ evals[sealed].split = "sealed"
  /\ evals[sealed].cand = CandidateOf[p]
  /\ LimitedVerifies(p)
  /\ sealed \notin limited[p].before
  /\ CustodyVerifies(p)
  /\ Authorizes(a, p, "active", sealed, ActiveRequest(p), timely)
  /\ FourDistinct(p, a)

ActiveRecord(p, a, before) ==
  [limited |-> limited[p], sealed |-> proposals[p].sealed,
   uses |-> UseCount("sealed", evals[proposals[p].sealed].data, before),
   maker |-> proposals[p].maker, custodian |-> custody[p].custodian,
   approval |-> a, owner |-> approvals[a].approver]

(* promotion_request_digest for active, and its approval. *)
ActiveRequestable(p) ==
  /\ proposals[p].state = "limited"
  /\ LimitedVerifies(p)
  /\ proposals[p].sealed # None
  /\ CustodyVerifies(p)

PromoteActive(p, a, late) ==
  /\ proposals[p].state = "limited"
  /\ Clean(proposals[p].held_out)
  /\ ActiveAssembles(p, a, Recorded, TRUE)
  /\ Spend(a, late)
  /\ active' = [active EXCEPT ![p] =
       [record |-> ActiveRecord(p, a, Recorded), before |-> Recorded,
        timely |-> ~ late]]
  /\ proposals' = [proposals EXCEPT ![p].state = "active",
                                    ![p].approval = a]
  /\ UNCHANGED <<source, evals, custody, limited, memories,
                 promoted, waiting>>

-----------------------------------------------------------------------------
(* Memories.  Evidence and artifacts are never updated, so the provenance  *)
(* of a memory does not change and is not modelled.                        *)

CreateCandidate(m) ==
  /\ memories[m] = NoMemory
  /\ Cardinality(Created) < MaxSubjects
  /\ memories' = [memories EXCEPT ![m] =
       [status |-> "candidate", heldout |-> None, expired |-> FALSE]]
  /\ UNCHANGED <<source, evals, proposals, custody, approvals, limited,
                 active, promoted, waiting>>

ExpireMemory(m) ==
  /\ memories[m] # NoMemory /\ ~ memories[m].expired
  /\ memories' = [memories EXCEPT ![m].expired = TRUE]
  /\ UNCHANGED <<source, evals, proposals, custody, approvals, limited,
                 active, promoted, waiting>>

MEMORY_TRANSITIONS == [candidate |-> "limited", limited |-> "active"]

(* _promotion_request: its digest can be taken for either step by hand. *)
MemoryRequest(from) == [from |-> from, target |-> MEMORY_TRANSITIONS[from]]

FreshEvalId(m, e) ==
  memories[m].status = "limited" =>
    memories[m].heldout # e /\ m \in evals[e].after

(***************************************************************************)
(* What the step from limited to active asks of the evaluation: another    *)
(* one, on other data, dated after the limited promotion.                  *)
(***************************************************************************)
FreshEval(m, e) ==
  memories[m].status = "limited" =>
    /\ memories[m].heldout # e
    /\ evals[memories[m].heldout].data # evals[e].data
    /\ m \in evals[e].after

(***************************************************************************)
(* promote takes now before it waits for its transaction, and compares it  *)
(* there with the expiry of the memory and of the approval: what lapses    *)
(* while it waits still counts.  A call that raises leaves no trace.       *)
(***************************************************************************)
BeginPromotion(m) ==
  /\ memories[m] # NoMemory /\ ~ memories[m].expired
  /\ waiting[m] = NoCall
  /\ waiting' = [waiting EXCEPT ![m] =
       [waits |-> TRUE,
        lapsed |-> {a \in Approvals :
                      approvals[a] # NoApproval /\ ~ approvals[a].live}]]
  /\ UNCHANGED <<source, evals, proposals, custody, approvals, limited,
                 active, memories, promoted>>

RefusePromotion(m) ==
  /\ waiting[m] # NoCall
  /\ waiting' = [waiting EXCEPT ![m] = NoCall]
  /\ UNCHANGED <<source, evals, proposals, custody, approvals, limited,
                 active, memories, promoted>>

PromoteMemory(m, a, e) ==
  LET row == memories[m] approval == approvals[a] IN
  /\ row # NoMemory /\ row.status \in DOMAIN MEMORY_TRANSITIONS
  /\ waiting[m] # NoCall
  /\ approval # NoApproval /\ a \notin waiting[m].lapsed
  /\ approval.subject = m /\ approval.digest = MemoryRequest(row.status)
  /\ Clean(e) /\ evals[e].split = "held_out"
  /\ evals[e].cand = CandidateOf[m]
  /\ FreshEval(m, e)
  /\ e \in approval.dated
  /\ memories' = [memories EXCEPT
       ![m].status = MEMORY_TRANSITIONS[row.status], ![m].heldout = e]
  /\ promoted' = [promoted EXCEPT ![m] = Append(@, e)]
  /\ waiting' = [waiting EXCEPT ![m] = NoCall]
  /\ UNCHANGED <<source, evals, proposals, custody, approvals, limited,
                 active>>

-----------------------------------------------------------------------------

ApproveLimited(a, p, requester, approver) ==
  /\ proposals[p] # NoProposal
  /\ \E request \in LimitedRequests(p) :
       RecordApproval(a, p, "limited", request, {request.eval},
                      requester, approver)

ApproveActive(a, p, requester, approver) ==
  /\ ActiveRequestable(p)
  /\ RecordApproval(a, p, "active", ActiveRequest(p),
                    {proposals[p].sealed}, requester, approver)

ApproveMemory(a, m, requester, approver) ==
  /\ memories[m] # NoMemory
  /\ \E from \in DOMAIN MEMORY_TRANSITIONS :
       RecordApproval(a, m, MEMORY_TRANSITIONS[from], MemoryRequest(from),
                      {e \in Begun : evals[e].cand = CandidateOf[m]},
                      requester, approver)

Next ==
  \/ SourceStep
  \/ \E e \in Evals, input \in EvalInputs : BeginEval(e, input)
  \/ \E e \in Evals : RecordEval(e)
  \/ \E p \in Proposals, w \in Principals : Propose(p, w)
  \/ \E p \in Proposals, e \in Evals : AttachEval(p, e)
  \/ \E p \in Proposals, w \in Custodians : RecordSealedCustody(p, w)
  \/ \E a \in Approvals, p \in Proposals,
       requester \in Requesters, approver \in Principals :
       \/ ApproveLimited(a, p, requester, approver)
       \/ ApproveActive(a, p, requester, approver)
  \/ \E a \in Approvals, m \in Memories,
       requester \in Requesters, approver \in Principals :
       ApproveMemory(a, m, requester, approver)
  \/ \E a \in Approvals : Lapse(a)
  \/ \E p \in Proposals, a \in Approvals, late \in BOOLEAN :
       PromoteLimited(p, a, late) \/ PromoteActive(p, a, late)
  \/ \E m \in Memories : \/ CreateCandidate(m) \/ ExpireMemory(m)
                         \/ BeginPromotion(m) \/ RefusePromotion(m)
  \/ \E m \in Memories, a \in Approvals, e \in Evals :
       PromoteMemory(m, a, e)

Spec == Init /\ [][Next]_vars

-----------------------------------------------------------------------------

ApprovalDigest ==
  [eval : Evals, count : Nat]
    \cup [from : {"candidate", "limited"}, target : {"limited", "active"}]
    \cup [limited : {limited[p] : p \in Proposals}, sealed : Evals,
          custody : {custody[p] : p \in Proposals}]

(***************************************************************************)
(* The shape of every table, and what the columns of a proposal hold for   *)
(* the state it is in: a proposal past a gate carries the clean evaluation *)
(* of that gate, and one that is limited or active its approval and        *)
(* record.                                                                 *)
(***************************************************************************)
TypeOK ==
  /\ source \in [run : {"open", "delivered", "improvement_pending"},
                 task : {"open", "delivered", "retired"},
                 deliveries : 0..MaxDelivered]
  /\ \A e \in Begun :
       evals[e] \in [cand : Candidates, split : Splits, data : Datasets,
                     evaluator : Principals, clean : BOOLEAN,
                     phase : {"begun", "recorded"},
                     after : SUBSET Subjects]
  /\ \A p \in Proposals : proposals[p] # NoProposal =>
       /\ proposals[p] \in
            [state : ProposalState, maker : Principals,
             held_in : Evals \cup {None}, held_out : Evals \cup {None},
             sealed : Evals \cup {None}, approval : Approvals \cup {None}]
       /\ proposals[p].state \in
            {"heldout_pending", "owner_review", "limited", "active"} =>
              Clean(proposals[p].held_in)
       /\ proposals[p].state \in {"owner_review", "limited", "active"} =>
              Clean(proposals[p].held_out)
       /\ proposals[p].state \in {"limited", "active"} =>
              limited[p] # NoRecord
  /\ \A a \in Approvals : approvals[a] # NoApproval =>
       /\ approvals[a].digest \in ApprovalDigest
       /\ approvals[a].requester # approvals[a].approver
       /\ approvals[a].seen \subseteq approvals[a].dated
  /\ \A m \in Memories : memories[m] # NoMemory =>
       /\ memories[m] \in [status : {"candidate", "limited", "active"},
                           heldout : Evals \cup {None}, expired : BOOLEAN]
       /\ waiting[m] # NoCall => waiting[m].lapsed \subseteq Approvals
       /\ Len(promoted[m]) =
            CASE memories[m].status = "candidate" -> 0
              [] memories[m].status = "limited"   -> 1
              [] memories[m].status = "active"    -> 2

(***************************************************************************)
(* Nobody passes their own work.  The maker of a promoted rule neither     *)
(* evaluated nor approved it, and maker, sealed evaluator, custodian and   *)
(* owner of an active rule are four principals, whatever roles each holds. *)
(***************************************************************************)
FourEyes ==
  \A p \in Proposals :
    /\ limited[p] # NoRecord =>
         proposals[p].maker \notin
           {limited[p].owner, evals[limited[p].request.eval].evaluator}
    /\ active[p] # NoRecord =>
         LET r == active[p].record IN
           Cardinality({r.maker, evals[r.sealed].evaluator, r.custodian,
                        r.owner}) = 4

(***************************************************************************)
(* What is active was confirmed on data nobody had tuned it on.  The three *)
(* evaluations of an active rule are clean and on three datasets, and its  *)
(* sealed dataset was used for sealed evaluation once, after the limited   *)
(* promotion.  An active memory passed two clean held-out evaluations on   *)
(* two datasets, the second dated after the limited promotion.             *)
(***************************************************************************)
ActiveOnFreshData ==
  /\ \A p \in Proposals : proposals[p].state = "active" =>
       LET row == proposals[p]
           used == {row.held_in, row.held_out, row.sealed} IN
       /\ \A e \in used : Clean(e)
       /\ Cardinality({evals[e].data : e \in used}) = 3
       /\ row.sealed \notin limited[p].before
       /\ UseCount("sealed", evals[row.sealed].data, Recorded) = 1
  /\ \A m \in Memories : Len(promoted[m]) = 2 =>
       LET first == promoted[m][1] second == promoted[m][2] IN
       /\ Clean(first) /\ Clean(second)
       /\ evals[first].data # evals[second].data
       /\ m \in evals[second].after

(***************************************************************************)
(* get_limited_rule_promotion_record and get_active_rule_promotion_record: *)
(* while the source stands, the record of a promoted rule is rebuilt from  *)
(* the tables exactly as it was written, whatever was evaluated, approved  *)
(* or lapsed since.  The one record that is not is that of an event which  *)
(* was stamped after its approval had expired; no rule becomes active on a *)
(* limited record that is lost in this way.                                *)
(***************************************************************************)
RecordsReadBack ==
  \A p \in Proposals : SourceStands =>
    /\ proposals[p].state = "limited" /\ limited[p].timely =>
         LimitedVerifies(p) /\ proposals[p].approval = limited[p].approval
    /\ proposals[p].state = "active" => LimitedVerifies(p)
    /\ proposals[p].state = "active" /\ active[p].timely =>
         LET r == active[p].record before == active[p].before IN
         /\ ActiveAssembles(p, r.approval, before, active[p].timely)
         /\ r = ActiveRecord(p, r.approval, before)
         /\ proposals[p].approval = r.approval

(***************************************************************************)
(* A rule is promoted to limited once, and rejection after that is final:  *)
(* attach_eval rejects in any state, and takes a proposal out of rejected  *)
(* again when a clean held-in evaluation comes later, but never one that   *)
(* has been limited, and no later evaluation or promotion rewrites its     *)
(* record.                                                                 *)
(***************************************************************************)
LimitedOnce ==
  [][\A p \in Proposals : limited[p] # NoRecord =>
       /\ limited'[p] = limited[p]
       /\ proposals'[p].state \in {"limited", "active", "rejected"}
       /\ proposals[p].state = "rejected" => proposals'[p].state = "rejected"
    ]_vars

=============================================================================
