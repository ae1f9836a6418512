--------------------------- MODULE PromotionProofs ---------------------------
(***************************************************************************)
(* Proofs about the promotion of rules and memories, for any number of     *)
(* proposals, memories, evaluations, datasets, approvals and principals.   *)
(***************************************************************************)
EXTENDS Promotion, FiniteSetTheorems, TLAPS

-----------------------------------------------------------------------------
(* The rows of the tables.                                                 *)

EvalRow ==
  [cand : Candidates, split : Splits, data : Datasets,
   evaluator : Principals, clean : BOOLEAN, phase : {"begun", "recorded"},
   after : SUBSET Subjects]

ProposalRow ==
  [state : ProposalState, maker : Principals,
   held_in : Evals \cup {None}, held_out : Evals \cup {None},
   sealed : Evals \cup {None}, approval : Approvals \cup {None}]

RequestRow == [eval : Evals, count : Nat]

LimitedRow ==
  [request : RequestRow, approval : Approvals, owner : Principals,
   before : SUBSET Evals, timely : BOOLEAN]

CustodyRow == [eval : Evals, custodian : Principals]

ActiveDigest == [limited : LimitedRow, sealed : Evals, custody : CustodyRow]

MemoryDigest ==
  [from : {"candidate", "limited"}, target : {"limited", "active"}]

ApprovalRow ==
  [subject : Subjects, target : {"limited", "active"},
   digest : RequestRow \cup MemoryDigest \cup ActiveDigest,
   requester : Principals, approver : Principals, dated : SUBSET Evals,
   seen : SUBSET Evals, delivered : BOOLEAN, live : BOOLEAN]

ActiveRow ==
  [record : [limited : LimitedRow, sealed : Evals, uses : Nat,
             maker : Principals, custodian : Principals,
             approval : Approvals, owner : Principals],
   before : SUBSET Evals, timely : BOOLEAN]

MemoryRow ==
  [status : {"candidate", "limited", "active"},
   heldout : Evals \cup {None}, expired : BOOLEAN]

CallRow == [waits : {TRUE}, lapsed : SUBSET Approvals]

PromotionType ==
  /\ source \in [run : {"open", "delivered", "improvement_pending"},
                 task : {"open", "delivered", "retired"},
                 deliveries : 0..MaxDelivered]
  /\ source.run = "improvement_pending" => source.deliveries < MaxDelivered
  /\ evals \in [Evals -> EvalRow \cup {NoEval}]
  /\ proposals \in [Proposals -> ProposalRow \cup {NoProposal}]
  /\ custody \in [Proposals -> CustodyRow \cup {NoCustody}]
  /\ approvals \in [Approvals -> ApprovalRow \cup {NoApproval}]
  /\ limited \in [Proposals -> LimitedRow \cup {NoRecord}]
  /\ active \in [Proposals -> ActiveRow \cup {NoRecord}]
  /\ memories \in [Memories -> MemoryRow \cup {NoMemory}]
  /\ promoted \in [Memories -> Seq(Evals)]
  /\ waiting \in [Memories -> CallRow \cup {NoCall}]
  /\ IsFiniteSet(Begun)

(* A row of the tables is never mistaken for no row. *)
LEMMA RowsAreRows ==
  /\ \A r \in EvalRow : r # NoEval
  /\ \A r \in ProposalRow : r # NoProposal
  /\ \A r \in CustodyRow : r # NoCustody
  /\ \A r \in ApprovalRow : r # NoApproval
  /\ \A r \in LimitedRow : r # NoRecord
  /\ \A r \in ActiveRow : r # NoRecord
  /\ \A r \in MemoryRow : r # NoMemory
<1>1. \A r \in EvalRow : r # NoEval
  BY DEF EvalRow, NoEval
<1>2. \A r \in ProposalRow : r # NoProposal
  BY DEF ProposalRow, NoProposal, ProposalState, None
<1>3. \A r \in CustodyRow : r # NoCustody
  BY PromotionAssumption DEF CustodyRow, NoCustody
<1>4. ASSUME NEW r \in ApprovalRow, r = NoApproval PROVE FALSE
  <2>1. "live" \in DOMAIN r
    BY DEF ApprovalRow
  <2>2. "live" \notin DOMAIN NoApproval
    BY DEF NoApproval
  <2> QED BY <1>4, <2>1, <2>2
<1>5. ASSUME NEW r \in LimitedRow, r = NoRecord PROVE FALSE
  <2>1. "owner" \in DOMAIN r
    BY DEF LimitedRow
  <2>2. "owner" \notin DOMAIN NoRecord
    BY DEF NoRecord
  <2> QED BY <1>5, <2>1, <2>2
<1>6. ASSUME NEW r \in ActiveRow, r = NoRecord PROVE FALSE
  <2>1. "record" \in DOMAIN r
    BY DEF ActiveRow
  <2>2. "record" \notin DOMAIN NoRecord
    BY DEF NoRecord
  <2> QED BY <1>6, <2>1, <2>2
<1>7. \A r \in MemoryRow : r # NoMemory
  BY DEF MemoryRow, NoMemory, None
<1> QED BY <1>1, <1>2, <1>3, <1>4, <1>5, <1>6, <1>7

LEMMA EvalFacts ==
  ASSUME PromotionType, NEW e \in Evals, evals[e] # NoEval
  PROVE  /\ evals[e] \in EvalRow
         /\ evals[e].cand \in Candidates /\ evals[e].split \in Splits
         /\ evals[e].data \in Datasets /\ evals[e].evaluator \in Principals
         /\ evals[e].clean \in BOOLEAN /\ evals[e].after \in SUBSET Subjects
         /\ evals[e].phase \in {"begun", "recorded"}
<1>1. evals[e] \in EvalRow
  BY DEF PromotionType
<1> QED BY <1>1 DEF EvalRow

LEMMA ProposalFacts ==
  ASSUME PromotionType, NEW p \in Proposals
  PROVE  /\ proposals[p] # NoProposal =>
              /\ proposals[p] \in ProposalRow
              /\ proposals[p].state \in ProposalState
              /\ proposals[p].maker \in Principals
              /\ proposals[p].held_in \in Evals \cup {None}
              /\ proposals[p].held_out \in Evals \cup {None}
              /\ proposals[p].sealed \in Evals \cup {None}
              /\ proposals[p].approval \in Approvals \cup {None}
         /\ proposals[p].state \in ProposalState => proposals[p] # NoProposal
<1>1. proposals[p] # NoProposal => proposals[p] \in ProposalRow
  BY DEF PromotionType
<1>2. NoProposal.state \notin ProposalState
  BY DEF NoProposal, ProposalState, None
<1> QED BY <1>1, <1>2 DEF ProposalRow

LEMMA ApprovalFacts ==
  ASSUME PromotionType, NEW a \in Approvals, approvals[a] # NoApproval
  PROVE  /\ approvals[a] \in ApprovalRow
         /\ approvals[a].digest \in RequestRow \cup MemoryDigest
                                      \cup ActiveDigest
         /\ approvals[a].requester \in Principals
         /\ approvals[a].approver \in Principals
         /\ approvals[a].dated \in SUBSET Evals
         /\ approvals[a].delivered \in BOOLEAN
<1>1. approvals[a] \in ApprovalRow
  BY DEF PromotionType
<1> QED BY <1>1 DEF ApprovalRow

-----------------------------------------------------------------------------
(* The inductive invariant.                                                *)

(***************************************************************************)
(* An evaluation that knows a rule as limited began after the promotion,   *)
(* hence is none of those recorded before it; a sealed dataset has been    *)
(* evaluated on once.                                                      *)
(***************************************************************************)
EvalsInv ==
  /\ \A e \in Begun : \A p \in evals[e].after \cap Proposals :
       limited[p] # NoRecord /\ e \notin limited[p].before
  /\ \A e, f \in Recorded :
       /\ evals[e].split = "sealed" /\ evals[f].split = "sealed"
       /\ evals[e].data = evals[f].data
       => e = f

(***************************************************************************)
(* Nobody approves their own request, and the digest of an active request  *)
(* is of a limited record and a custody row that stand.                    *)
(***************************************************************************)
ApprovalsInv ==
  \A a \in Approvals : approvals[a] # NoApproval =>
    /\ approvals[a].requester # approvals[a].approver
    /\ approvals[a].seen \subseteq approvals[a].dated
    /\ approvals[a].digest \in ActiveDigest =>
         /\ \E p \in Proposals : limited[p] # NoRecord
                                   /\ approvals[a].digest.limited = limited[p]
         /\ \E p \in Proposals : custody[p] # NoCustody
                                   /\ approvals[a].digest.custody = custody[p]

(* An attached evaluation is recorded, of the candidate and of the split   *)
(* of its column, and not the maker's.                                     *)
Attached(p, e, split) ==
  /\ e \in Recorded
  /\ evals[e].split = split
  /\ evals[e].cand = CandidateOf[p]
  /\ evals[e].evaluator # proposals[p].maker

Columns(p) ==
  /\ proposals[p].held_in # None => Attached(p, proposals[p].held_in, "held_in")
  /\ proposals[p].held_out # None =>
       Attached(p, proposals[p].held_out, "held_out")
  /\ proposals[p].sealed # None => Attached(p, proposals[p].sealed, "sealed")

(***************************************************************************)
(* The gates behind a state.  A proposal that was limited once never gets  *)
(* back to a state from which it could be limited again, because its       *)
(* held-in column is never cleared.                                        *)
(***************************************************************************)
Gates(p) ==
  LET row == proposals[p] IN
  /\ row.state \in {"heldout_pending", "owner_review", "limited", "active"} =>
       row.held_in # None /\ Clean(row.held_in)
  /\ row.state \in {"owner_review", "limited", "active"} =>
       /\ row.held_out # None /\ Clean(row.held_out)
       /\ evals[row.held_out].data # evals[row.held_in].data
  /\ row.state \in {"limited", "active"} =>
       /\ limited[p] # NoRecord
       /\ row.sealed # None /\ Clean(row.sealed) =>
            evals[row.sealed].data \notin
              {evals[row.held_in].data, evals[row.held_out].data}
  /\ limited[p] # NoRecord =>
       /\ row.held_in # None
       /\ row.state \in {"limited", "active", "rejected"}
  /\ row.sealed # None /\ Clean(row.sealed) =>
       limited[p] # NoRecord /\ p \in evals[row.sealed].after

ProposalInv(p) ==
  proposals[p] # NoProposal => Columns(p) /\ Gates(p)

(***************************************************************************)
(* The limited record still says what the tables say, but for the stamp of *)
(* its event: that the record of an active rule is timely was verified     *)
(* when the rule became active.                                            *)
(***************************************************************************)
LimitedInv(p) ==
  LET record == limited[p] IN
  record # NoRecord =>
    /\ proposals[p].state \in {"limited", "active", "rejected"}
    /\ record.before \subseteq Recorded
    /\ record.request.eval \in record.before
    /\ evals[record.request.eval].evaluator # proposals[p].maker
    /\ record.owner # proposals[p].maker
    /\ Authorizes(record.approval, p, "limited", record.request.eval,
                  record.request, TRUE)
    /\ record.owner = approvals[record.approval].approver
    /\ approvals[record.approval].delivered
    /\ proposals[p].state \in {"limited", "active"} =>
         /\ proposals[p].held_out \in record.before
         /\ record.request = LimitedRequest(p, record.before)
    /\ proposals[p].state = "limited" =>
         proposals[p].approval = record.approval

(* The active record still says what the tables say. *)
ActiveInv(p) ==
  LET r == active[p].record before == active[p].before IN
  /\ active[p] # NoRecord =>
       /\ limited[p] # NoRecord
       /\ r.sealed \in Recorded
       /\ Cardinality({r.maker, evals[r.sealed].evaluator, r.custodian,
                       r.owner}) = 4
  /\ proposals[p].state = "active" =>
       /\ active[p] # NoRecord
       /\ limited[p].timely
       /\ before \subseteq Recorded
       /\ proposals[p].sealed # None /\ Clean(proposals[p].sealed)
       /\ proposals[p].sealed \in before
       /\ proposals[p].sealed \notin limited[p].before
       /\ CustodyVerifies(p)
       /\ Authorizes(r.approval, p, "active", proposals[p].sealed,
                     ActiveRequest(p), TRUE)
       /\ FourDistinct(p, r.approval)
       /\ r = ActiveRecord(p, r.approval, before)
       /\ proposals[p].approval = r.approval

(* The evaluations a memory was promoted on, in order. *)
MemoryInv(m) ==
  LET row == memories[m] evs == promoted[m] IN
  /\ row = NoMemory => evs = <<>>
  /\ row # NoMemory =>
       \/ row.status = "candidate" /\ evs = <<>>
       \/ /\ row.status = "limited" /\ Len(evs) = 1
          /\ evs[1] = row.heldout /\ Clean(evs[1])
       \/ /\ row.status = "active" /\ Len(evs) = 2
          /\ Clean(evs[1]) /\ Clean(evs[2])
          /\ evals[evs[1]].data # evals[evs[2]].data
          /\ m \in evals[evs[2]].after

Inv ==
  /\ PromotionType
  /\ EvalsInv
  /\ ApprovalsInv
  /\ \A p \in Proposals : ProposalInv(p) /\ LimitedInv(p) /\ ActiveInv(p)
  /\ \A m \in Memories : MemoryInv(m)

-----------------------------------------------------------------------------
(* Rows are never rewritten: what a step may do to evaluations and         *)
(* approvals.                                                              *)

EvalsKeep ==
  \A e \in Begun :
    /\ e \in Begun'
    /\ e \in Recorded => e \in Recorded'
    /\ evals'[e].cand = evals[e].cand /\ evals'[e].split = evals[e].split
    /\ evals'[e].data = evals[e].data
    /\ evals'[e].evaluator = evals[e].evaluator
    /\ evals'[e].clean = evals[e].clean /\ evals'[e].after = evals[e].after

ApprovalsKeep ==
  \A a \in Approvals : approvals[a] # NoApproval =>
    /\ approvals'[a] # NoApproval
    /\ approvals'[a].subject = approvals[a].subject
    /\ approvals'[a].target = approvals[a].target
    /\ approvals'[a].digest = approvals[a].digest
    /\ approvals'[a].requester = approvals[a].requester
    /\ approvals'[a].approver = approvals[a].approver
    /\ approvals'[a].dated = approvals[a].dated
    /\ approvals'[a].seen = approvals[a].seen
    /\ approvals'[a].delivered = approvals[a].delivered

ApprovalsStay ==
  /\ ApprovalsKeep
  /\ \A a \in Approvals :
       approvals'[a] # NoApproval => approvals[a] # NoApproval

LEMMA EvalsSame ==
  ASSUME UNCHANGED evals
  PROVE  EvalsKeep /\ Begun' = Begun /\ Recorded' = Recorded
BY DEF EvalsKeep, Begun, Recorded

LEMMA ApprovalsSame ==
  ASSUME UNCHANGED approvals
  PROVE  ApprovalsKeep /\ ApprovalsStay
BY DEF ApprovalsKeep, ApprovalsStay

(* An approval that lapses, or does not, keeps everything else. *)
LEMMA LiveApproval ==
  ASSUME Inv, NEW a \in Approvals, NEW live \in BOOLEAN,
         approvals[a] # NoApproval,
         approvals' = [approvals EXCEPT ![a].live = live]
  PROVE  /\ approvals' \in [Approvals -> ApprovalRow \cup {NoApproval}]
         /\ ApprovalsKeep /\ ApprovalsStay
<1> DEFINE b == approvals[a]
           row == [b EXCEPT !.live = live]
<1>1. approvals' = [approvals EXCEPT ![a] = row]
  OBVIOUS
<1>2. b \in ApprovalRow
  BY ApprovalFacts DEF Inv
<1>3. /\ row \in ApprovalRow /\ row.subject = b.subject
      /\ row.target = b.target /\ row.digest = b.digest
      /\ row.requester = b.requester /\ row.approver = b.approver
      /\ row.dated = b.dated /\ row.seen = b.seen
      /\ row.delivered = b.delivered
  <2> HIDE DEF b
  <2> QED BY <1>2 DEF ApprovalRow
<1> HIDE DEF row
<1>4. /\ approvals'[a] = row
      /\ \A c \in Approvals \ {a} : approvals'[c] = approvals[c]
      /\ approvals' \in [Approvals -> ApprovalRow \cup {NoApproval}]
  BY <1>1, <1>3 DEF Inv, PromotionType
<1>5. row # NoApproval
  BY <1>3, RowsAreRows
<1> QED BY <1>3, <1>4, <1>5 DEF ApprovalsKeep, ApprovalsStay

LEMMA RecordedFacts ==
  ASSUME EvalsKeep
  PROVE  /\ Recorded \subseteq Begun /\ Begun \subseteq Evals
         /\ Recorded \subseteq Recorded'
         /\ \A e \in Recorded : Clean(e)' <=> Clean(e)
BY DEF EvalsKeep, Recorded, Begun, Clean

(* A use count as of earlier evaluations is what it was. *)
LEMMA UseCountKeeps ==
  ASSUME EvalsKeep, NEW split, NEW d, NEW B, B \subseteq Recorded
  PROVE  Cardinality({e \in B : evals'[e].split = split /\ evals'[e].data = d})
           = UseCount(split, d, B)
<1>1. \A e \in B : /\ evals'[e].split = evals[e].split
                   /\ evals'[e].data = evals[e].data
  BY RecordedFacts DEF EvalsKeep
<1>2. {e \in B : evals'[e].split = split /\ evals'[e].data = d}
        = {e \in B : evals[e].split = split /\ evals[e].data = d}
  BY <1>1
<1> QED BY <1>2 DEF UseCount

LEMMA UseCountType ==
  ASSUME PromotionType, NEW split, NEW d, NEW B, B \subseteq Begun
  PROVE  UseCount(split, d, B) \in Nat
<1>1. IsFiniteSet({e \in B : evals[e].split = split /\ evals[e].data = d})
  BY FS_Subset DEF PromotionType
<1> QED BY <1>1, FS_CardinalityType DEF UseCount

(* An approval that authorised a promotion still does. *)
LEMMA AuthorizesKeeps ==
  ASSUME ApprovalsKeep, NEW a \in Approvals, NEW p \in Proposals, NEW target,
         NEW gate, NEW digest, Authorizes(a, p, target, gate, digest, TRUE),
         proposals'[p].maker = proposals[p].maker
  PROVE  /\ approvals'[a] # NoApproval
         /\ approvals'[a].subject = p /\ approvals'[a].target = target
         /\ approvals'[a].digest = digest
         /\ approvals'[a].requester = proposals'[p].maker
         /\ gate \in approvals'[a].dated /\ gate \in approvals'[a].seen
         /\ approvals'[a].approver = approvals[a].approver
         /\ approvals'[a].delivered = approvals[a].delivered
BY DEF ApprovalsKeep, Authorizes

LEMMA LimitedFacts ==
  ASSUME PromotionType, NEW p \in Proposals, limited[p] # NoRecord
  PROVE  /\ limited[p] \in LimitedRow /\ limited[p].approval \in Approvals
         /\ limited[p].request.eval \in Evals
         /\ limited[p].before \subseteq Evals
<1>1. limited[p] \in LimitedRow
  BY DEF PromotionType
<1> QED BY <1>1 DEF LimitedRow, RequestRow

LEMMA ActiveFacts ==
  ASSUME PromotionType, NEW p \in Proposals, active[p] # NoRecord
  PROVE  /\ active[p] \in ActiveRow
         /\ active[p].record.approval \in Approvals
         /\ active[p].record.sealed \in Evals
         /\ active[p].before \subseteq Evals
<1>1. active[p] \in ActiveRow
  BY DEF PromotionType
<1> QED BY <1>1 DEF ActiveRow

(* The gates of a proposal that no step has touched. *)
LEMMA ProposalStands ==
  ASSUME Inv, EvalsKeep, NEW p \in Proposals,
         proposals'[p] = proposals[p], limited'[p] = limited[p]
  PROVE  ProposalInv(p)'
<1> SUFFICES ASSUME proposals[p] # NoProposal
             PROVE  Columns(p)' /\ Gates(p)'
  BY DEF ProposalInv
<1> DEFINE row == proposals[p]
<1>1. Columns(p) /\ Gates(p)
  BY DEF Inv, ProposalInv
<1>2. \A e, split : Attached(p, e, split) => Attached(p, e, split)'
  BY RecordedFacts DEF Attached, EvalsKeep
<1>3. Columns(p)'
  BY <1>1, <1>2 DEF Columns
<1>4. \A e \in {row.held_in, row.held_out, row.sealed} : e # None =>
        /\ e \in Recorded /\ (Clean(e)' <=> Clean(e))
        /\ evals'[e].data = evals[e].data /\ evals'[e].after = evals[e].after
  <2>1. \A e \in {row.held_in, row.held_out, row.sealed} :
          e # None => e \in Recorded
    BY <1>1 DEF Columns, Attached
  <2> QED BY <2>1, RecordedFacts DEF EvalsKeep
<1>5. Gates(p)'
  BY <1>1, <1>4 DEF Gates
<1> QED BY <1>3, <1>5

LEMMA LimitedStands ==
  ASSUME Inv, EvalsKeep, ApprovalsKeep, NEW p \in Proposals,
         proposals'[p] = proposals[p], limited'[p] = limited[p]
  PROVE  LimitedInv(p)'
<1> DEFINE record == limited[p]
           a == record.approval
           e == record.request.eval
<1> SUFFICES ASSUME record # NoRecord
             PROVE  LimitedInv(p)'
  BY DEF LimitedInv
<1>1. /\ proposals[p].state \in {"limited", "active", "rejected"}
      /\ record.before \subseteq Recorded /\ e \in record.before
      /\ evals[e].evaluator # proposals[p].maker
      /\ record.owner # proposals[p].maker
      /\ Authorizes(a, p, "limited", e, record.request, TRUE)
      /\ record.owner = approvals[a].approver /\ approvals[a].delivered
      /\ proposals[p].state \in {"limited", "active"} =>
           /\ proposals[p].held_out \in record.before
           /\ record.request = LimitedRequest(p, record.before)
      /\ proposals[p].state = "limited" => proposals[p].approval = a
  BY DEF Inv, LimitedInv
<1>2. a \in Approvals
  BY LimitedFacts DEF Inv
<1>3. /\ record.before \subseteq Recorded'
      /\ evals'[e].evaluator = evals[e].evaluator
  BY <1>1, RecordedFacts DEF EvalsKeep
<1>4. /\ Authorizes(a, p, "limited", e, record.request, TRUE)'
      /\ approvals'[a].approver = approvals[a].approver
      /\ approvals'[a].delivered = approvals[a].delivered
  <2>1. /\ approvals'[a] # NoApproval
        /\ approvals'[a].subject = p /\ approvals'[a].target = "limited"
        /\ approvals'[a].digest = record.request
        /\ approvals'[a].requester = proposals'[p].maker
        /\ e \in approvals'[a].dated /\ e \in approvals'[a].seen
        /\ approvals'[a].approver = approvals[a].approver
        /\ approvals'[a].delivered = approvals[a].delivered
    BY <1>1, <1>2, AuthorizesKeeps
  <2> QED BY <2>1 DEF Authorizes
<1>5. ASSUME proposals[p].state \in {"limited", "active"}
      PROVE  LimitedRequest(p, record.before)'
               = LimitedRequest(p, record.before)
  <2> DEFINE h == proposals[p].held_out
             d == evals[h].data
  <2>1. evals'[h].data = d
    BY <1>1, <1>5, RecordedFacts DEF EvalsKeep
  <2>2. Cardinality({f \in record.before : evals'[f].split = "held_out"
                                             /\ evals'[f].data = d})
          = UseCount("held_out", d, record.before)
    BY <1>1, UseCountKeeps
  <2> QED BY <2>1, <2>2 DEF LimitedRequest, Request, UseCount
<1> QED BY <1>1, <1>3, <1>4, <1>5 DEF LimitedInv

(* What an active record says of evaluations that are there to stay. *)
LEMMA ActiveRecordStands ==
  ASSUME Inv, EvalsKeep, NEW p \in Proposals, active'[p] = active[p],
         limited[p] # NoRecord => limited'[p] # NoRecord,
         active[p] # NoRecord
  PROVE  /\ limited'[p] # NoRecord
         /\ active'[p].record.sealed \in Recorded'
         /\ Cardinality({active'[p].record.maker,
                         evals'[active'[p].record.sealed].evaluator,
                         active'[p].record.custodian,
                         active'[p].record.owner}) = 4
<1> DEFINE r == active[p].record
<1>1. /\ limited[p] # NoRecord /\ r.sealed \in Recorded
      /\ Cardinality({r.maker, evals[r.sealed].evaluator, r.custodian,
                      r.owner}) = 4
  BY DEF Inv, ActiveInv
<1>2. /\ r.sealed \in Recorded'
      /\ evals'[r.sealed].evaluator = evals[r.sealed].evaluator
  BY <1>1, RecordedFacts DEF EvalsKeep
<1> QED BY <1>1, <1>2

LEMMA ActiveStands ==
  ASSUME Inv, EvalsKeep, ApprovalsKeep, NEW p \in Proposals,
         proposals'[p] = proposals[p], limited'[p] = limited[p],
         active'[p] = active[p],
         custody'[p] = custody[p] \/ proposals[p].state # "active"
  PROVE  ActiveInv(p)'
<1> DEFINE r == active[p].record
           before == active[p].before
           sealed == proposals[p].sealed
           a == active[p].record.approval
<1>1. ASSUME active[p] # NoRecord
      PROVE  /\ limited'[p] # NoRecord
             /\ active'[p].record.sealed \in Recorded'
             /\ Cardinality({active'[p].record.maker,
                             evals'[active'[p].record.sealed].evaluator,
                             active'[p].record.custodian,
                             active'[p].record.owner}) = 4
  BY <1>1, ActiveRecordStands
<1>2. CASE proposals[p].state # "active"
  BY <1>1, <1>2 DEF ActiveInv
<1>3. CASE proposals[p].state = "active"
  <2>1. /\ active[p] # NoRecord /\ before \subseteq Recorded
        /\ sealed # None /\ Clean(sealed) /\ sealed \in before
        /\ sealed \notin limited[p].before
        /\ CustodyVerifies(p)
        /\ limited[p].timely
        /\ Authorizes(a, p, "active", sealed, ActiveRequest(p), TRUE)
        /\ FourDistinct(p, a)
        /\ r = ActiveRecord(p, a, before)
        /\ proposals[p].approval = a
    BY <1>3 DEF Inv, ActiveInv
  <2>2. /\ custody'[p] = custody[p] /\ a \in Approvals
    BY <1>3, <2>1, ActiveFacts DEF Inv
  <2>3. /\ before \subseteq Recorded' /\ Clean(sealed)'
        /\ evals'[sealed].evaluator = evals[sealed].evaluator
        /\ evals'[sealed].data = evals[sealed].data
    BY <2>1, RecordedFacts DEF EvalsKeep
  <2>4. CustodyVerifies(p)' /\ ActiveRequest(p)' = ActiveRequest(p)
    BY <2>1, <2>2 DEF CustodyVerifies, ActiveRequest
  <2>5. /\ approvals'[a] # NoApproval
        /\ approvals'[a].subject = p /\ approvals'[a].target = "active"
        /\ approvals'[a].digest = ActiveRequest(p)
        /\ approvals'[a].requester = proposals'[p].maker
        /\ sealed \in approvals'[a].dated /\ sealed \in approvals'[a].seen
        /\ approvals'[a].approver = approvals[a].approver
    <3>1. Authorizes(a, p, "active", sealed, ActiveRequest(p), TRUE)
      BY <2>1
    <3>2. /\ approvals[a] # NoApproval
          /\ approvals[a].subject = p /\ approvals[a].target = "active"
          /\ approvals[a].digest = ActiveRequest(p)
          /\ approvals[a].requester = proposals[p].maker
          /\ sealed \in approvals[a].dated /\ sealed \in approvals[a].seen
      BY <3>1 DEF Authorizes
    <3> HIDE DEF a, sealed
    <3> QED BY <2>2, <3>2 DEF ApprovalsKeep
  <2>6. Authorizes(a, p, "active", sealed, ActiveRequest(p), TRUE)'
    BY <2>4, <2>5 DEF Authorizes
  <2>7. FourDistinct(p, a)'
    BY <2>1, <2>2, <2>3, <2>5 DEF FourDistinct
  <2>8. Cardinality({e \in before : evals'[e].split = "sealed"
                                      /\ evals'[e].data = evals[sealed].data})
          = UseCount("sealed", evals[sealed].data, before)
    BY <2>1, UseCountKeeps
  <2>9. ActiveRecord(p, a, before)' = ActiveRecord(p, a, before)
    BY <2>2, <2>3, <2>5, <2>8 DEF ActiveRecord, UseCount
  <2> QED BY <1>1, <2>1, <2>3, <2>4, <2>6, <2>7, <2>9 DEF ActiveInv
<1> QED BY <1>2, <1>3

LEMMA MemoryStands ==
  ASSUME Inv, EvalsKeep, NEW m \in Memories, promoted'[m] = promoted[m],
         \/ memories'[m] = memories[m]
         \/ /\ memories[m] # NoMemory /\ memories'[m] # NoMemory
            /\ memories'[m].status = memories[m].status
            /\ memories'[m].heldout = memories[m].heldout
  PROVE  MemoryInv(m)'
<1> DEFINE evs == promoted[m]
<1>1. MemoryInv(m)
  BY DEF Inv
<1>2. \A e : Clean(e) => /\ Clean(e)' /\ evals'[e].data = evals[e].data
                         /\ evals'[e].after = evals[e].after
  BY RecordedFacts DEF Clean, EvalsKeep
<1> QED BY <1>1, <1>2 DEF MemoryInv

(* Nothing but the evaluations has changed, and none of them is new. *)
LEMMA EvalsInvStands ==
  ASSUME Inv, UNCHANGED evals,
         \A p \in Proposals : limited'[p] = limited[p]
  PROVE  EvalsInv'
BY EvalsSame DEF Inv, EvalsInv

LEMMA ApprovalsInvStays ==
  ASSUME Inv, ApprovalsStay,
         \A p \in Proposals :
           /\ limited[p] # NoRecord => limited'[p] = limited[p]
           /\ custody[p] # NoCustody => custody'[p] = custody[p]
  PROVE  ApprovalsInv'
<1> SUFFICES ASSUME NEW a \in Approvals, approvals'[a] # NoApproval,
                    NEW d, d = approvals'[a].digest
             PROVE  /\ approvals'[a].requester # approvals'[a].approver
                    /\ approvals'[a].seen \subseteq approvals'[a].dated
                    /\ d \in ActiveDigest =>
                         /\ \E p \in Proposals : limited'[p] # NoRecord
                                                   /\ d.limited = limited'[p]
                         /\ \E p \in Proposals : custody'[p] # NoCustody
                                                   /\ d.custody = custody'[p]
  BY DEF ApprovalsInv
<1>1. /\ approvals[a] # NoApproval /\ d = approvals[a].digest
      /\ approvals'[a].requester = approvals[a].requester
      /\ approvals'[a].approver = approvals[a].approver
      /\ approvals'[a].seen = approvals[a].seen
      /\ approvals'[a].dated = approvals[a].dated
  BY DEF ApprovalsStay, ApprovalsKeep
<1> QED BY <1>1 DEF Inv, ApprovalsInv

LEMMA ApprovalsInvStands ==
  ASSUME Inv, UNCHANGED approvals,
         \A p \in Proposals :
           /\ limited[p] # NoRecord => limited'[p] = limited[p]
           /\ custody[p] # NoCustody => custody'[p] = custody[p]
  PROVE  ApprovalsInv'
BY ApprovalsSame, ApprovalsInvStays

(* A step that leaves proposals and their records alone. *)
LEMMA TablesStand ==
  ASSUME Inv, EvalsKeep, ApprovalsKeep,
         UNCHANGED <<proposals, custody, limited, active>>
  PROVE  \A p \in Proposals : ProposalInv(p)' /\ LimitedInv(p)' /\ ActiveInv(p)'
BY ProposalStands, LimitedStands, ActiveStands

LEMMA MemoriesStand ==
  ASSUME Inv, EvalsKeep, UNCHANGED <<memories, promoted>>
  PROVE  \A m \in Memories : MemoryInv(m)'
BY MemoryStands

-----------------------------------------------------------------------------
(* The source run, evaluations and memories.                               *)

LEMMA SourceKeeps ==
  ASSUME Inv, SourceStep \/ UNCHANGED vars
  PROVE  Inv'
<1>1. /\ UNCHANGED evals /\ UNCHANGED approvals
      /\ UNCHANGED <<proposals, custody, limited, active>>
      /\ UNCHANGED <<memories, promoted, waiting>>
  BY DEF SourceStep, vars
<1>2. PromotionType'
  <2> DEFINE r == source
  <2>1. /\ r \in [run : {"open", "delivered", "improvement_pending"},
                  task : {"open", "delivered", "retired"},
                  deliveries : 0..MaxDelivered]
        /\ r.run = "improvement_pending" => r.deliveries < MaxDelivered
    BY DEF Inv, PromotionType
  <2>2. 1 \in 0..MaxDelivered /\ MaxDelivered \in Nat
    BY PromotionAssumption
  <2>3. \/ source' = [run |-> "delivered", task |-> "delivered",
                      deliveries |-> 1]
        \/ /\ r.deliveries < MaxDelivered
           /\ source' = [r EXCEPT !.run = "improvement_pending"]
        \/ /\ r.run = "improvement_pending"
           /\ source' = [[r EXCEPT !.run = "delivered"]
                           EXCEPT !.deliveries = r.deliveries + 1]
        \/ source' = [r EXCEPT !.task = "retired"]
        \/ source' = r
    <3>1. \A d : [source EXCEPT !.run = "delivered", !.deliveries = d]
                   = [[source EXCEPT !.run = "delivered"]
                           EXCEPT !.deliveries = d]
      BY <2>1
    <3> QED BY <2>1 DEF SourceStep, Deliver, RequestImprovement,
                        ConfirmImprovement, RetireTask, vars
  <2> HIDE DEF r
  <2> DEFINE Source ==
               [run : {"open", "delivered", "improvement_pending"},
                task : {"open", "delivered", "retired"},
                deliveries : 0..MaxDelivered]
  <2>4. /\ source' \in Source
        /\ source'.run = "improvement_pending" =>
             source'.deliveries < MaxDelivered
    <3>1. CASE source' = [run |-> "delivered", task |-> "delivered",
                          deliveries |-> 1]
      BY <2>2, <3>1
    <3>2. CASE /\ r.deliveries < MaxDelivered
               /\ source' = [r EXCEPT !.run = "improvement_pending"]
      <4>1. /\ source' \in Source /\ source'.deliveries = r.deliveries
        BY <2>1, <3>2
      <4> QED BY <3>2, <4>1
    <3>3. CASE /\ r.run = "improvement_pending"
               /\ source' = [[r EXCEPT !.run = "delivered"]
                               EXCEPT !.deliveries = r.deliveries + 1]
      <4> DEFINE r1 == [r EXCEPT !.run = "delivered"]
                 d == r.deliveries + 1
      <4>1. r1 \in Source /\ r1.run = "delivered"
        BY <2>1
      <4>2. r.deliveries \in 0..MaxDelivered /\ r.deliveries < MaxDelivered
        BY <2>1, <3>3
      <4>3. d \in 0..MaxDelivered
        BY <2>2, <4>2
      <4>4. source' = [r1 EXCEPT !.deliveries = d]
        BY <3>3
      <4> HIDE DEF r1, d
      <4>5. source' \in Source /\ source'.run = "delivered"
        BY <4>1, <4>3, <4>4
      <4> QED BY <4>5
    <3>4. CASE source' = [r EXCEPT !.task = "retired"]
      <4>1. /\ source' \in Source /\ source'.run = r.run
            /\ source'.deliveries = r.deliveries
        BY <2>1, <3>4
      <4> QED BY <2>1, <4>1
    <3>5. CASE source' = r
      BY <2>1, <3>5
    <3> QED BY <2>3, <3>1, <3>2, <3>3, <3>4, <3>5
  <2> QED BY <1>1, <2>4, EvalsSame DEF Inv, PromotionType
<1>3. EvalsInv' /\ ApprovalsInv'
  BY <1>1, EvalsInvStands, ApprovalsInvStands
<1>4. EvalsKeep /\ ApprovalsKeep
  BY <1>1, EvalsSame, ApprovalsSame
<1> QED BY <1>1, <1>2, <1>3, <1>4, TablesStand, MemoriesStand DEF Inv

LEMMA BeginEvalKeeps ==
  ASSUME Inv, NEW e \in Evals, NEW input \in EvalInputs, BeginEval(e, input)
  PROVE  Inv'
<1> DEFINE row == [cand |-> input.cand, split |-> input.split,
                   data |-> input.data, evaluator |-> input.evaluator,
                   clean |-> input.clean, phase |-> "begun",
                   after |-> LimitedNow]
<1>1. /\ evals[e] = NoEval /\ evals' = [evals EXCEPT ![e] = row]
      /\ UNCHANGED source /\ UNCHANGED approvals
      /\ UNCHANGED <<proposals, custody, limited, active>>
      /\ UNCHANGED <<memories, promoted, waiting>>
  BY DEF BeginEval
<1>2. /\ row \in EvalRow /\ row.after = LimitedNow /\ row.phase = "begun"
  <2>1. input \in EvalResult
    BY PromotionAssumption
  <2>2. LimitedNow \in SUBSET Subjects
    BY DEF LimitedNow, Subjects
  <2> QED BY <2>1, <2>2 DEF EvalResult, EvalRow
<1> HIDE DEF row
<1>3. /\ evals'[e] = row
      /\ \A f \in Evals \ {e} : evals'[f] = evals[f]
      /\ evals' \in [Evals -> EvalRow \cup {NoEval}]
  BY <1>1, <1>2 DEF Inv, PromotionType
<1>4. Begun' = Begun \cup {e} /\ e \notin Begun /\ Recorded' = Recorded
  BY <1>1, <1>2, <1>3, RowsAreRows DEF Begun, Recorded
<1>5. EvalsKeep /\ ApprovalsKeep
  BY <1>1, <1>3, <1>4, ApprovalsSame DEF EvalsKeep, Begun
<1>6. PromotionType'
  <2>1. IsFiniteSet(Begun')
    BY <1>4, FS_AddElement DEF Inv, PromotionType
  <2> QED BY <1>1, <1>3, <2>1 DEF Inv, PromotionType
<1>7. EvalsInv'
  <2>1. ASSUME NEW f \in Begun', NEW p \in evals'[f].after \cap Proposals
        PROVE  limited[p] # NoRecord /\ f \notin limited[p].before
    <3>1. CASE f = e
      <4>1. p \in LimitedNow /\ p \in Proposals /\ p \notin Memories
        BY <3>1, <1>2, <1>3, PromotionAssumption
      <4>2. limited[p] # NoRecord
        BY <4>1 DEF LimitedNow
      <4>3. limited[p].before \subseteq Recorded
        BY <4>1, <4>2 DEF Inv, LimitedInv
      <4> QED BY <3>1, <4>2, <4>3, <1>4 DEF Recorded
    <3>2. CASE f # e
      BY <3>2, <1>3, <1>4 DEF Inv, EvalsInv, Begun
    <3> QED BY <3>1, <3>2
  <2>2. \A f \in Recorded : evals'[f] = evals[f]
    BY <1>3, <1>4 DEF Recorded, Begun
  <2> QED BY <1>1, <1>4, <2>1, <2>2 DEF Inv, EvalsInv
<1>8. ApprovalsInv'
  BY <1>1, ApprovalsInvStands
<1> QED BY <1>1, <1>5, <1>6, <1>7, <1>8, TablesStand, MemoriesStand DEF Inv

(* A sealed dataset is burned by the first evaluation recorded on it. *)
LEMMA RecordEvalKeeps ==
  ASSUME Inv, NEW e \in Evals, RecordEval(e)
  PROVE  Inv'
<1> DEFINE b == evals[e]
           row == [b EXCEPT !.phase = "recorded"]
<1>1. /\ b # NoEval /\ b.phase = "begun" /\ Unburned(e)
      /\ evals' = [evals EXCEPT ![e] = row]
      /\ UNCHANGED source /\ UNCHANGED approvals
      /\ UNCHANGED <<proposals, custody, limited, active>>
      /\ UNCHANGED <<memories, promoted, waiting>>
  BY DEF RecordEval
<1>2. b \in EvalRow
  BY <1>1 DEF Inv, PromotionType
<1>3. /\ row \in EvalRow /\ row.cand = b.cand /\ row.split = b.split
      /\ row.data = b.data /\ row.evaluator = b.evaluator
      /\ row.clean = b.clean /\ row.after = b.after
      /\ row.phase = "recorded"
  <2> HIDE DEF b
  <2> QED BY <1>2 DEF EvalRow
<1> HIDE DEF row
<1>4. /\ evals'[e] = row
      /\ \A f \in Evals \ {e} : evals'[f] = evals[f]
      /\ evals' \in [Evals -> EvalRow \cup {NoEval}]
  BY <1>1, <1>3 DEF Inv, PromotionType
<1>5. Begun' = Begun /\ e \in Begun /\ Recorded' = Recorded \cup {e}
  BY <1>1, <1>3, <1>4, RowsAreRows DEF Begun, Recorded
<1>6. EvalsKeep /\ ApprovalsKeep
  BY <1>1, <1>3, <1>4, <1>5, ApprovalsSame DEF EvalsKeep, Begun
<1>7. PromotionType'
  BY <1>1, <1>4, <1>5 DEF Inv, PromotionType
<1>8. EvalsInv'
  <2>1. \A f \in Begun : evals'[f].after = evals[f].after
    BY <1>6 DEF EvalsKeep
  <2>2. \A f \in Begun : /\ evals'[f].split = evals[f].split
                         /\ evals'[f].data = evals[f].data
    BY <1>6 DEF EvalsKeep
  <2>3. b.split = "sealed" => \A f \in Recorded :
          ~ (evals[f].split = "sealed" /\ evals[f].data = b.data)
    BY <1>1 DEF Unburned
  <2>4. Recorded \subseteq Begun
    BY DEF Recorded
  <2> QED BY <1>1, <1>5, <2>1, <2>2, <2>3, <2>4 DEF Inv, EvalsInv
<1>9. ApprovalsInv'
  BY <1>1, ApprovalsInvStands
<1> QED BY <1>1, <1>6, <1>7, <1>8, <1>9, TablesStand, MemoriesStand DEF Inv

LEMMA NewMemoryKeeps ==
  ASSUME Inv, NEW m \in Memories, CreateCandidate(m) \/ ExpireMemory(m)
  PROVE  Inv'
<1> DEFINE b == memories[m]
           new == [status |-> "candidate", heldout |-> None, expired |-> FALSE]
           old == [b EXCEPT !.expired = TRUE]
<1>1. /\ UNCHANGED source /\ UNCHANGED evals /\ UNCHANGED approvals
      /\ UNCHANGED <<proposals, custody, limited, active>>
      /\ UNCHANGED promoted /\ UNCHANGED waiting
      /\ \/ b = NoMemory /\ memories' = [memories EXCEPT ![m] = new]
         \/ b # NoMemory /\ memories' = [memories EXCEPT ![m] = old]
  BY DEF CreateCandidate, ExpireMemory
<1>2. EvalsKeep /\ ApprovalsKeep
  BY <1>1, EvalsSame, ApprovalsSame
<1>3. new \in MemoryRow /\ new.status = "candidate"
  BY DEF MemoryRow
<1>4. b # NoMemory =>
        /\ old \in MemoryRow /\ old.status = b.status
        /\ old.heldout = b.heldout
  <2>1. b # NoMemory => b \in MemoryRow
    BY DEF Inv, PromotionType
  <2> HIDE DEF b
  <2> QED BY <2>1 DEF MemoryRow
<1> HIDE DEF new, old
<1>5. PromotionType'
  <2>1. memories' \in [Memories -> MemoryRow \cup {NoMemory}]
    BY <1>1, <1>3, <1>4 DEF Inv, PromotionType
  <2> QED BY <1>1, <2>1, EvalsSame DEF Inv, PromotionType
<1>6. \A n \in Memories : MemoryInv(n)'
  <2>1. \A n \in Memories \ {m} : memories'[n] = memories[n]
    BY <1>1 DEF Inv, PromotionType
  <2>2. \A n \in Memories \ {m} : MemoryInv(n)'
    BY <1>1, <1>2, <2>1, MemoryStands
  <2>3. MemoryInv(m)'
    <3>1. CASE b = NoMemory
      <4>1. memories'[m] = new /\ promoted'[m] = <<>>
        BY <1>1, <3>1 DEF Inv, PromotionType, MemoryInv
      <4> QED BY <4>1, <1>3, RowsAreRows DEF MemoryInv
    <3>2. CASE b # NoMemory
      <4>1. memories'[m] = old
        BY <1>1, <3>2 DEF Inv, PromotionType
      <4> QED BY <1>1, <1>2, <1>4, <3>2, <4>1, RowsAreRows, MemoryStands
    <3> QED BY <3>1, <3>2
  <2> QED BY <2>2, <2>3
<1>7. EvalsInv' /\ ApprovalsInv'
  BY <1>1, EvalsInvStands, ApprovalsInvStands
<1> QED BY <1>1, <1>2, <1>5, <1>6, <1>7, TablesStand DEF Inv

(* A call that waits for its transaction has changed no table. *)
LEMMA WaitingKeeps ==
  ASSUME Inv, NEW m \in Memories, BeginPromotion(m) \/ RefusePromotion(m)
  PROVE  Inv'
<1> DEFINE lapsed == {a \in Approvals :
                        approvals[a] # NoApproval /\ ~ approvals[a].live}
           call == [waits |-> TRUE, lapsed |-> lapsed]
<1>1. /\ UNCHANGED source /\ UNCHANGED evals /\ UNCHANGED approvals
      /\ UNCHANGED <<proposals, custody, limited, active>>
      /\ UNCHANGED <<memories, promoted>>
      /\ \/ waiting' = [waiting EXCEPT ![m] = call]
         \/ waiting' = [waiting EXCEPT ![m] = NoCall]
  BY DEF BeginPromotion, RefusePromotion
<1>2. call \in CallRow
  <2>1. lapsed \in SUBSET Approvals
    OBVIOUS
  <2> HIDE DEF lapsed
  <2> QED BY <2>1 DEF CallRow
<1> HIDE DEF call
<1>3. waiting' \in [Memories -> CallRow \cup {NoCall}]
  BY <1>1, <1>2 DEF Inv, PromotionType
<1>4. PromotionType'
  BY <1>1, <1>3, EvalsSame DEF Inv, PromotionType
<1>5. EvalsInv' /\ ApprovalsInv'
  BY <1>1, EvalsInvStands, ApprovalsInvStands
<1>6. EvalsKeep /\ ApprovalsKeep
  BY <1>1, EvalsSame, ApprovalsSame
<1> QED BY <1>1, <1>4, <1>5, <1>6, TablesStand, MemoriesStand DEF Inv

(* The step to active asks for another evaluation, on other data. *)
LEMMA PromoteMemoryKeeps ==
  ASSUME Inv, NEW m \in Memories, NEW a \in Approvals, NEW e \in Evals,
         PromoteMemory(m, a, e)
  PROVE  Inv'
<1> DEFINE b == memories[m]
           to == MEMORY_TRANSITIONS[b.status]
           r1 == [b EXCEPT !.status = to]
           row == [r1 EXCEPT !.heldout = e]
           evs == promoted[m]
<1>1. /\ b # NoMemory /\ b.status \in {"candidate", "limited"}
      /\ Clean(e) /\ FreshEval(m, e)
      /\ promoted' = [promoted EXCEPT ![m] = Append(evs, e)]
      /\ waiting' = [waiting EXCEPT ![m] = NoCall]
      /\ UNCHANGED source /\ UNCHANGED evals /\ UNCHANGED approvals
      /\ UNCHANGED <<proposals, custody, limited, active>>
  BY DEF PromoteMemory, MEMORY_TRANSITIONS
<1>2. memories' = [memories EXCEPT ![m] = row]
  BY DEF PromoteMemory, Inv, PromotionType
<1>3. /\ b.status = "candidate" => to = "limited"
      /\ b.status = "limited" => to = "active"
  BY DEF MEMORY_TRANSITIONS
<1>4. b \in MemoryRow
  BY <1>1 DEF Inv, PromotionType
<1>5. row \in MemoryRow /\ row.status = to /\ row.heldout = e
  <2> HIDE DEF b, to
  <2>1. to \in {"limited", "active"}
    BY <1>1, <1>3
  <2>2. r1 \in MemoryRow /\ r1.status = to
    BY <1>4, <2>1 DEF MemoryRow
  <2> HIDE DEF r1
  <2> QED BY <2>2 DEF MemoryRow
<1>6. /\ evs \in Seq(Evals) /\ Append(evs, e) \in Seq(Evals)
  BY DEF Inv, PromotionType
<1> HIDE DEF row, to
<1>7. PromotionType'
  <2>1. memories' \in [Memories -> MemoryRow \cup {NoMemory}]
    BY <1>2, <1>5 DEF Inv, PromotionType
  <2>2. /\ promoted' \in [Memories -> Seq(Evals)]
        /\ waiting' \in [Memories -> CallRow \cup {NoCall}]
    BY <1>1, <1>6 DEF Inv, PromotionType
  <2> QED BY <1>1, <2>1, <2>2, EvalsSame DEF Inv, PromotionType
<1>8. EvalsKeep /\ ApprovalsKeep
  BY <1>1, EvalsSame, ApprovalsSame
<1>9. \A n \in Memories : MemoryInv(n)'
  <2>1. \A n \in Memories \ {m} :
          memories'[n] = memories[n] /\ promoted'[n] = promoted[n]
    BY <1>1, <1>2 DEF Inv, PromotionType
  <2>2. \A n \in Memories \ {m} : MemoryInv(n)'
    BY <1>8, <2>1, MemoryStands
  <2>3. memories'[m] = row /\ promoted'[m] = Append(evs, e)
    BY <1>1, <1>2 DEF Inv, PromotionType
  <2>4. row # NoMemory
    BY <1>5, RowsAreRows
  <2>5. Clean(e)'
    BY <1>1, EvalsSame DEF Clean
  <2>6. CASE b.status = "candidate"
    <3>1. evs = <<>>
      BY <1>1, <2>6 DEF Inv, MemoryInv
    <3>2. Len(Append(evs, e)) = 1 /\ Append(evs, e)[1] = e
      BY <3>1
    <3>3. MemoryInv(m)'
      BY <1>3, <1>5, <2>3, <2>4, <2>5, <2>6, <3>2 DEF MemoryInv
    <3> QED BY <2>2, <3>3
  <2>7. CASE b.status = "limited"
    <3>1. Len(evs) = 1 /\ evs[1] = b.heldout /\ Clean(evs[1])
      BY <1>1, <2>7 DEF Inv, MemoryInv
    <3>2. /\ Len(Append(evs, e)) = 2 /\ Append(evs, e)[1] = evs[1]
          /\ Append(evs, e)[2] = e
      BY <1>6, <3>1
    <3>3. evals[evs[1]].data # evals[e].data /\ m \in evals[e].after
      BY <1>1, <2>7, <3>1 DEF FreshEval
    <3>4. Clean(evs[1])'
      BY <1>1, <3>1, EvalsSame DEF Clean
    <3>5. MemoryInv(m)'
      BY <1>1, <1>3, <1>5, <2>3, <2>4, <2>5, <2>7, <3>2, <3>3, <3>4
         DEF MemoryInv
    <3> QED BY <2>2, <3>5
  <2> QED BY <1>1, <2>6, <2>7
<1>10. EvalsInv' /\ ApprovalsInv'
  BY <1>1, EvalsInvStands, ApprovalsInvStands
<1> QED BY <1>1, <1>7, <1>8, <1>9, <1>10, TablesStand DEF Inv

-----------------------------------------------------------------------------
(* Steps of one proposal.                                                  *)

(* What the other proposals keep. *)
LEMMA OthersStand ==
  ASSUME Inv, EvalsKeep, ApprovalsKeep, NEW p \in Proposals,
         \A q \in Proposals \ {p} :
           /\ proposals'[q] = proposals[q] /\ limited'[q] = limited[q]
           /\ active'[q] = active[q] /\ custody'[q] = custody[q],
         ProposalInv(p)', LimitedInv(p)', ActiveInv(p)'
  PROVE  \A q \in Proposals : ProposalInv(q)' /\ LimitedInv(q)' /\ ActiveInv(q)'
<1>1. ASSUME NEW q \in Proposals \ {p}
      PROVE  ProposalInv(q)' /\ LimitedInv(q)' /\ ActiveInv(q)'
  BY ProposalStands, LimitedStands, ActiveStands
<1> QED BY <1>1

(* A limited record survives what happens to its proposal afterwards. *)
LEMMA LimitedSurvives ==
  ASSUME Inv, UNCHANGED evals, ApprovalsKeep, NEW p \in Proposals,
         limited'[p] = limited[p], limited[p] # NoRecord,
         proposals'[p].maker = proposals[p].maker,
         proposals'[p].state \in {"limited", "active", "rejected"},
         proposals'[p].state \in {"limited", "active"} =>
           /\ proposals[p].state \in {"limited", "active"}
           /\ proposals'[p].held_out = proposals[p].held_out,
         proposals'[p].state = "limited" =>
           proposals'[p].approval = limited[p].approval
  PROVE  LimitedInv(p)'
<1> DEFINE record == limited[p]
           a == record.approval
<1>1. LimitedInv(p)
  BY DEF Inv
<1>2. Recorded' = Recorded
  BY EvalsSame
<1>3. /\ Authorizes(a, p, "limited", record.request.eval, record.request,
                    TRUE)'
      /\ approvals'[a].approver = approvals[a].approver
      /\ approvals'[a].delivered = approvals[a].delivered
  <2> DEFINE e == record.request.eval
  <2>1. a \in Approvals
    BY LimitedFacts DEF Inv
  <2>2. Authorizes(a, p, "limited", e, record.request, TRUE)
    BY <1>1 DEF LimitedInv
  <2>3. /\ approvals'[a] # NoApproval
        /\ approvals'[a].subject = p /\ approvals'[a].target = "limited"
        /\ approvals'[a].digest = record.request
        /\ approvals'[a].requester = proposals'[p].maker
        /\ e \in approvals'[a].dated /\ e \in approvals'[a].seen
        /\ approvals'[a].approver = approvals[a].approver
        /\ approvals'[a].delivered = approvals[a].delivered
    BY <2>1, <2>2, AuthorizesKeeps
  <2> QED BY <2>3 DEF Authorizes
<1>4. ASSUME proposals'[p].state \in {"limited", "active"}
      PROVE  LimitedRequest(p, record.before)'
               = LimitedRequest(p, record.before)
  BY <1>4 DEF LimitedRequest, UseCount, Request
<1> QED BY <1>1, <1>2, <1>3, <1>4 DEF LimitedInv

LEMMA ProposeKeeps ==
  ASSUME Inv, NEW p \in Proposals, NEW w \in Principals, Propose(p, w)
  PROVE  Inv'
<1> DEFINE row == [state |-> "candidate", maker |-> w, held_in |-> None,
                   held_out |-> None, sealed |-> None, approval |-> None]
<1>1. /\ proposals[p] = NoProposal
      /\ proposals' = [proposals EXCEPT ![p] = row]
      /\ UNCHANGED source /\ UNCHANGED evals /\ UNCHANGED approvals
      /\ UNCHANGED <<custody, limited, active>>
      /\ UNCHANGED <<memories, promoted, waiting>>
  BY DEF Propose
<1>2. /\ row \in ProposalRow /\ row.state = "candidate"
      /\ row.held_in = None /\ row.held_out = None /\ row.sealed = None
  BY DEF ProposalRow, ProposalState
<1> HIDE DEF row
<1>3. EvalsKeep /\ ApprovalsKeep
  BY <1>1, EvalsSame, ApprovalsSame
<1>4. /\ proposals'[p] = row
      /\ \A q \in Proposals \ {p} : proposals'[q] = proposals[q]
      /\ proposals' \in [Proposals -> ProposalRow \cup {NoProposal}]
  BY <1>1, <1>2 DEF Inv, PromotionType
<1>5. PromotionType'
  BY <1>1, <1>4, EvalsSame DEF Inv, PromotionType
<1>6. limited[p] = NoRecord /\ active[p] = NoRecord
  <2>1. NoProposal.state \notin {"limited", "active", "rejected"}
    BY DEF NoProposal, None
  <2>2. limited[p] = NoRecord
    BY <1>1, <2>1 DEF Inv, LimitedInv
  <2> QED BY <2>2 DEF Inv, ActiveInv
<1>7. ProposalInv(p)' /\ LimitedInv(p)' /\ ActiveInv(p)'
  <2>1. Columns(p)' /\ Gates(p)'
    BY <1>1, <1>2, <1>4, <1>6 DEF Columns, Gates
  <2>2. LimitedInv(p)' /\ ActiveInv(p)'
    BY <1>1, <1>2, <1>4, <1>6 DEF LimitedInv, ActiveInv
  <2> QED BY <2>1, <2>2 DEF ProposalInv
<1>8. \A q \in Proposals : ProposalInv(q)' /\ LimitedInv(q)' /\ ActiveInv(q)'
  BY <1>1, <1>3, <1>4, <1>7, OthersStand
<1>9. EvalsInv' /\ ApprovalsInv'
  BY <1>1, EvalsInvStands, ApprovalsInvStands
<1> QED BY <1>1, <1>3, <1>5, <1>8, <1>9, MemoriesStand DEF Inv

(***************************************************************************)
(* An evaluation that is not clean rejects the proposal; a clean held-in   *)
(* or held-out one can be attached only to a proposal that was never       *)
(* limited.                                                                *)
(***************************************************************************)
LEMMA AttachEvalKeeps ==
  ASSUME Inv, NEW p \in Proposals, NEW e \in Evals, AttachEval(p, e)
  PROVE  Inv'
<1> DEFINE row == proposals[p]
           split == evals[e].split
           state == AttachTarget(e)
           n == [[row EXCEPT ![split] = e] EXCEPT !.state = state]
<1>1. /\ row # NoProposal /\ e \in Recorded /\ MayAttach(p, e)
      /\ evals[e].cand = CandidateOf[p]
      /\ row.maker # evals[e].evaluator
      /\ UNCHANGED source /\ UNCHANGED evals /\ UNCHANGED approvals
      /\ UNCHANGED <<custody, limited, active>>
      /\ UNCHANGED <<memories, promoted, waiting>>
  BY DEF AttachEval, Independent
<1>2. row \in ProposalRow
  BY <1>1, ProposalFacts DEF Inv
<1>3. /\ evals[e] # NoEval /\ split \in Splits /\ evals[e].clean \in BOOLEAN
  BY <1>1, EvalFacts DEF Inv, Recorded, Begun
<1>4. proposals' = [proposals EXCEPT ![p] = n]
  BY <1>2 DEF AttachEval, Inv, PromotionType
<1>5. /\ state \in ProposalState
      /\ ~ evals[e].clean => state = "rejected"
      /\ evals[e].clean =>
           /\ split = "held_in" => state = "heldout_pending"
           /\ split = "held_out" => state = "owner_review"
           /\ split = "sealed" => state = "limited"
  BY <1>3 DEF AttachTarget, Splits, ProposalState
<1> HIDE DEF state
<1>6. /\ n \in ProposalRow /\ n.state = state /\ n.maker = row.maker
      /\ n.approval = row.approval
      /\ n.held_in = IF split = "held_in" THEN e ELSE row.held_in
      /\ n.held_out = IF split = "held_out" THEN e ELSE row.held_out
      /\ n.sealed = IF split = "sealed" THEN e ELSE row.sealed
  <2> HIDE DEF row, split
  <2>1. CASE split = "held_in"
    BY <1>2, <1>5, <2>1 DEF ProposalRow
  <2>2. CASE split = "held_out"
    BY <1>2, <1>5, <2>2 DEF ProposalRow
  <2>3. CASE split = "sealed"
    BY <1>2, <1>5, <2>3 DEF ProposalRow
  <2> QED BY <1>3, <2>1, <2>2, <2>3 DEF Splits
<1> HIDE DEF n
<1>7. EvalsKeep /\ ApprovalsKeep /\ Recorded' = Recorded
  BY <1>1, EvalsSame, ApprovalsSame
<1>8. /\ proposals'[p] = n
      /\ \A q \in Proposals \ {p} : proposals'[q] = proposals[q]
      /\ proposals' \in [Proposals -> ProposalRow \cup {NoProposal}]
  BY <1>4, <1>6 DEF Inv, PromotionType
<1>9. PromotionType'
  BY <1>1, <1>8, EvalsSame DEF Inv, PromotionType
<1>10. Columns(p) /\ Gates(p)
  BY <1>1 DEF Inv, ProposalInv
<1>11. Clean(e) <=> evals[e].clean
  BY <1>1 DEF Clean
<1>12. \A f : Clean(f)' <=> Clean(f)
  BY <1>1, <1>7 DEF Clean
<1>13. e # None
  BY PromotionAssumption
<1>14. Columns(p)'
  <2>1. ASSUME NEW f, NEW s,
               \/ f = e /\ s = split
               \/ Attached(p, f, s)
        PROVE  /\ f \in Recorded' /\ evals'[f].split = s
               /\ evals'[f].cand = CandidateOf[p]
               /\ evals'[f].evaluator # proposals'[p].maker
    BY <2>1, <1>1, <1>6, <1>7, <1>8 DEF Attached
  <2> DEFINE Either(f, s) == \/ f = e /\ s = split
                             \/ Attached(p, f, s)
  <2>2. /\ n.held_in # None => Either(n.held_in, "held_in")
        /\ n.held_out # None => Either(n.held_out, "held_out")
        /\ n.sealed # None => Either(n.sealed, "sealed")
    <3> HIDE DEF split
    <3> QED BY <1>6, <1>10 DEF Columns
  <2> QED BY <1>8, <2>1, <2>2 DEF Columns, Attached
<1>15. Gates(p)' /\ (limited[p] # NoRecord => state \in {"limited", "rejected"})
  <2>1. CASE ~ evals[e].clean
    BY <2>1, <1>1, <1>5, <1>6, <1>8, <1>10, <1>11, <1>12, <1>13 DEF Gates
  <2>2. CASE evals[e].clean /\ split = "held_in"
    <3>1. row.held_in = None
      BY <1>1, <2>2 DEF MayAttach
    <3>2. limited[p] = NoRecord
      BY <3>1, <1>10 DEF Gates
    <3> QED BY <2>2, <3>2, <1>1, <1>5, <1>6, <1>8, <1>10, <1>11, <1>12, <1>13
            DEF Gates
  <2>3. CASE evals[e].clean /\ split = "held_out"
    <3>1. /\ row.state = "heldout_pending" /\ row.held_in # None
          /\ evals[row.held_in].data # evals[e].data
      BY <1>1, <2>3 DEF MayAttach, Isolated
    <3>2. limited[p] = NoRecord
      BY <3>1, <1>10 DEF Gates
    <3> QED BY <2>3, <3>1, <3>2, <1>1, <1>5, <1>6, <1>8, <1>10, <1>11, <1>12,
               <1>13 DEF Gates
  <2>4. CASE evals[e].clean /\ split = "sealed"
    <3>1. /\ row.state = "limited" /\ limited[p] # NoRecord
          /\ p \in evals[e].after
          /\ evals[row.held_in].data # evals[e].data
          /\ evals[row.held_out].data # evals[e].data
      BY <1>1, <2>4 DEF MayAttach, Isolated
    <3> QED BY <2>4, <3>1, <1>1, <1>5, <1>6, <1>8, <1>10, <1>11, <1>12, <1>13
            DEF Gates
  <2> QED BY <1>3, <2>1, <2>2, <2>3, <2>4 DEF Splits
<1>16. LimitedInv(p)'
  <2>1. CASE limited[p] = NoRecord
    BY <1>1, <2>1 DEF LimitedInv
  <2>2. CASE limited[p] # NoRecord
    <3>1. state = "limited" => /\ row.state = "limited"
                               /\ n.held_out = row.held_out
      BY <1>1, <1>3, <1>5, <1>6 DEF MayAttach, Splits
    <3>2. row.state = "limited" => row.approval = limited[p].approval
      BY <2>2 DEF Inv, LimitedInv
    <3> QED BY <1>1, <1>6, <1>7, <1>8, <1>15, <2>2, <3>1, <3>2, LimitedSurvives
  <2> QED BY <2>1, <2>2
<1>17. ActiveInv(p)'
  <2>1. ASSUME active[p] # NoRecord
        PROVE  /\ limited'[p] # NoRecord
               /\ active'[p].record.sealed \in Recorded'
               /\ Cardinality({active'[p].record.maker,
                               evals'[active'[p].record.sealed].evaluator,
                               active'[p].record.custodian,
                               active'[p].record.owner}) = 4
    BY <1>1, <1>7, <2>1, ActiveRecordStands
  <2>2. state # "active"
    BY <1>3, <1>5 DEF Splits
  <2> QED BY <1>1, <1>6, <1>8, <2>1, <2>2 DEF ActiveInv
<1>18. \A q \in Proposals : ProposalInv(q)' /\ LimitedInv(q)' /\ ActiveInv(q)'
  <2>1. ProposalInv(p)'
    BY <1>14, <1>15 DEF ProposalInv
  <2> QED BY <1>1, <1>7, <1>8, <1>16, <1>17, <2>1, OthersStand
<1>19. EvalsInv' /\ ApprovalsInv'
  BY <1>1, EvalsInvStands, ApprovalsInvStands
<1> QED BY <1>1, <1>7, <1>9, <1>18, <1>19, MemoriesStand DEF Inv

(* The custody row of a limited proposal. *)
LEMMA RecordSealedCustodyKeeps ==
  ASSUME Inv, NEW p \in Proposals, NEW w \in Custodians,
         RecordSealedCustody(p, w)
  PROVE  Inv'
<1> DEFINE sealed == proposals[p].sealed
           row == [eval |-> sealed, custodian |-> w]
<1>1. /\ proposals[p].state = "limited" /\ sealed # None /\ Clean(sealed)
      /\ custody[p] = NoCustody
      /\ custody' = [custody EXCEPT ![p] = row]
      /\ UNCHANGED source /\ UNCHANGED evals /\ UNCHANGED approvals
      /\ UNCHANGED <<proposals, limited, active>>
      /\ UNCHANGED <<memories, promoted, waiting>>
  BY DEF RecordSealedCustody
<1>2. row \in CustodyRow
  BY <1>1, PromotionAssumption DEF CustodyRow, Clean, Recorded, Begun
<1> HIDE DEF row
<1>3. EvalsKeep /\ ApprovalsKeep
  BY <1>1, EvalsSame, ApprovalsSame
<1>4. /\ \A q \in Proposals \ {p} : custody'[q] = custody[q]
      /\ custody' \in [Proposals -> CustodyRow \cup {NoCustody}]
  BY <1>1, <1>2 DEF Inv, PromotionType
<1>5. PromotionType'
  BY <1>1, <1>4, EvalsSame DEF Inv, PromotionType
<1>6. ProposalInv(p)' /\ LimitedInv(p)' /\ ActiveInv(p)'
  BY <1>1, <1>3, ProposalStands, LimitedStands, ActiveStands
<1>7. \A q \in Proposals : ProposalInv(q)' /\ LimitedInv(q)' /\ ActiveInv(q)'
  BY <1>1, <1>3, <1>4, <1>6, OthersStand
<1>8. EvalsInv' /\ ApprovalsInv'
  BY <1>1, <1>4, EvalsInvStands, ApprovalsInvStands
<1> QED BY <1>1, <1>3, <1>5, <1>7, <1>8, MemoriesStand DEF Inv

-----------------------------------------------------------------------------
(* Approvals.                                                              *)

LEMMA DigestsDiffer ==
  ASSUME NEW d \in RequestRow \cup MemoryDigest
  PROVE  d \notin ActiveDigest
<1> SUFFICES ASSUME d \in ActiveDigest
             PROVE  FALSE
  OBVIOUS
<1>1. "sealed" \in DOMAIN d
  BY DEF ActiveDigest
<1>2. d \in RequestRow => "sealed" \notin DOMAIN d
  BY DEF RequestRow
<1>3. d \in MemoryDigest => "sealed" \notin DOMAIN d
  BY DEF MemoryDigest
<1> QED BY <1>1, <1>2, <1>3

(* A step that only adds to the approvals or lets one lapse. *)
LEMMA ApprovalStepKeeps ==
  ASSUME Inv, ApprovalsKeep,
         approvals' \in [Approvals -> ApprovalRow \cup {NoApproval}],
         ApprovalsInv',
         UNCHANGED <<source, evals, proposals, custody, limited, active,
                     memories, promoted, waiting>>
  PROVE  Inv'
<1>1. EvalsKeep
  BY EvalsSame
<1>2. PromotionType'
  BY EvalsSame DEF Inv, PromotionType
<1>3. EvalsInv'
  BY EvalsInvStands
<1> QED BY <1>1, <1>2, <1>3, TablesStand, MemoriesStand DEF Inv

LEMMA RecordApprovalKeeps ==
  ASSUME Inv, NEW a \in Approvals, NEW subject \in Subjects,
         NEW target \in {"limited", "active"}, NEW digest,
         NEW gates \in SUBSET Evals, NEW requester \in Requesters,
         NEW approver \in Principals,
         digest \in RequestRow \cup MemoryDigest \cup ActiveDigest,
         digest \in ActiveDigest =>
           /\ \E p \in Proposals : limited[p] # NoRecord
                                     /\ digest.limited = limited[p]
           /\ \E p \in Proposals : custody[p] # NoCustody
                                     /\ digest.custody = custody[p],
         RecordApproval(a, subject, target, digest, gates, requester, approver)
  PROVE  Inv'
<1> DEFINE row ==
      NewApproval(subject, target, digest, gates, requester, approver)
<1>1. /\ approvals[a] = NoApproval /\ requester # approver
      /\ approvals' = [approvals EXCEPT ![a] = row]
      /\ UNCHANGED <<source, evals, proposals, custody, limited, active,
                     memories, promoted, waiting>>
  BY DEF RecordApproval
<1>2. /\ row \in ApprovalRow /\ row.seen \subseteq row.dated
      /\ row.digest = digest
      /\ row.requester = requester /\ row.approver = approver
  <2> DEFINE seen == {e \in gates : subject \in Proposals /\ e \in Recorded}
             delivered == subject \in Proposals /\ source.deliveries > 0
  <2>1. /\ seen \in SUBSET Evals /\ seen \subseteq gates
        /\ requester \in Principals
    BY PromotionAssumption
  <2>2. row = [subject |-> subject, target |-> target, digest |-> digest,
               requester |-> requester, approver |-> approver,
               dated |-> gates, seen |-> seen, delivered |-> delivered,
               live |-> TRUE]
    BY DEF NewApproval
  <2>3. delivered \in BOOLEAN
    OBVIOUS
  <2> HIDE DEF seen, delivered, row
  <2> QED BY <2>1, <2>2, <2>3 DEF ApprovalRow
<1> HIDE DEF row
<1>3. /\ approvals'[a] = row
      /\ \A b \in Approvals \ {a} : approvals'[b] = approvals[b]
      /\ approvals' \in [Approvals -> ApprovalRow \cup {NoApproval}]
  BY <1>1, <1>2 DEF Inv, PromotionType
<1>4. ApprovalsKeep
  BY <1>1, <1>3 DEF ApprovalsKeep
<1>5. ApprovalsInv'
  <2>1. ASSUME NEW b \in Approvals, approvals'[b] # NoApproval
        PROVE  /\ approvals'[b].requester # approvals'[b].approver
               /\ approvals'[b].seen \subseteq approvals'[b].dated
               /\ approvals'[b].digest \in ActiveDigest =>
                    /\ \E p \in Proposals :
                         /\ limited'[p] # NoRecord
                         /\ approvals'[b].digest.limited = limited'[p]
                    /\ \E p \in Proposals :
                         /\ custody'[p] # NoCustody
                         /\ approvals'[b].digest.custody = custody'[p]
    <3>1. CASE b = a
      BY <1>1, <1>2, <1>3, <3>1
    <3>2. CASE b # a
      BY <1>1, <1>3, <2>1, <3>2 DEF Inv, ApprovalsInv
    <3> QED BY <3>1, <3>2
  <2> QED BY <2>1 DEF ApprovalsInv
<1> QED BY <1>1, <1>3, <1>4, <1>5, ApprovalStepKeeps

LEMMA ApproveLimitedKeeps ==
  ASSUME Inv, NEW a \in Approvals, NEW p \in Proposals,
         NEW requester \in Requesters, NEW approver \in Principals,
         ApproveLimited(a, p, requester, approver)
  PROVE  Inv'
<1>1. PICK request \in LimitedRequests(p) :
        RecordApproval(a, p, "limited", request, {request.eval},
                       requester, approver)
  BY DEF ApproveLimited
<1>2. PICK e \in Begun :
        request = Request(e, UseCount("held_out", evals[e].data,
                                      Recorded \cup {e}))
  BY <1>1 DEF LimitedRequests
<1>3. UseCount("held_out", evals[e].data, Recorded \cup {e}) \in Nat
  <2>1. Recorded \cup {e} \subseteq Begun
    BY <1>2 DEF Recorded
  <2> QED BY <2>1, UseCountType DEF Inv
<1>4. request \in RequestRow /\ {request.eval} \in SUBSET Evals
  BY <1>2, <1>3 DEF Request, RequestRow, Begun
<1>5. request \notin ActiveDigest /\ p \in Subjects
  BY <1>4, DigestsDiffer DEF Subjects
<1> QED BY <1>1, <1>4, <1>5, RecordApprovalKeeps

(* What an active request names stands when it is asked for. *)
LEMMA ApproveActiveKeeps ==
  ASSUME Inv, NEW a \in Approvals, NEW p \in Proposals,
         NEW requester \in Requesters, NEW approver \in Principals,
         ApproveActive(a, p, requester, approver)
  PROVE  Inv'
<1> DEFINE sealed == proposals[p].sealed
           digest == ActiveRequest(p)
<1>1. /\ proposals[p].state = "limited" /\ limited[p] # NoRecord
      /\ sealed # None /\ custody[p] # NoCustody
      /\ RecordApproval(a, p, "active", digest, {sealed}, requester, approver)
  BY DEF ApproveActive, ActiveRequestable, LimitedVerifies, CustodyVerifies
<1>2. sealed \in Evals
  <2>1. proposals[p] # NoProposal
    BY <1>1, ProposalFacts DEF Inv, ProposalState
  <2> QED BY <1>1, <2>1, ProposalFacts DEF Inv
<1>3. limited[p] \in LimitedRow /\ custody[p] \in CustodyRow
  BY <1>1 DEF Inv, PromotionType
<1>4. /\ digest \in ActiveDigest /\ digest.limited = limited[p]
      /\ digest.custody = custody[p]
  BY <1>2, <1>3 DEF ActiveRequest, ActiveDigest
<1>5. p \in Subjects /\ {sealed} \in SUBSET Evals
  BY <1>2 DEF Subjects
<1>6. /\ \E q \in Proposals : limited[q] # NoRecord
                                /\ digest.limited = limited[q]
      /\ \E q \in Proposals : custody[q] # NoCustody
                                /\ digest.custody = custody[q]
  BY <1>1, <1>4
<1> HIDE DEF digest, sealed
<1> QED BY <1>1, <1>4, <1>5, <1>6, RecordApprovalKeeps

LEMMA ApproveMemoryKeeps ==
  ASSUME Inv, NEW a \in Approvals, NEW m \in Memories,
         NEW requester \in Requesters, NEW approver \in Principals,
         ApproveMemory(a, m, requester, approver)
  PROVE  Inv'
<1> DEFINE gates == {e \in Begun : evals[e].cand = CandidateOf[m]}
<1>1. PICK from \in DOMAIN MEMORY_TRANSITIONS :
        RecordApproval(a, m, MEMORY_TRANSITIONS[from], MemoryRequest(from),
                       gates, requester, approver)
  BY DEF ApproveMemory
<1>2. /\ from \in {"candidate", "limited"}
      /\ MEMORY_TRANSITIONS[from] \in {"limited", "active"}
  BY <1>1 DEF MEMORY_TRANSITIONS
<1>3. MemoryRequest(from) \in MemoryDigest
  BY <1>2 DEF MemoryRequest, MemoryDigest
<1>4. /\ MemoryRequest(from) \notin ActiveDigest /\ m \in Subjects
      /\ gates \in SUBSET Evals
  BY <1>3, DigestsDiffer DEF Subjects, Begun
<1> HIDE DEF gates
<1> QED BY <1>1, <1>2, <1>3, <1>4, RecordApprovalKeeps

LEMMA LapseKeeps ==
  ASSUME Inv, NEW a \in Approvals, Lapse(a)
  PROVE  Inv'
<1>1. /\ approvals[a] # NoApproval
      /\ approvals' = [approvals EXCEPT ![a].live = FALSE]
      /\ UNCHANGED <<source, evals, proposals, custody, limited, active,
                     memories, promoted, waiting>>
  BY DEF Lapse
<1>2. /\ approvals' \in [Approvals -> ApprovalRow \cup {NoApproval}]
      /\ ApprovalsKeep /\ ApprovalsStay
  BY <1>1, LiveApproval
<1>3. ApprovalsInv'
  BY <1>1, <1>2, ApprovalsInvStays
<1> QED BY <1>1, <1>2, <1>3, ApprovalStepKeeps

-----------------------------------------------------------------------------
(* Promotion of a rule.                                                    *)

(* The row of a proposal that was promoted. *)
LEMMA PromotedRow ==
  ASSUME Inv, NEW p \in Proposals, NEW a \in Approvals,
         NEW state \in {"limited", "active"}, proposals[p] # NoProposal,
         proposals' = [proposals EXCEPT ![p].state = state,
                                        ![p].approval = a]
  PROVE  /\ proposals' \in [Proposals -> ProposalRow \cup {NoProposal}]
         /\ \A q \in Proposals \ {p} : proposals'[q] = proposals[q]
         /\ proposals'[p] # NoProposal
         /\ proposals'[p].state = state /\ proposals'[p].approval = a
         /\ proposals'[p].maker = proposals[p].maker
         /\ proposals'[p].held_in = proposals[p].held_in
         /\ proposals'[p].held_out = proposals[p].held_out
         /\ proposals'[p].sealed = proposals[p].sealed
<1> DEFINE row == proposals[p]
           r1 == [row EXCEPT !.state = state]
           n == [r1 EXCEPT !.approval = a]
<1>1. row \in ProposalRow /\ state \in ProposalState
  BY ProposalFacts DEF Inv, ProposalState
<1>2. proposals' = [proposals EXCEPT ![p] = n]
  BY <1>1 DEF Inv, PromotionType
<1>3. /\ r1 \in ProposalRow /\ r1.state = state /\ r1.maker = row.maker
      /\ r1.held_in = row.held_in /\ r1.held_out = row.held_out
      /\ r1.sealed = row.sealed
  <2> HIDE DEF row
  <2> QED BY <1>1 DEF ProposalRow
<1>4. /\ n \in ProposalRow /\ n.state = r1.state /\ n.maker = r1.maker
      /\ n.held_in = r1.held_in /\ n.held_out = r1.held_out
      /\ n.sealed = r1.sealed /\ n.approval = a
  <2> HIDE DEF r1
  <2> QED BY <1>3 DEF ProposalRow
<1> HIDE DEF n, r1
<1>5. n # NoProposal
  BY <1>4, RowsAreRows
<1> QED BY <1>2, <1>3, <1>4, <1>5 DEF Inv, PromotionType

(***************************************************************************)
(* The record is written as of the evaluations recorded by now, for a      *)
(* proposal that has none.                                                 *)
(***************************************************************************)
LEMMA PromoteLimitedKeeps ==
  ASSUME Inv, NEW p \in Proposals, NEW a \in Approvals, NEW late \in BOOLEAN,
         PromoteLimited(p, a, late)
  PROVE  Inv'
<1> DEFINE row == proposals[p]
           heldout == proposals[p].held_out
           count == UseCount("held_out", evals[heldout].data, Recorded)
           request == LimitedRequest(p, Recorded)
           record == [request |-> request, approval |-> a,
                      owner |-> approvals[a].approver, before |-> Recorded,
                      timely |-> ~ late]
<1>1. /\ row.state = "owner_review"
      /\ heldout # None /\ Clean(heldout)
      /\ approvals[a].delivered
      /\ Authorizes(a, p, "limited", request.eval, request, TRUE)
      /\ approvals' = [approvals EXCEPT ![a].live = ~ late]
      /\ limited' = [limited EXCEPT ![p] = record]
      /\ proposals' = [proposals EXCEPT ![p].state = "limited",
                                        ![p].approval = a]
      /\ UNCHANGED source /\ UNCHANGED evals
      /\ UNCHANGED <<custody, active>>
      /\ UNCHANGED <<memories, promoted, waiting>>
  BY DEF PromoteLimited, Buildable, Spend
<1>2. row # NoProposal
  BY <1>1, ProposalFacts DEF Inv, ProposalState
<1>3. Columns(p) /\ Gates(p)
  BY <1>2 DEF Inv, ProposalInv
<1>4. limited[p] = NoRecord
  BY <1>1, <1>3 DEF Gates
<1>5. active[p] = NoRecord
  BY <1>4 DEF Inv, ActiveInv
<1>6. /\ request = [eval |-> heldout, count |-> count]
      /\ heldout \in Recorded /\ heldout \in Evals
      /\ request.eval = heldout
  BY <1>1 DEF LimitedRequest, Request, Clean, Recorded, Begun
<1>7. count \in Nat
  <2>1. Recorded \subseteq Begun
    BY DEF Recorded
  <2> QED BY <2>1, UseCountType DEF Inv
<1>8. /\ approvals[a] # NoApproval /\ approvals[a].approver \in Principals
      /\ approvals[a].approver # row.maker
  <2>1. approvals[a] # NoApproval /\ approvals[a].requester = row.maker
    BY <1>1 DEF Authorizes
  <2> QED BY <2>1, ApprovalFacts DEF Inv, ApprovalsInv
<1>9. /\ record \in LimitedRow /\ record.request = request
      /\ record.approval = a /\ record.owner = approvals[a].approver
      /\ record.before = Recorded
  <2>1. request \in RequestRow
    BY <1>6, <1>7 DEF RequestRow
  <2>2. Recorded \in SUBSET Evals
    BY DEF Recorded, Begun
  <2> HIDE DEF request
  <2> QED BY <1>8, <2>1, <2>2 DEF LimitedRow
<1> HIDE DEF record
<1>10. /\ limited'[p] = record /\ record # NoRecord
       /\ \A q \in Proposals \ {p} : limited'[q] = limited[q]
       /\ limited' \in [Proposals -> LimitedRow \cup {NoRecord}]
  BY <1>1, <1>9, RowsAreRows DEF Inv, PromotionType
<1>11. /\ proposals' \in [Proposals -> ProposalRow \cup {NoProposal}]
       /\ \A q \in Proposals \ {p} : proposals'[q] = proposals[q]
       /\ proposals'[p] # NoProposal
       /\ proposals'[p].state = "limited" /\ proposals'[p].approval = a
       /\ proposals'[p].maker = row.maker
       /\ proposals'[p].held_in = row.held_in
       /\ proposals'[p].held_out = row.held_out
       /\ proposals'[p].sealed = row.sealed
  BY <1>1, <1>2, PromotedRow
<1>12. /\ EvalsKeep /\ ApprovalsKeep /\ ApprovalsStay
       /\ Recorded' = Recorded /\ Begun' = Begun
       /\ approvals' \in [Approvals -> ApprovalRow \cup {NoApproval}]
  BY <1>1, <1>8, EvalsSame, LiveApproval
<1>13. PromotionType'
  BY <1>1, <1>10, <1>11, <1>12 DEF Inv, PromotionType
<1>14. EvalsInv'
  <2>1. \A e \in Begun : p \notin evals[e].after
    BY <1>4 DEF Inv, EvalsInv
  <2> QED BY <1>1, <1>10, <1>12, <2>1 DEF Inv, EvalsInv
<1>15. ApprovalsInv'
  <2>1. \A q \in Proposals :
           /\ limited[q] # NoRecord => limited'[q] = limited[q]
           /\ custody[q] # NoCustody => custody'[q] = custody[q]
    BY <1>1, <1>4, <1>10
  <2> QED BY <1>12, <2>1, ApprovalsInvStays
<1>16. ProposalInv(p)'
  <2>1. Columns(p)'
    BY <1>1, <1>3, <1>11, <1>12 DEF Columns, Attached
  <2>2. \A e : Clean(e)' <=> Clean(e)
    BY <1>1, <1>12 DEF Clean
  <2>3. Gates(p)'
    BY <1>1, <1>3, <1>4, <1>10, <1>11, <2>2 DEF Gates
  <2> QED BY <2>1, <2>3 DEF ProposalInv
<1>17. LimitedInv(p)'
  <2>1. Authorizes(a, p, "limited", heldout, request, TRUE)
    BY <1>1, <1>6
  <2>2. /\ approvals'[a] # NoApproval
        /\ approvals'[a].subject = p /\ approvals'[a].target = "limited"
        /\ approvals'[a].digest = request
        /\ approvals'[a].requester = proposals'[p].maker
        /\ heldout \in approvals'[a].dated /\ heldout \in approvals'[a].seen
        /\ approvals'[a].approver = approvals[a].approver
        /\ approvals'[a].delivered = approvals[a].delivered
    BY <1>11, <1>12, <2>1, AuthorizesKeeps
  <2>3. evals[heldout].evaluator # row.maker
    BY <1>1, <1>3 DEF Columns, Attached
  <2>4. \A B : B = Recorded => LimitedRequest(p, B)' = request
    BY <1>1, <1>11 DEF LimitedRequest, Request, UseCount
  <2>5. ASSUME NEW r, r = record PROVE
          /\ Authorizes(r.approval, p, "limited", r.request.eval, r.request,
                        TRUE)'
          /\ LimitedRequest(p, r.before)' = r.request
    <3>1. r.approval = a /\ r.request = request /\ r.before = Recorded
      BY <1>9, <2>5
    <3>2. \A c, g, d : c = a /\ g = heldout /\ d = request =>
            Authorizes(c, p, "limited", g, d, TRUE)'
      <4> HIDE DEF request
      <4> QED BY <2>2 DEF Authorizes
    <3> HIDE DEF request
    <3> QED BY <1>6, <2>4, <3>1, <3>2
  <2> HIDE DEF request
  <2>6. /\ record.before \subseteq Recorded'
        /\ record.request.eval \in record.before
        /\ evals'[record.request.eval].evaluator # proposals'[p].maker
        /\ record.owner # proposals'[p].maker
        /\ record.owner = approvals'[record.approval].approver
        /\ approvals'[record.approval].delivered
        /\ proposals'[p].held_out \in record.before
        /\ proposals'[p].approval = record.approval
    BY <1>1, <1>6, <1>8, <1>9, <1>11, <1>12, <2>2, <2>3
  <2> QED BY <1>10, <1>11, <2>5, <2>6 DEF LimitedInv
<1>18. ActiveInv(p)'
  BY <1>1, <1>5, <1>11 DEF ActiveInv
<1>19. \A q \in Proposals : ProposalInv(q)' /\ LimitedInv(q)' /\ ActiveInv(q)'
  BY <1>1, <1>10, <1>11, <1>12, <1>16, <1>17, <1>18, OthersStand
<1> QED BY <1>1, <1>12, <1>13, <1>14, <1>15, <1>19, MemoriesStand DEF Inv

LEMMA PromoteActiveKeeps ==
  ASSUME Inv, NEW p \in Proposals, NEW a \in Approvals, NEW late \in BOOLEAN,
         PromoteActive(p, a, late)
  PROVE  Inv'
<1> DEFINE row == proposals[p]
           sealed == proposals[p].sealed
           uses == UseCount("sealed", evals[sealed].data, Recorded)
           r == ActiveRecord(p, a, Recorded)
           new == [record |-> r, before |-> Recorded, timely |-> ~ late]
<1>1. /\ row.state = "limited"
      /\ sealed # None /\ Clean(sealed)
      /\ limited[p] # NoRecord /\ sealed \notin limited[p].before
      /\ limited[p].timely
      /\ CustodyVerifies(p)
      /\ Authorizes(a, p, "active", sealed, ActiveRequest(p), TRUE)
      /\ approvals' = [approvals EXCEPT ![a].live = ~ late]
      /\ FourDistinct(p, a)
      /\ active' = [active EXCEPT ![p] = new]
      /\ proposals' = [proposals EXCEPT ![p].state = "active",
                                        ![p].approval = a]
      /\ UNCHANGED source /\ UNCHANGED evals
      /\ UNCHANGED <<custody, limited>>
      /\ UNCHANGED <<memories, promoted, waiting>>
  <2>1. /\ ActiveAssembles(p, a, Recorded, TRUE) /\ Spend(a, late)
        /\ row.state = "limited"
        /\ active' = [active EXCEPT ![p] = new]
        /\ proposals' = [proposals EXCEPT ![p].state = "active",
                                          ![p].approval = a]
        /\ UNCHANGED source /\ UNCHANGED evals
        /\ UNCHANGED <<custody, limited>>
        /\ UNCHANGED <<memories, promoted, waiting>>
    BY DEF PromoteActive
  <2>2. limited[p] # NoRecord /\ limited[p].timely
    BY <2>1 DEF ActiveAssembles, LimitedVerifies, Authorizes
  <2> HIDE DEF new
  <2> QED BY <2>1, <2>2 DEF ActiveAssembles, Spend
<1>2. row # NoProposal
  BY <1>1, ProposalFacts DEF Inv, ProposalState
<1>3. Columns(p) /\ Gates(p)
  BY <1>2 DEF Inv, ProposalInv
<1>4. sealed \in Recorded /\ sealed \in Evals
  BY <1>1 DEF Clean, Recorded, Begun
<1>5. uses \in Nat /\ Recorded \in SUBSET Evals
  <2>1. Recorded \subseteq Begun
    BY DEF Recorded
  <2> QED BY <2>1, UseCountType DEF Inv, Begun
<1>6. /\ approvals[a] # NoApproval /\ approvals[a].approver \in Principals
      /\ approvals[a].subject = p /\ approvals[a].target = "active"
      /\ approvals[a].digest = ActiveRequest(p)
      /\ approvals[a].requester = row.maker
      /\ sealed \in approvals[a].dated /\ sealed \in approvals[a].seen
  <2>1. /\ approvals[a] # NoApproval
        /\ approvals[a].subject = p /\ approvals[a].target = "active"
        /\ approvals[a].digest = ActiveRequest(p)
        /\ approvals[a].requester = row.maker
        /\ sealed \in approvals[a].dated /\ sealed \in approvals[a].seen
    BY <1>1 DEF Authorizes
  <2> QED BY <2>1, ApprovalFacts DEF Inv
<1>7. /\ limited[p] \in LimitedRow /\ row.maker \in Principals
      /\ custody[p].custodian \in Principals
  <2>1. custody[p] \in CustodyRow
    BY <1>1 DEF CustodyVerifies, Inv, PromotionType
  <2> QED BY <1>1, <1>2, <2>1, LimitedFacts, ProposalFacts DEF Inv, CustodyRow
<1>8. /\ new \in ActiveRow /\ new.record = r /\ new.before = Recorded
      /\ r.sealed = sealed /\ r.approval = a /\ r.maker = row.maker
      /\ r.custodian = custody[p].custodian
      /\ r.owner = approvals[a].approver
  <2>1. r = [limited |-> limited[p], sealed |-> sealed, uses |-> uses,
             maker |-> row.maker, custodian |-> custody[p].custodian,
             approval |-> a, owner |-> approvals[a].approver]
    BY DEF ActiveRecord
  <2> HIDE DEF r, uses
  <2> QED BY <1>4, <1>5, <1>6, <1>7, <2>1 DEF ActiveRow
<1> HIDE DEF new, r
<1>9. /\ active'[p] = new /\ new # NoRecord
      /\ \A q \in Proposals \ {p} : active'[q] = active[q]
      /\ active' \in [Proposals -> ActiveRow \cup {NoRecord}]
  BY <1>1, <1>8, RowsAreRows DEF Inv, PromotionType
<1>10. /\ proposals' \in [Proposals -> ProposalRow \cup {NoProposal}]
       /\ \A q \in Proposals \ {p} : proposals'[q] = proposals[q]
       /\ proposals'[p] # NoProposal
       /\ proposals'[p].state = "active" /\ proposals'[p].approval = a
       /\ proposals'[p].maker = row.maker
       /\ proposals'[p].held_in = row.held_in
       /\ proposals'[p].held_out = row.held_out
       /\ proposals'[p].sealed = row.sealed
  BY <1>1, <1>2, PromotedRow
<1>11. /\ EvalsKeep /\ ApprovalsKeep /\ ApprovalsStay
       /\ Recorded' = Recorded /\ Begun' = Begun
       /\ approvals' \in [Approvals -> ApprovalRow \cup {NoApproval}]
  BY <1>1, <1>6, EvalsSame, LiveApproval
<1>12. PromotionType'
  BY <1>1, <1>9, <1>10, <1>11 DEF Inv, PromotionType
<1>13. EvalsInv' /\ ApprovalsInv'
  BY <1>1, <1>11, EvalsInvStands, ApprovalsInvStays
<1>14. \A e : Clean(e)' <=> Clean(e)
  BY <1>1, <1>11 DEF Clean
<1>15. ProposalInv(p)'
  <2>1. Columns(p)'
    BY <1>1, <1>3, <1>10, <1>11 DEF Columns, Attached
  <2>2. Gates(p)'
    BY <1>1, <1>3, <1>10, <1>14 DEF Gates
  <2> QED BY <2>1, <2>2 DEF ProposalInv
<1>16. LimitedInv(p)'
  BY <1>1, <1>10, <1>11, LimitedSurvives
<1>17. ActiveInv(p)'
  <2> approvals'[a].approver = approvals[a].approver
    BY <1>6, <1>11 DEF ApprovalsKeep
  <2>1. FourDistinct(p, a)' /\ CustodyVerifies(p)'
    BY <1>1, <1>10 DEF FourDistinct, CustodyVerifies
  <2>2. Cardinality({r.maker, evals[r.sealed].evaluator, r.custodian,
                     r.owner}) = 4
    BY <1>1, <1>8 DEF FourDistinct
  <2>3. ActiveRequest(p)' = ActiveRequest(p)
    BY <1>1, <1>10 DEF ActiveRequest
  <2>4. \A c, g : c = a /\ g = sealed =>
          Authorizes(c, p, "active", g, ActiveRequest(p), TRUE)'
    BY <1>1, <1>6, <1>10, <1>11, <2>3 DEF Authorizes, ApprovalsKeep
  <2>5. \A c, B : c = a /\ B = Recorded => ActiveRecord(p, c, B)' = r
    BY <1>1, <1>10 DEF ActiveRecord, UseCount, r
  <2>6. \A c : c = a => FourDistinct(p, c)'
    BY <2>1
  <2>7. /\ active'[p].record = r /\ active'[p].before = Recorded
        /\ active'[p].record.approval = a
    BY <1>8, <1>9
  <2>8. /\ Authorizes(active[p].record.approval, p, "active",
                      proposals[p].sealed, ActiveRequest(p), TRUE)'
        /\ FourDistinct(p, active[p].record.approval)'
    BY <1>10, <2>4, <2>6, <2>7
  <2>9. active'[p].record
          = ActiveRecord(p, active[p].record.approval, active[p].before)'
    BY <2>5, <2>7
  <2>10. /\ Clean(proposals[p].sealed)' /\ Recorded \subseteq Recorded'
         /\ proposals'[p].sealed \in Recorded
         /\ limited'[p] # NoRecord /\ limited'[p].timely
         /\ proposals'[p].sealed \notin limited'[p].before
    BY <1>1, <1>4, <1>10, <1>11, <1>14
  <2>11. /\ active'[p].record.sealed \in Recorded'
         /\ Cardinality({active'[p].record.maker,
                         evals'[active'[p].record.sealed].evaluator,
                         active'[p].record.custodian,
                         active'[p].record.owner}) = 4
    BY <1>1, <1>4, <1>8, <1>11, <2>2, <2>7
  <2> QED BY <1>1, <1>9, <1>10, <2>1, <2>7, <2>8, <2>9, <2>10, <2>11
          DEF ActiveInv
<1>18. \A q \in Proposals : ProposalInv(q)' /\ LimitedInv(q)' /\ ActiveInv(q)'
  BY <1>1, <1>9, <1>10, <1>11, <1>15, <1>16, <1>17, OthersStand
<1> QED BY <1>1, <1>11, <1>12, <1>13, <1>18, MemoriesStand DEF Inv

-----------------------------------------------------------------------------
(* The invariant is inductive.                                             *)

LEMMA InvInit == Init => Inv
<1> SUFFICES ASSUME Init
             PROVE  Inv
  OBVIOUS
<1>1. Begun = {} /\ Recorded = {}
  BY DEF Init, Begun, Recorded
<1>2. PromotionType
  <2>1. /\ source \in [run : {"open", "delivered", "improvement_pending"},
                       task : {"open", "delivered", "retired"},
                       deliveries : 0..MaxDelivered]
        /\ source.run # "improvement_pending"
    <3>1. 0 \in 0..MaxDelivered
      BY PromotionAssumption
    <3> QED BY <3>1 DEF Init
  <2>2. IsFiniteSet(Begun)
    BY <1>1, FS_EmptySet
  <2>3. promoted \in [Memories -> Seq(Evals)]
    BY DEF Init
  <2> QED BY <2>1, <2>2, <2>3 DEF Init, PromotionType
<1>3. EvalsInv /\ ApprovalsInv
  BY <1>1 DEF Init, EvalsInv, ApprovalsInv
<1>4. \A p \in Proposals : ProposalInv(p) /\ LimitedInv(p) /\ ActiveInv(p)
  BY DEF Init, ProposalInv, LimitedInv, ActiveInv, NoProposal, None
<1>5. \A m \in Memories : MemoryInv(m)
  BY DEF Init, MemoryInv
<1> QED BY <1>2, <1>3, <1>4, <1>5 DEF Inv

LEMMA InvStep == Inv /\ [Next]_vars => Inv'
<1> SUFFICES ASSUME Inv, [Next]_vars
             PROVE  Inv'
  OBVIOUS
<1>1. CASE SourceStep \/ UNCHANGED vars
  BY <1>1, SourceKeeps
<1>2. CASE \E e \in Evals, input \in EvalInputs : BeginEval(e, input)
  BY <1>2, BeginEvalKeeps
<1>3. CASE \E e \in Evals : RecordEval(e)
  BY <1>3, RecordEvalKeeps
<1>4. CASE \E p \in Proposals, w \in Principals : Propose(p, w)
  BY <1>4, ProposeKeeps
<1>5. CASE \E p \in Proposals, e \in Evals : AttachEval(p, e)
  BY <1>5, AttachEvalKeeps
<1>6. CASE \E p \in Proposals, w \in Custodians : RecordSealedCustody(p, w)
  BY <1>6, RecordSealedCustodyKeeps
<1>7. CASE \E a \in Approvals, p \in Proposals,
             requester \in Requesters, approver \in Principals :
             \/ ApproveLimited(a, p, requester, approver)
             \/ ApproveActive(a, p, requester, approver)
  BY <1>7, ApproveLimitedKeeps, ApproveActiveKeeps
<1>8. CASE \E a \in Approvals, m \in Memories,
             requester \in Requesters, approver \in Principals :
             ApproveMemory(a, m, requester, approver)
  BY <1>8, ApproveMemoryKeeps
<1>9. CASE \E a \in Approvals : Lapse(a)
  BY <1>9, LapseKeeps
<1>10. CASE \E p \in Proposals, a \in Approvals, late \in BOOLEAN :
              PromoteLimited(p, a, late) \/ PromoteActive(p, a, late)
  BY <1>10, PromoteLimitedKeeps, PromoteActiveKeeps
<1>11. CASE \E m \in Memories : \/ CreateCandidate(m) \/ ExpireMemory(m)
                                \/ BeginPromotion(m) \/ RefusePromotion(m)
  BY <1>11, NewMemoryKeeps, WaitingKeeps
<1>12. CASE \E m \in Memories, a \in Approvals, e \in Evals :
              PromoteMemory(m, a, e)
  BY <1>12, PromoteMemoryKeeps
<1> QED BY <1>1, <1>2, <1>3, <1>4, <1>5, <1>6, <1>7, <1>8, <1>9, <1>10, <1>11,
           <1>12 DEF Next

LEMMA InvHolds == Spec => []Inv
BY InvInit, InvStep, PTL DEF Spec

-----------------------------------------------------------------------------
(* What it implies.                                                        *)

LEMMA TypeFollows == Inv => TypeOK
<1> SUFFICES ASSUME Inv
             PROVE  TypeOK
  OBVIOUS
<1>1. \A e \in Begun : evals[e] \in EvalRow
  BY DEF Inv, PromotionType, Begun
<1>2. ASSUME NEW p \in Proposals, proposals[p] # NoProposal
      PROVE  /\ proposals[p] \in ProposalRow
             /\ proposals[p].state \in
                  {"heldout_pending", "owner_review", "limited", "active"} =>
                    Clean(proposals[p].held_in)
             /\ proposals[p].state \in {"owner_review", "limited", "active"} =>
                    Clean(proposals[p].held_out)
             /\ proposals[p].state \in {"limited", "active"} =>
                    limited[p] # NoRecord
  BY <1>2, ProposalFacts DEF Inv, ProposalInv, Gates
<1>3. ASSUME NEW a \in Approvals, approvals[a] # NoApproval
      PROVE  approvals[a].digest \in ApprovalDigest
  <2> DEFINE d == approvals[a].digest
             Refers == [limited : {limited[p] : p \in Proposals},
                        sealed : Evals,
                        custody : {custody[p] : p \in Proposals}]
  <2>1. d \in RequestRow \cup MemoryDigest \cup ActiveDigest
    BY <1>3, ApprovalFacts DEF Inv
  <2>2. ASSUME d \in ActiveDigest
        PROVE  d \in Refers
    <3>1. /\ d.limited \in {limited[p] : p \in Proposals}
          /\ d.custody \in {custody[p] : p \in Proposals}
      BY <1>3, <2>2 DEF Inv, ApprovalsInv
    <3>2. /\ d.sealed \in Evals
          /\ d = [limited |-> d.limited, sealed |-> d.sealed,
                  custody |-> d.custody]
      <4> HIDE DEF d
      <4> QED BY <2>2 DEF ActiveDigest
    <3> HIDE DEF d
    <3> QED BY <3>1, <3>2
  <2> HIDE DEF Refers
  <2> QED BY <2>1, <2>2 DEF ApprovalDigest, RequestRow, MemoryDigest, Refers
<1>4. \A a \in Approvals : approvals[a] # NoApproval =>
        /\ approvals[a].requester # approvals[a].approver
        /\ approvals[a].seen \subseteq approvals[a].dated
  BY DEF Inv, ApprovalsInv
<1>5. ASSUME NEW m \in Memories, memories[m] # NoMemory
      PROVE  /\ memories[m] \in MemoryRow
             /\ waiting[m] # NoCall => waiting[m].lapsed \subseteq Approvals
             /\ Len(promoted[m]) =
                  CASE memories[m].status = "candidate" -> 0
                    [] memories[m].status = "limited"   -> 1
                    [] memories[m].status = "active"    -> 2
  <2>1. memories[m] \in MemoryRow
    BY <1>5 DEF Inv, PromotionType
  <2>2. waiting[m] # NoCall => waiting[m].lapsed \subseteq Approvals
    <3>1. waiting[m] # NoCall => waiting[m] \in CallRow
      BY DEF Inv, PromotionType
    <3> QED BY <3>1 DEF CallRow
  <2>3. /\ memories[m].status = "candidate" => promoted[m] = <<>>
        /\ memories[m].status = "limited" => Len(promoted[m]) = 1
        /\ memories[m].status = "active" => Len(promoted[m]) = 2
    BY <1>5 DEF Inv, MemoryInv
  <2>4. memories[m].status \in {"candidate", "limited", "active"}
    BY <2>1 DEF MemoryRow
  <2>5. Len(<<>>) = 0
    OBVIOUS
  <2>6. CASE memories[m].status = "candidate"
    <3>1. Len(promoted[m]) = 0
      BY <2>3, <2>5, <2>6
    <3> QED BY <2>1, <2>6, <2>2, <3>1
  <2>7. CASE memories[m].status = "limited"
    <3>1. Len(promoted[m]) = 1
      BY <2>3, <2>7
    <3> QED BY <2>1, <2>7, <2>2, <3>1
  <2>8. CASE memories[m].status = "active"
    <3>1. Len(promoted[m]) = 2
      BY <2>3, <2>8
    <3> QED BY <2>1, <2>8, <2>2, <3>1
  <2> QED BY <2>4, <2>6, <2>7, <2>8
<1> QED BY <1>1, <1>2, <1>3, <1>4, <1>5
        DEF Inv, PromotionType, TypeOK, EvalRow, ProposalRow, MemoryRow

(***************************************************************************)
(* Every table keeps its shape, and the columns of a proposal hold what    *)
(* its state says: the gates of attach_eval and of the promotions are      *)
(* passed in order, whatever evaluations, approvals and other proposals    *)
(* do in between.                                                          *)
(***************************************************************************)
THEOREM TypeCorrect == Spec => []TypeOK
BY InvHolds, TypeFollows, PTL

LEMMA FourEyesFollows == Inv => FourEyes
<1> SUFFICES ASSUME Inv, NEW p \in Proposals
             PROVE  /\ limited[p] # NoRecord =>
                         proposals[p].maker \notin
                           {limited[p].owner,
                            evals[limited[p].request.eval].evaluator}
                    /\ active[p] # NoRecord =>
                         Cardinality({active[p].record.maker,
                                      evals[active[p].record.sealed].evaluator,
                                      active[p].record.custodian,
                                      active[p].record.owner}) = 4
  BY DEF FourEyes
<1>1. limited[p] # NoRecord =>
        /\ evals[limited[p].request.eval].evaluator # proposals[p].maker
        /\ limited[p].owner # proposals[p].maker
  BY DEF Inv, LimitedInv
<1>2. active[p] # NoRecord =>
        Cardinality({active[p].record.maker,
                     evals[active[p].record.sealed].evaluator,
                     active[p].record.custodian, active[p].record.owner}) = 4
  BY DEF Inv, ActiveInv
<1> QED BY <1>1, <1>2

(***************************************************************************)
(* Nobody passes their own work.  The maker of a limited rule neither      *)
(* evaluated nor approved it, and four principals stand behind an active   *)
(* rule (promote and _assemble_active_rule_promotion_record), whatever     *)
(* roles the principals hold and whoever asks for the approvals.           *)
(***************************************************************************)
THEOREM FourEyesCorrect == Spec => []FourEyes
BY InvHolds, FourEyesFollows, PTL

LEMMA ThreeElements ==
  ASSUME NEW x, NEW y, NEW z, x # y, x # z, y # z
  PROVE  Cardinality({x, y, z}) = 3
<1>1. IsFiniteSet({x}) /\ Cardinality({x}) = 1
  BY FS_Singleton
<1>2. IsFiniteSet({x} \cup {y}) /\ Cardinality({x} \cup {y}) = 2
  BY <1>1, FS_AddElement
<1>3. Cardinality(({x} \cup {y}) \cup {z}) = 3
  BY <1>2, FS_AddElement
<1>4. ({x} \cup {y}) \cup {z} = {x, y, z}
  OBVIOUS
<1> QED BY <1>3, <1>4

LEMMA FreshDataFollows == Inv => ActiveOnFreshData
<1> SUFFICES ASSUME Inv
             PROVE  ActiveOnFreshData
  OBVIOUS
<1>1. ASSUME NEW p \in Proposals, proposals[p].state = "active"
      PROVE  LET row == proposals[p]
                 used == {row.held_in, row.held_out, row.sealed} IN
             /\ \A e \in used : Clean(e)
             /\ Cardinality({evals[e].data : e \in used}) = 3
             /\ row.sealed \notin limited[p].before
             /\ UseCount("sealed", evals[row.sealed].data, Recorded) = 1
  <2> DEFINE row == proposals[p]
             used == {row.held_in, row.held_out, row.sealed}
             d == evals[row.sealed].data
  <2>1. row # NoProposal
    BY <1>1, ProposalFacts DEF Inv, ProposalState
  <2>2. Columns(p) /\ Gates(p)
    BY <2>1 DEF Inv, ProposalInv
  <2>3. /\ row.sealed # None /\ Clean(row.sealed)
        /\ row.sealed \notin limited[p].before
    BY <1>1 DEF Inv, ActiveInv
  <2>4. /\ Clean(row.held_in) /\ Clean(row.held_out)
        /\ evals[row.held_out].data # evals[row.held_in].data
        /\ d # evals[row.held_in].data /\ d # evals[row.held_out].data
    BY <1>1, <2>2, <2>3 DEF Gates
  <2>5. {evals[e].data : e \in used}
          = {evals[row.held_in].data, evals[row.held_out].data, d}
    OBVIOUS
  <2>6. Cardinality({evals[e].data : e \in used}) = 3
    <3>1. Cardinality({evals[row.held_in].data, evals[row.held_out].data, d})
            = 3
      <4> HIDE DEF row, d
      <4> QED BY <2>4, ThreeElements
    <3> QED BY <2>5, <3>1
  <2>7. UseCount("sealed", d, Recorded) = 1
    <3>1. row.sealed \in Recorded /\ evals[row.sealed].split = "sealed"
      BY <2>2, <2>3 DEF Columns, Attached
    <3>2. {e \in Recorded : evals[e].split = "sealed" /\ evals[e].data = d}
            = {row.sealed}
      BY <3>1 DEF Inv, EvalsInv
    <3> QED BY <3>2, FS_Singleton DEF UseCount
  <2> QED BY <2>3, <2>4, <2>6, <2>7
<1>2. ASSUME NEW m \in Memories, Len(promoted[m]) = 2
      PROVE  LET first == promoted[m][1] second == promoted[m][2] IN
             /\ Clean(first) /\ Clean(second)
             /\ evals[first].data # evals[second].data
             /\ m \in evals[second].after
  <2>1. MemoryInv(m)
    BY DEF Inv
  <2>2. Len(<<>>) = 0
    OBVIOUS
  <2> QED BY <1>2, <2>1, <2>2 DEF MemoryInv
<1> QED BY <1>1, <1>2 DEF ActiveOnFreshData

(***************************************************************************)
(* What is active was confirmed on data nobody had tuned it on: three      *)
(* clean evaluations on three datasets, the sealed one used for sealed     *)
(* evaluation once (the burn in record_eval) and after the limited         *)
(* promotion; for a memory two clean held-out evaluations on two datasets, *)
(* the second dated after the limited promotion.                           *)
(***************************************************************************)
THEOREM FreshDataCorrect == Spec => []ActiveOnFreshData
BY InvHolds, FreshDataFollows, PTL

LEMMA ReadBackFollows == Inv => RecordsReadBack
<1> SUFFICES ASSUME Inv, NEW p \in Proposals, SourceStands,
                    proposals[p].state \in {"limited", "active"}
             PROVE  /\ proposals[p].state = "limited" /\ limited[p].timely =>
                         /\ LimitedVerifies(p)
                         /\ proposals[p].approval = limited[p].approval
                    /\ proposals[p].state = "active" => LimitedVerifies(p)
                    /\ proposals[p].state = "active" /\ active[p].timely =>
                         LET r == active[p].record
                             before == active[p].before IN
                         /\ ActiveAssembles(p, r.approval, before,
                                            active[p].timely)
                         /\ r = ActiveRecord(p, r.approval, before)
                         /\ proposals[p].approval = r.approval
  BY DEF RecordsReadBack
<1>1. proposals[p] # NoProposal
  BY ProposalFacts DEF Inv, ProposalState
<1>2. Columns(p) /\ Gates(p)
  BY <1>1 DEF Inv, ProposalInv
<1>3. /\ limited[p] # NoRecord
      /\ proposals[p].held_out # None /\ Clean(proposals[p].held_out)
  BY <1>2 DEF Gates
<1>4. LimitedInv(p) /\ ActiveInv(p)
  BY DEF Inv
<1>5. ASSUME limited[p].timely
      PROVE  LimitedVerifies(p)
  <2>1. Buildable(p, limited[p].before)
    BY <1>2, <1>3, <1>4 DEF Buildable, LimitedInv, Columns, Attached
  <2>2. Authorizes(limited[p].approval, p, "limited",
                   limited[p].request.eval, limited[p].request,
                   limited[p].timely)
    BY <1>3, <1>4, <1>5 DEF LimitedInv, Authorizes
  <2> QED BY <1>3, <1>4, <2>1, <2>2 DEF LimitedVerifies, LimitedInv
<1>6. proposals[p].state = "active" => LimitedVerifies(p)
  BY <1>4, <1>5 DEF ActiveInv
<1>7. ASSUME proposals[p].state = "active", active[p].timely
      PROVE  LET r == active[p].record
                 before == active[p].before IN
             /\ ActiveAssembles(p, r.approval, before, active[p].timely)
             /\ r = ActiveRecord(p, r.approval, before)
             /\ proposals[p].approval = r.approval
  <2>1. /\ evals[proposals[p].sealed].split = "sealed"
        /\ evals[proposals[p].sealed].cand = CandidateOf[p]
    BY <1>2, <1>4, <1>7 DEF ActiveInv, Columns, Attached
  <2>2. Authorizes(active[p].record.approval, p, "active",
                   proposals[p].sealed, ActiveRequest(p), active[p].timely)
    BY <1>4, <1>7 DEF ActiveInv, Authorizes
  <2> QED BY <1>4, <1>6, <1>7, <2>1, <2>2 DEF ActiveInv, ActiveAssembles
<1>8. proposals[p].state = "limited" =>
        proposals[p].approval = limited[p].approval
  BY <1>3, <1>4 DEF LimitedInv
<1> QED BY <1>5, <1>6, <1>7, <1>8

(***************************************************************************)
(* While the source stands, the record of a promoted rule is rebuilt from  *)
(* the tables exactly as promote wrote it                                  *)
(* (get_limited_rule_promotion_record, get_active_rule_promotion_record),  *)
(* whatever was evaluated, approved, attached elsewhere or lapsed since,   *)
(* unless its event was stamped after the approval had expired; and the    *)
(* limited record of an active rule always is.                             *)
(***************************************************************************)
THEOREM ReadBackCorrect == Spec => []RecordsReadBack
BY InvHolds, ReadBackFollows, PTL

-----------------------------------------------------------------------------
(* A rule is limited once. *)

LEMMA LimitedStays ==
  ASSUME Inv, Inv', [Next]_vars, NEW p \in Proposals, limited[p] # NoRecord
  PROVE  /\ limited'[p] = limited[p]
         /\ proposals'[p].state \in {"limited", "active", "rejected"}
         /\ proposals[p].state = "rejected" => proposals'[p].state = "rejected"
<1>1. /\ proposals[p].state \in {"limited", "active", "rejected"}
      /\ proposals[p] # NoProposal
  BY ProposalFacts DEF Inv, LimitedInv, ProposalState
<1>2. Gates(p)
  BY <1>1 DEF Inv, ProposalInv
<1>3. limited'[p] = limited[p]
  <2>1. CASE UNCHANGED limited
    BY <2>1
  <2>2. CASE \E q \in Proposals, a \in Approvals, late \in BOOLEAN :
               PromoteLimited(q, a, late)
    <3>1. PICK q \in Proposals, a \in Approvals, late \in BOOLEAN :
            PromoteLimited(q, a, late)
      BY <2>2
    <3>2. proposals[q].state = "owner_review" /\ q # p
      BY <1>1, <3>1 DEF PromoteLimited
    <3> QED BY <3>1, <3>2 DEF PromoteLimited, Inv, PromotionType
  <2> QED BY <2>1, <2>2 DEF Next, vars, SourceStep, BeginEval, RecordEval,
             Propose, AttachEval, RecordSealedCustody, ApproveLimited,
             ApproveActive, ApproveMemory, RecordApproval, Lapse,
             PromoteActive, CreateCandidate, ExpireMemory, BeginPromotion,
             RefusePromotion, PromoteMemory
<1>4. proposals'[p].state \in {"limited", "active", "rejected"}
  BY <1>3 DEF Inv, LimitedInv
<1>5. ASSUME proposals[p].state = "rejected"
      PROVE  proposals'[p].state = "rejected"
  <2>1. CASE UNCHANGED proposals
    BY <1>5, <2>1
  <2>2. CASE \E q \in Proposals, w \in Principals : Propose(q, w)
    <3>1. PICK q \in Proposals, w \in Principals : Propose(q, w)
      BY <2>2
    <3>2. q # p
      BY <1>1, <3>1 DEF Propose
    <3> QED BY <1>5, <3>1, <3>2 DEF Propose, Inv, PromotionType
  <2>3. CASE \E q \in Proposals, e \in Evals : AttachEval(q, e)
    <3>1. PICK q \in Proposals, e \in Evals : AttachEval(q, e)
      BY <2>3
    <3>2. CASE q # p
      BY <1>5, <3>1, <3>2 DEF AttachEval, Inv, PromotionType
    <3>3. CASE q = p
      <4>1. e \in Recorded /\ MayAttach(p, e)
        BY <3>1, <3>3 DEF AttachEval
      <4>2. proposals[p].held_in # None
        BY <1>2 DEF Gates
      <4>3. ~ evals[e].clean
        BY <1>5, <4>1, <4>2 DEF MayAttach
      <4>4. AttachTarget(e) = "rejected"
        BY <4>3 DEF AttachTarget
      <4>5. proposals[p] \in ProposalRow /\ evals[e].split \in Splits
        BY <1>1, <4>1, ProposalFacts, EvalFacts DEF Inv, Recorded, Begun
      <4>6. proposals'[p] = [[proposals[p] EXCEPT ![evals[e].split] = e]
                               EXCEPT !.state = "rejected"]
        BY <3>1, <3>3, <4>4, <4>5 DEF AttachEval, Inv, PromotionType
      <4> QED BY <4>5, <4>6 DEF ProposalRow
    <3> QED BY <3>2, <3>3
  <2>4. CASE \E q \in Proposals, a \in Approvals, late \in BOOLEAN :
               PromoteLimited(q, a, late) \/ PromoteActive(q, a, late)
    <3>1. PICK q \in Proposals, a \in Approvals, late \in BOOLEAN :
            PromoteLimited(q, a, late) \/ PromoteActive(q, a, late)
      BY <2>4
    <3>2. q # p
      BY <1>5, <3>1 DEF PromoteLimited, PromoteActive
    <3> QED BY <1>5, <3>1, <3>2
            DEF PromoteLimited, PromoteActive, Inv, PromotionType
  <2> QED BY <2>1, <2>2, <2>3, <2>4 DEF Next, vars, SourceStep, BeginEval,
             RecordEval, RecordSealedCustody, ApproveLimited,
             ApproveActive, ApproveMemory, RecordApproval, Lapse,
             CreateCandidate, ExpireMemory, BeginPromotion,
             RefusePromotion, PromoteMemory
<1> QED BY <1>3, <1>4, <1>5

(***************************************************************************)
(* A rule is promoted to limited once: attach_eval, promote and whatever   *)
(* runs beside them never rewrite its limited record, never take it back   *)
(* before limited, and never out of a rejection that came after.           *)
(***************************************************************************)
THEOREM LimitedOnceCorrect == Spec => LimitedOnce
<1> DEFINE Once ==
      \A p \in Proposals : limited[p] # NoRecord =>
        /\ limited'[p] = limited[p]
        /\ proposals'[p].state \in {"limited", "active", "rejected"}
        /\ proposals[p].state = "rejected" => proposals'[p].state = "rejected"
<1>1. Inv /\ Inv' /\ [Next]_vars => [Once]_vars
  BY LimitedStays
<1>2. Spec => [][Once]_vars
  BY <1>1, InvHolds, PTL DEF Spec
<1> QED BY <1>2 DEF LimitedOnce

=============================================================================
