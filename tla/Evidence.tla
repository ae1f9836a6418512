------------------------------ MODULE Evidence ------------------------------
(***************************************************************************)
(* The rules of companyos_runtime/evidence.py: who may register which      *)
(* artifact, and what an evidence claim may say given who verifies it,     *)
(* where, and on which artifacts.  Constant operators, no state.           *)
(***************************************************************************)

Role ==
  {"owner", "system", "worker", "evaluator", "release", "observer",
   "provider_attestor", "human_acceptor", "business_reviewer"}

EvidenceState ==
  {"structure", "runtime", "provider_smoke", "human_acceptance",
   "business_validation", "durable_memory_promotion",
   "active_rule_promotion"}

EvaluatorVerdict == {"not_required", "pending", "pass", "pass_with_risk",
                     "fail", "blocked"}

PASSING_EVALUATOR == {"pass", "pass_with_risk"}

PASSING_EVIDENCE == {"not_required"} \cup PASSING_EVALUATOR

(* Where a claim was made.  classify_evidence_environment sorts the names  *)
(* into these three, after decoding and canonicalising them.               *)
Reality == {"real", "non_real", "unknown"}

(* The artifact kinds the rules tell apart; "report" is any other one. *)
ArtifactKind ==
  {"report", "provider_receipt", "human_acceptance", "business_validation",
   "heldout_eval", "owner_approval", "rule_promotion_record"}

ArtifactProducerRoles ==
  {"worker", "system", "provider_attestor", "human_acceptor",
   "business_reviewer"}

(* _ARTIFACT_KIND_ROLES *)
ArtifactKindRoles(kind) ==
  CASE kind = "provider_receipt"      -> {"provider_attestor"}
    [] kind = "human_acceptance"      -> {"human_acceptor"}
    [] kind = "business_validation"   -> {"business_reviewer"}
    [] kind = "heldout_eval"          -> {"evaluator"}
    [] kind = "owner_approval"        -> {"owner"}
    [] kind = "rule_promotion_record" -> {"system"}
    [] OTHER                          -> {}

(* _authorize_artifact_producer *)
MayProduce(roles, kind) ==
  /\ roles \cap ArtifactProducerRoles # {}
  /\ ArtifactKindRoles(kind) \subseteq roles

(* _STATE_VERIFIER_ROLES *)
StateVerifierRoles(state) ==
  CASE state = "provider_smoke"           -> {"provider_attestor"}
    [] state = "human_acceptance"         -> {"human_acceptor"}
    [] state = "business_validation"      -> {"business_reviewer"}
    [] state = "durable_memory_promotion" -> {"evaluator"}
    [] state = "active_rule_promotion"    -> {"evaluator"}
    [] OTHER                              -> {}

RequiredKinds(state) ==
  CASE state = "provider_smoke"        -> {"provider_receipt"}
    [] state = "human_acceptance"      -> {"human_acceptance"}
    [] state = "business_validation"   -> {"business_validation"}
    [] state = "active_rule_promotion" ->
         {"heldout_eval", "owner_approval", "rule_promotion_record"}
    [] OTHER                           -> {}

(* Any verdict may be given by whoever holds the roles, its maker included. *)
EnforceProvenanceOfAnyone(state, env, verdict, verifier, roles, arts) ==
  /\ env = "non_real" => state \in {"structure", "runtime"}
  /\ StateVerifierRoles(state) \subseteq roles
  /\ verdict \in PASSING_EVALUATOR => "evaluator" \in roles
  /\ RequiredKinds(state) \subseteq {a.kind : a \in arts}

(***************************************************************************)
(* _enforce_provenance.  Nothing but structure and runtime can be proved   *)
(* in a simulated environment; some states need a role; a passing verdict  *)
(* needs an evaluator, and one who produced none of the artifacts.         *)
(***************************************************************************)
EnforceProvenance(state, env, verdict, verifier, roles, arts) ==
  /\ env = "non_real" => state \in {"structure", "runtime"}
  /\ StateVerifierRoles(state) \subseteq roles
  /\ verdict \in PASSING_EVALUATOR => "evaluator" \in roles
  /\ \/ verdict \in PASSING_EVALUATOR
     \/ state \in {"durable_memory_promotion", "active_rule_promotion"}
     => verifier \notin {a.producer : a \in arts}
  /\ RequiredKinds(state) \subseteq {a.kind : a \in arts}

=============================================================================
