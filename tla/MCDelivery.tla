----------------------------- MODULE MCDelivery -----------------------------
(* Constants of the runs of Delivery. *)
EXTENDS Delivery, TLC

CONSTANTS a, b, maker, checker, probe

TargetOf == [t \in Tasks |-> "runtime"]
Ungated == [t \in Tasks |-> "none"]
Merged == [t \in Tasks |-> "merge"]

RolesHeld == [p \in Principals |->
               CASE p = maker -> {"worker", "evaluator"}
                 [] p = checker -> {"evaluator"}
                 [] OTHER -> {"observer"}]

Reports == {[task |-> t, kind |-> "report", producer |-> maker] : t \in Tasks}

OnTargetClaims == {<<"runtime", "pass">>, <<"runtime", "not_required">>}
AllClaims == OnTargetClaims \cup {<<"structure", "pass">>,
                                  <<"runtime", "fail">>}

Moves == {<<"ready", "leased">>, <<"leased", "running">>,
          <<"running", "evidence_pending">>, <<"running", "failed">>,
          <<"integration_pending", "blocked">>, <<"blocked", "ready">>,
          <<"delivered", "retired">>}

ItemSymmetry == Permutations(Items)

=============================================================================
