------------------------------ MODULE MCGrants ------------------------------
(* Constants of the run of Grants. *)
EXTENDS Grants, TLC

CONSTANTS olive, pat, ta, tb, qa, qb, provider

OfferedRoles == [x \in Principals |->
                  IF x = olive THEN {{"owner"}}
                           ELSE {{"owner", "worker"}, {"worker"}}]

Versions == [x \in Principals |-> IF x = pat THEN 2 ELSE 1]

TasksOf == [q \in Requests |-> IF q = qa THEN ta ELSE tb]
Provider == [q \in Requests |-> "provider_cost"]
OneTarget == [q \in Requests |-> provider]
TaskBudgets == [t \in Bound |-> 1]

StartStates == [t \in Tasks |-> "running"]
MovesMade == [t \in Tasks |-> IF t = ta
                                THEN {<<"running", "evidence_pending">>}
                                ELSE {}]

DecisionsMade == {<<qa, "approved">>, <<qa, "denied">>, <<qb, "approved">>}

OneLimit == {<<1, 1>>}

Symmetric == Permutations(Sessions) \cup Permutations(Approvals)
               \cup Permutations(GrantIds)

=============================================================================
