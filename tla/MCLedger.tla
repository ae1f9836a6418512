------------------------------ MODULE MCLedger ------------------------------
(* Constants of the run of Ledger. *)
EXTENDS Ledger, TLC

CONSTANTS t, boss, ops

(* The owner's session expires during the run. *)
RolesOf == [s \in Sessions |-> IF s = boss THEN {"owner"}
                                           ELSE {"worker", "system"}]
Expiry == [s \in Sessions |-> IF s = boss THEN 1 ELSE MaxNow + 1]

Symmetric == Permutations(Keys)

=============================================================================
