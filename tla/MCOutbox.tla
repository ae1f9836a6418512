------------------------------ MODULE MCOutbox ------------------------------
(***************************************************************************)
(* Constants for the outbox runs.  Effects e1 and e2 compete for one step  *)
(* under one worker's grant; e3 is another step's, of an integration       *)
(* capability of the system principal.                                     *)
(***************************************************************************)
EXTENDS Outbox, TLC

CONSTANTS e1, e2, e3, g1, g2, s1, s2, t1, w1

MCTaskOf == [s \in Steps |-> t1]
MCStepOf == [g \in Grants |-> IF g = g1 THEN s1 ELSE s2]
MCGrantOf == [e \in Effects |-> IF e = e3 THEN g2 ELSE g1]
MCPrincipalOf == [g \in Grants |-> IF g = g1 THEN w1 ELSE System]
MCMaxUses == [g \in Grants |-> 1]

ProcessSymmetry == Permutations(Callers) \cup Permutations(Recoverers)

=============================================================================
