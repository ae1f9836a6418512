---------------------------- MODULE MCPromotion ----------------------------
(* Constants of the run of Promotion. *)
EXTENDS Promotion, TLC

CONSTANTS p, m, other, cy, dana, ed, olga, d1, d2, d3

(* Roles overlap: only the checks keep the four apart. *)
RolesHeld == [w \in Principals |->
  CASE w = dana -> {"worker", "evaluator", "owner"}
    [] w = ed   -> {"evaluator"}
    [] w = cy   -> {}
    [] w = olga -> {"owner"}]

Candidate == [s \in Subjects |-> s]

Result(cand, split, data, evaluator, clean) ==
  [cand |-> cand, split |-> split, data |-> data, evaluator |-> evaluator,
   clean |-> clean]

Inputs ==
  {Result(p, "held_in", d1, ed, TRUE),
   Result(p, "held_out", d2, ed, TRUE),
   Result(p, "held_out", d2, dana, TRUE),
   Result(p, "held_out", d1, ed, FALSE),
   Result(p, "sealed", d2, ed, TRUE),
   Result(p, "sealed", d3, ed, TRUE),
   Result(other, "sealed", d3, ed, TRUE),
   Result(m, "held_out", d1, ed, TRUE),
   Result(m, "held_out", d2, ed, TRUE)}

Symmetric == Permutations(Evals) \cup Permutations(Approvals)

=============================================================================
