---------------------------- MODULE MCAccountPool ----------------------------
(***************************************************************************)
(* Instances of AccountPool for TLC.                                       *)
(***************************************************************************)
EXTENDS AccountPool, TLC

CONSTANTS a1, a2, q1, q2, q3

OneAccount  == {a1}
TwoAccounts == {a1, a2}
OneRequest  == {q1}
TwoRequests == {q1, q2}
ThreeRequests == {q1, q2, q3}

FreePlan    == [a \in Accounts |-> "free"]
PremiumPlan == [a \in Accounts |-> "plus"]

RequestSymmetry == Permutations(Requests)
Symmetry        == Permutations(Accounts) \cup Permutations(Requests)

=============================================================================
