-------------------------- MODULE MCWorkstreamPlan --------------------------
(* Small instances of a workstream plan. *)
EXTENDS WorkstreamPlan, TLC

TwoDefinitions == {<<"build", "verify">>, <<"verify">>}

Symmetry == Permutations(Runs) \cup Permutations(Operators)

=============================================================================
