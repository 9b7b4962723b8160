-------------------------- MODULE MCApprovalBroker --------------------------
(* Small instances of the approval broker. *)
EXTENDS ApprovalBroker, TLC

CONSTANTS s1, s2, c1, c2

\* One tool call per session.
MCSessionOf == c1 :> s1 @@ c2 :> s2

IdSymmetry == Permutations(Ids)

=============================================================================
