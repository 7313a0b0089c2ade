-------------------------- MODULE MCSessionRegistry --------------------------
(* Requests of one kind are interchangeable.                                 *)
EXTENDS SessionRegistry, TLC

MCSymmetry == Permutations(Resumes) \union Permutations(Deletes)
=============================================================================
