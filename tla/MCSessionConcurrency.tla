------------------------ MODULE MCSessionConcurrency ------------------------
(***************************************************************************)
(* Instances of SessionConcurrency for TLC.                                *)
(***************************************************************************)
EXTENDS SessionConcurrency, TLC

Symmetry == Permutations(Callers) \cup Permutations(MainQuestions)
=============================================================================
