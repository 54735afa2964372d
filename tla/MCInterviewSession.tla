-------------------------- MODULE MCInterviewSession --------------------------
(***************************************************************************)
(* Instances of InterviewSession for TLC.                                  *)
(***************************************************************************)
EXTENDS InterviewSession, TLC

\* Scores on both sides of the thresholds 65, 80 and 82.
AllScores == {50, 70, 80, 90}
FewScores == {50, 90}

\* The second dimension outweighs the first, so plan order and weight disagree.
OneWeight == <<100>>
TwoWeights == <<40, 60>>
\* Two dimensions tie.
ThreeWeights == <<30, 40, 30>>

Symmetry == Permutations(Targets)
=============================================================================
