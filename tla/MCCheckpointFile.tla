--------------------------- MODULE MCCheckpointFile ---------------------------
(***************************************************************************)
(* Instances of CheckpointFile for TLC.                                    *)
(***************************************************************************)
EXTENDS CheckpointFile

CONSTANTS t1, t2, q1, q2, p1, g1

MCTools == {t1, t2}
MCQuestions == {q1, q2}
MCPoints == {p1}
MCTargets == {g1}
MCScores == {60, 90}
=============================================================================
