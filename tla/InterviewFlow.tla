---------------------------- MODULE InterviewFlow ----------------------------
(***************************************************************************)
(* What an interview promises, seen from outside: it is prepared once,     *)
(* then asks one question at a time, hears exactly one answer to it and    *)
(* assesses it before the next one; it never asks more questions than the  *)
(* credit the plan granted; it closes with a report, which a human may     *)
(* have to rule on; and it may fail whenever the runtime, and not the      *)
(* candidate or the reviewer, has the turn.                                *)
(***************************************************************************)
EXTENDS Naturals

VARIABLES
    phase,   \* whose turn it is, and for what
    credit   \* questions, follow-ups included, that may still be asked

flowVars == <<phase, credit>>

Phases == {"setup", "ask", "listen", "assess", "report", "review", "closed", "failed"}

\* Phases in which the runtime has the turn.
RuntimePhases == {"setup", "ask", "assess", "report"}

FlowTypeOK == phase \in Phases /\ credit \in Nat

FlowInit == phase = "setup" /\ credit = 0

Prepare == phase = "setup" /\ phase' = "ask" /\ credit' \in Nat

Ask == /\ phase = "ask" /\ credit > 0
       /\ phase' = "listen" /\ credit' = credit - 1

Hear == phase = "listen" /\ phase' = "assess" /\ UNCHANGED credit

Continue == phase = "assess" /\ credit > 0 /\ phase' = "ask" /\ UNCHANGED credit

Conclude == phase = "assess" /\ phase' = "report" /\ UNCHANGED credit

Deliver == phase = "report" /\ phase' \in {"closed", "review"} /\ UNCHANGED credit

Rule == phase = "review" /\ phase' \in {"closed", "failed"} /\ UNCHANGED credit

\* The credit of a question that was granted and never asked is lost.
Fail == phase \in RuntimePhases /\ phase' = "failed" /\ credit' \in 0..credit

FlowNext ==
    \/ Prepare \/ Ask \/ Hear \/ Continue \/ Conclude \/ Deliver \/ Rule \/ Fail

FlowSpec == FlowInit /\ [][FlowNext]_flowVars
=============================================================================
