---------------------------- MODULE MCAssessmentRun ----------------------------
EXTENDS AssessmentRun

ASSUME RunAssumption == OnAssessmentGraph

MCCollectors == {"collect.dns", "collect.asn"}

\* Any handler may raise once; the steps the evidence does not pass through
\* only succeed.
MCOutcomes ==
    [s \in AssessmentSteps |->
       CASE s = "collect.asn" -> {"ok", "skip", "retry"}
         [] s = "collect.dns" -> {"ok", "retry", "fail"}
         [] s = "normalize" -> {"ok", "retry", "fail"}
         [] s \in {"evaluate", "score"} -> {"ok", "retry"}
         [] s = "report" -> {"ok", "fail", "retry"}
         [] OTHER -> {"ok"}]

MCAttempts == [s \in AssessmentSteps |-> IF s = "agent_analysis" THEN 1 ELSE 2]
=============================================================================
