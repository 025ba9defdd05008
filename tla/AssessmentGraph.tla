---------------------------- MODULE AssessmentGraph ----------------------------
(***************************************************************************)
(* The graph of an assessment, ASSESSMENT_GRAPH of workflows/graph.py, over*)
(* a subset of its collectors.                                             *)
(***************************************************************************)
EXTENDS StepGraph

CONSTANT Collectors  \* the collectors that take part

\* COLLECTION_STEPS and DEPENDENT_COLLECTION_STEPS.
CollectorOrder ==
    << "collect.dns", "collect.email", "collect.tls", "collect.http", "collect.rdap",
       "collect.ct", "collect.reputation", "collect.ports", "collect.asn",
       "collect.mail_tls" >>

ASSUME CollectorAssumption ==
    Collectors \subseteq {CollectorOrder[i] : i \in 1..Len(CollectorOrder)}

AssessmentOrder ==
    << "plan" >>
      \o SelectSeq(CollectorOrder, LAMBDA c : c \in Collectors)
      \o << "normalize", "evaluate", "score", "assess.assets", "findings",
            "agent_analysis", "report" >>

AssessmentSteps ==
    {"plan"} \cup Collectors
      \cup {"normalize", "evaluate", "score", "assess.assets", "findings",
            "agent_analysis", "report"}

\* The collectors that read the evidence of another collector.
ReadsFrom(c) ==
    CASE c = "collect.asn" -> "collect.dns"
      [] c = "collect.mail_tls" -> "collect.email"
      [] OTHER -> "plan"

\* Mutant of AssessmentDeps: findings wait only for the optional step before.
AssessmentDepsWithoutScore ==
    [s \in AssessmentSteps |->
       CASE s = "plan" -> {}
         [] s \in Collectors -> {ReadsFrom(s)}
         [] s = "normalize" -> Collectors
         [] s = "evaluate" -> {"normalize"}
         [] s = "score" -> {"evaluate"}
         [] s = "assess.assets" -> {"score"}
         [] s = "findings" -> {"assess.assets"}
         [] s \in {"agent_analysis", "report"} -> {"findings"}]

AssessmentDeps ==
    [s \in AssessmentSteps |->
       CASE s = "plan" -> {}
         [] s \in Collectors -> {ReadsFrom(s)}
         [] s = "normalize" -> Collectors
         [] s = "evaluate" -> {"normalize"}
         [] s = "score" -> {"evaluate"}
         [] s = "assess.assets" -> {"score"}
         [] s = "findings" -> {"score", "assess.assets"}
         [] s \in {"agent_analysis", "report"} -> {"findings"}]

AssessmentOptional == Collectors \cup {"assess.assets", "agent_analysis"}

AssessmentAttempts ==
    [s \in AssessmentSteps |-> IF s = "agent_analysis" THEN 1 ELSE 3]

AssessmentPhase ==
    [s \in AssessmentSteps |->
       CASE s = "plan" -> "planning"
         [] s \in Collectors -> "collecting"
         [] s = "normalize" -> "normalizing"
         [] s \in {"evaluate", "score", "assess.assets", "findings"} -> "evaluating"
         [] s = "agent_analysis" -> "agent_analysis"
         [] s = "report" -> "report_generation"]
================================================================================
