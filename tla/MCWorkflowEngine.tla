--------------------------- MODULE MCWorkflowEngine ---------------------------
(***************************************************************************)
(* Small graphs for the workflow engine: for one worker the shape of the   *)
(* real one, a required first step, an optional collector and the required *)
(* steps behind it; for several workers a shorter chain.                   *)
(***************************************************************************)
EXTENDS WorkflowEngine, TLC

CONSTANTS plan, dns, score, report

\* Three steps, for several workers: an optional one that has nothing to do, one
\* that nothing puts aside, and one that rests on it.
RaceSteps == {dns, score, report}
RaceOrder == << dns, score, report >>
RaceDeps == dns :> {} @@ score :> {dns} @@ report :> {score}
RaceOptional == {dns}
RaceMaxAttempts == dns :> 1 @@ score :> 2 @@ report :> 1
RacePhase == dns :> "evaluating" @@ score :> "evaluating" @@ report :> "evaluating"
RaceOutcomes == dns :> {"skip"} @@ score :> {"ok", "retry"} @@ report :> {"ok", "retry"}

\* Four steps, for one worker.
ChainSteps == {plan, dns, score, report}
ChainOrder == << plan, dns, score, report >>
ChainDeps == plan :> {} @@ dns :> {plan} @@ score :> {dns} @@ report :> {score}
ChainOptional == {dns}
ChainMaxAttempts == plan :> 1 @@ dns :> 3 @@ score :> 2 @@ report :> 2
ChainPhase ==
    plan :> "planning" @@ dns :> "collecting" @@ score :> "evaluating"
      @@ report :> "report_generation"
ChainOutcomes ==
    plan :> {"ok", "retry"} @@ dns :> {"ok", "skip", "retry", "fail"}
      @@ score :> {"ok", "retry", "fail"} @@ report :> {"ok", "retry", "fail"}

\* The same steps, all of them required and tried once: what a failure of one
\* puts aside while it runs.
StrictOptional == {}
StrictMaxAttempts == [s \in RaceSteps |-> 1]
StrictOutcomes == [s \in RaceSteps |-> IF s = score THEN {"ok", "fail"} ELSE {"ok"}]

Symmetry == Permutations(Workers)
=============================================================================
