------------------------------ MODULE DurableRun ------------------------------
(***************************************************************************)
(* What the workflow engine promises about one run, without deliveries,    *)
(* leases or keys: every step settles once, after the steps it depends on; *)
(* the run settles once, after all of its steps, and says what they        *)
(* amount to; only a cancelled run leaves work undone that could be done.  *)
(***************************************************************************)
EXTENDS StepGraph

VARIABLES
    step,       \* step[s]: "pending" until s settles, then how it settled
    verdict,    \* NoOutcome until the run settles, then how it settled
    cancelled   \* somebody asked for the run to be cancelled

durableVars == << step, verdict, cancelled >>

DurableInit ==
    /\ step = [s \in Steps |-> "pending"]
    /\ verdict = NoOutcome
    /\ cancelled = FALSE

\* A step that may start settles, with whatever its handler reported; only the
\* handler of an optional step may report that it had nothing to do.
Settle(s) ==
    /\ verdict = NoOutcome
    /\ s \in Ready(step)
    /\ \E outcome \in FailedStates \cup {"succeeded"}
                      \cup (IF s \in Optional THEN {"skipped"} ELSE {}) :
          step' = [step EXCEPT ![s] = outcome]
    /\ UNCHANGED << verdict, cancelled >>

\* A step that can never start is put aside.
PutAside(s) ==
    /\ verdict = NoOutcome
    /\ s \in Blocked(step)
    /\ step' = [step EXCEPT ![s] = "skipped"]
    /\ UNCHANGED << verdict, cancelled >>

AskToCancel ==
    /\ verdict = NoOutcome
    /\ cancelled' = TRUE
    /\ UNCHANGED << step, verdict >>

CancelOpenStep(s) ==
    /\ cancelled
    /\ verdict = NoOutcome
    /\ step[s] = "pending"
    /\ step' = [step EXCEPT ![s] = "cancelled"]
    /\ UNCHANGED << verdict, cancelled >>

\* A cancellation that comes after the last step still cancels the run.
Conclude ==
    /\ verdict = NoOutcome
    /\ \A s \in Steps : step[s] \in TerminalStepStates
    /\ \/ verdict' = Outcome(step)
       \/ cancelled /\ verdict' = "cancelled"
    /\ UNCHANGED << step, cancelled >>

DurableNext ==
    \/ \E s \in Steps : Settle(s) \/ PutAside(s) \/ CancelOpenStep(s)
    \/ AskToCancel
    \/ Conclude

DurableSpec == DurableInit /\ [][DurableNext]_durableVars
=============================================================================
