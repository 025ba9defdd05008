------------------------------ MODULE StepGraph ------------------------------
(***************************************************************************)
(* The step graph of workflows/graph.py: which steps may start, which can  *)
(* never start, and what a run amounts to once nothing is left to do.  A   *)
(* step the database has no row for counts as pending.                     *)
(***************************************************************************)
EXTENDS Naturals, Sequences, Lifecycle

CONSTANTS
    Steps,        \* the names of the steps
    Order,        \* the steps in the order the graph declares them
    Deps,         \* Deps[s]: the steps s depends on
    Optional,     \* the steps a run can finish without
    MaxAttempts,  \* MaxAttempts[s]: the attempts s may spend
    Phase         \* Phase[s]: the lifecycle state s runs in

ASSUME GraphAssumption ==
    /\ Steps # {}
    /\ Order \in [1..Len(Order) -> Steps]
    /\ {Order[i] : i \in 1..Len(Order)} = Steps
    /\ \A i, j \in 1..Len(Order) : Order[i] = Order[j] => i = j
    /\ Deps \in [Steps -> SUBSET Steps]
    /\ Optional \subseteq Steps
    /\ MaxAttempts \in [Steps -> Nat \ {0}]
    /\ Phase \in [Steps -> RunningStates]

\* The graph is acyclic: a step set in which every step waits for another one
\* of the set is empty.
ASSUME AcyclicAssumption ==
    \A S \in (SUBSET Steps) \ {{}} : \E s \in S : Deps[s] \cap S = {}

FailedStates == {"failed", "dead_lettered"}

TerminalStepStates == FailedStates \cup {"succeeded", "skipped", "cancelled"}

StepStates == TerminalStepStates \cup {"pending", "running"}

DependencySettled(d, states) ==
    \/ states[d] = "succeeded"
    \/ states[d] \in FailedStates \cup {"skipped"} /\ d \in Optional

Ready(states) ==
    {s \in Steps : /\ states[s] = "pending"
                   /\ \A d \in Deps[s] : DependencySettled(d, states)}

Blocked(states) ==
    {s \in Steps :
        /\ states[s] = "pending"
        /\ \E d \in Deps[s] :
              \/ states[d] \in FailedStates \cup {"skipped"} /\ d \notin Optional
              \/ states[d] = "cancelled"}

NoOutcome == "none"

Outcome(states) ==
    LET pending == {s \in Steps : states[s] \notin TerminalStepStates}
        failed == {s \in Steps : states[s] \in FailedStates}
    IN  IF \E s \in Steps : states[s] = "cancelled" THEN "cancelled"
        ELSE IF Ready(states) # {} \/ (pending # {} /\ Blocked(states) = {}) THEN NoOutcome
        ELSE IF failed \ Optional # {} THEN "failed"
        ELSE IF failed # {} THEN "partially_completed"
        ELSE "completed"

\* The first step of a set in the order of the graph.
FirstOf(S) ==
    Order[CHOOSE i \in 1..Len(Order) :
            Order[i] \in S /\ \A j \in 1..Len(Order) : Order[j] \in S => i <= j]
=============================================================================
