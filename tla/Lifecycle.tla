------------------------------ MODULE Lifecycle ------------------------------
(***************************************************************************)
(* The assessment lifecycle of workflows/lifecycle.py: the states of a run,*)
(* the moves that are legal between them, and the walk the engine takes    *)
(* when it carries a run forward to the phase of a step.                   *)
(***************************************************************************)
EXTENDS Naturals, Sequences

Phases == << "draft", "awaiting_authorization", "queued", "planning",
             "collecting", "normalizing", "evaluating", "agent_analysis",
             "report_generation", "completed" >>

ReopenableStates == {"failed", "partially_completed"}

TerminalStates ==
    ReopenableStates \cup {"completed", "cancelled", "expired", "blocked_by_policy"}

RunningStates == {Phases[i] : i \in 4..9}

AssessmentStates == {Phases[i] : i \in 1..10} \cup TerminalStates

\* The one state that follows on the happy path, before the universal edges.
ForwardEdges(state) ==
    IF state = "report_generation"
    THEN {"completed", "partially_completed"}
    ELSE {Phases[i + 1] : i \in {j \in 1..9 : Phases[j] = state}}

Transitions(state) ==
    CASE state \in ReopenableStates -> RunningStates
      [] state \in TerminalStates \ ReopenableStates -> {}
      [] OTHER ->
           ForwardEdges(state)
             \cup {"cancelled", "blocked_by_policy", "expired"}
             \cup (IF state \in RunningStates
                   THEN {"failed", "partially_completed"} ELSE {})
             \cup (IF state = "evaluating" THEN {"report_generation"} ELSE {})

CanTransition(current, target) == target \in Transitions(current)

\* assert_transition: the moves that set_state lets through.
LegalMove(current, target) ==
    /\ current # target
    /\ current \notin TerminalStates \ ReopenableStates
    /\ CanTransition(current, target)

\* phase_index raises on a state that is off the happy path.
OnHappyPath(state) ==
    state \in ReopenableStates \cup {Phases[i] : i \in 1..10}

PhaseIndex(state) ==
    IF state \in ReopenableStates
    THEN 3
    ELSE CHOOSE i \in 1..10 : Phases[i] = state

\* The walk of forward_path: next_phase is followed from cursor to cursor, and
\* the target is appended from the first cursor that may move to it directly.
ForwardPath(current, target) ==
    LET from == PhaseIndex(current)
        to == PhaseIndex(target)
        Cursor(i) == IF i = from THEN current ELSE Phases[i]
        Jumps == {i \in from..(to - 1) : CanTransition(Cursor(i), target)}
        last == CHOOSE i \in Jumps : \A j \in Jumps : i <= j
    IN  IF current = target \/ from >= to
        THEN << >>
        ELSE [i \in 1..(last - from) |-> Phases[from + i]] \o << target >>
=============================================================================
