-------------------------- MODULE WorkflowEngineProofs --------------------------
(***************************************************************************)
(* Proofs about the step graph and the workflow engine, for every graph    *)
(* the constructor accepts and any number of workers.  In order: the       *)
(* lifecycle and the graph (facts without a state); Invariance (IndInv:    *)
(* types and WorkRestsOnWork); Leases (LeaseInv: exclusion and work done   *)
(* once); Budget (BudgetInv: the attempts of a step); Order (OrderInv:     *)
(* what one worker may assume of a run nobody else touches); Refinement    *)
(* (PromiseInv: the engine implements DurableRun); Verdict (VerdictInv: a  *)
(* completed run did its work); and an assessment on the engine            *)
(* (EvidenceInv, CoherenceInv), which alone needs the graph of an          *)
(* assessment.  Each section states the conditions on the constants that   *)
(* it needs.                                                               *)
(***************************************************************************)
EXTENDS AssessmentRun, SequenceTheorems, WellFoundedInduction, TLAPS

(***************************************************************************)
(* The walk of forward_path is well defined: from every state on the happy *)
(* path it reaches every running phase that lies ahead.                    *)
(***************************************************************************)

\* Every set of natural numbers has a least member.
LEMMA LeastNumber ==
    ASSUME NEW S, S \subseteq Nat, S # {}
    PROVE  \E i \in S : \A j \in S : i <= j
<1>1. PICK i \in S : \A j \in S : ~(<< j, i >> \in OpToRel(<, Nat))
    BY NatLessThanWellFounded, WFMin
<1>2. \A j \in S : ~(j < i)
    BY <1>1 DEF OpToRel
<1> QED
    BY <1>2

LEMMA PhaseIsState == \A i \in 1..10 : Phases[i] \in AssessmentStates
    BY DEF AssessmentStates

\* The index of a state that is on the happy path and is not reopenable.
LEMMA PhaseIndexOfPhase ==
    ASSUME NEW state, OnHappyPath(state), state \notin ReopenableStates
    PROVE  /\ PhaseIndex(state) \in 1..10
           /\ Phases[PhaseIndex(state)] = state
<1>1. \E i \in 1..10 : Phases[i] = state
    BY DEF OnHappyPath
<1> QED
    BY <1>1 DEF PhaseIndex

LEMMA PhaseIndexType ==
    ASSUME NEW state, OnHappyPath(state)
    PROVE  PhaseIndex(state) \in 1..10
<1>1. CASE state \in ReopenableStates
    BY <1>1 DEF PhaseIndex
<1>2. CASE state \notin ReopenableStates
    BY <1>2, PhaseIndexOfPhase
<1> QED
    BY <1>1, <1>2

\* A running phase is a phase, between planning and report generation.
LEMMA RunningPhase ==
    ASSUME NEW target \in RunningStates
    PROVE  /\ OnHappyPath(target)
           /\ target \notin TerminalStates
           /\ PhaseIndex(target) \in 4..9
           /\ Phases[PhaseIndex(target)] = target
<1>1. target \in {"planning", "collecting", "normalizing", "evaluating",
                  "agent_analysis", "report_generation"}
    BY DEF RunningStates, Phases
<1>2. target \notin TerminalStates
    BY <1>1 DEF TerminalStates, ReopenableStates
<1>3. OnHappyPath(target)
    BY DEF RunningStates, OnHappyPath
<1>4. /\ PhaseIndex(target) \in 1..10
      /\ Phases[PhaseIndex(target)] = target
    BY <1>2, <1>3, PhaseIndexOfPhase DEF TerminalStates
<1>5. PhaseIndex(target) \in 4..9
    BY <1>1, <1>4 DEF Phases
<1> QED
    BY <1>2, <1>3, <1>4, <1>5

\* Each phase before the last running one may be followed by the next one.
LEMMA NextPhaseIsLegal ==
    ASSUME NEW i \in 1..8
    PROVE  CanTransition(Phases[i], Phases[i + 1])
<1>1. Phases[i] \notin TerminalStates /\ Phases[i] # "report_generation"
    BY DEF Phases, TerminalStates, ReopenableStates
<1>2. Phases[i + 1] \in ForwardEdges(Phases[i])
    BY <1>1 DEF ForwardEdges
<1>3. Phases[i] \notin ReopenableStates
    BY <1>1 DEF TerminalStates
<1> QED
    BY <1>1, <1>2, <1>3 DEF CanTransition, Transitions

\* And set_state lets the move through.
LEMMA NextPhaseIsLegalMove ==
    ASSUME NEW i \in 1..8
    PROVE  LegalMove(Phases[i], Phases[i + 1])
<1>1. Phases[i] # Phases[i + 1] /\ Phases[i] \notin TerminalStates
    BY DEF Phases, TerminalStates, ReopenableStates
<1> QED
    BY <1>1, NextPhaseIsLegal DEF LegalMove

\* No phase comes twice, and none before the last is final.
LEMMA PhaseIsOpen ==
    ASSUME NEW i \in 1..8
    PROVE  Phases[i] \notin TerminalStates
BY DEF Phases, TerminalStates, ReopenableStates

LEMMA PhasesDiffer ==
    ASSUME NEW i \in 1..8, NEW j \in 4..9, i < j
    PROVE  Phases[i] # Phases[j]
<1>1. i \in {1, 2, 3, 4, 5, 6, 7, 8} /\ j \in {4, 5, 6, 7, 8, 9}
    OBVIOUS
<1> QED
    BY <1>1 DEF Phases

\* A state ahead of which there is a running phase is not a final one.
LEMMA EarlyStateIsNotFinal ==
    ASSUME NEW state, OnHappyPath(state), PhaseIndex(state) < 9
    PROVE  state \notin TerminalStates \ ReopenableStates
<1>1. CASE state \in ReopenableStates
    BY <1>1
<1>2. CASE state \notin ReopenableStates
    <2>1. PhaseIndex(state) \in 1..8 /\ Phases[PhaseIndex(state)] = state
        BY <1>2, PhaseIndexOfPhase
    <2> QED
        BY <2>1 DEF Phases, TerminalStates, ReopenableStates
<1> QED
    BY <1>1, <1>2

\* The walk goes through the n phases after the current one, and from the last
\* of them the target is one move away.
LEMMA ForwardPathShape ==
    ASSUME NEW current, OnHappyPath(current), NEW target \in RunningStates,
           PhaseIndex(current) < PhaseIndex(target)
    PROVE  \E n \in 0..(PhaseIndex(target) - 1 - PhaseIndex(current)) :
              /\ ForwardPath(current, target) =
                   [i \in 1..n |-> Phases[PhaseIndex(current) + i]] \o << target >>
              /\ CanTransition(IF n = 0 THEN current ELSE Phases[PhaseIndex(current) + n], target)
<1> DEFINE from == PhaseIndex(current)
           to == PhaseIndex(target)
           Cursor(i) == IF i = from THEN current ELSE Phases[i]
           Jumps == {i \in from..(to - 1) : CanTransition(Cursor(i), target)}
           last == CHOOSE i \in Jumps : \A j \in Jumps : i <= j
<1>1. from \in 1..10 /\ to \in 4..9 /\ Phases[to] = target /\ from < to
    BY PhaseIndexType, RunningPhase
<1>2. ~(current = target \/ from >= to)
    BY <1>1
<1>3. to - 1 \in Jumps
    <2>1. to - 1 \in from..(to - 1) /\ to - 1 \in 1..8
        BY <1>1
    <2>2. CASE current \in ReopenableStates /\ to - 1 = from
        BY <2>1, <2>2 DEF CanTransition, Transitions
    <2>3. CASE current \notin ReopenableStates \/ to - 1 # from
        <3>1. Cursor(to - 1) = Phases[to - 1]
            BY <2>3, PhaseIndexOfPhase
        <3>2. CanTransition(Phases[to - 1], target)
            BY <1>1, <2>1, NextPhaseIsLegal
        <3> QED
            BY <2>1, <3>1, <3>2
    <2> QED
        BY <2>2, <2>3
<1>4. Jumps \subseteq Nat
    BY <1>1
<1>5. \E i \in Jumps : \A j \in Jumps : i <= j
    <2> HIDE DEF Jumps
    <2> QED
        BY <1>3, <1>4, LeastNumber
<1>6. last \in Jumps
    <2> HIDE DEF Jumps
    <2> QED
        BY <1>5
<1>7. ForwardPath(current, target) =
        [i \in 1..(last - from) |-> Phases[from + i]] \o << target >>
    BY <1>2 DEF ForwardPath
<1>8. last \in from..(to - 1) /\ CanTransition(Cursor(last), target)
    BY <1>6
<1>9. /\ last - from \in 0..(to - 1 - from)
      /\ Cursor(last) = IF last - from = 0 THEN current ELSE Phases[from + (last - from)]
    <2> HIDE DEF last
    <2> QED
        BY <1>1, <1>8
<1> DEFINE n == last - from
<1>10. /\ n \in 0..(to - 1 - from)
       /\ ForwardPath(current, target) = [i \in 1..n |-> Phases[from + i]] \o << target >>
       /\ CanTransition(IF n = 0 THEN current ELSE Phases[from + n], target)
    BY <1>7, <1>8, <1>9
<1> HIDE DEF n
<1> QED
    BY <1>10

\* The walk passes only through states from which a run still goes on.
LEMMA ForwardPathStaysOpen ==
    ASSUME NEW current, OnHappyPath(current), NEW target \in RunningStates
    PROVE  ForwardPath(current, target) \in Seq(AssessmentStates \ TerminalStates)
<1> DEFINE from == PhaseIndex(current)
           to == PhaseIndex(target)
           going == AssessmentStates \ TerminalStates
<1>1. from \in 1..10 /\ to \in 4..9 /\ Phases[to] = target
    BY PhaseIndexType, RunningPhase
<1>2. \A i \in 1..9 : Phases[i] \in going
    <2>1. \A i \in 1..9 : Phases[i] \in AssessmentStates
        BY PhaseIsState
    <2>2. \A i \in 1..9 : Phases[i] \notin TerminalStates
        BY DEF Phases, TerminalStates, ReopenableStates
    <2> QED
        BY <2>1, <2>2
<1>3. target \in going
    BY <1>1, <1>2
<1> HIDE DEF going
<1>4. CASE from >= to
    <2>1. ForwardPath(current, target) = << >>
        BY <1>4 DEF ForwardPath
    <2> QED
        BY <2>1 DEF going
<1>5. CASE from < to
    <2>1. PICK n \in 0..(to - 1 - from) :
             ForwardPath(current, target) = [i \in 1..n |-> Phases[from + i]] \o << target >>
        BY <1>5, ForwardPathShape
    <2> DEFINE walk == [i \in 1..n |-> Phases[from + i]]
    <2>2. n \in Nat /\ \A i \in 1..n : from + i \in 1..9
        <3>1. from \in 1..10 /\ to \in 4..9 /\ from < to
            BY <1>1, <1>5
        <3> HIDE DEF from, to
        <3> QED
            BY <3>1
    <2>3. walk \in Seq(going)
        <3>1. walk \in [1..n -> going] /\ n \in Nat
            BY <1>2, <2>2
        <3> QED
            BY <3>1, SeqDef
    <2>4. walk \o << target >> \in Seq(going)
        <3> HIDE DEF walk
        <3> QED
            BY <1>3, <2>3
    <2> QED
        BY <2>1, <2>4 DEF going
<1> QED
    BY <1>1, <1>4, <1>5

LEMMA ForwardPathType ==
    ASSUME NEW current, OnHappyPath(current), NEW target \in RunningStates
    PROVE  ForwardPath(current, target) \in Seq(AssessmentStates)
<1>1. \A s \in Seq(AssessmentStates \ TerminalStates) : s \in Seq(AssessmentStates)
    OBVIOUS
<1> QED
    BY <1>1, ForwardPathStaysOpen

\* The walk arrives: unless the run is at or past the target, forward_path ends
\* with it, and set_state lets every move on the way through as long as nobody
\* else moves the run.
THEOREM ForwardPathArrives ==
    ASSUME NEW current, OnHappyPath(current), NEW target \in RunningStates,
           PhaseIndex(current) < PhaseIndex(target)
    PROVE  LET path == ForwardPath(current, target)
           IN  /\ Len(path) \in Nat \ {0}
               /\ path[Len(path)] = target
               /\ LegalMove(current, path[1])
               /\ \A i \in 1..(Len(path) - 1) : LegalMove(path[i], path[i + 1])
<1> DEFINE from == PhaseIndex(current)
           to == PhaseIndex(target)
           path == ForwardPath(current, target)
<1>1. from \in 1..8 /\ to \in 4..9 /\ Phases[to] = target /\ from < to
    BY PhaseIndexType, RunningPhase
<1>2. PICK n \in 0..(to - 1 - from) :
         /\ path = [i \in 1..n |-> Phases[from + i]] \o << target >>
         /\ CanTransition(IF n = 0 THEN current ELSE Phases[from + n], target)
    BY ForwardPathShape
<1>3. /\ Len(path) = n + 1
      /\ path[n + 1] = target
      /\ \A i \in 1..n : path[i] = Phases[from + i]
    <2> DEFINE walk == [i \in 1..n |-> Phases[from + i]]
    <2>1. walk \in Seq(AssessmentStates) /\ Len(walk) = n
        <3>1. \A i \in 1..n : from + i \in 1..10
            BY <1>1, <1>2
        <3>2. walk \in [1..n -> AssessmentStates] /\ n \in Nat
            BY <1>1, <3>1, PhaseIsState
        <3> QED
            BY <3>2, SeqDef
    <2>2. \A i \in 1..n : walk[i] = Phases[from + i]
        OBVIOUS
    <2>3. path = walk \o << target >>
        BY <1>2
    <2> HIDE DEF walk, path
    <2> QED
        BY <2>1, <2>2, <2>3
<1>4. current \notin TerminalStates \ ReopenableStates
    BY <1>1, EarlyStateIsNotFinal
<1>5. current # target
    BY <1>1
<1>6. LegalMove(current, path[1])
    <2>1. CASE n = 0
        BY <1>2, <1>3, <1>4, <1>5, <2>1 DEF LegalMove
    <2>2. CASE n # 0 /\ current \in ReopenableStates
        <3>1. from = 3 /\ path[1] = Phases[4]
            BY <1>1, <1>2, <1>3, <2>2 DEF PhaseIndex
        <3>2. Phases[4] \in RunningStates /\ Phases[4] \notin ReopenableStates
            BY DEF RunningStates, Phases, ReopenableStates
        <3> QED
            BY <1>4, <2>2, <3>1, <3>2 DEF LegalMove, CanTransition, Transitions
    <2>3. CASE n # 0 /\ current \notin ReopenableStates
        <3>1. current = Phases[from] /\ path[1] = Phases[from + 1]
            BY <1>1, <1>2, <1>3, <2>3, PhaseIndexOfPhase
        <3> QED
            BY <1>1, <3>1, NextPhaseIsLegalMove
    <2> QED
        BY <2>1, <2>2, <2>3
<1>7. ASSUME NEW i \in 1..(Len(path) - 1) PROVE LegalMove(path[i], path[i + 1])
    <2> HIDE DEF path
    <2>1. i \in 1..n /\ from + i \in 1..8 /\ path[i] = Phases[from + i]
        BY <1>1, <1>2, <1>3
    <2>2. CASE i < n
        <3>1. path[i + 1] = Phases[(from + i) + 1]
            BY <1>1, <1>2, <1>3, <2>1, <2>2
        <3> QED
            BY <2>1, <3>1, NextPhaseIsLegalMove
    <2>3. CASE i = n
        <3>1. path[i + 1] = target /\ CanTransition(Phases[from + i], target)
            BY <1>2, <1>3, <2>1, <2>3
        <3>2. Phases[from + i] # target /\ Phases[from + i] \notin TerminalStates
            <4>1. from + i < to
                BY <1>1, <1>2, <2>1, <2>3
            <4> QED
                BY <1>1, <2>1, <4>1, PhasesDiffer, PhaseIsOpen
        <3> QED
            BY <2>1, <3>1, <3>2 DEF LegalMove
    <2> QED
        BY <2>1, <2>2, <2>3, <1>2
<1> QED
    BY <1>1, <1>2, <1>3, <1>6, <1>7

(***************************************************************************)
(* The step graph.                                                         *)
(***************************************************************************)
\* The first step of a set, in the order of the graph, is a step of the set.
LEMMA FirstOfMember ==
    ASSUME NEW S \in SUBSET Steps, S # {}
    PROVE  FirstOf(S) \in S
<1> DEFINE Places == {i \in 1..Len(Order) : Order[i] \in S}
<1>1. Len(Order) \in Nat /\ Places \subseteq Nat
    BY GraphAssumption
<1>2. Places # {}
    BY GraphAssumption
<1>3. \E i \in Places : \A j \in Places : i <= j
    <2> HIDE DEF Places
    <2> QED
        BY <1>1, <1>2, LeastNumber
<1>4. \E i \in 1..Len(Order) :
         Order[i] \in S /\ \A j \in 1..Len(Order) : Order[j] \in S => i <= j
    BY <1>3
<1> QED
    BY <1>4 DEF FirstOf

\* A step is never both offered and put aside: the loop of WorkflowEngine.run
\* settles the blocked steps first without asking whether they could run.
THEOREM ReadyIsNotBlocked ==
    ASSUME NEW states \in [Steps -> StepStates]
    PROVE  Ready(states) \cap Blocked(states) = {}
<1> SUFFICES ASSUME NEW s \in Ready(states), s \in Blocked(states) PROVE FALSE
    OBVIOUS
<1>1. /\ s \in Steps
      /\ \A d \in Deps[s] : DependencySettled(d, states)
    BY DEF Ready
<1>2. PICK d \in Deps[s] :
          \/ states[d] \in FailedStates \cup {"skipped"} /\ d \notin Optional
          \/ states[d] = "cancelled"
    BY DEF Blocked
<1>3. DependencySettled(d, states)
    BY <1>1, <1>2
<1> QED
    BY <1>2, <1>3 DEF DependencySettled, FailedStates

\* The graph never jams: while some step is pending and none is running, some
\* step can start or can be put aside.  A run that stops before it settles
\* therefore waits for a step that is running.
THEOREM GraphNeverJams ==
    ASSUME NEW states \in [Steps -> StepStates],
           \E s \in Steps : states[s] = "pending",
           \A s \in Steps : states[s] # "running"
    PROVE  Ready(states) \cup Blocked(states) # {}
<1> DEFINE Pending == {s \in Steps : states[s] = "pending"}
<1>1. PICK s \in Pending : Deps[s] \cap Pending = {}
    <2>1. Pending \in (SUBSET Steps) \ {{}}
        OBVIOUS
    <2> QED
        BY <2>1, AcyclicAssumption
<1>2. \A d \in Deps[s] : /\ d \in Steps
                         /\ states[d] \in TerminalStepStates
    <2> SUFFICES ASSUME NEW d \in Deps[s]
                 PROVE  d \in Steps /\ states[d] \in TerminalStepStates
        OBVIOUS
    <2>1. d \in Steps
        BY GraphAssumption
    <2>2. states[d] # "pending"
        BY <1>1, <2>1
    <2>3. states[d] \in StepStates /\ states[d] # "running"
        BY <2>1
    <2> QED
        BY <2>1, <2>2, <2>3 DEF StepStates
<1>3. CASE \A d \in Deps[s] : DependencySettled(d, states)
    <2>1. s \in Ready(states)
        BY <1>3 DEF Ready
    <2> QED
        BY <2>1
<1>4. CASE \E d \in Deps[s] : ~DependencySettled(d, states)
    <2>1. PICK d \in Deps[s] : ~DependencySettled(d, states)
        BY <1>4
    <2>2. \/ states[d] \in FailedStates \cup {"skipped"} /\ d \notin Optional
          \/ states[d] = "cancelled"
        BY <1>2, <2>1 DEF DependencySettled, TerminalStepStates
    <2>3. s \in Blocked(states)
        BY <2>2 DEF Blocked
    <2> QED
        BY <2>3
<1> QED
    BY <1>3, <1>4

\* An outcome is reported only for a run with nothing left to start: unless a
\* step was cancelled, every step has settled or is blocked or running.
THEOREM OutcomeLeavesNothingReady ==
    ASSUME NEW states \in [Steps -> StepStates],
           Outcome(states) # NoOutcome,
           \A s \in Steps : states[s] # "cancelled",
           Blocked(states) = {}
    PROVE  \A s \in Steps : states[s] \in TerminalStepStates
<1> DEFINE pending == {s \in Steps : states[s] \notin TerminalStepStates}
<1>1. ~(pending # {} /\ Blocked(states) = {})
    BY DEF Outcome, NoOutcome
<1> QED
    BY <1>1

(***************************************************************************)
(* Invariance.  IndInv types every variable and ties what a delivery       *)
(* carries to what has been recorded, through crashes, replays, lapsed     *)
(* leases, duplicate deliveries and cancellations.                         *)
(***************************************************************************)

\* The locals and the rows may be typed one by one.
LEMMA OneWorkerMoves ==
    ASSUME NEW f, NEW g, NEW K, NEW L,
           f \in [Workers -> WorkerType],
           \A v \in Workers : LocalInv(f[v], K),
           K \subseteq L,
           NEW w \in Workers, NEW local,
           LocalInv(local, L),
           g = [f EXCEPT ![w] = local]
    PROVE  /\ g \in [Workers -> WorkerType]
           /\ \A v \in Workers : LocalInv(g[v], L)
<1>1. \A s : Recorded(K, s) => Recorded(L, s)
    BY DEF Recorded
<1>2. \A v \in Workers : v # w => LocalInv(f[v], L)
    BY <1>1 DEF LocalInv, Rests, Earned
<1>3. local \in WorkerType
    BY DEF LocalInv
<1> QED
    BY <1>2, <1>3

LEMMA OneRowMoves ==
    ASSUME NEW f, NEW g, NEW K, NEW L,
           f \in [Steps -> RowType],
           \A s \in Steps : RowInv(f[s], s, K),
           K \subseteq L,
           NEW s \in Steps, NEW row,
           RowInv(row, s, L),
           g = [f EXCEPT ![s] = row]
    PROVE  /\ g \in [Steps -> RowType]
           /\ \A t \in Steps : RowInv(g[t], t, L)
<1>1. \A t : Recorded(K, t) => Recorded(L, t)
    BY DEF Recorded
<1> QED
    BY <1>1 DEF RowInv

LEMMA PlainRow ==
    ASSUME NEW state \in StepStates, NEW attempts \in Nat, NEW s, NEW K,
           state = "succeeded" => Recorded(K, s)
    PROVE  RowInv(Row(state, attempts), s, K)
BY WorkerAssumption DEF Row, RowInv, RowType

LEMMA IdleInv == \A K : LocalInv(IdleWorker, K)
<1>1. IdleWorker \in WorkerType
    <2>1. << >> \in Seq(AssessmentStates)
        OBVIOUS
    <2> QED
        BY <2>1 DEF IdleWorker, WorkerType, ProgramCounters, Results
<1> QED
    BY <1>1 DEF LocalInv, Fits, Rests, Earned, IdleWorker, Executing

\* A step of one delivery that changes nothing but its own local variables.
LEMMA LocalsMove ==
    ASSUME IndInv, NEW w \in Workers, NEW local, LocalInv(local, keys),
           wk' = [wk EXCEPT ![w] = local],
           UNCHANGED << runState, cancelRequested, rows, keys, crashes, replays >>
    PROVE  IndInv'
<1>1. /\ wk' \in [Workers -> WorkerType]
      /\ \A v \in Workers : LocalInv(wk'[v], keys)
    BY OneWorkerMoves DEF IndInv, TypeOK
<1> QED
    BY <1>1 DEF IndInv, TypeOK

\* A step of one delivery that also rewrites one row.
LEMMA RowMoves ==
    ASSUME IndInv, NEW w \in Workers, NEW local, LocalInv(local, keys),
           wk' = [wk EXCEPT ![w] = local],
           NEW s \in Steps, NEW row, RowInv(row, s, keys),
           rows' = [rows EXCEPT ![s] = row],
           UNCHANGED << runState, cancelRequested, keys, crashes, replays >>
    PROVE  IndInv'
<1>1. /\ wk' \in [Workers -> WorkerType]
      /\ \A v \in Workers : LocalInv(wk'[v], keys)
    BY OneWorkerMoves DEF IndInv, TypeOK
<1>2. /\ rows' \in [Steps -> RowType]
      /\ \A t \in Steps : RowInv(rows'[t], t, keys)
    BY OneRowMoves DEF IndInv, TypeOK
<1> QED
    BY <1>1, <1>2 DEF IndInv, TypeOK

\* A step of the environment that rewrites one row.
LEMMA EnvironmentRow ==
    ASSUME IndInv, NEW s \in Steps, NEW row, RowInv(row, s, keys),
           rows' = [rows EXCEPT ![s] = row],
           replays' \in 0..MaxReplays,
           UNCHANGED << runState, cancelRequested, keys, wk, crashes >>
    PROVE  IndInv'
<1>1. /\ rows' \in [Steps -> RowType]
      /\ \A t \in Steps : RowInv(rows'[t], t, keys)
    BY OneRowMoves DEF IndInv, TypeOK
<1> QED
    BY <1>1 DEF IndInv, TypeOK

\* What a delivery knows of its own local variables.
LEMMA LocalFacts ==
    ASSUME IndInv, NEW w \in Workers
    PROVE  /\ wk[w] \in WorkerType
           /\ Fits(wk[w])
           /\ Rests(wk[w], keys)
           /\ Earned(wk[w], keys)
BY DEF IndInv, LocalInv

\* A delivery that returns is idle again.
LEMMA ReturnKeeps ==
    ASSUME IndInv, NEW w \in Workers, Return(w),
           UNCHANGED << runState, cancelRequested, rows, keys, crashes, replays >>
    PROVE  IndInv'
BY IdleInv, LocalsMove DEF Return

LEMMA DeliverKeeps ==
    ASSUME IndInv, NEW w \in Workers, Deliver(w)
    PROVE  IndInv'
<1> DEFINE local == [wk[w] EXCEPT !.pc = "check"]
<1>1. wk[w] \in WorkerType /\ Fits(wk[w]) /\ Rests(wk[w], keys)
    BY LocalFacts
<1>2. local \in WorkerType
    BY <1>1 DEF WorkerType, ProgramCounters
<1>3. LocalInv(local, keys)
    BY <1>1, <1>2 DEF LocalInv, Fits, Rests, Earned, Executing, WorkerType, Deliver, At
<1> QED
    BY <1>3, LocalsMove DEF Deliver, Goto

LEMMA CheckCancellationKeeps ==
    ASSUME IndInv, NEW w \in Workers, CheckCancellation(w)
    PROVE  IndInv'
<1> DEFINE local == [wk[w] EXCEPT !.pc = IF cancelRequested THEN "cancel" ELSE "load"]
<1>1. wk[w] \in WorkerType /\ Fits(wk[w]) /\ Rests(wk[w], keys)
    BY LocalFacts
<1>2. local \in WorkerType
    BY <1>1 DEF WorkerType, ProgramCounters
<1>3. LocalInv(local, keys)
    BY <1>1, <1>2 DEF LocalInv, Fits, Rests, Earned, Executing, WorkerType,
                      CheckCancellation, At
<1> QED
    BY <1>3, LocalsMove DEF CheckCancellation, Goto

\* A step that is offered has the completed work of every required dependency.
LEMMA ReadyRestsOnWork ==
    ASSUME IndInv
    PROVE  \A s \in Ready(States) : \A d \in Deps[s] \ Optional : Recorded(keys, d)
<1> SUFFICES ASSUME NEW s \in Ready(States), NEW d \in Deps[s] \ Optional
             PROVE  Recorded(keys, d)
    OBVIOUS
<1>1. s \in Steps /\ DependencySettled(d, States)
    BY DEF Ready
<1>2. d \in Steps
    BY <1>1, GraphAssumption
<1>3. rows[d].state = "succeeded"
    BY <1>1, <1>2 DEF DependencySettled, States
<1> QED
    BY <1>2, <1>3 DEF IndInv, RowInv

\* A run is settled with one of four words.
LEMMA OutcomeIsAVerdict ==
    ASSUME Outcome(States) # NoOutcome
    PROVE  Outcome(States) \in {"completed", "partially_completed", "failed", "cancelled"}
BY DEF Outcome

LEMMA LoadStepsKeeps ==
    ASSUME IndInv, NEW w \in Workers, LoadSteps(w)
    PROVE  IndInv'
<1>1. wk[w] \in WorkerType /\ Fits(wk[w]) /\ Rests(wk[w], keys)
    BY LocalFacts
<1>2. Ready(States) \subseteq Steps /\ Blocked(States) \subseteq Steps
    BY DEF Ready, Blocked
<1>3. At(w, "load")
      /\ UNCHANGED << runState, cancelRequested, rows, keys, crashes, replays >>
    BY DEF LoadSteps
<1>4. CASE Blocked(States) # {}
           /\ Goto(w, "skip", [wk[w] EXCEPT !.todo = Blocked(States)])
    <2> DEFINE local == [wk[w] EXCEPT !.todo = Blocked(States), !.pc = "skip"]
    <2>1. local \in WorkerType
        BY <1>1, <1>2 DEF WorkerType, ProgramCounters
    <2>2. LocalInv(local, keys)
        BY <1>1, <1>3, <1>4, <2>1 DEF LocalInv, Fits, Rests, Earned, Executing,
                                      WorkerType, At
    <2>3. wk' = [wk EXCEPT ![w] = local]
        BY <1>1, <1>4 DEF Goto, WorkerType
    <2> QED
        BY <1>3, <2>2, <2>3, LocalsMove
<1>5. CASE Outcome(States) # NoOutcome
           /\ Goto(w, "settlerun", [wk[w] EXCEPT !.result = Outcome(States)])
    <2> DEFINE local == [wk[w] EXCEPT !.result = Outcome(States), !.pc = "settlerun"]
    <2>1. Outcome(States) \in {"completed", "partially_completed", "failed", "cancelled"}
        BY <1>5, OutcomeIsAVerdict
    <2>2. local \in WorkerType
        BY <1>1, <2>1 DEF WorkerType, ProgramCounters, Results
    <2>3. LocalInv(local, keys)
        BY <1>1, <1>3, <2>1, <2>2 DEF LocalInv, Fits, Rests, Earned, Executing,
                                      WorkerType, At
    <2>4. wk' = [wk EXCEPT ![w] = local]
        BY <1>1, <1>5 DEF Goto, WorkerType
    <2> QED
        BY <1>3, <2>3, <2>4, LocalsMove
<1>6. CASE Ready(States) # {}
           /\ Goto(w, "claim", [wk[w] EXCEPT !.todo = Ready(States), !.moved = FALSE])
    <2> DEFINE local == [wk[w] EXCEPT !.todo = Ready(States), !.moved = FALSE, !.pc = "claim"]
    <2>1. local \in WorkerType
        BY <1>1, <1>2 DEF WorkerType, ProgramCounters
    <2>2. Rests(local, keys)
        BY <1>1, ReadyRestsOnWork DEF Rests, WorkerType
    <2>3. LocalInv(local, keys)
        BY <1>1, <1>3, <1>6, <2>1, <2>2 DEF LocalInv, Fits, Earned, Executing,
                                           WorkerType, At
    <2>4. wk' = [wk EXCEPT ![w] = local]
        BY <1>1, <1>6 DEF Goto, WorkerType
    <2> QED
        BY <1>3, <2>3, <2>4, LocalsMove
<1>7. CASE Return(w)
    BY <1>3, <1>7, ReturnKeeps
<1> QED
    BY <1>4, <1>5, <1>6, <1>7 DEF LoadSteps

LEMMA SkipBlockedKeeps ==
    ASSUME IndInv, NEW w \in Workers, SkipBlocked(w)
    PROVE  IndInv'
<1> DEFINE s == FirstOf(wk[w].todo)
           rest == wk[w].todo \ {s}
           local == [wk[w] EXCEPT !.todo = rest,
                                  !.pc = IF rest = {} THEN "check" ELSE "skip"]
<1>1. wk[w] \in WorkerType /\ Fits(wk[w])
    BY LocalFacts
<1>2. wk[w].todo # {} /\ wk[w].todo \in SUBSET Steps /\ At(w, "skip")
    BY <1>1 DEF SkipBlocked, Fits, WorkerType, At
<1>3. s \in Steps
    BY <1>2, FirstOfMember
<1>4. RowInv(Row("skipped", 0), s, keys)
    BY PlainRow DEF StepStates, TerminalStepStates
<1>5. local \in WorkerType
    BY <1>1 DEF WorkerType, ProgramCounters
<1>6. LocalInv(local, keys)
    BY <1>1, <1>2, <1>5 DEF LocalInv, Fits, Rests, Earned, Executing, WorkerType, At
<1>7. wk' = [wk EXCEPT ![w] = local]
    BY <1>1 DEF SkipBlocked, Goto, WorkerType
<1> QED
    BY <1>3, <1>4, <1>6, <1>7, RowMoves DEF SkipBlocked

\* A step of one delivery that changes its locals and perhaps the run's state.
LEMMA WalkMoves ==
    ASSUME IndInv, NEW w \in Workers, NEW local, LocalInv(local, keys),
           wk' = [wk EXCEPT ![w] = local],
           runState' \in AssessmentStates,
           UNCHANGED << cancelRequested, rows, keys, crashes, replays >>
    PROVE  IndInv'
<1>1. /\ wk' \in [Workers -> WorkerType]
      /\ \A v \in Workers : LocalInv(wk'[v], keys)
    BY OneWorkerMoves DEF IndInv, TypeOK
<1> QED
    BY <1>1 DEF IndInv, TypeOK

\* The states a settled run walks through are states of the lifecycle.
LEMMA SettlePathType ==
    ASSUME NEW outcome \in {"completed", "partially_completed", "failed", "cancelled"},
           outcome \in {"completed", "partially_completed"} => OnHappyPath(runState)
    PROVE  SettlePath(outcome) \in Seq(AssessmentStates) \ {<< >>}
<1>1. outcome \in AssessmentStates
    BY DEF AssessmentStates, TerminalStates, ReopenableStates, Phases
<1>2. CASE outcome \in {"completed", "partially_completed"}
    <2>1. "report_generation" \in RunningStates
        <3>1. Phases[9] = "report_generation" /\ 9 \in 4..9
            BY DEF Phases
        <3> QED
            BY <3>1 DEF RunningStates
    <2>2. ForwardPath(runState, "report_generation") \in Seq(AssessmentStates)
        BY <1>2, <2>1, ForwardPathType
    <2> DEFINE walk == ForwardPath(runState, "report_generation")
    <2>3. /\ walk \o << outcome >> \in Seq(AssessmentStates)
          /\ walk \o << outcome >> # << >>
        <3> HIDE DEF walk
        <3>1. Len(walk \o << outcome >>) = Len(walk) + 1 /\ Len(walk) \in Nat
            BY <1>1, <2>2 DEF walk
        <3> QED
            BY <1>1, <2>2, <3>1 DEF walk
    <2> QED
        BY <1>2, <2>3 DEF SettlePath
<1>3. CASE outcome \notin {"completed", "partially_completed"}
    BY <1>1, <1>3 DEF SettlePath
<1> QED
    BY <1>2, <1>3

LEMMA SettleRunKeeps ==
    ASSUME IndInv, NEW w \in Workers, SettleRun(w)
    PROVE  IndInv'
<1>1. wk[w] \in WorkerType /\ Fits(wk[w]) /\ Rests(wk[w], keys)
    BY LocalFacts
<1>2. /\ At(w, "settlerun")
      /\ UNCHANGED << runState, cancelRequested, rows, keys, crashes, replays >>
    BY DEF SettleRun
<1>3. wk[w].result \in {"completed", "partially_completed", "failed", "cancelled"}
    BY <1>1, <1>2 DEF Fits, At
<1>4. CASE \/ wk[w].result \notin {"completed", "partially_completed"}
           \/ OnHappyPath(runState)
    <2> DEFINE path == SettlePath(wk[w].result)
               local == [wk[w] EXCEPT !.path = path, !.result = None, !.pc = "setread"]
    <2>1. path \in Seq(AssessmentStates) \ {<< >>}
        BY <1>3, <1>4, SettlePathType
    <2> HIDE DEF path
    <2>2. local \in WorkerType
        BY <1>1, <2>1 DEF WorkerType, ProgramCounters, Results
    <2>3. LocalInv(local, keys)
        BY <1>1, <1>2, <2>1, <2>2 DEF LocalInv, Fits, Rests, Earned, Executing,
                                      WorkerType, At
    <2>4. wk' = [wk EXCEPT ![w] = local]
        BY <1>1, <1>4 DEF SettleRun, Goto, WorkerType, path
    <2> QED
        BY <1>2, <2>3, <2>4, LocalsMove
<1>5. CASE ~(\/ wk[w].result \notin {"completed", "partially_completed"}
             \/ OnHappyPath(runState))
    <2> DEFINE local == [wk[w] EXCEPT !.pc = "raised"]
    <2>1. local \in WorkerType
        BY <1>1 DEF WorkerType, ProgramCounters
    <2>2. LocalInv(local, keys)
        BY <1>1, <1>2, <2>1 DEF LocalInv, Fits, Rests, Earned, Executing, WorkerType, At
    <2> QED
        BY <1>2, <1>5, <2>2, LocalsMove DEF SettleRun, Goto
<1> QED
    BY <1>4, <1>5

\* The end of a walk: the key check, or the return of the delivery.
LEMMA PathDoneKeeps ==
    ASSUME IndInv, NEW w \in Workers, wk[w].pc \in {"setread", "setwrite"},
           PathDone(w, wk[w]), runState' \in AssessmentStates,
           UNCHANGED << cancelRequested, rows, keys, crashes, replays >>
    PROVE  IndInv'
<1>1. wk[w] \in WorkerType /\ Fits(wk[w]) /\ Rests(wk[w], keys)
    BY LocalFacts
<1>2. \E local : LocalInv(local, keys) /\ wk' = [wk EXCEPT ![w] = local]
    <2>1. CASE wk[w].cur # None
        <3> DEFINE local == [wk[w] EXCEPT !.path = << >>, !.pc = "keycheck"]
        <3>1. << >> \in Seq(AssessmentStates)
            OBVIOUS
        <3>2. local \in WorkerType
            BY <1>1, <3>1 DEF WorkerType, ProgramCounters
        <3>3. LocalInv(local, keys)
            BY <1>1, <2>1, <3>2 DEF LocalInv, Fits, Rests, Earned, Executing, WorkerType
        <3>4. wk' = [wk EXCEPT ![w] = local]
            BY <1>1, <2>1 DEF PathDone, Goto, WorkerType
        <3> QED
            BY <3>3, <3>4
    <2>2. CASE wk[w].cur = None
        BY <2>2, IdleInv DEF PathDone, Return
    <2> QED
        BY <2>1, <2>2
<1> QED
    BY <1>2, WalkMoves

\* A walk goes on with the tail of its path.
LEMMA PathGoesOn ==
    ASSUME IndInv, NEW w \in Workers, wk[w].pc \in {"setread", "setwrite"},
           Len(wk[w].path) # 1,
           Goto(w, "setread", [wk[w] EXCEPT !.path = Tail(@)]),
           runState' \in AssessmentStates,
           UNCHANGED << cancelRequested, rows, keys, crashes, replays >>
    PROVE  IndInv'
<1>1. wk[w] \in WorkerType /\ Fits(wk[w]) /\ Rests(wk[w], keys)
    BY LocalFacts
<1> DEFINE path == Tail(wk[w].path)
           local == [wk[w] EXCEPT !.path = path, !.pc = "setread"]
<1>2. path \in Seq(AssessmentStates) /\ path # << >>
    <2>1. wk[w].path \in Seq(AssessmentStates) /\ wk[w].path # << >>
        BY <1>1 DEF WorkerType, Fits
    <2>2. Len(wk[w].path) \in Nat /\ Len(wk[w].path) # 0
        BY <2>1, EmptySeq, LenProperties
    <2>3. Len(path) = Len(wk[w].path) - 1 /\ path \in Seq(AssessmentStates)
        BY <2>1, HeadTailProperties
    <2>4. Len(path) # 0
        BY <2>2, <2>3
    <2>5. Len(<< >>) = 0
        OBVIOUS
    <2>6. path # << >>
        BY <2>4, <2>5
    <2> QED
        BY <2>3, <2>6
<1> HIDE DEF path
<1>3. local \in WorkerType
    BY <1>1, <1>2 DEF WorkerType, ProgramCounters
<1>4. LocalInv(local, keys)
    BY <1>1, <1>2, <1>3 DEF LocalInv, Fits, Rests, Earned, Executing, WorkerType
<1>5. wk' = [wk EXCEPT ![w] = local]
    BY <1>1 DEF Goto, WorkerType, path
<1> QED
    BY <1>4, <1>5, WalkMoves

LEMMA PathHeadType ==
    ASSUME IndInv, NEW w \in Workers, wk[w].pc \in {"setread", "setwrite"}
    PROVE  Head(wk[w].path) \in AssessmentStates
<1>1. wk[w] \in WorkerType /\ Fits(wk[w])
    BY LocalFacts
<1>2. wk[w].path \in Seq(AssessmentStates) /\ wk[w].path # << >>
    BY <1>1 DEF WorkerType, Fits
<1> QED
    BY <1>2, HeadTailProperties

LEMMA ReadStateKeeps ==
    ASSUME IndInv, NEW w \in Workers, ReadState(w)
    PROVE  IndInv'
<1>1. wk[w] \in WorkerType /\ Fits(wk[w]) /\ Rests(wk[w], keys)
    BY LocalFacts
<1>2. /\ wk[w].pc = "setread"
      /\ runState' \in AssessmentStates
      /\ UNCHANGED << runState, cancelRequested, rows, keys, crashes, replays >>
    BY DEF ReadState, At, IndInv, TypeOK
<1>3. CASE Len(wk[w].path) = 1 /\ PathDone(w, wk[w])
    BY <1>2, <1>3, PathDoneKeeps
<1>4. CASE Len(wk[w].path) # 1 /\ Goto(w, "setread", [wk[w] EXCEPT !.path = Tail(@)])
    BY <1>2, <1>4, PathGoesOn
<1>5. ASSUME NEW pc \in {"setwrite", "raised"}, Goto(w, pc, wk[w])
      PROVE  IndInv'
    <2> DEFINE local == [wk[w] EXCEPT !.pc = pc]
    <2>1. local \in WorkerType
        BY <1>1 DEF WorkerType, ProgramCounters
    <2>2. LocalInv(local, keys)
        BY <1>1, <1>2, <2>1 DEF LocalInv, Fits, Rests, Earned, Executing, WorkerType
    <2> QED
        BY <1>2, <1>5, <2>2, LocalsMove DEF Goto
<1> QED
    BY <1>3, <1>4, <1>5 DEF ReadState

LEMMA WriteStateKeeps ==
    ASSUME IndInv, NEW w \in Workers, WriteState(w)
    PROVE  IndInv'
<1>1. /\ wk[w].pc = "setwrite"
      /\ runState' = Head(wk[w].path)
      /\ UNCHANGED << cancelRequested, rows, keys, crashes, replays >>
    BY DEF WriteState, At
<1>2. runState' \in AssessmentStates
    BY <1>1, PathHeadType
<1>3. CASE Len(wk[w].path) = 1 /\ PathDone(w, wk[w])
    BY <1>1, <1>2, <1>3, PathDoneKeeps
<1>4. CASE Len(wk[w].path) # 1 /\ Goto(w, "setread", [wk[w] EXCEPT !.path = Tail(@)])
    BY <1>1, <1>2, <1>4, PathGoesOn
<1> QED
    BY <1>3, <1>4 DEF WriteState

\* Going on to the rest of the ready steps leaves sound locals, whatever moved.
LEMMA NextStepLocals ==
    ASSUME IndInv, NEW w \in Workers, wk[w].pc \notin {"skip", "cancelstep"},
           NEW rest \in SUBSET wk[w].todo, NEW moved \in BOOLEAN,
           NextStep(w, rest, moved)
    PROVE  \E local : /\ LocalInv(local, keys) /\ wk' = [wk EXCEPT ![w] = local]
                      /\ local.pc \in {"claim", "check", "idle"} /\ local.result = None
<1>1. wk[w] \in WorkerType /\ Rests(wk[w], keys)
    BY LocalFacts
<1>2. CASE rest # {}
    <2> DEFINE local == [wk[w] EXCEPT !.todo = rest, !.moved = moved, !.cur = None,
                                      !.attempt = 0, !.result = None, !.pc = "claim"]
    <2>1. local \in WorkerType
        BY <1>1 DEF WorkerType, ProgramCounters, Results
    <2>2. Rests(local, keys)
        BY <1>1 DEF Rests, WorkerType
    <2>3. LocalInv(local, keys)
        BY <1>1, <1>2, <2>1, <2>2 DEF LocalInv, Fits, Earned, Executing, WorkerType
    <2>4. wk' = [wk EXCEPT ![w] = local]
        BY <1>1, <1>2 DEF NextStep, Goto, WorkerType
    <2>5. local.pc = "claim" /\ local.result = None
        BY <1>1 DEF WorkerType
    <2> QED
        BY <2>3, <2>4, <2>5
<1>3. CASE rest = {} /\ moved
    <2> DEFINE local == [wk[w] EXCEPT !.todo = {}, !.moved = FALSE, !.cur = None,
                                      !.attempt = 0, !.result = None, !.pc = "check"]
    <2>1. local \in WorkerType
        BY <1>1 DEF WorkerType, ProgramCounters, Results
    <2>2. LocalInv(local, keys)
        BY <1>1, <2>1 DEF LocalInv, Fits, Rests, Earned, Executing, WorkerType
    <2>3. wk' = [wk EXCEPT ![w] = local]
        BY <1>1, <1>3 DEF NextStep, Goto, WorkerType
    <2>4. local.pc = "check" /\ local.result = None
        BY <1>1 DEF WorkerType
    <2> QED
        BY <2>2, <2>3, <2>4
<1>4. CASE rest = {} /\ ~moved
    <2>1. wk' = [wk EXCEPT ![w] = IdleWorker]
        BY <1>4 DEF NextStep, Return
    <2>2. IdleWorker.pc = "idle" /\ IdleWorker.result = None
        BY DEF IdleWorker
    <2> HIDE DEF IdleWorker
    <2> QED
        BY <2>1, <2>2, IdleInv
<1> QED
    BY <1>2, <1>3, <1>4

LEMMA ClaimKeeps ==
    ASSUME IndInv, NEW w \in Workers, Claim(w)
    PROVE  IndInv'
<1> DEFINE s == FirstOf(wk[w].todo)
           local == [wk[w] EXCEPT !.cur = s, !.attempt = rows[s].attempts + 1,
                                  !.pc = "acquire"]
<1>1. wk[w] \in WorkerType /\ Fits(wk[w]) /\ Rests(wk[w], keys)
    BY LocalFacts
<1>2. /\ wk[w].pc = "claim"
      /\ UNCHANGED << runState, cancelRequested, rows, keys, crashes, replays >>
    BY DEF Claim, At
<1>3. wk[w].todo # {} /\ wk[w].todo \in SUBSET Steps /\ wk[w].moved \in BOOLEAN
    BY <1>1, <1>2 DEF Fits, WorkerType
<1>4. s \in wk[w].todo /\ s \in Steps
    BY <1>3, FirstOfMember
<1>5. CASE NextStep(w, wk[w].todo \ {s}, wk[w].moved)
    <2>1. PICK next : LocalInv(next, keys) /\ wk' = [wk EXCEPT ![w] = next]
        BY <1>2, <1>3, <1>5, NextStepLocals
    <2> QED
        BY <1>2, <2>1, LocalsMove
<1>6. CASE Goto(w, "acquire", [wk[w] EXCEPT !.cur = s, !.attempt = rows[s].attempts + 1])
    <2> HIDE DEF s
    <2>1. rows[s].attempts + 1 \in Nat
        <3>1. rows[s].attempts \in Nat
            BY <1>4 DEF IndInv, TypeOK, RowType
        <3> QED
            BY <3>1
    <2>2. local \in WorkerType
        <3> DEFINE attempt == rows[s].attempts + 1
        <3> HIDE DEF attempt
        <3>1. [wk[w] EXCEPT !.cur = s, !.attempt = attempt, !.pc = "acquire"] \in WorkerType
            BY <1>1, <1>4, <2>1 DEF WorkerType, ProgramCounters, attempt
        <3> QED
            BY <3>1 DEF attempt
    <2>3. LocalInv(local, keys)
        BY <1>1, <1>2, <1>4, <2>2 DEF LocalInv, Fits, Rests, Earned, Executing, WorkerType
    <2>4. wk' = [wk EXCEPT ![w] = local]
        BY <1>1, <1>6 DEF Goto, WorkerType
    <2> QED
        BY <1>2, <2>3, <2>4, LocalsMove
<1> QED
    BY <1>5, <1>6 DEF Claim

\* The step a delivery executes is a step, and its row is sound.
LEMMA CurrentStep ==
    ASSUME IndInv, NEW w \in Workers, wk[w].pc \in Executing
    PROVE  /\ wk[w].cur \in Steps
           /\ wk[w].cur \in wk[w].todo
           /\ RowInv(rows[wk[w].cur], wk[w].cur, keys)
<1>1. wk[w] \in WorkerType /\ Fits(wk[w])
    BY LocalFacts
<1>2. wk[w].cur \in wk[w].todo /\ wk[w].todo \in SUBSET Steps
    BY <1>1 DEF Fits, WorkerType
<1> QED
    BY <1>2 DEF IndInv

\* Taking and giving back a lease leaves the state of a row alone.
LEMMA LeaseIsARow ==
    ASSUME IndInv, NEW s \in Steps, NEW owner \in Workers \cup {None}, NEW live \in BOOLEAN
    PROVE  RowInv([rows[s] EXCEPT !.owner = owner, !.live = live], s, keys)
BY DEF IndInv, RowInv, RowType

LEMMA AcquireLeaseKeeps ==
    ASSUME IndInv, NEW w \in Workers, AcquireLease(w)
    PROVE  IndInv'
<1> DEFINE s == wk[w].cur
           row == [rows[s] EXCEPT !.owner = w, !.live = TRUE]
           local == [wk[w] EXCEPT !.pc = "advance"]
<1>1. wk[w] \in WorkerType /\ Fits(wk[w]) /\ Rests(wk[w], keys)
    BY LocalFacts
<1>2. /\ wk[w].pc = "acquire"
      /\ UNCHANGED << runState, cancelRequested, keys, crashes, replays >>
    BY DEF AcquireLease, At
<1>3. s \in Steps /\ wk[w].cur \in wk[w].todo
    BY <1>2, CurrentStep DEF Executing
<1>4. CASE Goto(w, "advance", wk[w])
           /\ rows' = [rows EXCEPT ![s].owner = w, ![s].live = TRUE]
    <2>1. local \in WorkerType
        BY <1>1 DEF WorkerType, ProgramCounters
    <2>2. LocalInv(local, keys)
        BY <1>1, <1>2, <2>1 DEF LocalInv, Fits, Rests, Earned, Executing, WorkerType
    <2>3. rows \in [Steps -> RowType]
        BY DEF IndInv, TypeOK
    <2>4. rows' = [rows EXCEPT ![s] = row]
        BY <1>3, <1>4, <2>3 DEF RowType
    <2>5. RowInv(row, s, keys)
        BY <1>3, LeaseIsARow
    <2> QED
        BY <1>2, <1>3, <1>4, <2>2, <2>4, <2>5, RowMoves DEF Goto
<1>5. CASE NextStep(w, wk[w].todo \ {s}, wk[w].moved) /\ UNCHANGED rows
    <2>1. wk[w].moved \in BOOLEAN
        BY <1>1 DEF WorkerType
    <2>2. PICK next : LocalInv(next, keys) /\ wk' = [wk EXCEPT ![w] = next]
        BY <1>2, <1>5, <2>1, NextStepLocals
    <2> QED
        BY <1>2, <1>5, <2>2, LocalsMove
<1> QED
    BY <1>4, <1>5 DEF AcquireLease

\* Going on with the step under execution, or giving it up, needs nothing new.
LEMMA StaysOnStep ==
    ASSUME IndInv, NEW w \in Workers, wk[w].pc \in Executing,
           NEW pc \in (Executing \ {"dedup", "record", "settle"}) \cup {"raised"}
    PROVE  LocalInv([wk[w] EXCEPT !.pc = pc], keys)
<1> DEFINE local == [wk[w] EXCEPT !.pc = pc]
<1>1. wk[w] \in WorkerType /\ Fits(wk[w]) /\ Rests(wk[w], keys)
    BY LocalFacts
<1>2. local \in WorkerType
    BY <1>1 DEF WorkerType, ProgramCounters, Executing
<1> QED
    BY <1>1, <1>2 DEF LocalInv, Fits, Rests, Earned, Executing, WorkerType

LEMMA AdvanceToKeeps ==
    ASSUME IndInv, NEW w \in Workers, AdvanceTo(w)
    PROVE  IndInv'
<1>1. wk[w] \in WorkerType /\ Fits(wk[w]) /\ Rests(wk[w], keys)
    BY LocalFacts
<1>2. /\ wk[w].pc = "advance"
      /\ UNCHANGED << runState, cancelRequested, rows, keys, crashes, replays >>
    BY DEF AdvanceTo, At
<1>3. wk[w].cur \in Steps /\ wk[w].cur \in wk[w].todo
    BY <1>2, CurrentStep DEF Executing
<1>4. ASSUME NEW pc \in {"raised", "keycheck"}, Goto(w, pc, wk[w])
      PROVE  IndInv'
    <2>1. LocalInv([wk[w] EXCEPT !.pc = pc], keys)
        BY <1>2, StaysOnStep DEF Executing
    <2> QED
        BY <1>2, <1>4, <2>1, LocalsMove DEF Goto
<1> DEFINE path == ForwardPath(runState, Phase[wk[w].cur])
<1>5. CASE /\ OnHappyPath(runState) /\ path # << >>
           /\ Goto(w, "setread", [wk[w] EXCEPT !.path = path])
    <2> DEFINE local == [wk[w] EXCEPT !.path = path, !.pc = "setread"]
    <2>1. path \in Seq(AssessmentStates)
        BY <1>3, <1>5, GraphAssumption, ForwardPathType
    <2> HIDE DEF path
    <2>2. local \in WorkerType
        BY <1>1, <2>1 DEF WorkerType, ProgramCounters
    <2>3. LocalInv(local, keys)
        BY <1>1, <1>2, <1>3, <1>5, <2>2 DEF LocalInv, Fits, Rests, Earned, Executing,
                                            WorkerType
    <2>4. wk' = [wk EXCEPT ![w] = local]
        BY <1>1, <1>5 DEF Goto, WorkerType
    <2> QED
        BY <1>2, <2>3, <2>4, LocalsMove
<1> QED
    BY <1>4, <1>5 DEF AdvanceTo

LEMMA CheckKeyKeeps ==
    ASSUME IndInv, NEW w \in Workers, CheckKey(w)
    PROVE  IndInv'
<1>1. wk[w] \in WorkerType /\ Fits(wk[w]) /\ Rests(wk[w], keys)
    BY LocalFacts
<1>2. /\ wk[w].pc = "keycheck"
      /\ UNCHANGED << runState, cancelRequested, rows, keys, crashes, replays >>
    BY DEF CheckKey, At
<1>3. CASE KeyOf(w) \in keys /\ Goto(w, "dedup", wk[w])
    <2> DEFINE local == [wk[w] EXCEPT !.pc = "dedup"]
    <2>1. Recorded(keys, wk[w].cur)
        BY <1>1, <1>3 DEF Recorded, KeyOf, WorkerType
    <2>2. local \in WorkerType
        BY <1>1 DEF WorkerType, ProgramCounters
    <2>3. LocalInv(local, keys)
        BY <1>1, <1>2, <2>1, <2>2 DEF LocalInv, Fits, Rests, Earned, Executing, WorkerType
    <2> QED
        BY <1>2, <1>3, <2>3, LocalsMove DEF Goto
<1>4. CASE Goto(w, "start", wk[w])
    <2>1. LocalInv([wk[w] EXCEPT !.pc = "start"], keys)
        BY <1>2, StaysOnStep DEF Executing
    <2> QED
        BY <1>2, <1>4, <2>1, LocalsMove DEF Goto
<1> QED
    BY <1>3, <1>4 DEF CheckKey

LEMMA DeduplicateKeeps ==
    ASSUME IndInv, NEW w \in Workers, Deduplicate(w)
    PROVE  IndInv'
<1>1. wk[w].pc = "dedup" /\ Earned(wk[w], keys)
    BY LocalFacts DEF Deduplicate, At
<1>2. wk[w].cur \in Steps /\ Recorded(keys, wk[w].cur)
    BY <1>1, CurrentStep DEF Executing, Earned
<1>3. RowInv(Row("succeeded", 0), wk[w].cur, keys)
    BY <1>2, PlainRow DEF StepStates, TerminalStepStates
<1>4. LocalInv([wk[w] EXCEPT !.pc = "release"], keys)
    BY <1>1, StaysOnStep DEF Executing
<1> QED
    BY <1>2, <1>3, <1>4, RowMoves DEF Deduplicate, Goto

LEMMA StartStepKeeps ==
    ASSUME IndInv, NEW w \in Workers, StartStep(w)
    PROVE  IndInv'
<1> DEFINE s == wk[w].cur
           row(live) == [state |-> "running", attempts |-> wk[w].attempt, owner |-> w,
                         live |-> live, waiting |-> FALSE]
<1>1. wk[w].pc = "start" /\ wk[w] \in WorkerType
    BY LocalFacts DEF StartStep, At
<1>2. s \in Steps /\ rows[s] \in RowType
    BY <1>1, CurrentStep DEF Executing, RowInv
<1>3. PICK live \in BOOLEAN : rows' = [rows EXCEPT ![s] = row(live)]
    BY <1>2 DEF StartStep, RowType
<1>4. RowInv(row(live), s, keys)
    BY <1>1, <1>2 DEF RowInv, RowType, StepStates, WorkerType
<1>5. LocalInv([wk[w] EXCEPT !.pc = "begin"], keys)
    BY <1>1, StaysOnStep DEF Executing
<1> QED
    BY <1>2, <1>3, <1>4, <1>5, RowMoves DEF StartStep, Goto

\* A handler that has ended has one of five results; a success is recorded first.
LEMMA ResultKeeps ==
    ASSUME IndInv, NEW w \in Workers, wk[w].pc \in Executing,
           NEW result \in {"ok", "skip", "retry", "fail", "cancelled"},
           NEW pc \in {"record", "settle"}, pc = "record" <=> result \in {"ok", "skip"},
           Goto(w, pc, [wk[w] EXCEPT !.result = result]),
           UNCHANGED << runState, cancelRequested, rows, keys, crashes, replays >>
    PROVE  IndInv'
<1> DEFINE local == [wk[w] EXCEPT !.result = result, !.pc = pc]
<1>1. wk[w] \in WorkerType /\ Fits(wk[w]) /\ Rests(wk[w], keys)
    BY LocalFacts
<1>2. local \in WorkerType
    BY <1>1 DEF WorkerType, ProgramCounters, Results
<1>3. LocalInv(local, keys)
    BY <1>1, <1>2 DEF LocalInv, Fits, Rests, Earned, Executing, WorkerType
<1>4. wk' = [wk EXCEPT ![w] = local]
    BY <1>1 DEF Goto, WorkerType
<1> QED
    BY <1>3, <1>4, LocalsMove

LEMMA BeginHandlerKeeps ==
    ASSUME IndInv, NEW w \in Workers, BeginHandler(w)
    PROVE  IndInv'
<1>1. /\ wk[w].pc = "begin"
      /\ UNCHANGED << runState, cancelRequested, rows, keys, crashes, replays >>
    BY DEF BeginHandler, At
<1>2. CASE Goto(w, "settle", [wk[w] EXCEPT !.result = "cancelled"])
    BY <1>1, <1>2, ResultKeeps DEF Executing
<1>3. CASE Goto(w, "work", wk[w])
    <2>1. LocalInv([wk[w] EXCEPT !.pc = "work"], keys)
        BY <1>1, StaysOnStep DEF Executing
    <2> QED
        BY <1>1, <1>3, <2>1, LocalsMove DEF Goto
<1> QED
    BY <1>2, <1>3 DEF BeginHandler

LEMMA EndHandlerKeeps ==
    ASSUME IndInv, NEW w \in Workers, EndHandler(w)
    PROVE  IndInv'
<1>1. /\ wk[w].pc = "work"
      /\ UNCHANGED << runState, cancelRequested, rows, keys, crashes, replays >>
    BY DEF EndHandler, At
<1>2. wk[w].cur \in Steps
    BY <1>1, CurrentStep DEF Executing
<1>3. PICK outcome \in Outcomes[wk[w].cur] \cup (IF cancelRequested THEN {"cancelled"} ELSE {}) :
          Goto(w, IF outcome \in {"ok", "skip"} THEN "record" ELSE "settle",
               [wk[w] EXCEPT !.result = outcome])
    BY DEF EndHandler
<1>4. outcome \in {"ok", "skip", "retry", "fail", "cancelled"}
    BY <1>2, WorkerAssumption
<1> QED
    BY <1>1, <1>3, <1>4, ResultKeeps DEF Executing

\* The only step that touches the keys: it adds one.
LEMMA RecordKeyKeeps ==
    ASSUME IndInv, NEW w \in Workers, RecordKey(w)
    PROVE  IndInv'
<1> DEFINE local == [wk[w] EXCEPT !.pc = "settle"]
           s == wk[w].cur
<1>1. /\ wk[w].pc = "record" /\ wk[w] \in WorkerType
      /\ Fits(wk[w]) /\ Rests(wk[w], keys)
    BY LocalFacts DEF RecordKey, At
<1>2. s \in Steps /\ s \in wk[w].todo
    BY <1>1, CurrentStep DEF Executing
<1>3. keys \subseteq keys' /\ keys' \subseteq Keys /\ << s, wk[w].payload >> \in keys'
    BY <1>1, <1>2 DEF RecordKey, KeyOf, Keys, IndInv, TypeOK, WorkerType
<1>4. Recorded(keys', s)
    BY <1>1, <1>3 DEF Recorded, WorkerType
<1>5. \A t : Recorded(keys, t) => Recorded(keys', t)
    BY <1>3 DEF Recorded
<1>6. LocalInv(local, keys')
    <2>1. local \in WorkerType
        BY <1>1 DEF WorkerType, ProgramCounters
    <2>2. Rests(local, keys')
        BY <1>1, <1>5 DEF Rests, WorkerType
    <2>3. Earned(local, keys')
        BY <1>1, <1>4 DEF Earned, WorkerType
    <2>4. Fits(local)
        BY <1>1, <1>2 DEF Fits, Executing, WorkerType
    <2> QED
        BY <2>1, <2>2, <2>3, <2>4 DEF LocalInv
<1>7. /\ wk' \in [Workers -> WorkerType]
      /\ \A v \in Workers : LocalInv(wk'[v], keys')
    <2>1. wk' = [wk EXCEPT ![w] = local]
        BY DEF RecordKey, Goto
    <2>2. wk \in [Workers -> WorkerType] /\ \A v \in Workers : LocalInv(wk[v], keys)
        BY DEF IndInv, TypeOK
    <2> HIDE DEF local
    <2> QED
        BY <1>3, <1>6, <2>1, <2>2, OneWorkerMoves
<1>8. \A t \in Steps : RowInv(rows[t], t, keys')
    BY <1>5 DEF IndInv, RowInv
<1> QED
    BY <1>3, <1>7, <1>8 DEF RecordKey, IndInv, TypeOK

\* The row a settled handler leaves is sound: a success was recorded before.
LEMMA SettledRowInv ==
    ASSUME NEW s \in Steps, NEW attempt \in Nat, NEW K,
           NEW result \in {"ok", "skip", "retry", "fail", "cancelled"},
           result = "ok" => Recorded(K, s)
    PROVE  RowInv(SettledRow(s, result, attempt), s, K)
<1> USE DEF StepStates, TerminalStepStates, FailedStates
<1>1. CASE result = "ok"
    <2>1. RowInv(Row("succeeded", attempt), s, K)
        BY <1>1, PlainRow
    <2> QED
        BY <1>1, <2>1 DEF SettledRow
<1>2. CASE result = "skip"
    <2>1. RowInv(Row("skipped", attempt), s, K)
        BY PlainRow
    <2> QED
        BY <1>2, <2>1 DEF SettledRow
<1>3. CASE result = "cancelled"
    <2>1. RowInv(Row("cancelled", attempt), s, K)
        BY PlainRow
    <2> QED
        BY <1>3, <2>1 DEF SettledRow
<1>4. CASE result = "fail"
    <2>1. RowInv(Row("failed", attempt), s, K)
        BY PlainRow
    <2> QED
        BY <1>4, <2>1 DEF SettledRow
<1>5. CASE result = "retry" /\ attempt >= MaxAttempts[s]
    <2>1. RowInv(Row("dead_lettered", attempt), s, K)
        BY PlainRow
    <2> QED
        BY <1>5, <2>1 DEF SettledRow
<1>6. CASE result = "retry" /\ ~(attempt >= MaxAttempts[s])
    <2>1. RowInv(Row("pending", attempt), s, K)
        BY PlainRow
    <2>2. RowInv([Row("pending", attempt) EXCEPT !.waiting = TRUE], s, K)
        BY <2>1 DEF RowInv, RowType
    <2>3. SettledRow(s, result, attempt) = [Row("pending", attempt) EXCEPT !.waiting = TRUE]
        BY <1>6 DEF SettledRow
    <2> QED
        BY <2>2, <2>3
<1> QED
    BY <1>1, <1>2, <1>3, <1>4, <1>5, <1>6

LEMMA SettleStepKeeps ==
    ASSUME IndInv, NEW w \in Workers, SettleStep(w)
    PROVE  IndInv'
<1> DEFINE s == wk[w].cur
           payload == IF wk[w].result = "ok" THEN wk[w].payload \cup {s} ELSE wk[w].payload
           local == [wk[w] EXCEPT !.payload = payload, !.pc = "release"]
<1>1. /\ wk[w].pc = "settle" /\ wk[w] \in WorkerType
      /\ Fits(wk[w]) /\ Rests(wk[w], keys) /\ Earned(wk[w], keys)
    BY LocalFacts DEF SettleStep, At
<1>2. s \in Steps /\ s \in wk[w].todo
    BY <1>1, CurrentStep DEF Executing
<1>3. RowInv(SettledRow(s, wk[w].result, wk[w].attempt), s, keys)
    BY <1>1, <1>2, SettledRowInv DEF Fits, Earned, WorkerType
<1>4. payload \in SUBSET Steps
    BY <1>1, <1>2 DEF WorkerType
<1>5. wk' = [wk EXCEPT ![w] = local]
    BY <1>1 DEF SettleStep, Goto, WorkerType
<1>6. LocalInv(local, keys)
    <2> HIDE DEF payload
    <2>1. local \in WorkerType
        BY <1>1, <1>4 DEF WorkerType, ProgramCounters
    <2> QED
        BY <1>1, <1>2, <2>1 DEF LocalInv, Fits, Rests, Earned, Executing, WorkerType
<1> QED
    BY <1>2, <1>3, <1>5, <1>6, RowMoves DEF SettleStep

\* A lease is given back only by its owner, and the row keeps its state.
LEMMA ReleasedRows ==
    ASSUME IndInv, NEW w \in Workers, NEW s \in Steps
    PROVE  \E row : RowInv(row, s, keys) /\ Released(w, s) = [rows EXCEPT ![s] = row]
<1>1. rows \in [Steps -> RowType] /\ RowInv(rows[s], s, keys)
    BY DEF IndInv, TypeOK
<1>2. CASE rows[s].owner = w
    <2> DEFINE row == [rows[s] EXCEPT !.owner = None, !.live = FALSE]
    <2>1. RowInv(row, s, keys)
        BY LeaseIsARow
    <2>2. Released(w, s) = [rows EXCEPT ![s] = row]
        BY <1>1, <1>2 DEF Released, RowType
    <2> QED
        BY <2>1, <2>2
<1>3. CASE rows[s].owner # w
    <2>1. Released(w, s) = [rows EXCEPT ![s] = rows[s]]
        BY <1>1, <1>3 DEF Released
    <2> QED
        BY <1>1, <2>1
<1> QED
    BY <1>2, <1>3

LEMMA ReleaseLeaseKeeps ==
    ASSUME IndInv, NEW w \in Workers, ReleaseLease(w)
    PROVE  IndInv'
<1> DEFINE s == wk[w].cur
<1>1. wk[w].pc = "release"
    BY DEF ReleaseLease, At
<1>2. s \in Steps
    BY <1>1, CurrentStep DEF Executing
<1>3. PICK row : RowInv(row, s, keys) /\ rows' = [rows EXCEPT ![s] = row]
    BY <1>2, ReleasedRows DEF ReleaseLease
<1>4. PICK next : LocalInv(next, keys) /\ wk' = [wk EXCEPT ![w] = next]
    BY <1>1, NextStepLocals DEF ReleaseLease
<1> QED
    BY <1>2, <1>3, <1>4, RowMoves DEF ReleaseLease

LEMMA RaiseKeeps ==
    ASSUME IndInv, NEW w \in Workers, Raise(w)
    PROVE  IndInv'
<1> DEFINE s == wk[w].cur
<1>1. wk' = [wk EXCEPT ![w] = IdleWorker] /\ LocalInv(IdleWorker, keys)
    BY IdleInv DEF Raise, Return
<1>2. CASE s = None
    BY <1>1, <1>2, LocalsMove DEF Raise
<1>3. CASE s # None
    <2>1. s \in Steps
        BY <1>3, LocalFacts DEF WorkerType
    <2>2. PICK row : RowInv(row, s, keys) /\ rows' = [rows EXCEPT ![s] = row]
        BY <1>3, <2>1, ReleasedRows DEF Raise
    <2> QED
        BY <1>1, <2>1, <2>2, RowMoves DEF Raise
<1> QED
    BY <1>2, <1>3

LEMMA CancelLoadKeeps ==
    ASSUME IndInv, NEW w \in Workers, CancelLoad(w)
    PROVE  IndInv'
<1> DEFINE open == {s \in Steps : rows[s].state \in {"pending", "running", "cancelled"}}
<1>1. /\ wk[w].pc = "cancel" /\ wk[w] \in WorkerType
      /\ Fits(wk[w]) /\ Rests(wk[w], keys)
      /\ UNCHANGED << runState, cancelRequested, rows, keys, crashes, replays >>
    BY LocalFacts DEF CancelLoad, At
<1>2. << "cancelled" >> \in Seq(AssessmentStates) /\ << "cancelled" >> # << >>
    <2>1. "cancelled" \in AssessmentStates
        BY DEF AssessmentStates, TerminalStates
    <2> QED
        BY <2>1
<1>3. CASE Goto(w, "setread", [wk[w] EXCEPT !.path = << "cancelled" >>])
    <2> DEFINE path == << "cancelled" >>
               local == [wk[w] EXCEPT !.path = path, !.pc = "setread"]
    <2>1. wk' = [wk EXCEPT ![w] = local]
        BY <1>1, <1>3 DEF Goto, WorkerType
    <2>2. path \in Seq(AssessmentStates) /\ path # << >>
        BY <1>2
    <2> HIDE DEF path
    <2>3. local \in WorkerType
        BY <1>1, <2>2 DEF WorkerType, ProgramCounters
    <2>4. LocalInv(local, keys)
        BY <1>1, <2>2, <2>3 DEF LocalInv, Fits, Rests, Earned, Executing, WorkerType
    <2> QED
        BY <1>1, <2>1, <2>4, LocalsMove
<1>4. CASE open # {} /\ Goto(w, "cancelstep", [wk[w] EXCEPT !.todo = open])
    <2> DEFINE local == [wk[w] EXCEPT !.todo = open, !.pc = "cancelstep"]
    <2>1. wk' = [wk EXCEPT ![w] = local]
        BY <1>1, <1>4 DEF Goto, WorkerType
    <2>2. local \in WorkerType
        BY <1>1 DEF WorkerType, ProgramCounters
    <2>3. LocalInv(local, keys)
        BY <1>1, <1>4, <2>2 DEF LocalInv, Fits, Rests, Earned, Executing, WorkerType
    <2> QED
        BY <1>1, <2>1, <2>3, LocalsMove
<1> QED
    BY <1>3, <1>4 DEF CancelLoad

LEMMA CancelStepKeeps ==
    ASSUME IndInv, NEW w \in Workers, CancelStep(w)
    PROVE  IndInv'
<1> DEFINE s == FirstOf(wk[w].todo)
           rest == wk[w].todo \ {s}
<1>1. /\ wk[w].pc = "cancelstep" /\ wk[w] \in WorkerType
      /\ Fits(wk[w]) /\ Rests(wk[w], keys)
    BY LocalFacts DEF CancelStep, At
<1>2. wk[w].todo # {} /\ wk[w].todo \in SUBSET Steps
    BY <1>1 DEF Fits, WorkerType
<1>3. s \in Steps
    BY <1>2, FirstOfMember
<1>4. RowInv(Row("cancelled", 0), s, keys)
    BY PlainRow DEF StepStates, TerminalStepStates
<1> HIDE DEF s
<1>5. \E local : LocalInv(local, keys) /\ wk' = [wk EXCEPT ![w] = local]
    <2>1. CASE rest = {}
        <3> DEFINE path == << "cancelled" >>
                   local == [wk[w] EXCEPT !.todo = {}, !.path = path, !.pc = "setread"]
        <3>1. wk' = [wk EXCEPT ![w] = local]
            BY <1>1, <2>1 DEF CancelStep, Goto, WorkerType, s
        <3>2. path \in Seq(AssessmentStates) /\ path # << >>
            <4>1. "cancelled" \in AssessmentStates
                BY DEF AssessmentStates, TerminalStates
            <4> QED
                BY <4>1
        <3> HIDE DEF path
        <3>3. local \in WorkerType
            BY <1>1, <3>2 DEF WorkerType, ProgramCounters
        <3>4. LocalInv(local, keys)
            BY <1>1, <3>2, <3>3 DEF LocalInv, Fits, Rests, Earned, Executing, WorkerType
        <3> QED
            BY <3>1, <3>4
    <2>2. CASE rest # {}
        <3> DEFINE local == [wk[w] EXCEPT !.todo = rest, !.pc = "cancelstep"]
        <3>1. wk' = [wk EXCEPT ![w] = local]
            BY <1>1, <2>2 DEF CancelStep, Goto, WorkerType, s
        <3>2. local \in WorkerType
            BY <1>1 DEF WorkerType, ProgramCounters
        <3>3. LocalInv(local, keys)
            BY <1>1, <2>2, <3>2 DEF LocalInv, Fits, Rests, Earned, Executing, WorkerType
        <3> QED
            BY <3>1, <3>3
    <2> QED
        BY <2>1, <2>2
<1>6. PICK local : LocalInv(local, keys) /\ wk' = [wk EXCEPT ![w] = local]
    BY <1>5
<1> QED
    BY <1>3, <1>4, <1>6, RowMoves DEF CancelStep, s

\* A process that dies loses its locals; its replacement starts with none.
LEMMA CrashKeeps ==
    ASSUME IndInv, NEW w \in Workers, Crash(w)
    PROVE  IndInv'
<1> DEFINE local == [IdleWorker EXCEPT !.pc = "dead"]
<1>1. LocalInv(local, keys)
    <2>1. IdleWorker \in WorkerType
        BY IdleInv DEF LocalInv
    <2>2. local \in WorkerType
        BY <2>1 DEF WorkerType, ProgramCounters
    <2> QED
        BY <2>2 DEF LocalInv, Fits, Rests, Earned, IdleWorker, Executing
<1>2. /\ wk' \in [Workers -> WorkerType]
      /\ \A v \in Workers : LocalInv(wk'[v], keys)
    <2>1. wk' = [wk EXCEPT ![w] = local]
        BY DEF Crash, Goto
    <2>2. wk \in [Workers -> WorkerType] /\ \A v \in Workers : LocalInv(wk[v], keys)
        BY DEF IndInv, TypeOK
    <2> HIDE DEF local
    <2> QED
        BY <1>1, <2>1, <2>2, OneWorkerMoves
<1>3. crashes' \in 0..MaxCrashes
    BY WorkerAssumption DEF Crash, IndInv, TypeOK
<1> QED
    BY <1>2, <1>3 DEF Crash, IndInv, TypeOK

LEMMA RestartKeeps ==
    ASSUME IndInv, NEW w \in Workers, Restart(w)
    PROVE  IndInv'
BY ReturnKeeps DEF Restart

LEMMA RequestCancellationKeeps ==
    ASSUME IndInv, RequestCancellation
    PROVE  IndInv'
BY DEF RequestCancellation, IndInv, TypeOK

LEMMA ReplayKeeps ==
    ASSUME IndInv, NEW s \in Steps, Replay(s)
    PROVE  IndInv'
<1>1. RowInv(Row("pending", 0), s, keys)
    BY PlainRow DEF StepStates
<1>2. replays' \in 0..MaxReplays
    BY WorkerAssumption DEF Replay, IndInv, TypeOK
<1> QED
    BY <1>1, <1>2, EnvironmentRow DEF Replay

LEMMA TimeKeeps ==
    ASSUME IndInv, Time
    PROVE  IndInv'
<1>1. PICK s \in Steps : BackoffElapses(s) \/ LeaseLapses(s)
    BY DEF Time
<1>2. /\ rows \in [Steps -> RowType] /\ RowInv(rows[s], s, keys)
      /\ replays \in 0..MaxReplays
    BY DEF IndInv, TypeOK
<1>3. CASE BackoffElapses(s)
    <2> DEFINE row == [rows[s] EXCEPT !.waiting = FALSE]
    <2>1. RowInv(row, s, keys)
        BY <1>2 DEF RowInv, RowType
    <2>2. rows' = [rows EXCEPT ![s] = row]
        BY <1>2, <1>3 DEF BackoffElapses, RowType
    <2> QED
        BY <1>2, <1>3, <2>1, <2>2, EnvironmentRow DEF BackoffElapses
<1>4. CASE LeaseLapses(s)
    <2> DEFINE row == [rows[s] EXCEPT !.live = FALSE]
    <2>1. RowInv(row, s, keys)
        BY <1>2 DEF RowInv, RowType
    <2>2. rows' = [rows EXCEPT ![s] = row]
        BY <1>2, <1>4 DEF LeaseLapses, RowType
    <2> QED
        BY <1>2, <1>4, <2>1, <2>2, EnvironmentRow DEF LeaseLapses
<1> QED
    BY <1>1, <1>3, <1>4

LEMMA InitKeeps ==
    ASSUME Init
    PROVE  IndInv
<1>1. "queued" \in AssessmentStates
    <2>1. Phases[3] = "queued" /\ 3 \in 1..10
        BY DEF Phases
    <2> QED
        BY <2>1, PhaseIsState
<1>2. RowInv(Row("pending", 0), None, {}) /\ Row("pending", 0) \in RowType
    BY PlainRow DEF RowInv, StepStates
<1>3. rows \in [Steps -> RowType] /\ \A s \in Steps : RowInv(rows[s], s, keys)
    BY <1>2 DEF Init, RowInv, Row
<1>4. IdleWorker \in WorkerType /\ LocalInv(IdleWorker, keys)
    BY IdleInv DEF LocalInv
<1>5. wk \in [Workers -> WorkerType] /\ \A w \in Workers : LocalInv(wk[w], keys)
    BY <1>4 DEF Init
<1>6. crashes \in 0..MaxCrashes /\ replays \in 0..MaxReplays
    BY WorkerAssumption DEF Init
<1> QED
    BY <1>1, <1>3, <1>5, <1>6 DEF Init, IndInv, TypeOK

LEMMA NextKeeps ==
    ASSUME IndInv, [Next]_vars
    PROVE  IndInv'
<1>1. ASSUME NEW w \in Workers, RunStep(w)
      PROVE  IndInv'
    BY <1>1, CheckCancellationKeeps, LoadStepsKeeps, SkipBlockedKeeps, SettleRunKeeps,
       ReadStateKeeps, WriteStateKeeps, CancelLoadKeeps, CancelStepKeeps, RaiseKeeps
       DEF RunStep
<1>2. ASSUME NEW w \in Workers, ExecuteStep(w)
      PROVE  IndInv'
    BY <1>2, ClaimKeeps, AcquireLeaseKeeps, AdvanceToKeeps, CheckKeyKeeps,
       DeduplicateKeeps, StartStepKeeps, BeginHandlerKeeps, EndHandlerKeeps,
       RecordKeyKeeps, SettleStepKeeps, ReleaseLeaseKeeps
       DEF ExecuteStep
<1>3. ASSUME NEW w \in Workers, Deliver(w) \/ Crash(w) \/ Restart(w)
      PROVE  IndInv'
    BY <1>3, DeliverKeeps, CrashKeeps, RestartKeeps
<1>4. CASE RequestCancellation \/ Time \/ \E s \in Steps : Replay(s)
    BY <1>4, RequestCancellationKeeps, TimeKeeps, ReplayKeeps
<1>5. CASE UNCHANGED vars
    BY <1>5 DEF vars, IndInv, TypeOK
<1> QED
    BY <1>1, <1>2, <1>3, <1>4, <1>5 DEF Next

\* The invariant holds of every engine: any graph, any number of deliveries,
\* any number of crashes, replays and duplicate messages.
THEOREM Invariance == Spec => []IndInv
<1>1. Init => IndInv
    BY InitKeeps
<1>2. IndInv /\ [Next]_vars => IndInv'
    BY NextKeeps
<1> QED
    BY <1>1, <1>2, PTL DEF Spec

\* Every variable of the engine keeps its type.
THEOREM TypeCorrect == Spec => []TypeOK
<1>1. IndInv => TypeOK
    BY DEF IndInv
<1> QED
    BY <1>1, Invariance, PTL

\* A handler of _execute runs only after every required dependency of its step
\* has recorded completed work, whatever other deliveries did to the rows since
\* the step was found ready.
THEOREM WorkRestsOnWork == Spec => []RequiredWorkRecorded
<1>1. IndInv => RequiredWorkRecorded
    <2> SUFFICES ASSUME IndInv, NEW w \in Workers, At(w, "work"),
                        NEW d \in Deps[wk[w].cur] \ Optional
                 PROVE  Recorded(keys, d)
        BY DEF RequiredWorkRecorded
    <2>1. wk[w].cur \in wk[w].todo /\ Rests(wk[w], keys)
        BY CurrentStep, LocalFacts DEF Executing, At
    <2> QED
        BY <2>1 DEF Rests, At
<1> QED
    BY <1>1, Invariance, PTL

(***************************************************************************)
(* Leases.  A delivery that executes a step which nothing puts aside owns  *)
(* its live lease, until somebody asks for a cancellation; from then on no *)
(* delivery enters a handler any more.                                     *)
(***************************************************************************)
Holding ==
    {"advance", "setread", "setwrite", "keycheck", "dedup", "start", "begin", "work",
     "record", "settle"}

Inside == {"work", "record"}

\* The step that w executes is its own, by the rows R.
HoldsLease(w, local, R) ==
    local.pc \in Holding /\ local.cur \in Sheltered
        => R[local.cur].owner = w /\ R[local.cur].live

\* The work that w is about to do is not among the keys K.
NewWork(local, K) == local.cur \in Sheltered => << local.cur, local.payload >> \notin K

\* What a delivery relies on as long as nobody has asked for a cancellation.
Undisturbed(w, local, R, K) ==
    /\ local.pc \notin {"cancel", "cancelstep"}
    /\ local.result # "cancelled"
    /\ local.pc = "skip" => local.todo \cap Sheltered = {}
    /\ HoldsLease(w, local, R)
    /\ local.pc \in {"start", "begin"} => NewWork(local, K)

LeaseInv ==
    replays = 0 =>
        /\ ~cancelRequested =>
              /\ \A w \in Workers : Undisturbed(w, wk[w], rows, keys)
              /\ \A s \in Steps : rows[s].state # "cancelled"
        /\ \A w \in Workers : wk[w].pc \in Inside => NewWork(wk[w], keys)
        /\ \A v, w \in Workers :
              wk[v].pc \in Inside /\ wk[w].pc \in Inside
                  /\ wk[v].cur = wk[w].cur /\ wk[v].cur \in Sheltered => v = w

\* No lease that another delivery relies on changes hands.
LeasesStay(w) == \A v \in Workers \ {w} : HoldsLease(v, wk[v], rows')

\* A delivery changes its locals, and perhaps a row nobody else relies on.
LEMMA LeaseMoves ==
    ASSUME IndInv, LeaseInv, NEW w \in Workers, NEW local,
           wk' = [wk EXCEPT ![w] = local],
           UNCHANGED << cancelRequested, keys, replays >>,
           replays = 0 /\ ~cancelRequested =>
               /\ Undisturbed(w, local, rows', keys)
               /\ \A s \in Steps : rows'[s].state # "cancelled"
               /\ LeasesStay(w),
           replays = 0 /\ local.pc \in Inside =>
               /\ NewWork(local, keys)
               /\ local.cur = wk[w].cur
               /\ wk[w].pc \in Inside \/ ~cancelRequested
    PROVE  LeaseInv'
<1> SUFFICES ASSUME replays = 0 PROVE LeaseInv'
    BY DEF LeaseInv
<1>1. \A v \in Workers : wk'[v] = IF v = w THEN local ELSE wk[v]
    BY DEF IndInv, TypeOK
<1>2. ASSUME ~cancelRequested, NEW v \in Workers
      PROVE  Undisturbed(v, wk'[v], rows', keys)
    <2>1. CASE v = w
        BY <1>1, <1>2, <2>1
    <2>2. CASE v # w
        <3>1. Undisturbed(v, wk[v], rows, keys) /\ HoldsLease(v, wk[v], rows')
            BY <1>2, <2>2 DEF LeaseInv, LeasesStay
        <3> QED
            BY <1>1, <2>2, <3>1 DEF Undisturbed
    <2> QED
        BY <2>1, <2>2
<1>3. \A v \in Workers : wk'[v].pc \in Inside => NewWork(wk'[v], keys)
    BY <1>1 DEF LeaseInv
<1>4. ASSUME NEW v \in Workers, v # w, wk[v].pc \in Inside, local.pc \in Inside,
             wk[v].cur = local.cur, local.cur \in Sheltered
      PROVE  FALSE
    <2>1. CASE wk[w].pc \in Inside
        BY <1>4, <2>1 DEF LeaseInv
    <2>2. CASE ~cancelRequested
        <3>1. local.pc \in Holding /\ wk[v].pc \in Holding
            BY <1>4 DEF Inside, Holding
        <3>2. rows'[local.cur].owner = w
            BY <1>4, <2>2, <3>1 DEF Undisturbed, HoldsLease
        <3>3. rows'[local.cur].owner = v
            BY <1>4, <2>2, <3>1 DEF LeasesStay, HoldsLease
        <3> QED
            BY <1>4, <3>2, <3>3
    <2> QED
        BY <1>4, <2>1, <2>2
<1>5. \A v, u \in Workers :
          wk'[v].pc \in Inside /\ wk'[u].pc \in Inside
              /\ wk'[v].cur = wk'[u].cur /\ wk'[v].cur \in Sheltered => v = u
    BY <1>1, <1>4 DEF LeaseInv
<1>6. ~cancelRequested => \A s \in Steps : rows'[s].state # "cancelled"
    OBVIOUS
<1> QED
    BY <1>2, <1>3, <1>5, <1>6 DEF LeaseInv

\* The rows stay as they are.
LEMMA LeasesUntouched ==
    ASSUME IndInv, LeaseInv, NEW w \in Workers, NEW local,
           wk' = [wk EXCEPT ![w] = local],
           UNCHANGED << cancelRequested, rows, keys, replays >>,
           replays = 0 /\ ~cancelRequested => Undisturbed(w, local, rows, keys),
           replays = 0 /\ local.pc \in Inside =>
               /\ NewWork(local, keys)
               /\ local.cur = wk[w].cur
               /\ wk[w].pc \in Inside \/ ~cancelRequested
    PROVE  LeaseInv'
<1>1. replays = 0 /\ ~cancelRequested
          => LeasesStay(w) /\ \A s \in Steps : rows'[s].state # "cancelled"
    BY DEF LeasesStay, LeaseInv, Undisturbed
<1> QED
    BY <1>1, LeaseMoves

\* A delivery that stands outside the handlers and the reads of _cancel.
LEMMA StandsOutside ==
    ASSUME NEW w, NEW local, NEW R, NEW K, local.result # "cancelled",
           local.pc \notin Holding \cup {"cancel", "cancelstep", "skip"}
    PROVE  Undisturbed(w, local, R, K)
BY DEF Undisturbed, HoldsLease, Holding

LEMMA NotInside ==
    ASSUME NEW pc, pc \notin Holding
    PROVE  pc \notin Inside
BY DEF Holding, Inside

\* Two deliveries never rely on one lease.
LEMMA OneHolder ==
    ASSUME LeaseInv, replays = 0, ~cancelRequested, NEW v \in Workers, NEW w \in Workers,
           wk[v].pc \in Holding, wk[w].pc \in Holding,
           wk[v].cur = wk[w].cur, wk[v].cur \in Sheltered
    PROVE  v = w
<1>1. rows[wk[v].cur].owner = v
    BY DEF LeaseInv, Undisturbed, HoldsLease
<1>2. rows[wk[w].cur].owner = w
    BY DEF LeaseInv, Undisturbed, HoldsLease
<1> QED
    BY <1>1, <1>2

\* Rewriting a row that no other delivery relies on.
LEMMA RowOfNobodyElse ==
    ASSUME IndInv, LeaseInv, replays = 0, ~cancelRequested, NEW w \in Workers,
           NEW s, NEW row, rows' = [rows EXCEPT ![s] = row],
           \A v \in Workers \ {w} : ~(wk[v].pc \in Holding /\ wk[v].cur \in Sheltered /\ wk[v].cur = s)
    PROVE  LeasesStay(w)
<1> SUFFICES ASSUME NEW v \in Workers \ {w}, wk[v].pc \in Holding, wk[v].cur \in Sheltered
             PROVE  rows'[wk[v].cur].owner = v /\ rows'[wk[v].cur].live
    BY DEF LeasesStay, HoldsLease
<1>1. rows'[wk[v].cur] = rows[wk[v].cur]
    BY DEF IndInv, TypeOK, Sheltered
<1> QED
    BY <1>1 DEF LeaseInv, Undisturbed, HoldsLease

\* Rewriting the row of the step one holds takes nothing from the others.
LEMMA OwnRow ==
    ASSUME IndInv, LeaseInv, replays = 0, ~cancelRequested, NEW w \in Workers,
           wk[w].pc \in Holding, NEW row, rows' = [rows EXCEPT ![wk[w].cur] = row]
    PROVE  LeasesStay(w)
BY OneHolder, RowOfNobodyElse

\* Giving back one's lease, if it is still one's own, takes nothing either.
LEMMA OwnLease ==
    ASSUME IndInv, LeaseInv, replays = 0, ~cancelRequested, NEW w \in Workers,
           NEW s \in Steps, rows' = Released(w, s)
    PROVE  LeasesStay(w) /\ \A t \in Steps : rows'[t].state # "cancelled"
<1>1. rows \in [Steps -> RowType] /\ \A t \in Steps : rows[t].state # "cancelled"
    BY DEF IndInv, TypeOK, LeaseInv
<1>2. CASE rows[s].owner = w
    <2> DEFINE row == [rows[s] EXCEPT !.owner = None, !.live = FALSE]
    <2>1. rows' = [rows EXCEPT ![s] = row]
        BY <1>1, <1>2 DEF Released, RowType
    <2>2. row.state = rows[s].state
        BY <1>1 DEF RowType
    <2> HIDE DEF row
    <2>3. \A t \in Steps : rows'[t].state # "cancelled"
        BY <1>1, <2>1, <2>2
    <2>4. \A v \in Workers \ {w} :
              ~(wk[v].pc \in Holding /\ wk[v].cur \in Sheltered /\ wk[v].cur = s)
        BY <1>2 DEF LeaseInv, Undisturbed, HoldsLease
    <2> QED
        BY <2>1, <2>3, <2>4, RowOfNobodyElse
<1>3. CASE rows[s].owner # w
    BY <1>1, <1>3 DEF Released, LeasesStay, LeaseInv, Undisturbed
<1> QED
    BY <1>2, <1>3

\* A delivery that returns holds nothing.
LEMMA IdleHoldsNothing ==
    /\ \A w, R, K : Undisturbed(w, IdleWorker, R, K)
    /\ IdleWorker.pc \notin Inside
<1>1. IdleWorker.result # "cancelled" /\ IdleWorker.pc = "idle"
    BY WorkerAssumption DEF IdleWorker, AssessmentStates, TerminalStates
<1>2. IdleWorker.pc \notin Holding \cup {"cancel", "cancelstep", "skip"}
    BY <1>1 DEF Holding
<1> QED
    BY <1>1, <1>2, StandsOutside, NotInside

LEMMA ReturnKeepsLeases ==
    ASSUME IndInv, LeaseInv, NEW w \in Workers, Return(w),
           UNCHANGED << cancelRequested, rows, keys, replays >>
    PROVE  LeaseInv'
BY IdleHoldsNothing, LeasesUntouched DEF Return

\* The rest of the ready steps is gone through without a lease.
LEMMA NextStepHoldsNothing ==
    ASSUME IndInv, NEW w \in Workers, wk[w].pc \notin {"skip", "cancelstep"},
           NEW rest \in SUBSET wk[w].todo, NEW moved \in BOOLEAN,
           NextStep(w, rest, moved)
    PROVE  \E local : /\ wk' = [wk EXCEPT ![w] = local]
                      /\ \A R, K : Undisturbed(w, local, R, K)
                      /\ local.pc \notin Inside
<1>1. PICK local : /\ wk' = [wk EXCEPT ![w] = local]
                   /\ local.pc \in {"claim", "check", "idle"} /\ local.result = None
    BY NextStepLocals
<1>2. local.result # "cancelled" /\ local.pc \notin Holding \cup {"cancel", "cancelstep", "skip"}
    BY <1>1, WorkerAssumption DEF Holding, AssessmentStates, TerminalStates
<1>3. \A R, K : Undisturbed(w, local, R, K)
    BY <1>2, StandsOutside
<1> QED
    BY <1>1, <1>2, <1>3, NotInside

\* A step of one delivery that leaves the rows alone and holds nothing after it.
LEMMA GoesOutside ==
    ASSUME IndInv, LeaseInv, NEW w \in Workers, NEW local, wk' = [wk EXCEPT ![w] = local],
           UNCHANGED << cancelRequested, rows, keys, replays >>,
           replays = 0 /\ ~cancelRequested => local.result # "cancelled",
           local.pc \notin Holding \cup {"cancel", "cancelstep", "skip"}
    PROVE  LeaseInv'
BY StandsOutside, NotInside, LeasesUntouched

\* Before a cancellation no delivery has seen one.
LEMMA NothingCancelled ==
    ASSUME LeaseInv, replays = 0, ~cancelRequested, NEW w \in Workers
    PROVE  /\ wk[w].result # "cancelled" /\ wk[w].pc \notin {"cancel", "cancelstep"}
           /\ \A s \in Steps : rows[s].state # "cancelled"
BY DEF LeaseInv, Undisturbed

LEMMA DeliverKeepsLeases ==
    ASSUME IndInv, LeaseInv, NEW w \in Workers, Deliver(w)
    PROVE  LeaseInv'
<1> DEFINE local == [wk[w] EXCEPT !.pc = "check"]
<1>1. wk' = [wk EXCEPT ![w] = local]
    BY DEF Deliver, Goto
<1>2. local.pc = "check" /\ local.result = wk[w].result
    BY LocalFacts DEF WorkerType
<1> HIDE DEF local
<1> QED
    BY <1>1, <1>2, NothingCancelled, GoesOutside DEF Deliver, Holding

LEMMA CheckCancellationKeepsLeases ==
    ASSUME IndInv, LeaseInv, NEW w \in Workers, CheckCancellation(w)
    PROVE  LeaseInv'
<1> DEFINE local == [wk[w] EXCEPT !.pc = IF cancelRequested THEN "cancel" ELSE "load"]
<1>1. wk' = [wk EXCEPT ![w] = local]
    BY DEF CheckCancellation, Goto
<1>2. /\ local.result = wk[w].result /\ local.pc \notin Holding
      /\ ~cancelRequested => local.pc = "load"
    BY LocalFacts DEF WorkerType, Holding
<1> HIDE DEF local
<1>3. replays = 0 /\ ~cancelRequested => Undisturbed(w, local, rows, keys)
    BY <1>2, NothingCancelled, StandsOutside
<1> QED
    BY <1>1, <1>2, <1>3, NotInside, LeasesUntouched DEF CheckCancellation

LEMMA SettleRunKeepsLeases ==
    ASSUME IndInv, LeaseInv, NEW w \in Workers, SettleRun(w)
    PROVE  LeaseInv'
<1>1. /\ wk[w] \in WorkerType
      /\ UNCHANGED << cancelRequested, rows, keys, replays >>
    BY LocalFacts DEF SettleRun
<1>2. wk[w].cur = None /\ None \notin Sheltered /\ None # "cancelled"
    BY LocalFacts, WorkerAssumption
       DEF SettleRun, At, Fits, Executing, Sheltered, AssessmentStates, TerminalStates
<1>3. CASE Goto(w, "raised", wk[w])
    <2> DEFINE local == [wk[w] EXCEPT !.pc = "raised"]
    <2>1. wk' = [wk EXCEPT ![w] = local]
        BY <1>3 DEF Goto
    <2>2. local.pc = "raised" /\ local.result = wk[w].result
        BY <1>1 DEF WorkerType
    <2> HIDE DEF local
    <2> QED
        BY <1>1, <2>1, <2>2, NothingCancelled, GoesOutside DEF Holding
<1>4. CASE Goto(w, "setread", [wk[w] EXCEPT !.path = SettlePath(wk[w].result), !.result = None])
    <2> DEFINE path == SettlePath(wk[w].result)
               local == [wk[w] EXCEPT !.path = path, !.result = None, !.pc = "setread"]
    <2>1. wk' = [wk EXCEPT ![w] = local]
        BY <1>1, <1>4 DEF Goto, WorkerType
    <2> HIDE DEF path
    <2>2. local.pc = "setread" /\ local.cur = None /\ local.result = None
        BY <1>1, <1>2 DEF WorkerType
    <2> HIDE DEF local
    <2>3. Undisturbed(w, local, rows, keys) /\ local.pc \notin Inside
        BY <1>2, <2>2 DEF Undisturbed, HoldsLease, Inside
    <2> QED
        BY <1>1, <2>1, <2>3, LeasesUntouched
<1> QED
    BY <1>3, <1>4 DEF SettleRun

LEMMA CancelLoadKeepsLeases ==
    ASSUME IndInv, LeaseInv, NEW w \in Workers, CancelLoad(w)
    PROVE  LeaseInv'
<1>1. /\ wk[w] \in WorkerType
      /\ UNCHANGED << cancelRequested, rows, keys, replays >>
      /\ wk[w].pc = "cancel"
    BY LocalFacts DEF CancelLoad, At
<1>2. ~(replays = 0 /\ ~cancelRequested)
    BY <1>1, NothingCancelled
<1> DEFINE open == {s \in Steps : rows[s].state \in {"pending", "running", "cancelled"}}
           path == << "cancelled" >>
<1>3. CASE Goto(w, "setread", [wk[w] EXCEPT !.path = path])
    <2> DEFINE local == [wk[w] EXCEPT !.path = path, !.pc = "setread"]
    <2>1. wk' = [wk EXCEPT ![w] = local]
        BY <1>1, <1>3 DEF Goto, WorkerType
    <2> HIDE DEF path
    <2>2. local.pc \notin Inside
        BY <1>1 DEF WorkerType, Inside
    <2> HIDE DEF local
    <2> QED
        BY <1>1, <1>2, <2>1, <2>2, LeasesUntouched
<1>4. CASE Goto(w, "cancelstep", [wk[w] EXCEPT !.todo = open])
    <2> DEFINE local == [wk[w] EXCEPT !.todo = open, !.pc = "cancelstep"]
    <2>1. wk' = [wk EXCEPT ![w] = local]
        BY <1>1, <1>4 DEF Goto, WorkerType
    <2> HIDE DEF open
    <2>2. local.pc \notin Inside
        BY <1>1 DEF WorkerType, Inside
    <2> HIDE DEF local
    <2> QED
        BY <1>1, <1>2, <2>1, <2>2, LeasesUntouched
<1> QED
    BY <1>3, <1>4 DEF CancelLoad

\* A step that rests on no required one is not among the blocked ones.
LEMMA LoadStepsKeepsLeases ==
    ASSUME IndInv, LeaseInv, NEW w \in Workers, LoadSteps(w)
    PROVE  LeaseInv'
<1>1. /\ wk[w] \in WorkerType
      /\ UNCHANGED << cancelRequested, rows, keys, replays >>
    BY LocalFacts DEF LoadSteps
<1>2. replays = 0 /\ ~cancelRequested
          => wk[w].result # "cancelled" /\ \A s \in Steps : States[s] # "cancelled"
    BY NothingCancelled DEF States
<1>3. CASE Goto(w, "skip", [wk[w] EXCEPT !.todo = Blocked(States)])
    <2> DEFINE blocked == Blocked(States)
               local == [wk[w] EXCEPT !.todo = blocked, !.pc = "skip"]
    <2>1. replays = 0 /\ ~cancelRequested => blocked \cap Sheltered = {}
        BY <1>2, GraphAssumption DEF Blocked, Sheltered
    <2>2. wk' = [wk EXCEPT ![w] = local]
        BY <1>1, <1>3 DEF Goto, WorkerType
    <2> HIDE DEF blocked
    <2>3. local.pc = "skip" /\ local.todo = blocked /\ local.result = wk[w].result
        BY <1>1 DEF WorkerType
    <2> HIDE DEF local
    <2>4. replays = 0 /\ ~cancelRequested => Undisturbed(w, local, rows, keys)
        BY <1>2, <2>1, <2>3 DEF Undisturbed, HoldsLease, Holding
    <2>5. local.pc \notin Inside
        BY <2>3 DEF Inside
    <2> QED
        BY <1>1, <2>2, <2>4, <2>5, LeasesUntouched
<1>4. CASE Goto(w, "settlerun", [wk[w] EXCEPT !.result = Outcome(States)])
    <2> DEFINE outcome == Outcome(States)
               local == [wk[w] EXCEPT !.result = outcome, !.pc = "settlerun"]
    <2>1. replays = 0 /\ ~cancelRequested => outcome # "cancelled"
        BY <1>2 DEF Outcome, NoOutcome
    <2>2. wk' = [wk EXCEPT ![w] = local]
        BY <1>1, <1>4 DEF Goto, WorkerType
    <2> HIDE DEF outcome
    <2>3. local.pc = "settlerun" /\ local.result = outcome
        BY <1>1 DEF WorkerType
    <2> HIDE DEF local
    <2> QED
        BY <1>1, <2>1, <2>2, <2>3, GoesOutside DEF Holding
<1>5. CASE Goto(w, "claim", [wk[w] EXCEPT !.todo = Ready(States), !.moved = FALSE])
    <2> DEFINE ready == Ready(States)
               local == [wk[w] EXCEPT !.todo = ready, !.moved = FALSE, !.pc = "claim"]
    <2>1. wk' = [wk EXCEPT ![w] = local]
        BY <1>1, <1>5 DEF Goto, WorkerType
    <2> HIDE DEF ready
    <2>2. local.pc = "claim" /\ local.result = wk[w].result
        BY <1>1 DEF WorkerType
    <2> HIDE DEF local
    <2> QED
        BY <1>1, <1>2, <2>1, <2>2, GoesOutside DEF Holding
<1>6. CASE Return(w)
    BY <1>1, <1>6, ReturnKeepsLeases
<1> QED
    BY <1>3, <1>4, <1>5, <1>6 DEF LoadSteps

\* The skip takes the lease of whoever executes the step, but no sheltered one.
LEMMA SkipBlockedKeepsLeases ==
    ASSUME IndInv, LeaseInv, NEW w \in Workers, SkipBlocked(w)
    PROVE  LeaseInv'
<1> DEFINE s == FirstOf(wk[w].todo)
           rest == wk[w].todo \ {s}
           row == Row("skipped", 0)
           local == [wk[w] EXCEPT !.todo = rest,
                                  !.pc = IF rest = {} THEN "check" ELSE "skip"]
<1>1. /\ wk[w] \in WorkerType /\ wk[w].pc = "skip"
      /\ wk[w].todo # {} /\ wk[w].todo \in SUBSET Steps
      /\ UNCHANGED << cancelRequested, keys, replays >>
    BY LocalFacts DEF SkipBlocked, At, Fits, WorkerType
<1>2. s \in wk[w].todo
    BY <1>1, FirstOfMember
<1>3. wk' = [wk EXCEPT ![w] = local] /\ rows' = [rows EXCEPT ![s] = row]
    BY <1>1 DEF SkipBlocked, Goto, WorkerType
<1>4. row.state = "skipped"
    BY DEF Row
<1> HIDE DEF s, row
<1>5. /\ local.pc \in {"check", "skip"} /\ local.todo \subseteq wk[w].todo
      /\ local.result = wk[w].result
    BY <1>1 DEF WorkerType
<1> HIDE DEF local
<1>6. local.pc \notin Inside /\ local.pc \notin Holding
    BY <1>5 DEF Inside, Holding
<1>7. ASSUME replays = 0, ~cancelRequested
      PROVE  /\ Undisturbed(w, local, rows', keys)
             /\ \A t \in Steps : rows'[t].state # "cancelled"
             /\ LeasesStay(w)
    <2>1. wk[w].todo \cap Sheltered = {} /\ wk[w].result # "cancelled"
        BY <1>1, <1>7 DEF LeaseInv, Undisturbed
    <2>2. Undisturbed(w, local, rows', keys)
        BY <1>5, <1>6, <2>1 DEF Undisturbed, HoldsLease
    <2>3. LeasesStay(w)
        BY <1>2, <1>3, <1>7, <2>1, RowOfNobodyElse
    <2>4. \A t \in Steps : rows'[t].state # "cancelled"
        BY <1>3, <1>4, <1>7 DEF LeaseInv, IndInv, TypeOK
    <2> QED
        BY <2>2, <2>3, <2>4
<1> QED
    BY <1>1, <1>3, <1>6, <1>7, LeaseMoves

\* A delivery goes on with its step, before or after the handler.
LEMMA GoesOnHolding ==
    ASSUME IndInv, LeaseInv, NEW w \in Workers, NEW local, wk' = [wk EXCEPT ![w] = local],
           UNCHANGED << cancelRequested, rows, keys, replays >>,
           wk[w].pc \in Holding, local.cur = wk[w].cur,
           local.pc \in {"setread", "setwrite", "keycheck", "dedup", "settle"},
           replays = 0 /\ ~cancelRequested => local.result # "cancelled"
    PROVE  LeaseInv'
<1>1. local.pc \notin Inside
    BY DEF Inside
<1>2. replays = 0 /\ ~cancelRequested => HoldsLease(w, local, rows)
    BY DEF LeaseInv, Undisturbed, HoldsLease
<1>3. replays = 0 /\ ~cancelRequested => Undisturbed(w, local, rows, keys)
    BY <1>2 DEF Undisturbed
<1> QED
    BY <1>1, <1>3, LeasesUntouched

LEMMA PathDoneKeepsLeases ==
    ASSUME IndInv, LeaseInv, NEW w \in Workers, wk[w].pc \in {"setread", "setwrite"},
           PathDone(w, wk[w]), UNCHANGED << cancelRequested, rows, keys, replays >>
    PROVE  LeaseInv'
<1>1. CASE wk[w].cur # None
    <2> DEFINE path == << >>
               local == [wk[w] EXCEPT !.path = path, !.pc = "keycheck"]
    <2>1. wk[w] \in WorkerType
        BY LocalFacts
    <2>2. wk' = [wk EXCEPT ![w] = local]
        BY <1>1, <2>1 DEF PathDone, Goto, WorkerType
    <2> HIDE DEF path
    <2>3. local.pc = "keycheck" /\ local.cur = wk[w].cur /\ local.result = wk[w].result
        BY <2>1 DEF WorkerType
    <2> HIDE DEF local
    <2> QED
        BY <2>2, <2>3, NothingCancelled, GoesOnHolding DEF Holding
<1>2. CASE wk[w].cur = None
    BY <1>2, ReturnKeepsLeases DEF PathDone
<1> QED
    BY <1>1, <1>2

LEMMA PathGoesOnKeepsLeases ==
    ASSUME IndInv, LeaseInv, NEW w \in Workers, wk[w].pc \in {"setread", "setwrite"},
           Goto(w, "setread", [wk[w] EXCEPT !.path = Tail(@)]),
           UNCHANGED << cancelRequested, rows, keys, replays >>
    PROVE  LeaseInv'
<1> DEFINE path == Tail(wk[w].path)
           local == [wk[w] EXCEPT !.path = path, !.pc = "setread"]
<1>1. wk[w] \in WorkerType
    BY LocalFacts
<1>2. wk' = [wk EXCEPT ![w] = local]
    BY <1>1 DEF Goto, WorkerType
<1> HIDE DEF path
<1>3. local.pc = "setread" /\ local.cur = wk[w].cur /\ local.result = wk[w].result
    BY <1>1 DEF WorkerType
<1> HIDE DEF local
<1> QED
    BY <1>2, <1>3, NothingCancelled, GoesOnHolding DEF Holding

LEMMA ReadStateKeepsLeases ==
    ASSUME IndInv, LeaseInv, NEW w \in Workers, ReadState(w)
    PROVE  LeaseInv'
<1>1. /\ wk[w] \in WorkerType /\ wk[w].pc = "setread"
      /\ UNCHANGED << cancelRequested, rows, keys, replays >>
    BY LocalFacts DEF ReadState, At
<1>2. ASSUME NEW pc \in {"setwrite", "raised"}, Goto(w, pc, wk[w])
      PROVE  LeaseInv'
    <2> DEFINE local == [wk[w] EXCEPT !.pc = pc]
    <2>1. wk' = [wk EXCEPT ![w] = local]
        BY <1>2 DEF Goto
    <2>2. local.pc = pc /\ local.cur = wk[w].cur /\ local.result = wk[w].result
        BY <1>1 DEF WorkerType
    <2> HIDE DEF local
    <2>3. CASE pc = "setwrite"
        BY <1>1, <2>1, <2>2, <2>3, NothingCancelled, GoesOnHolding DEF Holding
    <2>4. CASE pc = "raised"
        BY <1>1, <2>1, <2>2, <2>4, NothingCancelled, GoesOutside DEF Holding
    <2> QED
        BY <2>3, <2>4
<1> QED
    BY <1>1, <1>2, PathDoneKeepsLeases, PathGoesOnKeepsLeases DEF ReadState

LEMMA WriteStateKeepsLeases ==
    ASSUME IndInv, LeaseInv, NEW w \in Workers, WriteState(w)
    PROVE  LeaseInv'
BY PathDoneKeepsLeases, PathGoesOnKeepsLeases DEF WriteState, At

\* Only a delivery that has seen the cancellation cancels steps.
LEMMA CancelStepKeepsLeases ==
    ASSUME IndInv, LeaseInv, NEW w \in Workers, CancelStep(w)
    PROVE  LeaseInv'
<1> DEFINE s == FirstOf(wk[w].todo)
           rest == wk[w].todo \ {s}
<1>1. /\ wk[w].pc = "cancelstep" /\ wk[w] \in WorkerType
      /\ UNCHANGED << cancelRequested, keys, replays >>
    BY LocalFacts DEF CancelStep, At
<1>2. ~(replays = 0 /\ ~cancelRequested)
    BY <1>1, NothingCancelled
<1> HIDE DEF s
<1>3. \E local : local.pc \notin Inside /\ wk' = [wk EXCEPT ![w] = local]
    <2>1. CASE rest = {}
        <3> DEFINE path == << "cancelled" >>
                   local == [wk[w] EXCEPT !.todo = {}, !.path = path, !.pc = "setread"]
        <3>1. wk' = [wk EXCEPT ![w] = local]
            BY <1>1, <2>1 DEF CancelStep, Goto, WorkerType, s
        <3> HIDE DEF path
        <3>2. local.pc \notin Inside
            BY <1>1 DEF WorkerType, Inside
        <3> HIDE DEF local
        <3> QED
            BY <3>1, <3>2
    <2>2. CASE rest # {}
        <3> DEFINE local == [wk[w] EXCEPT !.todo = rest, !.pc = "cancelstep"]
        <3>1. wk' = [wk EXCEPT ![w] = local]
            BY <1>1, <2>2 DEF CancelStep, Goto, WorkerType, s
        <3>2. local.pc \notin Inside
            BY <1>1 DEF WorkerType, Inside
        <3> HIDE DEF local
        <3> QED
            BY <3>1, <3>2
    <2> QED
        BY <2>1, <2>2
<1>4. PICK local : local.pc \notin Inside /\ wk' = [wk EXCEPT ![w] = local]
    BY <1>3
<1> QED
    BY <1>1, <1>2, <1>4, LeaseMoves

LEMMA RaiseKeepsLeases ==
    ASSUME IndInv, LeaseInv, NEW w \in Workers, Raise(w)
    PROVE  LeaseInv'
<1>1. /\ wk' = [wk EXCEPT ![w] = IdleWorker]
      /\ UNCHANGED << cancelRequested, keys, replays >>
    BY DEF Raise, Return
<1>2. CASE wk[w].cur = None
    BY <1>1, <1>2, ReturnKeepsLeases DEF Raise
<1>3. CASE wk[w].cur # None
    <2>1. wk[w].cur \in Steps /\ rows' = Released(w, wk[w].cur)
        BY <1>3, LocalFacts DEF WorkerType, Raise
    <2>2. replays = 0 /\ ~cancelRequested
              => LeasesStay(w) /\ \A t \in Steps : rows'[t].state # "cancelled"
        BY <2>1, OwnLease
    <2> QED
        BY <1>1, <2>2, IdleHoldsNothing, LeaseMoves
<1> QED
    BY <1>2, <1>3

LEMMA ClaimKeepsLeases ==
    ASSUME IndInv, LeaseInv, NEW w \in Workers, Claim(w)
    PROVE  LeaseInv'
<1> DEFINE s == FirstOf(wk[w].todo)
<1>1. /\ wk[w].pc = "claim" /\ wk[w] \in WorkerType /\ wk[w].moved \in BOOLEAN
      /\ UNCHANGED << cancelRequested, rows, keys, replays >>
    BY LocalFacts DEF Claim, At, WorkerType
<1>2. CASE NextStep(w, wk[w].todo \ {s}, wk[w].moved)
    <2>1. PICK local : /\ wk' = [wk EXCEPT ![w] = local]
                       /\ \A R, K : Undisturbed(w, local, R, K)
                       /\ local.pc \notin Inside
        BY <1>1, <1>2, NextStepHoldsNothing
    <2> QED
        BY <1>1, <2>1, LeasesUntouched
<1>3. CASE Goto(w, "acquire", [wk[w] EXCEPT !.cur = s, !.attempt = rows[s].attempts + 1])
    <2> DEFINE attempt == rows[s].attempts + 1
               local == [wk[w] EXCEPT !.cur = s, !.attempt = attempt, !.pc = "acquire"]
    <2> HIDE DEF s
    <2>1. wk' = [wk EXCEPT ![w] = local]
        BY <1>1, <1>3 DEF Goto, WorkerType
    <2> HIDE DEF attempt
    <2>2. local.pc = "acquire" /\ local.result = wk[w].result
        BY <1>1 DEF WorkerType
    <2> HIDE DEF local
    <2> QED
        BY <1>1, <2>1, <2>2, NothingCancelled, GoesOutside DEF Holding
<1> QED
    BY <1>2, <1>3 DEF Claim

\* Whoever relies on a lease owns it and it is live: it is not given to another.
LEMMA AcquireLeaseKeepsLeases ==
    ASSUME IndInv, LeaseInv, NEW w \in Workers, AcquireLease(w)
    PROVE  LeaseInv'
<1> DEFINE s == wk[w].cur
           row == [rows[s] EXCEPT !.owner = w, !.live = TRUE]
           local == [wk[w] EXCEPT !.pc = "advance"]
<1>1. /\ wk[w].pc = "acquire" /\ wk[w] \in WorkerType /\ wk[w].moved \in BOOLEAN
      /\ UNCHANGED << cancelRequested, keys, replays >>
    BY LocalFacts DEF AcquireLease, At, WorkerType
<1>2. s \in Steps /\ rows[s] \in RowType
    BY <1>1, CurrentStep DEF Executing, RowInv
<1>3. CASE /\ rows[s].owner = None \/ rows[s].owner = w \/ ~rows[s].live
           /\ rows' = [rows EXCEPT ![s].owner = w, ![s].live = TRUE]
           /\ Goto(w, "advance", wk[w])
    <2>1. rows' = [rows EXCEPT ![s] = row] /\ wk' = [wk EXCEPT ![w] = local]
        BY <1>1, <1>2, <1>3 DEF Goto, IndInv, TypeOK, RowType
    <2>2. local.pc = "advance" /\ local.cur = wk[w].cur /\ local.result = wk[w].result
        BY <1>1 DEF WorkerType
    <2>3. row.state = rows[s].state /\ row.owner = w /\ row.live
        BY <1>2 DEF RowType
    <2> HIDE DEF local, row
    <2>4. local.pc \notin Inside
        BY <2>2 DEF Inside
    <2>5. ASSUME replays = 0, ~cancelRequested
          PROVE  /\ Undisturbed(w, local, rows', keys)
                 /\ \A t \in Steps : rows'[t].state # "cancelled"
                 /\ LeasesStay(w)
        <3>1. \A v \in Workers \ {w} :
                  ~(wk[v].pc \in Holding /\ wk[v].cur \in Sheltered /\ wk[v].cur = s)
            <4> SUFFICES ASSUME NEW v \in Workers \ {w}, wk[v].pc \in Holding,
                                wk[v].cur \in Sheltered, wk[v].cur = s
                         PROVE  FALSE
                OBVIOUS
            <4>1. rows[s].owner = v /\ rows[s].live
                BY <2>5 DEF LeaseInv, Undisturbed, HoldsLease
            <4> QED
                BY <1>3, <4>1, WorkerAssumption
        <3>2. LeasesStay(w)
            BY <2>1, <2>5, <3>1, RowOfNobodyElse
        <3>3. rows'[s] = row
            BY <1>2, <2>1 DEF IndInv, TypeOK
        <3>4. HoldsLease(w, local, rows')
            BY <2>2, <2>3, <3>3 DEF HoldsLease
        <3>5. Undisturbed(w, local, rows', keys)
            BY <2>2, <2>5, <3>4, NothingCancelled DEF Undisturbed
        <3>6. \A t \in Steps : rows'[t].state # "cancelled"
            BY <2>1, <2>3, <2>5 DEF LeaseInv, IndInv, TypeOK
        <3> QED
            BY <3>2, <3>5, <3>6
    <2> QED
        BY <1>1, <2>1, <2>4, <2>5, LeaseMoves
<1>4. CASE NextStep(w, wk[w].todo \ {s}, wk[w].moved) /\ UNCHANGED rows
    <2>1. PICK next : /\ wk' = [wk EXCEPT ![w] = next]
                      /\ \A R, K : Undisturbed(w, next, R, K)
                      /\ next.pc \notin Inside
        BY <1>1, <1>4, NextStepHoldsNothing
    <2> QED
        BY <1>1, <1>4, <2>1, LeasesUntouched
<1> QED
    BY <1>3, <1>4 DEF AcquireLease

LEMMA AdvanceToKeepsLeases ==
    ASSUME IndInv, LeaseInv, NEW w \in Workers, AdvanceTo(w)
    PROVE  LeaseInv'
<1> DEFINE path == ForwardPath(runState, Phase[wk[w].cur])
<1>1. /\ wk[w].pc = "advance" /\ wk[w] \in WorkerType
      /\ UNCHANGED << cancelRequested, rows, keys, replays >>
    BY LocalFacts DEF AdvanceTo, At
<1>2. ASSUME NEW pc \in {"raised", "keycheck"}, Goto(w, pc, wk[w])
      PROVE  LeaseInv'
    <2> DEFINE local == [wk[w] EXCEPT !.pc = pc]
    <2>1. wk' = [wk EXCEPT ![w] = local]
        BY <1>2 DEF Goto
    <2>2. local.pc = pc /\ local.cur = wk[w].cur /\ local.result = wk[w].result
        BY <1>1 DEF WorkerType
    <2> HIDE DEF local
    <2>3. CASE pc = "keycheck"
        BY <1>1, <2>1, <2>2, <2>3, NothingCancelled, GoesOnHolding DEF Holding
    <2>4. CASE pc = "raised"
        BY <1>1, <2>1, <2>2, <2>4, NothingCancelled, GoesOutside DEF Holding
    <2> QED
        BY <2>3, <2>4
<1>3. CASE Goto(w, "setread", [wk[w] EXCEPT !.path = path])
    <2> DEFINE local == [wk[w] EXCEPT !.path = path, !.pc = "setread"]
    <2>1. wk' = [wk EXCEPT ![w] = local]
        BY <1>1, <1>3 DEF Goto, WorkerType
    <2> HIDE DEF path
    <2>2. local.pc = "setread" /\ local.cur = wk[w].cur /\ local.result = wk[w].result
        BY <1>1 DEF WorkerType
    <2> HIDE DEF local
    <2> QED
        BY <1>1, <2>1, <2>2, NothingCancelled, GoesOnHolding DEF Holding
<1> QED
    BY <1>2, <1>3 DEF AdvanceTo

\* The key of a sheltered step is looked up under its lease.
LEMMA CheckKeyKeepsLeases ==
    ASSUME IndInv, LeaseInv, NEW w \in Workers, CheckKey(w)
    PROVE  LeaseInv'
<1>1. /\ wk[w].pc = "keycheck" /\ wk[w] \in WorkerType
      /\ UNCHANGED << cancelRequested, rows, keys, replays >>
    BY LocalFacts DEF CheckKey, At
<1>2. CASE Goto(w, "dedup", wk[w])
    <2> DEFINE local == [wk[w] EXCEPT !.pc = "dedup"]
    <2>1. wk' = [wk EXCEPT ![w] = local]
        BY <1>2 DEF Goto
    <2>2. local.pc = "dedup" /\ local.cur = wk[w].cur /\ local.result = wk[w].result
        BY <1>1 DEF WorkerType
    <2> HIDE DEF local
    <2> QED
        BY <1>1, <2>1, <2>2, NothingCancelled, GoesOnHolding DEF Holding
<1>3. CASE KeyOf(w) \notin keys /\ Goto(w, "start", wk[w])
    <2> DEFINE local == [wk[w] EXCEPT !.pc = "start"]
    <2>1. wk' = [wk EXCEPT ![w] = local]
        BY <1>3 DEF Goto
    <2>2. /\ local.pc = "start" /\ local.cur = wk[w].cur /\ local.result = wk[w].result
          /\ local.payload = wk[w].payload
        BY <1>1 DEF WorkerType
    <2> HIDE DEF local
    <2>3. NewWork(local, keys) /\ local.pc \notin Inside
        BY <1>3, <2>2 DEF NewWork, KeyOf, Inside
    <2>4. ASSUME replays = 0, ~cancelRequested PROVE Undisturbed(w, local, rows, keys)
        <3>1. HoldsLease(w, local, rows)
            BY <1>1, <2>2, <2>4 DEF LeaseInv, Undisturbed, HoldsLease, Holding
        <3> QED
            BY <2>2, <2>3, <2>4, <3>1, NothingCancelled DEF Undisturbed
    <2> QED
        BY <1>1, <2>1, <2>3, <2>4, LeasesUntouched
<1> QED
    BY <1>2, <1>3 DEF CheckKey

\* A step of one delivery that rewrites the row of its step and then lets go.
LEMMA OwnRowThenOutside ==
    ASSUME IndInv, LeaseInv, NEW w \in Workers, wk[w].pc \in Holding, wk[w].pc \in Executing,
           NEW row, rows' = [rows EXCEPT ![wk[w].cur] = row],
           NEW local, wk' = [wk EXCEPT ![w] = local],
           local.pc = "release", local.result = wk[w].result,
           replays = 0 /\ ~cancelRequested => row.state # "cancelled",
           UNCHANGED << cancelRequested, keys, replays >>
    PROVE  LeaseInv'
<1>1. wk[w].cur \in Steps
    BY CurrentStep
<1>2. local.pc \notin Inside /\ local.pc \notin Holding \cup {"cancel", "cancelstep", "skip"}
    BY DEF Inside, Holding
<1>3. ASSUME replays = 0, ~cancelRequested
      PROVE  /\ Undisturbed(w, local, rows', keys)
             /\ \A t \in Steps : rows'[t].state # "cancelled"
             /\ LeasesStay(w)
    <2>1. Undisturbed(w, local, rows', keys)
        BY <1>2, <1>3, NothingCancelled, StandsOutside
    <2>2. LeasesStay(w)
        BY <1>3, OwnRow
    <2>3. \A t \in Steps : rows'[t].state # "cancelled"
        BY <1>3, NothingCancelled DEF IndInv, TypeOK
    <2> QED
        BY <2>1, <2>2, <2>3
<1> QED
    BY <1>2, <1>3, LeaseMoves

LEMMA DeduplicateKeepsLeases ==
    ASSUME IndInv, LeaseInv, NEW w \in Workers, Deduplicate(w)
    PROVE  LeaseInv'
<1> DEFINE row == Row("succeeded", 0)
           local == [wk[w] EXCEPT !.pc = "release"]
<1>1. /\ wk[w].pc = "dedup" /\ wk[w] \in WorkerType
      /\ UNCHANGED << cancelRequested, keys, replays >>
      /\ rows' = [rows EXCEPT ![wk[w].cur] = row] /\ wk' = [wk EXCEPT ![w] = local]
    BY LocalFacts DEF Deduplicate, At, Goto
<1>2. row.state = "succeeded"
    BY DEF Row
<1>3. local.pc = "release" /\ local.result = wk[w].result
    BY <1>1 DEF WorkerType
<1> HIDE DEF row, local
<1>4. wk[w].pc \in Holding /\ wk[w].pc \in Executing
    BY <1>1 DEF Holding, Executing
<1> QED
    BY <1>1, <1>2, <1>3, <1>4, OwnRowThenOutside

\* A lease that is still one's own is kept; where no handler outlasts its lease,
\* the row of a sheltered step has not lost it.
LEMMA StartStepKeepsLeases ==
    ASSUME IndInv, LeaseInv, NEW w \in Workers, StartStep(w)
    PROVE  LeaseInv'
<1> DEFINE s == wk[w].cur
           row(live) == [state |-> "running", attempts |-> wk[w].attempt, owner |-> w,
                         live |-> live, waiting |-> FALSE]
           local == [wk[w] EXCEPT !.pc = "begin"]
<1>1. /\ wk[w].pc = "start" /\ wk[w] \in WorkerType
      /\ UNCHANGED << cancelRequested, keys, replays >>
      /\ wk' = [wk EXCEPT ![w] = local]
    BY LocalFacts DEF StartStep, At, Goto
<1>2. s \in Steps /\ rows \in [Steps -> RowType]
    BY <1>1, CurrentStep DEF Executing, IndInv, TypeOK
<1>3. PICK live : /\ rows' = [rows EXCEPT ![s] = row(live)]
                  /\ rows[s].owner = w => live = rows[s].live
    BY DEF StartStep
<1>4. /\ local.pc = "begin" /\ local.cur = wk[w].cur /\ local.result = wk[w].result
      /\ local.payload = wk[w].payload
    BY <1>1 DEF WorkerType
<1>5. row(live).state = "running" /\ row(live).owner = w /\ row(live).live = live
    OBVIOUS
<1> HIDE DEF row, local
<1>6. local.pc \notin Inside /\ wk[w].pc \in Holding
    BY <1>1, <1>4 DEF Inside, Holding
<1>7. ASSUME replays = 0, ~cancelRequested
      PROVE  /\ Undisturbed(w, local, rows', keys)
             /\ \A t \in Steps : rows'[t].state # "cancelled"
             /\ LeasesStay(w)
    <2>1. Undisturbed(w, wk[w], rows, keys)
        BY <1>7 DEF LeaseInv
    <2>2. rows'[s] = row(live)
        BY <1>2, <1>3
    <2>3. ASSUME s \in Sheltered PROVE rows'[s].owner = w /\ rows'[s].live
        <3>1. rows[s].owner = w /\ rows[s].live
            BY <1>6, <2>1, <2>3 DEF Undisturbed, HoldsLease
        <3> QED
            BY <1>3, <1>5, <2>2, <3>1
    <2>4. HoldsLease(w, local, rows')
        BY <1>4, <2>3 DEF HoldsLease
    <2>5. NewWork(local, keys)
        BY <1>1, <1>4, <2>1 DEF Undisturbed, NewWork
    <2>6. Undisturbed(w, local, rows', keys)
        BY <1>4, <1>7, <2>4, <2>5, NothingCancelled DEF Undisturbed
    <2>7. LeasesStay(w)
        BY <1>3, <1>6, <1>7, OwnRow
    <2>8. \A t \in Steps : rows'[t].state # "cancelled"
        BY <1>2, <1>3, <1>5, <1>7, NothingCancelled
    <2> QED
        BY <2>6, <2>7, <2>8
<1> QED
    BY <1>1, <1>6, <1>7, LeaseMoves

\* No handler is entered any more once a cancellation has been asked for.
LEMMA BeginHandlerKeepsLeases ==
    ASSUME IndInv, LeaseInv, NEW w \in Workers, BeginHandler(w)
    PROVE  LeaseInv'
<1>1. /\ wk[w].pc = "begin" /\ wk[w] \in WorkerType
      /\ UNCHANGED << cancelRequested, rows, keys, replays >>
    BY LocalFacts DEF BeginHandler, At
<1>2. CASE cancelRequested /\ Goto(w, "settle", [wk[w] EXCEPT !.result = "cancelled"])
    <2> DEFINE local == [wk[w] EXCEPT !.result = "cancelled", !.pc = "settle"]
    <2>1. wk' = [wk EXCEPT ![w] = local]
        BY <1>1, <1>2 DEF Goto, WorkerType
    <2>2. local.pc = "settle" /\ local.cur = wk[w].cur
        BY <1>1 DEF WorkerType
    <2> HIDE DEF local
    <2> QED
        BY <1>1, <1>2, <2>1, <2>2, GoesOnHolding DEF Holding
<1>3. CASE ~cancelRequested /\ Goto(w, "work", wk[w])
    <2> DEFINE local == [wk[w] EXCEPT !.pc = "work"]
    <2>1. wk' = [wk EXCEPT ![w] = local]
        BY <1>3 DEF Goto
    <2>2. /\ local.pc = "work" /\ local.cur = wk[w].cur /\ local.result = wk[w].result
          /\ local.payload = wk[w].payload
        BY <1>1 DEF WorkerType
    <2> HIDE DEF local
    <2>3. ASSUME replays = 0 PROVE Undisturbed(w, local, rows, keys) /\ NewWork(local, keys)
        <3>1. Undisturbed(w, wk[w], rows, keys)
            BY <1>3, <2>3 DEF LeaseInv
        <3>2. NewWork(local, keys)
            BY <1>1, <2>2, <3>1 DEF Undisturbed, NewWork
        <3>3. HoldsLease(w, local, rows)
            BY <1>1, <2>2, <3>1 DEF Undisturbed, HoldsLease, Holding
        <3>4. Undisturbed(w, local, rows, keys)
            BY <2>2, <3>1, <3>3 DEF Undisturbed
        <3> QED
            BY <3>2, <3>4
    <2> QED
        BY <1>1, <1>3, <2>1, <2>2, <2>3, LeasesUntouched
<1> QED
    BY <1>2, <1>3 DEF BeginHandler

LEMMA EndHandlerKeepsLeases ==
    ASSUME IndInv, LeaseInv, NEW w \in Workers, EndHandler(w)
    PROVE  LeaseInv'
<1>1. /\ wk[w].pc = "work" /\ wk[w] \in WorkerType
      /\ UNCHANGED << cancelRequested, rows, keys, replays >>
    BY LocalFacts DEF EndHandler, At
<1>2. wk[w].cur \in Steps
    BY <1>1, CurrentStep DEF Executing
<1>3. PICK outcome \in Outcomes[wk[w].cur] \cup (IF cancelRequested THEN {"cancelled"} ELSE {}) :
          Goto(w, IF outcome \in {"ok", "skip"} THEN "record" ELSE "settle",
               [wk[w] EXCEPT !.result = outcome])
    BY DEF EndHandler
<1>4. ~cancelRequested => outcome # "cancelled"
    BY <1>2, <1>3, WorkerAssumption
<1> DEFINE pc == IF outcome \in {"ok", "skip"} THEN "record" ELSE "settle"
           local == [wk[w] EXCEPT !.result = outcome, !.pc = pc]
<1>5. wk' = [wk EXCEPT ![w] = local]
    BY <1>1, <1>3 DEF Goto, WorkerType
<1>6. pc \in {"record", "settle"}
    OBVIOUS
<1> HIDE DEF pc
<1>7. /\ local.pc = pc /\ local.cur = wk[w].cur /\ local.payload = wk[w].payload
      /\ local.result = outcome
    BY <1>1 DEF WorkerType
<1> HIDE DEF local
<1>8. wk[w].pc \in Holding /\ wk[w].pc \in Inside
    BY <1>1 DEF Holding, Inside
<1>9. replays = 0 => NewWork(local, keys)
    BY <1>7, <1>8 DEF LeaseInv, NewWork
<1>10. ASSUME replays = 0, ~cancelRequested PROVE Undisturbed(w, local, rows, keys)
    <2>1. HoldsLease(w, local, rows)
        BY <1>7, <1>8, <1>10 DEF LeaseInv, Undisturbed, HoldsLease
    <2> QED
        BY <1>4, <1>6, <1>7, <1>10, <2>1 DEF Undisturbed
<1> QED
    BY <1>1, <1>5, <1>7, <1>8, <1>9, <1>10, LeasesUntouched

\* The new key is not the key of another delivery that is about to work.
LEMMA RecordKeyKeepsLeases ==
    ASSUME IndInv, LeaseInv, NEW w \in Workers, RecordKey(w)
    PROVE  LeaseInv'
<1> SUFFICES ASSUME replays = 0 PROVE LeaseInv'
    BY DEF RecordKey, LeaseInv
<1> DEFINE local == [wk[w] EXCEPT !.pc = "settle"]
<1>1. /\ wk[w].pc = "record" /\ wk[w] \in WorkerType
      /\ UNCHANGED << cancelRequested, rows, replays >>
      /\ keys' = keys \cup {KeyOf(w)} /\ wk' = [wk EXCEPT ![w] = local]
    BY LocalFacts DEF RecordKey, At, Goto
<1>2. local.pc = "settle" /\ local.cur = wk[w].cur /\ local.result = wk[w].result
    BY <1>1 DEF WorkerType
<1> HIDE DEF local
<1>3. \A v \in Workers : wk'[v] = IF v = w THEN local ELSE wk[v]
    BY <1>1 DEF IndInv, TypeOK
<1>4. wk[w].pc \in Inside /\ wk[w].pc \in Holding /\ local.pc \notin Inside
    BY <1>1, <1>2 DEF Inside, Holding
<1>5. ASSUME NEW v \in Workers, v # w, wk[v].pc \in Inside
      PROVE  NewWork(wk[v], keys')
    BY <1>1, <1>4, <1>5 DEF LeaseInv, NewWork, KeyOf
<1>6. ASSUME ~cancelRequested, NEW v \in Workers
      PROVE  Undisturbed(v, wk'[v], rows', keys')
    <2>1. Undisturbed(v, wk[v], rows, keys)
        BY <1>6 DEF LeaseInv
    <2>2. CASE v = w
        <3>1. HoldsLease(v, local, rows)
            BY <1>2, <1>4, <2>1, <2>2 DEF Undisturbed, HoldsLease
        <3> QED
            BY <1>1, <1>2, <1>3, <2>1, <2>2, <3>1 DEF Undisturbed
    <2>3. CASE v # w
        <3>1. ASSUME wk[v].pc \in {"start", "begin"} PROVE NewWork(wk[v], keys')
            <4>1. wk[v].pc \in Holding
                BY <3>1 DEF Holding
            <4>2. wk[v].cur \in Sheltered => wk[v].cur # wk[w].cur
                BY <1>4, <1>6, <2>3, <4>1, OneHolder
            <4> QED
                BY <1>1, <2>1, <3>1, <4>2 DEF Undisturbed, NewWork, KeyOf
        <3> QED
            BY <1>1, <1>3, <2>1, <2>3, <3>1 DEF Undisturbed
    <2> QED
        BY <2>2, <2>3
<1>7. \A v \in Workers : wk'[v].pc \in Inside => NewWork(wk'[v], keys')
    BY <1>3, <1>4, <1>5
<1>8. \A v, u \in Workers :
          wk'[v].pc \in Inside /\ wk'[u].pc \in Inside
              /\ wk'[v].cur = wk'[u].cur /\ wk'[v].cur \in Sheltered => v = u
    BY <1>3, <1>4 DEF LeaseInv
<1>9. ~cancelRequested => \A s \in Steps : rows'[s].state # "cancelled"
    BY <1>1 DEF LeaseInv
<1> QED
    BY <1>1, <1>6, <1>7, <1>8, <1>9 DEF LeaseInv

\* A row says "cancelled" only after a handler that saw the cancellation.
LEMMA SettledRowNotCancelled ==
    ASSUME NEW s \in Steps, NEW attempt \in Nat, NEW result \in {"ok", "skip", "retry", "fail"}
    PROVE  SettledRow(s, result, attempt).state # "cancelled"
<1>1. CASE result = "ok"
    BY <1>1 DEF SettledRow, Row
<1>2. CASE result = "skip"
    BY <1>2 DEF SettledRow, Row
<1>3. CASE result = "fail"
    BY <1>3 DEF SettledRow, Row
<1>4. CASE result = "retry" /\ attempt >= MaxAttempts[s]
    BY <1>4 DEF SettledRow, Row
<1>5. CASE result = "retry" /\ ~(attempt >= MaxAttempts[s])
    <2>1. SettledRow(s, result, attempt) = [Row("pending", attempt) EXCEPT !.waiting = TRUE]
        BY <1>5 DEF SettledRow
    <2> QED
        BY <2>1 DEF Row
<1> QED
    BY <1>1, <1>2, <1>3, <1>4, <1>5

LEMMA SettleStepKeepsLeases ==
    ASSUME IndInv, LeaseInv, NEW w \in Workers, SettleStep(w)
    PROVE  LeaseInv'
<1> DEFINE s == wk[w].cur
           row == SettledRow(s, wk[w].result, wk[w].attempt)
           payload == IF wk[w].result = "ok" THEN wk[w].payload \cup {s} ELSE wk[w].payload
           local == [wk[w] EXCEPT !.payload = payload, !.pc = "release"]
<1>1. /\ wk[w].pc = "settle" /\ wk[w] \in WorkerType
      /\ wk[w].result \in {"ok", "skip", "retry", "fail", "cancelled"}
      /\ UNCHANGED << cancelRequested, keys, replays >>
    BY LocalFacts DEF SettleStep, At, Fits
<1>2. s \in Steps
    BY <1>1, CurrentStep DEF Executing
<1>3. rows' = [rows EXCEPT ![s] = row] /\ wk' = [wk EXCEPT ![w] = local]
    BY <1>1 DEF SettleStep, Goto, WorkerType
<1>4. replays = 0 /\ ~cancelRequested => row.state # "cancelled"
    BY <1>1, <1>2, NothingCancelled, SettledRowNotCancelled DEF WorkerType
<1> HIDE DEF row, payload
<1>5. local.pc = "release" /\ local.result = wk[w].result
    BY <1>1 DEF WorkerType
<1> HIDE DEF local
<1>6. wk[w].pc \in Holding /\ wk[w].pc \in Executing
    BY <1>1 DEF Holding, Executing
<1> QED
    BY <1>1, <1>3, <1>4, <1>5, <1>6, OwnRowThenOutside

LEMMA ReleaseLeaseKeepsLeases ==
    ASSUME IndInv, LeaseInv, NEW w \in Workers, ReleaseLease(w)
    PROVE  LeaseInv'
<1>1. /\ wk[w].pc = "release"
      /\ UNCHANGED << cancelRequested, keys, replays >>
    BY DEF ReleaseLease, At
<1>2. wk[w].cur \in Steps /\ rows' = Released(w, wk[w].cur)
    BY <1>1, CurrentStep DEF Executing, ReleaseLease
<1>3. PICK local : /\ wk' = [wk EXCEPT ![w] = local]
                   /\ \A R, K : Undisturbed(w, local, R, K)
                   /\ local.pc \notin Inside
    BY <1>1, NextStepHoldsNothing DEF ReleaseLease
<1>4. replays = 0 /\ ~cancelRequested
          => LeasesStay(w) /\ \A t \in Steps : rows'[t].state # "cancelled"
    BY <1>2, OwnLease
<1> QED
    BY <1>1, <1>3, <1>4, LeaseMoves

LEMMA CrashKeepsLeases ==
    ASSUME IndInv, LeaseInv, NEW w \in Workers, Crash(w)
    PROVE  LeaseInv'
<1> DEFINE local == [IdleWorker EXCEPT !.pc = "dead"]
<1>1. wk' = [wk EXCEPT ![w] = local]
    BY DEF Crash, Goto
<1>2. local.pc = "dead" /\ local.result # "cancelled"
    BY WorkerAssumption DEF IdleWorker, AssessmentStates, TerminalStates
<1> HIDE DEF local
<1> QED
    BY <1>1, <1>2, GoesOutside DEF Crash, Holding

\* From a request for cancellation on, only the deliveries inside count.
LEMMA EnvironmentKeepsLeases ==
    ASSUME IndInv, LeaseInv
    PROVE  /\ RequestCancellation => LeaseInv'
           /\ \A s \in Steps : Replay(s) => LeaseInv'
<1>1. ASSUME RequestCancellation PROVE LeaseInv'
    BY <1>1 DEF RequestCancellation, LeaseInv
<1>2. ASSUME NEW s \in Steps, Replay(s) PROVE LeaseInv'
    <2>1. replays' # 0
        BY <1>2 DEF Replay, IndInv, TypeOK
    <2> QED
        BY <2>1 DEF LeaseInv
<1> QED
    BY <1>1, <1>2

\* Where no handler outlasts its lease, only the lease of a dead worker lapses.
LEMMA TimeKeepsLeases ==
    ASSUME LeaseMayLapse = FALSE, IndInv, LeaseInv, NEW s \in Steps,
           BackoffElapses(s) \/ LeaseLapses(s)
    PROVE  LeaseInv'
<1>1. rows \in [Steps -> RowType] /\ UNCHANGED << cancelRequested, keys, wk, replays >>
    BY DEF IndInv, TypeOK, BackoffElapses, LeaseLapses
<1>2. \A t \in Steps : /\ rows'[t].state = rows[t].state
                       /\ rows'[t].owner = rows[t].owner
                       /\ t # s => rows'[t] = rows[t]
    BY <1>1 DEF BackoffElapses, LeaseLapses, RowType
<1>3. ASSUME replays = 0, ~cancelRequested, NEW v \in Workers, wk[v].pc \in Holding,
             wk[v].cur \in Sheltered
      PROVE  rows'[wk[v].cur].owner = v /\ rows'[wk[v].cur].live
    <2>1. rows[wk[v].cur].owner = v /\ rows[wk[v].cur].live
        BY <1>3 DEF LeaseInv, Undisturbed, HoldsLease
    <2>2. wk[v].cur \in Steps
        BY <1>3 DEF Sheltered
    <2>3. CASE BackoffElapses(s)
        BY <1>1, <2>1, <2>2, <2>3 DEF BackoffElapses, RowType
    <2>4. CASE LeaseLapses(s)
        <3>1. s # wk[v].cur
            BY <1>3, <2>1, <2>4 DEF LeaseLapses, At, Holding
        <3> QED
            BY <1>2, <2>1, <2>2, <3>1
    <2> QED
        BY <2>3, <2>4
<1>4. ASSUME replays = 0, ~cancelRequested, NEW v \in Workers
      PROVE  Undisturbed(v, wk[v], rows', keys)
    <2>1. HoldsLease(v, wk[v], rows')
        BY <1>3, <1>4 DEF HoldsLease
    <2> QED
        BY <1>4, <2>1 DEF LeaseInv, Undisturbed
<1> QED
    BY <1>1, <1>2, <1>4 DEF LeaseInv

LEMMA RunStepKeepsLeases ==
    ASSUME IndInv, LeaseInv, NEW w \in Workers, RunStep(w)
    PROVE  LeaseInv'
BY CheckCancellationKeepsLeases, LoadStepsKeepsLeases, SkipBlockedKeepsLeases,
   SettleRunKeepsLeases, ReadStateKeepsLeases, WriteStateKeepsLeases,
   CancelLoadKeepsLeases, CancelStepKeepsLeases, RaiseKeepsLeases DEF RunStep

LEMMA ExecuteStepKeepsLeases ==
    ASSUME IndInv, LeaseInv, NEW w \in Workers, ExecuteStep(w)
    PROVE  LeaseInv'
BY ClaimKeepsLeases, AcquireLeaseKeepsLeases, AdvanceToKeepsLeases, CheckKeyKeepsLeases,
   DeduplicateKeepsLeases, StartStepKeepsLeases, BeginHandlerKeepsLeases,
   EndHandlerKeepsLeases, RecordKeyKeepsLeases, SettleStepKeepsLeases,
   ReleaseLeaseKeepsLeases DEF ExecuteStep

\* Where no handler outlasts its lease, every delivery that executes a sheltered
\* step owns its live lease until a cancellation is asked for.
THEOREM LeasesHold ==
    ASSUME LeaseMayLapse = FALSE
    PROVE  Spec => []LeaseInv
<1>1. Init => LeaseInv
    <2> SUFFICES ASSUME Init PROVE LeaseInv
        OBVIOUS
    <2>1. \A w \in Workers : wk[w] = IdleWorker
        BY DEF Init
    <2>2. \A s \in Steps : rows[s].state # "cancelled"
        BY DEF Init, Row
    <2> QED
        BY <2>1, <2>2, IdleHoldsNothing DEF LeaseInv
<1>2. IndInv /\ LeaseInv /\ [Next]_vars => LeaseInv'
    <2> SUFFICES ASSUME IndInv, LeaseInv, [Next]_vars PROVE LeaseInv'
        OBVIOUS
    <2>1. CASE \E w \in Workers : Deliver(w) \/ RunStep(w) \/ ExecuteStep(w)
        BY <2>1, DeliverKeepsLeases, RunStepKeepsLeases, ExecuteStepKeepsLeases
    <2>2. CASE \E w \in Workers : Crash(w) \/ Restart(w)
        BY <2>2, CrashKeepsLeases, ReturnKeepsLeases DEF Restart
    <2>3. CASE RequestCancellation \/ \E s \in Steps : Replay(s)
        BY <2>3, EnvironmentKeepsLeases
    <2>4. CASE Time
        BY <2>4, TimeKeepsLeases DEF Time
    <2>5. CASE UNCHANGED vars
        BY <2>5 DEF vars, LeaseInv
    <2> QED
        BY <2>1, <2>2, <2>3, <2>4, <2>5 DEF Next
<1> QED
    BY <1>1, <1>2, Invariance, PTL DEF Spec

\* "Leases stop two workers running one step at once" (engine.py), of a step that
\* nothing puts aside, as long as no handler outlasts its lease and no operator
\* replays a step: any number of deliveries, crashes and cancellations.
THEOREM Exclusion ==
    ASSUME LeaseMayLapse = FALSE
    PROVE  Spec => []WorkExclusion
<1>1. LeaseInv => WorkExclusion
    BY DEF LeaseInv, WorkExclusion, At, Inside
<1> QED
    BY <1>1, LeasesHold, PTL

\* Under the same conditions such a step does no work that a key records: the
\* "idempotency keys" of engine.py are checked and recorded under one lease.
THEOREM DoneOnce ==
    ASSUME LeaseMayLapse = FALSE
    PROVE  Spec => []WorkDoneOnce
<1>1. LeaseInv => WorkDoneOnce
    BY DEF LeaseInv, WorkDoneOnce, At, Inside, NewWork, KeyOf
<1> QED
    BY <1>1, LeasesHold, PTL

(***************************************************************************)
(* One delivery at a time.  The rest of a ready list stays pending while   *)
(* its steps are executed one by one, so that the attempt a claim counts   *)
(* is one the step still has.                                              *)
(***************************************************************************)
Spends(row, s) ==
    /\ row.attempts <= MaxAttempts[s]
    /\ row.state = "pending" => row.attempts < MaxAttempts[s]

BudgetLocal(local, R) ==
    /\ local.pc = "claim" \/ local.cur # None =>
          \A s \in local.todo \ {local.cur} : R[s].state = "pending"
    /\ local.cur # None => local.attempt <= MaxAttempts[local.cur]

BudgetInv ==
    /\ \A s \in Steps : Spends(rows[s], s)
    /\ \A w \in Workers : BudgetLocal(wk[w], rows)

\* A step of the one delivery there is.
LEMMA BudgetMoves ==
    ASSUME IndInv, NEW w \in Workers, \A v \in Workers : v = w, NEW local,
           wk' = [wk EXCEPT ![w] = local],
           \A s \in Steps : Spends(rows'[s], s),
           BudgetLocal(local, rows')
    PROVE  BudgetInv'
<1>1. wk'[w] = local
    BY DEF IndInv, TypeOK
<1> QED
    BY <1>1 DEF BudgetInv

\* The rows stay as they are, and so does what the delivery knows of them.
LEMMA BudgetGoesOn ==
    ASSUME IndInv, BudgetInv, NEW w \in Workers, \A v \in Workers : v = w, NEW local,
           wk' = [wk EXCEPT ![w] = local], UNCHANGED rows,
           \/ local.pc # "claim" /\ local.cur = None
           \/ /\ local.cur = wk[w].cur /\ local.todo = wk[w].todo
              /\ local.attempt = wk[w].attempt /\ local.cur # None
    PROVE  BudgetInv'
<1>1. BudgetLocal(local, rows)
    BY DEF BudgetInv, BudgetLocal
<1> QED
    BY <1>1, BudgetMoves DEF BudgetInv

\* A delivery goes on at another place, its other locals as they were.
LEMMA BudgetGoto ==
    ASSUME IndInv, BudgetInv, NEW w \in Workers, \A v \in Workers : v = w,
           NEW pc \in ProgramCounters \ {"claim"}, Goto(w, pc, wk[w]), UNCHANGED rows
    PROVE  BudgetInv'
<1> DEFINE local == [wk[w] EXCEPT !.pc = pc]
<1>1. wk' = [wk EXCEPT ![w] = local]
    BY DEF Goto
<1>2. /\ local.pc = pc /\ local.cur = wk[w].cur /\ local.todo = wk[w].todo
      /\ local.attempt = wk[w].attempt
    BY LocalFacts DEF WorkerType
<1> HIDE DEF local
<1> QED
    BY <1>1, <1>2, BudgetGoesOn

LEMMA IdleSpendsNothing == IdleWorker.pc # "claim" /\ IdleWorker.cur = None
BY DEF IdleWorker

LEMMA BudgetReturn ==
    ASSUME IndInv, BudgetInv, NEW w \in Workers, \A v \in Workers : v = w,
           Return(w), UNCHANGED rows
    PROVE  BudgetInv'
BY IdleSpendsNothing, BudgetGoesOn DEF Return

\* One row is rewritten within its budget.
LEMMA BudgetRow ==
    ASSUME IndInv, BudgetInv, NEW s \in Steps, NEW row, Spends(row, s),
           rows' = [rows EXCEPT ![s] = row]
    PROVE  \A t \in Steps : Spends(rows'[t], t)
BY DEF IndInv, TypeOK, BudgetInv

LEMMA FreshRowSpends ==
    ASSUME NEW s \in Steps, NEW state
    PROVE  Spends(Row(state, 0), s)
BY GraphAssumption DEF Spends, Row

\* A row whose lease or backoff changes hands spends nothing.
LEMMA SameStates ==
    ASSUME BudgetInv,
           \A s \in Steps : /\ rows'[s].state = rows[s].state
                            /\ rows'[s].attempts = rows[s].attempts
    PROVE  \A s \in Steps : Spends(rows'[s], s)
BY DEF BudgetInv, Spends

LEMMA ReleasedSameStates ==
    ASSUME IndInv, NEW w \in Workers, NEW s \in Steps, rows' = Released(w, s)
    PROVE  \A t \in Steps : /\ rows'[t].state = rows[t].state
                            /\ rows'[t].attempts = rows[t].attempts
<1>1. rows \in [Steps -> RowType]
    BY DEF IndInv, TypeOK
<1>2. CASE rows[s].owner = w
    BY <1>1, <1>2 DEF Released, RowType
<1>3. CASE rows[s].owner # w
    BY <1>3 DEF Released
<1> QED
    BY <1>2, <1>3

\* The rest of the ready steps is still pending.
LEMMA BudgetNextStep ==
    ASSUME IndInv, BudgetInv, NEW w \in Workers, \A v \in Workers : v = w,
           wk[w].pc = "claim" \/ wk[w].cur # None,
           NEW s, wk[w].cur # None => s = wk[w].cur, NEW moved \in BOOLEAN,
           NextStep(w, wk[w].todo \ {s}, moved),
           \A t \in Steps : /\ rows'[t].state = rows[t].state
                            /\ rows'[t].attempts = rows[t].attempts
    PROVE  BudgetInv'
<1>1. wk[w] \in WorkerType /\ Fits(wk[w])
    BY LocalFacts
<1> DEFINE rest == wk[w].todo \ {s}
<1>2. \A t \in rest : rows'[t].state = "pending"
    <2>1. BudgetLocal(wk[w], rows) /\ wk[w].todo \in SUBSET Steps
        BY <1>1 DEF BudgetInv, WorkerType
    <2>2. rest \subseteq wk[w].todo \ {wk[w].cur}
        BY <1>1, <2>1, WorkerAssumption DEF Fits, Executing
    <2> QED
        BY <2>1, <2>2 DEF BudgetLocal
<1>3. CASE rest # {}
    <2> DEFINE local == [wk[w] EXCEPT !.todo = rest, !.moved = moved, !.cur = None,
                                      !.attempt = 0, !.result = None, !.pc = "claim"]
    <2>1. wk' = [wk EXCEPT ![w] = local]
        BY <1>1, <1>3 DEF NextStep, Goto, WorkerType
    <2> HIDE DEF rest
    <2>2. local.todo = rest /\ local.cur = None
        BY <1>1 DEF WorkerType
    <2> HIDE DEF local
    <2>3. BudgetLocal(local, rows')
        BY <1>2, <2>2 DEF BudgetLocal
    <2> QED
        BY <2>1, <2>3, SameStates, BudgetMoves
<1>4. CASE rest = {} /\ moved
    <2> DEFINE local == [wk[w] EXCEPT !.todo = {}, !.moved = FALSE, !.cur = None,
                                      !.attempt = 0, !.result = None, !.pc = "check"]
    <2>1. wk' = [wk EXCEPT ![w] = local]
        BY <1>1, <1>4 DEF NextStep, Goto, WorkerType
    <2>2. local.pc = "check" /\ local.cur = None
        BY <1>1 DEF WorkerType
    <2> HIDE DEF local
    <2>3. BudgetLocal(local, rows')
        BY <2>2 DEF BudgetLocal
    <2> QED
        BY <2>1, <2>3, SameStates, BudgetMoves
<1>5. CASE rest = {} /\ ~moved
    <2>1. wk' = [wk EXCEPT ![w] = IdleWorker]
        BY <1>5 DEF NextStep, Return
    <2>2. BudgetLocal(IdleWorker, rows')
        BY IdleSpendsNothing DEF BudgetLocal
    <2> QED
        BY <2>1, <2>2, SameStates, BudgetMoves
<1> QED
    BY <1>3, <1>4, <1>5

\* The steps of run() that choose or walk, and those of _cancel, spend nothing.
LEMMA RunStepBudget ==
    ASSUME IndInv, BudgetInv, NEW w \in Workers, \A v \in Workers : v = w, RunStep(w)
    PROVE  BudgetInv'
<1>1. wk[w] \in WorkerType /\ Fits(wk[w])
    BY LocalFacts
<1>2. CASE CheckCancellation(w)
    <2>1. (IF cancelRequested THEN "cancel" ELSE "load") \in ProgramCounters \ {"claim"}
        BY DEF ProgramCounters
    <2> QED
        BY <1>2, <2>1, BudgetGoto DEF CheckCancellation
<1>3. CASE LoadSteps(w)
    <2>1. wk[w].cur = None /\ UNCHANGED rows
        BY <1>1, <1>3 DEF LoadSteps, At, Fits, Executing
    <2>2. CASE Goto(w, "skip", [wk[w] EXCEPT !.todo = Blocked(States)])
        <3> DEFINE blocked == Blocked(States)
                   local == [wk[w] EXCEPT !.todo = blocked, !.pc = "skip"]
        <3>1. wk' = [wk EXCEPT ![w] = local]
            BY <1>1, <2>2 DEF Goto, WorkerType
        <3> HIDE DEF blocked
        <3>2. local.pc = "skip" /\ local.cur = None
            BY <1>1, <2>1 DEF WorkerType
        <3> HIDE DEF local
        <3> QED
            BY <2>1, <3>1, <3>2, BudgetGoesOn
    <2>3. CASE Goto(w, "settlerun", [wk[w] EXCEPT !.result = Outcome(States)])
        <3> DEFINE outcome == Outcome(States)
                   local == [wk[w] EXCEPT !.result = outcome, !.pc = "settlerun"]
        <3>1. wk' = [wk EXCEPT ![w] = local]
            BY <1>1, <2>3 DEF Goto, WorkerType
        <3> HIDE DEF outcome
        <3>2. local.pc = "settlerun" /\ local.cur = None
            BY <1>1, <2>1 DEF WorkerType
        <3> HIDE DEF local
        <3> QED
            BY <2>1, <3>1, <3>2, BudgetGoesOn
    <2>4. CASE Goto(w, "claim", [wk[w] EXCEPT !.todo = Ready(States), !.moved = FALSE])
        <3> DEFINE ready == Ready(States)
                   local == [wk[w] EXCEPT !.todo = ready, !.moved = FALSE, !.pc = "claim"]
        <3>1. wk' = [wk EXCEPT ![w] = local]
            BY <1>1, <2>4 DEF Goto, WorkerType
        <3>2. \A s \in ready : rows'[s].state = "pending"
            BY <2>1 DEF Ready, States
        <3> HIDE DEF ready
        <3>3. local.todo = ready /\ local.cur = None
            BY <1>1, <2>1 DEF WorkerType
        <3> HIDE DEF local
        <3>4. BudgetLocal(local, rows')
            BY <3>2, <3>3 DEF BudgetLocal
        <3>5. \A s \in Steps : Spends(rows'[s], s)
            BY <2>1 DEF BudgetInv
        <3> QED
            BY <3>1, <3>4, <3>5, BudgetMoves
    <2>5. CASE Return(w)
        BY <2>1, <2>5, BudgetReturn
    <2> QED
        BY <1>3, <2>2, <2>3, <2>4, <2>5 DEF LoadSteps
<1>4. CASE SkipBlocked(w)
    <2> DEFINE s == FirstOf(wk[w].todo)
               rest == wk[w].todo \ {s}
               row == Row("skipped", 0)
               local == [wk[w] EXCEPT !.todo = rest,
                                      !.pc = IF rest = {} THEN "check" ELSE "skip"]
    <2>1. s \in Steps
        BY <1>1, <1>4, FirstOfMember DEF SkipBlocked, At, Fits, WorkerType
    <2>2. Spends(row, s)
        BY <2>1, FreshRowSpends
    <2>3. wk' = [wk EXCEPT ![w] = local] /\ rows' = [rows EXCEPT ![s] = row]
        BY <1>1, <1>4 DEF SkipBlocked, Goto, WorkerType
    <2> HIDE DEF s, row
    <2>4. local.pc # "claim" /\ local.cur = None
        BY <1>1, <1>4 DEF WorkerType, SkipBlocked, At, Fits, Executing
    <2> HIDE DEF local
    <2>5. BudgetLocal(local, rows')
        BY <2>4 DEF BudgetLocal
    <2> QED
        BY <2>1, <2>2, <2>3, <2>5, BudgetRow, BudgetMoves
<1>5. CASE SettleRun(w)
    <2>1. wk[w].cur = None /\ UNCHANGED rows
        BY <1>1, <1>5 DEF SettleRun, At, Fits, Executing
    <2>2. CASE Goto(w, "raised", wk[w])
        BY <2>1, <2>2, BudgetGoto DEF ProgramCounters
    <2>3. CASE Goto(w, "setread",
                    [wk[w] EXCEPT !.path = SettlePath(wk[w].result), !.result = None])
        <3> DEFINE path == SettlePath(wk[w].result)
                   local == [wk[w] EXCEPT !.path = path, !.result = None, !.pc = "setread"]
        <3>1. wk' = [wk EXCEPT ![w] = local]
            BY <1>1, <2>3 DEF Goto, WorkerType
        <3> HIDE DEF path
        <3>2. local.pc # "claim" /\ local.cur = None
            BY <1>1, <2>1 DEF WorkerType
        <3> HIDE DEF local
        <3> QED
            BY <2>1, <3>1, <3>2, BudgetGoesOn
    <2> QED
        BY <1>5, <2>2, <2>3 DEF SettleRun
<1>6. CASE ReadState(w) \/ WriteState(w)
    <2>1. /\ UNCHANGED rows
          /\ \/ PathDone(w, wk[w])
             \/ Goto(w, "setread", [wk[w] EXCEPT !.path = Tail(@)])
             \/ Goto(w, "setwrite", wk[w])
             \/ Goto(w, "raised", wk[w])
        BY <1>6 DEF ReadState, WriteState
    <2>2. ASSUME NEW path, NEW pc \in {"setread", "keycheck"},
                 wk' = [wk EXCEPT ![w] = [wk[w] EXCEPT !.path = path, !.pc = pc]]
          PROVE  BudgetInv'
        <3> DEFINE local == [wk[w] EXCEPT !.path = path, !.pc = pc]
        <3>1. /\ local.pc = pc /\ local.cur = wk[w].cur /\ local.todo = wk[w].todo
              /\ local.attempt = wk[w].attempt
            BY <1>1 DEF WorkerType
        <3>2. wk' = [wk EXCEPT ![w] = local]
            BY <2>2
        <3> HIDE DEF local
        <3> QED
            BY <2>1, <3>1, <3>2, BudgetGoesOn
    <2>3. CASE PathDone(w, wk[w])
        <3>1. CASE wk[w].cur # None
            <4> DEFINE path == << >>
            <4>1. wk' = [wk EXCEPT ![w] = [wk[w] EXCEPT !.path = path, !.pc = "keycheck"]]
                BY <1>1, <2>3, <3>1 DEF PathDone, Goto, WorkerType
            <4> HIDE DEF path
            <4> QED
                BY <2>2, <4>1
        <3>2. CASE wk[w].cur = None
            BY <2>1, <2>3, <3>2, BudgetReturn DEF PathDone
        <3> QED
            BY <3>1, <3>2
    <2>4. CASE Goto(w, "setread", [wk[w] EXCEPT !.path = Tail(@)])
        <3> DEFINE path == Tail(wk[w].path)
        <3>1. wk' = [wk EXCEPT ![w] = [wk[w] EXCEPT !.path = path, !.pc = "setread"]]
            BY <1>1, <2>4 DEF Goto, WorkerType
        <3> HIDE DEF path
        <3> QED
            BY <2>2, <3>1
    <2>5. CASE Goto(w, "setwrite", wk[w]) \/ Goto(w, "raised", wk[w])
        BY <2>1, <2>5, BudgetGoto DEF ProgramCounters
    <2> QED
        BY <2>1, <2>3, <2>4, <2>5
<1>7. CASE CancelLoad(w)
    <2> DEFINE open == {s \in Steps : rows[s].state \in {"pending", "running", "cancelled"}}
               path == << "cancelled" >>
    <2>1. wk[w].cur = None /\ UNCHANGED rows
        BY <1>1, <1>7 DEF CancelLoad, At, Fits, Executing
    <2>2. CASE Goto(w, "setread", [wk[w] EXCEPT !.path = path])
        <3> DEFINE local == [wk[w] EXCEPT !.path = path, !.pc = "setread"]
        <3>1. wk' = [wk EXCEPT ![w] = local]
            BY <1>1, <2>2 DEF Goto, WorkerType
        <3> HIDE DEF path
        <3>2. local.pc # "claim" /\ local.cur = None
            BY <1>1, <2>1 DEF WorkerType
        <3> HIDE DEF local
        <3> QED
            BY <2>1, <3>1, <3>2, BudgetGoesOn
    <2>3. CASE Goto(w, "cancelstep", [wk[w] EXCEPT !.todo = open])
        <3> DEFINE local == [wk[w] EXCEPT !.todo = open, !.pc = "cancelstep"]
        <3>1. wk' = [wk EXCEPT ![w] = local]
            BY <1>1, <2>3 DEF Goto, WorkerType
        <3> HIDE DEF open
        <3>2. local.pc # "claim" /\ local.cur = None
            BY <1>1, <2>1 DEF WorkerType
        <3> HIDE DEF local
        <3> QED
            BY <2>1, <3>1, <3>2, BudgetGoesOn
    <2> QED
        BY <1>7, <2>2, <2>3 DEF CancelLoad
<1>8. CASE CancelStep(w)
    <2> DEFINE s == FirstOf(wk[w].todo)
               rest == wk[w].todo \ {s}
               row == Row("cancelled", 0)
    <2>1. s \in Steps /\ wk[w].cur = None
        BY <1>1, <1>8, FirstOfMember DEF CancelStep, At, Fits, WorkerType, Executing
    <2>2. Spends(row, s)
        BY <2>1, FreshRowSpends
    <2>3. rows' = [rows EXCEPT ![s] = row]
        BY <1>8 DEF CancelStep
    <2>4. \E local : /\ wk' = [wk EXCEPT ![w] = local]
                     /\ local.pc # "claim" /\ local.cur = None
        <3> HIDE DEF s
        <3>1. CASE rest = {}
            <4> DEFINE path == << "cancelled" >>
                       local == [wk[w] EXCEPT !.todo = {}, !.path = path, !.pc = "setread"]
            <4>1. wk' = [wk EXCEPT ![w] = local]
                BY <1>1, <1>8, <3>1 DEF CancelStep, Goto, WorkerType, s
            <4> HIDE DEF path
            <4>2. local.pc # "claim" /\ local.cur = None
                BY <1>1, <2>1 DEF WorkerType
            <4> HIDE DEF local
            <4> QED
                BY <4>1, <4>2
        <3>2. CASE rest # {}
            <4> DEFINE local == [wk[w] EXCEPT !.todo = rest, !.pc = "cancelstep"]
            <4>1. wk' = [wk EXCEPT ![w] = local]
                BY <1>1, <1>8, <3>2 DEF CancelStep, Goto, WorkerType, s
            <4>2. local.pc # "claim" /\ local.cur = None
                BY <1>1, <2>1 DEF WorkerType
            <4> HIDE DEF local
            <4> QED
                BY <4>1, <4>2
        <3> QED
            BY <3>1, <3>2
    <2>5. PICK local : /\ wk' = [wk EXCEPT ![w] = local]
                       /\ local.pc # "claim" /\ local.cur = None
        BY <2>4
    <2>6. BudgetLocal(local, rows')
        BY <2>5 DEF BudgetLocal
    <2> HIDE DEF s, row
    <2> QED
        BY <2>1, <2>2, <2>3, <2>5, <2>6, BudgetRow, BudgetMoves
<1>9. CASE Raise(w)
    <2>1. wk' = [wk EXCEPT ![w] = IdleWorker] /\ BudgetLocal(IdleWorker, rows')
        BY <1>9, IdleSpendsNothing DEF Raise, Return, BudgetLocal
    <2>2. \A t \in Steps : /\ rows'[t].state = rows[t].state
                           /\ rows'[t].attempts = rows[t].attempts
        BY <1>1, <1>9, ReleasedSameStates DEF Raise, WorkerType
    <2> QED
        BY <2>1, <2>2, SameStates, BudgetMoves
<1> QED
    BY <1>2, <1>3, <1>4, <1>5, <1>6, <1>7, <1>8, <1>9 DEF RunStep

\* The row a settled handler leaves has an attempt left if it is pending again.
LEMMA SettledRowSpends ==
    ASSUME NEW s \in Steps, NEW attempt \in Nat, attempt <= MaxAttempts[s],
           NEW result \in {"ok", "skip", "retry", "fail", "cancelled"}
    PROVE  Spends(SettledRow(s, result, attempt), s)
<1>0. MaxAttempts[s] \in Nat
    BY GraphAssumption
<1>1. CASE result = "ok"
    BY <1>1 DEF SettledRow, Row, Spends
<1>2. CASE result = "skip"
    BY <1>2 DEF SettledRow, Row, Spends
<1>3. CASE result = "fail"
    BY <1>3 DEF SettledRow, Row, Spends
<1>4. CASE result = "cancelled"
    BY <1>4 DEF SettledRow, Row, Spends
<1>5. CASE result = "retry" /\ attempt >= MaxAttempts[s]
    BY <1>5 DEF SettledRow, Row, Spends
<1>6. CASE result = "retry" /\ ~(attempt >= MaxAttempts[s])
    <2>1. SettledRow(s, result, attempt) = [Row("pending", attempt) EXCEPT !.waiting = TRUE]
        BY <1>6 DEF SettledRow
    <2> QED
        BY <1>0, <1>6, <2>1 DEF Row, Spends
<1> QED
    BY <1>1, <1>2, <1>3, <1>4, <1>5, <1>6

\* A delivery rewrites the row of the step it executes and stays with it.
LEMMA BudgetOwnRow ==
    ASSUME IndInv, BudgetInv, NEW w \in Workers, \A v \in Workers : v = w,
           wk[w].pc \in Executing, NEW local, wk' = [wk EXCEPT ![w] = local],
           local.cur = wk[w].cur, local.todo = wk[w].todo, local.attempt = wk[w].attempt,
           NEW row, Spends(row, wk[w].cur), rows' = [rows EXCEPT ![wk[w].cur] = row]
    PROVE  BudgetInv'
<1>1. wk[w].cur \in Steps /\ wk[w].cur # None
    BY CurrentStep, WorkerAssumption
<1>2. \A s \in Steps : Spends(rows'[s], s)
    BY <1>1, BudgetRow
<1>3. wk[w].todo \in SUBSET Steps
    BY LocalFacts DEF WorkerType
<1>4. BudgetLocal(local, rows')
    BY <1>1, <1>3 DEF BudgetInv, BudgetLocal, IndInv, TypeOK
<1> QED
    BY <1>2, <1>4, BudgetMoves

LEMMA ExecuteStepBudget ==
    ASSUME IndInv, BudgetInv, NEW w \in Workers, \A v \in Workers : v = w, ExecuteStep(w)
    PROVE  BudgetInv'
<1>1. wk[w] \in WorkerType /\ Fits(wk[w]) /\ wk[w].moved \in BOOLEAN
    BY LocalFacts DEF WorkerType
<1>2. ASSUME wk[w].pc \in Executing
      PROVE  /\ wk[w].cur \in Steps /\ wk[w].cur # None
             /\ wk[w].attempt \in Nat /\ wk[w].attempt <= MaxAttempts[wk[w].cur]
    <2>1. wk[w].cur \in Steps /\ wk[w].cur # None
        BY <1>2, CurrentStep, WorkerAssumption
    <2> QED
        BY <1>1, <2>1 DEF BudgetInv, BudgetLocal, WorkerType
<1> DEFINE c == wk[w].cur
<1>3. CASE Claim(w)
    <2> DEFINE s == FirstOf(wk[w].todo)
    <2>1. wk[w].pc = "claim" /\ UNCHANGED rows /\ wk[w].cur = None
        BY <1>1, <1>3 DEF Claim, At, Fits, Executing
    <2>2. s \in wk[w].todo /\ s \in Steps
        BY <1>1, <2>1, FirstOfMember DEF Fits, WorkerType
    <2>3. CASE NextStep(w, wk[w].todo \ {s}, wk[w].moved)
        BY <1>1, <2>1, <2>3, BudgetNextStep
    <2>4. CASE Goto(w, "acquire", [wk[w] EXCEPT !.cur = s, !.attempt = rows[s].attempts + 1])
        <3> DEFINE attempt == rows[s].attempts + 1
                   local == [wk[w] EXCEPT !.cur = s, !.attempt = attempt, !.pc = "acquire"]
        <3> HIDE DEF s
        <3>1. \A t \in wk[w].todo : rows[t].state = "pending"
            BY <1>1, <2>1, WorkerAssumption DEF BudgetInv, BudgetLocal, WorkerType
        <3>2. attempt <= MaxAttempts[s]
            <4>1. rows[s].attempts < MaxAttempts[s] /\ rows[s].attempts \in Nat
                BY <2>2, <3>1 DEF BudgetInv, Spends, IndInv, TypeOK, RowType
            <4> DEFINE n == rows[s].attempts
                       m == MaxAttempts[s]
            <4>2. m \in Nat
                BY <2>2, GraphAssumption
            <4> HIDE DEF n, m
            <4>3. n + 1 <= m
                BY <4>1, <4>2 DEF n, m
            <4> QED
                BY <4>3 DEF n, m
        <3>3. wk' = [wk EXCEPT ![w] = local]
            BY <1>1, <2>4 DEF Goto, WorkerType
        <3> HIDE DEF attempt
        <3>4. local.cur = s /\ local.todo = wk[w].todo /\ local.attempt = attempt
            BY <1>1 DEF WorkerType
        <3> HIDE DEF local
        <3>5. BudgetLocal(local, rows')
            BY <2>1, <3>1, <3>2, <3>4 DEF BudgetLocal
        <3>6. \A t \in Steps : Spends(rows'[t], t)
            BY <2>1 DEF BudgetInv
        <3> QED
            BY <3>3, <3>5, <3>6, BudgetMoves
    <2> QED
        BY <1>3, <2>3, <2>4 DEF Claim
<1>4. CASE AcquireLease(w)
    <2>1. wk[w].pc \in Executing
        BY <1>4 DEF AcquireLease, At, Executing
    <2>2. CASE Goto(w, "advance", wk[w]) /\ rows' = [rows EXCEPT ![c].owner = w, ![c].live = TRUE]
        <3> DEFINE row == [rows[c] EXCEPT !.owner = w, !.live = TRUE]
                   local == [wk[w] EXCEPT !.pc = "advance"]
        <3>1. rows' = [rows EXCEPT ![c] = row] /\ wk' = [wk EXCEPT ![w] = local]
            BY <1>2, <2>1, <2>2 DEF IndInv, TypeOK, RowType, Goto
        <3>2. row.state = rows[c].state /\ row.attempts = rows[c].attempts
            BY <1>2, <2>1 DEF IndInv, TypeOK, RowType
        <3>3. Spends(row, c)
            BY <1>2, <2>1, <3>2 DEF Spends, BudgetInv
        <3>4. local.cur = c /\ local.todo = wk[w].todo /\ local.attempt = wk[w].attempt
            BY <1>1 DEF WorkerType
        <3> HIDE DEF row, local
        <3> QED
            BY <2>1, <3>1, <3>3, <3>4, BudgetOwnRow
    <2>3. CASE NextStep(w, wk[w].todo \ {c}, wk[w].moved) /\ UNCHANGED rows
        BY <1>1, <1>2, <2>1, <2>3, BudgetNextStep
    <2> QED
        BY <1>4, <2>2, <2>3 DEF AcquireLease
<1>5. CASE AdvanceTo(w)
    <2>1. wk[w].pc \in Executing /\ UNCHANGED rows
        BY <1>5 DEF AdvanceTo, At, Executing
    <2> DEFINE path == ForwardPath(runState, Phase[wk[w].cur])
    <2>2. CASE Goto(w, "raised", wk[w]) \/ Goto(w, "keycheck", wk[w])
        BY <2>1, <2>2, BudgetGoto DEF ProgramCounters
    <2>3. CASE Goto(w, "setread", [wk[w] EXCEPT !.path = path])
        <3> DEFINE local == [wk[w] EXCEPT !.path = path, !.pc = "setread"]
        <3>1. wk' = [wk EXCEPT ![w] = local]
            BY <1>1, <2>3 DEF Goto, WorkerType
        <3> HIDE DEF path
        <3>2. local.cur = c /\ local.todo = wk[w].todo /\ local.attempt = wk[w].attempt
            BY <1>1 DEF WorkerType
        <3> HIDE DEF local
        <3> QED
            BY <1>2, <2>1, <3>1, <3>2, BudgetGoesOn
    <2> QED
        BY <1>5, <2>2, <2>3 DEF AdvanceTo
<1>6. CASE CheckKey(w)
    <2>1. (IF KeyOf(w) \in keys THEN "dedup" ELSE "start") \in ProgramCounters \ {"claim"}
        BY DEF ProgramCounters
    <2> QED
        BY <1>6, <2>1, BudgetGoto DEF CheckKey
<1>7. CASE Deduplicate(w)
    <2> DEFINE row == Row("succeeded", 0)
               local == [wk[w] EXCEPT !.pc = "release"]
    <2>1. wk[w].pc \in Executing
        BY <1>7 DEF Deduplicate, At, Executing
    <2>2. Spends(row, c)
        BY <1>2, <2>1, FreshRowSpends
    <2>3. rows' = [rows EXCEPT ![c] = row] /\ wk' = [wk EXCEPT ![w] = local]
        BY <1>7 DEF Deduplicate, Goto
    <2>4. local.cur = c /\ local.todo = wk[w].todo /\ local.attempt = wk[w].attempt
        BY <1>1 DEF WorkerType
    <2> HIDE DEF row, local
    <2> QED
        BY <2>1, <2>2, <2>3, <2>4, BudgetOwnRow
<1>8. CASE StartStep(w)
    <2> DEFINE row(live) == [state |-> "running", attempts |-> wk[w].attempt, owner |-> w,
                             live |-> live, waiting |-> FALSE]
               local == [wk[w] EXCEPT !.pc = "begin"]
    <2>1. wk[w].pc \in Executing
        BY <1>8 DEF StartStep, At, Executing
    <2>2. PICK live : rows' = [rows EXCEPT ![c] = row(live)]
        BY <1>8 DEF StartStep
    <2>3. Spends(row(live), c)
        BY <1>2, <2>1 DEF Spends
    <2>4. wk' = [wk EXCEPT ![w] = local]
        BY <1>8 DEF StartStep, Goto
    <2>5. local.cur = c /\ local.todo = wk[w].todo /\ local.attempt = wk[w].attempt
        BY <1>1 DEF WorkerType
    <2> HIDE DEF row, local
    <2> QED
        BY <2>1, <2>2, <2>3, <2>4, <2>5, BudgetOwnRow
<1>9. CASE BeginHandler(w) \/ EndHandler(w)
    <2>1. wk[w].pc \in Executing /\ UNCHANGED rows
        BY <1>9 DEF BeginHandler, EndHandler, At, Executing
    <2>2. ASSUME NEW result, NEW pc \in ProgramCounters, Goto(w, pc, [wk[w] EXCEPT !.result = result])
          PROVE  BudgetInv'
        <3> DEFINE local == [wk[w] EXCEPT !.result = result, !.pc = pc]
        <3>1. wk' = [wk EXCEPT ![w] = local]
            BY <1>1, <2>2 DEF Goto, WorkerType
        <3>2. local.cur = c /\ local.todo = wk[w].todo /\ local.attempt = wk[w].attempt
            BY <1>1 DEF WorkerType
        <3> HIDE DEF local
        <3> QED
            BY <1>2, <2>1, <3>1, <3>2, BudgetGoesOn
    <2>3. CASE Goto(w, "work", wk[w])
        BY <2>1, <2>3, BudgetGoto DEF ProgramCounters
    <2>4. CASE Goto(w, "settle", [wk[w] EXCEPT !.result = "cancelled"])
        BY <2>2, <2>4 DEF ProgramCounters
    <2>5. CASE EndHandler(w)
        <3>1. PICK outcome : Goto(w, IF outcome \in {"ok", "skip"} THEN "record" ELSE "settle",
                                  [wk[w] EXCEPT !.result = outcome])
            BY <2>5 DEF EndHandler
        <3>2. (IF outcome \in {"ok", "skip"} THEN "record" ELSE "settle") \in ProgramCounters
            BY DEF ProgramCounters
        <3> QED
            BY <2>2, <3>1, <3>2
    <2> QED
        BY <1>9, <2>3, <2>4, <2>5 DEF BeginHandler
<1>10. CASE RecordKey(w)
    BY <1>10, BudgetGoto DEF RecordKey, ProgramCounters
<1>11. CASE SettleStep(w)
    <2> DEFINE row == SettledRow(c, wk[w].result, wk[w].attempt)
               payload == IF wk[w].result = "ok" THEN wk[w].payload \cup {c} ELSE wk[w].payload
               local == [wk[w] EXCEPT !.payload = payload, !.pc = "release"]
    <2>1. wk[w].pc = "settle" /\ wk[w].pc \in Executing
        BY <1>11 DEF SettleStep, At, Executing
    <2>2. Spends(row, c)
        BY <1>1, <1>2, <2>1, SettledRowSpends DEF Fits
    <2>3. rows' = [rows EXCEPT ![c] = row] /\ wk' = [wk EXCEPT ![w] = local]
        BY <1>1, <1>11 DEF SettleStep, Goto, WorkerType
    <2> HIDE DEF payload, row
    <2>4. local.cur = c /\ local.todo = wk[w].todo /\ local.attempt = wk[w].attempt
        BY <1>1 DEF WorkerType
    <2> HIDE DEF local
    <2> QED
        BY <2>1, <2>2, <2>3, <2>4, BudgetOwnRow
<1>12. CASE ReleaseLease(w)
    <2>1. wk[w].pc \in Executing
        BY <1>12 DEF ReleaseLease, At, Executing
    <2>2. \A t \in Steps : /\ rows'[t].state = rows[t].state
                           /\ rows'[t].attempts = rows[t].attempts
        BY <1>2, <1>12, <2>1, ReleasedSameStates DEF ReleaseLease
    <2> QED
        BY <1>2, <1>12, <2>1, <2>2, BudgetNextStep DEF ReleaseLease
<1> QED
    BY <1>3, <1>4, <1>5, <1>6, <1>7, <1>8, <1>9, <1>10, <1>11, <1>12 DEF ExecuteStep

\* Users, operators and time leave a delivery what it relies on.
LEMMA EnvironmentBudget ==
    ASSUME IndInv, BudgetInv,
           RequestCancellation \/ Time \/ \E s \in Steps : Replay(s)
    PROVE  BudgetInv'
<1>1. CASE RequestCancellation
    BY <1>1 DEF RequestCancellation, BudgetInv
<1>2. CASE Time
    <2>1. UNCHANGED wk
        BY <1>2 DEF Time, BackoffElapses, LeaseLapses
    <2>2. \A s \in Steps : /\ rows'[s].state = rows[s].state
                           /\ rows'[s].attempts = rows[s].attempts
        BY <1>2 DEF Time, BackoffElapses, LeaseLapses, IndInv, TypeOK, RowType
    <2>3. \A w \in Workers : wk[w].todo \in SUBSET Steps
        BY LocalFacts DEF WorkerType
    <2>4. \A w \in Workers : BudgetLocal(wk[w], rows')
        BY <2>2, <2>3 DEF BudgetInv, BudgetLocal
    <2> QED
        BY <2>1, <2>2, <2>4, SameStates DEF BudgetInv
<1>3. ASSUME NEW s \in Steps, Replay(s) PROVE BudgetInv'
    <2> DEFINE row == Row("pending", 0)
    <2>1. Spends(row, s)
        BY FreshRowSpends
    <2>2. row.state = "pending" /\ rows' = [rows EXCEPT ![s] = row] /\ UNCHANGED wk
        BY <1>3 DEF Row, Replay
    <2> HIDE DEF row
    <2>3. \A t \in Steps : rows[t].state = "pending" => rows'[t].state = "pending"
        BY <2>2 DEF IndInv, TypeOK
    <2>4. \A w \in Workers : wk[w].todo \in SUBSET Steps
        BY LocalFacts DEF WorkerType
    <2>5. \A w \in Workers : BudgetLocal(wk[w], rows')
        BY <2>3, <2>4 DEF BudgetInv, BudgetLocal
    <2> QED
        BY <2>1, <2>2, <2>5, BudgetRow DEF BudgetInv
<1> QED
    BY <1>1, <1>2, <1>3

\* With one delivery at a time, what a delivery relies on holds at every step.
THEOREM BudgetHolds ==
    ASSUME \A v, w \in Workers : v = w
    PROVE  Spec => []BudgetInv
<1>1. Init => BudgetInv
    <2> SUFFICES ASSUME Init PROVE BudgetInv
        OBVIOUS
    <2>1. \A s \in Steps : Spends(rows[s], s)
        BY FreshRowSpends DEF Init
    <2>2. \A w \in Workers : BudgetLocal(wk[w], rows)
        BY IdleSpendsNothing DEF Init, BudgetLocal
    <2> QED
        BY <2>1, <2>2 DEF BudgetInv
<1>2. IndInv /\ BudgetInv /\ [Next]_vars => BudgetInv'
    <2> SUFFICES ASSUME IndInv, BudgetInv, [Next]_vars PROVE BudgetInv'
        OBVIOUS
    <2>1. ASSUME NEW w \in Workers, RunStep(w) \/ ExecuteStep(w) PROVE BudgetInv'
        BY <2>1, RunStepBudget, ExecuteStepBudget
    <2>2. ASSUME NEW w \in Workers, Deliver(w) PROVE BudgetInv'
        BY <2>2, BudgetGoto DEF Deliver, ProgramCounters
    <2>3. ASSUME NEW w \in Workers, Crash(w) PROVE BudgetInv'
        <3> DEFINE local == [IdleWorker EXCEPT !.pc = "dead"]
        <3>1. wk' = [wk EXCEPT ![w] = local] /\ UNCHANGED rows
            BY <2>3 DEF Crash, Goto
        <3>2. local.pc # "claim" /\ local.cur = None
            BY DEF IdleWorker
        <3> HIDE DEF local
        <3> QED
            BY <3>1, <3>2, BudgetGoesOn
    <2>4. ASSUME NEW w \in Workers, Restart(w) PROVE BudgetInv'
        BY <2>4, BudgetReturn DEF Restart
    <2>5. CASE RequestCancellation \/ Time \/ \E s \in Steps : Replay(s)
        BY <2>5, EnvironmentBudget
    <2>6. CASE UNCHANGED vars
        BY <2>6 DEF vars, BudgetInv
    <2> QED
        BY <2>1, <2>2, <2>3, <2>4, <2>5, <2>6 DEF Next
<1> QED
    BY <1>1, <1>2, Invariance, PTL DEF Spec

\* With one delivery at a time, no step spends more attempts than its budget,
\* whatever crashes, replays, retries and lapses of its lease it goes through.
THEOREM AttemptsBounded ==
    ASSUME \A v, w \in Workers : v = w
    PROVE  FairSpec => []AttemptBudget
<1>1. BudgetInv => AttemptBudget
    BY DEF BudgetInv, AttemptBudget, Spends
<1> QED
    BY <1>1, BudgetHolds, PTL DEF FairSpec
(***************************************************************************)
(* The order of the steps.  While there is one delivery at a time and      *)
(* nothing is replayed, what a delivery has read of the steps on its list  *)
(* still holds when it acts on it: no step starts before those it depends  *)
(* on, and one that has settled is left alone.                             *)
(***************************************************************************)
Open == {"pending", "running"}

\* What the list of a delivery says of the states of the steps.
Chosen(local, states) ==
    /\ local.pc = "skip" => local.todo \subseteq Blocked(states)
    /\ local.pc = "claim" \/ local.cur # None =>
          \A s \in local.todo : \A d \in Deps[s] : DependencySettled(d, states)
    /\ local.cur # None /\ local.pc # "release" => states[local.cur] \in Open
    /\ local.pc \in {"record", "settle"} /\ local.result = "skip" => local.cur \in Optional
    /\ local.pc = "cancelstep" =>
          /\ \A s \in Steps : states[s] \in Open => s \in local.todo
          /\ \A s \in local.todo : states[s] \in Open \cup {"cancelled"}

\* The states of a step whose handler has been called.
CalledStates == FailedStates \cup {"running", "succeeded"}

InOrder(states) ==
    \A s \in Steps : states[s] \in CalledStates =>
        \A d \in Deps[s] : DependencySettled(d, states)

OrderInv ==
    /\ InOrder(States)
    /\ \A w \in Workers : Chosen(wk[w], States)

\* What has settled stays as it is.
Stays == \A s \in Steps : rows[s].state \in TerminalStepStates =>
                             rows'[s].state = rows[s].state

\* A step of the delivery that leaves the states of the steps alone.
LEMMA OrderQuiet ==
    ASSUME IndInv, OrderInv, NEW w \in Workers, \A v \in Workers : v = w, NEW local,
           wk' = [wk EXCEPT ![w] = local],
           \A s \in Steps : rows'[s].state = rows[s].state,
           Chosen(local, States)
    PROVE  OrderInv' /\ Stays
<1>1. States' = States
    BY DEF States
<1>2. wk'[w] = local
    BY DEF IndInv, TypeOK
<1> QED
    BY <1>1, <1>2 DEF OrderInv, Stays

\* A dependency that has settled is not the step that moves.
LEMMA SettledElsewhere ==
    ASSUME NEW s \in Steps, NEW state, States[s] \in Open \cup {"cancelled"},
           \A t \in Steps : States'[t] = IF t = s THEN state ELSE States[t],
           NEW t \in Steps, \A d \in Deps[t] : DependencySettled(d, States)
    PROVE  \A d \in Deps[t] : DependencySettled(d, States')
<1> SUFFICES ASSUME NEW d \in Deps[t] PROVE DependencySettled(d, States')
    OBVIOUS
<1>1. DependencySettled(d, States) /\ d \in Steps
    BY GraphAssumption
<1>2. d # s
    BY <1>1 DEF DependencySettled, FailedStates, Open
<1> QED
    BY <1>1, <1>2 DEF DependencySettled

\* One open step moves, and its handler is called only in its turn.
LEMMA OrderMoves ==
    ASSUME IndInv, OrderInv, NEW w \in Workers, \A v \in Workers : v = w, NEW local,
           wk' = [wk EXCEPT ![w] = local],
           NEW s \in Steps, NEW row, NEW state, row.state = state,
           rows' = [rows EXCEPT ![s] = row],
           States[s] \in Open \cup {"cancelled"},
           state \in Open \cup {"cancelled"} \/ States[s] \in Open,
           States[s] = "cancelled" => state = "cancelled",
           state \in CalledStates => \A d \in Deps[s] : DependencySettled(d, States),
           Chosen(local, States')
    PROVE  OrderInv' /\ Stays
<1>1. \A t \in Steps : rows'[t] = IF t = s THEN row ELSE rows[t]
    BY DEF IndInv, TypeOK
<1>2. \A t \in Steps : rows'[t].state = IF t = s THEN state ELSE rows[t].state
    BY <1>1
<1>3. \A t \in Steps : /\ States'[t] = IF t = s THEN state ELSE States[t]
                       /\ States[t] = rows[t].state
    BY <1>2 DEF States
<1>4. InOrder(States')
    <2> SUFFICES ASSUME NEW t \in Steps, States'[t] \in CalledStates
                 PROVE  \A d \in Deps[t] : DependencySettled(d, States')
        BY DEF InOrder
    <2>1. \A d \in Deps[t] : DependencySettled(d, States)
        BY <1>3 DEF OrderInv, InOrder
    <2> QED
        BY <1>3, <2>1, SettledElsewhere
<1>5. wk'[w] = local
    BY DEF IndInv, TypeOK
<1>6. Stays
    BY <1>2, <1>3 DEF Stays, Open, TerminalStepStates, FailedStates
<1> QED
    BY <1>4, <1>5, <1>6 DEF OrderInv

\* The locals that carry no promise about the steps.
LEMMA NothingChosen ==
    ASSUME NEW local, NEW states, local.cur = None,
           local.pc \notin {"skip", "claim", "record", "settle", "cancelstep"}
    PROVE  Chosen(local, states)
BY DEF Chosen

\* What a delivery knows of its list stays true while it goes on with a step.
LEMMA ListStays ==
    ASSUME NEW local, NEW next, NEW states, Chosen(local, states), local.pc # "release",
           next.cur = local.cur, next.todo = local.todo,
           next.pc \in {"acquire", "advance", "setread", "setwrite", "keycheck", "dedup",
                        "start", "begin", "work", "raised"}
    PROVE  Chosen(next, states)
BY DEF Chosen

LEMMA OrderReturn ==
    ASSUME IndInv, OrderInv, NEW w \in Workers, \A v \in Workers : v = w, Return(w),
           \A s \in Steps : rows'[s].state = rows[s].state
    PROVE  OrderInv' /\ Stays
<1>1. IdleWorker.pc = "idle" /\ IdleWorker.cur = None
    BY DEF IdleWorker
<1> HIDE DEF IdleWorker
<1>2. wk' = [wk EXCEPT ![w] = IdleWorker]
    BY DEF Return
<1> QED
    BY <1>1, <1>2, NothingChosen, OrderQuiet

\* A delivery that goes to another place and keeps its list and its step.
LEMMA OrderGoto ==
    ASSUME IndInv, OrderInv, NEW w \in Workers, \A v \in Workers : v = w,
           wk[w].pc # "release", NEW pc, Goto(w, pc, wk[w]),
           \/ wk[w].cur = None /\ pc \in {"check", "cancel", "load", "raised", "setwrite"}
           \/ pc \in {"advance", "setwrite", "keycheck", "dedup", "start", "begin",
                      "work", "raised"},
           \A s \in Steps : rows'[s].state = rows[s].state
    PROVE  OrderInv' /\ Stays
<1> DEFINE local == [wk[w] EXCEPT !.pc = pc]
<1>1. wk' = [wk EXCEPT ![w] = local]
    BY DEF Goto
<1>2. local.pc = pc /\ local.cur = wk[w].cur /\ local.todo = wk[w].todo
    BY LocalFacts DEF WorkerType
<1> HIDE DEF local
<1>3. Chosen(local, States)
    BY <1>2, NothingChosen, ListStays DEF OrderInv
<1> QED
    BY <1>1, <1>3, OrderQuiet

LEMMA LoadStepsOrder ==
    ASSUME IndInv, OrderInv, NEW w \in Workers, \A v \in Workers : v = w, LoadSteps(w)
    PROVE  OrderInv' /\ Stays
<1>1. wk[w] \in WorkerType /\ wk[w].pc = "load" /\ wk[w].cur = None /\ UNCHANGED rows
    BY LocalFacts DEF LoadSteps, At, Fits, Executing
<1>2. CASE Goto(w, "skip", [wk[w] EXCEPT !.todo = Blocked(States)])
    <2> DEFINE blocked == Blocked(States)
               local == [wk[w] EXCEPT !.todo = blocked, !.pc = "skip"]
    <2>1. wk' = [wk EXCEPT ![w] = local]
        BY <1>1, <1>2 DEF Goto, WorkerType
    <2> HIDE DEF blocked
    <2>2. local.pc = "skip" /\ local.cur = None /\ local.todo = blocked
        BY <1>1 DEF WorkerType
    <2> HIDE DEF local
    <2>3. Chosen(local, States)
        BY <2>2 DEF Chosen, blocked
    <2> QED
        BY <1>1, <2>1, <2>3, OrderQuiet
<1>3. CASE Goto(w, "settlerun", [wk[w] EXCEPT !.result = Outcome(States)])
    <2> DEFINE outcome == Outcome(States)
               local == [wk[w] EXCEPT !.result = outcome, !.pc = "settlerun"]
    <2>1. wk' = [wk EXCEPT ![w] = local]
        BY <1>1, <1>3 DEF Goto, WorkerType
    <2> HIDE DEF outcome
    <2>2. local.pc = "settlerun" /\ local.cur = None
        BY <1>1 DEF WorkerType
    <2> HIDE DEF local
    <2> QED
        BY <1>1, <2>1, <2>2, NothingChosen, OrderQuiet
<1>4. CASE Goto(w, "claim", [wk[w] EXCEPT !.todo = Ready(States), !.moved = FALSE])
    <2> DEFINE ready == Ready(States)
               local == [wk[w] EXCEPT !.todo = ready, !.moved = FALSE, !.pc = "claim"]
    <2>1. wk' = [wk EXCEPT ![w] = local]
        BY <1>1, <1>4 DEF Goto, WorkerType
    <2>2. \A s \in ready : \A d \in Deps[s] : DependencySettled(d, States)
        BY DEF Ready
    <2> HIDE DEF ready
    <2>3. local.pc = "claim" /\ local.cur = None /\ local.todo = ready
        BY <1>1 DEF WorkerType
    <2> HIDE DEF local
    <2>4. Chosen(local, States)
        BY <2>2, <2>3 DEF Chosen
    <2> QED
        BY <1>1, <2>1, <2>4, OrderQuiet
<1>5. CASE Return(w)
    BY <1>1, <1>5, OrderReturn
<1> QED
    BY <1>2, <1>3, <1>4, <1>5 DEF LoadSteps

LEMMA SkipBlockedOrder ==
    ASSUME IndInv, OrderInv, NEW w \in Workers, \A v \in Workers : v = w, SkipBlocked(w)
    PROVE  OrderInv' /\ Stays
<1> DEFINE s == FirstOf(wk[w].todo)
           rest == wk[w].todo \ {s}
           row == Row("skipped", 0)
           local == [wk[w] EXCEPT !.todo = rest,
                                  !.pc = IF rest = {} THEN "check" ELSE "skip"]
<1>1. /\ wk[w] \in WorkerType /\ wk[w].pc = "skip" /\ wk[w].cur = None
      /\ wk[w].todo # {} /\ wk[w].todo \in SUBSET Steps
    BY LocalFacts DEF SkipBlocked, At, Fits, Executing, WorkerType
<1>2. s \in wk[w].todo /\ s \in Steps
    BY <1>1, FirstOfMember
<1>3. wk' = [wk EXCEPT ![w] = local] /\ rows' = [rows EXCEPT ![s] = row]
    BY <1>1 DEF SkipBlocked, Goto, WorkerType
<1>4. row.state = "skipped"
    BY DEF Row
<1> HIDE DEF s, row
<1>5. local.pc \in {"check", "skip"} /\ local.cur = None /\ local.todo = rest
    BY <1>1 DEF WorkerType
<1> HIDE DEF local
<1>6. wk[w].todo \subseteq Blocked(States) /\ States[s] \in Open
    BY <1>1, <1>2 DEF OrderInv, Chosen, Blocked, Open
<1>7. \A t \in Steps : States'[t] = IF t = s THEN "skipped" ELSE States[t]
    <2>1. \A t \in Steps : rows'[t] = IF t = s THEN row ELSE rows[t]
        BY <1>2, <1>3 DEF IndInv, TypeOK
    <2> QED
        BY <1>4, <2>1 DEF States
<1>8. rest \subseteq Blocked(States')
    <2> SUFFICES ASSUME NEW t \in rest PROVE t \in Blocked(States')
        OBVIOUS
    <2>1. t \in Blocked(States) /\ t # s
        BY <1>6
    <2>2. t \in Steps /\ States[t] = "pending"
        BY <2>1 DEF Blocked
    <2>3. PICK d \in Deps[t] : \/ States[d] \in FailedStates \cup {"skipped"} /\ d \notin Optional
                               \/ States[d] = "cancelled"
        BY <2>1 DEF Blocked
    <2>4. d # s /\ d \in Steps
        BY <1>6, <2>2, <2>3, GraphAssumption DEF FailedStates, Open
    <2> QED
        BY <1>7, <2>1, <2>2, <2>3, <2>4 DEF Blocked
<1>9. Chosen(local, States')
    BY <1>5, <1>8 DEF Chosen
<1>10. "skipped" \notin CalledStates
    BY DEF CalledStates, FailedStates
<1> QED
    BY <1>2, <1>3, <1>4, <1>6, <1>9, <1>10, OrderMoves DEF Open

\* A walk begins, goes on or ends; the list and the step in hand stay.
LEMMA OrderWalk ==
    ASSUME IndInv, OrderInv, NEW w \in Workers, \A v \in Workers : v = w,
           wk[w].pc \in {"setread", "setwrite"} \/ wk[w].pc = "advance",
           NEW pc \in {"setread", "keycheck"}, NEW path,
           Goto(w, pc, [wk[w] EXCEPT !.path = path]), UNCHANGED rows
    PROVE  OrderInv' /\ Stays
<1> DEFINE local == [wk[w] EXCEPT !.path = path, !.pc = pc]
<1>1. wk[w] \in WorkerType
    BY LocalFacts
<1>2. wk' = [wk EXCEPT ![w] = local]
    BY <1>1 DEF Goto, WorkerType
<1>3. local.pc = pc /\ local.cur = wk[w].cur /\ local.todo = wk[w].todo
    BY <1>1 DEF WorkerType
<1> HIDE DEF local
<1>4. Chosen(local, States)
    BY <1>3, ListStays DEF OrderInv
<1> QED
    BY <1>2, <1>4, OrderQuiet

LEMMA PathDoneOrder ==
    ASSUME IndInv, OrderInv, NEW w \in Workers, \A v \in Workers : v = w,
           wk[w].pc \in {"setread", "setwrite"}, PathDone(w, wk[w]), UNCHANGED rows
    PROVE  OrderInv' /\ Stays
<1>1. CASE Goto(w, "keycheck", [wk[w] EXCEPT !.path = << >>])
    <2> DEFINE path == << >>
    <2>1. Goto(w, "keycheck", [wk[w] EXCEPT !.path = path])
        BY <1>1
    <2> HIDE DEF path
    <2> QED
        BY <2>1, OrderWalk
<1>2. CASE Return(w)
    BY <1>2, OrderReturn
<1> QED
    BY <1>1, <1>2 DEF PathDone

LEMMA SetStateOrder ==
    ASSUME IndInv, OrderInv, NEW w \in Workers, \A v \in Workers : v = w,
           ReadState(w) \/ WriteState(w)
    PROVE  OrderInv' /\ Stays
<1>1. wk[w].pc \in {"setread", "setwrite"} /\ UNCHANGED rows
    BY DEF ReadState, WriteState, At
<1>2. CASE PathDone(w, wk[w])
    BY <1>1, <1>2, PathDoneOrder
<1>3. CASE Goto(w, "setread", [wk[w] EXCEPT !.path = Tail(@)])
    <2> DEFINE path == Tail(wk[w].path)
    <2>1. Goto(w, "setread", [wk[w] EXCEPT !.path = path])
        BY <1>3, LocalFacts DEF WorkerType, Goto
    <2> HIDE DEF path
    <2> QED
        BY <1>1, <2>1, OrderWalk
<1>4. CASE \E pc \in {"setwrite", "raised"} : Goto(w, pc, wk[w])
    BY <1>1, <1>4, OrderGoto
<1> QED
    BY <1>2, <1>3, <1>4 DEF ReadState, WriteState

LEMMA SettleRunOrder ==
    ASSUME IndInv, OrderInv, NEW w \in Workers, \A v \in Workers : v = w, SettleRun(w)
    PROVE  OrderInv' /\ Stays
<1>1. wk[w] \in WorkerType /\ wk[w].pc = "settlerun" /\ wk[w].cur = None /\ UNCHANGED rows
    BY LocalFacts DEF SettleRun, At, Fits, Executing
<1>2. CASE Goto(w, "raised", wk[w])
    BY <1>1, <1>2, OrderGoto
<1>3. CASE Goto(w, "setread",
                [wk[w] EXCEPT !.path = SettlePath(wk[w].result), !.result = None])
    <2> DEFINE path == SettlePath(wk[w].result)
               local == [wk[w] EXCEPT !.path = path, !.result = None, !.pc = "setread"]
    <2>1. wk' = [wk EXCEPT ![w] = local]
        BY <1>1, <1>3 DEF Goto, WorkerType
    <2> HIDE DEF path
    <2>2. local.pc = "setread" /\ local.cur = None
        BY <1>1 DEF WorkerType
    <2> HIDE DEF local
    <2> QED
        BY <1>1, <2>1, <2>2, NothingChosen, OrderQuiet
<1> QED
    BY <1>2, <1>3 DEF SettleRun

LEMMA CancelLoadOrder ==
    ASSUME IndInv, OrderInv, NEW w \in Workers, \A v \in Workers : v = w, CancelLoad(w)
    PROVE  OrderInv' /\ Stays
<1> DEFINE open == {s \in Steps : rows[s].state \in {"pending", "running", "cancelled"}}
           path == << "cancelled" >>
<1>1. wk[w] \in WorkerType /\ wk[w].pc = "cancel" /\ wk[w].cur = None /\ UNCHANGED rows
    BY LocalFacts DEF CancelLoad, At, Fits, Executing
<1>2. CASE Goto(w, "setread", [wk[w] EXCEPT !.path = path])
    <2> DEFINE local == [wk[w] EXCEPT !.path = path, !.pc = "setread"]
    <2>1. wk' = [wk EXCEPT ![w] = local]
        BY <1>1, <1>2 DEF Goto, WorkerType
    <2> HIDE DEF path
    <2>2. local.pc = "setread" /\ local.cur = None
        BY <1>1 DEF WorkerType
    <2> HIDE DEF local
    <2> QED
        BY <1>1, <2>1, <2>2, NothingChosen, OrderQuiet
<1>3. CASE Goto(w, "cancelstep", [wk[w] EXCEPT !.todo = open])
    <2> DEFINE local == [wk[w] EXCEPT !.todo = open, !.pc = "cancelstep"]
    <2>1. wk' = [wk EXCEPT ![w] = local]
        BY <1>1, <1>3 DEF Goto, WorkerType
    <2>2. /\ \A s \in Steps : States[s] \in Open => s \in open
          /\ \A s \in open : States[s] \in Open \cup {"cancelled"}
        BY DEF States, Open
    <2> HIDE DEF open
    <2>3. local.pc = "cancelstep" /\ local.cur = None /\ local.todo = open
        BY <1>1 DEF WorkerType
    <2> HIDE DEF local
    <2>4. Chosen(local, States)
        BY <2>2, <2>3 DEF Chosen
    <2> QED
        BY <1>1, <2>1, <2>4, OrderQuiet
<1> QED
    BY <1>2, <1>3 DEF CancelLoad

\* An open step is cancelled; one that is already cancelled stays so.
LEMMA CancelStepOrder ==
    ASSUME IndInv, OrderInv, NEW w \in Workers, \A v \in Workers : v = w, CancelStep(w)
    PROVE  OrderInv' /\ Stays
<1> DEFINE s == FirstOf(wk[w].todo)
           rest == wk[w].todo \ {s}
           row == Row("cancelled", 0)
           path == << "cancelled" >>
           last == [wk[w] EXCEPT !.todo = {}, !.path = path, !.pc = "setread"]
           more == [wk[w] EXCEPT !.todo = rest, !.pc = "cancelstep"]
           local == IF rest = {} THEN last ELSE more
<1>1. /\ wk[w] \in WorkerType /\ wk[w].pc = "cancelstep" /\ wk[w].cur = None
      /\ wk[w].todo # {} /\ wk[w].todo \in SUBSET Steps
    BY LocalFacts DEF CancelStep, At, Fits, Executing, WorkerType
<1>2. s \in wk[w].todo /\ s \in Steps
    BY <1>1, FirstOfMember
<1>3. wk' = [wk EXCEPT ![w] = local]
    BY <1>1 DEF CancelStep, Goto, WorkerType
<1>4. rows' = [rows EXCEPT ![s] = row]
    BY DEF CancelStep
<1>5. row.state = "cancelled"
    BY DEF Row
<1> HIDE DEF path
<1>6. /\ last.pc = "setread" /\ last.cur = None
      /\ more.pc = "cancelstep" /\ more.cur = None /\ more.todo = rest
    BY <1>1 DEF WorkerType
<1> HIDE DEF s, row, last, more
<1>7. /\ \A t \in Steps : States[t] \in Open => t \in wk[w].todo
      /\ \A t \in wk[w].todo : States[t] \in Open \cup {"cancelled"}
    BY <1>1 DEF OrderInv, Chosen
<1>8. \A t \in Steps : States'[t] = IF t = s THEN "cancelled" ELSE States[t]
    <2>1. \A t \in Steps : rows'[t] = IF t = s THEN row ELSE rows[t]
        BY <1>2, <1>4 DEF IndInv, TypeOK
    <2> QED
        BY <1>5, <2>1 DEF States
<1>9. Chosen(last, States')
    BY <1>6, NothingChosen
<1>10. Chosen(more, States')
    <2>1. /\ \A t \in Steps : States'[t] \in Open => t \in rest
          /\ \A t \in rest : States'[t] \in Open \cup {"cancelled"}
        BY <1>1, <1>7, <1>8 DEF Open
    <2> QED
        BY <1>6, <2>1 DEF Chosen
<1>11. Chosen(local, States')
    BY <1>9, <1>10
<1>12. "cancelled" \notin CalledStates
    BY DEF CalledStates, FailedStates
<1> HIDE DEF local
<1> QED
    BY <1>2, <1>3, <1>4, <1>5, <1>7, <1>11, <1>12, OrderMoves

LEMMA RaiseOrder ==
    ASSUME IndInv, OrderInv, NEW w \in Workers, \A v \in Workers : v = w, Raise(w)
    PROVE  OrderInv' /\ Stays
<1>1. /\ wk[w] \in WorkerType /\ Return(w)
      /\ rows' = IF wk[w].cur # None THEN Released(w, wk[w].cur) ELSE rows
    BY LocalFacts DEF Raise
<1>2. wk[w].cur # None => wk[w].cur \in Steps
    BY <1>1 DEF WorkerType
<1>3. \A s \in Steps : rows'[s].state = rows[s].state
    BY <1>1, <1>2, ReleasedSameStates
<1> QED
    BY <1>1, <1>3, OrderReturn

\* What is left of a ready list is still ready.
LEMMA NextStepOrder ==
    ASSUME IndInv, OrderInv, NEW w \in Workers, \A v \in Workers : v = w,
           wk[w].pc = "claim" \/ wk[w].pc \in Executing,
           NEW s, NEW moved \in BOOLEAN, NextStep(w, wk[w].todo \ {s}, moved),
           \A t \in Steps : rows'[t].state = rows[t].state
    PROVE  OrderInv' /\ Stays
<1> DEFINE rest == wk[w].todo \ {s}
<1>1. wk[w] \in WorkerType /\ (wk[w].pc # "claim" => wk[w].cur \in wk[w].todo)
    BY LocalFacts DEF Fits, Executing
<1>2. \A t \in rest : \A d \in Deps[t] : DependencySettled(d, States)
    <2>1. wk[w].pc = "claim" \/ wk[w].cur # None
        BY <1>1, WorkerAssumption DEF WorkerType
    <2> QED
        BY <2>1 DEF OrderInv, Chosen
<1>3. CASE rest # {}
    <2> DEFINE local == [wk[w] EXCEPT !.todo = rest, !.moved = moved, !.cur = None,
                                      !.attempt = 0, !.result = None, !.pc = "claim"]
    <2>1. wk' = [wk EXCEPT ![w] = local]
        BY <1>1, <1>3 DEF NextStep, Goto, WorkerType
    <2> HIDE DEF rest
    <2>2. local.pc = "claim" /\ local.todo = rest /\ local.cur = None
        BY <1>1 DEF WorkerType
    <2> HIDE DEF local
    <2>3. Chosen(local, States)
        BY <1>2, <2>2 DEF Chosen
    <2> QED
        BY <2>1, <2>3, OrderQuiet
<1>4. CASE rest = {} /\ moved
    <2> DEFINE local == [wk[w] EXCEPT !.todo = {}, !.moved = FALSE, !.cur = None,
                                      !.attempt = 0, !.result = None, !.pc = "check"]
    <2>1. wk' = [wk EXCEPT ![w] = local]
        BY <1>1, <1>4 DEF NextStep, Goto, WorkerType
    <2>2. local.pc = "check" /\ local.cur = None
        BY <1>1 DEF WorkerType
    <2> HIDE DEF local
    <2> QED
        BY <2>1, <2>2, NothingChosen, OrderQuiet
<1>5. CASE rest = {} /\ ~moved
    BY <1>5, OrderReturn DEF NextStep
<1> QED
    BY <1>3, <1>4, <1>5

LEMMA ClaimOrder ==
    ASSUME IndInv, BudgetInv, OrderInv, NEW w \in Workers, \A v \in Workers : v = w, Claim(w)
    PROVE  OrderInv' /\ Stays
<1> DEFINE s == FirstOf(wk[w].todo)
           attempt == rows[s].attempts + 1
<1>1. /\ wk[w] \in WorkerType /\ wk[w].pc = "claim" /\ wk[w].cur = None
      /\ wk[w].todo # {} /\ wk[w].todo \in SUBSET Steps /\ UNCHANGED rows
    BY LocalFacts DEF Claim, At, Fits, Executing, WorkerType
<1>2. s \in wk[w].todo /\ s \in Steps /\ s # None
    BY <1>1, FirstOfMember, WorkerAssumption
<1>3. CASE NextStep(w, wk[w].todo \ {s}, wk[w].moved)
    <2> HIDE DEF s
    <2>1. wk[w].moved \in BOOLEAN
        BY <1>1 DEF WorkerType
    <2> QED
        BY <1>1, <1>3, <2>1, NextStepOrder
<1>4. CASE Goto(w, "acquire", [wk[w] EXCEPT !.cur = s, !.attempt = attempt])
    <2> HIDE DEF s, attempt
    <2> DEFINE local == [wk[w] EXCEPT !.cur = s, !.attempt = attempt, !.pc = "acquire"]
    <2>1. wk' = [wk EXCEPT ![w] = local]
        BY <1>1, <1>4 DEF Goto, WorkerType
    <2>2. local.pc = "acquire" /\ local.cur = s /\ local.todo = wk[w].todo
        BY <1>1 DEF WorkerType
    <2> HIDE DEF local
    <2>3. States[s] = "pending"
        BY <1>1, <1>2 DEF BudgetInv, BudgetLocal, States
    <2>4. \A t \in wk[w].todo : \A d \in Deps[t] : DependencySettled(d, States)
        BY <1>1 DEF OrderInv, Chosen
    <2>5. Chosen(local, States)
        BY <1>2, <2>2, <2>3, <2>4 DEF Chosen, Open
    <2> QED
        BY <1>1, <2>1, <2>5, OrderQuiet
<1> QED
    BY <1>3, <1>4 DEF Claim

LEMMA AcquireLeaseOrder ==
    ASSUME IndInv, OrderInv, NEW w \in Workers, \A v \in Workers : v = w, AcquireLease(w)
    PROVE  OrderInv' /\ Stays
<1>1. wk[w] \in WorkerType /\ wk[w].pc = "acquire"
    BY LocalFacts DEF AcquireLease, At
<1>2. wk[w].cur \in Steps
    BY <1>1, CurrentStep DEF Executing
<1>3. CASE /\ rows' = [rows EXCEPT ![wk[w].cur].owner = w, ![wk[w].cur].live = TRUE]
           /\ Goto(w, "advance", wk[w])
    <2>1. \A t \in Steps : rows'[t].state = rows[t].state
        BY <1>2, <1>3 DEF IndInv, TypeOK, RowType
    <2> QED
        BY <1>1, <1>3, <2>1, OrderGoto
<1>4. CASE NextStep(w, wk[w].todo \ {wk[w].cur}, wk[w].moved) /\ UNCHANGED rows
    <2>1. wk[w].moved \in BOOLEAN
        BY <1>1 DEF WorkerType
    <2> QED
        BY <1>1, <1>4, <2>1, NextStepOrder DEF Executing
<1> QED
    BY <1>3, <1>4 DEF AcquireLease

LEMMA AdvanceToOrder ==
    ASSUME IndInv, OrderInv, NEW w \in Workers, \A v \in Workers : v = w, AdvanceTo(w)
    PROVE  OrderInv' /\ Stays
<1>1. wk[w].pc = "advance" /\ UNCHANGED rows
    BY DEF AdvanceTo, At
<1>2. CASE \E pc \in {"raised", "keycheck"} : Goto(w, pc, wk[w])
    BY <1>1, <1>2, OrderGoto
<1>3. CASE \E path : Goto(w, "setread", [wk[w] EXCEPT !.path = path])
    BY <1>1, <1>3, OrderWalk
<1> QED
    BY <1>2, <1>3 DEF AdvanceTo

\* A handler ends, or does not begin because of a cancellation.
LEMMA HandlerOrder ==
    ASSUME IndInv, OrderInv, NEW w \in Workers, \A v \in Workers : v = w,
           BeginHandler(w) \/ EndHandler(w)
    PROVE  OrderInv' /\ Stays
<1>1. wk[w] \in WorkerType /\ wk[w].pc \in {"begin", "work"} /\ UNCHANGED rows
    BY LocalFacts DEF BeginHandler, EndHandler, At
<1>2. wk[w].cur \in Steps
    BY <1>1, CurrentStep DEF Executing
<1>3. CASE Goto(w, "work", wk[w])
    BY <1>1, <1>3, OrderGoto
<1>4. ASSUME NEW pc \in {"record", "settle"}, NEW result,
             Goto(w, pc, [wk[w] EXCEPT !.result = result]),
             result = "skip" => wk[w].cur \in Optional
      PROVE  OrderInv' /\ Stays
    <2> DEFINE local == [wk[w] EXCEPT !.result = result, !.pc = pc]
    <2>1. wk' = [wk EXCEPT ![w] = local]
        BY <1>1, <1>4 DEF Goto, WorkerType
    <2>2. /\ local.pc = pc /\ local.cur = wk[w].cur /\ local.todo = wk[w].todo
          /\ local.result = result
        BY <1>1 DEF WorkerType
    <2> HIDE DEF local
    <2>3. Chosen(local, States)
        BY <1>1, <1>4, <2>2 DEF OrderInv, Chosen
    <2> QED
        BY <1>1, <2>1, <2>3, OrderQuiet
<1>5. CASE BeginHandler(w)
    <2>1. \/ Goto(w, "work", wk[w])
          \/ Goto(w, "settle", [wk[w] EXCEPT !.result = "cancelled"])
        BY <1>5 DEF BeginHandler
    <2> QED
        BY <1>3, <1>4, <2>1
<1>6. CASE EndHandler(w)
    <2>1. PICK outcome \in Outcomes[wk[w].cur] \cup
                               (IF cancelRequested THEN {"cancelled"} ELSE {}) :
              Goto(w, IF outcome \in {"ok", "skip"} THEN "record" ELSE "settle",
                   [wk[w] EXCEPT !.result = outcome])
        BY <1>6 DEF EndHandler
    <2>2. outcome = "skip" => wk[w].cur \in Optional
        BY <1>2, WorkerAssumption
    <2> DEFINE pc == IF outcome \in {"ok", "skip"} THEN "record" ELSE "settle"
    <2>3. pc \in {"record", "settle"} /\ Goto(w, pc, [wk[w] EXCEPT !.result = outcome])
        BY <2>1
    <2> HIDE DEF pc
    <2> QED
        BY <1>4, <2>2, <2>3
<1> QED
    BY <1>5, <1>6

LEMMA RecordKeyOrder ==
    ASSUME IndInv, OrderInv, NEW w \in Workers, \A v \in Workers : v = w, RecordKey(w)
    PROVE  OrderInv' /\ Stays
<1> DEFINE local == [wk[w] EXCEPT !.pc = "settle"]
<1>1. wk[w] \in WorkerType /\ wk[w].pc = "record" /\ UNCHANGED rows
    BY LocalFacts DEF RecordKey, At
<1>2. wk' = [wk EXCEPT ![w] = local]
    BY DEF RecordKey, Goto
<1>3. /\ local.pc = "settle" /\ local.cur = wk[w].cur /\ local.todo = wk[w].todo
      /\ local.result = wk[w].result
    BY <1>1 DEF WorkerType
<1> HIDE DEF local
<1>4. Chosen(local, States)
    BY <1>1, <1>3 DEF OrderInv, Chosen
<1> QED
    BY <1>1, <1>2, <1>4, OrderQuiet

\* The row of the step in hand is rewritten.  The rest of the list does not
\* wait for it: what is ready beside an open step does not depend on it.
LEMMA StepMovesOrder ==
    ASSUME IndInv, OrderInv, NEW w \in Workers, \A v \in Workers : v = w,
           wk[w].pc \in Executing \ {"release"},
           NEW s \in Steps, wk[w].cur = s,
           NEW row, NEW state, row.state = state, rows' = [rows EXCEPT ![s] = row],
           NEW local, wk' = [wk EXCEPT ![w] = local],
           local.cur = s, local.todo = wk[w].todo,
           local.pc = "release" \/ (local.pc = "begin" /\ state \in Open)
    PROVE  OrderInv' /\ Stays
<1>1. s \in wk[w].todo /\ s # None /\ wk[w].todo \in SUBSET Steps
    BY LocalFacts, CurrentStep, WorkerAssumption DEF WorkerType
<1>2. /\ States[s] \in Open
      /\ \A t \in wk[w].todo : \A d \in Deps[t] : DependencySettled(d, States)
    BY <1>1 DEF OrderInv, Chosen, Executing
<1>3. \A t \in Steps : States'[t] = IF t = s THEN state ELSE States[t]
    <2>1. \A t \in Steps : rows'[t] = IF t = s THEN row ELSE rows[t]
        BY DEF IndInv, TypeOK
    <2> QED
        BY <2>1 DEF States
<1>4. \A t \in wk[w].todo : \A d \in Deps[t] : DependencySettled(d, States')
    BY <1>1, <1>2, <1>3, SettledElsewhere
<1>5. Chosen(local, States')
    BY <1>1, <1>3, <1>4 DEF Chosen
<1>6. States[s] # "cancelled"
    BY <1>2 DEF Open
<1> QED
    BY <1>1, <1>2, <1>5, <1>6, OrderMoves

LEMMA DeduplicateOrder ==
    ASSUME IndInv, OrderInv, NEW w \in Workers, \A v \in Workers : v = w, Deduplicate(w)
    PROVE  OrderInv' /\ Stays
<1> DEFINE s == wk[w].cur
           row == Row("succeeded", 0)
           local == [wk[w] EXCEPT !.pc = "release"]
<1>1. wk[w] \in WorkerType /\ wk[w].pc = "dedup"
    BY LocalFacts DEF Deduplicate, At
<1>2. s \in Steps
    BY <1>1, CurrentStep DEF Executing
<1>3. wk' = [wk EXCEPT ![w] = local] /\ rows' = [rows EXCEPT ![s] = row]
    BY DEF Deduplicate, Goto
<1>4. local.pc = "release" /\ local.cur = s /\ local.todo = wk[w].todo
    BY <1>1 DEF WorkerType
<1> HIDE DEF row, local
<1> QED
    BY <1>1, <1>2, <1>3, <1>4, StepMovesOrder DEF Executing

LEMMA StartStepOrder ==
    ASSUME IndInv, OrderInv, NEW w \in Workers, \A v \in Workers : v = w, StartStep(w)
    PROVE  OrderInv' /\ Stays
<1> DEFINE s == wk[w].cur
           local == [wk[w] EXCEPT !.pc = "begin"]
<1>1. wk[w] \in WorkerType /\ wk[w].pc = "start"
    BY LocalFacts DEF StartStep, At
<1>2. s \in Steps
    BY <1>1, CurrentStep DEF Executing
<1>3. wk' = [wk EXCEPT ![w] = local]
    BY DEF StartStep, Goto
<1>4. PICK row : row.state = "running" /\ rows' = [rows EXCEPT ![s] = row]
    <2>1. PICK live : rows' = [rows EXCEPT ![s] = [state |-> "running",
                          attempts |-> wk[w].attempt, owner |-> w, live |-> live,
                          waiting |-> FALSE]]
        BY DEF StartStep
    <2> QED
        BY <2>1
<1>5. local.pc = "begin" /\ local.cur = s /\ local.todo = wk[w].todo
    BY <1>1 DEF WorkerType
<1> HIDE DEF local
<1> QED
    BY <1>1, <1>2, <1>3, <1>4, <1>5, StepMovesOrder DEF Executing, Open

LEMMA SettleStepOrder ==
    ASSUME IndInv, OrderInv, NEW w \in Workers, \A v \in Workers : v = w, SettleStep(w)
    PROVE  OrderInv' /\ Stays
<1> DEFINE s == wk[w].cur
           row == SettledRow(s, wk[w].result, wk[w].attempt)
           payload == IF wk[w].result = "ok" THEN wk[w].payload \cup {s} ELSE wk[w].payload
           local == [wk[w] EXCEPT !.payload = payload, !.pc = "release"]
<1>1. wk[w] \in WorkerType /\ wk[w].pc = "settle"
    BY LocalFacts DEF SettleStep, At
<1>2. s \in Steps
    BY <1>1, CurrentStep DEF Executing
<1>3. rows' = [rows EXCEPT ![s] = row]
    BY DEF SettleStep
<1>4. wk' = [wk EXCEPT ![w] = local]
    BY <1>1 DEF SettleStep, Goto, WorkerType
<1>5. local.pc = "release" /\ local.cur = s /\ local.todo = wk[w].todo
    BY <1>1 DEF WorkerType
<1> HIDE DEF row, local
<1> QED
    BY <1>1, <1>2, <1>3, <1>4, <1>5, StepMovesOrder DEF Executing

LEMMA ReleaseLeaseOrder ==
    ASSUME IndInv, OrderInv, NEW w \in Workers, \A v \in Workers : v = w, ReleaseLease(w)
    PROVE  OrderInv' /\ Stays
<1>1. /\ wk[w].pc = "release" /\ rows' = Released(w, wk[w].cur)
      /\ NextStep(w, wk[w].todo \ {wk[w].cur}, TRUE)
    BY DEF ReleaseLease, At
<1>2. wk[w].cur \in Steps
    BY <1>1, CurrentStep DEF Executing
<1>3. \A t \in Steps : rows'[t].state = rows[t].state
    BY <1>1, <1>2, ReleasedSameStates
<1> QED
    BY <1>1, <1>3, NextStepOrder DEF Executing

LEMMA NextOrder ==
    ASSUME \A v, w \in Workers : v = w, MaxReplays = 0,
           IndInv, BudgetInv, OrderInv, [Next]_vars
    PROVE  OrderInv' /\ Stays
<1>1. ASSUME NEW w \in Workers, CheckCancellation(w) \/ CheckKey(w) \/ Deliver(w)
      PROVE  OrderInv' /\ Stays
    <2>1. /\ wk[w].pc \in {"check", "keycheck", "idle"} /\ UNCHANGED rows
          /\ wk[w].pc # "keycheck" => wk[w].cur = None
        BY <1>1, LocalFacts DEF CheckCancellation, CheckKey, Deliver, At, Fits, Executing
    <2>2. PICK pc \in {"check", "cancel", "load", "dedup", "start"} :
              Goto(w, pc, wk[w]) /\ (pc \in {"check", "cancel", "load"} => wk[w].pc # "keycheck")
        BY <1>1 DEF CheckCancellation, CheckKey, Deliver, At
    <2> QED
        BY <2>1, <2>2, OrderGoto
<1>2. ASSUME NEW w \in Workers, RunStep(w) PROVE OrderInv' /\ Stays
    BY <1>1, <1>2, LoadStepsOrder, SkipBlockedOrder, SettleRunOrder, SetStateOrder,
       CancelLoadOrder, CancelStepOrder, RaiseOrder DEF RunStep
<1>3. ASSUME NEW w \in Workers, ExecuteStep(w) PROVE OrderInv' /\ Stays
    BY <1>1, <1>3, ClaimOrder, AcquireLeaseOrder, AdvanceToOrder, DeduplicateOrder,
       StartStepOrder, HandlerOrder, RecordKeyOrder, SettleStepOrder, ReleaseLeaseOrder
    DEF ExecuteStep
<1>4. ASSUME NEW w \in Workers, Crash(w) PROVE OrderInv' /\ Stays
    <2> DEFINE local == [IdleWorker EXCEPT !.pc = "dead"]
    <2>1. wk' = [wk EXCEPT ![w] = local] /\ UNCHANGED rows
        BY <1>4 DEF Crash, Goto
    <2>2. local.pc = "dead" /\ local.cur = None
        BY DEF IdleWorker
    <2> HIDE DEF local
    <2> QED
        BY <2>1, <2>2, NothingChosen, OrderQuiet
<1>5. ASSUME NEW w \in Workers, Restart(w) PROVE OrderInv' /\ Stays
    BY <1>5, OrderReturn DEF Restart
<1>6. CASE RequestCancellation \/ Time \/ UNCHANGED vars
    <2>1. \A t \in Steps : rows'[t].state = rows[t].state
        BY <1>6 DEF RequestCancellation, Time, BackoffElapses, LeaseLapses, vars,
                    IndInv, TypeOK, RowType
    <2>2. UNCHANGED wk
        BY <1>6 DEF RequestCancellation, Time, BackoffElapses, LeaseLapses, vars
    <2>3. States' = States
        BY <2>1 DEF States
    <2> QED
        BY <2>1, <2>2, <2>3 DEF OrderInv, Stays
<1>7. CASE \E s \in Steps : Replay(s)
    BY <1>7 DEF Replay, IndInv, TypeOK
<1> QED
    BY <1>1, <1>2, <1>3, <1>4, <1>5, <1>6, <1>7 DEF Next

\* With one delivery at a time and no replay, a step is called only when those
\* it depends on have settled, whatever crashes and is delivered again.
THEOREM OrderHolds ==
    ASSUME \A v, w \in Workers : v = w, MaxReplays = 0
    PROVE  Spec => []OrderInv
<1>1. Init => OrderInv
    <2> SUFFICES ASSUME Init PROVE OrderInv
        OBVIOUS
    <2>1. \A s \in Steps : States[s] = "pending"
        BY DEF Init, Row, States
    <2>2. \A w \in Workers : wk[w].pc = "idle" /\ wk[w].cur = None
        BY DEF Init, IdleWorker
    <2> QED
        BY <2>1, <2>2, NothingChosen DEF OrderInv, InOrder, CalledStates, FailedStates
<1>2. IndInv /\ BudgetInv /\ OrderInv /\ [Next]_vars => OrderInv'
    BY NextOrder
<1> QED
    BY <1>1, <1>2, Invariance, BudgetHolds, PTL DEF Spec

\* A step that has settled is never touched again.
THEOREM SettledStepsAreFinal ==
    ASSUME \A v, w \in Workers : v = w, MaxReplays = 0
    PROVE  Spec => SettledStepsStay
<1>1. IndInv /\ BudgetInv /\ OrderInv /\ [Next]_vars
          => [\A s \in Steps : rows[s].state \in TerminalStepStates =>
                                 rows'[s].state = rows[s].state]_vars
    BY NextOrder DEF Stays
<1> QED
    BY <1>1, Invariance, BudgetHolds, OrderHolds, PTL DEF Spec, SettledStepsStay
(***************************************************************************)
(* The promise of DurableRun.  Where nothing is delivered that is not due  *)
(* and nothing is replayed, what the one delivery has read of the steps    *)
(* still holds when it acts on it.                                         *)
(***************************************************************************)
AllSettled(states) == \A s \in Steps : states[s] \in TerminalStepStates

\* What a delivery has read of the run, and how its walk ends: before the key
\* check of a step no state of it is final; at the end of a run only the last
\* one is, and it says what the steps amount to.
Concludes(local, states) ==
    /\ local.pc = "load" => \A s \in Steps : states[s] # "cancelled"
    /\ local.pc = "settlerun" => AllSettled(states) /\ local.result = Outcome(states)
    /\ local.pc \in {"setread", "setwrite"} =>
          \A i \in 1..Len(local.path) :
              i < Len(local.path) \/ local.cur # None => local.path[i] \notin TerminalStates
    /\ local.pc \in {"setread", "setwrite"} /\ local.cur = None =>
          /\ AllSettled(states)
          /\ local.path[Len(local.path)] \in {Outcome(states), "cancelled"}

\* The delivery acts on a cancellation.
Cancels(local, states) ==
    \/ local.pc \in {"cancel", "cancelstep"}
    \/ local.pc = "settle" /\ local.result = "cancelled"
    \/ /\ local.pc \in {"setread", "setwrite"} /\ local.cur = None
       /\ local.path[Len(local.path)] # Outcome(states)

PromiseInv ==
    /\ ~cancelRequested => \A s \in Steps : States[s] # "cancelled"
    /\ \A w \in Workers :
          /\ wk[w].pc \notin {"idle", "dead"} => runState \notin TerminalStates
          /\ Concludes(wk[w], States)
          /\ Cancels(wk[w], States) => cancelRequested

(***************************************************************************)
(* The steps and the verdict DurableRun sees.                              *)
(***************************************************************************)
Shown == [s \in Steps |-> IF rows[s].state = "running" THEN "pending" ELSE rows[s].state]

Verdict == IF runState \in TerminalStates THEN runState ELSE NoOutcome

Simulates == [Durable!DurableNext]_(Durable!durableVars)

\* DurableRun reads the step graph as the engine does.
LEMMA SameGraph ==
    /\ \A f : Durable!Ready(f) = Ready(f)
    /\ \A f : Durable!Blocked(f) = Blocked(f)
    /\ \A f : Durable!Outcome(f) = Outcome(f)
    /\ Durable!TerminalStepStates = TerminalStepStates
    /\ Durable!FailedStates = FailedStates
    /\ Durable!NoOutcome = NoOutcome
<1>1. /\ Durable!TerminalStepStates = TerminalStepStates
      /\ Durable!FailedStates = FailedStates /\ Durable!NoOutcome = NoOutcome
    BY DEF Durable!TerminalStepStates, TerminalStepStates, Durable!FailedStates, FailedStates,
           Durable!NoOutcome, NoOutcome
<1>2. \A f : Durable!Ready(f) = Ready(f)
    BY <1>1 DEF Durable!Ready, Ready, Durable!DependencySettled, DependencySettled
<1>3. \A f : Durable!Blocked(f) = Blocked(f)
    BY <1>1 DEF Durable!Blocked, Blocked
<1>4. \A f : Durable!Outcome(f) = Outcome(f)
    BY <1>1, <1>2, <1>3 DEF Durable!Outcome, Outcome
<1> QED
    BY <1>1, <1>2, <1>3, <1>4

\* The moves of DurableRun, by what they change.
LEMMA SeesNothing ==
    ASSUME Shown' = Shown, Verdict' = Verdict, UNCHANGED cancelRequested
    PROVE  Simulates
BY DEF Simulates, Shown, Verdict, Durable!durableVars

LEMMA SeesSettle ==
    ASSUME NEW s \in Ready(Shown), Verdict = NoOutcome,
           NEW outcome \in FailedStates \cup {"succeeded"}
                               \cup (IF s \in Optional THEN {"skipped"} ELSE {}),
           Shown' = [Shown EXCEPT ![s] = outcome],
           UNCHANGED << Verdict, cancelRequested >>
    PROVE  Simulates
<1>1. Durable!Settle(s)
    BY SameGraph DEF Durable!Settle, Shown, Verdict
<1> QED
    BY <1>1 DEF Ready, Simulates, Durable!DurableNext

LEMMA SeesPutAside ==
    ASSUME NEW s \in Blocked(Shown), Verdict = NoOutcome,
           Shown' = [Shown EXCEPT ![s] = "skipped"],
           UNCHANGED << Verdict, cancelRequested >>
    PROVE  Simulates
<1>1. Durable!PutAside(s)
    BY SameGraph DEF Durable!PutAside, Shown, Verdict
<1> QED
    BY <1>1 DEF Blocked, Simulates, Durable!DurableNext

LEMMA SeesCancelled ==
    ASSUME NEW s \in Steps, Shown[s] = "pending", cancelRequested, Verdict = NoOutcome,
           Shown' = [Shown EXCEPT ![s] = "cancelled"],
           UNCHANGED << Verdict, cancelRequested >>
    PROVE  Simulates
<1>1. Durable!CancelOpenStep(s)
    BY SameGraph DEF Durable!CancelOpenStep, Shown, Verdict
<1> QED
    BY <1>1 DEF Simulates, Durable!DurableNext

LEMMA SeesRequest ==
    ASSUME Verdict = NoOutcome, cancelRequested' = TRUE, UNCHANGED << Shown, Verdict >>
    PROVE  Simulates
<1>1. Durable!AskToCancel
    BY SameGraph DEF Durable!AskToCancel, Shown, Verdict
<1> QED
    BY <1>1 DEF Simulates, Durable!DurableNext

LEMMA SeesVerdict ==
    ASSUME Verdict = NoOutcome, AllSettled(Shown),
           Verdict' = Outcome(Shown) \/ (cancelRequested /\ Verdict' = "cancelled"),
           UNCHANGED << Shown, cancelRequested >>
    PROVE  Simulates
<1>1. Durable!Conclude
    BY SameGraph DEF Durable!Conclude, AllSettled, Shown, Verdict
<1> QED
    BY <1>1 DEF Simulates, Durable!DurableNext

\* What is shown of the steps is a function of their states.
LEMMA ShownOfStates ==
    /\ Shown = [s \in Steps |-> IF States[s] = "running" THEN "pending" ELSE States[s]]
    /\ \A s \in Steps : States[s] = rows[s].state
BY DEF Shown, States

\* A ready step stays ready, a blocked one blocked, while "running" shows as open.
LEMMA ShownReady ==
    ASSUME NEW s \in Steps, States[s] \in Open,
           \A d \in Deps[s] : DependencySettled(d, States)
    PROVE  s \in Ready(Shown)
<1>1. Shown[s] = "pending"
    BY ShownOfStates DEF Open
<1>2. Deps[s] \subseteq Steps
    BY GraphAssumption
<1>3. \A d \in Deps[s] : States[d] # "running" /\ Shown[d] = States[d]
    BY <1>2, ShownOfStates DEF DependencySettled, FailedStates
<1>4. \A d \in Deps[s] : DependencySettled(d, Shown)
    BY <1>3 DEF DependencySettled
<1> QED
    BY <1>1, <1>4 DEF Ready

LEMMA ShownBlocked == Blocked(States) \subseteq Blocked(Shown)
<1> SUFFICES ASSUME NEW s \in Blocked(States) PROVE s \in Blocked(Shown)
    OBVIOUS
<1>1. s \in Steps /\ Shown[s] = "pending"
    BY ShownOfStates DEF Blocked
<1>2. Deps[s] \subseteq Steps
    BY <1>1, GraphAssumption
<1>3. \A d \in Deps[s] : States[d] # "running" => Shown[d] = States[d]
    BY <1>2, ShownOfStates
<1> QED
    BY <1>1, <1>3 DEF Blocked, FailedStates

\* One row is rewritten.
LEMMA ShownMoves ==
    ASSUME NEW s \in Steps, NEW state,
           \A t \in Steps : rows'[t].state = IF t = s THEN state ELSE rows[t].state
    PROVE  /\ States' = [States EXCEPT ![s] = state]
           /\ Shown' = [Shown EXCEPT ![s] = IF state = "running" THEN "pending" ELSE state]
<1>1. States' = [States EXCEPT ![s] = state]
    BY DEF States
<1>2. Shown' = [Shown EXCEPT ![s] = IF state = "running" THEN "pending" ELSE state]
    BY DEF Shown
<1> QED
    BY <1>1, <1>2

LEMMA ShownStays ==
    ASSUME \A s \in Steps : rows'[s].state = rows[s].state
    PROVE  States' = States /\ Shown' = Shown
BY DEF States, Shown

(***************************************************************************)
(* Steps of the one delivery.                                              *)
(***************************************************************************)
LEMMA PromiseFacts ==
    ASSUME OrderInv, PromiseInv, NEW w \in Workers
    PROVE  /\ wk[w].pc \notin {"idle", "dead"} => runState \notin TerminalStates
           /\ Chosen(wk[w], States) /\ Concludes(wk[w], States)
           /\ Cancels(wk[w], States) => cancelRequested
           /\ wk[w].pc \notin {"idle", "dead"} => Verdict = NoOutcome
BY DEF OrderInv, PromiseInv, Verdict

LEMMA PromiseMoves ==
    ASSUME IndInv, NEW w \in Workers, \A v \in Workers : v = w, NEW local,
           wk' = [wk EXCEPT ![w] = local],
           ~cancelRequested' => \A s \in Steps : States'[s] # "cancelled",
           local.pc \notin {"idle", "dead"} => runState' \notin TerminalStates,
           Concludes(local, States'),
           Cancels(local, States') => cancelRequested'
    PROVE  PromiseInv'
<1>1. wk'[w] = local
    BY DEF IndInv, TypeOK
<1> QED
    BY <1>1 DEF PromiseInv

\* A step of the delivery that DurableRun does not see.
LEMMA PromiseQuiet ==
    ASSUME IndInv, OrderInv, PromiseInv, NEW w \in Workers, \A v \in Workers : v = w, NEW local,
           wk' = [wk EXCEPT ![w] = local],
           \A s \in Steps : rows'[s].state = rows[s].state,
           UNCHANGED cancelRequested,
           runState' = runState \/ (runState \notin TerminalStates /\ runState' \notin TerminalStates),
           local.pc \notin {"idle", "dead"} => runState' \notin TerminalStates,
           Concludes(local, States),
           Cancels(local, States) => cancelRequested
    PROVE  PromiseInv' /\ Simulates
<1>1. States' = States /\ Shown' = Shown
    BY ShownStays
<1>2. Verdict' = Verdict
    BY DEF Verdict
<1>3. Simulates
    BY <1>1, <1>2, SeesNothing
<1>4. PromiseInv'
    BY <1>1, PromiseMoves DEF PromiseInv
<1> QED
    BY <1>3, <1>4

\* A delivery that has no list, no result and no walk relies on nothing.
LEMMA Carefree ==
    ASSUME NEW local, NEW states, local.cur = None,
           local.pc \in {"idle", "dead", "check", "raised"}
    PROVE  Concludes(local, states) /\ ~Cancels(local, states)
BY DEF Concludes, Cancels

LEMMA PromiseReturn ==
    ASSUME IndInv, OrderInv, PromiseInv, NEW w \in Workers, \A v \in Workers : v = w, Return(w),
           \A s \in Steps : rows'[s].state = rows[s].state,
           UNCHANGED << runState, cancelRequested >>
    PROVE  PromiseInv' /\ Simulates
<1>1. IdleWorker.pc = "idle" /\ IdleWorker.cur = None
    BY DEF IdleWorker
<1> HIDE DEF IdleWorker
<1>2. wk' = [wk EXCEPT ![w] = IdleWorker]
    BY DEF Return
<1> QED
    BY <1>1, <1>2, Carefree, PromiseQuiet

LEMMA DeliverPromise ==
    ASSUME Duplicates = FALSE, IndInv, OrderInv, PromiseInv, NEW w \in Workers, \A v \in Workers : v = w,
           Deliver(w)
    PROVE  PromiseInv' /\ Simulates
<1> DEFINE local == [wk[w] EXCEPT !.pc = "check"]
<1>1. /\ wk' = [wk EXCEPT ![w] = local]
      /\ runState \notin TerminalStates /\ UNCHANGED << runState, rows, cancelRequested >>
    BY DEF Deliver, Due, Goto
<1>2. local.pc = "check" /\ local.cur = None
    BY LocalFacts DEF WorkerType, Fits, Executing, Deliver, At
<1> HIDE DEF local
<1> QED
    BY <1>1, <1>2, Carefree, PromiseQuiet

LEMMA CheckCancellationPromise ==
    ASSUME IndInv, OrderInv, PromiseInv, NEW w \in Workers, \A v \in Workers : v = w,
           CheckCancellation(w)
    PROVE  PromiseInv' /\ Simulates
<1> DEFINE local == [wk[w] EXCEPT !.pc = IF cancelRequested THEN "cancel" ELSE "load"]
<1>1. /\ wk' = [wk EXCEPT ![w] = local] /\ wk[w].pc = "check"
      /\ UNCHANGED << runState, rows, cancelRequested >>
    BY DEF CheckCancellation, Goto, At
<1>2. local.pc = (IF cancelRequested THEN "cancel" ELSE "load") /\ local.cur = None
    BY <1>1, LocalFacts DEF WorkerType, Fits, Executing
<1> HIDE DEF local
<1>3. runState \notin TerminalStates /\ (~cancelRequested => \A s \in Steps : States[s] # "cancelled")
    BY <1>1, PromiseFacts DEF PromiseInv
<1>4. Concludes(local, States)
    BY <1>2, <1>3 DEF Concludes
<1>5. Cancels(local, States) => cancelRequested
    BY <1>2 DEF Cancels
<1> QED
    BY <1>1, <1>3, <1>4, <1>5, PromiseQuiet

LEMMA LoadStepsPromise ==
    ASSUME IndInv, OrderInv, PromiseInv, NEW w \in Workers, \A v \in Workers : v = w, LoadSteps(w)
    PROVE  PromiseInv' /\ Simulates
<1>1. /\ wk[w] \in WorkerType /\ wk[w].pc = "load" /\ wk[w].cur = None
      /\ UNCHANGED << runState, rows, cancelRequested >>
    BY LocalFacts DEF LoadSteps, At, Fits, Executing
<1>2. runState \notin TerminalStates /\ \A s \in Steps : States[s] # "cancelled"
    BY <1>1, PromiseFacts DEF Concludes
<1>3. CASE Goto(w, "skip", [wk[w] EXCEPT !.todo = Blocked(States)])
    <2> DEFINE blocked == Blocked(States)
               local == [wk[w] EXCEPT !.todo = blocked, !.pc = "skip"]
    <2>1. wk' = [wk EXCEPT ![w] = local]
        BY <1>1, <1>3 DEF Goto, WorkerType
    <2> HIDE DEF blocked
    <2>2. local.pc = "skip" /\ local.cur = None /\ local.todo = blocked
        BY <1>1 DEF WorkerType
    <2> HIDE DEF local
    <2>3. Concludes(local, States) /\ ~Cancels(local, States)
        BY <2>2 DEF Concludes, Cancels, blocked
    <2> QED
        BY <1>1, <1>2, <2>1, <2>3, PromiseQuiet
<1>4. CASE /\ Blocked(States) = {} /\ Outcome(States) # NoOutcome
           /\ Goto(w, "settlerun", [wk[w] EXCEPT !.result = Outcome(States)])
    <2> DEFINE outcome == Outcome(States)
               local == [wk[w] EXCEPT !.result = outcome, !.pc = "settlerun"]
    <2>1. AllSettled(States)
        BY <1>2, <1>4 DEF AllSettled, Outcome
    <2>2. wk' = [wk EXCEPT ![w] = local]
        BY <1>1, <1>4 DEF Goto, WorkerType
    <2> HIDE DEF outcome
    <2>3. local.pc = "settlerun" /\ local.cur = None /\ local.result = outcome
        BY <1>1 DEF WorkerType
    <2> HIDE DEF local
    <2>4. Concludes(local, States) /\ ~Cancels(local, States)
        BY <2>1, <2>3 DEF Concludes, Cancels, outcome
    <2> QED
        BY <1>1, <1>2, <2>2, <2>4, PromiseQuiet
<1>5. CASE Goto(w, "claim", [wk[w] EXCEPT !.todo = Ready(States), !.moved = FALSE])
    <2> DEFINE ready == Ready(States)
               local == [wk[w] EXCEPT !.todo = ready, !.moved = FALSE, !.pc = "claim"]
    <2>1. wk' = [wk EXCEPT ![w] = local]
        BY <1>1, <1>5 DEF Goto, WorkerType
    <2>2. \A s \in ready : \A d \in Deps[s] : DependencySettled(d, States)
        BY DEF Ready
    <2> HIDE DEF ready
    <2>3. local.pc = "claim" /\ local.cur = None /\ local.todo = ready
        BY <1>1 DEF WorkerType
    <2> HIDE DEF local
    <2>4. Concludes(local, States) /\ ~Cancels(local, States)
        BY <2>2, <2>3 DEF Concludes, Cancels
    <2> QED
        BY <1>1, <1>2, <2>1, <2>4, PromiseQuiet
<1>6. CASE Return(w)
    BY <1>1, <1>6, PromiseReturn
<1> QED
    BY <1>3, <1>4, <1>5, <1>6 DEF LoadSteps

LEMMA SkipBlockedPromise ==
    ASSUME IndInv, OrderInv, PromiseInv, NEW w \in Workers, \A v \in Workers : v = w, SkipBlocked(w)
    PROVE  PromiseInv' /\ Simulates
<1> DEFINE s == FirstOf(wk[w].todo)
           rest == wk[w].todo \ {s}
           row == Row("skipped", 0)
           local == [wk[w] EXCEPT !.todo = rest,
                                  !.pc = IF rest = {} THEN "check" ELSE "skip"]
<1>1. /\ wk[w] \in WorkerType /\ wk[w].pc = "skip" /\ wk[w].cur = None
      /\ wk[w].todo # {} /\ wk[w].todo \in SUBSET Steps
      /\ UNCHANGED << runState, cancelRequested >>
    BY LocalFacts DEF SkipBlocked, At, Fits, Executing, WorkerType
<1>2. s \in wk[w].todo /\ s \in Steps
    BY <1>1, FirstOfMember
<1>3. wk' = [wk EXCEPT ![w] = local] /\ rows' = [rows EXCEPT ![s] = row]
    BY <1>1 DEF SkipBlocked, Goto, WorkerType
<1>4. row.state = "skipped"
    BY DEF Row
<1> HIDE DEF s, row
<1>5. local.pc \in {"check", "skip"} /\ local.cur = None /\ local.todo = rest
    BY <1>1 DEF WorkerType
<1> HIDE DEF local
<1>6. /\ runState \notin TerminalStates /\ Verdict = NoOutcome
      /\ wk[w].todo \subseteq Blocked(States)
    BY <1>1, PromiseFacts DEF Chosen
<1>7. /\ States' = [States EXCEPT ![s] = "skipped"]
      /\ Shown' = [Shown EXCEPT ![s] = "skipped"]
    <2>1. \A t \in Steps : rows'[t] = IF t = s THEN row ELSE rows[t]
        BY <1>2, <1>3 DEF IndInv, TypeOK
    <2>2. \A t \in Steps : rows'[t].state = IF t = s THEN "skipped" ELSE rows[t].state
        BY <1>4, <2>1
    <2> QED
        BY <1>2, <2>2, ShownMoves
<1>8. Simulates
    <2>1. s \in Blocked(Shown)
        BY <1>2, <1>6, ShownBlocked
    <2>2. Verdict' = Verdict
        BY <1>1 DEF Verdict
    <2> QED
        BY <1>1, <1>6, <1>7, <2>1, <2>2, SeesPutAside
<1>9. rest \subseteq Blocked(States')
    <2> SUFFICES ASSUME NEW t \in rest PROVE t \in Blocked(States')
        OBVIOUS
    <2>1. t \in Blocked(States) /\ t # s /\ s \in Blocked(States)
        BY <1>2, <1>6
    <2>2. t \in Steps /\ States[t] = "pending" /\ States[s] = "pending"
        BY <2>1 DEF Blocked
    <2>3. \A d \in Steps : d # s => States'[d] = States[d]
        BY <1>7 DEF States
    <2>4. Deps[t] \subseteq Steps
        BY <2>2, GraphAssumption
    <2>5. PICK d \in Deps[t] : \/ States[d] \in FailedStates \cup {"skipped"} /\ d \notin Optional
                               \/ States[d] = "cancelled"
        BY <2>1 DEF Blocked
    <2>6. d # s
        BY <2>2, <2>5 DEF FailedStates
    <2> QED
        BY <2>1, <2>2, <2>3, <2>4, <2>5, <2>6 DEF Blocked
<1>10. Concludes(local, States') /\ ~Cancels(local, States')
    BY <1>5, <1>9 DEF Concludes, Cancels
<1>11. ~cancelRequested => \A t \in Steps : States'[t] # "cancelled"
    BY <1>7 DEF PromiseInv, States
<1>12. PromiseInv'
    BY <1>1, <1>3, <1>6, <1>10, <1>11, PromiseMoves
<1> QED
    BY <1>8, <1>12

\* The walk to the end of a run passes open states and ends with its outcome.
LEMMA SettlePathEnds ==
    ASSUME NEW outcome \in {"completed", "partially_completed", "failed", "cancelled"},
           outcome \in {"completed", "partially_completed"} => OnHappyPath(runState),
           NEW path, path = SettlePath(outcome)
    PROVE  /\ path[Len(path)] = outcome
           /\ \A i \in 1..Len(path) : i < Len(path) => path[i] \notin TerminalStates
<1>1. CASE outcome \in {"completed", "partially_completed"}
    <2>1. "report_generation" \in RunningStates
        <3>1. Phases[9] = "report_generation" /\ 9 \in 4..9
            BY DEF Phases
        <3> QED
            BY <3>1 DEF RunningStates
    <2> DEFINE walk == ForwardPath(runState, "report_generation")
               going == AssessmentStates \ TerminalStates
    <2>2. walk \in Seq(going)
        BY <1>1, <2>1, ForwardPathStaysOpen
    <2>3. path = walk \o << outcome >>
        BY <1>1 DEF SettlePath
    <2>4. \A x \in going : x \notin TerminalStates
        OBVIOUS
    <2> HIDE DEF walk, going
    <2>5. Len(walk) \in Nat /\ \A i \in 1..Len(walk) : walk[i] \in going
        BY <2>2
    <2>6. /\ Len(path) = Len(walk) + 1 /\ path[Len(walk) + 1] = outcome
          /\ \A i \in 1..Len(walk) : path[i] = walk[i]
        BY <2>2, <2>3
    <2>7. \A i \in 1..Len(path) : i < Len(path) => i \in 1..Len(walk)
        BY <2>5, <2>6
    <2> QED
        BY <2>4, <2>5, <2>6, <2>7
<1>2. CASE outcome \notin {"completed", "partially_completed"}
    <2>1. path = << outcome >>
        BY <1>2 DEF SettlePath
    <2>2. Len(path) = 1 /\ path[1] = outcome
        BY <2>1
    <2> QED
        BY <2>2
<1> QED
    BY <1>1, <1>2

LEMMA SettleRunPromise ==
    ASSUME IndInv, OrderInv, PromiseInv, NEW w \in Workers, \A v \in Workers : v = w, SettleRun(w)
    PROVE  PromiseInv' /\ Simulates
<1>1. /\ wk[w] \in WorkerType /\ wk[w].pc = "settlerun" /\ wk[w].cur = None
      /\ wk[w].result \in {"completed", "partially_completed", "failed", "cancelled"}
      /\ UNCHANGED << runState, rows, cancelRequested >>
    BY LocalFacts DEF SettleRun, At, Fits, Executing
<1>2. /\ runState \notin TerminalStates
      /\ AllSettled(States) /\ wk[w].result = Outcome(States)
    BY <1>1, PromiseFacts DEF Concludes
<1>3. CASE Goto(w, "raised", wk[w])
    <2> DEFINE local == [wk[w] EXCEPT !.pc = "raised"]
    <2>1. wk' = [wk EXCEPT ![w] = local]
        BY <1>3 DEF Goto
    <2>2. local.pc = "raised" /\ local.cur = None
        BY <1>1 DEF WorkerType
    <2> HIDE DEF local
    <2> QED
        BY <1>1, <1>2, <2>1, <2>2, Carefree, PromiseQuiet
<1>4. CASE /\ \/ wk[w].result \notin {"completed", "partially_completed"}
              \/ OnHappyPath(runState)
           /\ Goto(w, "setread",
                   [wk[w] EXCEPT !.path = SettlePath(wk[w].result), !.result = None])
    <2> DEFINE path == SettlePath(wk[w].result)
               local == [wk[w] EXCEPT !.path = path, !.result = None, !.pc = "setread"]
    <2>1. wk' = [wk EXCEPT ![w] = local]
        BY <1>1, <1>4 DEF Goto, WorkerType
    <2>2. /\ path[Len(path)] = wk[w].result
          /\ \A i \in 1..Len(path) : i < Len(path) => path[i] \notin TerminalStates
        BY <1>1, <1>4, SettlePathEnds
    <2> HIDE DEF path
    <2>3. local.pc = "setread" /\ local.cur = None /\ local.path = path
        BY <1>1 DEF WorkerType
    <2> HIDE DEF local
    <2>4. Concludes(local, States) /\ ~Cancels(local, States)
        BY <1>2, <2>2, <2>3 DEF Concludes, Cancels
    <2> QED
        BY <1>1, <1>2, <2>1, <2>4, PromiseQuiet
<1> QED
    BY <1>3, <1>4 DEF SettleRun

LEMMA PathFacts ==
    ASSUME IndInv, OrderInv, PromiseInv, NEW w \in Workers, wk[w].pc \in {"setread", "setwrite"}
    PROVE  /\ wk[w] \in WorkerType
           /\ runState \notin TerminalStates /\ Verdict = NoOutcome
           /\ Len(wk[w].path) \in Nat \ {0}
           /\ Head(wk[w].path) = wk[w].path[1]
           /\ Len(wk[w].path) # 1 \/ wk[w].cur # None => Head(wk[w].path) \notin TerminalStates
<1>1. wk[w] \in WorkerType /\ wk[w].path \in Seq(AssessmentStates) /\ wk[w].path # << >>
    BY LocalFacts DEF WorkerType, Fits
<1>2. Len(wk[w].path) \in Nat \ {0} /\ Head(wk[w].path) = wk[w].path[1]
    <2>1. \A p \in Seq(AssessmentStates) :
              p # << >> => Len(p) \in Nat \ {0} /\ Head(p) = p[1]
        <3> TAKE p \in Seq(AssessmentStates)
        <3>1. ASSUME p # << >> PROVE Len(p) \in Nat \ {0}
            BY <3>1, EmptySeq, LenProperties
        <3>2. ASSUME p # << >> PROVE Head(p) = p[1]
            BY <3>2, HeadTailProperties
        <3> QED
            BY <3>1, <3>2
    <2> QED
        BY <1>1, <2>1
<1>3. Concludes(wk[w], States) /\ runState \notin TerminalStates /\ Verdict = NoOutcome
    BY PromiseFacts
<1>4. 1 \in 1..Len(wk[w].path) /\ (Len(wk[w].path) # 1 => 1 < Len(wk[w].path))
    <2>1. \A n \in Nat \ {0} : 1 \in 1..n /\ (n # 1 => 1 < n)
        OBVIOUS
    <2> QED
        BY <1>2, <2>1
<1>5. Len(wk[w].path) # 1 \/ wk[w].cur # None => wk[w].path[1] \notin TerminalStates
    BY <1>3, <1>4 DEF Concludes
<1> QED
    BY <1>1, <1>2, <1>3, <1>5

\* The end of a walk that leads to a step, whatever state it leaves the run in.
LEMMA KeyCheckPromise ==
    ASSUME IndInv, OrderInv, PromiseInv, NEW w \in Workers, \A v \in Workers : v = w,
           wk[w].pc \in {"setread", "setwrite"}, wk[w].cur # None, PathDone(w, wk[w]),
           runState' = runState \/ runState' \notin TerminalStates,
           UNCHANGED << rows, cancelRequested >>
    PROVE  PromiseInv' /\ Simulates
<1> DEFINE path == << >>
           local == [wk[w] EXCEPT !.path = path, !.pc = "keycheck"]
<1>1. wk[w] \in WorkerType /\ runState \notin TerminalStates
    BY PathFacts
<1>2. wk' = [wk EXCEPT ![w] = local]
    BY <1>1 DEF PathDone, Goto, WorkerType
<1> HIDE DEF path
<1>3. local.pc = "keycheck" /\ local.cur = wk[w].cur /\ local.todo = wk[w].todo
    BY <1>1 DEF WorkerType
<1> HIDE DEF local
<1>4. Concludes(local, States) /\ ~Cancels(local, States)
    BY <1>3 DEF Concludes, Cancels
<1> QED
    BY <1>1, <1>2, <1>4, PromiseQuiet

\* A walk goes on.
LEMMA TailPromise ==
    ASSUME IndInv, OrderInv, PromiseInv, NEW w \in Workers, \A v \in Workers : v = w,
           wk[w].pc \in {"setread", "setwrite"}, Len(wk[w].path) # 1,
           Goto(w, "setread", [wk[w] EXCEPT !.path = Tail(@)]),
           runState' = runState \/ runState' \notin TerminalStates,
           UNCHANGED << rows, cancelRequested >>
    PROVE  PromiseInv' /\ Simulates
<1> DEFINE path == Tail(wk[w].path)
           local == [wk[w] EXCEPT !.path = path, !.pc = "setread"]
           n == Len(wk[w].path)
<1>1. /\ wk[w] \in WorkerType /\ runState \notin TerminalStates /\ n \in Nat \ {0, 1}
      /\ Concludes(wk[w], States) /\ Chosen(wk[w], States)
      /\ Cancels(wk[w], States) => cancelRequested
    BY PathFacts, PromiseFacts
<1>2. Len(path) = n - 1 /\ \A i \in 1..(n - 1) : path[i] = wk[w].path[i + 1]
    <2>1. wk[w].path \in Seq(AssessmentStates)
        BY <1>1 DEF WorkerType
    <2> QED
        BY <1>1, <2>1
<1>3. wk' = [wk EXCEPT ![w] = local]
    BY <1>1 DEF Goto, WorkerType
<1> HIDE DEF path
<1>4. /\ local.pc = "setread" /\ local.cur = wk[w].cur /\ local.todo = wk[w].todo
      /\ local.path = path
    BY <1>1 DEF WorkerType
<1> HIDE DEF local, n
<1>5. path[Len(path)] = wk[w].path[n]
    <2>1. n - 1 \in 1..(n - 1) /\ (n - 1) + 1 = n
        BY <1>1
    <2> QED
        BY <1>2, <2>1
<1>6. ASSUME NEW i \in 1..Len(path), i < Len(path) \/ wk[w].cur # None
      PROVE  path[i] \notin TerminalStates
    <2>1. i \in 1..(n - 1) /\ i + 1 \in 1..n /\ (i < Len(path) => i + 1 < n)
        BY <1>1, <1>2
    <2>2. wk[w].path[i + 1] \notin TerminalStates
        <3>1. \A j \in 1..n : j < n \/ wk[w].cur # None => wk[w].path[j] \notin TerminalStates
            BY <1>1 DEF Concludes, n
        <3> QED
            BY <1>6, <2>1, <3>1
    <2> QED
        BY <1>2, <2>1, <2>2
<1>7. Concludes(local, States)
    BY <1>1, <1>4, <1>5, <1>6 DEF Concludes, n
<1>8. Cancels(local, States) => Cancels(wk[w], States)
    BY <1>4, <1>5 DEF Cancels, n
<1> QED
    BY <1>1, <1>3, <1>7, <1>8, PromiseQuiet

LEMMA ReadStatePromise ==
    ASSUME IndInv, OrderInv, PromiseInv, NEW w \in Workers, \A v \in Workers : v = w, ReadState(w)
    PROVE  PromiseInv' /\ Simulates
<1>1. /\ wk[w].pc = "setread" /\ wk[w] \in WorkerType
      /\ UNCHANGED << runState, rows, cancelRequested >>
      /\ runState \notin TerminalStates
    BY LocalFacts, PathFacts DEF ReadState, At
<1>2. CASE PathDone(w, wk[w])
    <2>1. CASE wk[w].cur # None
        BY <1>1, <1>2, <2>1, KeyCheckPromise
    <2>2. CASE wk[w].cur = None
        BY <1>1, <1>2, <2>2, PromiseReturn DEF PathDone
    <2> QED
        BY <2>1, <2>2
<1>3. CASE Len(wk[w].path) # 1 /\ Goto(w, "setread", [wk[w] EXCEPT !.path = Tail(@)])
    BY <1>1, <1>3, TailPromise
<1>4. ASSUME NEW pc \in {"setwrite", "raised"}, Goto(w, pc, wk[w])
      PROVE  PromiseInv' /\ Simulates
    <2> DEFINE local == [wk[w] EXCEPT !.pc = pc]
    <2>1. wk' = [wk EXCEPT ![w] = local]
        BY <1>4 DEF Goto
    <2>2. /\ local.pc = pc /\ local.cur = wk[w].cur /\ local.todo = wk[w].todo
          /\ local.path = wk[w].path
        BY <1>1 DEF WorkerType
    <2> HIDE DEF local
    <2>3. Concludes(local, States) /\ (Cancels(local, States) => Cancels(wk[w], States))
        BY <1>1, <2>2, PromiseFacts DEF Concludes, Cancels
    <2> QED
        BY <1>1, <2>1, <2>3, PromiseFacts, PromiseQuiet
<1> QED
    BY <1>2, <1>3, <1>4 DEF ReadState

LEMMA WriteStatePromise ==
    ASSUME IndInv, OrderInv, PromiseInv, NEW w \in Workers, \A v \in Workers : v = w, WriteState(w)
    PROVE  PromiseInv' /\ Simulates
<1>1. /\ wk[w].pc = "setwrite" /\ wk[w] \in WorkerType
      /\ runState' = Head(wk[w].path) /\ UNCHANGED << rows, cancelRequested >>
      /\ runState \notin TerminalStates /\ Verdict = NoOutcome
    BY LocalFacts, PathFacts DEF WriteState, At
<1>2. CASE Len(wk[w].path) # 1 /\ Goto(w, "setread", [wk[w] EXCEPT !.path = Tail(@)])
    BY <1>1, <1>2, PathFacts, TailPromise
<1>3. CASE Len(wk[w].path) = 1 /\ wk[w].cur # None /\ PathDone(w, wk[w])
    BY <1>1, <1>3, PathFacts, KeyCheckPromise
<1>4. CASE Len(wk[w].path) = 1 /\ wk[w].cur = None /\ PathDone(w, wk[w])
    <2>1. /\ runState' \in {Outcome(States), "cancelled"} /\ AllSettled(States)
          /\ runState' # Outcome(States) => cancelRequested
        BY <1>1, <1>4, PathFacts, PromiseFacts DEF Concludes, Cancels
    <2>2. runState' \in TerminalStates
        <3>1. runState' \in AssessmentStates
            BY <1>1, PathHeadType
        <3>2. NoOutcome \notin AssessmentStates
            BY DEF NoOutcome, AssessmentStates, TerminalStates, ReopenableStates, Phases
        <3>3. Outcome(States) = NoOutcome \/ Outcome(States) \in TerminalStates
            BY OutcomeIsAVerdict DEF TerminalStates, ReopenableStates
        <3>4. "cancelled" \in TerminalStates
            BY DEF TerminalStates
        <3> QED
            BY <2>1, <3>1, <3>2, <3>3, <3>4
    <2>3. Shown = States
        BY <2>1 DEF AllSettled, Shown, States, TerminalStepStates, FailedStates
    <2>4. States' = States /\ Shown' = Shown
        BY <1>1, ShownStays
    <2>5. Verdict' = runState'
        BY <2>2 DEF Verdict
    <2>6. Simulates
        BY <1>1, <2>1, <2>3, <2>4, <2>5, SeesVerdict
    <2>7. wk' = [wk EXCEPT ![w] = IdleWorker]
        BY <1>4 DEF PathDone, Return
    <2>8. IdleWorker.pc = "idle" /\ IdleWorker.cur = None
        BY DEF IdleWorker
    <2> HIDE DEF IdleWorker
    <2>9. PromiseInv'
        BY <1>1, <2>4, <2>7, <2>8, Carefree, PromiseMoves DEF PromiseInv
    <2> QED
        BY <2>6, <2>9
<1> QED
    BY <1>2, <1>3, <1>4 DEF WriteState

LEMMA CancelWalk ==
    ASSUME NEW local, NEW states, AllSettled(states), local.pc = "setread", local.cur = None,
           NEW path, local.path = path, Len(path) = 1, path[1] = "cancelled"
    PROVE  Concludes(local, states)
<1>1. path[Len(path)] = "cancelled" /\ \A i \in 1..Len(path) : ~(i < Len(path))
    OBVIOUS
<1> QED
    BY <1>1 DEF Concludes

LEMMA CancelLoadPromise ==
    ASSUME IndInv, OrderInv, PromiseInv, NEW w \in Workers, \A v \in Workers : v = w, CancelLoad(w)
    PROVE  PromiseInv' /\ Simulates
<1> DEFINE open == {s \in Steps : rows[s].state \in {"pending", "running", "cancelled"}}
           path == << "cancelled" >>
<1>1. /\ wk[w] \in WorkerType /\ wk[w].pc = "cancel" /\ wk[w].cur = None
      /\ UNCHANGED << runState, rows, cancelRequested >>
    BY LocalFacts DEF CancelLoad, At, Fits, Executing
<1>2. runState \notin TerminalStates /\ cancelRequested
    BY <1>1, PromiseFacts DEF Cancels
<1>3. CASE open = {} /\ Goto(w, "setread", [wk[w] EXCEPT !.path = path])
    <2> DEFINE local == [wk[w] EXCEPT !.path = path, !.pc = "setread"]
    <2>1. AllSettled(States)
        BY <1>3 DEF AllSettled, States, TerminalStepStates, IndInv, TypeOK, RowType, StepStates
    <2>2. wk' = [wk EXCEPT ![w] = local]
        BY <1>1, <1>3 DEF Goto, WorkerType
    <2>3. Len(path) = 1 /\ path[1] = "cancelled"
        OBVIOUS
    <2> HIDE DEF path
    <2>4. local.pc = "setread" /\ local.cur = None /\ local.path = path
        BY <1>1 DEF WorkerType
    <2> HIDE DEF local
    <2>5. Concludes(local, States)
        BY <2>1, <2>3, <2>4, CancelWalk
    <2> QED
        BY <1>1, <1>2, <2>2, <2>5, PromiseQuiet
<1>4. CASE Goto(w, "cancelstep", [wk[w] EXCEPT !.todo = open])
    <2> DEFINE local == [wk[w] EXCEPT !.todo = open, !.pc = "cancelstep"]
    <2>1. wk' = [wk EXCEPT ![w] = local]
        BY <1>1, <1>4 DEF Goto, WorkerType
    <2>2. /\ \A s \in Steps : States[s] \in Open => s \in open
          /\ \A s \in open : States[s] \in Open \cup {"cancelled"}
        BY DEF States, Open
    <2> HIDE DEF open
    <2>3. local.pc = "cancelstep" /\ local.cur = None /\ local.todo = open
        BY <1>1 DEF WorkerType
    <2> HIDE DEF local
    <2>4. Concludes(local, States)
        BY <2>2, <2>3 DEF Concludes
    <2> QED
        BY <1>1, <1>2, <2>1, <2>4, PromiseQuiet
<1> QED
    BY <1>3, <1>4 DEF CancelLoad

\* An open step is cancelled; one that is already cancelled stays so.
LEMMA CancelStepPromise ==
    ASSUME IndInv, OrderInv, PromiseInv, NEW w \in Workers, \A v \in Workers : v = w, CancelStep(w)
    PROVE  PromiseInv' /\ Simulates
<1> DEFINE s == FirstOf(wk[w].todo)
           rest == wk[w].todo \ {s}
           row == Row("cancelled", 0)
           path == << "cancelled" >>
           last == [wk[w] EXCEPT !.todo = {}, !.path = path, !.pc = "setread"]
           more == [wk[w] EXCEPT !.todo = rest, !.pc = "cancelstep"]
           local == IF rest = {} THEN last ELSE more
<1>1. /\ wk[w] \in WorkerType /\ wk[w].pc = "cancelstep" /\ wk[w].cur = None
      /\ wk[w].todo # {} /\ wk[w].todo \in SUBSET Steps
      /\ UNCHANGED << runState, cancelRequested >>
    BY LocalFacts DEF CancelStep, At, Fits, Executing, WorkerType
<1>2. s \in wk[w].todo /\ s \in Steps
    BY <1>1, FirstOfMember
<1>3. wk' = [wk EXCEPT ![w] = local]
    BY <1>1 DEF CancelStep, Goto, WorkerType
<1>13. rows' = [rows EXCEPT ![s] = row]
    BY DEF CancelStep
<1>4. Len(path) = 1 /\ path[1] = "cancelled"
    OBVIOUS
<1>14. row.state = "cancelled"
    BY DEF Row
<1> HIDE DEF path
<1>5. /\ last.pc = "setread" /\ last.cur = None /\ last.path = path
      /\ more.pc = "cancelstep" /\ more.cur = None /\ more.todo = rest
    BY <1>1 DEF WorkerType
<1> HIDE DEF s, row, last, more
<1>6. /\ runState \notin TerminalStates /\ Verdict = NoOutcome /\ cancelRequested
      /\ \A t \in Steps : States[t] \in Open => t \in wk[w].todo
      /\ \A t \in wk[w].todo : States[t] \in Open \cup {"cancelled"}
    BY <1>1, PromiseFacts DEF Chosen, Cancels
<1>7. /\ States' = [States EXCEPT ![s] = "cancelled"]
      /\ Shown' = [Shown EXCEPT ![s] = "cancelled"]
    <2>1. \A t \in Steps : rows'[t] = IF t = s THEN row ELSE rows[t]
        BY <1>2, <1>13 DEF IndInv, TypeOK
    <2>2. \A t \in Steps : rows'[t].state = IF t = s THEN "cancelled" ELSE rows[t].state
        BY <1>14, <2>1
    <2> QED
        BY <1>2, <2>2, ShownMoves
<1>8. Simulates
    <2>1. Verdict' = Verdict
        BY <1>1 DEF Verdict
    <2>2. CASE States[s] \in Open
        <3>1. Shown[s] = "pending"
            BY <1>2, <2>2, ShownOfStates DEF Open
        <3> QED
            BY <1>1, <1>2, <1>6, <1>7, <2>1, <3>1, SeesCancelled
    <2>3. CASE States[s] = "cancelled"
        <3>1. Shown[s] = "cancelled"
            BY <1>2, <2>3, ShownOfStates
        <3>2. Shown' = Shown
            BY <1>2, <1>7, <3>1 DEF Shown
        <3> QED
            BY <1>1, <2>1, <3>2, SeesNothing
    <2> QED
        BY <1>2, <1>6, <2>2, <2>3
<1>9. \A t \in Steps : States'[t] = IF t = s THEN "cancelled" ELSE States[t]
    BY <1>7 DEF States
<1>10. /\ \A t \in Steps : States'[t] \in Open => t \in rest
       /\ \A t \in rest : States'[t] \in Open \cup {"cancelled"}
    BY <1>1, <1>6, <1>9 DEF Open
<1>11. CASE rest = {}
    <2>1. AllSettled(States')
        <3>1. \A t \in Steps : States[t] \in StepStates
            BY DEF States, IndInv, TypeOK, RowType
        <3>2. \A t \in Steps : States'[t] \notin Open
            BY <1>10, <1>11
        <3>3. \A x \in StepStates : x \notin Open => x \in TerminalStepStates
            BY DEF StepStates, Open
        <3>4. "cancelled" \in TerminalStepStates
            BY DEF TerminalStepStates
        <3> QED
            BY <1>9, <3>1, <3>2, <3>3, <3>4 DEF AllSettled
    <2>2. Concludes(last, States')
        BY <1>4, <1>5, <2>1, CancelWalk
    <2>3. wk' = [wk EXCEPT ![w] = last]
        BY <1>3, <1>11
    <2>4. PromiseInv'
        BY <1>1, <1>6, <2>2, <2>3, PromiseMoves
    <2> QED
        BY <1>8, <2>4
<1>12. CASE rest # {}
    <2>1. Concludes(more, States')
        BY <1>5, <1>10 DEF Concludes
    <2>2. wk' = [wk EXCEPT ![w] = more]
        BY <1>3, <1>12
    <2>3. PromiseInv'
        BY <1>1, <1>6, <2>1, <2>2, PromiseMoves
    <2> QED
        BY <1>8, <2>3
<1> QED
    BY <1>11, <1>12

LEMMA RaisePromise ==
    ASSUME IndInv, OrderInv, PromiseInv, NEW w \in Workers, \A v \in Workers : v = w, Raise(w)
    PROVE  PromiseInv' /\ Simulates
<1>1. /\ wk[w] \in WorkerType /\ Return(w) /\ UNCHANGED << runState, cancelRequested >>
      /\ rows' = IF wk[w].cur # None THEN Released(w, wk[w].cur) ELSE rows
    BY LocalFacts DEF Raise
<1>2. wk[w].cur # None => wk[w].cur \in Steps
    BY <1>1 DEF WorkerType
<1>3. \A s \in Steps : rows'[s].state = rows[s].state
    BY <1>1, <1>2, ReleasedSameStates
<1> QED
    BY <1>1, <1>3, PromiseReturn

\* What is left of a ready list is still ready.
LEMMA NextStepPromise ==
    ASSUME IndInv, OrderInv, PromiseInv, NEW w \in Workers, \A v \in Workers : v = w,
           wk[w].pc = "claim" \/ wk[w].pc \in Executing,
           NEW s, NEW moved \in BOOLEAN, NextStep(w, wk[w].todo \ {s}, moved),
           \A t \in Steps : rows'[t].state = rows[t].state,
           UNCHANGED << runState, cancelRequested >>
    PROVE  PromiseInv' /\ Simulates
<1> DEFINE rest == wk[w].todo \ {s}
<1>1. wk[w] \in WorkerType /\ (wk[w].pc # "claim" => wk[w].cur \in wk[w].todo)
    BY LocalFacts DEF Fits, Executing
<1>2. /\ runState \notin TerminalStates
      /\ \A t \in rest : \A d \in Deps[t] : DependencySettled(d, States)
    <2>1. wk[w].pc = "claim" \/ wk[w].cur # None
        BY <1>1, WorkerAssumption DEF WorkerType
    <2> QED
        BY <2>1, PromiseFacts DEF Chosen, Executing
<1>3. CASE rest # {}
    <2> DEFINE local == [wk[w] EXCEPT !.todo = rest, !.moved = moved, !.cur = None,
                                      !.attempt = 0, !.result = None, !.pc = "claim"]
    <2>1. wk' = [wk EXCEPT ![w] = local]
        BY <1>1, <1>3 DEF NextStep, Goto, WorkerType
    <2> HIDE DEF rest
    <2>2. local.pc = "claim" /\ local.todo = rest /\ local.cur = None
        BY <1>1 DEF WorkerType
    <2> HIDE DEF local
    <2>3. Concludes(local, States) /\ ~Cancels(local, States)
        BY <1>2, <2>2 DEF Concludes, Cancels
    <2> QED
        BY <1>2, <2>1, <2>3, PromiseQuiet
<1>4. CASE rest = {} /\ moved
    <2> DEFINE local == [wk[w] EXCEPT !.todo = {}, !.moved = FALSE, !.cur = None,
                                      !.attempt = 0, !.result = None, !.pc = "check"]
    <2>1. wk' = [wk EXCEPT ![w] = local]
        BY <1>1, <1>4 DEF NextStep, Goto, WorkerType
    <2>2. local.pc = "check" /\ local.cur = None
        BY <1>1 DEF WorkerType
    <2> HIDE DEF local
    <2> QED
        BY <1>2, <2>1, <2>2, Carefree, PromiseQuiet
<1>5. CASE rest = {} /\ ~moved
    BY <1>5, PromiseReturn DEF NextStep
<1> QED
    BY <1>3, <1>4, <1>5

\* The delivery goes on with its step.
LEMMA PromiseGoesOn ==
    ASSUME IndInv, OrderInv, PromiseInv, NEW w \in Workers, \A v \in Workers : v = w,
           wk[w].pc \in Executing \ {"release"},
           NEW local, wk' = [wk EXCEPT ![w] = local],
           local.cur = wk[w].cur, local.todo = wk[w].todo,
           \/ local.pc \in {"advance", "keycheck", "dedup", "start", "begin", "work", "raised"}
           \/ /\ local.pc \in {"record", "settle"}
              /\ local.result = "skip" => local.cur \in Optional
              /\ local.result = "cancelled" => cancelRequested,
           \A s \in Steps : rows'[s].state = rows[s].state,
           UNCHANGED << runState, cancelRequested >>
    PROVE  PromiseInv' /\ Simulates
<1>1. runState \notin TerminalStates
    BY PromiseFacts DEF Executing
<1>2. Concludes(local, States)
    BY DEF Concludes
<1>3. Cancels(local, States) => cancelRequested
    BY DEF Cancels
<1> QED
    BY <1>1, <1>2, <1>3, PromiseQuiet

LEMMA ClaimPromise ==
    ASSUME IndInv, BudgetInv, OrderInv, PromiseInv, NEW w \in Workers, \A v \in Workers : v = w, Claim(w)
    PROVE  PromiseInv' /\ Simulates
<1> DEFINE s == FirstOf(wk[w].todo)
           attempt == rows[s].attempts + 1
<1>1. /\ wk[w] \in WorkerType /\ wk[w].pc = "claim" /\ wk[w].cur = None
      /\ wk[w].todo # {} /\ wk[w].todo \in SUBSET Steps
      /\ UNCHANGED << runState, rows, cancelRequested >>
    BY LocalFacts DEF Claim, At, Fits, Executing, WorkerType
<1>2. s \in wk[w].todo /\ s \in Steps /\ s # None
    BY <1>1, FirstOfMember, WorkerAssumption
<1>3. CASE NextStep(w, wk[w].todo \ {s}, wk[w].moved)
    <2> HIDE DEF s
    <2>1. wk[w].moved \in BOOLEAN
        BY <1>1 DEF WorkerType
    <2> QED
        BY <1>1, <1>3, <2>1, NextStepPromise
<1>4. CASE Goto(w, "acquire", [wk[w] EXCEPT !.cur = s, !.attempt = attempt])
    <2> HIDE DEF s, attempt
    <2> DEFINE local == [wk[w] EXCEPT !.cur = s, !.attempt = attempt, !.pc = "acquire"]
    <2>1. wk' = [wk EXCEPT ![w] = local]
        BY <1>1, <1>4 DEF Goto, WorkerType
    <2>2. local.pc = "acquire" /\ local.cur = s /\ local.todo = wk[w].todo
        BY <1>1 DEF WorkerType
    <2> HIDE DEF local
    <2>3. runState \notin TerminalStates
        BY <1>1, PromiseFacts
    <2>4. Concludes(local, States) /\ ~Cancels(local, States)
        BY <2>2 DEF Concludes, Cancels
    <2> QED
        BY <1>1, <2>1, <2>3, <2>4, PromiseQuiet
<1> QED
    BY <1>3, <1>4 DEF Claim

LEMMA AcquireLeasePromise ==
    ASSUME IndInv, OrderInv, PromiseInv, NEW w \in Workers, \A v \in Workers : v = w, AcquireLease(w)
    PROVE  PromiseInv' /\ Simulates
<1>1. /\ wk[w] \in WorkerType /\ wk[w].pc = "acquire"
      /\ UNCHANGED << runState, cancelRequested >>
    BY LocalFacts DEF AcquireLease, At
<1>2. wk[w].cur \in Steps
    BY <1>1, CurrentStep DEF Executing
<1>3. CASE /\ rows' = [rows EXCEPT ![wk[w].cur].owner = w, ![wk[w].cur].live = TRUE]
           /\ Goto(w, "advance", wk[w])
    <2> DEFINE local == [wk[w] EXCEPT !.pc = "advance"]
    <2>1. wk' = [wk EXCEPT ![w] = local]
        BY <1>3 DEF Goto
    <2>2. local.pc = "advance" /\ local.cur = wk[w].cur /\ local.todo = wk[w].todo
        BY <1>1 DEF WorkerType
    <2> HIDE DEF local
    <2>3. \A t \in Steps : rows'[t].state = rows[t].state
        BY <1>2, <1>3 DEF IndInv, TypeOK, RowType
    <2> QED
        BY <1>1, <2>1, <2>2, <2>3, PromiseGoesOn DEF Executing
<1>4. CASE NextStep(w, wk[w].todo \ {wk[w].cur}, wk[w].moved) /\ UNCHANGED rows
    <2>1. wk[w].moved \in BOOLEAN
        BY <1>1 DEF WorkerType
    <2> QED
        BY <1>1, <1>4, <2>1, NextStepPromise DEF Executing
<1> QED
    BY <1>3, <1>4 DEF AcquireLease

\* The phases on the way to a step are all open.
LEMMA AdvanceToPromise ==
    ASSUME IndInv, OrderInv, PromiseInv, NEW w \in Workers, \A v \in Workers : v = w, AdvanceTo(w)
    PROVE  PromiseInv' /\ Simulates
<1>1. /\ wk[w] \in WorkerType /\ wk[w].pc = "advance"
      /\ UNCHANGED << runState, rows, cancelRequested >>
    BY LocalFacts DEF AdvanceTo, At
<1>2. wk[w].cur \in Steps /\ wk[w].cur # None
    BY <1>1, CurrentStep, WorkerAssumption DEF Executing
<1>3. ASSUME NEW pc \in {"raised", "keycheck"}, Goto(w, pc, wk[w])
      PROVE  PromiseInv' /\ Simulates
    <2> DEFINE local == [wk[w] EXCEPT !.pc = pc]
    <2>1. wk' = [wk EXCEPT ![w] = local]
        BY <1>3 DEF Goto
    <2>2. local.pc = pc /\ local.cur = wk[w].cur /\ local.todo = wk[w].todo
        BY <1>1 DEF WorkerType
    <2> HIDE DEF local
    <2> QED
        BY <1>1, <2>1, <2>2, PromiseGoesOn DEF Executing
<1>4. CASE /\ OnHappyPath(runState)
           /\ Goto(w, "setread",
                   [wk[w] EXCEPT !.path = ForwardPath(runState, Phase[wk[w].cur])])
    <2> DEFINE path == ForwardPath(runState, Phase[wk[w].cur])
               local == [wk[w] EXCEPT !.path = path, !.pc = "setread"]
               going == AssessmentStates \ TerminalStates
    <2>1. path \in Seq(going)
        <3>1. Phase[wk[w].cur] \in RunningStates
            BY <1>2, GraphAssumption
        <3> QED
            BY <1>4, <3>1, ForwardPathStaysOpen
    <2>2. wk' = [wk EXCEPT ![w] = local]
        BY <1>1, <1>4 DEF Goto, WorkerType
    <2> HIDE DEF path
    <2>3. /\ local.pc = "setread" /\ local.cur = wk[w].cur /\ local.todo = wk[w].todo
          /\ local.path = path
        BY <1>1 DEF WorkerType
    <2> HIDE DEF local
    <2>4. \A i \in 1..Len(path) : path[i] \notin TerminalStates
        <3> HIDE DEF going
        <3>1. \A i \in 1..Len(path) : path[i] \in going
            BY <2>1
        <3> QED
            BY <3>1 DEF going
    <2>5. runState \notin TerminalStates
        BY <1>1, <2>3, PromiseFacts
    <2>6. Concludes(local, States) /\ ~Cancels(local, States)
        BY <1>2, <2>3, <2>4 DEF Concludes, Cancels
    <2> QED
        BY <1>1, <2>2, <2>5, <2>6, PromiseQuiet
<1> QED
    BY <1>3, <1>4 DEF AdvanceTo

\* The row of the step in hand is rewritten.  The rest of the list does not
\* wait for it: what is ready beside an open step does not depend on it.
LEMMA StepMoves ==
    ASSUME IndInv, OrderInv, PromiseInv, NEW w \in Workers, \A v \in Workers : v = w,
           wk[w].pc \in Executing \ {"release"},
           NEW s \in Steps, wk[w].cur = s,
           NEW row, NEW state, row.state = state, rows' = [rows EXCEPT ![s] = row],
           state \in FailedStates \cup Open \cup {"succeeded", "skipped", "cancelled"},
           state = "skipped" => s \in Optional,
           state = "cancelled" => cancelRequested,
           NEW local, wk' = [wk EXCEPT ![w] = local],
           local.cur = s, local.todo = wk[w].todo,
           local.pc = "release" \/ (local.pc = "begin" /\ state \in Open),
           UNCHANGED << runState, cancelRequested >>
    PROVE  PromiseInv' /\ Simulates
<1>1. s \in wk[w].todo /\ s # None
    BY CurrentStep, WorkerAssumption
<1> DEFINE shown == IF state = "running" THEN "pending" ELSE state
<1>2. States' = [States EXCEPT ![s] = state] /\ Shown' = [Shown EXCEPT ![s] = shown]
    <2>1. \A t \in Steps : rows'[t] = IF t = s THEN row ELSE rows[t]
        BY DEF IndInv, TypeOK
    <2>2. \A t \in Steps : rows'[t].state = IF t = s THEN state ELSE rows[t].state
        BY <2>1
    <2> QED
        BY <2>2, ShownMoves
<1>3. /\ runState \notin TerminalStates /\ Verdict = NoOutcome
      /\ States[s] \in Open
      /\ \A t \in wk[w].todo : \A d \in Deps[t] : DependencySettled(d, States)
    <2>1. Chosen(wk[w], States)
        BY PromiseFacts
    <2> QED
        BY <1>1, <2>1, PromiseFacts DEF Chosen, Executing
<1>4. s \in Ready(Shown) /\ Shown[s] = "pending"
    <2>1. s \in Ready(Shown)
        BY <1>1, <1>3, ShownReady
    <2> QED
        BY <2>1 DEF Ready
<1>5. Verdict' = Verdict
    BY DEF Verdict
<1>6. Simulates
    <2>1. CASE state \in Open
        <3>1. Shown' = Shown
            BY <1>1, <1>2, <1>4, <2>1 DEF Open, Shown
        <3> QED
            BY <1>5, <3>1, SeesNothing
    <2>2. CASE state = "cancelled"
        BY <1>1, <1>2, <1>3, <1>4, <1>5, <2>2, SeesCancelled
    <2>3. CASE state \in FailedStates \cup {"succeeded", "skipped"}
        <3>1. state # "running"
            BY <2>3 DEF FailedStates
        <3> QED
            BY <1>2, <1>3, <1>4, <1>5, <2>3, <3>1, SeesSettle
    <2> QED
        BY <2>1, <2>2, <2>3
<1>7. Concludes(local, States') /\ ~Cancels(local, States')
    BY DEF Concludes, Cancels
<1>8. ~cancelRequested' => \A t \in Steps : States'[t] # "cancelled"
    BY <1>2 DEF PromiseInv, States
<1>9. PromiseInv'
    BY <1>3, <1>7, <1>8, PromiseMoves
<1> QED
    BY <1>6, <1>9

LEMMA DeduplicatePromise ==
    ASSUME IndInv, OrderInv, PromiseInv, NEW w \in Workers, \A v \in Workers : v = w, Deduplicate(w)
    PROVE  PromiseInv' /\ Simulates
<1> DEFINE s == wk[w].cur
           row == Row("succeeded", 0)
           local == [wk[w] EXCEPT !.pc = "release"]
<1>1. wk[w] \in WorkerType /\ wk[w].pc = "dedup" /\ UNCHANGED << runState, cancelRequested >>
    BY LocalFacts DEF Deduplicate, At
<1>2. s \in Steps
    BY <1>1, CurrentStep DEF Executing
<1>3. wk' = [wk EXCEPT ![w] = local] /\ rows' = [rows EXCEPT ![s] = row]
    BY DEF Deduplicate, Goto
<1>4. row.state = "succeeded"
    BY DEF Row
<1>5. local.pc = "release" /\ local.cur = s /\ local.todo = wk[w].todo
    BY <1>1 DEF WorkerType
<1> HIDE DEF row, local
<1> QED
    BY <1>1, <1>2, <1>3, <1>4, <1>5, StepMoves DEF Executing

LEMMA StartStepPromise ==
    ASSUME IndInv, OrderInv, PromiseInv, NEW w \in Workers, \A v \in Workers : v = w, StartStep(w)
    PROVE  PromiseInv' /\ Simulates
<1> DEFINE s == wk[w].cur
           local == [wk[w] EXCEPT !.pc = "begin"]
<1>1. wk[w] \in WorkerType /\ wk[w].pc = "start" /\ UNCHANGED << runState, cancelRequested >>
    BY LocalFacts DEF StartStep, At
<1>2. s \in Steps
    BY <1>1, CurrentStep DEF Executing
<1>3. wk' = [wk EXCEPT ![w] = local]
    BY DEF StartStep, Goto
<1>4. PICK row : row.state = "running" /\ rows' = [rows EXCEPT ![s] = row]
    <2>1. PICK live : rows' = [rows EXCEPT ![s] = [state |-> "running",
                          attempts |-> wk[w].attempt, owner |-> w, live |-> live,
                          waiting |-> FALSE]]
        BY DEF StartStep
    <2> QED
        BY <2>1
<1>5. local.pc = "begin" /\ local.cur = s /\ local.todo = wk[w].todo
    BY <1>1 DEF WorkerType
<1> HIDE DEF local
<1> QED
    BY <1>1, <1>2, <1>3, <1>4, <1>5, StepMoves DEF Executing, Open

LEMMA CheckKeyPromise ==
    ASSUME IndInv, OrderInv, PromiseInv, NEW w \in Workers, \A v \in Workers : v = w, CheckKey(w)
    PROVE  PromiseInv' /\ Simulates
<1>1. PICK pc \in {"dedup", "start"} : Goto(w, pc, wk[w])
    BY DEF CheckKey
<1> DEFINE local == [wk[w] EXCEPT !.pc = pc]
<1>2. /\ wk[w] \in WorkerType /\ wk[w].pc = "keycheck"
      /\ UNCHANGED << runState, rows, cancelRequested >>
    BY LocalFacts DEF CheckKey, At
<1>3. wk' = [wk EXCEPT ![w] = local]
    BY <1>1 DEF Goto
<1>4. local.pc = pc /\ local.cur = wk[w].cur /\ local.todo = wk[w].todo
    BY <1>2 DEF WorkerType
<1> HIDE DEF local
<1> QED
    BY <1>2, <1>3, <1>4, PromiseGoesOn DEF Executing

\* A handler ends, or does not begin because of a cancellation.
LEMMA HandlerPromise ==
    ASSUME IndInv, OrderInv, PromiseInv, NEW w \in Workers, \A v \in Workers : v = w,
           BeginHandler(w) \/ EndHandler(w)
    PROVE  PromiseInv' /\ Simulates
<1>1. /\ wk[w] \in WorkerType /\ wk[w].pc \in {"begin", "work"}
      /\ UNCHANGED << runState, rows, cancelRequested >>
    BY LocalFacts DEF BeginHandler, EndHandler, At
<1>2. wk[w].cur \in Steps
    BY <1>1, CurrentStep DEF Executing
<1>3. CASE Goto(w, "work", wk[w])
    <2> DEFINE local == [wk[w] EXCEPT !.pc = "work"]
    <2>1. wk' = [wk EXCEPT ![w] = local]
        BY <1>3 DEF Goto
    <2>2. local.pc = "work" /\ local.cur = wk[w].cur /\ local.todo = wk[w].todo
        BY <1>1 DEF WorkerType
    <2> HIDE DEF local
    <2> QED
        BY <1>1, <2>1, <2>2, PromiseGoesOn DEF Executing
<1>4. ASSUME NEW pc \in {"record", "settle"}, NEW result,
             Goto(w, pc, [wk[w] EXCEPT !.result = result]),
             result = "skip" => wk[w].cur \in Optional,
             result = "cancelled" => cancelRequested
      PROVE  PromiseInv' /\ Simulates
    <2> DEFINE local == [wk[w] EXCEPT !.result = result, !.pc = pc]
    <2>1. wk' = [wk EXCEPT ![w] = local]
        BY <1>1, <1>4 DEF Goto, WorkerType
    <2>2. /\ local.pc = pc /\ local.cur = wk[w].cur /\ local.todo = wk[w].todo
          /\ local.result = result
        BY <1>1 DEF WorkerType
    <2> HIDE DEF local
    <2> QED
        BY <1>1, <1>4, <2>1, <2>2, PromiseGoesOn DEF Executing
<1>5. CASE BeginHandler(w)
    <2>1. \/ Goto(w, "work", wk[w])
          \/ cancelRequested /\ Goto(w, "settle", [wk[w] EXCEPT !.result = "cancelled"])
        BY <1>5 DEF BeginHandler
    <2> QED
        BY <1>3, <1>4, <2>1
<1>6. CASE EndHandler(w)
    <2>1. PICK outcome \in Outcomes[wk[w].cur] \cup
                               (IF cancelRequested THEN {"cancelled"} ELSE {}) :
              Goto(w, IF outcome \in {"ok", "skip"} THEN "record" ELSE "settle",
                   [wk[w] EXCEPT !.result = outcome])
        BY <1>6 DEF EndHandler
    <2>2. outcome = "skip" => wk[w].cur \in Optional
        BY <1>2, WorkerAssumption
    <2>3. outcome = "cancelled" => cancelRequested
        BY <1>2, WorkerAssumption
    <2> DEFINE pc == IF outcome \in {"ok", "skip"} THEN "record" ELSE "settle"
    <2>4. pc \in {"record", "settle"} /\ Goto(w, pc, [wk[w] EXCEPT !.result = outcome])
        BY <2>1
    <2> HIDE DEF pc
    <2> QED
        BY <1>4, <2>2, <2>3, <2>4
<1> QED
    BY <1>5, <1>6

LEMMA RecordKeyPromise ==
    ASSUME IndInv, OrderInv, PromiseInv, NEW w \in Workers, \A v \in Workers : v = w, RecordKey(w)
    PROVE  PromiseInv' /\ Simulates
<1> DEFINE local == [wk[w] EXCEPT !.pc = "settle"]
<1>1. /\ wk[w] \in WorkerType /\ wk[w].pc = "record" /\ wk[w].result \in {"ok", "skip"}
      /\ UNCHANGED << runState, rows, cancelRequested >>
    BY LocalFacts DEF RecordKey, At, Fits
<1>2. wk[w].cur # None
    BY <1>1, CurrentStep, WorkerAssumption DEF Executing
<1>3. wk[w].result = "skip" => wk[w].cur \in Optional
    BY <1>1, <1>2, PromiseFacts DEF Chosen
<1>4. wk' = [wk EXCEPT ![w] = local]
    BY DEF RecordKey, Goto
<1>5. /\ local.pc = "settle" /\ local.cur = wk[w].cur /\ local.todo = wk[w].todo
      /\ local.result = wk[w].result
    BY <1>1 DEF WorkerType
<1> HIDE DEF local
<1> QED
    BY <1>1, <1>3, <1>4, <1>5, PromiseGoesOn DEF Executing

\* The state in which an outcome leaves a step.
LEMMA SettledRowState ==
    ASSUME NEW s, NEW result \in {"ok", "skip", "retry", "fail", "cancelled"}, NEW attempt
    PROVE  \E state \in FailedStates \cup {"pending", "succeeded", "skipped", "cancelled"} :
               /\ SettledRow(s, result, attempt).state = state
               /\ state = "skipped" => result = "skip"
               /\ state = "cancelled" => result = "cancelled"
<1>1. \A state : Row(state, attempt).state = state
    BY DEF Row
<1>2. CASE result = "ok"
    <2>1. SettledRow(s, result, attempt) = Row("succeeded", attempt)
        BY <1>2 DEF SettledRow
    <2> QED
        BY <1>1, <2>1
<1>3. CASE result = "skip"
    <2>1. SettledRow(s, result, attempt) = Row("skipped", attempt)
        BY <1>3 DEF SettledRow
    <2> QED
        BY <1>1, <1>3, <2>1
<1>4. CASE result = "cancelled"
    <2>1. SettledRow(s, result, attempt) = Row("cancelled", attempt)
        BY <1>4 DEF SettledRow
    <2> QED
        BY <1>1, <1>4, <2>1
<1>5. CASE result = "fail"
    <2>1. SettledRow(s, result, attempt) = Row("failed", attempt)
        BY <1>5 DEF SettledRow
    <2> QED
        BY <1>1, <2>1 DEF FailedStates
<1>6. CASE result = "retry" /\ attempt >= MaxAttempts[s]
    <2>1. SettledRow(s, result, attempt) = Row("dead_lettered", attempt)
        BY <1>6 DEF SettledRow
    <2> QED
        BY <1>1, <2>1 DEF FailedStates
<1>7. CASE result = "retry" /\ ~(attempt >= MaxAttempts[s])
    <2>1. SettledRow(s, result, attempt) = [Row("pending", attempt) EXCEPT !.waiting = TRUE]
        BY <1>7 DEF SettledRow
    <2>2. SettledRow(s, result, attempt).state = "pending"
        BY <2>1 DEF Row
    <2> QED
        BY <2>2
<1> QED
    BY <1>2, <1>3, <1>4, <1>5, <1>6, <1>7

LEMMA SettleStepPromise ==
    ASSUME IndInv, OrderInv, PromiseInv, NEW w \in Workers, \A v \in Workers : v = w, SettleStep(w)
    PROVE  PromiseInv' /\ Simulates
<1> DEFINE s == wk[w].cur
           row == SettledRow(s, wk[w].result, wk[w].attempt)
           payload == IF wk[w].result = "ok" THEN wk[w].payload \cup {s} ELSE wk[w].payload
           local == [wk[w] EXCEPT !.payload = payload, !.pc = "release"]
<1>1. /\ wk[w] \in WorkerType /\ wk[w].pc = "settle"
      /\ wk[w].result \in {"ok", "skip", "retry", "fail", "cancelled"}
      /\ UNCHANGED << runState, cancelRequested >>
    BY LocalFacts DEF SettleStep, At, Fits
<1>2. s \in Steps /\ s # None
    BY <1>1, CurrentStep, WorkerAssumption DEF Executing
<1>3. rows' = [rows EXCEPT ![s] = row]
    BY DEF SettleStep
<1>4. wk' = [wk EXCEPT ![w] = local]
    BY <1>1 DEF SettleStep, Goto, WorkerType
<1>5. local.pc = "release" /\ local.cur = s /\ local.todo = wk[w].todo
    BY <1>1 DEF WorkerType
<1>6. /\ wk[w].result = "skip" => s \in Optional
      /\ wk[w].result = "cancelled" => cancelRequested
    BY <1>1, <1>2, PromiseFacts DEF Chosen, Cancels
<1>7. PICK state \in FailedStates \cup {"pending", "succeeded", "skipped", "cancelled"} :
          /\ row.state = state
          /\ state = "skipped" => wk[w].result = "skip"
          /\ state = "cancelled" => wk[w].result = "cancelled"
    BY <1>1, SettledRowState
<1>8. /\ state \in FailedStates \cup Open \cup {"succeeded", "skipped", "cancelled"}
      /\ state = "skipped" => s \in Optional
      /\ state = "cancelled" => cancelRequested
      /\ wk[w].pc \in Executing \ {"release"}
    BY <1>1, <1>6, <1>7 DEF Executing, Open
<1> HIDE DEF row, local
<1> QED
    BY <1>1, <1>2, <1>3, <1>4, <1>5, <1>7, <1>8, StepMoves

LEMMA ReleaseLeasePromise ==
    ASSUME IndInv, OrderInv, PromiseInv, NEW w \in Workers, \A v \in Workers : v = w, ReleaseLease(w)
    PROVE  PromiseInv' /\ Simulates
<1>1. /\ wk[w].pc = "release" /\ rows' = Released(w, wk[w].cur)
      /\ NextStep(w, wk[w].todo \ {wk[w].cur}, TRUE)
      /\ UNCHANGED << runState, cancelRequested >>
    BY DEF ReleaseLease, At
<1>2. wk[w].cur \in Steps
    BY <1>1, CurrentStep DEF Executing
<1>3. \A t \in Steps : rows'[t].state = rows[t].state
    BY <1>1, <1>2, ReleasedSameStates
<1> QED
    BY <1>1, <1>3, NextStepPromise DEF Executing

\* What happens around the delivery: no step settles, and only a request of the
\* user changes anything DurableRun sees.
LEMMA AroundPromise ==
    ASSUME MaxReplays = 0, IndInv, OrderInv, PromiseInv,
           RequestCancellation \/ Time \/ \E s \in Steps : Replay(s)
    PROVE  PromiseInv' /\ Simulates
<1>1. CASE RequestCancellation
    <2>1. States' = States /\ Shown' = Shown /\ Verdict' = Verdict
        BY <1>1 DEF RequestCancellation, States, Shown, Verdict
    <2>2. Verdict = NoOutcome /\ cancelRequested' = TRUE
        BY <1>1 DEF RequestCancellation, Verdict
    <2>3. PromiseInv'
        BY <1>1, <2>1, <2>2 DEF RequestCancellation, PromiseInv
    <2> QED
        BY <2>1, <2>2, <2>3, SeesRequest
<1>2. CASE Time
    <2>1. PICK s \in Steps : BackoffElapses(s) \/ LeaseLapses(s)
        BY <1>2 DEF Time
    <2>2. \A t \in Steps : rows'[t].state = rows[t].state
        BY <2>1 DEF BackoffElapses, LeaseLapses, IndInv, TypeOK, RowType
    <2>3. UNCHANGED << runState, cancelRequested, wk >>
        BY <2>1 DEF BackoffElapses, LeaseLapses
    <2>4. States' = States /\ Shown' = Shown /\ Verdict' = Verdict
        BY <2>2, <2>3, ShownStays DEF Verdict
    <2>5. PromiseInv'
        BY <2>3, <2>4 DEF PromiseInv
    <2> QED
        BY <2>3, <2>4, <2>5, SeesNothing
<1>3. CASE \E s \in Steps : Replay(s)
    BY <1>3 DEF Replay, IndInv, TypeOK
<1> QED
    BY <1>1, <1>2, <1>3

LEMMA NextPromise ==
    ASSUME \A v, w \in Workers : v = w, Duplicates = FALSE, MaxReplays = 0,
           IndInv, BudgetInv, OrderInv, PromiseInv, [Next]_vars
    PROVE  PromiseInv' /\ Simulates
<1>1. ASSUME NEW w \in Workers, RunStep(w) PROVE PromiseInv' /\ Simulates
    BY <1>1, CheckCancellationPromise, LoadStepsPromise, SkipBlockedPromise,
       SettleRunPromise, ReadStatePromise, WriteStatePromise, CancelLoadPromise,
       CancelStepPromise, RaisePromise DEF RunStep
<1>2. ASSUME NEW w \in Workers, ExecuteStep(w) PROVE PromiseInv' /\ Simulates
    BY <1>2, ClaimPromise, AcquireLeasePromise, AdvanceToPromise, CheckKeyPromise,
       DeduplicatePromise, StartStepPromise, HandlerPromise, RecordKeyPromise,
       SettleStepPromise, ReleaseLeasePromise DEF ExecuteStep
<1>3. ASSUME NEW w \in Workers, Deliver(w) PROVE PromiseInv' /\ Simulates
    BY <1>3, DeliverPromise
<1>4. ASSUME NEW w \in Workers, Crash(w) PROVE PromiseInv' /\ Simulates
    <2> DEFINE local == [IdleWorker EXCEPT !.pc = "dead"]
    <2>1. wk' = [wk EXCEPT ![w] = local] /\ UNCHANGED << runState, rows, cancelRequested >>
        BY <1>4 DEF Crash, Goto
    <2>2. local.pc = "dead" /\ local.cur = None
        BY DEF IdleWorker
    <2> HIDE DEF local
    <2> QED
        BY <2>1, <2>2, Carefree, PromiseQuiet
<1>5. ASSUME NEW w \in Workers, Restart(w) PROVE PromiseInv' /\ Simulates
    BY <1>5, PromiseReturn DEF Restart
<1>6. CASE RequestCancellation \/ Time \/ \E s \in Steps : Replay(s)
    BY <1>6, AroundPromise
<1>7. CASE UNCHANGED vars
    <2>1. States' = States /\ Shown' = Shown /\ Verdict' = Verdict
        BY <1>7 DEF vars, States, Shown, Verdict
    <2>2. UNCHANGED << cancelRequested, runState, wk >>
        BY <1>7 DEF vars
    <2> QED
        BY <2>1, <2>2, SeesNothing DEF PromiseInv
<1> QED
    BY <1>1, <1>2, <1>3, <1>4, <1>5, <1>6, <1>7 DEF Next

LEMMA InitPromise == Init => PromiseInv /\ Durable!DurableInit
<1> SUFFICES ASSUME Init PROVE PromiseInv /\ Durable!DurableInit
    OBVIOUS
<1>1. \A s \in Steps : rows[s].state = "pending" /\ States[s] = "pending"
    BY DEF Init, Row, States
<1>2. "queued" \notin TerminalStates
    BY DEF TerminalStates, ReopenableStates
<1>3. \A w \in Workers : wk[w].pc = "idle" /\ wk[w].cur = None
    BY DEF Init, IdleWorker
<1>4. PromiseInv
    BY <1>1, <1>3, Carefree DEF PromiseInv
<1>5. Durable!DurableInit
    BY <1>1, <1>2, SameGraph DEF Durable!DurableInit, Init
<1> QED
    BY <1>4, <1>5

\* With one delivery at a time, none that is not due and no replay, what a
\* delivery has read of the steps and of the run is true when it acts on it.
THEOREM PromiseHolds ==
    ASSUME \A v, w \in Workers : v = w, Duplicates = FALSE, MaxReplays = 0
    PROVE  Spec => []PromiseInv
<1>1. IndInv /\ BudgetInv /\ OrderInv /\ PromiseInv /\ [Next]_vars => PromiseInv'
    BY NextPromise
<1> QED
    BY <1>1, InitPromise, Invariance, BudgetHolds, OrderHolds, PTL DEF Spec

\* The engine keeps the promise of DurableRun: every step settles once, after
\* the steps it depends on, the run settles once, after all of its steps, and
\* says what they amount to, through crashes, retries, backoffs and lapses.
THEOREM Implements ==
    ASSUME \A v, w \in Workers : v = w, Duplicates = FALSE, MaxReplays = 0
    PROVE  FairSpec => ImplementsDurableRun
<1>1. IndInv /\ BudgetInv /\ OrderInv /\ PromiseInv /\ [Next]_vars
          => [Durable!DurableNext]_(Durable!durableVars)
    BY NextPromise DEF Simulates
<1> QED
    BY <1>1, InitPromise, Invariance, BudgetHolds, OrderHolds, PromiseHolds, PTL
    DEF FairSpec, Spec, ImplementsDurableRun, Durable!DurableSpec

(***************************************************************************)
(* The verdict.  A required step is put aside only behind one that failed  *)
(* or was cancelled, so a run with no failure and nothing left to do has   *)
(* done its required work; what a delivery has read of a settled run stays *)
(* true while it walks to the verdict.  Duplicate deliveries are allowed.  *)
(***************************************************************************)
\* What a verdict says of the steps.
Behind(outcome, states) ==
    /\ outcome \in {"completed", "partially_completed"} =>
          \A s \in Steps \ Optional : states[s] = "succeeded"
    /\ outcome = "completed" => \A s \in Optional : states[s] \in {"succeeded", "skipped"}
    /\ outcome = "failed" => \E s \in Steps \ Optional : states[s] \in FailedStates

\* No required step is put aside without a cause.
Explained(states) ==
    (\E s \in Steps \ Optional : states[s] = "skipped") =>
        \/ \E s \in Steps : states[s] = "cancelled"
        \/ \E s \in Steps \ Optional : states[s] \in FailedStates

\* What a delivery that walks to a verdict has read.
Reads(local, states) ==
    /\ local.pc = "settlerun" => Behind(local.result, states)
    /\ local.pc \in {"setread", "setwrite"} =>
          \A i \in 1..Len(local.path) : Behind(local.path[i], states)

VerdictInv ==
    /\ Explained(States)
    /\ Behind(runState, States)
    /\ \A w \in Workers : Reads(wk[w], States)

\* With nothing blocked, the outcome is read off steps that have all settled.
LEMMA OutcomeIsEarned ==
    ASSUME NEW states, Explained(states), Blocked(states) = {}, Outcome(states) # NoOutcome
    PROVE  Behind(Outcome(states), states)
<1> DEFINE pending == {s \in Steps : states[s] \notin TerminalStepStates}
           failed == {s \in Steps : states[s] \in FailedStates}
           cancelled == \E s \in Steps : states[s] = "cancelled"
           waits == Ready(states) # {} \/ (pending # {} /\ Blocked(states) = {})
<1>1. Outcome(states) = IF cancelled THEN "cancelled"
                        ELSE IF waits THEN NoOutcome
                        ELSE IF failed \ Optional # {} THEN "failed"
                        ELSE IF failed # {} THEN "partially_completed"
                        ELSE "completed"
    BY DEF Outcome
<1>2. CASE Outcome(states) = "failed"
    <2>1. failed \ Optional # {}
        <3> HIDE DEF cancelled, waits, failed
        <3> QED
            BY <1>1, <1>2 DEF NoOutcome
    <2> QED
        BY <1>2, <2>1 DEF Behind
<1>3. SUFFICES ASSUME Outcome(states) \in {"completed", "partially_completed"}
               PROVE  Behind(Outcome(states), states)
    BY <1>2 DEF Behind
<1>4. /\ ~cancelled /\ ~waits /\ failed \ Optional = {}
      /\ Outcome(states) = "completed" => failed = {}
    <2> HIDE DEF cancelled, waits, failed
    <2> QED
        BY <1>1, <1>3 DEF NoOutcome
<1>5. \A s \in Steps : states[s] \in FailedStates \cup {"succeeded", "skipped"}
    BY <1>4 DEF TerminalStepStates
<1>6. \A s \in Steps \ Optional : states[s] = "succeeded"
    BY <1>4, <1>5 DEF Explained
<1>7. Outcome(states) = "completed" =>
          \A s \in Optional : states[s] \in {"succeeded", "skipped"}
    BY <1>4, <1>5, GraphAssumption
<1> QED
    BY <1>3, <1>6, <1>7 DEF Behind

\* What has settled as a verdict says is still so.
LEMMA BehindStays ==
    ASSUME Stays, NEW outcome, Behind(outcome, States)
    PROVE  Behind(outcome, States')
<1>1. \A s \in Steps : States[s] \in FailedStates \cup {"succeeded", "skipped"} =>
                            States'[s] = States[s]
    BY DEF Stays, States, TerminalStepStates
<1> QED
    BY <1>1, GraphAssumption DEF Behind

\* A step put aside had a cause, and the cause remains.
LEMMA ExplainedStays ==
    ASSUME Stays, Explained(States),
           \A s \in Steps \ Optional :
               States'[s] = "skipped" => States[s] = "skipped" \/ s \in Blocked(States)
    PROVE  Explained(States')
<1>1. \A s \in Steps : States[s] \in TerminalStepStates => States'[s] = States[s]
    BY DEF Stays, States
<1>2. SUFFICES ASSUME NEW s \in Steps \ Optional, States'[s] = "skipped"
               PROVE  \/ \E t \in Steps : States'[t] = "cancelled"
                      \/ \E t \in Steps \ Optional : States'[t] \in FailedStates
    BY DEF Explained
<1>3. \/ \E t \in Steps \ Optional : States[t] = "skipped"
      \/ \E t \in Steps : States[t] = "cancelled"
      \/ \E t \in Steps \ Optional : States[t] \in FailedStates
    <2>1. CASE States[s] = "skipped"
        BY <2>1
    <2>2. CASE s \in Blocked(States)
        BY <2>2, GraphAssumption DEF Blocked
    <2> QED
        BY <1>2, <2>1, <2>2
<1>4. \/ \E t \in Steps : States[t] = "cancelled"
      \/ \E t \in Steps \ Optional : States[t] \in FailedStates
    BY <1>3 DEF Explained
<1> QED
    BY <1>1, <1>4 DEF TerminalStepStates

\* Only a step that is blocked, or optional, comes to be put aside.
LEMMA PutAsideIsBlocked ==
    ASSUME IndInv, OrderInv, MaxReplays = 0, [Next]_vars
    PROVE  \A s \in Steps \ Optional :
               States'[s] = "skipped" => States[s] = "skipped" \/ s \in Blocked(States)
<1> SUFFICES ASSUME NEW s \in Steps \ Optional, rows'[s].state = "skipped",
                    rows[s].state # "skipped"
             PROVE  s \in Blocked(States)
    BY DEF States
<1>1. rows \in [Steps -> RowType]
    BY DEF IndInv, TypeOK
<1>2. \A state, attempts : Row(state, attempts).state = state
    BY DEF Row
<1>3. ASSUME NEW t \in Steps, NEW row, rows' = [rows EXCEPT ![t] = row], row.state # "skipped"
      PROVE  FALSE
    BY <1>1, <1>3
<1>4. ASSUME \A t \in Steps : rows'[t].state = rows[t].state PROVE FALSE
    BY <1>4
<1>5. ASSUME NEW w \in Workers, SkipBlocked(w) PROVE s \in Blocked(States)
    <2>1. wk[w].pc = "skip" /\ wk[w].todo # {} /\ wk[w].todo \in SUBSET Steps
        BY <1>5, LocalFacts DEF SkipBlocked, At, Fits, WorkerType
    <2>2. FirstOf(wk[w].todo) \in wk[w].todo
        BY <2>1, FirstOfMember
    <2>3. rows' = [rows EXCEPT ![FirstOf(wk[w].todo)] = Row("skipped", 0)]
        BY <1>5 DEF SkipBlocked
    <2>4. s = FirstOf(wk[w].todo)
        BY <1>1, <2>3
    <2>5. wk[w].todo \subseteq Blocked(States)
        BY <2>1 DEF OrderInv, Chosen
    <2> QED
        BY <2>2, <2>4, <2>5
<1>6. ASSUME NEW w \in Workers, SettleStep(w) PROVE FALSE
    <2>1. wk[w].pc = "settle" /\ wk[w].cur \in Steps
          /\ wk[w].result \in {"ok", "skip", "retry", "fail", "cancelled"}
        BY <1>6, LocalFacts, CurrentStep DEF SettleStep, At, Fits, Executing
    <2>2. wk[w].cur # None
        BY <2>1, WorkerAssumption
    <2>3. SettledRow(wk[w].cur, wk[w].result, wk[w].attempt).state = "skipped"
              => wk[w].cur \in Optional
        BY <2>1, <2>2, SettledRowState DEF OrderInv, Chosen
    <2>4. rows' = [rows EXCEPT ![wk[w].cur] =
                       SettledRow(wk[w].cur, wk[w].result, wk[w].attempt)]
        BY <1>6 DEF SettleStep
    <2> HIDE DEF SettledRow
    <2> QED
        BY <1>1, <2>1, <2>3, <2>4
<1>7. ASSUME NEW w \in Workers, CancelStep(w) PROVE FALSE
    <2>1. wk[w].pc = "cancelstep" /\ wk[w].todo # {} /\ wk[w].todo \in SUBSET Steps
        BY <1>7, LocalFacts DEF CancelStep, At, Fits, WorkerType
    <2>2. FirstOf(wk[w].todo) \in Steps
        BY <2>1, FirstOfMember
    <2>3. rows' = [rows EXCEPT ![FirstOf(wk[w].todo)] = Row("cancelled", 0)]
        BY <1>7 DEF CancelStep
    <2> QED
        BY <1>2, <1>3, <2>2, <2>3
<1>8. ASSUME NEW w \in Workers, Deduplicate(w) PROVE FALSE
    <2>1. wk[w].cur \in Steps
        BY <1>8, CurrentStep DEF Deduplicate, At, Executing
    <2> QED
        BY <1>2, <1>3, <1>8, <2>1 DEF Deduplicate
<1>9. ASSUME NEW w \in Workers, StartStep(w) PROVE FALSE
    <2>1. wk[w].cur \in Steps
        BY <1>9, CurrentStep DEF StartStep, At, Executing
    <2>2. PICK live : rows' = [rows EXCEPT ![wk[w].cur] =
                        [state |-> "running", attempts |-> wk[w].attempt, owner |-> w,
                         live |-> live, waiting |-> FALSE]]
        BY <1>9 DEF StartStep
    <2> QED
        BY <1>1, <2>1, <2>2
<1>10. ASSUME NEW w \in Workers, AcquireLease(w) PROVE FALSE
    BY <1>1, <1>4, <1>10 DEF AcquireLease, RowType
<1>11. ASSUME NEW w \in Workers, ReleaseLease(w) \/ Raise(w) PROVE FALSE
    <2>1. UNCHANGED rows \/ rows' = Released(w, wk[w].cur)
        BY <1>11 DEF ReleaseLease, Raise
    <2>2. \A t \in Steps : rows'[t].state = rows[t].state
        BY <1>1, <2>1 DEF Released, RowType
    <2> QED
        BY <1>4, <2>2
<1>12. CASE Time
    BY <1>1, <1>4, <1>12 DEF Time, BackoffElapses, LeaseLapses, RowType
<1>13. CASE \E t \in Steps : Replay(t)
    BY <1>13 DEF Replay, IndInv, TypeOK
<1>14. ASSUME NEW w \in Workers,
              \/ CheckCancellation(w) \/ LoadSteps(w) \/ SettleRun(w) \/ ReadState(w)
              \/ WriteState(w) \/ CancelLoad(w)
       PROVE  FALSE
    BY <1>4, <1>14 DEF CheckCancellation, LoadSteps, SettleRun, ReadState, WriteState, CancelLoad
<1>15. ASSUME NEW w \in Workers,
              \/ Deliver(w) \/ Crash(w) \/ Restart(w) \/ Claim(w) \/ AdvanceTo(w)
              \/ CheckKey(w) \/ BeginHandler(w) \/ EndHandler(w) \/ RecordKey(w)
       PROVE  FALSE
    BY <1>4, <1>15 DEF Deliver, Crash, Restart, Claim, AdvanceTo, CheckKey, BeginHandler,
                       EndHandler, RecordKey
<1>16. CASE RequestCancellation \/ UNCHANGED vars
    BY <1>4, <1>16 DEF RequestCancellation, vars
<1> QED
    BY <1>5, <1>6, <1>7, <1>8, <1>9, <1>10, <1>11, <1>12, <1>13, <1>14, <1>15, <1>16
    DEF Next, RunStep, ExecuteStep

\* The step to NextStep leaves w at its next step, at its next turn, or idle.
LEMMA NextStepLands ==
    ASSUME IndInv, NEW w \in Workers, NEW rest, NEW moved, NextStep(w, rest, moved)
    PROVE  wk'[w].pc \in {"claim", "check", "idle"}
<1>1. wk \in [Workers -> WorkerType]
    BY DEF IndInv, TypeOK
<1>2. CASE Return(w)
    BY <1>1, <1>2 DEF Return, IdleWorker
<1>3. CASE Goto(w, "claim", [wk[w] EXCEPT !.todo = rest, !.moved = moved, !.cur = None,
                                        !.attempt = 0, !.result = None])
    BY <1>1, <1>3 DEF Goto, WorkerType
<1>4. CASE Goto(w, "check", [wk[w] EXCEPT !.todo = {}, !.moved = FALSE, !.cur = None,
                                        !.attempt = 0, !.result = None])
    BY <1>1, <1>4 DEF Goto, WorkerType
<1> QED
    BY <1>2, <1>3, <1>4 DEF NextStep

\* A delivery that goes somewhere is there.
LEMMA GotoLands ==
    ASSUME IndInv, NEW w \in Workers, NEW pc, NEW local \in WorkerType, Goto(w, pc, local)
    PROVE  wk'[w].pc = pc
BY DEF IndInv, TypeOK, Goto, WorkerType

\* Where the steps of a delivery lead that neither walk to a verdict nor end a
\* handler.
LEMMA Lands ==
    ASSUME IndInv, NEW w \in Workers,
           \/ Deliver(w) \/ CheckCancellation(w) \/ SkipBlocked(w) \/ Raise(w) \/ Claim(w)
           \/ AcquireLease(w) \/ CheckKey(w) \/ Deduplicate(w) \/ StartStep(w)
           \/ BeginHandler(w) \/ RecordKey(w) \/ SettleStep(w) \/ ReleaseLease(w)
           \/ Crash(w) \/ Restart(w)
    PROVE  wk'[w].pc \notin {"settlerun", "setread", "setwrite", "record"}
<1>1. wk \in [Workers -> WorkerType]
    BY DEF IndInv, TypeOK
<1>2. Return(w) => wk'[w].pc = "idle"
    BY <1>1 DEF Return, IdleWorker
<1>3. ASSUME NEW pc, Goto(w, pc, wk[w]) PROVE wk'[w].pc = pc
    BY <1>1, <1>3, GotoLands
<1>4. ASSUME NEW rest, NEW moved, NextStep(w, rest, moved)
      PROVE  wk'[w].pc \in {"claim", "check", "idle"}
    BY <1>4, NextStepLands
<1>5. CASE \/ Deliver(w) \/ CheckCancellation(w) \/ CheckKey(w) \/ Deduplicate(w)
           \/ StartStep(w) \/ RecordKey(w)
    BY <1>3, <1>5 DEF Deliver, CheckCancellation, CheckKey, Deduplicate, StartStep, RecordKey
<1>6. CASE Raise(w) \/ Restart(w)
    BY <1>2, <1>6 DEF Raise, Restart
<1>7. CASE AcquireLease(w) \/ ReleaseLease(w)
    BY <1>3, <1>4, <1>7 DEF AcquireLease, ReleaseLease
<1>8. CASE Claim(w)
    BY <1>1, <1>4, <1>8 DEF Claim, Goto, WorkerType
<1>9. CASE SkipBlocked(w)
    BY <1>1, <1>9 DEF SkipBlocked, Goto, WorkerType
<1>10. CASE BeginHandler(w)
    BY <1>1, <1>10 DEF BeginHandler, Goto, WorkerType
<1>11. CASE SettleStep(w)
    BY <1>1, <1>11 DEF SettleStep, Goto, WorkerType
<1>12. CASE Crash(w)
    BY <1>1, <1>12 DEF Crash, Goto, IdleWorker
<1> QED
    BY <1>5, <1>6, <1>7, <1>8, <1>9, <1>10, <1>11, <1>12

\* A delivery whose locals promise what they should leaves the verdict earned.
LEMMA VerdictMoves ==
    ASSUME VerdictInv, Stays, Explained(States'), NEW w \in Workers, \A v \in Workers : v = w,
           Reads(wk'[w], States), Behind(runState', States)
    PROVE  VerdictInv'
<1>1. \A outcome : Behind(outcome, States) => Behind(outcome, States')
    BY BehindStays
<1>2. Reads(wk'[w], States')
    BY <1>1 DEF Reads
<1> QED
    BY <1>1, <1>2 DEF VerdictInv

\* The walk through the phases names no verdict.
LEMMA PhasesSayNothing ==
    ASSUME NEW path \in Seq(AssessmentStates \ TerminalStates), NEW states
    PROVE  \A i \in 1..Len(path) : Behind(path[i], states)
<1>1. \A i \in 1..Len(path) : path[i] \in AssessmentStates \ TerminalStates
    OBVIOUS
<1>2. {"completed", "partially_completed", "failed"} \subseteq TerminalStates
    BY DEF TerminalStates, ReopenableStates
<1> QED
    BY <1>1, <1>2 DEF Behind

LEMMA LoadStepsReads ==
    ASSUME IndInv, VerdictInv, NEW w \in Workers, LoadSteps(w)
    PROVE  Reads(wk'[w], States)
<1>1. wk \in [Workers -> WorkerType]
    BY DEF IndInv, TypeOK
<1>2. CASE Return(w)
    BY <1>1, <1>2 DEF Return, IdleWorker, Reads
<1>3. CASE Goto(w, "skip", [wk[w] EXCEPT !.todo = Blocked(States)])
    BY <1>1, <1>3 DEF Goto, Reads, WorkerType
<1>4. CASE Goto(w, "claim", [wk[w] EXCEPT !.todo = Ready(States), !.moved = FALSE])
    BY <1>1, <1>4 DEF Goto, Reads, WorkerType
<1>5. CASE /\ Blocked(States) = {} /\ Outcome(States) # NoOutcome
           /\ Goto(w, "settlerun", [wk[w] EXCEPT !.result = Outcome(States)])
    <2> DEFINE outcome == Outcome(States)
    <2>1. Behind(outcome, States)
        BY <1>5, OutcomeIsEarned DEF VerdictInv
    <2> HIDE DEF outcome
    <2>2. wk'[w].pc = "settlerun" /\ wk'[w].result = outcome
        <3>1. Goto(w, "settlerun", [wk[w] EXCEPT !.result = outcome])
            BY <1>5 DEF outcome
        <3> QED
            BY <1>1, <3>1 DEF Goto, WorkerType
    <2> QED
        BY <2>1, <2>2 DEF Reads
<1> QED
    BY <1>2, <1>3, <1>4, <1>5 DEF LoadSteps

LEMMA SettleRunReads ==
    ASSUME IndInv, VerdictInv, NEW w \in Workers, SettleRun(w)
    PROVE  Reads(wk'[w], States)
<1>1. /\ wk \in [Workers -> WorkerType] /\ wk[w].pc = "settlerun"
      /\ wk[w].result \in {"completed", "partially_completed", "failed", "cancelled"}
    BY LocalFacts DEF SettleRun, At, Fits, IndInv, TypeOK
<1>2. Behind(wk[w].result, States)
    BY <1>1 DEF VerdictInv, Reads
<1>3. CASE Goto(w, "raised", wk[w])
    BY <1>1, <1>3 DEF Goto, Reads, WorkerType
<1>4. CASE /\ \/ wk[w].result \notin {"completed", "partially_completed"}
              \/ OnHappyPath(runState)
           /\ Goto(w, "setread",
                   [wk[w] EXCEPT !.path = SettlePath(wk[w].result), !.result = None])
    <2> DEFINE path == SettlePath(wk[w].result)
    <2>1. /\ path[Len(path)] = wk[w].result
          /\ \A i \in 1..Len(path) : i < Len(path) => path[i] \notin TerminalStates
        BY <1>1, <1>4, SettlePathEnds
    <2>2. Len(path) \in Nat
        <3>1. path \in Seq(AssessmentStates)
            BY <1>1, <1>4, SettlePathType
        <3> HIDE DEF path
        <3> QED
            BY <3>1
    <2>3. Goto(w, "setread", [wk[w] EXCEPT !.path = path, !.result = None])
        BY <1>4
    <2> HIDE DEF path
    <2>4. wk'[w].pc = "setread" /\ wk'[w].path = path
        BY <1>1, <2>3 DEF Goto, WorkerType
    <2>5. {"completed", "partially_completed", "failed"} \subseteq TerminalStates
        BY DEF TerminalStates, ReopenableStates
    <2>6. ASSUME NEW i \in 1..Len(path) PROVE Behind(path[i], States)
        <3>1. CASE i < Len(path)
            BY <2>1, <2>5, <3>1 DEF Behind
        <3>2. CASE i = Len(path)
            BY <1>2, <2>1, <3>2
        <3> QED
            BY <2>2, <3>1, <3>2
    <2> QED
        BY <2>4, <2>6 DEF Reads
<1> QED
    BY <1>3, <1>4 DEF SettleRun

\* A walk goes on, or has ended.
LEMMA WalkReads ==
    ASSUME IndInv, VerdictInv, NEW w \in Workers, ReadState(w) \/ WriteState(w)
    PROVE  Reads(wk'[w], States) /\ Behind(Head(wk[w].path), States)
<1> DEFINE path == wk[w].path
<1>1. /\ wk \in [Workers -> WorkerType] /\ wk[w].pc \in {"setread", "setwrite"}
      /\ path \in Seq(AssessmentStates) /\ path # << >>
    BY LocalFacts DEF ReadState, WriteState, At, Fits, IndInv, TypeOK, WorkerType
<1>2. \A i \in 1..Len(path) : Behind(path[i], States)
    BY <1>1 DEF VerdictInv, Reads
<1>3. /\ Len(path) \in Nat \ {0} /\ Head(path) = path[1]
      /\ Len(Tail(path)) = Len(path) - 1
      /\ \A i \in 1..Len(Tail(path)) : Tail(path)[i] = path[i + 1] /\ i + 1 \in 1..Len(path)
    <2> HIDE DEF path
    <2>1. Len(path) \in Nat \ {0}
        BY <1>1, EmptySeq, LenProperties
    <2>2. Head(path) = path[1]
        BY <1>1, HeadTailProperties
    <2>3. Len(Tail(path)) = Len(path) - 1 /\ \A i \in 1..(Len(path) - 1) : Tail(path)[i] = path[i + 1]
        BY <1>1, <2>1
    <2>4. \A i \in 1..(Len(path) - 1) : i + 1 \in 1..Len(path)
        BY <2>1
    <2> QED
        BY <2>1, <2>2, <2>3, <2>4
<1>4. Behind(Head(path), States)
    BY <1>2, <1>3
<1>5. CASE PathDone(w, wk[w])
    <2>1. wk'[w].pc \in {"keycheck", "idle"}
        <3>1. CASE Return(w)
            BY <1>1, <3>1 DEF Return, IdleWorker
        <3>2. CASE Goto(w, "keycheck", [wk[w] EXCEPT !.path = << >>])
            <4> DEFINE none == << >>
            <4>1. Goto(w, "keycheck", [wk[w] EXCEPT !.path = none])
                BY <3>2
            <4> HIDE DEF none
            <4> QED
                BY <1>1, <4>1 DEF Goto, WorkerType
        <3> QED
            BY <1>5, <3>1, <3>2 DEF PathDone
    <2> QED
        BY <1>4, <2>1 DEF Reads
<1>6. CASE Goto(w, "setread", [wk[w] EXCEPT !.path = Tail(@)])
    <2> DEFINE rest == Tail(path)
    <2>1. Goto(w, "setread", [wk[w] EXCEPT !.path = rest])
        BY <1>1, <1>6 DEF WorkerType
    <2>2. \A i \in 1..Len(rest) : Behind(rest[i], States)
        BY <1>2, <1>3
    <2> HIDE DEF rest
    <2>3. wk'[w].pc = "setread" /\ wk'[w].path = rest
        BY <1>1, <2>1 DEF Goto, WorkerType
    <2> QED
        BY <1>4, <2>2, <2>3 DEF Reads
<1>7. ASSUME NEW pc \in {"setwrite", "raised"}, Goto(w, pc, wk[w])
      PROVE  Reads(wk'[w], States) /\ Behind(Head(path), States)
    <2>1. wk'[w].pc = pc /\ wk'[w].path = path
        BY <1>1, <1>7 DEF Goto, WorkerType
    <2> QED
        BY <1>2, <1>4, <2>1 DEF Reads
<1> QED
    BY <1>5, <1>6, <1>7 DEF ReadState, WriteState

LEMMA AdvanceToReads ==
    ASSUME IndInv, NEW w \in Workers, AdvanceTo(w)
    PROVE  Reads(wk'[w], States)
<1>1. wk \in [Workers -> WorkerType] /\ wk[w].cur \in Steps
    BY CurrentStep DEF AdvanceTo, At, Executing, IndInv, TypeOK
<1>2. CASE \E pc \in {"raised", "keycheck"} : Goto(w, pc, wk[w])
    BY <1>1, <1>2 DEF Goto, Reads, WorkerType
<1>3. CASE /\ OnHappyPath(runState)
           /\ Goto(w, "setread", [wk[w] EXCEPT !.path = ForwardPath(runState, Phase[wk[w].cur])])
    <2> DEFINE path == ForwardPath(runState, Phase[wk[w].cur])
    <2>1. path \in Seq(AssessmentStates \ TerminalStates)
        BY <1>1, <1>3, GraphAssumption, ForwardPathStaysOpen
    <2>2. Goto(w, "setread", [wk[w] EXCEPT !.path = path])
        BY <1>3
    <2> HIDE DEF path
    <2>3. wk'[w].pc = "setread" /\ wk'[w].path = path
        BY <1>1, <2>2 DEF Goto, WorkerType
    <2> QED
        BY <2>1, <2>3, PhasesSayNothing DEF Reads
<1> QED
    BY <1>2, <1>3 DEF AdvanceTo

\* A walk to a cancellation says nothing of the steps.
LEMMA CancelReads ==
    ASSUME IndInv, NEW w \in Workers, CancelLoad(w) \/ CancelStep(w)
    PROVE  Reads(wk'[w], States)
<1> DEFINE path == << "cancelled" >>
<1>1. wk \in [Workers -> WorkerType]
    BY DEF IndInv, TypeOK
<1>2. \A i \in 1..Len(path) : Behind(path[i], States)
    BY DEF Behind
<1>3. CASE Goto(w, "setread", [wk[w] EXCEPT !.path = << "cancelled" >>])
    <2>1. Goto(w, "setread", [wk[w] EXCEPT !.path = path])
        BY <1>3
    <2> HIDE DEF path
    <2>2. wk'[w].pc = "setread" /\ wk'[w].path = path
        BY <1>1, <2>1 DEF Goto, WorkerType
    <2> QED
        BY <1>2, <2>2 DEF Reads
<1>4. CASE Goto(w, "setread", [wk[w] EXCEPT !.todo = {}, !.path = << "cancelled" >>])
    <2>1. Goto(w, "setread", [wk[w] EXCEPT !.todo = {}, !.path = path])
        BY <1>4
    <2> HIDE DEF path
    <2>2. wk'[w].pc = "setread" /\ wk'[w].path = path
        BY <1>1, <2>1 DEF Goto, WorkerType
    <2> QED
        BY <1>2, <2>2 DEF Reads
<1>5. ASSUME NEW todo, Goto(w, "cancelstep", [wk[w] EXCEPT !.todo = todo])
      PROVE  Reads(wk'[w], States)
    BY <1>1, <1>5 DEF Goto, Reads, WorkerType
<1> QED
    BY <1>3, <1>4, <1>5 DEF CancelLoad, CancelStep

\* A walk, and what leads to one, never goes straight to a record.
LEMMA WalkLands ==
    ASSUME IndInv, NEW w \in Workers,
           \/ LoadSteps(w) \/ SettleRun(w) \/ ReadState(w) \/ WriteState(w) \/ AdvanceTo(w)
           \/ CancelLoad(w) \/ CancelStep(w)
    PROVE  wk'[w].pc # "record"
<1>1. wk \in [Workers -> WorkerType]
    BY DEF IndInv, TypeOK
<1>2. Return(w) => wk'[w].pc # "record"
    BY <1>1 DEF Return, IdleWorker
<1>3. ASSUME NEW pc, NEW todo, NEW result, NEW path, NEW moved,
             \/ Goto(w, pc, wk[w])
             \/ Goto(w, pc, [wk[w] EXCEPT !.path = path])
             \/ Goto(w, pc, [wk[w] EXCEPT !.todo = todo])
             \/ Goto(w, pc, [wk[w] EXCEPT !.result = result])
             \/ Goto(w, pc, [wk[w] EXCEPT !.todo = todo, !.moved = moved])
             \/ Goto(w, pc, [wk[w] EXCEPT !.todo = todo, !.path = path])
             \/ Goto(w, pc, [wk[w] EXCEPT !.path = path, !.result = result])
      PROVE  wk'[w].pc = pc
    BY <1>1, <1>3 DEF Goto, WorkerType
<1>4. CASE LoadSteps(w)
    BY <1>2, <1>3, <1>4 DEF LoadSteps
<1>5. CASE SettleRun(w)
    BY <1>3, <1>5 DEF SettleRun
<1>6. CASE ReadState(w) \/ WriteState(w)
    <2>1. PathDone(w, wk[w]) => wk'[w].pc # "record"
        BY <1>2, <1>3 DEF PathDone
    <2>2. Goto(w, "setread", [wk[w] EXCEPT !.path = Tail(@)]) => wk'[w].pc # "record"
        BY <1>3
    <2>3. \A pc \in {"setwrite", "raised"} : Goto(w, pc, wk[w]) => wk'[w].pc # "record"
        BY <1>3
    <2> QED
        BY <1>6, <2>1, <2>2, <2>3 DEF ReadState, WriteState
<1>7. CASE AdvanceTo(w)
    BY <1>3, <1>7 DEF AdvanceTo
<1>8. CASE CancelLoad(w)
    BY <1>3, <1>8 DEF CancelLoad
<1>9. CASE CancelStep(w)
    BY <1>3, <1>9 DEF CancelStep
<1> QED
    BY <1>4, <1>5, <1>6, <1>7, <1>8, <1>9

\* The invariant, step by step.
LEMMA NextVerdict ==
    ASSUME \A v, w \in Workers : v = w, MaxReplays = 0, IndInv, OrderInv, Stays, VerdictInv,
           [Next]_vars
    PROVE  VerdictInv'
<1>1. Explained(States') /\ Behind(runState, States)
    BY PutAsideIsBlocked, ExplainedStays DEF VerdictInv
<1>2. ASSUME NEW w \in Workers,
             \/ Deliver(w) \/ CheckCancellation(w) \/ SkipBlocked(w) \/ Raise(w) \/ Claim(w)
             \/ AcquireLease(w) \/ CheckKey(w) \/ Deduplicate(w) \/ StartStep(w)
             \/ BeginHandler(w) \/ RecordKey(w) \/ SettleStep(w) \/ ReleaseLease(w)
             \/ Crash(w) \/ Restart(w)
      PROVE  VerdictInv'
    <2>1. wk'[w].pc \notin {"settlerun", "setread", "setwrite", "record"}
        BY <1>2, Lands
    <2>2. UNCHANGED runState
        BY <1>2 DEF Deliver, CheckCancellation, SkipBlocked, Raise, Claim, AcquireLease, CheckKey,
                    Deduplicate, StartStep, BeginHandler, RecordKey, SettleStep, ReleaseLease,
                    Crash, Restart
    <2> QED
        BY <1>1, <2>1, <2>2, VerdictMoves DEF Reads
<1>3. ASSUME NEW w \in Workers, EndHandler(w) PROVE VerdictInv'
    <2>1. wk \in [Workers -> WorkerType] /\ UNCHANGED runState
        BY <1>3 DEF EndHandler, IndInv, TypeOK
    <2>2. wk'[w].pc \in {"record", "settle"}
        BY <1>3, <2>1 DEF EndHandler, Goto, WorkerType
    <2> QED
        BY <1>1, <2>1, <2>2, VerdictMoves DEF Reads
<1>4. ASSUME NEW w \in Workers,
             LoadSteps(w) \/ SettleRun(w) \/ AdvanceTo(w) \/ CancelLoad(w) \/ CancelStep(w)
      PROVE  VerdictInv'
    <2>1. UNCHANGED runState
        BY <1>4 DEF LoadSteps, SettleRun, AdvanceTo, CancelLoad, CancelStep
    <2>2. Reads(wk'[w], States)
        BY <1>4, LoadStepsReads, SettleRunReads, AdvanceToReads, CancelReads
    <2> QED
        BY <1>1, <2>1, <2>2, VerdictMoves
<1>5. ASSUME NEW w \in Workers, ReadState(w) \/ WriteState(w) PROVE VerdictInv'
    <2>1. runState' \in {runState, Head(wk[w].path)}
        BY <1>5 DEF ReadState, WriteState
    <2> QED
        BY <1>1, <1>5, <2>1, WalkReads, VerdictMoves
<1>6. CASE RequestCancellation \/ Time \/ UNCHANGED vars
    <2>1. UNCHANGED << runState, wk >>
        BY <1>6 DEF RequestCancellation, Time, BackoffElapses, LeaseLapses, vars
    <2>2. \A outcome : Behind(outcome, States) => Behind(outcome, States')
        BY BehindStays
    <2> QED
        BY <1>1, <2>1, <2>2 DEF VerdictInv, Reads
<1>7. CASE \E s \in Steps : Replay(s)
    BY <1>7 DEF Replay, IndInv, TypeOK
<1> QED
    BY <1>2, <1>3, <1>4, <1>5, <1>6, <1>7 DEF Next, RunStep, ExecuteStep

LEMMA InitVerdict == Init => VerdictInv
<1> SUFFICES ASSUME Init PROVE VerdictInv
    OBVIOUS
<1>1. \A s \in Steps : States[s] = "pending"
    BY DEF Init, Row, States
<1>2. \A w \in Workers : wk[w].pc = "idle"
    BY DEF Init, IdleWorker
<1>3. runState = "queued"
    BY DEF Init
<1> QED
    BY <1>1, <1>2, <1>3 DEF VerdictInv, Explained, Behind, Reads

\* With one delivery at a time and no replay, what a run is said to be is true
\* of its steps, whatever crashes, lapses and is delivered again.
THEOREM VerdictHolds ==
    ASSUME \A v, w \in Workers : v = w, MaxReplays = 0
    PROVE  Spec => []VerdictInv
<1>1. IndInv /\ BudgetInv /\ OrderInv /\ VerdictInv /\ [Next]_vars => VerdictInv'
    BY NextOrder, NextVerdict
<1> QED
    BY <1>1, InitVerdict, Invariance, BudgetHolds, OrderHolds, PTL DEF Spec

\* A run reported as completed did all of its required work, and it has no
\* failure and nothing left open.
THEOREM CompletedRunsDidTheirWork ==
    ASSUME \A v, w \in Workers : v = w, MaxReplays = 0
    PROVE  Spec => []CompletedRunDidItsWork
<1>1. VerdictInv => CompletedRunDidItsWork
    BY DEF VerdictInv, Behind, CompletedRunDidItsWork, States
<1> QED
    BY <1>1, VerdictHolds, PTL

(***************************************************************************)
(* Work that is on record.  With one delivery at a time and no replay, a   *)
(* step that is pending has no record of completed work, and neither has   *)
(* the step in hand until its own work is recorded: no handler is called   *)
(* for work that was done, and no step is settled from an old record.      *)
(***************************************************************************)
Unrecorded(local, K, states) ==
    local.cur # None =>
        /\ local.pc \in {"begin", "work", "record", "settle"} => states[local.cur] = "running"
        /\ local.pc # "release" /\ ~(local.pc = "settle" /\ local.result \in {"ok", "skip"})
              => ~Recorded(K, local.cur)

FreshInv ==
    /\ \A s \in Steps : Recorded(keys, s) => States[s] # "pending"
    /\ \A w \in Workers : Unrecorded(wk[w], keys, States)

\* A step of the delivery after which no recorded step is pending again.
LEMMA FreshMoves ==
    ASSUME FreshInv, NEW w \in Workers, \A v \in Workers : v = w, UNCHANGED keys,
           \A s \in Steps : States'[s] = "pending" =>
                                States[s] = "pending" \/ ~Recorded(keys, s),
           Unrecorded(wk'[w], keys, States')
    PROVE  FreshInv'
BY DEF FreshInv

\* After the last of its steps, or before the next, a delivery has none in hand.
LEMMA NextStepHands ==
    ASSUME IndInv, NEW w \in Workers, NEW rest, NEW moved, NextStep(w, rest, moved)
    PROVE  wk'[w].cur = None
<1>1. wk \in [Workers -> WorkerType]
    BY DEF IndInv, TypeOK
<1>2. CASE Return(w)
    BY <1>1, <1>2 DEF Return, IdleWorker
<1>3. CASE Goto(w, "claim", [wk[w] EXCEPT !.todo = rest, !.moved = moved, !.cur = None,
                                        !.attempt = 0, !.result = None])
    BY <1>1, <1>3 DEF Goto, WorkerType
<1>4. CASE Goto(w, "check", [wk[w] EXCEPT !.todo = {}, !.moved = FALSE, !.cur = None,
                                        !.attempt = 0, !.result = None])
    BY <1>1, <1>4 DEF Goto, WorkerType
<1> QED
    BY <1>2, <1>3, <1>4 DEF NextStep

\* Where a delivery is between two steps.
LEMMA HandsEmpty ==
    ASSUME IndInv, NEW w \in Workers,
           \/ Deliver(w) \/ CheckCancellation(w) \/ LoadSteps(w) \/ SkipBlocked(w)
           \/ SettleRun(w) \/ CancelLoad(w) \/ CancelStep(w) \/ Raise(w)
           \/ ReleaseLease(w) \/ Crash(w) \/ Restart(w)
    PROVE  wk'[w].cur = None
<1>1. wk \in [Workers -> WorkerType] /\ Fits(wk[w])
    BY LocalFacts DEF IndInv, TypeOK
<1>2. Return(w) => wk'[w].cur = None
    BY <1>1 DEF Return, IdleWorker
<1>3. ASSUME NEW pc, NEW todo, NEW result, NEW path, NEW moved, wk[w].cur = None,
             \/ Goto(w, pc, wk[w])
             \/ Goto(w, pc, [wk[w] EXCEPT !.todo = todo])
             \/ Goto(w, pc, [wk[w] EXCEPT !.result = result])
             \/ Goto(w, pc, [wk[w] EXCEPT !.path = path])
             \/ Goto(w, pc, [wk[w] EXCEPT !.todo = todo, !.moved = moved])
             \/ Goto(w, pc, [wk[w] EXCEPT !.todo = todo, !.path = path])
             \/ Goto(w, pc, [wk[w] EXCEPT !.path = path, !.result = result])
      PROVE  wk'[w].cur = None
    BY <1>1, <1>3 DEF Goto, WorkerType
<1>4. CASE Deliver(w) \/ CheckCancellation(w)
    <2>1. wk[w].cur = None
        BY <1>1, <1>4 DEF Deliver, CheckCancellation, At, Fits, Executing
    <2> QED
        BY <1>3, <1>4, <2>1 DEF Deliver, CheckCancellation
<1>5. CASE LoadSteps(w)
    <2>1. wk[w].cur = None
        BY <1>1, <1>5 DEF LoadSteps, At, Fits, Executing
    <2> QED
        BY <1>2, <1>3, <1>5, <2>1 DEF LoadSteps
<1>6. CASE SkipBlocked(w) \/ SettleRun(w)
    <2>1. wk[w].cur = None
        BY <1>1, <1>6 DEF SkipBlocked, SettleRun, At, Fits, Executing
    <2> QED
        BY <1>3, <1>6, <2>1 DEF SkipBlocked, SettleRun
<1>7. CASE CancelLoad(w) \/ CancelStep(w)
    <2>1. wk[w].cur = None
        BY <1>1, <1>7 DEF CancelLoad, CancelStep, At, Fits, Executing
    <2> QED
        BY <1>3, <1>7, <2>1 DEF CancelLoad, CancelStep
<1>8. CASE Raise(w) \/ Restart(w)
    BY <1>2, <1>8 DEF Raise, Restart
<1>9. CASE ReleaseLease(w)
    BY <1>1, <1>9, NextStepHands DEF ReleaseLease
<1>10. CASE Crash(w)
    BY <1>1, <1>10 DEF Crash, Goto, IdleWorker
<1> QED
    BY <1>4, <1>5, <1>6, <1>7, <1>8, <1>9, <1>10

\* Where a delivery is before it starts the step in hand.
LEMMA HandsKeep ==
    ASSUME IndInv, NEW w \in Workers,
           ReadState(w) \/ WriteState(w) \/ AcquireLease(w) \/ AdvanceTo(w) \/ CheckKey(w)
    PROVE  /\ wk'[w].cur \in {None, wk[w].cur}
           /\ wk'[w].cur # None =>
                 /\ wk'[w].pc \notin {"begin", "work", "record", "settle"}
                 /\ wk[w].pc \notin {"release", "settle"}
<1>1. wk \in [Workers -> WorkerType]
    BY DEF IndInv, TypeOK
<1>2. Return(w) => wk'[w].cur = None
    BY <1>1 DEF Return, IdleWorker
<1> DEFINE Before == wk'[w].cur = wk[w].cur
                     /\ wk'[w].pc \notin {"begin", "work", "record", "settle"}
<1>3. ASSUME NEW pc \in {"setread", "setwrite", "keycheck", "raised", "advance", "dedup", "start"},
             NEW path,
             Goto(w, pc, wk[w]) \/ Goto(w, pc, [wk[w] EXCEPT !.path = path])
      PROVE  Before
    <2>1. wk'[w].cur = wk[w].cur /\ wk'[w].pc = pc
        BY <1>1, <1>3 DEF Goto, WorkerType
    <2> QED
        BY <2>1
<1>4. ASSUME NEW rest, NEW moved, NextStep(w, rest, moved) PROVE wk'[w].cur = None
    BY <1>4, NextStepHands
<1> HIDE DEF Before
<1>5. CASE ReadState(w) \/ WriteState(w)
    <2>1. wk[w].pc \in {"setread", "setwrite"}
        BY <1>5 DEF ReadState, WriteState, At
    <2>2. PathDone(w, wk[w]) => wk'[w].cur = None \/ Before
        BY <1>2, <1>3 DEF PathDone
    <2>3. Goto(w, "setread", [wk[w] EXCEPT !.path = Tail(@)]) => Before
        BY <1>3
    <2>4. Goto(w, "setwrite", wk[w]) \/ Goto(w, "raised", wk[w]) => Before
        BY <1>3
    <2>5. wk'[w].cur = None \/ Before
        BY <1>5, <2>2, <2>3, <2>4 DEF ReadState, WriteState
    <2> QED
        BY <2>1, <2>5 DEF Before
<1>6. CASE AcquireLease(w)
    <2>1. wk'[w].cur = None \/ Before
        BY <1>3, <1>4, <1>6 DEF AcquireLease
    <2> QED
        BY <1>6, <2>1 DEF AcquireLease, At, Before
<1>7. CASE AdvanceTo(w) \/ CheckKey(w)
    <2>1. Before
        BY <1>3, <1>7 DEF AdvanceTo, CheckKey
    <2> QED
        BY <1>7, <2>1 DEF AdvanceTo, CheckKey, At, Before
<1> QED
    BY <1>5, <1>6, <1>7

\* What the delivery does with the step in hand.
LEMMA StepFresh ==
    ASSUME IndInv, FreshInv, NEW w \in Workers, \A v \in Workers : v = w,
           \/ Deduplicate(w) \/ StartStep(w) \/ BeginHandler(w) \/ EndHandler(w)
           \/ RecordKey(w) \/ SettleStep(w)
    PROVE  FreshInv'
<1> DEFINE s == wk[w].cur
<1>1. wk \in [Workers -> WorkerType] /\ rows \in [Steps -> RowType] /\ Fits(wk[w])
    BY LocalFacts DEF IndInv, TypeOK
<1>2. wk[w].pc \in {"dedup", "start", "begin", "work", "record", "settle"} => s \in Steps /\ s # None
    BY CurrentStep, WorkerAssumption DEF Executing
<1>3. Unrecorded(wk[w], keys, States)
    BY DEF FreshInv
<1>4. CASE Deduplicate(w)
    <2>1. wk[w].pc = "dedup" /\ Recorded(keys, s)
        BY <1>4, LocalFacts DEF Deduplicate, At, Earned
    <2> QED
        BY <1>2, <1>3, <2>1 DEF Unrecorded
<1>5. CASE StartStep(w)
    <2>1. wk[w].pc = "start" /\ UNCHANGED keys /\ wk'[w].pc = "begin" /\ wk'[w].cur = s
        BY <1>1, <1>5 DEF StartStep, At, Goto, WorkerType
    <2>2. \A t \in Steps : States'[t] = IF t = s THEN "running" ELSE States[t]
        BY <1>1, <1>2, <1>5, <2>1 DEF StartStep, States
    <2>3. Unrecorded(wk'[w], keys, States')
        BY <1>2, <1>3, <2>1, <2>2 DEF Unrecorded
    <2> QED
        BY <2>1, <2>2, <2>3, FreshMoves
<1>6. CASE BeginHandler(w) \/ EndHandler(w)
    <2>1. /\ wk[w].pc \in {"begin", "work"} /\ UNCHANGED << rows, keys >>
          /\ wk'[w].cur = s
          /\ wk'[w].pc = "settle" => wk'[w].result \notin {"ok", "skip"}
        <3>1. CASE BeginHandler(w)
            BY <1>1, <3>1 DEF BeginHandler, At, Goto, WorkerType
        <3>2. CASE EndHandler(w)
            <4>1. PICK outcome :
                      Goto(w, IF outcome \in {"ok", "skip"} THEN "record" ELSE "settle",
                           [wk[w] EXCEPT !.result = outcome])
                BY <3>2 DEF EndHandler
            <4>2. /\ wk'[w].pc = IF outcome \in {"ok", "skip"} THEN "record" ELSE "settle"
                  /\ wk'[w].cur = s /\ wk'[w].result = outcome
                BY <1>1, <4>1 DEF Goto, WorkerType
            <4> QED
                BY <3>2, <4>2 DEF EndHandler, At
        <3> QED
            BY <1>6, <3>1, <3>2
    <2>2. States' = States
        BY <2>1 DEF States
    <2>3. Unrecorded(wk'[w], keys, States')
        BY <1>2, <1>3, <2>1, <2>2 DEF Unrecorded
    <2> QED
        BY <2>1, <2>2, <2>3, FreshMoves
<1>7. CASE RecordKey(w)
    <2>1. /\ wk[w].pc = "record" /\ keys' = keys \cup {KeyOf(w)} /\ UNCHANGED rows
          /\ wk'[w].pc = "settle" /\ wk'[w].cur = s /\ wk'[w].result = wk[w].result
        BY <1>1, <1>7 DEF RecordKey, At, Goto, WorkerType
    <2>2. wk[w].result \in {"ok", "skip"} /\ States[s] = "running" /\ States' = States
        BY <1>1, <1>2, <1>3, <2>1 DEF Fits, Unrecorded, States
    <2>3. \A t \in Steps : Recorded(keys', t) => Recorded(keys, t) \/ t = s
        BY <2>1 DEF Recorded, KeyOf
    <2>4. Unrecorded(wk'[w], keys', States')
        BY <2>1, <2>2 DEF Unrecorded
    <2> QED
        BY <2>2, <2>3, <2>4 DEF FreshInv
<1>8. CASE SettleStep(w)
    <2> DEFINE row == SettledRow(s, wk[w].result, wk[w].attempt)
    <2>1. wk[w].pc = "settle" /\ UNCHANGED keys /\ wk'[w].pc = "release" /\ wk'[w].cur = s
        BY <1>1, <1>8 DEF SettleStep, At, Goto, WorkerType
    <2>2. rows' = [rows EXCEPT ![s] = row]
        BY <1>8 DEF SettleStep
    <2>3. row.state = "pending" => wk[w].result \notin {"ok", "skip"}
        BY DEF SettledRow, Row
    <2> HIDE DEF row
    <2>4. \A t \in Steps : States'[t] = IF t = s THEN row.state ELSE States[t]
        BY <1>1, <1>2, <2>1, <2>2 DEF States
    <2>5. row.state = "pending" => ~Recorded(keys, s)
        BY <1>2, <1>3, <2>1, <2>3 DEF Unrecorded
    <2>6. Unrecorded(wk'[w], keys, States')
        BY <2>1 DEF Unrecorded
    <2> QED
        BY <2>1, <2>4, <2>5, <2>6, FreshMoves
<1> QED
    BY <1>4, <1>5, <1>6, <1>7, <1>8

\* A step is taken up while it is pending.
LEMMA ClaimFresh ==
    ASSUME IndInv, BudgetInv, FreshInv, NEW w \in Workers, \A v \in Workers : v = w, Claim(w)
    PROVE  FreshInv'
<1> DEFINE s == FirstOf(wk[w].todo)
           attempt == rows[s].attempts + 1
<1>1. /\ wk[w] \in WorkerType /\ wk[w].pc = "claim" /\ wk[w].cur = None
      /\ wk[w].todo # {} /\ wk[w].todo \in SUBSET Steps /\ UNCHANGED << rows, keys >>
    BY LocalFacts DEF Claim, At, Fits, Executing, WorkerType
<1>2. s \in wk[w].todo /\ s \in Steps /\ s # None
    BY <1>1, FirstOfMember, WorkerAssumption
<1>3. States' = States
    BY <1>1 DEF States
<1>4. CASE NextStep(w, wk[w].todo \ {s}, wk[w].moved)
    <2>1. wk'[w].cur = None
        BY <1>4, NextStepHands
    <2> QED
        BY <1>1, <1>3, <2>1, FreshMoves DEF Unrecorded
<1>5. CASE Goto(w, "acquire", [wk[w] EXCEPT !.cur = s, !.attempt = attempt])
    <2> HIDE DEF s, attempt
    <2>1. wk'[w].pc = "acquire" /\ wk'[w].cur = s
        BY <1>1, <1>5 DEF Goto, WorkerType, IndInv, TypeOK
    <2>2. States[s] = "pending"
        BY <1>1, <1>2 DEF BudgetInv, BudgetLocal, States
    <2>3. Unrecorded(wk'[w], keys, States')
        BY <1>2, <2>1, <2>2 DEF Unrecorded, FreshInv
    <2> QED
        BY <1>1, <1>3, <2>3, FreshMoves
<1> QED
    BY <1>4, <1>5 DEF Claim

\* What changes the steps between two of them leaves none pending and
\* none succeeded.
LEMMA BetweenSteps ==
    ASSUME IndInv, NEW w \in Workers,
           \/ Deliver(w) \/ CheckCancellation(w) \/ LoadSteps(w) \/ SkipBlocked(w)
           \/ SettleRun(w) \/ CancelLoad(w) \/ CancelStep(w) \/ Raise(w)
           \/ ReleaseLease(w) \/ Crash(w) \/ Restart(w)
    PROVE  /\ UNCHANGED keys
           /\ \A s \in Steps : States'[s] \in {"pending", "succeeded"} => States'[s] = States[s]
<1>1. rows \in [Steps -> RowType]
    BY DEF IndInv, TypeOK
<1>2. CASE \/ Deliver(w) \/ CheckCancellation(w) \/ LoadSteps(w) \/ SettleRun(w)
           \/ CancelLoad(w) \/ Crash(w) \/ Restart(w)
    BY <1>2 DEF Deliver, CheckCancellation, LoadSteps, SettleRun, CancelLoad, Crash, Restart, States
<1>3. ASSUME NEW s, NEW state \in {"skipped", "cancelled"}, rows' = [rows EXCEPT ![s] = Row(state, 0)]
      PROVE  \A t \in Steps : States'[t] \in {"pending", "succeeded"} => States'[t] = States[t]
    <2>1. Row(state, 0).state = state
        BY DEF Row
    <2> QED
        BY <1>1, <1>3, <2>1 DEF States
<1>4. CASE SkipBlocked(w) \/ CancelStep(w)
    BY <1>3, <1>4 DEF SkipBlocked, CancelStep
<1>5. CASE Raise(w) \/ ReleaseLease(w)
    <2>1. wk[w] \in WorkerType /\ (wk[w].pc = "release" => wk[w].cur \in Steps)
        BY LocalFacts, CurrentStep DEF Executing
    <2>2. wk[w].cur # None => wk[w].cur \in Steps
        BY <2>1 DEF WorkerType
    <2>3. \A t \in Steps : rows'[t].state = rows[t].state
        BY <1>5, <2>1, <2>2, ReleasedSameStates DEF Raise, ReleaseLease, At
    <2> QED
        BY <1>5, <2>3 DEF Raise, ReleaseLease, States
<1> QED
    BY <1>2, <1>4, <1>5

LEMMA NextFresh ==
    ASSUME \A v, w \in Workers : v = w, MaxReplays = 0, IndInv, BudgetInv, FreshInv, [Next]_vars
    PROVE  FreshInv'
<1>1. ASSUME NEW w \in Workers,
             \/ Deliver(w) \/ CheckCancellation(w) \/ LoadSteps(w) \/ SkipBlocked(w)
             \/ SettleRun(w) \/ CancelLoad(w) \/ CancelStep(w) \/ Raise(w)
             \/ ReleaseLease(w) \/ Crash(w) \/ Restart(w)
      PROVE  FreshInv'
    BY <1>1, BetweenSteps, HandsEmpty, FreshMoves DEF Unrecorded
<1>2. ASSUME NEW w \in Workers,
             ReadState(w) \/ WriteState(w) \/ AcquireLease(w) \/ AdvanceTo(w) \/ CheckKey(w)
      PROVE  FreshInv'
    <2>1. UNCHANGED keys /\ \A s \in Steps : rows'[s].state = rows[s].state
        <3>1. CASE AcquireLease(w)
            <4>1. wk[w].cur \in Steps
                BY <3>1, CurrentStep DEF AcquireLease, At, Executing
            <4> QED
                BY <3>1, <4>1 DEF AcquireLease, IndInv, TypeOK, RowType
        <3> QED
            BY <1>2, <3>1 DEF ReadState, WriteState, AdvanceTo, CheckKey
    <2>2. States' = States
        BY <2>1 DEF States
    <2>3. Unrecorded(wk'[w], keys, States')
        BY <1>2, <2>2, HandsKeep DEF FreshInv, Unrecorded
    <2> QED
        BY <2>1, <2>2, <2>3, FreshMoves
<1>3. ASSUME NEW w \in Workers,
             \/ Deduplicate(w) \/ StartStep(w) \/ BeginHandler(w) \/ EndHandler(w)
             \/ RecordKey(w) \/ SettleStep(w)
      PROVE  FreshInv'
    BY <1>3, StepFresh
<1>4. CASE RequestCancellation \/ Time \/ UNCHANGED vars
    <2>1. UNCHANGED << wk, keys >> /\ \A s \in Steps : rows'[s].state = rows[s].state
        BY <1>4 DEF RequestCancellation, Time, BackoffElapses, LeaseLapses, vars,
                    IndInv, TypeOK, RowType
    <2>2. States' = States
        BY <2>1 DEF States
    <2> QED
        BY <2>1, <2>2 DEF FreshInv
<1>5. CASE \E s \in Steps : Replay(s)
    BY <1>5 DEF Replay, IndInv, TypeOK
<1>6. ASSUME NEW w \in Workers, Claim(w) PROVE FreshInv'
    BY <1>6, ClaimFresh
<1> QED
    BY <1>1, <1>2, <1>3, <1>4, <1>5, <1>6 DEF Next, RunStep, ExecuteStep

\* With one delivery at a time and no replay, completed work is on record for
\* no step that is still to be done.
THEOREM FreshHolds ==
    ASSUME \A v, w \in Workers : v = w, MaxReplays = 0
    PROVE  Spec => []FreshInv
<1>1. Init => FreshInv
    BY DEF Init, IdleWorker, FreshInv, Unrecorded, Recorded
<1>2. IndInv /\ BudgetInv /\ FreshInv /\ [Next]_vars => FreshInv'
    BY NextFresh
<1> QED
    BY <1>1, <1>2, Invariance, BudgetHolds, PTL DEF Spec

(***************************************************************************)
(* An assessment on the engine.  Every step of the run is a step of the    *)
(* engine, so what the engine keeps holds of the run; what it reports and  *)
(* stores rests on the steps behind it.                                    *)
(***************************************************************************)
LEMMA CollectorNames ==
    Collectors \cap {"plan", "normalize", "evaluate", "score", "assess.assets", "findings",
                     "agent_analysis", "report"} = {}
<1>1. \A i \in 1..Len(CollectorOrder) :
         CollectorOrder[i] \notin {"plan", "normalize", "evaluate", "score", "assess.assets",
                                   "findings", "agent_analysis", "report"}
    BY DEF CollectorOrder
<1> QED
    BY <1>1, CollectorAssumption

\* The steps that the evidence passes through, and what they wait for.
LEMMA EvidencePath ==
    ASSUME OnAssessmentGraph
    PROVE
    /\ Collectors \subseteq Steps
    /\ {"normalize", "evaluate", "score", "findings", "report"} \subseteq Steps
    /\ Deps["normalize"] = Collectors
    /\ Deps["evaluate"] = {"normalize"}
    /\ Deps["score"] = {"evaluate"}
    /\ Deps["findings"] = {"score", "assess.assets"}
    /\ Deps["report"] = {"findings"}
    /\ {"normalize", "evaluate", "score", "findings", "report"} \cap Optional = {}
<1>1. /\ Collectors \subseteq Steps
      /\ {"normalize", "evaluate", "score", "findings", "report"} \subseteq Steps
    BY DEF OnAssessmentGraph, AssessmentSteps
<1>2. Deps["normalize"] = Collectors
    BY <1>1, CollectorNames DEF OnAssessmentGraph, AssessmentDeps
<1>3. Deps["evaluate"] = {"normalize"}
    BY <1>1, CollectorNames DEF OnAssessmentGraph, AssessmentDeps
<1>4. Deps["score"] = {"evaluate"}
    BY <1>1, CollectorNames DEF OnAssessmentGraph, AssessmentDeps
<1>5. Deps["findings"] = {"score", "assess.assets"}
    BY <1>1, CollectorNames DEF OnAssessmentGraph, AssessmentDeps
<1>6. Deps["report"] = {"findings"}
    BY <1>1, CollectorNames DEF OnAssessmentGraph, AssessmentDeps
<1>7. {"normalize", "evaluate", "score", "findings", "report"} \cap Optional = {}
    BY CollectorNames DEF OnAssessmentGraph, AssessmentOptional
<1> QED
    BY <1>1, <1>2, <1>3, <1>4, <1>5, <1>6, <1>7

(***************************************************************************)
(* The run is a behaviour of the engine.                                   *)
(***************************************************************************)
LEMMA RunStepsTheEngine ==
    ASSUME [RunNext]_allVars
    PROVE  [Next]_vars
<1>1. CASE UNCHANGED allVars
    BY <1>1 DEF allVars
<1>2. ASSUME NEW w \in Workers, Bookkeeping(w) PROVE Next
    BY <1>2 DEF Bookkeeping, Next, ExecuteStep
<1>3. CASE RunNext
    BY <1>2, <1>3 DEF RunNext, Begin, Die, Next, ExecuteStep
<1> QED
    BY <1>1, <1>3

\* Every run of an assessment is a run of the engine.
THEOREM RunsOnTheEngine == RunSpec => Spec
<1>1. RunInit => Init
    BY DEF RunInit
<1> QED
    BY <1>1, RunStepsTheEngine, PTL DEF RunSpec, Spec

(***************************************************************************)
(* What the report rests on.                                               *)
(***************************************************************************)
\* A required dependency that counts as settled has recorded its work.
LEMMA RequiredSettles ==
    ASSUME NEW s \in Steps, s \notin Optional, DependencySettled(s, States)
    PROVE  rows[s].state = "succeeded"
BY DEF DependencySettled, States

\* A step that may start has a chain of required work behind it.
LEMMA ChainBehind ==
    ASSUME OnAssessmentGraph, OrderInv
    PROVE  /\ DependencySettled("normalize", States) =>
                  rows["normalize"].state = "succeeded"
           /\ DependencySettled("findings", States) =>
                  \A s \in {"normalize", "evaluate", "score", "findings"} :
                      rows[s].state = "succeeded"
<1>1. \A s \in {"normalize", "evaluate", "score", "findings"} :
          DependencySettled(s, States) => rows[s].state = "succeeded" /\ States[s] = "succeeded"
    BY EvidencePath, RequiredSettles DEF States
<1>2. \A s \in {"evaluate", "score", "findings"} :
          States[s] = "succeeded" => \A d \in Deps[s] : DependencySettled(d, States)
    BY EvidencePath DEF OrderInv, InOrder, CalledStates
<1> QED
    BY <1>1, <1>2, EvidencePath

LEMMA OrderGivesReport ==
    ASSUME OnAssessmentGraph
    PROVE  OrderInv => ReportRestsOnScore
<1> SUFFICES ASSUME OrderInv, Ran("report")
             PROVE  \A s \in {"normalize", "evaluate", "score", "findings"} :
                        rows[s].state = "succeeded"
    BY DEF ReportRestsOnScore
<1>1. States["report"] \in CalledStates
    BY EvidencePath DEF Ran, States, CalledStates
<1>2. DependencySettled("findings", States)
    BY <1>1, EvidencePath DEF OrderInv, InOrder
<1> QED
    BY <1>2, ChainBehind

(***************************************************************************)
(* The evidence.  A context that holds observations was normalized when    *)
(* every collector had settled, and a step that has settled stays as it is.*)
(***************************************************************************)
ContextType ==
    [collection : Contents, observations : Contents,
     evaluations : Contents, snapshot : Contents \cup {None}]

\* The work of a collector is done, and its row says so or is about to.
Accomplished(local, R, c) ==
    \/ R[c].state = "succeeded"
    \/ local.cur = c /\ local.pc \in {"record", "settle"} /\ local.result = "ok"

\* What is held of a collector is usable only if its work is done, and
\* unusable only if it is not.
Holds(context, local, R) ==
    \A c \in Collectors :
        /\ context.collection[c] = "usable" => Accomplished(local, R, c)
        /\ context.collection[c] = "unusable" => ~Accomplished(local, R, c)

\* A collector that reads another one's evidence does its work after it.
SourcesFirst(local, R) ==
    \A c \in Collectors :
        ReadsFrom(c) \in Collectors /\ Accomplished(local, R, c) =>
            R[ReadsFrom(c)].state = "succeeded"

\* Observations that say of every collector how its step ended.
Tells(observations, R) ==
    \A c \in Collectors :
        /\ R[c].state \in TerminalStepStates
        /\ (observations[c] = "usable") <=> (R[c].state = "succeeded")

SeesEverything(context, R) ==
    context.observations # NothingCollected => Tells(context.observations, R)

EvidenceInv ==
    /\ memory \in [Workers -> ContextType]
    /\ \A w \in Workers : /\ Holds(memory[w], wk[w], rows)
                          /\ SourcesFirst(wk[w], rows)
                          /\ SeesEverything(memory[w], rows)
    /\ StoredEvidenceWasEarned
    /\ stored # NoRows => Tells(stored.observations, rows)

LEMMA FreshContextSees ==
    /\ FreshContext \in ContextType /\ FreshContext.observations = NothingCollected
    /\ FreshContext.snapshot = None
    /\ \A c \in Collectors : FreshContext.collection[c] = "none"
BY DEF FreshContext, ContextType, Contents, NothingCollected

\* What observations tell stays true after a step that moves no settled row.
LEMMA StillTells ==
    ASSUME OnAssessmentGraph, Stays, NEW observations, Tells(observations, rows)
    PROVE  Tells(observations, rows')
<1>1. \A c \in Collectors : rows[c].state \in TerminalStepStates =>
                                rows'[c].state = rows[c].state
    BY EvidencePath DEF Stays
<1> QED
    BY <1>1 DEF Tells

LEMMA StillSees ==
    ASSUME OnAssessmentGraph, Stays, NEW context, SeesEverything(context, rows)
    PROVE  SeesEverything(context, rows')
BY StillTells DEF SeesEverything

\* The rows a report rests on stay as they are.
LEMMA StillEarned ==
    ASSUME OnAssessmentGraph, Stays, StoredEvidenceWasEarned, UNCHANGED stored
    PROVE  StoredEvidenceWasEarned'
<1>1. \A s \in {"normalize", "evaluate", "score"} :
          rows[s].state = "succeeded" => rows'[s].state = "succeeded"
    BY EvidencePath DEF Stays, TerminalStepStates
<1> QED
    BY <1>1 DEF StoredEvidenceWasEarned

\* The collectors do their work in its order, as far as no work is added.
LEMMA StillFirst ==
    ASSUME OnAssessmentGraph, Stays, NEW local, NEW next, SourcesFirst(local, rows),
           \A c \in Collectors : Accomplished(next, rows', c) => Accomplished(local, rows, c)
    PROVE  SourcesFirst(next, rows')
<1>1. \A c \in Collectors : rows[c].state = "succeeded" => rows'[c].state = "succeeded"
    BY EvidencePath DEF Stays, TerminalStepStates
<1> QED
    BY <1>1 DEF SourcesFirst

\* A delivery that writes its context and stores nothing.
LEMMA EvidenceMoves ==
    ASSUME OnAssessmentGraph, EvidenceInv, Stays, NEW w \in Workers, \A v \in Workers : v = w,
           NEW context \in ContextType, Remember(w, context), UNCHANGED stored,
           Holds(context, wk'[w], rows'), SourcesFirst(wk'[w], rows'),
           SeesEverything(context, rows')
    PROVE  EvidenceInv'
<1>1. memory' \in [Workers -> ContextType] /\ memory'[w] = context
    BY DEF EvidenceInv, Remember
<1>2. StoredEvidenceWasEarned' /\ (stored' # NoRows => Tells(stored'.observations, rows'))
    BY StillEarned, StillTells DEF EvidenceInv
<1> QED
    BY <1>1, <1>2 DEF EvidenceInv

\* A delivery that leaves its context, what is stored and what is done alone.
LEMMA EvidenceKeeps ==
    ASSUME OnAssessmentGraph, EvidenceInv, Stays, UNCHANGED runVars,
           \A w \in Workers : \A c \in Collectors :
               Accomplished(wk'[w], rows', c) <=> Accomplished(wk[w], rows, c)
    PROVE  EvidenceInv'
<1>1. memory' = memory /\ stored' = stored
    BY DEF runVars
<1>2. \A w \in Workers : Holds(memory[w], wk'[w], rows')
    BY DEF EvidenceInv, Holds
<1>3. \A w \in Workers : SourcesFirst(wk'[w], rows')
    BY StillFirst DEF EvidenceInv
<1>4. \A w \in Workers : SeesEverything(memory[w], rows')
    BY StillSees DEF EvidenceInv
<1>5. StoredEvidenceWasEarned' /\ (stored # NoRows => Tells(stored.observations, rows'))
    BY <1>1, StillEarned, StillTells DEF EvidenceInv
<1> QED
    BY <1>1, <1>2, <1>3, <1>4, <1>5 DEF EvidenceInv

\* The same where one delivery is all there is.
LEMMA EvidenceKeepsOne ==
    ASSUME OnAssessmentGraph, EvidenceInv, Stays, UNCHANGED runVars,
           NEW w \in Workers, \A v \in Workers : v = w,
           \A c \in Collectors : Accomplished(wk'[w], rows', c) <=> Accomplished(wk[w], rows, c)
    PROVE  EvidenceInv'
<1>1. \A v \in Workers : \A c \in Collectors :
          Accomplished(wk'[v], rows', c) <=> Accomplished(wk[v], rows, c)
    OBVIOUS
<1> QED
    BY <1>1, EvidenceKeeps

\* What the handler of a delivery reads of the steps.
LEMMA HandlerReads ==
    ASSUME IndInv, OrderInv, NEW w \in Workers, EndHandler(w)
    PROVE  /\ wk[w].cur \in Steps /\ UNCHANGED rows
           /\ \A d \in Deps[wk[w].cur] : DependencySettled(d, States)
           /\ rows[wk[w].cur].state # "succeeded"
<1>1. wk[w].pc = "work" /\ UNCHANGED rows
    BY DEF EndHandler, At
<1>2. wk[w].cur \in Steps /\ wk[w].cur \in wk[w].todo
    BY <1>1, CurrentStep DEF Executing
<1>3. wk[w].cur # None
    BY <1>2, WorkerAssumption
<1>4. rows[wk[w].cur].state \in Open
    BY <1>1, <1>2, <1>3 DEF OrderInv, Chosen, States
<1> QED
    BY <1>1, <1>2, <1>3, <1>4 DEF OrderInv, Chosen, Open

\* The steps of a handler.
LEMMA HandlerAt ==
    ASSUME IndInv, NEW w \in Workers, EndHandler(w)
    PROVE  /\ wk'[w].pc \in {"record", "settle"} /\ wk'[w].cur = wk[w].cur
           /\ wk[w].pc = "work" /\ UNCHANGED << rows, keys >>
           /\ wk'[w].pc = "record" => wk'[w].result \in {"ok", "skip"}
           /\ wk'[w].result = "ok" => wk'[w].pc = "record"
<1>1. wk \in [Workers -> WorkerType]
    BY DEF IndInv, TypeOK
<1>2. PICK outcome :
          Goto(w, IF outcome \in {"ok", "skip"} THEN "record" ELSE "settle",
               [wk[w] EXCEPT !.result = outcome])
    BY DEF EndHandler
<1>3. /\ wk'[w].pc = IF outcome \in {"ok", "skip"} THEN "record" ELSE "settle"
      /\ wk'[w].cur = wk[w].cur /\ wk'[w].result = outcome
    BY <1>1, <1>2 DEF Goto, WorkerType
<1> QED
    BY <1>3 DEF EndHandler, At

\* A handler that has ended has done its work if it says so, and none else has.
LEMMA HandlerAccomplishes ==
    ASSUME IndInv, OrderInv, NEW w \in Workers, EndHandler(w)
    PROVE  /\ \A c : Accomplished(wk[w], rows, c) <=> rows[c].state = "succeeded"
           /\ \A c : c # wk[w].cur =>
                 (Accomplished(wk'[w], rows', c) <=> rows[c].state = "succeeded")
           /\ Accomplished(wk'[w], rows', wk[w].cur) <=> Reported(w, "ok")
<1>1. rows[wk[w].cur].state # "succeeded"
    BY HandlerReads
<1> QED
    BY <1>1, HandlerAt DEF Accomplished, Reported

\* Between handlers, nothing is done and nothing is undone: what a handler has
\* done is recorded and settled as done.
LEMMA BookkeepingAccomplishes ==
    ASSUME IndInv, FreshInv, Stays, NEW w \in Workers, Bookkeeping(w)
    PROVE  \A c \in Steps : Accomplished(wk'[w], rows', c) <=> Accomplished(wk[w], rows, c)
<1> DEFINE s == wk[w].cur
<1>1. wk \in [Workers -> WorkerType] /\ rows \in [Steps -> RowType] /\ None \notin Steps
    BY WorkerAssumption DEF IndInv, TypeOK
<1>2. wk[w].pc \in {"start", "begin", "record", "settle"} => s \in Steps /\ s # None
    BY CurrentStep, WorkerAssumption DEF Executing
<1>3. \A c \in Steps : rows[c].state = "succeeded" => rows'[c].state = "succeeded"
    BY DEF Stays, TerminalStepStates
<1>4. ASSUME wk[w].pc \notin {"record", "settle"},
             \A c \in Steps : rows'[c].state = "succeeded" => rows[c].state = "succeeded",
             \/ wk'[w].cur = None \/ wk'[w].pc \notin {"record", "settle"}
             \/ wk'[w].result # "ok"
      PROVE  \A c \in Steps : Accomplished(wk'[w], rows', c) <=> Accomplished(wk[w], rows, c)
    BY <1>1, <1>3, <1>4 DEF Accomplished
<1>5. CASE \/ CheckCancellation(w) \/ LoadSteps(w) \/ SkipBlocked(w)
           \/ SettleRun(w) \/ CancelLoad(w) \/ CancelStep(w) \/ Raise(w)
           \/ ReleaseLease(w) \/ Restart(w)
    <2>1. wk[w].pc \notin {"record", "settle"}
        BY <1>5 DEF CheckCancellation, LoadSteps, SkipBlocked, SettleRun, CancelLoad, CancelStep,
                    Raise, ReleaseLease, Restart, At
    <2>2. \A c \in Steps : States'[c] = "succeeded" => States[c] = "succeeded"
        BY <1>5, BetweenSteps
    <2> QED
        BY <1>4, <1>5, <2>1, <2>2, HandsEmpty DEF States
<1>6. CASE ReadState(w) \/ WriteState(w) \/ AcquireLease(w) \/ AdvanceTo(w) \/ CheckKey(w)
    <2>1. wk[w].pc \notin {"record", "settle"}
        BY <1>6 DEF ReadState, WriteState, AcquireLease, AdvanceTo, CheckKey, At
    <2>2. \A c \in Steps : rows'[c].state = rows[c].state
        <3>1. CASE AcquireLease(w)
            <4>1. s \in Steps
                BY <3>1, CurrentStep DEF AcquireLease, At, Executing
            <4> QED
                BY <1>1, <3>1, <4>1 DEF AcquireLease, RowType
        <3> QED
            BY <1>6, <3>1 DEF ReadState, WriteState, AdvanceTo, CheckKey
    <2> QED
        BY <1>4, <1>6, <2>1, <2>2, HandsKeep
<1>7. CASE Claim(w)
    <2>1. wk[w].pc = "claim" /\ UNCHANGED rows
        BY <1>7 DEF Claim, At
    <2>2. wk'[w].pc \notin {"record", "settle"} \/ wk'[w].cur = None
        <3>1. ASSUME NEW rest, NEW moved, NextStep(w, rest, moved) PROVE wk'[w].cur = None
            BY <3>1, NextStepHands
        <3>2. ASSUME NEW c, NEW attempt,
                     Goto(w, "acquire", [wk[w] EXCEPT !.cur = c, !.attempt = attempt])
              PROVE  wk'[w].pc = "acquire"
            BY <1>1, <3>2 DEF Goto, WorkerType
        <3> QED
            BY <1>7, <3>1, <3>2 DEF Claim
    <2> QED
        BY <1>4, <2>1, <2>2
<1>8. CASE StartStep(w)
    <2>1. wk[w].pc = "start" /\ wk'[w].pc = "begin"
        BY <1>1, <1>8 DEF StartStep, At, Goto, WorkerType
    <2>2. \A c \in Steps : rows'[c].state = "succeeded" => rows[c].state = "succeeded"
        BY <1>1, <1>2, <1>8, <2>1 DEF StartStep
    <2> QED
        BY <1>4, <2>1, <2>2
<1>9. CASE BeginHandler(w)
    <2>1. wk[w].pc = "begin" /\ UNCHANGED rows
        BY <1>9 DEF BeginHandler, At
    <2>2. CASE cancelRequested
        <3>1. Goto(w, "settle", [wk[w] EXCEPT !.result = "cancelled"])
            BY <1>9, <2>2 DEF BeginHandler
        <3>2. wk'[w].result = "cancelled"
            BY <1>1, <3>1 DEF Goto, WorkerType
        <3> QED
            BY <1>4, <2>1, <3>2
    <2>3. CASE ~cancelRequested
        <3>1. wk'[w].pc = "work"
            BY <1>1, <1>9, <2>3 DEF BeginHandler, Goto, WorkerType
        <3> QED
            BY <1>4, <2>1, <3>1
    <2> QED
        BY <2>2, <2>3
<1>10. CASE Deduplicate(w)
    <2>1. wk[w].pc = "dedup" /\ Recorded(keys, s) /\ s \in Steps /\ s # None
        BY <1>10, LocalFacts, CurrentStep, WorkerAssumption DEF Deduplicate, At, Earned, Executing
    <2> QED
        BY <2>1 DEF FreshInv, Unrecorded
<1>11. CASE RecordKey(w)
    <2>1. /\ wk[w].pc = "record" /\ UNCHANGED rows
          /\ wk'[w].pc = "settle" /\ wk'[w].cur = s /\ wk'[w].result = wk[w].result
        BY <1>1, <1>11 DEF RecordKey, At, Goto, WorkerType
    <2> QED
        BY <2>1 DEF Accomplished
<1>12. CASE SettleStep(w)
    <2> DEFINE row == SettledRow(s, wk[w].result, wk[w].attempt)
    <2>1. /\ wk[w].pc = "settle" /\ wk'[w].pc = "release"
          /\ wk[w].result \in {"ok", "skip", "retry", "fail", "cancelled"}
        BY <1>1, <1>12, LocalFacts DEF SettleStep, At, Goto, WorkerType, Fits
    <2>2. rows' = [rows EXCEPT ![s] = row]
        BY <1>12 DEF SettleStep
    <2>3. row.state = "succeeded" <=> wk[w].result = "ok"
        BY <2>1 DEF SettledRow, Row
    <2> HIDE DEF row
    <2>4. \A c \in Steps : rows'[c].state = IF c = s THEN row.state ELSE rows[c].state
        BY <1>1, <2>2
    <2>5. rows[s].state # "succeeded"
        BY <1>2, <2>1 DEF FreshInv, Unrecorded, States
    <2> QED
        BY <1>2, <2>1, <2>3, <2>4, <2>5 DEF Accomplished
<1> QED
    BY <1>5, <1>6, <1>7, <1>8, <1>9, <1>10, <1>11, <1>12 DEF Bookkeeping, RunStep

\* A collector that has its source, and whose source has succeeded.
LEMMA CollectEvidence ==
    ASSUME OnAssessmentGraph, IndInv, OrderInv, EvidenceInv, Stays, NEW w \in Workers,
           \A v \in Workers : v = w, EndHandler(w), Collect(w)
    PROVE  EvidenceInv'
<1> DEFINE c0 == wk[w].cur
           context(result) == [memory[w] EXCEPT !.collection[c0] = result]
<1>1. /\ memory[w] \in ContextType /\ c0 \in Collectors /\ UNCHANGED << rows, stored >>
      /\ Holds(memory[w], wk[w], rows) /\ SourcesFirst(wk[w], rows)
      /\ SeesEverything(memory[w], rows)
    BY HandlerAt DEF EvidenceInv, Collect
<1>2. rows[c0].state # "succeeded"
    BY HandlerReads
<1>3. ASSUME Reported(w, "ok") => Sees(memory[w].collection, c0)
      PROVE  SourcesFirst(wk'[w], rows')
    <2> SUFFICES ASSUME NEW c \in Collectors, ReadsFrom(c) \in Collectors,
                        Accomplished(wk'[w], rows', c)
                 PROVE  rows[ReadsFrom(c)].state = "succeeded"
        BY <1>1 DEF SourcesFirst
    <2>1. CASE c = c0
        <3>1. memory[w].collection[ReadsFrom(c)] = "usable"
            BY <1>3, <2>1, HandlerAccomplishes DEF Sees
        <3> QED
            BY <1>1, <3>1, HandlerAccomplishes DEF Holds
    <2>2. CASE c # c0
        BY <1>1, <2>2, HandlerAccomplishes DEF SourcesFirst
    <2> QED
        BY <2>1, <2>2
<1>4. \A c \in Collectors : rows[c].state = "succeeded" <=> Accomplished(wk[w], rows, c)
    BY HandlerAccomplishes
<1>5. ASSUME NEW result \in {"unusable", "usable"}, Kept(w, result),
             (result = "usable") <=> Reported(w, "ok"), SourcesFirst(wk'[w], rows')
      PROVE  EvidenceInv'
    <2>1. /\ context(result) \in ContextType
          /\ context(result).observations = memory[w].observations
          /\ \A c \in Collectors : context(result).collection[c] =
                 IF c = c0 THEN result ELSE memory[w].collection[c]
        BY <1>1 DEF ContextType, Contents
    <2>2. Remember(w, context(result))
        BY <1>5 DEF Kept
    <2> HIDE DEF context
    <2>3. Holds(context(result), wk'[w], rows')
        BY <1>1, <1>4, <1>5, <2>1, HandlerAccomplishes DEF Holds
    <2>4. SeesEverything(context(result), rows')
        BY <1>1, <2>1 DEF SeesEverything
    <2> QED
        BY <1>1, <1>5, <2>1, <2>2, <2>3, <2>4, EvidenceMoves
<1>6. CASE Reported(w, "ok") /\ Sees(memory[w].collection, c0) /\ Kept(w, "usable")
    BY <1>3, <1>5, <1>6
<1>7. CASE ~Reported(w, "ok") /\ Kept(w, "unusable")
    BY <1>3, <1>5, <1>7
<1>8. CASE ~Reported(w, "ok") /\ UNCHANGED memory
    <2>1. \A c \in Collectors : Accomplished(wk'[w], rows', c) <=> Accomplished(wk[w], rows, c)
        BY <1>2, <1>8, HandlerAccomplishes
    <2> QED
        BY <1>1, <1>8, <2>1, EvidenceKeepsOne DEF runVars
<1>9. Reported(w, "skip") \/ Reported(w, "fail") \/ Reported(w, "retry") => ~Reported(w, "ok")
    BY DEF Reported
<1> QED
    BY <1>6, <1>7, <1>8, <1>9 DEF Collect

\* Every collector is recovered in its turn, after the one that it reads from,
\* and that one reads from none.
LEMMA RecoveryTurns ==
    /\ Len(RecoveryOrder) = 10
    /\ \A c \in Collectors : \E i \in 1..10 : RecoveryOrder[i] = c
    /\ \A c \in Collectors : ReadsFrom(c) \in Collectors =>
          /\ ReadsFrom(ReadsFrom(c)) \notin Collectors
          /\ \A k \in 0..10 : (\E i \in 1..k : RecoveryOrder[i] = c) =>
                \E j \in 1..k : RecoveryOrder[j] = ReadsFrom(c)
<1>1. /\ Len(RecoveryOrder) = 10
      /\ RecoveryOrder[1] = "collect.dns" /\ RecoveryOrder[2] = "collect.email"
      /\ RecoveryOrder[3] = "collect.tls" /\ RecoveryOrder[4] = "collect.http"
      /\ RecoveryOrder[5] = "collect.rdap" /\ RecoveryOrder[6] = "collect.ct"
      /\ RecoveryOrder[7] = "collect.ports" /\ RecoveryOrder[8] = "collect.asn"
      /\ RecoveryOrder[9] = "collect.mail_tls" /\ RecoveryOrder[10] = "collect.reputation"
    BY DEF RecoveryOrder
<1>2. \A c \in Collectors :
          c \in {"collect.dns", "collect.email", "collect.tls", "collect.http", "collect.rdap",
                 "collect.ct", "collect.ports", "collect.asn", "collect.mail_tls",
                 "collect.reputation"}
    <2>1. \A i \in 1..Len(CollectorOrder) :
             CollectorOrder[i] \in
                {"collect.dns", "collect.email", "collect.tls", "collect.http", "collect.rdap",
                 "collect.ct", "collect.ports", "collect.asn", "collect.mail_tls",
                 "collect.reputation"}
        BY DEF CollectorOrder
    <2> QED
        BY <2>1, CollectorAssumption
<1>3. \A c \in Collectors : \E i \in 1..10 : RecoveryOrder[i] = c
    BY <1>1, <1>2
<1>4. ASSUME NEW c \in Collectors, ReadsFrom(c) \in Collectors
      PROVE  \/ c = "collect.asn" /\ ReadsFrom(c) = "collect.dns"
             \/ c = "collect.mail_tls" /\ ReadsFrom(c) = "collect.email"
    BY <1>4, CollectorNames DEF ReadsFrom
<1>5. ASSUME NEW c \in Collectors, ReadsFrom(c) \in Collectors
      PROVE  ReadsFrom(ReadsFrom(c)) \notin Collectors
    <2>1. ReadsFrom("collect.dns") = "plan" /\ ReadsFrom("collect.email") = "plan"
        BY DEF ReadsFrom
    <2> QED
        BY <1>4, <1>5, <2>1, CollectorNames
<1>6. ASSUME NEW c \in Collectors, ReadsFrom(c) \in Collectors, NEW k \in 0..10,
             NEW i \in 1..k, RecoveryOrder[i] = c
      PROVE  \E j \in 1..k : RecoveryOrder[j] = ReadsFrom(c)
    <2>1. i \in 1..10 /\ (c = "collect.asn" => i = 8) /\ (c = "collect.mail_tls" => i = 9)
        BY <1>1, <1>6
    <2>2. k >= 8 /\ 1 \in 1..k /\ 2 \in 1..k
        BY <1>4, <1>6, <2>1
    <2> QED
        BY <1>1, <1>4, <1>6, <2>2
<1> QED
    BY <1>1, <1>3, <1>5, <1>6

\* A collection with nothing new but usable results of what succeeded, and one
\* with all of them.
Regains(collection, context, R) ==
    \A c \in Collectors :
        \/ collection[c] = context.collection[c]
        \/ collection[c] = "usable" /\ R[c].state = "succeeded"

HasAll(collection, R) ==
    \A c \in Collectors : R[c].state = "succeeded" => collection[c] = "usable"

\* What is recovered is usable: the collector that it reads from has succeeded
\* before, and is held or recovered first.
LEMMA RecoveredIsUsable ==
    ASSUME OnAssessmentGraph, RecollectionFails = FALSE, EvidenceInv, NEW w \in Workers,
           \A c \in Collectors : Accomplished(wk[w], rows, c) <=> rows[c].state = "succeeded",
           NEW k \in 0..10, NEW collection \in Recovered(w, k)
    PROVE  /\ collection \in Contents
           /\ Regains(collection, memory[w], rows)
           /\ k = 10 => HasAll(collection, rows)
<1> DEFINE reached == {c \in Lost(w) : \E i \in 1..k : RecoveryOrder[i] = c}
<1>1. /\ collection \in Contents
      /\ \A c \in Collectors : IF c \in reached THEN collection[c] \in Answers(collection, c)
                                                ELSE collection[c] = memory[w].collection[c]
    BY DEF Recovered
<1>2. \A c \in reached : c \in Collectors /\ c \in Lost(w) /\ rows[c].state = "succeeded"
    BY DEF Lost
<1>3. \A c \in Collectors : Sees(collection, c) /\ c \in reached => collection[c] = "usable"
    BY <1>1 DEF Answers
<1>4. \A c \in Collectors : rows[c].state = "succeeded" =>
          c \in Lost(w) \/ memory[w].collection[c] = "usable"
    <2>1. memory[w].collection \in Contents /\ Holds(memory[w], wk[w], rows)
        BY DEF EvidenceInv, ContextType
    <2> QED
        BY <2>1 DEF Contents, Holds, Lost
<1>5. ASSUME NEW c \in reached PROVE Sees(collection, c)
    <2> SUFFICES ASSUME ReadsFrom(c) \in Collectors PROVE collection[ReadsFrom(c)] = "usable"
        BY DEF Sees
    <2> DEFINE d == ReadsFrom(c)
    <2>1. rows[d].state = "succeeded"
        BY <1>2 DEF EvidenceInv, SourcesFirst
    <2>2. CASE d \in reached
        <3>1. Sees(collection, d)
            BY <1>2, RecoveryTurns DEF Sees
        <3> QED
            BY <1>3, <2>2, <3>1
    <2>3. CASE d \notin reached
        <3>1. \E j \in 1..k : RecoveryOrder[j] = d
            BY <1>2, RecoveryTurns
        <3>2. d \notin Lost(w)
            BY <2>3, <3>1
        <3> QED
            BY <1>1, <1>4, <2>1, <2>3, <3>2
    <2> QED
        BY <2>2, <2>3
<1>6. \A c \in reached : collection[c] = "usable"
    BY <1>2, <1>3, <1>5
<1>7. k = 10 => \A c \in Lost(w) : c \in reached
    BY RecoveryTurns DEF Lost
<1>8. ASSUME k = 10, NEW c \in Collectors, rows[c].state = "succeeded"
      PROVE  collection[c] = "usable"
    BY <1>1, <1>4, <1>6, <1>7, <1>8
<1> HIDE DEF reached
<1> QED
    BY <1>1, <1>2, <1>6, <1>8 DEF Regains, HasAll

\* Normalization reads every collector that has succeeded.
LEMMA NormalizeEvidence ==
    ASSUME OnAssessmentGraph, RecollectionFails = FALSE, IndInv, OrderInv, EvidenceInv, Stays,
           NEW w \in Workers, \A v \in Workers : v = w, EndHandler(w), Normalize(w)
    PROVE  EvidenceInv'
<1>1. /\ memory[w] \in ContextType /\ Holds(memory[w], wk[w], rows)
      /\ SourcesFirst(wk[w], rows) /\ SeesEverything(memory[w], rows)
      /\ UNCHANGED << rows, stored >> /\ wk[w].cur = "normalize"
    BY HandlerAt DEF EvidenceInv, Normalize
<1>2. \A c \in Collectors : /\ Accomplished(wk[w], rows, c) <=> rows[c].state = "succeeded"
                            /\ Accomplished(wk'[w], rows', c) <=> rows[c].state = "succeeded"
    BY <1>1, HandlerAccomplishes, CollectorNames
<1>3. SourcesFirst(wk'[w], rows')
    BY <1>1, <1>2, StillFirst
<1>4. \A c \in Collectors : rows[c].state \in TerminalStepStates
    <2>1. \A c \in Collectors : DependencySettled(c, States)
        BY <1>1, HandlerReads, EvidencePath
    <2> QED
        BY <2>1, EvidencePath DEF DependencySettled, States, TerminalStepStates
<1>5. ASSUME NEW k \in 0..10, NEW collection \in Recovered(w, k), NEW context \in ContextType,
             context.collection = collection, Remember(w, context),
             \/ context.observations = memory[w].observations
             \/ k = 10 /\ context.observations = collection
      PROVE  EvidenceInv'
    <2> \A c \in Collectors : Accomplished(wk[w], rows, c) <=> rows[c].state = "succeeded"
        BY <1>2
    <2>1. Regains(collection, memory[w], rows) /\ (k = 10 => HasAll(collection, rows))
        BY RecoveredIsUsable
    <2>2. Holds(context, wk'[w], rows')
        BY <1>1, <1>2, <1>5, <2>1 DEF Holds, Regains
    <2>3. SeesEverything(context, rows')
        <3>1. CASE context.observations = memory[w].observations
            BY <1>1, <3>1 DEF SeesEverything
        <3>2. CASE k = 10 /\ context.observations = collection
            <4>1. \A c \in Collectors : rows[c].state = "succeeded" => collection[c] = "usable"
                BY <2>1, <3>2 DEF HasAll
            <4>2. \A c \in Collectors : collection[c] = "usable" => rows[c].state = "succeeded"
                BY <1>1, <1>2, <2>1 DEF Holds, Regains
            <4> QED
                BY <1>1, <1>4, <3>2, <4>1, <4>2 DEF SeesEverything, Tells
        <3> QED
            BY <1>5, <3>1, <3>2
    <2> QED
        BY <1>1, <1>3, <1>5, <2>2, <2>3, EvidenceMoves
<1>6. ASSUME NEW k \in 0..10, NEW collection \in Recovered(w, k)
      PROVE  /\ [memory[w] EXCEPT !.collection = collection] \in ContextType
             /\ [memory[w] EXCEPT !.collection = collection].collection = collection
             /\ [memory[w] EXCEPT !.collection = collection].observations = memory[w].observations
             /\ [memory[w] EXCEPT !.collection = collection,
                                  !.observations = collection] \in ContextType
             /\ [memory[w] EXCEPT !.collection = collection,
                                  !.observations = collection].collection = collection
             /\ [memory[w] EXCEPT !.collection = collection,
                                  !.observations = collection].observations = collection
    <2>1. collection \in Contents
        BY <1>6 DEF Recovered
    <2> QED
        BY <1>1, <2>1 DEF ContextType
<1>7. ASSUME NEW k \in 0..10, NEW collection \in Recovered(w, k),
             \/ Remember(w, [memory[w] EXCEPT !.collection = collection])
             \/ k = 10 /\ Remember(w, [memory[w] EXCEPT !.collection = collection,
                                                        !.observations = collection])
      PROVE  EvidenceInv'
    BY <1>5, <1>6, <1>7
<1>8. CASE UNCHANGED memory
    <2>1. UNCHANGED runVars
        BY <1>1, <1>8 DEF runVars
    <2> QED
        BY <1>2, <2>1, EvidenceKeepsOne
<1>9. \/ \E k \in 0..10 : \E collection \in Recovered(w, k) :
            Remember(w, [memory[w] EXCEPT !.collection = collection])
      \/ \E collection \in Recovered(w, 10) :
            Remember(w, [memory[w] EXCEPT !.collection = collection,
                                          !.observations = collection])
      \/ UNCHANGED memory
    <2>1. Len(RecoveryOrder) = 10
        BY RecoveryTurns
    <2> QED
        BY <2>1 DEF Normalize
<1>10. 10 \in 0..10
    OBVIOUS
<1> QED
    BY <1>7, <1>8, <1>9, <1>10

\* Judging what is held adds nothing to it.
LEMMA JudgeEvidence ==
    ASSUME OnAssessmentGraph, IndInv, OrderInv, EvidenceInv, Stays, NEW w \in Workers,
           \A v \in Workers : v = w, EndHandler(w), Evaluate(w) \/ Score(w)
    PROVE  EvidenceInv'
<1> DEFINE judged == [memory[w] EXCEPT !.evaluations = memory[w].observations]
           scored == [memory[w] EXCEPT !.snapshot = memory[w].evaluations]
<1>1. /\ memory[w] \in ContextType /\ Holds(memory[w], wk[w], rows)
      /\ SourcesFirst(wk[w], rows) /\ SeesEverything(memory[w], rows)
      /\ UNCHANGED << rows, stored >> /\ wk[w].cur \in {"evaluate", "score"}
    BY HandlerAt DEF EvidenceInv, Evaluate, Score
<1>2. \A c \in Collectors : Accomplished(wk'[w], rows', c) <=> Accomplished(wk[w], rows, c)
    BY <1>1, HandlerAccomplishes, CollectorNames
<1>3. Remember(w, judged) \/ Remember(w, scored)
    BY DEF Evaluate, Score
<1>4. /\ judged \in ContextType /\ judged.observations = memory[w].observations
      /\ scored \in ContextType /\ scored.observations = memory[w].observations
      /\ judged.collection = memory[w].collection /\ scored.collection = memory[w].collection
    BY <1>1 DEF ContextType
<1> HIDE DEF judged, scored
<1>5. SeesEverything(judged, rows') /\ SeesEverything(scored, rows')
    BY <1>1, <1>4 DEF SeesEverything
<1>6. Holds(judged, wk'[w], rows') /\ Holds(scored, wk'[w], rows')
    BY <1>1, <1>2, <1>4 DEF Holds
<1>7. SourcesFirst(wk'[w], rows')
    BY <1>1, <1>2, StillFirst
<1> QED
    BY <1>1, <1>3, <1>4, <1>5, <1>6, <1>7, EvidenceMoves

\* A report stores evidence, and its turn has come.
LEMMA ReportEvidence ==
    ASSUME OnAssessmentGraph, IndInv, OrderInv, EvidenceInv, Stays, NEW w \in Workers,
           \A v \in Workers : v = w, EndHandler(w), Report(w)
    PROVE  EvidenceInv'
<1> DEFINE seen == memory[w].observations
<1>1. /\ wk[w].cur = "report" /\ UNCHANGED << rows, memory >>
      /\ DependencySettled("findings", States)
    BY HandlerReads, EvidencePath DEF Report
<1>2. \A s \in {"normalize", "evaluate", "score"} : rows'[s].state = "succeeded"
    BY <1>1, ChainBehind
<1>3. StoredEvidenceWasEarned'
    BY <1>2 DEF StoredEvidenceWasEarned
<1>4. \A c \in Collectors : Accomplished(wk'[w], rows', c) <=> Accomplished(wk[w], rows, c)
    BY <1>1, HandlerAccomplishes, CollectorNames
<1>5. CASE UNCHANGED stored
    <2>1. UNCHANGED runVars
        BY <1>1, <1>5 DEF runVars
    <2> QED
        BY <1>4, <2>1, EvidenceKeepsOne
<1>6. CASE seen # NothingCollected /\ PersistAssessment(memory[w])
    <2>1. Tells(seen, rows)
        BY <1>6 DEF EvidenceInv, SeesEverything
    <2>2. stored.observations = NothingCollected \/ Tells(stored.observations, rows)
        BY DEF EvidenceInv, NoRows
    <2>3. stored'.observations = SavedObservations(memory[w])
        BY <1>6 DEF PersistAssessment
    <2>4. \A c \in Collectors :
              stored'.observations[c] =
                  IF stored.observations[c] = "none" THEN seen[c] ELSE stored.observations[c]
        BY <2>3 DEF SavedObservations
    <2>5. Tells(stored'.observations, rows)
        BY <2>1, <2>2, <2>4 DEF Tells, NothingCollected
    <2>6. Holds(memory[w], wk'[w], rows) /\ SourcesFirst(wk'[w], rows)
        BY <1>1, <1>4, StillFirst DEF EvidenceInv, Holds
    <2> QED
        BY <1>1, <1>3, <2>5, <2>6 DEF EvidenceInv
<1> QED
    BY <1>5, <1>6 DEF Report, Persist

LEMMA RunKeepsEvidence ==
    ASSUME OnAssessmentGraph, \A v, w \in Workers : v = w, RecollectionFails = FALSE,
           MaxReplays = 0, IndInv, OrderInv, FreshInv, EvidenceInv, Stays, [RunNext]_allVars
    PROVE  EvidenceInv'
<1>1. ASSUME NEW w \in Workers, Begin(w) \/ Die(w) PROVE EvidenceInv'
    <2>1. Remember(w, FreshContext) /\ UNCHANGED << stored, rows >>
        BY <1>1 DEF Begin, Die, Deliver, Crash
    <2>2. SeesEverything(FreshContext, rows') /\ Holds(FreshContext, wk'[w], rows')
        BY FreshContextSees DEF SeesEverything, Holds
    <2>3. wk'[w].cur = None
        BY <1>1, HandsEmpty DEF Begin, Die
    <2>4. \A c \in Collectors : Accomplished(wk'[w], rows', c) => Accomplished(wk[w], rows, c)
        BY <2>1, <2>3, EvidencePath, WorkerAssumption DEF Accomplished
    <2>5. SourcesFirst(wk'[w], rows')
        BY <2>4, StillFirst DEF EvidenceInv
    <2> QED
        BY <2>1, <2>2, <2>5, FreshContextSees, EvidenceMoves
<1>2. ASSUME NEW w \in Workers, EndHandler(w), Handler(w)
      PROVE  EvidenceInv'
    <2>1. CASE NoEffect(w)
        <3>1. UNCHANGED runVars
            BY <2>1 DEF NoEffect
        <3>2. \A c \in Collectors : c = wk[w].cur => ~Reported(w, "ok")
            BY <2>1, CollectorNames DEF NoEffect, Reported
        <3>3. \A c \in Collectors :
                  Accomplished(wk'[w], rows', c) <=> Accomplished(wk[w], rows, c)
            BY <1>2, <3>2, HandlerReads, HandlerAccomplishes
        <3> QED
            BY <3>1, <3>3, EvidenceKeepsOne
    <2> QED
        BY <1>2, <2>1, CollectEvidence, NormalizeEvidence, JudgeEvidence, ReportEvidence
        DEF Handler
<1>3. ASSUME NEW w \in Workers, Bookkeeping(w), UNCHANGED runVars
      PROVE  EvidenceInv'
    BY <1>3, BookkeepingAccomplishes, EvidencePath, EvidenceKeepsOne
<1>4. CASE UNCHANGED runVars /\ UNCHANGED wk /\ \A s \in Steps : rows'[s].state = rows[s].state
    BY <1>4, EvidencePath, EvidenceKeeps DEF Accomplished
<1>5. UNCHANGED allVars => UNCHANGED << runVars, wk, rows >>
    BY DEF allVars, vars
<1>6. ASSUME RequestCancellation \/ Time \/ \E s \in Steps : Replay(s)
      PROVE  UNCHANGED wk /\ \A s \in Steps : rows'[s].state = rows[s].state
    BY <1>6 DEF RequestCancellation, Time, BackoffElapses, LeaseLapses, Replay,
                IndInv, TypeOK, RowType
<1> QED
    BY <1>1, <1>2, <1>3, <1>4, <1>5, <1>6 DEF RunNext

LEMMA InitEvidence == OnAssessmentGraph /\ RunInit => EvidenceInv
<1> SUFFICES ASSUME OnAssessmentGraph, RunInit PROVE EvidenceInv
    OBVIOUS
<1>1. /\ memory = [w \in Workers |-> FreshContext] /\ stored = NoRows
      /\ \A w \in Workers : wk[w].pc = "idle"
      /\ \A s \in Steps : rows[s].state = "pending"
    BY DEF RunInit, Init, IdleWorker, Row
<1>2. \A w \in Workers : \A c \in Collectors : ~Accomplished(wk[w], rows, c)
    BY <1>1, EvidencePath DEF Accomplished
<1>3. \A w \in Workers : /\ Holds(memory[w], wk[w], rows) /\ SourcesFirst(wk[w], rows)
                         /\ SeesEverything(memory[w], rows)
    BY <1>1, <1>2, FreshContextSees DEF Holds, SourcesFirst, SeesEverything
<1> QED
    BY <1>1, <1>3, FreshContextSees DEF EvidenceInv, StoredEvidenceWasEarned

(***************************************************************************)
(* What is stored together belongs together, whether or not a collection   *)
(* that was lost can be made again: a delivery that has normalized found   *)
(* nothing evaluated yet, so what it evaluates, scores and stores is what  *)
(* it normalized; one that starts later holds nothing to store.            *)
(***************************************************************************)
\* The evaluation is on record, or is about to be.
Judging(local, K) ==
    Recorded(K, "evaluate") \/ (local.pc = "record" /\ local.cur = "evaluate")

\* What a context holds agrees with itself, and with what is stored.
Coheres(context, local, R, K, rest) ==
    /\ context.observations # NothingCollected /\ Judging(local, K) =>
          context.evaluations = context.observations
    /\ context.snapshot # None =>
          /\ R["evaluate"].state = "succeeded"
          /\ context.observations # NothingCollected => context.snapshot = context.observations
    /\ context.observations # NothingCollected /\ rest # NoRows =>
          rest.observations = context.observations

CoherenceInv ==
    /\ memory \in [Workers -> ContextType]
    /\ StoredEvidenceWasEarned
    /\ StoredEvidenceIsCoherent
    /\ Recorded(keys, "evaluate") => rows["normalize"].state = "succeeded"
    /\ \A w \in Workers : Coheres(memory[w], wk[w], rows, keys, stored)

\* The order of the rows that the evidence passes through.
LEMMA EvaluatedAfterNormalized ==
    ASSUME OnAssessmentGraph, OrderInv, rows["evaluate"].state = "succeeded"
    PROVE  rows["normalize"].state = "succeeded"
<1>1. States["evaluate"] \in CalledStates
    BY EvidencePath DEF States, CalledStates
<1>2. DependencySettled("normalize", States)
    BY <1>1, EvidencePath DEF OrderInv, InOrder
<1> QED
    BY <1>2, EvidencePath, RequiredSettles

\* A delivery that is not past its handler, with the context it holds.
LEMMA CoherenceMoves ==
    ASSUME OnAssessmentGraph, CoherenceInv, Stays, NEW w \in Workers, \A v \in Workers : v = w,
           NEW context \in ContextType, Remember(w, context),
           Recorded(keys', "evaluate") => rows'["normalize"].state = "succeeded",
           StoredEvidenceWasEarned', StoredEvidenceIsCoherent',
           Coheres(context, wk'[w], rows', keys', stored')
    PROVE  CoherenceInv'
<1>1. memory' \in [Workers -> ContextType] /\ memory'[w] = context
    BY DEF CoherenceInv, Remember
<1> QED
    BY <1>1 DEF CoherenceInv

\* The rows that a context relies on stay as they are.
LEMMA CoherenceRows ==
    ASSUME OnAssessmentGraph, Stays
    PROVE  \A s \in {"normalize", "evaluate"} :
               rows[s].state = "succeeded" => rows'[s].state = "succeeded"
BY EvidencePath DEF Stays, TerminalStepStates

\* A step that leaves the contexts, the keys and what is stored alone.
LEMMA CoherenceKeeps ==
    ASSUME OnAssessmentGraph, CoherenceInv, Stays, UNCHANGED << memory, stored, keys >>,
           \A w \in Workers :
               Judging(wk'[w], keys) => Judging(wk[w], keys) \/ memory[w].observations = NothingCollected
    PROVE  CoherenceInv'
<1>1. StoredEvidenceWasEarned'
    BY StillEarned DEF CoherenceInv
<1>2. \A w \in Workers : Coheres(memory[w], wk'[w], rows', keys, stored)
    BY CoherenceRows DEF CoherenceInv, Coheres
<1>3. StoredEvidenceIsCoherent'
    BY DEF CoherenceInv, StoredEvidenceIsCoherent
<1>4. Recorded(keys, "evaluate") => rows'["normalize"].state = "succeeded"
    BY CoherenceRows DEF CoherenceInv
<1> QED
    BY <1>1, <1>2, <1>3, <1>4 DEF CoherenceInv

\* A delivery that forgets what it held.
LEMMA ForgetCoheres ==
    ASSUME OnAssessmentGraph, CoherenceInv, Stays, NEW w \in Workers, \A v \in Workers : v = w,
           Remember(w, FreshContext), UNCHANGED << stored, keys >>
    PROVE  CoherenceInv'
<1>1. /\ FreshContext \in ContextType /\ FreshContext.observations = NothingCollected
      /\ FreshContext.snapshot = None
    BY FreshContextSees
<1> HIDE DEF FreshContext
<1>2. Coheres(FreshContext, wk'[w], rows', keys, stored)
    BY <1>1 DEF Coheres
<1>3. StoredEvidenceWasEarned' /\ StoredEvidenceIsCoherent'
    BY StillEarned DEF CoherenceInv, StoredEvidenceIsCoherent
<1>4. Recorded(keys, "evaluate") => rows'["normalize"].state = "succeeded"
    BY CoherenceRows DEF CoherenceInv
<1> QED
    BY <1>1, <1>2, <1>3, <1>4, CoherenceMoves

\* Of the steps between handlers, only the record of a key touches the keys,
\* and none goes to the record.
LEMMA BookkeepingCoheres ==
    ASSUME OnAssessmentGraph, IndInv, OrderInv, CoherenceInv, Stays, NEW w \in Workers,
           \A v \in Workers : v = w, Bookkeeping(w), UNCHANGED runVars
    PROVE  CoherenceInv'
<1>1. UNCHANGED << memory, stored >>
    BY DEF runVars
<1>2. CASE RecordKey(w)
    <2>1. /\ wk[w].pc = "record" /\ keys' = keys \cup {KeyOf(w)} /\ UNCHANGED rows
          /\ wk[w].cur \in Steps /\ wk[w].cur \in wk[w].todo
        BY <1>2, CurrentStep DEF RecordKey, At, Executing
    <2>2. Recorded(keys', "evaluate") => Judging(wk[w], keys)
        BY <2>1 DEF Recorded, Judging, KeyOf
    <2>3. ASSUME wk[w].cur = "evaluate" PROVE rows["normalize"].state = "succeeded"
        <3>1. wk[w].cur # None
            BY <2>1, WorkerAssumption
        <3>2. DependencySettled("normalize", States)
            BY <2>1, <2>3, <3>1, EvidencePath DEF OrderInv, Chosen
        <3> QED
            BY <3>2, EvidencePath, RequiredSettles
    <2>4. wk'[w].pc # "record"
        BY <1>2, Lands
    <2>5. Judging(wk'[w], keys') => Judging(wk[w], keys)
        BY <2>2, <2>4 DEF Judging
    <2>6. Coheres(memory[w], wk'[w], rows, keys', stored)
        BY <2>5 DEF CoherenceInv, Coheres
    <2>7. Recorded(keys', "evaluate") => rows["normalize"].state = "succeeded"
        BY <2>2, <2>3 DEF Judging, CoherenceInv
    <2> QED
        BY <1>1, <2>1, <2>6, <2>7
        DEF CoherenceInv, StoredEvidenceWasEarned, StoredEvidenceIsCoherent
<1>3. ASSUME UNCHANGED keys, wk'[w].pc # "record" PROVE CoherenceInv'
    <2>1. \A v \in Workers : Judging(wk'[v], keys) => Judging(wk[v], keys)
        BY <1>3 DEF Judging
    <2> QED
        BY <1>1, <1>3, <2>1, CoherenceKeeps
<1>4. wk \in [Workers -> WorkerType]
    BY DEF IndInv, TypeOK
<1>5. CASE \/ CheckCancellation(w) \/ SkipBlocked(w) \/ Raise(w) \/ Restart(w) \/ Claim(w)
           \/ AcquireLease(w) \/ CheckKey(w) \/ Deduplicate(w) \/ StartStep(w)
           \/ BeginHandler(w) \/ SettleStep(w) \/ ReleaseLease(w)
    <2>1. UNCHANGED keys
        BY <1>5 DEF CheckCancellation, SkipBlocked, Raise, Restart, Claim, AcquireLease, CheckKey,
                    Deduplicate, StartStep, BeginHandler, SettleStep, ReleaseLease
    <2> QED
        BY <1>3, <1>5, <2>1, Lands
<1>6. CASE \/ LoadSteps(w) \/ SettleRun(w) \/ ReadState(w) \/ WriteState(w) \/ AdvanceTo(w)
           \/ CancelLoad(w) \/ CancelStep(w)
    <2>1. UNCHANGED keys
        BY <1>6 DEF LoadSteps, SettleRun, ReadState, WriteState, AdvanceTo, CancelLoad, CancelStep
    <2>2. wk'[w].pc # "record"
        BY <1>6, WalkLands
    <2> QED
        BY <1>3, <2>1, <2>2
<1> QED
    BY <1>2, <1>5, <1>6 DEF Bookkeeping, RunStep

\* A handler that leaves what is stored and what is settled alone.
LEMMA HandlerCoheres ==
    ASSUME OnAssessmentGraph, IndInv, CoherenceInv, Stays, NEW w \in Workers,
           \A v \in Workers : v = w, EndHandler(w), UNCHANGED stored,
           NEW context \in ContextType, Remember(w, context),
           Coheres(context, wk'[w], rows, keys, stored)
    PROVE  CoherenceInv'
<1>1. UNCHANGED << rows, keys >>
    BY HandlerAt
<1>2. StoredEvidenceWasEarned' /\ StoredEvidenceIsCoherent'
    BY StillEarned DEF CoherenceInv, StoredEvidenceIsCoherent
<1> QED
    BY <1>1, <1>2, CoherenceMoves DEF CoherenceInv

\* What is normalized has not been evaluated, scored or stored.
LEMMA NormalizeCoheres ==
    ASSUME OnAssessmentGraph, IndInv, OrderInv, CoherenceInv, Stays, NEW w \in Workers,
           \A v \in Workers : v = w, EndHandler(w), Normalize(w)
    PROVE  CoherenceInv'
<1>1. /\ memory[w] \in ContextType /\ wk[w].cur = "normalize" /\ UNCHANGED stored
      /\ wk'[w].cur = "normalize" /\ wk[w].pc = "work"
    BY HandlerAt DEF CoherenceInv, Normalize
<1>2. rows["normalize"].state # "succeeded"
    <2>1. wk[w].cur \in Steps /\ wk[w].cur # None
        BY <1>1, EvidencePath, WorkerAssumption
    <2>2. States["normalize"] \in Open
        BY <1>1, <2>1 DEF OrderInv, Chosen
    <2> QED
        BY <2>2, EvidencePath DEF States, Open
<1>3. /\ ~Judging(wk'[w], keys) /\ stored = NoRows /\ memory[w].snapshot = None
    BY <1>1, <1>2, EvaluatedAfterNormalized
    DEF CoherenceInv, Coheres, Judging, StoredEvidenceWasEarned
<1>4. ASSUME NEW context, context.snapshot = None
      PROVE  Coheres(context, wk'[w], rows, keys, stored)
    BY <1>3, <1>4 DEF Coheres
<1>5. ASSUME NEW k, NEW collection \in Recovered(w, k), NEW context,
             Remember(w, context),
             \/ context = [memory[w] EXCEPT !.collection = collection]
             \/ context = [memory[w] EXCEPT !.collection = collection,
                                            !.observations = collection]
      PROVE  CoherenceInv'
    <2>1. collection \in Contents
        BY <1>5 DEF Recovered
    <2>2. context \in ContextType /\ context.snapshot = memory[w].snapshot
        BY <1>1, <1>5, <2>1 DEF ContextType
    <2>3. Coheres(context, wk'[w], rows, keys, stored)
        BY <1>3, <1>4, <2>2
    <2> QED
        BY <1>1, <1>5, <2>2, <2>3, HandlerCoheres
<1>6. CASE UNCHANGED memory
    <2>1. Judging(wk'[w], keys) => Judging(wk[w], keys)
        BY <1>3
    <2>2. UNCHANGED << memory, stored, keys >>
        BY <1>1, <1>6, HandlerAt
    <2> QED
        BY <2>1, <2>2, CoherenceKeeps
<1> QED
    BY <1>5, <1>6 DEF Normalize

LEMMA CollectCoheres ==
    ASSUME OnAssessmentGraph, IndInv, CoherenceInv, Stays, NEW w \in Workers,
           \A v \in Workers : v = w, EndHandler(w), Collect(w)
    PROVE  CoherenceInv'
<1>1. memory[w] \in ContextType /\ wk[w].cur \in Collectors /\ UNCHANGED stored
    BY DEF CoherenceInv, Collect
<1>2. Judging(wk'[w], keys) => Judging(wk[w], keys)
    BY <1>1, HandlerAt, CollectorNames DEF Judging
<1>3. ASSUME NEW result \in {"unusable", "usable"}, Kept(w, result) PROVE CoherenceInv'
    <2> DEFINE context == [memory[w] EXCEPT !.collection[wk[w].cur] = result]
    <2>1. /\ context \in ContextType /\ context.observations = memory[w].observations
          /\ context.evaluations = memory[w].evaluations
          /\ context.snapshot = memory[w].snapshot
        BY <1>1 DEF ContextType, Contents
    <2>2. Remember(w, context)
        BY <1>3 DEF Kept
    <2> HIDE DEF context
    <2>3. Coheres(context, wk'[w], rows, keys, stored)
        BY <1>2, <2>1 DEF CoherenceInv, Coheres
    <2> QED
        BY <1>1, <2>1, <2>2, <2>3, HandlerCoheres
<1>4. CASE UNCHANGED memory
    <2>1. UNCHANGED << memory, stored, keys >>
        BY <1>1, <1>4, HandlerAt
    <2> QED
        BY <1>2, <2>1, CoherenceKeeps
<1> QED
    BY <1>3, <1>4 DEF Collect

LEMMA EvaluateCoheres ==
    ASSUME OnAssessmentGraph, IndInv, CoherenceInv, Stays, NEW w \in Workers,
           \A v \in Workers : v = w, EndHandler(w), Evaluate(w)
    PROVE  CoherenceInv'
<1> DEFINE judged == [memory[w] EXCEPT !.evaluations = memory[w].observations]
<1>1. memory[w] \in ContextType /\ UNCHANGED stored /\ Remember(w, judged)
    BY DEF CoherenceInv, Evaluate
<1>2. /\ judged \in ContextType /\ judged.observations = memory[w].observations
      /\ judged.evaluations = memory[w].observations
      /\ judged.snapshot = memory[w].snapshot
    BY <1>1 DEF ContextType
<1> HIDE DEF judged
<1>3. Coheres(judged, wk'[w], rows, keys, stored)
    BY <1>2 DEF CoherenceInv, Coheres
<1> QED
    BY <1>1, <1>2, <1>3, HandlerCoheres

\* A delivery at the score has its evaluation on record.
LEMMA ScoreCoheres ==
    ASSUME OnAssessmentGraph, IndInv, OrderInv, CoherenceInv, Stays, NEW w \in Workers,
           \A v \in Workers : v = w, EndHandler(w), Score(w)
    PROVE  CoherenceInv'
<1> DEFINE scored == [memory[w] EXCEPT !.snapshot = memory[w].evaluations]
<1>1. /\ memory[w] \in ContextType /\ UNCHANGED stored /\ Remember(w, scored)
      /\ wk'[w].cur = "score"
    BY HandlerAt DEF CoherenceInv, Score
<1>2. rows["evaluate"].state = "succeeded"
    BY HandlerReads, EvidencePath, RequiredSettles DEF Score
<1>3. Recorded(keys, "evaluate")
    BY <1>2, EvidencePath DEF IndInv, RowInv
<1>4. /\ scored \in ContextType /\ scored.observations = memory[w].observations
      /\ scored.evaluations = memory[w].evaluations
      /\ scored.snapshot = memory[w].evaluations
    BY <1>1 DEF ContextType
<1> HIDE DEF scored
<1>5. Coheres(scored, wk'[w], rows, keys, stored)
    BY <1>2, <1>3, <1>4 DEF CoherenceInv, Coheres, Judging
<1> QED
    BY <1>1, <1>4, <1>5, HandlerCoheres

\* What is reported is stored as one, and stored again as it is.
LEMMA ReportCoheres ==
    ASSUME OnAssessmentGraph, IndInv, OrderInv, CoherenceInv, Stays, NEW w \in Workers,
           \A v \in Workers : v = w, EndHandler(w), Report(w)
    PROVE  CoherenceInv'
<1> DEFINE context == memory[w]
           seen == context.observations
<1>1. /\ context \in ContextType /\ memory' = memory /\ UNCHANGED << rows, keys >>
      /\ wk[w].cur = "report" /\ wk'[w].cur = "report"
    BY HandlerAt DEF CoherenceInv, Report
<1>2. \A s \in {"normalize", "evaluate", "score"} : rows'[s].state = "succeeded"
    <2>1. DependencySettled("findings", States)
        BY <1>1, HandlerReads, EvidencePath
    <2> QED
        BY <1>1, <2>1, ChainBehind
<1>3. StoredEvidenceWasEarned'
    BY <1>2 DEF StoredEvidenceWasEarned
<1>4. Judging(wk'[w], keys) => Judging(wk[w], keys)
    BY <1>1 DEF Judging
<1>5. Coheres(context, wk[w], rows, keys, stored)
    BY DEF CoherenceInv
<1>6. CASE UNCHANGED stored
    <2>1. Coheres(context, wk'[w], rows, keys, stored)
        BY <1>4, <1>5 DEF Coheres
    <2> QED
        BY <1>1, <1>3, <1>6, <2>1 DEF CoherenceInv, StoredEvidenceIsCoherent
<1>7. CASE context.snapshot # None /\ seen # NothingCollected /\ PersistAssessment(context)
    <2>1. Recorded(keys, "evaluate")
        BY <1>1, <1>2, EvidencePath DEF IndInv, RowInv
    <2>2. context.evaluations = seen /\ context.snapshot = seen
        BY <1>5, <1>7, <2>1 DEF Coheres, Judging
    <2>3. stored' = [observations |-> seen, evaluations |-> seen, snapshot |-> seen]
        <3>1. seen \in Contents /\ seen # None
            BY <1>1, <1>7, <2>2 DEF ContextType
        <3>2. CASE stored = NoRows
            <4>1. /\ stored.observations = NothingCollected /\ stored.evaluations = None
                  /\ stored.snapshot = None
                BY <3>2 DEF NoRows
            <4>2. SavedObservations(context) = seen
                BY <3>1, <4>1 DEF SavedObservations, NothingCollected, Contents
            <4> QED
                BY <1>7, <2>2, <4>1, <4>2 DEF PersistAssessment, SavedEvaluations, SavedSnapshot
        <3>3. CASE stored # NoRows
            <4>1. stored.observations = seen
                BY <1>5, <1>7, <3>3 DEF Coheres
            <4>2. stored.evaluations = seen /\ stored.snapshot = seen
                BY <3>3, <4>1 DEF CoherenceInv, StoredEvidenceIsCoherent
            <4>3. SavedObservations(context) = seen
                BY <3>1, <4>1 DEF SavedObservations, Contents
            <4> QED
                BY <1>7, <2>2, <3>1, <4>2, <4>3
                DEF PersistAssessment, SavedEvaluations, SavedSnapshot
        <3> QED
            BY <3>2, <3>3
    <2>4. StoredEvidenceIsCoherent'
        BY <2>3 DEF StoredEvidenceIsCoherent
    <2>5. Coheres(context, wk'[w], rows, keys, stored')
        BY <1>4, <1>5, <2>3 DEF Coheres
    <2> QED
        BY <1>1, <1>3, <2>4, <2>5 DEF CoherenceInv
<1> QED
    BY <1>6, <1>7 DEF Report, Persist

LEMMA RunKeepsCoherence ==
    ASSUME OnAssessmentGraph, \A v, w \in Workers : v = w, IndInv, OrderInv, CoherenceInv,
           Stays, [RunNext]_allVars
    PROVE  CoherenceInv'
<1>1. ASSUME NEW w \in Workers, Begin(w) \/ Die(w) PROVE CoherenceInv'
    <2>1. Remember(w, FreshContext) /\ UNCHANGED << stored, keys >>
        BY <1>1 DEF Begin, Die, Deliver, Crash
    <2> QED
        BY <2>1, ForgetCoheres
<1>2. ASSUME NEW w \in Workers, EndHandler(w), Handler(w) PROVE CoherenceInv'
    <2>1. CASE NoEffect(w)
        <3>1. wk'[w].pc = "record" => wk'[w].cur # "evaluate"
            BY <1>2, <2>1, HandlerAt, EvidencePath DEF NoEffect, Reported
        <3>2. UNCHANGED << memory, stored, keys >>
            BY <1>2, <2>1, HandlerAt DEF NoEffect, runVars
        <3>3. Judging(wk'[w], keys) => Judging(wk[w], keys)
            BY <3>1 DEF Judging
        <3> QED
            BY <3>2, <3>3, CoherenceKeeps
    <2> QED
        BY <1>2, <2>1, CollectCoheres, NormalizeCoheres, EvaluateCoheres, ScoreCoheres,
           ReportCoheres DEF Handler
<1>3. ASSUME NEW w \in Workers, Bookkeeping(w), UNCHANGED runVars PROVE CoherenceInv'
    BY <1>3, BookkeepingCoheres
<1>4. CASE UNCHANGED allVars \/ (/\ RequestCancellation \/ Time \/ \E s \in Steps : Replay(s)
                                 /\ UNCHANGED runVars)
    <2>1. UNCHANGED << memory, stored, keys, wk >>
        BY <1>4 DEF allVars, vars, runVars, RequestCancellation, Time, BackoffElapses,
                    LeaseLapses, Replay
    <2> QED
        BY <2>1, CoherenceKeeps
<1> QED
    BY <1>1, <1>2, <1>3, <1>4 DEF RunNext

LEMMA InitCoherence == RunInit => CoherenceInv
<1> SUFFICES ASSUME RunInit PROVE CoherenceInv
    OBVIOUS
<1>1. /\ memory = [w \in Workers |-> FreshContext] /\ stored = NoRows /\ keys = {}
    BY DEF RunInit, Init
<1> QED
    BY <1>1, FreshContextSees
    DEF CoherenceInv, Coheres, Recorded, StoredEvidenceWasEarned, StoredEvidenceIsCoherent

(***************************************************************************)
(* The theorems.                                                           *)
(***************************************************************************)
\* Nothing is reported that was not scored: a failure before the score never
\* slips past it through a step that is optional.
THEOREM ReportsRestOnScores ==
    ASSUME OnAssessmentGraph, \A v, w \in Workers : v = w, MaxReplays = 0
    PROVE  RunSpec => []ReportRestsOnScore
BY RunsOnTheEngine, OrderHolds, OrderGivesReport, PTL

\* What a delivery holds of each collector says how that collector's step ended,
\* and what is stored says so too, as long as a collection that was lost can be
\* made again.
THEOREM EvidenceHolds ==
    ASSUME OnAssessmentGraph, \A v, w \in Workers : v = w, MaxReplays = 0,
           RecollectionFails = FALSE
    PROVE  RunSpec => []EvidenceInv
<1>1. IndInv /\ BudgetInv /\ OrderInv /\ FreshInv /\ EvidenceInv /\ [RunNext]_allVars
          => EvidenceInv'
    BY RunStepsTheEngine, NextOrder, RunKeepsEvidence
<1>2. RunInit => EvidenceInv
    BY InitEvidence
<1> QED
    BY <1>1, <1>2, RunsOnTheEngine, Invariance, BudgetHolds, OrderHolds, FreshHolds, PTL
    DEF RunSpec

\* Normalization waits for every collector and reads the usable evidence of each
\* one that succeeded, in this delivery or in an earlier one, with the unusable
\* results of the others beside it.
THEOREM NothingIsDropped ==
    ASSUME OnAssessmentGraph, \A v, w \in Workers : v = w, MaxReplays = 0,
           RecollectionFails = FALSE
    PROVE  RunSpec => []NoEvidenceIsDropped
<1>1. EvidenceInv => NoEvidenceIsDropped
    BY DEF EvidenceInv, SeesEverything, Tells, NoEvidenceIsDropped
<1> QED
    BY <1>1, EvidenceHolds, PTL

\* A run of an assessment that is said to have completed, even partially, has
\* its report, and behind the report every required step.
THEOREM CompletedRunsHaveTheirReport ==
    ASSUME OnAssessmentGraph, \A v, w \in Workers : v = w, MaxReplays = 0
    PROVE  RunSpec => []CompletedRunHasItsReport
<1>1. VerdictInv => CompletedRunHasItsReport
    BY DEF VerdictInv, Behind, CompletedRunHasItsReport, States, OnAssessmentGraph
<1> QED
    BY <1>1, VerdictHolds, RunsOnTheEngine, PTL

\* What is optional never makes a run fail.
THEOREM OptionalFailsNoRun ==
    ASSUME OnAssessmentGraph, \A v, w \in Workers : v = w, MaxReplays = 0
    PROVE  RunSpec => []OptionalNeverFailsARun
<1>1. VerdictInv => OptionalNeverFailsARun
    BY DEF VerdictInv, Behind, OptionalNeverFailsARun, States, OnAssessmentGraph
<1> QED
    BY <1>1, VerdictHolds, RunsOnTheEngine, PTL

\* Normalization waits for every collector, the dependent ones included.
THEOREM NormalizesLast ==
    ASSUME OnAssessmentGraph, \A v, w \in Workers : v = w, MaxReplays = 0
    PROVE  RunSpec => []NormalizationComesLast
<1>1. ASSUME OrderInv, Ran("normalize"), NEW c \in Collectors
      PROVE  rows[c].state \in TerminalStepStates
    <2>1. States["normalize"] \in CalledStates
        BY <1>1, EvidencePath DEF Ran, States, CalledStates
    <2>2. DependencySettled(c, States)
        BY <1>1, <2>1, EvidencePath DEF OrderInv, InOrder
    <2> QED
        BY <1>1, <2>2, EvidencePath DEF DependencySettled, States, TerminalStepStates
<1>2. OrderInv => NormalizationComesLast
    BY <1>1 DEF NormalizationComesLast
<1> QED
    BY <1>2, OrderHolds, RunsOnTheEngine, PTL

\* Whatever crashes, is delivered again or cannot be collected again, what is
\* stored was earned and belongs together.
THEOREM CoherenceHolds ==
    ASSUME OnAssessmentGraph, \A v, w \in Workers : v = w, MaxReplays = 0
    PROVE  RunSpec => []CoherenceInv
<1>1. IndInv /\ BudgetInv /\ OrderInv /\ CoherenceInv /\ [RunNext]_allVars => CoherenceInv'
    BY RunStepsTheEngine, NextOrder, RunKeepsCoherence
<1> QED
    BY <1>1, InitCoherence, RunsOnTheEngine, Invariance, BudgetHolds, OrderHolds, PTL DEF RunSpec

\* Evidence, of a gap or not, is stored only when every step behind it has
\* recorded its work.
THEOREM EvidenceWasEarned ==
    ASSUME OnAssessmentGraph, \A v, w \in Workers : v = w, MaxReplays = 0
    PROVE  RunSpec => []StoredEvidenceWasEarned
<1>1. CoherenceInv => StoredEvidenceWasEarned
    BY DEF CoherenceInv
<1> QED
    BY <1>1, CoherenceHolds, PTL

\* The stored rows describe one another: the snapshot and the evaluations rest
\* on exactly the observations they are stored with, those made of unusable
\* results included.
THEOREM StoredEvidenceCoheres ==
    ASSUME OnAssessmentGraph, \A v, w \in Workers : v = w, MaxReplays = 0
    PROVE  RunSpec => []StoredEvidenceIsCoherent
<1>1. CoherenceInv => StoredEvidenceIsCoherent
    BY DEF CoherenceInv
<1> QED
    BY <1>1, CoherenceHolds, PTL

\* The stored rows and the steps of the run tell one story: a collector has a
\* usable result among them exactly when its step succeeded.
THEOREM EvidenceTellsTheRun ==
    ASSUME OnAssessmentGraph, \A v, w \in Workers : v = w, MaxReplays = 0,
           RecollectionFails = FALSE
    PROVE  RunSpec => []StoredEvidenceTellsTheRun
<1>1. EvidenceInv /\ CoherenceInv => StoredEvidenceTellsTheRun
    BY DEF EvidenceInv, CoherenceInv, Tells, StoredEvidenceTellsTheRun
<1> QED
    BY <1>1, EvidenceHolds, CoherenceHolds, PTL

================================================================================
