----------------------------- MODULE AssessmentRun -----------------------------
(***************************************************************************)
(* An assessment on the workflow engine: run_assessment of tasks.py and the*)
(* handlers of workflows/handlers.py.  What the handlers produce lives in  *)
(* the AssessmentContext of one delivery, in process memory; the rows of   *)
(* the steps are durable, and the evidence becomes durable only when the   *)
(* last step persists it.  Of a collector it matters whether its result is *)
(* there and whether it is usable; an unusable one is evidence as well, of *)
(* a gap.                                                                  *)
(***************************************************************************)
EXTENDS WorkflowEngine, AssessmentGraph

CONSTANT RecollectionFails  \* TRUE: a collection may not be recovered

\* run_assessment builds its engine on ASSESSMENT_GRAPH.
OnAssessmentGraph ==
    /\ Steps = AssessmentSteps /\ Order = AssessmentOrder
    /\ Deps = AssessmentDeps /\ Optional = AssessmentOptional

VARIABLES
    memory,      \* the AssessmentContext of each delivery
    stored       \* the evidence rows of the run

runVars == << memory, stored >>

allVars == << vars, runVars >>

\* Of each collector: no result, an unusable one, or a usable one.
Contents == [Collectors -> {"none", "unusable", "usable"}]

NothingCollected == [c \in Collectors |-> "none"]

\* snapshot is None until the run has been scored in this very process.
FreshContext ==
    [collection |-> NothingCollected, observations |-> NothingCollected,
     evaluations |-> NothingCollected, snapshot |-> None]

\* Observations accumulate; evaluations and snapshot are None until written.
NoRows == [observations |-> NothingCollected, evaluations |-> None, snapshot |-> None]

RunInit ==
    /\ Init
    /\ memory = [w \in Workers |-> FreshContext]
    /\ stored = NoRows

Remember(w, context) == memory' = [memory EXCEPT ![w] = context]

\* What the handler that returns in this step has reported.
Reported(w, outcome) == wk'[w].result = outcome

Kept(w, result) == Remember(w, [memory[w] EXCEPT !.collection[wk[w].cur] = result])

\* A collector that reads another one's evidence finds it in this context, or
\* reports that it does not apply.
Sees(collection, c) == ReadsFrom(c) \in Collectors => collection[ReadsFrom(c)] = "usable"

\* Mutant of Collect: a result that is already there is not replaced.
CollectFirst(w) ==
    /\ wk[w].cur \in Collectors
    /\ LET sees == Sees(memory[w].collection, wk[w].cur)
           held == memory[w].collection[wk[w].cur] # "none"
       IN  \/ /\ Reported(w, "ok") /\ sees
              /\ IF held THEN UNCHANGED memory ELSE Kept(w, "usable")
           \/ /\ Reported(w, "skip") \/ (sees /\ (Reported(w, "fail") \/ Reported(w, "retry")))
              /\ IF held THEN UNCHANGED memory ELSE Kept(w, "unusable")
           \/ /\ Reported(w, "skip") \/ Reported(w, "retry")
              /\ UNCHANGED memory
    /\ UNCHANGED stored

\* Every result is kept, whatever it says.  None is there when the mode or the
\* configuration rules the operation out, or when the collector raised.
Collect(w) ==
    /\ wk[w].cur \in Collectors
    /\ LET sees == Sees(memory[w].collection, wk[w].cur)
       IN  \/ Reported(w, "ok") /\ sees /\ Kept(w, "usable")
           \/ /\ Reported(w, "skip") \/ (sees /\ (Reported(w, "fail") \/ Reported(w, "retry")))
              /\ Kept(w, "unusable")
           \/ /\ Reported(w, "skip") \/ Reported(w, "retry")
              /\ UNCHANGED memory
    /\ UNCHANGED stored

\* COLLECTOR_OPERATIONS: the order in which collections are recovered.
RecoveryOrder ==
    << "collect.dns", "collect.email", "collect.tls", "collect.http", "collect.rdap",
       "collect.ct", "collect.ports", "collect.asn", "collect.mail_tls",
       "collect.reputation" >>

\* Mutant of Lost: only this delivery's collections are looked at.
LostNothing(w) == {}

\* What succeeded in an earlier delivery and is not in this one's memory.
Lost(w) ==
    {c \in Collectors : memory[w].collection[c] = "none" /\ rows[c].state = "succeeded"}

\* What a collector may answer when it is asked again.
Answers(collection, c) ==
    IF ~Sees(collection, c) THEN {"unusable"}
    ELSE IF RecollectionFails THEN {"usable", "unusable"} ELSE {"usable"}

\* _recover_lost_collections, up to its k-th collector: what was lost is
\* collected again and kept, whatever it says.
Recovered(w, k) ==
    LET reached == {c \in Lost(w) : \E i \in 1..k : RecoveryOrder[i] = c}
    IN  {collection \in Contents :
            \A c \in Collectors :
                IF c \in reached THEN collection[c] \in Answers(collection, c)
                                 ELSE collection[c] = memory[w].collection[c]}

\* Whatever is held is normalized, an unusable result into observations of a
\* gap; only a run that holds nothing at all fails.  A collector that raises
\* ends the recovery where it is.
Normalize(w) ==
    /\ wk[w].cur = "normalize"
    /\ \/ /\ Reported(w, "retry")
          /\ \E k \in 0..Len(RecoveryOrder) : \E collection \in Recovered(w, k) :
                Remember(w, [memory[w] EXCEPT !.collection = collection])
       \/ \E collection \in Recovered(w, Len(RecoveryOrder)) :
             \/ /\ Reported(w, "ok") /\ collection # NothingCollected
                /\ Remember(w, [memory[w] EXCEPT !.collection = collection,
                                                 !.observations = collection])
             \/ /\ Reported(w, "fail") /\ collection = NothingCollected
                /\ UNCHANGED memory
    /\ UNCHANGED stored

\* Whatever observations this process holds are evaluated, even none at all.
Evaluate(w) ==
    /\ wk[w].cur = "evaluate"
    /\ Reported(w, "ok")
    /\ Remember(w, [memory[w] EXCEPT !.evaluations = memory[w].observations])
    /\ UNCHANGED stored

Score(w) ==
    /\ wk[w].cur = "score"
    /\ Reported(w, "ok")
    /\ Remember(w, [memory[w] EXCEPT !.snapshot = memory[w].evaluations])
    /\ UNCHANGED stored

\* save_observations: ON CONFLICT DO NOTHING, the first row of each stays.
SavedObservations(context) ==
    [c \in Collectors |-> IF stored.observations[c] = "none" THEN context.observations[c]
                                                             ELSE stored.observations[c]]

\* save_evaluations: every evaluation judges the same checks, so once they have
\* their rows a second set of judgements changes none.
SavedEvaluations(context) ==
    IF stored.evaluations = None THEN context.evaluations ELSE stored.evaluations

\* save_snapshot: the snapshot of a run and methodology is kept once written.
SavedSnapshot(context) ==
    IF stored.snapshot = None THEN context.snapshot ELSE stored.snapshot

\* persist_assessment, in the transaction of persist: all of it or nothing.
PersistAssessment(context) ==
    stored' = [observations |-> SavedObservations(context),
               evaluations  |-> SavedEvaluations(context),
               snapshot     |-> SavedSnapshot(context)]

\* persist returns early when this process holds no observations, and may raise.
Persist(w) ==
    IF memory[w].observations = NothingCollected
    THEN Reported(w, "ok") /\ UNCHANGED stored
    ELSE \/ Reported(w, "ok") /\ PersistAssessment(memory[w])
         \/ Reported(w, "fail") /\ UNCHANGED stored

\* A run that this process has not scored has nothing to report.
Report(w) ==
    /\ wk[w].cur = "report"
    /\ IF memory[w].snapshot = None
       THEN Reported(w, "fail") /\ UNCHANGED stored
       ELSE Persist(w)
    /\ UNCHANGED memory

\* Steps that leave nothing behind that later steps of the run rest on, and
\* handlers that were cancelled or raised.
NoEffect(w) ==
    /\ \/ wk[w].cur \in {"plan", "assess.assets", "findings", "agent_analysis"}
       \/ Reported(w, "cancelled")
       \/ wk[w].cur \notin Collectors \cup {"normalize"} /\ Reported(w, "retry")
    /\ UNCHANGED runVars

Handler(w) ==
    \/ Collect(w) \/ Normalize(w) \/ Evaluate(w) \/ Score(w) \/ Report(w) \/ NoEffect(w)

\* Each delivery builds its context anew.
Begin(w) ==
    /\ Deliver(w)
    /\ Remember(w, FreshContext)
    /\ UNCHANGED stored

\* A process that is gone takes its context with it.
Die(w) ==
    /\ Crash(w)
    /\ Remember(w, FreshContext)
    /\ UNCHANGED stored

Bookkeeping(w) ==
    \/ RunStep(w) \/ Restart(w)
    \/ Claim(w) \/ AcquireLease(w) \/ AdvanceTo(w) \/ CheckKey(w) \/ Deduplicate(w)
    \/ StartStep(w) \/ BeginHandler(w) \/ RecordKey(w) \/ SettleStep(w) \/ ReleaseLease(w)

RunNext ==
    \/ \E w \in Workers :
          \/ Begin(w)
          \/ EndHandler(w) /\ Handler(w)
          \/ Die(w)
          \/ Bookkeeping(w) /\ UNCHANGED runVars
    \/ (RequestCancellation \/ Time \/ \E s \in Steps : Replay(s)) /\ UNCHANGED runVars

RunSpec == RunInit /\ [][RunNext]_allVars

(***************************************************************************)
(* Properties.                                                             *)
(***************************************************************************)
\* The handler of s was run to its end.
Ran(s) == rows[s].state \in FailedStates \cup {"succeeded"}

\* A run that is said to have completed, even partially, has its report, and
\* behind the report every required step.
CompletedRunHasItsReport ==
    runState \in {"completed", "partially_completed"} =>
        \A s \in AssessmentSteps \ AssessmentOptional : rows[s].state = "succeeded"

\* Nothing is reported that was not scored: a failure before the score cannot
\* slip past it through a step that is optional.
ReportRestsOnScore ==
    Ran("report") =>
        \A s \in {"normalize", "evaluate", "score", "findings"} : rows[s].state = "succeeded"

\* Normalization waits for every collector, the dependent ones included.
NormalizationComesLast ==
    Ran("normalize") => \A c \in Collectors : rows[c].state \in TerminalStepStates

\* What is optional never makes a run fail.
OptionalNeverFailsARun ==
    runState = "failed" =>
        \E s \in AssessmentSteps \ AssessmentOptional : rows[s].state \in FailedStates

\* Normalization sees the evidence of every collector that succeeded, in this
\* delivery or in an earlier one, as long as it can be collected again.
NoEvidenceIsDropped ==
    \A w \in Workers :
        memory[w].observations # NothingCollected =>
            \A c \in Collectors :
                rows[c].state = "succeeded" => memory[w].observations[c] = "usable"

\* The stored rows describe one another: the snapshot and the evaluations rest
\* on exactly the observations they are stored with.
StoredEvidenceIsCoherent ==
    stored # NoRows =>
        stored.snapshot = stored.observations /\ stored.evaluations = stored.observations

\* Evidence is stored only when every step behind it has recorded its work.
StoredEvidenceWasEarned ==
    stored # NoRows => \A s \in {"normalize", "evaluate", "score"} : rows[s].state = "succeeded"

\* The stored rows and the steps of the run tell one story, however many
\* deliveries it took: the evidence was normalized, evaluated and scored, its
\* parts belong together, and it holds a usable result of exactly those
\* collectors whose steps succeeded.
StoredEvidenceTellsTheRun ==
    /\ StoredEvidenceWasEarned
    /\ StoredEvidenceIsCoherent
    /\ stored # NoRows =>
          \A c \in Collectors :
              (stored.observations[c] = "usable") <=> (rows[c].state = "succeeded")

\* A collector that reads the evidence of one that succeeded has it to read
\* ("Attribution describes the addresses this run actually saw", graph.py): false
\* when the two run in different deliveries, see the README.
DependentsAreNotBlind ==
    \A w \in Workers :
        /\ At(w, "work") /\ wk[w].cur \in Collectors /\ ReadsFrom(wk[w].cur) \in Collectors
        /\ rows[ReadsFrom(wk[w].cur)].state = "succeeded"
        => Sees(memory[w].collection, wk[w].cur)

\* A run that is marked completed has its evidence stored.
CompletedRunHasEvidence ==
    runState \in {"completed", "partially_completed"} => stored # NoRows
=============================================================================
