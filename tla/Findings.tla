------------------------------- MODULE Findings -------------------------------
(***************************************************************************)
(* What the runs of several domains leave behind: the findings of          *)
(* policy/findings.py, reconciled and written by                           *)
(* workflows/evidence_repository.py, together with the score of the run.   *)
(* A run derives its evidence, loads the findings of its domain and writes *)
(* what becomes of them in one READ COMMITTED transaction.  The upserts    *)
(* are sorted and hold their rows to the commit, so the writes of two      *)
(* transactions appear one after the other; what each wrote rests on what  *)
(* it loaded.                                                              *)
(*                                                                         *)
(* A fingerprint is the domain, the check and the result: each rule of the *)
(* catalog has a reason code of its own.  Suppressions and accepted hosts  *)
(* are left out: nothing in the program creates one.                       *)
(***************************************************************************)
EXTENDS Scoring, Sequences, SequencesExt

CONSTANTS
    Domains,   \* the domains of an organization
    Aim,       \* Aim[r]: the domain run r assesses; runs are numbered as they are created
    Evidence   \* Evidence[d]: what the evaluations of a run of d may be

Runs == DOMAIN Aim

ASSUME FindingsAssumption ==
    /\ Aim \in Seq(Domains)
    /\ DOMAIN Evidence = Domains
    /\ \A d \in Domains : \A evidence \in Evidence[d] :
          evidence \in [Checks -> [result : Results, high : BOOLEAN]]

FindingResults == {"warning", "fail"}

Fingerprints == Domains \X Checks \X FindingResults

FindingStates == {"absent", "open", "resolved", "regressed"}

Listed == {"open", "regressed"}

VARIABLES
    findings,    \* findings.state, "absent" where there is no row
    history,     \* finding_history: the moves of each finding
    run,         \* the local variables of each run
    latest,      \* latest[d]: the newest run of d whose snapshot is stored, or 0
    overlapped   \* the domains of which two runs were in flight at once

vars == << findings, history, run, latest, overlapped >>

Init ==
    /\ findings = [f \in Fingerprints |-> "absent"]
    /\ history = [f \in Fingerprints |-> << >>]
    /\ run = [r \in Runs |-> [pc |-> "new", evidence |-> << >>, previous |-> << >>]]
    /\ latest = [d \in Domains |-> 0]
    /\ overlapped = {}

InFlight(r) == run[r].pc \in {"derived", "loaded"}

(***************************************************************************)
(* evaluate, score and findings: a run without a band never gets further.  *)
(***************************************************************************)
Derive(r) ==
    /\ run[r].pc = "new"
    /\ \A q \in Runs : q < r /\ Aim[q] = Aim[r] => run[q].pc # "new"
    /\ \E evidence \in Evidence[Aim[r]] :
          run' = [run EXCEPT ![r].pc = IF SnapshotBands(evidence) = {} THEN "failed" ELSE "derived",
                             ![r].evidence = evidence]
    /\ overlapped' = IF \E q \in Runs : InFlight(q) /\ Aim[q] = Aim[r]
                     THEN overlapped \cup {Aim[r]} ELSE overlapped
    /\ UNCHANGED << findings, history, latest >>

\* derive_findings: one per evaluation that represents an issue.
Derived(r) ==
    {<< Aim[r], c, run[r].evidence[c].result >> :
        c \in {x \in Checks : run[r].evidence[x].result \in FindingResults}}

(***************************************************************************)
(* save_findings: load, reconcile, write.                                  *)
(***************************************************************************)
\* Mutant of Loaded: the findings of the whole organization.
LoadedOfAll(r) == findings

Loaded(r) == [f \in Fingerprints |-> IF f[1] = Aim[r] THEN findings[f] ELSE "absent"]

Load(r) ==
    /\ run[r].pc = "derived"
    /\ run' = [run EXCEPT ![r].pc = "loaded", ![r].previous = Loaded(r)]
    /\ UNCHANGED << findings, history, latest, overlapped >>

\* Mutant of Found: what was resolved stays so.
FoundKept(old) == IF old = "absent" THEN "open" ELSE old

\* Mutant of Found: what returns is open as if it were new.
FoundAnew(old) == IF old \in {"absent", "resolved"} THEN "open" ELSE old

\* reconcile: a finding of this run, and one that this run did not make.
Found(old) ==
    CASE old = "absent" -> "open"
      [] old = "resolved" -> "regressed"
      [] old \in Listed -> old

Vanished(old) == IF old = "absent" THEN "absent" ELSE "resolved"

Merged(r) ==
    [f \in Fingerprints |-> IF f \in Derived(r) THEN Found(run[r].previous[f])
                            ELSE Vanished(run[r].previous[f])]

\* Mutant of Moves: a return is not written down.
MovesButReturns(r) ==
    {f \in Fingerprints : Merged(r)[f] \notin {run[r].previous[f], "regressed"}}

\* The findings whose state changes against what was loaded.
Moves(r) == {f \in Fingerprints : Merged(r)[f] # run[r].previous[f]}

\* Every row that was loaded or derived is written, changed or not.
Commit(r) ==
    /\ run[r].pc = "loaded"
    /\ findings' = [f \in Fingerprints |->
                      IF Merged(r)[f] = "absent" THEN findings[f] ELSE Merged(r)[f]]
    /\ history' = [f \in Fingerprints |->
                     IF f \in Moves(r)
                     THEN Append(history[f], << run[r].previous[f], Merged(r)[f] >>)
                     ELSE history[f]]
    /\ latest' = [latest EXCEPT ![Aim[r]] = Max({@, r})]
    /\ run' = [run EXCEPT ![r].pc = "stored", ![r].previous = << >>]
    /\ UNCHANGED overlapped

\* The worker dies, or the write fails: the transaction leaves nothing.
Fail(r) ==
    /\ InFlight(r)
    /\ run' = [run EXCEPT ![r] = [pc |-> "failed", evidence |-> << >>, previous |-> << >>]]
    /\ UNCHANGED << findings, history, latest, overlapped >>

Next == \E r \in Runs : Derive(r) \/ Load(r) \/ Commit(r) \/ Fail(r)

Spec == Init /\ [][Next]_vars

(***************************************************************************)
(* Properties.  The due query and the request of a run see to it that the  *)
(* runs of a domain follow one another; where two of them overlap, only    *)
(* what does not speak of that domain's own findings is promised.          *)
(***************************************************************************)
TypeOK ==
    /\ findings \in [Fingerprints -> FindingStates]
    /\ \A f \in Fingerprints : history[f] \in Seq(FindingStates \X FindingStates)
    /\ \A r \in Runs :
          /\ run[r].pc \in {"new", "derived", "loaded", "stored", "failed"}
          /\ run[r].pc \in {"derived", "loaded", "stored"} => run[r].evidence \in Evidence[Aim[r]]
          /\ run[r].pc = "loaded" => run[r].previous \in [Fingerprints -> FindingStates]
    /\ latest \in [Domains -> 0..Len(Aim)]
    /\ overlapped \subseteq Domains

Orderly(d) == latest[d] # 0 /\ d \notin overlapped

Latest(d) == run[latest[d]].evidence

ListedOn(d) == {f \in Fingerprints : f[1] = d /\ findings[f] \in Listed}

\* A run only observes the domain it was aimed at: the findings of any other
\* domain of the organization are none of its business.
ForeignDomainsUntouched ==
    [][\A f \in Fingerprints :
          findings'[f] # findings[f] =>
            \E r \in Runs : Aim[r] = f[1] /\ run[r].pc = "loaded" /\ run'[r].pc = "stored"]_vars

\* A shorter list of weaknesses is the one mistake the findings screen must not
\* make: what the run on the screen found wrong is listed.
FailingChecksAreListed ==
    \A d \in Domains : Orderly(d) =>
        \A c \in Checks : Latest(d)[c].result \in FindingResults =>
            << d, c, Latest(d)[c].result >> \in ListedOn(d)

\* And nothing is listed that this run did not find: what it no longer saw is
\* resolved, also when the same check fails for another reason.
ListedFindingsWereFound ==
    \A d \in Domains : Orderly(d) =>
        \A f \in ListedOn(d) : Latest(d)[f[2]].result = f[3]

\* The history of a finding is one unbroken line from its first sight to the
\* state it is in.
HistoryTellsTheState ==
    \A f \in Fingerprints : Orderly(f[1]) =>
        LET moves == << << "absent", "absent" >> >> \o history[f]
        IN  /\ Last(moves)[2] = findings[f]
            /\ \A i \in 2..Len(moves) : moves[i][1] = moves[i - 1][2]

\* A finding that returns is marked as regressed, however often it comes and goes.
RegressionIsMarked ==
    \A f \in Fingerprints : Orderly(f[1]) /\ findings[f] = "open" =>
        \A i \in DOMAIN history[f] : history[f][i][2] # "resolved"

\* The score and the list beside it describe one another: points are missing
\* exactly when something is listed, and a cap is owed to a listed finding.
ScoreIsExplained ==
    \A d \in Domains : Orderly(d) /\ Score(Latest(d)) # NoScore =>
        /\ Score(Latest(d)) < 1000 <=> ListedOn(d) # {}
        /\ \A cap \in AppliedCaps(Latest(d)) :
              \E f \in ListedOn(d) : f[2] \in cap.checks /\ f[3] = "fail"

\* No check is so light that a warning of it could be rounded away: half its weight
\* moves its pillar, and that the mean, by more than half a tenth.
EveryFindingCounts ==
    \A c \in Checks :
        LET pillar == WeightOf({x \in Checks : PillarOf[x] = PillarOf[c]})
        IN  PillarWeight[PillarOf[c]] * (1000 * Weight[c] - pillar)
                > pillar * SumFunctionOnSet(PillarWeight, Pillars)

\* What the snapshots of the stored runs were computed from.
SnapshotEvidence == {run[r].evidence : r \in {x \in Runs : run[x].pc = "stored"}}

\* What comes to light moves the score the way it should: a check that turns out to
\* pass costs nothing, whether it was complained about or unknown, and one that turns
\* out to fail earns nothing. An unknown check is neither good nor bad news.
ScoreFollowsTheChecks ==
    \A evidence \in SnapshotEvidence :
        LET score == Score(evidence)
            If(c, result) == Score([evidence EXCEPT ![c].result = result])
        IN  \A c \in Checks :
                /\ evidence[c].result \in {"fail", "warning", "unknown"} => If(c, "pass") >= score
                /\ evidence[c].result \in {"warning", "unknown"} /\ score # NoScore =>
                      If(c, "fail") <= score

\* Every snapshot is one its table takes: scores from 0 to 100, a cap that only
\* lowers, no score exactly where there is no mean. (snapshot_score_range,
\* snapshot_cap_only_lowers)
SnapshotsFitTheirTable ==
    \A evidence \in SnapshotEvidence :
        /\ Coverage(evidence) \in 0..1000
        /\ Score(evidence) = NoScore <=> Uncapped(evidence) = NoScore
        /\ Uncapped(evidence) # NoScore =>
              Uncapped(evidence) \in 0..1000 /\ Score(evidence) \in 0..Uncapped(evidence)

\* A band is a conclusion somebody was entitled to draw: enough of what applies
\* was determined, whatever was found, to the tenth the coverage is rounded to.
BandIsEarned ==
    \A evidence \in SnapshotEvidence :
        SnapshotBands(evidence) # {"insufficient_coverage"} =>
            LET applicable == {c \in Checks : evidence[c].result # "not_applicable"}
                unknown == {c \in applicable : evidence[c].result = "unknown"}
            IN  2000 * WeightOf(unknown) <= (2001 - 20 * MinCoverage) * WeightOf(applicable)

\* Missing data never becomes good news: what a run resolves, it has looked at.
ResolvedWasExamined ==
    [][\A f \in Fingerprints :
          /\ findings[f] # "resolved" /\ findings'[f] = "resolved"
          /\ f[1] \notin overlapped
          => \E r \in Runs : /\ Aim[r] = f[1] /\ run[r].pc = "loaded" /\ run'[r].pc = "stored"
                          /\ run[r].evidence[f[2]].result # "unknown"]_vars

\* The bands are contiguous: no evidence is without one.
EveryScoreHasABand ==
    \A r \in Runs : run[r].pc # "new" /\ run[r].evidence # << >> =>
        SnapshotBands(run[r].evidence) # {}

=============================================================================
