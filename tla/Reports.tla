------------------------------- MODULE Reports -------------------------------
(***************************************************************************)
(* What is kept of an assessed domain and what is read back from it: the   *)
(* stored runs, the retention sweep that takes their observations away,    *)
(* and the reports drawn from what is left on single-use grants.           *)
(*                                                                         *)
(* A report is put together statement by statement, each of which sees     *)
(* what was committed by then; a sweep is one transaction.                 *)
(***************************************************************************)
EXTENDS Integers, Sequences, FiniteSets, FiniteSetsExt, TLC

CONSTANTS
    Checks, Subjects,   \* checks, and the subjects of a run: the domain and its assets
    Domain,             \* the subject that is the domain, as it is registered
    RegistrableName,    \* the name it stands under, itself or one above it
    RunKinds,           \* what a run may store, see RunType
    MaxRuns,            \* bound on the runs of the model
    SweptRows,          \* rows a sweep removes from one table at the most
    Users, Grants,      \* people, and the download links they may be given
    Requests,           \* downloads that may be under way at once
    None                \* nothing

Keys == Checks \X Subjects
Outcomes == {"pass", "fail", "unknown", "withheld", "unasked"}

\* results: what every check came to for every subject; absent: the checks whose
\* observation says that something is not there; rows: what was observed.
RunType == [results : [Keys -> Outcomes], absent : SUBSET Keys, rows : SUBSET Keys]

\* A link: for whom, about which run, how old, and what became of it.
GrantRow == [user : Users, run : Nat, age : {"live", "expired", "old"},
             spent : BOOLEAN, copies : Nat]

ASSUME ReportsAssumption ==
    /\ Domain \in Subjects
    /\ None \notin GrantRow
    /\ RunKinds \subseteq RunType
    /\ {MaxRuns, SweptRows} \subseteq Nat \ {0}
    /\ IsFiniteSet(Keys)

VARIABLES
    runs,           \* the stored runs: kind, rows left, rows past their period, mark
    members,        \* the members of the organization
    grants,         \* the links given out
    download,       \* the downloads, see Idle
    manifestOld     \* whether a scope manifest is past its period

vars == <<runs, members, grants, download, manifestOld>>

Idle == [pc |-> "idle", user |-> None, grant |-> None, run |-> 0, erased |-> FALSE,
         rows |-> {}, findings |-> {}, cited |-> {}, swept |-> FALSE]

Failing(i) == {k \in Keys : runs[i].kind.results[k] = "fail"}

\* The open findings are those of the last run, whatever its subject.
OpenFindings == IF runs = <<>> THEN {} ELSE Failing(Len(runs))

(***************************************************************************)
(* Runs and time.                                                          *)
(***************************************************************************)
Store(kind) ==
    /\ Len(runs) < MaxRuns
    /\ runs' = Append(runs, [kind |-> kind, left |-> kind.rows, old |-> {}, erased |-> FALSE])
    /\ UNCHANGED <<members, grants, download, manifestOld>>

\* Rows of one run are collected at different moments.
ObservationsAge(i) ==
    /\ \E k \in runs[i].left \ runs[i].old : runs' = [runs EXCEPT ![i].old = @ \union {k}]
    /\ UNCHANGED <<members, grants, download, manifestOld>>

ManifestAges ==
    /\ ~manifestOld
    /\ manifestOld' = TRUE
    /\ UNCHANGED <<runs, members, grants, download>>

\* A link serves five minutes and is swept a day later; no download takes that
\* long.
GrantAges(g) ==
    /\ grants[g] # None /\ grants[g].age # "old"
    /\ grants[g].age = "expired" => \A q \in Requests : download[q].grant # g
    /\ grants' = [grants EXCEPT ![g].age = IF @ = "live" THEN "expired" ELSE "old"]
    /\ UNCHANGED <<runs, members, download, manifestOld>>

(***************************************************************************)
(* The sweep.                                                              *)
(***************************************************************************)
Expired == {x \in (DOMAIN runs) \X Keys : x[2] \in runs[x[1]].old}

\* Mutant of Orphaned: whatever has no observations left.
Bare(removed) == {i \in DOMAIN runs : runs[i].left \subseteq {r[2] : r \in {x \in removed : x[1] = i}}}

\* The runs this sweep took the last observations of.
Orphaned(removed) ==
    {i \in DOMAIN runs :
        LET gone == {r[2] : r \in {x \in removed : x[1] = i}}
        IN  gone # {} /\ runs[i].left = gone}

\* Batches up to a limit, in no order; the rest waits for the next sweep.
Taken == kSubset(Min({SweptRows, Cardinality(Expired)}), Expired)

\* The schedule is applied in one transaction.
Sweep ==
    /\ ~manifestOld
    /\ \E removed \in Taken :
          /\ runs' = [i \in DOMAIN runs |->
                        LET gone == {r[2] : r \in {x \in removed : x[1] = i}}
                        IN  [runs[i] EXCEPT !.left = @ \ gone, !.old = @ \ gone,
                                            !.erased = @ \/ i \in Orphaned(removed)]]
          /\ download' = [q \in Requests |->
                            IF download[q].pc # "idle" /\ \E r \in removed : r[1] = download[q].run
                            THEN [download[q] EXCEPT !.swept = TRUE] ELSE download[q]]
    /\ grants' = [g \in Grants |-> IF grants[g] # None /\ grants[g].age = "old"
                                   THEN None ELSE grants[g]]
    /\ UNCHANGED <<members, manifestOld>>

\* Manifests are in the schedule, and their table refuses every deletion: the
\* sweep that meets one raises, what it removed until then comes back, and a
\* row says that it failed.
SweepRaises ==
    /\ manifestOld
    /\ UNCHANGED vars

(***************************************************************************)
(* Grants and downloads.                                                   *)
(***************************************************************************)
Leave(u) ==
    /\ u \in members
    /\ members' = members \ {u}
    /\ UNCHANGED <<runs, grants, download, manifestOld>>

\* A link to the latest scored run, pinned now.
Mint(u, g) ==
    /\ u \in members /\ grants[g] = None /\ runs # <<>>
    /\ grants' = [grants EXCEPT ![g] = [user |-> u, run |-> Len(runs), age |-> "live",
                                        spent |-> FALSE, copies |-> 0]]
    /\ UNCHANGED <<runs, members, download, manifestOld>>

\* Mutant of Claimable: a link serves until it expires.
ClaimableAgain(u, g) == grants[g].user = u /\ grants[g].age = "live"

Claimable(u, g) == grants[g].user = u /\ ~grants[g].spent /\ grants[g].age = "live"

\* app_claim_report_grant, in a transaction of its own.
Claim(q, u, g) ==
    /\ download[q].pc = "idle" /\ grants[g] # None /\ Claimable(u, g)
    /\ grants' = [grants EXCEPT ![g].spent = TRUE]
    /\ download' = [download EXCEPT ![q] = [Idle EXCEPT !.pc = "claimed", !.user = u,
                                               !.grant = g, !.run = grants[g].run]]
    /\ UNCHANGED <<runs, members, manifestOld>>

Go(q, pc, d) ==
    /\ download' = [download EXCEPT ![q] = [d EXCEPT !.pc = pc]]
    /\ UNCHANGED <<runs, members, grants, manifestOld>>

ReportedRun(q) == download[q].run

\* Authorized once more; the snapshot of the pinned run says if it is erased.
Open(q) ==
    /\ download[q].pc = "claimed"
    /\ IF download[q].user \in members
       THEN Go(q, "open", [download[q] EXCEPT !.run = ReportedRun(q),
                                              !.erased = runs[ReportedRun(q)].erased])
       ELSE Go(q, "idle", Idle)

ReadObservations(q) ==
    /\ download[q].pc = "open"
    /\ Go(q, "observations", [download[q] EXCEPT !.rows = runs[download[q].run].left])

ReadFindings(q) ==
    /\ download[q].pc = "observations"
    /\ Go(q, "findings", [download[q] EXCEPT !.findings = OpenFindings])

\* The citations of the analysis that still resolve.
ReadInsights(q) ==
    /\ download[q].pc = "findings"
    /\ Go(q, "insights", [download[q] EXCEPT !.cited = runs[download[q].run].left])

\* The document is rendered from what was read; the renderer of this process
\* may be missing.
Deliver(q) ==
    /\ download[q].pc = "insights"
    /\ download' = [download EXCEPT ![q].pc = "delivered"]
    /\ grants' = IF grants[download[q].grant] = None THEN grants
                 ELSE [grants EXCEPT ![download[q].grant].copies = @ + 1]
    /\ UNCHANGED <<runs, members, manifestOld>>

RendererMissing(q) == download[q].pc = "insights" /\ Go(q, "idle", Idle)

Done(q) == download[q].pc = "delivered" /\ Go(q, "idle", Idle)

(***************************************************************************)
(* The page.                                                               *)
(***************************************************************************)
Page(q) == download[q].pc = "delivered"
Kind(q) == runs[download[q].run].kind

\* The page asks for the evaluations of the registrable name.
Shown(q, c) ==
    IF RegistrableName \in Subjects THEN Kind(q).results[<<c, RegistrableName>>] ELSE "unasked"

\* Mutant of Column: what could not be looked at counts as fine.
ColumnOfSilence(q, c) ==
    CASE Shown(q, c) \in {"pass", "unknown"} -> "ok"
      [] Shown(q, c) = "fail" -> "action"
      [] OTHER -> "elsewhere"

\* Three columns; what does not apply is counted, what was not asked is not there.
Column(q, c) ==
    CASE Shown(q, c) = "pass" -> "ok"
      [] Shown(q, c) = "fail" -> "action"
      [] Shown(q, c) = "unknown" -> "unknown"
      [] OTHER -> "elsewhere"

\* The findings of the document, and the sentences that still cite something.
Listed(q) == download[q].findings
Cited(q) == download[q].cited

\* What stands beside a finding: nothing, when no observation was found for it
\* or when it says no more than that something is absent.
HasEvidenceBox(q, k) == k \in download[q].rows /\ k \notin Kind(q).absent

ErasureSaid(q) == download[q].erased

Init ==
    /\ runs = <<>>
    /\ members = Users
    /\ grants = [g \in Grants |-> None]
    /\ download = [q \in Requests |-> Idle]
    /\ manifestOld = FALSE

Next ==
    \/ \E kind \in RunKinds : Store(kind)
    \/ \E i \in DOMAIN runs : ObservationsAge(i)
    \/ ManifestAges
    \/ Sweep \/ SweepRaises
    \/ \E u \in Users : Leave(u)
    \/ \E g \in Grants :
          \/ GrantAges(g)
          \/ \E u \in Users : Mint(u, g) \/ \E q \in Requests : Claim(q, u, g)
    \/ \E q \in Requests :
          \/ Open(q) \/ ReadObservations(q) \/ ReadFindings(q) \/ ReadInsights(q)
          \/ Deliver(q) \/ RendererMissing(q) \/ Done(q)

\* The beat sends the sweep every day.
FairSpec == Init /\ [][Next]_vars /\ WF_vars(Sweep)

(***************************************************************************)
(* Properties.                                                             *)
(***************************************************************************)
\* A score is said to have lost its evidence exactly when there was some and
\* none is left, however many sweeps it took to remove it.
\* (sweep_retention, _mark_erased_snapshots)
MarkTellsTheTruth ==
    \A i \in DOMAIN runs : runs[i].erased <=> runs[i].kind.rows # {} /\ runs[i].left = {}

\* A report with none of the evidence its run had says that it was erased, and
\* one that says so shows none, unless a sweep passed while it was put together.
\* (download, build_report_document, _headline, _evidence)
ErasureIsSaid ==
    \A q \in Requests :
        Page(q) /\ Kind(q).rows # {} =>
            /\ download[q].rows = {} => ErasureSaid(q) \/ download[q].swept
            /\ ErasureSaid(q) =>
                  Cited(q) = {} /\ \A k \in Listed(q) : ~HasEvidenceBox(q, k)

\* A link serves one document, to the person it was given to, about the run
\* that was pinned when it was given, whoever else asks at the same time.
\* (app_claim_report_grant, mint, download)
OneDocumentPerGrant ==
    /\ \A g \in Grants : grants[g] # None => grants[g].copies <= 1
    /\ \A q \in Requests :
          Page(q) /\ grants[download[q].grant] # None /\ grants[download[q].grant].spent =>
              /\ download[q].user = grants[download[q].grant].user
              /\ download[q].run = grants[download[q].grant].run

\* The parts of one page agree about the domain as long as no later run has
\* been stored: what is listed to be fixed is what stands in the column that
\* asks for action, and nothing that fails or could not be looked at is fine.
\* (_findings_for, _checks_for, _checked)
PageAgreesWithItself ==
    \A q \in Requests :
        Page(q) /\ download[q].run = Len(runs) =>
            /\ \A c \in Checks :
                  <<c, Domain>> \in Listed(q) <=> Column(q, c) = "action"
            /\ \A c \in Checks :
                  Column(q, c) = "ok" => Kind(q).results[<<c, Domain>>] = "pass"

\* What is past its period is removed, while no manifest stands in the way.
\* (run_retention, sweep_retention)
ExpiredGoes == Expired # {} ~> manifestOld \/ Expired = {}

\* "Expired evidence is never removed" is the failure the daily sweep is there
\* to prevent: whatever is past its period is removed some day.
ExpiredEvidenceIsRemoved == Expired # {} ~> Expired = {}
=============================================================================
