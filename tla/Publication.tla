----------------------------- MODULE Publication -----------------------------
(***************************************************************************)
(* The observatory: what is published about a name, who may take it down   *)
(* and what a visitor reads.                                               *)
(*                                                                         *)
(* The projector runs beside the API, in a transaction of its own at READ  *)
(* COMMITTED: it reads the permission, then the assessment, then the       *)
(* review, and writes.  Each of these sees what was committed by then.     *)
(***************************************************************************)
EXTENDS Integers, Sequences, FiniteSets, TLC

CONSTANTS
    Domains,        \* registered domains
    NameOf,         \* the registrable name each stands under
    Checks,         \* checks of the catalogue
    PublicChecks,   \* those it classes public_profile
    Results,        \* what an evaluation may say
    RunKinds,       \* what an assessment may come to, see RunType
    MaxRuns,        \* bound on the assessments of the model
    None            \* nothing

Names == {NameOf[d] : d \in Domains}

\* state is that of the settled assessment, results what it decided about the
\* domain per check, hosts what it decided about its accepted hosts.
RunType == [state : {"completed", "partially_completed", "failed"}, sufficient : BOOLEAN,
            results : [Checks -> Results], hosts : [Checks -> SUBSET Results]]

\* What is kept about a registered domain: the proof of control, whether one was
\* ever tried, the consent, and the settled assessments in their order.
DomainRow == [verified : BOOLEAN, tried : BOOLEAN, consent : BOOLEAN, runs : Seq(RunKinds)]

ASSUME PublicationAssumption ==
    /\ DOMAIN NameOf = Domains
    /\ None \notin DomainRow
    /\ PublicChecks \subseteq Checks
    /\ MaxRuns \in Nat
    /\ RunKinds \subseteq RunType
    /\ IsFiniteSet(Checks)

VARIABLES
    domain,         \* the rows of the tenant's side, None once erased
    review,         \* the last decision about the catalogue in use
    takedowns,      \* the names somebody outside asked to come down
    publishing,     \* the projector at work, see Resting
    profile,        \* what is published under each name
    page            \* a visitor's request, see NoVisitor

vars == <<domain, review, takedowns, publishing, profile, page>>

PUBLISHABLE_RESULTS == {"pass", "fail", "warning"}

Resting == [pc |-> "idle", domain |-> None, verified |-> FALSE, consent |-> FALSE,
            takedown |-> FALSE, run |-> None, outdated |-> FALSE]
NoVisitor == [pc |-> "idle", name |-> None, row |-> None, checks |-> {},
              gone |-> FALSE, disturbed |-> FALSE]

Exists(d) == domain[d] # None
Consented(d) == Exists(d) /\ domain[d].consent
Permitted(d) ==
    /\ Consented(d)
    /\ domain[d].verified
    /\ NameOf[d] \notin takedowns
    /\ review = "approved"

RunsMade ==
    Cardinality(UNION {{<<d, i>> : i \in DOMAIN domain[d].runs}
                          : d \in {e \in Domains : Exists(e)}})

(***************************************************************************)
(* The tenant's side.                                                      *)
(***************************************************************************)
\* Whatever changes the grounds of a publication under way leaves it outdated.
Outdated(d) ==
    publishing' = IF publishing.domain = d /\ publishing.pc # "idle"
                  THEN [publishing EXCEPT !.outdated = TRUE] ELSE publishing

Assessed(d, kind) ==
    /\ Exists(d) /\ RunsMade < MaxRuns
    /\ domain' = [domain EXCEPT ![d].runs = Append(@, kind)]
    /\ UNCHANGED <<review, takedowns, publishing, profile, page>>

Verify(d) ==
    /\ Exists(d) /\ ~domain[d].verified
    /\ domain' = [domain EXCEPT ![d].verified = TRUE, ![d].tried = TRUE]
    /\ UNCHANGED <<review, takedowns, publishing, profile, page>>

\* A revoked or expired proof of control.  What is published stays.
LoseControl(d) ==
    /\ Exists(d) /\ domain[d].verified
    /\ domain' = [domain EXCEPT ![d].verified = FALSE]
    /\ Outdated(d)
    /\ UNCHANGED <<review, takedowns, profile, page>>

\* Agreeing publishes nothing by itself.
Grant(d) ==
    /\ Exists(d) /\ domain[d].verified
    /\ domain' = [domain EXCEPT ![d].consent = TRUE]
    /\ UNCHANGED <<review, takedowns, publishing, profile, page>>

\* Mutant of Remove: the visible row is left behind.
RemoveNothing(names) == UNCHANGED <<profile, page>>

\* The visitor whose profile row goes away finds no checks under its id.
Remove(names) ==
    /\ profile' = [n \in Names |-> IF n \in names THEN None ELSE profile[n]]
    /\ page' = IF page.pc = "row" /\ page.name \in names
               THEN [page EXCEPT !.gone = TRUE, !.disturbed = TRUE] ELSE page

Withdraw(d) ==
    /\ Exists(d)
    /\ domain' = [domain EXCEPT ![d].consent = FALSE]
    /\ Outdated(d)
    /\ Remove({NameOf[d]})
    /\ UNCHANGED <<review, takedowns>>

\* Erasing the organization: its published names while they can still be
\* looked up, then its rows, in one transaction.  The events of a verification
\* refuse to be deleted: only who never tried one is erased.
EraseOrganization(d) ==
    /\ Exists(d) /\ ~domain[d].tried
    /\ Remove({NameOf[d]})
    /\ domain' = [domain EXCEPT ![d] = None]
    /\ Outdated(d)
    /\ UNCHANGED <<review, takedowns>>

(***************************************************************************)
(* The platform's side.                                                    *)
(***************************************************************************)
\* The most recent decision wins.
Decide(decision) ==
    /\ review' = decision
    /\ publishing' = [publishing EXCEPT !.outdated = @ \/ (publishing.pc # "idle" /\ decision = "refused")]
    /\ UNCHANGED <<domain, takedowns, profile, page>>

RecordTakedown(n) ==
    /\ n \notin takedowns
    /\ takedowns' = takedowns \union {n}
    /\ publishing' = [publishing EXCEPT !.outdated =
                         @ \/ (publishing.pc # "idle" /\ NameOf[publishing.domain] = n)]
    /\ UNCHANGED <<domain, review, profile, page>>

(***************************************************************************)
(* The projector.                                                          *)
(***************************************************************************)
BeginPublishing(d) ==
    /\ publishing.pc = "idle" /\ Exists(d)
    /\ publishing' = [Resting EXCEPT
                         !.pc = "domain", !.domain = d,
                         !.verified = domain[d].verified, !.consent = domain[d].consent,
                         !.takedown = NameOf[d] \in takedowns]
    /\ UNCHANGED <<domain, review, takedowns, profile, page>>

Publishable(run) == run.state \in {"completed", "partially_completed"}

LatestRun(runs) == CHOOSE i \in DOMAIN runs :
    Publishable(runs[i]) /\ \A j \in DOMAIN runs : Publishable(runs[j]) => j <= i

\* The evaluations of an assessment, by check: of those of the domain and of its
\* hosts the one that is read last, in no order.
ByCheck(run) ==
    {e \in [Checks -> Results] : \A c \in Checks : e[c] \in {run.results[c]} \union run.hosts[c]}

\* Nothing to publish yet is an ordinary end.
ReadAssessment ==
    LET d == publishing.domain
        ready == Exists(d) /\ \E i \in DOMAIN domain[d].runs : Publishable(domain[d].runs[i])
    IN  /\ publishing.pc = "domain"
        /\ IF ~ready THEN publishing' = Resting
           ELSE LET i == LatestRun(domain[d].runs)
                    run == domain[d].runs[i]
                IN  \E e \in ByCheck(run) :
                       publishing' = [publishing EXCEPT
                                         !.pc = "assessment",
                                         !.run = [at |-> i, sufficient |-> run.sufficient,
                                                  results |-> e]]
        /\ UNCHANGED <<domain, review, takedowns, profile, page>>

\* Mutant of Refused: the tenant's consent outranks a takedown.
ConsentOutranks(p) == ~p.consent \/ ~p.verified

Refused(p) == p.takedown \/ ~p.consent \/ ~p.verified

\* The review is looked up now, the permission was read at the start.
Project ==
    /\ publishing.pc = "assessment"
    /\ publishing' = IF review # "approved" \/ Refused(publishing) THEN Resting
                     ELSE [publishing EXCEPT !.pc = "writing"]
    /\ UNCHANGED <<domain, review, takedowns, profile, page>>

\* Mutant of PublicPart: what could not be collected is published too.
Unfiltered(run) == {<<c, run.results[c]>> : c \in PublicChecks}

PublicPart(run) ==
    {<<c, run.results[c]>> : c \in {p \in PublicChecks : run.results[p] \in PUBLISHABLE_RESULTS}}

\* The row is kept or made, its checks are deleted and written anew; all of it
\* is seen at the commit.
Write ==
    LET n == NameOf[publishing.domain]
    IN  /\ publishing.pc = "writing"
        /\ profile' = [profile EXCEPT ![n] =
                          [domain |-> publishing.domain, at |-> publishing.run.at,
                           banded |-> publishing.run.sufficient,
                           checks |-> PublicPart(publishing.run),
                           overtaken |-> publishing.outdated]]
        /\ page' = IF page.pc = "row" /\ page.name = n THEN [page EXCEPT !.disturbed = TRUE] ELSE page
        /\ publishing' = Resting
        /\ UNCHANGED <<domain, review, takedowns>>

(***************************************************************************)
(* A visitor, without any identity: the row, then its checks.              *)
(***************************************************************************)
ReadRow(n) ==
    /\ page.pc = "idle" /\ profile[n] # None
    /\ page' = [NoVisitor EXCEPT !.pc = "row", !.name = n,
                   !.row = [at |-> profile[n].at, banded |-> profile[n].banded,
                            checks |-> profile[n].checks]]
    /\ UNCHANGED <<domain, review, takedowns, publishing, profile>>

ReadChecks ==
    /\ page.pc = "row"
    /\ page' = [page EXCEPT !.pc = "shown",
                   !.checks = IF page.gone \/ profile[page.name] = None THEN {}
                              ELSE profile[page.name].checks]
    /\ UNCHANGED <<domain, review, takedowns, publishing, profile>>

Leave ==
    /\ page.pc = "shown"
    /\ page' = NoVisitor
    /\ UNCHANGED <<domain, review, takedowns, publishing, profile>>

Init ==
    /\ domain = [d \in Domains |-> [verified |-> FALSE, tried |-> FALSE, consent |-> FALSE, runs |-> <<>>]]
    /\ review = "none"
    /\ takedowns = {}
    /\ publishing = Resting
    /\ profile = [n \in Names |-> None]
    /\ page = NoVisitor

Next ==
    \/ \E d \in Domains :
          \/ \E kind \in RunKinds : Assessed(d, kind)
          \/ Verify(d) \/ LoseControl(d)
          \/ Grant(d) \/ Withdraw(d)
          \/ EraseOrganization(d)
          \/ BeginPublishing(d)
    \/ \E decision \in {"approved", "refused"} : Decide(decision)
    \/ \E n \in Names : RecordTakedown(n) \/ ReadRow(n)
    \/ ReadAssessment \/ Project \/ Write
    \/ ReadChecks \/ Leave

Spec == Init /\ [][Next]_vars

(***************************************************************************)
(* Properties.                                                             *)
(***************************************************************************)
\* Consent taken back and an organization erased leave nothing published, but
\* for a projector that had read the permission before and writes after.
\* (withdraw, erase, store.publish_domain)
WithdrawnIsGone ==
    \A n \in Names : profile[n] # None =>
        Consented(profile[n].domain) \/ profile[n].overtaken

\* Nothing appears on a public page that was not permitted from the moment the
\* projector looked to the moment it wrote: consent, proof of control, an
\* approving review and no takedown, whichever of them changed last.
\* (store.publish_domain, projection.project_profile, review)
OnlyThePermittedAppears ==
    [][\A n \in Names : profile'[n] # profile[n] =>
          \/ profile'[n] = None
          \/ profile'[n].overtaken
          \/ NameOf[profile'[n].domain] = n /\ Permitted(profile'[n].domain)]_vars

\* What a visitor is shown is checks of the public class with a result about
\* the domain, and, unless the profile was rewritten or removed while it was
\* read, exactly those of the assessment whose band stands beside them.
\* (public_router.profile, projection.project_profile, store._write)
PageShowsOneRun ==
    page.pc = "shown" =>
        /\ \A shown \in page.checks :
              shown[1] \in PublicChecks /\ shown[2] \in PUBLISHABLE_RESULTS
        /\ ~page.disturbed => page.checks = page.row.checks

\* "Results that describe the domain": what stands on the page of a name is
\* what the assessment decided about the domain itself.
PageDescribesTheDomain ==
    \A n \in Names : profile[n] # None /\ Exists(profile[n].domain) =>
        profile[n].checks \subseteq
            {<<c, domain[profile[n].domain].runs[profile[n].at].results[c]>> : c \in Checks}
=============================================================================
