--------------------------- MODULE PublicationProofs ---------------------------
(***************************************************************************)
(* Proofs about the observatory, for any number of organizations that      *)
(* registered one name, of runs, checks and visits.  The argument is the   *)
(* same for the three of them: whatever the projector read and no longer   *)
(* holds has left its publication outdated.                                *)
(***************************************************************************)
EXTENDS Publication, TLAPS

\* What is held of a publication under way that nothing has outdated: what was
\* read of the permission still holds, and it was enough once it is written.
GroundsInv ==
    /\ publishing.pc \in {"idle", "domain", "assessment", "writing"}
    /\ publishing.pc # "idle" =>
          /\ publishing.domain \in Domains
          /\ ~publishing.outdated =>
                /\ publishing.consent => Consented(publishing.domain)
                /\ publishing.verified => Exists(publishing.domain) /\ domain[publishing.domain].verified
                /\ ~publishing.takedown => NameOf[publishing.domain] \notin takedowns
                /\ publishing.pc = "writing" => review = "approved"
    /\ publishing.pc = "writing" => ~Refused(publishing)

PublicOnly(checks) ==
    \A shown \in checks : shown[1] \in PublicChecks /\ shown[2] \in PUBLISHABLE_RESULTS

\* A profile stands under the name of its domain and says nothing that is not public.
ProfileInv ==
    \A n \in Names : profile[n] # None =>
        /\ profile[n].domain \in Domains /\ NameOf[profile[n].domain] = n
        /\ PublicOnly(profile[n].checks)

\* A visitor between the two reads has the row of the profile that stands, or is disturbed.
VisitInv ==
    /\ page.pc \in {"idle", "row", "shown"}
    /\ page.pc = "row" =>
          /\ page.name \in Names
          /\ ~page.disturbed => /\ ~page.gone /\ profile[page.name] # None
                                /\ page.row.checks = profile[page.name].checks

ObservatoryInv ==
    /\ domain \in [Domains -> DomainRow \cup {None}]
    /\ DOMAIN publishing = DOMAIN Resting /\ DOMAIN page = DOMAIN NoVisitor
    /\ DOMAIN profile = Names
    /\ GroundsInv /\ ProfileInv /\ WithdrawnIsGone
    /\ VisitInv /\ PageShowsOneRun

--------------------------------------------------------------------------------
LEMMA RestingShape ==
    /\ DOMAIN Resting = {"pc", "domain", "verified", "consent", "takedown", "run", "outdated"}
    /\ Resting.pc = "idle"
BY DEF Resting

LEMMA NoVisitorShape ==
    /\ DOMAIN NoVisitor = {"pc", "name", "row", "checks", "gone", "disturbed"}
    /\ NoVisitor.pc = "idle"
BY DEF NoVisitor

LEMMA NamesOfDomains == \A d \in Domains : NameOf[d] \in Names
BY DEF Names

\* A row that is changed is still a row: only erasing an organization removes one.
LEMMA RowKept ==
    ASSUME ObservatoryInv, NEW d \in Domains, NEW row \in DomainRow,
           domain' = [domain EXCEPT ![d] = row]
    PROVE  /\ domain' \in [Domains -> DomainRow \cup {None}]
           /\ domain'[d] = row /\ Exists(d)'
           /\ \A e \in Domains \ {d} : domain'[e] = domain[e]
<1>1. domain \in [Domains -> DomainRow \cup {None}]
    BY DEF ObservatoryInv
<1> QED
    BY <1>1, PublicationAssumption DEF Exists

\* What holds of the visitor and the projector says nothing of the rest.
LEMMA OnlyRowsChange ==
    ASSUME ObservatoryInv, UNCHANGED <<profile, page>>
    PROVE  ProfileInv' /\ VisitInv' /\ PageShowsOneRun'
BY DEF ObservatoryInv, ProfileInv, VisitInv, PageShowsOneRun

--------------------------------------------------------------------------------
\* The tenant's side.

\* Granting, proving control and being assessed only add to what holds.
LEMMA RowGrows ==
    ASSUME ObservatoryInv, NEW d \in Domains, NEW row \in DomainRow, Exists(d),
           domain[d].consent => row.consent, domain[d].verified => row.verified,
           domain' = [domain EXCEPT ![d] = row],
           UNCHANGED <<review, takedowns, publishing, profile, page>>
    PROVE  ObservatoryInv'
<1>1. /\ domain' \in [Domains -> DomainRow \cup {None}]
      /\ domain'[d] = row /\ Exists(d)'
      /\ \A e \in Domains \ {d} : domain'[e] = domain[e]
    BY RowKept
<1>2. \A e \in Domains : /\ Consented(e) => Consented(e)'
                         /\ Exists(e) /\ domain[e].verified => Exists(e)' /\ domain'[e].verified
    BY <1>1 DEF Consented, Exists
<1>3. GroundsInv'
    BY <1>2 DEF ObservatoryInv, GroundsInv, Refused
<1>4. WithdrawnIsGone'
    BY <1>2 DEF ObservatoryInv, WithdrawnIsGone, ProfileInv
<1> QED
    BY <1>1, <1>3, <1>4, OnlyRowsChange DEF ObservatoryInv

LEMMA AssessedKeeps ==
    ASSUME ObservatoryInv, NEW d \in Domains, NEW kind \in RunKinds, Assessed(d, kind)
    PROVE  ObservatoryInv'
<1> DEFINE runs == Append(domain[d].runs, kind)
           row == [domain[d] EXCEPT !.runs = runs]
<1>1. domain[d] \in DomainRow
    BY DEF Assessed, Exists, ObservatoryInv
<1>2. runs \in Seq(RunKinds)
    BY <1>1 DEF DomainRow
<1>3. domain' = [domain EXCEPT ![d] = row]
    BY DEF Assessed, ObservatoryInv
<1> HIDE DEF runs
<1>4. row \in DomainRow /\ row.consent = domain[d].consent /\ row.verified = domain[d].verified
    BY <1>1, <1>2 DEF DomainRow
<1> HIDE DEF row
<1> QED
    BY <1>3, <1>4, RowGrows DEF Assessed

LEMMA VerifyKeeps ==
    ASSUME ObservatoryInv, NEW d \in Domains, Verify(d)
    PROVE  ObservatoryInv'
<1> DEFINE row == [domain[d] EXCEPT !.verified = TRUE, !.tried = TRUE]
<1>1. domain[d] \in DomainRow
    BY DEF Verify, Exists, ObservatoryInv
<1>2. domain' = [domain EXCEPT ![d] = row]
    BY DEF Verify, ObservatoryInv
<1>3. row \in DomainRow /\ row.consent = domain[d].consent /\ row.verified = TRUE
    BY <1>1 DEF DomainRow
<1> HIDE DEF row
<1> QED
    BY <1>2, <1>3, RowGrows DEF Verify

LEMMA GrantKeeps ==
    ASSUME ObservatoryInv, NEW d \in Domains, Grant(d)
    PROVE  ObservatoryInv'
<1> DEFINE row == [domain[d] EXCEPT !.consent = TRUE]
<1>1. domain[d] \in DomainRow
    BY DEF Grant, Exists, ObservatoryInv
<1>2. domain' = [domain EXCEPT ![d] = row]
    BY DEF Grant, ObservatoryInv
<1>3. row \in DomainRow /\ row.consent = TRUE /\ row.verified = domain[d].verified
    BY <1>1 DEF DomainRow
<1> HIDE DEF row
<1> QED
    BY <1>2, <1>3, RowGrows DEF Grant

\* Whatever takes the grounds from the domain leaves its publication outdated.
LEMMA GroundsLost ==
    ASSUME ObservatoryInv, NEW d \in Domains, Outdated(d), UNCHANGED <<review, takedowns>>,
           \A e \in Domains \ {d} : domain'[e] = domain[e]
    PROVE  GroundsInv' /\ DOMAIN publishing' = DOMAIN Resting
<1>1. CASE publishing.domain = d /\ publishing.pc # "idle"
    <2>1. /\ DOMAIN publishing' = DOMAIN Resting /\ publishing'.outdated = TRUE
          /\ publishing'.pc = publishing.pc /\ publishing'.domain = d
          /\ publishing'.consent = publishing.consent /\ publishing'.verified = publishing.verified
          /\ publishing'.takedown = publishing.takedown
        BY <1>1, RestingShape DEF Outdated, ObservatoryInv
    <2> QED
        BY <1>1, <2>1 DEF ObservatoryInv, GroundsInv, Refused
<1>2. CASE ~(publishing.domain = d /\ publishing.pc # "idle")
    <2>1. publishing' = publishing
        BY <1>2 DEF Outdated
    <2> QED
        BY <1>2, <2>1 DEF ObservatoryInv, GroundsInv, Refused, Consented, Exists
<1> QED
    BY <1>1, <1>2

LEMMA LoseControlKeeps ==
    ASSUME ObservatoryInv, NEW d \in Domains, LoseControl(d)
    PROVE  ObservatoryInv'
<1> DEFINE row == [domain[d] EXCEPT !.verified = FALSE]
<1>1. domain[d] \in DomainRow
    BY DEF LoseControl, Exists, ObservatoryInv
<1>2. domain' = [domain EXCEPT ![d] = row]
    BY DEF LoseControl, ObservatoryInv
<1>3. row \in DomainRow /\ row.consent = domain[d].consent
    BY <1>1 DEF DomainRow
<1> HIDE DEF row
<1>4. /\ domain' \in [Domains -> DomainRow \cup {None}]
      /\ domain'[d] = row /\ Exists(d)'
      /\ \A e \in Domains \ {d} : domain'[e] = domain[e]
    BY <1>2, <1>3, RowKept
<1>5. GroundsInv' /\ DOMAIN publishing' = DOMAIN Resting
    BY <1>4, GroundsLost DEF LoseControl
<1>6. WithdrawnIsGone'
    <2>1. \A e \in Domains : Consented(e) => Consented(e)'
        BY <1>3, <1>4 DEF Consented, Exists
    <2> QED
        BY <2>1 DEF ObservatoryInv, WithdrawnIsGone, ProfileInv, LoseControl
<1> QED
    BY <1>4, <1>5, <1>6, OnlyRowsChange DEF ObservatoryInv, LoseControl

\* Removing the page of a name leaves nothing of its domains, and disturbs who reads it.
LEMMA RemoveKeeps ==
    ASSUME ObservatoryInv, NEW d \in Domains, Remove({NameOf[d]}),
           \A e \in Domains \ {d} : domain'[e] = domain[e]
    PROVE  /\ DOMAIN profile' = Names /\ DOMAIN page' = DOMAIN NoVisitor
           /\ ProfileInv' /\ WithdrawnIsGone' /\ VisitInv' /\ PageShowsOneRun'
<1>1. /\ DOMAIN profile' = Names
      /\ \A n \in Names : profile'[n] # None => profile'[n] = profile[n] /\ n # NameOf[d]
      /\ \A n \in Names : n # NameOf[d] => profile'[n] = profile[n]
    BY DEF Remove
<1>2. ProfileInv' /\ WithdrawnIsGone'
    BY <1>1 DEF ObservatoryInv, ProfileInv, WithdrawnIsGone, Consented, Exists
<1>3. CASE page.pc = "row" /\ page.name = NameOf[d]
    <2>1. /\ DOMAIN page' = DOMAIN NoVisitor /\ page'.pc = "row" /\ page'.name = page.name
          /\ page'.disturbed = TRUE
        BY <1>3, NoVisitorShape DEF Remove, ObservatoryInv
    <2> QED
        BY <1>1, <1>2, <1>3, <2>1 DEF ObservatoryInv, VisitInv, PageShowsOneRun
<1>4. CASE ~(page.pc = "row" /\ page.name = NameOf[d])
    <2>1. page' = page
        BY <1>4 DEF Remove
    <2> QED
        BY <1>1, <1>2, <1>4, <2>1 DEF ObservatoryInv, VisitInv, PageShowsOneRun
<1> QED
    BY <1>3, <1>4

LEMMA WithdrawKeeps ==
    ASSUME ObservatoryInv, NEW d \in Domains, Withdraw(d)
    PROVE  ObservatoryInv'
<1> DEFINE row == [domain[d] EXCEPT !.consent = FALSE]
<1>1. domain[d] \in DomainRow
    BY DEF Withdraw, Exists, ObservatoryInv
<1>2. domain' = [domain EXCEPT ![d] = row]
    BY DEF Withdraw, ObservatoryInv
<1>3. row \in DomainRow
    BY <1>1 DEF DomainRow
<1> HIDE DEF row
<1>4. /\ domain' \in [Domains -> DomainRow \cup {None}]
      /\ \A e \in Domains \ {d} : domain'[e] = domain[e]
    BY <1>2, <1>3, RowKept
<1> QED
    BY <1>4, GroundsLost, RemoveKeeps DEF ObservatoryInv, Withdraw

LEMMA EraseOrganizationKeeps ==
    ASSUME ObservatoryInv, NEW d \in Domains, EraseOrganization(d)
    PROVE  ObservatoryInv'
<1>1. /\ domain' \in [Domains -> DomainRow \cup {None}]
      /\ \A e \in Domains \ {d} : domain'[e] = domain[e]
    BY DEF EraseOrganization, ObservatoryInv
<1> QED
    BY <1>1, GroundsLost, RemoveKeeps DEF ObservatoryInv, EraseOrganization

--------------------------------------------------------------------------------
\* The platform's side.

LEMMA DecideKeeps ==
    ASSUME ObservatoryInv, NEW decision \in {"approved", "refused"}, Decide(decision)
    PROVE  ObservatoryInv'
<1> DEFINE mark == publishing.outdated \/ (publishing.pc # "idle" /\ decision = "refused")
<1>1. publishing' = [publishing EXCEPT !.outdated = mark]
    BY DEF Decide
<1>2. publishing'.outdated = mark
    BY <1>1, RestingShape DEF ObservatoryInv
<1> HIDE DEF mark
<1>3. /\ DOMAIN publishing' = DOMAIN Resting
      /\ publishing'.pc = publishing.pc /\ publishing'.domain = publishing.domain
      /\ publishing'.consent = publishing.consent /\ publishing'.verified = publishing.verified
      /\ publishing'.takedown = publishing.takedown
    BY <1>1, RestingShape DEF ObservatoryInv
<1>4. Refused(publishing)' = Refused(publishing)
    BY <1>3 DEF Refused
<1>5. ~mark => ~publishing.outdated /\ (publishing.pc # "idle" => decision = "approved")
    BY DEF mark
<1>6. UNCHANGED <<domain, takedowns, profile, page>> /\ review' = decision
    BY DEF Decide
<1>7. \A e : (Consented(e)' <=> Consented(e)) /\ (Exists(e)' <=> Exists(e))
    BY <1>6 DEF Consented, Exists
<1>8. GroundsInv'
    BY <1>2, <1>3, <1>4, <1>5, <1>6, <1>7 DEF ObservatoryInv, GroundsInv
<1>9. WithdrawnIsGone'
    BY <1>6, <1>7 DEF ObservatoryInv, WithdrawnIsGone
<1> QED
    BY <1>3, <1>6, <1>8, <1>9, OnlyRowsChange DEF ObservatoryInv

LEMMA RecordTakedownKeeps ==
    ASSUME ObservatoryInv, NEW n \in Names, RecordTakedown(n)
    PROVE  ObservatoryInv'
<1> DEFINE mark == publishing.outdated \/ (publishing.pc # "idle" /\ NameOf[publishing.domain] = n)
<1>1. publishing' = [publishing EXCEPT !.outdated = mark]
    BY DEF RecordTakedown
<1>2. publishing'.outdated = mark
    BY <1>1, RestingShape DEF ObservatoryInv
<1> HIDE DEF mark
<1>3. /\ DOMAIN publishing' = DOMAIN Resting
      /\ publishing'.pc = publishing.pc /\ publishing'.domain = publishing.domain
      /\ publishing'.consent = publishing.consent /\ publishing'.verified = publishing.verified
      /\ publishing'.takedown = publishing.takedown
    BY <1>1, RestingShape DEF ObservatoryInv
<1>4. Refused(publishing)' = Refused(publishing)
    BY <1>3 DEF Refused
<1>5. ~mark => ~publishing.outdated /\ (publishing.pc # "idle" => NameOf[publishing.domain] # n)
    BY DEF mark
<1>6. UNCHANGED <<domain, review, profile, page>> /\ takedowns' = takedowns \cup {n}
    BY DEF RecordTakedown
<1>7. \A e : (Consented(e)' <=> Consented(e)) /\ (Exists(e)' <=> Exists(e))
    BY <1>6 DEF Consented, Exists
<1>8. GroundsInv'
    BY <1>2, <1>3, <1>4, <1>5, <1>6, <1>7 DEF ObservatoryInv, GroundsInv
<1>9. WithdrawnIsGone'
    BY <1>6, <1>7 DEF ObservatoryInv, WithdrawnIsGone
<1> QED
    BY <1>3, <1>6, <1>8, <1>9, OnlyRowsChange DEF ObservatoryInv

--------------------------------------------------------------------------------
\* The projector.

LEMMA OnlyTheProjectorMoves ==
    ASSUME ObservatoryInv, UNCHANGED <<domain, review, takedowns, profile, page>>,
           DOMAIN publishing' = DOMAIN Resting, GroundsInv'
    PROVE  ObservatoryInv'
<1>1. WithdrawnIsGone'
    BY DEF ObservatoryInv, WithdrawnIsGone, Consented, Exists
<1> QED
    BY <1>1, OnlyRowsChange DEF ObservatoryInv

LEMMA RestingKeeps ==
    ASSUME publishing' = Resting
    PROVE  GroundsInv' /\ DOMAIN publishing' = DOMAIN Resting
BY RestingShape DEF GroundsInv

\* What is read first is the permission, and it holds as it is read.
LEMMA BeginPublishingKeeps ==
    ASSUME ObservatoryInv, NEW d \in Domains, BeginPublishing(d)
    PROVE  ObservatoryInv'
<1> DEFINE listed == NameOf[d] \in takedowns
<1>1. UNCHANGED <<domain, review, takedowns, profile, page>> /\ Exists(d)
    BY DEF BeginPublishing
<1>2. publishing' = [Resting EXCEPT !.pc = "domain", !.domain = d, !.verified = domain[d].verified,
                                    !.consent = domain[d].consent, !.takedown = listed]
    BY DEF BeginPublishing
<1>3. publishing'.takedown = listed
    BY <1>2 DEF Resting
<1> HIDE DEF listed
<1>4. /\ DOMAIN publishing' = DOMAIN Resting
      /\ publishing'.pc = "domain" /\ publishing'.domain = d
      /\ publishing'.consent = domain[d].consent /\ publishing'.verified = domain[d].verified
    BY <1>2, RestingShape DEF Resting
<1>5. ~publishing'.takedown => NameOf[d] \notin takedowns'
    BY <1>1, <1>3 DEF listed
<1>6. Consented(d)' <=> Exists(d)' /\ domain'[d].consent
    BY DEF Consented
<1>7. Exists(d)'
    BY <1>1 DEF Exists
<1>8. GroundsInv'
    BY <1>1, <1>4, <1>5, <1>6, <1>7 DEF GroundsInv
<1> QED
    BY <1>1, <1>4, <1>8, OnlyTheProjectorMoves

\* From read to read the projector carries along what it read of the permission.
LEMMA ProjectorGoesOn ==
    ASSUME ObservatoryInv, UNCHANGED <<domain, review, takedowns>>, publishing.pc # "idle",
           DOMAIN publishing' = DOMAIN Resting,
           publishing'.pc \in {"assessment", "writing"},
           publishing'.domain = publishing.domain, publishing'.outdated = publishing.outdated,
           publishing'.consent = publishing.consent, publishing'.verified = publishing.verified,
           publishing'.takedown = publishing.takedown,
           publishing'.pc = "writing" => review = "approved" /\ ~Refused(publishing)
    PROVE  GroundsInv'
<1>1. Refused(publishing)' = Refused(publishing)
    BY DEF Refused
<1>2. \A e : (Consented(e)' <=> Consented(e)) /\ (Exists(e)' <=> Exists(e))
    BY DEF Consented, Exists
<1> QED
    BY <1>1, <1>2 DEF ObservatoryInv, GroundsInv

LEMMA ReadAssessmentKeeps ==
    ASSUME ObservatoryInv, ReadAssessment
    PROVE  ObservatoryInv'
<1>1. UNCHANGED <<domain, review, takedowns, profile, page>> /\ publishing.pc = "domain"
    BY DEF ReadAssessment
<1>2. CASE publishing' = Resting
    BY <1>1, <1>2, RestingKeeps, OnlyTheProjectorMoves
<1>3. CASE \E read : publishing' = [publishing EXCEPT !.pc = "assessment", !.run = read]
    <2>1. PICK read : publishing' = [publishing EXCEPT !.pc = "assessment", !.run = read]
        BY <1>3
    <2>2. /\ DOMAIN publishing' = DOMAIN Resting
          /\ publishing'.pc = "assessment" /\ publishing'.domain = publishing.domain
          /\ publishing'.outdated = publishing.outdated
          /\ publishing'.consent = publishing.consent /\ publishing'.verified = publishing.verified
          /\ publishing'.takedown = publishing.takedown
        BY <2>1, RestingShape DEF ObservatoryInv
    <2> QED
        BY <1>1, <2>2, ProjectorGoesOn, OnlyTheProjectorMoves
<1> QED
    BY <1>2, <1>3 DEF ReadAssessment

\* Nothing is written but on what was read of the permission, under the review as it is now.
LEMMA ProjectKeeps ==
    ASSUME ObservatoryInv, Project
    PROVE  ObservatoryInv'
<1>1. UNCHANGED <<domain, review, takedowns, profile, page>> /\ publishing.pc = "assessment"
    BY DEF Project
<1>2. CASE publishing' = Resting
    BY <1>1, <1>2, RestingKeeps, OnlyTheProjectorMoves
<1>3. CASE /\ publishing' = [publishing EXCEPT !.pc = "writing"]
           /\ review = "approved" /\ ~Refused(publishing)
    <2>1. /\ DOMAIN publishing' = DOMAIN Resting
          /\ publishing'.pc = "writing" /\ publishing'.domain = publishing.domain
          /\ publishing'.outdated = publishing.outdated
          /\ publishing'.consent = publishing.consent /\ publishing'.verified = publishing.verified
          /\ publishing'.takedown = publishing.takedown
        BY <1>3, RestingShape DEF ObservatoryInv
    <2> QED
        BY <1>1, <1>3, <2>1, ProjectorGoesOn, OnlyTheProjectorMoves
<1> QED
    BY <1>2, <1>3 DEF Project

\* The row that is written, and what is said of its domain.
LEMMA WrittenRow ==
    ASSUME ObservatoryInv, Write
    PROVE  LET d == publishing.domain
               n == NameOf[d]
           IN  /\ d \in Domains /\ n \in Names
               /\ DOMAIN profile' = Names
               /\ \A m \in Names \ {n} : profile'[m] = profile[m]
               /\ profile'[n].domain = d /\ PublicOnly(profile'[n].checks)
               /\ profile'[n].overtaken = publishing.outdated
               /\ profile'[n].overtaken \/ (Consented(d) /\ Permitted(d))
<1> DEFINE d == publishing.domain
           n == NameOf[d]
           part == PublicPart(publishing.run)
           written == [domain |-> d, at |-> publishing.run.at, banded |-> publishing.run.sufficient,
                       checks |-> part, overtaken |-> publishing.outdated]
<1>1. /\ d \in Domains /\ n \in Names /\ publishing.pc = "writing"
      /\ ~Refused(publishing)
      /\ ~publishing.outdated =>
            /\ publishing.consent => Consented(d)
            /\ publishing.verified => Exists(d) /\ domain[d].verified
            /\ ~publishing.takedown => n \notin takedowns
            /\ review = "approved"
    BY NamesOfDomains DEF Write, ObservatoryInv, GroundsInv
<1>2. publishing.outdated \/ (Consented(d) /\ Permitted(d))
    BY <1>1 DEF Refused, Permitted
<1>3. PublicOnly(part)
    BY DEF PublicPart, PublicOnly
<1>4. profile' = [profile EXCEPT ![n] = written]
    BY DEF Write
<1> HIDE DEF part
<1>5. written.domain = d /\ written.checks = part /\ written.overtaken = publishing.outdated
    OBVIOUS
<1> HIDE DEF written
<1>6. /\ DOMAIN profile' = Names /\ profile'[n] = written
      /\ \A m \in Names \ {n} : profile'[m] = profile[m]
    BY <1>1, <1>4 DEF ObservatoryInv
<1> QED
    BY <1>1, <1>2, <1>3, <1>5, <1>6

LEMMA WriteKeeps ==
    ASSUME ObservatoryInv, Write
    PROVE  ObservatoryInv'
<1> DEFINE d == publishing.domain
           n == NameOf[d]
<1>1. /\ d \in Domains /\ n \in Names /\ DOMAIN profile' = Names
      /\ \A m \in Names \ {n} : profile'[m] = profile[m]
      /\ profile'[n].domain = d /\ PublicOnly(profile'[n].checks)
      /\ profile'[n].overtaken \/ Consented(d)
    BY WrittenRow
<1>2. UNCHANGED <<domain, review, takedowns>> /\ publishing' = Resting
    BY DEF Write
<1>3. page' = IF page.pc = "row" /\ page.name = n THEN [page EXCEPT !.disturbed = TRUE] ELSE page
    BY DEF Write
<1> HIDE DEF d, n
<1>4. \A e : Consented(e)' <=> Consented(e)
    BY <1>2 DEF Consented, Exists
<1>5. ProfileInv'
    BY <1>1 DEF ObservatoryInv, ProfileInv, n, d
<1>6. WithdrawnIsGone'
    BY <1>1, <1>4 DEF ObservatoryInv, WithdrawnIsGone
<1>7. CASE page.pc = "row" /\ page.name = n
    <2>1. /\ DOMAIN page' = DOMAIN NoVisitor /\ page'.pc = "row" /\ page'.name = page.name
          /\ page'.disturbed = TRUE
        BY <1>3, <1>7, NoVisitorShape DEF ObservatoryInv
    <2>2. VisitInv' /\ PageShowsOneRun'
        BY <1>7, <2>1 DEF ObservatoryInv, VisitInv, PageShowsOneRun
    <2> QED
        BY <1>1, <1>2, <1>5, <1>6, <2>1, <2>2, RestingKeeps DEF ObservatoryInv
<1>8. CASE ~(page.pc = "row" /\ page.name = n)
    <2>1. page' = page
        BY <1>3, <1>8
    <2>2. VisitInv' /\ PageShowsOneRun'
        BY <1>1, <1>8, <2>1 DEF ObservatoryInv, VisitInv, PageShowsOneRun
    <2> QED
        BY <1>1, <1>2, <1>5, <1>6, <2>1, <2>2, RestingKeeps DEF ObservatoryInv
<1> QED
    BY <1>7, <1>8

--------------------------------------------------------------------------------
\* A visitor.

LEMMA OnlyTheVisitorMoves ==
    ASSUME ObservatoryInv, UNCHANGED <<domain, review, takedowns, publishing, profile>>,
           DOMAIN page' = DOMAIN NoVisitor, VisitInv', PageShowsOneRun'
    PROVE  ObservatoryInv'
<1>1. GroundsInv' /\ ProfileInv' /\ WithdrawnIsGone'
    BY DEF ObservatoryInv, GroundsInv, ProfileInv, WithdrawnIsGone, Consented, Exists, Refused
<1> QED
    BY <1>1 DEF ObservatoryInv

LEMMA ReadRowKeeps ==
    ASSUME ObservatoryInv, NEW n \in Names, ReadRow(n)
    PROVE  ObservatoryInv'
<1> DEFINE row == [at |-> profile[n].at, banded |-> profile[n].banded, checks |-> profile[n].checks]
<1>1. page' = [NoVisitor EXCEPT !.pc = "row", !.name = n, !.row = row] /\ profile[n] # None
    BY DEF ReadRow
<1>2. row.checks = profile[n].checks
    OBVIOUS
<1> HIDE DEF row
<1>3. /\ DOMAIN page' = DOMAIN NoVisitor /\ page'.pc = "row" /\ page'.name = n
      /\ page'.row = row /\ page'.gone = FALSE
    BY <1>1, NoVisitorShape DEF NoVisitor
<1>4. UNCHANGED <<domain, review, takedowns, publishing, profile>>
    BY DEF ReadRow
<1>5. VisitInv' /\ PageShowsOneRun'
    BY <1>1, <1>2, <1>3, <1>4 DEF VisitInv, PageShowsOneRun
<1> QED
    BY <1>3, <1>4, <1>5, OnlyTheVisitorMoves

LEMMA ReadChecksKeeps ==
    ASSUME ObservatoryInv, ReadChecks
    PROVE  ObservatoryInv'
<1> DEFINE found == IF page.gone \/ profile[page.name] = None THEN {} ELSE profile[page.name].checks
<1>1. /\ page' = [page EXCEPT !.pc = "shown", !.checks = found] /\ page.pc = "row"
      /\ UNCHANGED <<domain, review, takedowns, publishing, profile>>
    BY DEF ReadChecks
<1>2. page.name \in Names
    BY <1>1 DEF ObservatoryInv, VisitInv
<1>3. PublicOnly(found)
    BY <1>2 DEF PublicOnly, ObservatoryInv, ProfileInv
<1>4. ~page.disturbed => found = page.row.checks
    BY <1>1 DEF ObservatoryInv, VisitInv
<1> HIDE DEF found
<1>5. /\ DOMAIN page' = DOMAIN NoVisitor /\ page'.pc = "shown" /\ page'.checks = found
      /\ page'.row = page.row /\ page'.disturbed = page.disturbed
    BY <1>1, NoVisitorShape DEF ObservatoryInv
<1>6. VisitInv' /\ PageShowsOneRun'
    BY <1>3, <1>4, <1>5 DEF VisitInv, PageShowsOneRun, PublicOnly
<1> QED
    BY <1>1, <1>5, <1>6, OnlyTheVisitorMoves

LEMMA LeaveKeeps ==
    ASSUME ObservatoryInv, Leave
    PROVE  ObservatoryInv'
<1>1. VisitInv' /\ PageShowsOneRun' /\ DOMAIN page' = DOMAIN NoVisitor
    BY NoVisitorShape DEF Leave, VisitInv, PageShowsOneRun
<1> QED
    BY <1>1, OnlyTheVisitorMoves DEF Leave

--------------------------------------------------------------------------------
LEMMA NextKeepsObservatory == ObservatoryInv /\ [Next]_vars => ObservatoryInv'
<1> SUFFICES ASSUME ObservatoryInv, [Next]_vars PROVE ObservatoryInv'
    OBVIOUS
<1>1. CASE UNCHANGED vars
    <2>1. UNCHANGED <<domain, review, takedowns, publishing, profile, page>>
        BY <1>1 DEF vars
    <2> QED
        BY <2>1, OnlyRowsChange, OnlyTheVisitorMoves DEF ObservatoryInv
<1>2. CASE Next
    BY <1>2, AssessedKeeps, VerifyKeeps, LoseControlKeeps, GrantKeeps, WithdrawKeeps,
       EraseOrganizationKeeps, BeginPublishingKeeps, DecideKeeps, RecordTakedownKeeps,
       ReadRowKeeps, ReadAssessmentKeeps, ProjectKeeps, WriteKeeps, ReadChecksKeeps, LeaveKeeps
       DEF Next
<1> QED
    BY <1>1, <1>2

LEMMA InitKeepsObservatory == Init => ObservatoryInv
<1> SUFFICES ASSUME Init PROVE ObservatoryInv
    OBVIOUS
<1>1. [verified |-> FALSE, tried |-> FALSE, consent |-> FALSE, runs |-> <<>>] \in DomainRow
    BY DEF DomainRow
<1>2. domain \in [Domains -> DomainRow \cup {None}]
    BY <1>1 DEF Init
<1>3. GroundsInv /\ ProfileInv /\ WithdrawnIsGone
    BY RestingShape DEF Init, GroundsInv, ProfileInv, WithdrawnIsGone
<1>4. VisitInv /\ PageShowsOneRun
    BY NoVisitorShape DEF Init, VisitInv, PageShowsOneRun
<1> QED
    BY <1>2, <1>3, <1>4 DEF Init, ObservatoryInv

--------------------------------------------------------------------------------
\* What the projector has read and what is published are held together by the
\* mark of what changed in between.
THEOREM ObservatoryHolds == Spec => []ObservatoryInv
<1> QED
    BY InitKeepsObservatory, NextKeepsObservatory, PTL DEF Spec

\* Consent taken back and an organization erased leave nothing of it under any
\* name, whoever else registered the name, but for a projector that had read
\* the permission before. (withdraw, erase, store.publish_domain)
THEOREM WithdrawalsHold == Spec => []WithdrawnIsGone
<1>1. ObservatoryInv => WithdrawnIsGone
    BY DEF ObservatoryInv
<1> QED
    BY <1>1, ObservatoryHolds, PTL

\* A page is of one run although it is read in two statements, unless the
\* profile was rewritten or removed in between. (public_router.profile)
THEOREM PagesShowOneRun == Spec => []PageShowsOneRun
<1>1. ObservatoryInv => PageShowsOneRun
    BY DEF ObservatoryInv
<1> QED
    BY <1>1, ObservatoryHolds, PTL

\* Nothing appears but by the projector, and it writes what all four have
\* permitted for as long as it was at it. (store.publish_domain, project_profile)
THEOREM PermittedAppears == Spec => OnlyThePermittedAppears
<1>1. ASSUME ObservatoryInv, Next, NEW n \in Names, profile'[n] # profile[n]
      PROVE  \/ profile'[n] = None
             \/ profile'[n].overtaken
             \/ NameOf[profile'[n].domain] = n /\ Permitted(profile'[n].domain)
    <2>1. CASE Write
        BY <1>1, <2>1, WrittenRow
    <2>2. CASE ~Write
        <3>1. PICK d \in Domains : Withdraw(d) \/ EraseOrganization(d)
            BY <1>1, <2>2 DEF Next, Assessed, Verify, LoseControl, Grant, BeginPublishing, Decide,
                              RecordTakedown, ReadRow, ReadAssessment, Project, ReadChecks, Leave
        <3>2. profile'[n] \in {None, profile[n]}
            BY <3>1 DEF Withdraw, EraseOrganization, Remove
        <3> QED
            BY <1>1, <3>2
    <2> QED
        BY <2>1, <2>2
<1>2. ObservatoryInv /\ [Next]_vars =>
          [\A n \in Names : profile'[n] # profile[n] =>
              \/ profile'[n] = None
              \/ profile'[n].overtaken
              \/ NameOf[profile'[n].domain] = n /\ Permitted(profile'[n].domain)]_vars
    BY <1>1
<1> QED
    BY <1>2, ObservatoryHolds, PTL DEF Spec, OnlyThePermittedAppears

================================================================================
