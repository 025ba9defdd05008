----------------------------- MODULE ReportsProofs -----------------------------
(***************************************************************************)
(* Proofs about stored runs, their retention and the reports drawn from    *)
(* them, for any number of runs, sweeps, people, links and downloads.      *)
(***************************************************************************)
EXTENDS Reports, SequenceTheorems, TLAPS

RunRow == [kind : RunType, left : SUBSET Keys, old : SUBSET Keys, erased : BOOLEAN]

\* What is past its period is still there, and what is there was observed.
RunInv(run) ==
    /\ run.old \subseteq run.left /\ run.left \subseteq run.kind.rows
    /\ run.erased <=> run.kind.rows # {} /\ run.left = {}

\* A link that was not claimed has served nothing.
GrantInv ==
    \A g \in Grants : grants[g] # None =>
        /\ grants[g] \in GrantRow
        /\ grants[g].run \in DOMAIN runs
        /\ grants[g].copies <= 1
        /\ ~grants[g].spent => grants[g].copies = 0

UnderWay(q) == download[q].pc # "idle"

\* A download carries the link it claimed, alone, and the link outlives it.
CarrierInv ==
    /\ \A q \in Requests : UnderWay(q) =>
          LET g == download[q].grant
          IN  /\ g \in Grants /\ grants[g] # None
              /\ grants[g].spent /\ grants[g].age # "old"
              /\ download[q].user = grants[g].user /\ download[q].run = grants[g].run
              /\ download[q].pc # "delivered" => grants[g].copies = 0
    /\ \A q, r \in Requests :
          UnderWay(q) /\ UnderWay(r) /\ download[q].grant = download[r].grant => q = r

\* The findings that were read are those of the last run while it is the last.
ListInv ==
    \A q \in Requests :
        download[q].pc \in {"findings", "insights", "delivered"} /\ download[q].run = Len(runs)
            => download[q].findings = Failing(Len(runs))

ReportsInv ==
    /\ runs \in Seq(RunRow) /\ \A i \in DOMAIN runs : RunInv(runs[i])
    /\ DOMAIN grants = Grants /\ GrantInv
    /\ DOMAIN download = Requests /\ \A q \in Requests : DOMAIN download[q] = DOMAIN Idle
    /\ CarrierInv /\ ListInv

--------------------------------------------------------------------------------
LEMMA IdleShape ==
    /\ DOMAIN Idle = {"pc", "user", "grant", "run", "erased", "rows", "findings", "cited", "swept"}
    /\ Idle.pc = "idle"
BY DEF Idle

LEMMA RunsTyped ==
    ASSUME ReportsInv
    PROVE  /\ Len(runs) \in Nat /\ DOMAIN runs = 1 .. Len(runs)
           /\ \A i \in DOMAIN runs : runs[i] \in RunRow /\ RunInv(runs[i])
BY LenProperties, ElementOfSeq DEF ReportsInv

\* Runs that stay the runs they are, whatever is left of them.
LEMMA OnlyRunsAge ==
    ASSUME ReportsInv, runs' \in Seq(RunRow), DOMAIN runs' = DOMAIN runs,
           \A i \in DOMAIN runs : RunInv(runs'[i]) /\ runs'[i].kind = runs[i].kind
    PROVE  /\ \A i \in (DOMAIN runs)' : RunInv(runs[i])'
           /\ Len(runs') = Len(runs)
           /\ \A i \in DOMAIN runs : Failing(i)' = Failing(i)
<1>1. Len(runs') = Len(runs)
    <2>1. Len(runs') \in Nat /\ DOMAIN runs' = 1 .. Len(runs')
        BY LenProperties
    <2>2. Len(runs) \in Nat /\ DOMAIN runs = 1 .. Len(runs)
        BY RunsTyped
    <2>3. ASSUME NEW m \in Nat, NEW n \in Nat, 1 .. m = 1 .. n
          PROVE  m = n
        <3>1. m < n => n \in 1 .. n /\ n \notin 1 .. m
            OBVIOUS
        <3>2. n < m => m \in 1 .. m /\ m \notin 1 .. n
            OBVIOUS
        <3>3. m = n \/ m < n \/ n < m
            OBVIOUS
        <3> QED
            BY <2>3, <3>1, <3>2, <3>3
    <2>4. 1 .. Len(runs') = 1 .. Len(runs)
        BY <2>1, <2>2
    <2> QED
        BY <2>1, <2>2, <2>3, <2>4
<1>2. \A i \in DOMAIN runs : Failing(i)' = Failing(i)
    BY DEF Failing
<1>3. \A i \in (DOMAIN runs)' : RunInv(runs[i])'
    BY DEF RunInv
<1> QED
    BY <1>1, <1>2, <1>3

LEMMA DownloadsCarryOn ==
    ASSUME ReportsInv, runs' \in Seq(RunRow), DOMAIN runs' = DOMAIN runs,
           \A i \in DOMAIN runs : RunInv(runs'[i]) /\ runs'[i].kind = runs[i].kind,
           UNCHANGED <<grants, download>>
    PROVE  ReportsInv'
<1>1. Len(runs') = Len(runs) /\ \A i \in DOMAIN runs : Failing(i)' = Failing(i)
    BY OnlyRunsAge
<1>2. GrantInv' /\ CarrierInv'
    BY DEF ReportsInv, GrantInv, CarrierInv, UnderWay
<1>3. ListInv'
    <2>1. ASSUME NEW q \in Requests, download[q].run = Len(runs), UnderWay(q)
          PROVE  Len(runs) \in DOMAIN runs
        BY <2>1 DEF ReportsInv, CarrierInv, GrantInv
    <2> QED
        BY <1>1, <2>1 DEF ReportsInv, ListInv, UnderWay
<1> QED
    BY <1>2, <1>3, OnlyRunsAge DEF ReportsInv

\* A run is stored with all that it observed.
LEMMA StoreKeeps ==
    ASSUME ReportsInv, NEW kind \in RunKinds, Store(kind)
    PROVE  ReportsInv'
<1> DEFINE row == [kind |-> kind, left |-> kind.rows, old |-> {}, erased |-> FALSE]
<1>1. kind \in RunType /\ kind.rows \subseteq Keys
    BY ReportsAssumption DEF RunType
<1>2. row \in RunRow /\ RunInv(row)
    BY <1>1 DEF RunRow, RunInv
<1>3. runs' = Append(runs, row) /\ UNCHANGED <<grants, download>>
    BY DEF Store
<1> HIDE DEF row
<1>4. runs \in Seq(RunRow) /\ Len(runs) \in Nat /\ DOMAIN runs = 1 .. Len(runs)
    BY RunsTyped DEF ReportsInv
<1>5. /\ runs' \in Seq(RunRow) /\ Len(runs') = Len(runs) + 1 /\ DOMAIN runs' = 1 .. Len(runs) + 1
      /\ \A i \in DOMAIN runs : runs'[i] = runs[i]
      /\ runs'[Len(runs) + 1] = row
    BY <1>2, <1>3, <1>4
<1>6. \A i \in DOMAIN runs' : RunInv(runs'[i])
    BY <1>2, <1>4, <1>5 DEF ReportsInv
<1>7. \A i \in (DOMAIN runs)' : RunInv(runs[i])'
    BY <1>6 DEF RunInv
<1>8. GrantInv' /\ CarrierInv'
    BY <1>3, <1>4, <1>5 DEF ReportsInv, GrantInv, CarrierInv, UnderWay
<1>9. \A q \in Requests : UnderWay(q) => download[q].run # Len(runs')
    BY <1>4, <1>5 DEF ReportsInv, CarrierInv, GrantInv
<1>10. ListInv'
    BY <1>3, <1>9 DEF ListInv, UnderWay
<1> QED
    BY <1>3, <1>5, <1>7, <1>8, <1>10 DEF ReportsInv

LEMMA ObservationsAgeKeeps ==
    ASSUME ReportsInv, NEW i \in DOMAIN runs, ObservationsAge(i)
    PROVE  ReportsInv'
<1>1. PICK k \in runs[i].left \ runs[i].old : runs' = [runs EXCEPT ![i].old = @ \cup {k}]
    BY DEF ObservationsAge
<1> DEFINE aged == runs[i].old \cup {k}
           row == [runs[i] EXCEPT !.old = aged]
<1>2. runs[i] \in RunRow /\ RunInv(runs[i])
    BY RunsTyped
<1>3. aged \subseteq runs[i].left /\ aged \subseteq Keys
    BY <1>2 DEF RunInv, RunRow
<1>4. runs' = [runs EXCEPT ![i] = row]
    BY <1>1
<1> HIDE DEF aged
<1>5. /\ row \in RunRow /\ row.kind = runs[i].kind /\ row.left = runs[i].left /\ row.old = aged
      /\ row.erased = runs[i].erased
    BY <1>2, <1>3 DEF RunRow
<1> HIDE DEF row
<1>6. RunInv(row)
    BY <1>2, <1>3, <1>5 DEF RunInv
<1>7. /\ runs' \in Seq(RunRow) /\ DOMAIN runs' = DOMAIN runs
      /\ \A j \in DOMAIN runs : runs'[j] = IF j = i THEN row ELSE runs[j]
    BY <1>4, <1>5, RunsTyped, ExceptSeq DEF ReportsInv
<1>8. \A j \in DOMAIN runs : RunInv(runs'[j]) /\ runs'[j].kind = runs[j].kind
    BY <1>5, <1>6, <1>7, RunsTyped
<1> QED
    BY <1>7, <1>8, DownloadsCarryOn DEF ObservationsAge

\* What a sweep takes from a run, and the mark it leaves when it has taken the last.
Gone(i, removed) == {r[2] : r \in {x \in removed : x[1] = i}}
Swept(i, removed) ==
    [runs[i] EXCEPT !.left = @ \ Gone(i, removed), !.old = @ \ Gone(i, removed),
                    !.erased = @ \/ i \in Orphaned(removed)]

LEMMA SweptTyped ==
    ASSUME ReportsInv, NEW i \in DOMAIN runs, NEW removed \in SUBSET Expired
    PROVE  /\ Swept(i, removed) \in RunRow /\ RunInv(Swept(i, removed))
           /\ Swept(i, removed).kind = runs[i].kind
<1> DEFINE gone == Gone(i, removed)
           left == runs[i].left \ gone
           old == runs[i].old \ gone
           mark == runs[i].erased \/ i \in Orphaned(removed)
           row == [runs[i] EXCEPT !.left = left, !.old = old, !.erased = mark]
<1>1. runs[i] \in RunRow /\ RunInv(runs[i])
    BY RunsTyped
<1>2. gone \subseteq runs[i].old
    BY DEF Gone, Expired
<1>3. i \in Orphaned(removed) <=> gone # {} /\ runs[i].left = gone
    BY DEF Orphaned, Gone
<1>4. mark \in BOOLEAN /\ (mark <=> runs[i].erased \/ (gone # {} /\ runs[i].left = gone))
    BY <1>1, <1>3 DEF RunRow
<1>5. left \subseteq runs[i].left /\ old \subseteq left
    BY <1>1 DEF RunInv
<1>6. left = {} <=> runs[i].left = {} \/ (gone # {} /\ runs[i].left = gone)
    BY <1>1, <1>2 DEF RunInv
<1>7. Swept(i, removed) = row
    BY DEF Swept
<1> HIDE DEF gone, left, old, mark
<1>8. left \subseteq Keys /\ old \subseteq Keys
    BY <1>1, <1>5 DEF RunRow
<1>9. row \in RunRow /\ row.left = left /\ row.old = old /\ row.erased = mark /\ row.kind = runs[i].kind
    BY <1>1, <1>4, <1>8 DEF RunRow
<1> HIDE DEF row
<1>10. RunInv(row)
    BY <1>1, <1>2, <1>4, <1>5, <1>6, <1>9 DEF RunInv
<1> QED
    BY <1>7, <1>9, <1>10

\* However many batches it takes, the mark is set by the one that takes the last row.
LEMMA SweepKeeps ==
    ASSUME ReportsInv, Sweep
    PROVE  ReportsInv'
<1>1. PICK removed \in Taken :
         /\ runs' = [i \in DOMAIN runs |-> Swept(i, removed)]
         /\ download' = [q \in Requests |->
                           IF download[q].pc # "idle" /\ \E r \in removed : r[1] = download[q].run
                           THEN [download[q] EXCEPT !.swept = TRUE] ELSE download[q]]
    BY DEF Sweep, Swept, Gone
<1>2. removed \in SUBSET Expired
    BY DEF Taken, kSubset
<1>3. Len(runs) \in Nat /\ DOMAIN runs = 1 .. Len(runs)
    BY RunsTyped
<1>4. /\ DOMAIN runs' = DOMAIN runs
      /\ \A i \in DOMAIN runs : /\ runs'[i] \in RunRow /\ RunInv(runs'[i])
                                /\ runs'[i].kind = runs[i].kind
    BY <1>1, <1>2, SweptTyped
<1>5. runs' \in Seq(RunRow)
    <2>1. runs' \in [1 .. Len(runs) -> RunRow]
        BY <1>1, <1>3, <1>4
    <2> QED
        BY <1>3, <2>1, SeqDef
<1>6. /\ Len(runs') = Len(runs) /\ \A i \in DOMAIN runs : Failing(i)' = Failing(i)
      /\ \A i \in (DOMAIN runs)' : RunInv(runs[i])'
    BY <1>4, <1>5, OnlyRunsAge
<1>7. /\ DOMAIN download' = Requests
      /\ \A q \in Requests : /\ DOMAIN download'[q] = DOMAIN Idle
                              /\ download'[q].pc = download[q].pc /\ download'[q].user = download[q].user
                              /\ download'[q].grant = download[q].grant /\ download'[q].run = download[q].run
                              /\ download'[q].findings = download[q].findings
    BY <1>1, IdleShape DEF ReportsInv
<1>8. /\ DOMAIN grants' = Grants
      /\ \A g \in Grants : grants'[g] # None => grants'[g] = grants[g]
      /\ \A g \in Grants : grants[g] # None /\ grants[g].age # "old" => grants'[g] = grants[g]
    BY DEF Sweep
<1>9. GrantInv'
    BY <1>4, <1>8 DEF ReportsInv, GrantInv
<1>10. CarrierInv'
    BY <1>7, <1>8 DEF ReportsInv, CarrierInv, UnderWay
<1>11. ListInv'
    <2>1. ASSUME NEW q \in Requests, download[q].run = Len(runs), UnderWay(q)
          PROVE  Len(runs) \in DOMAIN runs
        BY <2>1 DEF ReportsInv, CarrierInv, GrantInv
    <2> QED
        BY <1>6, <1>7, <2>1 DEF ReportsInv, ListInv, UnderWay
<1> QED
    BY <1>5, <1>6, <1>7, <1>8, <1>9, <1>10, <1>11 DEF ReportsInv

--------------------------------------------------------------------------------
\* Links.

LEMMA OnlyLinksChange ==
    ASSUME ReportsInv, UNCHANGED <<runs, download>>, DOMAIN grants' = Grants,
           GrantInv', CarrierInv'
    PROVE  ReportsInv'
<1>1. ListInv'
    BY DEF ReportsInv, ListInv, Failing
<1>2. \A i \in (DOMAIN runs)' : RunInv(runs[i])'
    BY DEF ReportsInv, RunInv
<1> QED
    BY <1>1, <1>2 DEF ReportsInv

\* A link ages under the downloads that carry it no further than it serves.
LEMMA GrantAgesKeeps ==
    ASSUME ReportsInv, NEW g \in Grants, GrantAges(g)
    PROVE  ReportsInv'
<1> DEFINE age == IF grants[g].age = "live" THEN "expired" ELSE "old"
           row == [grants[g] EXCEPT !.age = age]
<1>1. grants[g] \in GrantRow /\ grants[g] # None
    BY DEF GrantAges, ReportsInv, GrantInv
<1>2. grants' = [grants EXCEPT ![g] = row] /\ UNCHANGED <<runs, download>>
    BY DEF GrantAges
<1>3. age \in {"expired", "old"}
    OBVIOUS
<1>4. age = "old" => \A q \in Requests : download[q].grant # g
    <2>1. age = "old" => grants[g].age # "live"
        OBVIOUS
    <2> QED
        BY <1>1, <2>1 DEF GrantAges, GrantRow
<1> HIDE DEF age
<1>5. /\ row \in GrantRow /\ row.age = age /\ row.user = grants[g].user /\ row.run = grants[g].run
      /\ row.spent = grants[g].spent /\ row.copies = grants[g].copies
    BY <1>1, <1>3 DEF GrantRow
<1> HIDE DEF row
<1>6. /\ DOMAIN grants' = Grants /\ grants'[g] = row /\ row # None
      /\ \A h \in Grants : h # g => grants'[h] = grants[h]
    BY <1>2, <1>5, ReportsAssumption DEF ReportsInv
<1>7. GrantInv'
    BY <1>1, <1>2, <1>5, <1>6 DEF ReportsInv, GrantInv
<1>8. CarrierInv'
    BY <1>2, <1>4, <1>5, <1>6 DEF ReportsInv, CarrierInv, UnderWay
<1> QED
    BY <1>2, <1>6, <1>7, <1>8, OnlyLinksChange

\* The run is pinned as the link is given out.
LEMMA MintKeeps ==
    ASSUME ReportsInv, NEW u \in Users, NEW g \in Grants, Mint(u, g)
    PROVE  ReportsInv'
<1> DEFINE row == [user |-> u, run |-> Len(runs), age |-> "live", spent |-> FALSE, copies |-> 0]
<1>1. /\ grants[g] = None /\ runs # <<>> /\ grants' = [grants EXCEPT ![g] = row]
      /\ UNCHANGED <<runs, download>>
    BY DEF Mint
<1>2. Len(runs) \in Nat /\ DOMAIN runs = 1 .. Len(runs) /\ runs \in Seq(RunRow)
    BY RunsTyped DEF ReportsInv
<1>3. Len(runs) \in DOMAIN runs
    BY <1>1, <1>2, EmptySeq
<1>4. row \in GrantRow /\ row.run = Len(runs) /\ row.copies = 0
    BY <1>2 DEF GrantRow
<1> HIDE DEF row
<1>5. /\ DOMAIN grants' = Grants /\ grants'[g] = row
      /\ \A h \in Grants : h # g => grants'[h] = grants[h]
    BY <1>1 DEF ReportsInv
<1>6. GrantInv'
    BY <1>1, <1>3, <1>4, <1>5 DEF ReportsInv, GrantInv
<1>7. CarrierInv'
    BY <1>1, <1>5 DEF ReportsInv, CarrierInv, UnderWay
<1> QED
    BY <1>1, <1>5, <1>6, <1>7, OnlyLinksChange

\* Whoever claims a link carries it alone: it is spent with the claim.
LEMMA ClaimKeeps ==
    ASSUME ReportsInv, NEW q \in Requests, NEW u \in Users, NEW g \in Grants, Claim(q, u, g)
    PROVE  ReportsInv'
<1> DEFINE spent == [grants[g] EXCEPT !.spent = TRUE]
           row == [Idle EXCEPT !.pc = "claimed", !.user = u, !.grant = g, !.run = grants[g].run]
<1>1. /\ grants[g] # None /\ grants[g].user = u /\ ~grants[g].spent /\ grants[g].age = "live"
      /\ grants' = [grants EXCEPT ![g] = spent] /\ download' = [download EXCEPT ![q] = row]
      /\ UNCHANGED runs
    BY DEF Claim, Claimable
<1>2. grants[g] \in GrantRow /\ grants[g].run \in DOMAIN runs /\ grants[g].copies = 0
    BY <1>1 DEF ReportsInv, GrantInv
<1>3. /\ spent \in GrantRow /\ spent.user = u /\ spent.run = grants[g].run /\ spent.age = "live"
      /\ spent.spent = TRUE /\ spent.copies = 0
    BY <1>1, <1>2 DEF GrantRow
<1>4. /\ DOMAIN row = DOMAIN Idle /\ row.pc = "claimed" /\ row.user = u /\ row.grant = g
      /\ row.run = grants[g].run
    BY IdleShape DEF Idle
<1> HIDE DEF spent, row
<1>5. /\ DOMAIN grants' = Grants /\ grants'[g] = spent /\ spent # None
      /\ \A h \in Grants : h # g => grants'[h] = grants[h]
    BY <1>1, <1>3, ReportsAssumption DEF ReportsInv
<1>6. DOMAIN download' = Requests /\ \A r \in Requests : download'[r] = IF r = q THEN row ELSE download[r]
    BY <1>1 DEF ReportsInv
<1>7. GrantInv'
    BY <1>1, <1>2, <1>3, <1>5 DEF ReportsInv, GrantInv
<1>8. \A r \in Requests : UnderWay(r) => download[r].grant # g
    BY <1>1 DEF ReportsInv, CarrierInv
<1>9. CarrierInv'
    BY <1>3, <1>4, <1>5, <1>6, <1>8 DEF ReportsInv, CarrierInv, UnderWay
<1>10. ListInv' /\ \A i \in (DOMAIN runs)' : RunInv(runs[i])'
    BY <1>1, <1>4, <1>6 DEF ReportsInv, ListInv, Failing, RunInv
<1> QED
    BY <1>1, <1>4, <1>5, <1>6, <1>7, <1>9, <1>10 DEF ReportsInv

--------------------------------------------------------------------------------
\* Downloads.

\* A download goes on with the link and the run it has.
LEMMA DownloadGoesOn ==
    ASSUME ReportsInv, NEW q \in Requests, NEW row, UnderWay(q), download[q].pc # "delivered",
           DOMAIN row = DOMAIN Idle, row.pc \notin {"idle", "delivered"},
           row.user = download[q].user, row.grant = download[q].grant, row.run = download[q].run,
           row.pc \in {"findings", "insights"} /\ row.run = Len(runs)
               => row.findings = Failing(Len(runs)),
           download' = [download EXCEPT ![q] = row], UNCHANGED <<runs, grants>>
    PROVE  ReportsInv'
<1>1. DOMAIN download' = Requests /\ \A r \in Requests : download'[r] = IF r = q THEN row ELSE download[r]
    BY DEF ReportsInv
<1>2. GrantInv' /\ \A i \in (DOMAIN runs)' : RunInv(runs[i])'
    BY DEF ReportsInv, GrantInv, RunInv
<1>3. CarrierInv'
    BY <1>1 DEF ReportsInv, CarrierInv, UnderWay
<1>4. ListInv'
    BY <1>1 DEF ReportsInv, ListInv, Failing
<1> QED
    BY <1>1, <1>2, <1>3, <1>4 DEF ReportsInv

LEMMA DownloadEnds ==
    ASSUME ReportsInv, NEW q \in Requests, Go(q, "idle", Idle)
    PROVE  ReportsInv'
<1> DEFINE row == [Idle EXCEPT !.pc = "idle"]
<1>1. download' = [download EXCEPT ![q] = row] /\ UNCHANGED <<runs, grants>>
    BY DEF Go
<1>2. DOMAIN row = DOMAIN Idle /\ row.pc = "idle"
    BY IdleShape
<1> HIDE DEF row
<1>3. DOMAIN download' = Requests /\ \A r \in Requests : download'[r] = IF r = q THEN row ELSE download[r]
    BY <1>1 DEF ReportsInv
<1>4. GrantInv' /\ CarrierInv' /\ \A i \in (DOMAIN runs)' : RunInv(runs[i])'
    BY <1>1, <1>2, <1>3 DEF ReportsInv, GrantInv, RunInv, CarrierInv, UnderWay
<1>5. ListInv'
    BY <1>1, <1>2, <1>3 DEF ReportsInv, ListInv, Failing
<1> QED
    BY <1>1, <1>2, <1>3, <1>4, <1>5 DEF ReportsInv

LEMMA OpenKeeps ==
    ASSUME ReportsInv, NEW q \in Requests, Open(q)
    PROVE  ReportsInv'
<1>1. CASE Go(q, "idle", Idle)
    BY <1>1, DownloadEnds
<1>2. CASE Go(q, "open", [download[q] EXCEPT !.run = ReportedRun(q), !.erased = runs[ReportedRun(q)].erased])
    <2> DEFINE erased == runs[ReportedRun(q)].erased
               row == [[download[q] EXCEPT !.run = ReportedRun(q), !.erased = erased] EXCEPT !.pc = "open"]
    <2>1. download' = [download EXCEPT ![q] = row] /\ UNCHANGED <<runs, grants>>
        BY <1>2 DEF Go
    <2> HIDE DEF erased
    <2>2. /\ DOMAIN row = DOMAIN Idle /\ row.pc = "open" /\ row.user = download[q].user
          /\ row.grant = download[q].grant /\ row.run = download[q].run
        BY IdleShape DEF ReportsInv, ReportedRun
    <2> HIDE DEF row
    <2> QED
        BY <2>1, <2>2, DownloadGoesOn DEF Open, UnderWay
<1> QED
    BY <1>1, <1>2 DEF Open

\* The findings are those of the last run, which may have become another than the one
\* the link was given for.
LEMMA ReadsKeep ==
    ASSUME ReportsInv, NEW q \in Requests, ReadObservations(q) \/ ReadFindings(q) \/ ReadInsights(q)
    PROVE  ReportsInv'
<1>1. DOMAIN download[q] = DOMAIN Idle
    BY DEF ReportsInv
<1>2. CASE ReadObservations(q)
    <2> DEFINE rows == runs[download[q].run].left
               row == [[download[q] EXCEPT !.rows = rows] EXCEPT !.pc = "observations"]
    <2>1. download' = [download EXCEPT ![q] = row] /\ UNCHANGED <<runs, grants>>
        BY <1>2 DEF ReadObservations, Go
    <2> HIDE DEF rows
    <2>2. /\ DOMAIN row = DOMAIN Idle /\ row.pc = "observations" /\ row.user = download[q].user
          /\ row.grant = download[q].grant /\ row.run = download[q].run
        BY <1>1, IdleShape
    <2> HIDE DEF row
    <2> QED
        BY <1>2, <2>1, <2>2, DownloadGoesOn DEF ReadObservations, UnderWay
<1>3. CASE ReadFindings(q)
    <2> DEFINE row == [[download[q] EXCEPT !.findings = OpenFindings] EXCEPT !.pc = "findings"]
    <2>1. download' = [download EXCEPT ![q] = row] /\ UNCHANGED <<runs, grants>>
        BY <1>3 DEF ReadFindings, Go
    <2>2. /\ DOMAIN row = DOMAIN Idle /\ row.pc = "findings" /\ row.user = download[q].user
          /\ row.grant = download[q].grant /\ row.run = download[q].run
          /\ row.findings = OpenFindings
        BY <1>1, IdleShape
    <2> HIDE DEF row
    <2>3. download[q].run \in DOMAIN runs
        BY <1>3 DEF ReadFindings, ReportsInv, CarrierInv, GrantInv, UnderWay
    <2>4. OpenFindings = Failing(Len(runs))
        BY <2>3 DEF OpenFindings
    <2> QED
        BY <1>3, <2>1, <2>2, <2>4, DownloadGoesOn DEF ReadFindings, UnderWay
<1>4. CASE ReadInsights(q)
    <2> DEFINE cited == runs[download[q].run].left
               row == [[download[q] EXCEPT !.cited = cited] EXCEPT !.pc = "insights"]
    <2>1. download' = [download EXCEPT ![q] = row] /\ UNCHANGED <<runs, grants>>
        BY <1>4 DEF ReadInsights, Go
    <2> HIDE DEF cited
    <2>2. /\ DOMAIN row = DOMAIN Idle /\ row.pc = "insights" /\ row.user = download[q].user
          /\ row.grant = download[q].grant /\ row.run = download[q].run
          /\ row.findings = download[q].findings
        BY <1>1, IdleShape
    <2> HIDE DEF row
    <2>3. download[q].run = Len(runs) => download[q].findings = Failing(Len(runs))
        BY <1>4 DEF ReadInsights, ReportsInv, ListInv
    <2> QED
        BY <1>4, <2>1, <2>2, <2>3, DownloadGoesOn DEF ReadInsights, UnderWay
<1> QED
    BY <1>2, <1>3, <1>4

\* The one who carries a link delivers the one document of it.
LEMMA DeliverKeeps ==
    ASSUME ReportsInv, NEW q \in Requests, Deliver(q)
    PROVE  ReportsInv'
<1>1. download[q].pc = "insights" /\ UNCHANGED runs
    BY DEF Deliver
<1>g. PICK g \in Grants : g = download[q].grant
    BY <1>1 DEF ReportsInv, CarrierInv, UnderWay
<1> DEFINE copies == grants[g].copies + 1
           link == [grants[g] EXCEPT !.copies = copies]
           row == [download[q] EXCEPT !.pc = "delivered"]
<1>2. /\ grants[g] # None /\ grants[g].copies = 0 /\ grants[g] \in GrantRow
      /\ grants[g].spent /\ grants[g].age # "old" /\ grants[g].run \in DOMAIN runs
      /\ download[q].user = grants[g].user /\ download[q].run = grants[g].run
    BY <1>g, <1>1 DEF ReportsInv, CarrierInv, GrantInv, UnderWay
<1>3. grants' = [grants EXCEPT ![g] = link] /\ download' = [download EXCEPT ![q] = row]
    BY <1>g, <1>2 DEF Deliver, ReportsInv
<1>4. copies = 1
    BY <1>2
<1> HIDE DEF copies
<1>5. /\ link \in GrantRow /\ link.user = grants[g].user /\ link.run = grants[g].run
      /\ link.age = grants[g].age /\ link.spent /\ link.copies = 1
    BY <1>2, <1>4 DEF GrantRow
<1>6. /\ DOMAIN row = DOMAIN Idle /\ row.pc = "delivered" /\ row.user = download[q].user
      /\ row.grant = g /\ row.run = download[q].run /\ row.findings = download[q].findings
    BY <1>g, IdleShape DEF ReportsInv
<1> HIDE DEF link, row
<1>7. /\ DOMAIN grants' = Grants /\ grants'[g] = link /\ link # None
      /\ \A h \in Grants : h # g => grants'[h] = grants[h]
    BY <1>2, <1>3, <1>5, ReportsAssumption DEF ReportsInv
<1>8. DOMAIN download' = Requests /\ \A r \in Requests : download'[r] = IF r = q THEN row ELSE download[r]
    BY <1>3 DEF ReportsInv
<1>9. GrantInv'
    BY <1>1, <1>2, <1>5, <1>7 DEF ReportsInv, GrantInv
<1>10. \A r \in Requests : UnderWay(r) /\ r # q => download[r].grant # g
    BY <1>g, <1>1 DEF ReportsInv, CarrierInv, UnderWay
<1>11. CarrierInv'
    BY <1>g, <1>1, <1>2, <1>5, <1>6, <1>7, <1>8, <1>10 DEF ReportsInv, CarrierInv, UnderWay
<1>12. ListInv' /\ \A i \in (DOMAIN runs)' : RunInv(runs[i])'
    BY <1>1, <1>6, <1>8 DEF ReportsInv, ListInv, Failing, RunInv
<1> QED
    BY <1>1, <1>6, <1>7, <1>8, <1>9, <1>11, <1>12 DEF ReportsInv

--------------------------------------------------------------------------------
LEMMA NextKeepsReports == ReportsInv /\ [Next]_vars => ReportsInv'
<1> SUFFICES ASSUME ReportsInv, [Next]_vars PROVE ReportsInv'
    OBVIOUS
<1>1. ASSUME UNCHANGED <<runs, grants, download>> PROVE ReportsInv'
    <2>1. GrantInv' /\ CarrierInv'
        BY <1>1 DEF ReportsInv, GrantInv, CarrierInv, UnderWay
    <2>2. ListInv' /\ \A i \in (DOMAIN runs)' : RunInv(runs[i])'
        BY <1>1 DEF ReportsInv, ListInv, Failing, RunInv
    <2> QED
        BY <1>1, <2>1, <2>2 DEF ReportsInv
<1>2. CASE UNCHANGED vars
    BY <1>1, <1>2 DEF vars
<1>3. CASE Next
    <2>1. ManifestAges \/ SweepRaises \/ (\E u \in Users : Leave(u)) => ReportsInv'
        BY <1>1 DEF ManifestAges, SweepRaises, Leave, vars
    <2>2. ASSUME NEW q \in Requests, RendererMissing(q) \/ Done(q) PROVE ReportsInv'
        BY <2>2, DownloadEnds DEF RendererMissing, Done
    <2> QED
        BY <1>3, <2>1, <2>2, StoreKeeps, ObservationsAgeKeeps, SweepKeeps, GrantAgesKeeps, MintKeeps,
           ClaimKeeps, OpenKeeps, ReadsKeep, DeliverKeeps
           DEF Next
<1> QED
    BY <1>2, <1>3

LEMMA InitKeepsReports == Init => ReportsInv
<1> SUFFICES ASSUME Init PROVE ReportsInv
    OBVIOUS
<1>1. runs \in Seq(RunRow) /\ DOMAIN runs = {}
    BY EmptySeq, LenProperties DEF Init
<1>2. \A q \in Requests : download[q] = Idle
    BY DEF Init
<1>3. GrantInv /\ CarrierInv /\ ListInv
    BY <1>2, IdleShape DEF Init, GrantInv, CarrierInv, ListInv, UnderWay
<1> QED
    BY <1>1, <1>2, <1>3 DEF Init, ReportsInv

\* The column a check stands in, by what is shown of it.
LEMMA ColumnByOutcome ==
    ASSUME NEW q, NEW c
    PROVE  /\ Column(q, c) = "action" <=> Shown(q, c) = "fail"
           /\ Column(q, c) = "ok" <=> Shown(q, c) = "pass"
<1>1. CASE Shown(q, c) = "pass"
    BY <1>1 DEF Column
<1>2. CASE Shown(q, c) = "fail"
    BY <1>2 DEF Column
<1>3. CASE Shown(q, c) = "unknown"
    BY <1>3 DEF Column
<1>4. CASE Shown(q, c) \notin {"pass", "fail", "unknown"}
    BY <1>4 DEF Column
<1> QED
    BY <1>1, <1>2, <1>3, <1>4

--------------------------------------------------------------------------------
\* What a report says about erasure.

\* A download that says its run was erased reads nothing of it, and one that reads
\* nothing of a run that observed something says so, unless a sweep passed.
SaidOf(d, run) ==
    /\ d.pc \in {"open", "observations", "findings", "insights", "delivered"} =>
          /\ d.erased => run.erased
          /\ run.erased => d.erased \/ d.swept
    /\ d.pc \in {"observations", "findings", "insights", "delivered"} =>
          /\ d.erased => d.rows = {}
          /\ run.kind.rows # {} /\ d.rows = {} => d.erased \/ d.swept
    /\ d.pc \in {"insights", "delivered"} => (d.erased => d.cited = {})

SaidInv == \A q \in Requests : SaidOf(download[q], runs[download[q].run])

\* The run of a download is a stored one.
LEMMA RunOfDownload ==
    ASSUME ReportsInv, NEW q \in Requests, UnderWay(q)
    PROVE  /\ download[q].run \in DOMAIN runs /\ runs[download[q].run] \in RunRow
           /\ RunInv(runs[download[q].run])
BY RunsTyped DEF ReportsInv, CarrierInv, GrantInv

\* While a run keeps its mark and what it observed, its downloads say what they said.
LEMMA SaidAsBefore ==
    ASSUME ReportsInv, SaidInv, UNCHANGED download,
           \A i \in DOMAIN runs : runs'[i].kind = runs[i].kind /\ runs'[i].erased = runs[i].erased
    PROVE  SaidInv'
<1>1. ASSUME NEW q \in Requests PROVE SaidOf(download[q], runs'[download[q].run])
    <2>1. CASE UnderWay(q)
        BY <2>1, RunOfDownload DEF SaidInv, SaidOf
    <2>2. CASE ~UnderWay(q)
        BY <2>2 DEF UnderWay, SaidOf
    <2> QED
        BY <2>1, <2>2
<1> QED
    BY <1>1 DEF SaidInv, SaidOf

LEMMA DownloadSays ==
    ASSUME ReportsInv, SaidInv, NEW q \in Requests, NEW row, UNCHANGED runs,
           download' = [download EXCEPT ![q] = row], SaidOf(row, runs[row.run])
    PROVE  SaidInv'
<1>1. \A r \in Requests : download'[r] = IF r = q THEN row ELSE download[r]
    BY DEF ReportsInv
<1>2. \A r \in Requests : SaidOf(download'[r], runs[download'[r].run])
    BY <1>1 DEF SaidInv
<1> QED
    BY <1>2 DEF SaidInv, SaidOf

\* The sweep that takes the last row of a run passes every download of it.
LEMMA SweepKeepsSaid ==
    ASSUME ReportsInv, SaidInv, Sweep
    PROVE  SaidInv'
<1>1. PICK removed \in Taken :
         /\ runs' = [i \in DOMAIN runs |-> Swept(i, removed)]
         /\ download' = [q \in Requests |->
                           IF download[q].pc # "idle" /\ \E r \in removed : r[1] = download[q].run
                           THEN [download[q] EXCEPT !.swept = TRUE] ELSE download[q]]
    BY DEF Sweep, Swept, Gone
<1>2. removed \in SUBSET Expired
    BY DEF Taken, kSubset
<1>3. ASSUME NEW i \in DOMAIN runs
      PROVE  /\ runs'[i].kind = runs[i].kind
             /\ runs'[i].erased <=> runs[i].erased \/ i \in Orphaned(removed)
    <2> DEFINE mark == runs[i].erased \/ i \in Orphaned(removed)
    <2>1. runs[i] \in RunRow
        BY RunsTyped
    <2>2. runs'[i] = [runs[i] EXCEPT !.left = @ \ Gone(i, removed), !.old = @ \ Gone(i, removed),
                                     !.erased = mark]
        BY <1>1 DEF Swept
    <2> HIDE DEF mark
    <2>3. runs'[i].kind = runs[i].kind /\ runs'[i].erased = mark
        BY <2>1, <2>2 DEF RunRow
    <2> QED
        BY <2>3 DEF mark
<1>4. ASSUME NEW i \in Orphaned(removed) PROVE \E r \in removed : r[1] = i
    BY DEF Orphaned
<1>5. ASSUME NEW q \in Requests
      PROVE  SaidOf(download'[q], runs'[download'[q].run])
    <2>1. /\ DOMAIN download[q] = DOMAIN Idle
          /\ download'[q] = IF UnderWay(q) /\ \E r \in removed : r[1] = download[q].run
                            THEN [download[q] EXCEPT !.swept = TRUE] ELSE download[q]
        BY <1>1 DEF ReportsInv, UnderWay
    <2>2. /\ download'[q].pc = download[q].pc /\ download'[q].run = download[q].run
          /\ download'[q].erased = download[q].erased /\ download'[q].rows = download[q].rows
          /\ download'[q].cited = download[q].cited
          /\ download[q].swept => download'[q].swept
        BY <2>1, IdleShape
    <2>3. CASE ~UnderWay(q)
        BY <2>2, <2>3 DEF UnderWay, SaidOf
    <2>4. CASE UnderWay(q)
        <3> DEFINE i == download[q].run
        <3>1. i \in DOMAIN runs
            BY <2>4, RunOfDownload
        <3>2. /\ runs'[i].kind = runs[i].kind
              /\ runs'[i].erased <=> runs[i].erased \/ i \in Orphaned(removed)
            BY <1>3, <3>1
        <3>3. i \in Orphaned(removed) => download'[q].swept
            BY <1>4, <2>1, <2>4, IdleShape
        <3>4. SaidOf(download[q], runs[i])
            BY DEF SaidInv
        <3> QED
            BY <2>2, <3>2, <3>3, <3>4 DEF SaidOf
    <2> QED
        BY <2>3, <2>4
<1> QED
    BY <1>5 DEF SaidInv, SaidOf

\* A download that is opened takes over the mark, and one that reads finds what the mark says.
LEMMA OpenSays ==
    ASSUME ReportsInv, SaidInv, NEW q \in Requests, Open(q)
    PROVE  SaidInv'
<1>1. CASE Go(q, "idle", Idle)
    <2> DEFINE row == [Idle EXCEPT !.pc = "idle"]
    <2>1. download' = [download EXCEPT ![q] = row] /\ UNCHANGED runs /\ row.pc = "idle"
        BY <1>1, IdleShape DEF Go
    <2> HIDE DEF row
    <2>2. SaidOf(row, runs[row.run])
        BY <2>1 DEF SaidOf
    <2> QED
        BY <2>1, <2>2, DownloadSays
<1>2. CASE Go(q, "open", [download[q] EXCEPT !.run = ReportedRun(q), !.erased = runs[ReportedRun(q)].erased])
    <2> DEFINE erased == runs[ReportedRun(q)].erased
               row == [[download[q] EXCEPT !.run = ReportedRun(q), !.erased = erased] EXCEPT !.pc = "open"]
    <2>1. download' = [download EXCEPT ![q] = row] /\ UNCHANGED runs
        BY <1>2 DEF Go
    <2> HIDE DEF erased
    <2>2. row.pc = "open" /\ row.run = ReportedRun(q) /\ row.erased = erased
        BY IdleShape DEF ReportsInv
    <2> HIDE DEF row
    <2>3. SaidOf(row, runs[row.run])
        BY <2>2 DEF SaidOf, erased
    <2> QED
        BY <2>1, <2>3, DownloadSays
<1> QED
    BY <1>1, <1>2 DEF Open

LEMMA ReadsSay ==
    ASSUME ReportsInv, SaidInv, NEW q \in Requests,
           ReadObservations(q) \/ ReadFindings(q) \/ ReadInsights(q)
    PROVE  SaidInv'
<1> DEFINE run == runs[download[q].run]
<1>1. /\ DOMAIN download[q] = DOMAIN Idle /\ SaidOf(download[q], run)
    BY DEF ReportsInv, SaidInv
<1>2. download[q].pc \in {"open", "observations", "findings"}
    BY DEF ReadObservations, ReadFindings, ReadInsights
<1>3. RunInv(run)
    BY <1>2, RunOfDownload DEF UnderWay
<1>4. CASE ReadObservations(q)
    <2> DEFINE row == [[download[q] EXCEPT !.rows = run.left] EXCEPT !.pc = "observations"]
    <2>1. download' = [download EXCEPT ![q] = row] /\ UNCHANGED runs
        BY <1>4 DEF ReadObservations, Go
    <2> HIDE DEF run
    <2>2. /\ row.pc = "observations" /\ row.run = download[q].run /\ row.rows = run.left
          /\ row.erased = download[q].erased /\ row.swept = download[q].swept
        BY <1>1, IdleShape
    <2> HIDE DEF row
    <2>3. SaidOf(row, run)
        BY <1>1, <1>2, <1>3, <2>2 DEF SaidOf, RunInv
    <2> QED
        BY <2>1, <2>2, <2>3, DownloadSays DEF run
<1>5. CASE ReadFindings(q)
    <2> DEFINE row == [[download[q] EXCEPT !.findings = OpenFindings] EXCEPT !.pc = "findings"]
    <2>1. download' = [download EXCEPT ![q] = row] /\ UNCHANGED runs /\ download[q].pc = "observations"
        BY <1>5 DEF ReadFindings, Go
    <2>2. /\ row.pc = "findings" /\ row.run = download[q].run /\ row.rows = download[q].rows
          /\ row.erased = download[q].erased /\ row.swept = download[q].swept
        BY <1>1, IdleShape
    <2> HIDE DEF row, run
    <2>3. SaidOf(row, run)
        BY <1>1, <2>1, <2>2 DEF SaidOf
    <2> QED
        BY <2>1, <2>2, <2>3, DownloadSays DEF run
<1>6. CASE ReadInsights(q)
    <2> DEFINE row == [[download[q] EXCEPT !.cited = run.left] EXCEPT !.pc = "insights"]
    <2>1. download' = [download EXCEPT ![q] = row] /\ UNCHANGED runs /\ download[q].pc = "findings"
        BY <1>6 DEF ReadInsights, Go
    <2> HIDE DEF run
    <2>2. /\ row.pc = "insights" /\ row.run = download[q].run /\ row.rows = download[q].rows
          /\ row.erased = download[q].erased /\ row.swept = download[q].swept /\ row.cited = run.left
        BY <1>1, IdleShape
    <2> HIDE DEF row
    <2>3. SaidOf(row, run)
        BY <1>1, <1>3, <2>1, <2>2 DEF SaidOf, RunInv
    <2> QED
        BY <2>1, <2>2, <2>3, DownloadSays DEF run
<1> QED
    BY <1>4, <1>5, <1>6

LEMMA DeliverSays ==
    ASSUME ReportsInv, SaidInv, NEW q \in Requests, Deliver(q)
    PROVE  SaidInv'
<1> DEFINE row == [download[q] EXCEPT !.pc = "delivered"]
<1>1. download' = [download EXCEPT ![q] = row] /\ UNCHANGED runs /\ download[q].pc = "insights"
    BY DEF Deliver
<1>2. DOMAIN download[q] = DOMAIN Idle /\ SaidOf(download[q], runs[download[q].run])
    BY DEF ReportsInv, SaidInv
<1>3. /\ row.pc = "delivered" /\ row.run = download[q].run /\ row.rows = download[q].rows
      /\ row.erased = download[q].erased /\ row.swept = download[q].swept
      /\ row.cited = download[q].cited
    BY <1>2, IdleShape
<1> HIDE DEF row
<1>4. SaidOf(row, runs[row.run])
    BY <1>1, <1>2, <1>3 DEF SaidOf
<1> QED
    BY <1>1, <1>4, DownloadSays

LEMMA EndSaysNothing ==
    ASSUME ReportsInv, SaidInv, NEW q \in Requests, RendererMissing(q) \/ Done(q)
    PROVE  SaidInv'
<1> DEFINE row == [Idle EXCEPT !.pc = "idle"]
<1>1. download' = [download EXCEPT ![q] = row] /\ UNCHANGED runs /\ row.pc = "idle"
    BY IdleShape DEF RendererMissing, Done, Go
<1> HIDE DEF row
<1>2. SaidOf(row, runs[row.run])
    BY <1>1 DEF SaidOf
<1> QED
    BY <1>1, <1>2, DownloadSays

LEMMA ClaimSaysNothing ==
    ASSUME ReportsInv, SaidInv, NEW q \in Requests, NEW u \in Users, NEW g \in Grants, Claim(q, u, g)
    PROVE  SaidInv'
<1> DEFINE row == [Idle EXCEPT !.pc = "claimed", !.user = u, !.grant = g, !.run = grants[g].run]
<1>1. download' = [download EXCEPT ![q] = row] /\ UNCHANGED runs /\ row.pc = "claimed"
    BY IdleShape DEF Claim
<1> HIDE DEF row
<1>2. SaidOf(row, runs[row.run])
    BY <1>1 DEF SaidOf
<1> QED
    BY <1>1, <1>2, DownloadSays

\* A run that is stored or grows older keeps its mark.
LEMMA RunsKeepTheirMark ==
    ASSUME ReportsInv,
           (\E kind \in RunKinds : Store(kind)) \/ (\E i \in DOMAIN runs : ObservationsAge(i))
    PROVE  \A j \in DOMAIN runs : runs'[j].kind = runs[j].kind /\ runs'[j].erased = runs[j].erased
<1>1. ASSUME NEW kind \in RunKinds, Store(kind), NEW j \in DOMAIN runs PROVE runs'[j] = runs[j]
    <2> DEFINE row == [kind |-> kind, left |-> kind.rows, old |-> {}, erased |-> FALSE]
    <2>1. runs' = Append(runs, row)
        BY <1>1 DEF Store
    <2> HIDE DEF row
    <2>2. runs \in Seq(RunRow) /\ DOMAIN runs = 1 .. Len(runs) /\ Len(runs) \in Nat
        BY RunsTyped DEF ReportsInv
    <2> QED
        BY <1>1, <2>1, <2>2 DEF Append
<1>2. ASSUME NEW i \in DOMAIN runs, ObservationsAge(i), NEW j \in DOMAIN runs
      PROVE  runs'[j].kind = runs[j].kind /\ runs'[j].erased = runs[j].erased
    <2>1. PICK k \in runs[i].left \ runs[i].old : runs' = [runs EXCEPT ![i].old = @ \cup {k}]
        BY <1>2 DEF ObservationsAge
    <2>2. runs[j] \in RunRow
        BY RunsTyped
    <2>3. runs'[j] = IF j = i THEN [runs[i] EXCEPT !.old = @ \cup {k}] ELSE runs[j]
        BY <2>1
    <2> QED
        BY <2>2, <2>3 DEF RunRow
<1> QED
    BY <1>1, <1>2

LEMMA NextKeepsSaid == ReportsInv /\ SaidInv /\ [Next]_vars => SaidInv'
<1> SUFFICES ASSUME ReportsInv, SaidInv, [Next]_vars PROVE SaidInv'
    OBVIOUS
<1>1. ASSUME UNCHANGED <<runs, download>> PROVE SaidInv'
    BY <1>1, SaidAsBefore
<1>2. CASE UNCHANGED vars
    BY <1>1, <1>2 DEF vars
<1>3. CASE Next
    <2>1. (\E kind \in RunKinds : Store(kind)) \/ (\E i \in DOMAIN runs : ObservationsAge(i)) => SaidInv'
        <3>1. (\E kind \in RunKinds : Store(kind)) \/ (\E i \in DOMAIN runs : ObservationsAge(i))
                  => UNCHANGED download
            BY DEF Store, ObservationsAge
        <3> QED
            BY <3>1, SaidAsBefore, RunsKeepTheirMark
    <2>2. ManifestAges \/ SweepRaises \/ (\E u \in Users : Leave(u)) => SaidInv'
        BY <1>1 DEF ManifestAges, SweepRaises, Leave, vars
    <2>3. (\E g \in Grants : GrantAges(g) \/ \E u \in Users : Mint(u, g)) => SaidInv'
        BY <1>1 DEF GrantAges, Mint
    <2> QED
        BY <1>3, <2>1, <2>2, <2>3, SweepKeepsSaid, OpenSays, ReadsSay, DeliverSays, EndSaysNothing,
           ClaimSaysNothing
           DEF Next
<1> QED
    BY <1>2, <1>3

--------------------------------------------------------------------------------
\* What is kept of runs, links and downloads stays consistent, however sweeps and
\* downloads are interleaved.
THEOREM ReportsHold == FairSpec => []ReportsInv
<1> QED
    BY InitKeepsReports, NextKeepsReports, PTL DEF FairSpec

\* The mark of a run tells whether its evidence is gone, whatever batches it went in.
\* (sweep_retention, _mark_erased_snapshots)
THEOREM MarksTellTheTruth == FairSpec => []MarkTellsTheTruth
<1>1. ReportsInv => MarkTellsTheTruth
    BY DEF ReportsInv, RunInv, MarkTellsTheTruth
<1> QED
    BY <1>1, ReportsHold, PTL

\* However many ask with one link at the same time, one of them is served, who is the
\* one it was given to. (app_claim_report_grant, mint, download)
THEOREM GrantsServeOnce == FairSpec => []OneDocumentPerGrant
<1>1. ReportsInv => OneDocumentPerGrant
    BY DEF ReportsInv, GrantInv, CarrierInv, UnderWay, OneDocumentPerGrant, Page
<1> QED
    BY <1>1, ReportsHold, PTL

\* The list and the columns of a page agree, where the domain is registered under the
\* name its page asks for and no later run has been stored.
\* (_findings_for, _checks_for, _checked)
THEOREM PagesAgree ==
    ASSUME RegistrableName = Domain
    PROVE  FairSpec => []PageAgreesWithItself
<1>1. ASSUME ReportsInv, NEW q \in Requests, Page(q), download[q].run = Len(runs), NEW c \in Checks
      PROVE  /\ <<c, Domain>> \in Listed(q) <=> Column(q, c) = "action"
             /\ Column(q, c) = "ok" => Kind(q).results[<<c, Domain>>] = "pass"
    <2>1. Shown(q, c) = runs[Len(runs)].kind.results[<<c, Domain>>]
        BY <1>1, ReportsAssumption DEF Shown, Kind
    <2>2. Listed(q) = Failing(Len(runs))
        BY <1>1 DEF Listed, Page, ReportsInv, ListInv
    <2>3. <<c, Domain>> \in Keys
        BY ReportsAssumption DEF Keys
    <2>4. <<c, Domain>> \in Listed(q) <=> Shown(q, c) = "fail"
        BY <2>1, <2>2, <2>3 DEF Failing
    <2> QED
        BY <1>1, <2>1, <2>4, ColumnByOutcome DEF Kind
<1>2. ReportsInv => PageAgreesWithItself
    BY <1>1 DEF PageAgreesWithItself
<1> QED
    BY <1>2, ReportsHold, PTL

\* A report of a run whose evidence is gone says so, and one that says so shows none,
\* in whichever order the sweeps and the reads of the report fall; where a sweep passed
\* between two of the reads, the report may show nothing and not say why.
\* (download, build_report_document, _headline, _evidence, _mark_erased_snapshots)
THEOREM ReportsSayWhatIsErased == FairSpec => []ErasureIsSaid
<1>1. Init => SaidInv
    <2>1. Init => \A q \in Requests : download[q].pc = "idle"
        BY IdleShape DEF Init
    <2> QED
        BY <2>1 DEF SaidInv, SaidOf
<1>2. SaidInv => ErasureIsSaid
    <2> SUFFICES ASSUME SaidInv, NEW q \in Requests, Page(q), Kind(q).rows # {}
                 PROVE  /\ download[q].rows = {} => ErasureSaid(q) \/ download[q].swept
                        /\ ErasureSaid(q) =>
                              Cited(q) = {} /\ \A k \in Listed(q) : ~HasEvidenceBox(q, k)
        BY DEF ErasureIsSaid
    <2>1. SaidOf(download[q], runs[download[q].run]) /\ download[q].pc = "delivered"
        BY DEF SaidInv, Page
    <2> QED
        BY <2>1 DEF SaidOf, Kind, ErasureSaid, Cited, HasEvidenceBox
<1> QED
    BY <1>1, <1>2, NextKeepsSaid, ReportsHold, PTL DEF FairSpec

================================================================================
