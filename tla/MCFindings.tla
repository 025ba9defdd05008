------------------------------ MODULE MCFindings ------------------------------
(* Five checks of methodology 1.3.0 in three of its pillars, with their       *)
(* weights, its bands and one of its caps.                                    *)
EXTENDS Findings

CONSTANTS d1, d2, dnssec, nameservers, spf, mtasts, https

CatalogChecks == {dnssec, nameservers, spf, mtasts, https}
CatalogPillars == {"dns", "email", "web_tls"}
CatalogPillarOf ==
    [c \in CatalogChecks |-> CASE c \in {dnssec, nameservers} -> "dns"
                               [] c \in {spf, mtasts} -> "email"
                               [] c = https -> "web_tls"]
CatalogWeight ==
    [c \in CatalogChecks |-> CASE c \in {dnssec, spf} -> 10 [] c = nameservers -> 4
                               [] c = mtasts -> 6 [] c = https -> 12]
CatalogPillarWeight == [dns |-> 20, email |-> 20, web_tls |-> 25]
CatalogBands ==
    {[name |-> "resilient", minimum |-> 90, maximum |-> 100],
     [name |-> "managed", minimum |-> 75, maximum |-> 89],
     [name |-> "developing", minimum |-> 55, maximum |-> 74],
     [name |-> "exposed", minimum |-> 30, maximum |-> 54],
     [name |-> "critical", minimum |-> 0, maximum |-> 29]}
CatalogCaps == {[ceiling |-> 54, checks |-> {https}]}

Seen(result) == [result |-> result, high |-> TRUE]

Together(a, b, c, d, e) ==
    (dnssec :> a) @@ (nameservers :> b) @@ (spf :> c) @@ (mtasts :> d) @@ (https :> e)

\* What may be seen on a domain that is looked at again and again.
WatchedEvidence ==
    {Together(Seen(a), Seen("unknown"), Seen(c), Seen("not_applicable"), Seen("pass")) :
        a \in {"pass", "fail"}, c \in {"fail", "warning", "unknown"}}

\* And on one that is looked at once.
VisitedEvidence ==
    {Together(Seen(a), Seen("warning"), Seen("pass"), Seen("warning"), e) :
        a \in {"pass", "unknown"},
        e \in {Seen("pass"), Seen("unknown"), Seen("fail"), [result |-> "fail", high |-> FALSE]}}

CatalogEvidence == (d1 :> WatchedEvidence) @@ (d2 :> VisitedEvidence)

FourRuns == << d1, d2, d1, d1 >>
TwoRuns == << d1, d1 >>
OneRun == << d2 >>

\* The hypothesis of ScoresAreExplained.
ASSUME CatalogCounts == EveryFindingCounts
=============================================================================
