------------------------------ MODULE MCEvidence ------------------------------
(***************************************************************************)
(* Two domains, one that does everything well and one that does little,    *)
(* and every domain that differs from one of them in one answer.           *)
(***************************************************************************)
EXTENDS Evidence

MCExposure == [p \in Ports |-> IF p = "ssh" THEN "remote_access" ELSE "database"]

Spf(all, lookups) == [all |-> all, lookups |-> lookups, syntax |-> TRUE]
Leaf(expired, early, days, covered) ==
    [status |-> "ok",
     leaf |-> {[expired |-> expired, not_yet_valid |-> early, days_until_expiry |-> days,
                hostname_covered |-> covered]}]
Page(hsts, missing, cookies, disclosing) ==
    [hsts |-> hsts, missing_baseline |-> missing, cookies |-> cookies,
     disclosing |-> disclosing]

\* Every question with its values, in the order the collectors ask them.
Table ==
    << <<<<"dns", "soa">>, <<{}, {"soa"}>>>>,
       <<<<"dns", "ns">>, <<{}, {<<"p1", 1>>, <<"p1", 2>>}, {<<"p1", 1>>, <<"p2", 1>>}>>>>,
       <<<<"dns", "a">>, <<{}, {"addr"}>>>>,
       <<<<"dns", "caa">>, <<{}, {"unparsed"}, {"issue"}>>>>,
       <<<<"dns", "dnskey">>, <<{}, {"key"}>>>>,
       <<<<"dns", "ds">>, <<{}, {"key"}>>>>,
       <<<<"dns", "wildcard">>, <<{"addr"}, {}>>>>,
       <<<<"email", "mx">>, <<{""}, {}, {"mx1"}, {"mx1", "mx2"}>>>>,
       <<<<"email", "spf">>,
         <<{}, {Spf("-all", 1), Spf("~all", 1)}, {Spf("+all", 1)}, {Spf("~all", 1)},
           {Spf("-all", 11)}, {[Spf("-all", 1) EXCEPT !.syntax = FALSE]}, {Spf("-all", 1)}>>>>,
       <<<<"email", "dmarc">>, <<{}, {"none"}, {"quarantine"}, {"invalid"}, {"reject"}>>>>,
       <<<<"email", "mta_sts">>, <<{}, {"id"}>>>>,
       <<<<"email", "mta_sts_policy">>,
         <<"http_404", "malformed", "none", "testing", "enforce">>>>,
       <<<<"email", "tls_rpt">>, <<{}, {"no_destination"}, {"destination"}>>>>,
       <<<<"dkim", "s1">>, <<{}, {"key"}>>>>,
       <<<<"dkim", "s2">>, <<{}, {"key"}>>>>,
       <<<<"tls", "handshake">>,
         <<[status |-> "handshake_failed", leaf |-> {}], [status |-> "error", leaf |-> {}],
           Leaf(TRUE, FALSE, -1, TRUE), Leaf(FALSE, TRUE, 90, TRUE),
           Leaf(FALSE, FALSE, 10, FALSE), Leaf(FALSE, FALSE, 90, TRUE)>>>>,
       <<<<"tls", "probes">>, <<TRUE>>>>,
       <<<<"protocol", "TLSv1">>, <<TRUE, FALSE>>>>,
       <<<<"protocol", "TLSv1.3">>, <<FALSE, TRUE>>>>,
       <<<<"http", "plaintext">>, <<"page", "redirects_to_https">>>>,
       <<<<"http", "secure">>,
         <<Page({}, 4, {"insecure"}, 1), Page({0}, 2, {}, 0), Page({3600}, 1, {"secure"}, 0),
           Page({31536000}, 0, {"secure"}, 0)>>>>,
       <<<<"rdap", "domain">>,
         <<[status |-> 404], [status |-> 500], [status |-> 200, expiration |-> {}],
           [status |-> 200, expiration |-> {10}], [status |-> 200, expiration |-> {40}],
           [status |-> 200, expiration |-> {100}]>>>>,
       <<<<"ct", "index">>, <<{"a", "b"}, {}, {"a"}>>>>,
       <<<<"ports", "ssh">>, <<"open", "filtered", "closed">>>>,
       <<<<"ports", "postgres">>, <<"open", "closed">>>>,
       <<<<"asn", "addr">>, <<{}, {"AS1"}>>>>,
       <<<<"mail_tls", "mx1">>, <<"not_offered", "unreachable", "handshake_failed", "offered">>>>,
       <<<<"mail_tls", "mx2">>, <<"not_offered", "offered">>>>,
       <<<<"reputation", "p1">>, <<"listed", "clean">>>>,
       <<<<"reputation", "p2">>, <<"listed", "clean">>>> >>

MCOrder == [i \in 1..Len(Table) |-> Table[i][1]]
Entry(q) == Table[CHOOSE i \in 1..Len(Table) : Table[i][1] = q][2]
Listed == {Table[i][1] : i \in 1..Len(Table)}
MCContents == [q \in Listed |-> {Entry(q)[i] : i \in 1..Len(Entry(q))}]

\* The values are listed from the poorest to the best.
Poor == [q \in Listed |-> Entry(q)[1]]
Good == [q \in Listed |-> Entry(q)[Len(Entry(q))]]
MCBaselines == {Poor, Good}
===============================================================================
