---------------------------- MODULE Normalization ----------------------------
(***************************************************************************)
(* From collection results to observations: policy/normalization.py.  An   *)
(* observation is a status and the attributes the checks read.             *)
(***************************************************************************)
EXTENDS Collectors

Observation(status, attributes) == [status |-> status, attributes |-> attributes]
Observed(attributes) == Observation("observed", attributes)
Inconclusive == Observation("inconclusive", << >>)
Absent == Observation("absent", << >>)
Inapplicable == Observation("not_applicable", << >>)

\* Mutant of StatusFromSection: an inconclusive section is flattened into an absence.
FlattenedStatus(present, conclusive) == IF present THEN "observed" ELSE "absent"

\* The single place the presence and conclusiveness rule is expressed.
StatusFromSection(present, conclusive) ==
    IF ~conclusive THEN "inconclusive" ELSE IF present THEN "observed" ELSE "absent"

\* The observation of a section without a record.
NothingIn(section) == Observation(StatusFromSection(FALSE, section.conclusive), << >>)

\* One observation per type; every type is inconclusive when the result is not usable.
Unless(r, types, observations) ==
    IF Usable(r) THEN observations ELSE [t \in types |-> Inconclusive]

DnsTypes == {"dns.dnssec", "dns.caa", "dns.delegation", "dns.wildcard"}

NormalizeDns(r) ==
    Unless(r, DnsTypes,
      [t \in DnsTypes |->
         CASE t = "dns.dnssec" -> Observed([state |-> r.payload.dnssec])
           [] t = "dns.caa" ->
                IF r.payload.caa = {}
                THEN NothingIn([conclusive |-> "caa" \in r.payload.conclusive])
                ELSE Observed([present |-> \E c \in r.payload.caa : c.present])
           [] t = "dns.delegation" ->
                IF "ns" \in r.payload.conclusive THEN Observed(r.payload.delegation)
                ELSE Inconclusive
           [] t = "dns.wildcard" ->
                IF "wildcard" \in r.payload.conclusive
                THEN Observed([resolves |-> r.payload.resolves]) ELSE Inconclusive])

\* A parsed record becomes an observation, whatever it says.
NormalizeSpf(spf) ==
    IF spf.multiple THEN Observed([multiple_records |-> TRUE])
    ELSE IF spf.parsed = {} THEN NothingIn(spf)
    ELSE LET parsed == CHOOSE p \in spf.parsed : TRUE
         IN  Observed([present |-> TRUE, multiple_records |-> FALSE, valid |-> parsed.valid,
                       permissive_all |-> parsed.permissive_all, soft_all |-> parsed.soft_all,
                       exceeds_lookup_limit |-> parsed.exceeds_lookup_limit])

NormalizeDmarc(dmarc) ==
    IF dmarc.parsed = {} THEN NothingIn(dmarc)
    ELSE Observed([present |-> TRUE,
                   valid |-> \A p \in dmarc.parsed : p.valid,
                   policy |-> (CHOOSE p \in dmarc.parsed : TRUE).policy])

\* A section that is provably absent is observed as such: it still carries mx_present.
AbsentSection(section, mx_present) ==
    IF section.conclusive THEN Observed([mx_present |-> mx_present, present |-> FALSE])
    ELSE Inconclusive

NormalizeMtaSts(section, mx_present) ==
    IF section.policy # {}
    THEN LET policy == CHOOSE p \in section.policy : TRUE
         IN  Observed([mx_present |-> mx_present, mode |-> policy.mode,
                       policy_invalid |-> ~policy.valid])
    ELSE IF section.record_present
    THEN Observed([mx_present |-> mx_present, mode |-> "", policy_invalid |-> TRUE])
    ELSE AbsentSection(section, mx_present)

NormalizeTlsRpt(section, mx_present) ==
    IF section.present
    THEN Observed([mx_present |-> mx_present, present |-> TRUE, valid |-> section.valid])
    ELSE AbsentSection(section, mx_present)

NormalizeDkim(selectors) ==
    IF selectors = {} THEN Inapplicable
    ELSE IF \E s \in selectors : ~s.conclusive THEN Inconclusive
    ELSE IF \A s \in selectors : ~s.present THEN Absent
    ELSE Observed([all_selectors_present |-> \A s \in selectors : s.present,
                   any_selector_present |-> TRUE])

EmailTypes == {"email.spf", "email.dmarc", "email.mta_sts", "email.tls_rpt", "email.dkim"}

NormalizeEmail(r) ==
    Unless(r, EmailTypes,
      [t \in EmailTypes |->
         CASE t = "email.spf" -> NormalizeSpf(r.payload.spf)
           [] t = "email.dmarc" -> NormalizeDmarc(r.payload.dmarc)
           [] t = "email.mta_sts" -> NormalizeMtaSts(r.payload.mta_sts, r.payload.mx_present)
           [] t = "email.tls_rpt" -> NormalizeTlsRpt(r.payload.tls_rpt, r.payload.mx_present)
           [] t = "email.dkim" -> NormalizeDkim(r.payload.dkim)])

TlsTypes == {"tls.certificate", "tls.protocols"}

NormalizeTls(r) ==
    Unless(r, TlsTypes,
      [t \in TlsTypes |->
         CASE t = "tls.certificate" ->
                IF r.payload.leaf = {} THEN Inconclusive
                ELSE Observed(CHOOSE leaf \in r.payload.leaf : TRUE)
           [] t = "tls.protocols" ->
                IF ~r.payload.attempted THEN Inapplicable
                ELSE IF r.payload.probed = {} THEN Inconclusive
                ELSE Observed([deprecated_supported_count |->
                                 Cardinality(r.payload.deprecated_supported)])])

HttpTypes == {"http.availability", "http.redirect", "http.security_headers",
              "http.cookies", "http.disclosure"}

\* The headers, cookies and versions of the page exist only when HTTPS answered.
NormalizePage(t, page) ==
    CASE t = "http.security_headers" ->
           Observed([https_reachable |-> TRUE, hsts_present |-> page.hsts # {},
                     hsts_max_age |-> Max(page.hsts \cup {0}),
                     missing_baseline_count |-> page.missing_baseline])
      [] t = "http.cookies" ->
           IF page.cookies = {} THEN Absent
           ELSE Observed([insecure_cookie_count |-> Cardinality(page.cookies \ {"secure"})])
      [] t = "http.disclosure" ->
           Observed([https_reachable |-> TRUE,
                     version_disclosing_count |-> page.disclosing])

NormalizeHttp(r) ==
    Unless(r, HttpTypes,
      [t \in HttpTypes |->
         CASE t = "http.availability" ->
                Observed([https_reachable |-> r.payload.https_reachable,
                          http_reachable |-> r.payload.http_reachable])
           [] t = "http.redirect" ->
                Observed([http_reachable |-> r.payload.http_reachable,
                          redirects_to_https |-> r.payload.redirects])
           [] OTHER ->
                IF r.payload.page = {} THEN Inconclusive
                ELSE NormalizePage(t, CHOOSE p \in r.payload.page : TRUE)])

NormalizeRdap(r) ==
    IF r.status = "not_applicable" THEN Inapplicable
    ELSE IF ~Usable(r) \/ r.payload.expiration = {} THEN Inconclusive
    ELSE Observed([days_until_expiry |-> CHOOSE d \in r.payload.expiration : TRUE])

\* No name counts as reviewed: an assessment passes no accepted names.
NormalizeCt(r) ==
    IF r.status = "not_applicable" THEN Absent
    ELSE IF ~Usable(r) THEN Inconclusive
    ELSE Observed([unreviewed_count |-> Cardinality(r.payload.candidates)])

NormalizePorts(r) ==
    LET open(class) == Cardinality({p \in r.payload.open : Exposure[p] = class})
    IN  IF ~Usable(r) THEN Inconclusive
        ELSE Observed([remote_access_open |-> open("remote_access"),
                       database_open |-> open("database"),
                       management_open |-> open("management")])

NormalizeAttribution(r) ==
    IF r.status = "not_applicable" THEN Absent
    ELSE IF ~Usable(r) THEN Inconclusive
    ELSE Observed([operator_count |-> Cardinality(r.payload.operators)])

NormalizeMailTransport(r) ==
    IF r.status = "not_applicable" THEN Absent
    ELSE IF ~Usable(r) THEN Inconclusive
    ELSE Observed([starttls_everywhere |-> r.payload.starttls_everywhere])

NormalizeReputation(r) ==
    IF ~Usable(r) THEN Inconclusive
    ELSE Observed([listed |-> r.payload.listed, contested |-> r.payload.contested])
===============================================================================
