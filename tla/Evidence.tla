------------------------------- MODULE Evidence -------------------------------
(***************************************************************************)
(* The assessments of one domain, from the answers of the network to the   *)
(* verdicts of the current catalogue (methodology 1.3.0).                  *)
(*                                                                         *)
(* The domain is what it is (`domain`), the network answers some of the    *)
(* questions and not others (`lost`), and an assessment turns the answers  *)
(* into the verdicts of the checks and the outcomes of the collection      *)
(* steps.  The domain may change between two assessments.                  *)
(***************************************************************************)
EXTENDS Normalization

CONSTANTS
    Contents,       \* the values a question can have, for every question
    Baselines,      \* some domains: a value for every question
    Order,          \* the questions in the order they are asked
    MaxDrift,       \* how many answers of a domain differ from a baseline
    MaxLost         \* how many questions get lost when the run is not halted

Questions == DOMAIN Contents

\* What an assessment asks, beside the networks of the addresses it observes.
AskedQuestions ==
    DnsQuestions \cup EmailLookups \cup ProbeQuestions
      \cup {PolicyFile, Handshake, ProtocolProbing, Plaintext, Secure, Rdap, CtIndex}
      \cup ({"ports"} \X Ports) \cup ({"mail_tls"} \X MailHosts)
      \cup ({"reputation"} \X Providers)

ASSUME EvidenceAssumption ==
    /\ AskedQuestions \subseteq Questions
    /\ \A d \in Baselines : DOMAIN d = Questions /\ \A q \in Questions : d[q] \in Contents[q]
    /\ \A hosts \in Contents[<<"email", "mx">>] : hosts \subseteq MailHosts \cup {""}
    /\ MaxDrift \in Nat /\ MaxLost \in Nat

VARIABLES
    domain,         \* the value of every question
    lost,           \* the questions of the last assessment without an answer
    mode,           \* of the last assessment
    probing,        \* whether it probes the TLS versions
    verdict,        \* check -> result
    outcome         \* collector -> outcome of its step

evidenceVars == <<domain, lost, mode, probing, verdict, outcome>>

PassiveMode == "passive_observation"
AuthorizedMode == "authorized_assessment"

(***************************************************************************)
(* The catalogue.                                                          *)
(***************************************************************************)
Equals(attr, value, result) ==
    [test |-> "equals", attr |-> attr, value |-> value, result |-> result]
AtLeast(attr, value, result) ==
    [test |-> "at_least", attr |-> attr, value |-> value, result |-> result]
AtMost(attr, value, result) ==
    [test |-> "at_most", attr |-> attr, value |-> value, result |-> result]
StatusIs(status, result) ==
    [test |-> "status", attr |-> status, value |-> status, result |-> result]

Check(type, applicability, rules) ==
    [type |-> type, applicability |-> applicability, rules |-> rules]

\* A rule that only names the reason of an unknown verdict changes no verdict and is left out.
PillarA ==
    [A_dnssec_enabled |-> Check("dns.dnssec", "always",
       <<Equals("state", "signed_and_delegated", "pass"),
         Equals("state", "signed_without_delegation", "warning"),
         Equals("state", "unsigned", "fail")>>),
     A_caa_present |-> Check("dns.caa", "always",
       <<Equals("present", TRUE, "pass"), Equals("present", FALSE, "warning"),
         StatusIs("absent", "warning")>>),
     A_nameserver_diversity |-> Check("dns.delegation", "always",
       <<AtLeast("distinct_parent_count", 2, "pass"),
         AtLeast("nameserver_count", 1, "warning")>>),
     A_registration_expiry |-> Check("rdap.registration", "requires_observation",
       <<AtLeast("days_until_expiry", 60, "pass"),
         AtLeast("days_until_expiry", 30, "warning"),
         AtLeast("days_until_expiry", 0, "fail")>>)]

PillarB ==
    [B_spf_present |-> Check("email.spf", "always",
       <<Equals("multiple_records", TRUE, "fail"), Equals("valid", FALSE, "fail"),
         Equals("permissive_all", TRUE, "fail"),
         Equals("exceeds_lookup_limit", TRUE, "warning"),
         Equals("soft_all", TRUE, "warning"), Equals("present", TRUE, "pass"),
         StatusIs("absent", "fail")>>),
     B_dmarc_enforced |-> Check("email.dmarc", "always",
       <<Equals("valid", FALSE, "fail"), Equals("policy", "reject", "pass"),
         Equals("policy", "quarantine", "warning"), Equals("policy", "none", "warning"),
         StatusIs("absent", "fail")>>),
     B_dkim_declared_present |-> Check("email.dkim", "requires_observation",
       <<Equals("all_selectors_present", TRUE, "pass"),
         Equals("any_selector_present", TRUE, "warning"), StatusIs("absent", "fail")>>),
     B_mta_sts_enforced |-> Check("email.mta_sts", "mx_present",
       <<Equals("mode", "enforce", "pass"), Equals("mode", "testing", "warning"),
         Equals("mode", "none", "warning"), Equals("policy_invalid", TRUE, "fail"),
         Equals("present", FALSE, "warning")>>),
     B_tls_rpt_present |-> Check("email.tls_rpt", "mx_present",
       <<Equals("valid", TRUE, "pass"), Equals("present", TRUE, "warning"),
         Equals("present", FALSE, "warning")>>),
     B_mail_transport_encryption |-> Check("mail.transport_security", "requires_observation",
       <<StatusIs("absent", "not_applicable"), Equals("starttls_everywhere", TRUE, "pass"),
         Equals("starttls_everywhere", FALSE, "fail")>>)]

PillarC ==
    [C_https_available |-> Check("http.availability", "always",
       <<Equals("https_reachable", TRUE, "pass"), Equals("https_reachable", FALSE, "fail")>>),
     C_http_redirects_https |-> Check("http.redirect", "always",
       <<Equals("redirects_to_https", TRUE, "pass"), Equals("http_reachable", TRUE, "fail"),
         Equals("http_reachable", FALSE, "pass")>>),
     C_certificate_validity |-> Check("tls.certificate", "requires_observation",
       <<Equals("expired", TRUE, "fail"), Equals("not_yet_valid", TRUE, "fail"),
         AtLeast("days_until_expiry", 30, "pass"),
         AtLeast("days_until_expiry", 0, "warning")>>),
     C_certificate_hostname |-> Check("tls.certificate", "requires_observation",
       <<Equals("hostname_covered", TRUE, "pass"),
         Equals("hostname_covered", FALSE, "fail")>>),
     C_tls_protocol_posture |-> Check("tls.protocols", "requires_observation",
       <<AtMost("deprecated_supported_count", 0, "pass"),
         AtLeast("deprecated_supported_count", 1, "warning")>>),
     C_hsts_present |-> Check("http.security_headers", "https_reachable",
       <<AtLeast("hsts_max_age", 31536000, "pass"), AtLeast("hsts_max_age", 1, "warning"),
         Equals("hsts_present", FALSE, "fail")>>),
     C_security_headers |-> Check("http.security_headers", "https_reachable",
       <<AtMost("missing_baseline_count", 0, "pass"),
         AtMost("missing_baseline_count", 2, "warning"),
         AtLeast("missing_baseline_count", 3, "fail")>>),
     C_cookie_attributes |-> Check("http.cookies", "requires_observation",
       <<AtMost("insecure_cookie_count", 0, "pass"),
         AtLeast("insecure_cookie_count", 1, "warning"),
         StatusIs("absent", "not_applicable")>>)]

\* The other pillars, without the freshness of the evidence: time stands still here.
OtherPillars ==
    [D_asset_attribution_reviewed |-> Check("assets.candidates", "requires_observation",
       <<AtMost("unreviewed_count", 0, "pass"), AtLeast("unreviewed_count", 1, "warning"),
         StatusIs("absent", "not_applicable")>>),
     D_wildcard_dns_exposure |-> Check("dns.wildcard", "always",
       <<Equals("resolves", FALSE, "pass"), Equals("resolves", TRUE, "warning")>>),
     D_remote_access_exposed |-> Check("surface.ports", "requires_observation",
       <<AtMost("remote_access_open", 0, "pass"), AtLeast("remote_access_open", 1, "fail")>>),
     D_database_exposed |-> Check("surface.ports", "requires_observation",
       <<AtMost("database_open", 0, "pass"), AtLeast("database_open", 1, "fail")>>),
     D_management_interface_exposed |-> Check("surface.ports", "requires_observation",
       <<AtMost("management_open", 0, "pass"), AtLeast("management_open", 1, "warning")>>),
     E_domain_reputation_clean |-> Check("reputation.domain", "requires_observation",
       <<Equals("contested", TRUE, "unknown"), Equals("listed", FALSE, "pass"),
         Equals("listed", TRUE, "warning")>>),
     F_server_banner_disclosure |-> Check("http.disclosure", "https_reachable",
       <<AtMost("version_disclosing_count", 0, "pass"),
         AtLeast("version_disclosing_count", 1, "warning")>>)]

Join(f, g) == [x \in DOMAIN f \cup DOMAIN g |-> IF x \in DOMAIN f THEN f[x] ELSE g[x]]

Catalog == Join(PillarA, Join(PillarB, Join(PillarC, OtherPillars)))
CatalogChecks == DOMAIN Catalog

\* The checks only an authorized assessment may collect for.
AuthorizedChecks ==
    {"D_remote_access_exposed", "D_database_exposed", "D_management_interface_exposed"}

(***************************************************************************)
(* Evaluation: applicability first, then the first rule that matches.      *)
(***************************************************************************)
Matches(rule, obs) ==
    IF rule.test = "status" THEN obs.status = rule.value
    ELSE /\ obs.status = "observed"
         /\ rule.attr \in DOMAIN obs.attributes
         /\ CASE rule.test = "equals" -> obs.attributes[rule.attr] = rule.value
              [] rule.test = "at_least" -> obs.attributes[rule.attr] >= rule.value
              [] rule.test = "at_most" -> obs.attributes[rule.attr] <= rule.value

IsApplicable(check, observations) ==
    LET missing == check.type \notin DOMAIN observations
        obs == observations[check.type]
    IN  CASE check.applicability = "always" -> TRUE
          [] check.applicability = "requires_observation" ->
               ~missing /\ obs.status # "not_applicable"
          [] OTHER ->
               /\ ~missing /\ obs.status = "observed"
               /\ check.applicability \in DOMAIN obs.attributes
               /\ obs.attributes[check.applicability]

EvaluateCheck(check, observations) ==
    IF ~IsApplicable(check, observations) THEN "not_applicable"
    ELSE IF check.type \notin DOMAIN observations THEN "unknown"
    ELSE LET matching == {i \in DOMAIN check.rules :
                             Matches(check.rules[i], observations[check.type])}
         IN  IF matching = {} THEN "unknown" ELSE check.rules[Min(matching)].result

\* A check the mode may not perform is not applicable, whatever it came to.
Withhold(c, m, result) ==
    IF m = PassiveMode /\ c \in AuthorizedChecks THEN "not_applicable" ELSE result

(***************************************************************************)
(* The collection steps.  A step whose operation the mode does not allow,  *)
(* or whose source is not configured, is skipped and collects nothing.     *)
(***************************************************************************)
CollectorNames == {"dns", "email", "tls", "http", "rdap", "ct", "ports", "asn", "mail_tls",
                   "reputation"}

SkippedIn(m) ==
    (IF m = PassiveMode THEN {"ports"} ELSE {})
      \cup (IF Providers = {} THEN {"reputation"} ELSE {})

MailHostsOf(email) == ObservedMailHosts(email)

CollectOne(name, a, probe) ==
    CASE name = "dns" -> CollectDns(a)
      [] name = "email" -> CollectEmail(a)
      [] name = "tls" -> CollectTls(a, probe)
      [] name = "http" -> CollectHttp(a)
      [] name = "rdap" -> CollectRdap(a)
      [] name = "ct" -> CollectCt(a)
      [] name = "ports" -> CollectPorts(a)
      [] name = "asn" -> CollectAsn(a, ObservedAddresses(CollectDns(a)))
      [] name = "mail_tls" -> CollectMailTransport(a, MailHostsOf(CollectEmail(a)))
      [] name = "reputation" -> CollectReputation(a)

Collect(a, m, probe) ==
    [n \in CollectorNames \ SkippedIn(m) |-> CollectOne(n, a, probe)]

PermanentReasons == {"domain_not_in_registry"}

\* Mutant of CollectionOutcome: a collection that found nothing out has settled.
SettledOutcome(r) == IF r.status = "not_applicable" THEN "skipped" ELSE "succeeded"

CollectionOutcome(r) ==
    CASE Usable(r) -> "succeeded"
      [] r.status = "not_applicable" -> "skipped"
      [] OTHER -> IF r.reason \in PermanentReasons THEN "failed" ELSE "retry"

\* What is observed: a step that was skipped leaves no observation of its own.
ObservedTypes(collection) ==
    DnsTypes \cup EmailTypes \cup TlsTypes \cup HttpTypes
      \cup {"rdap.registration", "assets.candidates", "network.attribution",
            "mail.transport_security"}
      \cup {t \in {"surface.ports"} : "ports" \in DOMAIN collection}
      \cup {t \in {"reputation.domain"} : "reputation" \in DOMAIN collection}

NormalizeType(t, collection) ==
    CASE t \in DnsTypes -> NormalizeDns(collection["dns"])[t]
      [] t \in EmailTypes -> NormalizeEmail(collection["email"])[t]
      [] t \in TlsTypes -> NormalizeTls(collection["tls"])[t]
      [] t \in HttpTypes -> NormalizeHttp(collection["http"])[t]
      [] t = "rdap.registration" -> NormalizeRdap(collection["rdap"])
      [] t = "assets.candidates" -> NormalizeCt(collection["ct"])
      [] t = "network.attribution" -> NormalizeAttribution(collection["asn"])
      [] t = "mail.transport_security" -> NormalizeMailTransport(collection["mail_tls"])
      [] t = "surface.ports" -> NormalizePorts(collection["ports"])
      [] t = "reputation.domain" -> NormalizeReputation(collection["reputation"])

Normalize(collection) == [t \in ObservedTypes(collection) |-> NormalizeType(t, collection)]

Verdicts(a, m, probe) ==
    LET observations == Normalize(Collect(a, m, probe))
    IN  [c \in CatalogChecks |-> Withhold(c, m, EvaluateCheck(Catalog[c], observations))]

Outcomes(a, m, probe) ==
    LET collection == Collect(a, m, probe)
    IN  [n \in CollectorNames |->
           IF n \in DOMAIN collection THEN CollectionOutcome(collection[n]) ELSE "skipped"]

(***************************************************************************)
(* The assessments.                                                        *)
(***************************************************************************)
Answers(d, L) == [q \in Questions |-> IF q \in L THEN << >> ELSE <<d[q]>>]

Near(d) == \E b \in Baselines : Cardinality({q \in Questions : d[q] # b[q]}) <= MaxDrift

Assess(L, m, probe) ==
    /\ verdict = << >>
    /\ lost' = L /\ mode' = m /\ probing' = probe
    /\ verdict' = Verdicts(Answers(domain, L), m, probe)
    /\ outcome' = Outcomes(Answers(domain, L), m, probe)
    /\ UNCHANGED domain

\* The network loses some of the answers about what one collector asks.
AssessOverALossyNetwork ==
    \E group \in {q[1] : q \in Questions}, m \in {PassiveMode, AuthorizedMode},
       probe \in BOOLEAN :
        \E L \in SUBSET {q \in Questions : q[1] = group} :
            Cardinality(L) <= MaxLost /\ Assess(L, m, probe)

\* An emergency disable halts the run: nothing is answered from some question on.
AssessUntilHalted ==
    \E k \in 1..Len(Order), m \in {PassiveMode, AuthorizedMode}, probe \in BOOLEAN :
        Assess({Order[i] : i \in k..Len(Order)}, m, probe)

\* Between two assessments there is no verdict, and the domain may change.
Unassessed ==
    /\ lost = {} /\ mode = PassiveMode /\ probing = FALSE
    /\ verdict = << >> /\ outcome = << >>

NextAssessmentIsDue ==
    /\ verdict # << >>
    /\ lost' = {} /\ mode' = PassiveMode /\ probing' = FALSE
    /\ verdict' = << >> /\ outcome' = << >>
    /\ UNCHANGED domain

DomainChanges ==
    \E q \in Questions : \E v \in Contents[q] :
        /\ Unassessed
        /\ domain' = [domain EXCEPT ![q] = v] /\ domain' # domain
        /\ Near(domain')
        /\ UNCHANGED <<lost, mode, probing, verdict, outcome>>

EvidenceInit == domain \in Baselines /\ Unassessed

EvidenceNext ==
    \/ AssessOverALossyNetwork \/ AssessUntilHalted
    \/ NextAssessmentIsDue \/ DomainChanges

EvidenceSpec == EvidenceInit /\ [][EvidenceNext]_evidenceVars

(***************************************************************************)
(* Properties.                                                             *)
(***************************************************************************)
Judged == {"pass", "warning", "fail"}

\* The checks that are judged over the answers that did come.
JudgedOverWhatAnswered ==
    {"C_https_available", "C_http_redirects_https", "C_tls_protocol_posture",
     "B_mta_sts_enforced", "B_mail_transport_encryption", "E_domain_reputation_clean"}
      \cup AuthorizedChecks

\* A check that is judged is judged as if every answer had come: an answer that is
\* missing may leave a verdict unknown, and never turns it into another one
\* (policy/evaluation.py:3-5, policy/normalization.py:3-5).
MissingAnswersJudgeNothing ==
    \A c \in DOMAIN verdict \ JudgedOverWhatAnswered :
        verdict[c] \in Judged =>
            verdict[c] = Verdicts(Answers(domain, {}), mode, probing)[c]

Seen(q) == q \notin lost
OpenIn(class) == {p \in Ports : /\ Seen(<<"ports", p>>) /\ domain[<<"ports", p>>] = "open"
                               /\ Exposure[p] = class}

\* What was seen to be wrong is never passed, whatever else stayed unanswered: an open
\* port, a deprecated protocol, a listing, a mail host without STARTTLS.
SeenIsNeverPassed ==
    verdict # << >> =>
      /\ OpenIn("database") # {} => verdict["D_database_exposed"] # "pass"
      /\ OpenIn("remote_access") # {} => verdict["D_remote_access_exposed"] # "pass"
      /\ (\E v \in Deprecated : Seen(<<"protocol", v>>) /\ domain[<<"protocol", v>>]
                                  /\ Seen(ProtocolProbing) /\ probing)
            => verdict["C_tls_protocol_posture"] # "pass"
      /\ (\E p \in Providers : /\ Seen(<<"reputation", p>>)
                               /\ domain[<<"reputation", p>>] = "listed")
            => verdict["E_domain_reputation_clean"] # "pass"
      /\ (\E h \in domain[<<"email", "mx">>] : /\ Seen(<<"email", "mx">>) /\ h # ""
                                             /\ Seen(<<"mail_tls", h>>)
                                             /\ domain[<<"mail_tls", h>>] = "not_offered")
            => verdict["B_mail_transport_encryption"] # "pass"

\* Without an authorization nothing an active probe would find out is judged or passed.
PassiveJudgesNothingActive ==
    verdict # << >> /\ mode = PassiveMode =>
        /\ \A c \in AuthorizedChecks : verdict[c] = "not_applicable"
        /\ outcome["ports"] = "skipped"

\* The transport of mail is judged only by the mail hosts the domain was seen to publish.
TransportOfObservedHostsOnly ==
    verdict # << >> /\ verdict["B_mail_transport_encryption"] \in Judged =>
        \E h \in domain[<<"email", "mx">>] :
            /\ h # "" /\ Seen(<<"email", "mx">>) /\ Seen(<<"mail_tls", h>>)
            /\ domain[<<"mail_tls", h>>] # "unreachable"

\* The collectors whose total failure the code ascribes to a third party.
ThirdPartyCollectors == {"ct", "asn", "mail_tls"}

\* A collector nothing answered is asked again: it neither succeeds nor is it skipped.
SilenceIsRetried ==
    \A n \in DOMAIN outcome \ (ThirdPartyCollectors \cup SkippedIn(mode)) :
        {q \in Questions : q[1] = n \/ (n = "tls" /\ q[1] = "protocol")
                          \/ (n = "email" /\ q[1] = "dkim")} \subseteq lost
            => outcome[n] = "retry"
===============================================================================
