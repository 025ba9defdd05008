------------------------------ MODULE Collectors ------------------------------
(***************************************************************************)
(* What each collector of an assessment makes of the answers it was given. *)
(* A question is a pair <<collector, subject>>.  The answers `a` map every *)
(* question to <<>>, when nothing conclusive came back (a timeout, an      *)
(* error, or a refusal of the platform's own policy), or to <<value>>.     *)
(* The value of a DNS question is the set of its records, {} for a name    *)
(* that provably holds none.                                               *)
(***************************************************************************)
EXTENDS Integers, Sequences, FiniteSets, FiniteSetsExt

CONSTANTS
    Selectors,      \* the DKIM selectors the institution declared
    Protocols,      \* the TLS versions that are probed
    Deprecated,     \* those of them that are deprecated
    Ports,          \* the ports of the catalogue
    Exposure,       \* the exposure class of each port
    Providers,      \* the configured reputation providers
    MailHosts       \* the mail hosts it may publish

ASSUME CollectorsAssumption ==
    /\ IsFiniteSet(Selectors) /\ IsFiniteSet(Ports) /\ IsFiniteSet(Providers)
    /\ IsFiniteSet(Protocols) /\ Deprecated \subseteq Protocols
    /\ Exposure \in [Ports -> {"remote_access", "database", "management", "infrastructure"}]

SpfLookupLimit == 10

Answered(a, q) == a[q] # << >>
Value(a, q) == a[q][1]

\* The records of a DNS answer: none when the lookup was inconclusive.
Records(a, q) == IF Answered(a, q) THEN Value(a, q) ELSE {}

(***************************************************************************)
(* A collection result: a status, the reason of one that is not usable and *)
(* the payload of one that is.                                             *)
(***************************************************************************)
Result(status, reason, payload) ==
    [status |-> status, reason |-> reason, payload |-> payload]
Usable(r) == r.status \in {"ok", "partial"}

OkUnless(incomplete, payload) ==
    Result(IF incomplete THEN "partial" ELSE "ok", "", payload)
Unavailable(reason) == Result("unavailable", reason, << >>)
NotApplicable(reason) == Result("not_applicable", reason, << >>)

(***************************************************************************)
(* DNS.  A nameserver is a pair <<parent domain, label>>; a CAA record is  *)
(* "issue" or "unparsed".                                                  *)
(***************************************************************************)
DnsQuestions == {"dns"} \X {"soa", "ns", "a", "caa", "dnskey", "ds", "wildcard"}

NameserverDiversity(nameservers) ==
    [nameserver_count |-> Cardinality(nameservers),
     distinct_parent_count |-> Cardinality({n[1] : n \in nameservers})]

ParseCaa(records) == [present |-> "issue" \in records, unparsed |-> "unparsed" \in records]

DnssecState(a) ==
    LET dnskey == <<"dns", "dnskey">>
        ds == <<"dns", "ds">>
    IN  IF ~Answered(a, dnskey) \/ ~Answered(a, ds) THEN "unknown"
        ELSE IF Value(a, dnskey) = {} THEN "unsigned"
        ELSE IF Value(a, ds) = {} THEN "signed_without_delegation"
        ELSE "signed_and_delegated"

CollectDns(a) ==
    IF ~Answered(a, <<"dns", "soa">>) /\ ~Answered(a, <<"dns", "ns">>)
    THEN Unavailable("dns_unreachable")
    ELSE OkUnless(\E q \in DnsQuestions : ~Answered(a, q),
           [conclusive |-> {q[2] : q \in {p \in DnsQuestions : Answered(a, p)}},
            delegation |-> NameserverDiversity(Records(a, <<"dns", "ns">>)),
            \* None unless the lookup answered with records.
            caa |-> IF Records(a, <<"dns", "caa">>) = {} THEN {}
                    ELSE {ParseCaa(Records(a, <<"dns", "caa">>))},
            dnssec |-> DnssecState(a),
            addresses |-> Records(a, <<"dns", "a">>),
            resolves |-> Records(a, <<"dns", "wildcard">>) # {}])

(***************************************************************************)
(* E-mail.  An MX record is a mail host, or "" for a null MX; a policy     *)
(* record carries what the parsers read from it.                           *)
(***************************************************************************)
EmailNames == {"mx", "spf", "dmarc", "mta_sts", "tls_rpt"}
DkimQuestions == {"dkim"} \X Selectors
EmailLookups == ({"email"} \X EmailNames) \cup DkimQuestions
PolicyFile == <<"email", "mta_sts_policy">>

\* The only policy record, as a singleton; none when there is none or more than one.
SelectPolicyRecord(records) == IF Cardinality(records) = 1 THEN records ELSE {}

\* record.all is the qualifier of the `all` mechanism, "" when there is none.
ParseSpf(record) ==
    [valid |-> record.syntax,
     permissive_all |-> record.all \in {"+all", "all"},
     soft_all |-> record.all \in {"~all", "?all"},
     exceeds_lookup_limit |-> record.lookups > SpfLookupLimit]

ParseDmarc(record) ==
    [policy |-> record, valid |-> record \in {"none", "quarantine", "reject"}]

\* A policy file of an unknown mode or version is malformed, never absent.
ParseMtaStsPolicy(mode) ==
    [mode |-> mode, valid |-> mode \in {"none", "testing", "enforce"}]

\* The policy file is fetched only for a published record, and read only from a 200.
MtaStsSection(a) ==
    LET record == SelectPolicyRecord(Records(a, <<"email", "mta_sts">>))
    IN  [record_present |-> record # {},
         conclusive |-> Answered(a, <<"email", "mta_sts">>),
         policy |-> IF \/ record = {}
                       \/ ~Answered(a, PolicyFile)
                       \/ Value(a, PolicyFile) = "http_404"
                    THEN {} ELSE {ParseMtaStsPolicy(Value(a, PolicyFile))}]

TlsRptSection(a) ==
    LET record == SelectPolicyRecord(Records(a, <<"email", "tls_rpt">>))
    IN  [present |-> record # {}, valid |-> record = {"destination"},
         conclusive |-> Answered(a, <<"email", "tls_rpt">>)]

DkimSection(a) ==
    {[selector |-> s, present |-> SelectPolicyRecord(Records(a, <<"dkim", s>>)) # {},
      conclusive |-> Answered(a, <<"dkim", s>>)] : s \in Selectors}

CollectEmail(a) ==
    IF ~Answered(a, <<"email", "spf">>) /\ ~Answered(a, <<"email", "dmarc">>)
    THEN Unavailable("dns_unreachable")
    ELSE OkUnless(\E q \in EmailLookups : ~Answered(a, q),
           [mx_present |-> Records(a, <<"email", "mx">>) # {},
            mail_hosts |-> Records(a, <<"email", "mx">>) \ {""},
            spf |-> [conclusive |-> Answered(a, <<"email", "spf">>),
                     multiple |-> Cardinality(Records(a, <<"email", "spf">>)) > 1,
                     parsed |-> {ParseSpf(r) :
                         r \in SelectPolicyRecord(Records(a, <<"email", "spf">>))}],
            dmarc |-> [conclusive |-> Answered(a, <<"email", "dmarc">>),
                       parsed |-> {ParseDmarc(r) :
                           r \in SelectPolicyRecord(Records(a, <<"email", "dmarc">>))}],
            mta_sts |-> MtaStsSection(a),
            tls_rpt |-> TlsRptSection(a),
            dkim |-> DkimSection(a)])

(***************************************************************************)
(* TLS.  The handshake answers with a status and the leaf certificates     *)
(* that parsed; a protocol probe with whether the version is supported.    *)
(***************************************************************************)
Handshake == <<"tls", "handshake">>
ProtocolProbing == <<"tls", "probes">>  \* unanswered when the probes are refused as a whole
ProbeQuestions == {"protocol"} \X Protocols

\* Without an answer the handshake timed out, and no probe is worth its own verdict.
CollectTls(a, probe_protocols) ==
    IF ~Answered(a, Handshake) THEN Unavailable("timeout")
    ELSE IF Value(a, Handshake).status = "error" THEN Result("error", "tls_error", << >>)
    ELSE LET supported == {v \in Protocols : /\ Answered(a, <<"protocol", v>>)
                                             /\ Value(a, <<"protocol", v>>)}
         IN  OkUnless(\/ Value(a, Handshake).leaf = {}
                      \/ Value(a, Handshake).status = "handshake_failed",
               [leaf |-> Value(a, Handshake).leaf,
                attempted |-> probe_protocols,
                probed |-> IF probe_protocols /\ Answered(a, ProtocolProbing)
                           THEN Protocols ELSE {},
                deprecated_supported |->
                    IF probe_protocols THEN supported \cap Deprecated ELSE {}])

(***************************************************************************)
(* HTTP: one fetch in plaintext, one over HTTPS.                           *)
(***************************************************************************)
Plaintext == <<"http", "plaintext">>
Secure == <<"http", "secure">>

CollectHttp(a) ==
    IF ~Answered(a, Secure) /\ ~Answered(a, Plaintext) THEN Unavailable("site_unreachable")
    ELSE OkUnless(~Answered(a, Secure) \/ ~Answered(a, Plaintext),
           [https_reachable |-> Answered(a, Secure),
            http_reachable |-> Answered(a, Plaintext),
            redirects |-> Answered(a, Plaintext) /\ Value(a, Plaintext) = "redirects_to_https",
            page |-> IF Answered(a, Secure) THEN {Value(a, Secure)} ELSE {}])

(***************************************************************************)
(* Registries.  RDAP answers with the days left, {} for an answer without  *)
(* an expiry, or a failure; the certificate index with a set of names.     *)
(***************************************************************************)
Rdap == <<"rdap", "domain">>
CtIndex == <<"ct", "index">>

CollectRdap(a) ==
    IF ~Answered(a, Rdap) THEN Unavailable("timeout")
    ELSE CASE Value(a, Rdap).status = 404 -> NotApplicable("domain_not_in_registry")
           [] Value(a, Rdap).status = 500 -> Unavailable("http_status_500")
           [] Value(a, Rdap).status = 200 ->
                OkUnless(Value(a, Rdap).expiration = {}, Value(a, Rdap))

\* An index that does not answer is an empty list to its caller.
CollectCt(a) ==
    LET entries == Records(a, CtIndex)
    IN  IF entries = {} THEN NotApplicable("no_ct_entries")
        ELSE OkUnless(FALSE, [candidates |-> entries])

(***************************************************************************)
(* Ports: the state of each that was probed, "error" without an answer.    *)
(***************************************************************************)
PortState(a, p) == IF Answered(a, <<"ports", p>>) THEN Value(a, <<"ports", p>>) ELSE "error"

CollectPorts(a) ==
    IF \A p \in Ports : PortState(a, p) = "error" THEN Unavailable("probe_refused")
    ELSE OkUnless(FALSE,
           [open |-> {p \in Ports : PortState(a, p) = "open"}])

(***************************************************************************)
(* The collectors that read another's evidence: the networks of the        *)
(* observed addresses and the transport of the observed mail hosts.        *)
(***************************************************************************)
ObservedAddresses(dns) == IF Usable(dns) THEN dns.payload.addresses ELSE {}
ObservedMailHosts(email) == IF Usable(email) THEN email.payload.mail_hosts ELSE {}

CollectAsn(a, addresses) ==
    LET resolved == {d \in addresses : Records(a, <<"asn", d>>) # {}}
    IN  IF addresses = {} THEN NotApplicable("no_addresses_observed")
        ELSE IF resolved = {} THEN NotApplicable("attribution_unavailable")
        ELSE OkUnless(FALSE, [operators |-> UNION {Records(a, <<"asn", d>>) : d \in resolved}])

MailState(a, h) ==
    IF Answered(a, <<"mail_tls", h>>) THEN Value(a, <<"mail_tls", h>>) ELSE "unreachable"

CollectMailTransport(a, hosts) ==
    LET reachable == {h \in hosts : MailState(a, h) # "unreachable"}
        offering == {h \in reachable : MailState(a, h) = "offered"}
    IN  IF hosts = {} THEN NotApplicable("no_mail_hosts")
        ELSE IF reachable = {} THEN NotApplicable("mail_hosts_unreachable")
        ELSE OkUnless(FALSE, [starttls_everywhere |-> offering = reachable])

(***************************************************************************)
(* Reputation: every provider is asked, and one that fails is unavailable. *)
(***************************************************************************)
\* Mutant of CombineVerdicts: a disagreement between the providers is settled.
CombineByAgreement(a) ==
    LET answered == {p \in Providers : Answered(a, <<"reputation", p>>)}
        listing == {p \in answered : Value(a, <<"reputation", p>>) = "listed"}
    IN  [listed |-> listing # {} /\ listing = answered,
         contested |-> FALSE,
         answered |-> answered]

CombineVerdicts(a) ==
    LET answered == {p \in Providers : Answered(a, <<"reputation", p>>)}
        listing == {p \in answered : Value(a, <<"reputation", p>>) = "listed"}
    IN  [listed |-> listing # {},
         contested |-> listing # {} /\ listing # answered,
         answered |-> answered]

CollectReputation(a) ==
    LET summary == CombineVerdicts(a)
    IN  IF Providers = {} THEN Unavailable("reputation_provider_unconfigured")
        ELSE IF summary.answered = {} THEN Unavailable("reputation_providers_unreachable")
        ELSE OkUnless(summary.answered # Providers, summary)
===============================================================================
