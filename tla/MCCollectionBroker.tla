--------------------------- MODULE MCCollectionBroker ---------------------------
(***************************************************************************)
(* Two operations at once, one that fetches and one that inspects or       *)
(* probes, of a broker with a single permit.                               *)
(***************************************************************************)
EXTENDS CollectionBroker

\* org is what site sits under, sub what sits under site; api is a provider.
MCHosts == {"site", "sub", "org", "api"}
MCBelow == {<<"sub", "site">>, <<"site", "org">>, <<"sub", "org">>}

Request(class, canonical, host, scheme, key, probing) ==
    [class |-> class, canonical |-> canonical, host |-> host, scheme |-> scheme, key |-> key,
     probing |-> probing]

Fetches ==
    {Request("http_surface", "site", "site", s, FALSE, FALSE) : s \in {"http", "https"}}
      \cup {Request("rdap_query", "api", "api", "https", FALSE, FALSE),
            Request("reputation_query", "site", "api", "https", TRUE, FALSE),
            Request("https_verification", "site", "site", "https", FALSE, FALSE)}
Probes ==
    {Request(c, "site", "site", "https", FALSE, TRUE) : c \in {"tls_inspection", "port_probe"}}
      \cup {Request("smtp_starttls", "site", "org", "https", FALSE, FALSE)}

MCRequests == [o \in Ops |-> IF o = "fetch" THEN Fetches ELSE Probes]
===============================================================================
