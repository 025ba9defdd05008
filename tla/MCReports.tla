------------------------------ MODULE MCReports ------------------------------
(***************************************************************************)
(* Two checks of a domain with one accepted host; a link, asked for twice. *)
(***************************************************************************)
EXTENDS Reports

CONSTANTS primary, host, spf, hsts, above

\* hsts is a check of hosts, spf one of the zone.
MCRunKinds ==
    {\* all is well on the domain, and the accepted host fails
     [results |-> (<<spf, primary>> :> "pass" @@ <<hsts, primary>> :> "pass"
                     @@ <<hsts, host>> :> "fail" @@ <<spf, host>> :> "unasked"),
      absent |-> {}, rows |-> {<<hsts, primary>>, <<hsts, host>>}],
     \* one record is not there, and one could not be asked for
     [results |-> (<<spf, primary>> :> "fail" @@ <<hsts, primary>> :> "unknown"
                     @@ <<hsts, host>> :> "unasked" @@ <<spf, host>> :> "unasked"),
      absent |-> {<<spf, primary>>}, rows |-> {<<spf, primary>>}],
     \* nothing was observed at all
     [results |-> (<<spf, primary>> :> "withheld" @@ <<hsts, primary>> :> "unknown"
                     @@ <<hsts, host>> :> "unasked" @@ <<spf, host>> :> "unasked"),
      absent |-> {}, rows |-> {}]}
=============================================================================
