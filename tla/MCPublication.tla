---------------------------- MODULE MCPublication ----------------------------
(***************************************************************************)
(* One name that two organizations registered; a public and a private      *)
(* check.                                                                  *)
(***************************************************************************)
EXTENDS Publication

CONSTANTS d1, d2, name, dmarc, exposed

\* Neither organization is special.
MCSymmetry == Permutations({d1, d2})

MCNameOf == d1 :> name @@ d2 :> name
\* One run found the public check failing on an accepted host.
MCHostResults == {"fail"}
MCRunKinds ==
    {[state |-> "completed", sufficient |-> TRUE,
      results |-> dmarc :> "pass" @@ exposed :> "fail",
      hosts |-> dmarc :> MCHostResults @@ exposed :> {}],
     [state |-> "partially_completed", sufficient |-> FALSE,
      results |-> dmarc :> "unknown" @@ exposed :> "pass",
      hosts |-> dmarc :> {} @@ exposed :> {}],
     [state |-> "failed", sufficient |-> TRUE,
      results |-> dmarc :> "fail" @@ exposed :> "pass",
      hosts |-> dmarc :> {} @@ exposed :> {}]}
=============================================================================
