--------------------------- MODULE MCDomainControl ---------------------------
(***************************************************************************)
(* Two people at work on one domain.                                       *)
(***************************************************************************)
EXTENDS DomainControl

CONSTANTS q1, q2, c1, c2, c3

\* None of them is special.
MCSymmetry == Permutations({q1, q2}) \union Permutations({c1, c2, c3})
=============================================================================
