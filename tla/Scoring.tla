------------------------------- MODULE Scoring -------------------------------
(***************************************************************************)
(* The scoring engine of policy/scoring.py: from the evaluations of one    *)
(* subject to its score, its coverage and its band.  Scores are tenths of  *)
(* a point, factors are halves.  An evaluation is its result and whether   *)
(* its confidence is high.                                                 *)
(***************************************************************************)
EXTENDS Integers, FiniteSets, FiniteSetsExt, Functions

CONSTANTS
    Checks,        \* the checks of the catalog
    Pillars,       \* the pillars
    PillarOf,      \* PillarOf[c]: the pillar of c
    Weight,        \* Weight[c]: its weight
    PillarWeight,  \* PillarWeight[p]: the weight of p
    Bands,         \* the bands: name, minimum and maximum, in whole points
    Caps,          \* the caps: ceiling in whole points, and the checks that trigger it
    MinCoverage    \* the coverage, in per cent, below which there is no band

ASSUME CatalogAssumption ==
    /\ IsFiniteSet(Checks) /\ IsFiniteSet(Pillars)
    /\ PillarOf \in [Checks -> Pillars]
    /\ Weight \in [Checks -> Nat \ {0}]
    /\ PillarWeight \in [Pillars -> Nat \ {0}]
    /\ \A b \in Bands : b.minimum <= b.maximum
    /\ \A cap \in Caps : cap.ceiling \in Nat /\ cap.checks \subseteq Checks
    /\ MinCoverage \in 0..100

Results == {"pass", "warning", "fail", "unknown", "not_applicable"}

ScoreBearing == {"pass", "warning", "fail"}

CoverageReducing == {"unknown"}

NoScore == -1

\* round(x, 1) of num / den tenths: to the nearest, a tie to the even one.
RoundTenths(num, den) ==
    LET low == num \div den
        rest == 2 * (num % den)
    IN  IF rest < den \/ (rest = den /\ low % 2 = 0) THEN low ELSE low + 1

\* Mutant of Factor: pass and warning trade places.
FactorSwapped(result) ==
    CASE result = "pass" -> 1 [] result = "warning" -> 2 [] result = "fail" -> 0

Factor(result) ==
    CASE result = "pass" -> 2 [] result = "warning" -> 1 [] result = "fail" -> 0

WeightOf(checks) == SumFunctionOnSet(Weight, checks)

Scored(evaluations, p) ==
    {c \in Checks : PillarOf[c] = p /\ evaluations[c].result \in ScoreBearing}

Earned(evaluations, p) ==
    SumFunction([c \in Scored(evaluations, p) |-> Weight[c] * Factor(evaluations[c].result)])

PillarScore(evaluations, p) ==
    RoundTenths(1000 * Earned(evaluations, p), 2 * WeightOf(Scored(evaluations, p)))

\* Pillars without a scored check leave the mean.
Uncapped(evaluations) ==
    LET scored == {p \in Pillars : Scored(evaluations, p) # {}}
        total == SumFunction([p \in scored |-> PillarWeight[p] * PillarScore(evaluations, p)])
    IN  IF scored = {} THEN NoScore
        ELSE RoundTenths(total, SumFunctionOnSet(PillarWeight, scored))

Applicable(evaluations) == {c \in Checks : evaluations[c].result # "not_applicable"}

Completed(evaluations) ==
    {c \in Applicable(evaluations) : evaluations[c].result \notin CoverageReducing}

Coverage(evaluations) ==
    IF Applicable(evaluations) = {} THEN 0
    ELSE RoundTenths(1000 * WeightOf(Completed(evaluations)), WeightOf(Applicable(evaluations)))

Triggering(evaluations, cap) ==
    {c \in cap.checks : evaluations[c].result = "fail" /\ evaluations[c].high}

AppliedCaps(evaluations) == {cap \in Caps : Triggering(evaluations, cap) # {}}

Capped(uncapped, caps) == Min({uncapped} \cup {10 * cap.ceiling : cap \in caps})

Score(evaluations) ==
    LET uncapped == Uncapped(evaluations)
    IN  IF uncapped = NoScore THEN NoScore ELSE Capped(uncapped, AppliedCaps(evaluations))

\* band_for raises when no band holds the score.
BandsFor(score) == {b.name : b \in {x \in Bands : 10 * x.minimum <= score /\ score <= 10 * x.maximum}}

Sufficient(evaluations) == Coverage(evaluations) >= 10 * MinCoverage

\* The bands a snapshot may carry; none: compute_score raises.
SnapshotBands(evaluations) ==
    IF Score(evaluations) = NoScore \/ ~Sufficient(evaluations)
    THEN {"insufficient_coverage"}
    ELSE BandsFor(Score(evaluations))

=============================================================================
