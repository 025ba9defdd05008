----------------------------- MODULE PolicyProofs -----------------------------
(***************************************************************************)
(* What the policy makes of an assessment: the findings of any number of   *)
(* domains, checks and runs (Findings), their scores for any weights       *)
(* (Scoring), and the verdicts of the catalogue over any answers of the    *)
(* network (Evidence).                                                     *)
(***************************************************************************)
EXTENDS Findings, Evidence, FiniteSetTheorems, WellFoundedInduction, TLAPS

(***************************************************************************)
(* Findings.  While the runs of a domain follow one another, what a run    *)
(* has loaded is still so when it writes, and the newest run is the one    *)
(* that wrote last.                                                        *)
(***************************************************************************)
RunRow ==
    [pc : {"new", "derived", "loaded", "stored", "failed"},
     evidence : (UNION {Evidence[d] : d \in Domains}) \cup {<< >>},
     previous : [Fingerprints -> FindingStates] \cup {<< >>}]

RowsInv ==
    /\ findings \in [Fingerprints -> FindingStates]
    /\ history \in [Fingerprints -> Seq(FindingStates \X FindingStates)]
    /\ run \in [Runs -> RunRow]
    /\ latest \in [Domains -> 0..Len(Aim)]
    /\ overlapped \subseteq Domains
    /\ \A r \in Runs :
          run[r].pc \in {"derived", "loaded", "stored"} => run[r].evidence \in Evidence[Aim[r]]

\* The runs of a domain start in the order they were created in, and a domain
\* of which two were never in flight has nothing under way after another run.
TurnInv ==
    /\ \A r, q \in Runs :
          Aim[q] = Aim[r] /\ q < r /\ run[q].pc = "new" => run[r].pc = "new"
    /\ \A r, q \in Runs :
          Aim[q] = Aim[r] /\ r < q /\ InFlight(r) /\ Aim[r] \notin overlapped =>
              run[q].pc = "new"

\* What a run has loaded.
LoadedInv(r) ==
    run[r].pc = "loaded" =>
        /\ run[r].previous \in [Fingerprints -> FindingStates]
        /\ \A f \in Fingerprints :
              /\ f[1] # Aim[r] => run[r].previous[f] = "absent"
              /\ f[1] = Aim[r] /\ f[1] \notin overlapped => run[r].previous[f] = findings[f]

\* The newest run of a domain, and what it has left of the findings.
NewestInv(d) ==
    IF latest[d] = 0
    THEN \A f \in Fingerprints : f[1] = d => findings[f] = "absent"
    ELSE /\ Aim[latest[d]] = d /\ run[latest[d]].pc = "stored"
         /\ \A f \in Fingerprints : f[1] = d => (findings[f] \in Listed <=> f \in Derived(latest[d]))

\* The history of one finding in the state s.
Line(moves, s) ==
    /\ IF moves = << >> THEN s = "absent"
       ELSE moves[1][1] = "absent" /\ moves[Len(moves)][2] = s
    /\ \A i \in 1..Len(moves) : i # 1 => moves[i][1] = moves[i - 1][2]
    /\ s \in {"absent", "open"} => \A i \in 1..Len(moves) : moves[i][2] # "resolved"

FindingsInv ==
    /\ RowsInv
    /\ TurnInv
    /\ \A r \in Runs : LoadedInv(r)
    /\ \A d \in Domains \ overlapped : NewestInv(d)
    /\ \A f \in Fingerprints : f[1] \notin overlapped => Line(history[f], findings[f])

(***************************************************************************)
(* The operators.                                                          *)
(***************************************************************************)
LEMMA RunsAreNumbers == Runs = 1..Len(Aim) /\ Len(Aim) \in Nat /\ \A r \in Runs : Aim[r] \in Domains
<1>1. Aim \in Seq(Domains)
    BY FindingsAssumption
<1> QED
    BY <1>1 DEF Runs

LEMMA FoundIs ==
    ASSUME NEW old \in FindingStates
    PROVE  /\ Found(old) \in Listed
           /\ old = "absent" => Found(old) = "open"
           /\ Found(old) = "open" => old \in {"absent", "open"}
<1>1. CASE old = "absent"
    BY <1>1 DEF Found, Listed
<1>2. CASE old = "resolved"
    BY <1>2 DEF Found, Listed
<1>3. CASE old \in Listed
    <2>1. old # "absent" /\ old # "resolved"
        BY <1>3 DEF Listed
    <2>2. Found(old) = old
        BY <1>3, <2>1 DEF Found
    <2> QED
        BY <1>3, <2>1, <2>2 DEF Listed
<1> QED
    BY <1>1, <1>2, <1>3 DEF FindingStates, Listed

LEMMA VanishedIs ==
    ASSUME NEW old \in FindingStates
    PROVE  /\ Vanished(old) \in {"absent", "resolved"}
           /\ Vanished(old) = "absent" <=> old = "absent"
BY DEF Vanished

LEMMA NewestOfTwo ==
    ASSUME NEW a \in Nat, NEW b \in Nat, a <= b
    PROVE  Max({a, b}) = b
<1>1. \E x \in {a, b} : \A y \in {a, b} : x >= y
    OBVIOUS
<1>2. Max({a, b}) \in {a, b} /\ \A y \in {a, b} : Max({a, b}) >= y
    BY <1>1 DEF Max
<1> QED
    BY <1>2

\* A move that starts where the line ends prolongs it.
LEMMA LineGoesOn ==
    ASSUME NEW moves \in Seq(FindingStates \X FindingStates), NEW s \in FindingStates,
           NEW t \in FindingStates \ {"absent"}, Line(moves, s),
           t = "open" => s \in {"absent", "open"}
    PROVE  Line(Append(moves, << s, t >>), t)
<1> DEFINE longer == Append(moves, << s, t >>)
           n == Len(moves)
<1>1. n \in Nat /\ Len(longer) = n + 1 /\ longer[n + 1] = << s, t >>
    OBVIOUS
<1>2. \A i \in 1..n : longer[i] = moves[i]
    OBVIOUS
<1>3. longer # << >> /\ (moves = << >> <=> n = 0)
    BY <1>1
<1> HIDE DEF longer
<1>4. longer[1][1] = "absent"
    <2>1. CASE moves = << >>
        <3>1. s = "absent" /\ n = 0
            BY <1>3, <2>1 DEF Line
        <3> QED
            BY <1>1, <3>1
    <2>2. CASE moves # << >>
        <3>1. moves[1][1] = "absent" /\ 1 \in 1..n
            BY <1>1, <1>3, <2>2 DEF Line
        <3> QED
            BY <1>2, <3>1
    <2> QED
        BY <2>1, <2>2
<1>5. \A i \in 1..(n + 1) : i # 1 => longer[i][1] = longer[i - 1][2]
    <2> SUFFICES ASSUME NEW i \in 1..(n + 1), i # 1 PROVE longer[i][1] = longer[i - 1][2]
        OBVIOUS
    <2>1. CASE i = n + 1
        <3>1. moves # << >> /\ n \in 1..n /\ i - 1 = n
            BY <1>1, <1>3, <2>1
        <3>2. moves[n][2] = s
            BY <3>1 DEF Line
        <3>3. longer[i] = << s, t >> /\ longer[i - 1] = moves[n]
            BY <1>1, <1>2, <2>1, <3>1
        <3> QED
            BY <3>2, <3>3
    <2>2. CASE i # n + 1
        <3>1. i \in 1..n /\ i - 1 \in 1..n
            BY <1>1, <2>2
        <3>2. moves[i][1] = moves[i - 1][2]
            BY <3>1 DEF Line
        <3> QED
            BY <1>2, <3>1, <3>2
    <2> QED
        BY <2>1, <2>2
<1>6. t \in {"absent", "open"} => \A i \in 1..(n + 1) : longer[i][2] # "resolved"
    <2> SUFFICES ASSUME t = "open", NEW i \in 1..(n + 1) PROVE longer[i][2] # "resolved"
        OBVIOUS
    <2>1. CASE i = n + 1
        BY <1>1, <2>1
    <2>2. CASE i # n + 1
        <3>1. i \in 1..n
            BY <1>1, <2>2
        <3>2. moves[i][2] # "resolved"
            BY <3>1 DEF Line
        <3> QED
            BY <1>2, <3>1, <3>2
    <2> QED
        BY <2>1, <2>2
<1>7. longer[Len(longer)][2] = t
    BY <1>1
<1> QED
    BY <1>1, <1>3, <1>4, <1>5, <1>6, <1>7 DEF Line

(***************************************************************************)
(* The steps.                                                              *)
(***************************************************************************)
LEMMA InitFindings == Init => FindingsInv
<1> SUFFICES ASSUME Init PROVE FindingsInv
    OBVIOUS
<1>1. /\ \A r \in Runs : run[r].pc = "new"
      /\ \A d \in Domains : latest[d] = 0
      /\ \A f \in Fingerprints : findings[f] = "absent" /\ history[f] = << >>
    BY DEF Init
<1>2. RowsInv
    <2>1. findings \in [Fingerprints -> FindingStates]
        BY DEF Init, FindingStates
    <2>2. history \in [Fingerprints -> Seq(FindingStates \X FindingStates)]
        BY DEF Init
    <2>3. run \in [Runs -> RunRow]
        BY DEF Init, RunRow
    <2>4. latest \in [Domains -> 0..Len(Aim)] /\ overlapped \subseteq Domains
        BY RunsAreNumbers DEF Init
    <2> QED
        BY <1>1, <2>1, <2>2, <2>3, <2>4 DEF RowsInv
<1>3. TurnInv
    BY <1>1 DEF TurnInv, InFlight
<1>4. \A r \in Runs : LoadedInv(r)
    BY <1>1 DEF LoadedInv
<1>5. \A d \in Domains : NewestInv(d)
    BY <1>1 DEF NewestInv
<1>6. Line(<< >>, "absent")
    BY DEF Line
<1> QED
    BY <1>1, <1>2, <1>3, <1>4, <1>5, <1>6 DEF FindingsInv

\* What a run leaves of the findings of a domain it did not write to.
LEMMA NewestStays ==
    ASSUME FindingsInv, NEW d \in Domains \ overlapped, NEW r \in Runs, run[r].pc # "stored",
           \A q \in Runs \ {r} : run'[q] = run[q],
           latest'[d] = latest[d],
           \A f \in Fingerprints : f[1] = d => findings'[f] = findings[f]
    PROVE  NewestInv(d)'
<1>1. NewestInv(d)
    BY DEF FindingsInv
<1>2. CASE latest[d] = 0
    BY <1>1, <1>2 DEF NewestInv
<1>3. CASE latest[d] # 0
    <2>1. latest[d] \in Runs
        BY <1>3, RunsAreNumbers DEF FindingsInv, RowsInv
    <2>2. run[latest[d]].pc = "stored"
        BY <1>1, <1>3 DEF NewestInv
    <2>3. run'[latest[d]] = run[latest[d]]
        BY <2>1, <2>2
    <2>4. Derived(latest[d])' = Derived(latest[d])
        BY <2>3 DEF Derived
    <2> QED
        BY <1>1, <1>3, <2>3, <2>4 DEF NewestInv
<1> QED
    BY <1>2, <1>3

\* The rows of the runs other than one.
LEMMA OneRunMoves ==
    ASSUME FindingsInv, NEW r \in Runs, NEW row, run' = [run EXCEPT ![r] = row]
    PROVE  \A q \in Runs : run'[q] = IF q = r THEN row ELSE run[q]
BY DEF FindingsInv, RowsInv

\* What stays of the loaded findings when no finding is written.
LEMMA LoadedStays ==
    ASSUME NEW q \in Runs, LoadedInv(q), run'[q] = run[q], UNCHANGED findings,
           overlapped \subseteq overlapped'
    PROVE  LoadedInv(q)'
BY DEF LoadedInv

LEMMA DeriveFindings ==
    ASSUME FindingsInv, NEW r \in Runs, Derive(r)
    PROVE  FindingsInv'
<1>1. PICK evidence \in Evidence[Aim[r]], pc \in {"failed", "derived"} :
          run' = [run EXCEPT ![r].pc = pc, ![r].evidence = evidence]
    BY DEF Derive
<1> DEFINE row == [run[r] EXCEPT !.pc = pc, !.evidence = evidence]
<1>2. /\ run \in [Runs -> RunRow] /\ run[r] \in RunRow /\ run[r].pc = "new"
      /\ UNCHANGED << findings, history, latest >>
      /\ overlapped \subseteq overlapped'
      /\ overlapped' \subseteq Domains
    <2>1. overlapped' \subseteq overlapped \cup {Aim[r]} /\ overlapped \subseteq overlapped'
        BY DEF Derive
    <2> QED
        BY <2>1, RunsAreNumbers DEF Derive, FindingsInv, RowsInv
<1>3. run' = [run EXCEPT ![r] = row]
    BY <1>1, <1>2
<1>4. row \in RunRow /\ row.pc = pc /\ row.evidence = evidence
    <2>1. evidence \in UNION {Evidence[d] : d \in Domains}
        BY RunsAreNumbers
    <2> QED
        BY <1>2, <2>1 DEF RunRow
<1> HIDE DEF row
<1>5. \A q \in Runs : run'[q] = IF q = r THEN row ELSE run[q]
    BY <1>3, OneRunMoves
<1>6. RowsInv'
    <2>1. run' \in [Runs -> RunRow]
        BY <1>2, <1>3, <1>4
    <2>2. \A q \in Runs : run'[q].pc \in {"derived", "loaded", "stored"} =>
                              run'[q].evidence \in Evidence[Aim[q]]
        BY <1>4, <1>5 DEF FindingsInv, RowsInv
    <2> QED
        BY <1>2, <2>1, <2>2 DEF FindingsInv, RowsInv
<1>7. TurnInv'
    <2>1. \A q \in Runs : Aim[q] = Aim[r] /\ q < r => run[q].pc # "new"
        BY DEF Derive
    <2>2. \A q, p \in Runs :
             Aim[p] = Aim[q] /\ p < q /\ run'[p].pc = "new" => run'[q].pc = "new"
        BY <1>4, <1>5, <2>1 DEF FindingsInv, TurnInv
    <2>3. ASSUME NEW q \in Runs, NEW p \in Runs, Aim[p] = Aim[q], q < p, InFlight(q)',
                 Aim[q] \notin overlapped'
          PROVE  run'[p].pc = "new"
        <3>1. CASE q = r
            <4>1. run[p].pc = "new" /\ p # r
                BY <1>2, <2>3, <3>1, RunsAreNumbers DEF FindingsInv, TurnInv
            <4> QED
                BY <1>5, <4>1
        <3>2. CASE q # r
            <4>1. InFlight(q)
                BY <1>5, <2>3, <3>2 DEF InFlight
            <4>2. Aim[r] # Aim[q]
                BY <2>3, <4>1 DEF Derive
            <4>3. run[p].pc = "new"
                BY <1>2, <2>3, <4>1 DEF FindingsInv, TurnInv
            <4>4. p # r
                BY <2>3, <4>2
            <4> QED
                BY <1>5, <4>3, <4>4
        <3> QED
            BY <3>1, <3>2
    <2> QED
        BY <2>2, <2>3 DEF TurnInv
<1>8. \A q \in Runs : LoadedInv(q)'
    <2> TAKE q \in Runs
    <2>1. CASE q = r
        BY <1>4, <1>5, <2>1 DEF LoadedInv
    <2>2. CASE q # r
        BY <1>2, <1>5, <2>2, LoadedStays DEF FindingsInv
    <2> QED
        BY <2>1, <2>2
<1>9. \A d \in Domains \ overlapped' : NewestInv(d)'
    <2> TAKE d \in Domains \ overlapped'
    <2>1. d \in Domains \ overlapped
        BY <1>2
    <2>2. \A q \in Runs \ {r} : run'[q] = run[q]
        BY <1>5
    <2> QED
        BY <1>2, <2>1, <2>2, NewestStays
<1>10. \A f \in Fingerprints : f[1] \notin overlapped' => Line(history'[f], findings'[f])
    BY <1>2 DEF FindingsInv
<1> QED
    BY <1>6, <1>7, <1>8, <1>9, <1>10 DEF FindingsInv

\* A run that goes on or ends without writing.
LEMMA MovesQuietly ==
    ASSUME FindingsInv, NEW r \in Runs, InFlight(r), NEW row \in RunRow,
           run' = [run EXCEPT ![r] = row], row.pc \in {"derived", "loaded", "failed"},
           row.pc \in {"derived", "loaded"} => row.evidence = run[r].evidence,
           row.pc = "loaded" => row.previous = Loaded(r),
           UNCHANGED << findings, history, latest, overlapped >>
    PROVE  FindingsInv'
<1>1. \A q \in Runs : run'[q] = IF q = r THEN row ELSE run[q]
    BY OneRunMoves
<1>2. RowsInv'
    <2>1. run' \in [Runs -> RunRow]
        BY DEF FindingsInv, RowsInv
    <2>2. \A q \in Runs : run'[q].pc \in {"derived", "loaded", "stored"} =>
                              run'[q].evidence \in Evidence[Aim[q]]
        BY <1>1 DEF FindingsInv, RowsInv, InFlight
    <2> QED
        BY <2>1, <2>2 DEF FindingsInv, RowsInv
<1>3. TurnInv'
    <2>1. \A q, p \in Runs :
             Aim[p] = Aim[q] /\ p < q /\ run'[p].pc = "new" => run'[q].pc = "new"
        BY <1>1 DEF FindingsInv, TurnInv, InFlight
    <2>2. ASSUME NEW q \in Runs, NEW p \in Runs, Aim[p] = Aim[q], q < p, InFlight(q)',
                 Aim[q] \notin overlapped'
          PROVE  run'[p].pc = "new"
        <3>1. InFlight(q)
            BY <1>1, <2>2 DEF InFlight
        <3>2. run[p].pc = "new"
            BY <2>2, <3>1 DEF FindingsInv, TurnInv
        <3>3. p # r
            BY <3>2 DEF InFlight
        <3> QED
            BY <1>1, <3>2, <3>3
    <2> QED
        BY <2>1, <2>2 DEF TurnInv
<1>4. \A q \in Runs : LoadedInv(q)'
    <2> TAKE q \in Runs
    <2>1. CASE q = r
        <3>1. Loaded(r) \in [Fingerprints -> FindingStates]
            BY DEF Loaded, FindingsInv, RowsInv, FindingStates
        <3>2. \A f \in Fingerprints : Loaded(r)[f] = IF f[1] = Aim[r] THEN findings[f] ELSE "absent"
            BY DEF Loaded
        <3> QED
            BY <1>1, <2>1, <3>1, <3>2 DEF LoadedInv
    <2>2. CASE q # r
        BY <1>1, <2>2, LoadedStays DEF FindingsInv
    <2> QED
        BY <2>1, <2>2
<1>5. \A d \in Domains \ overlapped' : NewestInv(d)'
    <2> TAKE d \in Domains \ overlapped'
    <2>1. \A q \in Runs \ {r} : run'[q] = run[q]
        BY <1>1
    <2> QED
        BY <2>1, NewestStays DEF InFlight
<1>6. \A f \in Fingerprints : f[1] \notin overlapped' => Line(history'[f], findings'[f])
    BY DEF FindingsInv
<1> QED
    BY <1>2, <1>3, <1>4, <1>5, <1>6 DEF FindingsInv

LEMMA LoadFindings ==
    ASSUME FindingsInv, NEW r \in Runs, Load(r)
    PROVE  FindingsInv'
<1> DEFINE row == [run[r] EXCEPT !.pc = "loaded", !.previous = Loaded(r)]
<1>1. /\ run \in [Runs -> RunRow] /\ run[r] \in RunRow /\ InFlight(r)
      /\ UNCHANGED << findings, history, latest, overlapped >>
    BY DEF Load, FindingsInv, RowsInv, InFlight
<1>2. run' = [run EXCEPT ![r] = row]
    BY <1>1 DEF Load
<1>3. Loaded(r) \in [Fingerprints -> FindingStates]
    BY DEF Loaded, FindingsInv, RowsInv, FindingStates
<1>4. /\ row \in RunRow /\ row.pc = "loaded" /\ row.evidence = run[r].evidence
      /\ row.previous = Loaded(r)
    BY <1>1, <1>3 DEF RunRow
<1> HIDE DEF row
<1> QED
    BY <1>1, <1>2, <1>4, MovesQuietly

LEMMA FailFindings ==
    ASSUME FindingsInv, NEW r \in Runs, Fail(r)
    PROVE  FindingsInv'
<1> DEFINE row == [pc |-> "failed", evidence |-> << >>, previous |-> << >>]
<1>1. row \in RunRow /\ row.pc = "failed"
    BY DEF RunRow
<1>2. run' = [run EXCEPT ![r] = row] /\ InFlight(r)
      /\ UNCHANGED << findings, history, latest, overlapped >>
    BY DEF Fail
<1> HIDE DEF row
<1> QED
    BY <1>1, <1>2, MovesQuietly

(***************************************************************************)
(* The write of a run.                                                     *)
(***************************************************************************)
\* What becomes of each finding, by what was loaded of it.
LEMMA MergedIs ==
    ASSUME FindingsInv, NEW r \in Runs, run[r].pc = "loaded", NEW f \in Fingerprints
    PROVE  /\ run[r].previous[f] \in FindingStates
           /\ Merged(r)[f] = IF f \in Derived(r) THEN Found(run[r].previous[f])
                             ELSE Vanished(run[r].previous[f])
           /\ Merged(r)[f] \in FindingStates
           /\ Merged(r)[f] \in Listed <=> f \in Derived(r)
           /\ Merged(r)[f] = "absent" => run[r].previous[f] = "absent"
           /\ Merged(r)[f] = "open" => run[r].previous[f] \in {"absent", "open"}
<1>1. run[r].previous[f] \in FindingStates
    BY DEF FindingsInv, LoadedInv
<1>2. Merged(r)[f] = IF f \in Derived(r) THEN Found(run[r].previous[f])
                     ELSE Vanished(run[r].previous[f])
    BY DEF Merged
<1>3. CASE f \in Derived(r)
    <2>1. Merged(r)[f] = Found(run[r].previous[f])
        BY <1>2, <1>3
    <2> QED
        BY <1>1, <1>2, <1>3, <2>1, FoundIs DEF Listed, FindingStates
<1>4. CASE f \notin Derived(r)
    <2>1. Merged(r)[f] = Vanished(run[r].previous[f])
        BY <1>2, <1>4
    <2> QED
        BY <1>1, <1>2, <1>4, <2>1, VanishedIs DEF Listed, FindingStates
<1> QED
    BY <1>3, <1>4

\* A run finds nothing on another domain, and has loaded nothing of it.
LEMMA OwnFindingsOnly ==
    ASSUME FindingsInv, NEW r \in Runs, run[r].pc = "loaded", NEW f \in Fingerprints,
           f[1] # Aim[r]
    PROVE  run[r].previous[f] = "absent" /\ Merged(r)[f] = "absent"
<1>1. run[r].previous[f] = "absent"
    BY DEF FindingsInv, LoadedInv
<1>2. f \notin Derived(r)
    BY DEF Derived
<1>3. "absent" \in FindingStates
    BY DEF FindingStates
<1> QED
    BY <1>1, <1>2, <1>3, MergedIs, VanishedIs

\* What a write leaves of each finding and of its history.
LEMMA CommitWrites ==
    ASSUME FindingsInv, NEW r \in Runs, Commit(r), NEW f \in Fingerprints
    PROVE  /\ f[1] # Aim[r] => findings'[f] = findings[f] /\ history'[f] = history[f]
           /\ f[1] = Aim[r] /\ f[1] \notin overlapped =>
                  /\ findings'[f] = Merged(r)[f]
                  /\ history'[f] = IF Merged(r)[f] # findings[f]
                                   THEN Append(history[f], << findings[f], Merged(r)[f] >>)
                                   ELSE history[f]
<1>1. run[r].pc = "loaded"
    BY DEF Commit
<1>2. findings'[f] = IF Merged(r)[f] = "absent" THEN findings[f] ELSE Merged(r)[f]
    BY DEF Commit
<1>3. history'[f] = IF Merged(r)[f] # run[r].previous[f]
                    THEN Append(history[f], << run[r].previous[f], Merged(r)[f] >>)
                    ELSE history[f]
    BY DEF Commit, Moves
<1>4. CASE f[1] # Aim[r]
    BY <1>1, <1>2, <1>3, <1>4, OwnFindingsOnly
<1>5. CASE f[1] = Aim[r] /\ f[1] \notin overlapped
    <2>1. run[r].previous[f] = findings[f]
        BY <1>1, <1>5 DEF FindingsInv, LoadedInv
    <2>2. Merged(r)[f] = "absent" => findings[f] = "absent"
        BY <1>1, <2>1, MergedIs
    <2> QED
        BY <1>2, <1>3, <1>5, <2>1, <2>2
<1> QED
    BY <1>4, <1>5

LEMMA CommitRows ==
    ASSUME FindingsInv, NEW r \in Runs, Commit(r)
    PROVE  /\ RowsInv'
           /\ \A q \in Runs \ {r} : run'[q] = run[q]
           /\ run'[r].pc = "stored" /\ run'[r].evidence = run[r].evidence
           /\ overlapped' = overlapped
           /\ \A d \in Domains : latest'[d] = IF d = Aim[r] THEN Max({latest[d], r}) ELSE latest[d]
<1> DEFINE row == [run[r] EXCEPT !.pc = "stored", !.previous = << >>]
<1>1. run[r] \in RunRow /\ run[r].pc = "loaded" /\ overlapped' = overlapped
    BY DEF Commit, FindingsInv, RowsInv
<1>2. run' = [run EXCEPT ![r] = row]
    BY <1>1 DEF Commit, FindingsInv, RowsInv
<1>3. row \in RunRow /\ row.pc = "stored" /\ row.evidence = run[r].evidence
    BY <1>1 DEF RunRow
<1> HIDE DEF row
<1>4. \A q \in Runs : run'[q] = IF q = r THEN row ELSE run[q]
    BY <1>2, OneRunMoves
<1>5. \A d \in Domains : latest'[d] = IF d = Aim[r] THEN Max({latest[d], r}) ELSE latest[d]
    BY DEF Commit, FindingsInv, RowsInv
<1>6. findings' \in [Fingerprints -> FindingStates]
    <2>1. \A f \in Fingerprints : Merged(r)[f] \in FindingStates
        BY <1>1, MergedIs
    <2> QED
        BY <2>1 DEF Commit, FindingsInv, RowsInv
<1>7. history' \in [Fingerprints -> Seq(FindingStates \X FindingStates)]
    <2>1. \A f \in Fingerprints :
             run[r].previous[f] \in FindingStates /\ Merged(r)[f] \in FindingStates
        BY <1>1, MergedIs
    <2>2. \A f \in Fingerprints : history[f] \in Seq(FindingStates \X FindingStates)
        BY DEF FindingsInv, RowsInv
    <2>3. \A f \in Fingerprints :
             Append(history[f], << run[r].previous[f], Merged(r)[f] >>)
                 \in Seq(FindingStates \X FindingStates)
        <3> TAKE f \in Fingerprints
        <3>1. << run[r].previous[f], Merged(r)[f] >> \in FindingStates \X FindingStates
            BY <2>1
        <3> HIDE DEF Merged
        <3> QED
            BY <2>2, <3>1
    <2> QED
        BY <2>2, <2>3 DEF Commit
<1>8. latest' \in [Domains -> 0..Len(Aim)]
    <2>1. \A a, b \in 0..Len(Aim) : Max({a, b}) \in 0..Len(Aim)
        <3> TAKE a, b \in 0..Len(Aim)
        <3>1. {a, b} = {b, a} /\ a \in Nat /\ b \in Nat
            BY RunsAreNumbers
        <3>2. CASE a <= b
            BY <3>1, <3>2, NewestOfTwo
        <3>3. CASE b <= a
            BY <3>1, <3>3, NewestOfTwo
        <3> QED
            BY <3>1, <3>2, <3>3
    <2>2. \A d \in Domains : latest[d] \in 0..Len(Aim)
        BY DEF FindingsInv, RowsInv
    <2>3. r \in 0..Len(Aim)
        BY RunsAreNumbers
    <2>4. \A d \in Domains : latest'[d] \in 0..Len(Aim)
        BY <1>5, <2>1, <2>2, <2>3
    <2> QED
        BY <2>4 DEF Commit, FindingsInv, RowsInv
<1>9. \A q \in Runs : run'[q].pc \in {"derived", "loaded", "stored"} =>
                          run'[q].evidence \in Evidence[Aim[q]]
    BY <1>1, <1>3, <1>4 DEF FindingsInv, RowsInv
<1>10. run' \in [Runs -> RunRow] /\ overlapped' \subseteq Domains
    BY <1>1, <1>2, <1>3 DEF FindingsInv, RowsInv
<1>11. RowsInv'
    BY <1>6, <1>7, <1>8, <1>9, <1>10 DEF RowsInv
<1> QED
    BY <1>1, <1>3, <1>4, <1>5, <1>11

LEMMA CommitFindings ==
    ASSUME FindingsInv, NEW r \in Runs, Commit(r)
    PROVE  FindingsInv'
<1>1. /\ run[r].pc = "loaded" /\ InFlight(r)
      /\ overlapped' = overlapped /\ run'[r].pc = "stored"
      /\ \A q \in Runs \ {r} : run'[q] = run[q]
    BY CommitRows DEF Commit, InFlight
<1>2. RowsInv'
    BY CommitRows
<1>3. TurnInv'
    <2>1. \A q, p \in Runs :
             Aim[p] = Aim[q] /\ p < q /\ run'[p].pc = "new" => run'[q].pc = "new"
        BY <1>1 DEF FindingsInv, TurnInv, InFlight
    <2>2. ASSUME NEW q \in Runs, NEW p \in Runs, Aim[p] = Aim[q], q < p, InFlight(q)',
                 Aim[q] \notin overlapped'
          PROVE  run'[p].pc = "new"
        <3>1. q # r /\ InFlight(q)
            BY <1>1, <2>2 DEF InFlight
        <3>2. run[p].pc = "new"
            BY <1>1, <2>2, <3>1 DEF FindingsInv, TurnInv
        <3>3. p # r
            BY <1>1, <3>2
        <3> QED
            BY <1>1, <3>2, <3>3
    <2> QED
        BY <2>1, <2>2 DEF TurnInv
<1>4. ASSUME NEW q \in Runs PROVE LoadedInv(q)'
    <2>1. CASE q = r
        BY <1>1, <2>1 DEF LoadedInv
    <2>2. CASE q # r
        <3> SUFFICES ASSUME run[q].pc = "loaded" PROVE LoadedInv(q)'
            BY <1>1, <2>2 DEF LoadedInv
        <3>1. Aim[q] = Aim[r] => Aim[q] \in overlapped
            <4> SUFFICES ASSUME Aim[q] = Aim[r], Aim[q] \notin overlapped PROVE FALSE
                OBVIOUS
            <4>1. InFlight(q) /\ run[r].pc # "new" /\ run[q].pc # "new"
                BY <1>1 DEF InFlight
            <4>2. q < r \/ r < q
                BY <2>2, RunsAreNumbers
            <4> QED
                BY <1>1, <4>1, <4>2 DEF FindingsInv, TurnInv
        <3>2. \A f \in Fingerprints : f[1] = Aim[q] /\ f[1] \notin overlapped =>
                                          findings'[f] = findings[f]
            BY <3>1, CommitWrites
        <3> QED
            BY <1>1, <2>2, <3>2 DEF LoadedInv, FindingsInv
    <2> QED
        BY <2>1, <2>2
<1>5. ASSUME NEW d \in Domains \ overlapped' PROVE NewestInv(d)'
    <2>1. CASE d # Aim[r]
        <3>1. \A f \in Fingerprints : f[1] = d => findings'[f] = findings[f]
            BY <2>1, CommitWrites
        <3>2. latest'[d] = latest[d]
            BY <2>1, CommitRows
        <3> QED
            BY <1>1, <3>1, <3>2, NewestStays
    <2>2. CASE d = Aim[r]
        <3>1. latest[d] \in Nat /\ r \in Nat /\ r # 0 /\ latest[d] <= r
            <4>1. latest[d] \in 0..Len(Aim) /\ r \in 1..Len(Aim) /\ Len(Aim) \in Nat
                BY RunsAreNumbers DEF FindingsInv, RowsInv
            <4>2. CASE latest[d] = 0
                BY <4>1, <4>2
            <4>3. CASE latest[d] # 0
                <5>1. latest[d] \in Runs /\ Aim[latest[d]] = d /\ run[latest[d]].pc = "stored"
                    BY <1>1, <4>1, <4>3, RunsAreNumbers DEF FindingsInv, NewestInv
                <5>2. ~(r < latest[d])
                    BY <1>1, <2>2, <5>1 DEF FindingsInv, TurnInv
                <5> QED
                    BY <4>1, <5>2
            <4> QED
                BY <4>2, <4>3
        <3>2. latest'[d] = r
            BY <2>2, <3>1, CommitRows, NewestOfTwo
        <3>3. Derived(r)' = Derived(r)
            BY CommitRows DEF Derived
        <3>4. \A f \in Fingerprints : f[1] = d => (findings'[f] \in Listed <=> f \in Derived(r))
            BY <1>1, <2>2, CommitWrites, MergedIs
        <3> QED
            BY <1>1, <2>2, <3>1, <3>2, <3>3, <3>4 DEF NewestInv
    <2> QED
        BY <2>1, <2>2
<1>6. ASSUME NEW f \in Fingerprints, f[1] \notin overlapped'
      PROVE  Line(history'[f], findings'[f])
    <2>1. /\ Line(history[f], findings[f]) /\ findings[f] \in FindingStates
          /\ history[f] \in Seq(FindingStates \X FindingStates)
        BY <1>1, <1>6 DEF FindingsInv, RowsInv
    <2>2. CASE f[1] # Aim[r]
        BY <2>1, <2>2, CommitWrites
    <2>3. CASE f[1] = Aim[r] /\ Merged(r)[f] = findings[f]
        BY <1>1, <1>6, <2>1, <2>3, CommitWrites
    <2>4. CASE f[1] = Aim[r] /\ Merged(r)[f] # findings[f]
        <3>1. run[r].previous[f] = findings[f]
            BY <1>1, <1>6, <2>4 DEF FindingsInv, LoadedInv
        <3>2. /\ Merged(r)[f] \in FindingStates \ {"absent"}
              /\ Merged(r)[f] = "open" => findings[f] \in {"absent", "open"}
            BY <1>1, <2>4, <3>1, MergedIs
        <3>3. /\ findings'[f] = Merged(r)[f]
              /\ history'[f] = Append(history[f], << findings[f], Merged(r)[f] >>)
            BY <1>1, <1>6, <2>4, CommitWrites
        <3> HIDE DEF Merged
        <3> QED
            BY <2>1, <3>2, <3>3, LineGoesOn
    <2> QED
        BY <2>2, <2>3, <2>4
<1> QED
    BY <1>2, <1>3, <1>4, <1>5, <1>6 DEF FindingsInv

(***************************************************************************)
(* The theorems.                                                           *)
(***************************************************************************)
LEMMA NextFindings ==
    ASSUME FindingsInv, [Next]_vars
    PROVE  FindingsInv'
<1>1. CASE UNCHANGED vars
    <2>1. UNCHANGED << findings, history, run, latest, overlapped >>
        BY <1>1 DEF vars
    <2>2. RowsInv' /\ TurnInv'
        BY <2>1 DEF FindingsInv, RowsInv, TurnInv, InFlight
    <2>3. \A r \in Runs : LoadedInv(r)'
        BY <2>1, LoadedStays DEF FindingsInv
    <2>4. \A d \in Domains \ overlapped' : NewestInv(d)'
        BY <2>1 DEF FindingsInv, NewestInv, Derived
    <2> QED
        BY <2>1, <2>2, <2>3, <2>4 DEF FindingsInv
<1>2. CASE Next
    BY <1>2, DeriveFindings, LoadFindings, CommitFindings, FailFindings DEF Next
<1> QED
    BY <1>1, <1>2

\* The runs of a domain that follow one another hand its findings on unbroken.
THEOREM FindingsHold == Spec => []FindingsInv
<1> QED
    BY InitFindings, NextFindings, PTL DEF Spec

LEMMA FindingsAreListed == FindingsInv => FailingChecksAreListed /\ ListedFindingsWereFound
<1> SUFFICES ASSUME FindingsInv, NEW d \in Domains, Orderly(d)
             PROVE  /\ \A c \in Checks : Latest(d)[c].result \in FindingResults =>
                           << d, c, Latest(d)[c].result >> \in ListedOn(d)
                    /\ \A f \in ListedOn(d) : Latest(d)[f[2]].result = f[3]
    BY DEF FailingChecksAreListed, ListedFindingsWereFound
<1>1. /\ Aim[latest[d]] = d
      /\ \A f \in Fingerprints : f[1] = d => (findings[f] \in Listed <=> f \in Derived(latest[d]))
    BY DEF Orderly, FindingsInv, NewestInv
<1>2. Derived(latest[d]) = {<< d, c, Latest(d)[c].result >> :
                               c \in {x \in Checks : Latest(d)[x].result \in FindingResults}}
    BY <1>1 DEF Derived, Latest
<1>3. Derived(latest[d]) \subseteq Fingerprints
    BY <1>2 DEF Fingerprints
<1>4. ListedOn(d) = Derived(latest[d])
    BY <1>1, <1>2, <1>3 DEF ListedOn
<1> QED
    BY <1>2, <1>4

\* What the run on the screen found wrong is listed, and so is nothing that it
\* did not find, however runs fail, load and write beside those of other domains.
\* (reconcile, save_findings)
THEOREM FailuresAreListed == Spec => [](FailingChecksAreListed /\ ListedFindingsWereFound)
<1> QED
    BY FindingsAreListed, FindingsHold, PTL

\* The history of a finding is one unbroken line from its first sight to the
\* state it is in, over any number of runs. (_transition, save_findings)
THEOREM HistoriesTell == Spec => []HistoryTellsTheState
<1>1. FindingsInv => HistoryTellsTheState
    <2> SUFFICES ASSUME FindingsInv, NEW f \in Fingerprints, Orderly(f[1])
                 PROVE  LET moves == << << "absent", "absent" >> >> \o history[f]
                        IN  /\ Last(moves)[2] = findings[f]
                            /\ \A i \in 2..Len(moves) : moves[i][1] = moves[i - 1][2]
        BY DEF HistoryTellsTheState
    <2> DEFINE start == << "absent", "absent" >>
               moves == << start >> \o history[f]
               n == Len(history[f])
    <2>1. Line(history[f], findings[f]) /\ history[f] \in Seq(FindingStates \X FindingStates)
        BY DEF FindingsInv, RowsInv, Orderly
    <2>2. << start >> \in Seq(FindingStates \X FindingStates) /\ Len(<< start >>) = 1
        BY DEF FindingStates
    <2>3. /\ n \in Nat /\ Len(moves) = n + 1 /\ moves[1] = start
          /\ \A i \in 2..(n + 1) : moves[i] = history[f][i - 1]
          /\ history[f] = << >> <=> n = 0
        BY <2>1, <2>2
    <2> HIDE DEF moves, n
    <2>4. moves[n + 1][2] = findings[f]
        <3>1. CASE n = 0
            BY <2>1, <2>3, <3>1 DEF Line
        <3>2. CASE n # 0
            <4>1. n + 1 \in 2..(n + 1) /\ (n + 1) - 1 = n
                BY <2>3, <3>2
            <4>2. moves[n + 1] = history[f][n]
                BY <2>3, <4>1
            <4> QED
                BY <2>1, <2>3, <3>2, <4>2 DEF Line, n
        <3> QED
            BY <3>1, <3>2
    <2>5. ASSUME NEW i \in 2..(n + 1) PROVE moves[i][1] = moves[i - 1][2]
        <3>1. i - 1 \in 1..n /\ moves[i] = history[f][i - 1] /\ history[f] # << >>
            BY <2>3
        <3>2. CASE i = 2
            <4>1. history[f][1][1] = "absent"
                BY <2>1, <3>1 DEF Line
            <4> QED
                BY <2>3, <3>1, <3>2, <4>1
        <3>3. CASE i # 2
            <4>1. i - 1 \in 2..(n + 1) /\ i - 1 # 1
                BY <2>3, <3>3
            <4>2. moves[i - 1] = history[f][(i - 1) - 1]
                BY <2>3, <4>1
            <4>3. history[f][i - 1][1] = history[f][(i - 1) - 1][2]
                BY <2>1, <3>1, <4>1 DEF Line, n
            <4> QED
                BY <3>1, <4>2, <4>3
        <3> QED
            BY <3>2, <3>3
    <2>6. Last(moves) = moves[n + 1]
        BY <2>3 DEF Last
    <2> QED
        BY <2>3, <2>4, <2>5, <2>6 DEF moves
<1> QED
    BY <1>1, FindingsHold, PTL

\* A finding that returns is marked as regressed, however often it comes and
\* goes. (reconcile)
THEOREM RegressionsAreMarked == Spec => []RegressionIsMarked
<1>1. FindingsInv => RegressionIsMarked
    <2> SUFFICES ASSUME FindingsInv, NEW f \in Fingerprints, Orderly(f[1]), findings[f] = "open"
                 PROVE  \A i \in DOMAIN history[f] : history[f][i][2] # "resolved"
        BY DEF RegressionIsMarked
    <2>1. Line(history[f], findings[f]) /\ history[f] \in Seq(FindingStates \X FindingStates)
        BY DEF FindingsInv, RowsInv, Orderly
    <2>2. DOMAIN history[f] = 1..Len(history[f])
        BY <2>1
    <2> QED
        BY <2>1, <2>2 DEF Line
<1> QED
    BY <1>1, FindingsHold, PTL

\* A run only writes the findings of the domain it was aimed at, whatever other
\* runs of the organization write at that time. (load_findings, save_findings)
THEOREM ForeignUntouched == Spec => ForeignDomainsUntouched
<1>1. ASSUME FindingsInv, Next, NEW f \in Fingerprints, findings'[f] # findings[f]
      PROVE  \E r \in Runs : Aim[r] = f[1] /\ run[r].pc = "loaded" /\ run'[r].pc = "stored"
    <2>1. PICK r \in Runs : Commit(r)
        BY <1>1 DEF Next, Derive, Load, Fail
    <2> QED
        BY <1>1, <2>1, CommitWrites, CommitRows DEF Commit
<1>2. FindingsInv /\ [Next]_vars =>
          [\A f \in Fingerprints :
              findings'[f] # findings[f] =>
                \E r \in Runs : Aim[r] = f[1] /\ run[r].pc = "loaded" /\ run'[r].pc = "stored"]_vars
    BY <1>1
<1> QED
    BY <1>2, FindingsHold, PTL DEF Spec, ForeignDomainsUntouched

(***************************************************************************)
(* Sums over sets.  What a sum comes to does not depend on the order its   *)
(* summands are taken in.                                                  *)
(***************************************************************************)
Pick(S) == CHOOSE x \in S : TRUE
Rest(S) == S \ {Pick(S)}

\* One step of the fold: the sum of s, the sums of smaller sets being F.
SumStep(w, F, s) == IF s = {} THEN 0 ELSE w[Pick(s)] + F[Rest(s)]

LEMMA LeastNumber ==
    ASSUME NEW T, T \subseteq Nat, T # {}
    PROVE  \E n \in T : \A m \in T : n <= m
<1>1. PICK n \in T : \A m \in T : ~(<<m, n>> \in OpToRel(<, Nat))
    BY NatLessThanWellFounded, WFMin
<1>2. \A m \in T : ~(m < n)
    BY <1>1 DEF OpToRel
<1> QED
    BY <1>2

LEMMA RestIsSmaller ==
    ASSUME NEW s, IsFiniteSet(s), s # {}
    PROVE  /\ Pick(s) \in s /\ Rest(s) \subseteq s /\ IsFiniteSet(Rest(s))
           /\ Cardinality(Rest(s)) = Cardinality(s) - 1
           /\ Cardinality(s) \in Nat /\ Cardinality(Rest(s)) \in Nat
<1>1. Pick(s) \in s
    BY DEF Pick
<1> QED
    BY <1>1, FS_RemoveElement, FS_CardinalityType DEF Rest

\* A set of sets that is not empty holds a smallest one.
LEMMA SmallestSet ==
    ASSUME NEW U, U # {}, \A s \in U : IsFiniteSet(s)
    PROVE  \E s \in U : \A t \in U : Cardinality(s) <= Cardinality(t)
<1> DEFINE sizes == {Cardinality(s) : s \in U}
<1>1. sizes \subseteq Nat /\ sizes # {}
    BY FS_CardinalityType
<1> HIDE DEF sizes
<1>2. PICK n \in sizes : \A m \in sizes : n <= m
    BY <1>1, LeastNumber
<1> QED
    BY <1>2 DEF sizes

\* The recursion has a solution on the subsets of every finite set: one on those
\* of up to n elements, for the greatest n needed.
Solves(g, w, sets) == g \in [sets -> Nat] /\ \A s \in sets : g[s] = SumStep(w, g, s)
SetsUpTo(S, n) == {s \in SUBSET S : Cardinality(s) <= n}

LEMMA SolutionUpTo ==
    ASSUME NEW S, IsFiniteSet(S), NEW w, \A x \in S : w[x] \in Nat, NEW n \in Nat
    PROVE  \E g : Solves(g, w, SetsUpTo(S, n))
<1> DEFINE Small(k) == SetsUpTo(S, k)
           Unsolved == {k \in Nat : ~\E g : Solves(g, w, Small(k))}
<1>1. \A s \in SUBSET S : IsFiniteSet(s) /\ Cardinality(s) \in Nat
    BY FS_Subset, FS_CardinalityType
<1>2. \E g : Solves(g, w, Small(0))
    <2> DEFINE g == [s \in Small(0) |-> 0]
    <2>1. \A s \in Small(0) : s = {}
        BY <1>1, FS_EmptySet DEF SetsUpTo
    <2>2. Solves(g, w, Small(0))
        BY <2>1 DEF SumStep, Solves
    <2> QED
        BY <2>2
<1>3. ASSUME NEW k \in Nat, NEW g, Solves(g, w, Small(k))
      PROVE  \E h : Solves(h, w, Small(k + 1))
    <2> DEFINE h == [s \in Small(k + 1) |-> SumStep(w, g, s)]
    <2>1. ASSUME NEW s \in Small(k + 1), s # {}
          PROVE  Pick(s) \in S /\ Rest(s) \in Small(k) /\ Rest(s) \in Small(k + 1)
        BY <1>1, <2>1, RestIsSmaller DEF SetsUpTo
    <2>2. \A s \in Small(k + 1) : SumStep(w, g, s) \in Nat
        BY <1>3, <2>1 DEF SumStep, Solves
    <2>3. ASSUME NEW s \in Small(k + 1)
          PROVE  h[s] = SumStep(w, h, s)
        <3>1. CASE s = {}
            BY <3>1 DEF SumStep
        <3>2. CASE s # {}
            <4>1. Rest(s) \in Small(k) /\ Rest(s) \in Small(k + 1)
                BY <2>1, <3>2
            <4>2. h[Rest(s)] = g[Rest(s)]
                BY <1>3, <4>1 DEF Solves
            <4> QED
                BY <3>2, <4>2 DEF SumStep
        <3> QED
            BY <3>1, <3>2
    <2>4. Solves(h, w, Small(k + 1))
        BY <2>2, <2>3 DEF Solves
    <2> QED
        BY <2>4
<1> HIDE DEF Small
<1>4. Unsolved = {}
    <2> SUFFICES ASSUME Unsolved # {} PROVE FALSE
        OBVIOUS
    <2>1. PICK k \in Unsolved : \A m \in Unsolved : k <= m
        BY LeastNumber
    <2>2. k # 0 /\ k \in Nat
        BY <1>2
    <2>3. k - 1 \in Nat /\ k - 1 \notin Unsolved
        BY <2>1, <2>2
    <2>4. PICK g : Solves(g, w, Small(k - 1))
        BY <2>3
    <2>5. \E h : Solves(h, w, Small((k - 1) + 1))
        BY <1>3, <2>3, <2>4
    <2>6. (k - 1) + 1 = k
        BY <2>2
    <2> QED
        BY <2>1, <2>5, <2>6
<1>5. PICK g : Solves(g, w, Small(n))
    BY <1>4
<1> QED
    BY <1>5 DEF Small

\* The function a sum is read from.
Fold(w, S) == CHOOSE F : F = [s \in SUBSET S |-> SumStep(w, F, s)]

LEMMA SumIsRead ==
    ASSUME NEW w, NEW S
    PROVE  SumFunctionOnSet(w, S) = Fold(w, S)[S]
BY DEF SumFunctionOnSet, FoldFunctionOnSet, MapThenFoldSet, Fold, SumStep, Pick, Rest

LEMMA FoldIs ==
    ASSUME NEW S, IsFiniteSet(S), NEW w, \A x \in S : w[x] \in Nat
    PROVE  /\ Fold(w, S) = [s \in SUBSET S |-> SumStep(w, Fold(w, S), s)]
           /\ Fold(w, S) \in [SUBSET S -> Nat]
<1>1. Cardinality(S) \in Nat /\ SetsUpTo(S, Cardinality(S)) = SUBSET S
    BY FS_CardinalityType, FS_Subset DEF SetsUpTo
<1>2. PICK g : g \in [SUBSET S -> Nat] /\ \A s \in SUBSET S : g[s] = SumStep(w, g, s)
    <2>1. \E g : Solves(g, w, SetsUpTo(S, Cardinality(S)))
        BY <1>1, SolutionUpTo
    <2> QED
        BY <1>1, <2>1 DEF Solves
<1>3. g = [s \in SUBSET S |-> SumStep(w, g, s)]
    BY <1>2
<1>4. Fold(w, S) = [s \in SUBSET S |-> SumStep(w, Fold(w, S), s)]
    BY <1>3 DEF Fold
<1> DEFINE F == Fold(w, S)
<1>5. DOMAIN F = SUBSET S /\ \A s \in SUBSET S : F[s] = SumStep(w, F, s)
    BY <1>4
<1> HIDE DEF F
<1>6. \A s \in SUBSET S : F[s] \in Nat
    <2> DEFINE Wrong == {s \in SUBSET S : F[s] \notin Nat}
    <2> SUFFICES ASSUME Wrong # {} PROVE FALSE
        OBVIOUS
    <2>1. \A s \in Wrong : IsFiniteSet(s)
        BY FS_Subset
    <2>2. PICK s \in Wrong : \A t \in Wrong : Cardinality(s) <= Cardinality(t)
        BY <2>1, SmallestSet
    <2>3. s # {}
        <3>1. F[{}] = 0
            BY <1>5 DEF SumStep
        <3> QED
            BY <3>1
    <2>4. /\ Pick(s) \in S /\ Rest(s) \in SUBSET S
          /\ Cardinality(s) \in Nat /\ Cardinality(Rest(s)) = Cardinality(s) - 1
        BY <2>1, <2>3, RestIsSmaller
    <2>5. F[Rest(s)] \in Nat
        BY <2>2, <2>4
    <2> QED
        BY <1>5, <2>3, <2>4, <2>5 DEF SumStep
<1>7. F = [s \in SUBSET S |-> F[s]]
    BY <1>4 DEF F
<1> QED
    BY <1>4, <1>6, <1>7 DEF F

\* What is read does not depend on the set that the function was made for.
LEMMA FoldsAgree ==
    ASSUME NEW S, IsFiniteSet(S), NEW R \in SUBSET S, NEW w, \A x \in S : w[x] \in Nat
    PROVE  \A s \in SUBSET R : Fold(w, R)[s] = Fold(w, S)[s]
<1> DEFINE F == Fold(w, S)
           G == Fold(w, R)
           Wrong == {s \in SUBSET R : G[s] # F[s]}
<1>1. IsFiniteSet(R)
    BY FS_Subset
<1>2. /\ \A s \in SUBSET R : G[s] = SumStep(w, G, s)
      /\ \A s \in SUBSET R : F[s] = SumStep(w, F, s)
    <2>1. F = [s \in SUBSET S |-> SumStep(w, F, s)]
        BY FoldIs
    <2>2. G = [s \in SUBSET R |-> SumStep(w, G, s)]
        BY <1>1, FoldIs
    <2> HIDE DEF F, G
    <2> QED
        BY <2>1, <2>2
<1> HIDE DEF F, G
<1> SUFFICES ASSUME Wrong # {} PROVE FALSE
    BY DEF F, G
<1>3. \A s \in Wrong : IsFiniteSet(s)
    BY <1>1, FS_Subset
<1>4. PICK s \in Wrong : \A t \in Wrong : Cardinality(s) <= Cardinality(t)
    BY <1>3, SmallestSet
<1>5. s # {}
    BY <1>2 DEF SumStep
<1>6. Rest(s) \in SUBSET R /\ Cardinality(s) \in Nat /\ Cardinality(Rest(s)) = Cardinality(s) - 1
    BY <1>3, <1>5, RestIsSmaller
<1>7. G[Rest(s)] = F[Rest(s)]
    BY <1>4, <1>6
<1> QED
    BY <1>2, <1>5, <1>7 DEF SumStep

\* A sum, taken one summand at a time.
LEMMA SumByStep ==
    ASSUME NEW S, IsFiniteSet(S), NEW w, \A x \in S : w[x] \in Nat
    PROVE  /\ SumFunctionOnSet(w, S) \in Nat
           /\ S = {} => SumFunctionOnSet(w, S) = 0
           /\ S # {} => SumFunctionOnSet(w, S) = w[Pick(S)] + SumFunctionOnSet(w, Rest(S))
<1>1. Fold(w, S)[S] = SumStep(w, Fold(w, S), S) /\ Fold(w, S)[S] \in Nat
    <2> DEFINE F == Fold(w, S)
    <2>1. F = [s \in SUBSET S |-> SumStep(w, F, s)] /\ F \in [SUBSET S -> Nat]
        BY FoldIs
    <2> HIDE DEF F
    <2>2. S \in SUBSET S
        OBVIOUS
    <2>3. F[S] = SumStep(w, F, S) /\ F[S] \in Nat
        BY <2>1, <2>2
    <2> QED
        BY <2>3 DEF F
<1>2. ASSUME S # {} PROVE Fold(w, S)[Rest(S)] = Fold(w, Rest(S))[Rest(S)]
    BY <1>2, RestIsSmaller, FoldsAgree
<1> QED
    BY <1>1, <1>2, SumIsRead DEF SumStep

\* Whichever summand is taken first.
LEMMA SumTakes ==
    ASSUME NEW S, IsFiniteSet(S), NEW w, \A x \in S : w[x] \in Nat, NEW y \in S
    PROVE  /\ SumFunctionOnSet(w, S \ {y}) \in Nat
           /\ SumFunctionOnSet(w, S) = w[y] + SumFunctionOnSet(w, S \ {y})
<1> DEFINE Sum(s) == SumFunctionOnSet(w, s)
           Wrong == {s \in SUBSET S : \E x \in s : Sum(s) # w[x] + Sum(s \ {x})}
<1>1. ASSUME NEW s \in SUBSET S
      PROVE  /\ IsFiniteSet(s) /\ Sum(s) \in Nat
             /\ s # {} => Sum(s) = w[Pick(s)] + Sum(Rest(s))
    <2>1. IsFiniteSet(s) /\ \A x \in s : w[x] \in Nat
        BY FS_Subset
    <2> QED
        BY <2>1, SumByStep
<1> HIDE DEF Sum
<1>2. Wrong = {}
    <2> SUFFICES ASSUME Wrong # {} PROVE FALSE
        OBVIOUS
    <2>1. PICK s \in Wrong : \A t \in Wrong : Cardinality(s) <= Cardinality(t)
        BY <1>1, SmallestSet
    <2>2. PICK x \in s : Sum(s) # w[x] + Sum(s \ {x})
        BY <2>1
    <2> DEFINE p == Pick(s)
    <2>3. /\ p \in s /\ Rest(s) = s \ {p} /\ Sum(s) = w[p] + Sum(s \ {p})
          /\ Cardinality(s) \in Nat /\ Cardinality(Rest(s)) = Cardinality(s) - 1
        BY <1>1, <2>2, RestIsSmaller DEF Rest
    <2> HIDE DEF p
    <2>4. p # x
        BY <2>2, <2>3
    <2>5. s \ {p} \notin Wrong
        <3>1. Cardinality(s \ {p}) = Cardinality(s) - 1
            BY <2>3
        <3>2. s \ {p} \in Wrong => Cardinality(s) <= Cardinality(s \ {p})
            BY <2>1
        <3> HIDE DEF Wrong
        <3> QED
            BY <2>3, <3>1, <3>2
    <2>6. Sum(s \ {p}) = w[x] + Sum((s \ {p}) \ {x})
        BY <2>2, <2>4, <2>5
    <2>7. IsFiniteSet(s \ {x}) /\ Cardinality(s \ {x}) = Cardinality(s) - 1
        BY <1>1, <2>2, FS_RemoveElement
    <2>8. s \ {x} \notin Wrong
        BY <2>1, <2>3, <2>7
    <2>9. Sum(s \ {x}) = w[p] + Sum((s \ {x}) \ {p})
        BY <2>3, <2>4, <2>8
    <2>10. (s \ {x}) \ {p} = (s \ {p}) \ {x}
        OBVIOUS
    <2>11. /\ w[x] \in Nat /\ w[p] \in Nat /\ Sum((s \ {x}) \ {p}) \in Nat
           /\ Sum(s) \in Nat /\ Sum(s \ {x}) \in Nat
        BY <1>1, <2>2, <2>3
    <2> QED
        BY <2>2, <2>3, <2>6, <2>9, <2>10, <2>11
<1>3. S \notin Wrong /\ S \in SUBSET S
    BY <1>2
<1>4. Sum(S) = w[y] + Sum(S \ {y})
    BY <1>3
<1> QED
    BY <1>1, <1>4 DEF Sum

\* Sums grow with their summands.
LEMMA SumGrows ==
    ASSUME NEW S, IsFiniteSet(S), NEW v, NEW w,
           \A x \in S : v[x] \in Nat /\ w[x] \in Nat /\ v[x] <= w[x]
    PROVE  SumFunctionOnSet(v, S) <= SumFunctionOnSet(w, S)
<1> DEFINE V(s) == SumFunctionOnSet(v, s)
           W(s) == SumFunctionOnSet(w, s)
           Wrong == {s \in SUBSET S : ~(V(s) <= W(s))}
<1>1. ASSUME NEW s \in SUBSET S
      PROVE  /\ IsFiniteSet(s) /\ V(s) \in Nat /\ W(s) \in Nat
             /\ s = {} => V(s) = 0 /\ W(s) = 0
             /\ s # {} => V(s) = v[Pick(s)] + V(Rest(s)) /\ W(s) = w[Pick(s)] + W(Rest(s))
    <2>1. IsFiniteSet(s) /\ \A x \in s : v[x] \in Nat /\ w[x] \in Nat
        BY FS_Subset
    <2> QED
        BY <2>1, SumByStep
<1> HIDE DEF V, W
<1> SUFFICES ASSUME Wrong # {} PROVE FALSE
    BY DEF V, W
<1>2. PICK s \in Wrong : \A t \in Wrong : Cardinality(s) <= Cardinality(t)
    BY <1>1, SmallestSet
<1>3. s # {}
    BY <1>1
<1>4. /\ Pick(s) \in S /\ Rest(s) \in SUBSET S
      /\ Cardinality(s) \in Nat /\ Cardinality(Rest(s)) = Cardinality(s) - 1
    BY <1>1, <1>3, RestIsSmaller
<1>5. V(Rest(s)) <= W(Rest(s))
    BY <1>2, <1>4
<1>6. /\ V(s) = v[Pick(s)] + V(Rest(s)) /\ W(s) = w[Pick(s)] + W(Rest(s))
      /\ V(Rest(s)) \in Nat /\ W(Rest(s)) \in Nat
      /\ v[Pick(s)] \in Nat /\ w[Pick(s)] \in Nat /\ v[Pick(s)] <= w[Pick(s)]
    BY <1>1, <1>3, <1>4
<1> QED
    BY <1>5, <1>6

LEMMA SumAgrees ==
    ASSUME NEW S, IsFiniteSet(S), NEW v, NEW w, \A x \in S : v[x] \in Nat /\ w[x] = v[x]
    PROVE  SumFunctionOnSet(v, S) = SumFunctionOnSet(w, S)
<1>1. /\ SumFunctionOnSet(v, S) <= SumFunctionOnSet(w, S)
      /\ SumFunctionOnSet(w, S) <= SumFunctionOnSet(v, S)
    BY SumGrows
<1>2. SumFunctionOnSet(v, S) \in Nat /\ SumFunctionOnSet(w, S) \in Nat
    BY SumByStep
<1> QED
    BY <1>1, <1>2

\* Sums over parts make up the sum over the whole.
LEMMA SumOfParts ==
    ASSUME NEW S, IsFiniteSet(S), NEW A \in SUBSET S, NEW w, \A x \in S : w[x] \in Nat
    PROVE  SumFunctionOnSet(w, S) = SumFunctionOnSet(w, A) + SumFunctionOnSet(w, S \ A)
<1> DEFINE Sum(s) == SumFunctionOnSet(w, s)
           Wrong == {s \in SUBSET S : Sum(S) # Sum(s) + Sum(S \ s)}
<1>1. ASSUME NEW s \in SUBSET S
      PROVE  IsFiniteSet(s) /\ Sum(s) \in Nat /\ (s = {} => Sum(s) = 0)
    <2>1. IsFiniteSet(s) /\ \A x \in s : w[x] \in Nat
        BY FS_Subset
    <2> QED
        BY <2>1, SumByStep
<1>2. ASSUME NEW s \in SUBSET S, NEW x \in s
      PROVE  Sum(s) = w[x] + Sum(s \ {x})
    <2>1. IsFiniteSet(s) /\ \A y \in s : w[y] \in Nat
        BY FS_Subset
    <2> QED
        BY <2>1, SumTakes
<1> HIDE DEF Sum
<1> SUFFICES ASSUME Wrong # {} PROVE FALSE
    BY DEF Sum
<1>3. PICK s \in Wrong : \A t \in Wrong : Cardinality(s) <= Cardinality(t)
    BY <1>1, SmallestSet
<1>4. s # {}
    <2> SUFFICES ASSUME s = {} PROVE FALSE
        OBVIOUS
    <2>1. Sum(s) = 0 /\ S \ s = S
        BY <1>1
    <2>2. Sum(S) \in Nat
        BY <1>1
    <2>3. Sum(S) # Sum(s) + Sum(S \ s)
        OBVIOUS
    <2> HIDE DEF Wrong
    <2>4. Sum(S) # 0 + Sum(S)
        BY <2>1, <2>3
    <2> QED
        BY <2>2, <2>4
<1> DEFINE p == Pick(s)
           less == s \ {p}
           more == S \ less
<1>5. /\ p \in s /\ less \in SUBSET S
      /\ Cardinality(s) \in Nat /\ Cardinality(less) = Cardinality(s) - 1
    BY <1>1, <1>4, RestIsSmaller DEF Rest
<1>6. more \ {p} = S \ s /\ p \in more /\ more \in SUBSET S
    BY <1>5
<1>7. Sum(s) = w[p] + Sum(less) /\ Sum(more) = w[p] + Sum(S \ s)
    BY <1>2, <1>5, <1>6
<1>8. w[p] \in Nat /\ Sum(less) \in Nat /\ Sum(S \ s) \in Nat
    BY <1>1, <1>5
<1>9. Sum(S) = Sum(less) + Sum(S \ less)
    <2>1. less \in Wrong => Cardinality(s) <= Cardinality(less)
        BY <1>3
    <2>2. ~(Cardinality(s) <= Cardinality(less))
        BY <1>5
    <2>3. less \in SUBSET S
        BY <1>5
    <2> HIDE DEF less
    <2> QED
        BY <2>1, <2>2, <2>3
<1> HIDE DEF p, less
<1>10. Sum(S) = Sum(s) + Sum(S \ s)
    BY <1>7, <1>8, <1>9 DEF more
<1> QED
    BY <1>10

\* A sum is at least each of its summands.
LEMMA SumIsAtLeast ==
    ASSUME NEW S, IsFiniteSet(S), NEW w, \A x \in S : w[x] \in Nat, NEW y \in S
    PROVE  w[y] <= SumFunctionOnSet(w, S)
<1>1. SumFunctionOnSet(w, S \ {y}) \in Nat /\ SumFunctionOnSet(w, S) = w[y] + SumFunctionOnSet(w, S \ {y})
    BY SumTakes
<1> QED
    BY <1>1

\* Every summand is multiplied, and so is the sum.
LEMMA SumScales ==
    ASSUME NEW S, IsFiniteSet(S), NEW w, NEW v, NEW k \in Nat,
           \A x \in S : w[x] \in Nat /\ v[x] = k * w[x]
    PROVE  SumFunctionOnSet(v, S) = k * SumFunctionOnSet(w, S)
<1> DEFINE V(s) == SumFunctionOnSet(v, s)
           W(s) == SumFunctionOnSet(w, s)
           Wrong == {s \in SUBSET S : V(s) # k * W(s)}
<1>1. ASSUME NEW s \in SUBSET S
      PROVE  /\ IsFiniteSet(s) /\ V(s) \in Nat /\ W(s) \in Nat
             /\ s = {} => V(s) = 0 /\ W(s) = 0
             /\ s # {} => V(s) = v[Pick(s)] + V(Rest(s)) /\ W(s) = w[Pick(s)] + W(Rest(s))
    <2>1. IsFiniteSet(s) /\ \A x \in s : v[x] \in Nat /\ w[x] \in Nat
        BY FS_Subset
    <2> QED
        BY <2>1, SumByStep
<1> HIDE DEF V, W
<1> SUFFICES ASSUME Wrong # {} PROVE FALSE
    BY DEF V, W
<1>2. PICK s \in Wrong : \A t \in Wrong : Cardinality(s) <= Cardinality(t)
    BY <1>1, SmallestSet
<1>3. s # {}
    <2>1. s = {} => V(s) = 0 /\ W(s) = 0 /\ k * 0 = 0
        BY <1>1
    <2> QED
        BY <2>1
<1>4. /\ Pick(s) \in S /\ Rest(s) \in SUBSET S
      /\ Cardinality(s) \in Nat /\ Cardinality(Rest(s)) = Cardinality(s) - 1
    BY <1>1, <1>3, RestIsSmaller
<1>5. V(Rest(s)) = k * W(Rest(s))
    BY <1>2, <1>4
<1>6. /\ V(s) = k * w[Pick(s)] + V(Rest(s)) /\ W(s) = w[Pick(s)] + W(Rest(s))
      /\ W(Rest(s)) \in Nat /\ w[Pick(s)] \in Nat
    BY <1>1, <1>3, <1>4
<1>7. \A a, b \in Nat : k * (a + b) = k * a + k * b
    OBVIOUS
<1>8. k * W(s) = k * w[Pick(s)] + k * W(Rest(s))
    BY <1>6, <1>7
<1>9. V(s) = k * W(s)
    BY <1>5, <1>6, <1>8
<1> QED
    BY <1>9

\* What one summand stays below k times its weight is missing from the sum.
LEMMA SumMisses ==
    ASSUME NEW S, IsFiniteSet(S), NEW v, NEW w, NEW k \in Nat,
           \A x \in S : v[x] \in Nat /\ w[x] \in Nat /\ v[x] <= k * w[x], NEW y \in S
    PROVE  SumFunctionOnSet(v, S) + k * w[y] <= k * SumFunctionOnSet(w, S) + v[y]
<1> DEFINE u == [x \in S |-> k * w[x]]
           R == S \ {y}
<1>1. \A x \in S : u[x] \in Nat /\ u[x] = k * w[x]
    OBVIOUS
<1> HIDE DEF u
<1>2. SumFunctionOnSet(u, S) = k * SumFunctionOnSet(w, S)
    BY <1>1, SumScales
<1>3. SumFunctionOnSet(u, R) \in Nat /\ SumFunctionOnSet(u, S) = k * w[y] + SumFunctionOnSet(u, R)
    BY <1>1, SumTakes
<1>4. SumFunctionOnSet(v, R) \in Nat /\ SumFunctionOnSet(v, S) = v[y] + SumFunctionOnSet(v, R)
    BY SumTakes
<1>5. SumFunctionOnSet(v, R) <= SumFunctionOnSet(u, R)
    <2>1. IsFiniteSet(R) /\ R \subseteq S
        BY FS_Subset
    <2>2. \A x \in R : v[x] \in Nat /\ u[x] \in Nat /\ v[x] <= u[x]
        BY <1>1, <2>1
    <2> HIDE DEF R
    <2> QED
        BY <2>1, <2>2, SumGrows
<1>6. u[y] = k * w[y] /\ u[y] \in Nat /\ v[y] \in Nat
    BY <1>1
<1> DEFINE m == k * w[y]
           n == k * SumFunctionOnSet(w, S)
           a == SumFunctionOnSet(u, R)
           b == SumFunctionOnSet(v, R)
<1>7. n = m + a /\ SumFunctionOnSet(v, S) = v[y] + b /\ b <= a /\ a \in Nat /\ b \in Nat /\ m \in Nat
    BY <1>2, <1>3, <1>4, <1>5, <1>6
<1> HIDE DEF m, n, a, b
<1>8. SumFunctionOnSet(v, S) + m <= n + v[y]
    BY <1>6, <1>7
<1> QED
    BY <1>8 DEF m, n

(***************************************************************************)
(* Rounding to a tenth.                                                    *)
(***************************************************************************)
LEMMA Division ==
    ASSUME NEW m \in Nat, NEW d \in Nat \ {0}
    PROVE  /\ m \div d \in Nat /\ m % d \in Nat /\ m % d < d
           /\ m = d * (m \div d) + (m % d)
OBVIOUS

LEMMA ProductsGrow ==
    ASSUME NEW d \in Nat, NEW a \in Int, NEW b \in Int, a <= b
    PROVE  d * a <= d * b
OBVIOUS

\* A larger dividend has no smaller quotient, and with the same quotient no
\* smaller rest.
LEMMA QuotientGrows ==
    ASSUME NEW d \in Nat \ {0}, NEW m \in Nat, NEW n \in Nat, m <= n
    PROVE  /\ m \div d <= n \div d
           /\ m \div d = n \div d => m % d <= n % d
<1> DEFINE p == m \div d
           q == n \div d
           r == m % d
           s == n % d
<1>1. p \in Nat /\ r \in Nat /\ r < d /\ m = d * p + r
    BY Division
<1>2. q \in Nat /\ s \in Nat /\ s < d /\ n = d * q + s
    BY Division
<1> HIDE DEF p, q, r, s
<1>3. p <= q
    <2> SUFFICES ASSUME q + 1 <= p PROVE FALSE
        BY <1>1, <1>2
    <2>1. d * (q + 1) <= d * p
        BY <1>1, <1>2, ProductsGrow
    <2>2. d * (q + 1) = d * q + d
        BY <1>2
    <2>3. d * q \in Int /\ d * p \in Int
        BY <1>1, <1>2
    <2> QED
        BY <1>1, <1>2, <2>1, <2>2, <2>3
<1>4. p = q => r <= s
    <2>1. d * q \in Int
        BY <1>2
    <2> QED
        BY <1>1, <1>2, <2>1
<1> QED
    BY <1>3, <1>4 DEF p, q, r, s

LEMMA RoundsUpOrDown ==
    ASSUME NEW m \in Nat, NEW d \in Nat \ {0}
    PROVE  /\ RoundTenths(m, d) \in Nat
           /\ RoundTenths(m, d) = m \div d \/ RoundTenths(m, d) = m \div d + 1
           /\ RoundTenths(m, d) = m \div d <=>
                 2 * (m % d) < d \/ (2 * (m % d) = d /\ (m \div d) % 2 = 0)
<1>1. m \div d \in Nat
    BY Division
<1> QED
    BY <1>1 DEF RoundTenths

LEMMA RoundingGrows ==
    ASSUME NEW d \in Nat \ {0}, NEW m \in Nat, NEW n \in Nat, m <= n
    PROVE  RoundTenths(m, d) <= RoundTenths(n, d)
<1> DEFINE p == m \div d
           q == n \div d
           r == m % d
           s == n % d
           even == q % 2 = 0
<1>1. p \in Nat /\ q \in Nat /\ r \in Nat /\ s \in Nat
    BY Division
<1>2. p <= q /\ (p = q => r <= s)
    BY QuotientGrows
<1>3. /\ RoundTenths(m, d) = p \/ RoundTenths(m, d) = p + 1
      /\ RoundTenths(n, d) = q \/ RoundTenths(n, d) = q + 1
    BY RoundsUpOrDown
<1>4. RoundTenths(n, d) = q => 2 * s < d \/ (2 * s = d /\ q % 2 = 0)
    BY RoundsUpOrDown
<1>5. 2 * r < d \/ (2 * r = d /\ p % 2 = 0) => RoundTenths(m, d) = p
    BY RoundsUpOrDown
<1> HIDE DEF p, q, r, s
<1>6. CASE p # q
    BY <1>1, <1>2, <1>3, <1>6
<1>7. CASE p = q /\ RoundTenths(n, d) = q
    <2>1. 2 * r < d \/ (2 * r = d /\ p % 2 = 0)
        <3>1. r <= s
            BY <1>2, <1>7
        <3>2. CASE 2 * s < d
            BY <1>1, <3>1, <3>2
        <3>3. CASE 2 * s = d /\ q % 2 = 0
            BY <1>1, <1>7, <3>1, <3>3
        <3> QED
            BY <1>4, <1>7, <3>2, <3>3
    <2> QED
        BY <1>1, <1>5, <1>7, <2>1
<1>8. CASE p = q /\ RoundTenths(n, d) = q + 1
    BY <1>1, <1>3, <1>8
<1> QED
    BY <1>3, <1>6, <1>7, <1>8

\* What is rounded is at most half a tenth away.
LEMMA RoundingIsClose ==
    ASSUME NEW m \in Nat, NEW d \in Nat \ {0}
    PROVE  /\ 2 * (d * RoundTenths(m, d)) <= 2 * m + d
           /\ 2 * m <= 2 * (d * RoundTenths(m, d)) + d
<1> DEFINE q == m \div d
           r == m % d
           t == RoundTenths(m, d)
<1>1. q \in Nat /\ r \in Nat /\ r < d /\ m = d * q + r
    BY Division
<1>2. t = q \/ t = q + 1
    BY RoundsUpOrDown
<1>3. t = q <=> 2 * r < d \/ (2 * r = d /\ q % 2 = 0)
    BY RoundsUpOrDown
<1> HIDE DEF q, r, t
<1>4. CASE t = q
    <2>1. 2 * r <= d
        BY <1>1, <1>3, <1>4
    <2>2. d * q \in Int /\ d * t = d * q
        BY <1>1, <1>4
    <2> QED
        BY <1>1, <2>1, <2>2 DEF t
<1>5. CASE t = q + 1
    <2>1. ~(2 * r < d)
        BY <1>1, <1>3, <1>5
    <2>2. d * q \in Int /\ d * t = d * q + d
        BY <1>1, <1>5
    <2> QED
        BY <1>1, <2>1, <2>2 DEF t
<1> QED
    BY <1>2, <1>4, <1>5

\* A larger fraction is rounded to no less.
LEMMA RoundingFollows ==
    ASSUME NEW m \in Nat, NEW n \in Nat, NEW d \in Nat \ {0}, NEW g \in Nat \ {0}, m * g <= n * d
    PROVE  RoundTenths(m, d) <= RoundTenths(n, g)
<1> DEFINE p == m \div d
           r == m % d
           q == n \div g
           s == n % g
<1>1. /\ p \in Nat /\ r \in Nat /\ r < d /\ m = d * p + r
      /\ q \in Nat /\ s \in Nat /\ s < g /\ n = g * q + s
    BY Division
<1>2. /\ RoundTenths(m, d) \in {p, p + 1} /\ RoundTenths(n, g) \in {q, q + 1}
      /\ RoundTenths(m, d) = p <=> 2 * r < d \/ (2 * r = d /\ p % 2 = 0)
      /\ RoundTenths(n, g) = q <=> 2 * s < g \/ (2 * s = g /\ q % 2 = 0)
    BY RoundsUpOrDown
<1> HIDE DEF p, q, r, s
<1>3. m * g = d * (g * p) + g * r /\ n * d = d * (g * q) + d * s
    BY <1>1
<1>4. g * r \in Nat /\ d * s \in Nat /\ d * s < d * g /\ g * p \in Nat /\ g * q \in Nat /\ d * g \in Nat
    BY <1>1
<1>5. p <= q
    <2> SUFFICES ASSUME q + 1 <= p PROVE FALSE
        BY <1>1
    <2>1. g * (q + 1) <= g * p
        BY <1>1, ProductsGrow
    <2>2. g * (q + 1) = g * q + g
        BY <1>1
    <2>3. d * (g * q + g) <= d * (g * p)
        BY <1>4, <2>1, <2>2, ProductsGrow
    <2>4. d * (g * q + g) = d * (g * q) + d * g /\ d * (g * q) \in Int /\ d * (g * p) \in Int
        BY <1>4
    <2> QED
        BY <1>3, <1>4, <2>3, <2>4
<1>6. CASE p # q
    BY <1>1, <1>2, <1>5, <1>6
<1>7. CASE p = q /\ RoundTenths(n, g) = q
    <2>1. g * r <= d * s
        <3>1. d * (g * p) \in Int
            BY <1>4
        <3> QED
            BY <1>3, <1>4, <1>7, <3>1
    <2>2. 2 * s < g \/ (2 * s = g /\ p % 2 = 0)
        BY <1>2, <1>7
    <2>3. 2 * r < d \/ (2 * r = d /\ p % 2 = 0)
        <3>1. g * (2 * r) <= d * (2 * s)
            BY <1>1, <1>4, <2>1
        <3>2. CASE 2 * s < g
            <4> SUFFICES ASSUME d <= 2 * r PROVE FALSE
                BY <1>1
            <4>1. g * d <= g * (2 * r)
                BY <1>1, ProductsGrow
            <4>2. d * (2 * s + 1) <= d * g
                BY <1>1, <3>2, ProductsGrow
            <4>3. d * (2 * s + 1) = d * (2 * s) + d /\ g * d = d * g /\ d * (2 * s) \in Int /\ g * (2 * r) \in Int
                BY <1>1
            <4> QED
                BY <1>4, <3>1, <4>1, <4>2, <4>3
        <3>3. CASE 2 * s = g /\ p % 2 = 0
            <4>1. ~(d + 1 <= 2 * r)
                <5> SUFFICES ASSUME d + 1 <= 2 * r PROVE FALSE
                    OBVIOUS
                <5>1. g * (d + 1) <= g * (2 * r)
                    BY <1>1, ProductsGrow
                <5>2. g * (d + 1) = d * g + g /\ d * (2 * s) = d * g /\ g * (2 * r) \in Int
                    BY <1>1, <3>3
                <5> QED
                    BY <1>4, <3>1, <5>1, <5>2
            <4> QED
                BY <1>1, <3>3, <4>1
        <3> QED
            BY <2>2, <3>2, <3>3
    <2>4. RoundTenths(m, d) = p
        BY <1>2, <2>3
    <2> QED
        BY <1>1, <1>7, <2>4
<1>8. CASE p = q /\ RoundTenths(n, g) = q + 1
    BY <1>1, <1>2, <1>8
<1> QED
    BY <1>2, <1>6, <1>7, <1>8

LEMMA RoundingIsExact ==
    ASSUME NEW k \in Nat, NEW d \in Nat \ {0}
    PROVE  k * d \in Nat /\ RoundTenths(k * d, d) = k
<1> DEFINE m == k * d
           q == m \div d
           r == m % d
<1>1. m \in Nat
    OBVIOUS
<1>2. q \in Nat /\ r \in Nat /\ r < d /\ m = d * q + r
    BY <1>1, Division
<1>3. q = k
    <2>1. m = d * k
        OBVIOUS
    <2> HIDE DEF m, q, r
    <2>2. CASE q < k
        <3>1. q + 1 <= k
            BY <1>2, <2>2
        <3>2. d * (q + 1) <= d * k
            BY <1>2, <3>1, ProductsGrow
        <3>3. d * (q + 1) = d * q + d /\ d * q \in Int
            BY <1>2
        <3> QED
            BY <1>2, <2>1, <3>2, <3>3
    <2>3. CASE k < q
        <3>1. k + 1 <= q
            BY <1>2, <2>3
        <3>2. d * (k + 1) <= d * q
            BY <1>2, <3>1, ProductsGrow
        <3>3. d * (k + 1) = d * k + d /\ d * k \in Int
            OBVIOUS
        <3> QED
            BY <1>2, <2>1, <3>2, <3>3
    <2> QED
        BY <1>2, <2>2, <2>3
<1>4. r = 0
    <2>1. m = d * q
        BY <1>3
    <2> HIDE DEF m, q, r
    <2>2. d * q \in Int
        BY <1>2
    <2> QED
        BY <1>2, <2>1, <2>2
<1>5. RoundTenths(m, d) = q
    <2>1. 2 * r < d
        BY <1>4
    <2> HIDE DEF m
    <2> QED
        BY <1>1, <2>1, RoundsUpOrDown
<1> QED
    BY <1>1, <1>3, <1>5

(***************************************************************************)
(* Scores.                                                                 *)
(***************************************************************************)
Evaluated == [Checks -> [result : Results, high : BOOLEAN]]

LEMMA FactorIs ==
    ASSUME NEW r \in ScoreBearing
    PROVE  /\ Factor(r) \in 0..2
           /\ Factor("pass") = 2 /\ Factor("warning") = 1 /\ Factor("fail") = 0
BY DEF ScoreBearing, Factor

LEMMA WeightsAdd ==
    ASSUME NEW S \in SUBSET Checks
    PROVE  /\ IsFiniteSet(S) /\ WeightOf(S) \in Nat /\ \A c \in S : Weight[c] \in Nat \ {0}
           /\ S # {} => WeightOf(S) \in Nat \ {0}
<1>1. IsFiniteSet(S) /\ \A c \in S : Weight[c] \in Nat \ {0}
    BY CatalogAssumption, FS_Subset
<1>2. WeightOf(S) \in Nat
    BY <1>1, SumByStep DEF WeightOf
<1>3. ASSUME S # {} PROVE WeightOf(S) # 0
    <2>1. PICK c \in S : TRUE
        BY <1>3
    <2>2. Weight[c] <= WeightOf(S)
        BY <1>1, SumIsAtLeast DEF WeightOf
    <2> QED
        BY <1>1, <1>2, <2>2
<1> QED
    BY <1>1, <1>2, <1>3

LEMMA PillarsAdd ==
    ASSUME NEW S \in SUBSET Pillars
    PROVE  /\ IsFiniteSet(S) /\ \A p \in S : PillarWeight[p] \in Nat \ {0}
           /\ SumFunctionOnSet(PillarWeight, S) \in Nat
           /\ S # {} => SumFunctionOnSet(PillarWeight, S) \in Nat \ {0}
<1>1. IsFiniteSet(S) /\ \A p \in S : PillarWeight[p] \in Nat \ {0}
    BY CatalogAssumption, FS_Subset
<1>2. SumFunctionOnSet(PillarWeight, S) \in Nat
    BY <1>1, SumByStep
<1>3. ASSUME S # {} PROVE SumFunctionOnSet(PillarWeight, S) # 0
    <2>1. PICK p \in S : TRUE
        BY <1>3
    <2>2. PillarWeight[p] <= SumFunctionOnSet(PillarWeight, S)
        BY <1>1, SumIsAtLeast
    <2> QED
        BY <1>1, <1>2, <2>2
<1> QED
    BY <1>1, <1>2, <1>3

LEMMA EarnedIs ==
    ASSUME NEW e, NEW p
    PROVE  /\ Scored(e, p) \in SUBSET Checks
           /\ Earned(e, p) \in Nat
           /\ Earned(e, p) = SumFunctionOnSet([c \in Scored(e, p) |-> Weight[c] * Factor(e[c].result)],
                                              Scored(e, p))
           /\ \A c \in Scored(e, p) :
                 Factor(e[c].result) \in 0..2 /\ Weight[c] * Factor(e[c].result) \in Nat
<1> DEFINE S == Scored(e, p)
           marks == [c \in S |-> Weight[c] * Factor(e[c].result)]
<1>1. S \in SUBSET Checks
    BY DEF Scored
<1>2. Earned(e, p) = SumFunctionOnSet(marks, S)
    BY DEF Earned, SumFunction
<1>3. \A c \in S : Factor(e[c].result) \in 0..2 /\ Weight[c] * Factor(e[c].result) \in Nat
    <2> SUFFICES ASSUME NEW c \in S
                 PROVE  Factor(e[c].result) \in 0..2 /\ Weight[c] * Factor(e[c].result) \in Nat
        OBVIOUS
    <2>1. e[c].result \in ScoreBearing
        BY DEF Scored
    <2>2. Factor(e[c].result) \in 0..2
        BY <2>1, FactorIs
    <2>3. Weight[c] \in Nat
        BY <1>1, WeightsAdd
    <2> QED
        BY <2>2, <2>3
<1>4. IsFiniteSet(S)
    BY <1>1, WeightsAdd
<1>5. SumFunctionOnSet(marks, S) \in Nat
    BY <1>3, <1>4, SumByStep
<1> QED
    BY <1>1, <1>2, <1>3, <1>5

LEMMA PillarScoreIs ==
    ASSUME NEW e, NEW p, Scored(e, p) # {}
    PROVE  PillarScore(e, p) \in Nat /\ 2 * WeightOf(Scored(e, p)) \in Nat \ {0}
<1>1. Earned(e, p) \in Nat /\ WeightOf(Scored(e, p)) \in Nat \ {0}
    BY EarnedIs, WeightsAdd
<1>2. 1000 * Earned(e, p) \in Nat /\ 2 * WeightOf(Scored(e, p)) \in Nat \ {0}
    BY <1>1
<1>3. RoundTenths(1000 * Earned(e, p), 2 * WeightOf(Scored(e, p))) \in Nat
    <2> DEFINE m == 1000 * Earned(e, p)
               d == 2 * WeightOf(Scored(e, p))
    <2>1. m \in Nat /\ d \in Nat \ {0}
        BY <1>2
    <2> HIDE DEF m, d
    <2>2. RoundTenths(m, d) \in Nat
        BY <2>1, RoundsUpOrDown
    <2> QED
        BY <2>2 DEF m, d
<1> QED
    BY <1>2, <1>3 DEF PillarScore

ScoredPillars(e) == {p \in Pillars : Scored(e, p) # {}}
PillarMarks(e) == [p \in ScoredPillars(e) |-> PillarWeight[p] * PillarScore(e, p)]

LEMMA UncappedIs ==
    ASSUME NEW e
    PROVE  /\ ScoredPillars(e) = {} => Uncapped(e) = NoScore
           /\ ScoredPillars(e) # {} =>
                 /\ Uncapped(e) = RoundTenths(SumFunctionOnSet(PillarMarks(e), ScoredPillars(e)),
                                              SumFunctionOnSet(PillarWeight, ScoredPillars(e)))
                 /\ Uncapped(e) \in Nat /\ Uncapped(e) # NoScore
                 /\ SumFunctionOnSet(PillarMarks(e), ScoredPillars(e)) \in Nat
                 /\ SumFunctionOnSet(PillarWeight, ScoredPillars(e)) \in Nat \ {0}
           /\ \A p \in ScoredPillars(e) : PillarMarks(e)[p] \in Nat
<1> DEFINE S == ScoredPillars(e)
           total == SumFunctionOnSet(PillarMarks(e), S)
           whole == SumFunctionOnSet(PillarWeight, S)
<1>1. S \in SUBSET Pillars
    BY DEF ScoredPillars
<1>2. IsFiniteSet(S) /\ (\A p \in S : PillarWeight[p] \in Nat) /\ (S # {} => whole \in Nat \ {0})
    BY <1>1, PillarsAdd
<1>3. \A p \in S : PillarMarks(e)[p] \in Nat
    <2> SUFFICES ASSUME NEW p \in S PROVE PillarMarks(e)[p] \in Nat
        OBVIOUS
    <2>1. PillarScore(e, p) \in Nat /\ PillarWeight[p] \in Nat
        BY <1>2, PillarScoreIs DEF ScoredPillars
    <2> QED
        BY <2>1 DEF PillarMarks
<1>4. total \in Nat
    BY <1>2, <1>3, SumByStep
<1>5. Uncapped(e) = IF S = {} THEN NoScore ELSE RoundTenths(total, whole)
    BY DEF Uncapped, SumFunction, ScoredPillars, PillarMarks
<1> HIDE DEF total, whole, S
<1>6. S # {} => RoundTenths(total, whole) \in Nat
    BY <1>2, <1>4, RoundsUpOrDown
<1> QED
    BY <1>2, <1>3, <1>4, <1>5, <1>6 DEF NoScore, total, whole, S

\* f is e after repairs: what counts is the same, and nothing is worse.
Repaired(e, f) ==
    \A c \in Checks :
        /\ e[c].result \in ScoreBearing <=> f[c].result \in ScoreBearing
        /\ e[c].result \in ScoreBearing => Factor(e[c].result) <= Factor(f[c].result)
        /\ f[c].result = "fail" /\ f[c].high => e[c].result = "fail" /\ e[c].high

LEMMA RepairsScoreAlike ==
    ASSUME NEW e, NEW f, Repaired(e, f)
    PROVE  (\A p : Scored(f, p) = Scored(e, p)) /\ ScoredPillars(f) = ScoredPillars(e)
<1>1. \A p : Scored(f, p) = Scored(e, p)
    BY DEF Repaired, Scored
<1> QED
    BY <1>1 DEF ScoredPillars

LEMMA RepairsEarn ==
    ASSUME NEW e, NEW f, Repaired(e, f), NEW p, Scored(e, p) # {}
    PROVE  PillarScore(e, p) <= PillarScore(f, p)
<1> DEFINE S == Scored(e, p)
           v == [c \in S |-> Weight[c] * Factor(e[c].result)]
           w == [c \in S |-> Weight[c] * Factor(f[c].result)]
<1>1. Scored(f, p) = S /\ S \in SUBSET Checks /\ IsFiniteSet(S)
    BY RepairsScoreAlike, EarnedIs, WeightsAdd
<1>2. /\ Earned(e, p) = SumFunctionOnSet(v, S) /\ Earned(e, p) \in Nat
      /\ \A c \in S : v[c] \in Nat
    BY EarnedIs
<1>3. /\ Earned(f, p) = SumFunctionOnSet(w, S) /\ Earned(f, p) \in Nat
      /\ \A c \in S : w[c] \in Nat
    <2>1. /\ Earned(f, p) = SumFunctionOnSet([c \in Scored(f, p) |-> Weight[c] * Factor(f[c].result)],
                                             Scored(f, p))
          /\ Earned(f, p) \in Nat
          /\ \A c \in Scored(f, p) : Weight[c] * Factor(f[c].result) \in Nat
        BY EarnedIs
    <2> QED
        BY <1>1, <2>1
<1>4. ASSUME NEW c \in S PROVE v[c] <= w[c]
    <2>1. /\ Weight[c] \in Nat /\ Factor(e[c].result) \in Int /\ Factor(f[c].result) \in Int
          /\ Factor(e[c].result) <= Factor(f[c].result)
        <3>1. c \in Checks /\ e[c].result \in ScoreBearing
            BY DEF Scored
        <3>2. Factor(e[c].result) <= Factor(f[c].result) /\ f[c].result \in ScoreBearing
            BY <3>1 DEF Repaired
        <3>3. Weight[c] \in Nat
            BY <1>1, WeightsAdd
        <3> QED
            BY <3>1, <3>2, <3>3, FactorIs
    <2>2. Weight[c] * Factor(e[c].result) <= Weight[c] * Factor(f[c].result)
        BY <2>1, ProductsGrow
    <2> QED
        BY <2>2
<1> HIDE DEF v, w
<1>5. SumFunctionOnSet(v, S) <= SumFunctionOnSet(w, S)
    BY <1>1, <1>2, <1>3, <1>4, SumGrows
<1>6. /\ 1000 * Earned(e, p) <= 1000 * Earned(f, p)
      /\ 1000 * Earned(e, p) \in Nat /\ 1000 * Earned(f, p) \in Nat
    BY <1>2, <1>3, <1>5
<1>7. 2 * WeightOf(S) \in Nat \ {0}
    BY PillarScoreIs
<1> HIDE DEF S
<1>8. RoundTenths(1000 * Earned(e, p), 2 * WeightOf(S)) <= RoundTenths(1000 * Earned(f, p), 2 * WeightOf(S))
    BY <1>6, <1>7, RoundingGrows
<1> QED
    BY <1>1, <1>8 DEF PillarScore, S

\* The mean follows the pillars.
LEMMA MeanFollows ==
    ASSUME NEW e, NEW f, ScoredPillars(f) = ScoredPillars(e),
           \A p \in ScoredPillars(e) : PillarScore(e, p) <= PillarScore(f, p)
    PROVE  /\ Uncapped(e) = NoScore <=> Uncapped(f) = NoScore
           /\ Uncapped(e) # NoScore =>
                 Uncapped(e) \in Nat /\ Uncapped(f) \in Nat /\ Uncapped(e) <= Uncapped(f)
<1> DEFINE S == ScoredPillars(e)
           v == PillarMarks(e)
           w == PillarMarks(f)
           whole == SumFunctionOnSet(PillarWeight, S)
<1>1. ScoredPillars(f) = S
    OBVIOUS
<1>2. CASE S = {}
    BY <1>1, <1>2, UncappedIs
<1>3. CASE S # {}
    <2>1. /\ Uncapped(e) = RoundTenths(SumFunctionOnSet(v, S), whole)
          /\ Uncapped(e) \in Nat /\ Uncapped(e) # NoScore
          /\ SumFunctionOnSet(v, S) \in Nat /\ whole \in Nat \ {0}
          /\ \A p \in S : v[p] \in Nat
        BY <1>3, UncappedIs
    <2>2. /\ Uncapped(f) = RoundTenths(SumFunctionOnSet(w, S), whole)
          /\ Uncapped(f) \in Nat /\ Uncapped(f) # NoScore
          /\ SumFunctionOnSet(w, S) \in Nat
          /\ \A p \in S : w[p] \in Nat
        BY <1>1, <1>3, UncappedIs
    <2>3. S \in SUBSET Pillars
        BY DEF ScoredPillars
    <2>4. IsFiniteSet(S)
        BY <2>3, PillarsAdd
    <2>5. ASSUME NEW p \in S PROVE v[p] <= w[p]
        <3>1. /\ PillarScore(e, p) \in Nat /\ PillarScore(f, p) \in Nat
              /\ PillarScore(e, p) <= PillarScore(f, p)
            <4>1. Scored(e, p) # {} /\ Scored(f, p) # {}
                BY <1>1 DEF ScoredPillars
            <4> QED
                BY <4>1, PillarScoreIs
        <3>2. PillarWeight[p] \in Nat
            BY <2>3, PillarsAdd
        <3>3. PillarWeight[p] * PillarScore(e, p) <= PillarWeight[p] * PillarScore(f, p)
            BY <3>1, <3>2, ProductsGrow
        <3> QED
            BY <1>1, <3>3 DEF PillarMarks
    <2> HIDE DEF v, w, S, whole
    <2>6. SumFunctionOnSet(v, S) <= SumFunctionOnSet(w, S)
        BY <2>1, <2>2, <2>4, <2>5, SumGrows
    <2>7. RoundTenths(SumFunctionOnSet(v, S), whole) <= RoundTenths(SumFunctionOnSet(w, S), whole)
        BY <2>1, <2>2, <2>6, RoundingGrows
    <2> QED
        BY <2>1, <2>2, <2>7
<1> QED
    BY <1>2, <1>3

\* The least of a score and its ceilings.
LEMMA CappedIs ==
    ASSUME NEW u \in Nat, NEW caps \in SUBSET Caps
    PROVE  /\ Capped(u, caps) \in {u} \cup {10 * cap.ceiling : cap \in caps}
           /\ Capped(u, caps) \in Nat /\ Capped(u, caps) <= u
           /\ \A cap \in caps : Capped(u, caps) <= 10 * cap.ceiling
<1> DEFINE T == {u} \cup {10 * cap.ceiling : cap \in caps}
<1>1. \A cap \in caps : cap.ceiling \in Nat
    BY CatalogAssumption
<1>2. T \subseteq Nat /\ T # {}
    BY <1>1
<1>3. PICK n \in T : \A m \in T : n <= m
    BY <1>2, LeastNumber
<1>4. Capped(u, caps) = CHOOSE x \in T : \A y \in T : x <= y
    BY DEF Capped, Min
<1> HIDE DEF T
<1>5. Capped(u, caps) \in T /\ \A y \in T : Capped(u, caps) <= y
    BY <1>3, <1>4
<1> QED
    BY <1>2, <1>5 DEF T

\* And the score the mean and the caps.
LEMMA ScoreFollows ==
    ASSUME NEW e, NEW f, Uncapped(e) # NoScore, Uncapped(e) \in Nat, Uncapped(f) \in Nat,
           Uncapped(e) <= Uncapped(f), AppliedCaps(f) \subseteq AppliedCaps(e)
    PROVE  Score(e) \in Nat /\ Score(f) \in Nat /\ Score(e) <= Score(f)
<1> DEFINE a == Capped(Uncapped(e), AppliedCaps(e))
           b == Capped(Uncapped(f), AppliedCaps(f))
<1>1. AppliedCaps(e) \subseteq Caps
    BY DEF AppliedCaps
<1>2. a \in Nat /\ a <= Uncapped(e) /\ \A cap \in AppliedCaps(e) : a <= 10 * cap.ceiling
    BY <1>1, CappedIs
<1>3. b \in Nat /\ b \in {Uncapped(f)} \cup {10 * cap.ceiling : cap \in AppliedCaps(f)}
    BY <1>1, CappedIs
<1>4. Score(e) = a /\ Score(f) = b
    BY DEF Score, NoScore
<1> HIDE DEF a, b
<1>5. CASE b = Uncapped(f)
    BY <1>2, <1>3, <1>4, <1>5
<1>6. CASE b # Uncapped(f)
    <2>1. PICK cap \in AppliedCaps(f) : b = 10 * cap.ceiling
        BY <1>3, <1>6
    <2> QED
        BY <1>2, <1>3, <1>4, <2>1
<1> QED
    BY <1>5, <1>6

\* No repair lowers a score: neither by the mean nor by a cap.
LEMMA RepairsNeverCost ==
    ASSUME NEW e, NEW f, Repaired(e, f)
    PROVE  /\ Score(f) >= Score(e)
           /\ Score(e) # NoScore => Score(f) # NoScore
<1>1. /\ Uncapped(e) = NoScore <=> Uncapped(f) = NoScore
      /\ Uncapped(e) # NoScore =>
            Uncapped(e) \in Nat /\ Uncapped(f) \in Nat /\ Uncapped(e) <= Uncapped(f)
    <2>1. ScoredPillars(f) = ScoredPillars(e)
        BY RepairsScoreAlike
    <2>2. \A p \in ScoredPillars(e) : PillarScore(e, p) <= PillarScore(f, p)
        BY RepairsEarn DEF ScoredPillars
    <2> QED
        BY <2>1, <2>2, MeanFollows
<1>2. AppliedCaps(f) \subseteq AppliedCaps(e)
    BY CatalogAssumption DEF AppliedCaps, Triggering, Repaired
<1>3. CASE Uncapped(e) = NoScore
    <2>1. Score(e) = NoScore /\ Score(f) = NoScore
        BY <1>1, <1>3 DEF Score
    <2> QED
        BY <2>1 DEF NoScore
<1>4. CASE Uncapped(e) # NoScore
    <2>1. Score(e) \in Nat /\ Score(f) \in Nat /\ Score(e) <= Score(f)
        BY <1>1, <1>2, <1>4, ScoreFollows
    <2> QED
        BY <2>1 DEF NoScore
<1> QED
    BY <1>3, <1>4

\* No pillar earns more than twice its weight, and what a check loses is lost to it.
LEMMA EarnedAtMost ==
    ASSUME NEW e, NEW p
    PROVE  /\ Earned(e, p) <= 2 * WeightOf(Scored(e, p))
           /\ \A c \in Scored(e, p) :
                 Earned(e, p) + 2 * Weight[c]
                     <= 2 * WeightOf(Scored(e, p)) + Weight[c] * Factor(e[c].result)
<1> DEFINE S == Scored(e, p)
           v == [c \in S |-> Weight[c] * Factor(e[c].result)]
           W == WeightOf(S)
           E == Earned(e, p)
<1>1. S \in SUBSET Checks /\ IsFiniteSet(S) /\ W \in Nat /\ \A c \in S : Weight[c] \in Nat
    BY EarnedIs, WeightsAdd
<1>2. /\ E \in Nat /\ E = SumFunctionOnSet(v, S)
      /\ \A c \in S : Factor(e[c].result) \in 0..2 /\ v[c] \in Nat
    BY EarnedIs
<1>3. \A c \in S : v[c] <= 2 * Weight[c]
    <2> SUFFICES ASSUME NEW c \in S PROVE Weight[c] * Factor(e[c].result) <= 2 * Weight[c]
        OBVIOUS
    <2>1. Factor(e[c].result) <= 2 /\ Factor(e[c].result) \in Int /\ Weight[c] \in Nat
        BY <1>1, <1>2
    <2>2. Weight[c] * Factor(e[c].result) <= Weight[c] * 2
        BY <2>1, ProductsGrow
    <2> QED
        BY <2>1, <2>2
<1>4. ASSUME NEW c \in S
      PROVE  E + 2 * Weight[c] <= 2 * W + v[c]
    <2>1. SumFunctionOnSet(v, S) + 2 * Weight[c] <= 2 * SumFunctionOnSet(Weight, S) + v[c]
        <3> HIDE DEF v, S
        <3> QED
            BY <1>1, <1>2, <1>3, SumMisses
    <2> QED
        BY <1>2, <2>1 DEF WeightOf
<1>5. CASE S = {}
    <2>1. E = 0
        <3> HIDE DEF v, S
        <3> QED
            BY <1>1, <1>2, <1>5, SumByStep
    <2> QED
        BY <1>1, <1>5, <2>1
<1>6. CASE S # {}
    <2>1. PICK c \in S : TRUE
        BY <1>6
    <2>2. v[c] \in Nat /\ v[c] <= 2 * Weight[c] /\ Weight[c] \in Nat /\ E + 2 * Weight[c] <= 2 * W + v[c]
        BY <1>1, <1>2, <1>3, <1>4
    <2>3. E <= 2 * W
        <3> HIDE DEF v, W, E
        <3> QED
            BY <1>1, <1>2, <2>2
    <2> QED
        BY <1>4, <2>3
<1> QED
    BY <1>5, <1>6

\* A pillar of which every scored check passes has all of its points, no other has
\* more, and what a check loses is lost, up to the rounding, to its pillar.
LEMMA PillarMisses ==
    ASSUME NEW e, NEW p, Scored(e, p) # {}
    PROVE  /\ PillarScore(e, p) \in Nat /\ PillarScore(e, p) <= 1000
           /\ (\A c \in Scored(e, p) : e[c].result = "pass") => PillarScore(e, p) = 1000
           /\ \A c \in Scored(e, p) : e[c].result # "pass" =>
                 2 * (WeightOf(Scored(e, p)) * (1000 - PillarScore(e, p)))
                     >= 1000 * Weight[c] - WeightOf(Scored(e, p))
<1> DEFINE S == Scored(e, p)
           v == [c \in S |-> Weight[c] * Factor(e[c].result)]
           W == WeightOf(S)
           E == Earned(e, p)
           t == PillarScore(e, p)
<1>1. S \in SUBSET Checks /\ IsFiniteSet(S) /\ W \in Nat \ {0} /\ \A c \in S : Weight[c] \in Nat
    BY EarnedIs, WeightsAdd
<1>2. /\ E \in Nat /\ E = SumFunctionOnSet(v, S)
      /\ \A c \in S : Factor(e[c].result) \in 0..2 /\ v[c] \in Nat
    BY EarnedIs
<1>3. t = RoundTenths(1000 * E, 2 * W) /\ t \in Nat
    BY PillarScoreIs DEF PillarScore
<1>4. E <= 2 * W /\ \A c \in S : E + 2 * Weight[c] <= 2 * W + v[c]
    BY EarnedAtMost
<1>5. RoundTenths(1000 * (2 * W), 2 * W) = 1000
    <2>1. 2 * W \in Nat \ {0}
        BY <1>1
    <2> QED
        BY <2>1, RoundingIsExact
<1>6. t <= 1000
    <2> DEFINE m == 1000 * E
               n == 1000 * (2 * W)
               d == 2 * W
    <2>1. m \in Nat /\ n \in Nat /\ d \in Nat \ {0} /\ m <= n
        BY <1>1, <1>2, <1>4
    <2>2. RoundTenths(m, d) <= RoundTenths(n, d)
        <3> HIDE DEF m, n, d
        <3> QED
            BY <2>1, RoundingGrows
    <2> QED
        BY <1>3, <1>5, <2>2
<1>7. ASSUME \A c \in S : e[c].result = "pass"
      PROVE  t = 1000
    <2>1. \A c \in S : v[c] = 2 * Weight[c]
        BY <1>1, <1>7, FactorIs DEF ScoreBearing
    <2>2. SumFunctionOnSet(v, S) = 2 * SumFunctionOnSet(Weight, S)
        <3> HIDE DEF v, S
        <3> QED
            BY <1>1, <2>1, SumScales
    <2>3. E = 2 * W
        BY <1>2, <2>2 DEF WeightOf
    <2> QED
        BY <1>3, <1>5, <2>3
<1>8. ASSUME NEW c \in S, e[c].result # "pass"
       PROVE  2 * (W * (1000 - t)) >= 1000 * Weight[c] - W
    <2>1. v[c] <= Weight[c]
        <3>1. e[c].result \in {"warning", "fail"}
            BY <1>8 DEF Scored, ScoreBearing
        <3>2. Factor(e[c].result) \in {0, 1}
            BY <3>1, FactorIs DEF ScoreBearing
        <3> QED
            BY <1>1, <3>2
    <2>2. E <= 2 * W - Weight[c]
        <3>1. E + 2 * Weight[c] <= 2 * W + v[c] /\ v[c] \in Nat /\ Weight[c] \in Nat
            BY <1>1, <1>2, <1>4
        <3> HIDE DEF v, W, E
        <3> QED
            BY <1>1, <1>2, <2>1, <3>1
    <2> DEFINE m == 1000 * E
               d == 2 * W
    <2>3. m \in Nat /\ d \in Nat \ {0}
        BY <1>1, <1>2
    <2>4. 2 * (d * t) <= 2 * m + d
        <3>1. 2 * (d * RoundTenths(m, d)) <= 2 * m + d
            <4> HIDE DEF m, d
            <4> QED
                BY <2>3, RoundingIsClose
        <3> QED
            BY <1>3, <3>1
    <2>5. 2 * (d * t) = 4 * (W * t) /\ W * t \in Int /\ W * (1000 - t) = 1000 * W - W * t
        BY <1>1, <1>3
    <2>6. Weight[c] \in Nat
        BY <1>1
    <2>7. 4 * (W * t) <= 2000 * E + 2 * W
        BY <2>4, <2>5, <1>1, <1>2
    <2> HIDE DEF W, E, t
    <2>8. 2 * (1000 * W - W * t) >= 1000 * Weight[c] - W
        BY <1>1, <1>2, <2>2, <2>5, <2>6, <2>7
    <2> QED
        BY <2>5, <2>8
<1> QED
    BY <1>3, <1>6, <1>7, <1>8

LEMMA PointsOfAPillar ==
    ASSUME NEW e, NEW q \in ScoredPillars(e)
    PROVE  PillarMarks(e)[q] = PillarWeight[q] * PillarScore(e, q) /\ PillarMarks(e)[q] <= 1000 * PillarWeight[q]
<1>1. /\ PillarScore(e, q) \in Nat /\ PillarScore(e, q) <= 1000 /\ PillarWeight[q] \in Nat
    BY PillarMisses, PillarsAdd DEF ScoredPillars
<1>2. PillarWeight[q] * PillarScore(e, q) <= PillarWeight[q] * 1000
    BY <1>1, ProductsGrow
<1> QED
    BY <1>1, <1>2 DEF PillarMarks

\* What the pillars of a subject come to is at most all of their points.
LEMMA MeanIsBounded ==
    ASSUME NEW e, Uncapped(e) # NoScore
    PROVE  /\ SumFunctionOnSet(PillarMarks(e), ScoredPillars(e))
                  <= 1000 * SumFunctionOnSet(PillarWeight, ScoredPillars(e))
           /\ Uncapped(e) \in 0..1000
<1> DEFINE R == ScoredPillars(e)
           v == PillarMarks(e)
           m == SumFunctionOnSet(v, R)
           d == SumFunctionOnSet(PillarWeight, R)
<1>1. R # {} /\ R \in SUBSET Pillars
    BY UncappedIs DEF ScoredPillars
<1>2. IsFiniteSet(R) /\ \A q \in R : PillarWeight[q] \in Nat
    BY <1>1, PillarsAdd
<1>3. /\ m \in Nat /\ d \in Nat \ {0} /\ \A q \in R : v[q] \in Nat
      /\ Uncapped(e) = RoundTenths(m, d) /\ Uncapped(e) \in Nat
    BY <1>1, UncappedIs
<1>4. m <= 1000 * d
    <2>1. \A q \in R : v[q] <= 1000 * PillarWeight[q]
        BY PointsOfAPillar
    <2>2. PICK q \in R : TRUE
        BY <1>1
    <2>3. SumFunctionOnSet(v, R) + 1000 * PillarWeight[q] <= 1000 * SumFunctionOnSet(PillarWeight, R) + v[q]
        <3> HIDE DEF v, R
        <3> QED
            BY <1>2, <1>3, <2>1, SumMisses
    <2>4. v[q] \in Nat /\ PillarWeight[q] \in Nat /\ v[q] <= 1000 * PillarWeight[q]
        BY <1>2, <1>3, <2>1
    <2> HIDE DEF v, d
    <2> QED
        BY <1>3, <2>3, <2>4 DEF d
<1> HIDE DEF m, d
<1>5. RoundTenths(m, d) <= 1000
    <2> DEFINE n == 1000 * d
    <2>1. n \in Nat /\ m <= n
        BY <1>3, <1>4
    <2>2. RoundTenths(n, d) = 1000
        BY <1>3, RoundingIsExact
    <2> HIDE DEF n
    <2>3. RoundTenths(m, d) <= RoundTenths(n, d)
        BY <1>3, <2>1, RoundingGrows
    <2> QED
        BY <2>2, <2>3
<1> QED
    BY <1>3, <1>4, <1>5 DEF m, d

LEMMA ScoresAreNumbers ==
    ASSUME NEW e
    PROVE  /\ Score(e) = NoScore <=> Uncapped(e) = NoScore
           /\ Uncapped(e) # NoScore => Uncapped(e) \in 0..1000 /\ Score(e) \in 0..Uncapped(e)
           /\ Score(e) \in Int /\ Score(e) >= NoScore
<1>1. CASE Uncapped(e) = NoScore
    BY <1>1 DEF Score, NoScore
<1>2. CASE Uncapped(e) # NoScore
    <2>1. Uncapped(e) \in 0..1000
        BY <1>2, MeanIsBounded
    <2>2. AppliedCaps(e) \subseteq Caps
        BY DEF AppliedCaps
    <2>3. Capped(Uncapped(e), AppliedCaps(e)) \in Nat /\ Capped(Uncapped(e), AppliedCaps(e)) <= Uncapped(e)
        BY <2>1, <2>2, CappedIs
    <2>4. Score(e) = Capped(Uncapped(e), AppliedCaps(e))
        BY <1>2 DEF Score
    <2> QED
        BY <1>2, <2>1, <2>3, <2>4 DEF NoScore
<1> QED
    BY <1>1, <1>2

(***************************************************************************)
(* One check comes out another way.                                        *)
(***************************************************************************)
DifferAt(e, f, c) ==
    \A x \in Checks : f[x].high = e[x].high /\ (x # c => f[x].result = e[x].result)

LEMMA OneResultChanged ==
    ASSUME NEW e \in Evaluated, NEW c \in Checks, NEW result
    PROVE  /\ DifferAt(e, [e EXCEPT ![c].result = result], c)
           /\ DifferAt([e EXCEPT ![c].result = result], e, c)
           /\ [e EXCEPT ![c].result = result][c].result = result
<1> DEFINE row == [e[c] EXCEPT !.result = result]
           f == [e EXCEPT ![c] = row]
<1>1. row.result = result /\ row.high = e[c].high
    BY DEF Evaluated
<1>2. \A x \in Checks : f[x] = IF x = c THEN row ELSE e[x]
    BY DEF Evaluated
<1> HIDE DEF row, f
<1>3. DifferAt(e, f, c) /\ DifferAt(f, e, c) /\ f[c].result = result
    BY <1>1, <1>2 DEF DifferAt
<1> QED
    BY <1>3 DEF f, row

LEMMA BetterResult ==
    ASSUME NEW e, NEW f, NEW c \in Checks, DifferAt(e, f, c),
           \/ e[c].result \in FindingResults /\ f[c].result = "pass"
           \/ e[c].result = "fail" /\ f[c].result = "warning"
    PROVE  Repaired(e, f)
<1>1. e[c].result \in ScoreBearing /\ f[c].result \in ScoreBearing /\ f[c].result # "fail"
    BY DEF ScoreBearing, FindingResults
<1>2. Factor(e[c].result) <= Factor(f[c].result)
    <2>1. Factor(e[c].result) \in 0..2 /\ Factor(f[c].result) \in 0..2
        BY <1>1, FactorIs
    <2>2. CASE f[c].result = "pass"
        <3>1. Factor(f[c].result) = 2
            BY <2>2, FactorIs DEF ScoreBearing
        <3> QED
            BY <2>1, <3>1
    <2>3. CASE e[c].result = "fail"
        <3>1. Factor(e[c].result) = 0
            BY <2>3, FactorIs DEF ScoreBearing
        <3> QED
            BY <2>1, <3>1
    <2> QED
        BY <2>2, <2>3
<1>3. \A x \in Checks : e[x].result \in ScoreBearing => Factor(e[x].result) <= Factor(e[x].result)
    BY FactorIs
<1> QED
    BY <1>1, <1>2, <1>3 DEF Repaired, DifferAt

\* What an answer to an unknown check adds to its pillar, and to no other one.
LEMMA AnswerAdds ==
    ASSUME NEW e, NEW f, NEW c \in Checks, DifferAt(e, f, c),
           e[c].result = "unknown", f[c].result \in ScoreBearing
    PROVE  /\ \A q : q # PillarOf[c] => Scored(f, q) = Scored(e, q) /\ PillarScore(f, q) = PillarScore(e, q)
           /\ Scored(f, PillarOf[c]) = Scored(e, PillarOf[c]) \cup {c} /\ c \notin Scored(e, PillarOf[c])
           /\ Earned(f, PillarOf[c]) = Earned(e, PillarOf[c]) + Weight[c] * Factor(f[c].result)
           /\ WeightOf(Scored(f, PillarOf[c])) = WeightOf(Scored(e, PillarOf[c])) + Weight[c]
           /\ Earned(e, PillarOf[c]) <= 2 * WeightOf(Scored(e, PillarOf[c]))
<1> DEFINE p == PillarOf[c]
           v(q) == [x \in Scored(e, q) |-> Weight[x] * Factor(e[x].result)]
           w(q) == [x \in Scored(f, q) |-> Weight[x] * Factor(f[x].result)]
<1>1. \A q : q # p => Scored(f, q) = Scored(e, q)
    BY DEF Scored, DifferAt, ScoreBearing
<1>2. Scored(f, p) = Scored(e, p) \cup {c} /\ c \notin Scored(e, p)
    BY DEF Scored, DifferAt, ScoreBearing
<1>3. ASSUME NEW q, q # p PROVE PillarScore(f, q) = PillarScore(e, q)
    <2>1. \A x \in Scored(e, q) : f[x].result = e[x].result
        BY <1>3 DEF Scored, DifferAt
    <2>2. w(q) = v(q)
        BY <1>1, <1>3, <2>1
    <2>3. Earned(f, q) = Earned(e, q)
        BY <2>2 DEF Earned
    <2> QED
        BY <1>1, <1>3, <2>3 DEF PillarScore
<1> DEFINE S == Scored(f, p)
           R == Scored(e, p)
<1>4. /\ S \in SUBSET Checks /\ R \in SUBSET Checks /\ IsFiniteSet(S) /\ IsFiniteSet(R)
      /\ c \in S /\ R = S \ {c}
    BY <1>2, EarnedIs, WeightsAdd
<1>5. /\ Earned(f, p) = SumFunctionOnSet(w(p), S) /\ Earned(e, p) = SumFunctionOnSet(v(p), R)
      /\ (\A x \in S : w(p)[x] \in Nat) /\ (\A x \in R : v(p)[x] \in Nat)
    BY EarnedIs
<1>6. \A x \in R : w(p)[x] = v(p)[x]
    BY <1>2 DEF Scored, DifferAt
<1>7. w(p)[c] = Weight[c] * Factor(f[c].result)
    BY <1>4
<1> HIDE DEF v, w
<1>8. SumFunctionOnSet(w(p), S) = w(p)[c] + SumFunctionOnSet(w(p), S \ {c})
    <2> HIDE DEF S, p
    <2> QED
        BY <1>4, <1>5, SumTakes
<1>9. SumFunctionOnSet(v(p), R) = SumFunctionOnSet(w(p), R)
    <2> HIDE DEF R, p
    <2> QED
        BY <1>4, <1>5, <1>6, SumAgrees
<1>10. Earned(f, p) = Earned(e, p) + Weight[c] * Factor(f[c].result)
    <2>1. Earned(f, p) = w(p)[c] + Earned(e, p)
        BY <1>4, <1>5, <1>8, <1>9
    <2>2. Earned(e, p) \in Nat /\ w(p)[c] \in Nat
        BY <1>4, <1>5, EarnedIs
    <2> QED
        BY <1>7, <2>1, <2>2
<1>11. WeightOf(S) = WeightOf(R) + Weight[c]
    <2>1. \A x \in S : Weight[x] \in Nat
        BY <1>4, WeightsAdd
    <2>2. SumFunctionOnSet(Weight, S) = Weight[c] + SumFunctionOnSet(Weight, S \ {c})
        <3> HIDE DEF S
        <3> QED
            BY <1>4, <2>1, SumTakes
    <2>3. WeightOf(R) \in Nat /\ Weight[c] \in Nat
        BY <1>4, <2>1, WeightsAdd
    <2> QED
        BY <1>4, <2>2, <2>3 DEF WeightOf
<1>12. Earned(e, p) <= 2 * WeightOf(R)
    BY EarnedAtMost
<1> QED
    BY <1>1, <1>2, <1>3, <1>10, <1>11, <1>12

LEMMA PillarOfAnAnswer ==
    ASSUME NEW e, NEW f, NEW c \in Checks, DifferAt(e, f, c),
           e[c].result = "unknown", Scored(e, PillarOf[c]) # {}
    PROVE  /\ f[c].result = "pass" => PillarScore(e, PillarOf[c]) <= PillarScore(f, PillarOf[c])
           /\ f[c].result = "fail" => PillarScore(f, PillarOf[c]) <= PillarScore(e, PillarOf[c])
<1> DEFINE p == PillarOf[c]
           E == Earned(e, p)
           F == Earned(f, p)
           W == WeightOf(Scored(e, p))
           V == WeightOf(Scored(f, p))
           w == Weight[c]
<1> SUFFICES ASSUME f[c].result \in {"pass", "fail"}
             PROVE  /\ f[c].result = "pass" => PillarScore(e, p) <= PillarScore(f, p)
                    /\ f[c].result = "fail" => PillarScore(f, p) <= PillarScore(e, p)
    OBVIOUS
<1>1. /\ F = E + w * Factor(f[c].result) /\ V = W + w /\ E <= 2 * W
      /\ Scored(f, p) = Scored(e, p) \cup {c}
    BY AnswerAdds DEF ScoreBearing
<1>2. E \in Nat /\ F \in Nat /\ W \in Nat \ {0} /\ V \in Nat \ {0} /\ w \in Nat
    BY <1>1, EarnedIs, WeightsAdd, CatalogAssumption
<1>3. /\ f[c].result = "pass" => F = E + 2 * w
      /\ f[c].result = "fail" => F = E
    <2>1. /\ f[c].result = "pass" => Factor(f[c].result) = 2
          /\ f[c].result = "fail" => Factor(f[c].result) = 0
        BY FactorIs DEF ScoreBearing
    <2> HIDE DEF F, E, w
    <2> QED
        BY <1>1, <1>2, <2>1
<1>4. /\ PillarScore(e, p) = RoundTenths(1000 * E, 2 * W)
      /\ PillarScore(f, p) = RoundTenths(1000 * F, 2 * V)
    BY DEF PillarScore
<1> HIDE DEF p, E, F, W, V, w
<1> DEFINE m == 1000 * E
           n == 1000 * F
           d == 2 * W
           g == 2 * V
<1>5. m \in Nat /\ n \in Nat /\ d \in Nat \ {0} /\ g \in Nat \ {0}
    BY <1>2
<1>6. E * w <= w * (2 * W) /\ E * w \in Nat /\ w * W \in Nat /\ E * W \in Nat
    <2>1. w * E <= w * (2 * W)
        BY <1>1, <1>2, ProductsGrow
    <2> QED
        BY <1>2, <2>1
<1>7. m * g = 2000 * (E * W) + 2000 * (E * w)
    <2>1. \A x, y, z \in Nat : (1000 * x) * (2 * (y + z)) = 2000 * (x * y) + 2000 * (x * z)
        OBVIOUS
    <2> QED
        BY <1>1, <1>2, <2>1
<1>8. ASSUME f[c].result = "pass" PROVE m * g <= n * d
    <2>1. n * d = 2000 * (E * W) + 4000 * (w * W)
        <3>1. \A x, y, z \in Nat : (1000 * (x + 2 * y)) * (2 * z) = 2000 * (x * z) + 4000 * (y * z)
            OBVIOUS
        <3>2. (1000 * (E + 2 * w)) * (2 * W) = 2000 * (E * W) + 4000 * (w * W)
            BY <1>2, <3>1
        <3>3. n = 1000 * (E + 2 * w) /\ d = 2 * W
            BY <1>3, <1>8
        <3> HIDE DEF n, d
        <3> QED
            BY <3>2, <3>3
    <2>2. w * (2 * W) = 2 * (w * W)
        BY <1>2
    <2> HIDE DEF m, n, d, g
    <2> QED
        BY <1>6, <1>7, <2>1, <2>2
<1>9. ASSUME f[c].result = "fail" PROVE n * d <= m * g
    <2>1. n * d = 2000 * (E * W)
        <3>1. \A x, z \in Nat : (1000 * x) * (2 * z) = 2000 * (x * z)
            OBVIOUS
        <3> QED
            BY <1>2, <1>3, <1>9, <3>1
    <2> HIDE DEF m, n, d, g
    <2> QED
        BY <1>6, <1>7, <2>1
<1> HIDE DEF m, n, d, g
<1>10. f[c].result = "pass" => RoundTenths(m, d) <= RoundTenths(n, g)
    BY <1>5, <1>8, RoundingFollows
<1>11. f[c].result = "fail" => RoundTenths(n, g) <= RoundTenths(m, d)
    BY <1>5, <1>9, RoundingFollows
<1> QED
    BY <1>4, <1>10, <1>11 DEF m, n, d, g

\* A pillar that only the answer scores has all of its points or none.
LEMMA PillarOfTheAnswer ==
    ASSUME NEW e, NEW f, NEW c \in Checks, DifferAt(e, f, c),
           e[c].result = "unknown", Scored(e, PillarOf[c]) = {}
    PROVE  /\ f[c].result = "pass" => PillarScore(f, PillarOf[c]) = 1000
           /\ f[c].result = "fail" => PillarScore(f, PillarOf[c]) = 0
<1> DEFINE p == PillarOf[c]
<1>1. ASSUME f[c].result \in {"pass", "fail"}
      PROVE  Scored(f, p) = {c} /\ Earned(f, p) = Earned(e, p) + Weight[c] * Factor(f[c].result)
    BY <1>1, AnswerAdds DEF ScoreBearing
<1>2. ASSUME f[c].result = "pass" PROVE PillarScore(f, p) = 1000
    <2>1. Scored(f, p) # {} /\ \A x \in Scored(f, p) : f[x].result = "pass"
        BY <1>1, <1>2
    <2> QED
        BY <2>1, PillarMisses
<1>3. ASSUME f[c].result = "fail" PROVE PillarScore(f, p) = 0
    <2>1. Factor(f[c].result) = 0 /\ Weight[c] \in Nat
        BY <1>3, FactorIs, CatalogAssumption DEF ScoreBearing
    <2>2. Earned(e, p) = 0
        <3>1. IsFiniteSet(Scored(e, p))
            BY EarnedIs, WeightsAdd
        <3>2. Earned(e, p) = SumFunctionOnSet([x \in Scored(e, p) |-> Weight[x] * Factor(e[x].result)],
                                              Scored(e, p))
            BY EarnedIs
        <3> QED
            BY <3>1, <3>2, SumByStep
    <2>3. Earned(f, p) = 0
        BY <1>1, <1>3, <2>1, <2>2
    <2> DEFINE d == 2 * WeightOf(Scored(f, p))
    <2>4. d \in Nat \ {0}
        BY <1>1, <1>3, PillarScoreIs
    <2>5. RoundTenths(0, d) = 0
        <3> HIDE DEF d
        <3>1. 0 * d = 0
            BY <2>4
        <3> QED
            BY <2>4, <3>1, RoundingIsExact
    <2> QED
        BY <2>3, <2>5 DEF PillarScore
<1> QED
    BY <1>2, <1>3

\* The mean of one pillar more: with all of its points the mean does not fall,
\* with none it does not rise.
LEMMA MeanOfOneMore ==
    ASSUME NEW e, NEW f, NEW p \in Pillars \ ScoredPillars(e),
           ScoredPillars(f) = ScoredPillars(e) \cup {p}, Uncapped(e) # NoScore,
           \A q \in ScoredPillars(e) : PillarScore(f, q) = PillarScore(e, q)
    PROVE  /\ Uncapped(e) \in Nat /\ Uncapped(f) \in Nat /\ Uncapped(f) # NoScore
           /\ PillarScore(f, p) = 1000 => Uncapped(e) <= Uncapped(f)
           /\ PillarScore(f, p) = 0 => Uncapped(f) <= Uncapped(e)
<1> DEFINE R == ScoredPillars(e)
           S == ScoredPillars(f)
           v == PillarMarks(e)
           w == PillarMarks(f)
           m == SumFunctionOnSet(v, R)
           n == SumFunctionOnSet(w, S)
           d == SumFunctionOnSet(PillarWeight, R)
           g == SumFunctionOnSet(PillarWeight, S)
           P == PillarWeight[p]
<1>1. R # {} /\ S # {} /\ p \in S /\ R = S \ {p} /\ R \in SUBSET Pillars /\ S \in SUBSET Pillars
    <2>1. R # {}
        BY UncappedIs
    <2>2. R \in SUBSET Pillars /\ S \in SUBSET Pillars
        BY DEF ScoredPillars
    <2>3. S = R \cup {p} /\ p \notin R
        OBVIOUS
    <2> HIDE DEF R, S
    <2> QED
        BY <2>1, <2>2, <2>3
<1>2. /\ IsFiniteSet(R) /\ IsFiniteSet(S) /\ P \in Nat
      /\ (\A q \in S : PillarWeight[q] \in Nat) /\ (\A q \in R : PillarWeight[q] \in Nat)
    BY <1>1, PillarsAdd
<1>3. /\ m \in Nat /\ d \in Nat \ {0} /\ \A q \in R : v[q] \in Nat
      /\ Uncapped(e) = RoundTenths(m, d) /\ Uncapped(e) \in Nat
    BY <1>1, UncappedIs
<1>4. /\ n \in Nat /\ g \in Nat \ {0} /\ \A q \in S : w[q] \in Nat
      /\ Uncapped(f) = RoundTenths(n, g) /\ Uncapped(f) \in Nat /\ Uncapped(f) # NoScore
    BY <1>1, UncappedIs
<1>5. w[p] = P * PillarScore(f, p) /\ \A q \in R : w[q] = v[q]
    BY <1>1 DEF PillarMarks
<1>6. n = m + w[p]
    <2>1. SumFunctionOnSet(w, S) = w[p] + SumFunctionOnSet(w, S \ {p})
        <3> HIDE DEF w, S
        <3> QED
            BY <1>1, <1>2, <1>4, SumTakes
    <2>2. SumFunctionOnSet(v, R) = SumFunctionOnSet(w, R)
        <3> HIDE DEF v, w, R
        <3> QED
            BY <1>2, <1>3, <1>5, SumAgrees
    <2>3. w[p] \in Nat
        BY <1>1, <1>4
    <2> HIDE DEF w
    <2> QED
        BY <1>1, <1>3, <2>1, <2>2, <2>3
<1>7. g = d + P
    <2>1. SumFunctionOnSet(PillarWeight, S) = PillarWeight[p] + SumFunctionOnSet(PillarWeight, S \ {p})
        <3> HIDE DEF S
        <3> QED
            BY <1>1, <1>2, SumTakes
    <2> QED
        BY <1>1, <1>2, <1>3, <2>1
<1>8. m <= 1000 * d
    BY MeanIsBounded
<1> HIDE DEF m, n, d, g, P, v, w, R, S
<1>9. m * g = m * d + m * P /\ m * d \in Int /\ m * P \in Int /\ d * P \in Int
    BY <1>2, <1>3, <1>7
<1>10. ASSUME PillarScore(f, p) = 1000 PROVE m * g <= n * d
    <2>1. n * d = m * d + 1000 * (d * P)
        BY <1>2, <1>3, <1>5, <1>6, <1>10
    <2>2. P * m <= P * (1000 * d)
        BY <1>2, <1>3, <1>8, ProductsGrow
    <2>3. P * m = m * P /\ P * (1000 * d) = 1000 * (d * P)
        BY <1>2, <1>3
    <2> QED
        BY <1>9, <2>1, <2>2, <2>3
<1>11. ASSUME PillarScore(f, p) = 0 PROVE n * d <= m * g
    <2>1. n = m
        BY <1>2, <1>3, <1>5, <1>6, <1>11
    <2>2. m * P \in Nat
        BY <1>2, <1>3
    <2> QED
        BY <1>9, <2>1, <2>2
<1>12. PillarScore(f, p) = 1000 => RoundTenths(m, d) <= RoundTenths(n, g)
    BY <1>3, <1>4, <1>10, RoundingFollows
<1>13. PillarScore(f, p) = 0 => RoundTenths(n, g) <= RoundTenths(m, d)
    BY <1>3, <1>4, <1>11, RoundingFollows
<1> QED
    BY <1>3, <1>4, <1>12, <1>13

\* An answer to an unknown check: a pass does not lower the mean, a failure does
\* not raise it.
LEMMA MeanOfAnAnswer ==
    ASSUME NEW e, NEW f, NEW c \in Checks, DifferAt(e, f, c), DifferAt(f, e, c),
           e[c].result = "unknown", f[c].result \in {"pass", "fail"}, Uncapped(e) # NoScore
    PROVE  /\ Uncapped(e) \in Nat /\ Uncapped(f) \in Nat /\ Uncapped(f) # NoScore
           /\ f[c].result = "pass" => Uncapped(e) <= Uncapped(f)
           /\ f[c].result = "fail" => Uncapped(f) <= Uncapped(e)
<1> DEFINE p == PillarOf[c]
<1>1. /\ \A q : q # p => Scored(f, q) = Scored(e, q) /\ PillarScore(f, q) = PillarScore(e, q)
      /\ Scored(f, p) = Scored(e, p) \cup {c} /\ p \in Pillars
    BY AnswerAdds, CatalogAssumption DEF ScoreBearing
<1>2. Uncapped(e) \in Nat
    BY UncappedIs
<1>3. CASE Scored(e, p) = {}
    <2>1. p \in Pillars \ ScoredPillars(e) /\ ScoredPillars(f) = ScoredPillars(e) \cup {p}
        BY <1>1, <1>3 DEF ScoredPillars
    <2>2. \A q \in ScoredPillars(e) : PillarScore(f, q) = PillarScore(e, q)
        BY <1>1, <2>1
    <2>3. /\ f[c].result = "pass" => PillarScore(f, p) = 1000
          /\ f[c].result = "fail" => PillarScore(f, p) = 0
        BY <1>3, PillarOfTheAnswer
    <2> HIDE DEF p
    <2>4. /\ Uncapped(f) \in Nat /\ Uncapped(f) # NoScore
          /\ PillarScore(f, p) = 1000 => Uncapped(e) <= Uncapped(f)
          /\ PillarScore(f, p) = 0 => Uncapped(f) <= Uncapped(e)
        BY <2>1, <2>2, MeanOfOneMore
    <2> QED
        BY <1>2, <2>3, <2>4
<1>4. CASE Scored(e, p) # {}
    <2>1. ScoredPillars(f) = ScoredPillars(e)
        BY <1>1, <1>4 DEF ScoredPillars
    <2>2. /\ f[c].result = "pass" => PillarScore(e, p) <= PillarScore(f, p)
          /\ f[c].result = "fail" => PillarScore(f, p) <= PillarScore(e, p)
        BY <1>4, PillarOfAnAnswer
    <2>3. \A q \in ScoredPillars(e) : PillarScore(e, q) \in Nat /\ PillarScore(f, q) \in Nat
        BY <2>1, PillarScoreIs DEF ScoredPillars
    <2>4. /\ f[c].result = "pass" =>
                \A q \in ScoredPillars(e) : PillarScore(e, q) <= PillarScore(f, q)
          /\ f[c].result = "fail" =>
                \A q \in ScoredPillars(f) : PillarScore(f, q) <= PillarScore(e, q)
        <3>1. ASSUME NEW q \in ScoredPillars(e), q # p
              PROVE  PillarScore(e, q) <= PillarScore(f, q) /\ PillarScore(f, q) <= PillarScore(e, q)
            BY <1>1, <2>3, <3>1
        <3> QED
            BY <2>1, <2>2, <3>1
    <2>5. CASE f[c].result = "pass"
        <3>1. Uncapped(f) # NoScore /\ Uncapped(f) \in Nat /\ Uncapped(e) <= Uncapped(f)
            BY <2>1, <2>4, <2>5, MeanFollows
        <3> QED
            BY <1>2, <2>5, <3>1
    <2>6. CASE f[c].result = "fail"
        <3>1. Uncapped(f) # NoScore /\ Uncapped(f) \in Nat /\ Uncapped(f) <= Uncapped(e)
            BY <2>1, <2>4, <2>6, MeanFollows
        <3> QED
            BY <1>2, <2>6, <3>1
    <2> QED
        BY <2>5, <2>6
<1> QED
    BY <1>3, <1>4

\* And so for the score.
LEMMA AnswersAreNoNews ==
    ASSUME NEW e, NEW f, NEW c \in Checks, DifferAt(e, f, c), DifferAt(f, e, c),
           e[c].result = "unknown", f[c].result \in {"pass", "fail"}, Uncapped(e) # NoScore
    PROVE  /\ f[c].result = "pass" => Score(e) <= Score(f)
           /\ f[c].result = "fail" => Score(f) <= Score(e)
<1>1. /\ Uncapped(e) \in Nat /\ Uncapped(f) \in Nat /\ Uncapped(f) # NoScore
      /\ f[c].result = "pass" => Uncapped(e) <= Uncapped(f)
      /\ f[c].result = "fail" => Uncapped(f) <= Uncapped(e)
    BY MeanOfAnAnswer
<1>2. /\ f[c].result = "pass" => AppliedCaps(f) \subseteq AppliedCaps(e)
      /\ f[c].result = "fail" => AppliedCaps(e) \subseteq AppliedCaps(f)
    BY CatalogAssumption DEF AppliedCaps, Triggering, DifferAt
<1> QED
    BY <1>1, <1>2, ScoreFollows

LEMMA ScoreOfOneCheck ==
    ASSUME NEW e \in Evaluated, NEW c \in Checks
    PROVE  /\ e[c].result \in {"fail", "warning", "unknown"} =>
                 Score([e EXCEPT ![c].result = "pass"]) >= Score(e)
           /\ e[c].result \in {"warning", "unknown"} /\ Score(e) # NoScore =>
                 Score([e EXCEPT ![c].result = "fail"]) <= Score(e)
<1> DEFINE f == [e EXCEPT ![c].result = "pass"]
           g == [e EXCEPT ![c].result = "fail"]
<1>1. DifferAt(e, f, c) /\ DifferAt(f, e, c) /\ f[c].result = "pass"
    BY OneResultChanged
<1>2. DifferAt(e, g, c) /\ DifferAt(g, e, c) /\ g[c].result = "fail"
    BY OneResultChanged
<1> HIDE DEF f, g
<1>3. Score(e) \in Int /\ Score(f) \in Int /\ Score(g) \in Int /\ Score(f) >= NoScore
    BY ScoresAreNumbers DEF NoScore
<1>4. Score(e) # NoScore => Uncapped(e) # NoScore
    BY DEF Score
<1>5. ASSUME e[c].result \in {"fail", "warning"} PROVE Score(f) >= Score(e)
    BY <1>1, <1>5, BetterResult, RepairsNeverCost DEF FindingResults
<1>6. ASSUME e[c].result = "unknown" PROVE Score(f) >= Score(e)
    <2>1. CASE Uncapped(e) = NoScore
        <3>1. Score(e) = NoScore
            BY <2>1 DEF Score
        <3> QED
            BY <1>3, <3>1
    <2>2. CASE Uncapped(e) # NoScore
        <3>1. Score(e) <= Score(f)
            BY <1>1, <1>6, <2>2, AnswersAreNoNews
        <3> QED
            BY <1>3, <3>1
    <2> QED
        BY <2>1, <2>2
<1>7. ASSUME e[c].result = "warning" PROVE Score(g) <= Score(e)
    <2>1. Score(e) >= Score(g)
        BY <1>2, <1>7, BetterResult, RepairsNeverCost
    <2> QED
        BY <1>3, <2>1
<1>8. ASSUME e[c].result = "unknown", Score(e) # NoScore PROVE Score(g) <= Score(e)
    BY <1>2, <1>4, <1>8, AnswersAreNoNews
<1>9. /\ e[c].result \in {"fail", "warning", "unknown"} => Score(f) >= Score(e)
      /\ e[c].result \in {"warning", "unknown"} /\ Score(e) # NoScore => Score(g) <= Score(e)
    BY <1>5, <1>6, <1>7, <1>8
<1> QED
    BY <1>9 DEF f, g

\* The coverage of a subject, put as the weight of what stayed unknown.
LEMMA CoverageLeavesUnknown ==
    ASSUME NEW e, Sufficient(e)
    PROVE  LET applicable == {c \in Checks : e[c].result # "not_applicable"}
               unknown == {c \in applicable : e[c].result = "unknown"}
           IN  2000 * WeightOf(unknown) <= (2001 - 20 * MinCoverage) * WeightOf(applicable)
<1> DEFINE all == Applicable(e)
           known == Completed(e)
           unknown == {c \in all : e[c].result = "unknown"}
           A == WeightOf(all)
           K == WeightOf(known)
           U == WeightOf(unknown)
<1>1. all \in SUBSET Checks /\ known \in SUBSET all /\ unknown = all \ known
    BY DEF Applicable, Completed, CoverageReducing
<1>2. A \in Nat /\ K \in Nat /\ U \in Nat /\ (all # {} => A # 0)
    BY <1>1, WeightsAdd
<1>3. A = K + U
    <2>1. IsFiniteSet(all) /\ \A c \in all : Weight[c] \in Nat
        BY <1>1, WeightsAdd
    <2>2. SumFunctionOnSet(Weight, all) = SumFunctionOnSet(Weight, known) + SumFunctionOnSet(Weight, all \ known)
        BY <1>1, <2>1, SumOfParts
    <2> QED
        BY <1>1, <2>2 DEF WeightOf
<1>4. MinCoverage \in Nat /\ Coverage(e) >= 10 * MinCoverage
    BY CatalogAssumption DEF Sufficient
<1>5. CASE all = {}
    <2>1. Coverage(e) = 0 /\ U = A
        BY <1>1, <1>5 DEF Coverage
    <2>2. MinCoverage = 0
        BY <1>4, <2>1
    <2>3. A = 0 /\ U = 0
        <3>1. A = WeightOf({}) /\ IsFiniteSet({})
            BY <1>5, FS_EmptySet
        <3>2. SumFunctionOnSet(Weight, {}) = 0
            BY <3>1, SumByStep
        <3> QED
            BY <2>1, <3>1, <3>2 DEF WeightOf
    <2>4. 2000 * U <= (2001 - 20 * MinCoverage) * A
        BY <2>2, <2>3
    <2> QED
        BY <2>4 DEF Applicable
<1>6. CASE all # {}
    <2> DEFINE m == 1000 * K
               t == RoundTenths(m, A)
    <2>1. m \in Nat /\ A \in Nat \ {0}
        BY <1>2, <1>6
    <2>2. t \in Nat /\ 2 * (A * t) <= 2 * m + A
        <3> HIDE DEF m, A
        <3> QED
            BY <2>1, RoundsUpOrDown, RoundingIsClose
    <2>3. t >= 10 * MinCoverage
        BY <1>4, <1>6 DEF Coverage
    <2> HIDE DEF t, A, K, U
    <2>4. A * (10 * MinCoverage) <= A * t
        <3>1. 10 * MinCoverage \in Int
            BY <1>4
        <3> QED
            BY <2>1, <2>2, <2>3, <3>1, ProductsGrow
    <2>5. A * (10 * MinCoverage) = 10 * (A * MinCoverage) /\ A * MinCoverage \in Int /\ A * t \in Int
        BY <1>4, <2>1, <2>2
    <2>6. 2000 * U <= 2001 * A - 20 * (A * MinCoverage)
        BY <1>2, <1>3, <2>2, <2>4, <2>5
    <2>7. (2001 - 20 * MinCoverage) * A = 2001 * A - 20 * (A * MinCoverage)
        BY <1>2, <1>4
    <2>8. 2000 * U <= (2001 - 20 * MinCoverage) * A
        BY <2>6, <2>7
    <2> QED
        BY <2>8 DEF A, U, Applicable
<1> QED
    BY <1>5, <1>6

LEMMA CoverageIsBounded ==
    ASSUME NEW e
    PROVE  Coverage(e) \in 0..1000
<1> DEFINE all == Applicable(e)
           known == Completed(e)
           A == WeightOf(all)
           K == WeightOf(known)
<1>1. all \in SUBSET Checks /\ known \in SUBSET all /\ known \in SUBSET Checks /\ all \ known \in SUBSET Checks
    BY DEF Applicable, Completed
<1>2. A \in Nat /\ K \in Nat /\ WeightOf(all \ known) \in Nat /\ (all # {} => A # 0)
    BY <1>1, WeightsAdd
<1>3. K <= A
    <2>1. IsFiniteSet(all) /\ \A c \in all : Weight[c] \in Nat
        BY <1>1, WeightsAdd
    <2>2. A = K + WeightOf(all \ known)
        <3> HIDE DEF all, known
        <3> QED
            BY <1>1, <2>1, SumOfParts DEF WeightOf
    <2> HIDE DEF A, K
    <2> QED
        BY <1>2, <2>2
<1>4. CASE all = {}
    BY <1>4 DEF Coverage
<1>5. CASE all # {}
    <2> DEFINE m == 1000 * K
               n == 1000 * A
    <2>1. m \in Nat /\ n \in Nat /\ m <= n /\ A \in Nat \ {0}
        BY <1>2, <1>3, <1>5
    <2>2. RoundTenths(n, A) = 1000
        <3> HIDE DEF A
        <3> QED
            BY <2>1, RoundingIsExact
    <2>3. RoundTenths(m, A) \in Nat /\ RoundTenths(m, A) <= RoundTenths(n, A)
        <3> HIDE DEF m, n, A
        <3> QED
            BY <2>1, RoundsUpOrDown, RoundingGrows
    <2>4. Coverage(e) = RoundTenths(m, A)
        BY <1>5 DEF Coverage
    <2> HIDE DEF m, n, A
    <2> QED
        BY <2>2, <2>3, <2>4
<1> QED
    BY <1>4, <1>5

\* With nothing to complain about no point is missing.
LEMMA NothingIsMissing ==
    ASSUME NEW e, Uncapped(e) # NoScore, \A c \in Checks : e[c].result \notin FindingResults
    PROVE  Score(e) = 1000
<1> DEFINE S == ScoredPillars(e)
           v == PillarMarks(e)
           whole == SumFunctionOnSet(PillarWeight, S)
<1>1. S # {} /\ S \in SUBSET Pillars
    BY UncappedIs DEF ScoredPillars
<1>2. /\ IsFiniteSet(S) /\ whole \in Nat \ {0} /\ \A p \in S : PillarWeight[p] \in Nat
      /\ Uncapped(e) = RoundTenths(SumFunctionOnSet(v, S), whole) /\ Uncapped(e) \in Nat
    BY <1>1, PillarsAdd, UncappedIs
<1>3. \A p \in S : v[p] = 1000 * PillarWeight[p]
    <2> SUFFICES ASSUME NEW p \in S PROVE PillarWeight[p] * PillarScore(e, p) = 1000 * PillarWeight[p]
        BY DEF PillarMarks
    <2>1. Scored(e, p) # {}
        BY DEF ScoredPillars
    <2>2. \A c \in Scored(e, p) : e[c].result = "pass"
        BY DEF Scored, ScoreBearing, FindingResults
    <2>3. PillarScore(e, p) = 1000
        BY <2>1, <2>2, PillarMisses
    <2> QED
        BY <1>2, <2>3
<1>4. SumFunctionOnSet(v, S) = 1000 * whole
    <2> HIDE DEF v, S
    <2> QED
        BY <1>2, <1>3, SumScales
<1>5. Uncapped(e) = 1000
    BY <1>2, <1>4, RoundingIsExact
<1>6. AppliedCaps(e) = {}
    BY CatalogAssumption DEF AppliedCaps, Triggering, FindingResults
<1>7. Capped(1000, AppliedCaps(e)) = 1000
    BY <1>6, CappedIs
<1> QED
    BY <1>5, <1>7 DEF Score, NoScore

\* A warning or a failure of any check lowers the score, where every finding counts.
LEMMA FindingsCost ==
    ASSUME EveryFindingCounts, NEW e, Uncapped(e) # NoScore,
           NEW c \in Checks, e[c].result \in FindingResults
    PROVE  Score(e) \in Nat /\ Score(e) < 1000
<1> DEFINE S == ScoredPillars(e)
           v == PillarMarks(e)
           whole == SumFunctionOnSet(PillarWeight, S)
           total == SumFunctionOnSet(v, S)
           all == SumFunctionOnSet(PillarWeight, Pillars)
           p == PillarOf[c]
           W == WeightOf(Scored(e, p))
           heavy == WeightOf({x \in Checks : PillarOf[x] = p})
           t == PillarScore(e, p)
           u == Uncapped(e)
           P == PillarWeight[p]
           w == Weight[c]
<1>1. c \in Scored(e, p) /\ p \in S /\ S \in SUBSET Pillars /\ e[c].result # "pass"
    BY CatalogAssumption DEF Scored, ScoredPillars, ScoreBearing, FindingResults
<1>2. /\ IsFiniteSet(S) /\ whole \in Nat \ {0} /\ \A q \in S : PillarWeight[q] \in Nat
      /\ u = RoundTenths(total, whole) /\ u \in Nat /\ total \in Nat
      /\ \A q \in S : v[q] \in Nat
    BY <1>1, PillarsAdd, UncappedIs
<1>3. w \in Nat \ {0} /\ P \in Nat \ {0}
    BY <1>1, CatalogAssumption
<1>4. W \in Nat \ {0} /\ heavy \in Nat /\ W <= heavy
    <2> DEFINE H == {x \in Checks : PillarOf[x] = p}
    <2>1. H \in SUBSET Checks /\ Scored(e, p) \in SUBSET H /\ Scored(e, p) \in SUBSET Checks
        BY DEF Scored
    <2>2. /\ IsFiniteSet(H) /\ (\A x \in H : Weight[x] \in Nat) /\ heavy \in Nat /\ W \in Nat \ {0}
          /\ WeightOf(H \ Scored(e, p)) \in Nat
        BY <1>1, <2>1, WeightsAdd
    <2>3. WeightOf(H) = W + WeightOf(H \ Scored(e, p))
        <3> HIDE DEF H
        <3> QED
            BY <2>1, <2>2, SumOfParts DEF WeightOf
    <2> HIDE DEF W
    <2> QED
        BY <2>2, <2>3
<1>5. all \in Nat /\ whole <= all
    <2>1. /\ IsFiniteSet(Pillars) /\ (\A q \in Pillars : PillarWeight[q] \in Nat) /\ all \in Nat
          /\ SumFunctionOnSet(PillarWeight, Pillars \ S) \in Nat
        BY PillarsAdd
    <2>2. all = whole + SumFunctionOnSet(PillarWeight, Pillars \ S)
        <3> HIDE DEF S
        <3> QED
            BY <1>1, <2>1, SumOfParts
    <2> HIDE DEF all, whole
    <2> QED
        BY <1>2, <2>1, <2>2
<1>6. P * (1000 * w - heavy) > heavy * all
    BY DEF EveryFindingCounts
<1>7. t \in Nat /\ t <= 1000 /\ 2 * (W * (1000 - t)) >= 1000 * w - W
    BY <1>1, PillarMisses
<1>8. total + 1000 * P <= 1000 * whole + P * t
    <2>1. \A q \in S : v[q] = PillarWeight[q] * PillarScore(e, q) /\ v[q] <= 1000 * PillarWeight[q]
        BY PointsOfAPillar
    <2>2. SumFunctionOnSet(v, S) + 1000 * PillarWeight[p] <= 1000 * SumFunctionOnSet(PillarWeight, S) + v[p]
        <3> HIDE DEF v, S, p
        <3> QED
            BY <1>1, <1>2, <2>1, SumMisses
    <2> QED
        BY <1>1, <2>1, <2>2
<1>9. 2 * (whole * u) <= 2 * total + whole
    <2> HIDE DEF whole, total, u
    <2> QED
        BY <1>2, RoundingIsClose
<1> HIDE DEF S, v, whole, total, all, p, W, heavy, t, u, P, w
<1>10. u < 1000
    <2> DEFINE short == 1000 - t
    <2>1. short \in Nat
        BY <1>7
    <2>2. P * t = 1000 * P - P * short /\ P * short \in Nat
        BY <1>3, <1>7
    <2>3. 2 * total <= 2000 * whole - 2 * (P * short)
        BY <1>2, <1>3, <1>8, <2>2
    <2> SUFFICES ASSUME 1000 <= u PROVE FALSE
        BY <1>2
    <2>4. whole * 1000 <= whole * u /\ whole * u \in Int
        BY <1>2, ProductsGrow
    <2>5. 2 * (P * short) <= whole
        BY <1>2, <1>9, <2>2, <2>3, <2>4
    <2>6. W * (2 * (P * short)) <= W * whole
        BY <1>2, <1>4, <2>2, <2>5, ProductsGrow
    <2>7. P * (1000 * w - W) <= P * (2 * (W * short))
        <3>1. W * short \in Int /\ 1000 * w - W \in Int
            BY <1>3, <1>4, <2>1
        <3> QED
            BY <1>3, <1>7, <3>1, ProductsGrow
    <2>8. P * (2 * (W * short)) = W * (2 * (P * short))
        BY <1>3, <1>4, <2>1
    <2>9. P * (1000 * w - heavy) <= P * (1000 * w - W)
        BY <1>3, <1>4, ProductsGrow
    <2>10. W * whole <= heavy * all
        <3>1. W * whole <= W * all
            BY <1>2, <1>4, <1>5, ProductsGrow
        <3>2. all * W <= all * heavy
            BY <1>4, <1>5, ProductsGrow
        <3>3. all * W = W * all /\ all * heavy = heavy * all
            BY <1>4, <1>5
        <3>4. W * all <= heavy * all
            BY <3>2, <3>3
        <3>5. W * whole \in Int /\ W * all \in Int /\ heavy * all \in Int
            BY <1>2, <1>4, <1>5
        <3> QED
            BY <3>1, <3>4, <3>5
    <2> DEFINE a == P * (1000 * w - heavy)
               b == P * (1000 * w - W)
               x == W * (2 * (P * short))
               y == W * whole
               z == heavy * all
    <2>11. a \in Int /\ b \in Int /\ x \in Int /\ y \in Int /\ z \in Int
        BY <1>2, <1>3, <1>4, <1>5, <2>1
    <2>12. a <= b /\ b <= x /\ x <= y /\ y <= z /\ a > z
        BY <1>6, <2>6, <2>7, <2>8, <2>9, <2>10
    <2> HIDE DEF a, b, x, y, z
    <2> QED
        BY <2>11, <2>12
<1>11. u # NoScore /\ Score(e) = Capped(u, AppliedCaps(e))
    BY DEF u, Score
<1>12. AppliedCaps(e) \subseteq Caps
    BY DEF AppliedCaps
<1>13. Capped(u, AppliedCaps(e)) \in Nat /\ Capped(u, AppliedCaps(e)) <= u
    BY <1>2, <1>12, CappedIs
<1> QED
    BY <1>2, <1>10, <1>11, <1>13

(***************************************************************************)
(* What is promised of the scores of the runs.                             *)
(***************************************************************************)
\* What is scored is an evaluation of every check.
LEMMA SnapshotsAreEvaluations == FindingsInv => SnapshotEvidence \subseteq Evaluated
<1> SUFFICES ASSUME FindingsInv, NEW r \in Runs, run[r].pc = "stored"
             PROVE  run[r].evidence \in Evaluated
    BY DEF SnapshotEvidence
<1>1. run[r].evidence \in Evidence[Aim[r]] /\ Aim[r] \in Domains
    BY RunsAreNumbers DEF FindingsInv, RowsInv
<1> QED
    BY <1>1, FindingsAssumption DEF Evaluated

\* Whatever the weights, the pillars and the caps are, and although the mean is rounded
\* twice: a check that turns out to pass never lowers the score, one that turns out to
\* fail never raises it. (score_pillar, compute_score, applicable_caps)
THEOREM ScoresFollowTheChecks == Spec => []ScoreFollowsTheChecks
<1>1. FindingsInv => ScoreFollowsTheChecks
    BY SnapshotsAreEvaluations, ScoreOfOneCheck DEF ScoreFollowsTheChecks
<1> QED
    BY <1>1, FindingsHold, PTL

\* The table of the snapshots refuses none of them: no rounding leaves the range of its
\* constraints, and no cap raises a score. (compute_score, migration 0006)
THEOREM SnapshotsFit == Spec => []SnapshotsFitTheirTable
<1>1. SnapshotsFitTheirTable
    BY ScoresAreNumbers, CoverageIsBounded DEF SnapshotsFitTheirTable
<1> QED
    BY <1>1, PTL

\* A band is only given where enough of what applies was determined, to half a tenth
\* of a per cent. (compute_coverage, compute_score)
THEOREM BandsAreEarned == Spec => []BandIsEarned
<1>1. BandIsEarned
    <2>1. \A e : SnapshotBands(e) # {"insufficient_coverage"} => Sufficient(e)
        BY DEF SnapshotBands
    <2> QED
        BY <2>1, CoverageLeavesUnknown DEF BandIsEarned
<1> QED
    BY <1>1, PTL

\* The score of the newest run and the list of findings tell the same story: a point
\* is missing exactly when something is listed, and a cap goes back to a listed
\* failure. (compute_score, applicable_caps, reconcile, save_findings)
THEOREM ScoresAreExplained ==
    ASSUME EveryFindingCounts
    PROVE  Spec => []ScoreIsExplained
<1>1. FindingsInv => ScoreIsExplained
    <2> SUFFICES ASSUME FindingsInv, NEW d \in Domains, Orderly(d), Score(Latest(d)) # NoScore
                 PROVE  /\ Score(Latest(d)) < 1000 <=> ListedOn(d) # {}
                        /\ \A cap \in AppliedCaps(Latest(d)) :
                              \E f \in ListedOn(d) : f[2] \in cap.checks /\ f[3] = "fail"
        BY DEF ScoreIsExplained
    <2> DEFINE e == Latest(d)
    <2>1. /\ \A c \in Checks : e[c].result \in FindingResults => << d, c, e[c].result >> \in ListedOn(d)
          /\ \A f \in ListedOn(d) : e[f[2]].result = f[3] /\ f[2] \in Checks /\ f[3] \in FindingResults
        BY FindingsAreListed DEF FailingChecksAreListed, ListedFindingsWereFound, ListedOn, Fingerprints
    <2>2. Uncapped(e) # NoScore
        BY DEF Score
    <2>3. ASSUME \A c \in Checks : e[c].result \notin FindingResults
          PROVE  Score(e) = 1000 /\ ListedOn(d) = {}
        BY <2>1, <2>2, <2>3, NothingIsMissing
    <2>4. ASSUME NEW c \in Checks, e[c].result \in FindingResults
          PROVE  Score(e) < 1000 /\ ListedOn(d) # {}
        <3>1. << d, c, e[c].result >> \in ListedOn(d)
            BY <2>1, <2>4
        <3> HIDE DEF e
        <3>2. Score(e) < 1000
            BY <2>2, <2>4, FindingsCost
        <3> QED
            BY <3>1, <3>2
    <2>5. ASSUME NEW cap \in AppliedCaps(e)
          PROVE  \E f \in ListedOn(d) : f[2] \in cap.checks /\ f[3] = "fail"
        <3>1. PICK c \in cap.checks : e[c].result = "fail" /\ c \in Checks
            BY CatalogAssumption DEF AppliedCaps, Triggering
        <3>2. << d, c, "fail" >> \in ListedOn(d)
            BY <2>1, <3>1 DEF FindingResults
        <3> QED
            BY <3>1, <3>2
    <2>6. Score(e) < 1000 <=> ListedOn(d) # {}
        BY <2>3, <2>4
    <2> QED
        BY <2>5, <2>6
<1> QED
    BY <1>1, FindingsHold, PTL

(***************************************************************************)
(* Evidence.  Every verdict is that of the answers of one assessment: the  *)
(* proofs follow an answer from its collector through normalization to the *)
(* rules of the catalogue.                                                 *)
(***************************************************************************)
(***************************************************************************)
(* Answers.                                                                *)
(***************************************************************************)
LEMMA AnswerOf ==
    ASSUME NEW d, NEW L, NEW q \in Questions
    PROVE  /\ Answered(Answers(d, L), q) <=> q \notin L
           /\ q \notin L => Value(Answers(d, L), q) = d[q]
BY DEF Answered, Value, Answers

\* What an assessment asks, as far as a verdict may rest on it.
LEMMA Asks ==
    /\ DnsQuestions \subseteq Questions /\ EmailLookups \subseteq Questions
    /\ \A q \in {PolicyFile, Handshake, ProtocolProbing, Plaintext, Secure, Rdap, CtIndex} :
          q \in Questions
    /\ \A v \in Protocols : <<"protocol", v>> \in Questions
    /\ \A p \in Ports : <<"ports", p>> \in Questions
    /\ \A h \in MailHosts : <<"mail_tls", h>> \in Questions
    /\ \A p \in Providers : <<"reputation", p>> \in Questions
    /\ \A s \in Selectors : <<"dkim", s>> \in Questions
    /\ \A n \in EmailNames : <<"email", n>> \in Questions
    /\ \A x \in {"soa", "ns", "a", "caa", "dnskey", "ds", "wildcard"} : <<"dns", x>> \in Questions
<1>1. AskedQuestions \subseteq Questions
    BY EvidenceAssumption
<1>2. DnsQuestions \subseteq Questions /\ EmailLookups \subseteq Questions
    BY <1>1 DEF AskedQuestions
<1>3. \A x \in {"soa", "ns", "a", "caa", "dnskey", "ds", "wildcard"} : <<"dns", x>> \in Questions
    BY <1>2 DEF DnsQuestions
<1>4. \A n \in EmailNames : <<"email", n>> \in Questions
    BY <1>2 DEF EmailLookups
<1>5. \A s \in Selectors : <<"dkim", s>> \in Questions
    BY <1>2 DEF EmailLookups, DkimQuestions
<1>6. /\ \A v \in Protocols : <<"protocol", v>> \in Questions
      /\ \A p \in Ports : <<"ports", p>> \in Questions
      /\ \A h \in MailHosts : <<"mail_tls", h>> \in Questions
      /\ \A p \in Providers : <<"reputation", p>> \in Questions
    BY <1>1 DEF AskedQuestions, ProbeQuestions
<1>7. \A q \in {PolicyFile, Handshake, ProtocolProbing, Plaintext, Secure, Rdap, CtIndex} :
          q \in Questions
    BY <1>1 DEF AskedQuestions
<1> QED
    BY <1>2, <1>3, <1>4, <1>5, <1>6, <1>7

(***************************************************************************)
(* Collection and normalization, type by type.                             *)
(***************************************************************************)
LEMMA Collected ==
    ASSUME NEW a, NEW m, NEW probe
    PROVE  LET c == Collect(a, m, probe)
           IN  /\ c["dns"] = CollectDns(a) /\ c["email"] = CollectEmail(a)
               /\ c["tls"] = CollectTls(a, probe) /\ c["http"] = CollectHttp(a)
               /\ c["rdap"] = CollectRdap(a) /\ c["ct"] = CollectCt(a)
               /\ c["mail_tls"] = CollectMailTransport(a, MailHostsOf(CollectEmail(a)))
               /\ m # PassiveMode => "ports" \in DOMAIN c /\ c["ports"] = CollectPorts(a)
               /\ Providers # {} =>
                     "reputation" \in DOMAIN c /\ c["reputation"] = CollectReputation(a)
<1> DEFINE c == Collect(a, m, probe)
<1>1. DOMAIN c = CollectorNames \ SkippedIn(m)
      /\ \A n \in CollectorNames \ SkippedIn(m) : c[n] = CollectOne(n, a, probe)
    BY DEF Collect
<1> HIDE DEF c
<1>2. \A n \in {"dns", "email", "tls", "http", "rdap", "ct", "mail_tls"} :
          n \in CollectorNames \ SkippedIn(m)
    BY DEF CollectorNames, SkippedIn
<1>3. /\ m # PassiveMode => "ports" \in CollectorNames \ SkippedIn(m)
      /\ Providers # {} => "reputation" \in CollectorNames \ SkippedIn(m)
    BY DEF CollectorNames, SkippedIn
<1>4. /\ c["dns"] = CollectDns(a) /\ c["email"] = CollectEmail(a)
      /\ c["tls"] = CollectTls(a, probe) /\ c["http"] = CollectHttp(a)
    BY <1>1, <1>2 DEF CollectOne
<1>5. /\ c["rdap"] = CollectRdap(a) /\ c["ct"] = CollectCt(a)
      /\ c["mail_tls"] = CollectMailTransport(a, MailHostsOf(CollectEmail(a)))
    BY <1>1, <1>2 DEF CollectOne
<1>6. /\ m # PassiveMode => "ports" \in DOMAIN c /\ c["ports"] = CollectPorts(a)
      /\ Providers # {} => "reputation" \in DOMAIN c /\ c["reputation"] = CollectReputation(a)
    BY <1>1, <1>3 DEF CollectOne
<1> QED
    BY <1>4, <1>5, <1>6 DEF c

LEMMA NormalizedByType ==
    ASSUME NEW c
    PROVE  /\ \A t \in DnsTypes :
                 t \in DOMAIN Normalize(c) /\ Normalize(c)[t] = NormalizeDns(c["dns"])[t]
           /\ \A t \in EmailTypes :
                 t \in DOMAIN Normalize(c) /\ Normalize(c)[t] = NormalizeEmail(c["email"])[t]
           /\ \A t \in TlsTypes :
                 t \in DOMAIN Normalize(c) /\ Normalize(c)[t] = NormalizeTls(c["tls"])[t]
           /\ \A t \in HttpTypes :
                 t \in DOMAIN Normalize(c) /\ Normalize(c)[t] = NormalizeHttp(c["http"])[t]
<1>1. DOMAIN Normalize(c) = ObservedTypes(c)
      /\ \A t \in ObservedTypes(c) : Normalize(c)[t] = NormalizeType(t, c)
    BY DEF Normalize
<1>2. \A t \in DnsTypes \cup EmailTypes \cup TlsTypes \cup HttpTypes : t \in ObservedTypes(c)
    BY DEF ObservedTypes
<1> DEFINE alone == {"rdap.registration", "assets.candidates", "network.attribution",
                     "mail.transport_security", "surface.ports", "reputation.domain"}
<1>3. ASSUME NEW t \in DnsTypes PROVE NormalizeType(t, c) = NormalizeDns(c["dns"])[t]
    <2>1. t \notin EmailTypes /\ t \notin TlsTypes /\ t \notin HttpTypes /\ t \notin alone
        BY DEF DnsTypes, EmailTypes, TlsTypes, HttpTypes
    <2> QED
        BY <2>1 DEF NormalizeType
<1>4. ASSUME NEW t \in EmailTypes PROVE NormalizeType(t, c) = NormalizeEmail(c["email"])[t]
    <2>1. t \notin DnsTypes /\ t \notin TlsTypes /\ t \notin HttpTypes /\ t \notin alone
        BY DEF DnsTypes, EmailTypes, TlsTypes, HttpTypes
    <2> QED
        BY <2>1 DEF NormalizeType
<1>5. ASSUME NEW t \in TlsTypes PROVE NormalizeType(t, c) = NormalizeTls(c["tls"])[t]
    <2>1. t \notin DnsTypes /\ t \notin EmailTypes /\ t \notin HttpTypes /\ t \notin alone
        BY DEF DnsTypes, EmailTypes, TlsTypes, HttpTypes
    <2> QED
        BY <2>1 DEF NormalizeType
<1>6. ASSUME NEW t \in HttpTypes PROVE NormalizeType(t, c) = NormalizeHttp(c["http"])[t]
    <2>1. t \notin DnsTypes /\ t \notin EmailTypes /\ t \notin TlsTypes /\ t \notin alone
        BY DEF DnsTypes, EmailTypes, TlsTypes, HttpTypes
    <2> QED
        BY <2>1 DEF NormalizeType
<1> QED
    BY <1>1, <1>2, <1>3, <1>4, <1>5, <1>6

LEMMA NormalizedAlone ==
    ASSUME NEW c
    PROVE  /\ "rdap.registration" \in DOMAIN Normalize(c)
           /\ Normalize(c)["rdap.registration"] = NormalizeRdap(c["rdap"])
           /\ "assets.candidates" \in DOMAIN Normalize(c)
           /\ Normalize(c)["assets.candidates"] = NormalizeCt(c["ct"])
           /\ "mail.transport_security" \in DOMAIN Normalize(c)
           /\ Normalize(c)["mail.transport_security"] = NormalizeMailTransport(c["mail_tls"])
           /\ "ports" \in DOMAIN c =>
                 /\ "surface.ports" \in DOMAIN Normalize(c)
                 /\ Normalize(c)["surface.ports"] = NormalizePorts(c["ports"])
           /\ "reputation" \in DOMAIN c =>
                 /\ "reputation.domain" \in DOMAIN Normalize(c)
                 /\ Normalize(c)["reputation.domain"] = NormalizeReputation(c["reputation"])
<1>1. DOMAIN Normalize(c) = ObservedTypes(c)
      /\ \A t \in ObservedTypes(c) : Normalize(c)[t] = NormalizeType(t, c)
    BY DEF Normalize
<1>2. \A t \in {"rdap.registration", "assets.candidates", "mail.transport_security",
                "surface.ports", "reputation.domain"} :
          t \notin DnsTypes /\ t \notin EmailTypes /\ t \notin TlsTypes /\ t \notin HttpTypes
    BY DEF EmailTypes, DnsTypes, TlsTypes, HttpTypes
<1>3. /\ \A t \in {"rdap.registration", "assets.candidates", "mail.transport_security"} :
            t \in ObservedTypes(c)
      /\ "ports" \in DOMAIN c => "surface.ports" \in ObservedTypes(c)
      /\ "reputation" \in DOMAIN c => "reputation.domain" \in ObservedTypes(c)
    BY DEF ObservedTypes
<1>4. /\ NormalizeType("rdap.registration", c) = NormalizeRdap(c["rdap"])
      /\ NormalizeType("assets.candidates", c) = NormalizeCt(c["ct"])
      /\ NormalizeType("mail.transport_security", c) = NormalizeMailTransport(c["mail_tls"])
      /\ NormalizeType("surface.ports", c) = NormalizePorts(c["ports"])
      /\ NormalizeType("reputation.domain", c) = NormalizeReputation(c["reputation"])
    BY <1>2 DEF NormalizeType
<1> QED
    BY <1>1, <1>3, <1>4

LEMMA ObservedAs ==
    ASSUME NEW a, NEW m, NEW probe
    PROVE  LET o == Normalize(Collect(a, m, probe))
           IN  /\ \A t \in DnsTypes : t \in DOMAIN o /\ o[t] = NormalizeDns(CollectDns(a))[t]
               /\ \A t \in EmailTypes :
                     t \in DOMAIN o /\ o[t] = NormalizeEmail(CollectEmail(a))[t]
               /\ \A t \in TlsTypes :
                     t \in DOMAIN o /\ o[t] = NormalizeTls(CollectTls(a, probe))[t]
               /\ \A t \in HttpTypes :
                     t \in DOMAIN o /\ o[t] = NormalizeHttp(CollectHttp(a))[t]
               /\ "rdap.registration" \in DOMAIN o
               /\ o["rdap.registration"] = NormalizeRdap(CollectRdap(a))
               /\ "assets.candidates" \in DOMAIN o
               /\ o["assets.candidates"] = NormalizeCt(CollectCt(a))
               /\ o["mail.transport_security"] =
                     NormalizeMailTransport(CollectMailTransport(a, MailHostsOf(CollectEmail(a))))
               /\ m # PassiveMode => o["surface.ports"] = NormalizePorts(CollectPorts(a))
               /\ Providers # {} =>
                     o["reputation.domain"] = NormalizeReputation(CollectReputation(a))
<1> DEFINE c == Collect(a, m, probe)
<1>1. /\ c["dns"] = CollectDns(a) /\ c["email"] = CollectEmail(a)
      /\ c["tls"] = CollectTls(a, probe) /\ c["http"] = CollectHttp(a)
      /\ c["rdap"] = CollectRdap(a) /\ c["ct"] = CollectCt(a)
      /\ c["mail_tls"] = CollectMailTransport(a, MailHostsOf(CollectEmail(a)))
      /\ m # PassiveMode => "ports" \in DOMAIN c /\ c["ports"] = CollectPorts(a)
      /\ Providers # {} => "reputation" \in DOMAIN c /\ c["reputation"] = CollectReputation(a)
    BY Collected
<1> HIDE DEF c
<1> DEFINE o == Normalize(c)
<1>2. \A t \in DnsTypes : t \in DOMAIN o /\ o[t] = NormalizeDns(CollectDns(a))[t]
    BY <1>1, NormalizedByType
<1>3. \A t \in EmailTypes : t \in DOMAIN o /\ o[t] = NormalizeEmail(CollectEmail(a))[t]
    BY <1>1, NormalizedByType
<1>4. \A t \in TlsTypes : t \in DOMAIN o /\ o[t] = NormalizeTls(CollectTls(a, probe))[t]
    BY <1>1, NormalizedByType
<1>5. \A t \in HttpTypes : t \in DOMAIN o /\ o[t] = NormalizeHttp(CollectHttp(a))[t]
    BY <1>1, NormalizedByType
<1>6. /\ "rdap.registration" \in DOMAIN o
      /\ o["rdap.registration"] = NormalizeRdap(CollectRdap(a))
      /\ "assets.candidates" \in DOMAIN o
      /\ o["assets.candidates"] = NormalizeCt(CollectCt(a))
      /\ o["mail.transport_security"] =
            NormalizeMailTransport(CollectMailTransport(a, MailHostsOf(CollectEmail(a))))
    BY <1>1, NormalizedAlone
<1>7. /\ m # PassiveMode =>
            o["surface.ports"] = NormalizePorts(CollectPorts(a))
      /\ Providers # {} =>
            o["reputation.domain"] = NormalizeReputation(CollectReputation(a))
    BY <1>1, NormalizedAlone
<1> QED
    BY <1>2, <1>3, <1>4, <1>5, <1>6, <1>7, Zenon DEF c

(***************************************************************************)
(* Evaluation.                                                             *)
(***************************************************************************)
LEMMA LeastIsIn ==
    ASSUME NEW S, S \subseteq Nat, S # {}
    PROVE  Min(S) \in S
<1> DEFINE R == OpToRel(<, Nat)
<1>1. IsWellFoundedOn(R, Nat)
    BY NatLessThanWellFounded
<1>2. \A x, y \in Nat : x < y => <<x, y>> \in R
    BY DEF OpToRel
<1> HIDE DEF R
<1>3. PICK x \in S : \A y \in S : ~(<<y, x>> \in R)
    BY <1>1, WFMin
<1>4. ASSUME NEW y \in S PROVE x =< y
    <2>1. x \in Nat /\ y \in Nat /\ ~(y < x)
        BY <1>2, <1>3
    <2> QED
        BY <2>1
<1> QED
    BY <1>4 DEF Min

LEMMA EvaluatesToARule ==
    ASSUME NEW check, NEW o, DOMAIN check.rules \subseteq Nat,
           EvaluateCheck(check, o) \in Judged
    PROVE  /\ IsApplicable(check, o) /\ check.type \in DOMAIN o
           /\ \E i \in DOMAIN check.rules :
                 /\ Matches(check.rules[i], o[check.type])
                 /\ EvaluateCheck(check, o) = check.rules[i].result
<1> DEFINE matching == {i \in DOMAIN check.rules : Matches(check.rules[i], o[check.type])}
<1>1. /\ IsApplicable(check, o) /\ check.type \in DOMAIN o /\ matching # {}
      /\ EvaluateCheck(check, o) = check.rules[Min(matching)].result
    BY DEF EvaluateCheck, Judged
<1>2. matching \subseteq Nat
    OBVIOUS
<1>3. Min(matching) \in matching
    BY <1>1, <1>2, LeastIsIn
<1> QED
    BY <1>1, <1>3

LEMMA EvaluatedAlike ==
    ASSUME NEW check, NEW o, NEW p,
           check.type \in DOMAIN o, check.type \in DOMAIN p, o[check.type] = p[check.type]
    PROVE  EvaluateCheck(check, o) = EvaluateCheck(check, p)
<1>1. IsApplicable(check, o) <=> IsApplicable(check, p)
    BY DEF IsApplicable
<1> QED
    BY <1>1 DEF EvaluateCheck

\* The rules of a check, where all of them are about an attribute, or an absence.
AsksNothingOfSilence(check) ==
    /\ DOMAIN check.rules \subseteq Nat
    /\ \A i \in DOMAIN check.rules :
          check.rules[i].test = "status" => check.rules[i].value # "inconclusive"

LEMMA SilenceJudgesNothing ==
    ASSUME NEW check, NEW o, AsksNothingOfSilence(check), o[check.type].status = "inconclusive"
    PROVE  EvaluateCheck(check, o) \notin Judged
BY EvaluatesToARule DEF AsksNothingOfSilence, Matches

LEMMA RulesOfPillarA ==
    \A c \in DOMAIN PillarA : AsksNothingOfSilence(PillarA[c])
BY DEF PillarA, Check, Equals, AtLeast, AtMost, StatusIs, AsksNothingOfSilence

LEMMA RulesOfPillarB ==
    \A c \in DOMAIN PillarB : AsksNothingOfSilence(PillarB[c])
<1>1. AsksNothingOfSilence(PillarB["B_spf_present"])
    BY SMT DEF PillarB, Check, Equals, StatusIs, AsksNothingOfSilence
<1>2. AsksNothingOfSilence(PillarB["B_dmarc_enforced"])
    BY SMT DEF PillarB, Check, Equals, StatusIs, AsksNothingOfSilence
<1>3. AsksNothingOfSilence(PillarB["B_dkim_declared_present"])
    BY SMT DEF PillarB, Check, Equals, StatusIs, AsksNothingOfSilence
<1>4. AsksNothingOfSilence(PillarB["B_mta_sts_enforced"])
    BY SMT DEF PillarB, Check, Equals, StatusIs, AsksNothingOfSilence
<1>5. AsksNothingOfSilence(PillarB["B_tls_rpt_present"])
    BY SMT DEF PillarB, Check, Equals, StatusIs, AsksNothingOfSilence
<1>6. AsksNothingOfSilence(PillarB["B_mail_transport_encryption"])
    BY SMT DEF PillarB, Check, Equals, StatusIs, AsksNothingOfSilence
<1>7. DOMAIN PillarB = {"B_spf_present", "B_dmarc_enforced", "B_dkim_declared_present",
                        "B_mta_sts_enforced", "B_tls_rpt_present",
                        "B_mail_transport_encryption"}
    BY SMT DEF PillarB
<1> QED
    BY <1>1, <1>2, <1>3, <1>4, <1>5, <1>6, <1>7

LEMMA RulesOfPillarC ==
    \A c \in DOMAIN PillarC : AsksNothingOfSilence(PillarC[c])
BY SMT DEF PillarC, Check, Equals, AtLeast, AtMost, StatusIs, AsksNothingOfSilence

LEMMA RulesOfOtherPillars ==
    \A c \in DOMAIN OtherPillars : AsksNothingOfSilence(OtherPillars[c])
BY SMT DEF OtherPillars, Check, Equals, AtLeast, AtMost, StatusIs, AsksNothingOfSilence

LEMMA RulesOfJoin ==
    ASSUME NEW f, NEW g,
           \A c \in DOMAIN f : AsksNothingOfSilence(f[c]),
           \A c \in DOMAIN g : AsksNothingOfSilence(g[c])
    PROVE  \A c \in DOMAIN Join(f, g) : AsksNothingOfSilence(Join(f, g)[c])
BY DEF Join

LEMMA RulesOfCatalog ==
    \A c \in CatalogChecks : AsksNothingOfSilence(Catalog[c])
<1>1. \A c \in DOMAIN Join(PillarC, OtherPillars) :
          AsksNothingOfSilence(Join(PillarC, OtherPillars)[c])
    BY RulesOfPillarC, RulesOfOtherPillars, RulesOfJoin
<1>2. \A c \in DOMAIN Join(PillarB, Join(PillarC, OtherPillars)) :
          AsksNothingOfSilence(Join(PillarB, Join(PillarC, OtherPillars))[c])
    BY <1>1, RulesOfPillarB, RulesOfJoin
<1>3. \A c \in DOMAIN Join(PillarA, Join(PillarB, Join(PillarC, OtherPillars))) :
          AsksNothingOfSilence(Join(PillarA, Join(PillarB, Join(PillarC, OtherPillars)))[c])
    BY <1>2, RulesOfPillarA, RulesOfJoin
<1> QED
    BY <1>3 DEF Catalog, CatalogChecks

LEMMA ChecksByPillar ==
    /\ \A c \in DOMAIN PillarA : Catalog[c] = PillarA[c]
    /\ \A c \in DOMAIN PillarB : Catalog[c] = PillarB[c]
    /\ \A c \in DOMAIN PillarC : Catalog[c] = PillarC[c]
    /\ \A c \in DOMAIN OtherPillars : Catalog[c] = OtherPillars[c]
    /\ CatalogChecks = DOMAIN PillarA \cup DOMAIN PillarB \cup DOMAIN PillarC
                         \cup DOMAIN OtherPillars
<1>1. /\ DOMAIN PillarA \cap DOMAIN PillarB = {}
      /\ DOMAIN PillarA \cap DOMAIN PillarC = {}
      /\ DOMAIN PillarA \cap DOMAIN OtherPillars = {}
      /\ DOMAIN PillarB \cap DOMAIN PillarC = {}
      /\ DOMAIN PillarB \cap DOMAIN OtherPillars = {}
      /\ DOMAIN PillarC \cap DOMAIN OtherPillars = {}
    BY SMT DEF PillarA, PillarB, PillarC, OtherPillars
<1> QED
    BY <1>1, SMT DEF Catalog, CatalogChecks, Join

(***************************************************************************)
(* Every verdict and every outcome is that of the answers of the last      *)
(* assessment.                                                             *)
(***************************************************************************)
AssessedInv ==
    /\ DOMAIN domain = Questions
    /\ \A q \in Questions : domain[q] \in Contents[q]
    /\ \/ verdict = << >> /\ outcome = << >>
       \/ /\ verdict = Verdicts(Answers(domain, lost), mode, probing)
          /\ outcome = Outcomes(Answers(domain, lost), mode, probing)

LEMMA AssessedInitially == EvidenceInit => AssessedInv
BY EvidenceAssumption DEF EvidenceInit, Unassessed, AssessedInv

LEMMA AssessedByStep == AssessedInv /\ [EvidenceNext]_evidenceVars => AssessedInv'
<1> SUFFICES ASSUME AssessedInv, [EvidenceNext]_evidenceVars
             PROVE  AssessedInv'
    OBVIOUS
<1>1. ASSUME NEW L, NEW m, NEW probe, Assess(L, m, probe) PROVE AssessedInv'
    BY <1>1 DEF Assess, AssessedInv
<1>2. CASE AssessOverALossyNetwork
    BY <1>1, <1>2 DEF AssessOverALossyNetwork
<1>3. CASE AssessUntilHalted
    BY <1>1, <1>3 DEF AssessUntilHalted
<1>4. CASE NextAssessmentIsDue
    BY <1>4 DEF NextAssessmentIsDue, AssessedInv
<1>5. CASE DomainChanges
    <2>1. PICK q \in Questions : \E v \in Contents[q] :
              /\ Unassessed /\ domain' = [domain EXCEPT ![q] = v]
              /\ UNCHANGED <<lost, mode, probing, verdict, outcome>>
        BY <1>5 DEF DomainChanges
    <2>2. /\ DOMAIN domain' = Questions
          /\ \A p \in Questions : domain'[p] \in Contents[p]
        BY <2>1 DEF AssessedInv
    <2>3. verdict' = << >> /\ outcome' = << >>
        BY <2>1 DEF Unassessed
    <2> QED
        BY <2>2, <2>3 DEF AssessedInv
<1>6. CASE UNCHANGED evidenceVars
    BY <1>6 DEF evidenceVars, AssessedInv
<1> QED
    BY <1>2, <1>3, <1>4, <1>5, <1>6 DEF EvidenceNext

LEMMA Assessed == EvidenceSpec => []AssessedInv
BY AssessedInitially, AssessedByStep, PTL DEF EvidenceSpec

(***************************************************************************)
(* A silent network.                                                       *)
(***************************************************************************)
LEMMA UnavailableIsRetried ==
    /\ \A reason : ~Usable(Unavailable(reason))
    /\ \A reason \in {"dns_unreachable", "timeout", "site_unreachable", "probe_refused",
                      "reputation_providers_unreachable"} :
          CollectionOutcome(Unavailable(reason)) = "retry"
BY DEF Unavailable, Result, Usable, CollectionOutcome, PermanentReasons

\* The questions whose silence silences the collector.
AsksOf(n) ==
    {q \in Questions : q[1] = n \/ (n = "tls" /\ q[1] = "protocol")
                      \/ (n = "email" /\ q[1] = "dkim")}

LEMMA SilentCollector ==
    ASSUME NEW a, NEW m, NEW probe,
           NEW n \in CollectorNames \ (ThirdPartyCollectors \cup SkippedIn(m)),
           \A q \in AsksOf(n) : ~Answered(a, q)
    PROVE  \E reason \in {"dns_unreachable", "timeout", "site_unreachable", "probe_refused",
                          "reputation_providers_unreachable"} :
               Collect(a, m, probe)[n] = Unavailable(reason)
<1> DEFINE c == Collect(a, m, probe)
<1>1. CASE n = "dns"
    <2>1. ~Answered(a, <<"dns", "soa">>) /\ ~Answered(a, <<"dns", "ns">>)
        BY <1>1, Asks DEF AsksOf
    <2> QED
        BY <1>1, <2>1, Collected DEF CollectDns
<1>2. CASE n = "email"
    <2>1. ~Answered(a, <<"email", "spf">>) /\ ~Answered(a, <<"email", "dmarc">>)
        BY <1>2, Asks DEF AsksOf, EmailNames
    <2> QED
        BY <1>2, <2>1, Collected DEF CollectEmail
<1>3. CASE n = "tls"
    <2>1. ~Answered(a, Handshake)
        BY <1>3, Asks DEF AsksOf, Handshake
    <2> QED
        BY <1>3, <2>1, Collected DEF CollectTls
<1>4. CASE n = "http"
    <2>1. ~Answered(a, Secure) /\ ~Answered(a, Plaintext)
        BY <1>4, Asks DEF AsksOf, Secure, Plaintext
    <2> QED
        BY <1>4, <2>1, Collected DEF CollectHttp
<1>5. CASE n = "rdap"
    <2>1. ~Answered(a, Rdap)
        BY <1>5, Asks DEF AsksOf, Rdap
    <2> QED
        BY <1>5, <2>1, Collected DEF CollectRdap
<1>6. CASE n = "ports"
    <2>1. \A p \in Ports : ~Answered(a, <<"ports", p>>)
        BY <1>6, Asks DEF AsksOf
    <2>2. c["ports"] = CollectPorts(a)
        BY <1>6, Collected DEF SkippedIn
    <2> QED
        BY <1>6, <2>1, <2>2 DEF CollectPorts, PortState
<1>7. CASE n = "reputation"
    <2>1. \A p \in Providers : ~Answered(a, <<"reputation", p>>)
        BY <1>7, Asks DEF AsksOf
    <2>2. Providers # {} /\ c["reputation"] = CollectReputation(a)
        BY <1>7, Collected DEF SkippedIn
    <2>3. CombineVerdicts(a).answered = {}
        BY <2>1 DEF CombineVerdicts
    <2> QED
        BY <1>7, <2>2, <2>3 DEF CollectReputation
<1> QED
    BY <1>1, <1>2, <1>3, <1>4, <1>5, <1>6, <1>7 DEF CollectorNames, ThirdPartyCollectors

LEMMA AssessedSilenceIsRetried == AssessedInv => SilenceIsRetried
<1> SUFFICES ASSUME AssessedInv,
                    NEW n \in DOMAIN outcome \ (ThirdPartyCollectors \cup SkippedIn(mode)),
                    AsksOf(n) \subseteq lost
             PROVE  outcome[n] = "retry"
    BY DEF SilenceIsRetried, AsksOf
<1> DEFINE a == Answers(domain, lost)
           c == Collect(a, mode, probing)
<1>1. outcome = Outcomes(a, mode, probing)
    BY DEF AssessedInv
<1>2. /\ DOMAIN outcome = CollectorNames
      /\ \A x \in CollectorNames :
            x \in DOMAIN c => outcome[x] = CollectionOutcome(c[x])
    BY <1>1 DEF Outcomes
<1>3. n \in DOMAIN c
    BY <1>2 DEF Collect
<1>4. \A q \in AsksOf(n) : ~Answered(a, q)
    BY AnswerOf DEF AsksOf
<1>5. \E reason \in {"dns_unreachable", "timeout", "site_unreachable", "probe_refused",
                     "reputation_providers_unreachable"} : c[n] = Unavailable(reason)
    BY <1>2, <1>4, SilentCollector
<1> QED
    BY <1>2, <1>3, <1>5, UnavailableIsRetried

\* A collection step that nothing answered ends to be retried: it neither succeeds nor is
\* it skipped (handlers, _collection_outcome), whatever the mode and the catalogue of ports.
THEOREM SilenceRetried == EvidenceSpec => []SilenceIsRetried
BY Assessed, AssessedSilenceIsRetried, PTL

(***************************************************************************)
(* What was seen.                                                          *)
(***************************************************************************)
LEMMA VerdictOf ==
    ASSUME NEW a, NEW m, NEW probe, NEW c \in CatalogChecks
    PROVE  Verdicts(a, m, probe)[c] =
               Withhold(c, m, EvaluateCheck(Catalog[c], Normalize(Collect(a, m, probe))))
BY DEF Verdicts

\* A check that is passed is passed by a rule, over an observation.
LEMMA PassedByARule ==
    ASSUME NEW a, NEW m, NEW probe, NEW c \in CatalogChecks, Verdicts(a, m, probe)[c] = "pass"
    PROVE  LET o == Normalize(Collect(a, m, probe))
           IN  /\ ~(m = PassiveMode /\ c \in AuthorizedChecks)
               /\ Catalog[c].type \in DOMAIN o
               /\ \E i \in DOMAIN Catalog[c].rules :
                     /\ Matches(Catalog[c].rules[i], o[Catalog[c].type])
                     /\ Catalog[c].rules[i].result = "pass"
<1> DEFINE o == Normalize(Collect(a, m, probe))
<1>1. /\ ~(m = PassiveMode /\ c \in AuthorizedChecks)
      /\ EvaluateCheck(Catalog[c], o) = "pass"
    BY VerdictOf DEF Withhold
<1>2. DOMAIN Catalog[c].rules \subseteq Nat
    BY RulesOfCatalog DEF AsksNothingOfSilence
<1> QED
    BY <1>1, <1>2, EvaluatesToARule DEF Judged

LEMMA DatabaseCheck ==
    /\ "D_database_exposed" \in CatalogChecks \cap AuthorizedChecks
    /\ Catalog["D_database_exposed"].type = "surface.ports"
    /\ Catalog["D_database_exposed"].rules =
          <<AtMost("database_open", 0, "pass"), AtLeast("database_open", 1, "fail")>>
BY ChecksByPillar, SMT DEF OtherPillars, Check, AuthorizedChecks

LEMMA RemoteAccessCheck ==
    /\ "D_remote_access_exposed" \in CatalogChecks \cap AuthorizedChecks
    /\ Catalog["D_remote_access_exposed"].type = "surface.ports"
    /\ Catalog["D_remote_access_exposed"].rules =
          <<AtMost("remote_access_open", 0, "pass"), AtLeast("remote_access_open", 1, "fail")>>
BY ChecksByPillar, SMT DEF OtherPillars, Check, AuthorizedChecks

LEMMA CheckOf ==
    ASSUME NEW type, NEW applicability, NEW rules
    PROVE  /\ Check(type, applicability, rules).type = type
           /\ Check(type, applicability, rules).applicability = applicability
           /\ Check(type, applicability, rules).rules = rules
BY DEF Check

LEMMA ReputationCheck ==
    /\ "E_domain_reputation_clean" \in CatalogChecks
    /\ Catalog["E_domain_reputation_clean"].type = "reputation.domain"
    /\ Catalog["E_domain_reputation_clean"].rules =
          <<Equals("contested", TRUE, "unknown"), Equals("listed", FALSE, "pass"),
            Equals("listed", TRUE, "warning")>>
<1> DEFINE rules == <<Equals("contested", TRUE, "unknown"), Equals("listed", FALSE, "pass"),
                      Equals("listed", TRUE, "warning")>>
<1>1. OtherPillars["E_domain_reputation_clean"] =
          Check("reputation.domain", "requires_observation", rules)
    BY SMT DEF OtherPillars
<1>2. "E_domain_reputation_clean" \in DOMAIN OtherPillars
    BY SMT DEF OtherPillars
<1> HIDE DEF rules
<1>3. Catalog["E_domain_reputation_clean"] =
          Check("reputation.domain", "requires_observation", rules)
    BY <1>1, <1>2, ChecksByPillar
<1>4. /\ Catalog["E_domain_reputation_clean"].type = "reputation.domain"
      /\ Catalog["E_domain_reputation_clean"].rules = rules
    BY <1>3, CheckOf
<1> QED
    BY <1>2, <1>4, ChecksByPillar, Zenon DEF rules

LEMMA ProtocolCheck ==
    /\ "C_tls_protocol_posture" \in CatalogChecks
    /\ Catalog["C_tls_protocol_posture"].type = "tls.protocols"
    /\ Catalog["C_tls_protocol_posture"].rules =
          <<AtMost("deprecated_supported_count", 0, "pass"),
            AtLeast("deprecated_supported_count", 1, "warning")>>
BY ChecksByPillar, SMT DEF PillarC, Check

LEMMA TransportCheck ==
    /\ "B_mail_transport_encryption" \in CatalogChecks
    /\ Catalog["B_mail_transport_encryption"].type = "mail.transport_security"
    /\ Catalog["B_mail_transport_encryption"].rules =
          <<StatusIs("absent", "not_applicable"), Equals("starttls_everywhere", TRUE, "pass"),
            Equals("starttls_everywhere", FALSE, "fail")>>
<1> DEFINE rules == <<StatusIs("absent", "not_applicable"),
                      Equals("starttls_everywhere", TRUE, "pass"),
                      Equals("starttls_everywhere", FALSE, "fail")>>
<1>1. PillarB["B_mail_transport_encryption"] =
          Check("mail.transport_security", "requires_observation", rules)
    BY SMT DEF PillarB
<1>2. "B_mail_transport_encryption" \in DOMAIN PillarB
    BY SMT DEF PillarB
<1> HIDE DEF rules
<1>3. Catalog["B_mail_transport_encryption"] =
          Check("mail.transport_security", "requires_observation", rules)
    BY <1>1, <1>2, ChecksByPillar
<1>4. /\ Catalog["B_mail_transport_encryption"].type = "mail.transport_security"
      /\ Catalog["B_mail_transport_encryption"].rules = rules
    BY <1>3, CheckOf
<1> QED
    BY <1>2, <1>4, ChecksByPillar, Zenon DEF rules

LEMMA CountsWhatIsThere ==
    ASSUME NEW S, NEW T, IsFiniteSet(T), S \subseteq T, S # {}
    PROVE  Cardinality(S) \in Nat /\ Cardinality(S) >= 1
<1>1. IsFiniteSet(S)
    BY FS_Subset
<1> QED
    BY <1>1, FS_CardinalityType, FS_EmptySet

\* What the ports of a class count for, once a port is open.
LEMMA OpenPortsAreCounted ==
    ASSUME NEW a, NEW p \in Ports, Answered(a, <<"ports", p>>),
           Value(a, <<"ports", p>>) = "open"
    PROVE  LET o == NormalizePorts(CollectPorts(a))
           IN  /\ o.status = "observed"
               /\ Exposure[p] = "database" =>
                     o.attributes.database_open \in Nat /\ o.attributes.database_open >= 1
               /\ Exposure[p] = "remote_access" =>
                     /\ o.attributes.remote_access_open \in Nat
                     /\ o.attributes.remote_access_open >= 1
<1> DEFINE open == {x \in Ports : PortState(a, x) = "open"}
           class(e) == {x \in open : Exposure[x] = e}
           r == CollectPorts(a)
<1>1. p \in open /\ ~(\A x \in Ports : PortState(a, x) = "error")
    BY DEF PortState
<1>2. Usable(r) /\ r.payload.open = open
    BY <1>1 DEF CollectPorts, OkUnless, Result, Usable
<1>3. NormalizePorts(r) =
        Observed([remote_access_open |-> Cardinality(class("remote_access")),
                  database_open |-> Cardinality(class("database")),
                  management_open |-> Cardinality(class("management"))])
    BY <1>2 DEF NormalizePorts
<1>4. \A e : Exposure[p] = e => Cardinality(class(e)) \in Nat /\ Cardinality(class(e)) >= 1
    <2> SUFFICES ASSUME NEW e, Exposure[p] = e
                 PROVE  Cardinality(class(e)) \in Nat /\ Cardinality(class(e)) >= 1
        OBVIOUS
    <2>1. class(e) \subseteq Ports /\ class(e) # {} /\ IsFiniteSet(Ports)
        BY <1>1, CollectorsAssumption
    <2> QED
        BY <2>1, CountsWhatIsThere
<1> QED
    BY <1>3, <1>4 DEF Observed, Observation

LEMMA OpenDatabaseFails ==
    ASSUME NEW a, NEW m, NEW probe, NEW p \in Ports, Answered(a, <<"ports", p>>),
           Value(a, <<"ports", p>>) = "open", Exposure[p] = "database"
    PROVE  Verdicts(a, m, probe)["D_database_exposed"] # "pass"
<1> SUFFICES ASSUME Verdicts(a, m, probe)["D_database_exposed"] = "pass"
             PROVE  FALSE
    OBVIOUS
<1> DEFINE o == Normalize(Collect(a, m, probe))
           rules == <<AtMost("database_open", 0, "pass"), AtLeast("database_open", 1, "fail")>>
<1>1. /\ m # PassiveMode
      /\ \E i \in DOMAIN rules : Matches(rules[i], o["surface.ports"])
                                 /\ rules[i].result = "pass"
    BY PassedByARule, DatabaseCheck
<1>2. Matches(AtMost("database_open", 0, "pass"), o["surface.ports"])
    BY <1>1 DEF AtMost, AtLeast
<1>3. o["surface.ports"] = NormalizePorts(CollectPorts(a))
    BY <1>1, ObservedAs
<1>4. /\ o["surface.ports"].attributes.database_open \in Nat
      /\ o["surface.ports"].attributes.database_open >= 1
    BY <1>3, OpenPortsAreCounted
<1>5. o["surface.ports"].attributes["database_open"] <= 0
    BY <1>2 DEF AtMost, Matches
<1> QED
    BY <1>4, <1>5

LEMMA OpenRemoteAccessFails ==
    ASSUME NEW a, NEW m, NEW probe, NEW p \in Ports, Answered(a, <<"ports", p>>),
           Value(a, <<"ports", p>>) = "open", Exposure[p] = "remote_access"
    PROVE  Verdicts(a, m, probe)["D_remote_access_exposed"] # "pass"
<1> SUFFICES ASSUME Verdicts(a, m, probe)["D_remote_access_exposed"] = "pass"
             PROVE  FALSE
    OBVIOUS
<1> DEFINE o == Normalize(Collect(a, m, probe))
           rules == <<AtMost("remote_access_open", 0, "pass"),
                      AtLeast("remote_access_open", 1, "fail")>>
<1>1. /\ m # PassiveMode
      /\ \E i \in DOMAIN rules : Matches(rules[i], o["surface.ports"])
                                 /\ rules[i].result = "pass"
    BY PassedByARule, RemoteAccessCheck
<1>2. Matches(AtMost("remote_access_open", 0, "pass"), o["surface.ports"])
    BY <1>1 DEF AtMost, AtLeast
<1>3. o["surface.ports"] = NormalizePorts(CollectPorts(a))
    BY <1>1, ObservedAs
<1>4. /\ o["surface.ports"].attributes.remote_access_open \in Nat
      /\ o["surface.ports"].attributes.remote_access_open >= 1
    BY <1>3, OpenPortsAreCounted
<1>5. o["surface.ports"].attributes["remote_access_open"] <= 0
    BY <1>2 DEF AtMost, Matches
<1> QED
    BY <1>4, <1>5

LEMMA ProtocolPass ==
    LET check == Catalog["C_tls_protocol_posture"]
    IN  /\ "C_tls_protocol_posture" \in CatalogChecks /\ check.type = "tls.protocols"
        /\ \A i \in DOMAIN check.rules :
              check.rules[i].result = "pass" =>
                  check.rules[i] = AtMost("deprecated_supported_count", 0, "pass")
BY ProtocolCheck DEF AtLeast

LEMMA OnlyRule ==
    ASSUME NEW x, NEW y, NEW z, x.result # "pass", z.result # "pass"
    PROVE  \A i \in DOMAIN <<x, y, z>> : <<x, y, z>>[i].result = "pass" => <<x, y, z>>[i] = y
OBVIOUS

LEMMA ReputationPass ==
    LET check == Catalog["E_domain_reputation_clean"]
    IN  /\ "E_domain_reputation_clean" \in CatalogChecks /\ check.type = "reputation.domain"
        /\ \A i \in DOMAIN check.rules :
              check.rules[i].result = "pass" => check.rules[i] = Equals("listed", FALSE, "pass")
<1> DEFINE x == Equals("contested", TRUE, "unknown")
           y == Equals("listed", FALSE, "pass")
           z == Equals("listed", TRUE, "warning")
           rules == Catalog["E_domain_reputation_clean"].rules
<1>1. x.result # "pass" /\ z.result # "pass"
    BY DEF Equals
<1>2. rules = <<x, y, z>>
    BY ReputationCheck
<1> HIDE DEF x, y, z, rules
<1>3. \A i \in DOMAIN rules : rules[i].result = "pass" => rules[i] = y
    BY <1>1, <1>2, OnlyRule
<1> QED
    BY <1>3, ReputationCheck, Zenon DEF rules, y

LEMMA TransportPass ==
    LET check == Catalog["B_mail_transport_encryption"]
    IN  /\ "B_mail_transport_encryption" \in CatalogChecks
        /\ check.type = "mail.transport_security"
        /\ \A i \in DOMAIN check.rules :
              check.rules[i].result = "pass" =>
                  check.rules[i] = Equals("starttls_everywhere", TRUE, "pass")
<1> DEFINE x == StatusIs("absent", "not_applicable")
           y == Equals("starttls_everywhere", TRUE, "pass")
           z == Equals("starttls_everywhere", FALSE, "fail")
           rules == Catalog["B_mail_transport_encryption"].rules
<1>1. x.result # "pass" /\ z.result # "pass"
    BY DEF Equals, StatusIs
<1>2. rules = <<x, y, z>>
    BY TransportCheck
<1> HIDE DEF x, y, z, rules
<1>3. \A i \in DOMAIN rules : rules[i].result = "pass" => rules[i] = y
    BY <1>1, <1>2, OnlyRule
<1> QED
    BY <1>3, TransportCheck, Zenon DEF rules, y

LEMMA DeprecatedProtocolWarns ==
    ASSUME NEW a, NEW m, NEW probe, NEW v \in Deprecated,
           Answered(a, <<"protocol", v>>), Value(a, <<"protocol", v>>),
           Answered(a, ProtocolProbing)
    PROVE  probe => Verdicts(a, m, probe)["C_tls_protocol_posture"] # "pass"
<1> SUFFICES ASSUME Verdicts(a, m, probe)["C_tls_protocol_posture"] = "pass"
             PROVE  probe => FALSE
    OBVIOUS
<1> DEFINE o == Normalize(Collect(a, m, probe))
           r == CollectTls(a, probe)
           supported == {w \in Protocols : /\ Answered(a, <<"protocol", w>>)
                                           /\ Value(a, <<"protocol", w>>)}
<1>1. Matches(AtMost("deprecated_supported_count", 0, "pass"), o["tls.protocols"])
    BY PassedByARule, ProtocolPass
<1>2. /\ o["tls.protocols"].status = "observed"
      /\ o["tls.protocols"].attributes["deprecated_supported_count"] <= 0
    BY <1>1 DEF AtMost, Matches
<1>3. o["tls.protocols"] = NormalizeTls(r)["tls.protocols"]
    <2>1. "tls.protocols" \in TlsTypes
        BY DEF TlsTypes
    <2> QED
        BY <2>1, ObservedAs
<1>4. Usable(r)
    <2>1. "tls.protocols" \in TlsTypes /\ Inconclusive.status = "inconclusive"
        BY DEF TlsTypes, Inconclusive, Observation
    <2> QED
        BY <1>2, <1>3, <2>1 DEF NormalizeTls, Unless
<1>5. Answered(a, Handshake) /\ Value(a, Handshake).status # "error"
    BY <1>4 DEF CollectTls, Unavailable, Result, Usable
<1>6. HAVE probe
<1>7. r.payload.attempted = TRUE /\ r.payload.probed = Protocols
      /\ r.payload.deprecated_supported = supported \cap Deprecated
    BY <1>5, <1>6 DEF CollectTls, OkUnless, Result
<1>8. v \in supported \cap Deprecated /\ Protocols # {}
    BY CollectorsAssumption
<1>9. NormalizeTls(r)["tls.protocols"] =
          Observed([deprecated_supported_count |-> Cardinality(supported \cap Deprecated)])
    BY <1>4, <1>7, <1>8 DEF NormalizeTls, Unless, TlsTypes
<1>10. Cardinality(supported \cap Deprecated) \in Nat
       /\ Cardinality(supported \cap Deprecated) >= 1
    <2>1. supported \cap Deprecated \subseteq Protocols /\ IsFiniteSet(Protocols)
        BY CollectorsAssumption
    <2> QED
        BY <1>8, <2>1, CountsWhatIsThere
<1>11. o["tls.protocols"].attributes["deprecated_supported_count"] =
           Cardinality(supported \cap Deprecated)
    BY <1>3, <1>9 DEF Observed, Observation
<1> HIDE DEF o, supported
<1> QED
    BY <1>2, <1>10, <1>11

LEMMA ListingIsNotPassed ==
    ASSUME NEW a, NEW m, NEW probe, NEW p \in Providers,
           Answered(a, <<"reputation", p>>), Value(a, <<"reputation", p>>) = "listed"
    PROVE  Verdicts(a, m, probe)["E_domain_reputation_clean"] # "pass"
<1> SUFFICES ASSUME Verdicts(a, m, probe)["E_domain_reputation_clean"] = "pass"
             PROVE  FALSE
    OBVIOUS
<1> DEFINE o == Normalize(Collect(a, m, probe))
<1>2. Matches(Equals("listed", FALSE, "pass"), o["reputation.domain"])
    BY PassedByARule, ReputationPass
<1>3. o["reputation.domain"].attributes["listed"] = FALSE
    BY <1>2 DEF Equals, Matches
<1>4. o["reputation.domain"] = NormalizeReputation(CollectReputation(a))
    BY ObservedAs
<1>5. p \in CombineVerdicts(a).answered /\ CombineVerdicts(a).listed = TRUE
    BY DEF CombineVerdicts
<1>6. /\ Usable(CollectReputation(a))
      /\ CollectReputation(a).payload = CombineVerdicts(a)
    BY <1>5 DEF CollectReputation, OkUnless, Result, Usable
<1>7. NormalizeReputation(CollectReputation(a)).attributes.listed = TRUE
    BY <1>5, <1>6 DEF NormalizeReputation, Observed, Observation
<1> QED
    BY <1>3, <1>4, <1>7

LEMMA TransportObservedAs ==
    ASSUME NEW a, NEW m, NEW probe
    PROVE  Normalize(Collect(a, m, probe))["mail.transport_security"] =
               NormalizeMailTransport(CollectMailTransport(a, MailHostsOf(CollectEmail(a))))
<1> DEFINE c == Collect(a, m, probe)
<1>1. c["mail_tls"] = CollectMailTransport(a, MailHostsOf(CollectEmail(a)))
    BY Collected
<1> HIDE DEF c
<1>2. Normalize(c)["mail.transport_security"] = NormalizeMailTransport(c["mail_tls"])
    BY NormalizedAlone
<1> QED
    BY <1>1, <1>2 DEF c

LEMMA TransportPassedByRule ==
    ASSUME NEW a, NEW m, NEW probe,
           Verdicts(a, m, probe)["B_mail_transport_encryption"] = "pass"
    PROVE  Matches(Equals("starttls_everywhere", TRUE, "pass"),
                   Normalize(Collect(a, m, probe))["mail.transport_security"])
<1> DEFINE o == Normalize(Collect(a, m, probe))
           c == "B_mail_transport_encryption"
           rules == Catalog[c].rules
<1>1. PICK i \in DOMAIN rules : Matches(rules[i], o[Catalog[c].type]) /\ rules[i].result = "pass"
    BY PassedByARule, TransportPass
<1>2. /\ Catalog[c].type = "mail.transport_security"
      /\ rules[i] = Equals("starttls_everywhere", TRUE, "pass")
    BY <1>1, TransportPass
<1> HIDE DEF o, c, rules
<1> QED
    BY <1>1, <1>2 DEF o

LEMMA PlainTransportIsNotPassed ==
    ASSUME NEW a, NEW m, NEW probe, NEW h \in MailHosts,
           Answered(a, <<"email", "mx">>), h \in Value(a, <<"email", "mx">>), h # "",
           Answered(a, <<"mail_tls", h>>), Value(a, <<"mail_tls", h>>) = "not_offered"
    PROVE  Verdicts(a, m, probe)["B_mail_transport_encryption"] # "pass"
<1> SUFFICES ASSUME Verdicts(a, m, probe)["B_mail_transport_encryption"] = "pass"
             PROVE  FALSE
    OBVIOUS
<1> DEFINE o == Normalize(Collect(a, m, probe))
<1>1. Matches(Equals("starttls_everywhere", TRUE, "pass"), o["mail.transport_security"])
    BY TransportPassedByRule
<1>2. /\ o["mail.transport_security"].status = "observed"
      /\ o["mail.transport_security"].attributes["starttls_everywhere"] = TRUE
    BY <1>1 DEF Equals, Matches
<1> DEFINE email == CollectEmail(a)
           r == CollectMailTransport(a, MailHostsOf(email))
<1>3. o["mail.transport_security"] = NormalizeMailTransport(r)
    BY TransportObservedAs
<1>4. Usable(email)
    <2>1. ASSUME ~Usable(email) PROVE MailHostsOf(email) = {}
        BY <2>1 DEF MailHostsOf, ObservedMailHosts
    <2>2. ASSUME MailHostsOf(email) = {} PROVE r.status = "not_applicable"
        BY <2>2 DEF CollectMailTransport, NotApplicable, Result
    <2>3. ASSUME r.status = "not_applicable" PROVE NormalizeMailTransport(r).status = "absent"
        BY <2>3 DEF NormalizeMailTransport, Absent, Observation
    <2> QED
        BY <1>2, <1>3, <2>1, <2>2, <2>3
<1>5. email.payload.mail_hosts = Records(a, <<"email", "mx">>) \ {""}
    BY <1>4 DEF CollectEmail, OkUnless, Unavailable, Result, Usable
<1>6. h \in MailHostsOf(email)
    BY <1>4, <1>5 DEF MailHostsOf, ObservedMailHosts, Records
<1> DEFINE reachable == {x \in MailHostsOf(email) : MailState(a, x) # "unreachable"}
           offering == {x \in reachable : MailState(a, x) = "offered"}
<1>7. h \in reachable /\ h \notin offering
    BY <1>6 DEF MailState
<1>8. Usable(r) /\ r.status # "not_applicable"
      /\ r.payload.starttls_everywhere = (offering = reachable)
    BY <1>7 DEF CollectMailTransport, OkUnless, Result, Usable
<1>9. r.payload.starttls_everywhere = FALSE
    BY <1>7, <1>8
<1>10. NormalizeMailTransport(r).attributes.starttls_everywhere = FALSE
    BY <1>8, <1>9 DEF NormalizeMailTransport, Observed, Observation
<1> QED
    BY <1>2, <1>3, <1>10

LEMMA AssessedSeenIsNeverPassed == AssessedInv => SeenIsNeverPassed
<1> SUFFICES ASSUME AssessedInv, verdict # << >> PROVE SeenIsNeverPassed
    BY DEF SeenIsNeverPassed
<1> DEFINE a == Answers(domain, lost)
<1>1. verdict = Verdicts(a, mode, probing)
    BY DEF AssessedInv
<1>2. \A q \in Questions : Seen(q) => Answered(a, q) /\ Value(a, q) = domain[q]
    BY AnswerOf DEF Seen
<1> HIDE DEF a
<1>3. ASSUME NEW p \in Ports, Seen(<<"ports", p>>), domain[<<"ports", p>>] = "open"
      PROVE  /\ Exposure[p] = "database" => verdict["D_database_exposed"] # "pass"
             /\ Exposure[p] = "remote_access" => verdict["D_remote_access_exposed"] # "pass"
    <2>1. Answered(a, <<"ports", p>>) /\ Value(a, <<"ports", p>>) = "open"
        BY <1>2, <1>3, Asks
    <2> QED
        BY <1>1, <2>1, OpenDatabaseFails, OpenRemoteAccessFails
<1>4. ASSUME NEW v \in Deprecated, Seen(<<"protocol", v>>), domain[<<"protocol", v>>],
             Seen(ProtocolProbing), probing
      PROVE  verdict["C_tls_protocol_posture"] # "pass"
    <2>1. v \in Protocols
        BY CollectorsAssumption
    <2>2. Answered(a, <<"protocol", v>>) /\ Value(a, <<"protocol", v>>)
        BY <1>2, <1>4, <2>1, Asks
    <2>3. Answered(a, ProtocolProbing)
        BY <1>2, <1>4, Asks
    <2>4. probing => Verdicts(a, mode, probing)["C_tls_protocol_posture"] # "pass"
        BY <2>2, <2>3, DeprecatedProtocolWarns
    <2> QED
        BY <1>1, <1>4, <2>4
<1>5. ASSUME NEW p \in Providers, Seen(<<"reputation", p>>),
             domain[<<"reputation", p>>] = "listed"
      PROVE  verdict["E_domain_reputation_clean"] # "pass"
    <2>1. Answered(a, <<"reputation", p>>) /\ Value(a, <<"reputation", p>>) = "listed"
        BY <1>2, <1>5, Asks
    <2> QED
        BY <1>1, <2>1, ListingIsNotPassed
<1>6. ASSUME NEW h \in domain[<<"email", "mx">>], Seen(<<"email", "mx">>), h # "",
             Seen(<<"mail_tls", h>>), domain[<<"mail_tls", h>>] = "not_offered"
      PROVE  verdict["B_mail_transport_encryption"] # "pass"
    <2>1. <<"email", "mx">> \in Questions
        BY Asks DEF EmailNames
    <2>2. h \in MailHosts
        BY <1>6, <2>1, EvidenceAssumption DEF AssessedInv
    <2>3. Answered(a, <<"email", "mx">>) /\ h \in Value(a, <<"email", "mx">>)
        BY <1>2, <1>6, <2>1
    <2>4. Answered(a, <<"mail_tls", h>>) /\ Value(a, <<"mail_tls", h>>) = "not_offered"
        BY <1>2, <1>6, <2>2, Asks
    <2> QED
        BY <1>1, <1>6, <2>2, <2>3, <2>4, PlainTransportIsNotPassed
<1>7. OpenIn("database") # {} => verdict["D_database_exposed"] # "pass"
    BY <1>3 DEF OpenIn
<1>8. OpenIn("remote_access") # {} => verdict["D_remote_access_exposed"] # "pass"
    BY <1>3 DEF OpenIn
<1> QED
    BY <1>4, <1>5, <1>6, <1>7, <1>8 DEF SeenIsNeverPassed

\* What an assessment has seen to be wrong it does not pass, whatever the network lost:
\* an open database or remote access port, a deprecated protocol, a listing, a mail host
\* without STARTTLS (policy/normalization.py and policy/evaluation.py).
THEOREM SeenNeverPassed == EvidenceSpec => []SeenIsNeverPassed
BY Assessed, AssessedSeenIsNeverPassed, PTL

(***************************************************************************)
(* What is missing: a run that lost some answers, beside the run that lost *)
(* none.                                                                   *)
(***************************************************************************)
Within(a, b) == \A q \in Questions : Answered(b, q) /\ (Answered(a, q) => a[q] = b[q])

\* The observation of a type is that of the complete run, or there is none.
Rests(x, y) == x = y \/ x.status = "inconclusive"

LEMMA AnswersWithin ==
    ASSUME NEW d, NEW L
    PROVE  Within(Answers(d, L), Answers(d, {}))
BY DEF Within, Answers, Answered

LEMMA SameRecords ==
    ASSUME NEW a, NEW b, Within(a, b), NEW q \in Questions
    PROVE  /\ Answered(b, q)
           /\ Answered(a, q) => Value(a, q) = Value(b, q) /\ Records(a, q) = Records(b, q)
           /\ ~Answered(a, q) => Records(a, q) = {}
BY DEF Within, Value, Records

LEMMA NothingToSee ==
    /\ Inconclusive.status = "inconclusive"
    /\ \A section : ~section.conclusive => NothingIn(section).status = "inconclusive"
BY DEF Inconclusive, NothingIn, Observation, StatusFromSection

LEMMA UnlessUsable ==
    ASSUME NEW r, NEW types, NEW f, NEW t \in types
    PROVE  /\ Usable(r) => Unless(r, types, f)[t] = f[t]
           /\ ~Usable(r) => Unless(r, types, f)[t] = Inconclusive
BY DEF Unless

LEMMA DnsCollected ==
    ASSUME NEW a, Usable(CollectDns(a))
    PROVE  LET p == CollectDns(a).payload
           IN  /\ \A x \in {"soa", "ns", "a", "caa", "dnskey", "ds", "wildcard"} :
                     x \in p.conclusive <=> Answered(a, <<"dns", x>>)
               /\ p.delegation = NameserverDiversity(Records(a, <<"dns", "ns">>))
               /\ p.caa = IF Records(a, <<"dns", "caa">>) = {} THEN {}
                          ELSE {ParseCaa(Records(a, <<"dns", "caa">>))}
               /\ p.dnssec = DnssecState(a)
               /\ p.resolves = (Records(a, <<"dns", "wildcard">>) # {})
<1> DEFINE p == CollectDns(a).payload
           answered == {q \in DnsQuestions : Answered(a, q)}
<1>1. /\ p.conclusive = {q[2] : q \in answered}
      /\ p.delegation = NameserverDiversity(Records(a, <<"dns", "ns">>))
      /\ p.caa = IF Records(a, <<"dns", "caa">>) = {} THEN {}
                 ELSE {ParseCaa(Records(a, <<"dns", "caa">>))}
      /\ p.dnssec = DnssecState(a)
      /\ p.resolves = (Records(a, <<"dns", "wildcard">>) # {})
    BY DEF CollectDns, OkUnless, Unavailable, Result, Usable
<1> HIDE DEF p
<1>2. ASSUME NEW x \in {"soa", "ns", "a", "caa", "dnskey", "ds", "wildcard"}
      PROVE  x \in {q[2] : q \in answered} <=> Answered(a, <<"dns", x>>)
    <2>1. <<"dns", x>> \in DnsQuestions
        BY DEF DnsQuestions
    <2>2. ASSUME NEW q \in DnsQuestions, q[2] = x PROVE q = <<"dns", x>>
        BY <2>2 DEF DnsQuestions
    <2> QED
        BY <2>1, <2>2
<1> QED
    BY <1>1, <1>2 DEF p

LEMMA CompleteDns ==
    ASSUME NEW a, NEW b, Within(a, b)
    PROVE  Usable(CollectDns(b))
<1>1. Answered(b, <<"dns", "soa">>)
    BY SameRecords, Asks
<1> QED
    BY <1>1 DEF CollectDns, OkUnless, Result, Usable

LEMMA DnsRests ==
    ASSUME NEW a, NEW b, Within(a, b)
    PROVE  LET x == NormalizeDns(CollectDns(a))
               y == NormalizeDns(CollectDns(b))
           IN  /\ Rests(x["dns.caa"], y["dns.caa"])
               /\ Rests(x["dns.delegation"], y["dns.delegation"])
               /\ Rests(x["dns.wildcard"], y["dns.wildcard"])
               /\ \/ Rests(x["dns.dnssec"], y["dns.dnssec"])
                  \/ x["dns.dnssec"] = Observed([state |-> "unknown"])
<1> DEFINE x == NormalizeDns(CollectDns(a))
           y == NormalizeDns(CollectDns(b))
           p == CollectDns(a).payload
           r == CollectDns(b).payload
<1>1. CASE ~Usable(CollectDns(a))
    <2>1. \A t \in DnsTypes : x[t] = Inconclusive
        BY <1>1, UnlessUsable DEF NormalizeDns
    <2> QED
        BY <2>1, NothingToSee DEF Rests, DnsTypes
<1>2. CASE Usable(CollectDns(a))
    <2>1. /\ x["dns.dnssec"] = Observed([state |-> p.dnssec])
          /\ x["dns.caa"] = IF p.caa = {} THEN NothingIn([conclusive |-> "caa" \in p.conclusive])
                            ELSE Observed([present |-> \E c \in p.caa : c.present])
          /\ x["dns.delegation"] = IF "ns" \in p.conclusive THEN Observed(p.delegation)
                                   ELSE Inconclusive
          /\ x["dns.wildcard"] = IF "wildcard" \in p.conclusive
                                 THEN Observed([resolves |-> p.resolves]) ELSE Inconclusive
        BY <1>2 DEF NormalizeDns, Unless, DnsTypes
    <2>2. /\ y["dns.dnssec"] = Observed([state |-> r.dnssec])
          /\ y["dns.caa"] = IF r.caa = {} THEN NothingIn([conclusive |-> "caa" \in r.conclusive])
                            ELSE Observed([present |-> \E c \in r.caa : c.present])
          /\ y["dns.delegation"] = IF "ns" \in r.conclusive THEN Observed(r.delegation)
                                   ELSE Inconclusive
          /\ y["dns.wildcard"] = IF "wildcard" \in r.conclusive
                                 THEN Observed([resolves |-> r.resolves]) ELSE Inconclusive
        BY CompleteDns DEF NormalizeDns, Unless, DnsTypes
    <2>3. \A z \in {"soa", "ns", "a", "caa", "dnskey", "ds", "wildcard"} :
              /\ z \in p.conclusive <=> Answered(a, <<"dns", z>>)
              /\ z \in r.conclusive
              /\ Answered(a, <<"dns", z>>) =>
                    /\ Records(a, <<"dns", z>>) = Records(b, <<"dns", z>>)
                    /\ Value(a, <<"dns", z>>) = Value(b, <<"dns", z>>)
              /\ Answered(b, <<"dns", z>>)
              /\ ~Answered(a, <<"dns", z>>) => Records(a, <<"dns", z>>) = {}
        <3> SUFFICES ASSUME NEW z \in {"soa", "ns", "a", "caa", "dnskey", "ds", "wildcard"}
                     PROVE  /\ z \in p.conclusive <=> Answered(a, <<"dns", z>>)
                            /\ z \in r.conclusive
                            /\ Answered(a, <<"dns", z>>) =>
                                  /\ Records(a, <<"dns", z>>) = Records(b, <<"dns", z>>)
                                  /\ Value(a, <<"dns", z>>) = Value(b, <<"dns", z>>)
                            /\ Answered(b, <<"dns", z>>)
                            /\ ~Answered(a, <<"dns", z>>) => Records(a, <<"dns", z>>) = {}
            OBVIOUS
        <3>1. <<"dns", z>> \in Questions
            BY Asks
        <3>2. z \in p.conclusive <=> Answered(a, <<"dns", z>>)
            BY <1>2, DnsCollected
        <3>3. z \in r.conclusive <=> Answered(b, <<"dns", z>>)
            BY CompleteDns, DnsCollected
        <3> QED
            BY <3>1, <3>2, <3>3, SameRecords
    <2>4. /\ p.delegation = NameserverDiversity(Records(a, <<"dns", "ns">>))
          /\ p.caa = IF Records(a, <<"dns", "caa">>) = {} THEN {}
                     ELSE {ParseCaa(Records(a, <<"dns", "caa">>))}
          /\ p.dnssec = DnssecState(a)
          /\ p.resolves = (Records(a, <<"dns", "wildcard">>) # {})
          /\ r.delegation = NameserverDiversity(Records(b, <<"dns", "ns">>))
          /\ r.caa = IF Records(b, <<"dns", "caa">>) = {} THEN {}
                     ELSE {ParseCaa(Records(b, <<"dns", "caa">>))}
          /\ r.dnssec = DnssecState(b)
          /\ r.resolves = (Records(b, <<"dns", "wildcard">>) # {})
        BY <1>2, DnsCollected, CompleteDns
    <2> HIDE DEF x, y, p, r
    <2>5. Rests(x["dns.delegation"], y["dns.delegation"])
        BY <2>1, <2>2, <2>3, <2>4, NothingToSee DEF Rests
    <2>6. Rests(x["dns.wildcard"], y["dns.wildcard"])
        BY <2>1, <2>2, <2>3, <2>4, NothingToSee DEF Rests
    <2>7. Rests(x["dns.caa"], y["dns.caa"])
        <3>1. CASE Answered(a, <<"dns", "caa">>)
            <4>1. p.caa = r.caa /\ "caa" \in p.conclusive /\ "caa" \in r.conclusive
                BY <2>3, <2>4, <3>1
            <4>2. NothingIn([conclusive |-> "caa" \in p.conclusive])
                    = NothingIn([conclusive |-> "caa" \in r.conclusive])
                BY <4>1
            <4> QED
                BY <2>1, <2>2, <4>1, <4>2 DEF Rests
        <3>2. CASE ~Answered(a, <<"dns", "caa">>)
            <4>1. p.caa = {} /\ "caa" \notin p.conclusive
                BY <2>3, <2>4, <3>2
            <4>2. NothingIn([conclusive |-> "caa" \in p.conclusive]).status = "inconclusive"
                BY <4>1, NothingToSee
            <4> QED
                BY <2>1, <4>1, <4>2 DEF Rests
        <3> QED
            BY <3>1, <3>2
    <2>8. DnssecState(a) = DnssecState(b) \/ DnssecState(a) = "unknown"
        BY <2>3 DEF DnssecState
    <2>9. \/ Rests(x["dns.dnssec"], y["dns.dnssec"])
          \/ x["dns.dnssec"] = Observed([state |-> "unknown"])
        BY <2>1, <2>2, <2>4, <2>8 DEF Rests
    <2> QED
        BY <2>5, <2>6, <2>7, <2>9 DEF x, y
<1> QED
    BY <1>1, <1>2

LEMMA NoRecordSelected == SelectPolicyRecord({}) = {} /\ Cardinality({}) = 0
BY FS_EmptySet DEF SelectPolicyRecord

SpfSection(a) ==
    [conclusive |-> Answered(a, <<"email", "spf">>),
     multiple |-> Cardinality(Records(a, <<"email", "spf">>)) > 1,
     parsed |-> {ParseSpf(r) : r \in SelectPolicyRecord(Records(a, <<"email", "spf">>))}]

DmarcSection(a) ==
    [conclusive |-> Answered(a, <<"email", "dmarc">>),
     parsed |-> {ParseDmarc(r) : r \in SelectPolicyRecord(Records(a, <<"email", "dmarc">>))}]

LEMMA EmailCollected ==
    ASSUME NEW a, Usable(CollectEmail(a))
    PROVE  LET p == CollectEmail(a).payload
           IN  /\ p.mx_present = (Records(a, <<"email", "mx">>) # {})
               /\ p.spf = SpfSection(a) /\ p.dmarc = DmarcSection(a)
               /\ p.tls_rpt = TlsRptSection(a) /\ p.dkim = DkimSection(a)
BY DEF CollectEmail, OkUnless, Unavailable, Result, Usable, SpfSection, DmarcSection

LEMMA CompleteEmail ==
    ASSUME NEW a, NEW b, Within(a, b)
    PROVE  Usable(CollectEmail(b))
<1>1. Answered(b, <<"email", "spf">>)
    BY SameRecords, Asks DEF EmailNames
<1> QED
    BY <1>1 DEF CollectEmail, OkUnless, Result, Usable

LEMMA SpfRests ==
    ASSUME NEW a, NEW b, Within(a, b)
    PROVE  Rests(NormalizeSpf(SpfSection(a)), NormalizeSpf(SpfSection(b)))
<1>1. <<"email", "spf">> \in Questions
    BY Asks DEF EmailNames
<1>2. CASE Answered(a, <<"email", "spf">>)
    <2>1. SpfSection(a) = SpfSection(b)
        BY <1>1, <1>2, SameRecords DEF SpfSection
    <2> QED
        BY <2>1 DEF Rests
<1>3. CASE ~Answered(a, <<"email", "spf">>)
    <2>1. Records(a, <<"email", "spf">>) = {}
        BY <1>1, <1>3, SameRecords
    <2>2. SpfSection(a).parsed = {} /\ ~SpfSection(a).conclusive
        BY <1>3, <2>1, NoRecordSelected DEF SpfSection
    <2>3. ~(Cardinality(Records(a, <<"email", "spf">>)) > 1)
        BY <2>1, NoRecordSelected
    <2>4. ~SpfSection(a).multiple
        BY <2>3 DEF SpfSection
    <2> QED
        BY <2>2, <2>4, NothingToSee DEF NormalizeSpf, Rests
<1> QED
    BY <1>2, <1>3

LEMMA DmarcRests ==
    ASSUME NEW a, NEW b, Within(a, b)
    PROVE  Rests(NormalizeDmarc(DmarcSection(a)), NormalizeDmarc(DmarcSection(b)))
<1>1. <<"email", "dmarc">> \in Questions
    BY Asks DEF EmailNames
<1>2. CASE Answered(a, <<"email", "dmarc">>)
    <2>1. DmarcSection(a) = DmarcSection(b)
        BY <1>1, <1>2, SameRecords DEF DmarcSection
    <2> QED
        BY <2>1 DEF Rests
<1>3. CASE ~Answered(a, <<"email", "dmarc">>)
    <2>1. Records(a, <<"email", "dmarc">>) = {}
        BY <1>1, <1>3, SameRecords
    <2>2. DmarcSection(a).parsed = {} /\ ~DmarcSection(a).conclusive
        BY <1>3, <2>1, NoRecordSelected DEF DmarcSection
    <2> QED
        BY <2>2, NothingToSee DEF NormalizeDmarc, Rests
<1> QED
    BY <1>2, <1>3

LEMMA DkimRests ==
    ASSUME NEW a, NEW b, Within(a, b)
    PROVE  Rests(NormalizeDkim(DkimSection(a)), NormalizeDkim(DkimSection(b)))
<1> DEFINE section(z, s) ==
        [selector |-> s, present |-> SelectPolicyRecord(Records(z, <<"dkim", s>>)) # {},
         conclusive |-> Answered(z, <<"dkim", s>>)]
<1>1. \A s \in Selectors : <<"dkim", s>> \in Questions
    BY Asks
<1>2. CASE \A s \in Selectors : Answered(a, <<"dkim", s>>)
    <2>1. ASSUME NEW s \in Selectors PROVE section(a, s) = section(b, s)
        <3>1. /\ Records(a, <<"dkim", s>>) = Records(b, <<"dkim", s>>)
              /\ Answered(a, <<"dkim", s>>) = TRUE /\ Answered(b, <<"dkim", s>>) = TRUE
            BY <1>1, <1>2, SameRecords DEF Answered
        <3> QED
            BY <3>1
    <2>2. DkimSection(a) = {section(a, s) : s \in Selectors}
          /\ DkimSection(b) = {section(b, s) : s \in Selectors}
        BY DEF DkimSection
    <2> HIDE DEF section
    <2>3. DkimSection(a) = DkimSection(b)
        BY <2>1, <2>2
    <2> QED
        BY <2>3 DEF Rests
<1>3. CASE \E s \in Selectors : ~Answered(a, <<"dkim", s>>)
    <2>1. PICK s \in Selectors : ~Answered(a, <<"dkim", s>>)
        BY <1>3
    <2>2. section(a, s) \in DkimSection(a) /\ ~section(a, s).conclusive
        BY <2>1 DEF DkimSection
    <2>3. NormalizeDkim(DkimSection(a)) = Inconclusive
        BY <2>2 DEF NormalizeDkim
    <2> QED
        BY <2>3, NothingToSee DEF Rests
<1> QED
    BY <1>2, <1>3

LEMMA TlsRptRests ==
    ASSUME NEW a, NEW b, Within(a, b), NEW mx
    PROVE  Rests(NormalizeTlsRpt(TlsRptSection(a), mx), NormalizeTlsRpt(TlsRptSection(b), mx))
<1>1. <<"email", "tls_rpt">> \in Questions
    BY Asks DEF EmailNames
<1>2. CASE Answered(a, <<"email", "tls_rpt">>)
    <2>1. TlsRptSection(a) = TlsRptSection(b)
        BY <1>1, <1>2, SameRecords DEF TlsRptSection
    <2> QED
        BY <2>1 DEF Rests
<1>3. CASE ~Answered(a, <<"email", "tls_rpt">>)
    <2>1. Records(a, <<"email", "tls_rpt">>) = {}
        BY <1>1, <1>3, SameRecords
    <2>2. ~TlsRptSection(a).present /\ ~TlsRptSection(a).conclusive
        BY <1>3, <2>1, NoRecordSelected DEF TlsRptSection
    <2> QED
        BY <2>2, NothingToSee DEF NormalizeTlsRpt, AbsentSection, Rests
<1> QED
    BY <1>2, <1>3

LEMMA EmailRests ==
    ASSUME NEW a, NEW b, Within(a, b)
    PROVE  LET x == NormalizeEmail(CollectEmail(a))
               y == NormalizeEmail(CollectEmail(b))
           IN  /\ Rests(x["email.spf"], y["email.spf"])
               /\ Rests(x["email.dmarc"], y["email.dmarc"])
               /\ Rests(x["email.dkim"], y["email.dkim"])
               /\ \/ Rests(x["email.tls_rpt"], y["email.tls_rpt"])
                  \/ ~x["email.tls_rpt"].attributes["mx_present"]
<1> DEFINE x == NormalizeEmail(CollectEmail(a))
           y == NormalizeEmail(CollectEmail(b))
           mx(z) == CollectEmail(z).payload.mx_present
<1>1. CASE ~Usable(CollectEmail(a))
    <2>1. \A t \in EmailTypes : x[t] = Inconclusive
        BY <1>1, UnlessUsable DEF NormalizeEmail
    <2> QED
        BY <2>1, NothingToSee DEF Rests, EmailTypes
<1>2. CASE Usable(CollectEmail(a))
    <2>1. ASSUME NEW z, Usable(CollectEmail(z))
          PROVE  LET o == NormalizeEmail(CollectEmail(z))
                 IN  /\ o["email.spf"] = NormalizeSpf(SpfSection(z))
                     /\ o["email.dmarc"] = NormalizeDmarc(DmarcSection(z))
                     /\ o["email.dkim"] = NormalizeDkim(DkimSection(z))
                     /\ o["email.tls_rpt"] = NormalizeTlsRpt(TlsRptSection(z), mx(z))
                     /\ mx(z) = (Records(z, <<"email", "mx">>) # {})
        BY <2>1, EmailCollected DEF NormalizeEmail, Unless, EmailTypes
    <2>2. Rests(x["email.spf"], y["email.spf"])
        BY <1>2, <2>1, CompleteEmail, SpfRests
    <2>3. Rests(x["email.dmarc"], y["email.dmarc"])
        BY <1>2, <2>1, CompleteEmail, DmarcRests
    <2>4. Rests(x["email.dkim"], y["email.dkim"])
        BY <1>2, <2>1, CompleteEmail, DkimRests
    <2>5. /\ x["email.tls_rpt"] = NormalizeTlsRpt(TlsRptSection(a), mx(a))
          /\ y["email.tls_rpt"] = NormalizeTlsRpt(TlsRptSection(b), mx(b))
          /\ mx(a) = (Records(a, <<"email", "mx">>) # {})
          /\ mx(b) = (Records(b, <<"email", "mx">>) # {})
        BY <1>2, <2>1, CompleteEmail
    <2>6. <<"email", "mx">> \in Questions
        BY Asks DEF EmailNames
    <2> HIDE DEF x, y, mx
    <2>7. mx(a) = mx(b) \/ ~mx(a)
        BY <2>5, <2>6, SameRecords
    <2>8. ASSUME mx(a) = mx(b) PROVE Rests(x["email.tls_rpt"], y["email.tls_rpt"])
        <3>1. Rests(NormalizeTlsRpt(TlsRptSection(a), mx(a)),
                    NormalizeTlsRpt(TlsRptSection(b), mx(a)))
            BY TlsRptRests
        <3> QED
            BY <2>5, <2>8, <3>1
    <2>9. ASSUME ~mx(a)
          PROVE  \/ Rests(x["email.tls_rpt"], y["email.tls_rpt"])
                 \/ ~x["email.tls_rpt"].attributes["mx_present"]
        <3>1. ASSUME TlsRptSection(a).present \/ TlsRptSection(a).conclusive
              PROVE  ~x["email.tls_rpt"].attributes["mx_present"]
            BY <2>5, <2>9, <3>1 DEF NormalizeTlsRpt, AbsentSection, Observed, Observation
        <3>2. ASSUME ~TlsRptSection(a).present, ~TlsRptSection(a).conclusive
              PROVE  Rests(x["email.tls_rpt"], y["email.tls_rpt"])
            BY <2>5, <3>2, NothingToSee DEF NormalizeTlsRpt, AbsentSection, Rests
        <3> QED
            BY <3>1, <3>2
    <2>10. \/ Rests(x["email.tls_rpt"], y["email.tls_rpt"])
           \/ ~x["email.tls_rpt"].attributes["mx_present"]
        BY <2>7, <2>8, <2>9
    <2> QED
        BY <2>2, <2>3, <2>4, <2>10 DEF x, y
<1> QED
    BY <1>1, <1>2

LEMMA CertificateRests ==
    ASSUME NEW a, NEW b, Within(a, b), NEW probe
    PROVE  Rests(NormalizeTls(CollectTls(a, probe))["tls.certificate"],
                 NormalizeTls(CollectTls(b, probe))["tls.certificate"])
<1> DEFINE certificate(r) == NormalizeTls(r)["tls.certificate"]
<1>1. ASSUME NEW r
      PROVE  certificate(r) = IF ~Usable(r) \/ r.payload.leaf = {} THEN Inconclusive
                              ELSE Observed(CHOOSE leaf \in r.payload.leaf : TRUE)
    BY NothingToSee DEF NormalizeTls, Unless, TlsTypes
<1>2. CASE ~Answered(a, Handshake)
    <2>1. ~Usable(CollectTls(a, probe))
        BY <1>2, UnavailableIsRetried DEF CollectTls
    <2> QED
        BY <1>1, <2>1, NothingToSee DEF Rests
<1>3. CASE Answered(a, Handshake)
    <2>1. Answered(b, Handshake) /\ Value(a, Handshake) = Value(b, Handshake)
        BY <1>3, SameRecords, Asks
    <2>2. ASSUME NEW z, Answered(z, Handshake)
          PROVE  LET r == CollectTls(z, probe)
                 IN  IF Value(z, Handshake).status = "error" THEN ~Usable(r)
                     ELSE Usable(r) /\ r.payload.leaf = Value(z, Handshake).leaf
        BY <2>2 DEF CollectTls, OkUnless, Result, Usable
    <2>3. certificate(CollectTls(a, probe)) = certificate(CollectTls(b, probe))
        <3> HIDE DEF certificate
        <3>1. CASE Value(a, Handshake).status = "error"
            BY <1>1, <1>3, <2>1, <2>2, <3>1
        <3>2. CASE Value(a, Handshake).status # "error"
            BY <1>1, <1>3, <2>1, <2>2, <3>2
        <3> QED
            BY <3>1, <3>2
    <2> QED
        BY <2>3 DEF Rests
<1> QED
    BY <1>2, <1>3

PageTypes == {"http.security_headers", "http.cookies", "http.disclosure"}

LEMMA PageRests ==
    ASSUME NEW a, NEW b, Within(a, b), NEW t \in PageTypes
    PROVE  Rests(NormalizeHttp(CollectHttp(a))[t], NormalizeHttp(CollectHttp(b))[t])
<1> DEFINE page(r) == IF ~Usable(r) \/ r.payload.page = {} THEN Inconclusive
                      ELSE NormalizePage(t, CHOOSE p \in r.payload.page : TRUE)
<1>1. t \in HttpTypes /\ t # "http.availability" /\ t # "http.redirect"
    BY DEF PageTypes, HttpTypes
<1>2. ASSUME NEW r PROVE NormalizeHttp(r)[t] = page(r)
    BY <1>1 DEF NormalizeHttp, Unless
<1>3. CASE ~Answered(a, Secure)
    <2>1. ~Usable(CollectHttp(a)) \/ CollectHttp(a).payload.page = {}
        BY <1>3 DEF CollectHttp, OkUnless, Unavailable, Result, Usable
    <2> QED
        BY <1>2, <2>1, NothingToSee DEF Rests
<1>4. CASE Answered(a, Secure)
    <2>1. Answered(b, Secure) /\ Value(a, Secure) = Value(b, Secure)
        BY <1>4, SameRecords, Asks
    <2>2. ASSUME NEW z, Answered(z, Secure)
          PROVE  Usable(CollectHttp(z)) /\ CollectHttp(z).payload.page = {Value(z, Secure)}
        BY <2>2 DEF CollectHttp, OkUnless, Result, Usable
    <2>3. page(CollectHttp(a)) = page(CollectHttp(b))
        BY <1>4, <2>1, <2>2
    <2> QED
        BY <1>2, <2>3 DEF Rests
<1> QED
    BY <1>3, <1>4

LEMMA RegistrationRests ==
    ASSUME NEW a, NEW b, Within(a, b)
    PROVE  Rests(NormalizeRdap(CollectRdap(a)), NormalizeRdap(CollectRdap(b)))
<1>1. CASE ~Answered(a, Rdap)
    <2>1. CollectRdap(a) = Unavailable("timeout")
        BY <1>1 DEF CollectRdap
    <2>2. CollectRdap(a).status # "not_applicable" /\ ~Usable(CollectRdap(a))
        BY <2>1, UnavailableIsRetried DEF Unavailable, Result
    <2> QED
        BY <2>2, NothingToSee DEF NormalizeRdap, Rests
<1>2. CASE Answered(a, Rdap)
    <2>1. Answered(b, Rdap) /\ Value(a, Rdap) = Value(b, Rdap)
        BY <1>2, SameRecords, Asks
    <2>2. CollectRdap(a) = CollectRdap(b)
        BY <1>2, <2>1 DEF CollectRdap
    <2> QED
        BY <2>2 DEF Rests
<1> QED
    BY <1>1, <1>2

LEMMA CandidatesRest ==
    ASSUME NEW a, NEW b, Within(a, b)
    PROVE  \/ NormalizeCt(CollectCt(a)) = NormalizeCt(CollectCt(b))
           \/ NormalizeCt(CollectCt(a)) = Absent
<1>1. CASE ~Answered(a, CtIndex)
    BY <1>1 DEF CollectCt, Records, NotApplicable, Result, NormalizeCt
<1>2. CASE Answered(a, CtIndex)
    <2>1. Records(a, CtIndex) = Records(b, CtIndex)
        BY <1>2, SameRecords, Asks
    <2> QED
        BY <2>1 DEF CollectCt
<1> QED
    BY <1>1, <1>2

LEMMA ChecksOfPillarA ==
    /\ DOMAIN PillarA = {"A_dnssec_enabled", "A_caa_present", "A_nameserver_diversity",
                         "A_registration_expiry"}
    /\ Catalog["A_dnssec_enabled"].type = "dns.dnssec"
    /\ Catalog["A_caa_present"].type = "dns.caa"
    /\ Catalog["A_nameserver_diversity"].type = "dns.delegation"
    /\ Catalog["A_registration_expiry"].type = "rdap.registration"
<1>1. /\ DOMAIN PillarA = {"A_dnssec_enabled", "A_caa_present", "A_nameserver_diversity",
                           "A_registration_expiry"}
      /\ PillarA["A_dnssec_enabled"].type = "dns.dnssec"
      /\ PillarA["A_caa_present"].type = "dns.caa"
      /\ PillarA["A_nameserver_diversity"].type = "dns.delegation"
      /\ PillarA["A_registration_expiry"].type = "rdap.registration"
    BY SMT DEF PillarA, Check
<1> QED
    BY <1>1, ChecksByPillar

LEMMA ChecksOfPillarB ==
    /\ DOMAIN PillarB = {"B_spf_present", "B_dmarc_enforced", "B_dkim_declared_present",
                         "B_mta_sts_enforced", "B_tls_rpt_present",
                         "B_mail_transport_encryption"}
    /\ Catalog["B_spf_present"].type = "email.spf"
    /\ Catalog["B_dmarc_enforced"].type = "email.dmarc"
    /\ Catalog["B_dkim_declared_present"].type = "email.dkim"
    /\ Catalog["B_tls_rpt_present"].type = "email.tls_rpt"
    /\ Catalog["B_tls_rpt_present"].applicability = "mx_present"
<1>1. /\ DOMAIN PillarB = {"B_spf_present", "B_dmarc_enforced", "B_dkim_declared_present",
                           "B_mta_sts_enforced", "B_tls_rpt_present",
                           "B_mail_transport_encryption"}
      /\ PillarB["B_spf_present"].type = "email.spf"
      /\ PillarB["B_dmarc_enforced"].type = "email.dmarc"
      /\ PillarB["B_dkim_declared_present"].type = "email.dkim"
      /\ PillarB["B_tls_rpt_present"].type = "email.tls_rpt"
      /\ PillarB["B_tls_rpt_present"].applicability = "mx_present"
    BY SMT DEF PillarB, Check
<1> QED
    BY <1>1, ChecksByPillar

LEMMA ChecksOfPillarC ==
    /\ DOMAIN PillarC = {"C_https_available", "C_http_redirects_https", "C_certificate_validity",
                         "C_certificate_hostname", "C_tls_protocol_posture", "C_hsts_present",
                         "C_security_headers", "C_cookie_attributes"}
    /\ Catalog["C_certificate_validity"].type = "tls.certificate"
    /\ Catalog["C_certificate_hostname"].type = "tls.certificate"
    /\ Catalog["C_hsts_present"].type = "http.security_headers"
    /\ Catalog["C_security_headers"].type = "http.security_headers"
    /\ Catalog["C_cookie_attributes"].type = "http.cookies"
<1>1. /\ DOMAIN PillarC = {"C_https_available", "C_http_redirects_https",
                           "C_certificate_validity", "C_certificate_hostname",
                           "C_tls_protocol_posture", "C_hsts_present",
                           "C_security_headers", "C_cookie_attributes"}
      /\ PillarC["C_certificate_validity"].type = "tls.certificate"
      /\ PillarC["C_certificate_hostname"].type = "tls.certificate"
      /\ PillarC["C_hsts_present"].type = "http.security_headers"
      /\ PillarC["C_security_headers"].type = "http.security_headers"
      /\ PillarC["C_cookie_attributes"].type = "http.cookies"
    BY SMT DEF PillarC, Check
<1> QED
    BY <1>1, ChecksByPillar

LEMMA ChecksOfOtherPillars ==
    /\ DOMAIN OtherPillars = {"D_asset_attribution_reviewed", "D_wildcard_dns_exposure",
                              "E_domain_reputation_clean", "F_server_banner_disclosure"}
                                \cup AuthorizedChecks
    /\ Catalog["D_asset_attribution_reviewed"].type = "assets.candidates"
    /\ Catalog["D_wildcard_dns_exposure"].type = "dns.wildcard"
    /\ Catalog["F_server_banner_disclosure"].type = "http.disclosure"
<1>1. /\ DOMAIN OtherPillars = {"D_asset_attribution_reviewed", "D_wildcard_dns_exposure",
                                "E_domain_reputation_clean", "F_server_banner_disclosure"}
                                  \cup AuthorizedChecks
      /\ OtherPillars["D_asset_attribution_reviewed"].type = "assets.candidates"
      /\ OtherPillars["D_wildcard_dns_exposure"].type = "dns.wildcard"
      /\ OtherPillars["F_server_banner_disclosure"].type = "http.disclosure"
    BY SMT DEF OtherPillars, Check, AuthorizedChecks
<1> QED
    BY <1>1, ChecksByPillar

LEMMA RestingJudgement ==
    ASSUME NEW c \in CatalogChecks, NEW o, NEW p,
           Catalog[c].type \in DOMAIN o, Catalog[c].type \in DOMAIN p,
           Rests(o[Catalog[c].type], p[Catalog[c].type]),
           EvaluateCheck(Catalog[c], o) \in Judged
    PROVE  EvaluateCheck(Catalog[c], o) = EvaluateCheck(Catalog[c], p)
<1>1. AsksNothingOfSilence(Catalog[c])
    BY RulesOfCatalog
<1>2. o[Catalog[c].type].status # "inconclusive"
    BY <1>1, SilenceJudgesNothing
<1>3. o[Catalog[c].type] = p[Catalog[c].type]
    BY <1>2 DEF Rests
<1> QED
    BY <1>3, EvaluatedAlike

\* A state of DNSSEC that nobody knows is no state a rule is about.
LEMMA UnknownDnssecJudgesNothing ==
    ASSUME NEW o, o["dns.dnssec"] = Observed([state |-> "unknown"])
    PROVE  EvaluateCheck(Catalog["A_dnssec_enabled"], o) \notin Judged
<1> DEFINE check == Catalog["A_dnssec_enabled"]
<1>1. /\ DOMAIN check.rules \subseteq Nat
      /\ \A i \in DOMAIN check.rules : /\ check.rules[i].test = "equals"
                                       /\ check.rules[i].attr = "state"
                                       /\ check.rules[i].value # "unknown"
    <2>1. /\ DOMAIN PillarA["A_dnssec_enabled"].rules \subseteq Nat
          /\ \A i \in DOMAIN PillarA["A_dnssec_enabled"].rules :
                LET rule == PillarA["A_dnssec_enabled"].rules[i]
                IN  rule.test = "equals" /\ rule.attr = "state" /\ rule.value # "unknown"
        BY SMT DEF PillarA, Check, Equals
    <2> QED
        BY <2>1, ChecksByPillar, ChecksOfPillarA
<1>2. check.type = "dns.dnssec"
    BY ChecksOfPillarA
<1> HIDE DEF check
<1>3. ASSUME NEW i \in DOMAIN check.rules PROVE ~Matches(check.rules[i], o["dns.dnssec"])
    <2>1. o["dns.dnssec"].attributes["state"] = "unknown"
        BY DEF Observed, Observation
    <2>2. /\ check.rules[i].test = "equals" /\ check.rules[i].attr = "state"
          /\ check.rules[i].value # "unknown"
        BY <1>1
    <2> QED
        BY <2>1, <2>2 DEF Matches
<1>4. EvaluateCheck(check, o) \notin Judged
    BY <1>1, <1>2, <1>3, EvaluatesToARule
<1> QED
    BY <1>4 DEF check

LEMMA NoMailJudgesNothing ==
    ASSUME NEW o, ~o["email.tls_rpt"].attributes["mx_present"]
    PROVE  EvaluateCheck(Catalog["B_tls_rpt_present"], o) \notin Judged
<1> DEFINE check == Catalog["B_tls_rpt_present"]
<1>1. check.type = "email.tls_rpt" /\ check.applicability = "mx_present"
    BY ChecksOfPillarB
<1> HIDE DEF check
<1>2. ~IsApplicable(check, o)
    BY <1>1 DEF IsApplicable
<1>3. EvaluateCheck(check, o) = "not_applicable"
    BY <1>2 DEF EvaluateCheck
<1> QED
    BY <1>3 DEF check, Judged

LEMMA NoCandidatesJudgeNothing ==
    ASSUME NEW o, o["assets.candidates"] = Absent
    PROVE  EvaluateCheck(Catalog["D_asset_attribution_reviewed"], o) \notin Judged
<1> DEFINE check == Catalog["D_asset_attribution_reviewed"]
<1>1. /\ DOMAIN check.rules \subseteq Nat
      /\ \A i \in DOMAIN check.rules :
            check.rules[i].test = "status" => check.rules[i].result = "not_applicable"
    <2>1. /\ DOMAIN OtherPillars["D_asset_attribution_reviewed"].rules \subseteq Nat
          /\ \A i \in DOMAIN OtherPillars["D_asset_attribution_reviewed"].rules :
                LET rule == OtherPillars["D_asset_attribution_reviewed"].rules[i]
                IN  rule.test = "status" => rule.result = "not_applicable"
        BY SMT DEF OtherPillars, Check, AtMost, AtLeast, StatusIs
    <2> QED
        BY <2>1, ChecksByPillar, ChecksOfOtherPillars
<1>2. check.type = "assets.candidates"
    BY ChecksOfOtherPillars
<1> HIDE DEF check
<1>3. \A i \in DOMAIN check.rules :
          Matches(check.rules[i], o["assets.candidates"]) => check.rules[i].test = "status"
    BY DEF Matches, Absent, Observation
<1>4. EvaluateCheck(check, o) \notin Judged
    BY <1>1, <1>2, <1>3, EvaluatesToARule DEF Judged
<1> QED
    BY <1>4 DEF check

LEMMA MissingJudgement ==
    ASSUME NEW a, NEW b, Within(a, b), NEW m, NEW probe,
           NEW c \in CatalogChecks \ JudgedOverWhatAnswered,
           Verdicts(a, m, probe)[c] \in Judged
    PROVE  Verdicts(a, m, probe)[c] = Verdicts(b, m, probe)[c]
<1> DEFINE o == Normalize(Collect(a, m, probe))
           p == Normalize(Collect(b, m, probe))
           check == Catalog[c]
<1>1. c \notin AuthorizedChecks
    BY DEF JudgedOverWhatAnswered
<1>2. /\ Verdicts(a, m, probe)[c] = EvaluateCheck(check, o)
      /\ Verdicts(b, m, probe)[c] = EvaluateCheck(check, p)
    BY <1>1, VerdictOf DEF Withhold
<1>3. EvaluateCheck(check, o) \in Judged
    BY <1>2
<1>4. ASSUME check.type \in DOMAIN o, check.type \in DOMAIN p,
             Rests(o[check.type], p[check.type])
      PROVE  EvaluateCheck(check, o) = EvaluateCheck(check, p)
    BY <1>3, <1>4, RestingJudgement
<1>5. /\ \A t \in DnsTypes : t \in DOMAIN o /\ t \in DOMAIN p
                             /\ o[t] = NormalizeDns(CollectDns(a))[t]
                             /\ p[t] = NormalizeDns(CollectDns(b))[t]
      /\ \A t \in EmailTypes : t \in DOMAIN o /\ t \in DOMAIN p
                               /\ o[t] = NormalizeEmail(CollectEmail(a))[t]
                               /\ p[t] = NormalizeEmail(CollectEmail(b))[t]
    BY ObservedAs
<1>6. /\ \A t \in TlsTypes : t \in DOMAIN o /\ t \in DOMAIN p
                             /\ o[t] = NormalizeTls(CollectTls(a, probe))[t]
                             /\ p[t] = NormalizeTls(CollectTls(b, probe))[t]
      /\ \A t \in HttpTypes : t \in DOMAIN o /\ t \in DOMAIN p
                              /\ o[t] = NormalizeHttp(CollectHttp(a))[t]
                              /\ p[t] = NormalizeHttp(CollectHttp(b))[t]
    BY ObservedAs
<1>7. /\ "rdap.registration" \in DOMAIN o /\ "rdap.registration" \in DOMAIN p
      /\ o["rdap.registration"] = NormalizeRdap(CollectRdap(a))
      /\ p["rdap.registration"] = NormalizeRdap(CollectRdap(b))
      /\ "assets.candidates" \in DOMAIN o /\ "assets.candidates" \in DOMAIN p
      /\ o["assets.candidates"] = NormalizeCt(CollectCt(a))
      /\ p["assets.candidates"] = NormalizeCt(CollectCt(b))
    BY ObservedAs
<1> HIDE DEF o, p
<1>8. \/ c \in {"A_dnssec_enabled", "A_caa_present", "A_nameserver_diversity",
                "D_wildcard_dns_exposure"}
      \/ c \in {"B_spf_present", "B_dmarc_enforced", "B_dkim_declared_present",
                "B_tls_rpt_present"}
      \/ c \in {"C_certificate_validity", "C_certificate_hostname"}
      \/ c \in {"C_hsts_present", "C_security_headers", "C_cookie_attributes",
                "F_server_banner_disclosure"}
      \/ c \in {"A_registration_expiry", "D_asset_attribution_reviewed"}
    BY ChecksByPillar, ChecksOfPillarA, ChecksOfPillarB, ChecksOfPillarC, ChecksOfOtherPillars
       DEF JudgedOverWhatAnswered
<1>9. CASE c \in {"A_dnssec_enabled", "A_caa_present", "A_nameserver_diversity",
                  "D_wildcard_dns_exposure"}
    <2>1. check.type \in DnsTypes
        BY <1>9, ChecksOfPillarA, ChecksOfOtherPillars DEF DnsTypes
    <2>2. \/ Rests(o[check.type], p[check.type])
          \/ c = "A_dnssec_enabled" /\ o["dns.dnssec"] = Observed([state |-> "unknown"])
        BY <1>5, <1>9, <2>1, ChecksOfPillarA, ChecksOfOtherPillars, DnsRests
    <2> QED
        BY <1>2, <1>3, <1>4, <1>5, <2>1, <2>2, UnknownDnssecJudgesNothing
<1>10. CASE c \in {"B_spf_present", "B_dmarc_enforced", "B_dkim_declared_present",
                   "B_tls_rpt_present"}
    <2>1. check.type \in EmailTypes
        BY <1>10, ChecksOfPillarB DEF EmailTypes
    <2>2. \/ Rests(o[check.type], p[check.type])
          \/ c = "B_tls_rpt_present" /\ ~o["email.tls_rpt"].attributes["mx_present"]
        BY <1>5, <1>10, <2>1, ChecksOfPillarB, EmailRests
    <2> QED
        BY <1>2, <1>3, <1>4, <1>5, <2>1, <2>2, NoMailJudgesNothing
<1>11. CASE c \in {"C_certificate_validity", "C_certificate_hostname"}
    <2>1. check.type = "tls.certificate" /\ "tls.certificate" \in TlsTypes
        BY <1>11, ChecksOfPillarC DEF TlsTypes
    <2>2. Rests(o[check.type], p[check.type])
        BY <1>6, <2>1, CertificateRests
    <2> QED
        BY <1>2, <1>4, <1>6, <2>1, <2>2
<1>12. CASE c \in {"C_hsts_present", "C_security_headers", "C_cookie_attributes",
                   "F_server_banner_disclosure"}
    <2>1. check.type \in PageTypes /\ check.type \in HttpTypes
        BY <1>12, ChecksOfPillarC, ChecksOfOtherPillars DEF PageTypes, HttpTypes
    <2>2. Rests(o[check.type], p[check.type])
        BY <1>6, <2>1, PageRests
    <2> QED
        BY <1>2, <1>4, <1>6, <2>1, <2>2
<1>13. CASE c = "A_registration_expiry"
    BY <1>2, <1>4, <1>7, <1>13, ChecksOfPillarA, RegistrationRests
<1>14. CASE c = "D_asset_attribution_reviewed"
    <2>1. check.type = "assets.candidates"
        BY <1>14, ChecksOfOtherPillars
    <2>2. o["assets.candidates"] # Absent
        BY <1>3, <1>14, NoCandidatesJudgeNothing
    <2>3. Rests(o["assets.candidates"], p["assets.candidates"])
        BY <1>7, <2>2, CandidatesRest DEF Rests
    <2> QED
        BY <1>2, <1>4, <1>7, <2>1, <2>3
<1> QED
    BY <1>8, <1>9, <1>10, <1>11, <1>12, <1>13, <1>14

LEMMA AssessedMissingJudgeNothing == AssessedInv => MissingAnswersJudgeNothing
<1> SUFFICES ASSUME AssessedInv, NEW c \in DOMAIN verdict \ JudgedOverWhatAnswered,
                    verdict[c] \in Judged
             PROVE  verdict[c] = Verdicts(Answers(domain, {}), mode, probing)[c]
    BY DEF MissingAnswersJudgeNothing
<1>1. verdict = Verdicts(Answers(domain, lost), mode, probing)
    BY DEF AssessedInv
<1>2. DOMAIN verdict = CatalogChecks
    BY <1>1 DEF Verdicts
<1> QED
    BY <1>1, <1>2, AnswersWithin, MissingJudgement

\* An answer that did not come judges nothing: a check that reads one kind of evidence is
\* judged as if nothing had been lost, or it is not judged (policy/evaluation.py:3-5,
\* policy/normalization.py:3-5), for every domain and every set of lost answers.
THEOREM MissingJudgesNothing == EvidenceSpec => []MissingAnswersJudgeNothing
BY Assessed, AssessedMissingJudgeNothing, PTL

(***************************************************************************)
(* What was never asked.                                                   *)
(***************************************************************************)
LEMMA AuthorizedAreChecks == AuthorizedChecks \subseteq CatalogChecks
BY ChecksByPillar, ChecksOfOtherPillars

LEMMA AssessedPassively == AssessedInv => PassiveJudgesNothingActive
<1> SUFFICES ASSUME AssessedInv, verdict # << >>, mode = PassiveMode
             PROVE  /\ \A c \in AuthorizedChecks : verdict[c] = "not_applicable"
                    /\ outcome["ports"] = "skipped"
    BY DEF PassiveJudgesNothingActive
<1>1. /\ verdict = Verdicts(Answers(domain, lost), mode, probing)
      /\ outcome = Outcomes(Answers(domain, lost), mode, probing)
    BY DEF AssessedInv
<1>2. ASSUME NEW c \in AuthorizedChecks PROVE verdict[c] = "not_applicable"
    BY <1>1, <1>2, AuthorizedAreChecks, VerdictOf DEF Withhold
<1>3. /\ "ports" \in CollectorNames
      /\ "ports" \notin DOMAIN Collect(Answers(domain, lost), mode, probing)
    BY DEF Collect, SkippedIn, CollectorNames
<1>4. outcome["ports"] = "skipped"
    BY <1>1, <1>3 DEF Outcomes
<1> QED
    BY <1>2, <1>4

LEMMA TransportJudgedByARule ==
    ASSUME NEW a, NEW m, NEW probe,
           Verdicts(a, m, probe)["B_mail_transport_encryption"] \in Judged
    PROVE  NormalizeMailTransport(CollectMailTransport(a, MailHostsOf(CollectEmail(a)))).status
              = "observed"
<1> DEFINE c == "B_mail_transport_encryption"
           check == Catalog[c]
           o == Normalize(Collect(a, m, probe))
           x == StatusIs("absent", "not_applicable")
           y == Equals("starttls_everywhere", TRUE, "pass")
           z == Equals("starttls_everywhere", FALSE, "fail")
<1>1. /\ c \in CatalogChecks /\ check.type = "mail.transport_security"
      /\ check.rules = <<x, y, z>>
    BY TransportCheck
<1>2. EvaluateCheck(check, o) \in Judged
    BY <1>1, VerdictOf DEF Withhold, Judged
<1>3. /\ x.result = "not_applicable" /\ y.test = "equals" /\ z.test = "equals"
    BY DEF StatusIs, Equals
<1>4. o["mail.transport_security"] =
          NormalizeMailTransport(CollectMailTransport(a, MailHostsOf(CollectEmail(a))))
    BY ObservedAs
<1> HIDE DEF check, o, x, y, z
<1>5. PICK i \in DOMAIN check.rules :
          /\ Matches(check.rules[i], o["mail.transport_security"])
          /\ check.rules[i].result \in Judged
    BY <1>1, <1>2, EvaluatesToARule
<1>6. check.rules[i].test = "equals"
    BY <1>1, <1>3, <1>5 DEF Judged
<1> QED
    BY <1>4, <1>5, <1>6 DEF Matches

LEMMA AssessedTransport == AssessedInv => TransportOfObservedHostsOnly
<1> SUFFICES ASSUME AssessedInv, verdict # << >>,
                    verdict["B_mail_transport_encryption"] \in Judged
             PROVE  \E h \in domain[<<"email", "mx">>] :
                        /\ h # "" /\ Seen(<<"email", "mx">>) /\ Seen(<<"mail_tls", h>>)
                        /\ domain[<<"mail_tls", h>>] # "unreachable"
    BY DEF TransportOfObservedHostsOnly
<1> DEFINE a == Answers(domain, lost)
           email == CollectEmail(a)
           r == CollectMailTransport(a, MailHostsOf(email))
           reachable == {h \in MailHostsOf(email) : MailState(a, h) # "unreachable"}
<1>1. NormalizeMailTransport(r).status = "observed"
    BY TransportJudgedByARule DEF AssessedInv
<1>2. \A q \in Questions : /\ Answered(a, q) <=> Seen(q)
                           /\ Seen(q) => Value(a, q) = domain[q]
    BY AnswerOf DEF Seen
<1> HIDE DEF a
<1>3. r.status # "not_applicable"
    BY <1>1 DEF NormalizeMailTransport, Absent, Observation
<1>4. MailHostsOf(email) # {} /\ reachable # {}
    BY <1>3 DEF CollectMailTransport, NotApplicable, Result
<1>5. Usable(email)
    BY <1>4 DEF MailHostsOf, ObservedMailHosts
<1>6. email.payload.mail_hosts = Records(a, <<"email", "mx">>) \ {""}
    BY <1>5 DEF CollectEmail, OkUnless, Unavailable, Result, Usable
<1>7. PICK h \in reachable : TRUE
    BY <1>4
<1>8. h \in Records(a, <<"email", "mx">>) /\ h # ""
    BY <1>5, <1>6, <1>7 DEF MailHostsOf, ObservedMailHosts
<1>9. <<"email", "mx">> \in Questions
    BY Asks DEF EmailNames
<1>10. Seen(<<"email", "mx">>) /\ h \in domain[<<"email", "mx">>]
    BY <1>2, <1>8, <1>9 DEF Records
<1>11. h \in MailHosts
    BY <1>8, <1>9, <1>10, EvidenceAssumption DEF AssessedInv
<1>12. Answered(a, <<"mail_tls", h>>) /\ Value(a, <<"mail_tls", h>>) # "unreachable"
    BY <1>7 DEF MailState
<1>13. Seen(<<"mail_tls", h>>) /\ domain[<<"mail_tls", h>>] # "unreachable"
    BY <1>2, <1>11, <1>12, Asks
<1> QED
    BY <1>8, <1>10, <1>13

\* Without an authorization nothing is judged that only an authorized assessment may
\* collect for, and the ports are not asked (observation/pipeline.py,
\* withhold_unavailable_checks); and the transport of mail is judged only by hosts the
\* domain was seen to publish (handlers, _mail_hosts).
THEOREM NothingUnaskedIsJudged ==
    EvidenceSpec => [](PassiveJudgesNothingActive /\ TransportOfObservedHostsOnly)
<1>1. AssessedInv => PassiveJudgesNothingActive /\ TransportOfObservedHostsOnly
    BY AssessedPassively, AssessedTransport
<1> QED
    BY <1>1, Assessed, PTL
===============================================================================
