-------------------------- MODULE DomainControlProofs --------------------------
(***************************************************************************)
(* Proofs about domain control, for any number of requests, challenges,    *)
(* attempts, checkpoints and emergency controls.  What the induction has   *)
(* to carry is what the row locks keep: nobody else touches the challenge  *)
(* a verification fetches for, the rows a creation has retired, or the     *)
(* draft an acceptance has read.                                           *)
(***************************************************************************)
EXTENDS DomainControl, FiniteSetTheorems, TLAPS

RequestRow ==
    [pc : {"idle", "creating", "fetching", "accepting", "revoking"},
     challenge : SUBSET Challenges, method : Methods, attempts : Nat,
     left : 0 .. Checkpoints, lapsed : SUBSET Scopes, retired : SUBSET Challenges,
     covered : BOOLEAN]

\* A challenge fails with its last attempt, and not before.
RowInv(row) ==
    /\ row.state = "pending" => row.failures = row.attempts
    /\ row.failures <= MaxAttempts
    /\ row.failures = MaxAttempts => row.state = "failed"

\* A verification works on one pending challenge, and what it has read of it
\* is what the row says.
FetchInv(r) ==
    r.pc = "fetching" =>
        \E c \in Challenges :
            /\ r.challenge = {c}
            /\ challenges[c].state = "pending"
            /\ r.method = challenges[c].method
            /\ r.attempts = challenges[c].attempts

\* What a creation retires stays as it was found.
RetiredInv(r) ==
    /\ r.retired # {} => r.pc = "creating"
    /\ \A c \in r.retired : challenges[c].state = "pending"

\* A fetch that is covered has a control in force, and a checkpoint to meet it.
CoverInv(r) ==
    r.covered =>
        /\ \E s \in Scopes : InForce(s)
        /\ r.pc = "fetching" /\ r.method = "https_file" => r.left > 0

\* An acceptance acts on the draft it has read.
AcceptInv(r) == r.pc = "accepting" => authorization = "draft"

\* One verification of the domain and one acceptance at a time, and no two
\* requests that work on one row.
Apart(r, t) ==
    /\ ~(r.pc = "fetching" /\ t.pc = "fetching")
    /\ ~(r.pc = "accepting" /\ t.pc = "accepting")
    /\ r.pc = "fetching" => r.challenge \cap t.retired = {}
    /\ r.retired \cap t.retired = {}

RowsInv == \A c \in Challenges : RowInv(challenges[c])
FetchesInv == \A q \in Requests : FetchInv(request[q])
RetirementsInv == \A q \in Requests : RetiredInv(request[q])
CoversInv == \A q \in Requests : CoverInv(request[q])
AcceptancesInv == \A q \in Requests : AcceptInv(request[q])
Exclusion == \A p, q \in Requests : p # q => Apart(request[p], request[q])

LockInv ==
    TypeOK /\ RowsInv /\ FetchesInv /\ RetirementsInv /\ CoversInv /\ AcceptancesInv /\ Exclusion

Creating == {q \in Requests : request[q].pc = "creating"}

\* A creation under way may still add one challenge to those of the hour.
CountInv ==
    Cardinality(RecentChallenges) + Cardinality(Creating) <=
        HourlyLimit + Cardinality(Requests) - 1

--------------------------------------------------------------------------------
LEMMA IdleTyped == Idle \in RequestRow /\ Idle.pc = "idle" /\ Idle.retired = {} /\ ~Idle.covered
BY DomainControlAssumption DEF Idle, RequestRow, Methods

LEMMA RowsTyped ==
    /\ Absent \in ChallengeRow /\ RowInv(Absent)
    /\ \A m \in Methods : New(m) \in ChallengeRow /\ RowInv(New(m))
<1>1. 0 <= MaxAttempts /\ 0 # MaxAttempts
    BY DomainControlAssumption
<1>2. Absent \in ChallengeRow /\ RowInv(Absent)
    BY <1>1 DEF Absent, ChallengeRow, Methods, RowInv
<1>3. ASSUME NEW m \in Methods
      PROVE  New(m) \in ChallengeRow /\ RowInv(New(m))
    <2>1. New(m) \in ChallengeRow
        BY DEF New, Absent, ChallengeRow
    <2>2. New(m).state = "pending" /\ New(m).failures = 0 /\ New(m).attempts = 0
        BY DEF New, Absent
    <2> QED
        BY <1>1, <2>1, <2>2 DEF RowInv
<1> QED
    BY <1>2, <1>3

LEMMA SettledTyped ==
    ASSUME NEW row \in ChallengeRow, NEW state \in {"verified", "expired", "failed", "revoked"},
           row.failures <= MaxAttempts,
           row.failures = MaxAttempts => state = "failed"
    PROVE  Settled(row, state) \in ChallengeRow /\ RowInv(Settled(row, state))
           /\ Settled(row, state).state = state /\ (Settled(row, state).recent = row.recent)
BY DEF Settled, Absent, ChallengeRow, Methods, RowInv

\* A request that moves and leaves the rows alone.
LEMMA RequestMoves ==
    ASSUME LockInv, NEW q \in Requests, NEW r \in RequestRow,
           FetchInv(r), RetiredInv(r), CoverInv(r), AcceptInv(r),
           \A p \in Requests \ {q} : Apart(r, request[p]) /\ Apart(request[p], r),
           request' = [request EXCEPT ![q] = r],
           UNCHANGED <<challenges, ownership, controls, authorization>>
    PROVE  LockInv'
<1> USE DEF LockInv
<1>1. request \in [Requests -> RequestRow]
    BY DEF TypeOK, RequestRow
<1>2. \A p \in Requests : request'[p] = IF p = q THEN r ELSE request[p]
    BY <1>1
<1>3. request' \in [Requests -> RequestRow]
    BY <1>1
<1>4. TypeOK' /\ RowsInv'
    BY <1>3 DEF TypeOK, RequestRow, RowsInv, RowInv
<1>5. FetchesInv'
    BY <1>2 DEF FetchesInv, FetchInv
<1>6. RetirementsInv'
    BY <1>2 DEF RetirementsInv, RetiredInv
<1>7. CoversInv'
    BY <1>2 DEF CoversInv, CoverInv, InForce
<1>8. AcceptancesInv'
    BY <1>2 DEF AcceptancesInv, AcceptInv
<1>9. Exclusion'
    BY <1>2 DEF Exclusion
<1> QED
    BY <1>4, <1>5, <1>6, <1>7, <1>8, <1>9


\* A row that moves, and is still what the requests at work on it take it for.
LEMMA RowMoves ==
    ASSUME LockInv, NEW c \in Challenges, NEW row \in ChallengeRow, RowInv(row),
           \/ ~ChallengeHeld(c)
           \/ /\ row.state = "pending" /\ row.method = challenges[c].method
              /\ row.attempts = challenges[c].attempts,
           challenges' = [challenges EXCEPT ![c] = row], ownership' \in OwnershipStates,
           UNCHANGED <<controls, authorization, request>>
    PROVE  LockInv'
<1> USE DEF LockInv
<1>1. challenges \in [Challenges -> ChallengeRow]
    BY DEF TypeOK
<1>2. \A d \in Challenges : challenges'[d] = IF d = c THEN row ELSE challenges[d]
    BY <1>1
<1>3. TypeOK' /\ RowsInv'
    BY <1>1, <1>2 DEF TypeOK, RowsInv
<1>4. ASSUME NEW q \in Requests
      PROVE  FetchInv(request[q])' /\ RetiredInv(request[q])'
    <2>1. FetchInv(request[q]) /\ RetiredInv(request[q]) /\ request[q].retired \subseteq Challenges
        BY DEF FetchesInv, RetirementsInv, TypeOK
    <2>2. FetchInv(request[q])'
        BY <1>2, <2>1 DEF FetchInv, ChallengeHeld, Fetching
    <2>3. RetiredInv(request[q])'
        BY <1>2, <2>1 DEF RetiredInv, ChallengeHeld
    <2> QED
        BY <2>2, <2>3
<1>5. FetchesInv' /\ RetirementsInv'
    BY <1>4 DEF FetchesInv, RetirementsInv
<1>6. CoversInv' /\ AcceptancesInv' /\ Exclusion'
    BY DEF CoversInv, CoverInv, InForce, AcceptancesInv, AcceptInv, Exclusion, Apart
<1> QED
    BY <1>3, <1>5, <1>6

\* A request that answers, having written rows that no other request holds.
LEMMA RequestEnds ==
    ASSUME LockInv, NEW q \in Requests, Respond(q),
           challenges' \in [Challenges -> ChallengeRow], \A c \in Challenges : RowInv(challenges'[c]),
           \A p \in Requests \ {q}, c \in Challenges :
               (Fetching(p) /\ c \in request[p].challenge) \/ c \in request[p].retired =>
                   challenges'[c] = challenges[c],
           ownership' \in OwnershipStates, authorization' \in AuthorizationStates,
           authorization' = authorization \/ \A p \in Requests \ {q} : request[p].pc # "accepting",
           UNCHANGED controls
    PROVE  LockInv'
<1> USE DEF LockInv
<1>1. request \in [Requests -> RequestRow]
    BY DEF TypeOK, RequestRow
<1>2. \A p \in Requests : request'[p] = IF p = q THEN Idle ELSE request[p]
    BY <1>1 DEF Respond
<1>3. request' \in [Requests -> RequestRow]
    BY <1>1, IdleTyped DEF Respond
<1>4. TypeOK' /\ RowsInv'
    BY <1>3 DEF TypeOK, RequestRow, RowsInv
<1>5. ASSUME NEW p \in Requests, p # q
      PROVE  FetchInv(request[p])' /\ RetiredInv(request[p])'
    <2>1. FetchInv(request[p]) /\ RetiredInv(request[p]) /\ request[p].retired \subseteq Challenges
        BY DEF FetchesInv, RetirementsInv, TypeOK
    <2>2. request'[p] = request[p]
        BY <1>2, <1>5
    <2>3. FetchInv(request[p])'
        BY <1>5, <2>1, <2>2 DEF FetchInv, Fetching
    <2>4. RetiredInv(request[p])'
        BY <1>5, <2>1, <2>2 DEF RetiredInv
    <2> QED
        BY <2>3, <2>4
<1>6. FetchInv(request[q])' /\ RetiredInv(request[q])'
    BY <1>2, IdleTyped DEF FetchInv, RetiredInv
<1>7. FetchesInv' /\ RetirementsInv'
    BY <1>5, <1>6 DEF FetchesInv, RetirementsInv
<1>8. CoversInv' /\ AcceptancesInv'
    BY <1>2, IdleTyped DEF CoversInv, CoverInv, InForce, AcceptancesInv, AcceptInv
<1>9. Exclusion'
    BY <1>2, IdleTyped DEF Exclusion, Apart
<1> QED
    BY <1>4, <1>7, <1>8, <1>9


\* A step that moves controls, and of the requests only what they are covered by.
LEMMA CoversMove ==
    ASSUME LockInv, controls' \in ControlRows, request' \in [Requests -> RequestRow],
           \A q \in Requests :
               /\ request'[q] = [request[q] EXCEPT !.covered = request'[q].covered]
               /\ CoverInv(request[q])',
           UNCHANGED <<challenges, ownership, authorization>>
    PROVE  LockInv'
<1> USE DEF LockInv
<1>1. ASSUME NEW q \in Requests
      PROVE  /\ request'[q].pc = request[q].pc /\ request'[q].challenge = request[q].challenge
             /\ request'[q].method = request[q].method /\ request'[q].retired = request[q].retired
             /\ request'[q].attempts = request[q].attempts
    BY DEF TypeOK
<1>2. TypeOK' /\ RowsInv' /\ CoversInv'
    BY DEF TypeOK, RowsInv, RequestRow, CoversInv
<1>3. FetchesInv' /\ RetirementsInv' /\ AcceptancesInv'
    BY <1>1 DEF FetchesInv, FetchInv, RetirementsInv, RetiredInv, AcceptancesInv, AcceptInv
<1>4. Exclusion'
    BY <1>1 DEF Exclusion, Apart
<1> QED
    BY <1>2, <1>3, <1>4

--------------------------------------------------------------------------------
LEMMA InitKeepsLock == Init => LockInv
<1> SUFFICES ASSUME Init PROVE LockInv
    OBVIOUS
<1>1. TypeOK
    BY IdleTyped, RowsTyped DEF Init, TypeOK, RequestRow, OwnershipStates, ControlRows, AuthorizationStates
<1>2. RowsInv
    BY RowsTyped DEF Init, RowsInv
<1>3. FetchesInv /\ RetirementsInv /\ CoversInv /\ AcceptancesInv /\ Exclusion
    BY IdleTyped DEF Init, FetchesInv, FetchInv, RetirementsInv, RetiredInv, CoversInv, CoverInv,
                     AcceptancesInv, AcceptInv, Exclusion, Apart
<1> QED
    BY <1>1, <1>2, <1>3 DEF LockInv

\* A lapsed row that a creation finds is pending, and nobody's.
LEMMA BeginCreateKeepsLock ==
    ASSUME LockInv, NEW q \in Requests, NEW m \in Methods, BeginCreate(q, m)
    PROVE  LockInv'
<1> DEFINE r == [Idle EXCEPT !.pc = "creating", !.method = m, !.retired = Lapsed(m)]
<1>1. Lapsed(m) \subseteq Challenges /\ \A c \in Lapsed(m) : Pending(c) /\ ~ChallengeHeld(c)
    BY DEF BeginCreate, Lapsed
<1>2. r \in RequestRow /\ r.pc = "creating" /\ r.retired = Lapsed(m) /\ ~r.covered /\ r.challenge = {}
    BY <1>1, IdleTyped DEF RequestRow, Idle
<1>3. FetchInv(r) /\ RetiredInv(r) /\ CoverInv(r) /\ AcceptInv(r)
    BY <1>1, <1>2 DEF FetchInv, RetiredInv, CoverInv, AcceptInv, Pending
<1>4. \A p \in Requests \ {q} : Apart(r, request[p]) /\ Apart(request[p], r)
    BY <1>1, <1>2 DEF Apart, ChallengeHeld, Fetching
<1>5. request' = [request EXCEPT ![q] = r] /\ UNCHANGED <<challenges, ownership, controls, authorization>>
    BY DEF BeginCreate
<1> HIDE DEF r
<1> QED
    BY <1>2, <1>3, <1>4, <1>5, RequestMoves

\* The rows it retires are its own; the new one is nobody's.
LEMMA FinishCreateKeepsLock ==
    ASSUME LockInv, NEW q \in Requests, FinishCreate(q)
    PROVE  LockInv'
<1> USE DEF LockInv
<1>1. challenges \in [Challenges -> ChallengeRow] /\ request[q].method \in Methods
    BY DEF TypeOK
<1>2. Respond(q) /\ UNCHANGED <<ownership, controls, authorization>>
    BY DEF FinishCreate
<1>3. CASE UNCHANGED challenges
    BY <1>1, <1>2, <1>3, RequestEnds DEF RowsInv, TypeOK
<1>4. CASE ~UNCHANGED challenges
    <2>1. PICK new \in {c \in Challenges : challenges[c] = Absent} :
             challenges' = [c \in Challenges |->
                 CASE c = new -> New(request[q].method)
                   [] c \in request[q].retired -> Settled(challenges[c], "expired")
                   [] OTHER -> challenges[c]]
        BY <1>4 DEF FinishCreate
    <2>2. ASSUME NEW c \in Challenges
          PROVE  challenges'[c] \in ChallengeRow /\ RowInv(challenges'[c])
        <3>1. challenges[c] \in ChallengeRow /\ RowInv(challenges[c])
            BY <1>1 DEF RowsInv
        <3>2. CASE c = new
            <4>1. c \notin request[q].retired
                BY <2>1, <3>2 DEF RetirementsInv, RetiredInv, Absent
            <4>2. challenges'[c] = New(request[q].method)
                BY <2>1, <3>2, <4>1
            <4> QED
                BY <1>1, <4>2, RowsTyped
        <3>3. CASE c # new /\ c \in request[q].retired
            <4>1. challenges[c].state = "pending"
                BY <3>3 DEF RetirementsInv, RetiredInv
            <4>2. challenges[c].failures <= MaxAttempts /\ challenges[c].failures # MaxAttempts
                BY <3>1, <4>1 DEF RowInv
            <4> QED
                BY <2>1, <3>1, <3>3, <4>2, SettledTyped
        <3>4. CASE c # new /\ c \notin request[q].retired
            BY <2>1, <3>1, <3>4
        <3> QED
            BY <3>2, <3>3, <3>4
    <2>3. challenges' \in [Challenges -> ChallengeRow]
        BY <2>1, <2>2
    <2>4. ASSUME NEW p \in Requests \ {q}, NEW c \in Challenges,
                 (Fetching(p) /\ c \in request[p].challenge) \/ c \in request[p].retired
          PROVE  challenges'[c] = challenges[c]
        <3>1. c \notin request[q].retired
            BY <2>4 DEF Exclusion, Apart, Fetching
        <3>2. challenges[c].state = "pending"
            BY <2>4 DEF FetchesInv, FetchInv, RetirementsInv, RetiredInv, Fetching
        <3>3. c # new
            BY <2>1, <3>2 DEF Absent
        <3> QED
            BY <2>1, <3>1, <3>3
    <2> QED
        BY <1>2, <2>2, <2>3, <2>4, RequestEnds DEF TypeOK
<1> QED
    BY <1>3, <1>4

\* Nobody holds the row that is revoked.
LEMMA RevokeChallengeKeepsLock ==
    ASSUME LockInv, NEW c \in Challenges, RevokeChallenge(c)
    PROVE  LockInv'
<1>1. challenges[c] \in ChallengeRow /\ RowInv(challenges[c]) /\ challenges[c].state = "pending"
    BY DEF LockInv, TypeOK, RowsInv, RevokeChallenge, Pending
<1>2. challenges[c].failures <= MaxAttempts /\ challenges[c].failures # MaxAttempts
    BY <1>1 DEF RowInv
<1>3. Settled(challenges[c], "revoked") \in ChallengeRow /\ RowInv(Settled(challenges[c], "revoked"))
    BY <1>1, <1>2, SettledTyped
<1> QED
    BY <1>3, RowMoves DEF RevokeChallenge, LockInv, TypeOK

\* Time touches no more of a held row than what is not read of it.
LEMMA ChallengeLapsesKeepsLock ==
    ASSUME LockInv, NEW c \in Challenges, ChallengeLapses(c)
    PROVE  LockInv'
<1> DEFINE row == [challenges[c] EXCEPT !.lapsed = TRUE]
<1>1. challenges[c] \in ChallengeRow /\ RowInv(challenges[c]) /\ challenges[c].state = "pending"
    BY DEF LockInv, TypeOK, RowsInv, ChallengeLapses, Pending
<1>2. /\ row \in ChallengeRow /\ row.state = "pending" /\ row.method = challenges[c].method
      /\ row.attempts = challenges[c].attempts /\ row.failures = challenges[c].failures
    BY <1>1 DEF ChallengeRow
<1>3. RowInv(row)
    BY <1>1, <1>2 DEF RowInv
<1>4. challenges' = [challenges EXCEPT ![c] = row]
    BY DEF ChallengeLapses
<1> HIDE DEF row
<1> QED
    BY <1>2, <1>3, <1>4, RowMoves DEF ChallengeLapses, LockInv, TypeOK

LEMMA HourPassesKeepsLock ==
    ASSUME LockInv, NEW c \in Challenges, HourPasses(c)
    PROVE  LockInv'
<1>1. challenges[c] \in ChallengeRow /\ RowInv(challenges[c])
    BY DEF LockInv, TypeOK, RowsInv
<1>2. CASE Pending(c)
    <2> DEFINE row == [challenges[c] EXCEPT !.recent = FALSE]
    <2>1. /\ row \in ChallengeRow /\ row.state = "pending" /\ row.method = challenges[c].method
          /\ row.attempts = challenges[c].attempts /\ row.failures = challenges[c].failures
        BY <1>1, <1>2 DEF ChallengeRow, Pending
    <2>2. RowInv(row)
        BY <1>1, <1>2, <2>1 DEF RowInv, Pending
    <2>3. challenges' = [challenges EXCEPT ![c] = row]
        BY <1>2 DEF HourPasses
    <2> HIDE DEF row
    <2> QED
        BY <2>1, <2>2, <2>3, RowMoves DEF HourPasses, LockInv, TypeOK
<1>3. CASE ~Pending(c)
    <2>1. ~ChallengeHeld(c)
        BY <1>3 DEF LockInv, FetchesInv, FetchInv, RetirementsInv, RetiredInv, ChallengeHeld, Pending, Fetching
    <2>2. challenges' = [challenges EXCEPT ![c] = Absent]
        BY <1>3 DEF HourPasses
    <2> QED
        BY <2>1, <2>2, RowsTyped, RowMoves DEF HourPasses, LockInv, TypeOK
<1> QED
    BY <1>2, <1>3


\* A control that is set is in force, and covers fetches that still have to ask.
LEMMA ActivateKeepsLock ==
    ASSUME LockInv, NEW s \in Scopes, Activate(s)
    PROVE  LockInv'
<1>1. /\ request \in [Requests -> RequestRow] /\ controls \in ControlRows
      /\ UNCHANGED <<challenges, ownership, authorization>>
    BY DEF LockInv, TypeOK, RequestRow, Activate
<1>2. controls' = [t \in Scopes |-> CASE t = s -> "active"
                                      [] t \in Family(s) \ {s} /\ controls[t] = "lapsed" -> "none"
                                      [] OTHER -> controls[t]]
    BY DEF Activate
<1>3. ASSUME NEW t \in Scopes
      PROVE  controls'[t] \in {"none", "active", "lapsed"}
             /\ (t = s \/ controls[t] = "active" => controls'[t] = "active")
    <2>1. controls[t] \in {"none", "active", "lapsed"}
        BY <1>1 DEF ControlRows
    <2>2. CASE t = s
        <3>1. t \notin Family(s) \ {s}
            BY <2>2
        <3> QED
            BY <1>2, <2>2, <3>1
    <2>3. CASE t \in Family(s) \ {s} /\ controls[t] = "lapsed"
        BY <1>2, <2>3
    <2>4. CASE t # s /\ ~(t \in Family(s) \ {s} /\ controls[t] = "lapsed")
        BY <1>2, <2>1, <2>4
    <2> QED
        BY <2>2, <2>3, <2>4
<1>4. controls' \in ControlRows
    BY <1>2, <1>3 DEF ControlRows
<1>5. ASSUME NEW q \in Requests
      PROVE  /\ request'[q] \in RequestRow
             /\ request'[q] = [request[q] EXCEPT !.covered = request'[q].covered]
             /\ CoverInv(request[q])'
    <2>1. request[q] \in RequestRow /\ CoverInv(request[q])
        BY <1>1 DEF LockInv, CoversInv
    <2>2. CASE Fetching(q) /\ request[q].left > 0 /\ Stops(s)
        <3>1. request'[q] = [request[q] EXCEPT !.covered = TRUE]
            BY <2>2 DEF Activate
        <3>2. request'[q] \in RequestRow /\ request'[q].covered /\ request'[q].left = request[q].left
            BY <2>1, <3>1 DEF RequestRow
        <3>3. InForce(s)'
            BY <1>3, <2>2 DEF InForce, Stops
        <3> QED
            BY <2>1, <2>2, <3>1, <3>2, <3>3 DEF CoverInv
    <2>3. CASE ~(Fetching(q) /\ request[q].left > 0 /\ Stops(s))
        <3>1. request'[q] = request[q]
            BY <2>3 DEF Activate
        <3>2. \A t \in Scopes : InForce(t) => InForce(t)'
            BY <1>3 DEF InForce, Stops
        <3>3. CoverInv(request[q])'
            BY <2>1, <3>1, <3>2 DEF CoverInv
        <3> QED
            BY <2>1, <3>1, <3>3 DEF RequestRow
    <2> QED
        BY <2>2, <2>3
<1>6. request' \in [Requests -> RequestRow]
    BY <1>5 DEF Activate
<1> QED
    BY <1>1, <1>4, <1>5, <1>6, CoversMove


\* What another control still covers stays covered.
LEMMA EndControlKeepsLock ==
    ASSUME LockInv, NEW s \in Scopes, NEW row \in {"none", "lapsed"}, EndControl(s, row)
    PROVE  LockInv'
<1>1. /\ request \in [Requests -> RequestRow] /\ controls \in ControlRows
      /\ UNCHANGED <<challenges, ownership, authorization>>
      /\ controls' = [controls EXCEPT ![s] = row]
    BY DEF LockInv, TypeOK, RequestRow, EndControl
<1>2. controls' \in ControlRows
    BY <1>1 DEF ControlRows
<1>3. \A t \in Scopes \ {s} : InForce(t) => InForce(t)'
    BY <1>1 DEF InForce, ControlRows
<1>4. ASSUME NEW q \in Requests
      PROVE  /\ request'[q] \in RequestRow
             /\ request'[q] = [request[q] EXCEPT !.covered = request'[q].covered]
             /\ CoverInv(request[q])'
    <2> DEFINE other == \E t \in Scopes \ {s} : InForce(t)
    <2>1. request[q] \in RequestRow /\ CoverInv(request[q]) /\ other \in BOOLEAN
        BY <1>1 DEF LockInv, CoversInv
    <2>2. request'[q] = [request[q] EXCEPT !.covered = @ /\ other]
        BY DEF EndControl
    <2>3. other => \E t \in Scopes : InForce(t)'
        BY <1>3
    <2> HIDE DEF other
    <2>4. /\ request'[q] \in RequestRow /\ request'[q].covered = (request[q].covered /\ other)
          /\ request'[q].pc = request[q].pc /\ request'[q].method = request[q].method
          /\ request'[q].left = request[q].left
          /\ request'[q] = [request[q] EXCEPT !.covered = request'[q].covered]
        BY <2>1, <2>2 DEF RequestRow
    <2>5. CoverInv(request[q])'
        BY <2>1, <2>3, <2>4 DEF CoverInv
    <2> QED
        BY <2>4, <2>5
<1>5. request' \in [Requests -> RequestRow]
    BY <1>4 DEF EndControl
<1> QED
    BY <1>1, <1>2, <1>4, <1>5, CoversMove

--------------------------------------------------------------------------------
\* Nobody holds the row.
LEMMA VerifyLapsedKeepsLock ==
    ASSUME LockInv, NEW c \in Challenges, VerifyLapsed(c)
    PROVE  LockInv'
<1>1. challenges[c] \in ChallengeRow /\ RowInv(challenges[c]) /\ challenges[c].state = "pending"
    BY DEF LockInv, TypeOK, RowsInv, VerifyLapsed, Pending
<1>2. challenges[c].failures <= MaxAttempts /\ challenges[c].failures # MaxAttempts
    BY <1>1 DEF RowInv
<1>3. Settled(challenges[c], "expired") \in ChallengeRow /\ RowInv(Settled(challenges[c], "expired"))
    BY <1>1, <1>2, SettledTyped
<1>4. ownership' \in OwnershipStates /\ ~ChallengeHeld(c)
    BY DEF VerifyLapsed, OwnershipStates, RowsFree
<1> QED
    BY <1>3, <1>4, RowMoves DEF VerifyLapsed

\* The rows are free, so no other fetch is under way and no creation holds them.
LEMMA BeginVerifyKeepsLock ==
    ASSUME LockInv, NEW q \in Requests, NEW c \in Challenges, BeginVerify(q, c)
    PROVE  LockInv'
<1> DEFINE stopped == \E s \in Scopes : InForce(s)
           places == IF challenges[c].method = "https_file" THEN Checkpoints ELSE 0
           lapsed == {s \in Scopes : controls[s] = "lapsed"}
           r == [Idle EXCEPT !.pc = "fetching", !.challenge = {c},
                    !.method = challenges[c].method, !.attempts = challenges[c].attempts,
                    !.left = places, !.lapsed = lapsed, !.covered = stopped]
<1>1. challenges[c] \in ChallengeRow /\ challenges[c].state = "pending" /\ Checkpoints \in Nat \ {0}
    BY DomainControlAssumption DEF LockInv, TypeOK, BeginVerify, Pending
<1>2. /\ places \in 0 .. Checkpoints /\ (challenges[c].method = "https_file" => places > 0)
      /\ lapsed \subseteq Scopes /\ stopped \in BOOLEAN
    BY <1>1
<1>3. request' = [request EXCEPT ![q] = r] /\ UNCHANGED <<challenges, ownership, controls, authorization>>
    BY DEF BeginVerify
<1>4. stopped => \E s \in Scopes : InForce(s)
    OBVIOUS
<1>5. \A p \in Requests : request[p].pc # "fetching" /\ c \notin request[p].retired
    BY DEF BeginVerify, RowsFree, ChallengeHeld, DomainHeld, Fetching
<1> HIDE DEF stopped, places, lapsed
<1>6. /\ r \in RequestRow /\ r.pc = "fetching" /\ r.challenge = {c} /\ r.retired = {}
      /\ r.method = challenges[c].method /\ r.attempts = challenges[c].attempts
      /\ r.left = places /\ r.covered = stopped
    BY <1>1, <1>2 DEF RequestRow, Idle, ChallengeRow
<1> HIDE DEF r
<1>7. FetchInv(r) /\ RetiredInv(r) /\ AcceptInv(r)
    BY <1>1, <1>6 DEF FetchInv, RetiredInv, AcceptInv
<1>8. CoverInv(r)
    BY <1>2, <1>4, <1>6 DEF CoverInv
<1>9. \A p \in Requests \ {q} : Apart(r, request[p]) /\ Apart(request[p], r)
    BY <1>5, <1>6 DEF Apart
<1> QED
    BY <1>3, <1>6, <1>7, <1>8, <1>9, RequestMoves

\* A fetch that gets past a checkpoint is not covered: whatever covers it is in
\* force, and would have stopped it.
LEMMA CheckpointKeepsLock ==
    ASSUME LockInv, NEW q \in Requests, Checkpoint(q)
    PROVE  LockInv'
<1> USE DEF LockInv
<1>1. UNCHANGED <<challenges, ownership, controls, authorization>>
    BY DEF Checkpoint
<1>2. CASE Stopped(q)
    <2>1. Respond(q)
        BY <1>2 DEF Checkpoint
    <2> QED
        BY <1>1, <2>1, RequestEnds DEF TypeOK, RowsInv
<1>3. CASE ~Stopped(q)
    <2> DEFINE r == [request[q] EXCEPT !.left = @ - 1]
    <2>1. request[q] \in RequestRow /\ request[q].left > 0
        BY DEF TypeOK, RequestRow, Checkpoint
    <2>2. request' = [request EXCEPT ![q] = r]
        BY <1>3 DEF Checkpoint
    <2>3. ~request[q].covered
        BY <1>3 DEF Stopped, Denied, CoversInv, CoverInv
    <2>4. /\ r \in RequestRow /\ r.pc = request[q].pc /\ r.challenge = request[q].challenge
          /\ r.retired = request[q].retired /\ r.method = request[q].method
          /\ r.attempts = request[q].attempts /\ r.covered = request[q].covered
        BY <2>1, DomainControlAssumption DEF RequestRow
    <2> HIDE DEF r
    <2>5. FetchInv(r) /\ RetiredInv(r) /\ CoverInv(r) /\ AcceptInv(r)
        BY <2>3, <2>4 DEF FetchesInv, FetchInv, RetirementsInv, RetiredInv, CoverInv,
                          AcceptancesInv, AcceptInv
    <2>6. \A p \in Requests \ {q} : Apart(r, request[p]) /\ Apart(request[p], r)
        BY <2>4 DEF Exclusion, Apart
    <2> QED
        BY <1>1, <2>2, <2>4, <2>5, <2>6, RequestMoves
<1> QED
    BY <1>2, <1>3


\* No other fetch is under way, and no creation has retired the row.
LEMMA OnlyItsOwnRow ==
    ASSUME LockInv, NEW q \in Requests, Fetching(q), NEW c \in request[q].challenge,
           NEW row, challenges' = [challenges EXCEPT ![c] = row]
    PROVE  \A p \in Requests \ {q}, d \in Challenges :
               (Fetching(p) /\ d \in request[p].challenge) \/ d \in request[p].retired =>
                   challenges'[d] = challenges[d]
<1>1. challenges \in [Challenges -> ChallengeRow]
    BY DEF LockInv, TypeOK
<1>2. \A p \in Requests \ {q} : ~Fetching(p) /\ c \notin request[p].retired
    BY DEF LockInv, Exclusion, Apart, Fetching
<1> QED
    BY <1>1, <1>2

LEMMA MatchedKeepsLock ==
    ASSUME LockInv, NEW q \in Requests, Matched(q)
    PROVE  LockInv'
<1> USE DEF LockInv
<1>1. PICK c \in request[q].challenge :
         challenges' = [challenges EXCEPT ![c] = Settled(@, "verified")]
    BY DEF Matched
<1>2. c \in Challenges /\ challenges[c].state = "pending"
    BY DEF FetchesInv, FetchInv, Matched, Fetching
<1>3. challenges[c] \in ChallengeRow /\ RowInv(challenges[c])
    BY <1>2 DEF TypeOK, RowsInv
<1>4. challenges[c].failures <= MaxAttempts /\ challenges[c].failures # MaxAttempts
    BY <1>2, <1>3 DEF RowInv
<1>5. Settled(challenges[c], "verified") \in ChallengeRow /\ RowInv(Settled(challenges[c], "verified"))
    BY <1>3, <1>4, SettledTyped
<1>6. challenges' \in [Challenges -> ChallengeRow] /\ \A d \in Challenges : RowInv(challenges'[d])
    BY <1>1, <1>2, <1>5 DEF TypeOK, RowsInv
<1>7. Respond(q) /\ Fetching(q) /\ UNCHANGED <<controls, authorization>> /\ ownership' \in OwnershipStates
    BY DEF Matched, OwnershipStates
<1>8. \A p \in Requests \ {q}, d \in Challenges :
         (Fetching(p) /\ d \in request[p].challenge) \/ d \in request[p].retired =>
             challenges'[d] = challenges[d]
    BY <1>1, <1>7, OnlyItsOwnRow
<1> QED
    BY <1>6, <1>7, <1>8, RequestEnds DEF TypeOK

\* What was read of the challenge is what its row says, so the last attempt is
\* the last failure.
LEMMA NotMatchedKeepsLock ==
    ASSUME LockInv, NEW q \in Requests, NotMatched(q)
    PROVE  LockInv'
<1> USE DEF LockInv
<1> DEFINE attempts == request[q].attempts + 1
           terminal == attempts >= MaxAttempts
           Row(c) == [challenges[c] EXCEPT !.attempts = attempts, !.failures = @ + 1,
                                           !.state = "pending"]
<1>1. PICK c \in request[q].challenge :
         challenges' = [challenges EXCEPT ![c] = IF terminal THEN Settled(Row(c), "failed") ELSE Row(c)]
    BY DEF NotMatched
<1>2. /\ c \in Challenges /\ challenges[c].state = "pending"
      /\ request[q].attempts = challenges[c].attempts
    BY DEF FetchesInv, FetchInv, NotMatched, Fetching
<1>3. /\ challenges[c] \in ChallengeRow /\ RowInv(challenges[c]) /\ MaxAttempts \in Nat
      /\ attempts \in Nat
    BY <1>2, DomainControlAssumption DEF TypeOK, RowsInv
<1>4. /\ challenges[c].failures = request[q].attempts
      /\ challenges[c].failures <= MaxAttempts /\ challenges[c].failures # MaxAttempts
    BY <1>2, <1>3 DEF RowInv
<1> DEFINE row == Row(c)
           settled == Settled(row, "failed")
<1>5. /\ row \in ChallengeRow /\ row.failures = attempts /\ row.attempts = attempts
      /\ row.state = "pending" /\ attempts <= MaxAttempts
    <2>1. attempts = challenges[c].failures + 1 /\ challenges[c].failures \in Nat
        BY <1>3, <1>4 DEF ChallengeRow
    <2>2. attempts <= MaxAttempts
        BY <1>3, <1>4, <2>1
    <2> HIDE DEF attempts
    <2>3. /\ row \in ChallengeRow /\ row.failures = challenges[c].failures + 1
          /\ row.attempts = attempts /\ row.state = "pending"
        BY <1>3, <2>1 DEF ChallengeRow
    <2> QED
        BY <2>1, <2>2, <2>3
<1>6. settled \in ChallengeRow /\ RowInv(settled)
    <2> HIDE DEF row
    <2> QED
        BY <1>5, SettledTyped
<1>7. ~terminal => RowInv(row)
    BY <1>3, <1>5 DEF RowInv
<1>8. Respond(q) /\ Fetching(q) /\ UNCHANGED <<controls, authorization>> /\ ownership' \in OwnershipStates
    BY DEF NotMatched, OwnershipStates, TypeOK
<1> DEFINE kept == IF terminal THEN settled ELSE row
<1>9. kept \in ChallengeRow /\ RowInv(kept)
    BY <1>5, <1>6, <1>7
<1> HIDE DEF kept
<1>10. challenges' = [challenges EXCEPT ![c] = kept]
    BY <1>1 DEF kept
<1>11. challenges' \in [Challenges -> ChallengeRow] /\ \A d \in Challenges : RowInv(challenges'[d])
    BY <1>2, <1>9, <1>10 DEF TypeOK, RowsInv
<1>12. \A p \in Requests \ {q}, d \in Challenges :
         (Fetching(p) /\ d \in request[p].challenge) \/ d \in request[p].retired =>
             challenges'[d] = challenges[d]
    BY <1>8, <1>10, OnlyItsOwnRow
<1> QED
    BY <1>8, <1>11, <1>12, RequestEnds DEF TypeOK

--------------------------------------------------------------------------------
\* Neither step writes the draft an acceptance has read.
LEMMA ProofLapsesOrDraftKeepsLock ==
    ASSUME LockInv, ProofLapses \/ Draft
    PROVE  LockInv'
<1> USE DEF LockInv
<1>1. /\ UNCHANGED <<challenges, controls, request>>
      /\ ownership' \in OwnershipStates /\ authorization' \in AuthorizationStates
      /\ authorization = "draft" => authorization' = "draft"
    BY DEF ProofLapses, Draft, OwnershipStates, AuthorizationStates, TypeOK
<1>2. TypeOK' /\ RowsInv' /\ FetchesInv' /\ RetirementsInv'
    BY <1>1 DEF TypeOK, RowsInv, FetchesInv, FetchInv, RetirementsInv, RetiredInv
<1>3. CoversInv' /\ AcceptancesInv' /\ Exclusion'
    BY <1>1 DEF CoversInv, CoverInv, InForce, AcceptancesInv, AcceptInv, Exclusion, Apart
<1> QED
    BY <1>2, <1>3

LEMMA BeginAcceptOrRevokeKeepsLock ==
    ASSUME LockInv, NEW q \in Requests, BeginAccept(q) \/ BeginRevoke(q)
    PROVE  LockInv'
<1> USE DEF LockInv
<1>1. PICK pc \in {"accepting", "revoking"} :
         /\ request' = [request EXCEPT ![q] = [request[q] EXCEPT !.pc = pc]]
         /\ pc = "accepting" => AuthorizationFree /\ authorization = "draft"
         /\ UNCHANGED <<challenges, ownership, controls, authorization>> /\ request[q].pc = "idle"
    BY DEF BeginAccept, BeginRevoke
<1> DEFINE r == [request[q] EXCEPT !.pc = pc]
<1>2. /\ r \in RequestRow /\ r.pc = pc /\ r.retired = request[q].retired
      /\ r.covered = request[q].covered
    BY DEF TypeOK, RequestRow
<1>3. request[q].retired = {}
    BY <1>1 DEF RetirementsInv, RetiredInv
<1> HIDE DEF r
<1>4. FetchInv(r) /\ RetiredInv(r) /\ CoverInv(r) /\ AcceptInv(r)
    BY <1>1, <1>2, <1>3 DEF FetchInv, RetiredInv, CoversInv, CoverInv, AcceptInv
<1>5. \A p \in Requests \ {q} : Apart(r, request[p]) /\ Apart(request[p], r)
    BY <1>1, <1>2, <1>3 DEF Apart, AuthorizationFree
<1> QED
    BY <1>1, <1>2, <1>4, <1>5, RequestMoves DEF r

\* No other acceptance is under way.
LEMMA FinishAcceptOrRevokeKeepsLock ==
    ASSUME LockInv, NEW q \in Requests, FinishAccept(q) \/ FinishRevoke(q)
    PROVE  LockInv'
<1> USE DEF LockInv
<1>1. /\ Respond(q) /\ UNCHANGED <<challenges, ownership, controls>>
      /\ authorization' \in AuthorizationStates
    BY DEF FinishAccept, FinishRevoke, AuthorizationStates
<1>2. \A p \in Requests \ {q} : request[p].pc # "accepting"
    BY DEF FinishAccept, FinishRevoke, AuthorizationFree, Exclusion, Apart
<1> QED
    BY <1>1, <1>2, RequestEnds DEF TypeOK, RowsInv

LEMMA StutterKeepsLock == LockInv /\ UNCHANGED vars => LockInv'
BY DEF LockInv, vars, TypeOK, RowsInv, FetchesInv, FetchInv, RetirementsInv, RetiredInv, CoversInv,
       CoverInv, InForce, AcceptancesInv, AcceptInv, Exclusion, Apart

LEMMA NextKeepsLock == LockInv /\ [Next]_vars => LockInv'
<1> SUFFICES ASSUME LockInv, [Next]_vars PROVE LockInv'
    OBVIOUS
<1>1. CASE ChallengeStep
    BY <1>1, BeginCreateKeepsLock, FinishCreateKeepsLock, BeginVerifyKeepsLock, CheckpointKeepsLock,
       MatchedKeepsLock, NotMatchedKeepsLock, RevokeChallengeKeepsLock, ChallengeLapsesKeepsLock,
       HourPassesKeepsLock, VerifyLapsedKeepsLock
       DEF ChallengeStep
<1>2. CASE ControlStep
    BY <1>2, ActivateKeepsLock, EndControlKeepsLock DEF ControlStep, Deactivate, ControlLapses
<1>3. CASE AuthorizationStep
    BY <1>3, ProofLapsesOrDraftKeepsLock, BeginAcceptOrRevokeKeepsLock, FinishAcceptOrRevokeKeepsLock
       DEF AuthorizationStep
<1>4. CASE UNCHANGED vars
    BY <1>4, StutterKeepsLock
<1> QED
    BY <1>1, <1>2, <1>3, <1>4 DEF Next

\* The row locks keep what the requests under way have read.
\* (verify_challenge, create_challenge, accept_authorization, FOR UPDATE)
THEOREM LocksHold == Spec => []LockInv
<1> QED
    BY InitKeepsLock, NextKeepsLock, PTL DEF Spec

\* The rows stay within their tables (migration 0004).
THEOREM DomainControlTypeCorrect == Spec => []TypeOK
BY LocksHold, PTL DEF LockInv

\* Nobody looks for the value of a challenge more often than it allows, however
\* many verify it at once and however their transactions interleave.
\* (verify_challenge)
THEOREM GuessesBounded == Spec => []GuessesAreBounded
<1>1. LockInv => GuessesAreBounded
    BY DEF LockInv, RowsInv, RowInv, GuessesAreBounded
<1> QED
    BY <1>1, LocksHold, PTL


--------------------------------------------------------------------------------
LEMMA CountsFinite ==
    /\ IsFiniteSet(RecentChallenges) /\ IsFiniteSet(Creating)
    /\ Cardinality(RecentChallenges) \in Nat /\ Cardinality(Creating) \in Nat
    /\ Cardinality(Requests) \in Nat /\ HourlyLimit \in Nat \ {0}
    /\ Cardinality(Creating) <= Cardinality(Requests)
<1>1. IsFiniteSet(RecentChallenges) /\ IsFiniteSet(Creating) /\ IsFiniteSet(Requests)
    BY DomainControlAssumption, FS_Subset DEF RecentChallenges, Creating
<1>2. Cardinality(Creating) <= Cardinality(Requests)
    BY <1>1, FS_Subset DEF Creating
<1> QED
    BY <1>1, <1>2, DomainControlAssumption, FS_CardinalityType

\* Every step but those of a creation only lowers both counts.
LEMMA CountsFall ==
    ASSUME CountInv, RecentChallenges' \subseteq RecentChallenges, Creating' \subseteq Creating
    PROVE  CountInv'
<1>1. /\ Cardinality(RecentChallenges)' <= Cardinality(RecentChallenges)
      /\ Cardinality(Creating)' <= Cardinality(Creating)
    BY CountsFinite, FS_Subset
<1>2. Cardinality(RecentChallenges)' \in Nat /\ Cardinality(Creating)' \in Nat
    BY CountsFinite, FS_Subset, FS_CardinalityType
<1> QED
    BY <1>1, <1>2, CountsFinite DEF CountInv

\* A creation that has counted is one of those under way.
LEMMA BeginCreateKeepsCount ==
    ASSUME LockInv, NEW q \in Requests, NEW m \in Methods, BeginCreate(q, m)
    PROVE  CountInv'
<1>1. UNCHANGED RecentChallenges /\ Cardinality(RecentChallenges) < HourlyLimit
    BY DEF BeginCreate, RecentChallenges
<1>2. IsFiniteSet(Requests) /\ Creating' \subseteq Requests
    BY DomainControlAssumption DEF Creating
<1>3. Cardinality(Creating') <= Cardinality(Requests) /\ Cardinality(Creating') \in Nat
    BY <1>2, FS_Subset, FS_CardinalityType
<1> QED
    BY <1>1, <1>3, CountsFinite DEF CountInv

\* It adds one challenge, and is under way no more.
LEMMA FinishCreateKeepsCount ==
    ASSUME LockInv, CountInv, NEW q \in Requests, FinishCreate(q)
    PROVE  CountInv'
<1>1. request \in [Requests -> RequestRow] /\ challenges \in [Challenges -> ChallengeRow]
    BY DEF LockInv, TypeOK, RequestRow
<1>2. Creating' = Creating \ {q} /\ q \in Creating
    BY <1>1, IdleTyped DEF FinishCreate, Respond, Creating
<1>3. Cardinality(Creating') = Cardinality(Creating) - 1 /\ Cardinality(Creating') \in Nat
    BY <1>2, CountsFinite, FS_RemoveElement, FS_CardinalityType
<1>4. CASE UNCHANGED challenges
    <2>1. UNCHANGED RecentChallenges
        BY <1>4 DEF RecentChallenges
    <2> QED
        BY <1>3, <2>1, CountsFinite DEF CountInv
<1>5. CASE ~UNCHANGED challenges
    <2>1. PICK new \in {c \in Challenges : challenges[c] = Absent} :
             challenges' = [c \in Challenges |->
                 CASE c = new -> New(request[q].method)
                   [] c \in request[q].retired -> Settled(challenges[c], "expired")
                   [] OTHER -> challenges[c]]
        BY <1>5 DEF FinishCreate
    <2>2. ASSUME NEW c \in Challenges, c # new
          PROVE  challenges'[c].recent = challenges[c].recent
        <3>1. CASE c \in request[q].retired
            <4>1. challenges'[c] = Settled(challenges[c], "expired")
                BY <2>1, <2>2, <3>1
            <4> QED
                BY <4>1 DEF Settled, Absent
        <3>2. CASE c \notin request[q].retired
            BY <2>1, <2>2, <3>2
        <3> QED
            BY <3>1, <3>2
    <2>3. RecentChallenges' \subseteq RecentChallenges \cup {new}
        BY <2>2 DEF RecentChallenges
    <2>4. new \notin RecentChallenges
        BY <2>1 DEF RecentChallenges, Absent
    <2>5. /\ IsFiniteSet(RecentChallenges \cup {new})
          /\ Cardinality(RecentChallenges \cup {new}) = Cardinality(RecentChallenges) + 1
        BY <2>4, CountsFinite, FS_AddElement
    <2>6. /\ Cardinality(RecentChallenges') <= Cardinality(RecentChallenges) + 1
          /\ Cardinality(RecentChallenges') \in Nat
        BY <2>3, <2>5, FS_Subset, FS_CardinalityType
    <2> QED
        BY <1>3, <2>6, CountsFinite DEF CountInv
<1> QED
    BY <1>4, <1>5

\* A row that is written is counted only if it was, and no creation begins.
LEMMA RowStepsKeepCount ==
    ASSUME LockInv, CountInv, NEW c \in Challenges,
           RevokeChallenge(c) \/ ChallengeLapses(c) \/ HourPasses(c) \/ VerifyLapsed(c)
    PROVE  CountInv'
<1>1. challenges \in [Challenges -> ChallengeRow] /\ UNCHANGED request
    BY DEF LockInv, TypeOK, RevokeChallenge, ChallengeLapses, HourPasses, VerifyLapsed
<1>2. PICK row : challenges' = [challenges EXCEPT ![c] = row] /\ (row.recent => challenges[c].recent)
    <2>1. CASE RevokeChallenge(c) \/ VerifyLapsed(c)
        <3>1. \A state : Settled(challenges[c], state).recent = challenges[c].recent
            BY DEF Settled, Absent
        <3>2. \E state : challenges' = [challenges EXCEPT ![c] = Settled(challenges[c], state)]
            BY <2>1 DEF RevokeChallenge, VerifyLapsed
        <3> QED
            BY <3>1, <3>2
    <2>2. CASE ChallengeLapses(c)
        <3>1. [challenges[c] EXCEPT !.lapsed = TRUE].recent = challenges[c].recent
            BY <1>1 DEF ChallengeRow
        <3>2. challenges' = [challenges EXCEPT ![c] = [challenges[c] EXCEPT !.lapsed = TRUE]]
            BY <2>2 DEF ChallengeLapses
        <3> QED
            BY <3>1, <3>2
    <2>3. CASE HourPasses(c)
        <3>1. ~[challenges[c] EXCEPT !.recent = FALSE].recent /\ ~Absent.recent
            BY <1>1 DEF ChallengeRow, Absent
        <3>2. \/ challenges' = [challenges EXCEPT ![c] = [challenges[c] EXCEPT !.recent = FALSE]]
              \/ challenges' = [challenges EXCEPT ![c] = Absent]
            BY <2>3 DEF HourPasses
        <3> QED
            BY <3>1, <3>2
    <2> QED
        BY <2>1, <2>2, <2>3
<1>3. RecentChallenges' \subseteq RecentChallenges /\ Creating' \subseteq Creating
    BY <1>1, <1>2 DEF RecentChallenges, Creating
<1> QED
    BY <1>3, CountsFall


\* An attempt leaves the count of its row alone, and the other steps the rows;
\* none of them begins a creation.
LEMMA OtherStepsKeepCount ==
    ASSUME LockInv, CountInv,
           \/ \E q \in Requests :
                 \/ \E c \in Challenges : BeginVerify(q, c)
                 \/ Checkpoint(q) \/ Matched(q) \/ NotMatched(q)
           \/ ControlStep \/ AuthorizationStep \/ UNCHANGED vars
    PROVE  CountInv'
<1>1. challenges \in [Challenges -> ChallengeRow] /\ request \in [Requests -> RequestRow]
    BY DEF LockInv, TypeOK, RequestRow
<1>2. RecentChallenges' \subseteq RecentChallenges
    <2>1. CASE \E q \in Requests : Matched(q)
        <3>1. \E c : challenges' = [challenges EXCEPT ![c] = Settled(challenges[c], "verified")]
            BY <2>1 DEF Matched
        <3>2. \A c : Settled(challenges[c], "verified").recent = challenges[c].recent
            BY DEF Settled, Absent
        <3> QED
            BY <1>1, <3>1, <3>2 DEF RecentChallenges
    <2>2. CASE \E q \in Requests : NotMatched(q)
        <3>1. PICK q \in Requests : NotMatched(q)
            BY <2>2
        <3> DEFINE attempts == request[q].attempts + 1
                   Row(c) == [challenges[c] EXCEPT !.attempts = attempts, !.failures = @ + 1,
                                                   !.state = "pending"]
        <3>2. PICK c \in request[q].challenge :
                 challenges' = [challenges EXCEPT ![c] = IF attempts >= MaxAttempts
                                                         THEN Settled(Row(c), "failed") ELSE Row(c)]
            BY <3>1 DEF NotMatched
        <3>3. c \in Challenges
            BY <1>1 DEF RequestRow
        <3>4. Row(c).recent = challenges[c].recent
            BY <1>1, <3>3 DEF ChallengeRow
        <3>5. Settled(Row(c), "failed").recent = Row(c).recent
            <4> HIDE DEF Row
            <4> QED
                BY DEF Settled, Absent
        <3> HIDE DEF Row
        <3> QED
            BY <1>1, <3>2, <3>4, <3>5 DEF RecentChallenges
    <2>3. CASE UNCHANGED challenges
        BY <2>3 DEF RecentChallenges
    <2> QED
        BY <2>1, <2>2, <2>3
           DEF BeginVerify, Checkpoint, ControlStep, Activate, Deactivate, ControlLapses, EndControl,
               AuthorizationStep, ProofLapses, Draft, BeginAccept, FinishAccept, BeginRevoke,
               FinishRevoke, vars
<1>3. Creating' \subseteq Creating
    <2>1. \A q \in Requests : request'[q].pc = "creating" => request[q].pc = "creating"
        <3>1. CASE \E q \in Requests : Matched(q) \/ NotMatched(q) \/ FinishAccept(q) \/ FinishRevoke(q)
            BY <1>1, <3>1, IdleTyped DEF Matched, NotMatched, FinishAccept, FinishRevoke, Respond
        <3>2. CASE \E q \in Requests, c \in Challenges : BeginVerify(q, c)
            <4>1. PICK q \in Requests, c \in Challenges : BeginVerify(q, c)
                BY <3>2
            <4>2. request'[q].pc = "fetching"
                BY <1>1, <4>1 DEF BeginVerify, Idle
            <4>3. \A p \in Requests \ {q} : request'[p] = request[p]
                BY <1>1, <4>1 DEF BeginVerify
            <4> QED
                BY <4>2, <4>3
        <3>3. CASE \E q \in Requests : Checkpoint(q)
            BY <1>1, <3>3, IdleTyped DEF Checkpoint, Respond, RequestRow
        <3>4. CASE ControlStep
            BY <1>1, <3>4 DEF ControlStep, Activate, Deactivate, ControlLapses, EndControl, RequestRow
        <3>5. CASE \E q \in Requests : BeginAccept(q) \/ BeginRevoke(q)
            BY <1>1, <3>5 DEF BeginAccept, BeginRevoke, RequestRow
        <3>6. CASE UNCHANGED request
            BY <3>6
        <3> QED
            BY <3>1, <3>2, <3>3, <3>4, <3>5, <3>6 DEF AuthorizationStep, ProofLapses, Draft, vars
    <2> QED
        BY <2>1 DEF Creating
<1> QED
    BY <1>2, <1>3, CountsFall

LEMMA CountKept == LockInv /\ CountInv /\ [Next]_vars => CountInv'
BY BeginCreateKeepsCount, FinishCreateKeepsCount, RowStepsKeepCount, OtherStepsKeepCount
   DEF Next, ChallengeStep

\* The limit of an hour holds but for the requests that count beside each other.
\* (create_challenge)
THEOREM ChallengesLimited == Spec => []ChallengesAreLimited
<1>1. Init => CountInv
    <2> SUFFICES ASSUME Init PROVE CountInv
        OBVIOUS
    <2>1. RecentChallenges = {} /\ Creating = {}
        BY IdleTyped DEF Init, RecentChallenges, Creating, Absent
    <2> QED
        BY <2>1, CountsFinite, FS_EmptySet DEF CountInv
<1>2. CountInv => ChallengesAreLimited
    BY CountsFinite DEF CountInv, ChallengesAreLimited, RecentChallenges
<1> QED
    BY <1>1, <1>2, CountKept, LocksHold, PTL DEF Spec

--------------------------------------------------------------------------------
\* What a fetch under a control would have to prove: its row stays unproved,
\* whoever takes the step.
LEMMA CoveredFetchProvesNothing ==
    ASSUME LockInv, [Next]_vars, NEW q \in Requests,
           Fetching(q), request[q].method = "https_file", request[q].covered,
           NEW c \in request[q].challenge
    PROVE  challenges'[c].state # "verified"
<1> SUFFICES ASSUME challenges'[c].state = "verified" PROVE FALSE
    OBVIOUS
<1>1. /\ c \in Challenges /\ challenges[c].state = "pending" /\ request[q].left > 0
      /\ challenges \in [Challenges -> ChallengeRow]
    BY DEF LockInv, FetchesInv, FetchInv, CoversInv, CoverInv, Fetching, TypeOK
<1>2. \A p \in Requests : ~Matched(p)
    BY <1>1 DEF LockInv, Exclusion, Apart, Matched, Fetching
<1>3. \A p \in Requests : ~NotMatched(p)
    <2> SUFFICES ASSUME NEW p \in Requests, NotMatched(p) PROVE FALSE
        OBVIOUS
    <2> DEFINE attempts == request[p].attempts + 1
               Row(d) == [challenges[d] EXCEPT !.attempts = attempts, !.failures = @ + 1,
                                               !.state = "pending"]
    <2>1. PICK d \in request[p].challenge :
             challenges' = [challenges EXCEPT ![d] = IF attempts >= MaxAttempts
                                                     THEN Settled(Row(d), "failed") ELSE Row(d)]
        BY DEF NotMatched
    <2>2. d \in Challenges
        BY DEF LockInv, TypeOK
    <2>3. Row(d).state = "pending"
        BY <1>1, <2>2 DEF ChallengeRow
    <2>4. Settled(Row(d), "failed").state = "failed"
        <3> HIDE DEF Row
        <3> QED
            BY DEF Settled, Absent
    <2> HIDE DEF Row
    <2> QED
        BY <1>1, <2>1, <2>2, <2>3, <2>4
<1>4. \A p \in Requests : ~FinishCreate(p)
    <2> SUFFICES ASSUME NEW p \in Requests, FinishCreate(p) PROVE FALSE
        OBVIOUS
    <2>1. ~DomainHeld
        BY DEF FinishCreate
    <2> QED
        BY <2>1 DEF DomainHeld
<1>5. \A d \in Challenges : ~(RevokeChallenge(d) \/ VerifyLapsed(d))
    <2> SUFFICES ASSUME NEW d \in Challenges, RevokeChallenge(d) \/ VerifyLapsed(d) PROVE FALSE
        OBVIOUS
    <2>1. PICK state \in {"revoked", "expired"} :
             challenges' = [challenges EXCEPT ![d] = Settled(challenges[d], state)]
        BY DEF RevokeChallenge, VerifyLapsed
    <2>2. Settled(challenges[d], state).state = state
        BY DEF Settled, Absent
    <2> QED
        BY <1>1, <2>1, <2>2
<1>6. \A d \in Challenges : ~(ChallengeLapses(d) \/ HourPasses(d))
    <2> SUFFICES ASSUME NEW d \in Challenges, ChallengeLapses(d) \/ HourPasses(d) PROVE FALSE
        OBVIOUS
    <2>1. /\ [challenges[d] EXCEPT !.lapsed = TRUE].state = challenges[d].state
          /\ [challenges[d] EXCEPT !.recent = FALSE].state = challenges[d].state
          /\ Absent.state = "none"
        BY <1>1 DEF ChallengeRow, Absent
    <2>2. PICK row \in {[challenges[d] EXCEPT !.lapsed = TRUE],
                        [challenges[d] EXCEPT !.recent = FALSE], Absent} :
             challenges' = [challenges EXCEPT ![d] = row]
        BY DEF ChallengeLapses, HourPasses
    <2> QED
        BY <1>1, <2>1, <2>2
<1>7. challenges' # challenges
    BY <1>1
<1> QED
    BY <1>2, <1>3, <1>4, <1>5, <1>6, <1>7
       DEF Next, ChallengeStep, BeginCreate, BeginVerify, Checkpoint, ControlStep, Activate,
           Deactivate, ControlLapses, EndControl, AuthorizationStep, ProofLapses, Draft,
           BeginAccept, FinishAccept, BeginRevoke, FinishRevoke, vars

\* A fetch over which a control is in force does not end in a proof: only the
\* fetch itself writes its row, and only when it has met its last checkpoint.
\* (DatabaseNetworkPolicy.authorize, verify_challenge)
THEOREM StoppedNeverVerifies == Spec => StoppedVerificationNeverVerifies
<1>1. LockInv /\ [Next]_vars =>
         \A q \in Requests :
             Fetching(q) /\ request[q].method = "https_file" /\ request[q].covered =>
                 \A c \in request[q].challenge : challenges'[c].state # "verified"
    BY CoveredFetchProvesNothing
<1> QED
    BY <1>1, LocksHold, PTL DEF Spec, StoppedVerificationNeverVerifies

\* An acceptance holds the draft it has read until it has written, and whoever
\* revokes waits for it.
\* (accept_authorization, revoke_authorization)
THEOREM RevokedStays == Spec => RevokedStaysRevoked
<1>1. ASSUME LockInv, [Next]_vars, authorization = "revoked"
      PROVE  authorization' = "revoked"
    <2>1. \A q \in Requests : ~FinishAccept(q)
        BY <1>1 DEF LockInv, AcceptancesInv, AcceptInv, FinishAccept
    <2> QED
        BY <1>1, <2>1
           DEF Next, ChallengeStep, BeginCreate, FinishCreate, BeginVerify, Checkpoint, Matched,
               NotMatched, RevokeChallenge, ChallengeLapses, HourPasses, VerifyLapsed, ControlStep,
               Activate, Deactivate, ControlLapses, EndControl, AuthorizationStep, ProofLapses, Draft,
               BeginAccept, BeginRevoke, FinishRevoke, vars
<1> QED
    BY <1>1, LocksHold, PTL DEF Spec, RevokedStaysRevoked

================================================================================
