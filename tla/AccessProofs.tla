------------------------------ MODULE AccessProofs ------------------------------
(***************************************************************************)
(* Proofs about memberships and their trail, for any number of people,     *)
(* requests and events.  Numbers are drawn in one order and committed in   *)
(* another; what keeps the trail readable is that whoever writes about a   *)
(* person holds the row before the number is drawn, and that no accepted   *)
(* invitation meets a membership.                                          *)
(***************************************************************************)
EXTENDS Access, WellFoundedInduction, TLAPS

Asked == [kind : {"change", "invite"}, target : People, role : Roles]
            \cup [kind : {"revoke"}, target : People, role : {"analyst"}]
Told == Asked \cup [kind : {"accept"}, target : People, role : Roles]
              \cup [kind : {"denied"}, target : People, role : {"analyst"}]

RequestRow ==
    [pc : {"idle", "looking", "refused", "writing", "linking"}, person : People,
     op : Told \cup Operations \cup {Reading}, caller : Roles \cup {"support", "none"},
     covered : BOOLEAN, number : Nat]

EventRow ==
    [kind : {"created", "change", "revoke", "invite", "accept", "denied"}, actor : People,
     target : People, role : Roles, prev : Nat]

TablesInv ==
    /\ membership \in [People -> [role : Roles, status : {"none", "active", "revoked"}]]
    /\ invitations \in [People -> [role : Roles, status : {"none", "pending", "lapsed"}]]
    /\ grants \subseteq Support
    /\ drawn \in Nat \ {0}
    /\ trail \in [DOMAIN trail -> EventRow]
    /\ DOMAIN trail \subseteq 1 .. drawn /\ 1 \in DOMAIN trail
    /\ \A n \in DOMAIN trail : trail[n].prev <= drawn
    /\ request \in [Requests -> RequestRow]
    /\ \A r \in Requests : request[r].number <= drawn

MembershipKinds == {"created", "change", "revoke", "accept"}
RowChanges == {"change", "revoke"}

Linking(r) == request[r].pc = "linking"

\* A request that has been let in asks for a change; it has found a membership
\* where it changes one, and none where it makes one.
Placed(q) ==
    /\ q.pc \in {"looking", "writing"} => q.op \in Asked
    /\ q.pc = "linking" => q.op \in Told
    /\ q.pc \in {"writing", "linking"} /\ q.op.kind \in RowChanges
          => membership[q.op.target].status # "none"
    /\ q.pc = "linking" /\ q.op.kind = "accept" => membership[q.op.target].status = "none"

PlaceInv == \A r \in Requests : Placed(request[r])

\* Every number is drawn for one event.
NumberInv ==
    /\ \A r \in Requests : Linking(r) => request[r].number # 0 /\ request[r].number \notin DOMAIN trail
    /\ \A r, q \in Requests :
          Linking(r) /\ Linking(q) /\ request[r].number = request[q].number => r = q

\* A row is held by one request.
Holds(r) == Linking(r) /\ request[r].op.kind # "denied"
RowInv ==
    \A r, q \in Requests :
        Holds(r) /\ Holds(q) /\ Row(request[r].op) = Row(request[q].op) => r = q

\* What is being committed about a membership comes after all that was.
OrderInv ==
    \A r \in Requests :
        Linking(r) /\ request[r].op.kind \in MembershipKinds =>
            \A n \in About(request[r].op.target, MembershipKinds) : n < request[r].number

\* In a trail t: who was made an owner, and invited as one, before a number n.
OwnerBefore(t, p, n) == \E m \in DOMAIN t : m < n /\ MakesOwner(t[m]) /\ t[m].target = p
InvitedBefore(t, p, n) ==
    \E m \in DOMAIN t : m < n /\ t[m].kind = "invite" /\ t[m].target = p /\ t[m].role = "owner"

\* Who acts as an owner was made one; who is invited as one was invited by one.
At(q, d) == IF q.pc = "linking" THEN q.number ELSE d + 1
Entitled(q, t, d) ==
    /\ q.pc \in {"looking", "writing", "linking"} /\ q.caller = "owner"
          => OwnerBefore(t, q.person, At(q, d))
    /\ q.pc \in {"writing", "linking"} /\ q.op.kind \in {"change", "invite"} /\ q.op.role = "owner"
          => q.caller = "owner"
    /\ q.pc = "linking" /\ q.op.kind = "accept" /\ q.op.role = "owner"
          => InvitedBefore(t, q.op.target, q.number)

OwnerInv ==
    /\ \A r \in Requests : Entitled(request[r], trail, drawn)
    /\ \A p \in People : invitations[p].role = "owner" => InvitedBefore(trail, p, drawn + 1)

\* What OwnersComeFromOwners says of an event.
Grounded(t, n) ==
    t[n].role = "owner" =>
        /\ t[n].kind \in {"change", "invite"} => OwnerBefore(t, t[n].actor, n)
        /\ t[n].kind = "accept" => InvitedBefore(t, t[n].target, n)
        /\ t[n].kind \notin {"change", "invite", "accept"} => t[n].kind = "created"

GroundInv == \A n \in DOMAIN trail : Grounded(trail, n)

AccessInv ==
    /\ TablesInv /\ PlaceInv /\ NumberInv /\ RowInv /\ OrderInv /\ OwnerInv
    /\ TrailExplainsMemberships /\ GroundInv

--------------------------------------------------------------------------------
LEMMA Least ==
    ASSUME NEW T, T \subseteq Nat, T # {}
    PROVE  \E x \in T : \A y \in T : x <= y
<1> DEFINE R == OpToRel(<, Nat)
<1>1. IsWellFoundedOn(R, Nat)
    BY NatLessThanWellFounded
<1>2. \A x, y \in Nat : x < y => <<x, y>> \in R
    BY DEF OpToRel
<1> HIDE DEF R
<1>3. PICK x \in T : \A y \in T : ~(<<y, x>> \in R)
    BY <1>1, WFMin
<1>4. ASSUME NEW y \in T PROVE x <= y
    <2>1. x \in Nat /\ y \in Nat /\ ~(y < x)
        BY <1>2, <1>3
    <2> QED
        BY <2>1
<1> QED
    BY <1>4

\* The last of the numbers drawn so far.
LEMMA Greatest ==
    ASSUME NEW d \in Nat, NEW S, S \subseteq 0 .. d, S # {}
    PROVE  Max(S) \in S /\ \A y \in S : y <= Max(S)
<1> DEFINE T == {x \in Nat : d - x \in S}
<1>1. PICK s \in S : s \in 0 .. d
    OBVIOUS
<1>2. d - s \in Nat /\ d - (d - s) = s
    BY <1>1
<1>3. T # {}
    BY <1>1, <1>2
<1>4. PICK x \in T : \A y \in T : x <= y
    BY <1>3, Least
<1>5. ASSUME NEW y \in S PROVE d - x >= y
    <2>1. y \in Int /\ d - y \in Nat /\ d - (d - y) = y
        OBVIOUS
    <2>2. d - y \in T
        BY <2>1
    <2>3. x <= d - y
        BY <1>4, <2>2
    <2> QED
        BY <1>4, <2>1, <2>3
<1>6. d - x \in S /\ \A y \in S : d - x >= y
    BY <1>4, <1>5
<1>7. Max(S) \in S /\ \A y \in S : Max(S) >= y
    BY <1>6 DEF Max
<1> QED
    BY <1>7

--------------------------------------------------------------------------------
LEMMA NumbersGrow ==
    ASSUME NEW d \in Nat, NEW e \in Nat, d <= e
    PROVE  d + 1 \in Nat /\ e + 1 \in Nat /\ d + 1 <= e + 1
OBVIOUS

LEMMA PlacesGrow ==
    ASSUME NEW d \in Nat, NEW e \in Nat, d <= e, NEW q, q.number \in Nat,
           q.pc = "linking" => q.number <= d \/ q.number = d + 1
    PROVE  /\ At(q, d) \in Nat /\ At(q, e) \in Nat /\ At(q, d) <= At(q, e)
           /\ q.pc # "linking" \/ q.number = d + 1 => d + 1 <= At(q, e)
<1>1. CASE q.pc = "linking"
    BY <1>1 DEF At
<1>2. CASE q.pc # "linking"
    BY <1>2 DEF At
<1> QED
    BY <1>1, <1>2

\* A request moves, with a number when it begins to link; the tables stay as they are.
LEMMA RequestMoves ==
    ASSUME AccessInv, NEW r \in Requests, NEW row \in RequestRow, request' = [request EXCEPT ![r] = row],
           UNCHANGED <<membership, invitations, trail>>, grants' \subseteq grants,
           \/ drawn' = drawn /\ row.pc # "linking" /\ row.number <= drawn
           \/ drawn' = drawn + 1 /\ row.pc = "linking" /\ row.number = drawn + 1,
           Placed(row),
           row.pc = "linking" /\ row.op.kind # "denied" => RowFree(row.op),
           row.pc \in {"looking", "writing", "linking"} /\ row.caller = "owner"
               => OwnerBefore(trail, row.person, drawn + 1),
           row.pc \in {"writing", "linking"} /\ row.op.kind \in {"change", "invite"} /\ row.op.role = "owner"
               => row.caller = "owner",
           row.pc = "linking" /\ row.op.kind = "accept" /\ row.op.role = "owner"
               => InvitedBefore(trail, row.op.target, drawn + 1)
    PROVE  AccessInv'
<1>1. /\ request' \in [Requests -> RequestRow]
      /\ \A q \in Requests : request'[q] = IF q = r THEN row ELSE request[q]
    BY DEF AccessInv, TablesInv
<1>2. /\ drawn \in Nat /\ drawn' \in Nat /\ drawn <= drawn'
      /\ row.number \in Nat /\ row.number <= drawn'
      /\ row.pc = "linking" => row.number = drawn + 1
    BY DEF AccessInv, TablesInv, RequestRow
<1>3. \A q \in Requests : request[q] \in RequestRow /\ request[q].number \in Nat /\ request[q].number <= drawn
    BY DEF AccessInv, TablesInv, RequestRow
<1>4. TablesInv'
    <2>1. \A n \in DOMAIN trail : n \in 1 .. drawn' /\ trail[n].prev <= drawn'
        BY <1>2 DEF AccessInv, TablesInv, EventRow
    <2> QED
        BY <1>1, <1>2, <1>3, <2>1 DEF AccessInv, TablesInv
<1>5. PlaceInv'
    BY <1>1 DEF AccessInv, PlaceInv, Placed
<1>6. NumberInv'
    <2>1. row.pc = "linking" => /\ row.number # 0 /\ row.number \notin DOMAIN trail
                                /\ \A q \in Requests : request[q].number # row.number
        BY <1>2, <1>3 DEF AccessInv, TablesInv
    <2> QED
        BY <1>1, <2>1 DEF AccessInv, NumberInv, Linking
<1>7. RowInv'
    BY <1>1 DEF AccessInv, RowInv, Holds, Linking, RowFree
<1>8. OrderInv'
    <2>1. row.pc = "linking" => \A n \in DOMAIN trail : n < row.number
        BY <1>2 DEF AccessInv, TablesInv
    <2> QED
        BY <1>1, <2>1 DEF AccessInv, OrderInv, Linking, About
<1>9. OwnerInv'
    <2>1. ASSUME NEW p, NEW n \in Nat, NEW m \in Nat, n <= m
          PROVE  /\ OwnerBefore(trail, p, n) => OwnerBefore(trail, p, m)
                 /\ InvitedBefore(trail, p, n) => InvitedBefore(trail, p, m)
        <3>1. \A k \in DOMAIN trail : k \in Nat
            BY DEF AccessInv, TablesInv
        <3> QED
            BY <2>1, <3>1 DEF OwnerBefore, InvitedBefore
    <2>2. ASSUME NEW q \in Requests, q # r PROVE Entitled(request'[q], trail, drawn')
        <3>1. request'[q] = request[q] /\ request[q].number \in Nat /\ Entitled(request[q], trail, drawn)
            BY <1>1, <1>3, <2>2 DEF AccessInv, OwnerInv
        <3>2. /\ At(request[q], drawn) \in Nat /\ At(request[q], drawn') \in Nat
              /\ At(request[q], drawn) <= At(request[q], drawn')
            BY <1>2, <1>3, <3>1, PlacesGrow
        <3> QED
            BY <2>1, <3>1, <3>2 DEF Entitled
    <2>3. Entitled(request'[r], trail, drawn')
        <3>1. request'[r] = row
            BY <1>1
        <3>2. At(row, drawn') \in Nat /\ drawn + 1 \in Nat /\ drawn + 1 <= At(row, drawn')
            BY <1>2, PlacesGrow, NumbersGrow
        <3> QED
            BY <1>2, <2>1, <3>1, <3>2 DEF Entitled
    <2>4. \A p \in People : invitations[p].role = "owner" => InvitedBefore(trail, p, drawn' + 1)
        <3>1. drawn + 1 \in Nat /\ drawn' + 1 \in Nat /\ drawn + 1 <= drawn' + 1
            BY <1>2, NumbersGrow
        <3> QED
            BY <2>1, <3>1 DEF AccessInv, OwnerInv
    <2> QED
        BY <2>2, <2>3, <2>4 DEF OwnerInv
<1>10. TrailExplainsMemberships' /\ GroundInv'
    BY DEF AccessInv, TrailExplainsMemberships, LastOf, About, GroundInv
<1> QED
    BY <1>4, <1>5, <1>6, <1>7, <1>8, <1>9, <1>10 DEF AccessInv

--------------------------------------------------------------------------------
LEMMA IdleTyped == Idle \in RequestRow /\ Idle.pc = "idle" /\ Idle.number = 0 /\ Idle.caller = "none"
BY AccessAssumption DEF Idle, RequestRow, Reading

LEMMA RespondKeeps ==
    ASSUME AccessInv, NEW r \in Requests, Respond(r), UNCHANGED <<membership, invitations, grants, trail, drawn>>
    PROVE  AccessInv'
<1>1. 0 <= drawn
    BY DEF AccessInv, TablesInv
<1>2. Placed(Idle)
    BY IdleTyped DEF Placed
<1> QED
    BY <1>1, <1>2, IdleTyped, RequestMoves DEF Respond

LEMMA RolesOf ==
    ASSUME AccessInv, NEW p \in People
    PROVE  /\ RoleOf(p) \in Roles \cup {"support", "none"}
           /\ RoleOf(p) = "owner" => Active(p) /\ membership[p].role = "owner"
<1>1. membership[p].role \in Roles
    BY DEF AccessInv, TablesInv
<1>2. CASE Active(p)
    BY <1>1, <1>2, Zenon DEF RoleOf
<1>3. CASE ~Active(p) /\ p \in grants
    BY <1>3, Zenon DEF RoleOf
<1>4. CASE ~Active(p) /\ p \notin grants
    BY <1>4, Zenon DEF RoleOf
<1> QED
    BY <1>2, <1>3, <1>4

\* Whoever is an owner was made one by an event.
LEMMA OwnersWereMade ==
    ASSUME AccessInv, NEW p \in People, membership[p].role = "owner"
    PROVE  OwnerBefore(trail, p, drawn + 1)
<1>1. PICK n \in DOMAIN trail : LastOf(n, About(p, RoleEvents)) /\ membership[p].role = trail[n].role
    BY DEF AccessInv, TrailExplainsMemberships, NoMember
<1>2. trail[n].target = p /\ trail[n].kind \in RoleEvents
    BY <1>1 DEF LastOf, About
<1>3. MakesOwner(trail[n])
    BY <1>1, <1>2 DEF MakesOwner, RoleEvents
<1>4. n < drawn + 1
    BY DEF AccessInv, TablesInv
<1> QED
    BY <1>2, <1>3, <1>4 DEF OwnerBefore

LEMMA OperationsTyped ==
    /\ Asked \subseteq Told
    /\ \A op \in Operations : op.kind # "audit" => op \in Asked
    /\ \A op \in Asked : op.kind \in {"change", "invite", "revoke"} /\ op.target \in People /\ op.role \in Roles
    /\ \A op \in Told : /\ op.kind \in {"change", "invite", "revoke", "accept", "denied"}
                        /\ op.target \in People /\ op.role \in Roles
                        /\ op.kind \in {"revoke", "denied"} => op.role = "analyst"
BY AccessAssumption DEF Asked, Told, Roles

\* A request begins with the role its person has by then.
LEMMA AskKeeps ==
    ASSUME AccessInv, NEW r \in Requests, NEW p \in People, NEW op \in Operations, Ask(r, p, op)
    PROVE  AccessInv'
<1> DEFINE caller == RoleOf(p)
           covered == p \in grants
           pc == IF op.kind \in Allowed(caller) THEN "looking" ELSE "refused"
           row == [Idle EXCEPT !.pc = pc, !.person = p, !.op = op, !.caller = caller, !.covered = covered]
<1>1. /\ op.kind = "audit" => op.kind \notin Allowed(caller)
      /\ request' = [request EXCEPT ![r] = row]
      /\ UNCHANGED <<membership, invitations, grants, trail, drawn>>
    BY DEF Ask
<1>2. caller \in Roles \cup {"support", "none"} /\ (caller = "owner" => OwnerBefore(trail, p, drawn + 1))
    BY RolesOf, OwnersWereMade
<1>3. pc \in {"looking", "refused"} /\ (pc = "looking" => op \in Asked)
    BY <1>1, OperationsTyped
<1>4. covered \in BOOLEAN
    OBVIOUS
<1> HIDE DEF caller, covered, pc
<1>5. /\ row \in RequestRow /\ row.pc = pc /\ row.person = p /\ row.op = op /\ row.caller = caller
      /\ row.number = 0
    BY <1>2, <1>3, <1>4, IdleTyped DEF RequestRow
<1> HIDE DEF row
<1>6. Placed(row) /\ row.pc \notin {"writing", "linking"} /\ 0 <= drawn
    BY <1>3, <1>5 DEF Placed, AccessInv, TablesInv
<1> QED
    BY <1>1, <1>2, <1>5, <1>6, RequestMoves

LEMMA LookKeeps ==
    ASSUME AccessInv, NEW r \in Requests, Look(r)
    PROVE  AccessInv'
<1>1. request[r].pc = "looking" /\ UNCHANGED <<membership, invitations, grants, trail, drawn>>
    BY DEF Look
<1>2. CASE Respond(r)
    BY <1>1, <1>2, RespondKeeps
<1>3. CASE /\ Admissible(request[r].op, request[r].caller)
           /\ request' = [request EXCEPT ![r].pc = "writing"]
    <2> DEFINE row == [request[r] EXCEPT !.pc = "writing"]
    <2>1. /\ request[r] \in RequestRow /\ request[r].number <= drawn /\ Placed(request[r])
          /\ Entitled(request[r], trail, drawn)
        BY DEF AccessInv, TablesInv, PlaceInv, OwnerInv
    <2>2. /\ row \in RequestRow /\ row.pc = "writing" /\ row.person = request[r].person
          /\ row.op = request[r].op /\ row.caller = request[r].caller /\ row.number = request[r].number
        BY <2>1 DEF RequestRow
    <2>3. request' = [request EXCEPT ![r] = row]
        BY <1>3
    <2> HIDE DEF row
    <2>4. Placed(row)
        BY <1>1, <1>3, <2>1, <2>2 DEF Placed, Admissible, RowChanges
    <2>5. row.caller = "owner" => OwnerBefore(trail, row.person, drawn + 1)
        BY <1>1, <2>1, <2>2 DEF Entitled, At
    <2>6. row.op.kind \in {"change", "invite"} /\ row.op.role = "owner" => row.caller = "owner"
        BY <1>3, <2>2 DEF Admissible, MayGrant
    <2> QED
        BY <1>1, <2>1, <2>2, <2>3, <2>4, <2>5, <2>6, RequestMoves
<1> QED
    BY <1>2, <1>3 DEF Look

\* The number is drawn with the row in one's hands.
LEMMA WriteKeeps ==
    ASSUME AccessInv, NEW r \in Requests, Write(r)
    PROVE  AccessInv'
<1>1. /\ request[r].pc = "writing" /\ RowFree(request[r].op)
      /\ UNCHANGED <<membership, invitations, grants, trail>>
    BY DEF Write
<1>2. CASE Respond(r) /\ UNCHANGED drawn
    BY <1>1, <1>2, RespondKeeps
<1>3. CASE Number(r, request[r])
    <2> DEFINE row == [request[r] EXCEPT !.pc = "linking", !.number = drawn + 1]
    <2>1. request[r] \in RequestRow /\ Placed(request[r]) /\ Entitled(request[r], trail, drawn)
        BY DEF AccessInv, TablesInv, PlaceInv, OwnerInv
    <2>2. drawn + 1 \in Nat
        BY DEF AccessInv, TablesInv
    <2>3. /\ row \in RequestRow /\ row.pc = "linking" /\ row.person = request[r].person
          /\ row.op = request[r].op /\ row.caller = request[r].caller /\ row.number = drawn + 1
        BY <2>1, <2>2 DEF RequestRow
    <2>4. request' = [request EXCEPT ![r] = row] /\ drawn' = drawn + 1
        BY <1>3 DEF Number
    <2> HIDE DEF row
    <2>5. request[r].op \in Asked /\ request[r].op.kind # "accept"
        BY <1>1, <2>1, OperationsTyped DEF Placed
    <2>6. Placed(row)
        BY <1>1, <2>1, <2>3, <2>5, OperationsTyped DEF Placed
    <2>7. /\ row.caller = "owner" => OwnerBefore(trail, row.person, drawn + 1)
          /\ row.op.kind \in {"change", "invite"} /\ row.op.role = "owner" => row.caller = "owner"
        BY <1>1, <2>1, <2>3 DEF Entitled, At
    <2> QED
        BY <1>1, <2>3, <2>4, <2>5, <2>6, <2>7, RequestMoves
<1> QED
    BY <1>2, <1>3 DEF Write

\* An invitation is accepted as it was made, by one who is no member.
LEMMA AcceptKeeps ==
    ASSUME AccessInv, NEW r \in Requests, NEW p \in People, Accept(r, p)
    PROVE  AccessInv'
<1> DEFINE role == invitations[p].role
           op == [kind |-> "accept", target |-> p, role |-> role]
           asking == [Idle EXCEPT !.person = p, !.op = op]
           row == [asking EXCEPT !.pc = "linking", !.number = drawn + 1]
<1>1. /\ RowFree(op) /\ membership[p].status = "none" /\ drawn' = drawn + 1
      /\ request' = [request EXCEPT ![r] = row]
      /\ UNCHANGED <<membership, invitations, grants, trail>>
    BY DEF Accept, Number
<1>2. role \in Roles /\ (role = "owner" => InvitedBefore(trail, p, drawn + 1)) /\ drawn + 1 \in Nat
    BY DEF AccessInv, TablesInv, OwnerInv
<1> HIDE DEF role
<1>3. op \in Told /\ op.kind = "accept" /\ op.target = p /\ op.role = role
    BY <1>2 DEF Told
<1> HIDE DEF op
<1>4. /\ row \in RequestRow /\ row.pc = "linking" /\ row.op = op /\ row.caller = "none"
      /\ row.number = drawn + 1
    BY <1>2, <1>3, IdleTyped DEF RequestRow
<1> HIDE DEF row
<1>5. Placed(row)
    BY <1>1, <1>3, <1>4 DEF Placed, RowChanges
<1> QED
    BY <1>1, <1>2, <1>3, <1>4, <1>5, RequestMoves

LEMMA RecordDenialKeeps ==
    ASSUME AccessInv, NEW r \in Requests, RecordDenial(r)
    PROVE  AccessInv'
<1>1. UNCHANGED <<membership, invitations, grants, trail>>
    BY DEF RecordDenial
<1>2. CASE Respond(r) /\ UNCHANGED drawn
    BY <1>1, <1>2, RespondKeeps
<1>3. CASE Number(r, [Idle EXCEPT !.person = request[r].person, !.op = Denial(request[r].person),
                                  !.covered = request[r].person \in grants])
    <2> DEFINE p == request[r].person
               op == Denial(p)
               covered == p \in grants
               row == [[Idle EXCEPT !.person = p, !.op = op, !.covered = covered]
                          EXCEPT !.pc = "linking", !.number = drawn + 1]
    <2>1. p \in People /\ drawn + 1 \in Nat /\ covered \in BOOLEAN
        BY DEF AccessInv, TablesInv, RequestRow
    <2>2. request' = [request EXCEPT ![r] = row] /\ drawn' = drawn + 1
        BY <1>3 DEF Number
    <2>3. op \in Told /\ op.kind = "denied"
        BY <2>1 DEF Told, Denial
    <2> HIDE DEF op, covered, p
    <2>4. /\ row \in RequestRow /\ row.pc = "linking" /\ row.op = op /\ row.caller = "none"
          /\ row.number = drawn + 1
        BY <2>1, <2>3, IdleTyped DEF RequestRow
    <2> HIDE DEF row
    <2>5. Placed(row)
        BY <2>3, <2>4 DEF Placed, RowChanges
    <2> QED
        BY <1>1, <2>2, <2>3, <2>4, <2>5, RequestMoves
<1> QED
    BY <1>2, <1>3 DEF RecordDenial

LEMMA DropDenialKeeps ==
    ASSUME AccessInv, NEW r \in Requests, DropDenial(r)
    PROVE  AccessInv'
BY RespondKeeps DEF DropDenial

LEMMA InvitationLapsesKeeps ==
    ASSUME AccessInv, NEW p \in People, InvitationLapses(p)
    PROVE  AccessInv'
<1>1. /\ UNCHANGED <<membership, grants, trail, drawn, request>>
      /\ invitations' = [invitations EXCEPT ![p].status = "lapsed"]
    BY DEF InvitationLapses
<1>2. /\ invitations' \in [People -> [role : Roles, status : {"none", "pending", "lapsed"}]]
      /\ \A q \in People : invitations'[q].role = invitations[q].role
    BY <1>1 DEF AccessInv, TablesInv
<1>3. OwnerInv'
    BY <1>1, <1>2 DEF AccessInv, OwnerInv
<1>4. TablesInv' /\ PlaceInv'
    BY <1>1, <1>2 DEF AccessInv, TablesInv, PlaceInv, Placed
<1>5. NumberInv' /\ RowInv' /\ OrderInv'
    BY <1>1 DEF AccessInv, NumberInv, RowInv, OrderInv, Linking, Holds, About
<1>6. TrailExplainsMemberships' /\ GroundInv'
    BY <1>1 DEF AccessInv, TrailExplainsMemberships, LastOf, About, GroundInv
<1> QED
    BY <1>3, <1>4, <1>5, <1>6 DEF AccessInv

LEMMA OnlyGrantsLapse ==
    ASSUME AccessInv, UNCHANGED <<membership, invitations, trail, drawn, request>>, grants' \subseteq grants
    PROVE  AccessInv'
<1>1. TablesInv' /\ PlaceInv'
    BY DEF AccessInv, TablesInv, PlaceInv, Placed
<1>2. NumberInv' /\ RowInv' /\ OrderInv' /\ OwnerInv'
    BY DEF AccessInv, NumberInv, RowInv, OrderInv, OwnerInv, Linking, Holds, About
<1>3. TrailExplainsMemberships' /\ GroundInv'
    BY DEF AccessInv, TrailExplainsMemberships, LastOf, About, GroundInv
<1> QED
    BY <1>1, <1>2, <1>3 DEF AccessInv

--------------------------------------------------------------------------------
\* The commit: the row, the invitation and the event become visible together.

\* What an operation leaves of the memberships.
LEMMA ChangedRow ==
    ASSUME AccessInv, NEW op \in Told
    PROVE  /\ Changed(op) \in [People -> [role : Roles, status : {"none", "active", "revoked"}]]
           /\ \A p \in People : p # op.target => Changed(op)[p] = membership[p]
           /\ Changed(op)[op.target].role =
                 IF op.kind \in {"change", "accept"} THEN op.role ELSE membership[op.target].role
           /\ Changed(op)[op.target].status =
                 IF op.kind \in {"revoke", "accept"} THEN StatusAfter(op.kind)
                 ELSE membership[op.target].status
<1>1. /\ membership \in [People -> [role : Roles, status : {"none", "active", "revoked"}]]
      /\ op.target \in People /\ op.role \in Roles
      /\ op.kind \in {"change", "invite", "revoke", "accept", "denied"}
    BY OperationsTyped DEF AccessInv, TablesInv
<1>2. CASE op.kind = "change"
    <2>1. Changed(op) = [membership EXCEPT ![op.target].role = op.role]
        BY <1>2, Zenon DEF Changed
    <2> QED
        BY <1>1, <1>2, <2>1
<1>3. CASE op.kind = "revoke"
    <2>1. Changed(op) = [membership EXCEPT ![op.target].status = "revoked"]
        BY <1>3, Zenon DEF Changed
    <2> QED
        BY <1>1, <1>3, <2>1 DEF StatusAfter
<1>4. CASE op.kind = "accept"
    <2>1. Changed(op) = [membership EXCEPT ![op.target] = [role |-> op.role, status |-> "active"]]
        BY <1>4, Zenon DEF Changed
    <2> QED
        BY <1>1, <1>4, <2>1 DEF StatusAfter
<1>5. CASE op.kind \in {"invite", "denied"}
    <2>1. Changed(op) = membership
        BY <1>5, Zenon DEF Changed
    <2> QED
        BY <1>1, <1>5, <2>1
<1> QED
    BY <1>1, <1>2, <1>3, <1>4, <1>5

\* What an event leaves of the invitations.
LEMMA CommittedInvitations ==
    ASSUME AccessInv, NEW r \in Requests, Commit(r), request[r].op \in Told
    PROVE  /\ invitations' \in [People -> [role : Roles, status : {"none", "pending", "lapsed"}]]
           /\ \A p \in People : invitations'[p].role = "owner" =>
                 \/ invitations[p].role = "owner"
                 \/ request[r].op.kind = "invite" /\ p = request[r].op.target /\ request[r].op.role = "owner"
<1> DEFINE op == request[r].op
<1>1. /\ invitations \in [People -> [role : Roles, status : {"none", "pending", "lapsed"}]]
      /\ op.target \in People /\ op.role \in Roles
    BY OperationsTyped DEF AccessInv, TablesInv
<1>2. CASE op.kind = "invite"
    <2>1. invitations' = [invitations EXCEPT ![op.target] = [role |-> op.role, status |-> "pending"]]
        BY <1>2, Zenon DEF Commit
    <2> QED
        BY <1>1, <1>2, <2>1
<1>3. CASE op.kind = "accept"
    <2>1. invitations' = [invitations EXCEPT ![op.target] = NoInvitation]
        BY <1>3, Zenon DEF Commit
    <2> QED
        BY <1>1, <1>3, <2>1 DEF NoInvitation, Roles
<1>4. CASE op.kind \notin {"invite", "accept"}
    <2>1. invitations' = invitations
        BY <1>4, Zenon DEF Commit
    <2> QED
        BY <1>1, <2>1
<1> QED
    BY <1>2, <1>3, <1>4

\* The event that is appended, under a number that nobody else has.
LEMMA CommittedEvent ==
    ASSUME AccessInv, NEW r \in Requests, Commit(r)
    PROVE  LET m == request[r].number
               op == request[r].op
           IN  /\ Linking(r) /\ op \in Told /\ m \in 1 .. drawn /\ m \notin DOMAIN trail
               /\ DOMAIN trail' = DOMAIN trail \cup {m}
               /\ \A n \in DOMAIN trail : trail'[n] = trail[n]
               /\ trail'[m] \in EventRow /\ trail'[m].prev <= drawn
               /\ trail'[m].kind = op.kind /\ trail'[m].actor = request[r].person
               /\ trail'[m].target = op.target /\ trail'[m].role = op.role
               /\ membership' = Changed(op) /\ UNCHANGED <<grants, drawn>>
               /\ \A q \in Requests \ {r} : request'[q] = request[q]
               /\ request'[r] = Idle /\ request' \in [Requests -> RequestRow]
<1> DEFINE m == request[r].number
           op == request[r].op
           pred == Predecessor(request[r])
           event == Event(op.kind, request[r].person, op.target, op.role, pred)
<1>1. Linking(r) /\ op \in Told /\ m \notin DOMAIN trail /\ request[r] \in RequestRow
    BY DEF Commit, Linking, AccessInv, PlaceInv, Placed, NumberInv, TablesInv
<1>2. drawn \in Nat /\ DOMAIN trail \subseteq 1 .. drawn /\ 1 \in DOMAIN trail /\ m \in Nat /\ m <= drawn
    BY <1>1 DEF AccessInv, TablesInv, RequestRow
<1>3. pred \in Nat /\ pred <= drawn
    <2>1. DOMAIN trail \subseteq 0 .. drawn
        BY <1>2
    <2>2. Max(DOMAIN trail) \in DOMAIN trail
        BY <1>2, <2>1, Greatest
    <2>3. Max(DOMAIN trail) \in Nat /\ Max(DOMAIN trail) <= drawn
        BY <1>2, <2>2
    <2> QED
        BY <1>2, <2>3 DEF Predecessor
<1>4. m \in 1 .. drawn
    BY <1>1, <1>2 DEF AccessInv, NumberInv
<1>5. /\ op.kind \in {"change", "invite", "revoke", "accept", "denied"}
      /\ op.target \in People /\ op.role \in Roles /\ request[r].person \in People
    BY <1>1, OperationsTyped DEF RequestRow
<1>6. trail' = Appended(m, event) /\ membership' = Changed(op) /\ UNCHANGED <<grants, drawn>>
      /\ request' = [request EXCEPT ![r] = Idle]
    BY DEF Commit, Respond
<1> HIDE DEF pred
<1>7. /\ event \in EventRow /\ event.prev = pred /\ event.kind = op.kind
      /\ event.actor = request[r].person /\ event.target = op.target /\ event.role = op.role
    BY <1>3, <1>5 DEF Event, EventRow
<1> HIDE DEF event
<1>8. /\ DOMAIN trail' = DOMAIN trail \cup {m} /\ trail'[m] = event
      /\ \A n \in DOMAIN trail : trail'[n] = trail[n]
    BY <1>1, <1>6 DEF Appended
<1>9. /\ \A q \in Requests \ {r} : request'[q] = request[q]
      /\ request'[r] = Idle /\ request' \in [Requests -> RequestRow]
    BY <1>6, IdleTyped DEF AccessInv, TablesInv
<1> QED
    BY <1>1, <1>3, <1>4, <1>6, <1>7, <1>8, <1>9

\* Two requests never link about one membership: changes of it hold its row, an
\* acceptance holds the invitation, and the one finds a membership where the
\* other finds none.
LEMMA OneAtATime ==
    ASSUME AccessInv, NEW r \in Requests, NEW q \in Requests, Linking(r), Linking(q),
           request[r].op.kind \in MembershipKinds, request[q].op.kind \in MembershipKinds,
           request[r].op.target = request[q].op.target
    PROVE  r = q
<1>1. Placed(request[r]) /\ Placed(request[q])
    BY DEF AccessInv, PlaceInv
<1>2. request[r].op.kind \in {"change", "revoke", "accept"} /\ request[q].op.kind \in {"change", "revoke", "accept"}
    BY <1>1, OperationsTyped DEF Placed, Linking, MembershipKinds
<1>3. request[r].op.kind = "accept" <=> request[q].op.kind = "accept"
    BY <1>1, <1>2 DEF Placed, Linking, RowChanges
<1>4. Row(request[r].op) = Row(request[q].op)
    BY <1>2, <1>3 DEF Row
<1> QED
    BY <1>2, <1>4 DEF AccessInv, RowInv, Holds

LEMMA CommitKeepsTables ==
    ASSUME AccessInv, NEW r \in Requests, Commit(r)
    PROVE  TablesInv' /\ PlaceInv' /\ NumberInv' /\ RowInv' /\ OrderInv'
<1> DEFINE m == request[r].number
           op == request[r].op
<1>1. /\ Linking(r) /\ op \in Told /\ m \in 1 .. drawn /\ m \notin DOMAIN trail
      /\ DOMAIN trail' = DOMAIN trail \cup {m}
      /\ \A n \in DOMAIN trail : trail'[n] = trail[n]
      /\ trail'[m] \in EventRow /\ trail'[m].prev <= drawn
      /\ trail'[m].kind = op.kind /\ trail'[m].target = op.target
      /\ membership' = Changed(op) /\ UNCHANGED <<grants, drawn>>
      /\ \A q \in Requests \ {r} : request'[q] = request[q]
      /\ request'[r] = Idle /\ request' \in [Requests -> RequestRow]
    BY CommittedEvent
<1>2. /\ membership' \in [People -> [role : Roles, status : {"none", "active", "revoked"}]]
      /\ \A p \in People : p # op.target => membership'[p] = membership[p]
      /\ membership'[op.target].status =
            IF op.kind \in {"revoke", "accept"} THEN StatusAfter(op.kind) ELSE membership[op.target].status
    BY <1>1, ChangedRow
<1>3. op.target \in People
    BY <1>1, OperationsTyped
<1>4. Idle.pc = "idle" /\ Idle.number = 0
    BY IdleTyped
<1>5. \A q \in Requests : request'[q].pc = "linking" => q # r /\ request'[q] = request[q] /\ Linking(q)
    BY <1>1, <1>4 DEF Linking
<1>6. TablesInv'
    <2>1. invitations' \in [People -> [role : Roles, status : {"none", "pending", "lapsed"}]]
        BY <1>1, CommittedInvitations
    <2>2. /\ trail' \in [DOMAIN trail' -> EventRow]
          /\ \A n \in DOMAIN trail' : trail'[n].prev <= drawn
        <3>1. trail = [n \in DOMAIN trail |-> trail[n]] /\ \A n \in DOMAIN trail : trail[n] \in EventRow
            BY DEF AccessInv, TablesInv
        <3>2. trail' = [n \in DOMAIN trail' |-> trail'[n]]
            BY DEF Commit, Appended
        <3>3. \A n \in DOMAIN trail' : trail'[n] \in EventRow /\ trail'[n].prev <= drawn
            BY <1>1, <3>1 DEF AccessInv, TablesInv
        <3> QED
            BY <3>2, <3>3
    <2>3. \A q \in Requests : request'[q].number <= drawn
        BY <1>1, <1>4 DEF AccessInv, TablesInv
    <2> QED
        BY <1>1, <1>2, <2>1, <2>2, <2>3 DEF AccessInv, TablesInv
<1>7. PlaceInv'
    <2>1. \A p \in People : membership[p].status # "none" => membership'[p].status # "none"
        BY <1>2 DEF StatusAfter
    <2>2. ASSUME NEW q \in Requests, q # r PROVE Placed(request[q])'
        <3>1. request'[q] = request[q] /\ Placed(request[q]) /\ request[q] \in RequestRow
            BY <1>1, <2>2 DEF AccessInv, PlaceInv, TablesInv
        <3>2. request[q].pc \in {"writing", "linking"} => request[q].op.target \in People
            BY <3>1, OperationsTyped DEF Placed
        <3>3. ASSUME Linking(q), request[q].op.kind = "accept"
              PROVE  membership'[request[q].op.target].status = "none"
            <4>1. request[q].op.target \in People /\ membership[request[q].op.target].status = "none"
                BY <3>1, <3>2, <3>3 DEF Placed, Linking
            <4>2. CASE request[q].op.target # op.target
                BY <1>2, <4>1, <4>2
            <4>3. CASE request[q].op.target = op.target
                <5>1. op.kind \notin MembershipKinds
                    BY <1>1, <2>2, <3>3, <4>3, OneAtATime DEF MembershipKinds
                <5> QED
                    BY <1>2, <4>1, <4>3, <5>1 DEF MembershipKinds
            <4> QED
                BY <4>2, <4>3
        <3> QED
            BY <2>1, <3>1, <3>2, <3>3 DEF Placed, Linking
    <2>3. Placed(request[r])'
        BY <1>1, <1>4 DEF Placed
    <2> QED
        BY <2>2, <2>3 DEF PlaceInv
<1>8. NumberInv'
    BY <1>1, <1>5 DEF AccessInv, NumberInv, Linking
<1>9. RowInv'
    BY <1>5 DEF AccessInv, RowInv, Holds, Linking
<1>10. OrderInv'
    <2>1. ASSUME NEW q \in Requests, Linking(q)', request'[q].op.kind \in MembershipKinds,
                 NEW n \in DOMAIN trail', trail'[n].target = request'[q].op.target,
                 trail'[n].kind \in MembershipKinds
          PROVE  n < request'[q].number
        <3>1. q # r /\ request'[q] = request[q] /\ Linking(q)
            BY <1>5, <2>1 DEF Linking
        <3>2. n # m
            BY <1>1, <2>1, <3>1, OneAtATime
        <3>3. n \in DOMAIN trail /\ trail'[n] = trail[n]
            BY <1>1, <3>2
        <3> QED
            BY <2>1, <3>1, <3>3 DEF AccessInv, OrderInv, About
    <2> QED
        BY <2>1 DEF OrderInv, About
<1> QED
    BY <1>6, <1>7, <1>8, <1>9, <1>10

\* The event says the last word about the membership it is about.
LEMMA CommitKeepsTrail ==
    ASSUME AccessInv, NEW r \in Requests, Commit(r)
    PROVE  TrailExplainsMemberships'
<1> DEFINE m == request[r].number
           op == request[r].op
<1>1. /\ Linking(r) /\ op \in Told /\ m \in 1 .. drawn /\ m \notin DOMAIN trail
      /\ DOMAIN trail' = DOMAIN trail \cup {m}
      /\ \A n \in DOMAIN trail : trail'[n] = trail[n]
      /\ trail'[m].kind = op.kind /\ trail'[m].target = op.target /\ trail'[m].role = op.role
      /\ membership' = Changed(op)
    BY CommittedEvent
<1>2. /\ \A p \in People : p # op.target => membership'[p] = membership[p]
      /\ membership'[op.target].role =
            IF op.kind \in {"change", "accept"} THEN op.role ELSE membership[op.target].role
      /\ membership'[op.target].status =
            IF op.kind \in {"revoke", "accept"} THEN StatusAfter(op.kind) ELSE membership[op.target].status
    BY <1>1, ChangedRow
<1>3. op.kind \in {"change", "invite", "revoke", "accept", "denied"} /\ op.target \in People
    BY <1>1, OperationsTyped
<1>4. op.kind \in MembershipKinds => \A n \in About(op.target, MembershipKinds) : n < m
    BY <1>1 DEF AccessInv, OrderInv
<1>5. ASSUME NEW p \in People, NEW kinds, p # op.target \/ op.kind \notin kinds
      PROVE  About(p, kinds)' = About(p, kinds)
    BY <1>1, <1>5 DEF About
<1>6. ASSUME NEW p \in People, NEW kinds, p = op.target, kinds \subseteq MembershipKinds, op.kind \in kinds
      PROVE  m \in DOMAIN trail' /\ LastOf(m, About(p, kinds)')
    <2>1. m \in About(p, kinds)' /\ m <= m
        BY <1>1, <1>6 DEF About
    <2>2. ASSUME NEW n \in About(p, kinds)', n # m PROVE n <= m
        <3>1. n \in About(p, MembershipKinds)
            BY <1>1, <1>6, <2>2 DEF About
        <3>2. n < m /\ n \in Nat
            BY <1>4, <1>6, <3>1 DEF About, AccessInv, TablesInv
        <3> QED
            BY <1>1, <3>2
    <2> QED
        BY <1>1, <2>1, <2>2 DEF LastOf
<1>7. ASSUME NEW p \in People
      PROVE  \/ About(p, RoleEvents)' = {} /\ membership'[p].role = NoMember.role
             \/ \E n \in DOMAIN trail' : /\ LastOf(n, About(p, RoleEvents)')
                                         /\ membership'[p].role = trail'[n].role
    <2>1. \/ About(p, RoleEvents) = {} /\ membership[p].role = NoMember.role
          \/ \E n \in DOMAIN trail : /\ LastOf(n, About(p, RoleEvents))
                                     /\ membership[p].role = trail[n].role
        BY DEF AccessInv, TrailExplainsMemberships
    <2>2. CASE p = op.target /\ op.kind \in RoleEvents
        <3>1. RoleEvents \subseteq MembershipKinds /\ op.kind \in {"change", "accept"}
            BY <1>3, <2>2 DEF RoleEvents, MembershipKinds
        <3>2. m \in DOMAIN trail' /\ LastOf(m, About(p, RoleEvents)')
            BY <1>6, <2>2, <3>1
        <3> QED
            BY <1>1, <1>2, <2>2, <3>1, <3>2
    <2>3. CASE p # op.target \/ op.kind \notin RoleEvents
        <3>1. About(p, RoleEvents)' = About(p, RoleEvents)
            BY <1>5, <2>3
        <3>2. membership'[p].role = membership[p].role
            BY <1>2, <2>3 DEF RoleEvents
        <3> QED
            BY <1>1, <2>1, <3>1, <3>2
    <2> QED
        BY <2>2, <2>3
<1>8. ASSUME NEW p \in People
      PROVE  \/ About(p, StatusEvents)' = {} /\ membership'[p].status = NoMember.status
             \/ \E n \in DOMAIN trail' : /\ LastOf(n, About(p, StatusEvents)')
                                         /\ membership'[p].status = StatusAfter(trail'[n].kind)
    <2>1. \/ About(p, StatusEvents) = {} /\ membership[p].status = NoMember.status
          \/ \E n \in DOMAIN trail : /\ LastOf(n, About(p, StatusEvents))
                                     /\ membership[p].status = StatusAfter(trail[n].kind)
        BY DEF AccessInv, TrailExplainsMemberships
    <2>2. CASE p = op.target /\ op.kind \in StatusEvents
        <3>1. StatusEvents \subseteq MembershipKinds /\ op.kind \in {"revoke", "accept"}
            BY <1>3, <2>2 DEF StatusEvents, MembershipKinds
        <3>2. m \in DOMAIN trail' /\ LastOf(m, About(p, StatusEvents)')
            BY <1>6, <2>2, <3>1
        <3> QED
            BY <1>1, <1>2, <2>2, <3>1, <3>2
    <2>3. CASE p # op.target \/ op.kind \notin StatusEvents
        <3>1. About(p, StatusEvents)' = About(p, StatusEvents)
            BY <1>5, <2>3
        <3>2. membership'[p].status = membership[p].status
            BY <1>2, <2>3 DEF StatusEvents
        <3> QED
            BY <1>1, <2>1, <3>1, <3>2
    <2> QED
        BY <2>2, <2>3
<1> QED
    BY <1>7, <1>8 DEF TrailExplainsMemberships

\* An owner's event follows the one that made the owner, and no event is lost.
LEMMA CommitKeepsOwners ==
    ASSUME AccessInv, NEW r \in Requests, Commit(r)
    PROVE  OwnerInv' /\ GroundInv'
<1> DEFINE m == request[r].number
           op == request[r].op
<1>1. /\ Linking(r) /\ op \in Told /\ m \in 1 .. drawn /\ m \notin DOMAIN trail
      /\ DOMAIN trail' = DOMAIN trail \cup {m}
      /\ \A n \in DOMAIN trail : trail'[n] = trail[n]
      /\ trail'[m].kind = op.kind /\ trail'[m].actor = request[r].person
      /\ trail'[m].target = op.target /\ trail'[m].role = op.role
      /\ drawn' = drawn
      /\ \A q \in Requests \ {r} : request'[q] = request[q]
      /\ request'[r] = Idle
    BY CommittedEvent
<1>2. ASSUME NEW p, NEW n
      PROVE  /\ OwnerBefore(trail, p, n) => OwnerBefore(trail', p, n)
             /\ InvitedBefore(trail, p, n) => InvitedBefore(trail', p, n)
    BY <1>1 DEF OwnerBefore, InvitedBefore
<1>3. OwnerInv'
    <2>1. ASSUME NEW q \in Requests PROVE Entitled(request'[q], trail', drawn')
        <3>1. CASE q = r
            BY <1>1, <3>1, IdleTyped DEF Entitled
        <3>2. CASE q # r
            <4>1. Entitled(request[q], trail, drawn) /\ request'[q] = request[q]
                BY <1>1, <3>2 DEF AccessInv, OwnerInv
            <4> QED
                BY <1>1, <1>2, <4>1 DEF Entitled
        <3> QED
            BY <3>1, <3>2
    <2>2. ASSUME NEW p \in People, invitations'[p].role = "owner"
          PROVE  InvitedBefore(trail', p, drawn' + 1)
        <3>1. CASE invitations[p].role = "owner"
            <4>1. InvitedBefore(trail, p, drawn + 1)
                BY <3>1 DEF AccessInv, OwnerInv
            <4> QED
                BY <1>1, <1>2, <4>1
        <3>2. CASE op.kind = "invite" /\ p = op.target /\ op.role = "owner"
            <4>1. m < drawn' + 1
                BY <1>1 DEF AccessInv, TablesInv
            <4> QED
                BY <1>1, <3>2, <4>1 DEF InvitedBefore
        <3> QED
            BY <1>1, <2>2, <3>1, <3>2, CommittedInvitations
    <2> QED
        BY <2>1, <2>2 DEF OwnerInv
<1>4. GroundInv'
    <2>1. Grounded(trail', m)
        <3>1. Entitled(request[r], trail, drawn) /\ request[r].pc = "linking"
            BY <1>1 DEF AccessInv, OwnerInv, Linking
        <3>2. /\ op.kind \in {"change", "invite", "revoke", "accept", "denied"}
              /\ op.kind \in {"revoke", "denied"} => op.role = "analyst"
            BY <1>1, OperationsTyped
        <3>3. CASE op.kind \in {"change", "invite"} /\ op.role = "owner"
            <4>1. OwnerBefore(trail, request[r].person, m)
                BY <3>1, <3>3 DEF Entitled, At
            <4> QED
                BY <1>1, <1>2, <3>3, <4>1 DEF Grounded
        <3>4. CASE op.kind = "accept" /\ op.role = "owner"
            <4>1. InvitedBefore(trail, op.target, m)
                BY <3>1, <3>4 DEF Entitled
            <4> QED
                BY <1>1, <1>2, <3>4, <4>1 DEF Grounded
        <3>5. CASE op.role # "owner"
            BY <1>1, <3>5 DEF Grounded
        <3> QED
            BY <3>2, <3>3, <3>4, <3>5
    <2>2. ASSUME NEW n \in DOMAIN trail PROVE Grounded(trail', n)
        <3>1. Grounded(trail, n) /\ trail'[n] = trail[n]
            BY <1>1 DEF AccessInv, GroundInv
        <3> QED
            BY <1>2, <3>1 DEF Grounded
    <2> QED
        BY <1>1, <2>1, <2>2 DEF GroundInv
<1> QED
    BY <1>3, <1>4

LEMMA CommitKeeps ==
    ASSUME AccessInv, NEW r \in Requests, Commit(r)
    PROVE  AccessInv'
BY CommitKeepsTables, CommitKeepsTrail, CommitKeepsOwners DEF AccessInv

--------------------------------------------------------------------------------
\* An organization begins with its founder, the owner by the first event.
LEMMA InitKeepsAccess == Init => AccessInv
<1> SUFFICES ASSUME Init PROVE AccessInv
    OBVIOUS
<1>1. /\ DOMAIN trail = {1} /\ drawn = 1 /\ Founder \in People
      /\ trail[1] = Event("created", Founder, Founder, "owner", 0)
    BY AccessAssumption DEF Init
<1>2. /\ trail[1] \in EventRow /\ trail[1].kind = "created" /\ trail[1].target = Founder
      /\ trail[1].role = "owner" /\ trail[1].prev = 0
    BY <1>1 DEF Event, EventRow, Roles
<1>3. \A p \in People : /\ invitations[p] = NoInvitation
                        /\ p # Founder => membership[p] = NoMember
                        /\ p = Founder => membership[p] = [role |-> "owner", status |-> "active"]
    BY DEF Init
<1>4. \A r \in Requests : request[r] = Idle
    BY DEF Init
<1>5. TablesInv
    <2>1. /\ membership \in [People -> [role : Roles, status : {"none", "active", "revoked"}]]
          /\ invitations \in [People -> [role : Roles, status : {"none", "pending", "lapsed"}]]
        BY DEF Init, NoMember, NoInvitation, Roles
    <2>2. trail \in [DOMAIN trail -> EventRow]
        <3>1. trail = [n \in {1} |-> trail[1]]
            BY <1>1 DEF Init
        <3> QED
            BY <1>1, <1>2, <3>1
    <2>3. request \in [Requests -> RequestRow]
        BY IdleTyped DEF Init
    <2>4. grants \subseteq Support
        BY DEF Init
    <2> QED
        BY <1>1, <1>2, <1>4, <2>1, <2>2, <2>3, <2>4, IdleTyped DEF TablesInv
<1>6. PlaceInv /\ NumberInv /\ RowInv /\ OrderInv
    BY <1>4, IdleTyped DEF PlaceInv, Placed, NumberInv, RowInv, OrderInv, Holds, Linking
<1>7. OwnerInv
    BY <1>3, <1>4, IdleTyped DEF OwnerInv, Entitled, NoInvitation
<1>8. TrailExplainsMemberships
    <2>1. \A p \in People : p # Founder => About(p, RoleEvents) = {} /\ About(p, StatusEvents) = {}
        BY <1>1, <1>2 DEF About
    <2>2. LastOf(1, About(Founder, RoleEvents)) /\ LastOf(1, About(Founder, StatusEvents))
        BY <1>1, <1>2 DEF About, LastOf, RoleEvents, StatusEvents
    <2> QED
        BY <1>1, <1>2, <1>3, <2>1, <2>2 DEF TrailExplainsMemberships, StatusAfter
<1>9. GroundInv
    BY <1>1, <1>2 DEF GroundInv, Grounded
<1> QED
    BY <1>5, <1>6, <1>7, <1>8, <1>9 DEF AccessInv

LEMMA NextKeepsAccess == AccessInv /\ [Next]_vars => AccessInv'
<1> SUFFICES ASSUME AccessInv, [Next]_vars PROVE AccessInv'
    OBVIOUS
<1>1. ASSUME NEW r \in Requests, NEW p \in People, Accept(r, p) PROVE AccessInv'
    BY <1>1, AcceptKeeps
<1>2. ASSUME NEW r \in Requests, NEW p \in People, NEW op \in Operations, Ask(r, p, op) PROVE AccessInv'
    BY <1>2, AskKeeps
<1>3. ASSUME NEW r \in Requests, Progress(r) PROVE AccessInv'
    <2>1. CASE Look(r)
        BY <2>1, LookKeeps
    <2>2. CASE Write(r)
        BY <2>2, WriteKeeps
    <2>3. CASE RecordDenial(r)
        BY <2>3, RecordDenialKeeps
    <2>4. CASE DropDenial(r)
        BY <2>4, DropDenialKeeps
    <2>5. CASE Commit(r)
        BY <2>5, CommitKeeps
    <2> QED
        BY <1>3, <2>1, <2>2, <2>3, <2>4, <2>5 DEF Progress
<1>4. ASSUME NEW p \in People, InvitationLapses(p) PROVE AccessInv'
    BY <1>4, InvitationLapsesKeeps
<1>5. ASSUME NEW p \in People, GrantLapses(p) PROVE AccessInv'
    BY <1>5, OnlyGrantsLapse DEF GrantLapses
<1>6. CASE UNCHANGED vars
    BY <1>6, OnlyGrantsLapse DEF vars
<1> QED
    BY <1>1, <1>2, <1>3, <1>4, <1>5, <1>6 DEF Next

\* Nothing a request does, in any interleaving, takes it out of the invariant.
THEOREM AccessHolds == Spec => []AccessInv
<1>1. Init => AccessInv
    BY InitKeepsAccess
<1>2. AccessInv /\ [Next]_vars => AccessInv'
    BY NextKeepsAccess
<1> QED
    BY <1>1, <1>2, PTL DEF Spec

\* The rows stay within their tables, and the events carry numbers that were
\* drawn (the columns and checks of migrations 0001 and 0019).
THEOREM AccessTypeCorrect == Spec => []TypeOK
<1>1. AccessInv => TypeOK
    <2> SUFFICES ASSUME AccessInv PROVE TypeOK
        OBVIOUS
    <2>1. drawn \in Nat /\ \A n \in DOMAIN trail : trail[n] \in EventRow /\ trail[n].prev <= drawn
        BY DEF AccessInv, TablesInv
    <2>2. \A n \in DOMAIN trail : trail[n].prev \in 0 .. drawn
        BY <2>1 DEF EventRow
    <2>3. \A r \in Requests : request[r] \in RequestRow /\ request[r].number \in 0 .. drawn
        BY DEF AccessInv, TablesInv, RequestRow
    <2> QED
        BY <2>1, <2>2, <2>3 DEF AccessInv, TablesInv, TypeOK, EventRow, RequestRow
<1> QED
    BY <1>1, AccessHolds, PTL

\* However the changes, acceptances and revocations of an organization overlap,
\* and whatever order their commits take, the events read in the order of their
\* numbers account for every membership (the handlers of organizations.py).
THEOREM TrailExplains == FairSpec => []TrailExplainsMemberships
<1>1. AccessInv => TrailExplainsMemberships
    BY DEF AccessInv
<1> QED
    BY <1>1, AccessHolds, PTL DEF FairSpec

\* Nobody makes an owner, or invites one, who was not made one before, and
\* nobody accepts ownership without such an invitation (change_membership,
\* create_invitation), though what a request was let in with may be stale.
THEOREM OwnersFromOwners == FairSpec => []OwnersComeFromOwners
<1>1. AccessInv => OwnersComeFromOwners
    <2> SUFFICES ASSUME AccessInv, NEW n \in DOMAIN trail, trail[n].role = "owner"
                 PROVE  CASE trail[n].kind \in {"change", "invite"} ->
                                 \E m \in DOMAIN trail :
                                     m < n /\ MakesOwner(trail[m]) /\ trail[m].target = trail[n].actor
                          [] trail[n].kind = "accept" ->
                                 \E m \in DOMAIN trail :
                                     m < n /\ trail[m].kind = "invite" /\ trail[m].target = trail[n].target
                                           /\ trail[m].role = "owner"
                          [] OTHER -> trail[n].kind = "created"
        BY Zenon DEF OwnersComeFromOwners
    <2>1. Grounded(trail, n)
        BY DEF AccessInv, GroundInv
    <2>2. CASE trail[n].kind \in {"change", "invite"}
        <3>1. trail[n].kind # "accept"
            BY <2>2
        <3>2. OwnerBefore(trail, trail[n].actor, n)
            BY <2>1, <2>2 DEF Grounded
        <3> QED
            BY <2>2, <3>1, <3>2, Zenon DEF OwnerBefore
    <2>3. CASE trail[n].kind = "accept"
        <3>1. trail[n].kind \notin {"change", "invite"}
            BY <2>3
        <3>2. InvitedBefore(trail, trail[n].target, n)
            BY <2>1, <2>3 DEF Grounded
        <3> QED
            BY <2>3, <3>1, <3>2, Zenon DEF InvitedBefore
    <2>4. CASE trail[n].kind \notin {"change", "invite"} /\ trail[n].kind # "accept"
        <3>1. trail[n].kind = "created"
            BY <2>1, <2>4 DEF Grounded
        <3> QED
            BY <2>4, <3>1, Zenon
    <2> QED
        BY <2>2, <2>3, <2>4
<1> QED
    BY <1>1, AccessHolds, PTL DEF FairSpec

================================================================================
