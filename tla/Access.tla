-------------------------------- MODULE Access --------------------------------
(***************************************************************************)
(* Who belongs to an organization, and the trail of how it came about.     *)
(*                                                                         *)
(* A request is one transaction at READ COMMITTED: it authorizes, looks,   *)
(* writes and appends its event.  The event gets its number when its       *)
(* INSERT begins, and its predecessor once the organization's lock is its  *)
(* own; with the commit both become visible together with the change.  A   *)
(* refusal is recorded over a second connection while the first is held.   *)
(***************************************************************************)
EXTENDS Integers, FiniteSets, FiniteSetsExt

CONSTANTS
    People,
    Founder,        \* who created the organization
    Support,        \* platform staff with a grant for it, which may lapse
    Operations,     \* what is asked of it, records of kind, target and role
    Requests,       \* requests that may be under way at once
    PoolSize,       \* connections of the pool, its overflow included
    MaxEvents       \* bound on the numbers drawn

Roles == {"owner", "admin", "analyst"}
NoTarget == "nobody"

ASSUME AccessAssumption ==
    /\ Founder \in People /\ Support \subseteq People
    /\ Operations \subseteq
           [kind : {"change", "invite"}, target : People, role : Roles]
               \union [kind : {"revoke"}, target : People, role : {"analyst"}]
               \union [kind : {"audit"}, target : {NoTarget}, role : {"analyst"}]
    /\ {PoolSize, MaxEvents} \subseteq Nat \ {0}

VARIABLES
    membership,     \* the row of each person
    invitations,    \* the pending invitation of each person
    grants,         \* the holders of a live support grant
    trail,          \* the events that are visible, by number
    drawn,          \* the last number of the sequence
    request         \* the requests under way

vars == <<membership, invitations, grants, trail, drawn, request>>

NoMember == [role |-> "analyst", status |-> "none"]
NoInvitation == [role |-> "analyst", status |-> "none"]
Reading == [kind |-> "audit", target |-> NoTarget, role |-> "analyst"]

\* covered: whether a grant covers the person, as of the transaction's start,
\* which is what now() stands for.
Idle == [pc |-> "idle", person |-> Founder, op |-> Reading, caller |-> "none",
         covered |-> FALSE, number |-> 0]

Event(kind, actor, target, role, prev) ==
    [kind |-> kind, actor |-> actor, target |-> target, role |-> role, prev |-> prev]

\* The creator becomes the owner, and that is the first event.
Init ==
    /\ membership = [p \in People |->
           IF p = Founder THEN [role |-> "owner", status |-> "active"] ELSE NoMember]
    /\ invitations = [p \in People |-> NoInvitation]
    /\ grants = Support
    /\ trail = [n \in {1} |-> Event("created", Founder, Founder, "owner", 0)]
    /\ drawn = 1
    /\ request = [r \in Requests |-> Idle]

(***************************************************************************)
(* Roles.                                                                  *)
(***************************************************************************)
Active(p) == membership[p].status = "active"

RoleOf(p) ==
    CASE Active(p) -> membership[p].role
      [] ~Active(p) /\ p \in grants -> "support"
      [] OTHER -> "none"

\* What the policy allows a role; an analyst may not even read the trail.
Allowed(role) ==
    CASE role \in {"owner", "admin"} -> {"change", "revoke", "invite", "audit"}
      [] role = "support" -> {"audit"}
      [] OTHER -> {}

Owners == {p \in People : Active(p) /\ membership[p].role = "owner"}

\* Mutant of MayGrant: only a change asks who makes an owner.
MayGrantUnaskedByInvitation(op, caller) ==
    op.kind = "change" /\ op.role = "owner" => caller = "owner"

MayGrant(op, caller) == op.role = "owner" => caller = "owner"

(***************************************************************************)
(* Connections and row locks.                                              *)
(***************************************************************************)
Connections(r) ==
    CASE request[r].pc = "idle" -> 0
      [] request[r].op.kind = "denied" -> 2
      [] OTHER -> 1

Room == MapThenSumSet(Connections, Requests) < PoolSize

\* The row an operation writes and holds until its commit.
Row(op) == << IF op.kind \in {"change", "revoke"} THEN "membership" ELSE "invitation", op.target >>

\* Mutant of RowFree: the event is numbered before the row is one's own.
RowTaken(op) == op.target \in People

RowFree(op) ==
    \A r \in Requests :
        request[r].pc = "linking" /\ request[r].op.kind # "denied" => Row(request[r].op) # Row(op)

Respond(r) == request' = [request EXCEPT ![r] = Idle]

\* The number of an event is drawn when its INSERT begins.
Number(r, req) ==
    /\ drawn' = drawn + 1
    /\ request' = [request EXCEPT ![r] = [req EXCEPT !.pc = "linking", !.number = drawn + 1]]

(***************************************************************************)
(* The requests.                                                           *)
(***************************************************************************)
\* One that reads what it may read, or comes from a stranger, leaves nothing.
Ask(r, p, op) ==
    /\ request[r].pc = "idle" /\ Room
    /\ drawn + Cardinality({q \in Requests : request[q].pc # "idle"}) < MaxEvents
    /\ RoleOf(p) # "none"
    /\ op.kind = "audit" => op.kind \notin Allowed(RoleOf(p))
    /\ request' = [request EXCEPT ![r] =
           [Idle EXCEPT !.pc = IF op.kind \in Allowed(RoleOf(p)) THEN "looking" ELSE "refused",
                        !.person = p, !.op = op, !.caller = RoleOf(p), !.covered = p \in grants]]
    /\ UNCHANGED <<membership, invitations, grants, trail, drawn>>

\* The owners are counted without a lock.
MayRevoke(op, caller) ==
    membership[op.target].role = "owner" => caller = "owner" /\ Cardinality(Owners) > 1

Admissible(op, caller) ==
    /\ op.kind \in {"change", "revoke"} => membership[op.target].status # "none"
    /\ op.kind \in {"change", "invite"} => MayGrant(op, caller)
    /\ op.kind = "revoke" => MayRevoke(op, caller)

Look(r) ==
    /\ request[r].pc = "looking"
    /\ IF Admissible(request[r].op, request[r].caller)
       THEN request' = [request EXCEPT ![r].pc = "writing"]
       ELSE Respond(r)
    /\ UNCHANGED <<membership, invitations, grants, trail, drawn>>

\* Row-level security: a member writes, and whoever still has access after
\* the change appends.
Permitted(req) ==
    /\ Active(req.person)
    /\ req.op.kind = "revoke" /\ req.op.target = req.person => req.covered

\* An invitation that is pending keeps its address, lapsed or not.
Write(r) ==
    LET op == request[r].op
    IN  /\ request[r].pc = "writing" /\ RowFree(op)
        /\ IF /\ Permitted(request[r])
              /\ op.kind = "invite" => invitations[op.target].status = "none"
           THEN Number(r, request[r])
           ELSE Respond(r) /\ UNCHANGED drawn
        /\ UNCHANGED <<membership, invitations, grants, trail>>

\* Whoever has been a member, and is no more, cannot become one again.
Accept(r, p) ==
    LET op == [kind |-> "accept", target |-> p, role |-> invitations[p].role]
    IN  /\ request[r].pc = "idle" /\ Room
        /\ drawn + Cardinality({q \in Requests : request[q].pc # "idle"}) < MaxEvents
        /\ invitations[p].status = "pending" /\ RowFree(op)
        /\ membership[p].status = "none"
        /\ Number(r, [Idle EXCEPT !.person = p, !.op = op])
        /\ UNCHANGED <<membership, invitations, grants, trail>>

(***************************************************************************)
(* Refusals.                                                               *)
(***************************************************************************)
Denial(p) == [kind |-> "denied", target |-> p, role |-> "analyst"]

\* The second connection; without access by now nothing can be recorded.
RecordDenial(r) ==
    LET p == request[r].person
    IN  /\ request[r].pc = "refused" /\ Room
        /\ IF RoleOf(p) # "none"
           THEN Number(r, [Idle EXCEPT !.person = p, !.op = Denial(p), !.covered = p \in grants])
           ELSE Respond(r) /\ UNCHANGED drawn
        /\ UNCHANGED <<membership, invitations, grants, trail>>

\* Mutant of PoolTimesOut: one waits for a connection as long as it takes.
PoolWaits == FALSE

PoolTimesOut == ~Room

\* No second connection in ten seconds: the refusal stands, unrecorded.
DropDenial(r) ==
    /\ request[r].pc = "refused" /\ PoolTimesOut
    /\ Respond(r)
    /\ UNCHANGED <<membership, invitations, grants, trail, drawn>>

(***************************************************************************)
(* The trail.                                                              *)
(***************************************************************************)
\* Who has lost access while waiting for the lock finds no predecessor.
Sees(req) ==
    \/ req.op.kind = "accept"
    \/ req.covered
    \/ Active(req.person)

Predecessor(req) == IF Sees(req) THEN Max(DOMAIN trail) ELSE 0

Appended(number, event) ==
    [n \in DOMAIN trail \union {number} |-> IF n = number THEN event ELSE trail[n]]

Changed(op) ==
    CASE op.kind = "change" -> [membership EXCEPT ![op.target].role = op.role]
      [] op.kind = "revoke" -> [membership EXCEPT ![op.target].status = "revoked"]
      [] op.kind = "accept" -> [membership EXCEPT ![op.target] = [role |-> op.role, status |-> "active"]]
      [] OTHER -> membership

Commit(r) ==
    LET op == request[r].op
    IN  /\ request[r].pc = "linking"
        /\ trail' = Appended(request[r].number,
               Event(op.kind, request[r].person, op.target, op.role, Predecessor(request[r])))
        /\ membership' = Changed(op)
        /\ invitations' =
               CASE op.kind = "invite" ->
                        [invitations EXCEPT ![op.target] = [role |-> op.role, status |-> "pending"]]
                 [] op.kind = "accept" -> [invitations EXCEPT ![op.target] = NoInvitation]
                 [] OTHER -> invitations
        /\ Respond(r)
        /\ UNCHANGED <<grants, drawn>>

\* Seven days: the row stays pending, and no query accepts it any more.
InvitationLapses(p) ==
    /\ invitations[p].status = "pending"
    /\ RowFree([kind |-> "invite", target |-> p, role |-> "analyst"])
    /\ invitations' = [invitations EXCEPT ![p].status = "lapsed"]
    /\ UNCHANGED <<membership, grants, trail, drawn, request>>

GrantLapses(p) ==
    /\ p \in grants
    /\ grants' = grants \ {p}
    /\ UNCHANGED <<membership, invitations, trail, drawn, request>>

Progress(r) == Look(r) \/ Write(r) \/ RecordDenial(r) \/ DropDenial(r) \/ Commit(r)

Next ==
    \/ \E r \in Requests, p \in People :
           Accept(r, p) \/ \E op \in Operations : Ask(r, p, op)
    \/ \E r \in Requests : Progress(r)
    \/ \E p \in People : InvitationLapses(p) \/ GrantLapses(p)

Spec == Init /\ [][Next]_vars

\* A request goes on by itself; whoever waits for a row gets it in turn.
FairSpec == Spec /\ \A r \in Requests : WF_vars(Progress(r))

\* What audit_chain_breaks reports, the later breaks of the chain included.
Breaks ==
    {n \in DOMAIN trail : trail[n].prev # Max({0} \union {m \in DOMAIN trail : m < n})}

(***************************************************************************)
(* Properties.                                                             *)
(***************************************************************************)
\* The rows are within their tables, every number is one that was drawn, and a
\* request carries what it was asked (migrations 0001 and 0019).
TypeOK ==
    /\ membership \in [People -> [role : Roles, status : {"none", "active", "revoked"}]]
    /\ invitations \in [People -> [role : Roles, status : {"none", "pending", "lapsed"}]]
    /\ grants \subseteq Support
    /\ drawn \in Nat \ {0}
    /\ DOMAIN trail \subseteq 1 .. drawn
    /\ \A n \in DOMAIN trail :
          /\ trail[n].kind \in {"created", "change", "revoke", "invite", "accept", "denied"}
          /\ trail[n].actor \in People /\ trail[n].target \in People
          /\ trail[n].role \in Roles /\ trail[n].prev \in 0 .. drawn
    /\ \A r \in Requests :
          /\ request[r].pc \in {"idle", "looking", "refused", "writing", "linking"}
          /\ request[r].person \in People /\ request[r].covered \in BOOLEAN
          /\ request[r].number \in 0 .. drawn
          /\ request[r].caller \in Roles \union {"support", "none"}

\* The events of certain kinds about a person, and the last of some events.
About(p, kinds) == {n \in DOMAIN trail : trail[n].target = p /\ trail[n].kind \in kinds}
LastOf(n, events) == n \in events /\ \A m \in events : m <= n

RoleEvents == {"created", "change", "accept"}
StatusEvents == {"created", "revoke", "accept"}
StatusAfter(kind) == IF kind = "revoke" THEN "revoked" ELSE "active"

\* Read in the order of its numbers, the trail accounts for every membership:
\* the role is the one the last event gave that gives one, the status the one it
\* was left in.  The numbers are drawn long before the commits and in another
\* order; but two changes of one row are numbered by whoever holds it (the UPDATE
\* comes before append_audit_event in every handler of organizations.py).
TrailExplainsMemberships ==
    \A p \in People :
        /\ \/ About(p, RoleEvents) = {} /\ membership[p].role = NoMember.role
           \/ \E n \in DOMAIN trail : /\ LastOf(n, About(p, RoleEvents))
                                      /\ membership[p].role = trail[n].role
        /\ \/ About(p, StatusEvents) = {} /\ membership[p].status = NoMember.status
           \/ \E n \in DOMAIN trail : /\ LastOf(n, About(p, StatusEvents))
                                      /\ membership[p].status = StatusAfter(trail[n].kind)

MakesOwner(event) ==
    event.role = "owner" /\ event.kind \in {"created", "change", "accept"}

\* Ownership comes from owners: whoever made somebody an owner, or invited
\* one, had become one by an earlier event, and nobody accepts ownership
\* without such an invitation (change_membership, create_invitation).
OwnersComeFromOwners ==
    \A n \in DOMAIN trail :
        LET e == trail[n]
        IN  e.role = "owner" =>
                CASE e.kind \in {"change", "invite"} ->
                         \E m \in DOMAIN trail :
                             m < n /\ MakesOwner(trail[m]) /\ trail[m].target = e.actor
                  [] e.kind = "accept" ->
                         \E m \in DOMAIN trail :
                             m < n /\ trail[m].kind = "invite" /\ trail[m].target = e.target
                                   /\ trail[m].role = "owner"
                  [] OTHER -> e.kind = "created"

\* Every request ends, though a refusal waits for a connection while it holds
\* one and refusals may hold all of them (POOL_TIMEOUT_SECONDS, db.py).
EveryRequestEnds ==
    \A r \in Requests : request[r].pc # "idle" ~> request[r].pc = "idle"

\* audit_chain_breaks finds nothing while nothing is altered.  The comments of
\* migration 0019 promise that concurrent events cannot produce a fork.
TrailIsIntact == Breaks = {}

\* The organization retains an owner, the words of revoke_membership.
OrganizationRetainsAnOwner == Owners # {}
=============================================================================
