---------------------------- MODULE DomainControl ----------------------------
(***************************************************************************)
(* How an organization proves that it controls a domain, authorizes what   *)
(* is more than passive, and stops the network operations of a proof.      *)
(*                                                                         *)
(* A request is one transaction at READ COMMITTED.  What it reads and what *)
(* it writes are steps of their own where another request can come in      *)
(* between; a verification holds its rows over its whole network fetch.    *)
(***************************************************************************)
EXTENDS Integers, Sequences, FiniteSets, TLC

CONSTANTS
    Requests,       \* requests that may be under way at once
    Scopes,         \* the emergency controls an operator may set
    MaxAttempts,    \* failed lookups a challenge allows
    HourlyLimit,    \* challenges of one domain in an hour
    Challenges,     \* names for challenges, a bound on how many matter at once
    Checkpoints     \* places of a fetch at which its policy is asked

Methods == {"dns_txt", "https_file"}

ASSUME DomainControlAssumption ==
    /\ Scopes \subseteq {"global", "organization", "domain", "https_verification", "dns_verification"}
    /\ {MaxAttempts, HourlyLimit, Checkpoints} \subseteq Nat \ {0}
    /\ IsFiniteSet(Challenges) /\ IsFiniteSet(Requests)

VARIABLES
    challenges,     \* the challenges of the domain, see Absent
    ownership,      \* the ownership state of the domain
    controls,       \* the row of each emergency control not deactivated
    authorization,  \* the state of one authorization
    request         \* the requests under way, see Idle

vars == <<challenges, ownership, controls, authorization, request>>

\* covered: whether a control has been in force since before the last checkpoint.
Idle == [pc |-> "idle", challenge |-> {}, method |-> "dns_txt", attempts |-> 0, left |-> 0,
         lapsed |-> {}, retired |-> {}, covered |-> FALSE]

ChallengeRow ==
    [state : {"none", "pending", "verified", "expired", "failed", "revoked"},
     method : Methods, attempts : Nat, failures : Nat, lapsed : BOOLEAN, recent : BOOLEAN]

OwnershipStates == {"pending", "verified", "expired", "failed", "revoked", "reverification_required"}

\* One row of a scope at a time that nobody deactivated; it may be past its expiry.
ControlRows == [Scopes -> {"none", "active", "lapsed"}]

\* Nothing sets the state expired that the table knows.
AuthorizationStates == {"none", "draft", "active", "revoked"}

\* No row, or one that no query asks for any more.
Absent == [state |-> "none", method |-> "dns_txt", attempts |-> 0, failures |-> 0,
           lapsed |-> FALSE, recent |-> FALSE]

New(m) == [Absent EXCEPT !.state = "pending", !.method = m, !.recent = TRUE]

\* Of a settled row no more than this is asked for.
Settled(row, state) ==
    [Absent EXCEPT !.state = state, !.failures = row.failures, !.recent = row.recent]

Pending(c) == challenges[c].state = "pending"
Fetching(q) == request[q].pc = "fetching"
Respond(q) == request' = [request EXCEPT ![q] = Idle]

(***************************************************************************)
(* Row locks.                                                              *)
(***************************************************************************)
\* A verification holds its challenge and the domain, a creation the rows it
\* has retired.
ChallengeHeld(c) ==
    \E q \in Requests :
        \/ Fetching(q) /\ c \in request[q].challenge
        \/ c \in request[q].retired
DomainHeld == \E q \in Requests : Fetching(q)

\* Mutant of RowsFree: the rows are read without FOR UPDATE.
ReadUnlocked(c) == Pending(c)

RowsFree(c) == ~ChallengeHeld(c) /\ ~DomainHeld

\* Mutant of AuthorizationFree: accepting does not lock what it reads.
AuthorizationUnlocked == authorization # "none"

AuthorizationFree == \A q \in Requests : request[q].pc # "accepting"

(***************************************************************************)
(* Challenges.                                                             *)
(***************************************************************************)
Lapsed(m) ==
    {c \in Challenges : challenges[c].method = m /\ Pending(c) /\ challenges[c].lapsed}
OpenOf(m) == {c \in Challenges : challenges[c].method = m /\ Pending(c)}

\* Mutant of RecentChallenges: those that came to nothing are not counted.
RecentPending == {c \in Challenges : challenges[c].recent /\ Pending(c)}

RecentChallenges == {c \in Challenges : challenges[c].recent}

\* What has lapsed is retired, an open one or too many in the hour refuse.
BeginCreate(q, m) ==
    /\ request[q].pc = "idle"
    /\ \A c \in Lapsed(m) : ~ChallengeHeld(c)
    /\ OpenOf(m) = Lapsed(m)
    /\ Cardinality(RecentChallenges) < HourlyLimit
    /\ request' = [request EXCEPT ![q] = [Idle EXCEPT !.pc = "creating", !.method = m,
                                             !.retired = Lapsed(m)]]
    /\ UNCHANGED <<challenges, ownership, controls, authorization>>

\* The new row refers to the domain and waits for whoever holds it; the index
\* allows one pending row of a method.
FinishCreate(q) ==
    LET m == request[q].method
    IN  /\ request[q].pc = "creating" /\ ~DomainHeld
        /\ IF OpenOf(m) \subseteq request[q].retired
           THEN \E new \in {c \in Challenges : challenges[c] = Absent} :
                   challenges' = [c \in Challenges |->
                       CASE c = new -> New(m)
                         [] c \in request[q].retired -> Settled(challenges[c], "expired")
                         [] OTHER -> challenges[c]]
           ELSE UNCHANGED challenges
        /\ Respond(q)
        /\ UNCHANGED <<ownership, controls, authorization>>

RevokeChallenge(c) ==
    /\ ~ChallengeHeld(c) /\ Pending(c)
    /\ challenges' = [challenges EXCEPT ![c] = Settled(@, "revoked")]
    /\ UNCHANGED <<ownership, controls, authorization, request>>

ChallengeLapses(c) ==
    /\ Pending(c) /\ ~challenges[c].lapsed
    /\ challenges' = [challenges EXCEPT ![c].lapsed = TRUE]
    /\ UNCHANGED <<ownership, controls, authorization, request>>

\* An hour after it was made it is not counted; settled, it is of no interest.
HourPasses(c) ==
    /\ challenges[c] # Absent /\ (challenges[c].recent \/ ~Pending(c))
    /\ challenges' = [challenges EXCEPT ![c] = IF Pending(c) THEN [@ EXCEPT !.recent = FALSE]
                                               ELSE Absent]
    /\ UNCHANGED <<ownership, controls, authorization, request>>

(***************************************************************************)
(* Emergency controls.                                                     *)
(***************************************************************************)
\* No policy is asked on the way of a DNS lookup.
Stops(s) == s # "dns_verification"

InForce(s) == controls[s] = "active" /\ Stops(s)

\* now() is when the transaction began: what lapsed before does not count, what
\* lapses meanwhile does.  A control of the domain refers to the row that the
\* verification holds, and is not there before it has ended.
Denied(q) ==
    \E s \in Scopes : InForce(s) \/ (Stops(s) /\ controls[s] = "lapsed" /\ s \notin request[q].lapsed)

\* Mutant of Stopped: the policy is asked before the name is resolved only.
StoppedAtTheStart(q) == Denied(q) /\ request[q].left = Checkpoints

Stopped(q) == Denied(q)

\* Those of the organization, and the global one, are set by different people.
Family(s) == IF s = "global" THEN {"global"} ELSE Scopes \ {"global"}

\* What has lapsed is replaced; one control of a scope at a time.
Activate(s) ==
    /\ controls[s] # "active"
    /\ s = "domain" => ~DomainHeld
    /\ controls' = [t \in Scopes |-> CASE t = s -> "active"
                                       [] t \in Family(s) \ {s} /\ controls[t] = "lapsed" -> "none"
                                       [] OTHER -> controls[t]]
    /\ request' = [q \in Requests |->
                     IF Fetching(q) /\ request[q].left > 0 /\ Stops(s)
                     THEN [request[q] EXCEPT !.covered = TRUE] ELSE request[q]]
    /\ UNCHANGED <<challenges, ownership, authorization>>

\* A control ends, and with it what it covered and no other does.
EndControl(s, row) ==
    /\ controls' = [controls EXCEPT ![s] = row]
    /\ request' = [q \in Requests |->
                     [request[q] EXCEPT !.covered = @ /\ \E t \in Scopes \ {s} : InForce(t)]]
    /\ UNCHANGED <<challenges, ownership, authorization>>

Deactivate(s) == controls[s] # "none" /\ EndControl(s, "none")
ControlLapses(s) == controls[s] = "active" /\ EndControl(s, "lapsed")

(***************************************************************************)
(* Verification.                                                           *)
(***************************************************************************)
\* Trying one that has lapsed.
VerifyLapsed(c) ==
    /\ RowsFree(c) /\ Pending(c) /\ challenges[c].lapsed
    /\ challenges' = [challenges EXCEPT ![c] = Settled(@, "expired")]
    /\ ownership' = "expired"
    /\ UNCHANGED <<controls, authorization, request>>

BeginVerify(q, c) ==
    /\ request[q].pc = "idle" /\ RowsFree(c)
    /\ Pending(c) /\ ~challenges[c].lapsed
    /\ request' = [request EXCEPT ![q] =
                      [Idle EXCEPT !.pc = "fetching", !.challenge = {c},
                          !.method = challenges[c].method, !.attempts = challenges[c].attempts,
                          !.left = IF challenges[c].method = "https_file" THEN Checkpoints ELSE 0,
                          !.lapsed = {s \in Scopes : controls[s] = "lapsed"},
                          !.covered = \E s \in Scopes : InForce(s)]]
    /\ UNCHANGED <<challenges, ownership, controls, authorization>>

\* Being stopped is an answer that costs no attempt.
Checkpoint(q) ==
    /\ Fetching(q) /\ request[q].left > 0
    /\ IF Stopped(q) THEN Respond(q)
       ELSE request' = [request EXCEPT ![q].left = @ - 1]
    /\ UNCHANGED <<challenges, ownership, controls, authorization>>

\* The value is found at the end of the fetch.
Matched(q) ==
    /\ Fetching(q) /\ request[q].left = 0
    /\ \E c \in request[q].challenge :
          challenges' = [challenges EXCEPT ![c] = Settled(@, "verified")]
    /\ ownership' = "verified"
    /\ Respond(q)
    /\ UNCHANGED <<controls, authorization>>

\* The value is not there, or the fetch fails on its way.
NotMatched(q) ==
    LET attempts == request[q].attempts + 1
        terminal == attempts >= MaxAttempts
    IN  /\ Fetching(q)
        /\ \E c \in request[q].challenge :
              LET row == [challenges[c] EXCEPT !.attempts = attempts, !.failures = @ + 1,
                                               !.state = "pending"]
              IN  challenges' = [challenges EXCEPT ![c] = IF terminal THEN Settled(row, "failed")
                                                          ELSE row]
        /\ ownership' = IF terminal THEN "failed" ELSE ownership
        /\ Respond(q)
        /\ UNCHANGED <<controls, authorization>>

\* The proof is past its date: the scheduler asks for another, and until it
\* does nothing is authorized on it.
ProofLapses ==
    /\ ownership = "verified"
    /\ ownership' = "reverification_required"
    /\ UNCHANGED <<challenges, controls, authorization, request>>

(***************************************************************************)
(* Authorizations.                                                         *)
(***************************************************************************)
CurrentlyVerified == ownership = "verified"

Draft ==
    /\ authorization = "none" /\ CurrentlyVerified /\ ~DomainHeld
    /\ authorization' = "draft"
    /\ UNCHANGED <<challenges, ownership, controls, request>>

\* In its period; one past it is refused.  The draft is locked, the domains of its targets are not.
BeginAccept(q) ==
    /\ request[q].pc = "idle" /\ AuthorizationFree
    /\ authorization = "draft" /\ CurrentlyVerified
    /\ request' = [request EXCEPT ![q].pc = "accepting"]
    /\ UNCHANGED <<challenges, ownership, controls, authorization>>

\* The manifest is signed and stored, and the authorization active.
FinishAccept(q) ==
    /\ request[q].pc = "accepting"
    /\ authorization' = "active"
    /\ Respond(q)
    /\ UNCHANGED <<challenges, ownership, controls>>

BeginRevoke(q) ==
    /\ request[q].pc = "idle"
    /\ authorization \in {"draft", "active"}
    /\ request' = [request EXCEPT ![q].pc = "revoking"]
    /\ UNCHANGED <<challenges, ownership, controls, authorization>>

\* Written whatever has become of it; of two who revoke, the later is kept.
FinishRevoke(q) ==
    /\ request[q].pc = "revoking" /\ AuthorizationFree
    /\ authorization' = "revoked"
    /\ Respond(q)
    /\ UNCHANGED <<challenges, ownership, controls>>

Init ==
    /\ challenges = [c \in Challenges |-> Absent]
    /\ ownership = "pending"
    /\ controls = [s \in Scopes |-> "none"]
    /\ authorization = "none"
    /\ request = [q \in Requests |-> Idle]

ChallengeStep ==
    \/ \E q \in Requests :
          \/ \E m \in Methods : BeginCreate(q, m)
          \/ FinishCreate(q)
          \/ \E c \in Challenges : BeginVerify(q, c)
          \/ Checkpoint(q) \/ Matched(q) \/ NotMatched(q)
    \/ \E c \in Challenges :
          RevokeChallenge(c) \/ ChallengeLapses(c) \/ HourPasses(c) \/ VerifyLapsed(c)

ControlStep == \E s \in Scopes : Activate(s) \/ Deactivate(s) \/ ControlLapses(s)

AuthorizationStep ==
    \/ ProofLapses
    \/ Draft
    \/ \E q \in Requests : BeginAccept(q) \/ FinishAccept(q) \/ BeginRevoke(q) \/ FinishRevoke(q)

Next == ChallengeStep \/ ControlStep \/ AuthorizationStep

Spec == Init /\ [][Next]_vars

(***************************************************************************)
(* Properties.                                                             *)
(***************************************************************************)
\* The rows are within their tables, and a request knows the rows it works on
\* (migration 0004).
TypeOK ==
    /\ challenges \in [Challenges -> ChallengeRow]
    /\ ownership \in OwnershipStates
    /\ controls \in ControlRows
    /\ authorization \in AuthorizationStates
    /\ request \in [Requests ->
           [pc : {"idle", "creating", "fetching", "accepting", "revoking"},
            challenge : SUBSET Challenges, method : Methods, attempts : Nat,
            left : 0 .. Checkpoints, lapsed : SUBSET Scopes, retired : SUBSET Challenges,
            covered : BOOLEAN]]

\* However many people verify one challenge at once, its value is looked for in
\* vain no more often than the challenge allows.  (verify_challenge)
GuessesAreBounded ==
    \A c \in Challenges :
        /\ challenges[c].failures <= MaxAttempts
        /\ challenges[c].failures = MaxAttempts => challenges[c].state = "failed"

\* A domain sees no more new challenges in an hour than the limit and, since
\* requests count before they write, one for each other request under way.
\* (create_challenge)
ChallengesAreLimited ==
    Cardinality({c \in Challenges : challenges[c].recent}) <=
        HourlyLimit + Cardinality(Requests) - 1

\* A control in force before the last checkpoint of a fetch, and to its end,
\* keeps that fetch from proving anything.
\* (DatabaseNetworkPolicy.authorize, verify_challenge, activate)
StoppedVerificationNeverVerifies ==
    [][\A q \in Requests :
          Fetching(q) /\ request[q].method = "https_file" /\ request[q].covered =>
              \A c \in request[q].challenge : challenges'[c].state # "verified"]_vars

\* An authorization once revoked is never in force again, whoever accepts it
\* at that moment.
\* (accept_authorization, revoke_authorization)
RevokedStaysRevoked ==
    [][authorization = "revoked" => authorization' = "revoked"]_vars

\* "A domain that was already verified should not be demoted for having ignored
\* a later challenge": trying a challenge that has lapsed does not make it
\* expire.
AbandonedChallengeDoesNotDemote ==
    [][ownership = "verified" => ownership' # "expired"]_vars
=============================================================================
