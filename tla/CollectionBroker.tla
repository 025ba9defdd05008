--------------------------- MODULE CollectionBroker ---------------------------
(***************************************************************************)
(* The network gate.  A collector asks the broker for an operation; the    *)
(* broker asks its policy at every checkpoint, resolves a host right       *)
(* before it connects, pins the answered address and starts over for every *)
(* redirect.  A step of an operation is what lies between two checkpoints. *)
(*                                                                         *)
(* Two policies stand behind it.  An assessment runs under the mode, the   *)
(* kill switch and the rate limit of its own process; an ownership check   *)
(* of the API under the challenge and the emergency controls of the        *)
(* database, with a broker of its own.                                     *)
(***************************************************************************)
EXTENDS Integers, FiniteSets

CONSTANTS
    Ops,            \* the operations that may be under way at once
    Requests,       \* what each of them may be asked for, see RequestType
    Hosts,          \* host names
    Below,          \* the pairs <<h, a>> of a host h that sits under a in the DNS tree
    Addresses,      \* addresses
    Public,         \* those the address policy lets through
    Ports,          \* the ports of the catalogue
    Protocols,      \* how many TLS versions are probed
    MaxConcurrency, MaxRedirects, MaxBody,  \* the budget of a broker
    Nothing         \* no connection

Classes == {"http_surface", "email_policy_fetch", "rdap_query", "ct_query",
            "reputation_query", "tls_inspection", "port_probe", "smtp_starttls",
            "https_verification"}

\* canonical is the host the request is about, host the one it starts at.  Whoever
\* has a key asks over TLS.
RequestType == [class : Classes, canonical : Hosts, host : Hosts,
                scheme : {"http", "https"}, key : BOOLEAN, probing : BOOLEAN]

ASSUME BrokerAssumption ==
    /\ Requests \in [Ops -> SUBSET RequestType]
    /\ \A o \in Ops : \A r \in Requests[o] : r.key => r.scheme = "https"
    /\ Below \subseteq Hosts \X Hosts
    /\ Public \subseteq Addresses
    /\ {Protocols, MaxConcurrency, MaxRedirects, MaxBody} \subseteq Nat
    /\ IsFiniteSet(Ports)

VARIABLES
    op,             \* the operations, see Idle
    free,           \* permits left in the broker of the run
    mode,           \* the mode of the run
    halted,         \* whether its kill switch was pulled
    emergency,      \* whether an emergency control covers the domain
    challenge       \* whether the challenge of the ownership check is current

vars == <<op, free, mode, halted, emergency, challenge>>

HttpClasses == {"http_surface", "email_policy_fetch", "rdap_query", "ct_query",
                "reputation_query", "https_verification"}
ProviderRedirectClasses == {"rdap_query", "ct_query"}
SameSiteRedirectClasses == {"http_surface"}
BodyRequired(class) == class # "http_surface"
AuthorizedOnly == {"https_verification", "port_probe"}

AllowedClasses(m) ==
    IF m = "passive_observation" THEN Classes \ AuthorizedOnly ELSE Classes

(***************************************************************************)
(* An operation.                                                           *)
(***************************************************************************)
Idle == [pc |-> "idle", req |-> Nothing, host |-> Nothing, scheme |-> "https", hops |-> 0,
         answer |-> {}, address |-> Nothing, conn |-> Nothing, body |-> 0, todo |-> {},
         handshakes |-> 0, result |-> "", after |-> 0]

Active(o) == op[o].pc \notin {"idle", "done"}
Class(o) == op[o].req.class
OwnBroker(o) == Class(o) = "https_verification"

\* Mutant of Denied: an operation is judged when it begins, and not again.
DeniedBeforeResolution(o) ==
    /\ op[o].pc = "pin" /\ op[o].hops = 0
    /\ IF OwnBroker(o) THEN ~challenge \/ emergency
       ELSE halted \/ Class(o) \notin AllowedClasses(mode)

\* What the policy of the operation answers at a checkpoint.
Denied(o) ==
    IF OwnBroker(o) THEN ~challenge \/ emergency
    ELSE halted \/ Class(o) \notin AllowedClasses(mode)

\* Whether someone has told the operation to stop.
Stopped(o) == IF OwnBroker(o) THEN ~challenge \/ emergency ELSE halted

\* The connection is closed, the caller has the result.
Ended(o, result) == [Idle EXCEPT !.pc = "done", !.req = op[o].req, !.result = result]

\* The operation ends and its permit, if it is of the shared broker, returns.
Finish(o, result) ==
    /\ op' = [op EXCEPT ![o] = Ended(o, result)]
    /\ free' = IF OwnBroker(o) THEN free ELSE free + 1

\* The rate limit never let the connection through: the exception passes the handler of
\* a denial, and where the permit is not yet under the finally clause it stays taken.
Abandon(o, released) ==
    /\ op' = [op EXCEPT ![o] = Ended(o, "halted")]
    /\ free' = IF released THEN free + 1 ELSE free

Advance(o, next) == op' = [op EXCEPT ![o] = next] /\ UNCHANGED free

\* What is sent or received counts against an operation that was told to stop.
Counted(o) == IF Stopped(o) THEN op[o].after + 1 ELSE op[o].after

(***************************************************************************)
(* Begin: the permit, without waiting for it.                              *)
(***************************************************************************)
Begin(o) ==
    /\ ~Active(o)
    /\ \E r \in Requests[o] :
        LET own == r.class = "https_verification"
            begun == [Idle EXCEPT !.pc = "pin", !.req = r, !.host = r.host, !.scheme = r.scheme,
                                  !.todo = IF r.class = "port_probe" THEN Ports ELSE {}]
        IN  IF own \/ free > 0
            THEN /\ op' = [op EXCEPT ![o] = begun]
                 /\ free' = IF own THEN free ELSE free - 1
            ELSE /\ op' = [op EXCEPT ![o] = [Idle EXCEPT !.pc = "done", !.req = r,
                                                              !.result = "error"]]
                 /\ UNCHANGED free
    /\ UNCHANGED <<mode, halted, emergency, challenge>>

(***************************************************************************)
(* _pin_address: resolve, judge the whole answer, take an address of it.   *)
(***************************************************************************)
Resolve(o) ==
    /\ op[o].pc = "pin"
    /\ IF Denied(o) THEN Finish(o, "denied")
       ELSE \E answer \in SUBSET Addresses :
              Advance(o, [op[o] EXCEPT !.pc = "resolved", !.answer = answer])

\* Mutant of Authorized: one public address is enough.
PartlyPublic(answer) == answer \cap Public # {}

Authorized(answer) == answer # {} /\ answer \subseteq Public

\* The permit of these operations is released by hand until the address is pinned.
ReleasedWhenAbandoned(o) == Class(o) \notin {"tls_inspection", "port_probe"}

Pin(o) ==
    /\ op[o].pc = "resolved"
    /\ IF ~Authorized(op[o].answer) \/ Denied(o) THEN Finish(o, "denied")
       ELSE \/ \E a \in op[o].answer : Advance(o, [op[o] EXCEPT !.pc = "pinned", !.address = a])
            \/ ~OwnBroker(o) /\ Abandon(o, ReleasedWhenAbandoned(o))

Connection(o, key) == [host |-> op[o].host, scheme |-> op[o].scheme,
                       address |-> op[o].address, key |-> key]

\* A connection is opened, and something sent and received over it.
Contact(o, pc, key) ==
    Advance(o, [op[o] EXCEPT !.pc = pc, !.conn = Connection(o, key), !.after = Counted(o)])

(***************************************************************************)
(* fetch and fetch_https_verification.                                     *)
(***************************************************************************)
\* Mutant of SendsKey: the key goes wherever the redirect leads.
AlwaysSendsKey(o) == op[o].req.key

SendsKey(o) == op[o].req.key /\ op[o].host = op[o].req.host

Connect(o) ==
    /\ op[o].pc = "pinned" /\ Class(o) \in HttpClasses
    /\ Contact(o, "headers", SendsKey(o))

\* The headers are in, or no well-formed ones within their bounds.
ReadHeaders(o) ==
    /\ op[o].pc = "headers"
    /\ \/ Finish(o, "transport_error")
       \/ Denied(o) /\ Finish(o, "denied")
       \/ /\ ~Denied(o)
          /\ Advance(o, [op[o] EXCEPT !.pc = IF BodyRequired(Class(o)) THEN "body" ELSE "response"])

\* A piece of the body, then the checkpoint; or the end of it; or a broken framing.
ReadBody(o) ==
    /\ op[o].pc = "body"
    /\ \/ Advance(o, [op[o] EXCEPT !.pc = "response"])
       \/ Finish(o, "transport_error")
       \/ IF op[o].body + 1 > MaxBody THEN Finish(o, "response_too_large")
          ELSE Advance(o, [op[o] EXCEPT !.pc = "chunk", !.body = @ + 1, !.after = Counted(o)])

ChunkCheckpoint(o) ==
    /\ op[o].pc = "chunk"
    /\ IF Denied(o) THEN Finish(o, "denied") ELSE Advance(o, [op[o] EXCEPT !.pc = "body"])

\* Mutant of RedirectTargetPermitted: a site may lead to whatever it sits under.
PermittedBothWays(req, host) ==
    \/ host = req.canonical
    \/ req.class \in ProviderRedirectClasses
    \/ /\ req.class \in SameSiteRedirectClasses
       /\ <<host, req.canonical>> \in Below \/ <<req.canonical, host>> \in Below

RedirectTargetPermitted(req, host) ==
    \/ host = req.canonical
    \/ req.class \in ProviderRedirectClasses
    \/ req.class \in SameSiteRedirectClasses /\ <<host, req.canonical>> \in Below

RedirectAuthorized(o, host, scheme) ==
    /\ ~(op[o].scheme = "https" /\ scheme = "http")
    /\ RedirectTargetPermitted(op[o].req, host)

\* All that was resolved, opened and read is for the next host to do anew.
Redirected(row, host, scheme) ==
    [row EXCEPT !.pc = "pin", !.host = host, !.scheme = scheme, !.hops = @ + 1,
                !.answer = {}, !.address = Nothing, !.conn = Nothing, !.body = 0]

\* The answer is the result, or a redirect that is followed to a host to be pinned anew.
Respond(o) ==
    /\ op[o].pc = "response"
    /\ \/ Finish(o, "ok")
       \/ \E host \in Hosts, scheme \in {"http", "https"} :
            IF \/ op[o].hops >= MaxRedirects
               \/ Denied(o)
               \/ ~RedirectAuthorized(o, host, scheme)
            THEN Finish(o, "denied")
            ELSE Advance(o, Redirected(op[o], host, scheme))

(***************************************************************************)
(* inspect_tls: a handshake, a second one if the certificate was refused,  *)
(* and one for each version, which are authorized all together.            *)
(***************************************************************************)
InspectCertificate(o) ==
    /\ op[o].pc = "pinned" /\ Class(o) = "tls_inspection"
    /\ \E pc \in {"second", "inspected", "inconclusive"} : Contact(o, pc, FALSE)

HandshakeUnverified(o) ==
    /\ op[o].pc = "second"
    /\ Contact(o, "inspected", FALSE)

AuthorizeProbes(o) ==
    \/ op[o].pc = "inconclusive" /\ Finish(o, "error")
    \/ /\ op[o].pc = "inspected"
       /\ IF ~op[o].req.probing THEN Finish(o, "ok")
          ELSE \/ Denied(o) /\ Finish(o, "denied")
               \/ ~Denied(o) /\ Abandon(o, TRUE)
               \/ ~Denied(o) /\ Advance(o, [op[o] EXCEPT !.pc = "probing", !.conn = Nothing])

ProbeProtocols(o) ==
    /\ op[o].pc = "probing"
    /\ IF op[o].handshakes = Protocols THEN Finish(o, "ok")
       ELSE Advance(o, [op[o] EXCEPT !.handshakes = @ + 1, !.conn = Connection(o, FALSE),
                                     !.after = Counted(o)])

(***************************************************************************)
(* probe_ports: authorized again for every port; what was seen before a    *)
(* refusal is kept.                                                        *)
(***************************************************************************)
\* The first port needs its own authorization although the address was just pinned.
AuthorizePort(o) ==
    /\ op[o].pc \in {"pinned", "next_port"} /\ Class(o) = "port_probe"
    /\ IF op[o].todo = {} THEN Finish(o, "ok")
       ELSE \/ Denied(o) /\ Finish(o, "partial")
            \/ ~Denied(o) /\ Abandon(o, TRUE)
            \/ ~Denied(o) /\ Advance(o, [op[o] EXCEPT !.pc = "probe_port", !.conn = Nothing])

PortsLeft(todo, port) == todo \ {port}

ProbePort(o) ==
    /\ op[o].pc = "probe_port"
    /\ \E port \in op[o].todo :
         Advance(o, [op[o] EXCEPT !.pc = "next_port", !.conn = Connection(o, FALSE),
                                  !.todo = PortsLeft(@, port), !.after = Counted(o)])

(***************************************************************************)
(* probe_mail_transport: the permit is held across the conversation.       *)
(***************************************************************************)
ProbeMail(o) ==
    \/ /\ op[o].pc = "pinned" /\ Class(o) = "smtp_starttls"
       /\ Contact(o, "conversation", FALSE)
    \/ op[o].pc = "conversation" /\ Finish(o, "ok")

(***************************************************************************)
(* The world around: the operator, the database and the challenge.         *)
(***************************************************************************)
Halt ==
    /\ ~halted /\ halted' = TRUE
    /\ UNCHANGED <<op, free, mode, emergency, challenge>>

\* What is counted is counted from the moment the operation was told to stop.
Recount ==
    op' = [o \in Ops |-> IF Active(o) /\ ~Stopped(o) THEN [op[o] EXCEPT !.after = 0] ELSE op[o]]

ActivateEmergency ==
    /\ ~emergency /\ emergency' = TRUE /\ Recount
    /\ UNCHANGED <<free, mode, halted, challenge>>

DeactivateEmergency ==
    /\ emergency /\ emergency' = FALSE
    /\ UNCHANGED <<op, free, mode, halted, challenge>>

ChallengeLapses ==
    /\ challenge /\ challenge' = FALSE /\ Recount
    /\ UNCHANGED <<free, mode, halted, emergency>>

HttpStep(o) ==
    Connect(o) \/ ReadHeaders(o) \/ ReadBody(o) \/ ChunkCheckpoint(o) \/ Respond(o)
TlsStep(o) ==
    InspectCertificate(o) \/ HandshakeUnverified(o) \/ AuthorizeProbes(o) \/ ProbeProtocols(o)

Step(o) ==
    /\ \/ Resolve(o) \/ Pin(o) \/ HttpStep(o) \/ TlsStep(o)
       \/ AuthorizePort(o) \/ ProbePort(o) \/ ProbeMail(o)
    /\ UNCHANGED <<mode, halted, emergency, challenge>>

Init ==
    /\ op = [o \in Ops |-> Idle]
    /\ free = MaxConcurrency
    /\ mode \in {"passive_observation", "authorized_assessment"}
    /\ halted = FALSE /\ emergency = FALSE /\ challenge = TRUE

Next ==
    \/ \E o \in Ops : Begin(o) \/ Step(o)
    \/ Halt \/ ActivateEmergency \/ DeactivateEmergency \/ ChallengeLapses

\* Every wait of an operation has a time limit.
Spec == Init /\ [][Next]_vars /\ \A o \in Ops : WF_vars(Step(o))

(***************************************************************************)
(* Properties.                                                             *)
(***************************************************************************)
Connected == {o \in Ops : op[o].conn # Nothing}

\* Every connection, of a first request or after a redirect, goes to an address that its
\* own host was resolved to just before, and no address of that answer was a private one.
PinnedToItsOwnHost ==
    \A o \in Connected :
        /\ op[o].conn.host = op[o].host
        /\ op[o].conn.address \in op[o].answer
        /\ op[o].answer \subseteq Public

\* A redirect leads to another host only where the kind of the operation has it: down from
\* the site for a look at it, anywhere for a registry or an index.  It leads nowhere without end.
RedirectsStayInScope ==
    \A o \in Connected :
        LET req == op[o].req
        IN  /\ op[o].hops <= MaxRedirects
            /\ \/ op[o].conn.host \in {req.canonical, req.host}
               \/ req.class \in {"rdap_query", "ct_query"}
               \/ req.class = "http_surface" /\ <<op[o].conn.host, req.canonical>> \in Below

\* A request that has once been made over TLS never continues without it.
NeverDowngraded ==
    [][\A o \in Ops : op[o].scheme = "https" /\ op[o].hops < op'[o].hops
                          => op'[o].scheme = "https"]_vars

\* The key to a provider is sent to the host it was issued for, and only over TLS.
KeyStaysWithItsHost ==
    \A o \in Connected :
        op[o].conn.key => op[o].conn.host = op[o].req.host /\ op[o].conn.scheme = "https"

\* What an operation may still send or receive after it was told to stop: what it had been
\* cleared for.  A set of version probes is cleared as a whole.
ClearedFor(class) ==
    IF class = "tls_inspection" THEN IF Protocols < 2 THEN 2 ELSE Protocols ELSE 1

\* The kill switch ends every operation of the run, and an emergency control or the end of
\* the challenge every ownership check, at its next checkpoint.
StoppedOperationsEnd ==
    \A o \in Ops : Active(o) => op[o].after <= ClearedFor(Class(o))

\* No more connections of one broker are open than it has permits, however its operations end.
SocketsAreBounded ==
    /\ free <= MaxConcurrency
    /\ Cardinality({o \in Connected : ~OwnBroker(o)}) <= MaxConcurrency

\* A passive run opens no connection that needs an authorization.
PassiveConnectsToNothingActive ==
    mode = "passive_observation" =>
        \A o \in Connected : OwnBroker(o) \/ Class(o) \notin AuthorizedOnly

\* How many steps an operation may still take: to the end of this hop, to its pieces,
\* versions and ports, and for each redirect it may still follow those of a hop.
Distance ==
    [pin |-> 9, resolved |-> 8, pinned |-> 7, headers |-> 6, body |-> 5, chunk |-> 6,
     response |-> 4, second |-> 6, inspected |-> 5, inconclusive |-> 5, probing |-> 4,
     next_port |-> 7, probe_port |-> 6, conversation |-> 6]

HopSteps == 2 * MaxBody + 6

StepsLeft(row) ==
    IF row.pc \in {"idle", "done"} THEN 0
    ELSE Distance[row.pc] + 2 * (MaxBody - row.body) + HopSteps * (MaxRedirects - row.hops)
           + (Protocols - row.handshakes) + 2 * Cardinality(row.todo)

\* No operation can be kept going: each step uses up one of those it has, whatever the
\* other side sends and wherever it redirects, and nothing gives it any back.
EveryStepCounts ==
    [][\A o \in Ops : Active(o) =>
          /\ StepsLeft(op'[o]) \in 0..StepsLeft(op[o])
          /\ Step(o) => StepsLeft(op'[o]) < StepsLeft(op[o])]_vars

\* Every operation comes to an end, whatever the other side sends.
EveryOperationEnds == \A o \in Ops : Active(o) ~> ~Active(o)

\* What docs/operations/emergency-controls.md:8 says of a control that covers a domain: it
\* blocks it, so no operation on it passes the checkpoint before its connection.
ControlBlocksTheDomain ==
    [][\A o \in Ops : emergency /\ op[o].pc = "resolved" => op'[o].pc # "pinned"]_vars
===============================================================================
