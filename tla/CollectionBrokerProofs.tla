------------------------- MODULE CollectionBrokerProofs -------------------------
(***************************************************************************)
(* Proofs about the network gate, for any number of operations, hosts,     *)
(* addresses, ports, permits and redirects.  An operation shares with the  *)
(* others the permits and what stops it; all else is said of it alone, of  *)
(* its row, and of the place it is at.                                     *)
(***************************************************************************)
EXTENDS CollectionBroker, FiniteSetTheorems, TLAPS

Lookups == {"pin", "resolved"}
HttpPlaces == {"headers", "body", "chunk", "response"}
TlsPlaces == {"second", "inspected", "inconclusive", "probing"}
PortPlaces == {"probe_port", "next_port"}
Places == Lookups \cup HttpPlaces \cup TlsPlaces \cup PortPlaces
            \cup {"idle", "done", "pinned", "conversation"}

Results ==
    {"", "ok", "partial", "denied", "halted", "error", "transport_error", "response_too_large"}

ConnectionRow ==
    [host : Hosts, scheme : {"http", "https"}, address : Addresses, key : BOOLEAN]

OpRow ==
    [pc : Places, req : RequestType \cup {Nothing}, host : Hosts \cup {Nothing},
     scheme : {"http", "https"}, hops : Nat, answer : SUBSET Addresses,
     address : Addresses \cup {Nothing}, conn : ConnectionRow \cup {Nothing}, body : Nat,
     todo : SUBSET Ports, handshakes : Nat, result : Results, after : Nat]

Running(r) == r.pc \notin {"idle", "done"}
Own(r) == r.req.class = "https_verification"
StoppedRow(r) == IF Own(r) THEN ~challenge \/ emergency ELSE halted

InScope(req, host) ==
    \/ host \in {req.canonical, req.host}
    \/ req.class \in {"rdap_query", "ct_query"}
    \/ req.class = "http_surface" /\ <<host, req.canonical>> \in Below

\* Where a redirect has led is where the request may lead, and no less secure.
HostInv(r) ==
    Running(r) =>
        /\ r.req \in RequestType /\ r.host \in Hosts
        /\ r.hops <= MaxRedirects
        /\ InScope(r.req, r.host)
        /\ r.req.key => r.req.scheme = "https"
        /\ r.req.scheme = "https" => r.scheme = "https"

\* An operation is at a place of its kind.
PlaceInv(r) ==
    /\ r.pc \in HttpPlaces => r.req.class \in HttpClasses
    /\ r.pc \in TlsPlaces => r.req.class = "tls_inspection"
    /\ r.pc \in PortPlaces => r.req.class = "port_probe"
    /\ r.pc = "conversation" => r.req.class = "smtp_starttls"
    /\ r.handshakes <= Protocols
    /\ r.pc # "probing" => r.handshakes = 0

\* Past the lookup there is an address of an answer that is public throughout,
\* and a connection is one to it.
PinInv(r) ==
    /\ Running(r) /\ r.pc \notin Lookups => r.answer \subseteq Public /\ r.address \in r.answer
    /\ r.conn # Nothing =>
          /\ Running(r) /\ r.pc \notin Lookups
          /\ r.conn.host = r.host /\ r.conn.scheme = r.scheme /\ r.conn.address = r.address
          /\ r.conn.key => r.req.key /\ r.host = r.req.host

\* Past its first checkpoint an operation is of a class that the mode allows.
ModeInv(r) ==
    Running(r) /\ r.pc # "pin" /\ ~Own(r) => r.req.class \in AllowedClasses(mode)

\* What an operation has sent and received since it was told to stop.  It was
\* told between two checkpoints, and goes no further than the second.
SpentInv(r) ==
    /\ r.pc \in Lookups \cup {"pinned", "body", "response", "probe_port"} => r.after = 0
    /\ r.pc \in {"headers", "chunk", "second", "inconclusive", "next_port", "conversation"} => r.after <= 1
    /\ r.pc = "inspected" => r.after <= 2
    /\ r.pc = "probing" => r.after <= r.handshakes

\* An emergency control may be lifted; what was counted under it stays.
AfterInv(r) ==
    Running(r) =>
        /\ StoppedRow(r) => SpentInv(r)
        /\ ~StoppedRow(r) => r.after <= IF Own(r) THEN 1 ELSE 0

RowInv(r) == HostInv(r) /\ PlaceInv(r) /\ PinInv(r) /\ ModeInv(r) /\ AfterInv(r)

GateInv ==
    /\ op \in [Ops -> OpRow]
    /\ mode \in {"passive_observation", "authorized_assessment"}
    /\ {halted, emergency, challenge} \subseteq BOOLEAN
    /\ \A o \in Ops : RowInv(op[o])

\* A permit is with the broker or with an operation, or lost.
Holders == {o \in Ops : Active(o) /\ ~OwnBroker(o)}

PermitInv ==
    /\ IsFiniteSet(Holders) /\ free \in Nat
    /\ free + Cardinality(Holders) <= MaxConcurrency


\* What most steps leave of an operation.
SameRequest(r, t) ==
    /\ r.req = t.req /\ r.host = t.host /\ r.scheme = t.scheme /\ r.hops = t.hops
SameLink(r, t) == r.answer = t.answer /\ r.address = t.address /\ r.conn = t.conn

--------------------------------------------------------------------------------
LEMMA RowsTyped ==
    ASSUME GateInv, NEW o \in Ops
    PROVE  op[o] \in OpRow /\ RowInv(op[o])
BY DEF GateInv

\* What the policy of an operation answers when the operation was told to stop.
LEMMA StoppedIsDenied ==
    ASSUME NEW o \in Ops
    PROVE  /\ Stopped(o) <=> StoppedRow(op[o])
           /\ Stopped(o) => Denied(o)
           /\ ~Denied(o) /\ ~Own(op[o]) => op[o].req.class \in AllowedClasses(mode)
BY DEF Stopped, StoppedRow, Own, OwnBroker, Class, Denied

\* One operation moves, and nothing else.
LEMMA OperationMoves ==
    ASSUME GateInv, NEW o \in Ops, NEW row \in OpRow, RowInv(row),
           op' = [op EXCEPT ![o] = row], UNCHANGED <<mode, halted, emergency, challenge>>
    PROVE  GateInv'
<1>1. op \in [Ops -> OpRow]
    BY DEF GateInv
<1>2. \A u \in Ops : op'[u] = IF u = o THEN row ELSE op[u]
    BY <1>1
<1>3. op' \in [Ops -> OpRow]
    BY <1>1
<1>4. ASSUME NEW r, RowInv(r)
      PROVE  RowInv(r)'
    BY <1>4 DEF RowInv, HostInv, PlaceInv, PinInv, ModeInv, AfterInv, StoppedRow
<1>5. \A u \in Ops : RowInv(op[u])'
    BY <1>2, <1>4 DEF GateInv, RowInv, HostInv, PlaceInv, PinInv, ModeInv, AfterInv, StoppedRow
<1> QED
    BY <1>3, <1>5 DEF GateInv

LEMMA IdleTyped ==
    /\ Idle \in OpRow /\ Idle.pc = "idle" /\ Idle.conn = Nothing /\ Idle.handshakes = 0
<1>1. "idle" \in Places /\ "" \in Results
    BY DEF Places, Results
<1> HIDE DEF Places, Results
<1> QED
    BY <1>1 DEF Idle, OpRow

LEMMA EndedTyped ==
    ASSUME GateInv, NEW o \in Ops, NEW result \in Results
    PROVE  /\ Ended(o, result) \in OpRow /\ Ended(o, result).pc = "done"
           /\ RowInv(Ended(o, result))
<1>1. op[o].req \in RequestType \cup {Nothing}
    BY RowsTyped DEF OpRow
<1>2. /\ Ended(o, result) \in OpRow /\ Ended(o, result).pc = "done"
      /\ Ended(o, result).conn = Nothing /\ Ended(o, result).handshakes = 0
    BY <1>1, IdleTyped DEF Ended, OpRow, Places
<1> QED
    BY <1>2, BrokerAssumption
       DEF RowInv, HostInv, PlaceInv, PinInv, ModeInv, AfterInv, Running, HttpPlaces, TlsPlaces,
           PortPlaces

LEMMA OperationEnds ==
    ASSUME GateInv, NEW o \in Ops, NEW result \in Results, op' = [op EXCEPT ![o] = Ended(o, result)],
           UNCHANGED <<mode, halted, emergency, challenge>>
    PROVE  GateInv'
BY EndedTyped, OperationMoves

\* A connection that is made to the pinned address, within what was cleared.
LEMMA ContactKeepsGate ==
    ASSUME GateInv, NEW o \in Ops, NEW pc \in Places \ {"probing"}, NEW key \in BOOLEAN,
           Contact(o, pc, key), UNCHANGED <<mode, halted, emergency, challenge>>,
           Running(op[o]), op[o].pc \notin Lookups, op[o].handshakes = 0,
           pc \notin Lookups \cup {"idle", "done", "pinned", "body", "response", "probe_port"},
           pc \in HttpPlaces => op[o].req.class \in HttpClasses,
           pc \in TlsPlaces => op[o].req.class = "tls_inspection",
           pc \in PortPlaces => op[o].req.class = "port_probe",
           pc = "conversation" => op[o].req.class = "smtp_starttls",
           key => op[o].req.key /\ op[o].host = op[o].req.host,
           Stopped(o) => op[o].after <= IF pc = "inspected" THEN 1 ELSE 0
    PROVE  GateInv'
<1> DEFINE link == Connection(o, key)
           count == Counted(o)
           row == [op[o] EXCEPT !.pc = pc, !.conn = link, !.after = count]
<1>1. op[o] \in OpRow /\ RowInv(op[o])
    BY RowsTyped
<1>2. /\ op[o].host \in Hosts /\ op[o].address \in Addresses
      /\ op[o].answer \subseteq Public /\ op[o].address \in op[o].answer
    BY <1>1, BrokerAssumption DEF RowInv, HostInv, PinInv, OpRow
<1>3. /\ link \in ConnectionRow /\ link.host = op[o].host /\ link.scheme = op[o].scheme
      /\ link.address = op[o].address /\ link.key = key
    BY <1>1, <1>2 DEF Connection, ConnectionRow, OpRow
<1>4. count \in Nat /\ count = IF Stopped(o) THEN op[o].after + 1 ELSE op[o].after
    BY <1>1 DEF Counted, OpRow
<1> HIDE DEF link, count
<1>5. /\ row \in OpRow /\ SameRequest(row, op[o]) /\ row.pc = pc /\ row.conn = link
      /\ row.after = count /\ row.answer = op[o].answer /\ row.address = op[o].address
      /\ row.handshakes = 0
    BY <1>1, <1>3, <1>4 DEF OpRow, SameRequest
<1>6. op' = [op EXCEPT ![o] = row]
    BY DEF Contact, Advance, link, count
<1> HIDE DEF row
<1>7. HostInv(row) /\ ModeInv(row)
    BY <1>1, <1>5 DEF RowInv, HostInv, ModeInv, SameRequest, Running, Own, Lookups
<1>8. PlaceInv(row) /\ PinInv(row)
    BY <1>2, <1>3, <1>5, BrokerAssumption DEF PlaceInv, PinInv, SameRequest, Running
<1>9. AfterInv(row)
    <2>1. StoppedRow(row) = StoppedRow(op[o]) /\ Own(row) = Own(op[o])
        BY <1>5 DEF StoppedRow, Own, SameRequest
    <2>2. ~Stopped(o) => op[o].after <= IF Own(op[o]) THEN 1 ELSE 0
        BY <1>1, StoppedIsDenied DEF RowInv, AfterInv
    <2>3. ASSUME StoppedRow(row)
          PROVE  SpentInv(row)
        <3>1. op[o].after \in Nat
            BY <1>1 DEF OpRow
        <3>2. row.after = op[o].after + 1 /\ op[o].after <= IF pc = "inspected" THEN 1 ELSE 0
            BY <1>4, <1>5, <2>1, <2>3, StoppedIsDenied
        <3>3. row.after <= IF pc = "inspected" THEN 2 ELSE 1
            BY <3>1, <3>2
        <3> QED
            BY <1>5, <3>3 DEF SpentInv, Lookups
    <2> QED
        BY <1>4, <1>5, <2>1, <2>2, <2>3, StoppedIsDenied DEF AfterInv
<1> QED
    BY <1>5, <1>6, <1>7, <1>8, <1>9, OperationMoves DEF RowInv


\* A step between two places past the lookup that sends and receives nothing.
LEMMA PlaceMoves ==
    ASSUME GateInv, NEW o \in Ops, NEW row \in OpRow,
           SameRequest(row, op[o]), row.answer = op[o].answer, row.address = op[o].address,
           row.conn \in {op[o].conn, Nothing}, row.after = op[o].after, row.handshakes = 0,
           Running(op[o]), op[o].pc \notin Lookups, row.pc \notin Lookups, Running(row),
           row.pc \in HttpPlaces => op[o].req.class \in HttpClasses,
           row.pc \in TlsPlaces => op[o].req.class = "tls_inspection",
           row.pc \in PortPlaces => op[o].req.class = "port_probe",
           row.pc = "conversation" => op[o].req.class = "smtp_starttls",
           Stopped(o) => SpentInv(row),
           op' = [op EXCEPT ![o] = row], UNCHANGED <<mode, halted, emergency, challenge>>
    PROVE  GateInv'
<1>1. op[o] \in OpRow /\ RowInv(op[o])
    BY RowsTyped
<1>2. HostInv(row) /\ ModeInv(row)
    BY <1>1 DEF RowInv, HostInv, ModeInv, SameRequest, Running, Own, Lookups
<1>3. PlaceInv(row) /\ PinInv(row)
    BY <1>1, BrokerAssumption DEF RowInv, PlaceInv, PinInv, SameRequest, Running
<1>4. AfterInv(row)
    BY <1>1, StoppedIsDenied DEF RowInv, AfterInv, SameRequest, StoppedRow, Own
<1> QED
    BY <1>2, <1>3, <1>4, OperationMoves DEF RowInv

--------------------------------------------------------------------------------
\* The request is one of those the operation may be asked for.
LEMMA BeginKeepsGate ==
    ASSUME GateInv, NEW o \in Ops, Begin(o)
    PROVE  GateInv'
<1>1. PICK r \in Requests[o] :
        \/ op' = [op EXCEPT ![o] = [Idle EXCEPT !.pc = "pin", !.req = r, !.host = r.host, !.scheme = r.scheme,
                                  !.todo = IF r.class = "port_probe" THEN Ports ELSE {}]]
        \/ op' = [op EXCEPT ![o] = [Idle EXCEPT !.pc = "done", !.req = r, !.result = "error"]]
    BY DEF Begin
<1>2. r \in RequestType /\ (r.key => r.scheme = "https")
    BY BrokerAssumption
<1>3. /\ r.host \in Hosts /\ r.scheme \in {"http", "https"}
      /\ Idle \in OpRow /\ Idle.conn = Nothing /\ Idle.handshakes = 0 /\ Idle.hops = 0 /\ Idle.after = 0
    BY <1>2, IdleTyped DEF RequestType, Idle
<1> DEFINE todo == IF r.class = "port_probe" THEN Ports ELSE {}
           begun == [Idle EXCEPT !.pc = "pin", !.req = r, !.host = r.host, !.scheme = r.scheme,
                                 !.todo = todo]
           refused == [Idle EXCEPT !.pc = "done", !.req = r, !.result = "error"]
<1>4. todo \subseteq Ports
    OBVIOUS
<1>5. op' = [op EXCEPT ![o] = begun] \/ op' = [op EXCEPT ![o] = refused]
    BY <1>1
<1>6. UNCHANGED <<mode, halted, emergency, challenge>>
    BY DEF Begin
<1> HIDE DEF todo
<1>7. CASE op' = [op EXCEPT ![o] = begun]
    <2>1. /\ begun \in OpRow /\ begun.pc = "pin" /\ begun.req = r /\ begun.host = r.host
          /\ begun.scheme = r.scheme /\ begun.conn = Nothing /\ begun.handshakes = 0
          /\ begun.hops = 0 /\ begun.after = 0
        BY <1>2, <1>3, <1>4 DEF OpRow, Places, Lookups
    <2> HIDE DEF begun
    <2>2. HostInv(begun) /\ ModeInv(begun) /\ AfterInv(begun)
        BY <1>2, <1>3, <2>1, BrokerAssumption
           DEF HostInv, ModeInv, AfterInv, SpentInv, InScope, Running, Own, Lookups
    <2>3. PlaceInv(begun) /\ PinInv(begun)
        BY <2>1, BrokerAssumption DEF PlaceInv, PinInv, Lookups, HttpPlaces, TlsPlaces, PortPlaces
    <2> QED
        BY <1>6, <1>7, <2>1, <2>2, <2>3, OperationMoves DEF RowInv
<1>8. CASE op' = [op EXCEPT ![o] = refused]
    <2>1. /\ refused \in OpRow /\ refused.pc = "done" /\ refused.conn = Nothing
          /\ refused.handshakes = 0
        BY <1>2, <1>3 DEF OpRow, Places, Results
    <2> HIDE DEF refused
    <2>2. RowInv(refused)
        BY <2>1, BrokerAssumption
           DEF RowInv, HostInv, PlaceInv, PinInv, ModeInv, AfterInv, Running, HttpPlaces, TlsPlaces,
               PortPlaces
    <2> QED
        BY <1>6, <1>8, <2>1, <2>2, OperationMoves
<1> QED
    BY <1>5, <1>7, <1>8

\* The name is resolved for an operation that the policy has let begin.
LEMMA ResolveKeepsGate ==
    ASSUME GateInv, NEW o \in Ops, Resolve(o), UNCHANGED <<mode, halted, emergency, challenge>>
    PROVE  GateInv'
<1>1. CASE Denied(o)
    BY <1>1, OperationEnds DEF Resolve, Finish, Results
<1>2. CASE ~Denied(o)
    <2>1. PICK answer \in SUBSET Addresses :
             op' = [op EXCEPT ![o] = [op[o] EXCEPT !.pc = "resolved", !.answer = answer]]
        BY <1>2 DEF Resolve, Advance
    <2> DEFINE row == [op[o] EXCEPT !.pc = "resolved", !.answer = answer]
    <2>2. op[o] \in OpRow /\ RowInv(op[o]) /\ op[o].pc = "pin"
        BY RowsTyped DEF Resolve
    <2>3. /\ row \in OpRow /\ SameRequest(row, op[o]) /\ row.pc = "resolved"
          /\ row.conn = op[o].conn /\ row.after = op[o].after /\ row.handshakes = op[o].handshakes
        BY <2>2 DEF OpRow, SameRequest, Places, Lookups
    <2> HIDE DEF row
    <2>4. HostInv(row) /\ ModeInv(row)
        BY <1>2, <2>2, <2>3, StoppedIsDenied DEF RowInv, HostInv, ModeInv, SameRequest, Running, Own
    <2>5. PlaceInv(row) /\ PinInv(row)
        BY <2>2, <2>3 DEF RowInv, PlaceInv, PinInv, Running, Lookups, HttpPlaces, TlsPlaces, PortPlaces
    <2>6. AfterInv(row)
        BY <1>2, <2>2, <2>3, StoppedIsDenied
           DEF RowInv, AfterInv, SameRequest, StoppedRow, Own, Running
    <2> QED
        BY <2>1, <2>3, <2>4, <2>5, <2>6, OperationMoves DEF RowInv, row
<1> QED
    BY <1>1, <1>2

\* The answer is taken as a whole or not at all.
LEMMA PinKeepsGate ==
    ASSUME GateInv, NEW o \in Ops, Pin(o), UNCHANGED <<mode, halted, emergency, challenge>>
    PROVE  GateInv'
<1>1. CASE \E result \in Results : op' = [op EXCEPT ![o] = Ended(o, result)]
    BY <1>1, OperationEnds
<1>2. CASE \E a \in op[o].answer :
             Authorized(op[o].answer) /\ ~Denied(o) /\ Advance(o, [op[o] EXCEPT !.pc = "pinned", !.address = a])
    <2>1. PICK a \in op[o].answer :
             /\ Authorized(op[o].answer) /\ ~Denied(o)
             /\ op' = [op EXCEPT ![o] = [op[o] EXCEPT !.pc = "pinned", !.address = a]]
        BY <1>2 DEF Advance
    <2> DEFINE row == [op[o] EXCEPT !.pc = "pinned", !.address = a]
    <2>2. op[o] \in OpRow /\ RowInv(op[o]) /\ op[o].pc = "resolved"
        BY RowsTyped DEF Pin
    <2>3. /\ row \in OpRow /\ SameRequest(row, op[o]) /\ row.pc = "pinned"
          /\ row.conn = op[o].conn /\ row.after = op[o].after /\ row.handshakes = op[o].handshakes
          /\ row.answer = op[o].answer /\ row.address = a
        BY <2>2 DEF OpRow, SameRequest, Places
    <2> HIDE DEF row
    <2>4. HostInv(row) /\ ModeInv(row)
        BY <2>1, <2>2, <2>3, StoppedIsDenied DEF RowInv, HostInv, ModeInv, SameRequest, Running, Own
    <2>5. PlaceInv(row) /\ PinInv(row)
        BY <2>1, <2>2, <2>3
           DEF RowInv, PlaceInv, PinInv, Running, Lookups, HttpPlaces, TlsPlaces, PortPlaces, Authorized
    <2>6. AfterInv(row)
        BY <2>1, <2>2, <2>3, StoppedIsDenied
           DEF RowInv, AfterInv, SameRequest, StoppedRow, Own, Running
    <2> QED
        BY <2>1, <2>3, <2>4, <2>5, <2>6, OperationMoves DEF RowInv, row
<1> QED
    BY <1>1, <1>2 DEF Pin, Finish, Abandon, Results


\* Nothing was sent before the first connection; the key goes to its host only.
LEMMA ConnectKeepsGate ==
    ASSUME GateInv, NEW o \in Ops, Connect(o), UNCHANGED <<mode, halted, emergency, challenge>>
    PROVE  GateInv'
<1>1. /\ op[o] \in OpRow /\ RowInv(op[o]) /\ op[o].pc = "pinned"
      /\ op[o].req.class \in HttpClasses /\ Contact(o, "headers", SendsKey(o))
    BY RowsTyped DEF Connect, Class
<1>2. Running(op[o]) /\ op[o].pc \notin Lookups /\ op[o].handshakes = 0 /\ op[o].req \in RequestType
    BY <1>1 DEF Running, Lookups, RowInv, PlaceInv, HostInv
<1>3. SendsKey(o) \in BOOLEAN /\ (SendsKey(o) => op[o].req.key /\ op[o].host = op[o].req.host)
    BY <1>2 DEF SendsKey, RequestType
<1>4. Stopped(o) => op[o].after <= 0
    BY <1>1, <1>2, StoppedIsDenied DEF RowInv, AfterInv, SpentInv
<1>5. "headers" \in HttpPlaces /\ "headers" \in Places \ {"probing"} /\ "headers" \notin TlsPlaces \cup PortPlaces
    BY DEF HttpPlaces, TlsPlaces, PortPlaces, Places
<1>6. "headers" \notin Lookups \cup {"idle", "done", "pinned", "body", "response", "probe_port"}
    BY DEF Lookups
<1> QED
    BY <1>1, <1>2, <1>3, <1>4, <1>5, <1>6, ContactKeepsGate

\* What is told to stop gets no further than the checkpoint after the headers.
LEMMA ReadHeadersKeepsGate ==
    ASSUME GateInv, NEW o \in Ops, ReadHeaders(o), UNCHANGED <<mode, halted, emergency, challenge>>
    PROVE  GateInv'
<1>1. CASE \E result \in Results : op' = [op EXCEPT ![o] = Ended(o, result)]
    BY <1>1, OperationEnds
<1>2. CASE ~Denied(o) /\ \E pc \in {"body", "response"} : Advance(o, [op[o] EXCEPT !.pc = pc])
    <2>1. PICK pc \in {"body", "response"} : op' = [op EXCEPT ![o] = [op[o] EXCEPT !.pc = pc]]
        BY <1>2 DEF Advance
    <2> DEFINE row == [op[o] EXCEPT !.pc = pc]
    <2>2. op[o] \in OpRow /\ RowInv(op[o]) /\ op[o].pc = "headers"
        BY RowsTyped DEF ReadHeaders
    <2>3. op[o].req.class \in HttpClasses /\ op[o].handshakes = 0
        BY <2>2 DEF RowInv, PlaceInv, HttpPlaces
    <2>4. /\ row \in OpRow /\ SameRequest(row, op[o]) /\ SameLink(row, op[o]) /\ row.pc = pc
          /\ row.after = op[o].after /\ row.handshakes = 0
        BY <2>2, <2>3 DEF OpRow, SameRequest, SameLink, Places, HttpPlaces
    <2>5. op' = [op EXCEPT ![o] = row]
        BY <2>1
    <2> HIDE DEF row
    <2> QED
        BY <1>2, <2>2, <2>3, <2>4, <2>5, StoppedIsDenied, PlaceMoves
           DEF SameLink, Running, Lookups, TlsPlaces, PortPlaces
<1> QED
    BY <1>1, <1>2 DEF ReadHeaders, Finish, Results

\* A piece of the body is read at a place where nothing was counted yet.
LEMMA ReadBodyKeepsGate ==
    ASSUME GateInv, NEW o \in Ops, ReadBody(o), UNCHANGED <<mode, halted, emergency, challenge>>
    PROVE  GateInv'
<1>1. /\ op[o] \in OpRow /\ RowInv(op[o]) /\ op[o].pc = "body"
      /\ op[o].req.class \in HttpClasses /\ op[o].handshakes = 0
    BY RowsTyped DEF ReadBody, RowInv, PlaceInv, HttpPlaces
<1>2. Running(op[o]) /\ op[o].pc \notin Lookups /\ (Stopped(o) => op[o].after = 0)
    BY <1>1, StoppedIsDenied DEF Running, Lookups, RowInv, AfterInv, SpentInv
<1>3. CASE \E result \in Results : op' = [op EXCEPT ![o] = Ended(o, result)]
    BY <1>3, OperationEnds
<1>4. CASE Advance(o, [op[o] EXCEPT !.pc = "response"])
    <2> DEFINE row == [op[o] EXCEPT !.pc = "response"]
    <2>1. /\ row \in OpRow /\ SameRequest(row, op[o]) /\ SameLink(row, op[o]) /\ row.pc = "response"
          /\ row.after = op[o].after /\ row.handshakes = 0
        BY <1>1 DEF OpRow, SameRequest, SameLink, Places, HttpPlaces
    <2>2. op' = [op EXCEPT ![o] = row]
        BY <1>4 DEF Advance
    <2> HIDE DEF row
    <2>3. Stopped(o) => SpentInv(row)
        BY <1>2, <2>1 DEF SpentInv
    <2> QED
        BY <1>1, <1>2, <2>1, <2>2, <2>3, PlaceMoves DEF SameLink, Running, Lookups, TlsPlaces, PortPlaces
<1>5. CASE Advance(o, [op[o] EXCEPT !.pc = "chunk", !.body = @ + 1, !.after = Counted(o)])
    <2> DEFINE count == Counted(o)
               size == op[o].body + 1
               row == [op[o] EXCEPT !.pc = "chunk", !.body = size, !.after = count]
    <2>1. count \in Nat /\ (count = IF Stopped(o) THEN op[o].after + 1 ELSE op[o].after) /\ size \in Nat
        BY <1>1 DEF Counted, OpRow
    <2>2. op' = [op EXCEPT ![o] = row]
        BY <1>5 DEF Advance
    <2> HIDE DEF count, size
    <2>3. /\ row \in OpRow /\ SameRequest(row, op[o]) /\ SameLink(row, op[o]) /\ row.pc = "chunk"
          /\ row.after = count /\ row.handshakes = 0
        BY <1>1, <2>1 DEF OpRow, SameRequest, SameLink, Places, HttpPlaces
    <2> HIDE DEF row
    <2>4. HostInv(row) /\ ModeInv(row)
        BY <1>1, <2>3 DEF RowInv, HostInv, ModeInv, SameRequest, Running, Own
    <2>5. PlaceInv(row) /\ PinInv(row)
        BY <1>1, <1>2, <2>3, BrokerAssumption
           DEF RowInv, PlaceInv, PinInv, SameRequest, SameLink, Running, Lookups, TlsPlaces, PortPlaces
    <2>6. Stopped(o) => SpentInv(row)
        BY <1>2, <2>1, <2>3 DEF SpentInv, Lookups
    <2>7. AfterInv(row)
        BY <1>1, <1>2, <2>1, <2>3, <2>6, StoppedIsDenied
           DEF RowInv, AfterInv, SameRequest, StoppedRow, Own
    <2> QED
        BY <2>2, <2>3, <2>4, <2>5, <2>7, OperationMoves DEF RowInv
<1> QED
    BY <1>3, <1>4, <1>5 DEF ReadBody, Finish, Results

LEMMA ChunkCheckpointKeepsGate ==
    ASSUME GateInv, NEW o \in Ops, ChunkCheckpoint(o), UNCHANGED <<mode, halted, emergency, challenge>>
    PROVE  GateInv'
<1>1. CASE Denied(o)
    BY <1>1, OperationEnds DEF ChunkCheckpoint, Finish, Results
<1>2. CASE ~Denied(o)
    <2> DEFINE row == [op[o] EXCEPT !.pc = "body"]
    <2>1. op' = [op EXCEPT ![o] = row]
        BY <1>2 DEF ChunkCheckpoint, Advance
    <2>2. op[o] \in OpRow /\ RowInv(op[o]) /\ op[o].pc = "chunk"
        BY RowsTyped DEF ChunkCheckpoint
    <2>3. op[o].req.class \in HttpClasses /\ op[o].handshakes = 0
        BY <2>2 DEF RowInv, PlaceInv, HttpPlaces
    <2>4. /\ row \in OpRow /\ SameRequest(row, op[o]) /\ SameLink(row, op[o]) /\ row.pc = "body"
          /\ row.after = op[o].after /\ row.handshakes = 0
        BY <2>2, <2>3 DEF OpRow, SameRequest, SameLink, Places, HttpPlaces
    <2> HIDE DEF row
    <2> QED
        BY <1>2, <2>1, <2>2, <2>3, <2>4, StoppedIsDenied, PlaceMoves
           DEF SameLink, Running, Lookups, TlsPlaces, PortPlaces
<1> QED
    BY <1>1, <1>2

LEMMA RedirectedTyped ==
    ASSUME NEW r \in OpRow, NEW host \in Hosts, NEW scheme \in {"http", "https"}
    PROVE  LET row == Redirected(r, host, scheme)
           IN  /\ row \in OpRow /\ row.pc = "pin" /\ row.req = r.req /\ row.host = host
               /\ row.scheme = scheme /\ row.hops = r.hops + 1 /\ row.conn = Nothing
               /\ row.after = r.after /\ row.handshakes = r.handshakes
<1>1. "pin" \in Places /\ r.hops + 1 \in Nat
    BY DEF OpRow, Places, Lookups
<1> DEFINE row == Redirected(r, host, scheme)
<1>2. row \in OpRow
    BY <1>1 DEF Redirected, OpRow
<1>3. /\ row.pc = "pin" /\ row.host = host /\ row.scheme = scheme
      /\ row.hops = r.hops + 1 /\ row.conn = Nothing
    BY <1>1 DEF Redirected, OpRow
<1>4. row.req = r.req /\ row.after = r.after /\ row.handshakes = r.handshakes
    BY DEF Redirected, OpRow
<1> QED
    BY <1>2, <1>3, <1>4

\* A redirect is followed within the scope of the request, never to less security.
LEMMA RespondKeepsGate ==
    ASSUME GateInv, NEW o \in Ops, Respond(o), UNCHANGED <<mode, halted, emergency, challenge>>
    PROVE  GateInv'
<1>1. CASE \E result \in Results : op' = [op EXCEPT ![o] = Ended(o, result)]
    BY <1>1, OperationEnds
<1>2. CASE \E host \in Hosts, scheme \in {"http", "https"} :
             /\ op[o].hops < MaxRedirects /\ ~Denied(o) /\ RedirectAuthorized(o, host, scheme)
             /\ op' = [op EXCEPT ![o] = Redirected(op[o], host, scheme)]
    <2>1. PICK host \in Hosts, scheme \in {"http", "https"} :
             /\ op[o].hops < MaxRedirects /\ ~Denied(o) /\ RedirectAuthorized(o, host, scheme)
             /\ op' = [op EXCEPT ![o] = Redirected(op[o], host, scheme)]
        BY <1>2
    <2> DEFINE row == Redirected(op[o], host, scheme)
    <2>2. /\ op[o] \in OpRow /\ RowInv(op[o]) /\ op[o].pc = "response" /\ Running(op[o])
          /\ op[o].handshakes = 0
        BY RowsTyped DEF Respond, Running, RowInv, PlaceInv
    <2>3. op' = [op EXCEPT ![o] = row]
        BY <2>1
    <2>4. /\ row \in OpRow /\ row.pc = "pin" /\ row.req = op[o].req /\ row.host = host
          /\ row.scheme = scheme /\ row.hops = op[o].hops + 1 /\ row.conn = Nothing
          /\ row.after = op[o].after /\ row.handshakes = 0
        BY <2>2, RedirectedTyped
    <2> HIDE DEF row
    <2>5. InScope(op[o].req, host) /\ (op[o].scheme = "https" => scheme = "https")
        BY <2>1 DEF RedirectAuthorized, RedirectTargetPermitted, InScope, ProviderRedirectClasses,
                    SameSiteRedirectClasses
    <2>6. row.hops <= MaxRedirects
        BY <2>1, <2>2, <2>4, BrokerAssumption DEF OpRow
    <2>7. HostInv(row) /\ ModeInv(row)
        BY <2>2, <2>4, <2>5, <2>6 DEF RowInv, HostInv, ModeInv
    <2>8. PlaceInv(row) /\ PinInv(row)
        BY <2>4, BrokerAssumption DEF PlaceInv, PinInv, Lookups, HttpPlaces, TlsPlaces, PortPlaces
    <2>9. AfterInv(row)
        BY <2>1, <2>2, <2>4, StoppedIsDenied DEF RowInv, AfterInv, StoppedRow, Own
    <2> QED
        BY <2>3, <2>4, <2>7, <2>8, <2>9, OperationMoves DEF RowInv
<1> QED
    <2>1. op[o].hops \in Nat /\ MaxRedirects \in Nat
        BY RowsTyped, BrokerAssumption DEF OpRow
    <2> QED
        <3>1. CASE Finish(o, "ok")
            BY <1>1, <3>1 DEF Finish, Results
        <3>2. ASSUME NEW host \in Hosts, NEW scheme \in {"http", "https"},
                     Finish(o, "denied") \/
                        /\ op[o].hops < MaxRedirects /\ ~Denied(o) /\ RedirectAuthorized(o, host, scheme)
                        /\ Advance(o, Redirected(op[o], host, scheme))
              PROVE  GateInv'
            BY <1>1, <1>2, <3>2 DEF Finish, Advance, Results
        <3> QED
            BY <2>1, <3>1, <3>2 DEF Respond


--------------------------------------------------------------------------------
\* Two handshakes at most go out on one clearance.
LEMMA HandshakesKeepGate ==
    ASSUME GateInv, NEW o \in Ops, InspectCertificate(o) \/ HandshakeUnverified(o),
           UNCHANGED <<mode, halted, emergency, challenge>>
    PROVE  GateInv'
<1>1. op[o] \in OpRow /\ RowInv(op[o]) /\ op[o].pc \in {"pinned", "second"}
    BY RowsTyped DEF InspectCertificate, HandshakeUnverified
<1>2. /\ Running(op[o]) /\ op[o].pc \notin Lookups /\ op[o].handshakes = 0
      /\ op[o].req.class = "tls_inspection"
    BY <1>1 DEF InspectCertificate, Class, Running, Lookups, RowInv, PlaceInv, TlsPlaces, HandshakeUnverified
<1>3. PICK pc \in {"second", "inspected", "inconclusive"} :
         Contact(o, pc, FALSE) /\ (op[o].pc = "second" => pc = "inspected")
    BY DEF InspectCertificate, HandshakeUnverified
<1>4. Stopped(o) => op[o].after <= IF pc = "inspected" THEN 1 ELSE 0
    <2>1. Stopped(o) => SpentInv(op[o])
        BY <1>1, <1>2, StoppedIsDenied DEF RowInv, AfterInv
    <2>2. op[o].after \in Nat
        BY <1>1 DEF OpRow
    <2> QED
        BY <1>1, <1>3, <2>1, <2>2 DEF SpentInv
<1>5. /\ pc \in Places \ {"probing"} /\ pc \in TlsPlaces /\ pc \notin HttpPlaces \cup PortPlaces
      /\ pc \notin Lookups \cup {"idle", "done", "pinned", "body", "response", "probe_port"}
      /\ pc # "conversation"
    BY <1>3 DEF Places, TlsPlaces, HttpPlaces, PortPlaces, Lookups
<1> QED
    BY <1>2, <1>3, <1>4, <1>5, ContactKeepsGate

\* The versions are cleared together, by an operation that nobody has stopped.
LEMMA AuthorizeProbesKeepsGate ==
    ASSUME GateInv, NEW o \in Ops, AuthorizeProbes(o), UNCHANGED <<mode, halted, emergency, challenge>>
    PROVE  GateInv'
<1>1. CASE \E result \in Results : op' = [op EXCEPT ![o] = Ended(o, result)]
    BY <1>1, OperationEnds
<1>2. CASE /\ op[o].pc = "inspected" /\ ~Denied(o)
           /\ Advance(o, [op[o] EXCEPT !.pc = "probing", !.conn = Nothing])
    <2> DEFINE row == [op[o] EXCEPT !.pc = "probing", !.conn = Nothing]
    <2>1. op' = [op EXCEPT ![o] = row]
        BY <1>2 DEF Advance
    <2>2. op[o] \in OpRow /\ RowInv(op[o])
        BY RowsTyped
    <2>3. op[o].req.class = "tls_inspection" /\ op[o].handshakes = 0
        BY <1>2, <2>2 DEF RowInv, PlaceInv, TlsPlaces
    <2>4. /\ row \in OpRow /\ SameRequest(row, op[o]) /\ row.pc = "probing" /\ row.conn = Nothing
          /\ row.answer = op[o].answer /\ row.address = op[o].address
          /\ row.after = op[o].after /\ row.handshakes = 0
        BY <2>2, <2>3 DEF OpRow, SameRequest, Places, TlsPlaces
    <2> HIDE DEF row
    <2> QED
        BY <1>2, <2>1, <2>2, <2>3, <2>4, StoppedIsDenied, PlaceMoves
           DEF Running, Lookups, HttpPlaces, PortPlaces
<1> QED
    BY <1>1, <1>2 DEF AuthorizeProbes, Finish, Abandon, Results

\* Every handshake counts, and there are no more than versions.
LEMMA ProbeProtocolsKeepsGate ==
    ASSUME GateInv, NEW o \in Ops, ProbeProtocols(o), UNCHANGED <<mode, halted, emergency, challenge>>
    PROVE  GateInv'
<1>1. CASE op[o].handshakes = Protocols
    BY <1>1, OperationEnds DEF ProbeProtocols, Finish, Results
<1>2. CASE op[o].handshakes # Protocols
    <2> DEFINE count == Counted(o)
               link == Connection(o, FALSE)
               next == op[o].handshakes + 1
               row == [op[o] EXCEPT !.handshakes = next, !.conn = link, !.after = count]
    <2>1. op' = [op EXCEPT ![o] = row]
        BY <1>2 DEF ProbeProtocols, Advance
    <2>2. op[o] \in OpRow /\ RowInv(op[o]) /\ op[o].pc = "probing"
        BY RowsTyped DEF ProbeProtocols
    <2>3. /\ count \in Nat /\ next \in Nat /\ next <= Protocols
          /\ count = IF Stopped(o) THEN op[o].after + 1 ELSE op[o].after
        BY <1>2, <2>2, BrokerAssumption DEF Counted, OpRow, RowInv, PlaceInv
    <2>4. op[o].host \in Hosts /\ op[o].address \in Addresses
        BY <2>2, BrokerAssumption DEF RowInv, HostInv, PinInv, Running, Lookups, OpRow
    <2>5. /\ link \in ConnectionRow /\ link.host = op[o].host /\ link.scheme = op[o].scheme
          /\ link.address = op[o].address /\ ~link.key
        BY <2>2, <2>4 DEF Connection, ConnectionRow, OpRow
    <2> HIDE DEF count, link
    <2>6. op[o].handshakes \in Nat /\ op[o].after \in Nat /\ next = op[o].handshakes + 1
        BY <2>2 DEF OpRow
    <2> HIDE DEF next
    <2>7. /\ row \in OpRow /\ SameRequest(row, op[o]) /\ row.pc = "probing" /\ row.conn = link
          /\ row.answer = op[o].answer /\ row.address = op[o].address
          /\ row.after = count /\ row.handshakes = next
        BY <2>2, <2>3, <2>5 DEF OpRow, SameRequest
    <2> HIDE DEF row
    <2>8. HostInv(row) /\ ModeInv(row)
        BY <2>2, <2>7 DEF RowInv, HostInv, ModeInv, SameRequest, Running, Own
    <2>9. PlaceInv(row) /\ PinInv(row)
        BY <2>2, <2>3, <2>5, <2>7
           DEF RowInv, PlaceInv, PinInv, SameRequest, Running, Lookups, HttpPlaces, PortPlaces
    <2>10. Stopped(o) => SpentInv(row)
        <3>1. Stopped(o) => op[o].after <= op[o].handshakes
            BY <2>2, StoppedIsDenied DEF RowInv, AfterInv, SpentInv, Running
        <3>2. Stopped(o) => row.after <= row.handshakes
            BY <2>3, <2>6, <2>7, <3>1
        <3> QED
            BY <2>7, <3>2 DEF SpentInv, Lookups
    <2>11. AfterInv(row)
        BY <2>2, <2>3, <2>7, <2>10, StoppedIsDenied
           DEF RowInv, AfterInv, SameRequest, StoppedRow, Own, Running
    <2> QED
        BY <2>1, <2>7, <2>8, <2>9, <2>11, OperationMoves DEF RowInv
<1> QED
    BY <1>1, <1>2

--------------------------------------------------------------------------------
\* A port that nobody has stopped the probing of is probed once.
LEMMA AuthorizePortKeepsGate ==
    ASSUME GateInv, NEW o \in Ops, AuthorizePort(o), UNCHANGED <<mode, halted, emergency, challenge>>
    PROVE  GateInv'
<1>1. CASE \E result \in Results : op' = [op EXCEPT ![o] = Ended(o, result)]
    BY <1>1, OperationEnds
<1>2. CASE ~Denied(o) /\ Advance(o, [op[o] EXCEPT !.pc = "probe_port", !.conn = Nothing])
    <2> DEFINE row == [op[o] EXCEPT !.pc = "probe_port", !.conn = Nothing]
    <2>1. op' = [op EXCEPT ![o] = row]
        BY <1>2 DEF Advance
    <2>2. /\ op[o] \in OpRow /\ RowInv(op[o]) /\ op[o].pc \in {"pinned", "next_port"}
          /\ op[o].req.class = "port_probe"
        BY RowsTyped DEF AuthorizePort, Class
    <2>3. op[o].handshakes = 0
        BY <2>2 DEF RowInv, PlaceInv
    <2>4. /\ row \in OpRow /\ SameRequest(row, op[o]) /\ row.pc = "probe_port" /\ row.conn = Nothing
          /\ row.answer = op[o].answer /\ row.address = op[o].address
          /\ row.after = op[o].after /\ row.handshakes = 0
        BY <2>2, <2>3 DEF OpRow, SameRequest, Places, PortPlaces
    <2> HIDE DEF row
    <2> QED
        BY <1>2, <2>1, <2>2, <2>3, <2>4, StoppedIsDenied, PlaceMoves
           DEF Running, Lookups, HttpPlaces, TlsPlaces
<1> QED
    BY <1>1, <1>2 DEF AuthorizePort, Finish, Abandon, Results

LEMMA ProbePortKeepsGate ==
    ASSUME GateInv, NEW o \in Ops, ProbePort(o), UNCHANGED <<mode, halted, emergency, challenge>>
    PROVE  GateInv'
<1>1. PICK port \in op[o].todo :
         op' = [op EXCEPT ![o] = [op[o] EXCEPT !.pc = "next_port", !.conn = Connection(o, FALSE),
                                     !.todo = PortsLeft(@, port), !.after = Counted(o)]]
    BY DEF ProbePort, Advance
<1> DEFINE count == Counted(o)
           link == Connection(o, FALSE)
           todo == PortsLeft(op[o].todo, port)
           row == [op[o] EXCEPT !.pc = "next_port", !.conn = link, !.todo = todo, !.after = count]
<1>2. op' = [op EXCEPT ![o] = row]
    BY <1>1
<1>3. op[o] \in OpRow /\ RowInv(op[o]) /\ op[o].pc = "probe_port"
    BY RowsTyped DEF ProbePort
<1>4. op[o].req.class = "port_probe" /\ op[o].handshakes = 0 /\ Running(op[o]) /\ op[o].pc \notin Lookups
    BY <1>3 DEF RowInv, PlaceInv, PortPlaces, Running, Lookups
<1>5. op[o].host \in Hosts /\ op[o].address \in Addresses
    BY <1>3, <1>4, BrokerAssumption DEF RowInv, HostInv, PinInv, OpRow
<1>6. /\ count \in Nat /\ todo \subseteq Ports
      /\ count = IF Stopped(o) THEN op[o].after + 1 ELSE op[o].after
    BY <1>3 DEF Counted, PortsLeft, OpRow
<1>7. /\ link \in ConnectionRow /\ link.host = op[o].host /\ link.scheme = op[o].scheme
      /\ link.address = op[o].address /\ ~link.key
    BY <1>3, <1>5 DEF Connection, ConnectionRow, OpRow
<1> HIDE DEF count, link, todo
<1>8. /\ row \in OpRow /\ SameRequest(row, op[o]) /\ row.pc = "next_port" /\ row.conn = link
      /\ row.answer = op[o].answer /\ row.address = op[o].address
      /\ row.after = count /\ row.handshakes = 0
    BY <1>3, <1>4, <1>6, <1>7 DEF OpRow, SameRequest, Places, PortPlaces
<1> HIDE DEF row
<1>9. HostInv(row) /\ ModeInv(row)
    BY <1>3, <1>4, <1>8 DEF RowInv, HostInv, ModeInv, SameRequest, Running, Own, Lookups
<1>10. PlaceInv(row) /\ PinInv(row)
    BY <1>3, <1>4, <1>7, <1>8, BrokerAssumption
       DEF RowInv, PlaceInv, PinInv, SameRequest, Running, Lookups, HttpPlaces, TlsPlaces
<1>11. AfterInv(row)
    <2>1. Stopped(o) => op[o].after = 0
        BY <1>3, <1>4, StoppedIsDenied DEF RowInv, AfterInv, SpentInv
    <2>2. Stopped(o) => SpentInv(row)
        BY <1>6, <1>8, <2>1 DEF SpentInv, Lookups
    <2> QED
        BY <1>3, <1>4, <1>6, <1>8, <2>2, StoppedIsDenied
           DEF RowInv, AfterInv, SameRequest, StoppedRow, Own
<1> QED
    BY <1>2, <1>8, <1>9, <1>10, <1>11, OperationMoves DEF RowInv

LEMMA ProbeMailKeepsGate ==
    ASSUME GateInv, NEW o \in Ops, ProbeMail(o), UNCHANGED <<mode, halted, emergency, challenge>>
    PROVE  GateInv'
<1>1. CASE Finish(o, "ok")
    BY <1>1, OperationEnds DEF Finish, Results
<1>2. CASE op[o].pc = "pinned" /\ Class(o) = "smtp_starttls" /\ Contact(o, "conversation", FALSE)
    <2>1. op[o] \in OpRow /\ RowInv(op[o]) /\ Running(op[o]) /\ op[o].pc \notin Lookups
        BY <1>2, RowsTyped DEF Running, Lookups
    <2>2. op[o].handshakes = 0 /\ (Stopped(o) => op[o].after <= 0)
        BY <1>2, <2>1, StoppedIsDenied DEF RowInv, PlaceInv, AfterInv, SpentInv
    <2>3. /\ "conversation" \in Places \ {"probing"}
          /\ "conversation" \notin HttpPlaces \cup TlsPlaces \cup PortPlaces
          /\ "conversation" \notin Lookups \cup {"idle", "done", "pinned", "body", "response", "probe_port"}
        BY DEF Places, HttpPlaces, TlsPlaces, PortPlaces, Lookups
    <2> QED
        BY <1>2, <2>1, <2>2, <2>3, ContactKeepsGate DEF Class
<1> QED
    BY <1>1, <1>2 DEF ProbeMail


--------------------------------------------------------------------------------
\* A step of the world around, which touches no more of an operation than its count.
LEMMA WorldMoves ==
    ASSUME GateInv, op' \in [Ops -> OpRow], UNCHANGED mode,
           {halted', emergency', challenge'} \subseteq BOOLEAN,
           \A o \in Ops : op'[o] = [op[o] EXCEPT !.after = op'[o].after] /\ AfterInv(op[o])'
    PROVE  GateInv'
<1>1. ASSUME NEW o \in Ops
      PROVE  RowInv(op[o])'
    <2>1. op[o] \in OpRow /\ RowInv(op[o]) /\ AfterInv(op[o])'
        BY RowsTyped
    <2>2. /\ SameRequest(op'[o], op[o]) /\ SameLink(op'[o], op[o]) /\ op'[o].pc = op[o].pc
          /\ op'[o].handshakes = op[o].handshakes
        BY <2>1 DEF OpRow, SameRequest, SameLink
    <2>3. HostInv(op[o])' /\ PlaceInv(op[o])'
        BY <2>1, <2>2 DEF RowInv, HostInv, PlaceInv, SameRequest, Running
    <2>4. PinInv(op[o])' /\ ModeInv(op[o])'
        BY <2>1, <2>2 DEF RowInv, PinInv, ModeInv, SameRequest, SameLink, Running, Own
    <2> QED
        BY <2>1, <2>3, <2>4 DEF RowInv
<1> QED
    BY <1>1 DEF GateInv

\* An operation that was not told to stop before has sent nothing since.
LEMMA UncountedIsWithin ==
    ASSUME NEW r \in OpRow, r.after = 0
    PROVE  SpentInv(r)
BY DEF SpentInv, OpRow

LEMMA HaltKeepsGate ==
    ASSUME GateInv, Halt
    PROVE  GateInv'
<1>1. UNCHANGED <<op, mode, emergency, challenge>> /\ ~halted /\ halted'
    BY DEF Halt
<1>2. ASSUME NEW o \in Ops
      PROVE  AfterInv(op[o])'
    <2>1. op[o] \in OpRow /\ RowInv(op[o]) /\ op[o].after \in Nat
        BY RowsTyped DEF OpRow
    <2>2. CASE Own(op[o])
        BY <1>1, <2>1, <2>2 DEF RowInv, AfterInv, StoppedRow, Own
    <2>3. CASE ~Own(op[o])
        <3>1. Running(op[o]) => op[o].after = 0
            BY <1>1, <2>1, <2>3 DEF RowInv, AfterInv, StoppedRow
        <3> QED
            BY <1>1, <2>1, <2>3, <3>1, UncountedIsWithin DEF AfterInv, StoppedRow, Own
    <2> QED
        BY <2>2, <2>3
<1>3. \A o \in Ops : op'[o] = [op[o] EXCEPT !.after = op'[o].after]
    BY <1>1, RowsTyped DEF OpRow
<1> QED
    BY <1>1, <1>2, <1>3, WorldMoves DEF GateInv, Halt

\* Whoever is told to stop counts from then on.
LEMMA RecountKeepsGate ==
    ASSUME GateInv, ActivateEmergency \/ ChallengeLapses
    PROVE  GateInv'
<1>1. /\ Recount /\ UNCHANGED <<mode, halted>> /\ {halted', emergency', challenge'} \subseteq BOOLEAN
      /\ (~challenge \/ emergency)' /\ (UNCHANGED challenge \/ UNCHANGED emergency)
    BY DEF ActivateEmergency, ChallengeLapses, GateInv
<1>2. ASSUME NEW o \in Ops
      PROVE  /\ op'[o] \in OpRow /\ op'[o] = [op[o] EXCEPT !.after = op'[o].after]
             /\ AfterInv(op[o])'
    <2>1. op[o] \in OpRow /\ RowInv(op[o])
        BY RowsTyped
    <2>2. CASE Active(o) /\ ~Stopped(o)
        <3>1. op'[o] = [op[o] EXCEPT !.after = 0]
            BY <1>1, <2>2 DEF Recount
        <3>2. op'[o] \in OpRow /\ op'[o].after = 0 /\ op'[o].pc = op[o].pc
            BY <2>1, <3>1 DEF OpRow
        <3>3. AfterInv(op[o])'
            BY <3>2, UncountedIsWithin DEF AfterInv
        <3> QED
            BY <3>1, <3>2, <3>3
    <2>3. CASE ~(Active(o) /\ ~Stopped(o))
        <3>1. op'[o] = op[o]
            BY <1>1, <2>3 DEF Recount
        <3>2. StoppedRow(op[o]) => StoppedRow(op[o])'
            BY <1>1, <3>1 DEF StoppedRow, Own
        <3>3. Running(op[o]) => StoppedRow(op[o])
            BY <2>3, StoppedIsDenied DEF Active, Running
        <3>4. AfterInv(op[o])'
            BY <2>1, <3>1, <3>2, <3>3 DEF RowInv, AfterInv, StoppedRow
        <3> QED
            BY <2>1, <3>1, <3>4 DEF OpRow
    <2> QED
        BY <2>2, <2>3
<1>3. op' \in [Ops -> OpRow]
    BY <1>1, <1>2 DEF Recount
<1> QED
    BY <1>1, <1>2, <1>3, WorldMoves

\* A control that is lifted leaves an ownership check with one step counted at most.
LEMMA DeactivateEmergencyKeepsGate ==
    ASSUME GateInv, DeactivateEmergency
    PROVE  GateInv'
<1>1. UNCHANGED <<op, mode, halted, challenge>> /\ ~emergency'
    BY DEF DeactivateEmergency
<1>2. ASSUME NEW o \in Ops
      PROVE  AfterInv(op[o])'
    <2>1. op[o] \in OpRow /\ RowInv(op[o]) /\ op[o].after \in Nat
        BY RowsTyped DEF OpRow
    <2>2. CASE ~Own(op[o])
        BY <1>1, <2>1, <2>2 DEF RowInv, AfterInv, StoppedRow, Own
    <2>3. CASE Own(op[o]) /\ Running(op[o])
        <3>1. op[o].pc \notin TlsPlaces \cup PortPlaces \cup {"conversation"}
            BY <2>1, <2>3 DEF RowInv, PlaceInv, Own
        <3>2. SpentInv(op[o]) => op[o].after <= 1
            BY <2>1, <2>3, <3>1 DEF SpentInv, OpRow, Places, HttpPlaces, TlsPlaces, PortPlaces, Running
        <3>3. op[o].after <= 1
            BY <2>1, <2>3, <3>2 DEF RowInv, AfterInv
        <3> QED
            BY <1>1, <2>1, <2>3, <3>3 DEF RowInv, AfterInv, StoppedRow, Own
    <2>4. CASE ~Running(op[o])
        BY <1>1, <2>4 DEF AfterInv
    <2> QED
        BY <2>2, <2>3, <2>4
<1>3. \A o \in Ops : op'[o] = [op[o] EXCEPT !.after = op'[o].after]
    BY <1>1, RowsTyped DEF OpRow
<1> QED
    BY <1>1, <1>2, <1>3, WorldMoves DEF GateInv, DeactivateEmergency

LEMMA StepKeepsGate ==
    ASSUME GateInv, NEW o \in Ops, Step(o)
    PROVE  GateInv'
BY ResolveKeepsGate, PinKeepsGate, ConnectKeepsGate, ReadHeadersKeepsGate, ReadBodyKeepsGate,
   ChunkCheckpointKeepsGate, RespondKeepsGate, HandshakesKeepGate, AuthorizeProbesKeepsGate,
   ProbeProtocolsKeepsGate, AuthorizePortKeepsGate, ProbePortKeepsGate, ProbeMailKeepsGate
   DEF Step, HttpStep, TlsStep

LEMMA NextKeepsGate == GateInv /\ [Next]_vars => GateInv'
<1> SUFFICES ASSUME GateInv, [Next]_vars PROVE GateInv'
    OBVIOUS
<1>1. CASE Next
    BY <1>1, BeginKeepsGate, StepKeepsGate, HaltKeepsGate, RecountKeepsGate, DeactivateEmergencyKeepsGate
       DEF Next
<1>2. CASE UNCHANGED vars
    BY <1>2 DEF vars, GateInv, RowInv, HostInv, PlaceInv, PinInv, ModeInv, AfterInv, StoppedRow
<1> QED
    BY <1>1, <1>2

LEMMA InitKeepsGate == Init => GateInv
<1> SUFFICES ASSUME Init PROVE GateInv
    OBVIOUS
<1>1. RowInv(Idle)
    BY IdleTyped, BrokerAssumption
       DEF RowInv, HostInv, PlaceInv, PinInv, ModeInv, AfterInv, Running, HttpPlaces, TlsPlaces,
           PortPlaces
<1> QED
    BY <1>1, IdleTyped DEF Init, GateInv

--------------------------------------------------------------------------------
\* What is said of each operation holds at every place it can be at.
\* (CollectionNetworkBroker, NetworkSafetyBroker)
THEOREM GateHolds == Spec => []GateInv
<1> QED
    BY InitKeepsGate, NextKeepsGate, PTL DEF Spec

\* The name that was judged is the name that is connected to, at an address of
\* its own public answer, after every redirect anew. (_pin_address)
THEOREM PinnedToOwnHost == Spec => []PinnedToItsOwnHost
<1>1. GateInv => PinnedToItsOwnHost
    BY DEF GateInv, RowInv, PinInv, PinnedToItsOwnHost, Connected
<1> QED
    BY <1>1, GateHolds, PTL

\* However redirects are chained, none leaves the scope of its request.
\* (authorize_collection_redirect)
THEOREM RedirectsInScope == Spec => []RedirectsStayInScope
<1>1. GateInv => RedirectsStayInScope
    BY DEF GateInv, RowInv, HostInv, PinInv, InScope, RedirectsStayInScope, Connected
<1> QED
    BY <1>1, GateHolds, PTL

\* A key is sent to the host it was issued for, also when a redirect has led
\* back to it, and over TLS. (fetch, credentials)
THEOREM KeyWithItsHost == Spec => []KeyStaysWithItsHost
<1>1. GateInv => KeyStaysWithItsHost
    BY DEF GateInv, RowInv, HostInv, PinInv, KeyStaysWithItsHost, Connected
<1> QED
    BY <1>1, GateHolds, PTL

\* An operation that is told to stop sends and receives no more than it was
\* cleared for at its last checkpoint. (ModeEnforcingPolicy.authorize)
THEOREM StoppedEnd == Spec => []StoppedOperationsEnd
<1>1. ASSUME GateInv, NEW o \in Ops, Active(o)
      PROVE  op[o].after <= ClearedFor(Class(o))
    <2>1. /\ op[o] \in OpRow /\ RowInv(op[o]) /\ Running(op[o]) /\ Protocols \in Nat
          /\ op[o].after \in Nat /\ op[o].handshakes \in Nat
        BY <1>1, RowsTyped, BrokerAssumption DEF OpRow, Active, Running
    <2>2. CASE ~StoppedRow(op[o])
        <3>1. op[o].after <= 1
            BY <2>1, <2>2 DEF RowInv, AfterInv
        <3> QED
            BY <2>1, <3>1 DEF ClearedFor
    <2>3. CASE StoppedRow(op[o])
        <3>1. SpentInv(op[o]) /\ op[o].handshakes <= Protocols
            BY <2>1, <2>3 DEF RowInv, AfterInv, PlaceInv
        <3>2. CASE Class(o) = "tls_inspection"
            <4>1. op[o].after <= 2 \/ op[o].after <= Protocols
                BY <2>1, <3>1 DEF SpentInv, OpRow, Places, HttpPlaces, TlsPlaces, PortPlaces, Running
            <4> QED
                BY <2>1, <3>2, <4>1 DEF ClearedFor
        <3>3. CASE Class(o) # "tls_inspection"
            <4>1. op[o].pc \notin TlsPlaces
                BY <2>1, <3>3 DEF RowInv, PlaceInv, Class
            <4>2. op[o].after <= 1
                BY <2>1, <3>1, <4>1 DEF SpentInv, OpRow, Places, HttpPlaces, TlsPlaces, PortPlaces, Running
            <4> QED
                BY <3>3, <4>2 DEF ClearedFor
        <3> QED
            BY <3>2, <3>3
    <2> QED
        BY <2>2, <2>3
<1>2. GateInv => StoppedOperationsEnd
    BY <1>1 DEF StoppedOperationsEnd
<1> QED
    BY <1>2, GateHolds, PTL


\* A passive run connects for nothing that needs an authorization.
\* (observation.mode, ModeEnforcingPolicy.authorize)
THEOREM PassiveStaysPassive == Spec => []PassiveConnectsToNothingActive
<1>1. GateInv => PassiveConnectsToNothingActive
    BY DEF GateInv, RowInv, ModeInv, PinInv, Lookups, PassiveConnectsToNothingActive, Connected,
           AllowedClasses, OwnBroker, Class, Own
<1> QED
    BY <1>1, GateHolds, PTL

--------------------------------------------------------------------------------
\* A step goes on with the request and its permit, or ends the operation; the
\* hops change where a redirect is followed.
Continues(o) ==
    \E row :
        /\ op' = [op EXCEPT ![o] = row] /\ UNCHANGED free
        /\ Running(row) /\ row.req = op[o].req
        /\ row.hops = op[o].hops \/ (op[o].scheme = "https" => row.scheme = "https")
Ends(o) ==
    \/ \E result \in Results : Finish(o, result)
    \/ ~OwnBroker(o) /\ \E released \in BOOLEAN : Abandon(o, released)

LEMMA AdvanceContinues ==
    ASSUME NEW o \in Ops, NEW row, Advance(o, row), Running(row),
           row.req = op[o].req, row.hops = op[o].hops
    PROVE  Continues(o)
BY DEF Advance, Continues

LEMMA ContactContinues ==
    ASSUME GateInv, NEW o \in Ops, NEW pc \in {"headers", "second", "inspected", "inconclusive", "conversation"},
           NEW key, Contact(o, pc, key)
    PROVE  Continues(o)
<1> DEFINE link == Connection(o, key)
           count == Counted(o)
           row == [op[o] EXCEPT !.pc = pc, !.conn = link, !.after = count]
<1>1. op[o] \in OpRow
    BY RowsTyped
<1>2. op' = [op EXCEPT ![o] = row] /\ UNCHANGED free
    BY DEF Contact, Advance
<1> HIDE DEF link, count
<1>3. row.pc = pc /\ row.req = op[o].req /\ row.hops = op[o].hops
    BY <1>1 DEF OpRow
<1> HIDE DEF row
<1> QED
    BY <1>2, <1>3 DEF Continues, Running

LEMMA HttpStepShape ==
    ASSUME GateInv, NEW o \in Ops, HttpStep(o)
    PROVE  Active(o) /\ (Continues(o) \/ Ends(o))
<1>1. op[o] \in OpRow /\ RowInv(op[o])
    BY RowsTyped
<1>2. CASE Connect(o)
    BY <1>2, ContactContinues DEF Connect, Active
<1>3. CASE ReadHeaders(o)
    <2>1. ASSUME NEW pc \in {"body", "response"}, Advance(o, [op[o] EXCEPT !.pc = pc])
          PROVE  Continues(o)
        <3> DEFINE row == [op[o] EXCEPT !.pc = pc]
        <3>1. row.pc = pc /\ row.req = op[o].req /\ row.hops = op[o].hops
            BY <1>1 DEF OpRow
        <3>2. Advance(o, row)
            BY <2>1
        <3> HIDE DEF row
        <3> QED
            BY <3>1, <3>2, AdvanceContinues DEF Running
    <2> QED
        BY <1>3, <2>1 DEF ReadHeaders, Active, Ends, Results
<1>4. CASE ReadBody(o)
    <2>1. ASSUME Advance(o, [op[o] EXCEPT !.pc = "response"])
          PROVE  Continues(o)
        <3> DEFINE row == [op[o] EXCEPT !.pc = "response"]
        <3>1. row.pc = "response" /\ row.req = op[o].req /\ row.hops = op[o].hops
            BY <1>1 DEF OpRow
        <3>2. Advance(o, row)
            BY <2>1
        <3> HIDE DEF row
        <3> QED
            BY <3>1, <3>2, AdvanceContinues DEF Running
    <2>2. ASSUME Advance(o, [op[o] EXCEPT !.pc = "chunk", !.body = @ + 1, !.after = Counted(o)])
          PROVE  Continues(o)
        <3> DEFINE row == [op[o] EXCEPT !.pc = "chunk", !.body = @ + 1, !.after = Counted(o)]
        <3>1. row.pc = "chunk" /\ row.req = op[o].req /\ row.hops = op[o].hops
            BY <1>1 DEF OpRow
        <3>2. op' = [op EXCEPT ![o] = row] /\ UNCHANGED free
            BY <2>2 DEF Advance
        <3> HIDE DEF row
        <3> QED
            BY <3>1, <3>2 DEF Continues, Running
    <2> QED
        BY <1>4, <2>1, <2>2 DEF ReadBody, Active, Ends, Results
<1>5. CASE ChunkCheckpoint(o)
    <2>1. ASSUME Advance(o, [op[o] EXCEPT !.pc = "body"])
          PROVE  Continues(o)
        <3> DEFINE row == [op[o] EXCEPT !.pc = "body"]
        <3>1. row.pc = "body" /\ row.req = op[o].req /\ row.hops = op[o].hops
            BY <1>1 DEF OpRow
        <3>2. Advance(o, row)
            BY <2>1
        <3> HIDE DEF row
        <3> QED
            BY <3>1, <3>2, AdvanceContinues DEF Running
    <2> QED
        BY <1>5, <2>1 DEF ChunkCheckpoint, Active, Ends, Results
<1>6. CASE Respond(o)
    <2>1. ASSUME NEW host \in Hosts, NEW scheme \in {"http", "https"}, RedirectAuthorized(o, host, scheme),
                 Advance(o, Redirected(op[o], host, scheme))
          PROVE  Continues(o)
        <3> DEFINE row == Redirected(op[o], host, scheme)
        <3>1. row.pc = "pin" /\ row.req = op[o].req /\ row.scheme = scheme
            BY <1>1, RedirectedTyped
        <3>2. op' = [op EXCEPT ![o] = row] /\ UNCHANGED free
            BY <2>1 DEF Advance
        <3> HIDE DEF row
        <3>3. Running(row) /\ (op[o].scheme = "https" => row.scheme = "https")
            BY <2>1, <3>1 DEF Running, RedirectAuthorized
        <3> QED
            BY <3>1, <3>2, <3>3 DEF Continues
    <2>2. Ends(o) \/ \E host \in Hosts, scheme \in {"http", "https"} :
             RedirectAuthorized(o, host, scheme) /\ Advance(o, Redirected(op[o], host, scheme))
        BY <1>6 DEF Respond, Ends, Results
    <2> QED
        BY <1>6, <2>1, <2>2 DEF Respond, Active
<1> QED
    BY <1>2, <1>3, <1>4, <1>5, <1>6 DEF HttpStep

LEMMA ProbeStepShape ==
    ASSUME GateInv, NEW o \in Ops, TlsStep(o) \/ AuthorizePort(o) \/ ProbePort(o) \/ ProbeMail(o)
    PROVE  Active(o) /\ (Continues(o) \/ Ends(o))
<1>1. op[o] \in OpRow /\ RowInv(op[o])
    BY RowsTyped
<1>2. CASE InspectCertificate(o) \/ HandshakeUnverified(o)
    BY <1>2, ContactContinues DEF InspectCertificate, HandshakeUnverified, Active
<1>3. CASE AuthorizeProbes(o)
    <2>1. op[o].pc = "inspected" => ~OwnBroker(o)
        BY <1>1 DEF RowInv, PlaceInv, TlsPlaces, OwnBroker, Class
    <2>2. ASSUME Advance(o, [op[o] EXCEPT !.pc = "probing", !.conn = Nothing])
          PROVE  Continues(o)
        <3> DEFINE row == [op[o] EXCEPT !.pc = "probing", !.conn = Nothing]
        <3>1. row.pc = "probing" /\ row.req = op[o].req /\ row.hops = op[o].hops
            BY <1>1 DEF OpRow
        <3>2. Advance(o, row)
            BY <2>2
        <3> HIDE DEF row
        <3> QED
            BY <3>1, <3>2, AdvanceContinues DEF Running
    <2> QED
        BY <1>3, <2>1, <2>2 DEF AuthorizeProbes, Active, Ends, Results
<1>4. CASE ProbeProtocols(o)
    <2> DEFINE row == [op[o] EXCEPT !.handshakes = @ + 1, !.conn = Connection(o, FALSE),
                                    !.after = Counted(o)]
    <2>1. row.pc = op[o].pc /\ row.req = op[o].req /\ row.hops = op[o].hops
        BY <1>1 DEF OpRow
    <2>2. Finish(o, "ok") \/ (op' = [op EXCEPT ![o] = row] /\ UNCHANGED free)
        BY <1>4 DEF ProbeProtocols, Advance
    <2> HIDE DEF row
    <2> QED
        BY <1>4, <2>1, <2>2 DEF ProbeProtocols, Continues, Running, Active, Ends, Results
<1>5. CASE AuthorizePort(o)
    <2>1. ~OwnBroker(o)
        BY <1>5 DEF AuthorizePort, OwnBroker
    <2>2. ASSUME Advance(o, [op[o] EXCEPT !.pc = "probe_port", !.conn = Nothing])
          PROVE  Continues(o)
        <3> DEFINE row == [op[o] EXCEPT !.pc = "probe_port", !.conn = Nothing]
        <3>1. row.pc = "probe_port" /\ row.req = op[o].req /\ row.hops = op[o].hops
            BY <1>1 DEF OpRow
        <3>2. Advance(o, row)
            BY <2>2
        <3> HIDE DEF row
        <3> QED
            BY <3>1, <3>2, AdvanceContinues DEF Running
    <2> QED
        BY <1>5, <2>1, <2>2 DEF AuthorizePort, Active, Ends, Results
<1>6. CASE ProbePort(o)
    <2>1. PICK port \in op[o].todo :
             Advance(o, [op[o] EXCEPT !.pc = "next_port", !.conn = Connection(o, FALSE),
                                      !.todo = PortsLeft(@, port), !.after = Counted(o)])
        BY <1>6 DEF ProbePort
    <2> DEFINE row == [op[o] EXCEPT !.pc = "next_port", !.conn = Connection(o, FALSE),
                                    !.todo = PortsLeft(@, port), !.after = Counted(o)]
    <2>2. row.pc = "next_port" /\ row.req = op[o].req /\ row.hops = op[o].hops
        BY <1>1 DEF OpRow
    <2>3. op' = [op EXCEPT ![o] = row] /\ UNCHANGED free
        BY <2>1 DEF Advance
    <2> HIDE DEF row
    <2> QED
        BY <1>6, <2>2, <2>3 DEF ProbePort, Continues, Running, Active
<1>7. CASE ProbeMail(o)
    BY <1>7, ContactContinues DEF ProbeMail, Active, Ends, Results
<1> QED
    BY <1>2, <1>3, <1>4, <1>5, <1>6, <1>7 DEF TlsStep

LEMMA StepShape ==
    ASSUME GateInv, NEW o \in Ops, Step(o)
    PROVE  Active(o) /\ (Continues(o) \/ Ends(o))
<1>1. op[o] \in OpRow
    BY RowsTyped
<1>2. CASE Resolve(o)
    <2>1. ASSUME NEW answer \in SUBSET Addresses, Advance(o, [op[o] EXCEPT !.pc = "resolved", !.answer = answer])
          PROVE  Continues(o)
        <3> DEFINE row == [op[o] EXCEPT !.pc = "resolved", !.answer = answer]
        <3>1. row.pc = "resolved" /\ row.req = op[o].req /\ row.hops = op[o].hops
            BY <1>1 DEF OpRow
        <3>2. Advance(o, row)
            BY <2>1
        <3> HIDE DEF row
        <3> QED
            BY <3>1, <3>2, AdvanceContinues DEF Running
    <2> QED
        BY <1>2, <2>1 DEF Resolve, Active, Ends, Results
<1>3. CASE Pin(o)
    <2>1. ASSUME NEW a \in op[o].answer, Advance(o, [op[o] EXCEPT !.pc = "pinned", !.address = a])
          PROVE  Continues(o)
        <3> DEFINE row == [op[o] EXCEPT !.pc = "pinned", !.address = a]
        <3>1. row.pc = "pinned" /\ row.req = op[o].req /\ row.hops = op[o].hops
            BY <1>1 DEF OpRow
        <3>2. Advance(o, row)
            BY <2>1
        <3> HIDE DEF row
        <3> QED
            BY <3>1, <3>2, AdvanceContinues DEF Running
    <2>2. ReleasedWhenAbandoned(o) \in BOOLEAN
        BY DEF ReleasedWhenAbandoned
    <2> QED
        BY <1>3, <2>1, <2>2 DEF Pin, Active, Ends, Results
<1> QED
    BY <1>2, <1>3, HttpStepShape, ProbeStepShape DEF Step

--------------------------------------------------------------------------------
\* Whether an operation holds a permit is a matter of its row.
LEMMA HoldersMove ==
    ASSUME GateInv, NEW o \in Ops, NEW row, op' = [op EXCEPT ![o] = row]
    PROVE  Holders' = IF Running(row) /\ ~Own(row) THEN Holders \cup {o} ELSE Holders \ {o}
<1>1. \A u \in Ops : op'[u] = IF u = o THEN row ELSE op[u]
    BY DEF GateInv
<1> QED
    BY <1>1 DEF Holders, Active, OwnBroker, Class, Running, Own

LEMMA EndedRow ==
    ASSUME NEW o \in Ops, NEW result
    PROVE  ~Running(Ended(o, result)) /\ Ended(o, result).hops = 0
BY DEF Ended, Idle, Running

\* The permit returns with the end of the operation that holds it, and at no other time.
LEMMA EndKeepsPermits ==
    ASSUME GateInv, PermitInv, NEW o \in Ops, Active(o), Ends(o)
    PROVE  PermitInv'
<1>1. PICK result : op' = [op EXCEPT ![o] = Ended(o, result)]
    BY DEF Ends, Finish, Abandon
<1>2. Holders' = Holders \ {o}
    BY <1>1, EndedRow, HoldersMove
<1>3. IsFiniteSet(Holders') /\ Cardinality(Holders') \in Nat /\ Cardinality(Holders) \in Nat
    BY <1>2, FS_RemoveElement, FS_CardinalityType DEF PermitInv
<1>4. CASE OwnBroker(o)
    <2>1. Holders' = Holders /\ free' = free
        BY <1>2, <1>4 DEF Holders, Ends, Finish
    <2> QED
        BY <2>1 DEF PermitInv
<1>5. CASE ~OwnBroker(o)
    <2>1. o \in Holders
        BY <1>5 DEF Holders
    <2>2. Cardinality(Holders') = Cardinality(Holders) - 1
        BY <1>2, <2>1, FS_RemoveElement DEF PermitInv
    <2>3. free' \in {free, free + 1}
        BY DEF Ends, Finish, Abandon
    <2> QED
        BY <1>3, <2>2, <2>3, BrokerAssumption DEF PermitInv
<1> QED
    BY <1>4, <1>5

LEMMA StepKeepsPermits ==
    ASSUME GateInv, PermitInv, NEW o \in Ops, Step(o)
    PROVE  PermitInv'
<1>1. Active(o) /\ (Continues(o) \/ Ends(o))
    BY StepShape
<1>2. CASE Continues(o)
    <2>1. PICK row : /\ op' = [op EXCEPT ![o] = row] /\ UNCHANGED free
                     /\ Running(row) /\ row.req = op[o].req
        BY <1>2 DEF Continues
    <2>2. Holders' = Holders
        BY <1>1, <2>1, HoldersMove DEF Holders, Own, OwnBroker, Class
    <2> QED
        BY <2>1, <2>2 DEF PermitInv
<1> QED
    BY <1>1, <1>2, EndKeepsPermits

\* An operation of the shared broker begins with a permit, or not at all.
LEMMA BeginKeepsPermits ==
    ASSUME GateInv, PermitInv, NEW o \in Ops, Begin(o)
    PROVE  PermitInv'
<1> DEFINE begun(r) == [Idle EXCEPT !.pc = "pin", !.req = r, !.host = r.host, !.scheme = r.scheme,
                                    !.todo = IF r.class = "port_probe" THEN Ports ELSE {}]
           refused(r) == [Idle EXCEPT !.pc = "done", !.req = r, !.result = "error"]
<1>1. PICK r \in Requests[o] :
        IF r.class = "https_verification" \/ free > 0
        THEN /\ op' = [op EXCEPT ![o] = begun(r)]
             /\ free' = IF r.class = "https_verification" THEN free ELSE free - 1
        ELSE op' = [op EXCEPT ![o] = refused(r)] /\ UNCHANGED free
    BY DEF Begin
<1>2. o \notin Holders
    BY DEF Begin, Holders
<1>3. begun(r).pc = "pin" /\ begun(r).req = r /\ refused(r).pc = "done"
    BY DEF Idle
<1> HIDE DEF begun, refused
<1>4. Cardinality(Holders) \in Nat /\ free \in Nat /\ MaxConcurrency \in Nat
    BY FS_CardinalityType, BrokerAssumption DEF PermitInv
<1>5. CASE r.class # "https_verification" /\ free > 0
    <2>1. Holders' = Holders \cup {o} /\ free' = free - 1
        BY <1>1, <1>3, <1>5, HoldersMove DEF Running, Own
    <2>2. IsFiniteSet(Holders') /\ Cardinality(Holders') = Cardinality(Holders) + 1
        BY <1>2, <2>1, FS_AddElement DEF PermitInv
    <2> QED
        BY <1>4, <1>5, <2>1, <2>2 DEF PermitInv
<1>6. CASE r.class = "https_verification" \/ ~(free > 0)
    <2>1. Holders' = Holders \ {o} /\ free' = free
        BY <1>1, <1>3, <1>6, HoldersMove DEF Running, Own
    <2>2. Holders' = Holders
        BY <1>2, <2>1
    <2> QED
        BY <2>1, <2>2 DEF PermitInv
<1> QED
    BY <1>5, <1>6

\* What stops an operation takes nothing from it.
LEMMA WorldKeepsPermits ==
    ASSUME GateInv, PermitInv, Halt \/ ActivateEmergency \/ DeactivateEmergency \/ ChallengeLapses
    PROVE  PermitInv'
<1>1. free' = free /\ (op' = op \/ Recount)
    BY DEF Halt, ActivateEmergency, DeactivateEmergency, ChallengeLapses
<1>2. \A o \in Ops : op'[o].pc = op[o].pc /\ op'[o].req = op[o].req
    <2>1. ASSUME NEW o \in Ops
          PROVE  LET row == [op[o] EXCEPT !.after = 0] IN row.pc = op[o].pc /\ row.req = op[o].req
        BY RowsTyped DEF OpRow
    <2> QED
        BY <1>1, <2>1 DEF Recount
<1>3. Holders' = Holders
    BY <1>2 DEF Holders, Active, OwnBroker, Class
<1> QED
    BY <1>1, <1>3 DEF PermitInv

LEMMA PermitsKept == GateInv /\ PermitInv /\ [Next]_vars => PermitInv'
<1> SUFFICES ASSUME GateInv, PermitInv, [Next]_vars PROVE PermitInv'
    OBVIOUS
<1>1. CASE UNCHANGED vars
    BY <1>1 DEF vars, PermitInv, Holders, Active, OwnBroker, Class
<1> QED
    BY <1>1, BeginKeepsPermits, StepKeepsPermits, WorldKeepsPermits DEF Next

LEMMA InitKeepsPermits == Init => PermitInv
<1> SUFFICES ASSUME Init PROVE PermitInv
    OBVIOUS
<1>1. Holders = {}
    BY IdleTyped DEF Init, Holders, Active
<1> QED
    BY <1>1, FS_EmptySet, BrokerAssumption DEF PermitInv, Init

\* No more connections of one broker are open than it has permits: none is open
\* without a permit, and what is lost is lost to the broker only. (_permit, _semaphore)
THEOREM SocketsBounded == Spec => []SocketsAreBounded
<1>1. Spec => []PermitInv
    BY InitKeepsPermits, PermitsKept, GateHolds, PTL DEF Spec
<1>2. ASSUME GateInv, PermitInv
      PROVE  SocketsAreBounded
    <2> DEFINE open == {o \in Connected : ~OwnBroker(o)}
    <2>1. open \subseteq Holders
        BY <1>2 DEF GateInv, RowInv, PinInv, Connected, Holders, Running, Active
    <2>2. Cardinality(open) <= Cardinality(Holders)
        BY <1>2, <2>1, FS_Subset DEF PermitInv
    <2>3. Cardinality(open) \in Nat /\ Cardinality(Holders) \in Nat
        BY <1>2, <2>1, FS_Subset, FS_CardinalityType DEF PermitInv
    <2> HIDE DEF open
    <2>4. free <= MaxConcurrency /\ Cardinality(open) <= MaxConcurrency
        BY <1>2, <2>2, <2>3, BrokerAssumption DEF PermitInv
    <2> QED
        BY <2>4 DEF SocketsAreBounded, open
<1> QED
    BY <1>1, <1>2, GateHolds, PTL

\* A redirect of a request over TLS leads to another over TLS: no other step
\* has more hops behind it than the one before. (authorize_collection_redirect)
THEOREM StaysOnTls == Spec => NeverDowngraded
<1>1. ASSUME GateInv, Next, NEW o \in Ops, op[o].scheme = "https", op[o].hops < op'[o].hops
      PROVE  op'[o].scheme = "https"
    <2>1. op[o] \in OpRow /\ op[o].hops \in Nat /\ op \in [Ops -> OpRow]
        BY <1>1, RowsTyped DEF OpRow, GateInv
    <2>2. CASE \E u \in Ops : Begin(u)
        <3>1. PICK u \in Ops : Begin(u)
            BY <2>2
        <3>2. PICK r : \/ op' = [op EXCEPT ![u] = [Idle EXCEPT !.pc = "pin", !.req = r,
                                    !.host = r.host, !.scheme = r.scheme,
                                    !.todo = IF r.class = "port_probe" THEN Ports ELSE {}]]
                       \/ op' = [op EXCEPT ![u] = [Idle EXCEPT !.pc = "done", !.req = r,
                                                                  !.result = "error"]]
            BY <3>1 DEF Begin
        <3>3. op'[u].hops = 0
            BY <2>1, <3>2 DEF Idle
        <3>4. o # u => op'[o] = op[o]
            BY <2>1, <3>2
        <3> QED
            BY <1>1, <2>1, <3>3, <3>4
    <2>3. CASE \E u \in Ops : Step(u)
        <3>1. PICK u \in Ops : Continues(u) \/ Ends(u)
            BY <1>1, <2>3, StepShape
        <3>2. CASE Ends(u)
            <4>1. PICK result : op' = [op EXCEPT ![u] = Ended(u, result)]
                BY <3>2 DEF Ends, Finish, Abandon
            <4> QED
                BY <1>1, <2>1, <4>1, EndedRow
        <3>3. CASE Continues(u)
            <4>1. PICK row : /\ op' = [op EXCEPT ![u] = row]
                             /\ row.hops = op[u].hops \/ (op[u].scheme = "https" => row.scheme = "https")
                BY <3>3 DEF Continues
            <4> QED
                BY <1>1, <2>1, <4>1
        <3> QED
            BY <3>1, <3>2, <3>3
    <2>4. CASE Halt \/ ActivateEmergency \/ DeactivateEmergency \/ ChallengeLapses
        <3>1. op' = op \/ Recount
            BY <2>4 DEF Halt, ActivateEmergency, DeactivateEmergency, ChallengeLapses
        <3>2. [op[o] EXCEPT !.after = 0].hops = op[o].hops
            BY <2>1 DEF OpRow
        <3>3. op'[o] = op[o] \/ op'[o] = [op[o] EXCEPT !.after = 0]
            BY <3>1 DEF Recount
        <3>4. op'[o].hops = op[o].hops
            BY <3>2, <3>3
        <3> QED
            BY <1>1, <2>1, <3>4
    <2> QED
        BY <1>1, <2>2, <2>3, <2>4 DEF Next
<1>2. GateInv /\ [Next]_vars =>
          [\A o \in Ops : op[o].scheme = "https" /\ op[o].hops < op'[o].hops
                             => op'[o].scheme = "https"]_vars
    BY <1>1
<1> QED
    BY <1>2, GateHolds, PTL DEF Spec, NeverDowngraded

--------------------------------------------------------------------------------
\* No body outgrows its budget.
BodyInv == \A o \in Ops : op[o].body <= MaxBody

\* A step uses up some of what the operation has left.
UsesUp(o) ==
    \E row : /\ op' = [op EXCEPT ![o] = row] /\ row.body <= MaxBody
             /\ StepsLeft(row) \in 0..(StepsLeft(op[o]) - 1)

LEMMA DistanceIs ==
    /\ DOMAIN Distance = Places \ {"idle", "done"}
    /\ \A pc \in Places \ {"idle", "done"} : Distance[pc] \in 4..9
BY DEF Distance, Places, Lookups, HttpPlaces, TlsPlaces, PortPlaces

\* What is left of a row that is within its bounds.
LEMMA LeftIs ==
    ASSUME NEW pc \in Places \ {"idle", "done"}, NEW row, row.pc = pc,
           row.body \in 0..MaxBody, row.hops \in 0..MaxRedirects, row.handshakes \in 0..Protocols,
           Cardinality(row.todo) \in Nat
    PROVE  /\ HopSteps * (MaxRedirects - row.hops) \in Nat /\ Distance[pc] \in 4..9
           /\ StepsLeft(row) = Distance[pc] + 2 * (MaxBody - row.body)
                                 + HopSteps * (MaxRedirects - row.hops)
                                 + (Protocols - row.handshakes) + 2 * Cardinality(row.todo)
           /\ StepsLeft(row) \in Nat /\ StepsLeft(row) > 3
<1>1. HopSteps \in Nat /\ MaxRedirects - row.hops \in Nat
    BY BrokerAssumption DEF HopSteps
<1>2. HopSteps * (MaxRedirects - row.hops) \in Nat
    BY <1>1
<1>3. Distance[pc] \in 4..9
    BY DistanceIs
<1>4. StepsLeft(row) = Distance[pc] + 2 * (MaxBody - row.body)
                         + HopSteps * (MaxRedirects - row.hops)
                         + (Protocols - row.handshakes) + 2 * Cardinality(row.todo)
    BY DEF StepsLeft
<1> HIDE DEF Distance, HopSteps
<1> DEFINE hops == HopSteps * (MaxRedirects - row.hops)
<1>5. hops \in Nat
    BY <1>2
<1>6. StepsLeft(row) = Distance[pc] + 2 * (MaxBody - row.body) + hops
                         + (Protocols - row.handshakes) + 2 * Cardinality(row.todo)
    BY <1>4
<1> HIDE DEF hops
<1>7. StepsLeft(row) \in Nat /\ StepsLeft(row) > 3
    BY <1>3, <1>5, <1>6, BrokerAssumption
<1> QED
    BY <1>2, <1>3, <1>4, <1>7

\* The operation itself is within them.
LEMMA OperationIsBounded ==
    ASSUME GateInv, BodyInv, NEW o \in Ops, Active(o)
    PROVE  /\ op[o].pc \in Places \ {"idle", "done"}
           /\ op[o].body \in 0..MaxBody /\ op[o].hops \in 0..MaxRedirects
           /\ op[o].handshakes \in 0..Protocols
           /\ IsFiniteSet(op[o].todo) /\ Cardinality(op[o].todo) \in Nat
<1>1. op[o] \in OpRow /\ RowInv(op[o])
    BY RowsTyped
<1>2. op[o].pc \in Places \ {"idle", "done"}
    BY <1>1 DEF OpRow, Active
<1>3. op[o].body \in 0..MaxBody
    BY <1>1, BrokerAssumption DEF OpRow, BodyInv
<1>4. op[o].hops \in 0..MaxRedirects
    BY <1>1, BrokerAssumption DEF OpRow, RowInv, HostInv, Active, Running
<1>5. op[o].handshakes \in 0..Protocols
    BY <1>1, BrokerAssumption DEF OpRow, RowInv, PlaceInv
<1>6. op[o].todo \subseteq Ports
    BY <1>1 DEF OpRow
<1>7. IsFiniteSet(op[o].todo) /\ Cardinality(op[o].todo) \in Nat
    BY <1>6, BrokerAssumption, FS_Subset, FS_CardinalityType
<1> QED
    BY <1>2, <1>3, <1>4, <1>5, <1>7

\* Within a hop, an operation gets nearer to its end by its place, a piece of the body,
\* a version or a port.
LEMMA MoveUsesUp ==
    ASSUME GateInv, BodyInv, NEW o \in Ops, Active(o),
           NEW pc \in Places \ {"idle", "done"}, NEW row, op' = [op EXCEPT ![o] = row],
           row.pc = pc, row.hops = op[o].hops, row.body \in 0..MaxBody,
           row.handshakes \in 0..Protocols, Cardinality(row.todo) \in Nat,
           Distance[pc] - 2 * row.body - row.handshakes + 2 * Cardinality(row.todo)
             < Distance[op[o].pc] - 2 * op[o].body - op[o].handshakes + 2 * Cardinality(op[o].todo)
    PROVE  UsesUp(o)
<1>1. /\ op[o].pc \in Places \ {"idle", "done"}
      /\ op[o].body \in 0..MaxBody /\ op[o].hops \in 0..MaxRedirects
      /\ op[o].handshakes \in 0..Protocols /\ Cardinality(op[o].todo) \in Nat
    BY OperationIsBounded
<1> DEFINE hops == HopSteps * (MaxRedirects - op[o].hops)
           old == Distance[op[o].pc]
           new == Distance[pc]
<1>2. /\ hops \in Nat /\ old \in 4..9
      /\ StepsLeft(op[o]) = old + 2 * (MaxBody - op[o].body) + hops
                              + (Protocols - op[o].handshakes) + 2 * Cardinality(op[o].todo)
      /\ StepsLeft(op[o]) \in Nat
    BY <1>1, LeftIs
<1>3. /\ new \in 4..9
      /\ StepsLeft(row) = new + 2 * (MaxBody - row.body) + hops
                            + (Protocols - row.handshakes) + 2 * Cardinality(row.todo)
      /\ StepsLeft(row) \in Nat
    BY <1>1, LeftIs
<1>4. new - 2 * row.body - row.handshakes + 2 * Cardinality(row.todo)
        < old - 2 * op[o].body - op[o].handshakes + 2 * Cardinality(op[o].todo)
    OBVIOUS
<1> HIDE DEF hops, old, new
<1>5. StepsLeft(row) < StepsLeft(op[o])
    BY <1>1, <1>2, <1>3, <1>4, BrokerAssumption
<1>6. StepsLeft(row) \in 0..(StepsLeft(op[o]) - 1) /\ row.body <= MaxBody
    BY <1>2, <1>3, <1>5, BrokerAssumption
<1> QED
    BY <1>6 DEF UsesUp

LEMMA PlaceUsesUp ==
    ASSUME GateInv, BodyInv, NEW o \in Ops, Active(o),
           NEW pc \in Places \ {"idle", "done"}, NEW row, op' = [op EXCEPT ![o] = row],
           row.pc = pc, row.hops = op[o].hops, row.body = op[o].body,
           row.handshakes = op[o].handshakes, row.todo = op[o].todo,
           Distance[pc] < Distance[op[o].pc]
    PROVE  UsesUp(o)
<1>1. /\ op[o].pc \in Places \ {"idle", "done"}
      /\ op[o].body \in 0..MaxBody /\ op[o].handshakes \in 0..Protocols
      /\ Cardinality(op[o].todo) \in Nat
    BY OperationIsBounded
<1>2. Distance[pc] \in 4..9 /\ Distance[op[o].pc] \in 4..9
    BY <1>1, DistanceIs
<1>3. Distance[pc] - 2 * row.body - row.handshakes + 2 * Cardinality(row.todo)
        < Distance[op[o].pc] - 2 * op[o].body - op[o].handshakes + 2 * Cardinality(op[o].todo)
    BY <1>1, <1>2, BrokerAssumption
<1> QED
    BY <1>1, <1>3, MoveUsesUp

LEMMA EndUsesUp ==
    ASSUME GateInv, BodyInv, NEW o \in Ops, Active(o), Ends(o)
    PROVE  UsesUp(o)
<1>1. PICK result : op' = [op EXCEPT ![o] = Ended(o, result)]
    BY DEF Ends, Finish, Abandon
<1>2. Ended(o, result).body = 0 /\ Ended(o, result).pc = "done"
    BY DEF Ended, Idle
<1>3. StepsLeft(Ended(o, result)) = 0
    BY <1>2 DEF StepsLeft
<1>4. StepsLeft(op[o]) \in Nat /\ StepsLeft(op[o]) > 3
    BY OperationIsBounded, LeftIs
<1>5. 0 \in 0..(StepsLeft(op[o]) - 1) /\ 0 <= MaxBody
    BY <1>4, BrokerAssumption
<1> QED
    BY <1>1, <1>2, <1>3, <1>5 DEF UsesUp

LEMMA ContactUsesUp ==
    ASSUME GateInv, BodyInv, NEW o \in Ops, Active(o),
           NEW pc \in Places \ {"idle", "done"}, NEW key, Contact(o, pc, key),
           Distance[pc] < Distance[op[o].pc]
    PROVE  UsesUp(o)
<1> DEFINE link == Connection(o, key)
           count == Counted(o)
           row == [op[o] EXCEPT !.pc = pc, !.conn = link, !.after = count]
<1>1. op[o] \in OpRow
    BY RowsTyped
<1>2. op' = [op EXCEPT ![o] = row]
    BY DEF Contact, Advance
<1> HIDE DEF link, count
<1>3. /\ row.pc = pc /\ row.hops = op[o].hops /\ row.body = op[o].body
      /\ row.handshakes = op[o].handshakes /\ row.todo = op[o].todo
    BY <1>1 DEF OpRow
<1> HIDE DEF row
<1> QED
    BY <1>2, <1>3, PlaceUsesUp

\* A redirect costs a hop, which is worth more than all that is done in one.
LEMMA RedirectUsesUp ==
    ASSUME GateInv, BodyInv, NEW o \in Ops, op[o].pc = "response", op[o].hops < MaxRedirects,
           NEW host \in Hosts, NEW scheme \in {"http", "https"},
           Advance(o, Redirected(op[o], host, scheme))
    PROVE  UsesUp(o)
<1> DEFINE row == Redirected(op[o], host, scheme)
           left == MaxRedirects - op[o].hops
<1>1. /\ op[o].pc \in Places \ {"idle", "done"}
      /\ op[o].body \in 0..MaxBody /\ op[o].hops \in 0..MaxRedirects
      /\ op[o].handshakes \in 0..Protocols /\ Cardinality(op[o].todo) \in Nat
    BY OperationIsBounded DEF Active
<1>2. /\ row.pc = "pin" /\ row.hops = op[o].hops + 1 /\ row.body = 0
      /\ row.handshakes = op[o].handshakes /\ row.todo = op[o].todo
    BY RowsTyped DEF Redirected, OpRow
<1>3. op' = [op EXCEPT ![o] = row]
    BY DEF Advance
<1> HIDE DEF row
<1>4. left \in Nat /\ left > 0 /\ MaxRedirects - row.hops = left - 1
    BY <1>1, <1>2, BrokerAssumption
<1> DEFINE steps == HopSteps
<1>5. steps \in Nat /\ steps = 2 * MaxBody + 6
    BY BrokerAssumption DEF HopSteps
<1>6. /\ steps * left \in Nat
      /\ StepsLeft(op[o]) = Distance["response"] + 2 * (MaxBody - op[o].body) + steps * left
                              + (Protocols - op[o].handshakes) + 2 * Cardinality(op[o].todo)
      /\ StepsLeft(op[o]) \in Nat
    BY <1>1, LeftIs
<1>7. "pin" \in Places \ {"idle", "done"} /\ row.body \in 0..MaxBody /\ row.hops \in 0..MaxRedirects
    BY <1>1, <1>2, BrokerAssumption DEF Places, Lookups
<1>8. /\ StepsLeft(row) = Distance["pin"] + 2 * (MaxBody - row.body)
                            + HopSteps * (MaxRedirects - row.hops)
                            + (Protocols - row.handshakes) + 2 * Cardinality(row.todo)
      /\ StepsLeft(row) \in Nat
    BY <1>1, <1>2, <1>7, LeftIs
<1>9. StepsLeft(row) = Distance["pin"] + 2 * MaxBody + steps * (left - 1)
                         + (Protocols - op[o].handshakes) + 2 * Cardinality(op[o].todo)
    BY <1>2, <1>4, <1>8, BrokerAssumption
<1>10. Distance["pin"] = 9 /\ Distance["response"] = 4
    BY DEF Distance
<1> HIDE DEF left, steps
<1>11. steps * (left - 1) = steps * left - steps
    BY <1>4, <1>5
<1> DEFINE all == steps * left
<1>12. all \in Nat /\ steps * (left - 1) = all - steps
    BY <1>6, <1>11
<1>13. StepsLeft(op[o]) = 4 + 2 * (MaxBody - op[o].body) + all
                            + (Protocols - op[o].handshakes) + 2 * Cardinality(op[o].todo)
    BY <1>6, <1>10
<1> HIDE DEF all
<1>14. StepsLeft(row) < StepsLeft(op[o])
    BY <1>1, <1>5, <1>9, <1>10, <1>12, <1>13, BrokerAssumption
<1>15. StepsLeft(row) \in 0..(StepsLeft(op[o]) - 1) /\ row.body <= MaxBody
    BY <1>2, <1>6, <1>8, <1>14, BrokerAssumption
<1> QED
    BY <1>3, <1>15 DEF UsesUp

LEMMA AdvanceUsesUp ==
    ASSUME GateInv, BodyInv, NEW o \in Ops, Active(o),
           NEW pc \in Places \ {"idle", "done"}, NEW row, Advance(o, row),
           row.pc = pc, row.hops = op[o].hops, row.body = op[o].body,
           row.handshakes = op[o].handshakes, row.todo = op[o].todo,
           Distance[pc] < Distance[op[o].pc]
    PROVE  UsesUp(o)
BY PlaceUsesUp DEF Advance

LEMMA HttpUsesUp ==
    ASSUME GateInv, BodyInv, NEW o \in Ops, Active(o), HttpStep(o)
    PROVE  UsesUp(o)
<1>1. op[o] \in OpRow
    BY RowsTyped
<1>2. {"headers", "body", "chunk", "response"} \subseteq Places \ {"idle", "done"}
    BY DEF Places, HttpPlaces
<1>3. ASSUME NEW pc \in {"body", "response"}, Advance(o, [op[o] EXCEPT !.pc = pc]),
             Distance[pc] < Distance[op[o].pc]
      PROVE  UsesUp(o)
    <2> DEFINE row == [op[o] EXCEPT !.pc = pc]
    <2>1. /\ row.pc = pc /\ row.hops = op[o].hops /\ row.body = op[o].body
          /\ row.handshakes = op[o].handshakes /\ row.todo = op[o].todo
        BY <1>1 DEF OpRow
    <2>2. Advance(o, row)
        BY <1>3
    <2> HIDE DEF row
    <2> QED
        BY <1>2, <1>3, <2>1, <2>2, AdvanceUsesUp
<1>4. CASE Connect(o)
    BY <1>2, <1>4, ContactUsesUp DEF Connect, Distance
<1>5. CASE ReadHeaders(o)
    <2>1. Ends(o) \/ \E pc \in {"body", "response"} : Advance(o, [op[o] EXCEPT !.pc = pc])
        BY <1>5 DEF ReadHeaders, Ends, Results
    <2>2. \A pc \in {"body", "response"} : Distance[pc] < Distance[op[o].pc]
        BY <1>5 DEF ReadHeaders, Distance
    <2> QED
        BY <1>3, <2>1, <2>2, EndUsesUp
<1>6. CASE ReadBody(o)
    <2> DEFINE count == Counted(o)
               row == [op[o] EXCEPT !.pc = "chunk", !.body = @ + 1, !.after = count]
    <2>1. \/ Ends(o)
          \/ Advance(o, [op[o] EXCEPT !.pc = "response"])
          \/ ~(op[o].body + 1 > MaxBody) /\ op' = [op EXCEPT ![o] = row]
        BY <1>6 DEF ReadBody, Ends, Results, Advance
    <2>2. Distance["response"] < Distance[op[o].pc] /\ op[o].pc = "body"
        BY <1>6 DEF ReadBody, Distance
    <2> HIDE DEF count
    <2>3. CASE ~(op[o].body + 1 > MaxBody) /\ op' = [op EXCEPT ![o] = row]
        <3>1. /\ row.pc = "chunk" /\ row.hops = op[o].hops /\ row.body = op[o].body + 1
              /\ row.handshakes = op[o].handshakes /\ row.todo = op[o].todo
            BY <1>1 DEF OpRow
        <3> HIDE DEF row
        <3>2. /\ op[o].body \in 0..MaxBody /\ op[o].handshakes \in 0..Protocols
              /\ Cardinality(op[o].todo) \in Nat
            BY OperationIsBounded
        <3>3. row.body \in 0..MaxBody
            BY <2>3, <3>1, <3>2, BrokerAssumption
        <3>4. Distance["chunk"] = 6 /\ Distance["body"] = 5
            BY DEF Distance
        <3>5. Distance["chunk"] - 2 * row.body - row.handshakes + 2 * Cardinality(row.todo)
                < Distance[op[o].pc] - 2 * op[o].body - op[o].handshakes + 2 * Cardinality(op[o].todo)
            BY <2>2, <3>1, <3>2, <3>4, BrokerAssumption
        <3> QED
            BY <1>2, <2>3, <3>1, <3>2, <3>3, <3>5, MoveUsesUp
    <2> QED
        BY <1>3, <2>1, <2>2, <2>3, EndUsesUp
<1>7. CASE ChunkCheckpoint(o)
    <2>1. Ends(o) \/ Advance(o, [op[o] EXCEPT !.pc = "body"])
        BY <1>7 DEF ChunkCheckpoint, Ends, Results
    <2>2. Distance["body"] < Distance[op[o].pc]
        BY <1>7 DEF ChunkCheckpoint, Distance
    <2> QED
        BY <1>3, <2>1, <2>2, EndUsesUp
<1>8. CASE Respond(o)
    <2>1. \/ Ends(o)
          \/ /\ ~(op[o].hops >= MaxRedirects)
             /\ \E host \in Hosts, scheme \in {"http", "https"} : Advance(o, Redirected(op[o], host, scheme))
        BY <1>8 DEF Respond, Ends, Results
    <2>2. op[o].hops \in Nat /\ MaxRedirects \in Nat
        BY <1>1, BrokerAssumption DEF OpRow
    <2>3. op[o].pc = "response"
        BY <1>8 DEF Respond
    <2> QED
        BY <2>1, <2>2, <2>3, EndUsesUp, RedirectUsesUp
<1> QED
    BY <1>4, <1>5, <1>6, <1>7, <1>8 DEF HttpStep

LEMMA ProbeUsesUp ==
    ASSUME GateInv, BodyInv, NEW o \in Ops, Active(o),
           TlsStep(o) \/ AuthorizePort(o) \/ ProbePort(o) \/ ProbeMail(o)
    PROVE  UsesUp(o)
<1>1. op[o] \in OpRow /\ RowInv(op[o])
    BY RowsTyped
<1>2. {"second", "inspected", "inconclusive", "probing", "probe_port", "next_port", "conversation"}
         \subseteq Places \ {"idle", "done"}
    BY DEF Places, TlsPlaces, PortPlaces
<1>3. ASSUME NEW pc \in {"probing", "probe_port"}, Advance(o, [op[o] EXCEPT !.pc = pc, !.conn = Nothing]),
             Distance[pc] < Distance[op[o].pc]
      PROVE  UsesUp(o)
    <2> DEFINE row == [op[o] EXCEPT !.pc = pc, !.conn = Nothing]
    <2>1. /\ row.pc = pc /\ row.hops = op[o].hops /\ row.body = op[o].body
          /\ row.handshakes = op[o].handshakes /\ row.todo = op[o].todo
        BY <1>1 DEF OpRow
    <2>2. Advance(o, row)
        BY <1>3
    <2> HIDE DEF row
    <2> QED
        BY <1>2, <1>3, <2>1, <2>2, AdvanceUsesUp
<1>4. /\ op[o].body \in 0..MaxBody /\ op[o].handshakes \in 0..Protocols
      /\ IsFiniteSet(op[o].todo) /\ Cardinality(op[o].todo) \in Nat
    BY OperationIsBounded
<1>5. CASE InspectCertificate(o) \/ HandshakeUnverified(o)
    <2>1. \/ /\ op[o].pc = "pinned"
             /\ \E pc \in {"second", "inspected", "inconclusive"} : Contact(o, pc, FALSE)
          \/ op[o].pc = "second" /\ Contact(o, "inspected", FALSE)
        BY <1>5 DEF InspectCertificate, HandshakeUnverified
    <2>2. /\ \A pc \in {"second", "inspected", "inconclusive"} : Distance[pc] < Distance["pinned"]
          /\ Distance["inspected"] < Distance["second"]
        BY DEF Distance
    <2> QED
        BY <1>2, <2>1, <2>2, ContactUsesUp
<1>6. CASE AuthorizeProbes(o)
    <2>1. op[o].pc = "inspected" => ~OwnBroker(o)
        BY <1>1 DEF RowInv, PlaceInv, TlsPlaces, OwnBroker, Class
    <2>2. Ends(o) \/ (op[o].pc = "inspected" /\ Advance(o, [op[o] EXCEPT !.pc = "probing", !.conn = Nothing]))
        BY <1>6, <2>1 DEF AuthorizeProbes, Ends, Results
    <2>3. Distance["probing"] < Distance["inspected"]
        BY DEF Distance
    <2> QED
        BY <1>3, <2>2, <2>3, EndUsesUp
<1>7. CASE ProbeProtocols(o)
    <2> DEFINE link == Connection(o, FALSE)
               count == Counted(o)
               row == [op[o] EXCEPT !.handshakes = @ + 1, !.conn = link, !.after = count]
    <2>1. Ends(o) \/ (op[o].handshakes # Protocols /\ op' = [op EXCEPT ![o] = row])
        BY <1>7 DEF ProbeProtocols, Advance, Ends, Results
    <2>2. op[o].pc = "probing"
        BY <1>7 DEF ProbeProtocols
    <2> HIDE DEF link, count
    <2>3. CASE op[o].handshakes # Protocols /\ op' = [op EXCEPT ![o] = row]
        <3>1. /\ row.pc = "probing" /\ row.hops = op[o].hops /\ row.body = op[o].body
              /\ row.handshakes = op[o].handshakes + 1 /\ row.todo = op[o].todo
            BY <1>1, <2>2 DEF OpRow
        <3> HIDE DEF row
        <3>2. row.handshakes \in 0..Protocols /\ Distance["probing"] \in 4..9
            BY <1>2, <1>4, <2>3, <3>1, BrokerAssumption, DistanceIs
        <3>3. Distance["probing"] - 2 * row.body - row.handshakes + 2 * Cardinality(row.todo)
                < Distance[op[o].pc] - 2 * op[o].body - op[o].handshakes + 2 * Cardinality(op[o].todo)
            BY <1>4, <2>2, <3>1, <3>2, BrokerAssumption
        <3> QED
            BY <1>2, <1>4, <2>3, <3>1, <3>2, <3>3, MoveUsesUp
    <2> QED
        BY <2>1, <2>3, EndUsesUp
<1>8. CASE AuthorizePort(o)
    <2>1. ~OwnBroker(o)
        BY <1>8 DEF AuthorizePort, OwnBroker
    <2>2. Ends(o) \/ Advance(o, [op[o] EXCEPT !.pc = "probe_port", !.conn = Nothing])
        BY <1>8, <2>1 DEF AuthorizePort, Ends, Results
    <2>3. Distance["probe_port"] < Distance[op[o].pc]
        BY <1>8 DEF AuthorizePort, Distance
    <2> QED
        BY <1>3, <2>2, <2>3, EndUsesUp
<1>9. CASE ProbePort(o)
    <2> DEFINE link == Connection(o, FALSE)
               count == Counted(o)
    <2>1. PICK port \in op[o].todo :
             op' = [op EXCEPT ![o] = [op[o] EXCEPT !.pc = "next_port", !.conn = link,
                                                   !.todo = PortsLeft(@, port), !.after = count]]
        BY <1>9 DEF ProbePort, Advance
    <2> HIDE DEF link, count
    <2> DEFINE row == [op[o] EXCEPT !.pc = "next_port", !.conn = link,
                                    !.todo = PortsLeft(@, port), !.after = count]
    <2>2. /\ row.pc = "next_port" /\ row.hops = op[o].hops /\ row.body = op[o].body
          /\ row.handshakes = op[o].handshakes /\ row.todo = op[o].todo \ {port}
        BY <1>1 DEF OpRow, PortsLeft
    <2>3. op' = [op EXCEPT ![o] = row]
        BY <2>1
    <2> HIDE DEF row
    <2>4. Cardinality(row.todo) = Cardinality(op[o].todo) - 1 /\ Cardinality(row.todo) \in Nat
        BY <1>4, <2>2, FS_RemoveElement, FS_CardinalityType
    <2>5. Distance["next_port"] = 7 /\ Distance["probe_port"] = 6 /\ op[o].pc = "probe_port"
        BY <1>9 DEF ProbePort, Distance
    <2>6. Distance["next_port"] - 2 * row.body - row.handshakes + 2 * Cardinality(row.todo)
            < Distance[op[o].pc] - 2 * op[o].body - op[o].handshakes + 2 * Cardinality(op[o].todo)
        BY <1>4, <2>2, <2>4, <2>5, BrokerAssumption
    <2> QED
        BY <1>2, <1>4, <2>2, <2>3, <2>4, <2>6, MoveUsesUp
<1>10. CASE ProbeMail(o)
    <2>1. Ends(o) \/ (op[o].pc = "pinned" /\ Contact(o, "conversation", FALSE))
        BY <1>10 DEF ProbeMail, Ends, Results
    <2>2. Distance["conversation"] < Distance["pinned"]
        BY DEF Distance
    <2> QED
        BY <1>2, <2>1, <2>2, EndUsesUp, ContactUsesUp
<1> QED
    BY <1>5, <1>6, <1>7, <1>8, <1>9, <1>10 DEF TlsStep

LEMMA StepUsesUp ==
    ASSUME GateInv, BodyInv, NEW o \in Ops, Step(o)
    PROVE  Active(o) /\ UsesUp(o)
<1>1. op[o] \in OpRow /\ Active(o)
    BY RowsTyped, StepShape
<1>2. "resolved" \in Places \ {"idle", "done"} /\ "pinned" \in Places \ {"idle", "done"}
    BY DEF Places, Lookups
<1>3. CASE Resolve(o)
    <2>1. Ends(o) \/ \E answer \in SUBSET Addresses :
                       Advance(o, [op[o] EXCEPT !.pc = "resolved", !.answer = answer])
        BY <1>3 DEF Resolve, Ends, Results
    <2>2. Distance["resolved"] < Distance[op[o].pc]
        <3>1. op[o].pc = "pin"
            BY <1>3 DEF Resolve
        <3> QED
            BY <3>1 DEF Distance
    <2>3. ASSUME NEW answer, Advance(o, [op[o] EXCEPT !.pc = "resolved", !.answer = answer])
          PROVE  UsesUp(o)
        <3> DEFINE row == [op[o] EXCEPT !.pc = "resolved", !.answer = answer]
        <3>1. /\ row.pc = "resolved" /\ row.hops = op[o].hops /\ row.body = op[o].body
              /\ row.handshakes = op[o].handshakes /\ row.todo = op[o].todo
            BY <1>1 DEF OpRow
        <3>2. Advance(o, row)
            BY <2>3
        <3> HIDE DEF row
        <3> QED
            BY <1>1, <1>2, <2>2, <3>1, <3>2, AdvanceUsesUp
    <2> QED
        BY <1>1, <2>1, <2>3, EndUsesUp
<1>4. CASE Pin(o)
    <2>1. \/ Ends(o)
          \/ \E a \in op[o].answer : Advance(o, [op[o] EXCEPT !.pc = "pinned", !.address = a])
        <3>1. ReleasedWhenAbandoned(o) \in BOOLEAN
            BY DEF ReleasedWhenAbandoned
        <3> QED
            BY <1>4, <3>1 DEF Pin, Ends, Results
    <2>2. Distance["pinned"] < Distance[op[o].pc]
        <3>1. op[o].pc = "resolved"
            BY <1>4 DEF Pin
        <3> QED
            BY <3>1 DEF Distance
    <2>3. ASSUME NEW a, Advance(o, [op[o] EXCEPT !.pc = "pinned", !.address = a])
          PROVE  UsesUp(o)
        <3> DEFINE row == [op[o] EXCEPT !.pc = "pinned", !.address = a]
        <3>1. /\ row.pc = "pinned" /\ row.hops = op[o].hops /\ row.body = op[o].body
              /\ row.handshakes = op[o].handshakes /\ row.todo = op[o].todo
            BY <1>1 DEF OpRow
        <3>2. Advance(o, row)
            BY <2>3
        <3> HIDE DEF row
        <3> QED
            BY <1>1, <1>2, <2>2, <3>1, <3>2, AdvanceUsesUp
    <2> QED
        BY <1>1, <2>1, <2>3, EndUsesUp
<1> QED
    BY <1>1, <1>3, <1>4, HttpUsesUp, ProbeUsesUp DEF Step

\* The other operations and the world leave an operation what it has.
LEMMA NothingIsGiven ==
    ASSUME GateInv, BodyInv, [Next]_vars
    PROVE  /\ BodyInv'
           /\ \A o \in Ops : Active(o) =>
                 \/ UsesUp(o)
                 \/ StepsLeft(op'[o]) = StepsLeft(op[o])
<1>1. op \in [Ops -> OpRow] /\ MaxBody \in Nat
    BY BrokerAssumption DEF GateInv
<1>2. ASSUME NEW u \in Ops, NEW row, op' = [op EXCEPT ![u] = row], row.body <= MaxBody,
             Active(u) => UsesUp(u)
      PROVE  /\ BodyInv'
             /\ \A o \in Ops : Active(o) => UsesUp(o) \/ StepsLeft(op'[o]) = StepsLeft(op[o])
    <2>1. \A o \in Ops : op'[o] = IF o = u THEN row ELSE op[o]
        BY <1>1, <1>2
    <2> QED
        BY <1>2, <2>1 DEF BodyInv
<1>3. ASSUME NEW u \in Ops, Begin(u)
      PROVE  /\ BodyInv'
             /\ \A o \in Ops : Active(o) => UsesUp(o) \/ StepsLeft(op'[o]) = StepsLeft(op[o])
    <2>1. ~Active(u)
        BY <1>3 DEF Begin
    <2>2. PICK r : \/ op' = [op EXCEPT ![u] = [Idle EXCEPT !.pc = "pin", !.req = r,
                                !.host = r.host, !.scheme = r.scheme,
                                !.todo = IF r.class = "port_probe" THEN Ports ELSE {}]]
                   \/ op' = [op EXCEPT ![u] = [Idle EXCEPT !.pc = "done", !.req = r,
                                                              !.result = "error"]]
        BY <1>3 DEF Begin
    <2>3. PICK row : op' = [op EXCEPT ![u] = row] /\ row.body = 0
        <3>1. /\ [Idle EXCEPT !.pc = "pin", !.req = r, !.host = r.host, !.scheme = r.scheme,
                              !.todo = IF r.class = "port_probe" THEN Ports ELSE {}].body = 0
              /\ [Idle EXCEPT !.pc = "done", !.req = r, !.result = "error"].body = 0
            BY DEF Idle
        <3> QED
            BY <2>2, <3>1
    <2>4. row.body <= MaxBody
        BY <1>1, <2>3
    <2> QED
        BY <1>2, <2>1, <2>3, <2>4
<1>4. ASSUME NEW u \in Ops, Step(u)
      PROVE  /\ BodyInv'
             /\ \A o \in Ops : Active(o) => UsesUp(o) \/ StepsLeft(op'[o]) = StepsLeft(op[o])
    <2>1. UsesUp(u)
        BY <1>4, StepUsesUp
    <2>2. PICK row : op' = [op EXCEPT ![u] = row] /\ row.body <= MaxBody
        BY <2>1 DEF UsesUp
    <2> QED
        BY <1>2, <2>1, <2>2
<1>5. ASSUME op' = op \/ Recount
      PROVE  /\ BodyInv'
             /\ \A o \in Ops : Active(o) => UsesUp(o) \/ StepsLeft(op'[o]) = StepsLeft(op[o])
    <2>1. ASSUME NEW o \in Ops
          PROVE  op'[o].body = op[o].body /\ StepsLeft(op'[o]) = StepsLeft(op[o])
        <3> DEFINE row == [op[o] EXCEPT !.after = 0]
        <3>1. op'[o] = op[o] \/ op'[o] = row
            BY <1>5 DEF Recount
        <3>2. /\ row.pc = op[o].pc /\ row.body = op[o].body /\ row.hops = op[o].hops
              /\ row.handshakes = op[o].handshakes /\ row.todo = op[o].todo
            BY <1>1 DEF OpRow
        <3> HIDE DEF row
        <3> QED
            BY <3>1, <3>2 DEF StepsLeft
    <2> QED
        BY <2>1 DEF BodyInv
<1> QED
    BY <1>3, <1>4, <1>5
       DEF Next, vars, Halt, ActivateEmergency, DeactivateEmergency, ChallengeLapses

\* However an operation is answered and redirected, it has a bounded number of steps to
\* take and takes one of them each time: with the time limit of each step, it ends.
\* (fetch, inspect_tls, probe_ports, CollectionBudget)
THEOREM OperationsRunOut == Spec => EveryStepCounts
<1>1. Init => BodyInv
    <2>1. Idle.body = 0
        BY DEF Idle
    <2>2. Init => \A o \in Ops : op[o] = Idle
        BY DEF Init
    <2> QED
        BY <2>1, <2>2, BrokerAssumption DEF BodyInv
<1>2. Spec => []BodyInv
    BY <1>1, NothingIsGiven, GateHolds, PTL DEF Spec
<1>3. ASSUME GateInv, BodyInv, [Next]_vars, NEW o \in Ops, Active(o)
      PROVE  /\ StepsLeft(op'[o]) \in 0..StepsLeft(op[o])
             /\ Step(o) => StepsLeft(op'[o]) < StepsLeft(op[o])
    <2>1. StepsLeft(op[o]) \in Nat
        BY <1>3, OperationIsBounded, LeftIs
    <2>2. UsesUp(o) => StepsLeft(op'[o]) \in 0..(StepsLeft(op[o]) - 1)
        BY <1>3 DEF UsesUp, GateInv
    <2>3. UsesUp(o) \/ StepsLeft(op'[o]) = StepsLeft(op[o])
        BY <1>3, NothingIsGiven
    <2>4. Step(o) => UsesUp(o)
        BY <1>3, StepUsesUp
    <2> HIDE DEF StepsLeft
    <2> QED
        BY <2>1, <2>2, <2>3, <2>4
<1>4. GateInv /\ BodyInv /\ [Next]_vars =>
        [\A o \in Ops : Active(o) =>
            /\ StepsLeft(op'[o]) \in 0..StepsLeft(op[o])
            /\ Step(o) => StepsLeft(op'[o]) < StepsLeft(op[o])]_vars
    BY <1>3
<1> QED
    BY <1>2, <1>4, GateHolds, PTL DEF Spec, EveryStepCounts

================================================================================
