---------------------------- MODULE SchedulingProofs ----------------------------
(***************************************************************************)
(* Proofs about schedules, for any number of domains, cadences, passes,    *)
(* requests and hours.  A pass acts on a batch it has read, each schedule  *)
(* in a transaction of its own; what it carries along is a list without    *)
(* repetition and, between a start and its commit, a date that is still to *)
(* come.                                                                   *)
(***************************************************************************)
EXTENDS Scheduling, FiniteSetTheorems, SequenceTheorems, TLAPS

ModeNames == {"passive_observation", "authorized_assessment"}

ScheduleRow ==
    [cadence : Cadences \cup {"off"}, mode : ModeNames, next : Nat \cup {None}]

ControlRow ==
    [state : {"pending", "verified", "failed", "reverification_required"}, until : Nat \cup {None}]

PassRow ==
    [pc : {"idle", "select", "start", "advance", "dead"}, todo : Seq(Domains \X ModeNames),
     next : Nat \cup {None}]

\* A pass works off a list without repetition, and moves a schedule past now.
PassInv(q, hour) ==
    /\ q.pc \in {"start", "advance"} <=> q.todo # << >>
    /\ \A i, j \in 1 .. Len(q.todo) : q.todo[i][1] = q.todo[j][1] => i = j
    /\ q.pc = "advance" => q.next = None \/ q.next > hour

SchedulesInv ==
    /\ now \in 0..MaxTime
    /\ schedule \in [Domains -> ScheduleRow]
    /\ \A d \in Domains : schedule[d].cadence = "off" <=> schedule[d].next = None
    /\ control \in [Domains -> ControlRow]
    /\ published \in BOOLEAN
    /\ running \in [Domains -> Nat]
    /\ pass \in [Passes -> PassRow]
    /\ \A p \in Passes : PassInv(pass[p], now)
    /\ request \in [Requests -> Domains \cup {None}]

\* The passes that will still come to d, and the requests that will add to it.
Lists(q, d) == \E i \in 1 .. Len(q.todo) : q.todo[i][1] = d
Coming(d) == {p \in Passes : Lists(pass[p], d)}
Asking(d) == {r \in Requests : request[r] = d}

\* Each of them looked when no run was in flight, and adds one at most.
Bounded(runs, coming, asking) ==
    runs + Cardinality(coming) + Cardinality(asking)
        <= Cardinality(Passes) + Cardinality(Requests)

CountInv == \A d \in Domains : Bounded(running[d], Coming(d), Asking(d))

\* The date a pass has computed lies behind the one it replaces.
TurnInv ==
    \A p \in Passes :
        pass[p].pc = "advance" /\ pass[p].next # None =>
            LET next == schedule[Head(pass[p].todo)[1]].next
            IN  next = None \/ next < pass[p].next

--------------------------------------------------------------------------------
LEMMA Constants ==
    /\ \A c \in Cadences : Interval[c] \in Nat /\ Interval[c] > 0
    /\ "off" \notin Cadences
    /\ None \notin Domains /\ None \notin Nat
    /\ MaxTime \in Nat /\ ProofLife \in Nat /\ BatchSize \in Nat
    /\ \A d \in Domains : Offer[d] \subseteq Cadences /\ Modes[d] \subseteq ModeNames
BY SchedulingAssumption DEF ModeNames

\* A list that has lost its first member.
LEMMA Shorter ==
    ASSUME NEW q \in PassRow, PassInv(q, now), q.todo # << >>,
           NEW rest, rest = Tail(q.todo)
    PROVE  /\ rest \in Seq(Domains \X ModeNames)
           /\ Len(rest) \in Nat
           /\ \A i, j \in 1 .. Len(rest) : rest[i][1] = rest[j][1] => i = j
           /\ \A i \in 1 .. Len(rest) : i + 1 \in 1 .. Len(q.todo) /\ rest[i] = q.todo[i + 1]
           /\ \A i \in 1 .. Len(rest) : rest[i][1] # q.todo[1][1]
           /\ 1 \in 1 .. Len(q.todo)
           /\ Head(q.todo) = q.todo[1] /\ q.todo[1] \in Domains \X ModeNames
<1>1. q.todo \in Seq(Domains \X ModeNames)
    BY DEF PassRow
<1>2. /\ Len(q.todo) \in Nat /\ Len(q.todo) > 0 /\ Head(q.todo) = q.todo[1]
      /\ rest \in Seq(Domains \X ModeNames) /\ Len(rest) = Len(q.todo) - 1
      /\ \A i \in 1 .. Len(rest) : rest[i] = q.todo[i + 1]
    BY <1>1
<1>3. q.todo[1] \in Domains \X ModeNames
    BY <1>1, <1>2
<1>4. \A i \in 1 .. Len(rest) : i + 1 \in 1 .. Len(q.todo) /\ i + 1 # 1
    BY <1>2
<1>5. \A i, j \in 1 .. Len(q.todo) : q.todo[i][1] = q.todo[j][1] => i = j
    BY DEF PassInv
<1>6. 1 \in 1 .. Len(q.todo)
    BY <1>2
<1>7. ASSUME NEW i \in 1 .. Len(rest), NEW j \in 1 .. Len(rest), rest[i][1] = rest[j][1]
      PROVE  i = j
    <2>1. i + 1 = j + 1
        BY <1>2, <1>4, <1>5, <1>7
    <2> QED
        BY <1>2, <2>1
<1>8. \A i \in 1 .. Len(rest) : rest[i][1] # q.todo[1][1]
    BY <1>2, <1>4, <1>5, <1>6
<1> QED
    BY <1>2, <1>3, <1>4, <1>6, <1>7, <1>8

LEMMA IdleIsRow ==
    /\ IdlePass \in PassRow /\ (\A hour : PassInv(IdlePass, hour)) /\ IdlePass.pc = "idle"
    /\ [IdlePass EXCEPT !.pc = "dead"] \in PassRow
    /\ \A hour : PassInv([IdlePass EXCEPT !.pc = "dead"], hour)
    /\ [IdlePass EXCEPT !.pc = "dead"].pc = "dead"
    /\ \A d : ~Lists(IdlePass, d) /\ ~Lists([IdlePass EXCEPT !.pc = "dead"], d)
<1>1. << >> \in Seq(Domains \X ModeNames) /\ Len(<< >>) = 0
    OBVIOUS
<1>2. /\ IdlePass.pc = "idle" /\ IdlePass.todo = << >> /\ IdlePass \in PassRow
      /\ [IdlePass EXCEPT !.pc = "dead"].pc = "dead"
      /\ [IdlePass EXCEPT !.pc = "dead"].todo = << >>
      /\ [IdlePass EXCEPT !.pc = "dead"] \in PassRow
    BY <1>1 DEF IdlePass, PassRow
<1> QED
    BY <1>1, <1>2 DEF PassInv, Lists

(***************************************************************************)
(* Counting.                                                               *)
(***************************************************************************)
LEMMA Counted ==
    ASSUME NEW C, C \subseteq Passes, NEW A, A \subseteq Requests
    PROVE  /\ IsFiniteSet(C) /\ IsFiniteSet(A)
           /\ Cardinality(C) \in Nat /\ Cardinality(A) \in Nat
           /\ Cardinality(Passes) \in Nat /\ Cardinality(Requests) \in Nat
           /\ Cardinality(C) <= Cardinality(Passes) /\ Cardinality(A) <= Cardinality(Requests)
<1>1. IsFiniteSet(Passes) /\ IsFiniteSet(Requests)
    BY SchedulingAssumption
<1>2. /\ IsFiniteSet(C) /\ Cardinality(C) <= Cardinality(Passes)
      /\ IsFiniteSet(A) /\ Cardinality(A) <= Cardinality(Requests)
    BY <1>1, FS_Subset
<1> QED
    BY <1>1, <1>2, FS_CardinalityType

\* Where no run is in flight, everybody may be about to add one.
LEMMA BoundFresh ==
    ASSUME NEW C, C \subseteq Passes, NEW A, A \subseteq Requests
    PROVE  Bounded(0, C, A)
BY Counted DEF Bounded

LEMMA BoundLess ==
    ASSUME NEW C, C \subseteq Passes, NEW A, A \subseteq Requests, NEW m \in Nat, NEW n \in Nat,
           Bounded(n, C, A), m <= n, NEW D, D \subseteq C, NEW B, B \subseteq A
    PROVE  Bounded(m, D, B)
<1>1. D \subseteq Passes /\ B \subseteq Requests /\ IsFiniteSet(C) /\ IsFiniteSet(A)
    BY Counted
<1>2. Cardinality(D) <= Cardinality(C) /\ Cardinality(B) <= Cardinality(A)
    BY <1>1, FS_Subset
<1>3. /\ Cardinality(C) \in Nat /\ Cardinality(A) \in Nat
      /\ Cardinality(Passes) \in Nat /\ Cardinality(Requests) \in Nat
    BY Counted
<1>4. Cardinality(D) \in Nat /\ Cardinality(B) \in Nat
    BY <1>1, Counted
<1> QED
    BY <1>2, <1>3, <1>4 DEF Bounded

\* Whoever adds a run is not about to add another one.
LEMMA BoundSpent ==
    ASSUME NEW C, C \subseteq Passes, NEW A, A \subseteq Requests, NEW n \in Nat,
           Bounded(n, C, A)
    PROVE  /\ \A p \in C : Bounded(n + 1, C \ {p}, A)
           /\ \A r \in A : Bounded(n + 1, C, A \ {r})
<1>1. /\ Cardinality(C) \in Nat /\ Cardinality(A) \in Nat
      /\ Cardinality(Passes) \in Nat /\ Cardinality(Requests) \in Nat
      /\ IsFiniteSet(C) /\ IsFiniteSet(A)
    BY Counted
<1>2. \A p \in C : Cardinality(C \ {p}) = Cardinality(C) - 1
    BY <1>1, FS_RemoveElement
<1>3. \A r \in A : Cardinality(A \ {r}) = Cardinality(A) - 1
    BY <1>1, FS_RemoveElement
<1> QED
    BY <1>1, <1>2, <1>3 DEF Bounded

\* Nobody has joined those who may add a run to a domain, and none was added.
LEMMA CountStays ==
    ASSUME SchedulesInv, CountInv, running' \in [Domains -> Nat],
           \A d \in Domains :
               /\ running'[d] <= running[d]
               /\ Coming(d)' \subseteq Coming(d)
               /\ Asking(d)' \subseteq Asking(d)
    PROVE  CountInv'
<1> SUFFICES ASSUME NEW d \in Domains PROVE Bounded(running'[d], Coming(d)', Asking(d)')
    BY DEF CountInv, Bounded
<1>1. /\ Coming(d) \subseteq Passes /\ Asking(d) \subseteq Requests
      /\ running[d] \in Nat /\ running'[d] \in Nat
      /\ Bounded(running[d], Coming(d), Asking(d))
    BY DEF Coming, Asking, SchedulesInv, CountInv
<1> HIDE DEF Bounded
<1> QED
    BY <1>1, BoundLess

(***************************************************************************)
(* Steps of a pass.                                                        *)
(***************************************************************************)
\* A pass in which a row takes the place of another.
LEMMA PassMoves ==
    ASSUME SchedulesInv, NEW p \in Passes, NEW row \in PassRow, PassInv(row, now),
           pass' = [pass EXCEPT ![p] = row], UNCHANGED << now, control, published, request >>,
           schedule' \in [Domains -> ScheduleRow],
           \A d \in Domains : schedule'[d].cadence = "off" <=> schedule'[d].next = None,
           running' \in [Domains -> Nat]
    PROVE  /\ SchedulesInv'
           /\ \A q \in Passes : pass'[q] = IF q = p THEN row ELSE pass[q]
<1>1. \A q \in Passes : pass'[q] = IF q = p THEN row ELSE pass[q]
    BY DEF SchedulesInv
<1>2. \A q \in Passes : PassInv(pass'[q], now')
    BY <1>1 DEF SchedulesInv
<1>3. pass' \in [Passes -> PassRow]
    BY DEF SchedulesInv
<1> QED
    BY <1>1, <1>2, <1>3 DEF SchedulesInv

\* What such a row leaves of those who may come to a domain.
LEMMA PassLists ==
    ASSUME NEW p \in Passes, NEW row, \A q \in Passes : pass'[q] = IF q = p THEN row ELSE pass[q],
           \A d \in Domains : Lists(row, d) => Lists(pass[p], d)
    PROVE  \A d \in Domains :
               /\ Coming(d)' \subseteq Coming(d)
               /\ ~Lists(row, d) => Coming(d)' \subseteq Coming(d) \ {p}
BY DEF Coming

LEMMA GoOnRow ==
    ASSUME SchedulesInv, NEW p \in Passes, pass[p].todo # << >>, GoOn(p)
    PROVE  \E row \in PassRow :
               /\ PassInv(row, now)
               /\ pass' = [pass EXCEPT ![p] = row]
               /\ row.pc # "advance"
               /\ ~Lists(row, Head(pass[p].todo)[1])
               /\ \A d : Lists(row, d) => Lists(pass[p], d)
<1> DEFINE rest == Tail(pass[p].todo)
           row == [pc |-> IF rest = << >> THEN "idle" ELSE "start", todo |-> rest, next |-> None]
<1>1. pass[p] \in PassRow /\ PassInv(pass[p], now)
    BY DEF SchedulesInv
<1>2. /\ rest \in Seq(Domains \X ModeNames) /\ Len(rest) \in Nat
      /\ \A i, j \in 1 .. Len(rest) : rest[i][1] = rest[j][1] => i = j
      /\ \A i \in 1 .. Len(rest) : i + 1 \in 1 .. Len(pass[p].todo) /\ rest[i] = pass[p].todo[i + 1]
      /\ \A i \in 1 .. Len(rest) : rest[i][1] # pass[p].todo[1][1]
      /\ Head(pass[p].todo) = pass[p].todo[1]
    BY <1>1, Shorter
<1>3. pass' = [pass EXCEPT ![p] = row]
    BY DEF GoOn
<1> HIDE DEF rest
<1>4. /\ row \in PassRow /\ row.todo = rest /\ row.pc # "advance"
      /\ row.pc \in {"start", "advance"} <=> rest # << >>
    BY <1>2 DEF PassRow
<1> HIDE DEF row
<1>5. PassInv(row, now)
    BY <1>2, <1>4 DEF PassInv
<1>6. ~Lists(row, Head(pass[p].todo)[1])
    BY <1>2, <1>4 DEF Lists
<1>7. \A d : Lists(row, d) => Lists(pass[p], d)
    BY <1>2, <1>4 DEF Lists
<1> QED
    BY <1>3, <1>4, <1>5, <1>6, <1>7

\* A date that is moved on lies ahead, and behind the one it replaces.
LEMMA AdvanceIsAhead ==
    ASSUME NEW cadence \in Cadences \cup {"off"}, NEW previous \in Nat, now \in Nat
    PROVE  /\ AdvanceFrom(cadence, previous) \in Nat \cup {None}
           /\ \/ AdvanceFrom(cadence, previous) = None
              \/ /\ AdvanceFrom(cadence, previous) > now
                 /\ AdvanceFrom(cadence, previous) > previous
           /\ cadence = "off" => AdvanceFrom(cadence, previous) = None
<1>1. CASE cadence = "off"
    BY <1>1 DEF AdvanceFrom
<1>2. CASE cadence \in Cadences
    BY <1>2, Constants DEF AdvanceFrom
<1> QED
    BY <1>1, <1>2

LEMMA ExpireStaleKeeps ==
    ASSUME SchedulesInv, CountInv, NEW p \in Passes, ExpireStale(p)
    PROVE  SchedulesInv' /\ CountInv'
<1> DEFINE row == [pass[p] EXCEPT !.pc = "select"]
<1>1. pass[p] \in PassRow /\ PassInv(pass[p], now) /\ pass[p].pc = "idle"
    BY DEF SchedulesInv, ExpireStale
<1>2. /\ row \in PassRow /\ row.todo = pass[p].todo /\ row.pc = "select"
      /\ pass' = [pass EXCEPT ![p] = row]
    BY <1>1 DEF PassRow, ExpireStale
<1> HIDE DEF row
<1>3. PassInv(row, now) /\ \A d : Lists(row, d) => Lists(pass[p], d)
    BY <1>1, <1>2 DEF PassInv, Lists
<1>4. control' = control
    <2>1. \A d \in Domains : d \notin Updatable("siembiot_worker", None)
        BY DEF Updatable
    <2> QED
        BY <2>1 DEF ExpireStale, SchedulesInv
<1>5. UNCHANGED << now, schedule, control, published, running, request >>
    BY <1>4 DEF ExpireStale
<1>6. SchedulesInv' /\ \A q \in Passes : pass'[q] = IF q = p THEN row ELSE pass[q]
    BY <1>2, <1>3, <1>5, PassMoves DEF SchedulesInv
<1>7. \A d \in Domains : Coming(d)' \subseteq Coming(d) /\ Asking(d)' \subseteq Asking(d)
    BY <1>3, <1>5, <1>6, PassLists DEF Asking
<1> QED
    BY <1>5, <1>6, <1>7, CountStays DEF SchedulesInv

\* A batch names domains that are due, each once.
LEMMA BatchIsDue ==
    ASSUME NEW batch \in DueBatches
    PROVE  /\ batch \in Seq(Domains) /\ Len(batch) \in Nat /\ DOMAIN batch = 1 .. Len(batch)
           /\ \A i \in 1 .. Len(batch) : batch[i] \in Domains /\ Due(batch[i])
           /\ \A i, j \in 1 .. Len(batch) : batch[i] = batch[j] => i = j
<1> DEFINE due == {d \in Domains : Due(d)}
           size == IF Cardinality(due) <= BatchSize THEN Cardinality(due) ELSE BatchSize
<1>1. Cardinality(due) \in Nat
    BY SchedulingAssumption, FS_Subset, FS_CardinalityType
<1>2. size \in Nat
    BY <1>1, Constants
<1>3. /\ batch \in [1 .. size -> due]
      /\ \A i, j \in 1 .. size : i < j => batch[i] # batch[j]
    BY DEF DueBatches
<1> HIDE DEF size
<1>4. batch \in Seq(Domains) /\ Len(batch) = size
    BY <1>2, <1>3
<1>5. \A i, j \in 1 .. size : batch[i] = batch[j] => i = j
    BY <1>2, <1>3
<1> QED
    BY <1>2, <1>3, <1>4, <1>5

LEMMA SelectDueKeeps ==
    ASSUME SchedulesInv, CountInv, NEW p \in Passes, SelectDue(p)
    PROVE  SchedulesInv' /\ CountInv'
<1>1. PICK batch \in DueBatches :
          pass' = [pass EXCEPT ![p].todo =
                     [i \in DOMAIN batch |-> << batch[i], schedule[batch[i]].mode >>],
                     ![p].pc = IF batch = << >> THEN "idle" ELSE "start"]
    BY DEF SelectDue
<1> DEFINE todo == [i \in DOMAIN batch |-> << batch[i], schedule[batch[i]].mode >>]
           row == [pass[p] EXCEPT !.todo = todo, !.pc = IF batch = << >> THEN "idle" ELSE "start"]
<1>2. pass[p] \in PassRow /\ PassInv(pass[p], now) /\ pass[p].pc = "select" /\ pass[p].todo = << >>
    BY DEF SchedulesInv, SelectDue, PassInv
<1>3. /\ batch \in Seq(Domains) /\ Len(batch) \in Nat /\ DOMAIN batch = 1 .. Len(batch)
      /\ \A i \in 1 .. Len(batch) : batch[i] \in Domains /\ Due(batch[i])
      /\ \A i, j \in 1 .. Len(batch) : batch[i] = batch[j] => i = j
    BY BatchIsDue
<1>4. \A i \in 1 .. Len(batch) : schedule[batch[i]].mode \in ModeNames
    BY <1>3 DEF SchedulesInv, ScheduleRow
<1>5. /\ todo \in Seq(Domains \X ModeNames) /\ Len(todo) = Len(batch)
      /\ \A i \in 1 .. Len(batch) : todo[i][1] = batch[i]
    <2>1. todo = [i \in 1 .. Len(batch) |-> << batch[i], schedule[batch[i]].mode >>]
        BY <1>3
    <2>2. todo \in [1 .. Len(batch) -> Domains \X ModeNames]
        BY <1>3, <1>4, <2>1
    <2> QED
        BY <1>3, <2>1, <2>2
<1>6. batch = << >> <=> todo = << >>
    BY <1>3, <1>5
<1>7. pass' = [pass EXCEPT ![p] = row]
    BY <1>1
<1> HIDE DEF todo
<1>8. row \in PassRow /\ row.todo = todo /\ row.pc = IF batch = << >> THEN "idle" ELSE "start"
    BY <1>2, <1>5 DEF PassRow
<1> HIDE DEF row
<1>9. PassInv(row, now)
    BY <1>3, <1>5, <1>6, <1>8 DEF PassInv
<1>10. UNCHANGED << now, schedule, control, published, running, request >>
    BY DEF SelectDue
<1>11. SchedulesInv' /\ \A q \in Passes : pass'[q] = IF q = p THEN row ELSE pass[q]
    BY <1>7, <1>8, <1>9, <1>10, PassMoves DEF SchedulesInv
<1>12. ASSUME NEW d \in Domains PROVE Bounded(running'[d], Coming(d)', Asking(d)')
    <2>1. Asking(d)' = Asking(d) /\ running'[d] = running[d] /\ running[d] \in Nat
        BY <1>10 DEF Asking, SchedulesInv
    <2>2. /\ Coming(d) \subseteq Passes /\ Coming(d)' \subseteq Passes /\ Asking(d) \subseteq Requests
          /\ Bounded(running[d], Coming(d), Asking(d))
        BY DEF Coming, Asking, CountInv
    <2>3. CASE Lists(row, d)
        <3>1. running[d] = 0
            BY <1>3, <1>5, <1>8, <2>3 DEF Lists, Due
        <3> QED
            BY <2>1, <2>2, <3>1, BoundFresh
    <2>4. CASE ~Lists(row, d)
        <3>1. Coming(d)' \subseteq Coming(d)
            BY <1>11, <2>4 DEF Coming
        <3> QED
            BY <2>1, <2>2, <3>1, BoundLess
    <2> QED
        BY <2>3, <2>4
<1> QED
    BY <1>11, <1>12 DEF CountInv, Bounded

\* A pass whose row is replaced by one that comes to no more domains, and which
\* leaves the tables alone.
LEMMA QuietPass ==
    ASSUME SchedulesInv, CountInv, NEW p \in Passes, NEW row \in PassRow, PassInv(row, now),
           pass' = [pass EXCEPT ![p] = row],
           UNCHANGED << now, schedule, control, published, running, request >>,
           \A d : Lists(row, d) => Lists(pass[p], d)
    PROVE  SchedulesInv' /\ CountInv'
<1>1. SchedulesInv' /\ \A q \in Passes : pass'[q] = IF q = p THEN row ELSE pass[q]
    BY PassMoves DEF SchedulesInv
<1>2. \A d \in Domains : Coming(d)' \subseteq Coming(d) /\ Asking(d)' \subseteq Asking(d)
    BY <1>1, PassLists DEF Asking
<1> QED
    BY <1>1, <1>2, CountStays DEF SchedulesInv

LEMMA PassEndsKeeps ==
    ASSUME SchedulesInv, CountInv, NEW p \in Passes, PassDies(p) \/ BeatRestarts(p)
    PROVE  SchedulesInv' /\ CountInv'
<1>1. CASE PassDies(p)
    BY <1>1, IdleIsRow, QuietPass DEF PassDies
<1>2. CASE BeatRestarts(p)
    BY <1>2, IdleIsRow, QuietPass DEF BeatRestarts
<1> QED
    BY <1>1, <1>2

\* The first schedule on the list of a pass.
LEMMA FirstListed ==
    ASSUME SchedulesInv, NEW p \in Passes, pass[p].pc \in {"start", "advance"}
    PROVE  /\ pass[p] \in PassRow /\ PassInv(pass[p], now) /\ pass[p].todo # << >>
           /\ Head(pass[p].todo)[1] \in Domains /\ Head(pass[p].todo)[2] \in ModeNames
           /\ Lists(pass[p], Head(pass[p].todo)[1])
<1>1. pass[p] \in PassRow /\ PassInv(pass[p], now) /\ pass[p].todo # << >>
    BY DEF SchedulesInv, PassInv
<1>2. /\ 1 \in 1 .. Len(pass[p].todo)
      /\ Head(pass[p].todo) = pass[p].todo[1] /\ pass[p].todo[1] \in Domains \X ModeNames
    BY <1>1, Shorter
<1> QED
    BY <1>1, <1>2 DEF Lists

\* What a start leaves in the locals of its pass.
LEMMA StartRunRow ==
    ASSUME SchedulesInv, NEW p \in Passes, StartRun(p)
    PROVE  \E row \in PassRow :
               /\ PassInv(row, now)
               /\ pass' = [pass EXCEPT ![p] = row]
               /\ \A d : Lists(row, d) => Lists(pass[p], d)
               /\ row.pc = "advance" /\ row.next # None =>
                     LET next == schedule[Head(row.todo)[1]].next
                     IN  next = None \/ next < row.next
<1> DEFINE d == Head(pass[p].todo)[1]
           mode == Head(pass[p].todo)[2]
           previous == IF schedule[d].next = None THEN now ELSE schedule[d].next
           moved == AdvanceFrom(schedule[d].cadence, previous)
<1>1. /\ pass[p] \in PassRow /\ PassInv(pass[p], now) /\ pass[p].todo # << >>
      /\ d \in Domains
    BY FirstListed DEF StartRun
<1>2. CASE GoOn(p)
    BY <1>1, <1>2, GoOnRow
<1>3. CASE pass' = [pass EXCEPT ![p] = IdlePass]
    BY <1>3, IdleIsRow
<1>4. CASE pass' = [pass EXCEPT ![p].pc = "advance", ![p].next = moved]
    <2>1. /\ schedule[d] \in ScheduleRow /\ now \in Nat
          /\ schedule[d].cadence \in Cadences \cup {"off"} /\ schedule[d].next \in Nat \cup {None}
          /\ previous \in Nat
        BY <1>1, Constants DEF SchedulesInv, ScheduleRow
    <2>2. /\ moved \in Nat \cup {None}
          /\ moved = None \/ (moved > now /\ moved > previous)
        BY <2>1, AdvanceIsAhead
    <2> DEFINE row == [pass[p] EXCEPT !.pc = "advance", !.next = moved]
    <2>3. pass' = [pass EXCEPT ![p] = row]
        BY <1>4
    <2> HIDE DEF moved
    <2>4. /\ row \in PassRow /\ row.todo = pass[p].todo /\ row.pc = "advance" /\ row.next = moved
        BY <1>1, <2>2 DEF PassRow
    <2> HIDE DEF row
    <2>5. PassInv(row, now)
        BY <1>1, <2>2, <2>4 DEF PassInv
    <2>6. row.next # None => schedule[d].next = None \/ schedule[d].next < row.next
        BY <2>1, <2>2, <2>4
    <2>7. \A e : Lists(row, e) => Lists(pass[p], e)
        BY <2>4 DEF Lists
    <2> QED
        BY <2>3, <2>4, <2>5, <2>6, <2>7
<1> QED
    BY <1>2, <1>3, <1>4 DEF StartRun

LEMMA StartRunKeeps ==
    ASSUME SchedulesInv, CountInv, NEW p \in Passes, StartRun(p)
    PROVE  SchedulesInv' /\ CountInv'
<1>1. UNCHANGED << now, schedule, control, published, running, request >>
    BY DEF StartRun
<1> QED
    BY <1>1, StartRunRow, QuietPass

\* A commit keeps nothing, or adds a run and moves the schedule to a date that
\* lies ahead.
LEMMA CommitRunStep ==
    ASSUME SchedulesInv, NEW p \in Passes, CommitRun(p)
    PROVE  \E row \in PassRow, next \in Nat \cup {None} :
               LET d == Head(pass[p].todo)[1]
               IN  /\ PassInv(row, now) /\ row.pc # "advance"
                   /\ pass' = [pass EXCEPT ![p] = row]
                   /\ \A e : Lists(row, e) => Lists(pass[p], e)
                   /\ \/ UNCHANGED << schedule, running >>
                      \/ /\ ~Lists(row, d)
                         /\ running' = [running EXCEPT ![d] = @ + 1]
                         /\ schedule' = [schedule EXCEPT ![d].next = next]
                         /\ next = None <=> schedule[d].cadence = "off"
                         /\ next # None => next > now /\ next = pass[p].next
<1> DEFINE d == Head(pass[p].todo)[1]
           next == IF schedule[d].cadence = "off" THEN None ELSE pass[p].next
<1>1. /\ pass[p] \in PassRow /\ PassInv(pass[p], now) /\ pass[p].todo # << >> /\ pass[p].pc = "advance"
    BY FirstListed DEF CommitRun
<1>2. next \in Nat \cup {None} /\ (next # None => next > now /\ next = pass[p].next)
    BY <1>1 DEF PassRow, PassInv
<1>3. CASE schedule[d].cadence # "off" /\ next = None
    BY <1>2, <1>3, IdleIsRow DEF CommitRun
<1>4. CASE ~(schedule[d].cadence # "off" /\ next = None)
    <2>1. /\ running' = [running EXCEPT ![d] = @ + 1]
          /\ schedule' = [schedule EXCEPT ![d].next = next]
          /\ GoOn(p)
        BY <1>4 DEF CommitRun
    <2>2. next = None <=> schedule[d].cadence = "off"
        BY <1>4
    <2>3. PICK row \in PassRow :
              /\ PassInv(row, now)
              /\ pass' = [pass EXCEPT ![p] = row]
              /\ row.pc # "advance"
              /\ ~Lists(row, d)
              /\ \A e : Lists(row, e) => Lists(pass[p], e)
        BY <1>1, <2>1, GoOnRow
    <2> HIDE DEF next
    <2> QED
        BY <1>2, <2>1, <2>2, <2>3
<1> QED
    BY <1>3, <1>4

LEMMA CommitRunKeeps ==
    ASSUME SchedulesInv, CountInv, NEW p \in Passes, CommitRun(p)
    PROVE  SchedulesInv' /\ CountInv'
<1> DEFINE d == Head(pass[p].todo)[1]
<1>1. d \in Domains /\ Lists(pass[p], d)
    BY FirstListed DEF CommitRun
<1>2. UNCHANGED << now, control, published, request >>
    BY DEF CommitRun
<1>3. PICK row \in PassRow, next \in Nat \cup {None} :
          /\ PassInv(row, now) /\ row.pc # "advance"
          /\ pass' = [pass EXCEPT ![p] = row]
          /\ \A e : Lists(row, e) => Lists(pass[p], e)
          /\ \/ UNCHANGED << schedule, running >>
             \/ /\ ~Lists(row, d)
                /\ running' = [running EXCEPT ![d] = @ + 1]
                /\ schedule' = [schedule EXCEPT ![d].next = next]
                /\ next = None <=> schedule[d].cadence = "off"
                /\ next # None => next > now /\ next = pass[p].next
    BY CommitRunStep
<1> HIDE DEF d
<1>4. CASE UNCHANGED << schedule, running >>
    BY <1>2, <1>3, <1>4, QuietPass
<1>5. CASE /\ ~Lists(row, d)
           /\ running' = [running EXCEPT ![d] = @ + 1]
           /\ schedule' = [schedule EXCEPT ![d].next = next]
           /\ next = None <=> schedule[d].cadence = "off"
    <2>1. running' \in [Domains -> Nat] /\ running'[d] = running[d] + 1
        BY <1>1, <1>5 DEF SchedulesInv
    <2>2. /\ schedule' \in [Domains -> ScheduleRow]
          /\ \A e \in Domains : schedule'[e].cadence = "off" <=> schedule'[e].next = None
        BY <1>1, <1>3, <1>5 DEF SchedulesInv, ScheduleRow
    <2>3. SchedulesInv' /\ \A q \in Passes : pass'[q] = IF q = p THEN row ELSE pass[q]
        BY <1>2, <1>3, <2>1, <2>2, PassMoves
    <2>4. \A e \in Domains :
              /\ Coming(e)' \subseteq Coming(e)
              /\ ~Lists(row, e) => Coming(e)' \subseteq Coming(e) \ {p}
        BY <1>3, <2>3, PassLists
    <2>5. ASSUME NEW e \in Domains PROVE Bounded(running'[e], Coming(e)', Asking(e)')
        <3>1. /\ Coming(e) \subseteq Passes /\ Asking(e) \subseteq Requests
              /\ running[e] \in Nat /\ Bounded(running[e], Coming(e), Asking(e))
              /\ Asking(e)' = Asking(e)
            BY <1>2 DEF Coming, Asking, CountInv, SchedulesInv
        <3>2. CASE e = d
            <4>1. p \in Coming(e) /\ Coming(e)' \subseteq Coming(e) \ {p}
                BY <1>1, <1>5, <2>4, <3>2 DEF Coming
            <4>2. Bounded(running[e] + 1, Coming(e) \ {p}, Asking(e))
                BY <3>1, <4>1, BoundSpent
            <4>3. running'[e] = running[e] + 1 /\ Coming(e) \ {p} \subseteq Passes
                BY <2>1, <3>1, <3>2
            <4> QED
                BY <3>1, <4>1, <4>2, <4>3, BoundLess
        <3>3. CASE e # d
            <4>1. running'[e] = running[e]
                BY <1>1, <1>5, <3>3 DEF SchedulesInv
            <4> QED
                BY <2>4, <3>1, <4>1, BoundLess
        <3> QED
            BY <3>2, <3>3
    <2> QED
        BY <2>3, <2>5 DEF CountInv, Bounded
<1> QED
    BY <1>3, <1>4, <1>5

(***************************************************************************)
(* Steps of the environment.                                               *)
(***************************************************************************)
\* A step that leaves the passes, the requests and the clock alone, and adds no
\* run.
LEMMA TablesKeep ==
    ASSUME SchedulesInv, CountInv, UNCHANGED << now, pass, request >>,
           schedule' \in [Domains -> ScheduleRow],
           \A d \in Domains : schedule'[d].cadence = "off" <=> schedule'[d].next = None,
           control' \in [Domains -> ControlRow], published' \in BOOLEAN,
           running' \in [Domains -> Nat], \A d \in Domains : running'[d] <= running[d]
    PROVE  SchedulesInv' /\ CountInv'
<1>1. SchedulesInv'
    BY DEF SchedulesInv
<1>2. \A d \in Domains : Coming(d)' = Coming(d) /\ Asking(d)' = Asking(d)
    BY DEF Coming, Asking
<1> QED
    BY <1>1, <1>2, CountStays

LEMMA SetScheduleKeeps ==
    ASSUME SchedulesInv, CountInv, UserEdits
    PROVE  SchedulesInv' /\ CountInv'
<1>0. PICK d \in Domains :
          \E cadence \in Offer[d] \cup {"off"}, mode \in Modes[d] : SetSchedule(d, cadence, mode)
    BY DEF UserEdits
<1>1. PICK cadence \in Offer[d] \cup {"off"}, mode \in Modes[d] : SetSchedule(d, cadence, mode)
    BY <1>0
<1> DEFINE old == schedule[d]
           next == IF cadence = "off" THEN None
                   ELSE IF old.cadence = cadence /\ old.next # None THEN old.next ELSE now
<1>2. cadence \in Cadences \cup {"off"} /\ mode \in ModeNames
    BY Constants
<1>3. old \in ScheduleRow /\ now \in Nat
    BY Constants DEF SchedulesInv
<1>4. next \in Nat \cup {None} /\ (cadence = "off" <=> next = None)
    BY <1>3, Constants DEF ScheduleRow
<1>5. schedule' = [schedule EXCEPT ![d] = [cadence |-> cadence, mode |-> mode, next |-> next]]
    BY <1>1 DEF SetSchedule
<1> HIDE DEF next, old
<1>6. /\ schedule' \in [Domains -> ScheduleRow]
      /\ \A e \in Domains : schedule'[e].cadence = "off" <=> schedule'[e].next = None
    BY <1>2, <1>4, <1>5 DEF SchedulesInv, ScheduleRow
<1>7. UNCHANGED << now, control, published, running, pass, request >>
    BY <1>1 DEF SetSchedule
<1> QED
    BY <1>6, <1>7, TablesKeep DEF SchedulesInv

LEMMA ControlKeeps ==
    ASSUME SchedulesInv, CountInv, NEW d \in Domains, Verify(d) \/ FailProof(d)
    PROVE  SchedulesInv' /\ CountInv'
<1>1. /\ [state |-> "verified", until |-> now + ProofLife] \in ControlRow
      /\ [state |-> "failed", until |-> None] \in ControlRow
    BY Constants DEF ControlRow, SchedulesInv
<1>2. control' \in [Domains -> ControlRow]
    BY <1>1 DEF Verify, FailProof, SchedulesInv
<1>3. UNCHANGED << now, schedule, published, running, pass, request >>
    BY DEF Verify, FailProof
<1> QED
    BY <1>2, <1>3, TablesKeep DEF SchedulesInv

LEMMA PublishKeeps ==
    ASSUME SchedulesInv, CountInv, PublishMethodology
    PROVE  SchedulesInv' /\ CountInv'
BY TablesKeep DEF PublishMethodology, SchedulesInv

LEMMA RunSettlesKeeps ==
    ASSUME SchedulesInv, CountInv, NEW d \in Domains, RunSettles(d)
    PROVE  SchedulesInv' /\ CountInv'
<1>1. /\ running' \in [Domains -> Nat]
      /\ \A e \in Domains : running'[e] <= running[e]
    BY DEF RunSettles, SchedulesInv
<1>2. UNCHANGED << now, schedule, control, published, pass, request >>
    BY DEF RunSettles
<1> QED
    BY <1>1, <1>2, TablesKeep DEF SchedulesInv

LEMMA TickKeeps ==
    ASSUME SchedulesInv, CountInv, Tick
    PROVE  SchedulesInv' /\ CountInv'
<1>1. UNCHANGED << schedule, control, published, running, pass, request >> /\ now' \in 0..MaxTime
    BY Constants DEF Tick, SchedulesInv
<1>2. \A p \in Passes : PassInv(pass'[p], now')
    BY <1>1 DEF Tick, SchedulesInv, PassInv
<1>3. SchedulesInv'
    BY <1>1, <1>2 DEF SchedulesInv
<1>4. \A d \in Domains : Coming(d)' = Coming(d) /\ Asking(d)' = Asking(d)
    BY <1>1 DEF Coming, Asking
<1> QED
    BY <1>1, <1>3, <1>4, CountStays DEF SchedulesInv

\* A request that found no run in flight may add one.
LEMMA FindNoRunKeeps ==
    ASSUME SchedulesInv, CountInv, NEW r \in Requests, NEW d \in Domains, FindNoRun(r, d)
    PROVE  SchedulesInv' /\ CountInv'
<1>1. /\ request' = [request EXCEPT ![r] = d] /\ running[d] = 0
      /\ UNCHANGED << now, schedule, control, published, running, pass >>
    BY DEF FindNoRun
<1>2. SchedulesInv'
    BY <1>1 DEF SchedulesInv
<1>3. ASSUME NEW e \in Domains PROVE Bounded(running'[e], Coming(e)', Asking(e)')
    <2>1. /\ Coming(e) \subseteq Passes /\ Asking(e) \subseteq Requests /\ Asking(e)' \subseteq Requests
          /\ Bounded(running[e], Coming(e), Asking(e)) /\ running[e] \in Nat
          /\ Coming(e)' = Coming(e) /\ running'[e] = running[e]
        BY <1>1 DEF Coming, Asking, CountInv, SchedulesInv
    <2>2. CASE e = d
        BY <1>1, <2>1, <2>2, BoundFresh
    <2>3. CASE e # d
        <3>1. Asking(e)' \subseteq Asking(e)
            BY <1>1, <2>3 DEF Asking, SchedulesInv
        <3> QED
            BY <2>1, <3>1, BoundLess
    <2> QED
        BY <2>2, <2>3
<1> QED
    BY <1>2, <1>3 DEF CountInv, Bounded

\* It adds that one, and asks no longer.
LEMMA QueueRunKeeps ==
    ASSUME SchedulesInv, CountInv, NEW r \in Requests, QueueRun(r)
    PROVE  SchedulesInv' /\ CountInv'
<1> DEFINE d == request[r]
<1>1. /\ running' = [running EXCEPT ![d] = @ + 1]
      /\ request' = [request EXCEPT ![r] = None]
      /\ UNCHANGED << now, schedule, control, published, pass >>
    BY DEF QueueRun
<1>2. d \in Domains
    BY DEF QueueRun, SchedulesInv
<1> HIDE DEF d
<1>3. running' \in [Domains -> Nat] /\ running'[d] = running[d] + 1
    BY <1>1, <1>2 DEF SchedulesInv
<1>4. SchedulesInv'
    BY <1>1, <1>3 DEF SchedulesInv
<1>5. ASSUME NEW e \in Domains PROVE Bounded(running'[e], Coming(e)', Asking(e)')
    <2>1. /\ Coming(e) \subseteq Passes /\ Asking(e) \subseteq Requests
          /\ Bounded(running[e], Coming(e), Asking(e)) /\ running[e] \in Nat
          /\ Coming(e)' = Coming(e) /\ Asking(e)' \subseteq Asking(e) \ {r}
        BY <1>1, Constants DEF Coming, Asking, CountInv, SchedulesInv
    <2>2. CASE e = d
        <3>1. r \in Asking(e)
            BY <2>2 DEF Asking, d
        <3>2. Bounded(running[e] + 1, Coming(e), Asking(e) \ {r})
            BY <2>1, <3>1, BoundSpent
        <3>3. Asking(e) \ {r} \subseteq Requests /\ running'[e] = running[e] + 1
            BY <1>3, <2>1, <2>2
        <3> QED
            BY <2>1, <3>2, <3>3, BoundLess
    <2>3. CASE e # d
        <3>1. running'[e] = running[e]
            BY <1>1, <1>2, <2>3 DEF SchedulesInv
        <3> QED
            BY <2>1, <3>1, BoundLess
    <2> QED
        BY <2>2, <2>3
<1> QED
    BY <1>4, <1>5 DEF CountInv, Bounded

LEMMA NextKeeps ==
    ASSUME SchedulesInv, CountInv, [Next]_vars
    PROVE  SchedulesInv' /\ CountInv'
<1>1. CASE UserEdits
    BY <1>1, SetScheduleKeeps
<1>2. ASSUME NEW r \in Requests, QueueRun(r) \/ \E d \in Domains : FindNoRun(r, d)
      PROVE  SchedulesInv' /\ CountInv'
    BY <1>2, QueueRunKeeps, FindNoRunKeeps
<1>3. ASSUME NEW p \in Passes, Pass(p) \/ PassDies(p)
      PROVE  SchedulesInv' /\ CountInv'
    BY <1>3, ExpireStaleKeeps, SelectDueKeeps, StartRunKeeps, CommitRunKeeps, PassEndsKeeps DEF Pass
<1>4. ASSUME NEW d \in Domains, Verify(d) \/ FailProof(d) \/ RunSettles(d)
      PROVE  SchedulesInv' /\ CountInv'
    BY <1>4, ControlKeeps, RunSettlesKeeps
<1>5. CASE PublishMethodology
    BY <1>5, PublishKeeps
<1>6. CASE Tick
    BY <1>6, TickKeeps
<1>7. CASE UNCHANGED vars
    BY <1>7, TablesKeep DEF vars, SchedulesInv
<1> QED
    BY <1>1, <1>2, <1>3, <1>4, <1>5, <1>6, <1>7 DEF Next

LEMMA InitKeeps ==
    ASSUME Init
    PROVE  SchedulesInv /\ CountInv
<1>1. SchedulesInv
    <2>1. now \in 0..MaxTime
        BY Constants DEF Init
    <2>2. published \in BOOLEAN /\ running \in [Domains -> Nat]
        BY DEF Init
    <2>3. /\ schedule \in [Domains -> ScheduleRow]
          /\ \A d \in Domains : schedule[d].cadence = "off" <=> schedule[d].next = None
        BY DEF Init, ScheduleRow, ModeNames
    <2>4. control \in [Domains -> ControlRow]
        BY DEF Init, ControlRow
    <2>5. /\ pass \in [Passes -> PassRow] /\ \A p \in Passes : PassInv(pass[p], now)
          /\ request \in [Requests -> Domains \cup {None}]
        BY IdleIsRow DEF Init
    <2> QED
        BY <2>1, <2>2, <2>3, <2>4, <2>5 DEF SchedulesInv
<1>2. ASSUME NEW d \in Domains PROVE Bounded(running[d], Coming(d), Asking(d))
    <2>1. running[d] = 0 /\ Coming(d) \subseteq Passes /\ Asking(d) \subseteq Requests
        BY DEF Init, Coming, Asking
    <2> QED
        BY <2>1, BoundFresh
<1> QED
    BY <1>1, <1>2 DEF CountInv, Bounded

\* The tables, the lists of the passes and the dates they carry stay in order,
\* and what is in flight and what may still be added stay within the number of
\* passes and requests.
THEOREM SchedulesHold == Spec => [](SchedulesInv /\ CountInv)
<1>1. Init => SchedulesInv /\ CountInv
    BY InitKeeps
<1>2. SchedulesInv /\ CountInv /\ [Next]_vars => SchedulesInv' /\ CountInv'
    BY NextKeeps
<1> QED
    BY <1>1, <1>2, PTL DEF Spec

\* app_due_schedules and a POST refuse a domain with a run in flight, yet look
\* some time before they insert: runs of a domain pile up to the number of
\* passes and requests at work, and no further.
THEOREM RunsBounded == Spec => []RunsAreBounded
<1>1. SchedulesInv /\ CountInv => RunsAreBounded
    <2> SUFFICES ASSUME SchedulesInv, CountInv, NEW d \in Domains
                 PROVE  running[d] <= Cardinality(Passes) + Cardinality(Requests)
        BY DEF RunsAreBounded
    <2>1. /\ Coming(d) \subseteq Passes /\ Asking(d) \subseteq Requests /\ running[d] \in Nat
          /\ running[d] + Cardinality(Coming(d)) + Cardinality(Asking(d))
                <= Cardinality(Passes) + Cardinality(Requests)
        BY DEF Coming, Asking, SchedulesInv, CountInv, Bounded
    <2>2. /\ Cardinality(Coming(d)) \in Nat /\ Cardinality(Asking(d)) \in Nat
          /\ Cardinality(Passes) \in Nat /\ Cardinality(Requests) \in Nat
        BY <2>1, Counted
    <2> QED
        BY <2>1, <2>2
<1> QED
    BY <1>1, SchedulesHold, PTL

\* What moves a schedule or adds a run: a user who edits it, a request, and the
\* commit of a pass.
LEMMA OnlyThese ==
    ASSUME SchedulesInv, [Next]_vars
    PROVE  \/ UserEdits
           \/ \E r \in Requests : QueueRun(r)
           \/ \E p \in Passes : CommitRun(p)
           \/ UNCHANGED schedule /\ \A d \in Domains : ~(running'[d] > running[d])
<1> DEFINE Quiet == UNCHANGED schedule /\ \A d \in Domains : ~(running'[d] > running[d])
<1>1. ASSUME UNCHANGED << schedule, running >> PROVE Quiet
    BY <1>1 DEF SchedulesInv
<1>2. ASSUME NEW d \in Domains, RunSettles(d) PROVE Quiet
    BY <1>2 DEF RunSettles, SchedulesInv
<1> HIDE DEF Quiet
<1>3. CASE Next
    <2>1. ASSUME NEW r \in Requests, NEW d \in Domains, FindNoRun(r, d) PROVE Quiet
        BY <1>1, <2>1 DEF FindNoRun
    <2>2. ASSUME NEW p \in Passes, Pass(p) \/ PassDies(p), ~CommitRun(p) PROVE Quiet
        BY <1>1, <2>2 DEF Pass, PassDies, ExpireStale, SelectDue, StartRun, BeatRestarts
    <2>3. ASSUME NEW d \in Domains, Verify(d) \/ FailProof(d) PROVE Quiet
        BY <1>1, <2>3 DEF Verify, FailProof
    <2>4. ASSUME PublishMethodology \/ Tick PROVE Quiet
        BY <1>1, <2>4 DEF PublishMethodology, Tick
    <2> QED
        BY <1>2, <1>3, <2>1, <2>2, <2>3, <2>4 DEF Next, Quiet
<1>4. CASE UNCHANGED vars
    BY <1>1, <1>4 DEF vars, Quiet
<1> QED
    BY <1>3, <1>4

\* The start and the move of a schedule are one transaction, and advance_from
\* goes on from the present when the slot after the last lies in the past: a
\* pass that adds a run leaves a schedule that is off or lies ahead, whatever
\* other passes and users did since it read its batch.
THEOREM BacklogNotReplayed == Spec => BacklogIsNotReplayed
<1>1. ASSUME SchedulesInv, [Next]_vars, NEW d \in Domains, running'[d] > running[d],
             \A r \in Requests : request[r] = request'[r]
      PROVE  schedule'[d].next = None \/ schedule'[d].next > now
    <2>1. CASE UserEdits
        BY <1>1, <2>1 DEF UserEdits, SetSchedule, SchedulesInv
    <2>2. ASSUME NEW r \in Requests, QueueRun(r) PROVE FALSE
        BY <1>1, <2>2 DEF QueueRun, SchedulesInv
    <2>3. ASSUME NEW p \in Passes, CommitRun(p)
          PROVE  schedule'[d].next = None \/ schedule'[d].next > now
        <3> DEFINE e == Head(pass[p].todo)[1]
        <3>1. e \in Domains
            BY <1>1, <2>3, FirstListed DEF CommitRun
        <3>2. PICK next \in Nat \cup {None} :
                  \/ UNCHANGED << schedule, running >>
                  \/ /\ running' = [running EXCEPT ![e] = @ + 1]
                     /\ schedule' = [schedule EXCEPT ![e].next = next]
                     /\ next # None => next > now
            BY <1>1, <2>3, CommitRunStep
        <3> HIDE DEF e
        <3>3. ~UNCHANGED << schedule, running >>
            BY <1>1 DEF SchedulesInv
        <3>4. d = e
            BY <1>1, <3>1, <3>2, <3>3 DEF SchedulesInv
        <3>5. schedule'[d].next = next
            BY <1>1, <3>1, <3>2, <3>3, <3>4 DEF SchedulesInv, ScheduleRow
        <3> QED
            BY <3>2, <3>3, <3>5
    <2> QED
        BY <1>1, <2>1, <2>2, <2>3, OnlyThese
<1>2. SchedulesInv /\ CountInv /\ [Next]_vars =>
         [\A d \in Domains :
             /\ running'[d] > running[d]
             /\ \A r \in Requests : request[r] = request'[r]
             => schedule'[d].next = None \/ schedule'[d].next > now]_vars
    BY <1>1
<1> QED
    BY <1>2, SchedulesHold, PTL DEF Spec, BacklogIsNotReplayed

(***************************************************************************)
(* One pass at a time, as celery beat starts them.  Of two passes, the one *)
(* that has computed its date from a shorter cadence may commit after the  *)
(* other has moved the schedule further.                                   *)
(***************************************************************************)
OnePass == \A p, q \in Passes : p = q

LEMMA TurnKept ==
    ASSUME OnePass, SchedulesInv, CountInv, TurnInv, [Next]_vars
    PROVE  TurnInv'
<1> SUFFICES ASSUME NEW p \in Passes, pass'[p].pc = "advance", pass'[p].next # None
             PROVE  LET next == schedule'[Head(pass'[p].todo)[1]].next
                    IN  next = None \/ next < pass'[p].next
    BY DEF TurnInv
<1> DEFINE e == Head(pass[p].todo)[1]
<1>1. ASSUME UNCHANGED << schedule, pass >>
      PROVE  LET next == schedule'[Head(pass'[p].todo)[1]].next
             IN  next = None \/ next < pass'[p].next
    BY <1>1 DEF TurnInv
<1>2. CASE UserEdits
    <2>0. PICK d \in Domains :
              \E cadence \in Offer[d] \cup {"off"}, mode \in Modes[d] : SetSchedule(d, cadence, mode)
        BY <1>2 DEF UserEdits
    <2>1. PICK cadence \in Offer[d] \cup {"off"}, mode \in Modes[d] : SetSchedule(d, cadence, mode)
        BY <2>0
    <2>2. pass' = pass
        BY <2>1 DEF SetSchedule
    <2>3. /\ schedule[e].next = None \/ schedule[e].next < pass[p].next
          /\ pass[p].next > now
          /\ e \in Domains
        BY <2>2, FirstListed DEF TurnInv, SchedulesInv, PassInv
    <2> HIDE DEF e
    <2>4. \/ schedule'[e].next = None
          \/ schedule'[e].next = schedule[e].next
          \/ schedule'[e].next = now
        BY <2>1, <2>3 DEF SetSchedule, SchedulesInv
    <2> USE DEF e
    <2> QED
        BY <2>2, <2>3, <2>4
<1>3. ASSUME NEW q \in Passes, Pass(q) \/ PassDies(q)
      PROVE  LET next == schedule'[Head(pass'[p].todo)[1]].next
             IN  next = None \/ next < pass'[p].next
    <2>0. q = p
        BY DEF OnePass
    <2>1. CASE StartRun(p)
        <3>1. PICK row \in PassRow :
                  /\ pass' = [pass EXCEPT ![p] = row]
                  /\ row.pc = "advance" /\ row.next # None =>
                        LET next == schedule[Head(row.todo)[1]].next
                        IN  next = None \/ next < row.next
            BY <2>1, StartRunRow
        <3>2. pass'[p] = row /\ schedule' = schedule
            BY <2>1, <3>1 DEF SchedulesInv, StartRun
        <3> QED
            BY <3>1, <3>2
    <2>2. CASE CommitRun(p)
        <3>1. PICK row \in PassRow : row.pc # "advance" /\ pass' = [pass EXCEPT ![p] = row]
            BY <2>2, CommitRunStep
        <3> QED
            BY <3>1 DEF SchedulesInv
    <2>3. CASE PassDies(p) \/ BeatRestarts(p)
        BY <2>3, IdleIsRow DEF PassDies, BeatRestarts, SchedulesInv
    <2>4. CASE ExpireStale(p)
        <3>1. pass'[p] = [pass[p] EXCEPT !.pc = "select"]
            BY <2>4 DEF ExpireStale, SchedulesInv
        <3>2. pass'[p].pc = "select"
            BY <3>1 DEF SchedulesInv, PassRow
        <3> QED
            BY <3>2
    <2>5. CASE SelectDue(p)
        <3>1. PICK batch \in DueBatches :
                  pass' = [pass EXCEPT ![p].todo =
                             [i \in DOMAIN batch |-> << batch[i], schedule[batch[i]].mode >>],
                             ![p].pc = IF batch = << >> THEN "idle" ELSE "start"]
            BY <2>5 DEF SelectDue
        <3>2. pass'[p].pc = IF batch = << >> THEN "idle" ELSE "start"
            BY <3>1 DEF SchedulesInv, PassRow
        <3> QED
            BY <3>2
    <2> QED
        BY <1>3, <2>0, <2>1, <2>2, <2>3, <2>4, <2>5 DEF Pass
<1> HIDE DEF e
<1>4. CASE \E r \in Requests : QueueRun(r) \/ \E d \in Domains : FindNoRun(r, d)
    BY <1>1, <1>4 DEF QueueRun, FindNoRun
<1>5. CASE \E d \in Domains : Verify(d) \/ FailProof(d) \/ RunSettles(d)
    BY <1>1, <1>5 DEF Verify, FailProof, RunSettles
<1>6. CASE PublishMethodology \/ Tick \/ UNCHANGED vars
    BY <1>1, <1>6 DEF PublishMethodology, Tick, vars
<1> QED
    BY <1>2, <1>3, <1>4, <1>5, <1>6 DEF Next

\* The one thing but an edit that moves a schedule is the commit of a pass,
\* which inserts the run of the slot it passes over; the date it had computed is
\* still the later one, for an edit in between restarts the schedule at once and
\* never postpones it.
THEOREM SlotsNotLost ==
    ASSUME OnePass
    PROVE  Spec => SlotsAreNotLost
<1>1. ASSUME SchedulesInv, TurnInv, [Next]_vars, NEW d \in Domains,
             schedule[d].cadence = schedule'[d].cadence, schedule[d].next # schedule'[d].next
      PROVE  schedule[d].next < schedule'[d].next /\ running'[d] = running[d] + 1
    <2>1. ASSUME UserEdits PROVE FALSE
        BY <1>1, <2>1 DEF UserEdits, SetSchedule, SchedulesInv
    <2>2. ASSUME NEW r \in Requests, QueueRun(r) PROVE FALSE
        BY <1>1, <2>2 DEF QueueRun
    <2>3. ASSUME NEW p \in Passes, CommitRun(p)
          PROVE  schedule[d].next < schedule'[d].next /\ running'[d] = running[d] + 1
        <3> DEFINE e == Head(pass[p].todo)[1]
        <3>1. e \in Domains /\ pass[p].pc = "advance"
            BY <1>1, <2>3, FirstListed DEF CommitRun
        <3>2. pass[p].next # None => schedule[e].next = None \/ schedule[e].next < pass[p].next
            BY <1>1, <3>1 DEF TurnInv
        <3>3. PICK next \in Nat \cup {None} :
                  /\ running' = [running EXCEPT ![e] = @ + 1]
                  /\ schedule' = [schedule EXCEPT ![e].next = next]
                  /\ next = None <=> schedule[e].cadence = "off"
                  /\ next # None => next > now /\ next = pass[p].next
            BY <1>1, <2>3, CommitRunStep
        <3> HIDE DEF e
        <3>4. d = e
            BY <1>1, <3>1, <3>3 DEF SchedulesInv
        <3>5. schedule'[d].next = next /\ running'[d] = running[d] + 1
            BY <3>1, <3>3, <3>4, <1>1 DEF SchedulesInv, ScheduleRow
        <3>6. schedule[d].next = None <=> schedule[d].cadence = "off"
            BY <1>1 DEF SchedulesInv
        <3> QED
            BY <1>1, <3>2, <3>3, <3>4, <3>5, <3>6
    <2> QED
        BY <1>1, <2>1, <2>2, <2>3, OnlyThese
<1>2. SchedulesInv /\ TurnInv /\ [Next]_vars =>
         [\A d \in Domains :
             /\ schedule[d].cadence = schedule'[d].cadence
             /\ schedule[d].next # schedule'[d].next
             => schedule[d].next < schedule'[d].next /\ running'[d] = running[d] + 1]_vars
    BY <1>1
<1>3. Init => TurnInv
    BY IdleIsRow DEF Init, TurnInv
<1>4. SchedulesInv /\ CountInv /\ TurnInv /\ [Next]_vars => TurnInv'
    BY TurnKept
<1> QED
    BY <1>2, <1>3, <1>4, SchedulesHold, PTL DEF Spec, SlotsAreNotLost

\* What a pass still has to start is due, and the date it has computed for a
\* schedule is no further off than a cadence.
DueInv ==
    /\ \A p \in Passes :
          /\ \A i \in 1 .. Len(pass[p].todo) :
                LET next == schedule[pass[p].todo[i][1]].next IN next = None \/ next <= now
          /\ pass[p].pc = "advance" /\ pass[p].next # None =>
                \E c \in Cadences : pass[p].next <= now + Interval[c]
    /\ NextFollowsCadence

LEMMA DueKept ==
    ASSUME OnePass, SchedulesInv, CountInv, DueInv, [Next]_vars
    PROVE  DueInv'
<1> DEFINE RowDue(q) ==
               /\ \A i \in 1 .. Len(q.todo) :
                     LET next == schedule[q.todo[i][1]].next IN next = None \/ next <= now
               /\ q.pc = "advance" /\ q.next # None => \E c \in Cadences : q.next <= now + Interval[c]
           Follows(d) ==
               schedule[d].cadence # "off" =>
                   \E c \in Cadences : schedule[d].next <= now + Interval[c]
<1>a. /\ \A p \in Passes : RowDue(pass[p])
      /\ \A d \in Domains : Follows(d)
    BY DEF DueInv, NextFollowsCadence
<1>b. SUFFICES /\ \A p \in Passes : RowDue(pass[p])'
               /\ \A d \in Domains : Follows(d)'
    BY DEF DueInv, NextFollowsCadence
<1>c. now \in Nat /\ \A d \in Domains : schedule[d] \in ScheduleRow
    BY Constants DEF SchedulesInv
<1>d. \A d \in Domains : /\ schedule[d].cadence \in Cadences \cup {"off"}
                         /\ schedule[d].next \in Nat \cup {None}
                         /\ schedule[d].cadence = "off" <=> schedule[d].next = None
    BY <1>c DEF SchedulesInv, ScheduleRow
<1>1. ASSUME UNCHANGED << schedule, pass, now >>
      PROVE  /\ \A p \in Passes : RowDue(pass[p])'
             /\ \A d \in Domains : Follows(d)'
    BY <1>1, <1>a
<1>2. CASE UserEdits
    <2>0. PICK d \in Domains :
              \E cadence \in Offer[d] \cup {"off"}, mode \in Modes[d] : SetSchedule(d, cadence, mode)
        BY <1>2 DEF UserEdits
    <2>1. PICK cadence \in Offer[d] \cup {"off"}, mode \in Modes[d] : SetSchedule(d, cadence, mode)
        BY <2>0
    <2>2. cadence \in Cadences \cup {"off"}
        BY Constants
    <2>3. UNCHANGED << now, pass >> /\ \A e \in Domains : e # d => schedule'[e] = schedule[e]
        BY <2>1 DEF SetSchedule, SchedulesInv
    <2>4. /\ schedule'[d].cadence = cadence
          /\ \/ cadence = "off" /\ schedule'[d].next = None
             \/ /\ schedule[d].cadence = cadence /\ cadence # "off"
                /\ schedule'[d].next = schedule[d].next
             \/ cadence # "off" /\ schedule'[d].next = now
        BY <2>1 DEF SetSchedule, SchedulesInv
    <2>5. Follows(d)'
        BY <1>a, <1>c, <2>2, <2>3, <2>4, Constants
    <2>6. ASSUME NEW e \in Domains
          PROVE  LET next == schedule[e].next IN
                 (next = None \/ next <= now) => (next = None \/ next <= now)'
        <3>1. CASE e = d
            BY <1>c, <2>3, <2>4, <3>1
        <3> QED
            BY <2>3, <3>1
    <2>7. \A p \in Passes : \A i \in 1 .. Len(pass[p].todo) : pass[p].todo[i][1] \in Domains
        BY DEF SchedulesInv, PassRow
    <2> QED
        BY <1>a, <2>3, <2>5, <2>6, <2>7
<1>3. CASE Tick
    <2>1. /\ UNCHANGED << schedule, pass >> /\ now' = now + 1
          /\ \A p \in Passes : pass[p].pc # "advance"
        BY <1>3 DEF Tick
    <2>2. \A d \in Domains : Follows(d)'
        <3> SUFFICES ASSUME NEW d \in Domains, schedule[d].cadence # "off"
                     PROVE  \E c \in Cadences : schedule[d].next <= now + 1 + Interval[c]
            BY <2>1
        <3>1. PICK c \in Cadences : schedule[d].next <= now + Interval[c]
            BY <1>a
        <3>2. schedule[d].next \in Nat /\ Interval[c] \in Nat
            BY <1>d, Constants
        <3> QED
            BY <1>c, <3>1, <3>2
    <2>3. ASSUME NEW p \in Passes PROVE RowDue(pass[p])'
        <3>1. \A i \in 1 .. Len(pass[p].todo) : pass[p].todo[i][1] \in Domains
            BY DEF SchedulesInv, PassRow
        <3> QED
            BY <1>a, <1>c, <1>d, <2>1, <3>1
    <2> QED
        BY <2>2, <2>3
<1>4. ASSUME NEW p \in Passes, Pass(p) \/ PassDies(p)
      PROVE  /\ \A q \in Passes : RowDue(pass[q])'
             /\ \A d \in Domains : Follows(d)'
    <2>0. \A q \in Passes : q = p
        BY DEF OnePass
    <2>a. now' = now
        BY <1>4 DEF Pass, PassDies, ExpireStale, SelectDue, StartRun, CommitRun, BeatRestarts
    <2>b. pass[p] \in PassRow /\ PassInv(pass[p], now)
        BY DEF SchedulesInv
    <2>c. ASSUME NEW row, row.pc # "advance", \A e : Lists(row, e) => Lists(pass[p], e)
          PROVE  RowDue(row)
        <3> SUFFICES ASSUME NEW i \in 1 .. Len(row.todo)
                     PROVE  LET next == schedule[row.todo[i][1]].next IN next = None \/ next <= now
            BY <2>c
        <3>1. Lists(pass[p], row.todo[i][1])
            BY <2>c DEF Lists
        <3>2. PICK j \in 1 .. Len(pass[p].todo) : pass[p].todo[j][1] = row.todo[i][1]
            BY <3>1 DEF Lists
        <3> QED
            BY <1>a, <3>2
    <2>1. ASSUME UNCHANGED schedule, NEW row \in PassRow, pass' = [pass EXCEPT ![p] = row], RowDue(row)
          PROVE  /\ \A q \in Passes : RowDue(pass[q])'
                 /\ \A d \in Domains : Follows(d)'
        <3>1. pass'[p] = row
            BY <2>1 DEF SchedulesInv
        <3> QED
            BY <1>a, <2>0, <2>1, <2>a, <3>1
    <2>2. CASE ExpireStale(p)
        <3> DEFINE row == [pass[p] EXCEPT !.pc = "select"]
        <3>1. row \in PassRow /\ row.todo = pass[p].todo /\ row.pc = "select"
            BY <2>b DEF PassRow
        <3>2. pass' = [pass EXCEPT ![p] = row] /\ schedule' = schedule
            BY <2>2 DEF ExpireStale
        <3> HIDE DEF row
        <3>3. RowDue(row)
            BY <1>a, <3>1
        <3> QED
            BY <2>1, <3>1, <3>2, <3>3
    <2>3. CASE SelectDue(p)
        <3>1. PICK batch \in DueBatches :
                  pass' = [pass EXCEPT ![p].todo =
                             [i \in DOMAIN batch |-> << batch[i], schedule[batch[i]].mode >>],
                             ![p].pc = IF batch = << >> THEN "idle" ELSE "start"]
            BY <2>3 DEF SelectDue
        <3>2. /\ batch \in Seq(Domains) /\ Len(batch) \in Nat /\ DOMAIN batch = 1 .. Len(batch)
              /\ \A i \in 1 .. Len(batch) : batch[i] \in Domains /\ Due(batch[i])
            BY BatchIsDue
        <3>3. pass'[p].todo = [i \in 1 .. Len(batch) |-> << batch[i], schedule[batch[i]].mode >>]
            BY <3>1, <3>2 DEF SchedulesInv, PassRow
        <3>4. Len(pass'[p].todo) = Len(batch) /\ \A i \in 1 .. Len(batch) : pass'[p].todo[i][1] = batch[i]
            BY <3>2, <3>3
        <3>5. pass'[p].pc # "advance"
            BY <3>1 DEF SchedulesInv, PassRow
        <3>6. schedule' = schedule
            BY <2>3 DEF SelectDue
        <3>7. \A i \in 1 .. Len(batch) : schedule[batch[i]].next <= now
            BY <3>2 DEF Due
        <3> QED
            BY <1>a, <2>0, <2>a, <3>4, <3>5, <3>6, <3>7
    <2>4. CASE StartRun(p)
        <3> DEFINE d == Head(pass[p].todo)[1]
                   previous == IF schedule[d].next = None THEN now ELSE schedule[d].next
                   moved == AdvanceFrom(schedule[d].cadence, previous)
        <3>1. schedule' = schedule
            BY <2>4 DEF StartRun
        <3>2. pass[p].todo # << >> /\ d \in Domains
            BY <2>4, FirstListed DEF StartRun
        <3>3. CASE GoOn(p)
            <4>1. PICK row \in PassRow :
                      /\ pass' = [pass EXCEPT ![p] = row]
                      /\ row.pc # "advance"
                      /\ \A e : Lists(row, e) => Lists(pass[p], e)
                BY <3>2, <3>3, GoOnRow
            <4>2. RowDue(row)
                BY <2>c, <4>1
            <4> QED
                BY <2>1, <3>1, <4>1, <4>2
        <3>4. CASE pass' = [pass EXCEPT ![p] = IdlePass]
            <4>1. RowDue(IdlePass) /\ IdlePass \in PassRow
                BY IdleIsRow DEF Lists
            <4> QED
                BY <2>1, <3>1, <3>4, <4>1
        <3>5. CASE pass' = [pass EXCEPT ![p].pc = "advance", ![p].next = moved]
            <4>1. schedule[d].next = None \/ schedule[d].next <= now
                <5>1. 1 \in 1 .. Len(pass[p].todo) /\ d = pass[p].todo[1][1]
                    BY <2>b, <3>2, Shorter
                <5> HIDE DEF d
                <5> QED
                    BY <1>a, <5>1
            <4>2. previous \in Nat /\ previous <= now
                BY <1>c, <1>d, <3>2, <4>1
            <4>3. moved \in Nat \cup {None}
                BY <1>c, <1>d, <3>2, <4>2, AdvanceIsAhead
            <4> HIDE DEF previous
            <4>4. moved # None => \E c \in Cadences : moved <= now + Interval[c]
                <5>1. schedule[d].cadence \in Cadences \cup {"off"}
                    BY <1>d, <3>2
                <5>2. CASE schedule[d].cadence = "off"
                    BY <5>2 DEF AdvanceFrom
                <5>3. CASE schedule[d].cadence \in Cadences
                    <6>1. Interval[schedule[d].cadence] \in Nat /\ schedule[d].cadence # "off"
                        BY <5>3, Constants
                    <6>2. moved <= now + Interval[schedule[d].cadence]
                        BY <1>c, <4>2, <6>1 DEF AdvanceFrom
                    <6> QED
                        BY <5>3, <6>2
                <5> QED
                    BY <5>1, <5>2, <5>3
            <4> DEFINE row == [pass[p] EXCEPT !.pc = "advance", !.next = moved]
            <4>5. pass' = [pass EXCEPT ![p] = row]
                BY <3>5
            <4> HIDE DEF moved, d
            <4>6. row \in PassRow /\ row.todo = pass[p].todo /\ row.next = moved
                BY <2>b, <4>3 DEF PassRow
            <4> HIDE DEF row
            <4>7. RowDue(row)
                BY <1>a, <4>4, <4>6
            <4> QED
                BY <2>1, <3>1, <4>5, <4>6, <4>7
        <3> QED
            BY <2>4, <3>3, <3>4, <3>5 DEF StartRun
    <2>5. CASE CommitRun(p)
        <3> DEFINE d == Head(pass[p].todo)[1]
        <3>1. d \in Domains
            BY <2>5, FirstListed DEF CommitRun
        <3>2. PICK row \in PassRow, next \in Nat \cup {None} :
                  /\ row.pc # "advance"
                  /\ pass' = [pass EXCEPT ![p] = row]
                  /\ \A e : Lists(row, e) => Lists(pass[p], e)
                  /\ \/ UNCHANGED << schedule, running >>
                     \/ /\ ~Lists(row, d)
                        /\ schedule' = [schedule EXCEPT ![d].next = next]
                        /\ next = None <=> schedule[d].cadence = "off"
                        /\ next # None => next = pass[p].next
            BY <2>5, CommitRunStep
        <3>3. pass[p].pc = "advance"
            BY <2>5 DEF CommitRun
        <3> HIDE DEF d
        <3>4. RowDue(row)
            BY <2>c, <3>2
        <3>5. CASE UNCHANGED schedule
            BY <2>1, <3>2, <3>4, <3>5
        <3>6. CASE /\ ~Lists(row, d)
                   /\ schedule' = [schedule EXCEPT ![d].next = next]
                   /\ next = None <=> schedule[d].cadence = "off"
                   /\ next # None => next = pass[p].next
            <4>1. /\ schedule'[d].next = next /\ schedule'[d].cadence = schedule[d].cadence
                  /\ \A e \in Domains : e # d => schedule'[e] = schedule[e]
                BY <1>c, <3>1, <3>6 DEF SchedulesInv, ScheduleRow
            <4>2. schedule[d].cadence # "off" => \E c \in Cadences : next <= now + Interval[c]
                BY <1>a, <3>3, <3>6
            <4>3. ASSUME NEW e \in Domains PROVE Follows(e)'
                <5>1. CASE e = d
                    BY <2>a, <4>1, <4>2, <5>1
                <5>2. CASE e # d
                    <6>1. Follows(e) /\ schedule'[e] = schedule[e]
                        BY <1>a, <4>1, <5>2
                    <6> QED
                        BY <2>a, <6>1
                <5> QED
                    BY <5>1, <5>2
            <4>4. \A i \in 1 .. Len(row.todo) : row.todo[i][1] \in Domains /\ row.todo[i][1] # d
                BY <3>6 DEF Lists, PassRow
            <4>5. pass'[p] = row
                BY <3>2 DEF SchedulesInv
            <4>6. RowDue(pass[p])'
                BY <2>a, <3>2, <3>4, <4>1, <4>4, <4>5
            <4> QED
                BY <2>0, <4>3, <4>6
        <3> QED
            BY <3>2, <3>5, <3>6
    <2>6. CASE PassDies(p) \/ BeatRestarts(p)
        <3>1. \A q \in {IdlePass, [IdlePass EXCEPT !.pc = "dead"]} : RowDue(q) /\ q \in PassRow
            BY IdleIsRow DEF Lists
        <3>2. schedule' = schedule
            BY <2>6 DEF PassDies, BeatRestarts
        <3>3. PICK row \in {IdlePass, [IdlePass EXCEPT !.pc = "dead"]} : pass' = [pass EXCEPT ![p] = row]
            BY <2>6 DEF PassDies, BeatRestarts
        <3> QED
            BY <2>1, <3>1, <3>2, <3>3
    <2> HIDE DEF RowDue, Follows
    <2> QED
        BY <1>4, <2>2, <2>3, <2>4, <2>5, <2>6 DEF Pass
<1> HIDE DEF RowDue, Follows
<1>5. CASE \E r \in Requests : QueueRun(r) \/ \E d \in Domains : FindNoRun(r, d)
    BY <1>1, <1>5 DEF QueueRun, FindNoRun
<1>6. CASE \E d \in Domains : Verify(d) \/ FailProof(d) \/ RunSettles(d)
    BY <1>1, <1>6 DEF Verify, FailProof, RunSettles
<1>7. CASE PublishMethodology \/ UNCHANGED vars
    BY <1>1, <1>7 DEF PublishMethodology, vars
<1> QED
    BY <1>2, <1>3, <1>4, <1>5, <1>6, <1>7 DEF Next

\* A pass advances a date that is due by the cadence the schedule had at its
\* start, and an edit in between at worst leaves that date in place: however
\* late runs are and however often users change their minds, no run is further
\* off than the longest cadence.
THEOREM NextIsNear ==
    ASSUME OnePass
    PROVE  Spec => []NextFollowsCadence
<1>1. Init => DueInv
    <2> SUFFICES ASSUME Init PROVE DueInv
        OBVIOUS
    <2>1. NextFollowsCadence
        BY DEF Init, NextFollowsCadence
    <2>2. ASSUME NEW p \in Passes PROVE pass[p].pc # "advance" /\ \A d : ~Lists(pass[p], d)
        BY IdleIsRow DEF Init
    <2>3. \A p \in Passes : \A i \in 1 .. Len(pass[p].todo) : FALSE
        BY <2>2 DEF Lists
    <2> QED
        BY <2>1, <2>2, <2>3 DEF DueInv
<1>2. SchedulesInv /\ CountInv /\ DueInv /\ [Next]_vars => DueInv'
    BY DueKept
<1>3. DueInv => NextFollowsCadence
    BY DEF DueInv
<1> QED
    BY <1>1, <1>2, <1>3, SchedulesHold, PTL DEF Spec

================================================================================
