------------------------------ MODULE Scheduling ------------------------------
(***************************************************************************)
(* Cadences become runs: the scheduler pass of start_due_schedules in      *)
(* tasks.py over app_due_schedules, the two ways a user starts work (PUT   *)
(* schedule, POST assessments), and the expiry of a domain's verification. *)
(* A statement of the database is atomic, and so is a transaction where    *)
(* no other process can come between its statements; a check that is       *)
(* followed by an insert is two steps.  Time is counted in hours.          *)
(***************************************************************************)
EXTENDS Naturals, Sequences, FiniteSets

CONSTANTS
    Domains,      \* the domains, each with at most one schedule
    Passes,       \* the scheduler passes that may run at the same time
    Requests,     \* the POST requests that may be served at the same time
    None,         \* no date, no domain
    Interval,     \* Interval[c]: the hours between two runs of cadence c
    Offer,        \* Offer[d]: the cadences the users of d choose from
    Modes,        \* Modes[d]: the modes they choose from
    QuietHours,   \* QuietHours[d]: << first, last >> hour, or None
    Day,          \* the hours of a day
    BatchSize,    \* SCHEDULE_BATCH_SIZE
    ProofLife,    \* the hours a verification of control lasts
    MaxTime       \* bound on the clock

Cadences == DOMAIN Interval

ASSUME SchedulingAssumption ==
    /\ IsFiniteSet(Domains) /\ IsFiniteSet(Passes) /\ IsFiniteSet(Requests)
    /\ None \notin Domains /\ None \notin Nat
    /\ "off" \notin Cadences
    /\ \A c \in Cadences : Interval[c] \in Nat \ {0}
    /\ Offer \in [Domains -> SUBSET Cadences]
    /\ Modes \in [Domains -> SUBSET {"passive_observation", "authorized_assessment"}]
    /\ Day \in Nat \ {0} /\ BatchSize \in Nat \ {0} /\ ProofLife \in Nat /\ MaxTime \in Nat

VARIABLES
    now,         \* the clock
    schedule,    \* assessment_schedules
    control,     \* domains.ownership_state and domains.reverification_due_at
    published,   \* a methodology version is published
    running,     \* running[d]: the assessments of d that have not settled
    pass,        \* the local variables of each pass
    request      \* request[r]: the domain a POST found no run for

vars == << now, schedule, control, published, running, pass, request >>

IdlePass == [pc |-> "idle", todo |-> << >>, next |-> None]

Init ==
    /\ now = 0
    /\ schedule = [d \in Domains |->
                     [cadence |-> "off", mode |-> "passive_observation", next |-> None]]
    /\ control = [d \in Domains |-> [state |-> "pending", until |-> None]]
    /\ published = FALSE
    /\ running = [d \in Domains |-> 0]
    /\ pass = [p \in Passes |-> IdlePass]
    /\ request = [r \in Requests |-> None]

(***************************************************************************)
(* Users.                                                                  *)
(***************************************************************************)
Permitted(d, mode) == mode = "passive_observation" \/ control[d].state = "verified"

\* A schedule keeps its place when its cadence stays the same; a new cadence
\* fires at once.
SetSchedule(d, cadence, mode) ==
    /\ Permitted(d, mode)
    /\ LET old == schedule[d]
           next == IF cadence = "off" THEN None
                   ELSE IF old.cadence = cadence /\ old.next # None THEN old.next ELSE now
       IN  schedule' = [schedule EXCEPT ![d] =
                          [cadence |-> cadence, mode |-> mode, next |-> next]]
    /\ UNCHANGED << now, control, published, running, pass, request >>

\* POST assessments first looks for a run that could be reused.  A request for
\* an authorized run ends in the check constraint that wants an authorization.
FindNoRun(r, d) ==
    /\ request[r] = None
    /\ published
    /\ running[d] = 0
    /\ request' = [request EXCEPT ![r] = d]
    /\ UNCHANGED << now, schedule, control, published, running, pass >>

QueueRun(r) ==
    /\ request[r] # None
    /\ running' = [running EXCEPT ![request[r]] = @ + 1]
    /\ request' = [request EXCEPT ![r] = None]
    /\ UNCHANGED << now, schedule, control, published, pass >>

(***************************************************************************)
(* A pass of the scheduler.                                                *)
(***************************************************************************)
\* The UPDATE runs as siembiot_worker with no tenant named: no policy of
\* row-level security lets that connection see, let alone update, a domain.
Updatable(role, tenant) ==
    {d \in Domains : role = "siembiot_app" /\ tenant = d}

ExpireStale(p) ==
    /\ pass[p].pc = "idle"
    /\ control' = [d \in Domains |->
                     IF /\ d \in Updatable("siembiot_worker", None)
                        /\ control[d].state = "verified"
                        /\ control[d].until <= now
                     THEN [control[d] EXCEPT !.state = "reverification_required"]
                     ELSE control[d]]
    /\ pass' = [pass EXCEPT ![p].pc = "select"]
    /\ UNCHANGED << now, schedule, published, running, request >>

\* app_in_quiet_hours: an empty window for equal bounds, else one that may
\* wrap past midnight.
InQuietHours(window, hour) ==
    /\ window # None
    /\ LET first == window[1]
           last == window[2]
       IN  \/ first < last /\ first <= hour /\ hour < last
           \/ first > last /\ (first <= hour \/ hour < last)

\* Mutant of Due: a run in flight does not hold the next one back.
DueInFlight(d) ==
    /\ schedule[d].cadence # "off"
    /\ schedule[d].next <= now
    /\ ~InQuietHours(QuietHours[d], now % Day)
    /\ Permitted(d, schedule[d].mode)

\* Mutant of Due: even passive observation wants proof of control.
DueVerified(d) ==
    /\ schedule[d].cadence # "off"
    /\ schedule[d].next <= now
    /\ ~InQuietHours(QuietHours[d], now % Day)
    /\ control[d].state = "verified"
    /\ running[d] = 0

Due(d) ==
    /\ schedule[d].cadence # "off"
    /\ schedule[d].next <= now
    /\ ~InQuietHours(QuietHours[d], now % Day)
    /\ Permitted(d, schedule[d].mode)
    /\ running[d] = 0

\* The schedules that are due, the earliest first, up to the size of a batch.
DueBatches ==
    LET due == {d \in Domains : Due(d)}
        size == IF Cardinality(due) <= BatchSize THEN Cardinality(due) ELSE BatchSize
    IN  {order \in [1..size -> due] :
           /\ \A i, j \in 1..size : i < j =>
                 order[i] # order[j] /\ schedule[order[i]].next <= schedule[order[j]].next
           /\ \A d \in due : \A i \in 1..size :
                 schedule[d].next < schedule[order[i]].next => \E j \in 1..size : order[j] = d}

SelectDue(p) ==
    /\ pass[p].pc = "select"
    /\ \E batch \in DueBatches :
          pass' = [pass EXCEPT ![p].todo =
                     [i \in DOMAIN batch |-> << batch[i], schedule[batch[i]].mode >>],
                     ![p].pc = IF batch = << >> THEN "idle" ELSE "start"]
    /\ UNCHANGED << now, schedule, control, published, running, request >>

\* Mutant of AdvanceFrom: every slot that was missed is made up for.
AdvanceFromPast(cadence, previous) ==
    IF cadence = "off" THEN None ELSE previous + Interval[cadence]

\* advance_from: anchored to the schedule, but never into the past.
AdvanceFrom(cadence, previous) ==
    IF cadence = "off" THEN None
    ELSE IF previous + Interval[cadence] > now THEN previous + Interval[cadence]
         ELSE now + Interval[cadence]

\* The rest of the batch after its first schedule.
GoOn(p) ==
    LET rest == Tail(pass[p].todo)
    IN  pass' = [pass EXCEPT ![p] = [pc |-> IF rest = << >> THEN "idle" ELSE "start",
                                     todo |-> rest, next |-> None]]

\* The transaction of one schedule up to the date it will be moved to.  The
\* insert names no authorization, so the database refuses an authorized run:
\* the exception ends the pass.
StartRun(p) ==
    /\ pass[p].pc = "start"
    /\ LET d == Head(pass[p].todo)[1]
           mode == Head(pass[p].todo)[2]
           previous == IF schedule[d].next = None THEN now ELSE schedule[d].next
       IN  \/ ~published /\ GoOn(p)
           \/ /\ published /\ mode = "authorized_assessment"
              /\ pass' = [pass EXCEPT ![p] = IdlePass]
           \/ /\ published /\ mode = "passive_observation"
              /\ pass' = [pass EXCEPT ![p].pc = "advance",
                                      ![p].next = AdvanceFrom(schedule[d].cadence, previous)]
    /\ UNCHANGED << now, schedule, control, published, running, request >>

\* Mutant of CommitRun: the schedule moves on although no run was inserted.
CommitRunLost(p) ==
    /\ pass[p].pc = "advance"
    /\ LET d == Head(pass[p].todo)[1]
           next == IF schedule[d].cadence = "off" THEN None ELSE pass[p].next
       IN  IF schedule[d].cadence # "off" /\ next = None
           THEN /\ pass' = [pass EXCEPT ![p] = IdlePass]
                /\ UNCHANGED << schedule, running >>
           ELSE /\ UNCHANGED running
                /\ schedule' = [schedule EXCEPT ![d].next = next]
                /\ GoOn(p)
    /\ UNCHANGED << now, control, published, request >>

\* Its update and its commit.  A cadence that was switched on in between has
\* no date, which the check constraint refuses: nothing is kept.
CommitRun(p) ==
    /\ pass[p].pc = "advance"
    /\ LET d == Head(pass[p].todo)[1]
           next == IF schedule[d].cadence = "off" THEN None ELSE pass[p].next
       IN  IF schedule[d].cadence # "off" /\ next = None
           THEN /\ pass' = [pass EXCEPT ![p] = IdlePass]
                /\ UNCHANGED << schedule, running >>
           ELSE /\ running' = [running EXCEPT ![d] = @ + 1]
                /\ schedule' = [schedule EXCEPT ![d].next = next]
                /\ GoOn(p)
    /\ UNCHANGED << now, control, published, request >>

(***************************************************************************)
(* The environment.                                                        *)
(***************************************************************************)
\* A challenge is answered, or it ends in a demotion, whatever the state of the
\* domain was before it.  Failed stands for expired too, and the date is left
\* out: what reads them asks whether the domain is verified, and then since when.
Verify(d) ==
    /\ "authorized_assessment" \in Modes[d]
    /\ control' = [control EXCEPT ![d] = [state |-> "verified", until |-> now + ProofLife]]
    /\ UNCHANGED << now, schedule, published, running, pass, request >>

FailProof(d) ==
    /\ "authorized_assessment" \in Modes[d]
    /\ control' = [control EXCEPT ![d] = [state |-> "failed", until |-> None]]
    /\ UNCHANGED << now, schedule, published, running, pass, request >>

PublishMethodology ==
    /\ ~published
    /\ published' = TRUE
    /\ UNCHANGED << now, schedule, control, running, pass, request >>

RunSettles(d) ==
    /\ running[d] > 0
    /\ running' = [running EXCEPT ![d] = @ - 1]
    /\ UNCHANGED << now, schedule, control, published, pass, request >>

\* The process of a pass dies: the transaction it was in leaves nothing.
PassDies(p) ==
    /\ pass[p].pc \notin {"idle", "dead"}
    /\ pass' = [pass EXCEPT ![p] = [IdlePass EXCEPT !.pc = "dead"]]
    /\ UNCHANGED << now, schedule, control, published, running, request >>

BeatRestarts(p) ==
    /\ pass[p].pc = "dead"
    /\ pass' = [pass EXCEPT ![p] = IdlePass]
    /\ UNCHANGED << now, schedule, control, published, running, request >>

\* A transaction is over long before the hour is.
Tick ==
    /\ now < MaxTime
    /\ \A p \in Passes : pass[p].pc # "advance"
    /\ now' = now + 1
    /\ UNCHANGED << schedule, control, published, running, pass, request >>

Pass(p) ==
    ExpireStale(p) \/ SelectDue(p) \/ StartRun(p) \/ CommitRun(p) \/ BeatRestarts(p)

UserEdits ==
    \E d \in Domains :
        \E cadence \in Offer[d] \cup {"off"}, mode \in Modes[d] : SetSchedule(d, cadence, mode)

Next ==
    \/ UserEdits
    \/ \E r \in Requests : QueueRun(r) \/ \E d \in Domains : FindNoRun(r, d)
    \/ \E p \in Passes : Pass(p) \/ PassDies(p)
    \/ \E d \in Domains : Verify(d) \/ FailProof(d) \/ RunSettles(d)
    \/ PublishMethodology
    \/ Tick

Spec == Init /\ [][Next]_vars

\* Celery beat starts passes again and again, they go on, a methodology gets
\* published, and runs end.
FairSpec ==
    /\ Spec
    /\ \A p \in Passes : WF_vars(Pass(p))
    /\ \A d \in Domains : WF_vars(RunSettles(d))
    /\ WF_vars(PublishMethodology)
    /\ WF_vars(Tick)

\* Passes do not die for ever, and users do not edit their schedules for ever.
Calm == <>[][~UserEdits /\ \A p \in Passes : ~PassDies(p)]_vars

(***************************************************************************)
(* Properties.                                                             *)
(***************************************************************************)
TypeOK ==
    /\ now \in 0..MaxTime
    /\ schedule \in [Domains -> [cadence : Cadences \cup {"off"},
                               mode : {"passive_observation", "authorized_assessment"},
                               next : Nat \cup {None}]]
    /\ \A d \in Domains : schedule[d].cadence = "off" <=> schedule[d].next = None
    /\ control \in [Domains -> [state : {"pending", "verified", "failed",
                                          "reverification_required"}, until : Nat \cup {None}]]
    /\ published \in BOOLEAN
    /\ running \in [Domains -> Nat]
    /\ \A p \in Passes :
          /\ pass[p].pc \in {"idle", "select", "start", "advance", "dead"}
          /\ pass[p].todo \in Seq(Domains \X {"passive_observation", "authorized_assessment"})
          /\ pass[p].pc \in {"start", "advance"} <=> pass[p].todo # << >>
    /\ request \in [Requests -> Domains \cup {None}]

\* Both the due query and a request refuse to stack a run on a domain that still
\* has one in flight.  Runs pile up only as far as passes and requests race: each
\* adds one at most, for it does not look again before the others end.
RunsAreBounded ==
    \A d \in Domains : running[d] <= Cardinality(Passes) + Cardinality(Requests)

\* However long a run was late, and however often users change their minds while
\* a pass is at work, nothing is postponed beyond the longest cadence.  (Within a
\* pass, a date may still be moved by the cadence the schedule had before.)
NextFollowsCadence ==
    \A d \in Domains :
        schedule[d].cadence # "off" =>
            \E cadence \in Cadences : schedule[d].next <= now + Interval[cadence]

\* A schedule that starts a run is not due again at once: a backlog of missed
\* slots is caught up to the next one, never replayed.
BacklogIsNotReplayed ==
    [][\A d \in Domains :
          /\ running'[d] > running[d]
          /\ \A r \in Requests : request[r] = request'[r]
          => schedule'[d].next = None \/ schedule'[d].next > now]_vars

\* The date of a schedule whose cadence stays the same moves forward only, and
\* only together with a run of its domain: no slot is skipped in silence.
SlotsAreNotLost ==
    [][\A d \in Domains :
          /\ schedule[d].cadence = schedule'[d].cadence
          /\ schedule[d].next # schedule'[d].next
          => schedule[d].next < schedule'[d].next /\ running'[d] = running[d] + 1]_vars

DueForObservation(d) ==
    /\ schedule[d].cadence # "off" /\ schedule[d].mode = "passive_observation"
    /\ schedule[d].next <= now

\* Nothing is left over for ever: a passive schedule that is due starts a run,
\* whatever the other domains of the batch do.
BacklogDrains ==
    Calm => \A d \in Domains :
        DueForObservation(d) ~> (running[d] > 0 \/ ~DueForObservation(d))

\* So much of it holds where no schedule asks for authorized runs.
ObservationBacklogDrains ==
    <>[](\A d \in Domains : schedule[d].mode = "passive_observation") => BacklogDrains

\* A verification past its date moves the domain out of the verified state.
Lapsed(d) == control[d].state = "verified" /\ control[d].until <= now

LapsedProofExpires == \A d \in Domains : Lapsed(d) ~> ~Lapsed(d)

=============================================================================
