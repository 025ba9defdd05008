---------------------------- MODULE WorkflowEngine ----------------------------
(***************************************************************************)
(* The durable workflow engine of workflows/engine.py over the PostgreSQL  *)
(* repository of workflows/postgres_repository.py: any number of           *)
(* deliveries of one run, each executing WorkflowEngine.run in a worker    *)
(* process.  The connection is in autocommit mode, so every repository     *)
(* call is one atomic step, and what a delivery has read may be stale by   *)
(* the time it writes.                                                     *)
(*                                                                         *)
(* Abstractions: time appears only as the two facts the code derives from  *)
(* it, whether a lease is live and whether a step is still waiting out its *)
(* backoff; a payload is the set of steps whose results were merged into   *)
(* it, and an idempotency key is the step with that payload.               *)
(***************************************************************************)
EXTENDS StepGraph, FiniteSets

CONSTANTS
    Workers,       \* the worker processes, each running one delivery at a time
    None,          \* no worker, no step, no state
    Outcomes,      \* Outcomes[s]: how the handler of s may end
    MaxCrashes,    \* bound on the crashes of worker processes
    MaxReplays,    \* bound on the operator's replays
    MayCancel,     \* TRUE: a user may request cancellation
    LeaseMayLapse, \* TRUE: a handler may outlast its lease
    Duplicates     \* TRUE: a message may be delivered when nothing is due

ASSUME WorkerAssumption ==
    /\ None \notin Workers \cup Steps \cup AssessmentStates
    /\ Outcomes \in [Steps -> SUBSET {"ok", "skip", "retry", "fail"}]
    /\ \A s \in Steps \ Optional : "skip" \notin Outcomes[s]
    /\ MaxCrashes \in Nat
    /\ MaxReplays \in Nat
    /\ MayCancel \in BOOLEAN
    /\ LeaseMayLapse \in BOOLEAN
    /\ Duplicates \in BOOLEAN

VARIABLES
    runState,         \* assessments.state
    cancelRequested,  \* assessments.cancellation_requested_at IS NOT NULL
    rows,             \* assessment_steps: state, attempts, lease, backoff
    keys,             \* workflow_idempotency_keys
    wk,               \* the local variables of each delivery
    crashes,          \* crashes so far
    replays           \* replays so far

vars == << runState, cancelRequested, rows, keys, wk, crashes, replays >>

(***************************************************************************)
(* Rows.  A lease is live or lapsed; "waiting" is next_attempt_at > now.   *)
(***************************************************************************)
Row(state, attempts) ==
    [state |-> state, attempts |-> attempts, owner |-> None,
     live |-> FALSE, waiting |-> FALSE]

States == [s \in Steps |-> rows[s].state]

IdleWorker ==
    [pc |-> "idle", todo |-> {}, payload |-> {}, moved |-> FALSE, cur |-> None,
     attempt |-> 0, path |-> << >>, result |-> None]

Keys == Steps \X SUBSET Steps

KeyOf(w) == << wk[w].cur, wk[w].payload >>

Init ==
    /\ runState = "queued"
    /\ cancelRequested = FALSE
    /\ rows = [s \in Steps |-> Row("pending", 0)]
    /\ keys = {}
    /\ wk = [w \in Workers |-> IdleWorker]
    /\ crashes = 0
    /\ replays = 0

\* w goes on at pc, with its other local variables as local says.
Goto(w, pc, local) == wk' = [wk EXCEPT ![w] = [local EXCEPT !.pc = pc]]

At(w, pc) == wk[w].pc = pc

(***************************************************************************)
(* Deliveries: app_due_assessments decides what the sweep enqueues; a      *)
(* message already in the queue may arrive at any later time.              *)
(***************************************************************************)
Due ==
    /\ runState \notin TerminalStates
    /\ \A s \in Steps : /\ ~(rows[s].state = "pending" /\ rows[s].waiting)
                        /\ ~rows[s].live

Deliver(w) ==
    /\ At(w, "idle")
    /\ Duplicates \/ Due
    /\ Goto(w, "check", wk[w])
    /\ UNCHANGED << runState, cancelRequested, rows, keys, crashes, replays >>

(***************************************************************************)
(* WorkflowEngine.run: one turn of its loop.                               *)
(***************************************************************************)
Return(w) == wk' = [wk EXCEPT ![w] = IdleWorker]

CheckCancellation(w) ==
    /\ At(w, "check")
    /\ Goto(w, IF cancelRequested THEN "cancel" ELSE "load", wk[w])
    /\ UNCHANGED << runState, cancelRequested, rows, keys, crashes, replays >>

\* Completion walks forward to report generation before the outcome is set.
SettlePath(outcome) ==
    IF outcome \in {"completed", "partially_completed"}
    THEN ForwardPath(runState, "report_generation") \o << outcome >>
    ELSE << outcome >>

LoadSteps(w) ==
    /\ At(w, "load")
    /\ LET blocked == Blocked(States)
           outcome == Outcome(States)
           ready == Ready(States)
       IN  \/ /\ blocked # {}
              /\ Goto(w, "skip", [wk[w] EXCEPT !.todo = blocked])
           \/ /\ blocked = {} /\ outcome # NoOutcome
              /\ Goto(w, "settlerun", [wk[w] EXCEPT !.result = outcome])
           \/ /\ blocked = {} /\ outcome = NoOutcome /\ ready # {}
              /\ Goto(w, "claim", [wk[w] EXCEPT !.todo = ready, !.moved = FALSE])
           \/ /\ blocked = {} /\ outcome = NoOutcome /\ ready = {}
              /\ Return(w)
    /\ UNCHANGED << runState, cancelRequested, rows, keys, crashes, replays >>

\* Steps that can never run are settled one by one, and the loop starts again.
SkipBlocked(w) ==
    /\ At(w, "skip")
    /\ LET s == FirstOf(wk[w].todo)
           rest == wk[w].todo \ {s}
       IN  /\ rows' = [rows EXCEPT ![s] = Row("skipped", 0)]
           /\ Goto(w, IF rest = {} THEN "check" ELSE "skip", [wk[w] EXCEPT !.todo = rest])
    /\ UNCHANGED << runState, cancelRequested, keys, crashes, replays >>

\* _settle_run: the phases to walk through are computed from one read.
SettleRun(w) ==
    /\ At(w, "settlerun")
    /\ IF \/ wk[w].result \notin {"completed", "partially_completed"}
          \/ OnHappyPath(runState)
       THEN Goto(w, "setread",
                 [wk[w] EXCEPT !.path = SettlePath(wk[w].result), !.result = None])
       ELSE Goto(w, "raised", wk[w])
    /\ UNCHANGED << runState, cancelRequested, rows, keys, crashes, replays >>

(***************************************************************************)
(* set_state: the current state is read, the move is validated against it, *)
(* and the row is then updated whatever it holds by that time.             *)
(***************************************************************************)
\* What follows the last state of the path: the key check of a step that is
\* being executed, the return of a run that has been settled.
PathDone(w, local) ==
    IF local.cur # None
    THEN Goto(w, "keycheck", [local EXCEPT !.path = << >>])
    ELSE Return(w)

ReadState(w) ==
    /\ At(w, "setread")
    /\ LET target == Head(wk[w].path)
       IN  \/ /\ runState = target
              /\ IF Len(wk[w].path) = 1
                 THEN PathDone(w, wk[w])
                 ELSE Goto(w, "setread", [wk[w] EXCEPT !.path = Tail(@)])
           \/ /\ LegalMove(runState, target)
              /\ Goto(w, "setwrite", wk[w])
           \/ /\ runState # target /\ ~LegalMove(runState, target)
              /\ Goto(w, "raised", wk[w])
    /\ UNCHANGED << runState, cancelRequested, rows, keys, crashes, replays >>

WriteState(w) ==
    /\ At(w, "setwrite")
    /\ runState' = Head(wk[w].path)
    /\ IF Len(wk[w].path) = 1
       THEN PathDone(w, wk[w])
       ELSE Goto(w, "setread", [wk[w] EXCEPT !.path = Tail(@)])
    /\ UNCHANGED << cancelRequested, rows, keys, crashes, replays >>

(***************************************************************************)
(* _execute: one ready step, claimed under a lease.                        *)
(***************************************************************************)
\* The turn goes on with the next ready step, or ends: with another turn if
\* some step moved, else with the return of the delivery.
NextStep(w, rest, moved) ==
    IF rest # {}
    THEN Goto(w, "claim", [wk[w] EXCEPT !.todo = rest, !.moved = moved, !.cur = None,
                                        !.attempt = 0, !.result = None])
    ELSE IF moved
         THEN Goto(w, "check", [wk[w] EXCEPT !.todo = {}, !.moved = FALSE, !.cur = None,
                                             !.attempt = 0, !.result = None])
         ELSE Return(w)

\* The row is read again, but its state is not looked at again.
Claim(w) ==
    /\ At(w, "claim")
    /\ LET s == FirstOf(wk[w].todo)
       IN  IF \/ rows[s].waiting
              \/ rows[s].live /\ rows[s].owner # w
           THEN NextStep(w, wk[w].todo \ {s}, wk[w].moved)
           ELSE Goto(w, "acquire", [wk[w] EXCEPT !.cur = s, !.attempt = rows[s].attempts + 1])
    /\ UNCHANGED << runState, cancelRequested, rows, keys, crashes, replays >>

\* Mutant of AcquireLease: the upsert has no condition.
AcquireLeaseAlways(w) ==
    /\ At(w, "acquire")
    /\ rows' = [rows EXCEPT ![wk[w].cur].owner = w, ![wk[w].cur].live = TRUE]
    /\ Goto(w, "advance", wk[w])
    /\ UNCHANGED << runState, cancelRequested, keys, crashes, replays >>

\* One conditional statement: nobody's lease, one's own, or one that lapsed.
AcquireLease(w) ==
    /\ At(w, "acquire")
    /\ LET s == wk[w].cur
       IN  IF rows[s].owner = None \/ rows[s].owner = w \/ ~rows[s].live
           THEN /\ rows' = [rows EXCEPT ![s].owner = w, ![s].live = TRUE]
                /\ Goto(w, "advance", wk[w])
           ELSE /\ NextStep(w, wk[w].todo \ {s}, wk[w].moved)
                /\ UNCHANGED rows
    /\ UNCHANGED << runState, cancelRequested, keys, crashes, replays >>

AdvanceTo(w) ==
    /\ At(w, "advance")
    /\ LET path == ForwardPath(runState, Phase[wk[w].cur])
       IN  IF ~OnHappyPath(runState)
           THEN Goto(w, "raised", wk[w])
           ELSE IF path = << >>
                THEN Goto(w, "keycheck", wk[w])
                ELSE Goto(w, "setread", [wk[w] EXCEPT !.path = path])
    /\ UNCHANGED << runState, cancelRequested, rows, keys, crashes, replays >>

\* Mutant of CheckKey: completed work is not looked up.
CheckKeyNever(w) ==
    /\ At(w, "keycheck")
    /\ Goto(w, "start", wk[w])
    /\ UNCHANGED << runState, cancelRequested, rows, keys, crashes, replays >>

\* Work done before is settled as a success without being run again.
CheckKey(w) ==
    /\ At(w, "keycheck")
    /\ Goto(w, IF KeyOf(w) \in keys THEN "dedup" ELSE "start", wk[w])
    /\ UNCHANGED << runState, cancelRequested, rows, keys, crashes, replays >>

Deduplicate(w) ==
    /\ At(w, "dedup")
    /\ rows' = [rows EXCEPT ![wk[w].cur] = Row("succeeded", 0)]
    /\ Goto(w, "release", wk[w])
    /\ UNCHANGED << runState, cancelRequested, keys, crashes, replays >>

\* The row is rewritten with the expiry computed when the lease was taken.  If
\* the row has meanwhile lost that lease, it may have lapsed or been stripped.
StartStep(w) ==
    /\ At(w, "start")
    /\ LET s == wk[w].cur
       IN  \E live \in IF rows[s].owner = w THEN {rows[s].live}
                      ELSE IF LeaseMayLapse THEN BOOLEAN ELSE {TRUE} :
             rows' = [rows EXCEPT ![s] =
                        [state |-> "running", attempts |-> wk[w].attempt, owner |-> w,
                         live |-> live, waiting |-> FALSE]]
    /\ Goto(w, "begin", wk[w])
    /\ UNCHANGED << runState, cancelRequested, keys, crashes, replays >>

\* Every handler looks at the cancellation first.
BeginHandler(w) ==
    /\ At(w, "begin")
    /\ IF cancelRequested
       THEN Goto(w, "settle", [wk[w] EXCEPT !.result = "cancelled"])
       ELSE Goto(w, "work", wk[w])
    /\ UNCHANGED << runState, cancelRequested, rows, keys, crashes, replays >>

\* An exception of the handler is a retryable failure; a long handler may see
\* a later cancellation too.
EndHandler(w) ==
    /\ At(w, "work")
    /\ \E outcome \in Outcomes[wk[w].cur] \cup (IF cancelRequested THEN {"cancelled"} ELSE {}) :
          Goto(w, IF outcome \in {"ok", "skip"} THEN "record" ELSE "settle",
               [wk[w] EXCEPT !.result = outcome])
    /\ UNCHANGED << runState, cancelRequested, rows, keys, crashes, replays >>

\* Mutant of RecordKey: the key is forgotten.
RecordKeyNever(w) ==
    /\ At(w, "record")
    /\ Goto(w, "settle", wk[w])
    /\ UNCHANGED << runState, cancelRequested, rows, keys, crashes, replays >>

RecordKey(w) ==
    /\ At(w, "record")
    /\ keys' = keys \cup {KeyOf(w)}
    /\ Goto(w, "settle", wk[w])
    /\ UNCHANGED << runState, cancelRequested, rows, crashes, replays >>

\* Mutant of SettledRow: one attempt too many.
SettledRowOneMore(s, outcome, attempt) ==
    CASE outcome = "ok" -> Row("succeeded", attempt)
      [] outcome = "skip" -> Row("skipped", attempt)
      [] outcome = "cancelled" -> Row("cancelled", attempt)
      [] outcome = "fail" -> Row("failed", attempt)
      [] outcome = "retry" /\ attempt > MaxAttempts[s] -> Row("dead_lettered", attempt)
      [] outcome = "retry" /\ attempt <= MaxAttempts[s] ->
           [Row("pending", attempt) EXCEPT !.waiting = TRUE]

\* Mutant of SettledRow: a retry does not count the attempts before it.
SettledRowForgetful(s, outcome, attempt) ==
    CASE outcome = "ok" -> Row("succeeded", attempt)
      [] outcome = "skip" -> Row("skipped", attempt)
      [] outcome = "cancelled" -> Row("cancelled", attempt)
      [] outcome = "fail" -> Row("failed", attempt)
      [] outcome = "retry" /\ attempt >= MaxAttempts[s] -> Row("dead_lettered", attempt)
      [] outcome = "retry" /\ attempt < MaxAttempts[s] ->
           [Row("pending", 0) EXCEPT !.waiting = TRUE]

\* _settle and _handle_failure: the row that the outcome of a handler leaves.
SettledRow(s, outcome, attempt) ==
    LET exhausted == attempt >= MaxAttempts[s]
    IN  CASE outcome = "ok" -> Row("succeeded", attempt)
          [] outcome = "skip" -> Row("skipped", attempt)
          [] outcome = "cancelled" -> Row("cancelled", attempt)
          [] outcome = "fail" -> Row("failed", attempt)
          [] outcome = "retry" /\ exhausted -> Row("dead_lettered", attempt)
          [] outcome = "retry" /\ ~exhausted ->
               [Row("pending", attempt) EXCEPT !.waiting = TRUE]

SettleStep(w) ==
    /\ At(w, "settle")
    /\ LET s == wk[w].cur
       IN  /\ rows' = [rows EXCEPT ![s] = SettledRow(s, wk[w].result, wk[w].attempt)]
           /\ Goto(w, "release",
                   [wk[w] EXCEPT !.payload = IF wk[w].result = "ok" THEN @ \cup {s} ELSE @])
    /\ UNCHANGED << runState, cancelRequested, keys, crashes, replays >>

Released(w, s) ==
    IF rows[s].owner = w
    THEN [rows EXCEPT ![s].owner = None, ![s].live = FALSE]
    ELSE rows

ReleaseLease(w) ==
    /\ At(w, "release")
    /\ rows' = Released(w, wk[w].cur)
    /\ NextStep(w, wk[w].todo \ {wk[w].cur}, TRUE)
    /\ UNCHANGED << runState, cancelRequested, keys, crashes, replays >>

\* A LifecycleError leaves run(); on the way out _execute releases its lease.
Raise(w) ==
    /\ At(w, "raised")
    /\ rows' = IF wk[w].cur # None THEN Released(w, wk[w].cur) ELSE rows
    /\ Return(w)
    /\ UNCHANGED << runState, cancelRequested, keys, crashes, replays >>

(***************************************************************************)
(* _cancel: every step that has not settled in one read, then the run.     *)
(***************************************************************************)
\* Mutant of CancelLoad: the run is settled and its steps are left open.
CancelLoadRunOnly(w) ==
    /\ At(w, "cancel")
    /\ Goto(w, "setread", [wk[w] EXCEPT !.path = << "cancelled" >>])
    /\ UNCHANGED << runState, cancelRequested, rows, keys, crashes, replays >>

CancelLoad(w) ==
    /\ At(w, "cancel")
    /\ LET open == {s \in Steps : rows[s].state \in {"pending", "running", "cancelled"}}
       IN  IF open = {}
           THEN Goto(w, "setread", [wk[w] EXCEPT !.path = << "cancelled" >>])
           ELSE Goto(w, "cancelstep", [wk[w] EXCEPT !.todo = open])
    /\ UNCHANGED << runState, cancelRequested, rows, keys, crashes, replays >>

\* Mutant of CancelStep: the steps are settled and the run is left open.
CancelStepOnly(w) ==
    /\ At(w, "cancelstep")
    /\ LET s == FirstOf(wk[w].todo)
           rest == wk[w].todo \ {s}
       IN  /\ rows' = [rows EXCEPT ![s] = Row("cancelled", 0)]
           /\ IF rest = {}
              THEN Return(w)
              ELSE Goto(w, "cancelstep", [wk[w] EXCEPT !.todo = rest])
    /\ UNCHANGED << runState, cancelRequested, keys, crashes, replays >>

CancelStep(w) ==
    /\ At(w, "cancelstep")
    /\ LET s == FirstOf(wk[w].todo)
           rest == wk[w].todo \ {s}
       IN  /\ rows' = [rows EXCEPT ![s] = Row("cancelled", 0)]
           /\ IF rest = {}
              THEN Goto(w, "setread", [wk[w] EXCEPT !.todo = {}, !.path = << "cancelled" >>])
              ELSE Goto(w, "cancelstep", [wk[w] EXCEPT !.todo = rest])
    /\ UNCHANGED << runState, cancelRequested, keys, crashes, replays >>

(***************************************************************************)
(* The environment: users, operators, time, and processes that die.        *)
(***************************************************************************)
\* The API refuses a cancellation of a run that has already finished.
RequestCancellation ==
    /\ MayCancel /\ ~cancelRequested
    /\ runState \notin TerminalStates
    /\ cancelRequested' = TRUE
    /\ UNCHANGED << runState, rows, keys, wk, crashes, replays >>

Replay(s) ==
    /\ replays < MaxReplays
    /\ rows[s].state \in FailedStates
    /\ rows' = [rows EXCEPT ![s] = Row("pending", 0)]
    /\ replays' = replays + 1
    /\ UNCHANGED << runState, cancelRequested, keys, wk, crashes >>

BackoffElapses(s) ==
    /\ rows[s].waiting
    /\ rows' = [rows EXCEPT ![s].waiting = FALSE]
    /\ UNCHANGED << runState, cancelRequested, keys, wk, crashes, replays >>

LeaseLapses(s) ==
    /\ rows[s].live
    /\ \/ LeaseMayLapse
       \/ At(rows[s].owner, "dead")
    /\ rows' = [rows EXCEPT ![s].live = FALSE]
    /\ UNCHANGED << runState, cancelRequested, keys, wk, crashes, replays >>

Crash(w) ==
    /\ crashes < MaxCrashes
    /\ wk[w].pc \notin {"idle", "dead"}
    /\ crashes' = crashes + 1
    /\ Goto(w, "dead", IdleWorker)
    /\ UNCHANGED << runState, cancelRequested, rows, keys, replays >>

\* A delivery has a fresh worker id, so w stands for a new one only once no
\* live lease bears the old one.
Restart(w) ==
    /\ At(w, "dead")
    /\ \A s \in Steps : ~(rows[s].live /\ rows[s].owner = w)
    /\ Return(w)
    /\ UNCHANGED << runState, cancelRequested, rows, keys, crashes, replays >>

RunStep(w) ==
    \/ CheckCancellation(w) \/ LoadSteps(w) \/ SkipBlocked(w) \/ SettleRun(w)
    \/ ReadState(w) \/ WriteState(w) \/ CancelLoad(w) \/ CancelStep(w) \/ Raise(w)

ExecuteStep(w) ==
    \/ Claim(w) \/ AcquireLease(w) \/ AdvanceTo(w) \/ CheckKey(w) \/ Deduplicate(w)
    \/ StartStep(w) \/ BeginHandler(w) \/ EndHandler(w) \/ RecordKey(w)
    \/ SettleStep(w) \/ ReleaseLease(w)

Time == \E s \in Steps : BackoffElapses(s) \/ LeaseLapses(s)

Next ==
    \/ \E w \in Workers : \/ Deliver(w) \/ RunStep(w) \/ ExecuteStep(w)
                          \/ Crash(w) \/ Restart(w)
    \/ RequestCancellation
    \/ \E s \in Steps : Replay(s)
    \/ Time

Spec == Init /\ [][Next]_vars

(***************************************************************************)
(* Fairness: the sweep delivers a run that stays due, a live process goes  *)
(* on, a dead one is restarted, and time passes.  No user, operator or     *)
(* duplicate message is owed anything.                                     *)
(***************************************************************************)
DeliverDue(w) == Due /\ Deliver(w)

Fairness ==
    /\ \A w \in Workers : /\ WF_vars(DeliverDue(w))
                          /\ WF_vars(RunStep(w) \/ ExecuteStep(w))
                          /\ WF_vars(Restart(w))
    /\ WF_vars(Time)

FairSpec == Spec /\ Fairness

(***************************************************************************)
(* Type invariant.                                                         *)
(***************************************************************************)
ProgramCounters ==
    {"idle", "check", "load", "skip", "settlerun", "setread", "setwrite",
     "claim", "acquire", "advance", "keycheck", "dedup", "start", "begin",
     "work", "record", "settle", "release", "raised", "cancel", "cancelstep",
     "dead"}

RowType ==
    [state : StepStates, attempts : Nat, owner : Workers \cup {None},
     live : BOOLEAN, waiting : BOOLEAN]

Results ==
    {"ok", "skip", "retry", "fail", "cancelled", None,
     "completed", "partially_completed", "failed"}

WorkerType ==
    [pc : ProgramCounters, todo : SUBSET Steps, payload : SUBSET Steps,
     moved : BOOLEAN, cur : Steps \cup {None}, attempt : Nat,
     path : Seq(AssessmentStates), result : Results]

TypeOK ==
    /\ runState \in AssessmentStates
    /\ cancelRequested \in BOOLEAN
    /\ rows \in [Steps -> RowType]
    /\ keys \subseteq Keys
    /\ wk \in [Workers -> WorkerType]
    /\ crashes \in 0..MaxCrashes
    /\ replays \in 0..MaxReplays

(***************************************************************************)
(* Properties.                                                             *)
(***************************************************************************)
\* A step that rests on no required one: no failure of another puts it aside.
Sheltered == {s \in Steps : Deps[s] \subseteq Optional}

\* No two deliveries are ever inside the handler of one step: the leases of
\* _try_acquire_lease and the handler's first look at the cancellation.  Two
\* writes clear a lease whoever holds it, and they are left out: an operator's
\* replay, and the skip of a step that another one's failure has put aside.
WorkExclusion ==
    replays = 0 =>
        \A v, w \in Workers :
            At(v, "work") /\ At(w, "work") /\ wk[v].cur = wk[w].cur /\ wk[v].cur \in Sheltered
                => v = w

\* Work that is recorded as complete is never done a second time: the key is
\* checked and recorded under one lease, which nobody else has cleared.
WorkDoneOnce ==
    replays = 0 =>
        \A w \in Workers : At(w, "record") /\ wk[w].cur \in Sheltered => KeyOf(w) \notin keys

\* "Leases stop two workers running one step at once" (engine.py): false of a
\* step that is put aside while it runs, see the README.
LeasesExclude ==
    replays = 0 =>
        \A v, w \in Workers :
            At(v, "work") /\ At(w, "work") /\ wk[v].cur = wk[w].cur => v = w

\* Work of step s is among the keys K.
Recorded(K, s) == \E p \in SUBSET Steps : << s, p >> \in K

\* A handler runs only after every required step it depends on has recorded
\* completed work, however the rows have been rewritten since.
RequiredWorkRecorded ==
    \A w \in Workers :
        At(w, "work") => \A d \in Deps[wk[w].cur] \ Optional : Recorded(keys, d)

\* A run reported as completed did all of its required work, and it has no
\* failure and nothing left open.
CompletedRunDidItsWork ==
    runState = "completed" =>
        \A s \in Steps : \/ rows[s].state = "succeeded"
                        \/ (rows[s].state = "skipped" /\ s \in Optional)

\* No step spends more attempts than its budget.
AttemptBudget == \A s \in Steps : rows[s].attempts <= MaxAttempts[s]

\* A run that has completed, was cancelled, expired or was blocked by policy is
\* final: reopening it would let a published result change after the fact.
FinalStatesImmutable ==
    [][(runState \in TerminalStates \ ReopenableStates) => (runState' = runState)]_vars

\* A step that has settled is never touched again.
SettledStepsStay ==
    [][\A s \in Steps : rows[s].state \in TerminalStepStates =>
                          rows'[s].state = rows[s].state]_vars

(***************************************************************************)
(* The inductive invariant behind RequiredWorkRecorded.  A worker keeps a  *)
(* list of steps it once found ready; that they may run does not rest on   *)
(* the rows, which others rewrite, but on the keys, which only grow.       *)
(***************************************************************************)
Executing ==
    {"acquire", "advance", "keycheck", "dedup", "start", "begin", "work",
     "record", "settle", "release"}

\* The locals that the program counter relies on are there.
Fits(local) ==
    /\ local.pc \in {"skip", "claim", "cancelstep"} => local.todo # {}
    /\ local.pc \in Executing => local.cur \in local.todo
    /\ local.pc \notin Executing \cup {"setread", "setwrite", "raised"} => local.cur = None
    /\ local.pc \in {"setread", "setwrite"} =>
          local.path # << >> /\ (local.cur # None => local.cur \in local.todo)
    /\ local.pc = "settlerun" =>
          local.result \in {"completed", "partially_completed", "failed", "cancelled"}
    /\ local.pc = "record" => local.result \in {"ok", "skip"}
    /\ local.pc = "settle" => local.result \in {"ok", "skip", "retry", "fail", "cancelled"}

Rests(local, K) ==
    local.pc \notin {"skip", "cancelstep"} =>
        \A s \in local.todo : \A d \in Deps[s] \ Optional : Recorded(K, d)

Earned(local, K) ==
    (local.pc = "dedup" \/ (local.pc = "settle" /\ local.result = "ok"))
        => Recorded(K, local.cur)

LocalInv(local, K) ==
    local \in WorkerType /\ Fits(local) /\ Rests(local, K) /\ Earned(local, K)

RowInv(row, s, K) == row \in RowType /\ (row.state = "succeeded" => Recorded(K, s))

IndInv ==
    /\ TypeOK
    /\ \A s \in Steps : RowInv(rows[s], s, keys)
    /\ \A w \in Workers : LocalInv(wk[w], keys)

(***************************************************************************)
(* Refinement: with one delivery at a time, and none that is not due, the  *)
(* engine keeps the promise of DurableRun.  A running step is an open one. *)
(***************************************************************************)
Durable == INSTANCE DurableRun WITH
    step <- [s \in Steps |->
               IF rows[s].state = "running" THEN "pending" ELSE rows[s].state],
    verdict <- IF runState \in TerminalStates THEN runState ELSE NoOutcome,
    cancelled <- cancelRequested

\* The engine implements DurableRun.
ImplementsDurableRun == Durable!DurableSpec

\* A run always reaches a terminal state.
RunSettles == <>(runState \in TerminalStates)

\* The only thing that keeps a run from a terminal state for ever is a step
\* whose worker died between its two rows: whatever else a crash interrupts,
\* retries, backoffs and dead leases included, a later delivery goes on with.
SettlesUnlessStranded ==
    RunSettles \/ <>[](\E s \in Steps : rows[s].state = "running" /\ ~rows[s].live)

\* A cancelled run always reaches a terminal state.
CancellationSettles == cancelRequested ~> runState \in TerminalStates
=============================================================================
