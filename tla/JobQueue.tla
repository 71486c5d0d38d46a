------------------------------ MODULE JobQueue ------------------------------
(***************************************************************************)
(* The durable job queue of apps/api: the table platform.jobs, the workers *)
(* that drain it (jobs/worker.ts, jobs/store.ts, jobs/settle.ts) and the   *)
(* operator who resolves the jobs that stopped (jobs/queries.ts).          *)
(*                                                                         *)
(* One action is one database transaction, or one step of a worker between *)
(* two of them.  A handler's transaction is spread over several actions,   *)
(* because it holds the lock of its row while the handler runs; what it    *)
(* writes becomes visible at its commit.                                   *)
(*                                                                         *)
(* Time is abstract: a queued row is due or not (available_at <= now()), a *)
(* lease is live or expired (lease_until < now()); the clock makes a row   *)
(* due and a lease expired, never the reverse.                             *)
(***************************************************************************)
EXTENDS Integers, FiniteSets

CONSTANTS
    Jobs,          \* identifiers of rows: fresh UUIDs, never used twice
    Workers,       \* processes of the job-worker role
    Tokens,        \* claim tokens: 32 random bytes
    Kinds,         \* job kinds
    Handled,       \* the kinds some active module registers a handler for
    Keys,          \* delivery keys
    Budgets,       \* the values of max_attempts that are enqueued
    Sweeping,      \* doneRetentionDays >= 1: done rows are deleted
    SessionsDrop,  \* PostgreSQL may drop a session while its worker runs on
    None           \* SQL null

ASSUME QueueAssumption ==
    /\ Handled \subseteq Kinds
    /\ Budgets \subseteq Nat \ {0}
    /\ Sweeping \in BOOLEAN
    /\ SessionsDrop \in BOOLEAN
    /\ None \notin Jobs /\ None \notin Workers
    /\ None \notin Tokens /\ None \notin Keys

VARIABLES
    row,      \* platform.jobs
    worker,   \* what each worker holds in memory
    locker,   \* the worker whose open transaction locks a row
    starts,   \* history: handler starts since the attempt budget was granted
    applied   \* history: committed runs that settled the job as done

vars == <<row, worker, locker, starts, applied>>

-----------------------------------------------------------------------------
(* The table                                                               *)

Stopped  == {"failed", "dead", "outcome_unknown"}
Terminal == Stopped \cup {"done"}

\* "absent" and "swept" are the two ways of not being in the table
Status == {"absent", "queued", "running", "swept"} \cup Terminal

Row == [status : Status, kind : Kinds, key : Keys \cup {None},
        attempts : Nat, max : Budgets, due : BOOLEAN,
        lease : {"none", "live", "expired"}, token : Tokens \cup {None},
        completed : BOOLEAN]

\* A row not yet inserted; its kind and max_attempts are what it will get
AbsentRow(k, m) ==
    [status |-> "absent", kind |-> k, key |-> None, attempts |-> 0, max |-> m,
     due |-> FALSE, lease |-> "none", token |-> None, completed |-> FALSE]

Present(j) == row[j].status \notin {"absent", "swept"}

Open(j) == row[j].status \in {"queued", "running"}

\* The predicate of lockClaimedJob and of settleJob
HoldsClaim(j, t) == row[j].status = "running" /\ row[j].token = t

\* Mutant of Settled: the refused run is written with its outcome's own name
MutSettled(r, o) ==
    LET exhausted == o = "retry" /\ r.attempts >= r.max
        requeued  == o = "retry" /\ ~exhausted
    IN  [r EXCEPT !.status    = IF requeued THEN "queued"
                                ELSE IF exhausted THEN "dead" ELSE o,
                  !.due       = FALSE,
                  !.lease     = "none",
                  !.token     = None,
                  !.completed = ~requeued]

\* Mutant of Settled: every requeued run gets its attempt back
MutSettledRefund(r, o) ==
    LET exhausted == o = "retry" /\ r.attempts >= r.max
        requeued  == o = "not_admitted" \/ (o = "retry" /\ ~exhausted)
    IN  [r EXCEPT !.status    = IF requeued THEN "queued"
                                ELSE IF exhausted THEN "dead" ELSE o,
                  !.attempts  = IF requeued /\ r.attempts > 0
                                THEN r.attempts - 1 ELSE r.attempts,
                  !.due       = FALSE,
                  !.lease     = "none",
                  !.token     = None,
                  !.completed = ~requeued]

\* The row settleJob writes for a run that ended with outcome o
Settled(r, o) ==
    LET exhausted == o = "retry" /\ r.attempts >= r.max
        requeued  == o = "not_admitted" \/ (o = "retry" /\ ~exhausted)
    IN  [r EXCEPT !.status    = IF requeued THEN "queued"
                                ELSE IF exhausted THEN "dead" ELSE o,
                  !.attempts  = IF o = "not_admitted" /\ r.attempts > 0
                                THEN r.attempts - 1 ELSE r.attempts,
                  !.due       = FALSE,
                  !.lease     = "none",
                  !.token     = None,
                  !.completed = ~requeued]

-----------------------------------------------------------------------------
(* A worker                                                                *)

\* What a handler's return value settles as (settlementOf)
HandlerOutcome == {"done", "retry", "failed", "outcome_unknown"}
\* What a refused admission settles as (refusedJobSettlement)
Refusal == {"not_admitted", "failed"}
Outcome == HandlerOutcome \cup Refusal \cup {"dead"}

\* idle       between two claims            claimed    the claim is committed
\* admitting  row locked, policies asked    refusing   refusal settled
\* handling   the handler runs              settling   its outcome settled
\* apart      the transaction is over, the outcome is recorded in another
\* stopped    stop() returned
InTransaction == {"admitting", "refusing", "handling", "settling"}
Running       == {"handling", "settling"}
Phase == {"idle", "claimed", "apart", "stopped"} \cup InTransaction

Worker == [phase : Phase, job : Jobs \cup {None},
           token : Tokens \cup {None}, outcome : Outcome \cup {None}]

IdleWorker ==
    [phase |-> "idle", job |-> None, token |-> None, outcome |-> None]

\* Random tokens never collide: a token is fresh when nobody knows it
FreshTokens ==
    Tokens \ ({row[j].token : j \in Jobs} \cup {worker[w].token : w \in Workers})

Locks(w) == worker[w].job \in Jobs /\ locker[worker[w].job] = w

\* COMMIT, ROLLBACK and the end of a session release the row
Unlocked(w) == [j \in Jobs |-> IF locker[j] = w THEN None ELSE locker[j]]

Init ==
    /\ row \in [Jobs -> {AbsentRow(k, m) : k \in Kinds, m \in Budgets}]
    /\ worker = [w \in Workers |-> IdleWorker]
    /\ locker = [j \in Jobs |-> None]
    /\ starts = [j \in Jobs |-> 0]
    /\ applied = [j \in Jobs |-> 0]

-----------------------------------------------------------------------------
(* Enqueue, claim                                                          *)

\* insert ... on conflict do nothing: an equal (kind, delivery_key) inserts
\* nothing, whatever the state of the row that has it
Enqueue(j, key, now) ==
    /\ row[j].status = "absent"
    /\ key # None => \A i \in Jobs :
          ~(Present(i) /\ row[i].kind = row[j].kind /\ row[i].key = key)
    /\ row' = [row EXCEPT ![j].status = "queued", ![j].key = key,
                          ![j].due = now]
    /\ UNCHANGED <<worker, locker, starts, applied>>

\* Mutant of Abandoned: the claim does not close rows at the attempt bound
MutAbandoned == {}

\* running rows past their lease with no attempt left, not locked
Abandoned == {j \in Jobs : /\ row[j].status = "running"
                           /\ row[j].lease = "expired"
                           /\ row[j].attempts >= row[j].max
                           /\ locker[j] = None}

\* Mutant of Due: off by one at the attempt bound
MutDue == {j \in Jobs :
             /\ locker[j] = None
             /\ \/ row[j].status = "queued" /\ row[j].due
                \/ /\ row[j].status = "running" /\ row[j].lease = "expired"
                   /\ row[j].attempts <= row[j].max}

\* rows the claim may take, not locked
Due == {j \in Jobs :
          /\ locker[j] = None
          /\ \/ row[j].status = "queued" /\ row[j].due
             \/ /\ row[j].status = "running" /\ row[j].lease = "expired"
                /\ row[j].attempts < row[j].max}

\* limit 1 of a set of rows; none when the set is empty
LimitOne(S) == IF S = {} THEN {None} ELSE S

Closed(r) == [r EXCEPT !.status = "dead", !.lease = "none", !.token = None,
                       !.completed = TRUE]

Claimed(r, t) == [r EXCEPT !.status = "running", !.attempts = @ + 1,
                           !.lease = "live", !.token = t]

\* claimJobs with limit 1: close one abandoned row as dead, then claim one
Claim(w, close, take) ==
    /\ worker[w].phase = "idle"
    /\ close \in LimitOne(Abandoned)
    /\ take \in LimitOne(Due)
    /\ ~(close = None /\ take = None)
    /\ FreshTokens # {}
    /\ LET t == CHOOSE t \in FreshTokens : TRUE
       IN  /\ row' = [j \in Jobs |-> IF j = close THEN Closed(row[j])
                                     ELSE IF j = take THEN Claimed(row[j], t)
                                     ELSE row[j]]
           /\ worker' = IF take = None THEN worker
                        ELSE [worker EXCEPT ![w] =
                                [phase |-> "claimed", job |-> take,
                                 token |-> t, outcome |-> None]]
    /\ UNCHANGED <<locker, starts, applied>>

-----------------------------------------------------------------------------
(* runClaimedJob                                                           *)

\* The transaction ends without effect and o is recorded in one of its own
GoApart(w, o) ==
    /\ worker' = [worker EXCEPT ![w].phase = "apart", ![w].outcome = o]
    /\ locker' = Unlocked(w)
    /\ UNCHANGED <<row, starts, applied>>

\* No module handles the kind
NoHandler(w) ==
    /\ worker[w].phase = "claimed"
    /\ row[worker[w].job].kind \notin Handled
    /\ GoApart(w, "dead")

\* Opening the session, or locking the row, throws before the handler starts
OpenFails(w) ==
    /\ worker[w].phase = "claimed"
    /\ row[worker[w].job].kind \in Handled
    /\ GoApart(w, "retry")

\* Mutant of Lock: the row is locked without proving the claim
MutLock(w) ==
    /\ worker[w].phase = "claimed"
    /\ row[worker[w].job].kind \in Handled
    /\ locker[worker[w].job] = None
    /\ locker' = [locker EXCEPT ![worker[w].job] = w]
    /\ worker' = [worker EXCEPT ![w].phase = "admitting"]
    /\ UNCHANGED <<row, starts, applied>>

\* lockClaimedJob; the lease plays no part
Lock(w) ==
    /\ worker[w].phase = "claimed"
    /\ row[worker[w].job].kind \in Handled
    /\ HoldsClaim(worker[w].job, worker[w].token)
    /\ locker[worker[w].job] = None
    /\ locker' = [locker EXCEPT ![worker[w].job] = w]
    /\ worker' = [worker EXCEPT ![w].phase = "admitting"]
    /\ UNCHANGED <<row, starts, applied>>

\* lockClaimedJob matches nothing: another worker owns the job now
LoseClaim(w) ==
    /\ worker[w].phase = "claimed"
    /\ row[worker[w].job].kind \in Handled
    /\ ~HoldsClaim(worker[w].job, worker[w].token)
    /\ worker' = [worker EXCEPT ![w] = IdleWorker]
    /\ UNCHANGED <<row, locker, starts, applied>>

\* A policy refuses the run and settleJob runs in the transaction that
\* locked the row; without that transaction settleJob throws
Refuse(w, o) ==
    /\ worker[w].phase = "admitting"
    /\ \/ /\ Locks(w)
          /\ worker' = [worker EXCEPT ![w].phase = "refusing",
                                      ![w].outcome = o]
          /\ UNCHANGED <<row, locker, starts, applied>>
       \/ ~Locks(w) /\ GoApart(w, "retry")

\* The admission itself throws
AdmissionFails(w) ==
    /\ worker[w].phase = "admitting"
    /\ GoApart(w, "retry")

\* Admitted.  The policies ran on another connection, so this step does not
\* notice that the session holding the lock is gone.
StartHandler(w) ==
    /\ worker[w].phase = "admitting"
    /\ worker' = [worker EXCEPT ![w].phase = "handling"]
    /\ starts' = [starts EXCEPT ![worker[w].job] = @ + 1]
    /\ UNCHANGED <<row, locker, applied>>

HandlerReturns(w, o) ==
    /\ worker[w].phase = "handling"
    /\ worker' = [worker EXCEPT ![w].phase = "settling", ![w].outcome = o]
    /\ UNCHANGED <<row, locker, starts, applied>>

HandlerThrows(w) ==
    /\ worker[w].phase = "handling"
    /\ GoApart(w, "outcome_unknown")

\* What the COMMIT of a settled run makes visible
Committed(w) ==
    /\ worker[w].phase \in {"refusing", "settling"}
    /\ Locks(w)
    /\ row' = [row EXCEPT ![worker[w].job] = Settled(@, worker[w].outcome)]
    /\ locker' = Unlocked(w)
    /\ applied' = IF worker[w].outcome = "done"
                  THEN [applied EXCEPT ![worker[w].job] = @ + 1] ELSE applied
    /\ UNCHANGED starts

Commit(w) ==
    /\ Committed(w)
    /\ worker' = [worker EXCEPT ![w] = IdleWorker]

\* The outcome recorded apart after settling or committing threw
ApartOutcome(w) ==
    IF worker[w].phase = "refusing" THEN "retry"
    ELSE IF worker[w].outcome = "done" THEN "outcome_unknown"
    ELSE worker[w].outcome

\* The COMMIT took effect and its acknowledgement was lost
CommitUnconfirmed(w) ==
    /\ Committed(w)
    /\ worker' = [worker EXCEPT ![w].phase = "apart",
                                ![w].outcome = ApartOutcome(w)]

\* Settling or committing throws and the transaction is rolled back
CommitFails(w) ==
    /\ worker[w].phase \in {"refusing", "settling"}
    /\ GoApart(w, ApartOutcome(w))

\* Mutant of SettleApart: the settlement does not check the claim
MutSettleApart(w) ==
    /\ worker[w].phase = "apart"
    /\ locker[worker[w].job] = None
    /\ row' = [row EXCEPT ![worker[w].job] = Settled(@, worker[w].outcome)]
    /\ worker' = [worker EXCEPT ![w] = IdleWorker]
    /\ UNCHANGED <<locker, starts, applied>>

\* settleApart: settleJob in a fresh worker transaction
SettleApart(w) ==
    LET j == worker[w].job
    IN  /\ worker[w].phase = "apart"
        /\ HoldsClaim(j, worker[w].token) => locker[j] = None
        /\ row' = IF HoldsClaim(j, worker[w].token)
                  THEN [row EXCEPT ![j] = Settled(@, worker[w].outcome)]
                  ELSE row
        /\ worker' = [worker EXCEPT ![w] = IdleWorker]
        /\ UNCHANGED <<locker, starts, applied>>

\* settleApart throws; the tick logs it and the loop goes on
SettleApartFails(w) ==
    /\ worker[w].phase = "apart"
    /\ worker' = [worker EXCEPT ![w] = IdleWorker]
    /\ UNCHANGED <<row, locker, starts, applied>>

-----------------------------------------------------------------------------
(* Failures, the clock, shutdown                                           *)

\* The process dies and is restarted; PostgreSQL rolls its session back
Crash(w) ==
    /\ worker[w].phase \notin {"idle", "stopped"}
    /\ worker' = [worker EXCEPT ![w] = IdleWorker]
    /\ locker' = Unlocked(w)
    /\ UNCHANGED <<row, starts, applied>>

\* The server ends the session that holds the lock; the worker runs on
SessionLost(w) ==
    /\ SessionsDrop
    /\ worker[w].phase \in InTransaction
    /\ Locks(w)
    /\ locker' = Unlocked(w)
    /\ UNCHANGED <<row, worker, starts, applied>>

LeaseExpires(j) ==
    /\ row[j].lease = "live"
    /\ row' = [row EXCEPT ![j].lease = "expired"]
    /\ UNCHANGED <<worker, locker, starts, applied>>

BecomesDue(j) ==
    /\ row[j].status = "queued"
    /\ ~row[j].due
    /\ row' = [row EXCEPT ![j].due = TRUE]
    /\ UNCHANGED <<worker, locker, starts, applied>>

\* stop() takes effect between two claims: the run in flight is finished
Stop(w) ==
    /\ worker[w].phase = "idle"
    /\ worker' = [worker EXCEPT ![w].phase = "stopped"]
    /\ UNCHANGED <<row, locker, starts, applied>>

Start(w) ==
    /\ worker[w].phase = "stopped"
    /\ worker' = [worker EXCEPT ![w].phase = "idle"]
    /\ UNCHANGED <<row, locker, starts, applied>>

-----------------------------------------------------------------------------
(* The operator, retention                                                 *)

\* Mutant of Requeue: done jobs requeue too
MutRequeueDone(j) ==
    /\ row[j].status \in Terminal
    /\ row' = [row EXCEPT ![j].status = "queued", ![j].attempts = 0,
                          ![j].due = TRUE, ![j].completed = FALSE]
    /\ starts' = [starts EXCEPT ![j] = 0]
    /\ UNCHANGED <<worker, locker, applied>>

\* resolveJob(requeue): a fresh attempt budget
Requeue(j) ==
    /\ row[j].status \in Stopped
    /\ row' = [row EXCEPT ![j].status = "queued", ![j].attempts = 0,
                          ![j].due = TRUE, ![j].completed = FALSE]
    /\ starts' = [starts EXCEPT ![j] = 0]
    /\ UNCHANGED <<worker, locker, applied>>

\* resolveJob(done): the effect was confirmed out of band
MarkDone(j) ==
    /\ row[j].status \in Stopped
    /\ row' = [row EXCEPT ![j].status = "done", ![j].completed = TRUE]
    /\ UNCHANGED <<worker, locker, starts, applied>>

\* Mutant of Sweep: every completed row past retention is deleted
MutSweep(j) ==
    /\ Sweeping
    /\ row[j].status \in Terminal
    /\ row' = [row EXCEPT ![j].status = "swept"]
    /\ UNCHANGED <<worker, locker, starts, applied>>

\* sweepDoneJobs: the retention of a done row has passed
Sweep(j) ==
    /\ Sweeping
    /\ row[j].status = "done"
    /\ row' = [row EXCEPT ![j].status = "swept"]
    /\ UNCHANGED <<worker, locker, starts, applied>>

-----------------------------------------------------------------------------
\* The steps of a run that the worker takes by itself
RunStep(w) ==
    \/ NoHandler(w) \/ OpenFails(w) \/ Lock(w) \/ LoseClaim(w)
    \/ \E o \in Refusal : Refuse(w, o)
    \/ AdmissionFails(w) \/ StartHandler(w)
    \/ \E o \in HandlerOutcome : HandlerReturns(w, o)
    \/ HandlerThrows(w)
    \/ Commit(w) \/ CommitUnconfirmed(w) \/ CommitFails(w)
    \/ SettleApart(w) \/ SettleApartFails(w)

JobStep(j) ==
    \/ \E key \in Keys \cup {None}, now \in BOOLEAN : Enqueue(j, key, now)
    \/ LeaseExpires(j) \/ BecomesDue(j)
    \/ Requeue(j) \/ MarkDone(j) \/ Sweep(j)

WorkerStep(w) ==
    \/ \E close, take \in Jobs \cup {None} : Claim(w, close, take)
    \/ RunStep(w)
    \/ Crash(w) \/ SessionLost(w)
    \/ Stop(w) \/ Start(w)

Next == (\E w \in Workers : WorkerStep(w)) \/ (\E j \in Jobs : JobStep(j))

Spec == Init /\ [][Next]_vars

\* The claim of any worker that closes or takes row j
ClaimOf(j) ==
    \E w \in Workers, i \in Jobs \cup {None} : Claim(w, j, i) \/ Claim(w, i, j)

\* A refusal that names a later moment puts row j back into the queue
NotAdmitted(j) ==
    \E w \in Workers : /\ Committed(w)
                       /\ worker[w].job = j
                       /\ worker[w].outcome = "not_admitted"

Fairness ==
    /\ \A w \in Workers : WF_vars(RunStep(w)) /\ WF_vars(Start(w))
    /\ \A j \in Jobs : /\ SF_vars(ClaimOf(j))
                       /\ WF_vars(LeaseExpires(j))
                       /\ WF_vars(BecomesDue(j))

FairSpec == Spec /\ Fairness

-----------------------------------------------------------------------------
(* Properties                                                              *)

\* Every variable has its type: the columns of platform.jobs and the claim a
\* worker of worker.ts carries.
TypeOK ==
    /\ row \in [Jobs -> Row]
    /\ worker \in [Workers -> Worker]
    /\ locker \in [Jobs -> Workers \cup {None}]
    /\ starts \in [Jobs -> Nat]
    /\ applied \in [Jobs -> Nat]

\* No transaction is refused by the CHECK jobs_status_shape: exactly the
\* running rows hold a lease and a token, exactly the finished ones have
\* completed_at.  The operator's requeue and the sweep rely on it, since
\* neither clears a lease.
StatusShape ==
    \A j \in Jobs : Present(j) =>
        /\ (row[j].status = "running") <=> (row[j].lease # "none")
        /\ (row[j].status = "running") <=> (row[j].token # None)
        /\ (row[j].status \in Terminal) <=> row[j].completed

\* "An expired lease is never reclaimed from under a run that is still
\* going": two workers never run the handler of one job at the same time, and
\* the one that runs it owns the claim the row records.
SingleLiveRun ==
    \A w \in Workers : worker[w].phase \in Running =>
        /\ HoldsClaim(worker[w].job, worker[w].token)
        /\ \A v \in Workers :
              worker[v].phase \in Running /\ worker[v].job = worker[w].job
                => v = w

\* max_attempts bounds the handler starts one budget pays for, although a
\* refused admission gives its attempt back: refusing never buys extra runs.
RunsWithinBudget ==
    \A j \in Jobs : starts[j] <= row[j].attempts /\ row[j].attempts <= row[j].max

\* The writes of a run that ended done commit at most once per job, whatever
\* crashes, expired leases, lost acknowledgements and requeues come between.
AppliedAtMostOnce ==
    \A j \in Jobs :
        /\ applied[j] <= 1
        /\ applied[j] = 1 => row[j].status \in {"done", "swept"}

\* worker.ts: a refused run "is never outcome_unknown".  A job is only left
\* outcome_unknown when its handler was started.
UnknownOnlyAfterStart ==
    \A j \in Jobs : row[j].status = "outcome_unknown" => starts[j] > 0

\* "a second enqueue of the same key after the first was delivered must not
\* deliver again, which is the whole point of the key" (store.ts): jobs of one
\* kind and delivery key are delivered once in all.  The key lives in the row
\* that the sweep deletes.
KeyDeliversOnce ==
    \A i, j \in Jobs :
        /\ row[i].key # None /\ row[i].key = row[j].key
        /\ row[i].kind = row[j].kind
        /\ applied[i] > 0 /\ applied[j] > 0
        => i = j

\* What a claim holder may lose: once a row is reclaimed, resolved or closed,
\* no step of the previous claimer changes it.  Only a worker whose token the
\* row records, a claim, or the operator moves a row to another status.
StaleHolderIsInert ==
    [][\A j \in Jobs, w \in Workers :
          /\ worker[w].phase \in InTransaction \cup {"apart"}
          /\ worker[w].job = j
          /\ worker'[w] # worker[w]
          /\ ~HoldsClaim(j, worker[w].token)
          => row'[j] = row[j]]_vars

\* Every job the queue accepted leaves the queue: a worker reports its end or
\* the claim closes it, unless a host policy keeps refusing it forever.
EventuallySettled ==
    \A j \in Jobs :
        \/ []<><<NotAdmitted(j)>>_vars
        \/ Open(j) ~> ~Open(j)

-----------------------------------------------------------------------------
(* What the queue implements                                               *)

\* The state of JobLifecycle a status stands for
LifecycleState(s) ==
    CASE s = "absent"               -> "absent"
      [] s \in {"queued", "running"} -> "open"
      [] s \in Stopped              -> "stopped"
      [] s = "done"                 -> "done"
      [] s = "swept"                -> "forgotten"

Lifecycle == INSTANCE JobLifecycle WITH
    state     <- [j \in Jobs |-> LifecycleState(row[j].status)],
    delivered <- applied

\* The queue, with its claims, leases, crashes and lost acknowledgements, does
\* to each job nothing but the steps of JobLifecycle.
ImplementsLifecycle == Lifecycle!Spec
=============================================================================
