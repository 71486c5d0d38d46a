--------------------------- MODULE JobQueueProofs ---------------------------
(***************************************************************************)
(* Proofs about JobQueue for every set of jobs, workers, tokens, kinds and *)
(* budgets.  IInv is the inductive invariant; the results follow from it.  *)
(***************************************************************************)
EXTENDS JobQueue, TLAPS

Busy == Phase \ {"idle", "stopped"}

\* What the phase of a worker says of the claim it carries
WorkerShape ==
    \A w \in Workers :
        /\ worker[w].phase \in Busy =>
              worker[w].job \in Jobs /\ worker[w].token \in Tokens
        /\ worker[w].phase \notin Busy => worker[w].token = None
        /\ worker[w].phase = "refusing" => worker[w].outcome \in Refusal
        /\ worker[w].phase = "settling" => worker[w].outcome \in HandlerOutcome
        /\ worker[w].phase = "apart" =>
              worker[w].outcome \in {"retry", "failed", "outcome_unknown", "dead"}

\* StatusShape, of the rows that are not in the table too
RowShape ==
    \A j \in Jobs :
        /\ (row[j].status = "running") <=> (row[j].lease # "none")
        /\ (row[j].status = "running") <=> (row[j].token # None)
        /\ Present(j) => ((row[j].status \in Terminal) <=> row[j].completed)
        /\ row[j].status = "absent" => ~row[j].completed

\* The holder of a row lock is inside the transaction that proved its claim,
\* and nothing has moved the row since
LockShape ==
    \A j \in Jobs : locker[j] # None =>
        /\ worker[locker[j]].phase \in InTransaction
        /\ worker[locker[j]].job = j
        /\ HoldsClaim(j, worker[locker[j]].token)

\* A token names one worker and one row
TokenShape ==
    /\ \A j \in Jobs, w \in Workers :
          row[j].token # None /\ row[j].token = worker[w].token
            => worker[w].job = j
    /\ \A v, w \in Workers :
          worker[w].token # None /\ worker[v].token = worker[w].token => v = w

BudgetShape ==
    \A j \in Jobs :
        /\ row[j].attempts <= row[j].max
        /\ row[j].status \in {"absent", "queued"} => row[j].attempts < row[j].max
        /\ row[j].status = "running" => row[j].attempts > 0

IInv == /\ TypeOK /\ WorkerShape /\ RowShape
        /\ LockShape /\ TokenShape /\ BudgetShape

-----------------------------------------------------------------------------
\* The initial states satisfy the inductive invariant.
LEMMA InitIInv == Init => IInv
  <1> SUFFICES ASSUME Init PROVE IInv
    OBVIOUS
  <1>1. \A j \in Jobs : \E k \in Kinds, m \in Budgets : row[j] = AbsentRow(k, m)
    BY DEF Init
  <1>2. \A j \in Jobs : /\ row[j] \in Row
                       /\ row[j].status = "absent" /\ row[j].attempts = 0
                       /\ row[j].lease = "none" /\ row[j].token = None
                       /\ row[j].completed = FALSE /\ row[j].max \in Nat \ {0}
    <2> SUFFICES ASSUME NEW j \in Jobs, NEW k \in Kinds, NEW m \in Budgets,
                        row[j] = AbsentRow(k, m)
                 PROVE  /\ row[j] \in Row
                        /\ row[j].status = "absent" /\ row[j].attempts = 0
                        /\ row[j].lease = "none" /\ row[j].token = None
                        /\ row[j].completed = FALSE /\ row[j].max \in Nat \ {0}
      BY <1>1
    <2> QED BY QueueAssumption DEF AbsentRow, Row, Status
  <1>3. row = [j \in Jobs |-> row[j]]
    BY DEF Init
  <1>4. TypeOK
    BY <1>2, <1>3 DEF TypeOK, Worker, Phase, Init, IdleWorker
  <1>5. WorkerShape /\ LockShape /\ TokenShape
    BY <1>2 DEF WorkerShape, LockShape, TokenShape, Busy, Phase, Init, IdleWorker
  <1>6. RowShape
    BY <1>2 DEF RowShape, Present, Terminal, Stopped
  <1>7. BudgetShape
    BY <1>2 DEF BudgetShape
  <1> QED BY <1>4, <1>5, <1>6, <1>7 DEF IInv
-----------------------------------------------------------------------------
(* The rows that the operations write                                      *)

\* settleJob writes a well-formed row and releases the claim: the facts about
\* Settled that the invariant rests on.
LEMMA SettledRow ==
    ASSUME NEW r \in Row, NEW o \in Outcome
    PROVE  /\ Settled(r, o) \in Row
           /\ Settled(r, o).lease = "none" /\ Settled(r, o).token = None
           /\ Settled(r, o).max = r.max
           /\ Settled(r, o).status \in {"queued"} \cup Terminal
           /\ Settled(r, o).status = "queued" <=> ~Settled(r, o).completed
           /\ Settled(r, o).attempts \in Nat
           /\ Settled(r, o).attempts <= r.attempts
           /\ o # "not_admitted" => Settled(r, o).attempts = r.attempts
           /\ o = "not_admitted" /\ r.attempts > 0 =>
                 Settled(r, o).attempts = r.attempts - 1
           /\ Settled(r, o).status = "queued" =>
                 o = "not_admitted" \/ (o = "retry" /\ r.attempts < r.max)
           /\ o = "done" => Settled(r, o).status = "done"
           /\ Settled(r, o).status = "done" => o = "done"
           /\ Settled(r, o).status = "outcome_unknown" => o = "outcome_unknown"
  <1> DEFINE exhausted == o = "retry" /\ r.attempts >= r.max
             requeued  == o = "not_admitted" \/ (o = "retry" /\ ~exhausted)
             status    == IF requeued THEN "queued" ELSE IF exhausted THEN "dead" ELSE o
             attempts  == IF o = "not_admitted" /\ r.attempts > 0
                          THEN r.attempts - 1 ELSE r.attempts
  <1>1. r.attempts \in Nat /\ r.max \in Nat
    BY QueueAssumption DEF Row
  <1>2. status \in {"queued"} \cup Terminal /\ (status = "queued" <=> requeued)
    BY DEF Outcome, HandlerOutcome, Refusal, Terminal, Stopped
  <1>3. attempts \in Nat /\ attempts <= r.attempts
    BY <1>1
  <1>4. /\ Settled(r, o).status = status /\ Settled(r, o).attempts = attempts
        /\ Settled(r, o).lease = "none" /\ Settled(r, o).token = None
        /\ Settled(r, o).max = r.max
    BY DEF Settled, Row
  <1>5. Settled(r, o).completed = ~requeued
    BY DEF Settled, Row
  <1>6. Settled(r, o) = [r EXCEPT !.status = status, !.attempts = attempts,
                                  !.due = FALSE, !.lease = "none",
                                  !.token = None, !.completed = ~requeued]
    BY DEF Settled
  <1>7. status \in Status
    BY <1>2 DEF Status
  <1> HIDE DEF status, attempts, requeued
  <1>8. Settled(r, o) \in Row
    BY <1>3, <1>6, <1>7 DEF Row
  <1>9. Settled(r, o).status = "queued" <=> ~Settled(r, o).completed
    BY <1>2, <1>4, <1>5, Zenon
  <1> USE DEF status, attempts, requeued
  <1>10. /\ o # "not_admitted" => attempts = r.attempts
         /\ o = "not_admitted" /\ r.attempts > 0 => attempts = r.attempts - 1
         /\ status = "queued" =>
               o = "not_admitted" \/ (o = "retry" /\ r.attempts < r.max)
         /\ o = "done" => status = "done"
         /\ status = "done" => o = "done"
         /\ status = "outcome_unknown" => o = "outcome_unknown"
    BY <1>1 DEF Outcome, HandlerOutcome, Refusal
  <1> HIDE DEF status, attempts, requeued
  <1> QED BY <1>2, <1>3, <1>4, <1>8, <1>9, <1>10
\* The rows that the claim writes.
LEMMA ClaimRows ==
    ASSUME NEW r \in Row, NEW t \in Tokens
    PROVE  /\ Closed(r) \in Row
           /\ Closed(r).status = "dead" /\ Closed(r).lease = "none"
           /\ Closed(r).token = None /\ Closed(r).completed
           /\ Closed(r).attempts = r.attempts /\ Closed(r).max = r.max
           /\ Claimed(r, t) \in Row
           /\ Claimed(r, t).status = "running" /\ Claimed(r, t).lease = "live"
           /\ Claimed(r, t).token = t /\ Claimed(r, t).max = r.max
           /\ Claimed(r, t).attempts = r.attempts + 1
           /\ Claimed(r, t).completed = r.completed
  <1>1. r.attempts + 1 \in Nat
    BY DEF Row
  <1>2. Closed(r) \in Row /\ Claimed(r, t) \in Row
    BY <1>1 DEF Closed, Claimed, Row, Status, Terminal, Stopped
  <1>3. /\ Closed(r).status = "dead" /\ Closed(r).lease = "none"
        /\ Closed(r).token = None
        /\ Closed(r).attempts = r.attempts /\ Closed(r).max = r.max
    BY DEF Closed, Row
  <1>4. Closed(r).completed
    BY DEF Closed, Row
  <1>5. /\ Claimed(r, t).status = "running" /\ Claimed(r, t).lease = "live"
        /\ Claimed(r, t).token = t /\ Claimed(r, t).max = r.max
        /\ Claimed(r, t).attempts = r.attempts + 1
    BY DEF Claimed, Row
  <1>6. Claimed(r, t).completed = r.completed
    BY DEF Claimed, Row
  <1> QED BY <1>2, <1>3, <1>4, <1>5, <1>6

-----------------------------------------------------------------------------
(* The steps that preserve the inductive invariant                         *)

\* Releasing the locks of a worker outside a transaction changes nothing.
LEMMA NothingToUnlock ==
    ASSUME IInv, NEW w \in Workers, worker[w].phase \notin InTransaction
    PROVE  Unlocked(w) = locker
  BY DEF IInv, TypeOK, LockShape, Unlocked

\* A worker that gives its transaction up, or forgets its claim, leaves the
\* table as it is and no lock behind.
LEMMA GiveUpStep ==
    ASSUME IInv, NEW w \in Workers, NEW v \in Worker,
           worker' = [worker EXCEPT ![w] = v],
           \/ v = IdleWorker
           \/ /\ worker[w].phase \in Busy /\ v.phase = "apart"
              /\ v.job = worker[w].job /\ v.token = worker[w].token
              /\ v.outcome \in {"retry", "failed", "outcome_unknown", "dead"},
           locker' = Unlocked(w), UNCHANGED <<row, starts, applied>>
    PROVE  IInv'
  <1> USE DEF IInv
  <1>1. /\ v.phase \in {"idle", "apart"}
        /\ v.phase = "idle" => v.token = None
        /\ v.phase = "apart" =>
              /\ worker[w].phase \in Busy
              /\ v.job = worker[w].job /\ v.token = worker[w].token
              /\ v.outcome \in {"retry", "failed", "outcome_unknown", "dead"}
    BY DEF IdleWorker
  <1>2. /\ worker'[w] = v
        /\ \A u \in Workers : u # w => worker'[u] = worker[u]
    BY DEF TypeOK
  <1>3. \A j \in Jobs : locker'[j] # None => locker'[j] = locker[j] /\ locker[j] # w
    BY DEF Unlocked
  <1>4. TypeOK'
    BY DEF TypeOK, Unlocked
  <1>5. WorkerShape'
    BY <1>1, <1>2 DEF WorkerShape, Busy, Phase, InTransaction
  <1>6. RowShape'
    BY DEF RowShape, Present
  <1>7. LockShape'
    BY <1>2, <1>3 DEF LockShape, HoldsClaim, TypeOK
  <1>8. TokenShape'
    BY <1>1, <1>2 DEF TokenShape
  <1>9. BudgetShape'
    BY DEF BudgetShape
  <1> QED BY <1>4, <1>5, <1>6, <1>7, <1>8, <1>9

\* GoApart, as the step above sees it.
LEMMA ApartStep ==
    ASSUME IInv, NEW w \in Workers, worker[w].phase \in Busy,
           NEW o \in {"retry", "failed", "outcome_unknown", "dead"}, GoApart(w, o)
    PROVE  IInv'
  <1> DEFINE v == [worker[w] EXCEPT !.phase = "apart", !.outcome = o]
  <1>1. worker[w] \in Worker
    BY DEF IInv, TypeOK
  <1>2. /\ v \in Worker /\ v.phase = "apart" /\ v.outcome = o
        /\ v.job = worker[w].job /\ v.token = worker[w].token
    BY <1>1 DEF Worker, Phase, Outcome, HandlerOutcome, Refusal
  <1>3. worker' = [worker EXCEPT ![w] = v]
    BY DEF GoApart
  <1> HIDE DEF v
  <1> QED BY <1>2, <1>3, GiveUpStep DEF GoApart

\* Forgetting the claim, with or without a lock to release.
LEMMA ForgetStep ==
    ASSUME IInv, NEW w \in Workers,
           worker' = [worker EXCEPT ![w] = IdleWorker],
           \/ locker' = Unlocked(w)
           \/ worker[w].phase \notin InTransaction /\ UNCHANGED locker,
           UNCHANGED <<row, starts, applied>>
    PROVE  IInv'
  <1>1. IdleWorker \in Worker
    BY DEF IdleWorker, Worker, Phase
  <1>2. locker' = Unlocked(w)
    BY NothingToUnlock
  <1> QED BY <1>1, <1>2, GiveUpStep
\* A worker goes on to its next phase with the claim it has; it may take the
\* lock of its row when it proves that the claim holds.
LEMMA AdvanceStep ==
    ASSUME IInv, NEW w \in Workers, NEW v \in Worker,
           worker' = [worker EXCEPT ![w] = v], UNCHANGED row,
           worker[w].phase \in Busy, v.phase \in InTransaction,
           v.job = worker[w].job, v.token = worker[w].token,
           v.phase = "refusing" => v.outcome \in Refusal,
           v.phase = "settling" => v.outcome \in HandlerOutcome,
           \/ UNCHANGED locker
           \/ /\ HoldsClaim(worker[w].job, worker[w].token)
              /\ locker' = [locker EXCEPT ![worker[w].job] = w],
           starts' \in [Jobs -> Nat], UNCHANGED applied
    PROVE  IInv'
  <1> USE DEF IInv
  <1>1. /\ worker'[w] = v
        /\ \A u \in Workers : u # w => worker'[u] = worker[u]
        /\ worker[w].job \in Jobs
    BY DEF TypeOK, WorkerShape
  <1>2. TypeOK'
    BY <1>1 DEF TypeOK
  <1>3. WorkerShape'
    BY <1>1 DEF WorkerShape, Busy, Phase, InTransaction
  <1>4. RowShape' /\ BudgetShape'
    BY DEF RowShape, BudgetShape, Present
  <1>5. LockShape'
    <2> SUFFICES ASSUME NEW j \in Jobs, locker'[j] # None
                 PROVE  /\ worker'[locker'[j]].phase \in InTransaction
                        /\ worker'[locker'[j]].job = j
                        /\ row'[j].status = "running"
                        /\ row'[j].token = worker'[locker'[j]].token
      BY DEF LockShape, HoldsClaim
    <2>1. CASE locker'[j] = locker[j]
      BY <1>1, <2>1 DEF LockShape, HoldsClaim, TypeOK
    <2>2. CASE locker'[j] # locker[j]
      BY <1>1, <2>2 DEF HoldsClaim, TypeOK
    <2> QED BY <2>1, <2>2
  <1>6. TokenShape'
    BY <1>1 DEF TokenShape
  <1> QED BY <1>2, <1>3, <1>4, <1>5, <1>6

\* settleJob under a claim that holds, in the transaction of the run or in
\* one of its own: the row is settled and the worker keeps no lock.
LEMMA SettleStep ==
    ASSUME IInv, NEW w \in Workers, NEW v \in Worker, NEW o \in Outcome,
           NEW j \in Jobs, worker[w].phase \in Busy, worker[w].job = j,
           HoldsClaim(j, worker[w].token), locker[j] \in {None, w},
           row' = [row EXCEPT ![j] = Settled(@, o)],
           worker' = [worker EXCEPT ![w] = v], locker' = Unlocked(w),
           \/ v = IdleWorker
           \/ /\ v.phase = "apart"
              /\ v.job = worker[w].job /\ v.token = worker[w].token
              /\ v.outcome \in {"retry", "failed", "outcome_unknown", "dead"},
           UNCHANGED starts, applied' \in [Jobs -> Nat]
    PROVE  IInv'
  <1> USE DEF IInv
  <1>1. /\ worker'[w] = v
        /\ \A u \in Workers : u # w => worker'[u] = worker[u]
    BY DEF TypeOK
  <1>2. /\ row'[j] = Settled(row[j], o) /\ row[j] \in Row
        /\ \A i \in Jobs : i # j => row'[i] = row[i]
    BY DEF TypeOK
  <1>3. \A i \in Jobs : locker'[i] # None =>
            locker'[i] = locker[i] /\ locker[i] # w /\ i # j
    BY DEF Unlocked, TypeOK
  <1>4. /\ v.phase \in {"idle", "apart"}
        /\ v.phase = "idle" => v.token = None
    BY DEF IdleWorker
  <1>5. row[j].attempts \in Nat /\ row[j].max \in Nat \ {0} /\ row[j].attempts > 0
    BY <1>2, QueueAssumption DEF HoldsClaim, BudgetShape, Row
  <1>6. TypeOK'
    <2>1. Settled(row[j], o) \in Row
      BY <1>2, SettledRow
    <2>2. row' \in [Jobs -> Row]
      BY <2>1 DEF TypeOK
    <2>3. worker' \in [Workers -> Worker]
      BY DEF TypeOK
    <2>4. locker' \in [Jobs -> Workers \cup {None}]
      BY DEF TypeOK, Unlocked
    <2> QED BY <2>2, <2>3, <2>4 DEF TypeOK
  <1>7. WorkerShape'
    <2>1. \/ v.phase = "idle" /\ v.token = None
          \/ /\ v.phase = "apart" /\ v.job \in Jobs /\ v.token = worker[w].token
             /\ v.outcome \in {"retry", "failed", "outcome_unknown", "dead"}
      BY DEF IdleWorker
    <2>2. worker[w].token \in Tokens
      BY DEF WorkerShape
    <2>3. /\ v.phase \in Busy => v.job \in Jobs /\ v.token \in Tokens
          /\ v.phase \notin Busy => v.token = None
          /\ v.phase # "refusing" /\ v.phase # "settling"
          /\ v.phase = "apart" =>
                v.outcome \in {"retry", "failed", "outcome_unknown", "dead"}
      BY <2>1, <2>2 DEF Busy, Phase, InTransaction
    <2> QED BY <1>1, <2>3 DEF WorkerShape
  <1>8. RowShape'
    <2>1. /\ row'[j].status \in {"queued"} \cup Terminal
          /\ row'[j].lease = "none" /\ row'[j].token = None
          /\ row'[j].status = "queued" <=> ~row'[j].completed
      BY <1>2, SettledRow
    <2>2. \A i \in Jobs : i # j => row'[i] = row[i]
      BY <1>2
    <2> QED BY <2>1, <2>2 DEF RowShape, Present, Terminal, Stopped
  <1>9. LockShape'
    BY <1>1, <1>2, <1>3 DEF LockShape, HoldsClaim, TypeOK
  <1>10. TokenShape'
    BY <1>1, <1>2, <1>4, SettledRow DEF TokenShape, IdleWorker
  <1>11. BudgetShape'
    <2>1. /\ row'[j].max = row[j].max /\ row'[j].attempts <= row[j].attempts
          /\ row'[j].status = "queued" => row'[j].attempts < row[j].max
          /\ row'[j].status \notin {"absent", "running"}
          /\ row'[j].attempts \in Nat
      BY <1>2, <1>5, SettledRow DEF BudgetShape, Terminal, Stopped
    <2> QED BY <1>2, <1>5, <2>1 DEF BudgetShape
  <1> QED BY <1>6, <1>7, <1>8, <1>9, <1>10, <1>11

\* The claim closes one abandoned row and hands out another with a token
\* that nobody else knows; it touches neither a locked row nor a busy worker.
LEMMA ClaimStep ==
    ASSUME IInv, NEW w \in Workers, NEW close \in Jobs \cup {None},
           NEW take \in Jobs \cup {None}, Claim(w, close, take)
    PROVE  IInv'
  <1> USE DEF IInv
  <1> DEFINE t == CHOOSE t \in FreshTokens : TRUE
  <1>1. /\ t \in Tokens
        /\ \A j \in Jobs : row[j].token # t
        /\ \A u \in Workers : worker[u].token # t
    BY DEF Claim, FreshTokens
  <1>2. row' = [j \in Jobs |-> IF j = close THEN Closed(row[j])
                               ELSE IF j = take THEN Claimed(row[j], t)
                               ELSE row[j]]
    BY DEF Claim
  <1>3. worker' = IF take = None THEN worker
                  ELSE [worker EXCEPT ![w] = [phase |-> "claimed", job |-> take,
                                              token |-> t, outcome |-> None]]
    BY DEF Claim
  <1> HIDE DEF t
  <1>4. /\ close # None => close \in Jobs /\ close \in Abandoned
        /\ take # None => take \in Jobs /\ take \in Due
        /\ worker[w].phase = "idle"
        /\ locker' = locker /\ starts' = starts /\ applied' = applied
    BY DEF Claim, LimitOne
  <1>5. \A j \in Jobs : row[j] \in Row /\ row[j].attempts \in Nat /\ row[j].max \in Nat
    BY QueueAssumption DEF TypeOK, Row
  <1>6. \A j \in Jobs : row[j] \in Row
    BY <1>5
  <1>7. TypeOK'
    <2>1. row' \in [Jobs -> Row]
      BY <1>1, <1>2, <1>6, ClaimRows
    <2>2. worker' \in [Workers -> Worker]
      BY <1>1, <1>3, <1>4 DEF TypeOK, Worker, Phase
    <2> QED BY <1>4, <2>1, <2>2 DEF TypeOK
  <1>8. /\ \A u \in Workers : u # w => worker'[u] = worker[u]
        /\ \/ take = None /\ worker'[w] = worker[w]
           \/ /\ take \in Jobs /\ worker'[w].phase = "claimed"
              /\ worker'[w].job = take /\ worker'[w].token = t
    BY <1>3, <1>4 DEF TypeOK
  <1>9. \A j \in Jobs : \/ row'[j] = row[j]
                        \/ j = close /\ row'[j] = Closed(row[j])
                        \/ j = take /\ row'[j] = Claimed(row[j], t)
    BY <1>2
  <1>10. WorkerShape'
    BY <1>1, <1>8 DEF WorkerShape, Busy, Phase, InTransaction
  <1>11. RowShape'
    <2> SUFFICES ASSUME NEW j \in Jobs
                 PROVE  /\ (row'[j].status = "running") <=> (row'[j].lease # "none")
                        /\ (row'[j].status = "running") <=> (row'[j].token # None)
                        /\ row'[j].status \notin {"absent", "swept"} =>
                              ((row'[j].status \in Terminal) <=> row'[j].completed)
                        /\ row'[j].status = "absent" => ~row'[j].completed
      BY DEF RowShape, Present
    <2>1. CASE row'[j] = row[j]
      BY <2>1 DEF RowShape, Present
    <2>2. CASE row'[j] = Closed(row[j])
      BY <1>1, <1>6, <2>2, ClaimRows DEF Terminal, Stopped
    <2>3. CASE j = take /\ row'[j] = Claimed(row[j], t)
      <3>1. row[j].status \in {"queued", "running"}
        BY <1>4, <2>3, QueueAssumption DEF Due
      <3>2. ~row[j].completed
        BY <3>1 DEF RowShape, Present, Terminal, Stopped
      <3> QED BY <1>1, <1>6, <2>3, <3>2, ClaimRows, QueueAssumption DEF Terminal, Stopped
    <2> QED BY <1>9, <2>1, <2>2, <2>3
  <1>12. LockShape'
    <2>1. \A j \in Jobs : locker[j] # None => row'[j] = row[j]
      BY <1>4, <1>9, QueueAssumption DEF Abandoned, Due
    <2>2. \A j \in Jobs : locker[j] # None => locker[j] # w
      BY <1>4 DEF LockShape, InTransaction
    <2> QED BY <1>4, <1>8, <2>1, <2>2 DEF LockShape, HoldsClaim, TypeOK
  <1>13. TokenShape'
    <2>1. \A j \in Jobs : row'[j].token # None =>
              row'[j].token = row[j].token \/ (j = take /\ row'[j].token = t)
      <3> SUFFICES ASSUME NEW j \in Jobs, row'[j].token # None
                   PROVE  row'[j].token = row[j].token \/ (j = take /\ row'[j].token = t)
        OBVIOUS
      <3>1. Closed(row[j]).token = None /\ Claimed(row[j], t).token = t
        BY <1>1, <1>6, ClaimRows
      <3> QED BY <1>9, <3>1
    <2>2. t # None
      BY <1>1, QueueAssumption
    <2>3. worker[w].token = None
      BY <1>4 DEF WorkerShape, Busy
    <2> QED BY <1>1, <1>8, <2>1, <2>2, <2>3 DEF TokenShape
  <1>14. BudgetShape'
    <2> SUFFICES ASSUME NEW j \in Jobs
                 PROVE  /\ row'[j].attempts <= row'[j].max
                        /\ row'[j].status \in {"absent", "queued"} =>
                              row'[j].attempts < row'[j].max
                        /\ row'[j].status = "running" => row'[j].attempts > 0
      BY DEF BudgetShape
    <2>1. CASE row'[j] = row[j]
      BY <2>1 DEF BudgetShape
    <2>2. CASE row'[j] = Closed(row[j])
      BY <1>1, <1>6, <2>2, ClaimRows DEF BudgetShape
    <2>3. CASE j = take /\ row'[j] = Claimed(row[j], t)
      <3>1. row[j].attempts < row[j].max
        BY <1>4, <2>3, QueueAssumption DEF Due, BudgetShape
      <3>2. row[j].attempts \in Nat /\ row[j].max \in Nat
        BY <1>6, QueueAssumption DEF Row
      <3> QED BY <1>1, <1>6, <2>3, <3>1, <3>2, ClaimRows
    <2> QED BY <1>9, <2>1, <2>2, <2>3
  <1> QED BY <1>7, <1>10, <1>11, <1>12, <1>13, <1>14
\* A step on one row that leaves its claim alone: the clock, an enqueue, the
\* operator, the sweep.
LEMMA RowStep ==
    ASSUME IInv, NEW j \in Jobs, NEW r \in Row,
           row' = [row EXCEPT ![j] = r],
           r.token = row[j].token, r.max = row[j].max,
           (r.status = "running") <=> (row[j].status = "running"),
           (r.lease = "none") <=> (row[j].lease = "none"),
           r.status \notin {"absent", "swept"} =>
              ((r.status \in Terminal) <=> r.completed),
           r.status # "absent",
           \/ r.attempts = row[j].attempts
           \/ r.attempts = 0 /\ r.status = "queued",
           r.status = "queued" => row[j].status \in {"absent", "queued"} \/ r.attempts = 0,
           starts' \in [Jobs -> Nat], UNCHANGED <<worker, locker, applied>>
    PROVE  IInv'
  <1> USE DEF IInv
  <1>1. /\ row'[j] = r /\ row[j] \in Row
        /\ \A i \in Jobs : i # j => row'[i] = row[i]
    BY DEF TypeOK
  <1>2. TypeOK'
    BY DEF TypeOK
  <1>3. WorkerShape'
    BY DEF WorkerShape
  <1>4. RowShape'
    BY <1>1 DEF RowShape, Present
  <1>5. LockShape'
    BY <1>1 DEF LockShape, HoldsClaim
  <1>6. TokenShape'
    BY <1>1 DEF TokenShape
  <1>7. row[j].attempts \in Nat /\ row[j].max \in Nat \ {0}
    BY <1>1, QueueAssumption DEF Row
  <1>8. BudgetShape'
    BY <1>1, <1>7 DEF BudgetShape
  <1> QED BY <1>2, <1>3, <1>4, <1>5, <1>6, <1>8

\* Every step on a row by the clock, an enqueuer, the operator or the sweep.
LEMMA JobStepIInv == ASSUME IInv, NEW j \in Jobs, JobStep(j) PROVE IInv'
  <1> USE DEF IInv
  <1>1. row[j] \in Row /\ starts \in [Jobs -> Nat]
    BY DEF TypeOK
  <1>2. ASSUME NEW key \in Keys \cup {None}, NEW now \in BOOLEAN, Enqueue(j, key, now)
        PROVE  IInv'
    <2> DEFINE r == [row[j] EXCEPT !.status = "queued", !.key = key, !.due = now]
    <2>1. row' = [row EXCEPT ![j] = r]
      BY <1>2 DEF Enqueue
    <2>2. /\ r \in Row /\ r.status = "queued" /\ r.token = row[j].token
          /\ r.max = row[j].max /\ r.lease = row[j].lease
          /\ r.attempts = row[j].attempts
      BY <1>1 DEF Row, Status
    <2>3. r.completed = row[j].completed
      BY <1>1 DEF Row
    <2>4. row[j].status = "absent" /\ ~row[j].completed
      BY <1>2 DEF Enqueue, RowShape
    <2> HIDE DEF r
    <2>5. ~r.completed
      BY <2>3, <2>4
    <2> QED BY <1>1, <1>2, <2>1, <2>2, <2>4, <2>5, RowStep DEF Enqueue, Terminal, Stopped
  <1>3. ASSUME LeaseExpires(j) PROVE IInv'
    <2> DEFINE r == [row[j] EXCEPT !.lease = "expired"]
    <2>1. row' = [row EXCEPT ![j] = r]
      BY <1>3 DEF LeaseExpires
    <2>2. /\ r \in Row /\ r.status = row[j].status /\ r.token = row[j].token
          /\ r.max = row[j].max /\ r.lease # "none" /\ r.attempts = row[j].attempts
      BY <1>1 DEF Row
    <2>3. r.completed = row[j].completed
      BY <1>1 DEF Row
    <2> HIDE DEF r
    <2>4. row[j].status = "running" /\ row[j].lease # "none" /\ ~row[j].completed
      BY <1>3 DEF LeaseExpires, RowShape, Present, Terminal, Stopped
    <2>5. ~r.completed
      BY <2>3, <2>4
    <2>6. starts' \in [Jobs -> Nat] /\ UNCHANGED <<worker, locker, applied>>
      BY <1>3 DEF LeaseExpires, TypeOK
    <2>7. r.status = "running" /\ r.status \notin Terminal
      BY <2>2, <2>4 DEF Terminal, Stopped
    <2> QED BY <2>1, <2>2, <2>4, <2>5, <2>6, <2>7, RowStep
  <1>4. ASSUME BecomesDue(j) PROVE IInv'
    <2> DEFINE r == [row[j] EXCEPT !.due = TRUE]
    <2>1. row' = [row EXCEPT ![j] = r]
      BY <1>4 DEF BecomesDue
    <2>2. /\ r \in Row /\ r.status = row[j].status /\ r.token = row[j].token
          /\ r.max = row[j].max /\ r.lease = row[j].lease
          /\ r.attempts = row[j].attempts
      BY <1>1 DEF Row
    <2>3. r.completed = row[j].completed
      BY <1>1 DEF Row
    <2> HIDE DEF r
    <2>4. row[j].status = "queued" /\ ~row[j].completed
      BY <1>4 DEF BecomesDue, RowShape, Present, Terminal, Stopped
    <2>5. ~r.completed
      BY <2>3, <2>4
    <2> QED BY <1>1, <1>4, <2>1, <2>2, <2>4, <2>5, RowStep DEF BecomesDue, Terminal, Stopped
  <1>5. ASSUME Requeue(j) PROVE IInv'
    <2> DEFINE r == [row[j] EXCEPT !.status = "queued", !.attempts = 0,
                                   !.due = TRUE, !.completed = FALSE]
    <2>1. row' = [row EXCEPT ![j] = r] /\ row[j].status \in Stopped
      BY <1>5 DEF Requeue
    <2>2. /\ r \in Row /\ r.status = "queued" /\ r.token = row[j].token
          /\ r.max = row[j].max /\ r.lease = row[j].lease /\ r.attempts = 0
      BY <1>1 DEF Row, Status
    <2>3. ~r.completed
      BY <1>1 DEF Row
    <2>4. starts' \in [Jobs -> Nat]
      BY <1>1, <1>5 DEF Requeue
    <2> HIDE DEF r
    <2> QED BY <1>5, <2>1, <2>2, <2>3, <2>4, RowStep DEF Requeue, Stopped, Terminal
  <1>6. ASSUME MarkDone(j) PROVE IInv'
    <2> DEFINE r == [row[j] EXCEPT !.status = "done", !.completed = TRUE]
    <2>1. row' = [row EXCEPT ![j] = r] /\ row[j].status \in Stopped
      BY <1>6 DEF MarkDone
    <2>2. /\ r \in Row /\ r.status = "done" /\ r.token = row[j].token
          /\ r.max = row[j].max /\ r.lease = row[j].lease
          /\ r.attempts = row[j].attempts
      BY <1>1 DEF Row, Status, Terminal
    <2>3. r.completed
      BY <1>1 DEF Row
    <2> HIDE DEF r
    <2> QED BY <1>1, <1>6, <2>1, <2>2, <2>3, RowStep DEF MarkDone, Stopped, Terminal
  <1>7. ASSUME Sweep(j) PROVE IInv'
    <2> DEFINE r == [row[j] EXCEPT !.status = "swept"]
    <2>1. row' = [row EXCEPT ![j] = r] /\ row[j].status = "done"
      BY <1>7 DEF Sweep
    <2>2. /\ r \in Row /\ r.status = "swept" /\ r.token = row[j].token
          /\ r.max = row[j].max /\ r.lease = row[j].lease
          /\ r.attempts = row[j].attempts
      BY <1>1 DEF Row, Status
    <2> HIDE DEF r
    <2> QED BY <1>1, <1>7, <2>1, <2>2, RowStep DEF Sweep
  <1> QED BY <1>2, <1>3, <1>4, <1>5, <1>6, <1>7 DEF JobStep
\* Every step of runClaimedJob, one case per action.
LEMMA RunStepIInv == ASSUME IInv, NEW w \in Workers, RunStep(w) PROVE IInv'
  <1> USE DEF IInv
  <1>1. /\ worker[w] \in Worker /\ starts \in [Jobs -> Nat]
        /\ applied \in [Jobs -> Nat]
    BY DEF TypeOK
  <1>2. \A p \in {"claimed", "apart"} \cup InTransaction : p \in Busy
    BY DEF Busy, Phase, InTransaction
  <1>3. worker[w].phase \in Busy => worker[w].job \in Jobs
    BY DEF WorkerShape
  <1>4. ASSUME NoHandler(w) PROVE IInv'
    BY <1>2, <1>4, ApartStep DEF NoHandler
  <1>5. ASSUME OpenFails(w) PROVE IInv'
    BY <1>2, <1>5, ApartStep DEF OpenFails
  <1>6. ASSUME Lock(w) PROVE IInv'
    <2> DEFINE v == [worker[w] EXCEPT !.phase = "admitting"]
    <2>1. /\ v \in Worker /\ v.phase = "admitting"
          /\ v.job = worker[w].job /\ v.token = worker[w].token
      BY <1>1 DEF Worker, Phase, InTransaction
    <2>2. worker' = [worker EXCEPT ![w] = v]
      BY <1>6 DEF Lock
    <2> HIDE DEF v
    <2> QED BY <1>1, <1>2, <1>6, <2>1, <2>2, AdvanceStep DEF Lock, InTransaction
  <1>7. ASSUME LoseClaim(w) PROVE IInv'
    BY <1>7, ForgetStep DEF LoseClaim, InTransaction
  <1>8. ASSUME NEW o \in Refusal, Refuse(w, o) PROVE IInv'
    <2> DEFINE v == [worker[w] EXCEPT !.phase = "refusing", !.outcome = o]
    <2>1. /\ v \in Worker /\ v.phase = "refusing" /\ v.outcome = o
          /\ v.job = worker[w].job /\ v.token = worker[w].token
      BY <1>1 DEF Worker, Phase, InTransaction, Outcome
    <2>2. CASE GoApart(w, "retry")
      BY <1>2, <1>8, <2>2, ApartStep DEF Refuse, InTransaction
    <2>3. CASE /\ worker' = [worker EXCEPT ![w] = v]
               /\ UNCHANGED <<row, locker, starts, applied>>
      <3> HIDE DEF v
      <3> QED BY <1>1, <1>2, <1>8, <2>1, <2>3, AdvanceStep DEF Refuse, InTransaction
    <2> QED BY <1>8, <2>2, <2>3 DEF Refuse
  <1>9. ASSUME AdmissionFails(w) PROVE IInv'
    BY <1>2, <1>9, ApartStep DEF AdmissionFails, InTransaction
  <1>10. ASSUME StartHandler(w) PROVE IInv'
    <2> DEFINE v == [worker[w] EXCEPT !.phase = "handling"]
    <2>1. /\ v \in Worker /\ v.phase = "handling"
          /\ v.job = worker[w].job /\ v.token = worker[w].token
      BY <1>1 DEF Worker, Phase, InTransaction
    <2>2. worker' = [worker EXCEPT ![w] = v]
      BY <1>10 DEF StartHandler
    <2>3. starts' \in [Jobs -> Nat]
      BY <1>1, <1>2, <1>3, <1>10 DEF StartHandler, InTransaction
    <2> HIDE DEF v
    <2> QED BY <1>2, <1>10, <2>1, <2>2, <2>3, AdvanceStep DEF StartHandler, InTransaction
  <1>11. ASSUME NEW o \in HandlerOutcome, HandlerReturns(w, o) PROVE IInv'
    <2> DEFINE v == [worker[w] EXCEPT !.phase = "settling", !.outcome = o]
    <2>1. /\ v \in Worker /\ v.phase = "settling" /\ v.outcome = o
          /\ v.job = worker[w].job /\ v.token = worker[w].token
      BY <1>1 DEF Worker, Phase, InTransaction, Outcome
    <2>2. worker' = [worker EXCEPT ![w] = v]
      BY <1>11 DEF HandlerReturns
    <2> HIDE DEF v
    <2> QED BY <1>1, <1>2, <1>11, <2>1, <2>2, AdvanceStep DEF HandlerReturns, InTransaction
  <1>12. ASSUME HandlerThrows(w) PROVE IInv'
    BY <1>2, <1>12, ApartStep DEF HandlerThrows, InTransaction
  <1>13. ASSUME worker[w].phase \in {"refusing", "settling"}
         PROVE  /\ worker[w].phase \in Busy /\ worker[w].job \in Jobs
                /\ worker[w].outcome \in Outcome
                /\ ApartOutcome(w) \in {"retry", "failed", "outcome_unknown", "dead"}
    BY <1>2, <1>3, <1>13
       DEF WorkerShape, ApartOutcome, Refusal, HandlerOutcome, Outcome, InTransaction
  <1>14. ASSUME Committed(w) 
         PROVE  /\ worker[w].phase \in {"refusing", "settling"}
                /\ HoldsClaim(worker[w].job, worker[w].token)
                /\ locker[worker[w].job] = w
                /\ row' = [row EXCEPT ![worker[w].job] = Settled(@, worker[w].outcome)]
                /\ locker' = Unlocked(w) /\ applied' \in [Jobs -> Nat]
                /\ UNCHANGED starts
    BY <1>1, <1>14, QueueAssumption DEF Committed, Locks, LockShape
  <1>15. ASSUME Commit(w) PROVE IInv'
    <2>1. IdleWorker \in Worker
      BY DEF IdleWorker, Worker, Phase
    <2> QED BY <1>13, <1>14, <1>15, <2>1, SettleStep DEF Commit
  <1>16. ASSUME CommitUnconfirmed(w) PROVE IInv'
    <2> DEFINE o == ApartOutcome(w)
               v == [worker[w] EXCEPT !.phase = "apart", !.outcome = o]
    <2>1. worker' = [worker EXCEPT ![w] = v]
      BY <1>16 DEF CommitUnconfirmed
    <2>2. o \in {"retry", "failed", "outcome_unknown", "dead"}
      BY <1>13, <1>14, <1>16 DEF CommitUnconfirmed
    <2> HIDE DEF o
    <2>3. /\ v \in Worker /\ v.phase = "apart" /\ v.outcome = o
          /\ v.job = worker[w].job /\ v.token = worker[w].token
      BY <1>1, <2>2 DEF Worker, Phase, Outcome, HandlerOutcome, Refusal
    <2>4. Committed(w)
      BY <1>16 DEF CommitUnconfirmed
    <2>5. /\ worker[w].phase \in Busy /\ worker[w].job \in Jobs
          /\ worker[w].outcome \in Outcome
      BY <1>13, <1>14, <2>4
    <2> HIDE DEF v
    <2> QED BY <1>14, <2>1, <2>2, <2>3, <2>4, <2>5, SettleStep
  <1>17. ASSUME CommitFails(w) PROVE IInv'
    BY <1>13, <1>17, ApartStep DEF CommitFails
  <1>18. ASSUME SettleApart(w) PROVE IInv'
    <2>1. /\ worker[w].phase = "apart" /\ worker[w].phase \in Busy
          /\ worker[w].job \in Jobs /\ worker[w].outcome \in Outcome
      <3>1. worker[w].phase = "apart"
        BY <1>18 DEF SettleApart
      <3> QED BY <1>2, <1>3, <3>1 DEF WorkerShape, Outcome, HandlerOutcome, Refusal
    <2>2. locker' = Unlocked(w)
      BY <1>18, <2>1, NothingToUnlock DEF SettleApart, InTransaction
    <2>3. IdleWorker \in Worker
      BY DEF IdleWorker, Worker, Phase
    <2>4. CASE HoldsClaim(worker[w].job, worker[w].token)
      BY <1>1, <1>18, <2>1, <2>2, <2>3, <2>4, SettleStep DEF SettleApart
    <2>5. CASE ~HoldsClaim(worker[w].job, worker[w].token)
      BY <1>18, <2>2, <2>5, ForgetStep DEF SettleApart
    <2> QED BY <2>4, <2>5
  <1>19. ASSUME SettleApartFails(w) PROVE IInv'
    BY <1>19, ForgetStep DEF SettleApartFails, InTransaction
  <1> QED BY <1>4, <1>5, <1>6, <1>7, <1>8, <1>9, <1>10, <1>11, <1>12, <1>15,
             <1>16, <1>17, <1>18, <1>19 DEF RunStep

\* Every step of a worker, its failures included.
LEMMA WorkerStepIInv == ASSUME IInv, NEW w \in Workers, WorkerStep(w) PROVE IInv'
  <1>1. CASE \E close, take \in Jobs \cup {None} : Claim(w, close, take)
    BY <1>1, ClaimStep
  <1>2. CASE RunStep(w)
    BY <1>2, RunStepIInv
  <1>3. CASE Crash(w)
    BY <1>3, ForgetStep DEF Crash
  <1>4. CASE SessionLost(w)
    BY <1>4 DEF SessionLost, IInv, TypeOK, WorkerShape, RowShape, LockShape,
                TokenShape, BudgetShape, Unlocked, Present, HoldsClaim
  <1>5. ASSUME NEW p \in {"idle", "stopped"}, worker[w].phase \in {"idle", "stopped"},
               worker' = [worker EXCEPT ![w].phase = p],
               UNCHANGED <<row, locker, starts, applied>>
        PROVE  IInv'
    <2> USE DEF IInv
    <2>1. worker[w] \in Worker
      BY DEF TypeOK
    <2> DEFINE v == [worker[w] EXCEPT !.phase = p]
    <2>2. v \in Worker /\ v.phase = p /\ v.token = worker[w].token /\ v.job = worker[w].job
      BY <2>1 DEF Worker, Phase
    <2>3. /\ worker'[w] = v
          /\ \A u \in Workers : u # w => worker'[u] = worker[u]
      BY <1>5 DEF TypeOK
    <2>4. worker' \in [Workers -> Worker]
      BY <1>5, <2>2 DEF TypeOK
    <2> HIDE DEF v
    <2>5. TypeOK' /\ RowShape' /\ BudgetShape'
      BY <1>5, <2>4 DEF TypeOK, RowShape, BudgetShape, Present
    <2>6. WorkerShape'
      BY <1>5, <2>2, <2>3 DEF WorkerShape, Busy
    <2>7. LockShape'
      BY <1>5, <2>2, <2>3 DEF LockShape, HoldsClaim, TypeOK, InTransaction
    <2>8. TokenShape'
      BY <1>5, <2>2, <2>3 DEF TokenShape
    <2> QED BY <2>5, <2>6, <2>7, <2>8
  <1>6. CASE Stop(w)
    BY <1>5, <1>6 DEF Stop
  <1>7. CASE Start(w)
    BY <1>5, <1>7 DEF Start
  <1> QED BY <1>1, <1>2, <1>3, <1>4, <1>6, <1>7 DEF WorkerStep

\* Every step of the queue, of a worker or of a job's row, keeps the inductive
\* invariant.
LEMMA NextIInv == IInv /\ [Next]_vars => IInv'
  <1> SUFFICES ASSUME IInv, [Next]_vars PROVE IInv'
    OBVIOUS
  <1>1. CASE UNCHANGED vars
    BY <1>1 DEF vars, IInv, TypeOK, WorkerShape, RowShape, LockShape, TokenShape,
                BudgetShape, Present, HoldsClaim
  <1> QED BY <1>1, WorkerStepIInv, JobStepIInv DEF Next

-----------------------------------------------------------------------------
(* Results                                                                 *)

\* The inductive invariant holds in every reachable state.
THEOREM Inductive == Spec => []IInv
  BY InitIInv, NextIInv, PTL DEF Spec

\* Every variable keeps its type: no row and no claim leaves the shape the
\* code of jobs/ gives it.
THEOREM TypeCorrect == Spec => []TypeOK
  BY Inductive, PTL DEF IInv

\* No transaction of the queue is ever refused by jobs_status_shape.
THEOREM ShapeHolds == Spec => []StatusShape
  <1>1. IInv => StatusShape
    BY DEF IInv, RowShape, StatusShape
  <1> QED BY <1>1, Inductive, PTL
-----------------------------------------------------------------------------
(* A run that is still going keeps its row                                 *)

\* When sessions do not drop, a worker inside its transaction has its row
Attached ==
    ~SessionsDrop =>
        \A w \in Workers : worker[w].phase \in InTransaction =>
            locker[worker[w].job] = w

\* Each step keeps the lock of every run it does not end.
LEMMA AttachedStep == IInv /\ Attached /\ [Next]_vars => Attached'
  <1> SUFFICES ASSUME IInv, Attached, [Next]_vars, ~SessionsDrop,
                      NEW u \in Workers, worker'[u].phase \in InTransaction
               PROVE  locker'[worker'[u].job] = u
    BY DEF Attached
  <1> USE DEF IInv
  <1>1. /\ worker \in [Workers -> Worker] /\ locker \in [Jobs -> Workers \cup {None}]
        /\ \A w \in Workers : worker[w].phase \in InTransaction =>
              worker[w].job \in Jobs /\ locker[worker[w].job] = w
        /\ \A w \in Workers : worker[w].phase = "claimed" => worker[w].job \in Jobs
    BY DEF TypeOK, Attached, WorkerShape, Busy, Phase, InTransaction
  <1>2. ASSUME NEW w \in Workers, locker' = Unlocked(w),
               \A v \in Workers : v # w => worker'[v] = worker[v],
               worker'[w].phase \in {"idle", "apart"}
        PROVE  locker'[worker'[u].job] = u
    BY <1>1, <1>2 DEF Unlocked, InTransaction
  <1>3. ASSUME UNCHANGED <<worker, locker>> PROVE locker'[worker'[u].job] = u
    BY <1>1, <1>3
  <1>4. ASSUME NEW w \in Workers, NEW o, GoApart(w, o)
        PROVE  locker'[worker'[u].job] = u
    <2>1. /\ \A v \in Workers : v # w => worker'[v] = worker[v]
          /\ worker'[w].phase = "apart" /\ locker' = Unlocked(w)
      BY <1>1, <1>4 DEF GoApart, Worker
    <2> QED BY <1>2, <2>1
  <1>5. ASSUME NEW w \in Workers, NEW v, worker' = [worker EXCEPT ![w] = v],
               UNCHANGED locker,
               \/ v.phase \notin InTransaction
               \/ v.job = worker[w].job /\ worker[w].phase \in InTransaction
        PROVE  locker'[worker'[u].job] = u
    BY <1>1, <1>5
  <1>6. ASSUME NEW w \in Workers, RunStep(w) PROVE locker'[worker'[u].job] = u
    <2>1. CASE NoHandler(w) \/ OpenFails(w) \/ AdmissionFails(w) \/ HandlerThrows(w)
               \/ CommitFails(w)
      BY <1>4, <2>1 DEF NoHandler, OpenFails, AdmissionFails, HandlerThrows, CommitFails
    <2>2. CASE Lock(w)
      <3>1. /\ locker' = [locker EXCEPT ![worker[w].job] = w]
            /\ worker'[w].job = worker[w].job /\ worker[w].job \in Jobs
            /\ \A v \in Workers : v # w => worker'[v] = worker[v]
        BY <1>1, <2>2 DEF Lock, Worker
      <3>2. locker[worker[w].job] = None
        BY <2>2 DEF Lock
      <3> QED BY <1>1, <3>1, <3>2, QueueAssumption
    <2>3. CASE LoseClaim(w) \/ SettleApart(w) \/ SettleApartFails(w)
      BY <1>5, <2>3
         DEF LoseClaim, SettleApart, SettleApartFails, IdleWorker, InTransaction
    <2>4. ASSUME NEW o \in Refusal, Refuse(w, o) PROVE locker'[worker'[u].job] = u
      <3> DEFINE v == [worker[w] EXCEPT !.phase = "refusing", !.outcome = o]
      <3>1. v.job = worker[w].job
        BY <1>1 DEF Worker
      <3>2. CASE worker' = [worker EXCEPT ![w] = v] /\ UNCHANGED locker
        <4> HIDE DEF v
        <4> QED BY <1>5, <2>4, <3>1, <3>2 DEF Refuse, InTransaction
      <3> QED BY <1>4, <2>4, <3>2 DEF Refuse
    <2>5. CASE StartHandler(w)
      <3> DEFINE v == [worker[w] EXCEPT !.phase = "handling"]
      <3>1. v.job = worker[w].job /\ worker' = [worker EXCEPT ![w] = v]
        BY <1>1, <2>5 DEF Worker, StartHandler
      <3> HIDE DEF v
      <3> QED BY <1>5, <2>5, <3>1 DEF StartHandler, InTransaction
    <2>6. ASSUME NEW o \in HandlerOutcome, HandlerReturns(w, o)
          PROVE  locker'[worker'[u].job] = u
      <3> DEFINE v == [worker[w] EXCEPT !.phase = "settling", !.outcome = o]
      <3>1. v.job = worker[w].job
        BY <1>1 DEF Worker
      <3>2. worker' = [worker EXCEPT ![w] = v]
        BY <1>1, <2>6 DEF HandlerReturns
      <3> HIDE DEF v
      <3> QED BY <1>5, <2>6, <3>1, <3>2 DEF HandlerReturns, InTransaction
    <2>7. CASE Commit(w)
      BY <1>1, <1>2, <2>7 DEF Commit, Committed, IdleWorker
    <2>8. CASE CommitUnconfirmed(w)
      <3>1. worker'[w].phase = "apart"
        BY <1>1, <2>8 DEF CommitUnconfirmed, Worker
      <3>2. \A v \in Workers : v # w => worker'[v] = worker[v]
        BY <1>1, <2>8 DEF CommitUnconfirmed
      <3> QED BY <1>2, <2>8, <3>1, <3>2 DEF CommitUnconfirmed, Committed
    <2> QED BY <1>6, <2>1, <2>2, <2>3, <2>4, <2>5, <2>6, <2>7, <2>8 DEF RunStep
  <1>7. ASSUME NEW w \in Workers, NEW close, NEW take, Claim(w, close, take)
        PROVE  locker'[worker'[u].job] = u
    BY <1>1, <1>7 DEF Claim, InTransaction
  <1>8. ASSUME NEW w \in Workers, WorkerStep(w) PROVE locker'[worker'[u].job] = u
    <2>1. CASE Crash(w)
      BY <1>1, <1>2, <2>1 DEF Crash, IdleWorker
    <2>2. CASE Stop(w) \/ Start(w)
      BY <1>1, <2>2 DEF Stop, Start, InTransaction, Worker
    <2>3. CASE SessionLost(w)
      BY <2>3 DEF SessionLost
    <2> QED BY <1>6, <1>7, <1>8, <2>1, <2>2, <2>3 DEF WorkerStep
  <1>9. ASSUME NEW j \in Jobs, JobStep(j) PROVE locker'[worker'[u].job] = u
    BY <1>3, <1>9 DEF JobStep, Enqueue, LeaseExpires, BecomesDue, Requeue, MarkDone, Sweep
  <1> QED BY <1>3, <1>8, <1>9 DEF Next, vars

\* While sessions hold, no expired lease is reclaimed from under a run that
\* is still going, and no job is run by two workers at once: the promise of
\* docs/jobs.md for every number of jobs and workers.
THEOREM NoConcurrentRun == ASSUME ~SessionsDrop PROVE Spec => []SingleLiveRun
  <1>1. Init => Attached
    BY DEF Init, Attached, IdleWorker, InTransaction
  <1>2. IInv /\ Attached => SingleLiveRun
    <2> SUFFICES ASSUME IInv, Attached, NEW w \in Workers, worker[w].phase \in Running
                 PROVE  /\ HoldsClaim(worker[w].job, worker[w].token)
                        /\ \A v \in Workers :
                              worker[v].phase \in Running /\ worker[v].job = worker[w].job
                                => v = w
      BY DEF SingleLiveRun
    <2>1. \A v \in Workers : worker[v].phase \in Running =>
              worker[v].job \in Jobs /\ locker[worker[v].job] = v
      BY DEF IInv, Attached, WorkerShape, Running, InTransaction, Busy, Phase
    <2> QED BY <2>1, QueueAssumption DEF IInv, LockShape
  <1>3. Spec => []Attached
    BY <1>1, Inductive, AttachedStep, PTL DEF Spec
  <1> QED BY <1>2, <1>3, Inductive, PTL
-----------------------------------------------------------------------------
(* The queue implements JobLifecycle                                       *)

\* What one step does to the status of the rows and to the deliveries: at most
\* one row leaves its lifecycle state, along an edge of JobLifecycle.
Edge(j) ==
    LET s == row[j].status  t == row'[j].status
    IN  /\ \A i \in Jobs : i # j =>
              LifecycleState(row'[i].status) = LifecycleState(row[i].status)
        /\ \/ /\ applied' = applied
              /\ \/ s = "absent" /\ t \in {"queued", "running"}
                 \/ s \in {"queued", "running"} /\ t \in Stopped
                 \/ s \in Stopped /\ t \in {"queued", "running"}
                 \/ s \in Stopped /\ t = "done"
                 \/ s = "done" /\ t = "swept"
           \/ /\ s = "running" /\ t = "done"
              /\ applied' = [applied EXCEPT ![j] = @ + 1]

NoEdge ==
    /\ applied' = applied
    /\ \A i \in Jobs : \/ row'[i].status = row[i].status
                       \/ /\ row'[i].status \in {"queued", "running"}
                          /\ row[i].status \in {"queued", "running"}

\* Statuses with the same lifecycle state.
LEMMA SameState ==
    ASSUME NEW s \in {"queued", "running"}, NEW t \in {"queued", "running"}
    PROVE  LifecycleState(s) = LifecycleState(t)
  BY DEF LifecycleState, Stopped

\* Every step is an edge of one job or no edge at all.
LEMMA StepEdge ==
    ASSUME IInv, [Next]_vars PROVE NoEdge \/ \E j \in Jobs : Edge(j)
  <1> USE DEF IInv
  <1>1. /\ row \in [Jobs -> Row] /\ worker \in [Workers -> Worker]
        /\ applied \in [Jobs -> Nat]
        /\ \A j \in Jobs : row[j] \in Row
    BY DEF TypeOK
  <1>2. ASSUME UNCHANGED row, UNCHANGED applied PROVE NoEdge
    BY <1>2 DEF NoEdge
  <1>3. ASSUME NEW w \in Workers, NEW j \in Jobs, NEW o \in Outcome,
               row[j].status = "running",
               row' = [row EXCEPT ![j] = Settled(@, o)],
               \/ o = "done" /\ applied' = [applied EXCEPT ![j] = @ + 1]
               \/ o # "done" /\ applied' = applied
        PROVE  NoEdge \/ Edge(j)
    <2>1. /\ row'[j] = Settled(row[j], o)
          /\ \A i \in Jobs : i # j => row'[i] = row[i]
      BY <1>1, <1>3
    <2>2. /\ row'[j].status \in {"queued"} \cup Terminal
          /\ (row'[j].status = "done") <=> (o = "done")
      BY <1>1, <2>1, SettledRow
    <2>3. CASE row'[j].status = "queued"
      BY <1>3, <2>1, <2>2, <2>3 DEF NoEdge
    <2>4. CASE row'[j].status \in Terminal
      BY <1>3, <2>1, <2>2, <2>4 DEF Edge, Terminal, Stopped
    <2> QED BY <2>2, <2>3, <2>4
  <1>4. ASSUME NEW w \in Workers, NEW close \in Jobs \cup {None},
               NEW take \in Jobs \cup {None}, Claim(w, close, take)
        PROVE  NoEdge \/ \E j \in Jobs : Edge(j)
    <2> DEFINE t == CHOOSE t \in FreshTokens : TRUE
    <2>1. /\ t \in Tokens /\ applied' = applied
          /\ row' = [j \in Jobs |-> IF j = close THEN Closed(row[j])
                                    ELSE IF j = take THEN Claimed(row[j], t)
                                    ELSE row[j]]
      BY <1>4 DEF Claim, FreshTokens
    <2> HIDE DEF t
    <2>2. /\ take # None => take \in Jobs /\ row[take].status \in {"queued", "running"}
          /\ close # None => close \in Jobs /\ row[close].status = "running"
      BY <1>4 DEF Claim, LimitOne, Abandoned, Due
    <2>3. ASSUME NEW j \in Jobs
          PROVE  Closed(row[j]).status = "dead" /\ Claimed(row[j], t).status = "running"
      <3>1. row[j] \in Row /\ t \in Tokens
        BY <1>1, <2>1
      <3> HIDE <1>1, <2>1 DEF IInv
      <3> QED BY <3>1, ClaimRows
    <2>4. \A j \in Jobs : j # close =>
              \/ row'[j].status = row[j].status
              \/ /\ row'[j].status \in {"queued", "running"}
                 /\ row[j].status \in {"queued", "running"}
      BY <2>1, <2>2, <2>3, QueueAssumption
    <2>5. CASE close = None
      BY <2>1, <2>4, <2>5, QueueAssumption DEF NoEdge
    <2>6. CASE close # None
      <3>1. row'[close].status = "dead"
        BY <2>1, <2>2, <2>3, <2>6
      <3>2. \A i \in Jobs : i # close =>
                LifecycleState(row'[i].status) = LifecycleState(row[i].status)
        BY <2>4, SameState
      <3> QED BY <2>1, <2>2, <2>6, <3>1, <3>2 DEF Edge, Stopped
    <2> QED BY <2>5, <2>6
  <1>5. ASSUME NEW w \in Workers, Committed(w)
        PROVE  NoEdge \/ \E j \in Jobs : Edge(j)
    <2>1. /\ worker[w].job \in Jobs /\ worker[w].outcome \in Outcome
          /\ row[worker[w].job].status = "running"
      BY <1>5, QueueAssumption
         DEF Committed, Locks, LockShape, HoldsClaim, WorkerShape, Refusal,
             HandlerOutcome, Outcome
    <2> QED BY <1>3, <1>5, <2>1 DEF Committed
  <1>6. ASSUME NEW w \in Workers, SettleApart(w)
        PROVE  NoEdge \/ \E j \in Jobs : Edge(j)
    <2>1. CASE ~HoldsClaim(worker[w].job, worker[w].token)
      BY <1>2, <1>6, <2>1 DEF SettleApart
    <2>2. CASE HoldsClaim(worker[w].job, worker[w].token)
      <3>1. /\ worker[w].job \in Jobs /\ worker[w].outcome # "done"
            /\ worker[w].outcome \in Outcome
        <4>1. worker[w].phase = "apart"
          BY <1>6 DEF SettleApart
        <4> QED BY <4>1 DEF WorkerShape, Busy, Phase, Outcome, HandlerOutcome, Refusal
      <3>2. row' = [row EXCEPT ![worker[w].job] = Settled(@, worker[w].outcome)]
        BY <1>6, <2>2 DEF SettleApart
      <3>3. applied' = applied
        BY <1>6 DEF SettleApart
      <3> QED BY <1>3, <2>2, <3>1, <3>2, <3>3 DEF HoldsClaim
    <2> QED BY <2>1, <2>2
  <1>7. ASSUME NEW w \in Workers, RunStep(w)
        PROVE  NoEdge \/ \E j \in Jobs : Edge(j)
    BY <1>2, <1>5, <1>6, <1>7
       DEF RunStep, NoHandler, OpenFails, Lock, LoseClaim, Refuse, AdmissionFails,
           StartHandler, HandlerReturns, HandlerThrows, Commit, CommitUnconfirmed,
           CommitFails, SettleApartFails, GoApart
  <1>8. ASSUME NEW w \in Workers, WorkerStep(w)
        PROVE  NoEdge \/ \E j \in Jobs : Edge(j)
    BY <1>2, <1>4, <1>7, <1>8 DEF WorkerStep, Crash, SessionLost, Stop, Start
  <1>9. ASSUME NEW j \in Jobs, JobStep(j)
        PROVE  NoEdge \/ \E i \in Jobs : Edge(i)
    <2>1. ASSUME \/ LeaseExpires(j) \/ BecomesDue(j) PROVE NoEdge
      <3>1. applied' = applied /\ \A i \in Jobs : row'[i].status = row[i].status
        BY <1>1, <2>1 DEF LeaseExpires, BecomesDue, Row
      <3> QED BY <3>1 DEF NoEdge
    <2>2. ASSUME NEW key, NEW now, Enqueue(j, key, now) PROVE Edge(j)
      <3>1. /\ row'[j].status = "queued" /\ row[j].status = "absent" /\ applied' = applied
            /\ \A i \in Jobs : i # j => row'[i] = row[i]
        BY <1>1, <2>2 DEF Enqueue, Row
      <3> QED BY <3>1 DEF Edge
    <2>3. ASSUME Requeue(j) PROVE Edge(j)
      <3>1. /\ row'[j].status = "queued" /\ row[j].status \in Stopped /\ applied' = applied
            /\ \A i \in Jobs : i # j => row'[i] = row[i]
        BY <1>1, <2>3 DEF Requeue, Row
      <3> QED BY <3>1 DEF Edge
    <2>4. ASSUME MarkDone(j) PROVE Edge(j)
      <3>1. /\ row'[j].status = "done" /\ row[j].status \in Stopped /\ applied' = applied
            /\ \A i \in Jobs : i # j => row'[i] = row[i]
        BY <1>1, <2>4 DEF MarkDone, Row
      <3> QED BY <3>1 DEF Edge
    <2>5. ASSUME Sweep(j) PROVE Edge(j)
      <3>1. /\ row'[j].status = "swept" /\ row[j].status = "done" /\ applied' = applied
            /\ \A i \in Jobs : i # j => row'[i] = row[i]
        BY <1>1, <2>5 DEF Sweep, Row
      <3> QED BY <3>1 DEF Edge
    <2> QED BY <1>9, <2>1, <2>2, <2>3, <2>4, <2>5 DEF JobStep
  <1> QED BY <1>2, <1>8, <1>9 DEF Next, vars

\* A delivery is recorded only on the way from running to done, which no job
\* takes twice.
LEMMA AppliedStep == IInv /\ AppliedAtMostOnce /\ [Next]_vars => AppliedAtMostOnce'
  <1> SUFFICES ASSUME IInv, AppliedAtMostOnce, [Next]_vars, NEW i \in Jobs
               PROVE  /\ applied'[i] <= 1
                      /\ applied'[i] = 1 => row'[i].status \in {"done", "swept"}
    BY DEF AppliedAtMostOnce
  <1>1. applied \in [Jobs -> Nat]
    BY DEF IInv, TypeOK
  <1>2. CASE NoEdge
    BY <1>2 DEF NoEdge, AppliedAtMostOnce
  <1>3. ASSUME NEW j \in Jobs, Edge(j)
        PROVE  /\ applied'[i] <= 1
               /\ applied'[i] = 1 => row'[i].status \in {"done", "swept"}
    <2>1. CASE i = j
      BY <1>1, <1>3, <2>1 DEF Edge, AppliedAtMostOnce, Stopped
    <2>2. CASE i # j
      <3>1. applied'[i] = applied[i]
        BY <1>1, <1>3, <2>2 DEF Edge
      <3>2. LifecycleState(row'[i].status) = LifecycleState(row[i].status)
        BY <1>3, <2>2 DEF Edge
      <3>3. row[i].status \in Status /\ row'[i].status \in Status
        <4>1. TypeOK'
          BY NextIInv DEF IInv
        <4> QED BY <4>1 DEF IInv, TypeOK, Row
      <3>4. row[i].status \in {"done", "swept"} => row'[i].status \in {"done", "swept"}
        BY <3>2, <3>3 DEF LifecycleState, Status, Terminal, Stopped
      <3> QED BY <3>1, <3>4 DEF AppliedAtMostOnce
    <2> QED BY <2>1, <2>2
  <1> QED BY <1>2, <1>3, StepEdge

\* The writes of a done run are committed at most once per job, for any
\* number of workers, crashes, lost acknowledgements and requeues.
THEOREM DeliveredOnce == Spec => []AppliedAtMostOnce
  <1>1. Init => AppliedAtMostOnce
    BY DEF Init, AppliedAtMostOnce
  <1> QED BY <1>1, Inductive, AppliedStep, PTL DEF Spec

\* Claims, leases, crashes and settlements refine the lifecycle promised to
\* whoever enqueues: every step of the queue is a step of JobLifecycle or
\* changes nothing that it speaks of.
THEOREM Refinement == Spec => ImplementsLifecycle
  <1> DEFINE st == [j \in Jobs |-> LifecycleState(row[j].status)]
  <1>1. Init => Lifecycle!Init
    <2> SUFFICES ASSUME Init PROVE Lifecycle!Init
      OBVIOUS
    <2>1. \A j \in Jobs : row[j].status = "absent"
      BY InitIInv DEF Init, AbsentRow
    <2>2. LifecycleState("absent") = "absent"
      BY DEF LifecycleState, Stopped
    <2> QED BY <2>1, <2>2 DEF Lifecycle!Init, Init
  <1>2. IInv /\ AppliedAtMostOnce /\ [Next]_vars => [Lifecycle!Next]_(Lifecycle!vars)
    <2> SUFFICES ASSUME IInv, AppliedAtMostOnce, [Next]_vars
                 PROVE  Lifecycle!Next \/ UNCHANGED Lifecycle!vars
      OBVIOUS
    <2>1. CASE NoEdge
      <3>1. \A i \in Jobs : LifecycleState(row'[i].status) = LifecycleState(row[i].status)
        BY <2>1, SameState DEF NoEdge
      <3> QED BY <2>1, <3>1 DEF NoEdge, Lifecycle!vars
    <2>2. ASSUME NEW j \in Jobs, Edge(j) PROVE Lifecycle!Next
      <3> DEFINE a == LifecycleState(row[j].status)
                 b == LifecycleState(row'[j].status)
      <3>1. st' = [st EXCEPT ![j] = b] /\ st[j] = a
        BY <2>2 DEF Edge
      <3>2. \/ applied' = applied /\ a = "absent" /\ b = "open"
            \/ applied' = applied /\ a = "open" /\ b = "stopped"
            \/ applied' = applied /\ a = "stopped" /\ b = "open"
            \/ applied' = applied /\ a = "stopped" /\ b = "done"
            \/ applied' = applied /\ a = "done" /\ b = "forgotten"
            \/ /\ a = "open" /\ b = "done" /\ row[j].status = "running"
               /\ applied' = [applied EXCEPT ![j] = @ + 1]
        BY <2>2 DEF Edge, LifecycleState, Stopped
      <3>3. row[j].status = "running" => applied[j] = 0
        BY DEF IInv, TypeOK, AppliedAtMostOnce
      <3>4. row[j].status = "running" /\ applied' = [applied EXCEPT ![j] = @ + 1] =>
                applied' = [applied EXCEPT ![j] = 1]
        BY <3>3 DEF IInv, TypeOK
      <3> HIDE DEF a, b, st
      <3>5. \/ Lifecycle!Accept(j) \/ Lifecycle!Deliver(j) \/ Lifecycle!GiveUp(j)
            \/ Lifecycle!Reopen(j) \/ Lifecycle!Confirm(j) \/ Lifecycle!Forget(j)
        BY <3>1, <3>2, <3>3, <3>4
           DEF st, Lifecycle!Accept, Lifecycle!Deliver, Lifecycle!GiveUp,
               Lifecycle!Reopen, Lifecycle!Confirm, Lifecycle!Forget, Lifecycle!Move
      <3> QED BY <3>5 DEF Lifecycle!Next
    <2> QED BY <2>1, <2>2, StepEdge
  <1> QED BY <1>1, <1>2, Inductive, DeliveredOnce, PTL
          DEF Spec, ImplementsLifecycle, Lifecycle!Spec
-----------------------------------------------------------------------------
(* A stale claim has no effect                                             *)

\* A worker whose claim is gone changes no row: settleJob and the commit of a
\* run both prove the claim first, for every number of workers and however
\* the row was moved meanwhile.
THEOREM StaleIsInert == Spec => StaleHolderIsInert
  <1> DEFINE Inert ==
        \A j \in Jobs, w \in Workers :
            /\ worker[w].phase \in InTransaction \cup {"apart"}
            /\ worker[w].job = j
            /\ worker'[w] # worker[w]
            /\ ~HoldsClaim(j, worker[w].token)
            => row'[j] = row[j]
  <1>1. IInv /\ [Next]_vars => [Inert]_vars
    <2> SUFFICES ASSUME IInv, Next, NEW j \in Jobs, NEW w \in Workers,
                        worker[w].phase \in InTransaction \cup {"apart"},
                        worker[w].job = j, worker'[w] # worker[w],
                        ~HoldsClaim(j, worker[w].token)
                 PROVE  row'[j] = row[j]
      OBVIOUS
    <2>1. worker \in [Workers -> Worker]
      BY DEF IInv, TypeOK
    <2>2. ASSUME NEW v \in Workers, NEW close, NEW take, Claim(v, close, take) PROVE FALSE
      BY <2>1, <2>2 DEF Claim, InTransaction
    <2>3. ASSUME NEW v \in Workers, Committed(v) PROVE v # w
      BY <2>3, QueueAssumption DEF Committed, Locks, IInv, LockShape
    <2>4. ASSUME NEW v \in Workers, Commit(v) \/ CommitUnconfirmed(v) PROVE FALSE
      BY <2>1, <2>3, <2>4 DEF Commit, CommitUnconfirmed
    <2>5. ASSUME NEW v \in Workers, SettleApart(v) PROVE row' = row
      <3>1. v = w
        BY <2>1, <2>5 DEF SettleApart
      <3> QED BY <2>5, <3>1 DEF SettleApart
    <2>6. ASSUME NEW v \in Workers, RunStep(v) PROVE row' = row
      BY <2>4, <2>5, <2>6
         DEF RunStep, NoHandler, OpenFails, Lock, LoseClaim, Refuse, AdmissionFails,
             StartHandler, HandlerReturns, HandlerThrows, CommitFails,
             SettleApartFails, GoApart
    <2>7. ASSUME NEW v \in Workers, WorkerStep(v) PROVE row' = row
      BY <2>2, <2>6, <2>7 DEF WorkerStep, Crash, SessionLost, Stop, Start
    <2>8. ASSUME NEW i \in Jobs, JobStep(i) PROVE worker' = worker
      BY <2>8 DEF JobStep, Enqueue, LeaseExpires, BecomesDue, Requeue, MarkDone, Sweep
    <2> QED BY <2>7, <2>8 DEF Next
  <1> QED BY <1>1, Inductive, PTL DEF Spec, StaleHolderIsInert

-----------------------------------------------------------------------------
(* The attempt budget                                                      *)

\* A claim that has not started its handler has its attempt still to spend
Owed ==
    ~SessionsDrop =>
        /\ \A j \in Jobs : starts[j] <= row[j].attempts
        /\ \A w \in Workers :
              /\ worker[w].phase \in {"claimed", "admitting", "refusing"}
              /\ HoldsClaim(worker[w].job, worker[w].token)
              => starts[worker[w].job] < row[worker[w].job].attempts

\* A step of one worker that leaves rows and counters alone, and after which
\* the worker is not about to start, or was so before with the same claim.
LEMMA OwedByWorker ==
    ASSUME TypeOK, Owed, NEW w \in Workers, UNCHANGED <<row, starts>>,
           \A v \in Workers : v # w => worker'[v] = worker[v],
           \/ worker'[w].phase \notin {"claimed", "admitting", "refusing"}
           \/ /\ worker[w].phase \in {"claimed", "admitting", "refusing"}
              /\ worker'[w].job = worker[w].job /\ worker'[w].token = worker[w].token
    PROVE  Owed'
  BY DEF Owed, HoldsClaim

\* A settled row: the attempt is given back only by a run that never started.
LEMMA OwedBySettle ==
    ASSUME IInv, Owed, NEW w \in Workers, NEW j \in Jobs, NEW o \in Outcome,
           worker[w].job = j, HoldsClaim(j, worker[w].token),
           o = "not_admitted" => worker[w].phase = "refusing",
           row' = [row EXCEPT ![j] = Settled(@, o)], UNCHANGED starts,
           \A v \in Workers : v # w => worker'[v] = worker[v],
           worker'[w].phase \in {"idle", "apart"}
    PROVE  Owed'
  <1>1. /\ row \in [Jobs -> Row] /\ row[j] \in Row /\ starts \in [Jobs -> Nat]
        /\ row[j].attempts \in Nat
    BY DEF IInv, TypeOK, Row
  <1>2. /\ row'[j] = Settled(row[j], o)
        /\ \A i \in Jobs : i # j => row'[i] = row[i]
    BY <1>1
  <1>3. row'[j].status # "running"
    BY <1>1, <1>2, SettledRow DEF Terminal, Stopped
  <1>4. ~SessionsDrop => starts[j] <= row'[j].attempts
    <2> SUFFICES ASSUME ~SessionsDrop PROVE starts[j] <= row'[j].attempts
      OBVIOUS
    <2>1. CASE o # "not_admitted"
      <3>1. row'[j].attempts = row[j].attempts
        BY <1>1, <1>2, <2>1, SettledRow
      <3> QED BY <3>1 DEF Owed
    <2>2. CASE o = "not_admitted"
      <3>1. starts[j] < row[j].attempts
        BY <2>2 DEF Owed
      <3>2. row[j].attempts > 0
        BY <1>1, <3>1
      <3>3. row'[j].attempts = row[j].attempts - 1
        BY <1>1, <1>2, <2>2, <3>2, SettledRow
      <3> QED BY <1>1, <3>1, <3>3
    <2> QED BY <2>1, <2>2
  <1> QED BY <1>2, <1>3, <1>4 DEF Owed, HoldsClaim

\* Each step of a run pays for the start it makes.
LEMMA OwedByRun ==
    ASSUME IInv, Attached, Owed, NEW w \in Workers, RunStep(w) PROVE Owed'
  <1> USE DEF IInv
  <1>1. worker \in [Workers -> Worker] /\ worker[w] \in Worker /\ TypeOK
    BY DEF TypeOK
  <1>2. ASSUME NEW o, GoApart(w, o) PROVE Owed'
    <2>1. /\ worker'[w].phase = "apart" /\ UNCHANGED <<row, starts>>
          /\ \A v \in Workers : v # w => worker'[v] = worker[v]
      BY <1>1, <1>2 DEF GoApart, Worker
    <2> QED BY <1>1, <2>1, OwedByWorker
  <1>3. CASE NoHandler(w) \/ OpenFails(w) \/ AdmissionFails(w) \/ HandlerThrows(w)
             \/ CommitFails(w)
    BY <1>2, <1>3 DEF NoHandler, OpenFails, AdmissionFails, HandlerThrows, CommitFails
  <1>4. CASE Lock(w)
    <2>1. /\ worker[w].phase = "claimed" /\ UNCHANGED <<row, starts>>
          /\ worker'[w].job = worker[w].job /\ worker'[w].token = worker[w].token
          /\ \A v \in Workers : v # w => worker'[v] = worker[v]
      BY <1>1, <1>4 DEF Lock, Worker
    <2> QED BY <1>1, <2>1, OwedByWorker
  <1>5. CASE LoseClaim(w) \/ SettleApartFails(w)
    <2>1. /\ worker'[w].phase = "idle" /\ UNCHANGED <<row, starts>>
          /\ \A v \in Workers : v # w => worker'[v] = worker[v]
      BY <1>1, <1>5 DEF LoseClaim, SettleApartFails, IdleWorker
    <2> QED BY <1>1, <2>1, OwedByWorker
  <1>6. ASSUME NEW o \in Refusal, Refuse(w, o) PROVE Owed'
    <2>1. CASE Locks(w)
      <3>1. worker' = [worker EXCEPT ![w].phase = "refusing", ![w].outcome = o]
        BY <1>6, <2>1 DEF Refuse
      <3>2. UNCHANGED <<row, starts>>
        BY <1>6 DEF Refuse, GoApart
      <3>3. worker[w].phase = "admitting"
        BY <1>6 DEF Refuse
      <3>4. /\ worker'[w].job = worker[w].job /\ worker'[w].token = worker[w].token
            /\ \A v \in Workers : v # w => worker'[v] = worker[v]
        BY <1>1, <3>1 DEF Worker
      <3> QED BY <1>1, <3>2, <3>3, <3>4, OwedByWorker
    <2> QED BY <1>2, <1>6, <2>1 DEF Refuse
  <1>7. CASE StartHandler(w)
    <2>1. /\ worker'[w].phase = "handling" /\ UNCHANGED row
          /\ \A v \in Workers : v # w => worker'[v] = worker[v]
      BY <1>1, <1>7 DEF StartHandler, Worker
    <2>2. /\ worker[w].phase = "admitting" /\ worker[w].job \in Jobs
          /\ starts \in [Jobs -> Nat] /\ worker[w].token \in Tokens
          /\ starts' = [starts EXCEPT ![worker[w].job] = @ + 1]
      BY <1>7 DEF StartHandler, TypeOK, WorkerShape, Busy, Phase, InTransaction
    <2> SUFFICES ASSUME ~SessionsDrop PROVE Owed'
      BY DEF Owed
    <2>3. HoldsClaim(worker[w].job, worker[w].token)
      BY <2>2, QueueAssumption DEF Attached, LockShape, InTransaction
    <2>4. starts[worker[w].job] < row[worker[w].job].attempts
      BY <2>2, <2>3 DEF Owed
    <2>5. \A j \in Jobs : row[j].attempts \in Nat
      BY DEF TypeOK, Row
    <2>6. \A j \in Jobs : starts'[j] <= row'[j].attempts
      BY <2>1, <2>2, <2>4, <2>5 DEF Owed
    <2>7. ASSUME NEW v \in Workers, v # w, HoldsClaim(worker[v].job, worker[v].token),
                 worker[v].phase \in {"claimed", "admitting", "refusing"}
          PROVE  worker[v].job \in Jobs /\ worker[v].job # worker[w].job
      <3>1. worker[v].job \in Jobs
        BY <2>7 DEF WorkerShape, Busy, Phase, InTransaction
      <3> QED BY <2>2, <2>3, <2>7, <3>1, QueueAssumption DEF HoldsClaim, TokenShape
    <2> QED BY <2>1, <2>2, <2>6, <2>7 DEF Owed, HoldsClaim
  <1>8. ASSUME NEW o \in HandlerOutcome, HandlerReturns(w, o) PROVE Owed'
    <2>1. /\ worker'[w].phase = "settling" /\ UNCHANGED <<row, starts>>
          /\ \A v \in Workers : v # w => worker'[v] = worker[v]
      BY <1>1, <1>8 DEF HandlerReturns, Worker
    <2> QED BY <1>1, <2>1, OwedByWorker
  <1>9. CASE Commit(w) \/ CommitUnconfirmed(w)
    <2>1. /\ worker[w].job \in Jobs /\ worker[w].outcome \in Outcome
          /\ HoldsClaim(worker[w].job, worker[w].token)
          /\ worker[w].outcome = "not_admitted" => worker[w].phase = "refusing"
      BY <1>9, QueueAssumption
         DEF Commit, CommitUnconfirmed, Committed, Locks, LockShape, WorkerShape,
             Refusal, HandlerOutcome, Outcome
    <2>2. /\ worker'[w].phase \in {"idle", "apart"}
          /\ \A v \in Workers : v # w => worker'[v] = worker[v]
      BY <1>1, <1>9 DEF Commit, CommitUnconfirmed, IdleWorker, Worker
    <2>3. /\ row' = [row EXCEPT ![worker[w].job] = Settled(@, worker[w].outcome)]
          /\ UNCHANGED starts
      BY <1>9 DEF Commit, CommitUnconfirmed, Committed
    <2> QED BY <2>1, <2>2, <2>3, OwedBySettle
  <1>10. CASE SettleApart(w)
    <2>1. /\ worker[w].job \in Jobs /\ worker[w].outcome \in Outcome
          /\ worker[w].outcome # "not_admitted"
      <3>1. worker[w].phase = "apart"
        BY <1>10 DEF SettleApart
      <3> QED BY <3>1 DEF WorkerShape, Busy, Phase, Outcome, HandlerOutcome, Refusal
    <2>2. /\ worker'[w].phase = "idle" /\ UNCHANGED starts
          /\ \A v \in Workers : v # w => worker'[v] = worker[v]
      BY <1>1, <1>10 DEF SettleApart, IdleWorker
    <2>3. CASE HoldsClaim(worker[w].job, worker[w].token)
      <3>1. row' = [row EXCEPT ![worker[w].job] = Settled(@, worker[w].outcome)]
        BY <1>10, <2>3 DEF SettleApart
      <3> QED BY <2>1, <2>2, <2>3, <3>1, OwedBySettle
    <2>4. CASE ~HoldsClaim(worker[w].job, worker[w].token)
      <3>1. row' = row
        BY <1>10, <2>4 DEF SettleApart
      <3> QED BY <1>1, <2>2, <3>1, OwedByWorker
    <2> QED BY <2>3, <2>4
  <1> QED BY <1>3, <1>4, <1>5, <1>6, <1>7, <1>8, <1>9, <1>10 DEF RunStep

\* A claim buys one start; the operator's requeue begins a new account.
LEMMA OwedStep == IInv /\ Attached /\ Owed /\ [Next]_vars => Owed'
  <1> SUFFICES ASSUME IInv, Attached, Owed, [Next]_vars PROVE Owed'
    OBVIOUS
  <1> USE DEF IInv
  <1>1. /\ worker \in [Workers -> Worker] /\ TypeOK /\ starts \in [Jobs -> Nat]
        /\ row \in [Jobs -> Row] /\ \A j \in Jobs : row[j] \in Row
    BY DEF TypeOK
  <1>2. ASSUME UNCHANGED <<row, worker, starts>> PROVE Owed'
    BY <1>2 DEF Owed, HoldsClaim
  <1>3. ASSUME NEW w \in Workers, NEW close \in Jobs \cup {None},
               NEW take \in Jobs \cup {None}, Claim(w, close, take)
        PROVE  Owed'
    <2> DEFINE t == CHOOSE t \in FreshTokens : TRUE
    <2>1. /\ t \in FreshTokens /\ t \in Tokens /\ UNCHANGED starts
          /\ row' = [j \in Jobs |-> IF j = close THEN Closed(row[j])
                                    ELSE IF j = take THEN Claimed(row[j], t)
                                    ELSE row[j]]
          /\ worker' = IF take = None THEN worker
                       ELSE [worker EXCEPT ![w] =
                               [phase |-> "claimed", job |-> take,
                                token |-> t, outcome |-> None]]
      BY <1>3 DEF Claim, FreshTokens
    <2> HIDE DEF t
    <2>2. ASSUME NEW j \in Jobs
          PROVE  /\ Closed(row[j]).status = "dead" /\ Claimed(row[j], t).token = t
                 /\ Closed(row[j]).attempts = row[j].attempts
                 /\ Claimed(row[j], t).attempts = row[j].attempts + 1
                 /\ row[j].attempts \in Nat
      <3>1. row[j] \in Row /\ t \in Tokens
        BY <1>1, <2>1
      <3> HIDE <1>1, <2>1 DEF IInv
      <3>2. row[j].attempts \in Nat
        BY <3>1 DEF Row
      <3> QED BY <3>1, <3>2, ClaimRows
    <2>3. \A j \in Jobs : /\ row'[j].attempts >= row[j].attempts
                          /\ row'[j].attempts \in Nat
                          /\ \/ row'[j] = row[j] \/ row'[j].status = "dead"
                             \/ j = take /\ row'[j].token = t
                                         /\ row'[j].attempts = row[j].attempts + 1
      BY <2>1, <2>2
    <2>4. \A v \in Workers : /\ \/ worker'[v] = worker[v] /\ worker[v].token # t
                                \/ worker'[v].job = take /\ take \in Jobs
      BY <1>1, <2>1 DEF FreshTokens
    <2> SUFFICES ASSUME ~SessionsDrop PROVE Owed'
      BY DEF Owed
    <2>5. \A j \in Jobs : starts[j] \in Nat /\ starts[j] <= row[j].attempts
      BY <1>1 DEF Owed
    <2>6. \A j \in Jobs : starts'[j] <= row'[j].attempts
      <3> SUFFICES ASSUME NEW j \in Jobs PROVE starts'[j] <= row'[j].attempts
        OBVIOUS
      <3>1. /\ row'[j].attempts >= row[j].attempts /\ row'[j].attempts \in Nat
            /\ row[j].attempts \in Nat
        BY <2>2, <2>3
      <3> HIDE <1>1 DEF IInv
      <3> QED BY <2>1, <2>5, <3>1
    <2>7. ASSUME NEW v \in Workers,
                 worker'[v].phase \in {"claimed", "admitting", "refusing"},
                 row'[worker'[v].job].status = "running",
                 row'[worker'[v].job].token = worker'[v].token
          PROVE  starts'[worker'[v].job] < row'[worker'[v].job].attempts
      <3>1. CASE worker'[v] = worker[v] /\ worker[v].token # t
        <4>1. worker[v].job \in Jobs
          BY <2>7, <3>1 DEF WorkerShape, Busy, Phase, InTransaction
        <4>2. row'[worker[v].job] = row[worker[v].job]
          BY <2>3, <2>7, <3>1, <4>1
        <4>3. starts[worker[v].job] < row[worker[v].job].attempts
          BY <2>7, <3>1, <4>2 DEF Owed, HoldsClaim
        <4> QED BY <2>1, <3>1, <4>2, <4>3
      <3>2. CASE worker'[v].job = take /\ take \in Jobs
        <4>1. take # close
          BY <2>1, <2>2, <2>7, <3>2
        <4>2. row'[take].attempts = row[take].attempts + 1
          BY <2>1, <2>2, <3>2, <4>1
        <4> QED BY <2>1, <2>2, <2>5, <3>2, <4>2
      <3> QED BY <2>4, <3>1, <3>2
    <2> QED BY <2>6, <2>7 DEF Owed, HoldsClaim
  <1>4. ASSUME NEW w \in Workers, WorkerStep(w) PROVE Owed'
    <2>1. CASE Crash(w) \/ Stop(w) \/ Start(w)
      <3>1. /\ worker'[w].phase \in {"idle", "stopped"} /\ UNCHANGED <<row, starts>>
            /\ \A v \in Workers : v # w => worker'[v] = worker[v]
        BY <1>1, <2>1 DEF Crash, Stop, Start, IdleWorker, Worker
      <3> QED BY <1>1, <3>1, OwedByWorker
    <2>2. CASE SessionLost(w)
      BY <1>2, <2>2 DEF SessionLost
    <2> QED BY <1>3, <1>4, <2>1, <2>2, OwedByRun DEF WorkerStep
  <1>5. ASSUME NEW j \in Jobs, JobStep(j) PROVE Owed'
    <2>1. UNCHANGED worker
      BY <1>5 DEF JobStep, Enqueue, LeaseExpires, BecomesDue, Requeue, MarkDone, Sweep
    <2>2. CASE ~Requeue(j)
      <3>1. UNCHANGED starts
        BY <1>5, <2>2 DEF JobStep, Enqueue, LeaseExpires, BecomesDue, MarkDone, Sweep
      <3>2. \A i \in Jobs : /\ row'[i].attempts = row[i].attempts
                            /\ row'[i].token = row[i].token
                            /\ row'[i].status = "running" => row[i].status = "running"
        <4> SUFFICES ASSUME NEW i \in Jobs
                     PROVE  /\ row'[i].attempts = row[i].attempts
                            /\ row'[i].token = row[i].token
                            /\ row'[i].status = "running" => row[i].status = "running"
          OBVIOUS
        <4>1. row[i] \in Row
          BY <1>1
        <4>2. \/ \E key \in Keys \cup {None}, now \in BOOLEAN :
                    row' = [row EXCEPT ![j].status = "queued", ![j].key = key,
                                       ![j].due = now]
              \/ row' = [row EXCEPT ![j].lease = "expired"]
              \/ row' = [row EXCEPT ![j].due = TRUE]
              \/ row' = [row EXCEPT ![j].status = "done", ![j].completed = TRUE]
              \/ row' = [row EXCEPT ![j].status = "swept"]
          BY <1>5, <2>2 DEF JobStep, Enqueue, LeaseExpires, BecomesDue, MarkDone, Sweep
        <4> HIDE DEF IInv
        <4>3. ASSUME i # j PROVE row'[i] = row[i]
          BY <1>1, <4>2, <4>3
        <4>4. ASSUME i = j
              PROVE  /\ row'[i].attempts = row[i].attempts
                     /\ row'[i].token = row[i].token
                     /\ row'[i].status = "running" => row[i].status = "running"
          <5>1. \/ \E key \in Keys \cup {None}, now \in BOOLEAN :
                     row'[i] = [row[i] EXCEPT !.status = "queued", !.key = key, !.due = now]
                \/ row'[i] = [row[i] EXCEPT !.lease = "expired"]
                \/ row'[i] = [row[i] EXCEPT !.due = TRUE]
                \/ row'[i] = [row[i] EXCEPT !.status = "done", !.completed = TRUE]
                \/ row'[i] = [row[i] EXCEPT !.status = "swept"]
            BY <1>1, <4>2, <4>4
          <5> QED BY <4>1, <5>1 DEF Row
        <4> QED BY <4>3, <4>4
      <3> QED BY <2>1, <3>1, <3>2 DEF Owed, HoldsClaim, WorkerShape, Busy, Phase, InTransaction
    <2>3. CASE Requeue(j)
      <3>1. /\ starts' = [starts EXCEPT ![j] = 0]
            /\ row'[j].attempts = 0 /\ row'[j].status = "queued"
            /\ \A i \in Jobs : i # j => row'[i] = row[i]
        BY <1>1, <2>3 DEF Requeue, Row
      <3>2. /\ starts'[j] = 0
            /\ \A i \in Jobs : i # j => starts'[i] = starts[i]
        BY <1>1, <3>1
      <3>3. \A v \in Workers : worker[v].phase \in {"claimed", "admitting", "refusing"} =>
                worker[v].job \in Jobs
        BY DEF WorkerShape, Busy, Phase, InTransaction
      <3> QED BY <2>1, <3>1, <3>2, <3>3 DEF Owed, HoldsClaim
    <2> QED BY <2>2, <2>3
  <1>6. CASE UNCHANGED vars
    BY <1>2, <1>6 DEF vars
  <1> QED BY <1>4, <1>5, <1>6 DEF Next

\* max_attempts bounds the handler starts that one budget pays for, although a
\* refused admission gives its attempt back, as long as sessions hold: a claim
\* that is refused has not started, and nothing else refunds.
THEOREM BudgetHolds == ASSUME ~SessionsDrop PROVE Spec => []RunsWithinBudget
  <1>1. Init => Attached /\ Owed
    <2> SUFFICES ASSUME Init PROVE Attached /\ Owed
      OBVIOUS
    <2>1. \A j \in Jobs : row[j].attempts = 0
      BY DEF Init, AbsentRow
    <2> QED BY <2>1 DEF Init, Attached, Owed, IdleWorker, InTransaction
  <1>2. Spec => [](Attached /\ Owed)
    BY <1>1, Inductive, AttachedStep, OwedStep, PTL DEF Spec
  <1>3. IInv /\ Owed => RunsWithinBudget
    BY DEF IInv, BudgetShape, Owed, RunsWithinBudget
  <1> QED BY <1>2, <1>3, Inductive, PTL

=============================================================================
