--------------------------- MODULE InboundProofs ---------------------------
(***************************************************************************)
(* The inbound dispatch keeps to the job queue: whatever the broker, the   *)
(* revocation and the retention of deliveries do, the queue takes only     *)
(* steps of JobQueue, so every theorem of JobQueueProofs holds of the      *)
(* composed system.  A delivery is delivered with its job, the dispatch    *)
(* implements InboundReceipts, and a write that cannot be repeated is      *)
(* dispatched once unless an operator requeues it.                         *)
(***************************************************************************)
EXTENDS InboundDispatch, JobQueueProofs

\* The broker's calls are well formed, and the outcome one has decided is one
\* that runClaimedJob settles as a handler's
CallsWellFormed ==
    /\ dispatch \in [Workers -> Dispatch]
    /\ \A v \in Workers :
          dispatch[v].step \in {"unmark", "finish"} =>
              dispatch[v].outcome \in HandlerOutcome

CallShape ==
    /\ delivery \in [Jobs -> Delivery]
    /\ catalog \in Contracts
    /\ CallsWellFormed

\* With the inductive invariant of the queue: a call reads the row of its job
DispatchIInv == IInv /\ CallShape

-----------------------------------------------------------------------------
\* A worker whose call moves on keeps a well-formed call: what Goto, End and
\* the other updates of the broker's call leave behind.
LEMMA CallUpdated ==
    ASSUME CallShape, NEW w \in Workers, NEW d \in Dispatch,
           dispatch' = [dispatch EXCEPT ![w] = d],
           d.step \in {"unmark", "finish"} => d.outcome \in HandlerOutcome
    PROVE  CallsWellFormed'
  BY DEF CallShape, CallsWellFormed

\* Goto changes the step of one call.
LEMMA GotoShape ==
    ASSUME CallShape, NEW w \in Workers, NEW s \in Step \ {"unmark", "finish"},
           Goto(w, s)
    PROVE  CallsWellFormed'
  <1> DEFINE d == [dispatch[w] EXCEPT !.step = s]
  <1>1. d \in Dispatch /\ d.step = s
    BY DEF CallShape, CallsWellFormed, Dispatch
  <1>2. dispatch' = [dispatch EXCEPT ![w] = d]
    BY DEF Goto
  <1> HIDE DEF d
  <1> QED BY <1>1, <1>2, CallUpdated

\* End leaves nothing of the call but the outcome the handler settles.
LEMMA EndShape ==
    ASSUME CallShape, NEW w \in Workers, NEW o \in HandlerOutcome, End(w, o)
    PROVE  CallsWellFormed'
  <1> DEFINE d == [NoDispatch EXCEPT !.step = "finish", !.outcome = o]
  <1>1. d \in Dispatch /\ d.step = "finish" /\ d.outcome = o
    BY DEF NoDispatch, Dispatch, Step
  <1>2. dispatch' = [dispatch EXCEPT ![w] = d]
    BY DEF End
  <1> HIDE DEF d
  <1> QED BY <1>1, <1>2, CallUpdated

\* A run that is over leaves no call.
LEMMA ResetShape ==
    ASSUME CallShape, NEW w \in Workers,
           dispatch' = [dispatch EXCEPT ![w] = NoDispatch]
    PROVE  CallsWellFormed'
  <1>1. NoDispatch \in Dispatch /\ NoDispatch.step = "none"
    BY DEF NoDispatch, Dispatch, Step
  <1> QED BY <1>1, CallUpdated

-----------------------------------------------------------------------------
(* The broker                                                              *)

\* Unless continues or ends with a verdict.
LEMMA UnlessShape ==
    ASSUME CallShape, NEW w \in Workers, NEW verdict,
           verdict = None \/ verdict \in HandlerOutcome,
           NEW s \in Step \ {"unmark", "finish"}, Unless(w, verdict, s)
    PROVE  CallsWellFormed'
  <1>1. CASE verdict = None
    BY <1>1, GotoShape DEF Unless
  <1>2. CASE verdict # None
    BY <1>2, EndShape DEF Unless
  <1> QED BY <1>1, <1>2

\* The steps of the broker that only move its call: reads of the claim, of the
\* catalog and of the answer.
LEMMA BrokerMoves ==
    ASSUME DispatchIInv, NEW w \in Workers,
           \/ Resolve(w) \/ Discover(w) \/ Pinned(w) \/ Execute(w)
           \/ Rediscover(w) \/ Fence(w) \/ Recheck(w) \/ Resend(w)
           \/ Mark(w) \/ MarkFails(w) \/ Send(w) \/ Limited(w)
           \/ \E o \in {"retry", "failed"} :
                 ResolveFails(w, o) \/ DiscoverFails(w, o) \/ StopWaiting(w, o)
           \/ \E o \in HandlerOutcome : Answer(w, o)
    PROVE  CallShape' /\ UNCHANGED vars
  <1>0. CallShape /\ {"retry", "failed", "outcome_unknown"} \subseteq HandlerOutcome
    BY DEF DispatchIInv, HandlerOutcome
  <1>1. UNCHANGED <<vars, delivery, catalog>>
    BY DEF Resolve, Discover, Pinned, Execute, Rediscover, Fence, Recheck,
           Resend, Mark, MarkFails, Send, Limited, ResolveFails, DiscoverFails,
           StopWaiting, Answer, Queue
  <1>2. ASSUME CallsWellFormed' PROVE CallShape' /\ UNCHANGED vars
    BY <1>0, <1>1, <1>2 DEF CallShape
  <1>3. dispatch[w] \in Dispatch
    BY <1>0 DEF CallShape, CallsWellFormed
  <1>4. CASE Resolve(w)
    <2> DEFINE d == [dispatch[w] EXCEPT !.step = "catalog",
                       !.pin = delivery[worker[w].job].pin, !.prior = Prior(w)]
    <2>1. worker[w].job \in Jobs
      BY <1>4 DEF Resolve, At, DispatchIInv, IInv, WorkerShape, Busy, Phase,
                  InTransaction
    <2>2. delivery[worker[w].job].pin \in Contracts \cup {None}
      BY <1>0, <2>1 DEF CallShape, Delivery
    <2>3. Prior(w) \in BOOLEAN
      BY DEF Prior
    <2>4. d \in Dispatch /\ d.step = "catalog"
      BY <1>3, <2>2, <2>3 DEF Dispatch, Step
    <2>5. dispatch' = [dispatch EXCEPT ![w] = d]
      BY <1>4 DEF Resolve
    <2> HIDE DEF d
    <2> QED BY <1>0, <1>2, <2>4, <2>5, CallUpdated
  <1>5. CASE Discover(w)
    <2> DEFINE d == [dispatch[w] EXCEPT !.step = "pin", !.contract = catalog,
                                        !.pin = None, !.prior = FALSE]
    <2>1. d \in Dispatch /\ d.step = "pin"
      BY <1>0, <1>3 DEF Dispatch, Step, CallShape
    <2>2. \/ \E o \in HandlerOutcome : End(w, o)
          \/ dispatch' = [dispatch EXCEPT ![w] = d]
      BY <1>0, <1>5 DEF Discover
    <2> HIDE DEF d
    <2> QED BY <1>0, <1>2, <2>1, <2>2, CallUpdated, EndShape
  <1>6. CASE Pinned(w) \/ Execute(w) \/ Rediscover(w) \/ Fence(w) \/ Recheck(w)
    <2>1. PICK verdict \in HandlerOutcome \cup {None},
              s \in Step \ {"unmark", "finish"} : Unless(w, verdict, s)
      <3>1. CASE Pinned(w)
        BY <1>0, <3>1 DEF Pinned, Step, Resolving
      <3>2. CASE Execute(w) \/ Rediscover(w)
        BY <1>0, <3>2 DEF Execute, Rediscover, Step, Resolving
      <3>3. CASE Fence(w)
        BY <1>0, <3>3 DEF Fence, Step, Resolving
      <3>4. CASE Recheck(w)
        BY <1>0, <3>4 DEF Recheck, Step, Resolving
      <3> QED BY <1>6, <3>1, <3>2, <3>3, <3>4
    <2> QED BY <1>0, <1>2, <2>1, UnlessShape
  <1>7. CASE Resend(w) \/ Mark(w) \/ MarkFails(w) \/ Send(w) \/ Limited(w)
    <2>1. \/ \E s \in Step \ {"unmark", "finish"} : Goto(w, s)
          \/ \E o \in HandlerOutcome : End(w, o)
      BY <1>0, <1>7 DEF Resend, Mark, MarkFails, Send, Limited, Step
    <2> QED BY <1>0, <1>2, <2>1, GotoShape, EndShape
  <1>8. CASE \E o \in {"retry", "failed"} : StopWaiting(w, o)
    <2>1. PICK o \in {"retry", "failed"} : StopWaiting(w, o)
      BY <1>8
    <2> DEFINE d == [dispatch[w] EXCEPT !.step = "unmark", !.outcome = o]
    <2>2. d \in Dispatch /\ d.outcome = o
      BY <1>0, <1>3 DEF Dispatch, Step
    <2>3. dispatch' = [dispatch EXCEPT ![w] = d]
      BY <2>1 DEF StopWaiting
    <2> HIDE DEF d
    <2> QED BY <1>0, <1>2, <2>2, <2>3, CallUpdated
  <1>9. CASE \/ \E o \in {"retry", "failed"} :
                   ResolveFails(w, o) \/ DiscoverFails(w, o)
             \/ \E o \in HandlerOutcome : Answer(w, o)
    <2>1. \E o \in HandlerOutcome : End(w, o)
      BY <1>0, <1>9 DEF ResolveFails, DiscoverFails, Answer
    <2> QED BY <1>0, <1>2, <2>1, EndShape
  <1> QED BY <1>4, <1>5, <1>6, <1>7, <1>8, <1>9

\* The steps of the broker that write the delivery: the pin and the mark.
LEMMA BrokerWrites ==
    ASSUME DispatchIInv, NEW w \in Workers,
           Pin(w) \/ Unmark(w) \/ \E a \in BOOLEAN : MarkCommits(w, a)
    PROVE  CallShape' /\ UNCHANGED vars
  <1> DEFINE j == worker[w].job
  <1>0. CallShape /\ "retry" \in HandlerOutcome
    BY DEF DispatchIInv, HandlerOutcome
  <1>1. UNCHANGED <<vars, catalog>>
    BY DEF Pin, Unmark, MarkCommits, Queue
  <1>2. ASSUME CallsWellFormed', delivery' \in [Jobs -> Delivery]
        PROVE  CallShape' /\ UNCHANGED vars
    BY <1>0, <1>1, <1>2 DEF CallShape
  <1>3. /\ dispatch[w] \in Dispatch /\ dispatch[w].attempt \in Nat
        /\ dispatch[w].contract \in Contracts \cup {None}
    BY <1>0 DEF CallShape, CallsWellFormed, Dispatch
  <1>4. j \in Jobs /\ delivery[j] \in Delivery
    BY <1>0 DEF Pin, Unmark, MarkCommits, At, DispatchIInv, IInv, WorkerShape,
                Busy, Phase, InTransaction, CallShape
  <1> HIDE DEF j
  <1>5. ASSUME NEW mark \in {"started", "not-dispatched"},
               delivery' = [delivery EXCEPT
                   ![j].status = "dispatching", ![j].mark = mark,
                   ![j].attempt = dispatch[w].attempt]
        PROVE  delivery' \in [Jobs -> Delivery]
    <2> DEFINE e == [delivery[j] EXCEPT !.status = "dispatching",
                       !.mark = mark, !.attempt = dispatch[w].attempt]
    <2>1. e \in Delivery
      BY <1>3, <1>4, <1>5 DEF Delivery, OpenDelivery
    <2>2. delivery' = [delivery EXCEPT ![j] = e]
      BY <1>5
    <2> HIDE DEF e
    <2> QED BY <1>0, <2>1, <2>2 DEF CallShape
  <1>6. CASE Pin(w)
    <2> DEFINE e == [delivery[j] EXCEPT !.pin = dispatch[w].contract]
    <2>1. e \in Delivery
      BY <1>3, <1>4 DEF Delivery
    <2>2. delivery' = [delivery EXCEPT ![j] = e] \/ delivery' = delivery
      BY <1>6 DEF Pin, j
    <2> HIDE DEF e
    <2>3. delivery' \in [Jobs -> Delivery]
      BY <1>0, <2>1, <2>2 DEF CallShape
    <2>4. "pinned" \in Step \ {"unmark", "finish"}
      BY DEF Step, Resolving
    <2>5. Goto(w, "pinned")
      BY <1>6 DEF Pin
    <2> QED BY <1>0, <1>2, <2>3, <2>4, <2>5, GotoShape
  <1>7. CASE Unmark(w)
    <2>1. delivery' \in [Jobs -> Delivery]
      BY <1>0, <1>5, <1>7 DEF Unmark, j, CallShape
    <2>2. dispatch[w].outcome \in HandlerOutcome /\ End(w, dispatch[w].outcome)
      BY <1>0, <1>7 DEF Unmark, At, CallShape, CallsWellFormed
    <2> QED BY <1>0, <1>2, <2>1, <2>2, EndShape
  <1>8. CASE \E a \in BOOLEAN : MarkCommits(w, a)
    <2>1. delivery' \in [Jobs -> Delivery]
      BY <1>5, <1>8 DEF MarkCommits, j
    <2>2. PICK a \in BOOLEAN :
              Unless(w, IF a THEN None ELSE "retry", "recheck")
      BY <1>8 DEF MarkCommits
    <2>3. "recheck" \in Step \ {"unmark", "finish"}
      BY DEF Step, Resolving
    <2> QED BY <1>0, <1>2, <2>1, <2>2, <2>3, UnlessShape
  <1> QED BY <1>6, <1>7, <1>8

-----------------------------------------------------------------------------
(* The handler, the endpoint, the rest of the queue                        *)

\* Finish settles the job as a handler's return, with an outcome that
\* runClaimedJob knows.
LEMMA FinishStep ==
    ASSUME DispatchIInv, NEW w \in Workers, Finish(w) \/ FinishFails(w)
    PROVE  CallShape' /\ RunStep(w)
  <1>1. CallShape /\ dispatch' = [dispatch EXCEPT ![w] = NoDispatch]
        /\ UNCHANGED <<delivery, catalog>>
    BY DEF DispatchIInv, Finish, FinishFails
  <1>2. CallShape'
    BY <1>1, ResetShape DEF CallShape
  <1>3. dispatch[w].step = "finish" => dispatch[w].outcome \in HandlerOutcome
    BY <1>1 DEF CallShape, CallsWellFormed
  <1>4. RunStep(w)
    BY <1>3 DEF Finish, FinishFails, RunStep
  <1> QED BY <1>2, <1>4

\* The claim gives the call the attempt it counted in the job's row.
LEMMA ClaimDeliveryStep ==
    ASSUME DispatchIInv, NEW w \in Workers,
           NEW close \in Jobs \cup {None}, NEW take \in Jobs \cup {None},
           ClaimDelivery(w, close, take)
    PROVE  CallShape' /\ WorkerStep(w)
  <1>1. CallShape /\ IInv /\ UNCHANGED <<delivery, catalog>>
    BY DEF DispatchIInv, ClaimDelivery
  <1>2. WorkerStep(w)
    BY DEF ClaimDelivery, WorkerStep
  <1>3. CASE take = None
    BY <1>1, <1>2, <1>3 DEF ClaimDelivery, CallShape, CallsWellFormed
  <1>4. CASE take \in Jobs
    <2>1. PICK n \in Nat : row'[take].attempts = n
      <3>1. IInv'
        BY <1>1, <1>2, NextIInv DEF Next
      <3> QED BY <1>4, <3>1 DEF IInv, TypeOK, Row
    <2> DEFINE d == [dispatch[w] EXCEPT !.attempt = n]
    <2>2. d \in Dispatch /\ d.step = dispatch[w].step
          /\ d.outcome = dispatch[w].outcome
      BY <1>1, <2>1 DEF CallShape, CallsWellFormed, Dispatch
    <2>3. dispatch' = [dispatch EXCEPT ![w] = d]
      BY <1>4, <2>1, QueueAssumption DEF ClaimDelivery
    <2>4. d.step \in {"unmark", "finish"} => d.outcome \in HandlerOutcome
      BY <1>1, <2>2 DEF CallShape, CallsWellFormed
    <2> HIDE DEF d
    <2>5. CallsWellFormed'
      BY <1>1, <2>2, <2>3, <2>4, CallUpdated
    <2> QED BY <1>1, <1>2, <2>5 DEF CallShape
  <1> QED BY <1>3, <1>4

\* The settlement of a delivery commits with the job's.
LEMMA CommitStep ==
    ASSUME DispatchIInv, NEW w \in Workers, CommitDelivery(w)
    PROVE  CallShape' /\ RunStep(w)
  <1> DEFINE j == worker[w].job
             o == worker[w].outcome
             e == SettledDelivery(delivery[j], o)
  <1>1. CallShape /\ IInv /\ UNCHANGED <<dispatch, catalog>>
    BY DEF DispatchIInv, CommitDelivery
  <1>2. RunStep(w)
    BY DEF CommitDelivery, RunStep
  <1>3. CASE worker[w].phase = "settling" /\ o # "retry"
    <2>1. j \in Jobs /\ o \in HandlerOutcome \ {"retry"}
      BY <1>1, <1>3 DEF IInv, WorkerShape, Busy, Phase, InTransaction
    <2>2. delivery[j] \in Delivery
      BY <1>1, <2>1 DEF CallShape
    <2> HIDE DEF j, o
    <2>3. e \in Delivery
      <3> DEFINE s == IF o = "done" THEN "delivered" ELSE o
      <3>1. s \in Settlements
        BY <2>1 DEF HandlerOutcome, Settlements
      <3>2. e = IF delivery[j].status \in OpenDelivery
                THEN [delivery[j] EXCEPT !.status = s] ELSE delivery[j]
        BY DEF SettledDelivery
      <3> HIDE DEF s, e
      <3> QED BY <2>2, <3>1, <3>2 DEF Delivery
    <2>4. delivery' = [delivery EXCEPT ![j] = e]
      BY <1>3 DEF CommitDelivery, j, o
    <2> HIDE DEF e
    <2> QED BY <1>1, <1>2, <2>3, <2>4 DEF CallShape, CallsWellFormed
  <1>4. CASE ~(worker[w].phase = "settling" /\ o # "retry")
    <2>1. delivery' = delivery
      BY <1>4 DEF CommitDelivery
    <2> QED BY <1>1, <1>2, <2>1 DEF CallShape, CallsWellFormed
  <1> QED BY <1>3, <1>4

\* Every step of a worker is a step of the queue's worker, or none.
LEMMA HandlerStepKeeps ==
    ASSUME DispatchIInv, NEW w \in Workers, HandlerStep(w)
    PROVE  CallShape' /\ (WorkerStep(w) \/ UNCHANGED vars)
  <1>0. CallShape
    BY DEF DispatchIInv
  <1>1. CASE BrokerStep(w)
    BY <1>1, BrokerMoves, BrokerWrites DEF BrokerStep
  <1>2. CASE NotStarted(w) \/ CrashDispatch(w)
    <2>1. /\ dispatch' = [dispatch EXCEPT ![w] = NoDispatch]
          /\ UNCHANGED <<delivery, catalog>>
      BY <1>2 DEF NotStarted, CrashDispatch
    <2>2. CallShape'
      BY <1>0, <2>1, ResetShape DEF CallShape
    <2>3. WorkerStep(w)
      BY <1>2 DEF NotStarted, CrashDispatch, WorkerStep, RunStep
    <2> QED BY <2>2, <2>3
  <1>3. CASE StartDispatch(w)
    <2>1. Goto(w, "resolve") /\ UNCHANGED <<delivery, catalog>>
      BY <1>3 DEF StartDispatch
    <2>2. "resolve" \in Step \ {"unmark", "finish"}
      BY DEF Step, Resolving
    <2>3. CallShape'
      BY <1>0, <2>1, <2>2, GotoShape DEF CallShape
    <2>4. WorkerStep(w)
      BY <1>3 DEF StartDispatch, WorkerStep, RunStep
    <2> QED BY <2>3, <2>4
  <1>4. CASE Finish(w) \/ FinishFails(w)
    BY <1>4, FinishStep DEF WorkerStep
  <1>5. CASE CommitDelivery(w)
    BY <1>5, CommitStep DEF WorkerStep
  <1>6. CASE \E close, take \in Jobs \cup {None} : ClaimDelivery(w, close, take)
    BY <1>6, ClaimDeliveryStep
  <1> QED BY <1>1, <1>2, <1>3, <1>4, <1>5, <1>6 DEF HandlerStep

\* Admission, revocation, retention and republication: a delivery is recorded
\* with the enqueue of its job, the others leave the queue alone.
LEMMA EndpointStepKeeps ==
    ASSUME DispatchIInv, EndpointStep
    PROVE  CallShape' /\ ((\E j \in Jobs : JobStep(j)) \/ UNCHANGED vars)
  <1>0. CallShape
    BY DEF DispatchIInv
  <1>1. CASE RevokeBegins \/ (\E c \in BOOLEAN : RevokeEnds(c))
             \/ \E j \in Jobs : Admit(j) \/ AdmissionEnds(j)
    <2>1. UNCHANGED <<vars, delivery, catalog, dispatch>>
      BY <1>1 DEF RevokeBegins, RevokeEnds, Admit, AdmissionEnds
    <2> QED BY <1>0, <2>1 DEF CallShape, CallsWellFormed
  <1>2. CASE \E c \in Contracts : Republish(c)
    <2>1. UNCHANGED <<vars, delivery, dispatch>> /\ catalog' \in Contracts
      BY <1>2 DEF Republish
    <2> QED BY <1>0, <2>1 DEF CallShape, CallsWellFormed
  <1>3. ASSUME NEW j \in Jobs, PurgeBody(j) PROVE CallShape' /\ UNCHANGED vars
    <2> DEFINE e == [delivery[j] EXCEPT !.body = "purged"]
    <2>1. e \in Delivery
      BY <1>0 DEF CallShape, Delivery
    <2>2. delivery' = [delivery EXCEPT ![j] = e]
          /\ UNCHANGED <<vars, catalog, dispatch>>
      BY <1>3 DEF PurgeBody
    <2> HIDE DEF e
    <2> QED BY <1>0, <2>1, <2>2 DEF CallShape, CallsWellFormed
  <1>4. ASSUME NEW j \in Jobs, NEW key \in Keys, RecordDelivery(j, key)
        PROVE  CallShape' /\ JobStep(j)
    <2> DEFINE e == [delivery[j] EXCEPT !.status = "pending", !.key = key]
    <2>1. e \in Delivery
      BY <1>0 DEF CallShape, Delivery, OpenDelivery
    <2>2. delivery' = [delivery EXCEPT ![j] = e]
          /\ UNCHANGED <<catalog, dispatch>>
      BY <1>4 DEF RecordDelivery
    <2> HIDE DEF e
    <2>3. JobStep(j)
      BY <1>4 DEF RecordDelivery, JobStep
    <2> QED BY <1>0, <2>1, <2>2, <2>3 DEF CallShape, CallsWellFormed
  <1> QED BY <1>1, <1>2, <1>3, <1>4 DEF EndpointStep

\* The composed system takes only steps of the queue, and its calls stay well
\* formed.
LEMMA InboundNextKeeps ==
    DispatchIInv /\ [InboundNext]_allVars => DispatchIInv' /\ [Next]_vars
  <1> SUFFICES ASSUME DispatchIInv, [InboundNext]_allVars
               PROVE  DispatchIInv' /\ [Next]_vars
    OBVIOUS
  <1>1. CallShape' /\ [Next]_vars
    <2>1. CASE UNCHANGED allVars
      BY <2>1 DEF allVars, inbound, vars, DispatchIInv, CallShape, CallsWellFormed
    <2>2. CASE QueueStep
      <3>1. CallShape'
        BY <2>2 DEF QueueStep, inbound, DispatchIInv, CallShape, CallsWellFormed
      <3>2. Next
        BY <2>2 DEF QueueStep, Next, WorkerStep, RunStep, JobStep
      <3> QED BY <3>1, <3>2
    <2>3. CASE EndpointStep
      BY <2>3, EndpointStepKeeps DEF Next
    <2>4. CASE \E w \in Workers : HandlerStep(w)
      BY <2>4, HandlerStepKeeps DEF Next
    <2> QED BY <2>1, <2>2, <2>3, <2>4 DEF InboundNext
  <1>2. IInv'
    BY <1>1, NextIInv DEF DispatchIInv
  <1> QED BY <1>1, <1>2 DEF DispatchIInv

-----------------------------------------------------------------------------
\* Inbound dispatch runs on the queue of JobQueue: the broker that works inside
\* a handler's transaction, the revocation, the retention and the redeployment
\* of the Operation are no steps of the queue, and what the broker decides is
\* always an outcome that settleJob accepts from a handler.
THEOREM QueueEmbedded == InboundSpec => Spec
  <1>1. InboundInit => Init /\ DispatchIInv
    <2> SUFFICES ASSUME InboundInit PROVE Init /\ DispatchIInv
      OBVIOUS
    <2>1. Init /\ IInv
      BY InitIInv DEF InboundInit
    <2>2. NoDelivery \in Delivery /\ NoDispatch \in Dispatch
          /\ NoDispatch.step = "none"
      BY DEF NoDelivery, Delivery, NoDispatch, Dispatch, Step
    <2>3. CallShape
      BY <2>2 DEF InboundInit, CallShape, CallsWellFormed
    <2> QED BY <2>1, <2>3 DEF DispatchIInv
  <1> QED BY <1>1, InboundNextKeeps, PTL DEF InboundSpec, Spec

\* The queue's guarantee in the composed system: across crashes, lost sessions
\* and lost acknowledgements in the middle of a dispatch, the run of a
\* delivery's job commits as done at most once.
THEOREM DeliveryAppliedOnce == InboundSpec => []AppliedAtMostOnce
  BY QueueEmbedded, DeliveredOnce, PTL

\* The table of the queue keeps the shape its CHECK demands while deliveries
\* are recorded, dispatched and settled.
THEOREM DeliveryShapeHolds == InboundSpec => []StatusShape
  BY QueueEmbedded, ShapeHolds, PTL

-----------------------------------------------------------------------------
(* What a step of the broker does                                          *)

\* The call of worker w moves along one edge and keeps its attempt
Moves(w, s, t) ==
    /\ dispatch[w].step = s /\ dispatch'[w].step = t
    /\ dispatch'[w].attempt = dispatch[w].attempt
    /\ dispatch'[w].contract = dispatch[w].contract

\* The broker answers; nothing is written
Ends(w) ==
    /\ dispatch'[w].step = "finish"
    /\ dispatch[w].step \notin {"none", "finish"}
    /\ dispatch'[w].outcome = "done" => dispatch[w].step # "resolve"
    /\ gate' = gate \/ (gate = w /\ gate' = None)
    /\ UNCHANGED <<delivery, reached>>

\* The call moves on after a look at the claim, the catalog or the answer
Looks(w) ==
    LET d == delivery[worker[w].job]
    IN  /\ \/ Moves(w, "resolve", "catalog") /\ Resolvable(w)
           \/ /\ dispatch[w].step = "catalog" /\ dispatch'[w].step = "pin"
              /\ dispatch'[w].attempt = dispatch[w].attempt
           \/ /\ Moves(w, "pinned", "execute")
              /\ d.pin # None /\ d.pin = dispatch[w].contract
           \/ Moves(w, "execute", "discover") \/ Moves(w, "discover", "fence")
           \/ /\ Moves(w, "fence", "mark")
              /\ d.pin = dispatch[w].contract /\ ~Uncertain(w)
           \/ /\ Moves(w, "recheck", "send")
              /\ Resolvable(w) /\ d.mark = "started"
              /\ d.attempt = dispatch[w].attempt
           \/ Moves(w, "limited", "send") \/ Moves(w, "limited", "unmark")
        /\ UNCHANGED <<delivery, gate, reached>>

Pins(w) ==
    LET j == worker[w].job
    IN  /\ Moves(w, "pin", "pinned")
        /\ \/ UNCHANGED delivery
           \/ /\ delivery[j].pin = None
              /\ delivery' = [delivery EXCEPT ![j].pin = dispatch[w].contract]
        /\ UNCHANGED <<gate, reached>>

TakesGate(w) ==
    /\ Moves(w, "mark", "marking")
    /\ GateFree /\ DeliveryFree(w) /\ Resolvable(w)
    /\ gate' = w
    /\ UNCHANGED <<delivery, reached>>

WritesMark(w, mark) ==
    delivery' = [delivery EXCEPT ![worker[w].job].status = "dispatching",
                                 ![worker[w].job].mark = mark,
                                 ![worker[w].job].attempt = dispatch[w].attempt]

Marks(w) ==
    /\ \/ Moves(w, "marking", "recheck")
       \/ /\ dispatch[w].step = "marking" /\ dispatch'[w].step = "finish"
          /\ dispatch'[w].outcome # "done"
    /\ WritesMark(w, "started")
    /\ gate' = None
    /\ UNCHANGED reached

Sends(w) ==
    /\ Moves(w, "send", "sent")
    /\ reached' = [reached EXCEPT ![worker[w].job] = @ + 1]
    /\ UNCHANGED <<delivery, gate>>

Bounces(w) ==
    /\ Moves(w, "sent", "limited")
    /\ reached' = [reached EXCEPT ![worker[w].job] = @ - 1]
    /\ UNCHANGED <<delivery, gate>>

Unmarks(w) ==
    /\ dispatch[w].step = "unmark" /\ dispatch'[w].step = "finish"
    /\ Resolvable(w)
    /\ WritesMark(w, "not-dispatched")
    /\ UNCHANGED <<gate, reached>>

Effect(w) ==
    /\ worker[w].phase = "handling" /\ worker[w].job \in Jobs
    /\ UNCHANGED <<vars, active, revoking>>
    /\ \A v \in Workers : v # w => dispatch'[v] = dispatch[v]
    /\ \/ Ends(w) \/ Looks(w) \/ Pins(w) \/ TakesGate(w) \/ Marks(w)
       \/ Sends(w) \/ Bounces(w) \/ Unmarks(w)

\* What Goto and End do to the call of worker w and to no other.
LEMMA CallMoves ==
    ASSUME CallShape, NEW w \in Workers, NEW s, NEW o
    PROVE  /\ Goto(w, s) =>
                 /\ dispatch'[w].step = s
                 /\ dispatch'[w].attempt = dispatch[w].attempt
                 /\ dispatch'[w].contract = dispatch[w].contract
                 /\ dispatch'[w].outcome = dispatch[w].outcome
                 /\ \A v \in Workers : v # w => dispatch'[v] = dispatch[v]
           /\ End(w, o) =>
                 /\ dispatch'[w].step = "finish" /\ dispatch'[w].outcome = o
                 /\ \A v \in Workers : v # w => dispatch'[v] = dispatch[v]
  <1>1. dispatch \in [Workers -> Dispatch] /\ dispatch[w] \in Dispatch
    BY DEF CallShape, CallsWellFormed
  <1>2. ASSUME Goto(w, s)
        PROVE  /\ dispatch'[w] = [dispatch[w] EXCEPT !.step = s]
               /\ \A v \in Workers : v # w => dispatch'[v] = dispatch[v]
    BY <1>1, <1>2 DEF Goto
  <1>3. ASSUME End(w, o)
        PROVE  /\ dispatch'[w] = [NoDispatch EXCEPT !.step = "finish", !.outcome = o]
               /\ \A v \in Workers : v # w => dispatch'[v] = dispatch[v]
    BY <1>1, <1>3 DEF End
  <1> QED BY <1>1, <1>2, <1>3 DEF Dispatch, NoDispatch

\* Every step of the broker has one of the effects above.
LEMMA BrokerEffect ==
    ASSUME DispatchIInv, NEW w \in Workers, BrokerStep(w) PROVE Effect(w)
  <1>0. CallShape /\ IInv
    BY DEF DispatchIInv
  <1>1. worker[w].phase = "handling" /\ UNCHANGED <<vars, active, revoking>>
    BY DEF BrokerStep, At, Queue, Resolve, Discover, Pin, Pinned, Execute,
           Rediscover, Fence, ResolveFails, DiscoverFails, StopWaiting, Mark,
           MarkFails, MarkCommits, Recheck, Send, Answer, Limited, Resend, Unmark
  <1>2. worker[w].job \in Jobs
    BY <1>0, <1>1 DEF IInv, WorkerShape, Busy, Phase, InTransaction
  <1>3. ASSUME NEW s, Goto(w, s)
        PROVE  /\ dispatch'[w].step = s
               /\ dispatch'[w].attempt = dispatch[w].attempt
               /\ dispatch'[w].contract = dispatch[w].contract
               /\ \A v \in Workers : v # w => dispatch'[v] = dispatch[v]
    BY <1>0, <1>3, CallMoves
  <1>4. ASSUME NEW o, End(w, o)
        PROVE  /\ dispatch'[w].step = "finish" /\ dispatch'[w].outcome = o
               /\ \A v \in Workers : v # w => dispatch'[v] = dispatch[v]
    BY <1>0, <1>4, CallMoves
  <1>5. dispatch[w] \in Dispatch /\ dispatch \in [Workers -> Dispatch]
    BY <1>0 DEF CallShape, CallsWellFormed
  <1> DEFINE Others == \A v \in Workers : v # w => dispatch'[v] = dispatch[v]
             Some == \/ Ends(w) \/ Looks(w) \/ Pins(w) \/ TakesGate(w) \/ Marks(w)
                     \/ Sends(w) \/ Bounces(w) \/ Unmarks(w)
  <1>6. ASSUME Others, Some PROVE Effect(w)
    BY <1>1, <1>2, <1>6 DEF Effect
  <1>7. CASE Resolve(w)
    <2>1. dispatch'[w] = [dispatch[w] EXCEPT !.step = "catalog",
              !.pin = delivery[worker[w].job].pin, !.prior = Prior(w)]
      BY <1>5, <1>7 DEF Resolve
    <2>2. Others /\ UNCHANGED <<delivery, gate, reached>> /\ Resolvable(w)
          /\ dispatch[w].step = "resolve"
      BY <1>5, <1>7 DEF Resolve, At
    <2>3. Moves(w, "resolve", "catalog")
      BY <1>5, <2>1, <2>2 DEF Moves, Dispatch
    <2>4. Looks(w)
      BY <2>2, <2>3 DEF Looks
    <2> QED BY <1>6, <2>2, <2>4
  <1>8. CASE Discover(w)
    <2>1. dispatch[w].step = "catalog" /\ UNCHANGED <<delivery, gate, reached>>
      BY <1>8 DEF Discover, At
    <2>2. ASSUME NEW o \in {"failed", "outcome_unknown"}, End(w, o) PROVE Effect(w)
      BY <1>4, <1>6, <2>1, <2>2 DEF Ends
    <2>3. ASSUME dispatch' = [dispatch EXCEPT ![w].step = "pin",
                    ![w].contract = catalog, ![w].pin = None, ![w].prior = FALSE]
          PROVE  Effect(w)
      <3>1. /\ dispatch'[w] = [dispatch[w] EXCEPT !.step = "pin",
                     !.contract = catalog, !.pin = None, !.prior = FALSE]
            /\ Others
        BY <1>5, <2>3
      <3>2. dispatch'[w].step = "pin" /\ dispatch'[w].attempt = dispatch[w].attempt
        BY <1>5, <3>1 DEF Dispatch
      <3> QED BY <1>6, <2>1, <3>1, <3>2 DEF Looks
    <2> QED BY <1>8, <2>2, <2>3 DEF Discover
  <1>9. CASE Pin(w)
    BY <1>3, <1>6, <1>9 DEF Pin, Pins, At, Moves
  <1>10. CASE Pinned(w)
    <2> DEFINE d == delivery[worker[w].job]
    <2>1. \/ /\ Goto(w, "execute") /\ d.pin # None /\ d.pin = dispatch[w].contract
          \/ \E o \in {"retry", "failed", "outcome_unknown"} : End(w, o)
      BY <1>10, DispatchAssumption DEF Pinned, Unless, HandlerOutcome
    <2>2. dispatch[w].step = "pinned" /\ UNCHANGED <<delivery, gate, reached>>
      BY <1>10 DEF Pinned, At
    <2> QED BY <1>3, <1>4, <1>6, <2>1, <2>2 DEF Ends, Looks, Moves
  <1>11. CASE Execute(w) \/ Rediscover(w)
    <2>1. \/ Goto(w, "discover") /\ dispatch[w].step = "execute"
          \/ Goto(w, "fence") /\ dispatch[w].step = "discover"
          \/ End(w, "failed") /\ dispatch[w].step \in {"execute", "discover"}
      BY <1>11 DEF Execute, Rediscover, Unless, At
    <2>2. UNCHANGED <<delivery, gate, reached>>
      BY <1>11 DEF Execute, Rediscover
    <2> QED BY <1>3, <1>4, <1>6, <2>1, <2>2 DEF Ends, Looks, Moves
  <1>12. CASE Fence(w)
    <2> DEFINE d == delivery[worker[w].job]
    <2>1. \/ Goto(w, "mark") /\ d.pin = dispatch[w].contract /\ ~Uncertain(w)
          \/ \E o \in {"failed", "outcome_unknown"} : End(w, o)
      BY <1>12, DispatchAssumption DEF Fence, Unless, HandlerOutcome
    <2>2. dispatch[w].step = "fence" /\ UNCHANGED <<delivery, gate, reached>>
      BY <1>12 DEF Fence, At
    <2> QED BY <1>3, <1>4, <1>6, <2>1, <2>2 DEF Ends, Looks, Moves
  <1>13. CASE \E o \in {"retry", "failed"} : ResolveFails(w, o) \/ DiscoverFails(w, o)
    <2>1. \E o \in {"retry", "failed"} : End(w, o)
      BY <1>13 DEF ResolveFails, DiscoverFails
    <2>2. /\ dispatch[w].step \notin {"none", "finish"}
          /\ UNCHANGED <<delivery, gate, reached>>
      BY <1>13 DEF ResolveFails, DiscoverFails, At, Resolving
    <2> QED BY <1>4, <1>6, <2>1, <2>2 DEF Ends
  <1>14. CASE \E o \in {"retry", "failed"} : StopWaiting(w, o)
    <2>1. PICK o \in {"retry", "failed"} : StopWaiting(w, o)
      BY <1>14
    <2>2. /\ dispatch'[w] = [dispatch[w] EXCEPT !.step = "unmark", !.outcome = o]
          /\ Others /\ UNCHANGED <<delivery, gate, reached>>
          /\ dispatch[w].step = "limited"
      BY <1>5, <2>1 DEF StopWaiting, At
    <2>3. Moves(w, "limited", "unmark")
      BY <1>5, <2>2 DEF Moves, Dispatch
    <2> QED BY <1>6, <2>2, <2>3 DEF Looks
  <1>15. CASE Mark(w) \/ MarkFails(w)
    <2>1. dispatch[w].step \in {"mark", "marking"} /\ UNCHANGED <<delivery, reached>>
      BY <1>15 DEF Mark, MarkFails, At
    <2>2. CASE End(w, "retry") /\ (gate' = gate \/ (gate = w /\ gate' = None))
      BY <1>4, <1>6, <2>1, <2>2 DEF Ends
    <2>3. CASE Mark(w) /\ Goto(w, "marking")
      BY <1>3, <1>4, <1>6, <2>1, <2>3 DEF Mark, At, TakesGate, Moves
    <2> QED BY <1>15, <2>2, <2>3 DEF Mark, MarkFails
  <1>16. CASE \E a \in BOOLEAN : MarkCommits(w, a)
    <2>1. \/ Goto(w, "recheck") \/ End(w, "retry")
      BY <1>16 DEF MarkCommits, Unless
    <2>2. /\ dispatch[w].step = "marking" /\ gate' = None /\ UNCHANGED reached
          /\ WritesMark(w, "started")
      BY <1>16 DEF MarkCommits, At, WritesMark
    <2> QED BY <1>3, <1>4, <1>6, <2>1, <2>2 DEF Marks, Moves
  <1>17. CASE Recheck(w)
    <2> DEFINE d == delivery[worker[w].job]
    <2>1. \/ /\ Goto(w, "send") /\ d.mark = "started"
             /\ d.attempt = dispatch[w].attempt
          \/ End(w, "retry")
      BY <1>17, DispatchAssumption DEF Recheck, Unless, HandlerOutcome
    <2>2. /\ dispatch[w].step = "recheck" /\ UNCHANGED <<delivery, gate, reached>>
          /\ Resolvable(w)
      BY <1>17 DEF Recheck, At
    <2> QED BY <1>3, <1>4, <1>6, <2>1, <2>2 DEF Ends, Looks, Moves
  <1>18. CASE Send(w)
    <2>1. Sends(w) /\ Goto(w, "sent")
      BY <1>3, <1>18 DEF Send, At, Sends, Moves
    <2> QED BY <1>3, <1>6, <2>1
  <1>19. CASE \E o \in HandlerOutcome : Answer(w, o)
    BY <1>4, <1>6, <1>19 DEF Answer, At, Ends
  <1>20. CASE Limited(w)
    <2>1. Bounces(w) /\ Goto(w, "limited")
      BY <1>3, <1>20 DEF Limited, At, Bounces, Moves
    <2> QED BY <1>3, <1>6, <2>1
  <1>21. CASE Resend(w)
    BY <1>3, <1>6, <1>21 DEF Resend, At, Looks, Moves
  <1>22. CASE Unmark(w)
    <2>1. /\ dispatch[w].step = "unmark" /\ UNCHANGED <<gate, reached>>
          /\ End(w, dispatch[w].outcome)
      BY <1>22 DEF Unmark, At
    <2>2. CASE UNCHANGED delivery
      BY <1>4, <1>6, <2>1, <2>2 DEF Ends
    <2>3. CASE Resolvable(w) /\ WritesMark(w, "not-dispatched")
      BY <1>4, <1>6, <2>1, <2>3 DEF Unmarks
    <2> QED BY <1>22, <2>2, <2>3 DEF Unmark, WritesMark
  <1> QED BY <1>7, <1>8, <1>9, <1>10, <1>11, <1>12, <1>13, <1>14, <1>15, <1>16,
             <1>17, <1>18, <1>19, <1>20, <1>21, <1>22 DEF BrokerStep

-----------------------------------------------------------------------------
(* What every other step leaves of the calls and of the deliveries         *)

\* A call is made while its worker's handler runs
CallPhase ==
    \A w \in Workers : worker[w].phase # "handling" => dispatch[w].step = "none"

\* A step of the handler's run outside the broker
RunsStep(w) ==
    \/ \E close, take \in Jobs \cup {None} : ClaimDelivery(w, close, take)
    \/ NotStarted(w) \/ StartDispatch(w)
    \/ Finish(w) \/ FinishFails(w) \/ CommitDelivery(w) \/ CrashDispatch(w)

OffBroker == QueueStep \/ EndpointStep \/ \E w \in Workers : RunsStep(w)

\* The calls in flight, and the workers that make them, are the same after
\* the step, but for calls that end without a trace or have just begun
CallsKept ==
    \A v \in Workers :
        \/ dispatch'[v].step = "none"
        \/ dispatch'[v] = dispatch[v] /\ worker'[v] = worker[v]
        \/ StartDispatch(v) /\ dispatch'[v].step = "resolve"
           /\ dispatch'[v].attempt = dispatch[v].attempt

\* What the run of worker w settles its delivery as
SettlesAs(w) == IF worker[w].outcome = "done" THEN "delivered" ELSE worker[w].outcome

\* A delivery keeps its pin and its mark; its status changes when it is
\* recorded and when a run that settled it commits
DeliveriesKept ==
    \A j \in Jobs :
        /\ delivery'[j].pin = delivery[j].pin
        /\ delivery'[j].mark = delivery[j].mark
        /\ delivery'[j].attempt = delivery[j].attempt
        /\ \/ delivery'[j].status = delivery[j].status
           \/ /\ delivery'[j].status = "pending"
              /\ row[j].status = "absent" /\ row'[j].status # "absent"
           \/ \E w \in Workers :
                 /\ CommitDelivery(w) /\ worker[w].job = j
                 /\ worker[w].phase = "settling" /\ worker[w].outcome # "retry"
                 /\ delivery[j].status \in OpenDelivery
                 /\ delivery'[j].status = SettlesAs(w)

\* One worker acts, outside its handler; the others keep what they hold.
LEMMA OneActs ==
    ASSUME CallPhase, NEW w \in Workers,
           \A v \in Workers : v # w => worker'[v] = worker[v],
           \A v \in Workers : v # w => dispatch'[v] = dispatch[v],
           dispatch'[w].step = "none" \/ (dispatch' = dispatch /\ worker[w].phase # "handling")
    PROVE  CallsKept
  BY DEF CallPhase, CallsKept

\* Steps outside the broker do not touch the calls in flight.
LEMMA CallsKeptStep == ASSUME DispatchIInv, CallPhase, OffBroker PROVE CallsKept
  <1>1. /\ worker \in [Workers -> Worker] /\ dispatch \in [Workers -> Dispatch]
        /\ \A w \in Workers : dispatch[w] \in Dispatch
    BY DEF DispatchIInv, IInv, TypeOK, CallShape, CallsWellFormed
  <1>2. NoDispatch.step = "none"
    BY DEF NoDispatch
  <1>3. ASSUME UNCHANGED <<worker, dispatch>> PROVE CallsKept
    BY <1>3 DEF CallsKept
  <1>4. CASE QueueStep
    <2>1. UNCHANGED dispatch
      BY <1>4 DEF QueueStep, inbound
    <2>2. ASSUME NEW w \in Workers,
                 \/ Lock(w) \/ CommitFails(w) \/ SettleApart(w)
                 \/ SettleApartFails(w) \/ Stop(w) \/ Start(w)
          PROVE  CallsKept
      <3>1. \A v \in Workers : v # w => worker'[v] = worker[v]
        BY <1>1, <2>2 DEF Lock, CommitFails, SettleApart, SettleApartFails, Stop,
                          Start, GoApart
      <3>2. worker[w].phase # "handling"
        BY <2>2 DEF Lock, CommitFails, SettleApart, SettleApartFails, Stop, Start
      <3> QED BY <2>1, <3>1, <3>2, OneActs
    <2>3. CASE \/ \E w \in Workers : SessionLost(w)
               \/ \E j \in Jobs :
                     \/ LeaseExpires(j) \/ BecomesDue(j) \/ MarkDone(j) \/ Sweep(j)
                     \/ Requeue(j)
      BY <1>3, <2>1, <2>3 DEF SessionLost, LeaseExpires, BecomesDue, MarkDone, Sweep,
                              Requeue
    <2> QED BY <1>4, <2>2, <2>3 DEF QueueStep
  <1>5. CASE EndpointStep
    <2>1. UNCHANGED <<worker, dispatch>>
      BY <1>5 DEF EndpointStep, RevokeBegins, RevokeEnds, Republish, Admit,
                  AdmissionEnds, PurgeBody, RecordDelivery, Enqueue, vars
    <2> QED BY <1>3, <2>1
  <1>6. ASSUME NEW w \in Workers, RunsStep(w) PROVE CallsKept
    <2>1. \A v \in Workers : v # w => worker'[v] = worker[v]
      BY <1>1, <1>6
         DEF RunsStep, ClaimDelivery, Claim, NotStarted, NoHandler, OpenFails,
             LoseClaim, AdmissionFails, Refuse, GoApart, StartDispatch, StartHandler,
             Finish, HandlerReturns, FinishFails, HandlerThrows, CommitDelivery,
             Commit, CommitUnconfirmed, CrashDispatch, Crash
    <2>2. \A v \in Workers : v # w => dispatch'[v] = dispatch[v]
      BY <1>1, <1>6 DEF RunsStep, ClaimDelivery, NotStarted, StartDispatch, Goto,
                        Finish, FinishFails, CommitDelivery, CrashDispatch
    <2>3. CASE NotStarted(w) \/ Finish(w) \/ FinishFails(w) \/ CrashDispatch(w)
      <3>1. dispatch'[w].step = "none"
        BY <1>1, <1>2, <2>3 DEF NotStarted, Finish, FinishFails, CrashDispatch
      <3> QED BY <2>1, <2>2, <3>1, OneActs
    <2>4. CASE CommitDelivery(w)
      <3>1. dispatch' = dispatch /\ worker[w].phase # "handling"
        BY <2>4 DEF CommitDelivery, Commit, CommitUnconfirmed, Committed
      <3> QED BY <2>1, <2>2, <3>1, OneActs
    <2>5. CASE \E close, take \in Jobs \cup {None} : ClaimDelivery(w, close, take)
      <3>1. worker[w].phase = "idle"
        BY <2>5 DEF ClaimDelivery, Claim
      <3>2. dispatch[w].step = "none"
        BY <3>1 DEF CallPhase
      <3>3. \/ dispatch' = dispatch
            \/ \E n : dispatch' = [dispatch EXCEPT ![w].attempt = n]
        BY <2>5 DEF ClaimDelivery
      <3>4. dispatch'[w].step = "none"
        BY <1>1, <3>2, <3>3 DEF Dispatch
      <3> QED BY <2>1, <2>2, <3>4, OneActs
    <2>6. CASE StartDispatch(w)
      <3>1. CallShape /\ Goto(w, "resolve")
        BY <2>6 DEF StartDispatch, DispatchIInv
      <3>2. dispatch'[w].step = "resolve" /\ dispatch'[w].attempt = dispatch[w].attempt
        BY <3>1, CallMoves
      <3> QED BY <2>1, <2>2, <2>6, <3>2 DEF CallsKept
    <2> QED BY <1>6, <2>3, <2>4, <2>5, <2>6 DEF RunsStep
  <1> QED BY <1>4, <1>5, <1>6 DEF OffBroker

\* Steps outside the broker write no pin and no mark.
LEMMA DeliveriesKeptStep == ASSUME DispatchIInv, OffBroker PROVE DeliveriesKept
  <1>1. delivery \in [Jobs -> Delivery] /\ \A j \in Jobs : delivery[j] \in Delivery
    BY DEF DispatchIInv, CallShape
  <1>2. ASSUME UNCHANGED delivery PROVE DeliveriesKept
    BY <1>2 DEF DeliveriesKept
  <1>3. ASSUME NEW j \in Jobs, PurgeBody(j) PROVE DeliveriesKept
    <2>1. /\ delivery'[j] = [delivery[j] EXCEPT !.body = "purged"]
          /\ \A i \in Jobs : i # j => delivery'[i] = delivery[i]
      BY <1>1, <1>3 DEF PurgeBody
    <2>2. /\ delivery'[j].pin = delivery[j].pin /\ delivery'[j].mark = delivery[j].mark
          /\ delivery'[j].attempt = delivery[j].attempt
          /\ delivery'[j].status = delivery[j].status
      BY <1>1, <2>1 DEF Delivery
    <2> QED BY <2>1, <2>2 DEF DeliveriesKept
  <1>4. ASSUME NEW j \in Jobs, NEW key \in Keys, RecordDelivery(j, key)
        PROVE  DeliveriesKept
    <2>1. /\ delivery'[j] = [delivery[j] EXCEPT !.status = "pending", !.key = key]
          /\ \A i \in Jobs : i # j => delivery'[i] = delivery[i]
      BY <1>1, <1>4 DEF RecordDelivery
    <2>2. /\ delivery'[j].pin = delivery[j].pin /\ delivery'[j].mark = delivery[j].mark
          /\ delivery'[j].attempt = delivery[j].attempt
          /\ delivery'[j].status = "pending"
      BY <1>1, <2>1 DEF Delivery
    <2>3. row[j].status = "absent" /\ row'[j].status = "queued"
      BY <1>4 DEF RecordDelivery, Enqueue, DispatchIInv, IInv, TypeOK, Row
    <2> QED BY <2>1, <2>2, <2>3 DEF DeliveriesKept
  <1>5. ASSUME NEW w \in Workers, CommitDelivery(w) PROVE DeliveriesKept
    <2>1. CASE ~(worker[w].phase = "settling" /\ worker[w].outcome # "retry")
      BY <1>2, <1>5, <2>1 DEF CommitDelivery
    <2>2. CASE worker[w].phase = "settling" /\ worker[w].outcome # "retry"
      <3> DEFINE j == worker[w].job
      <3>1. j \in Jobs
        BY <2>2 DEF DispatchIInv, IInv, WorkerShape, Busy, Phase, InTransaction
      <3>2. /\ delivery'[j] = SettledDelivery(delivery[j], worker[w].outcome)
            /\ \A i \in Jobs : i # j => delivery'[i] = delivery[i]
        BY <1>1, <1>5, <2>2, <3>1 DEF CommitDelivery
      <3> HIDE DEF j
      <3>3. CASE delivery[j].status \notin OpenDelivery
        BY <3>2, <3>3 DEF SettledDelivery, DeliveriesKept
      <3>4. CASE delivery[j].status \in OpenDelivery
        <4>1. delivery'[j] = [delivery[j] EXCEPT !.status = SettlesAs(w)]
          BY <3>2, <3>4 DEF SettledDelivery, SettlesAs
        <4>2. /\ delivery'[j].pin = delivery[j].pin /\ delivery'[j].mark = delivery[j].mark
              /\ delivery'[j].attempt = delivery[j].attempt
              /\ delivery'[j].status = SettlesAs(w)
          BY <1>1, <3>1, <4>1 DEF Delivery
        <4>3. worker[w].job = j
          BY DEF j
        <4> QED BY <1>5, <2>2, <3>2, <3>4, <4>2, <4>3 DEF DeliveriesKept
      <3> QED BY <3>3, <3>4
    <2> QED BY <2>1, <2>2
  <1>6. CASE QueueStep
    BY <1>2, <1>6 DEF QueueStep, inbound
  <1>7. CASE EndpointStep
    BY <1>2, <1>3, <1>4, <1>7 DEF EndpointStep, RevokeBegins, RevokeEnds, Republish,
                                  Admit, AdmissionEnds
  <1>8. ASSUME NEW w \in Workers, RunsStep(w) PROVE DeliveriesKept
    BY <1>2, <1>5, <1>8 DEF RunsStep, ClaimDelivery, NotStarted, StartDispatch,
                            Finish, FinishFails, CrashDispatch
  <1> QED BY <1>6, <1>7, <1>8 DEF OffBroker

-----------------------------------------------------------------------------
(* The gate and the settlement                                             *)

IsOpen(j) == delivery[j].status \in OpenDelivery

\* A handler that settled the delivery of job j and holds the row's lock
SettlesDelivery(v, j) ==
    /\ worker[v].job = j /\ worker[v].phase = "settling"
    /\ worker[v].outcome # "retry" /\ Locks(v)

\* Between the decision and the commit of a mark the endpoint is active, no
\* revocation is under way, and nobody can settle the delivery
GateShape ==
    \A w \in Workers : dispatch[w].step = "marking" =>
        /\ gate = w /\ active /\ ~revoking
        /\ IsOpen(worker[w].job)
        /\ \A v \in Workers : v # w => ~SettlesDelivery(v, worker[w].job)

\* The call of worker w has found its delivery open, or its run settles it
\* as delivered
Opened(w) ==
    \/ dispatch[w].step \notin {"none", "resolve", "finish"}
    \/ dispatch[w].step = "finish" /\ dispatch[w].outcome = "done"
    \/ worker[w].phase = "settling" /\ worker[w].outcome = "done"

\* Whoever still holds the row's lock finds the delivery as it was resolved
StillOpen == \A w \in Workers : Locks(w) /\ Opened(w) => IsOpen(worker[w].job)

\* A delivery is recorded with its job
Recorded == \A j \in Jobs : row[j].status = "absent" => delivery[j].status = "none"

\* A row's lock is taken by Lock alone, and a run that settles as its session
\* holds has just been finished or was settling before.
LEMMA LocksKept ==
    ASSUME DispatchIInv, OffBroker, NEW v \in Workers, Locks(v)'
    PROVE  \/ worker'[v] = worker[v] /\ Locks(v)
           \/ worker'[v].phase \notin {"handling", "settling"}
           \/ /\ Finish(v) /\ Locks(v) /\ worker'[v].job = worker[v].job
              /\ worker'[v].outcome = dispatch[v].outcome
           \/ StartDispatch(v)
  <1>1. /\ worker \in [Workers -> Worker] /\ locker \in [Jobs -> Workers \cup {None}]
        /\ \A w \in Workers : worker[w] \in Worker
    BY DEF DispatchIInv, IInv, TypeOK
  <1>2. ASSUME worker'[v] = worker[v],
               \A j \in Jobs : locker'[j] = v => locker[j] = v
        PROVE  worker'[v] = worker[v] /\ Locks(v)
    BY <1>2 DEF Locks
  <1>3. ASSUME NEW w \in Workers, NEW j \in Jobs, Unlocked(w)[j] = v
        PROVE  locker[j] = v
    BY <1>1, <1>3, QueueAssumption DEF Unlocked
  <1>4. CASE EndpointStep
    <2>1. UNCHANGED <<worker, locker>>
      BY <1>4 DEF EndpointStep, RevokeBegins, RevokeEnds, Republish, Admit,
                  AdmissionEnds, PurgeBody, RecordDelivery, Enqueue, vars
    <2> QED BY <1>2, <2>1
  <1>5. CASE \/ \E w \in Workers : SessionLost(w)
             \/ \E j \in Jobs :
                   \/ LeaseExpires(j) \/ BecomesDue(j) \/ MarkDone(j) \/ Sweep(j)
                   \/ Requeue(j)
    <2>1. /\ worker' = worker
          /\ locker' = locker \/ \E w \in Workers : locker' = Unlocked(w)
      BY <1>5 DEF SessionLost, LeaseExpires, BecomesDue, MarkDone, Sweep, Requeue
    <2> QED BY <1>2, <1>3, <2>1
  <1>6. ASSUME NEW w \in Workers, Lock(w)
        PROVE  \/ worker'[v] = worker[v] /\ Locks(v)
               \/ worker'[v].phase \notin {"handling", "settling"}
    <2>1. worker[w].job \in Jobs
      BY <1>6 DEF Lock, DispatchIInv, IInv, WorkerShape, Busy, Phase, InTransaction
    <2>2. CASE v = w
      BY <1>1, <1>6, <2>2 DEF Lock, Worker
    <2>3. CASE v # w
      <3>1. worker'[v] = worker[v]
        BY <1>1, <1>6, <2>3 DEF Lock
      <3>2. \A j \in Jobs : locker'[j] = v => locker[j] = v
        BY <1>1, <1>6, <2>1, <2>3 DEF Lock
      <3> QED BY <1>2, <3>1, <3>2
    <2> QED BY <2>2, <2>3
  <1>7. ASSUME NEW w \in Workers,
               \/ CommitFails(w) \/ SettleApart(w) \/ SettleApartFails(w)
               \/ Stop(w) \/ Start(w) \/ RunsStep(w)
        PROVE  locker' = locker \/ locker' = Unlocked(w)
    BY <1>7
       DEF CommitFails, SettleApart, SettleApartFails, Stop, Start, GoApart,
           RunsStep, ClaimDelivery, Claim, NotStarted, NoHandler, OpenFails,
           LoseClaim, AdmissionFails, Refuse, StartDispatch, StartHandler,
           Finish, HandlerReturns, FinishFails, HandlerThrows, CommitDelivery,
           Commit, CommitUnconfirmed, Committed, CrashDispatch, Crash
  <1>8. ASSUME NEW w \in Workers, locker' = locker \/ locker' = Unlocked(w),
               worker'[v] = worker[v]
        PROVE  worker'[v] = worker[v] /\ Locks(v)
    BY <1>2, <1>3, <1>8
  <1>9. ASSUME NEW w \in Workers,
               \/ CommitFails(w) \/ SettleApart(w) \/ SettleApartFails(w)
               \/ Stop(w) \/ Start(w)
        PROVE  \/ worker'[v] = worker[v] /\ Locks(v)
               \/ worker'[v].phase \notin {"handling", "settling"}
    <2>1. CASE v # w
      <3>1. worker'[v] = worker[v]
        BY <1>1, <1>9, <2>1 DEF CommitFails, SettleApart, SettleApartFails, Stop,
                                Start, GoApart
      <3> QED BY <1>7, <1>8, <1>9, <3>1
    <2>2. CASE v = w
      BY <1>1, <1>9, <2>2 DEF CommitFails, SettleApart, SettleApartFails, Stop, Start,
                              GoApart, IdleWorker, Worker
    <2> QED BY <2>1, <2>2
  <1>10. ASSUME NEW w \in Workers, RunsStep(w)
         PROVE  \/ worker'[v] = worker[v] /\ Locks(v)
                \/ worker'[v].phase \notin {"handling", "settling"}
                \/ /\ Finish(v) /\ Locks(v) /\ worker'[v].job = worker[v].job
                   /\ worker'[v].outcome = dispatch[v].outcome
                \/ StartDispatch(v)
    <2>1. CASE v # w
      <3>1. worker'[v] = worker[v]
        BY <1>1, <1>10, <2>1
           DEF RunsStep, ClaimDelivery, Claim, NotStarted, NoHandler, OpenFails,
               LoseClaim, AdmissionFails, Refuse, GoApart, StartDispatch, StartHandler,
               Finish, HandlerReturns, FinishFails, HandlerThrows, CommitDelivery,
               Commit, CommitUnconfirmed, CrashDispatch, Crash
      <3> QED BY <1>7, <1>8, <1>10, <3>1
    <2>2. CASE v = w
      <3>1. CASE NotStarted(w)
        BY <1>1, <2>2, <3>1 DEF NotStarted, NoHandler, OpenFails, LoseClaim,
               AdmissionFails, Refuse, GoApart, IdleWorker, Worker
      <3>2. CASE CommitDelivery(w)
        BY <1>1, <2>2, <3>2 DEF CommitDelivery, Commit, CommitUnconfirmed, IdleWorker,
                                Worker
      <3>3. CASE FinishFails(w) \/ CrashDispatch(w)
        BY <1>1, <2>2, <3>3 DEF FinishFails, HandlerThrows, GoApart, CrashDispatch,
                                Crash, IdleWorker, Worker
      <3>4. CASE Finish(w)
        <4>1. /\ worker'[v] = [worker[v] EXCEPT !.phase = "settling",
                                                !.outcome = dispatch[v].outcome]
              /\ UNCHANGED locker
          BY <1>1, <2>2, <3>4 DEF Finish, HandlerReturns
        <4>2. worker'[v].job = worker[v].job /\ worker'[v].outcome = dispatch[v].outcome
          BY <1>1, <4>1 DEF Worker
        <4>3. Locks(v)
          BY <4>1, <4>2 DEF Locks
        <4> QED BY <2>2, <3>4, <4>2, <4>3
      <3>5. ASSUME NEW close \in Jobs \cup {None}, NEW take \in Jobs \cup {None},
                   ClaimDelivery(w, close, take)
            PROVE  worker'[v].phase \notin {"handling", "settling"}
        <4>1. /\ worker[w].phase = "idle"
              /\ \/ worker' = worker
                 \/ \E t : worker' = [worker EXCEPT ![w] =
                                [phase |-> "claimed", job |-> take,
                                 token |-> t, outcome |-> None]]
          BY <3>5 DEF ClaimDelivery, Claim
        <4> QED BY <1>1, <2>2, <4>1
      <3> QED BY <1>10, <2>2, <3>1, <3>2, <3>3, <3>4, <3>5 DEF RunsStep
    <2> QED BY <2>1, <2>2
  <1> QED BY <1>4, <1>5, <1>6, <1>9, <1>10 DEF OffBroker, QueueStep

\* A job, once recorded, is never again a job that was not.
LEMMA NeverAbsentAgain ==
    ASSUME DispatchIInv, [InboundNext]_allVars, NEW j \in Jobs, row'[j].status = "absent"
    PROVE  row[j].status = "absent"
  <1>1. IInv /\ [Next]_vars
    BY InboundNextKeeps DEF DispatchIInv
  <1>2. row[j].status \in Status
    BY <1>1 DEF IInv, TypeOK, Row
  <1>3. NoEdge \/ \E i \in Jobs : Edge(i)
    BY <1>1, StepEdge
  <1>4. CASE NoEdge
    BY <1>4 DEF NoEdge
  <1>5. ASSUME NEW i \in Jobs, Edge(i) PROVE row[j].status = "absent"
    <2>1. CASE i = j
      BY <1>5, <2>1 DEF Edge, Stopped
    <2>2. CASE i # j
      BY <1>2, <1>5, <2>2 DEF Edge, LifecycleState, Status, Terminal, Stopped
    <2> QED BY <2>1, <2>2
  <1> QED BY <1>3, <1>4, <1>5

\* The commit of a run needs the row's lock.
LEMMA CommitLocks ==
    ASSUME NEW w \in Workers, CommitDelivery(w)
    PROVE  Locks(w) /\ worker[w].phase \in {"refusing", "settling"}
  BY DEF CommitDelivery, Commit, CommitUnconfirmed, Committed

\* How a step of the broker leaves the status of the deliveries.
LEMMA BrokerStatus ==
    ASSUME DispatchIInv, GateShape, NEW w \in Workers, Effect(w), NEW j \in Jobs
    PROVE  \/ delivery'[j].status = delivery[j].status
           \/ IsOpen(j) /\ delivery'[j].status \in OpenDelivery
  <1>1. delivery \in [Jobs -> Delivery] /\ delivery[j] \in Delivery
    BY DEF DispatchIInv, CallShape
  <1>2. CASE UNCHANGED delivery
    BY <1>2
  <1>3. CASE Pins(w) /\ delivery' # delivery
    <2>1. delivery'[j] \in {delivery[j], [delivery[j] EXCEPT !.pin = dispatch[w].contract]}
      BY <1>1, <1>3 DEF Pins
    <2> QED BY <1>1, <2>1 DEF Delivery
  <1>4. CASE Marks(w) \/ Unmarks(w)
    <2>1. PICK m : WritesMark(w, m)
      BY <1>4 DEF Marks, Unmarks
    <2>2. CASE j # worker[w].job
      BY <1>1, <2>1, <2>2 DEF WritesMark
    <2>3. CASE j = worker[w].job
      <3>1. delivery'[j] = [delivery[j] EXCEPT !.status = "dispatching", !.mark = m,
                                               !.attempt = dispatch[w].attempt]
        BY <1>1, <2>1, <2>3 DEF WritesMark
      <3>2. delivery'[j].status = "dispatching"
        BY <1>1, <3>1 DEF Delivery
      <3>3. IsOpen(j)
        BY <1>4, <2>3 DEF Marks, Unmarks, Moves, GateShape, Resolvable, IsOpen
      <3> QED BY <3>2, <3>3 DEF OpenDelivery
    <2> QED BY <2>2, <2>3
  <1> QED BY <1>2, <1>3, <1>4 DEF Effect, Ends, Looks, TakesGate, Sends, Bounces

\* Calls are made by running handlers.
LEMMA CallPhaseStep ==
    DispatchIInv /\ CallPhase /\ [InboundNext]_allVars => CallPhase'
  <1> SUFFICES ASSUME DispatchIInv, CallPhase, [InboundNext]_allVars PROVE CallPhase'
    OBVIOUS
  <1>1. CASE UNCHANGED allVars
    BY <1>1 DEF allVars, vars, inbound, CallPhase
  <1>2. ASSUME NEW w \in Workers, BrokerStep(w) PROVE CallPhase'
    <2>1. Effect(w)
      BY <1>2, BrokerEffect
    <2>2. worker' = worker /\ worker[w].phase = "handling"
          /\ \A v \in Workers : v # w => dispatch'[v] = dispatch[v]
      BY <2>1 DEF Effect, vars
    <2> QED BY <2>2 DEF CallPhase
  <1>3. CASE OffBroker
    <2>1. CallsKept
      BY <1>3, CallsKeptStep
    <2>2. ASSUME NEW v \in Workers, StartDispatch(v) PROVE worker'[v].phase = "handling"
      BY <2>2 DEF StartDispatch, StartHandler, DispatchIInv, IInv, TypeOK, Worker
    <2> QED BY <2>1, <2>2 DEF CallsKept, CallPhase
  <1> QED BY <1>1, <1>2, <1>3 DEF InboundNext, HandlerStep, OffBroker, RunsStep

\* The gate makes the decision and the commit of a mark one step.
LEMMA GateStep ==
    DispatchIInv /\ CallPhase /\ GateShape /\ [InboundNext]_allVars => GateShape'
  <1> SUFFICES ASSUME DispatchIInv, CallPhase, GateShape, [InboundNext]_allVars,
                      NEW u \in Workers, dispatch'[u].step = "marking"
               PROVE  /\ gate' = u /\ active' /\ ~revoking'
                      /\ IsOpen(worker[u].job)'
                      /\ \A v \in Workers : v # u => ~SettlesDelivery(v, worker[u].job)'
    BY DEF GateShape
  <1>1. CASE UNCHANGED allVars
    BY <1>1 DEF allVars, vars, inbound, GateShape, IsOpen, SettlesDelivery, Locks
  <1>2. ASSUME NEW w \in Workers, BrokerStep(w)
        PROVE  /\ gate' = u /\ active' /\ ~revoking'
               /\ IsOpen(worker[u].job)'
               /\ \A v \in Workers : v # u => ~SettlesDelivery(v, worker[u].job)'
    <2>1. Effect(w) /\ UNCHANGED <<row, worker, locker, active, revoking>>
      BY <1>2, BrokerEffect DEF Effect, vars
    <2>2. CASE u = w
      <3>1. TakesGate(w) /\ worker[w].job \in Jobs
        BY <2>1, <2>2 DEF Effect, Ends, Looks, Pins, Marks, Sends, Bounces, Unmarks, Moves
      <3>2. /\ gate' = u /\ active /\ ~revoking /\ IsOpen(worker[u].job)
            /\ UNCHANGED delivery
        BY <2>2, <3>1 DEF TakesGate, GateFree, Resolvable, ClaimLive, IsOpen
      <3>3. \A v \in Workers : v # u => ~SettlesDelivery(v, worker[u].job)
        BY <2>2, <3>1 DEF TakesGate, DeliveryFree, SettlesDelivery
      <3> QED BY <2>1, <3>2, <3>3 DEF IsOpen, SettlesDelivery, Locks
    <2>3. CASE u # w
      <3>1. dispatch[u].step = "marking"
        BY <2>1, <2>3 DEF Effect
      <3>2. /\ gate = u /\ active /\ ~revoking /\ IsOpen(worker[u].job)
            /\ \A v \in Workers : v # u => ~SettlesDelivery(v, worker[u].job)
        BY <3>1 DEF GateShape
      <3>3. gate' = u
        <4>1. ~TakesGate(w)
          BY <3>2, QueueAssumption DEF TakesGate, GateFree
        <4>2. ~Marks(w)
          BY <2>3, <3>2 DEF Marks, Moves, GateShape
        <4> QED BY <2>1, <2>3, <3>2, <4>1, <4>2
                DEF Effect, Ends, Looks, Pins, Sends, Bounces, Unmarks
      <3>4. worker[u].job \in Jobs
        <4>1. worker[u].phase = "handling"
          BY <3>1 DEF CallPhase
        <4> QED BY <4>1 DEF DispatchIInv, IInv, WorkerShape, Busy, Phase, InTransaction
      <3>5. delivery'[worker[u].job].status \in OpenDelivery
        BY <2>1, <3>2, <3>4, BrokerStatus DEF IsOpen
      <3> QED BY <2>1, <3>2, <3>3, <3>5 DEF IsOpen, SettlesDelivery, Locks
    <2> QED BY <2>2, <2>3
  <1>3. CASE OffBroker
    <2>1. CallsKept /\ DeliveriesKept
      BY <1>3, CallsKeptStep, DeliveriesKeptStep
    <2>2. dispatch'[u] = dispatch[u] /\ worker'[u] = worker[u]
      BY <2>1 DEF CallsKept
    <2>3. /\ gate = u /\ active /\ ~revoking /\ IsOpen(worker[u].job)
          /\ \A v \in Workers : v # u => ~SettlesDelivery(v, worker[u].job)
      BY <2>2 DEF GateShape
    <2>4. worker[u].phase = "handling" /\ worker[u].job \in Jobs
      <3>1. worker[u].phase = "handling"
        BY <2>2 DEF CallPhase
      <3> QED BY <3>1 DEF DispatchIInv, IInv, WorkerShape, Busy, Phase, InTransaction
    <2>5. gate' = u
      <3>1. gate' = gate \/ \E w \in Workers : CrashDispatch(w) /\ gate = w
        BY <1>3 DEF OffBroker, QueueStep, inbound, EndpointStep, RevokeBegins,
               RevokeEnds, Republish, Admit, AdmissionEnds, PurgeBody, RecordDelivery,
               RunsStep, ClaimDelivery, NotStarted, StartDispatch, Finish, FinishFails,
               CommitDelivery, CrashDispatch
      <3>2. ~CrashDispatch(u)
        <4>1. CrashDispatch(u) => dispatch'[u] = NoDispatch
          BY DEF CrashDispatch, DispatchIInv, CallShape, CallsWellFormed
        <4> QED BY <4>1 DEF NoDispatch
      <3> QED BY <2>3, <3>1, <3>2
    <2>6. active' = active /\ revoking' = revoking
      <3>1. ~RevokeBegins /\ \A c \in BOOLEAN : ~RevokeEnds(c)
        BY <2>3, QueueAssumption DEF RevokeBegins, RevokeEnds
      <3> QED BY <1>3, <3>1 DEF OffBroker, QueueStep, inbound, EndpointStep,
               Republish, Admit, AdmissionEnds, PurgeBody, RecordDelivery,
               RunsStep, ClaimDelivery, NotStarted, StartDispatch, Finish, FinishFails,
               CommitDelivery, CrashDispatch
    <2>7. delivery'[worker[u].job].status \in OpenDelivery
      <3>1. ASSUME NEW w \in Workers, CommitDelivery(w), worker[w].job = worker[u].job,
                   worker[w].phase = "settling", worker[w].outcome # "retry"
            PROVE  FALSE
        <4>1. Locks(w) /\ w # u
          BY <2>4, <3>1, CommitLocks
        <4> QED BY <2>3, <3>1, <4>1 DEF SettlesDelivery
      <3> QED BY <2>1, <2>3, <2>4, <3>1 DEF DeliveriesKept, IsOpen, OpenDelivery
    <2>8. ASSUME NEW v \in Workers, v # u, worker'[v].job = worker[u].job,
                 worker'[v].phase = "settling", worker'[v].outcome # "retry", Locks(v)'
          PROVE  FALSE
      <3>1. CASE worker'[v] = worker[v] /\ Locks(v)
        BY <2>3, <2>8, <3>1 DEF SettlesDelivery
      <3>2. CASE /\ Finish(v) /\ Locks(v) /\ worker'[v].job = worker[v].job
                 /\ worker'[v].outcome = dispatch[v].outcome
        <4>1. DeliveryFree(v)
          BY <2>8, <3>2 DEF Finish
        <4> QED BY <2>2, <2>8, <3>2, <4>1 DEF DeliveryFree
      <3>3. CASE StartDispatch(v)
        BY <2>8, <3>3 DEF StartDispatch, StartHandler, DispatchIInv, IInv, TypeOK, Worker
      <3> QED BY <1>3, <2>8, <3>1, <3>2, <3>3, LocksKept
    <2> QED BY <2>2, <2>3, <2>5, <2>6, <2>7, <2>8 DEF IsOpen, SettlesDelivery
  <1> QED BY <1>1, <1>2, <1>3 DEF InboundNext, HandlerStep, OffBroker, RunsStep

\* Two workers that hold the lock of one row are one.
LEMMA OneLocker ==
    ASSUME NEW v \in Workers, NEW w \in Workers, Locks(v), Locks(w),
           worker[v].job = worker[w].job
    PROVE  v = w
  BY DEF Locks

\* A delivery stays open under the lock of the run that found it open.
LEMMA StillOpenStep ==
    /\ DispatchIInv /\ CallPhase /\ GateShape /\ StillOpen
    /\ [InboundNext]_allVars
    => StillOpen'
  <1> SUFFICES ASSUME DispatchIInv, CallPhase, GateShape, StillOpen,
                      [InboundNext]_allVars, NEW u \in Workers, Locks(u)', Opened(u)'
               PROVE  delivery'[worker'[u].job].status \in OpenDelivery
    BY DEF StillOpen, IsOpen
  <1>1. CASE UNCHANGED allVars
    BY <1>1 DEF allVars, vars, inbound, StillOpen, Opened, IsOpen, Locks
  <1>2. ASSUME NEW w \in Workers, BrokerStep(w)
        PROVE  delivery'[worker'[u].job].status \in OpenDelivery
    <2>1. Effect(w) /\ UNCHANGED <<row, worker, locker>>
      BY <1>2, BrokerEffect DEF Effect, vars
    <2>2. Locks(u) /\ worker[u].job \in Jobs
      BY <2>1 DEF Locks
    <2>3. ASSUME IsOpen(worker[u].job)
          PROVE  delivery'[worker'[u].job].status \in OpenDelivery
      BY <2>1, <2>2, <2>3, BrokerStatus DEF IsOpen
    <2>4. CASE u # w
      <3>1. dispatch'[u] = dispatch[u]
        BY <2>1, <2>4 DEF Effect
      <3>2. Opened(u)
        BY <2>1, <3>1 DEF Opened
      <3> QED BY <2>2, <2>3, <3>2 DEF StillOpen
    <2>5. CASE u = w
      <3>1. worker[w].phase = "handling"
        BY <2>1 DEF Effect
      <3>2. \/ dispatch'[w].step \notin {"none", "resolve", "finish"}
            \/ dispatch'[w].step = "finish" /\ dispatch'[w].outcome = "done"
        BY <2>1, <2>5, <3>1 DEF Opened
      <3>3. \/ dispatch[w].step = "resolve" /\ Resolvable(w)
            \/ dispatch[w].step \notin {"none", "resolve", "finish"}
        BY <2>1, <3>2 DEF Effect, Ends, Looks, Pins, TakesGate, Marks, Sends, Bounces,
                          Unmarks, Moves
      <3>4. Opened(w) \/ Resolvable(w)
        BY <3>3 DEF Opened
      <3> QED BY <2>2, <2>3, <2>5, <3>4 DEF StillOpen, Resolvable, IsOpen
    <2> QED BY <2>4, <2>5
  <1>3. CASE OffBroker
    <2>1. CallsKept /\ DeliveriesKept
      BY <1>3, CallsKeptStep, DeliveriesKeptStep
    <2>2. Locks(u) /\ Opened(u) /\ worker'[u].job = worker[u].job
          /\ ~CommitDelivery(u)
      <3>1. ~StartDispatch(u)
        <4>1. StartDispatch(u) => worker'[u].phase = "handling"
          BY DEF StartDispatch, StartHandler, DispatchIInv, IInv, TypeOK, Worker
        <4>2. StartDispatch(u) => dispatch'[u].step = "resolve"
          BY CallMoves DEF StartDispatch, DispatchIInv
        <4> QED BY <4>1, <4>2 DEF Opened
      <3>2. CASE dispatch'[u].step # "none"
        <4>1. dispatch'[u] = dispatch[u] /\ worker'[u] = worker[u]
          BY <2>1, <3>1, <3>2 DEF CallsKept
        <4>2. worker[u].phase = "handling"
          BY <3>2, <4>1 DEF CallPhase
        <4>3. Locks(u) \/ Finish(u)
          BY <1>3, <3>1, <4>1, <4>2, LocksKept
        <4>4. ~Finish(u) /\ ~CommitDelivery(u)
          <5>1. Finish(u) => worker'[u].phase = "settling"
            BY DEF Finish, HandlerReturns, DispatchIInv, IInv, TypeOK, Worker
          <5> QED BY <4>1, <4>2, <5>1, CommitLocks
        <4> QED BY <4>1, <4>3, <4>4 DEF Opened
      <3>3. CASE dispatch'[u].step = "none"
        <4>1. worker'[u].phase = "settling" /\ worker'[u].outcome = "done"
          BY <3>3 DEF Opened
        <4>2. ~CommitDelivery(u)
          BY <4>1 DEF CommitDelivery, Commit, CommitUnconfirmed, IdleWorker, DispatchIInv,
                      IInv, TypeOK, Worker
        <4>3. CASE worker'[u] = worker[u] /\ Locks(u)
          BY <4>1, <4>2, <4>3 DEF Opened
        <4>4. CASE /\ Finish(u) /\ Locks(u) /\ worker'[u].job = worker[u].job
                   /\ worker'[u].outcome = dispatch[u].outcome
          BY <4>1, <4>2, <4>4 DEF Opened, Finish
        <4> QED BY <1>3, <3>1, <4>1, <4>3, <4>4, LocksKept
      <3> QED BY <3>2, <3>3
    <2>3. IsOpen(worker[u].job) /\ worker[u].job \in Jobs
      BY <2>2 DEF StillOpen, Locks
    <2>4. ASSUME NEW w \in Workers, CommitDelivery(w), worker[w].job = worker[u].job
          PROVE  FALSE
      <3>1. Locks(w)
        BY <2>4, CommitLocks
      <3> QED BY <2>2, <2>4, <3>1, OneLocker
    <2> QED BY <2>1, <2>2, <2>3, <2>4 DEF DeliveriesKept, IsOpen, OpenDelivery
  <1> QED BY <1>1, <1>2, <1>3 DEF InboundNext, HandlerStep, OffBroker, RunsStep

\* A delivery is recorded with its job, and only with it.
LEMMA RecordedStep ==
    /\ DispatchIInv /\ GateShape /\ Recorded /\ [InboundNext]_allVars
    => Recorded'
  <1> SUFFICES ASSUME DispatchIInv, GateShape, Recorded, [InboundNext]_allVars,
                      NEW j \in Jobs, row'[j].status = "absent"
               PROVE  delivery'[j].status = "none"
    BY DEF Recorded
  <1>1. row[j].status = "absent" /\ delivery[j].status = "none"
    BY NeverAbsentAgain DEF Recorded
  <1>2. ~IsOpen(j)
    BY <1>1 DEF IsOpen, OpenDelivery
  <1>3. CASE UNCHANGED allVars
    BY <1>1, <1>3 DEF allVars, inbound
  <1>4. ASSUME NEW w \in Workers, BrokerStep(w) PROVE delivery'[j].status = "none"
    BY <1>1, <1>2, <1>4, BrokerEffect, BrokerStatus
  <1>5. CASE OffBroker
    BY <1>1, <1>2, <1>5, DeliveriesKeptStep DEF DeliveriesKept, IsOpen
  <1> QED BY <1>3, <1>4, <1>5 DEF InboundNext, HandlerStep, OffBroker, RunsStep

\* The invariants of this section together
SettleIInv == /\ DispatchIInv /\ CallPhase /\ GateShape /\ StillOpen /\ Recorded

\* They hold in every reachable state.
THEOREM SettleInductive == InboundSpec => []SettleIInv
  <1>1. InboundInit => SettleIInv
    <2> SUFFICES ASSUME InboundInit PROVE SettleIInv
      OBVIOUS
    <2>1. DispatchIInv
      <3>1. Init /\ IInv
        BY InitIInv DEF InboundInit
      <3>2. NoDelivery \in Delivery /\ NoDispatch \in Dispatch
            /\ NoDispatch.step = "none"
        BY DEF NoDelivery, Delivery, NoDispatch, Dispatch, Step
      <3> QED BY <3>1, <3>2 DEF InboundInit, CallShape, CallsWellFormed, DispatchIInv
    <2>2. \A w \in Workers : dispatch[w].step = "none" /\ worker[w].phase = "idle"
      BY DEF InboundInit, Init, NoDispatch, IdleWorker
    <2>3. \A j \in Jobs : delivery[j].status = "none"
      BY DEF InboundInit, NoDelivery
    <2> QED BY <2>1, <2>2, <2>3
            DEF SettleIInv, CallPhase, GateShape, StillOpen, Opened, Recorded
  <1>2. SettleIInv /\ [InboundNext]_allVars => SettleIInv'
    BY InboundNextKeeps, CallPhaseStep, GateStep, StillOpenStep, RecordedStep
       DEF SettleIInv
  <1> QED BY <1>1, <1>2, PTL DEF InboundSpec

\* The commit of a run is the only step that counts one, and it counts its own.
LEMMA AppliedKept ==
    ASSUME DispatchIInv, [InboundNext]_allVars,
           \A w \in Workers : ~CommitDelivery(w)
    PROVE  applied' = applied
  <1>1. CASE UNCHANGED allVars
    BY <1>1 DEF allVars, vars
  <1>2. ASSUME NEW w \in Workers, BrokerStep(w) PROVE applied' = applied
    BY <1>2, BrokerEffect DEF Effect, vars
  <1>3. CASE QueueStep
    BY <1>3 DEF QueueStep, Lock, CommitFails, SettleApart, SettleApartFails,
           SessionLost, Stop, Start, LeaseExpires, BecomesDue, MarkDone, Sweep, Requeue,
           GoApart
  <1>4. CASE EndpointStep
    BY <1>4 DEF EndpointStep, RevokeBegins, RevokeEnds, Republish, Admit,
           AdmissionEnds, PurgeBody, RecordDelivery, Enqueue, vars
  <1>5. ASSUME NEW w \in Workers, RunsStep(w) PROVE applied' = applied
    BY <1>5 DEF RunsStep, ClaimDelivery, Claim, NotStarted, NoHandler, OpenFails,
           LoseClaim, AdmissionFails, Refuse, GoApart, StartDispatch, StartHandler,
           Finish, HandlerReturns, FinishFails, HandlerThrows, CrashDispatch, Crash
  <1> QED BY <1>1, <1>2, <1>3, <1>4, <1>5 DEF InboundNext, HandlerStep, RunsStep

\* A delivery becomes delivered with the run that is counted, in one commit.
LEMMA DeliveredStep ==
    /\ SettleIInv /\ AppliedAtMostOnce /\ DeliveredWithJob
    /\ [InboundNext]_allVars
    => DeliveredWithJob'
  <1> SUFFICES ASSUME SettleIInv, AppliedAtMostOnce, DeliveredWithJob,
                      [InboundNext]_allVars, NEW j \in Jobs
               PROVE  delivery'[j].status = "delivered" <=> applied'[j] = 1
    BY DEF DeliveredWithJob
  <1>0. /\ DispatchIInv /\ CallPhase /\ GateShape /\ StillOpen /\ Recorded
        /\ IInv /\ applied \in [Jobs -> Nat]
    BY DEF SettleIInv, DispatchIInv, IInv, TypeOK
  <1>1. ASSUME NEW w \in Workers, CommitDelivery(w)
        PROVE  delivery'[j].status = "delivered" <=> applied'[j] = 1
    <2> DEFINE i == worker[w].job
    <2>1. Locks(w) /\ worker[w].phase \in {"refusing", "settling"} /\ i \in Jobs
      BY <1>1, CommitLocks DEF Locks
    <2>2. /\ worker[w].phase = "settling" => worker[w].outcome \in HandlerOutcome
          /\ worker[w].phase = "refusing" => worker[w].outcome \in Refusal
      BY <1>0 DEF IInv, WorkerShape
    <2>3. worker[w].outcome = "done" => worker[w].phase = "settling"
      BY <2>1, <2>2 DEF Refusal
    <2>4. applied' = IF worker[w].outcome = "done"
                     THEN [applied EXCEPT ![i] = @ + 1] ELSE applied
      BY <1>1 DEF CommitDelivery, Commit, CommitUnconfirmed, Committed
    <2>5. /\ j # i => delivery'[j] = delivery[j]
          /\ worker[w].phase = "settling" /\ worker[w].outcome # "retry" =>
                delivery'[i] = SettledDelivery(delivery[i], worker[w].outcome)
          /\ ~(worker[w].phase = "settling" /\ worker[w].outcome # "retry") =>
                delivery' = delivery
      BY <1>0, <1>1, <2>1 DEF CommitDelivery, DispatchIInv, CallShape
    <2>6. \A o : /\ delivery[i].status \in OpenDelivery =>
                       SettledDelivery(delivery[i], o).status
                         = IF o = "done" THEN "delivered" ELSE o
                 /\ delivery[i].status \notin OpenDelivery =>
                       SettledDelivery(delivery[i], o) = delivery[i]
      BY <1>0, <2>1 DEF SettledDelivery, DispatchIInv, CallShape, Delivery
    <2>7. worker[w].outcome = "done" => delivery[i].status \in OpenDelivery
      BY <1>0, <2>1, <2>3 DEF StillOpen, Opened, IsOpen
    <2> HIDE DEF i
    <2>8. CASE j # i
      BY <1>0, <2>1, <2>4, <2>5, <2>8 DEF DeliveredWithJob
    <2>9. CASE j = i /\ worker[w].outcome = "done"
      <3>1. delivery'[j].status = "delivered"
        BY <2>3, <2>5, <2>6, <2>7, <2>9
      <3>2. applied[j] # 1 /\ applied[j] \in Nat /\ applied[j] <= 1
        BY <1>0, <2>7, <2>9 DEF DeliveredWithJob, OpenDelivery, AppliedAtMostOnce
      <3>3. applied'[j] = applied[j] + 1
        BY <1>0, <2>4, <2>9
      <3> QED BY <3>1, <3>2, <3>3
    <2>10. CASE j = i /\ worker[w].outcome # "done"
      <3>1. applied' = applied
        BY <2>4, <2>10
      <3>2. \/ delivery'[j].status = delivery[j].status
            \/ /\ delivery[j].status \in OpenDelivery
               /\ delivery'[j].status = worker[w].outcome
               /\ worker[w].phase = "settling"
        BY <2>5, <2>6, <2>10
      <3>3. worker[w].phase = "settling" => worker[w].outcome # "delivered"
        BY <2>2 DEF HandlerOutcome
      <3> QED BY <3>1, <3>2, <3>3 DEF DeliveredWithJob, OpenDelivery
    <2> QED BY <2>8, <2>9, <2>10
  <1>2. ASSUME \A w \in Workers : ~CommitDelivery(w)
        PROVE  delivery'[j].status = "delivered" <=> applied'[j] = 1
    <2>1. applied' = applied
      BY <1>0, <1>2, AppliedKept
    <2>2. \/ delivery'[j].status = delivery[j].status
          \/ /\ delivery[j].status \in {"none"} \cup OpenDelivery
             /\ delivery'[j].status \in OpenDelivery
      <3>1. CASE UNCHANGED allVars
        BY <3>1 DEF allVars, inbound
      <3>2. ASSUME NEW w \in Workers, BrokerStep(w)
            PROVE  \/ delivery'[j].status = delivery[j].status
                   \/ IsOpen(j) /\ delivery'[j].status \in OpenDelivery
        BY <1>0, <3>2, BrokerEffect, BrokerStatus
      <3>3. CASE OffBroker
        <4>1. DeliveriesKept
          BY <1>0, <3>3, DeliveriesKeptStep
        <4>2. row[j].status = "absent" => delivery[j].status = "none"
          BY <1>0 DEF Recorded
        <4> QED BY <1>2, <4>1, <4>2 DEF DeliveriesKept, OpenDelivery
      <3> QED BY <3>1, <3>2, <3>3 DEF InboundNext, HandlerStep, OffBroker, RunsStep, IsOpen
    <2> QED BY <2>1, <2>2 DEF DeliveredWithJob, OpenDelivery
  <1> QED BY <1>1, <1>2

\* The delivery and its job tell the same story in every reachable state: the
\* delivery is delivered exactly when a run of its job has committed as done.
THEOREM DeliveredWithItsJob == InboundSpec => []DeliveredWithJob
  <1>1. InboundInit => DeliveredWithJob
    <2> SUFFICES ASSUME InboundInit PROVE DeliveredWithJob
      OBVIOUS
    <2>1. \A j \in Jobs : delivery[j].status = "none" /\ applied[j] = 0
      BY DEF InboundInit, NoDelivery, Init
    <2> QED BY <2>1 DEF DeliveredWithJob
  <1> QED BY <1>1, SettleInductive, DeliveryAppliedOnce, DeliveredStep, PTL
          DEF InboundSpec

-----------------------------------------------------------------------------
(* The receipts                                                            *)

\* What a receipt shows of the delivery of job j, before and after the step
SameReceipt(j) ==
    /\ ReceiptState(delivery'[j]) = ReceiptState(delivery[j])
    /\ delivery'[j].mark = delivery[j].mark
    /\ delivery'[j].attempt = delivery[j].attempt
    /\ delivery'[j].body = delivery[j].body

\* A step that no receipt shows is no step of the receipts.
LEMMA NoReceipt ==
    ASSUME \A j \in Jobs : SameReceipt(j), UNCHANGED active
    PROVE  UNCHANGED Receipts!vars
  <1>1. /\ [j \in Jobs |-> ReceiptState(delivery'[j])]
              = [j \in Jobs |-> ReceiptState(delivery[j])]
        /\ [j \in Jobs |-> <<delivery'[j].mark, delivery'[j].attempt>>]
              = [j \in Jobs |-> <<delivery[j].mark, delivery[j].attempt>>]
        /\ [j \in Jobs |-> delivery'[j].body] = [j \in Jobs |-> delivery[j].body]
    BY DEF SameReceipt
  <1> QED BY <1>1 DEF Receipts!vars, ReceiptState

\* Recording, deciding, settling and purging one delivery, as a receipt shows
\* them.
LEMMA OneReceipt ==
    ASSUME NEW j \in Jobs, \A i \in Jobs : i # j => SameReceipt(i), UNCHANGED active,
           \/ /\ ReceiptState(delivery[j]) = "none"
              /\ ReceiptState(delivery'[j]) = "open"
              /\ delivery'[j].mark = delivery[j].mark
              /\ delivery'[j].attempt = delivery[j].attempt
              /\ delivery'[j].body = delivery[j].body
           \/ /\ ReceiptState(delivery[j]) = "open"
              /\ ReceiptState(delivery'[j]) \in Settlements
              /\ delivery'[j].mark = delivery[j].mark
              /\ delivery'[j].attempt = delivery[j].attempt
              /\ delivery'[j].body = delivery[j].body
           \/ /\ ReceiptState(delivery[j]) = "open"
              /\ ReceiptState(delivery'[j]) = "open"
              /\ active
              /\ delivery'[j].mark # "none"
              /\ delivery'[j].body = delivery[j].body
           \/ /\ ReceiptState(delivery[j]) \in Settlements
              /\ ReceiptState(delivery'[j]) = ReceiptState(delivery[j])
              /\ delivery'[j].mark = delivery[j].mark
              /\ delivery'[j].attempt = delivery[j].attempt
              /\ delivery'[j].body = "purged"
    PROVE  Receipts!Next
  <1> DEFINE st == [i \in Jobs |-> ReceiptState(delivery[i])]
             mk == [i \in Jobs |-> <<delivery[i].mark, delivery[i].attempt>>]
             bd == [i \in Jobs |-> delivery[i].body]
  <1>1. /\ st[j] = ReceiptState(delivery[j])
        /\ st' = [st EXCEPT ![j] = ReceiptState(delivery'[j])]
    <2>1. st' = [i \in Jobs |-> ReceiptState(delivery'[i])]
      BY DEF ReceiptState
    <2> QED BY <2>1 DEF SameReceipt
  <1>2. /\ mk'[j] = <<delivery'[j].mark, delivery'[j].attempt>>
        /\ \A i \in Jobs : i # j => mk'[i] = mk[i]
        /\ delivery'[j].mark = delivery[j].mark
             /\ delivery'[j].attempt = delivery[j].attempt => mk' = mk
    BY DEF SameReceipt
  <1>3. bd' = [bd EXCEPT ![j] = delivery'[j].body]
    BY DEF SameReceipt
  <1>4. /\ ReceiptState(delivery'[j]) = ReceiptState(delivery[j]) => st' = st
        /\ delivery'[j].body = delivery[j].body => bd' = bd
    BY <1>1, <1>3
  <1>5. delivery'[j].mark # "none" => mk'[j] # <<"none", 0>>
    BY <1>2
  <1> HIDE DEF st, mk, bd
  <1>6. \/ Receipts!Receive(j) \/ Receipts!Decide(j) \/ Receipts!Purge(j)
        \/ \E s \in Settlements : Receipts!Settle(j, s)
    <2>1. CASE /\ ReceiptState(delivery[j]) = "none"
               /\ ReceiptState(delivery'[j]) = "open"
               /\ delivery'[j].mark = delivery[j].mark
               /\ delivery'[j].attempt = delivery[j].attempt
               /\ delivery'[j].body = delivery[j].body
      BY <1>1, <1>2, <1>4, <2>1 DEF st, mk, bd, Receipts!Receive
    <2>2. CASE /\ ReceiptState(delivery[j]) = "open"
               /\ ReceiptState(delivery'[j]) \in Settlements
               /\ delivery'[j].mark = delivery[j].mark
               /\ delivery'[j].attempt = delivery[j].attempt
               /\ delivery'[j].body = delivery[j].body
      BY <1>1, <1>2, <1>4, <2>2 DEF st, mk, bd, Receipts!Settle
    <2>3. CASE /\ ReceiptState(delivery[j]) = "open"
               /\ ReceiptState(delivery'[j]) = "open"
               /\ active
               /\ delivery'[j].mark # "none"
               /\ delivery'[j].body = delivery[j].body
      BY <1>1, <1>2, <1>4, <1>5, <2>3 DEF st, mk, bd, Receipts!Decide
    <2>4. CASE /\ ReceiptState(delivery[j]) \in Settlements
               /\ ReceiptState(delivery'[j]) = ReceiptState(delivery[j])
               /\ delivery'[j].mark = delivery[j].mark
               /\ delivery'[j].attempt = delivery[j].attempt
               /\ delivery'[j].body = "purged"
      BY <1>1, <1>2, <1>3, <1>4, <2>4 DEF st, mk, bd, Receipts!Purge
    <2> QED BY <2>1, <2>2, <2>3, <2>4
  <1> QED BY <1>6 DEF Receipts!Next

\* Every step of the dispatch is a step of the receipts or none.
LEMMA ReceiptsStep ==
    SettleIInv /\ active \in BOOLEAN /\ [InboundNext]_allVars =>
        (Receipts!Next \/ UNCHANGED Receipts!vars) /\ active' \in BOOLEAN
  <1> SUFFICES ASSUME SettleIInv, active \in BOOLEAN, [InboundNext]_allVars
               PROVE  (Receipts!Next \/ UNCHANGED Receipts!vars) /\ active' \in BOOLEAN
    OBVIOUS
  <1>0. /\ DispatchIInv /\ GateShape /\ StillOpen /\ Recorded /\ IInv
        /\ delivery \in [Jobs -> Delivery]
        /\ \A j \in Jobs : delivery[j] \in Delivery
    BY DEF SettleIInv, DispatchIInv, CallShape
  <1>1. ASSUME UNCHANGED <<delivery, active>>
        PROVE  (Receipts!Next \/ UNCHANGED Receipts!vars) /\ active' \in BOOLEAN
    BY <1>1, NoReceipt DEF SameReceipt
  <1>2. ASSUME NEW w \in Workers, BrokerStep(w)
        PROVE  (Receipts!Next \/ UNCHANGED Receipts!vars) /\ active' \in BOOLEAN
    <2>1. Effect(w) /\ UNCHANGED active /\ worker[w].job \in Jobs
      BY <1>0, <1>2, BrokerEffect DEF Effect
    <2>2. CASE UNCHANGED delivery
      BY <1>1, <2>1, <2>2
    <2>3. CASE Pins(w) /\ delivery' # delivery
      <3>1. ASSUME NEW j \in Jobs PROVE SameReceipt(j)
        <4>1. delivery'[j] \in
                {delivery[j], [delivery[j] EXCEPT !.pin = dispatch[w].contract]}
          BY <1>0, <2>3 DEF Pins
        <4>2. /\ delivery'[j].status = delivery[j].status
              /\ delivery'[j].mark = delivery[j].mark
              /\ delivery'[j].attempt = delivery[j].attempt
              /\ delivery'[j].body = delivery[j].body
          BY <1>0, <4>1 DEF Delivery
        <4> QED BY <4>2 DEF SameReceipt, ReceiptState
      <3> QED BY <2>1, <3>1, NoReceipt
    <2>4. CASE Marks(w) \/ Unmarks(w)
      <3> DEFINE j == worker[w].job
      <3>1. IsOpen(j) /\ active
        BY <1>0, <2>4 DEF Marks, Unmarks, Moves, GateShape, Resolvable, ClaimLive, IsOpen
      <3>2. PICK m \in {"started", "not-dispatched"} : WritesMark(w, m)
        BY <2>4 DEF Marks, Unmarks
      <3>3. /\ delivery'[j] = [delivery[j] EXCEPT !.status = "dispatching", !.mark = m,
                                                  !.attempt = dispatch[w].attempt]
            /\ \A i \in Jobs : i # j => delivery'[i] = delivery[i]
        BY <1>0, <2>1, <3>2 DEF WritesMark
      <3>4. /\ delivery'[j].status = "dispatching" /\ delivery'[j].mark = m
            /\ delivery'[j].body = delivery[j].body
        BY <1>0, <2>1, <3>3 DEF Delivery
      <3>5. ReceiptState(delivery[j]) = "open" /\ ReceiptState(delivery'[j]) = "open"
        BY <3>1, <3>4 DEF ReceiptState, IsOpen, OpenDelivery
      <3>6. \A i \in Jobs : i # j => SameReceipt(i)
        BY <3>3 DEF SameReceipt
      <3> HIDE DEF j
      <3>7. j \in Jobs /\ delivery'[j].mark # "none"
        BY <2>1, <3>4 DEF j
      <3> QED BY <2>1, <3>1, <3>4, <3>5, <3>6, <3>7, OneReceipt
    <2> QED BY <2>1, <2>2, <2>3, <2>4 DEF Effect, Ends, Looks, TakesGate, Sends, Bounces
  <1>3. ASSUME NEW c \in BOOLEAN, RevokeEnds(c)
        PROVE  (Receipts!Next \/ UNCHANGED Receipts!vars) /\ active' \in BOOLEAN
    <2>1. delivery' = delivery /\ active' = (active /\ ~c)
      BY <1>3 DEF RevokeEnds
    <2>2. CASE active' = active
      BY <1>1, <2>1, <2>2
    <2>3. CASE active' # active
      <3>1. active /\ active' = FALSE
        BY <2>1, <2>3
      <3>2. Receipts!Revoke
        BY <2>1, <3>1 DEF Receipts!Revoke, ReceiptState
      <3> QED BY <3>1, <3>2 DEF Receipts!Next
    <2> QED BY <2>2, <2>3
  <1>4. ASSUME NEW j \in Jobs, PurgeBody(j)
        PROVE  (Receipts!Next \/ UNCHANGED Receipts!vars) /\ active' \in BOOLEAN
    <2>1. /\ delivery'[j] = [delivery[j] EXCEPT !.body = "purged"]
          /\ \A i \in Jobs : i # j => delivery'[i] = delivery[i]
          /\ UNCHANGED active /\ delivery[j].status \in Settlements
      BY <1>0, <1>4 DEF PurgeBody
    <2>2. /\ delivery'[j].status = delivery[j].status
          /\ delivery'[j].mark = delivery[j].mark
          /\ delivery'[j].attempt = delivery[j].attempt
          /\ delivery'[j].body = "purged"
      BY <1>0, <2>1 DEF Delivery
    <2>3. /\ ReceiptState(delivery[j]) \in Settlements
          /\ ReceiptState(delivery'[j]) = ReceiptState(delivery[j])
      BY <2>1, <2>2 DEF ReceiptState, OpenDelivery, Settlements
    <2>4. \A i \in Jobs : i # j => SameReceipt(i)
      BY <2>1 DEF SameReceipt
    <2> QED BY <2>1, <2>2, <2>3, <2>4, OneReceipt
  <1>5. ASSUME NEW j \in Jobs, NEW key \in Keys, RecordDelivery(j, key)
        PROVE  (Receipts!Next \/ UNCHANGED Receipts!vars) /\ active' \in BOOLEAN
    <2>1. /\ delivery'[j] = [delivery[j] EXCEPT !.status = "pending", !.key = key]
          /\ \A i \in Jobs : i # j => delivery'[i] = delivery[i]
          /\ UNCHANGED active /\ delivery[j].status = "none"
      BY <1>0, <1>5 DEF RecordDelivery, Enqueue, Recorded
    <2>2. /\ delivery'[j].status = "pending"
          /\ delivery'[j].mark = delivery[j].mark
          /\ delivery'[j].attempt = delivery[j].attempt
          /\ delivery'[j].body = delivery[j].body
      BY <1>0, <2>1 DEF Delivery
    <2>3. ReceiptState(delivery[j]) = "none" /\ ReceiptState(delivery'[j]) = "open"
      BY <2>1, <2>2 DEF ReceiptState, OpenDelivery
    <2>4. \A i \in Jobs : i # j => SameReceipt(i)
      BY <2>1 DEF SameReceipt
    <2> QED BY <2>1, <2>2, <2>3, <2>4, OneReceipt
  <1>6. ASSUME NEW w \in Workers, CommitDelivery(w)
        PROVE  (Receipts!Next \/ UNCHANGED Receipts!vars) /\ active' \in BOOLEAN
    <2> DEFINE j == worker[w].job
    <2>1. UNCHANGED active
      BY <1>6 DEF CommitDelivery
    <2>2. CASE delivery' = delivery
      BY <1>1, <2>1, <2>2
    <2>3. CASE delivery' # delivery
      <3>1. worker[w].phase = "settling" /\ worker[w].outcome # "retry"
        BY <1>6, <2>3 DEF CommitDelivery
      <3>2. j \in Jobs /\ worker[w].outcome \in HandlerOutcome
        BY <1>0, <3>1 DEF IInv, WorkerShape, Busy, Phase, InTransaction
      <3>3. delivery' = [delivery EXCEPT ![j] = SettledDelivery(@, worker[w].outcome)]
        BY <1>6, <3>1 DEF CommitDelivery
      <3>4. IsOpen(j)
        BY <1>0, <2>3, <3>2, <3>3 DEF SettledDelivery, IsOpen
      <3>5. delivery'[j] = [delivery[j] EXCEPT !.status = SettlesAs(w)]
        BY <1>0, <3>2, <3>3, <3>4 DEF SettledDelivery, SettlesAs, IsOpen
      <3>6. SettlesAs(w) \in Settlements
        BY <3>1, <3>2 DEF SettlesAs, HandlerOutcome, Settlements
      <3>7. \A i \in Jobs : i # j => SameReceipt(i)
        BY <1>0, <3>3 DEF SameReceipt
      <3> HIDE DEF j
      <3>8. /\ delivery'[j].status = SettlesAs(w)
            /\ delivery'[j].mark = delivery[j].mark
            /\ delivery'[j].attempt = delivery[j].attempt
            /\ delivery'[j].body = delivery[j].body
        BY <1>0, <3>2, <3>5 DEF Delivery
      <3>9. ReceiptState(delivery[j]) = "open" /\ ReceiptState(delivery'[j]) \in Settlements
        BY <3>4, <3>6, <3>8 DEF ReceiptState, IsOpen, OpenDelivery, Settlements
      <3> QED BY <2>1, <3>2, <3>7, <3>8, <3>9, OneReceipt
    <2> QED BY <2>2, <2>3
  <1>7. CASE UNCHANGED allVars
    BY <1>1, <1>7 DEF allVars, inbound
  <1>8. CASE OffBroker
    <2>1. \/ UNCHANGED <<delivery, active>>
          \/ \E c \in BOOLEAN : RevokeEnds(c)
          \/ \E j \in Jobs : PurgeBody(j) \/ \E key \in Keys : RecordDelivery(j, key)
          \/ \E w \in Workers : CommitDelivery(w)
      BY <1>8 DEF OffBroker, QueueStep, inbound, EndpointStep, RevokeBegins, Republish,
             Admit, AdmissionEnds, RunsStep, ClaimDelivery, NotStarted, StartDispatch,
             Finish, FinishFails, CrashDispatch
    <2> QED BY <1>1, <1>3, <1>4, <1>5, <1>6, <2>1
  <1> QED BY <1>2, <1>7, <1>8 DEF InboundNext, HandlerStep, OffBroker, RunsStep

\* The dispatch implements the receipts: although whether an attempt goes out
\* is decided in transactions of several statements on two connections, no
\* attempt is recorded after a committed revocation or on a settled delivery, a
\* delivery settles once, and its payload is removed only then.
THEOREM ReceiptsImplemented == InboundSpec => ImplementsReceipts
  <1>1. InboundInit => Receipts!Init /\ active \in BOOLEAN
    <2> SUFFICES ASSUME InboundInit PROVE Receipts!Init /\ active \in BOOLEAN
      OBVIOUS
    <2>1. \A j \in Jobs : /\ delivery[j].status = "none" /\ delivery[j].mark = "none"
                          /\ delivery[j].attempt = 0 /\ delivery[j].body = "kept"
      BY DEF InboundInit, NoDelivery
    <2>2. \A j \in Jobs : ReceiptState(delivery[j]) = "none"
      BY <2>1 DEF ReceiptState, OpenDelivery
    <2>3. active = TRUE
      BY DEF InboundInit
    <2> QED BY <2>1, <2>2, <2>3 DEF Receipts!Init
  <1>2. /\ SettleIInv /\ active \in BOOLEAN /\ [InboundNext]_allVars
        => [Receipts!Next]_(Receipts!vars) /\ (active \in BOOLEAN)'
    BY ReceiptsStep
  <1> QED BY <1>1, <1>2, SettleInductive, PTL
          DEF InboundSpec, ImplementsReceipts, Receipts!Spec

-----------------------------------------------------------------------------
(* An unsafe request reaches its Operation at most once                    *)

\* A call whose request has not left, and whose mark is not committed
Before == {"resolve", "catalog", "pin", "pinned", "execute", "discover", "fence",
           "mark", "marking"}

\* A call whose mark was read back: its request may leave, or has left
Out == {"send", "sent", "limited", "unmark"}

\* A worker whose call carries the attempt that its claim counted
Carrying(w) ==
    \/ worker[w].phase \in {"claimed", "admitting"}
    \/ dispatch[w].step \notin {"none", "finish"}

Fresh(w) == worker[w].phase \in {"claimed", "admitting"} \/ dispatch[w].step \in Before

\* The attempt is a fencing token: it tells the run that holds the job from
\* every run that lost it, although a refused admission gives attempts back
AttemptShape ==
    /\ \A w \in Workers : Carrying(w) =>
          /\ dispatch[w].attempt <= row[worker[w].job].attempts
          /\ row[worker[w].job].status = "running" =>
                (row[worker[w].job].token = worker[w].token
                   <=> dispatch[w].attempt = row[worker[w].job].attempts)
    /\ \A v, w \in Workers :
          /\ Carrying(v) /\ Carrying(w) /\ worker[v].job = worker[w].job
          /\ dispatch[v].attempt = dispatch[w].attempt
          => v = w

\* No run that has yet to mark the delivery finds its own attempt on it
MarkShape ==
    \A j \in Jobs : delivery[j].mark = "started" =>
        /\ delivery[j].attempt <= row[j].attempts
        /\ \A w \in Workers : worker[w].job = j =>
              /\ Fresh(w) => delivery[j].attempt # dispatch[w].attempt
              /\ worker[w].phase = "refusing" /\ HoldsClaim(j, worker[w].token)
                   => delivery[j].attempt < row[j].attempts

\* From the capability on, a call has the contract its delivery is pinned to
PinShape ==
    /\ \A w \in Workers :
          dispatch[w].step \in {"execute", "discover", "fence", "mark", "marking",
                                "recheck"} \cup Out =>
              /\ dispatch[w].contract \in Contracts
              /\ delivery[worker[w].job].pin = dispatch[w].contract
    /\ \A j \in Jobs : reached[j] # 0 => delivery[j].pin \in Contracts

\* A mark in flight belongs to a later attempt than any that is read back
MarkingLast ==
    \A v, w \in Workers :
        /\ dispatch[v].step = "marking" /\ dispatch[w].step = "recheck"
        /\ worker[v].job = worker[w].job
        => dispatch[w].attempt < dispatch[v].attempt

\* A request for job j has left or may leave without another look at the mark
Fired(j) ==
    \/ reached[j] # 0
    \/ \E w \in Workers : worker[w].job = j /\ dispatch[w].step \in Out

\* Once an unsafe request may leave, the mark names its attempt, and every
\* other call either meets the mark or has lost its claim
FiredAt(j) ==
    /\ reached[j] \in {0, 1}
    /\ \A w \in Workers : worker[w].job = j =>
          /\ dispatch[w].step \in {"send", "limited", "unmark"} => reached[j] = 0
          /\ dispatch[w].step = "sent" => reached[j] = 1
    /\ Fired(j) =>
          /\ delivery[j].mark = "started"
          /\ \A w \in Workers : worker[w].job = j =>
                /\ dispatch[w].step \in Out => dispatch[w].attempt = delivery[j].attempt
                /\ dispatch[w].step \in {"mark", "recheck"} =>
                      dispatch[w].attempt < delivery[j].attempt
                /\ dispatch[w].step # "marking"

FiredShape ==
    \A j \in Jobs : delivery[j].pin \in Contracts \ Safe => FiredAt(j)

-----------------------------------------------------------------------------
\* The row of job j keeps its attempts, and its claim if it still has one
RowCalm(j) ==
    /\ row'[j].attempts = row[j].attempts
    /\ row'[j].status = "running" =>
          row[j].status = "running" /\ row'[j].token = row[j].token

\* Whoever carries an attempt, or refuses its run, did so before or goes on
CarriersKept ==
    \A u \in Workers :
        /\ Carrying(u)' => /\ Carrying(u) /\ worker'[u].job = worker[u].job
                           /\ worker'[u].token = worker[u].token
                           /\ dispatch'[u].attempt = dispatch[u].attempt
        /\ Fresh(u)' => Fresh(u)
        /\ worker'[u].phase = "refusing" =>
              /\ worker'[u].job = worker[u].job /\ worker'[u].token = worker[u].token
              /\ \/ worker[u].phase = "refusing"
                 \/ /\ worker[u].phase = "admitting"
                    /\ HoldsClaim(worker[u].job, worker[u].token)

\* The commit of a refused run gives its attempt back
Refunds(w) ==
    LET j == worker[w].job
    IN  /\ worker[w].phase = "refusing" /\ j \in Jobs
        /\ HoldsClaim(j, worker[w].token)
        /\ CarriersKept
        /\ \A i \in Jobs : i # j => row'[i] = row[i]
        /\ row'[j].attempts = row[j].attempts - 1 /\ row'[j].status = "queued"

\* What one worker's step outside the broker leaves of the attempts carried.
LEMMA OneCarrier ==
    ASSUME NEW w \in Workers,
           \A v \in Workers : v # w => worker'[v] = worker[v] /\ dispatch'[v] = dispatch[v],
           \/ /\ worker'[w].phase \notin {"claimed", "admitting", "refusing"}
              /\ dispatch'[w].step = "none"
           \/ /\ worker[w].phase \in {"claimed", "admitting"}
              /\ worker'[w].job = worker[w].job /\ worker'[w].token = worker[w].token
              /\ dispatch'[w].attempt = dispatch[w].attempt
              /\ worker'[w].phase # "refusing"
           \/ /\ worker[w].phase = "admitting" /\ worker'[w].phase = "refusing"
              /\ worker'[w].job = worker[w].job /\ worker'[w].token = worker[w].token
              /\ dispatch'[w].step = "none"
              /\ HoldsClaim(worker[w].job, worker[w].token)
    PROVE  CarriersKept
  BY DEF CarriersKept, Carrying, Fresh, Before

\* A settlement keeps the attempts of the row unless it refunds one.
LEMMA SettledCalm ==
    ASSUME IInv, NEW j \in Jobs, NEW o \in Outcome, o # "not_admitted",
           row' = [row EXCEPT ![j] = Settled(@, o)]
    PROVE  \A i \in Jobs : RowCalm(i)
  <1>1. row \in [Jobs -> Row] /\ row[j] \in Row
    BY DEF IInv, TypeOK
  <1>2. /\ Settled(row[j], o).attempts = row[j].attempts
        /\ Settled(row[j], o).status # "running"
    BY <1>1, SettledRow DEF Terminal, Stopped
  <1> QED BY <1>1, <1>2 DEF RowCalm

\* The steps of the queue in which the delivery has no part keep every attempt
\* that is carried, as long as the operator requeues nothing.
LEMMA QueueCalm ==
    ASSUME DispatchIInv, CallPhase, RequeueBound = 0, QueueStep
    PROVE  (\A j \in Jobs : RowCalm(j)) /\ CarriersKept
  <1>1. /\ IInv /\ worker \in [Workers -> Worker] /\ dispatch' = dispatch
        /\ row \in [Jobs -> Row] /\ \A j \in Jobs : row[j] \in Row
        /\ \A w \in Workers : worker[w] \in Worker
    BY DEF DispatchIInv, IInv, TypeOK, QueueStep, inbound
  <1>2. ASSUME row' = row PROVE \A j \in Jobs : RowCalm(j)
    BY <1>2 DEF RowCalm
  <1>3. ASSUME worker' = worker PROVE CarriersKept
    BY <1>1, <1>3 DEF CarriersKept, Carrying, Fresh
  <1>4. ASSUME NEW w \in Workers, Lock(w)
        PROVE  (\A j \in Jobs : RowCalm(j)) /\ CarriersKept
    <2>1. /\ worker'[w] = [worker[w] EXCEPT !.phase = "admitting"]
          /\ \A v \in Workers : v # w => worker'[v] = worker[v]
          /\ worker[w].phase = "claimed" /\ row' = row
      BY <1>1, <1>4 DEF Lock
    <2>2. /\ worker'[w].phase = "admitting" /\ worker'[w].job = worker[w].job
          /\ worker'[w].token = worker[w].token
      BY <1>1, <2>1 DEF Worker
    <2> QED BY <1>1, <1>2, <2>1, <2>2, OneCarrier
  <1>5. ASSUME NEW w \in Workers,
               \/ CommitFails(w) \/ SettleApart(w) \/ SettleApartFails(w)
               \/ Stop(w) \/ Start(w)
        PROVE  CarriersKept
    <2>1. /\ worker'[w].phase \in {"apart", "idle", "stopped"}
          /\ \A v \in Workers : v # w => worker'[v] = worker[v]
          /\ worker[w].phase # "handling"
      BY <1>1, <1>5 DEF CommitFails, SettleApart, SettleApartFails, Stop, Start,
                        GoApart, IdleWorker, Worker
    <2>2. dispatch'[w].step = "none"
      BY <1>1, <2>1 DEF CallPhase
    <2> QED BY <1>1, <2>1, <2>2, OneCarrier
  <1>6. ASSUME NEW w \in Workers, SettleApart(w) PROVE \A j \in Jobs : RowCalm(j)
    <2>1. CASE row' = row
      BY <1>2, <2>1
    <2>2. CASE row' # row
      <3>1. row' = [row EXCEPT ![worker[w].job] = Settled(@, worker[w].outcome)]
        BY <1>6, <2>2 DEF SettleApart
      <3>2. /\ worker[w].job \in Jobs /\ worker[w].outcome \in Outcome
            /\ worker[w].outcome # "not_admitted"
        BY <1>1, <1>6 DEF SettleApart, IInv, WorkerShape, Busy, Phase, Outcome,
                          HandlerOutcome, Refusal
      <3> QED BY <1>1, <3>1, <3>2, SettledCalm
    <2> QED BY <2>1, <2>2
  <1>7. ASSUME NEW i \in Jobs,
               LeaseExpires(i) \/ BecomesDue(i) \/ MarkDone(i) \/ Sweep(i)
        PROVE  (\A j \in Jobs : RowCalm(j)) /\ CarriersKept
    <2>1. /\ \/ row'[i] = [row[i] EXCEPT !.lease = "expired"]
             \/ row'[i] = [row[i] EXCEPT !.due = TRUE]
             \/ row'[i] = [row[i] EXCEPT !.status = "done", !.completed = TRUE]
             \/ row'[i] = [row[i] EXCEPT !.status = "swept"]
          /\ \A j \in Jobs : j # i => row'[j] = row[j]
          /\ worker' = worker
      BY <1>1, <1>7 DEF LeaseExpires, BecomesDue, MarkDone, Sweep
    <2>2. RowCalm(i)
      BY <1>1, <2>1 DEF RowCalm, Row
    <2>3. \A j \in Jobs : RowCalm(j)
      BY <2>1, <2>2 DEF RowCalm
    <2> QED BY <1>3, <2>1, <2>3
  <1>8. ASSUME NEW w \in Workers,
               CommitFails(w) \/ SettleApartFails(w) \/ Stop(w) \/ Start(w)
        PROVE  row' = row
    BY <1>8 DEF CommitFails, SettleApartFails, Stop, Start, GoApart
  <1>9. ASSUME NEW w \in Workers, SessionLost(w) PROVE row' = row /\ worker' = worker
    BY <1>9 DEF SessionLost
  <1> QED BY <1>2, <1>3, <1>4, <1>5, <1>6, <1>7, <1>8, <1>9 DEF QueueStep

\* A run outside the broker keeps the attempts too, but for a claim, which
\* counts a new one, and a refusal, which gives its own back.
LEMMA RunsCalm ==
    ASSUME DispatchIInv, CallPhase, NEW w \in Workers, RunsStep(w)
    PROVE  \/ (\A j \in Jobs : RowCalm(j)) /\ CarriersKept
           \/ Refunds(w)
           \/ \E close, take \in Jobs \cup {None} : ClaimDelivery(w, close, take)
  <1>1. /\ IInv /\ worker \in [Workers -> Worker]
        /\ dispatch \in [Workers -> Dispatch] /\ CallShape
        /\ row \in [Jobs -> Row] /\ \A j \in Jobs : row[j] \in Row
        /\ \A v \in Workers : worker[v] \in Worker
    BY DEF DispatchIInv, IInv, TypeOK, CallShape, CallsWellFormed
  <1>2. ASSUME row' = row PROVE \A j \in Jobs : RowCalm(j)
    BY <1>2 DEF RowCalm
  <1>3. NoDispatch.step = "none"
    BY DEF NoDispatch
  <1>4. CASE NotStarted(w)
    <2>1. /\ \A v \in Workers : v # w => worker'[v] = worker[v]
          /\ row' = row
      BY <1>1, <1>4 DEF NotStarted, NoHandler, OpenFails, LoseClaim, AdmissionFails,
                        Refuse, GoApart
    <2>2. /\ \A v \in Workers : v # w => dispatch'[v] = dispatch[v]
          /\ dispatch'[w].step = "none"
      BY <1>1, <1>3, <1>4 DEF NotStarted
    <2>3. CASE worker'[w].phase \in {"apart", "idle"}
      BY <1>2, <2>1, <2>2, <2>3, OneCarrier
    <2>4. ASSUME NEW o, Refuse(w, o), Locks(w)
          PROVE  CarriersKept
      <3>1. /\ worker'[w] = [worker[w] EXCEPT !.phase = "refusing", !.outcome = o]
            /\ worker[w].phase = "admitting"
        BY <1>1, <2>4 DEF Refuse
      <3>2. /\ worker'[w].phase = "refusing" /\ worker'[w].job = worker[w].job
            /\ worker'[w].token = worker[w].token
        BY <1>1, <3>1 DEF Worker
      <3>3. HoldsClaim(worker[w].job, worker[w].token)
        BY <1>1, <2>4, QueueAssumption DEF Locks, IInv, LockShape
      <3> QED BY <2>1, <2>2, <3>1, <3>2, <3>3, OneCarrier
    <2>5. \/ worker'[w].phase \in {"apart", "idle"}
          \/ \E o \in Refusal : Refuse(w, o) /\ Locks(w)
      BY <1>1, <1>4 DEF NotStarted, NoHandler, OpenFails, LoseClaim, AdmissionFails,
                        Refuse, GoApart, IdleWorker, Worker
    <2> QED BY <1>2, <2>1, <2>3, <2>4, <2>5
  <1>5. CASE StartDispatch(w)
    <2>1. /\ worker'[w] = [worker[w] EXCEPT !.phase = "handling"]
          /\ \A v \in Workers : v # w => worker'[v] = worker[v]
          /\ worker[w].phase = "admitting" /\ row' = row
      BY <1>1, <1>5 DEF StartDispatch, StartHandler
    <2>2. /\ worker'[w].phase = "handling" /\ worker'[w].job = worker[w].job
          /\ worker'[w].token = worker[w].token
      BY <1>1, <2>1 DEF Worker
    <2>3. /\ dispatch'[w].attempt = dispatch[w].attempt
          /\ \A v \in Workers : v # w => dispatch'[v] = dispatch[v]
      BY <1>1, <1>5, CallMoves DEF StartDispatch
    <2> QED BY <1>2, <2>1, <2>2, <2>3, OneCarrier
  <1>6. CASE Finish(w) \/ FinishFails(w) \/ CrashDispatch(w)
    <2>1. /\ worker'[w].phase \in {"settling", "apart", "idle"}
          /\ \A v \in Workers : v # w => worker'[v] = worker[v]
          /\ row' = row
      BY <1>1, <1>6 DEF Finish, HandlerReturns, FinishFails, HandlerThrows, GoApart,
                        CrashDispatch, Crash, IdleWorker, Worker
    <2>2. /\ \A v \in Workers : v # w => dispatch'[v] = dispatch[v]
          /\ dispatch'[w].step = "none"
      BY <1>1, <1>3, <1>6 DEF Finish, FinishFails, CrashDispatch
    <2> QED BY <1>2, <2>1, <2>2, OneCarrier
  <1>7. CASE CommitDelivery(w)
    <2>1. /\ worker'[w].phase \in {"apart", "idle"}
          /\ \A v \in Workers : v # w => worker'[v] = worker[v]
          /\ worker[w].phase \in {"refusing", "settling"} /\ dispatch' = dispatch
          /\ Locks(w)
          /\ row' = [row EXCEPT ![worker[w].job] = Settled(@, worker[w].outcome)]
      BY <1>1, <1>7 DEF CommitDelivery, Commit, CommitUnconfirmed, Committed,
                        IdleWorker, Worker
    <2>2. dispatch'[w].step = "none"
      BY <2>1 DEF CallPhase
    <2>3. CarriersKept
      BY <2>1, <2>2, OneCarrier
    <2>4. /\ worker[w].job \in Jobs /\ worker[w].outcome \in Outcome
          /\ worker[w].outcome = "not_admitted" => worker[w].phase = "refusing"
          /\ HoldsClaim(worker[w].job, worker[w].token)
      BY <1>1, <2>1, QueueAssumption DEF IInv, WorkerShape, LockShape, Locks, Outcome,
                                         HandlerOutcome, Refusal
    <2>5. CASE worker[w].outcome # "not_admitted"
      BY <1>1, <2>1, <2>3, <2>4, <2>5, SettledCalm
    <2>6. CASE worker[w].outcome = "not_admitted"
      <3> DEFINE j == worker[w].job
      <3>1. row[j].attempts > 0 /\ row[j] \in Row
        BY <1>1, <2>4 DEF IInv, BudgetShape, HoldsClaim
      <3>2. /\ row'[j] = Settled(row[j], "not_admitted")
            /\ \A i \in Jobs : i # j => row'[i] = row[i]
        BY <1>1, <2>1, <2>4, <2>6
      <3>3. /\ Settled(row[j], "not_admitted").attempts = row[j].attempts - 1
            /\ Settled(row[j], "not_admitted").status = "queued"
        <4>1. "not_admitted" \in Outcome
          BY <2>4, <2>6
        <4>2. Settled(row[j], "not_admitted").attempts = row[j].attempts - 1
          BY <3>1, <4>1, SettledRow
        <4>3. Settled(row[j], "not_admitted").status = "queued"
          BY <3>1 DEF Settled, Row
        <4> QED BY <4>2, <4>3
      <3> QED BY <2>3, <2>4, <2>6, <3>2, <3>3 DEF Refunds
    <2> QED BY <2>5, <2>6
  <1> QED BY <1>4, <1>5, <1>6, <1>7 DEF RunsStep

\* Admission, revocation, retention and redeployment keep them all.
LEMMA EndpointCalm ==
    ASSUME DispatchIInv, EndpointStep
    PROVE  (\A j \in Jobs : RowCalm(j)) /\ CarriersKept
  <1>1. UNCHANGED <<worker, dispatch>>
    BY DEF EndpointStep, RevokeBegins, RevokeEnds, Republish, Admit,
           AdmissionEnds, PurgeBody, RecordDelivery, Enqueue, vars
  <1>2. CarriersKept
    BY <1>1 DEF CarriersKept, Carrying, Fresh
  <1>3. ASSUME NEW i \in Jobs, NEW key \in Keys, RecordDelivery(i, key)
        PROVE  \A j \in Jobs : RowCalm(j)
    <2>1. /\ row'[i] = [row[i] EXCEPT !.status = "queued", !.key = key, !.due = TRUE]
          /\ \A j \in Jobs : j # i => row'[j] = row[j]
      BY <1>3 DEF RecordDelivery, Enqueue, DispatchIInv, IInv, TypeOK
    <2>2. row'[i].attempts = row[i].attempts /\ row'[i].status = "queued"
      BY <2>1 DEF DispatchIInv, IInv, TypeOK, Row
    <2> QED BY <2>1, <2>2 DEF RowCalm
  <1>4. ASSUME row' = row PROVE \A j \in Jobs : RowCalm(j)
    BY <1>4 DEF RowCalm
  <1> QED BY <1>2, <1>3, <1>4 DEF EndpointStep, RevokeBegins, RevokeEnds, Republish,
             Admit, AdmissionEnds, PurgeBody, vars

\* A claim gives its worker a token that nobody knows and an attempt above all
\* that are carried; the row that it closes keeps its attempts.
LEMMA ClaimFacts ==
    ASSUME DispatchIInv, CallPhase, NEW w \in Workers, NEW close \in Jobs \cup {None},
           NEW take \in Jobs \cup {None}, ClaimDelivery(w, close, take)
    PROVE  \E t \in Tokens :
             /\ \A v \in Workers : worker[v].token # t
             /\ \A v \in Workers : v # w =>
                   worker'[v] = worker[v] /\ dispatch'[v] = dispatch[v]
             /\ \A j \in Jobs :
                   \/ j # take /\ row'[j] = row[j]
                   \/ /\ j # take /\ row'[j].status = "dead"
                      /\ row'[j].attempts = row[j].attempts
                   \/ /\ j = take /\ row'[j].token = t
                      /\ row'[j].attempts = row[j].attempts + 1
             /\ \/ take = None /\ worker' = worker /\ dispatch' = dispatch
                \/ /\ take \in Jobs /\ worker'[w].phase = "claimed"
                   /\ worker'[w].job = take /\ worker'[w].token = t
                   /\ dispatch'[w].step = "none"
                   /\ dispatch'[w].attempt = row'[take].attempts
  <1> DEFINE t == CHOOSE t \in FreshTokens : TRUE
  <1>1. /\ IInv /\ worker \in [Workers -> Worker]
        /\ dispatch \in [Workers -> Dispatch] /\ \A v \in Workers : dispatch[v] \in Dispatch
        /\ row \in [Jobs -> Row] /\ \A j \in Jobs : row[j] \in Row
    BY DEF DispatchIInv, IInv, TypeOK, CallShape, CallsWellFormed
  <1>2. /\ t \in FreshTokens /\ t \in Tokens
        /\ row' = [j \in Jobs |-> IF j = close THEN Closed(row[j])
                                  ELSE IF j = take THEN Claimed(row[j], t)
                                  ELSE row[j]]
        /\ worker' = IF take = None THEN worker
                     ELSE [worker EXCEPT ![w] =
                             [phase |-> "claimed", job |-> take,
                              token |-> t, outcome |-> None]]
        /\ worker[w].phase = "idle"
    BY DEF ClaimDelivery, Claim, FreshTokens
  <1> HIDE DEF t
  <1>3. \A v \in Workers : worker[v].token # t
    BY <1>2 DEF FreshTokens
  <1>4. dispatch' = IF take = None THEN dispatch
                    ELSE [dispatch EXCEPT ![w].attempt = row'[take].attempts]
    BY DEF ClaimDelivery
  <1>5. \A v \in Workers : v # w => worker'[v] = worker[v] /\ dispatch'[v] = dispatch[v]
    BY <1>1, <1>2, <1>4
  <1>6. take \in Jobs => take # close
    <2>1. take \in Jobs => take \in Due
      BY QueueAssumption DEF ClaimDelivery, Claim, LimitOne
    <2>2. close \in Jobs => close \in Abandoned
      BY QueueAssumption DEF ClaimDelivery, Claim, LimitOne
    <2>3. \A j \in Jobs : row[j].attempts \in Nat /\ row[j].max \in Nat
      BY <1>1, QueueAssumption DEF Row
    <2> QED BY <2>1, <2>2, <2>3 DEF Due, Abandoned
  <1>7. ASSUME NEW j \in Jobs
        PROVE  \/ j # take /\ row'[j] = row[j]
               \/ /\ j # take /\ row'[j].status = "dead"
                  /\ row'[j].attempts = row[j].attempts
               \/ /\ j = take /\ row'[j].token = t
                  /\ row'[j].attempts = row[j].attempts + 1
    <2>1. /\ Closed(row[j]).status = "dead" /\ Claimed(row[j], t).token = t
          /\ Closed(row[j]).attempts = row[j].attempts
          /\ Claimed(row[j], t).attempts = row[j].attempts + 1
      <3>1. row[j] \in Row /\ t \in Tokens
        BY <1>1, <1>2
      <3> HIDE <1>1, <1>2
      <3> QED BY <3>1, ClaimRows
    <2>2. row'[j] = IF j = close THEN Closed(row[j])
                    ELSE IF j = take THEN Claimed(row[j], t) ELSE row[j]
      BY <1>2
    <2> QED BY <1>6, <2>1, <2>2
  <1>8. \/ take = None /\ worker' = worker /\ dispatch' = dispatch
        \/ /\ take \in Jobs /\ worker'[w].phase = "claimed"
           /\ worker'[w].job = take /\ worker'[w].token = t
           /\ dispatch'[w].step = "none"
           /\ dispatch'[w].attempt = row'[take].attempts
    <2>1. CASE take = None
      BY <1>2, <1>4, <2>1
    <2>2. CASE take # None
      <3>1. worker'[w] = [phase |-> "claimed", job |-> take, token |-> t, outcome |-> None]
        BY <1>1, <1>2, <2>2
      <3>2. dispatch'[w] = [dispatch[w] EXCEPT !.attempt = row'[take].attempts]
        BY <1>1, <1>4, <2>2
      <3>3. dispatch[w].step = "none"
        BY <1>2 DEF CallPhase
      <3>4. dispatch'[w].step = "none" /\ dispatch'[w].attempt = row'[take].attempts
        BY <1>1, <3>2, <3>3 DEF Dispatch
      <3> QED BY <2>2, <3>1, <3>4
    <2> QED BY <2>1, <2>2
  <1> QED BY <1>2, <1>3, <1>5, <1>7, <1>8

\* What the attempts carried are, and that carriers have a job.
LEMMA Carried ==
    ASSUME DispatchIInv, CallPhase
    PROVE  /\ \A j \in Jobs : row[j].attempts \in Nat /\ delivery[j].attempt \in Nat
           /\ \A w \in Workers : /\ dispatch[w].attempt \in Nat
                                 /\ Carrying(w) => worker[w].job \in Jobs
                                 /\ Carrying(w) => worker[w].token # None
                                 /\ Fresh(w) => Carrying(w)
  <1>1. /\ \A j \in Jobs : row[j] \in Row /\ delivery[j] \in Delivery
        /\ \A w \in Workers : dispatch[w] \in Dispatch
    BY DEF DispatchIInv, IInv, TypeOK, CallShape, CallsWellFormed
  <1>2. /\ \A j \in Jobs : row[j].attempts \in Nat /\ delivery[j].attempt \in Nat
        /\ \A w \in Workers : dispatch[w].attempt \in Nat
    BY <1>1 DEF Row, Delivery, Dispatch
  <1>3. ASSUME NEW w \in Workers, Carrying(w)
        PROVE  worker[w].job \in Jobs /\ worker[w].token # None
    <2>1. worker[w].phase \in {"claimed", "admitting", "handling"}
      BY <1>3 DEF Carrying, CallPhase
    <2> QED BY <2>1, QueueAssumption
            DEF DispatchIInv, IInv, WorkerShape, Busy, Phase, InTransaction
  <1>4. \A w \in Workers : Fresh(w) => Carrying(w)
    BY DEF Fresh, Carrying, Before
  <1> QED BY <1>2, <1>3, <1>4

\* The attempts stay a fencing token.
LEMMA AttemptStep ==
    /\ DispatchIInv /\ CallPhase /\ RequeueBound = 0 /\ AttemptShape
    /\ [InboundNext]_allVars
    => AttemptShape'
  <1> SUFFICES ASSUME DispatchIInv, CallPhase, RequeueBound = 0, AttemptShape,
                      [InboundNext]_allVars
               PROVE  AttemptShape'
    OBVIOUS
  <1>0. /\ \A j \in Jobs : row[j].attempts \in Nat
        /\ \A w \in Workers : /\ dispatch[w].attempt \in Nat
                              /\ Carrying(w) => worker[w].job \in Jobs
    BY Carried
  <1>1. ASSUME CarriersKept, \A j \in Jobs : RowCalm(j) PROVE AttemptShape'
    BY <1>0, <1>1 DEF CarriersKept, RowCalm, AttemptShape
  <1>2. CASE UNCHANGED allVars
    BY <1>2 DEF allVars, vars, inbound, AttemptShape, Carrying
  <1>3. ASSUME NEW w \in Workers, BrokerStep(w) PROVE AttemptShape'
    <2>1. Effect(w) /\ UNCHANGED <<row, worker>>
      BY <1>3, BrokerEffect DEF Effect, vars
    <2>2. dispatch'[w].step \notin {"none", "finish"} =>
             /\ dispatch[w].step \notin {"none", "finish"}
             /\ dispatch'[w].attempt = dispatch[w].attempt
      BY <2>1 DEF Effect, Ends, Looks, Pins, TakesGate, Marks, Sends, Bounces, Unmarks,
                  Moves
    <2>3. \A v \in Workers : v # w => dispatch'[v] = dispatch[v]
      BY <2>1 DEF Effect
    <2>4. \A u \in Workers : Carrying(u)' =>
              Carrying(u) /\ dispatch'[u].attempt = dispatch[u].attempt
      <3>1. worker[w].phase = "handling"
        BY <2>1 DEF Effect
      <3> QED BY <2>1, <2>2, <2>3, <3>1 DEF Carrying
    <2> QED BY <2>1, <2>4 DEF AttemptShape
  <1>4. CASE QueueStep \/ EndpointStep
    BY <1>1, <1>4, QueueCalm, EndpointCalm
  <1>5. ASSUME NEW w \in Workers, Refunds(w) PROVE AttemptShape'
    <2> DEFINE j == worker[w].job
    <2>1. /\ HoldsClaim(j, worker[w].token) /\ j \in Jobs /\ CarriersKept
          /\ \A i \in Jobs : i # j => row'[i] = row[i]
          /\ row'[j].attempts = row[j].attempts - 1 /\ row'[j].status = "queued"
          /\ worker[w].phase = "refusing"
      BY <1>5 DEF Refunds
    <2>2. ~Carrying(w)
      BY <2>1 DEF Carrying, CallPhase
    <2>3. ASSUME NEW u \in Workers, Carrying(u), worker[u].job = j
          PROVE  dispatch[u].attempt < row[j].attempts
      <3>1. worker[u].token # worker[w].token
        BY <2>2, <2>3, Carried DEF DispatchIInv, IInv, TokenShape
      <3> QED BY <1>0, <2>1, <2>3, <3>1 DEF AttemptShape, HoldsClaim
    <2> HIDE DEF j
    <2>4. ASSUME NEW u \in Workers, Carrying(u)'
          PROVE  /\ dispatch'[u].attempt <= row'[worker'[u].job].attempts
                 /\ row'[worker'[u].job].status = "running" =>
                      (row'[worker'[u].job].token = worker'[u].token
                         <=> dispatch'[u].attempt = row'[worker'[u].job].attempts)
      <3>1. /\ Carrying(u) /\ worker'[u].job = worker[u].job
            /\ worker'[u].token = worker[u].token
            /\ dispatch'[u].attempt = dispatch[u].attempt
        BY <2>1, <2>4 DEF CarriersKept
      <3>2. CASE worker[u].job = j
        BY <1>0, <2>1, <2>3, <3>1, <3>2
      <3>3. CASE worker[u].job # j
        BY <1>0, <2>1, <3>1, <3>3 DEF AttemptShape
      <3> QED BY <3>2, <3>3
    <2> QED BY <2>1, <2>4 DEF AttemptShape, CarriersKept
  <1>6. ASSUME NEW w \in Workers, NEW close \in Jobs \cup {None},
               NEW take \in Jobs \cup {None}, ClaimDelivery(w, close, take)
        PROVE  AttemptShape'
    <2>1. PICK t \in Tokens :
             /\ \A v \in Workers : worker[v].token # t
             /\ \A v \in Workers : v # w =>
                   worker'[v] = worker[v] /\ dispatch'[v] = dispatch[v]
             /\ \A j \in Jobs :
                   \/ j # take /\ row'[j] = row[j]
                   \/ /\ j # take /\ row'[j].status = "dead"
                      /\ row'[j].attempts = row[j].attempts
                   \/ /\ j = take /\ row'[j].token = t
                      /\ row'[j].attempts = row[j].attempts + 1
             /\ \/ take = None /\ worker' = worker /\ dispatch' = dispatch
                \/ /\ take \in Jobs /\ worker'[w].phase = "claimed"
                   /\ worker'[w].job = take /\ worker'[w].token = t
                   /\ dispatch'[w].step = "none"
                   /\ dispatch'[w].attempt = row'[take].attempts
      BY <1>6, ClaimFacts
    <2>2. ASSUME NEW u \in Workers, Carrying(u), worker'[u] = worker[u],
                 dispatch'[u] = dispatch[u]
          PROVE  /\ dispatch'[u].attempt <= row'[worker'[u].job].attempts
                 /\ row'[worker'[u].job].status = "running" =>
                      (row'[worker'[u].job].token = worker'[u].token
                         <=> dispatch'[u].attempt = row'[worker'[u].job].attempts)
                 /\ worker'[u].job = take => dispatch'[u].attempt < row'[take].attempts
      <3> DEFINE j == worker[u].job
      <3>1. /\ j \in Jobs /\ dispatch[u].attempt \in Nat /\ row[j].attempts \in Nat
            /\ dispatch[u].attempt <= row[j].attempts
            /\ row[j].status = "running" =>
                  (row[j].token = worker[u].token
                     <=> dispatch[u].attempt = row[j].attempts)
        BY <1>0, <2>2 DEF AttemptShape
      <3> HIDE DEF j
      <3>2. CASE j # take
        BY <2>1, <2>2, <3>1, <3>2 DEF j
      <3>3. CASE j = take
        <4>1. row'[j].token = t /\ row'[j].attempts = row[j].attempts + 1
              /\ worker[u].token # t
          BY <2>1, <3>1, <3>3
        <4>2. dispatch[u].attempt < row'[j].attempts
          BY <3>1, <4>1
        <4> QED BY <2>2, <3>1, <3>3, <4>1, <4>2 DEF j
      <3> QED BY <3>2, <3>3
    <2>3. CASE take = None
      <3>1. \A u \in Workers : (Carrying(u)' <=> Carrying(u))
                               /\ worker'[u] = worker[u] /\ dispatch'[u] = dispatch[u]
        BY <2>1, <2>3, QueueAssumption DEF Carrying
      <3> QED BY <2>2, <3>1 DEF AttemptShape
    <2>4. CASE take \in Jobs
      <3>1. /\ worker'[w].job = take /\ worker'[w].token = t
            /\ dispatch'[w].attempt = row'[take].attempts
            /\ row'[take].token = t
        BY <2>1, <2>4, QueueAssumption
      <3>2. ASSUME NEW u \in Workers, u # w, Carrying(u)'
            PROVE  Carrying(u) /\ worker'[u] = worker[u] /\ dispatch'[u] = dispatch[u]
        BY <2>1, <3>2 DEF Carrying
      <3>3. ASSUME NEW u \in Workers, u # w, Carrying(u)', worker'[u].job = take
            PROVE  dispatch'[u].attempt # dispatch'[w].attempt
        <4>1. /\ dispatch'[u].attempt < row'[take].attempts
              /\ dispatch'[u].attempt \in Nat
          BY <1>0, <2>2, <3>2, <3>3
        <4>2. row'[take].attempts \in Nat
          <5>1. row'[take].attempts = row[take].attempts + 1
            BY <2>1, <2>4
          <5> QED BY <1>0, <2>4, <5>1
        <4> QED BY <3>1, <4>1, <4>2
      <3>4. row'[take].attempts <= row'[take].attempts
        <4>1. row'[take].attempts = row[take].attempts + 1
          BY <2>1, <2>4
        <4> QED BY <1>0, <2>4, <4>1
      <3>5. ASSUME NEW u \in Workers, Carrying(u)'
            PROVE  /\ dispatch'[u].attempt <= row'[worker'[u].job].attempts
                   /\ row'[worker'[u].job].status = "running" =>
                        (row'[worker'[u].job].token = worker'[u].token
                           <=> dispatch'[u].attempt = row'[worker'[u].job].attempts)
        <4>1. CASE u = w
          BY <3>1, <3>4, <4>1
        <4>2. CASE u # w
          BY <2>2, <3>2, <3>5, <4>2
        <4> QED BY <4>1, <4>2
      <3>6. ASSUME NEW v \in Workers, NEW u \in Workers, Carrying(v)', Carrying(u)',
                   worker'[v].job = worker'[u].job,
                   dispatch'[v].attempt = dispatch'[u].attempt
            PROVE  v = u
        <4>1. CASE v = w \/ u = w
          BY <3>1, <3>3, <3>6, <4>1
        <4>2. CASE v # w /\ u # w
          BY <3>2, <3>6, <4>2 DEF AttemptShape
        <4> QED BY <4>1, <4>2
      <3> QED BY <3>5, <3>6 DEF AttemptShape
    <2> QED BY <2>3, <2>4
  <1> QED BY <1>1, <1>2, <1>3, <1>4, <1>5, <1>6, RunsCalm
          DEF InboundNext, HandlerStep, RunsStep

\* Who carries one job's live attempt, and what a mark writes.
LEMMA MarkWritten ==
    ASSUME DispatchIInv, NEW w \in Workers, worker[w].job \in Jobs, NEW m, WritesMark(w, m)
    PROVE  /\ delivery'[worker[w].job].mark = m
           /\ delivery'[worker[w].job].attempt = dispatch[w].attempt
           /\ delivery'[worker[w].job].pin = delivery[worker[w].job].pin
           /\ \A i \in Jobs : i # worker[w].job => delivery'[i] = delivery[i]
  <1> DEFINE j == worker[w].job
  <1>1. delivery \in [Jobs -> Delivery] /\ delivery[j] \in Delivery
    BY DEF DispatchIInv, CallShape
  <1>2. /\ delivery'[j] = [delivery[j] EXCEPT !.status = "dispatching", !.mark = m,
                                              !.attempt = dispatch[w].attempt]
        /\ \A i \in Jobs : i # j => delivery'[i] = delivery[i]
    BY <1>1 DEF WritesMark
  <1> HIDE DEF j
  <1>3. /\ delivery'[j].mark = m /\ delivery'[j].attempt = dispatch[w].attempt
        /\ delivery'[j].pin = delivery[j].pin
    BY <1>1, <1>2 DEF Delivery
  <1> QED BY <1>2, <1>3 DEF j

\* A pin that is written changes nothing else of the delivery.
LEMMA PinWritten ==
    ASSUME DispatchIInv, NEW w \in Workers, Pins(w), worker[w].job \in Jobs
    PROVE  /\ \A j \in Jobs : /\ delivery'[j].mark = delivery[j].mark
                              /\ delivery'[j].attempt = delivery[j].attempt
           /\ \A j \in Jobs : delivery'[j].pin # delivery[j].pin =>
                 j = worker[w].job /\ delivery[j].pin = None
  <1>1. delivery \in [Jobs -> Delivery] /\ \A j \in Jobs : delivery[j] \in Delivery
    BY DEF DispatchIInv, CallShape
  <1>2. ASSUME NEW j \in Jobs
        PROVE  /\ delivery'[j].mark = delivery[j].mark
               /\ delivery'[j].attempt = delivery[j].attempt
               /\ delivery'[j].pin # delivery[j].pin =>
                     j = worker[w].job /\ delivery[j].pin = None
    <2>1. CASE UNCHANGED delivery
      BY <2>1
    <2>2. CASE /\ delivery[worker[w].job].pin = None
               /\ delivery' = [delivery EXCEPT ![worker[w].job].pin = dispatch[w].contract]
      <3>1. CASE j # worker[w].job
        BY <1>1, <2>2, <3>1
      <3>2. CASE j = worker[w].job
        <4>1. delivery'[j] = [delivery[j] EXCEPT !.pin = dispatch[w].contract]
          BY <1>1, <2>2, <3>2
        <4> QED BY <1>1, <2>2, <3>2, <4>1 DEF Delivery
      <3> QED BY <3>1, <3>2
    <2> QED BY <2>1, <2>2 DEF Pins
  <1> QED BY <1>2

\* No fresh run finds its own attempt on the delivery.
LEMMA MarkStep ==
    /\ DispatchIInv /\ CallPhase /\ RequeueBound = 0 /\ AttemptShape /\ MarkShape
    /\ [InboundNext]_allVars
    => MarkShape'
  <1> SUFFICES ASSUME DispatchIInv, CallPhase, RequeueBound = 0, AttemptShape, MarkShape,
                      [InboundNext]_allVars, NEW j \in Jobs,
                      delivery'[j].mark = "started"
               PROVE  /\ delivery'[j].attempt <= row'[j].attempts
                      /\ \A u \in Workers : worker'[u].job = j =>
                            /\ Fresh(u)' => delivery'[j].attempt # dispatch'[u].attempt
                            /\ worker'[u].phase = "refusing"
                               /\ row'[j].status = "running"
                               /\ row'[j].token = worker'[u].token
                                 => delivery'[j].attempt < row'[j].attempts
    BY DEF MarkShape, HoldsClaim
  <1> DEFINE Goal == /\ delivery'[j].attempt <= row'[j].attempts
                     /\ \A u \in Workers : worker'[u].job = j =>
                           /\ Fresh(u)' => delivery'[j].attempt # dispatch'[u].attempt
                           /\ worker'[u].phase = "refusing"
                              /\ row'[j].status = "running"
                              /\ row'[j].token = worker'[u].token
                                => delivery'[j].attempt < row'[j].attempts
  <1>0. /\ \A i \in Jobs : row[i].attempts \in Nat /\ delivery[i].attempt \in Nat
        /\ \A w \in Workers : /\ dispatch[w].attempt \in Nat
                              /\ Carrying(w) => worker[w].job \in Jobs
                              /\ Carrying(w) => worker[w].token # None
                              /\ Fresh(w) => Carrying(w)
    BY Carried
  <1>1. ASSUME delivery[j].mark = "started"
        PROVE  /\ delivery[j].attempt <= row[j].attempts
               /\ \A u \in Workers : worker[u].job = j =>
                     /\ Fresh(u) => delivery[j].attempt # dispatch[u].attempt
                     /\ worker[u].phase = "refusing"
                        /\ row[j].status = "running"
                        /\ row[j].token = worker[u].token
                          => delivery[j].attempt < row[j].attempts
    BY <1>1 DEF MarkShape, HoldsClaim
  <1>2. CASE UNCHANGED allVars
    <2>1. UNCHANGED <<delivery, row, worker, dispatch>>
      BY <1>2 DEF allVars, vars, inbound
    <2> QED BY <1>1, <2>1 DEF Fresh
  <1>3. ASSUME NEW w \in Workers, BrokerStep(w) PROVE Goal
    <2>1. Effect(w) /\ UNCHANGED <<row, worker>> /\ worker[w].phase = "handling"
          /\ worker[w].job \in Jobs
      BY <1>3, BrokerEffect DEF Effect, vars
    <2>2. \A v \in Workers : v # w => dispatch'[v] = dispatch[v]
      BY <2>1 DEF Effect
    <2>3. dispatch'[w].step \in Before =>
             /\ dispatch[w].step \in Before
             /\ dispatch'[w].attempt = dispatch[w].attempt
      BY <2>1 DEF Effect, Ends, Looks, Pins, TakesGate, Marks, Sends, Bounces, Unmarks,
                  Moves, Before
    <2>4. \A u \in Workers : Fresh(u)' =>
              Fresh(u) /\ dispatch'[u].attempt = dispatch[u].attempt
      BY <2>1, <2>2, <2>3 DEF Fresh
    <2>5. CASE delivery'[j].mark = delivery[j].mark
               /\ delivery'[j].attempt = delivery[j].attempt
      BY <1>1, <2>1, <2>4, <2>5
    <2>6. CASE Marks(w) /\ j = worker[w].job
      <3>1. delivery'[j].attempt = dispatch[w].attempt
        BY <2>1, <2>6, MarkWritten DEF Marks
      <3>2. Carrying(w) /\ dispatch[w].step = "marking" /\ dispatch'[w].step \notin Before
        BY <2>6 DEF Marks, Moves, Carrying, Before
      <3>3. /\ dispatch[w].attempt <= row[j].attempts
            /\ row[j].status = "running" =>
                  (row[j].token = worker[w].token
                     <=> dispatch[w].attempt = row[j].attempts)
        BY <2>6, <3>2 DEF AttemptShape
      <3>4. ASSUME NEW u \in Workers, worker'[u].job = j, Fresh(u)'
            PROVE  delivery'[j].attempt # dispatch'[u].attempt
        <4>1. u # w
          BY <2>1, <3>2, <3>4 DEF Fresh
        <4> QED BY <1>0, <2>1, <2>4, <2>6, <3>1, <3>2, <3>4, <4>1 DEF AttemptShape
      <3>5. ASSUME NEW u \in Workers, worker'[u].job = j, worker'[u].phase = "refusing",
                   row'[j].status = "running", row'[j].token = worker'[u].token
            PROVE  delivery'[j].attempt < row'[j].attempts
        <4>1. u # w /\ worker[u].token = row[j].token
          BY <2>1, <3>5
        <4>2. worker[w].token # row[j].token
          BY <1>0, <3>2, <4>1 DEF DispatchIInv, IInv, TokenShape
        <4> QED BY <1>0, <2>1, <3>1, <3>3, <3>5, <4>2
      <3> QED BY <2>1, <3>1, <3>3, <3>4, <3>5
    <2>7. CASE Marks(w) /\ j # worker[w].job
      BY <2>1, <2>5, <2>7, MarkWritten DEF Marks
    <2>8. CASE Unmarks(w)
      BY <2>1, <2>5, <2>8, MarkWritten DEF Unmarks
    <2>9. CASE Pins(w)
      BY <2>1, <2>5, <2>9, PinWritten
    <2>10. CASE UNCHANGED delivery
      BY <2>5, <2>10
    <2> QED BY <2>1, <2>6, <2>7, <2>8, <2>9, <2>10
            DEF Effect, Ends, Looks, TakesGate, Sends, Bounces
  <1> HIDE DEF Goal
  <1>4. ASSUME OffBroker, CarriersKept,
               \/ RowCalm(j)
               \/ /\ row'[j].attempts = row[j].attempts - 1 /\ row'[j].status = "queued"
                  /\ delivery[j].mark = "started" => delivery[j].attempt < row[j].attempts
        PROVE  Goal
    <2>1. delivery[j].mark = "started" /\ delivery'[j].attempt = delivery[j].attempt
      BY <1>4, DeliveriesKeptStep DEF DeliveriesKept
    <2>2. delivery'[j].attempt <= row'[j].attempts
      BY <1>0, <1>1, <1>4, <2>1 DEF RowCalm
    <2>3. ASSUME NEW u \in Workers, worker'[u].job = j, Fresh(u)'
          PROVE  delivery'[j].attempt # dispatch'[u].attempt
      <3>1. Carrying(u)'
        BY <2>3 DEF Fresh, Carrying, Before
      <3>2. /\ Fresh(u) /\ worker[u].job = j
            /\ dispatch'[u].attempt = dispatch[u].attempt
        BY <1>4, <2>3, <3>1 DEF CarriersKept
      <3> QED BY <1>1, <2>1, <3>2
    <2>4. ASSUME NEW u \in Workers, worker'[u].job = j, worker'[u].phase = "refusing",
                 row'[j].status = "running", row'[j].token = worker'[u].token
          PROVE  delivery'[j].attempt < row'[j].attempts
      <3>1. /\ row[j].status = "running" /\ row'[j].token = row[j].token
            /\ row'[j].attempts = row[j].attempts
        BY <1>4, <2>4 DEF RowCalm
      <3>2. /\ worker[u].job = j /\ worker[u].token = row[j].token
            /\ \/ worker[u].phase = "refusing" \/ worker[u].phase = "admitting"
        BY <1>4, <2>4, <3>1 DEF CarriersKept
      <3>3. CASE worker[u].phase = "refusing"
        BY <1>1, <2>1, <3>1, <3>2, <3>3
      <3>4. CASE worker[u].phase = "admitting"
        <4>1. Fresh(u) /\ Carrying(u)
          BY <3>4 DEF Fresh, Carrying
        <4>2. dispatch[u].attempt = row[j].attempts
          BY <3>1, <3>2, <4>1 DEF AttemptShape
        <4>3. delivery[j].attempt # dispatch[u].attempt
              /\ delivery[j].attempt <= row[j].attempts
          BY <1>1, <2>1, <3>2, <4>1
        <4> QED BY <1>0, <2>1, <3>1, <4>2, <4>3
      <3> QED BY <3>2, <3>3, <3>4
    <2> QED BY <2>2, <2>3, <2>4 DEF Goal
  <1>5. CASE QueueStep \/ EndpointStep
    BY <1>4, <1>5, QueueCalm, EndpointCalm DEF OffBroker, Goal
  <1>6. ASSUME NEW w \in Workers, RunsStep(w), Refunds(w) PROVE Goal
    <2>1. /\ CarriersKept /\ worker[w].phase = "refusing"
          /\ HoldsClaim(worker[w].job, worker[w].token)
      BY <1>6 DEF Refunds
    <2>2. CASE j # worker[w].job
      <3>1. RowCalm(j)
        BY <1>6, <2>2 DEF Refunds, RowCalm
      <3> QED BY <1>4, <1>6, <2>1, <3>1 DEF OffBroker
    <2>3. CASE j = worker[w].job
      <3>1. row'[j].attempts = row[j].attempts - 1 /\ row'[j].status = "queued"
        BY <1>6, <2>3 DEF Refunds
      <3>2. delivery[j].mark = "started" => delivery[j].attempt < row[j].attempts
        BY <1>1, <2>1, <2>3 DEF HoldsClaim
      <3> QED BY <1>4, <1>6, <2>1, <3>1, <3>2 DEF OffBroker
    <2> QED BY <2>2, <2>3
  <1>7. ASSUME NEW w \in Workers, NEW close \in Jobs \cup {None},
               NEW take \in Jobs \cup {None}, ClaimDelivery(w, close, take)
        PROVE  Goal
    <2>1. PICK t \in Tokens :
             /\ \A v \in Workers : worker[v].token # t
             /\ \A v \in Workers : v # w =>
                   worker'[v] = worker[v] /\ dispatch'[v] = dispatch[v]
             /\ \A i \in Jobs :
                   \/ i # take /\ row'[i] = row[i]
                   \/ /\ i # take /\ row'[i].status = "dead"
                      /\ row'[i].attempts = row[i].attempts
                   \/ /\ i = take /\ row'[i].token = t
                      /\ row'[i].attempts = row[i].attempts + 1
             /\ \/ take = None /\ worker' = worker /\ dispatch' = dispatch
                \/ /\ take \in Jobs /\ worker'[w].phase = "claimed"
                   /\ worker'[w].job = take /\ worker'[w].token = t
                   /\ dispatch'[w].step = "none"
                   /\ dispatch'[w].attempt = row'[take].attempts
      BY <1>7, ClaimFacts
    <2>2. UNCHANGED delivery
      BY <1>7 DEF ClaimDelivery
    <2>3. /\ delivery[j].mark = "started" /\ delivery[j].attempt <= row[j].attempts
          /\ delivery'[j].attempt = delivery[j].attempt
      BY <1>1, <2>2
    <2>4. /\ row'[j].attempts \in Nat /\ delivery[j].attempt <= row'[j].attempts
          /\ j = take => delivery[j].attempt < row'[j].attempts
      BY <1>0, <2>1, <2>3
    <2>5. ASSUME NEW u \in Workers, worker'[u] = worker[u], dispatch'[u] = dispatch[u],
                 worker'[u].job = j
          PROVE  /\ Fresh(u)' => delivery'[j].attempt # dispatch'[u].attempt
                 /\ worker'[u].phase = "refusing"
                    /\ row'[j].status = "running"
                    /\ row'[j].token = worker'[u].token
                      => delivery'[j].attempt < row'[j].attempts
      <3>1. Fresh(u)' => delivery'[j].attempt # dispatch'[u].attempt
        BY <1>1, <2>3, <2>5 DEF Fresh
      <3>2. ASSUME worker'[u].phase = "refusing", row'[j].status = "running",
                   row'[j].token = worker'[u].token
            PROVE  delivery'[j].attempt < row'[j].attempts
        <4>1. row'[j] = row[j]
          BY <2>1, <2>5, <3>2
        <4> QED BY <1>1, <2>3, <2>5, <3>2, <4>1
      <3> QED BY <3>1, <3>2
    <2>6. CASE take = None
      BY <2>1, <2>3, <2>4, <2>5, <2>6, QueueAssumption DEF Goal
    <2>7. CASE take \in Jobs
      <3>1. /\ worker'[w].job = take /\ worker'[w].phase = "claimed"
            /\ dispatch'[w].attempt = row'[take].attempts
        BY <2>1, <2>7, QueueAssumption
      <3>2. worker'[w].job = j => delivery'[j].attempt # dispatch'[w].attempt
        <4> SUFFICES ASSUME take = j PROVE delivery'[j].attempt # dispatch'[w].attempt
          BY <3>1
        <4> QED BY <1>0, <2>3, <2>4, <3>1
      <3> QED BY <2>1, <2>3, <2>4, <2>5, <3>1, <3>2 DEF Goal
    <2> QED BY <2>6, <2>7
  <1>8. ASSUME NEW w \in Workers, RunsStep(w) PROVE Goal
    BY <1>4, <1>6, <1>7, <1>8, RunsCalm DEF OffBroker
  <1> QED BY <1>2, <1>3, <1>5, <1>8 DEF InboundNext, HandlerStep, RunsStep, Goal

\* What the requests of every job are counted in
ReachedInt == reached \in [Jobs -> Int]

\* Only a request that leaves, or one the limiter refused, is counted.
LEMMA ReachedKept ==
    ASSUME OffBroker PROVE UNCHANGED reached
  <1>1. QueueStep => UNCHANGED reached
    BY DEF QueueStep, inbound
  <1>2. EndpointStep => UNCHANGED reached
    BY DEF EndpointStep, RevokeBegins, RevokeEnds, Republish, Admit,
           AdmissionEnds, PurgeBody, RecordDelivery
  <1>3. \A w \in Workers : RunsStep(w) => UNCHANGED reached
    BY DEF RunsStep, ClaimDelivery, NotStarted, StartDispatch, Finish, FinishFails,
           CommitDelivery, CrashDispatch
  <1> QED BY <1>1, <1>2, <1>3 DEF OffBroker

\* What a step of the broker counts, and what it writes of pins and marks.
LEMMA BrokerRecords ==
    ASSUME DispatchIInv, ReachedInt, NEW w \in Workers, Effect(w)
    PROVE  /\ ReachedInt'
           /\ \/ UNCHANGED reached
              \/ /\ Sends(w) /\ reached'[worker[w].job] = reached[worker[w].job] + 1
              \/ /\ Bounces(w) /\ reached'[worker[w].job] = reached[worker[w].job] - 1
           /\ \A i \in Jobs : i # worker[w].job =>
                 reached'[i] = reached[i] /\ delivery'[i] = delivery[i]
           /\ \A i \in Jobs : delivery'[i].pin # delivery[i].pin =>
                 /\ Pins(w) /\ i = worker[w].job /\ delivery[i].pin = None
           /\ ~Marks(w) /\ ~Unmarks(w) =>
                 \A i \in Jobs : /\ delivery'[i].mark = delivery[i].mark
                                 /\ delivery'[i].attempt = delivery[i].attempt
  <1>0. worker[w].job \in Jobs
    BY DEF Effect
  <1>1. CASE Sends(w)
    <2>1. /\ reached' = [reached EXCEPT ![worker[w].job] = @ + 1] /\ UNCHANGED delivery
      BY <1>1 DEF Sends
    <2>2. ReachedInt' /\ reached'[worker[w].job] = reached[worker[w].job] + 1
          /\ \A i \in Jobs : i # worker[w].job => reached'[i] = reached[i]
      BY <1>0, <2>1 DEF ReachedInt
    <2> QED BY <1>1, <2>1, <2>2
  <1>2. CASE Bounces(w)
    <2>1. /\ reached' = [reached EXCEPT ![worker[w].job] = @ - 1] /\ UNCHANGED delivery
      BY <1>2 DEF Bounces
    <2>2. ReachedInt' /\ reached'[worker[w].job] = reached[worker[w].job] - 1
          /\ \A i \in Jobs : i # worker[w].job => reached'[i] = reached[i]
      BY <1>0, <2>1 DEF ReachedInt
    <2> QED BY <1>2, <2>1, <2>2
  <1>3. CASE Marks(w) \/ Unmarks(w)
    <2>1. UNCHANGED reached
      BY <1>3 DEF Marks, Unmarks
    <2>2. \E m : WritesMark(w, m)
      BY <1>3 DEF Marks, Unmarks
    <2>3. \A i \in Jobs : delivery'[i].pin = delivery[i].pin
          /\ (i # worker[w].job => delivery'[i] = delivery[i])
      BY <1>0, <2>2, MarkWritten
    <2> QED BY <1>3, <2>1, <2>3 DEF ReachedInt
  <1>4. CASE Pins(w)
    <2>1. UNCHANGED reached
      BY <1>4 DEF Pins
    <2>2. \A i \in Jobs : i # worker[w].job => delivery'[i] = delivery[i]
      BY <1>0, <1>4 DEF Pins, DispatchIInv, CallShape
    <2> QED BY <1>0, <1>4, <2>1, <2>2, PinWritten DEF ReachedInt
  <1>5. CASE Ends(w) \/ Looks(w) \/ TakesGate(w)
    BY <1>5 DEF Ends, Looks, TakesGate, ReachedInt
  <1> QED BY <1>1, <1>2, <1>3, <1>4, <1>5 DEF Effect

\* A step outside the broker keeps the calls that are past their beginning.
LEMMA CallsPast ==
    ASSUME DispatchIInv, CallPhase, OffBroker, NEW v \in Workers,
           dispatch'[v].step \notin {"none", "resolve"}
    PROVE  /\ dispatch'[v] = dispatch[v] /\ worker'[v] = worker[v]
           /\ worker[v].job \in Jobs
  <1>1. dispatch'[v] = dispatch[v] /\ worker'[v] = worker[v]
    BY CallsKeptStep DEF CallsKept
  <1>2. worker[v].phase = "handling"
    BY <1>1 DEF CallPhase
  <1> QED BY <1>1, <1>2 DEF DispatchIInv, IInv, WorkerShape, Busy, Phase, InTransaction

\* A call keeps the contract that its delivery is pinned to.
LEMMA PinStep ==
    /\ DispatchIInv /\ CallPhase /\ ReachedInt /\ PinShape /\ [InboundNext]_allVars
    => PinShape'
  <1> SUFFICES ASSUME DispatchIInv, CallPhase, ReachedInt, PinShape,
                      [InboundNext]_allVars
               PROVE  PinShape'
    OBVIOUS
  <1> DEFINE Late == {"execute", "discover", "fence", "mark", "marking", "recheck"}
                     \cup Out
  <1>0. \A w \in Workers : dispatch[w].step \in Late => worker[w].job \in Jobs
    BY DEF CallPhase, Out, DispatchIInv, IInv, WorkerShape, Busy, Phase, InTransaction
  <1>1. CASE UNCHANGED allVars
    BY <1>1 DEF allVars, vars, inbound, PinShape
  <1>2. CASE OffBroker
    <2>1. ASSUME NEW w \in Workers, dispatch'[w].step \in Late
          PROVE  /\ dispatch'[w].contract \in Contracts
                 /\ delivery'[worker'[w].job].pin = dispatch'[w].contract
      <3>1. /\ dispatch'[w] = dispatch[w] /\ worker'[w] = worker[w]
            /\ worker[w].job \in Jobs
        BY <1>2, <2>1, CallsPast DEF Out
      <3>2. delivery'[worker[w].job].pin = delivery[worker[w].job].pin
        BY <1>2, <3>1, DeliveriesKeptStep DEF DeliveriesKept
      <3> QED BY <2>1, <3>1, <3>2 DEF PinShape
    <2>2. ASSUME NEW j \in Jobs, reached'[j] # 0 PROVE delivery'[j].pin \in Contracts
      BY <1>2, <2>2, DeliveriesKeptStep, ReachedKept DEF DeliveriesKept, PinShape
    <2> QED BY <2>1, <2>2 DEF PinShape
  <1>3. ASSUME NEW w \in Workers, BrokerStep(w) PROVE PinShape'
    <2> DEFINE j == worker[w].job
    <2>1. /\ Effect(w) /\ j \in Jobs /\ worker' = worker
          /\ \A v \in Workers : v # w => dispatch'[v] = dispatch[v]
      BY <1>3, BrokerEffect DEF Effect, vars
    <2>2. \A i \in Jobs : delivery[i].pin \in Contracts => delivery'[i].pin = delivery[i].pin
      BY <2>1, BrokerRecords, DispatchAssumption
    <2>3. ASSUME dispatch'[w].step \in Late
          PROVE  /\ dispatch'[w].contract \in Contracts
                 /\ delivery'[j].pin = dispatch'[w].contract
      <3>1. /\ dispatch'[w].contract = dispatch[w].contract
            /\ \/ dispatch[w].step \in Late
               \/ delivery[j].pin # None /\ delivery[j].pin = dispatch[w].contract
        BY <2>1, <2>3 DEF Effect, Ends, Looks, Pins, TakesGate, Marks, Sends, Bounces,
                          Unmarks, Moves, Out
      <3>2. delivery[j].pin \in Contracts \cup {None}
        BY <2>1 DEF DispatchIInv, CallShape, Delivery
      <3>3. delivery[j].pin \in Contracts /\ delivery[j].pin = dispatch[w].contract
        BY <3>1, <3>2 DEF PinShape
      <3> QED BY <2>1, <2>2, <3>1, <3>3
    <2>4. ASSUME NEW v \in Workers, dispatch'[v].step \in Late
          PROVE  /\ dispatch'[v].contract \in Contracts
                 /\ delivery'[worker'[v].job].pin = dispatch'[v].contract
      <3>1. CASE v = w
        BY <2>1, <2>3, <2>4, <3>1
      <3>2. CASE v # w
        <4>1. /\ dispatch'[v] = dispatch[v] /\ worker[v].job \in Jobs
              /\ dispatch[v].contract \in Contracts
              /\ delivery[worker[v].job].pin = dispatch[v].contract
          BY <1>0, <2>1, <2>4, <3>2 DEF PinShape
        <4> QED BY <2>1, <2>2, <4>1
      <3> QED BY <3>1, <3>2
    <2>5. ASSUME NEW i \in Jobs, reached'[i] # 0 PROVE delivery'[i].pin \in Contracts
      <3>1. reached[i] # 0 \/ (i = j /\ dispatch[w].step \in Out)
        BY <2>1, <2>5, BrokerRecords DEF Sends, Bounces, Moves, Out
      <3>2. delivery[i].pin \in Contracts
        BY <3>1 DEF PinShape
      <3> QED BY <2>2, <3>2
    <2> QED BY <2>4, <2>5 DEF PinShape
  <1> QED BY <1>1, <1>2, <1>3 DEF InboundNext, HandlerStep, OffBroker, RunsStep

\* A mark is decided under the claim, so no earlier run reads one back with a
\* later attempt.
LEMMA MarkingStep ==
    /\ DispatchIInv /\ CallPhase /\ AttemptShape /\ GateShape /\ MarkingLast
    /\ [InboundNext]_allVars
    => MarkingLast'
  <1> SUFFICES ASSUME DispatchIInv, CallPhase, AttemptShape, GateShape, MarkingLast,
                      [InboundNext]_allVars, NEW v \in Workers, NEW u \in Workers,
                      dispatch'[v].step = "marking", dispatch'[u].step = "recheck",
                      worker'[v].job = worker'[u].job
               PROVE  dispatch'[u].attempt < dispatch'[v].attempt
    BY DEF MarkingLast
  <1>0. /\ \A j \in Jobs : row[j].attempts \in Nat
        /\ \A w \in Workers : /\ dispatch[w].attempt \in Nat
                              /\ Carrying(w) => worker[w].job \in Jobs
    BY Carried
  <1>1. CASE UNCHANGED allVars
    BY <1>1 DEF allVars, vars, inbound, MarkingLast
  <1>2. CASE OffBroker
    BY <1>2, CallsPast DEF MarkingLast
  <1>3. ASSUME NEW w \in Workers, BrokerStep(w)
        PROVE  dispatch'[u].attempt < dispatch'[v].attempt
    <2>1. /\ Effect(w) /\ worker' = worker
          /\ \A x \in Workers : x # w => dispatch'[x] = dispatch[x]
      BY <1>3, BrokerEffect DEF Effect, vars
    <2>2. CASE v # w /\ u # w
      BY <2>1, <2>2 DEF MarkingLast
    <2>3. CASE v = w
      <3>1. /\ TakesGate(w) /\ u # w
        BY <2>1, <2>3 DEF Effect, Ends, Looks, Pins, Marks, Sends, Bounces, Unmarks,
                          Moves
      <3>2. /\ dispatch[w].step = "mark" /\ dispatch'[w].attempt = dispatch[w].attempt
            /\ row[worker[w].job].attempts = dispatch[w].attempt
        BY <3>1 DEF TakesGate, Moves, Resolvable, ClaimLive
      <3>3. /\ Carrying(u) /\ Carrying(w) /\ worker[u].job = worker[w].job
            /\ dispatch'[u] = dispatch[u]
        BY <2>1, <2>3, <3>1, <3>2 DEF Carrying
      <3>4. /\ dispatch[u].attempt <= row[worker[u].job].attempts
            /\ dispatch[u].attempt # dispatch[w].attempt
        BY <3>1, <3>3 DEF AttemptShape
      <3> QED BY <1>0, <2>3, <3>2, <3>3, <3>4
    <2>4. CASE u = w /\ v # w
      <3>1. Marks(w) /\ dispatch[v].step = "marking"
        BY <2>1, <2>4 DEF Effect, Ends, Looks, Pins, TakesGate, Sends, Bounces, Unmarks,
                          Moves
      <3> QED BY <2>4, <3>1 DEF Marks, Moves, GateShape
    <2> QED BY <2>2, <2>3, <2>4
  <1> QED BY <1>1, <1>2, <1>3 DEF InboundNext, HandlerStep, OffBroker, RunsStep

\* What no step of interest touches stays as it was.
LEMMA FiredKept ==
    ASSUME NEW j \in Jobs, FiredAt(j), reached'[j] = reached[j],
           delivery'[j].mark = delivery[j].mark,
           delivery'[j].attempt = delivery[j].attempt,
           \A u \in Workers :
              /\ worker'[u].job = j
              /\ dispatch'[u].step \in {"mark", "marking", "recheck"} \cup Out
              => /\ worker[u].job = j /\ dispatch'[u].step = dispatch[u].step
                 /\ dispatch'[u].attempt = dispatch[u].attempt
    PROVE  FiredAt(j)'
  BY DEF FiredAt, Fired, Out

\* The request that may leave does so under the mark of its own attempt, and
\* nobody follows it.
LEMMA FiredBroker ==
    ASSUME DispatchIInv, CallPhase, ReachedInt, GateShape, AttemptShape, MarkShape,
           PinShape, MarkingLast, FiredShape, NEW w \in Workers, Effect(w),
           NEW j, j = worker[w].job, delivery'[j].pin \in Contracts \ Safe
    PROVE  FiredAt(j)'
  <1>0. /\ j \in Jobs /\ worker' = worker /\ row' = row
        /\ \A v \in Workers : v # w => dispatch'[v] = dispatch[v]
    BY DEF Effect, vars
  <1>1. /\ row[j].attempts \in Nat /\ delivery[j].attempt \in Nat
        /\ \A v \in Workers : dispatch[v].attempt \in Nat
        /\ reached[j] \in Int
    BY <1>0, Carried DEF ReachedInt
  <1>2. CASE delivery'[j].pin # delivery[j].pin
    <2>1. Pins(w) /\ delivery[j].pin = None
      BY <1>0, <1>2, BrokerRecords
    <2>2. /\ reached[j] = 0
          /\ \A v \in Workers : worker[v].job = j => dispatch[v].step \notin Out
      BY <1>0, <2>1, DispatchAssumption DEF PinShape
    <2>3. /\ reached' = reached /\ dispatch'[w].step = "pinned"
      BY <2>1 DEF Pins, Moves
    <2>4. \A v \in Workers : worker'[v].job = j => dispatch'[v].step \notin Out
      BY <1>0, <2>2, <2>3 DEF Out
    <2> QED BY <2>2, <2>3, <2>4 DEF FiredAt, Fired, Out
  <1>3. CASE delivery'[j].pin = delivery[j].pin
    <2>1. FiredAt(j)
      BY <1>0, <1>3 DEF FiredShape
    <2>2. ASSUME ~Fired(j)', reached'[j] = 0 PROVE FiredAt(j)'
      BY <2>2 DEF FiredAt, Fired, Out
    <2>3. ASSUME dispatch'[w].step \notin {"mark", "marking", "recheck"} \cup Out,
                 reached'[j] = reached[j], delivery'[j].mark = delivery[j].mark,
                 delivery'[j].attempt = delivery[j].attempt
          PROVE  FiredAt(j)'
      BY <1>0, <2>1, <2>3, FiredKept
    <2>4. ASSUME ~Fired(j), reached' = reached, dispatch'[w].step \notin Out
          PROVE  FiredAt(j)'
      <3>1. reached[j] = 0 /\ ~Fired(j)'
        BY <1>0, <2>4 DEF Fired
      <3> QED BY <2>2, <2>4, <3>1
    <2>5. ASSUME dispatch[w].step \in Out
          PROVE  /\ Fired(j) /\ delivery[j].mark = "started"
                 /\ dispatch[w].attempt = delivery[j].attempt
                 /\ \A v \in Workers : v # w /\ worker[v].job = j =>
                       dispatch[v].step \notin Out
      <3>1. Fired(j)
        BY <2>5 DEF Fired
      <3>2. /\ delivery[j].mark = "started"
            /\ \A v \in Workers : worker[v].job = j /\ dispatch[v].step \in Out =>
                  dispatch[v].attempt = delivery[j].attempt
        BY <2>1, <3>1 DEF FiredAt
      <3>3. \A v \in Workers : dispatch[v].step \in Out => Carrying(v)
        BY DEF Carrying, Out
      <3> QED BY <2>5, <3>1, <3>2, <3>3 DEF AttemptShape
    <2>6. CASE Ends(w)
      BY <2>3, <2>6 DEF Ends, Out
    <2>7. CASE Pins(w)
      <3>1. /\ delivery'[j].mark = delivery[j].mark
            /\ delivery'[j].attempt = delivery[j].attempt
        BY <1>0, <2>7, PinWritten
      <3> QED BY <2>3, <2>7, <3>1 DEF Pins, Moves, Out
    <2>8. CASE TakesGate(w)
      <3>1. /\ dispatch[w].step = "mark" /\ dispatch'[w].step = "marking"
            /\ row[j].attempts = dispatch[w].attempt /\ reached' = reached
        BY <2>8 DEF TakesGate, Moves, Resolvable, ClaimLive
      <3>2. ~Fired(j)
        <4> SUFFICES ASSUME Fired(j) PROVE FALSE
          OBVIOUS
        <4>1. delivery[j].mark = "started" /\ dispatch[w].attempt < delivery[j].attempt
          BY <2>1, <3>1 DEF FiredAt
        <4>2. delivery[j].attempt <= row[j].attempts
          BY <1>0, <4>1 DEF MarkShape
        <4> QED BY <1>1, <3>1, <4>1, <4>2
      <3> QED BY <2>4, <3>1, <3>2 DEF Out
    <2>9. CASE Marks(w)
      <3>1. /\ dispatch[w].step = "marking" /\ dispatch'[w].step \in {"recheck", "finish"}
            /\ reached' = reached
        BY <2>9 DEF Marks, Moves
      <3>2. ~Fired(j)
        BY <2>1, <3>1 DEF FiredAt
      <3> QED BY <2>4, <3>1, <3>2 DEF Out
    <2>10. CASE Looks(w)
      <3>0. UNCHANGED <<delivery, reached>>
        BY <2>10 DEF Looks
      <3>1. CASE dispatch'[w].step \notin {"mark", "marking", "recheck"} \cup Out
        BY <2>3, <3>0, <3>1
      <3>2. CASE Moves(w, "fence", "mark") /\ ~Uncertain(w)
                 /\ delivery[j].pin = dispatch[w].contract
        <4>1. dispatch[w].step = "fence" /\ dispatch'[w].step = "mark"
          BY <3>2 DEF Moves
        <4>2. dispatch[w].contract \notin Safe
          BY <1>3, <3>2
        <4>3. ~Fired(j)
          <5> SUFFICES ASSUME Fired(j) PROVE FALSE
            OBVIOUS
          <5>1. delivery[j].mark = "started"
            BY <2>1 DEF FiredAt
          <5>2. delivery[j].attempt # dispatch[w].attempt
            BY <1>0, <4>1, <5>1 DEF MarkShape, Fresh, Before
          <5> QED BY <3>2, <4>2, <5>1, <5>2 DEF Uncertain, Prior
        <4> QED BY <2>4, <3>0, <4>1, <4>3 DEF Out
      <3>3. CASE /\ Moves(w, "recheck", "send") /\ Resolvable(w)
                 /\ delivery[j].mark = "started"
                 /\ delivery[j].attempt = dispatch[w].attempt
        <4>1. /\ dispatch[w].step = "recheck" /\ dispatch'[w].step = "send"
              /\ dispatch'[w].attempt = dispatch[w].attempt
              /\ row[j].attempts = dispatch[w].attempt
          BY <3>3 DEF Moves, Resolvable, ClaimLive
        <4>2. ~Fired(j)
          <5> SUFFICES ASSUME Fired(j) PROVE FALSE
            OBVIOUS
          <5>1. dispatch[w].attempt < delivery[j].attempt
            BY <2>1, <4>1 DEF FiredAt
          <5> QED BY <1>1, <3>3, <5>1
        <4>3. /\ reached'[j] = 0
              /\ \A v \in Workers : v # w /\ worker[v].job = j => dispatch[v].step \notin Out
          BY <3>0, <4>2 DEF Fired
        <4>4. ASSUME NEW v \in Workers, v # w, worker[v].job = j,
                     dispatch[v].step \in {"mark", "marking", "recheck"}
              PROVE  dispatch[v].attempt < delivery[j].attempt
          <5>1. Carrying(v) /\ Carrying(w)
            BY <4>1, <4>4 DEF Carrying
          <5>2. /\ dispatch[v].attempt <= row[j].attempts
                /\ dispatch[v].attempt # dispatch[w].attempt
            BY <4>4, <5>1 DEF AttemptShape
          <5> QED BY <1>1, <3>3, <4>1, <5>2
        <4>5. ASSUME NEW v \in Workers, v # w, worker[v].job = j
              PROVE  dispatch[v].step # "marking"
          <5> SUFFICES ASSUME dispatch[v].step = "marking" PROVE FALSE
            OBVIOUS
          <5>1. dispatch[w].attempt < dispatch[v].attempt
            BY <4>1, <4>5 DEF MarkingLast
          <5>2. dispatch[v].attempt < delivery[j].attempt
            BY <4>4, <4>5
          <5> QED BY <1>1, <3>3, <5>1, <5>2
        <4>6. ASSUME NEW v \in Workers, worker'[v].job = j
              PROVE  /\ dispatch'[v].step \in Out =>
                           v = w /\ dispatch'[v].attempt = delivery'[j].attempt
                     /\ dispatch'[v].step \in {"mark", "recheck"} =>
                           dispatch'[v].attempt < delivery'[j].attempt
                     /\ dispatch'[v].step # "marking"
          <5>1. CASE v = w
            BY <3>0, <3>3, <4>1, <5>1 DEF Out
          <5>2. CASE v # w
            BY <1>0, <3>0, <4>3, <4>4, <4>5, <4>6, <5>2
          <5> QED BY <5>1, <5>2
        <4> QED BY <3>0, <3>3, <4>1, <4>3, <4>6 DEF FiredAt, Out
      <3>4. CASE Moves(w, "limited", "send") \/ Moves(w, "limited", "unmark")
        <4>1. /\ dispatch[w].step = "limited" /\ dispatch'[w].step \in {"send", "unmark"}
              /\ dispatch'[w].attempt = dispatch[w].attempt
          BY <3>4 DEF Moves
        <4>2. Fired(j) /\ reached[j] = 0
          BY <2>1, <4>1 DEF Fired, FiredAt, Out
        <4>3. /\ delivery[j].mark = "started"
              /\ dispatch[w].attempt = delivery[j].attempt
          BY <2>5, <4>1 DEF Out
        <4>4. ASSUME NEW v \in Workers, worker'[v].job = j
              PROVE  /\ dispatch'[v].step # "sent"
                     /\ dispatch'[v].step \in Out => dispatch'[v].attempt = delivery[j].attempt
                     /\ dispatch'[v].step \in {"mark", "recheck"} =>
                           dispatch'[v].attempt < delivery[j].attempt
                     /\ dispatch'[v].step # "marking"
          <5>1. CASE v = w
            BY <4>1, <4>3, <5>1
          <5>2. CASE v # w
            BY <1>0, <2>1, <4>2, <4>4, <5>2 DEF FiredAt
          <5> QED BY <5>1, <5>2
        <4> QED BY <3>0, <4>2, <4>3, <4>4 DEF FiredAt, Out
      <3> QED BY <2>10, <3>1, <3>2, <3>3, <3>4 DEF Looks, Moves, Out
    <2>11. CASE Sends(w) \/ Bounces(w)
      <3>1. /\ dispatch[w].step \in Out /\ dispatch'[w].attempt = dispatch[w].attempt
            /\ UNCHANGED delivery
            /\ \/ /\ dispatch[w].step = "send" /\ dispatch'[w].step = "sent"
                  /\ reached'[j] = reached[j] + 1
               \/ /\ dispatch[w].step = "sent" /\ dispatch'[w].step = "limited"
                  /\ reached'[j] = reached[j] - 1
        <4>1. ReachedInt /\ j = worker[w].job
          OBVIOUS
        <4> QED BY <1>0, <2>11, <4>1 DEF Sends, Bounces, Moves, Out, ReachedInt
      <3>2. \/ dispatch'[w].step = "sent" /\ reached'[j] = 1
            \/ dispatch'[w].step = "limited" /\ reached'[j] = 0
        BY <1>0, <2>1, <3>1 DEF FiredAt
      <3>3. /\ Fired(j) /\ delivery[j].mark = "started"
            /\ dispatch[w].attempt = delivery[j].attempt
            /\ \A v \in Workers : v # w /\ worker[v].job = j => dispatch[v].step \notin Out
        BY <2>5, <3>1
      <3>4. ASSUME NEW v \in Workers, worker'[v].job = j
            PROVE  /\ dispatch'[v].step \in Out =>
                         v = w /\ dispatch'[v].attempt = delivery[j].attempt
                   /\ dispatch'[v].step \in {"mark", "recheck"} =>
                         dispatch'[v].attempt < delivery[j].attempt
                   /\ dispatch'[v].step # "marking"
        <4>1. CASE v = w
          BY <3>1, <3>2, <3>3, <4>1
        <4>2. CASE v # w
          BY <1>0, <2>1, <3>3, <3>4, <4>2 DEF FiredAt
        <4> QED BY <4>1, <4>2
      <3> QED BY <3>1, <3>2, <3>3, <3>4 DEF FiredAt, Out
    <2>12. CASE Unmarks(w)
      <3>1. dispatch[w].step = "unmark" /\ dispatch'[w].step = "finish"
            /\ reached' = reached
        BY <2>12 DEF Unmarks
      <3>2. /\ reached[j] = 0
            /\ \A v \in Workers : v # w /\ worker[v].job = j => dispatch[v].step \notin Out
        BY <1>0, <2>1, <2>5, <3>1 DEF FiredAt, Out
      <3>3. ~Fired(j)'
        BY <1>0, <3>1, <3>2 DEF Fired, Out
      <3> QED BY <2>2, <3>1, <3>2, <3>3
    <2> QED BY <2>6, <2>7, <2>8, <2>9, <2>10, <2>11, <2>12 DEF Effect
  <1> QED BY <1>2, <1>3

\* Once an unsafe request may leave, every step keeps it the only one.
LEMMA FiredStep ==
    /\ DispatchIInv /\ CallPhase /\ ReachedInt /\ GateShape /\ AttemptShape /\ MarkShape
    /\ PinShape /\ MarkingLast /\ FiredShape /\ [InboundNext]_allVars
    => FiredShape'
  <1> SUFFICES ASSUME DispatchIInv, CallPhase, ReachedInt, GateShape, AttemptShape,
                      MarkShape, PinShape, MarkingLast, FiredShape,
                      [InboundNext]_allVars, NEW j \in Jobs,
                      delivery'[j].pin \in Contracts \ Safe
               PROVE  FiredAt(j)'
    BY DEF FiredShape
  <1>1. CASE UNCHANGED allVars
    <2>1. UNCHANGED <<delivery, reached, worker, dispatch>>
      BY <1>1 DEF allVars, vars, inbound
    <2> QED BY <2>1, FiredKept DEF FiredShape
  <1>2. CASE OffBroker
    <2>1. /\ delivery'[j].pin = delivery[j].pin /\ delivery'[j].mark = delivery[j].mark
          /\ delivery'[j].attempt = delivery[j].attempt /\ reached'[j] = reached[j]
      BY <1>2, DeliveriesKeptStep, ReachedKept DEF DeliveriesKept
    <2>2. FiredAt(j)
      BY <2>1 DEF FiredShape
    <2>3. \A u \in Workers :
             dispatch'[u].step \in {"mark", "marking", "recheck"} \cup Out =>
                dispatch'[u] = dispatch[u] /\ worker'[u] = worker[u]
      BY <1>2, CallsPast DEF Out
    <2> QED BY <2>1, <2>2, <2>3, FiredKept
  <1>3. ASSUME NEW w \in Workers, BrokerStep(w) PROVE FiredAt(j)'
    <2>1. Effect(w)
      BY <1>3, BrokerEffect
    <2>2. CASE j = worker[w].job
      BY <2>1, <2>2, FiredBroker
    <2>3. CASE j # worker[w].job
      <3>1. reached'[j] = reached[j] /\ delivery'[j] = delivery[j]
        BY <2>1, <2>3, BrokerRecords
      <3>2. /\ worker' = worker
            /\ \A v \in Workers : v # w => dispatch'[v] = dispatch[v]
        BY <2>1 DEF Effect, vars
      <3>3. FiredAt(j)
        BY <3>1 DEF FiredShape
      <3> QED BY <2>3, <3>1, <3>2, <3>3, FiredKept
    <2> QED BY <2>2, <2>3
  <1> QED BY <1>1, <1>2, <1>3 DEF InboundNext, HandlerStep, OffBroker, RunsStep

\* The invariants of this section together, over those of the settlement
OnceIInv == /\ SettleIInv /\ ReachedInt /\ AttemptShape /\ MarkShape /\ PinShape
            /\ MarkingLast /\ FiredShape

\* docs/inbound-deliveries.md: "a crashed worker does not double-dispatch
\* silently".  For any number of workers, jobs and contracts, across crashes,
\* expired leases, lost sessions, refunded attempts and limiter repeats, a write
\* that cannot be repeated reaches its Operation at most once, as long as no
\* operator requeues a stopped job (requeueJob is the operator's own decision to
\* run the job again).
THEOREM UnsafeOnce ==
    ASSUME RequeueBound = 0 PROVE InboundSpec => []UnsafeReachedOnce
  <1>1. InboundInit => ReachedInt /\ AttemptShape /\ MarkShape /\ PinShape
                       /\ MarkingLast /\ FiredShape
    <2> SUFFICES ASSUME InboundInit
                 PROVE  ReachedInt /\ AttemptShape /\ MarkShape /\ PinShape
                        /\ MarkingLast /\ FiredShape
      OBVIOUS
    <2>1. \A w \in Workers : dispatch[w].step = "none" /\ worker[w].phase = "idle"
      BY DEF InboundInit, Init, NoDispatch, IdleWorker
    <2>2. \A j \in Jobs : delivery[j].mark = "none" /\ delivery[j].pin = None
      BY DEF InboundInit, NoDelivery
    <2>3. ReachedInt /\ \A j \in Jobs : reached[j] = 0
      BY DEF InboundInit, ReachedInt
    <2>4. AttemptShape /\ MarkingLast /\ MarkShape
      BY <2>1, <2>2 DEF AttemptShape, MarkingLast, MarkShape, Carrying
    <2>5. PinShape /\ FiredShape
      BY <2>1, <2>2, <2>3, DispatchAssumption DEF PinShape, FiredShape, Out
    <2> QED BY <2>3, <2>4, <2>5
  <1>2. SettleIInv /\ OnceIInv /\ [InboundNext]_allVars /\ SettleIInv' => OnceIInv'
    <2> SUFFICES ASSUME SettleIInv, OnceIInv, [InboundNext]_allVars, SettleIInv'
                 PROVE  OnceIInv'
      OBVIOUS
    <2>1. /\ DispatchIInv /\ CallPhase /\ GateShape /\ ReachedInt /\ AttemptShape
          /\ MarkShape /\ PinShape /\ MarkingLast /\ FiredShape
      BY DEF OnceIInv, SettleIInv
    <2>2. ReachedInt'
      <3>1. CASE UNCHANGED allVars
        BY <2>1, <3>1 DEF allVars, inbound, ReachedInt
      <3>2. CASE OffBroker
        BY <2>1, <3>2, ReachedKept DEF ReachedInt
      <3>3. ASSUME NEW w \in Workers, BrokerStep(w) PROVE ReachedInt'
        BY <2>1, <3>3, BrokerEffect, BrokerRecords
      <3> QED BY <3>1, <3>2, <3>3 DEF InboundNext, HandlerStep, OffBroker, RunsStep
    <2>3. AttemptShape' /\ MarkShape'
      BY <2>1, AttemptStep, MarkStep
    <2>4. PinShape' /\ MarkingLast'
      BY <2>1, PinStep, MarkingStep
    <2>5. FiredShape'
      BY <2>1, FiredStep
    <2> QED BY <2>2, <2>3, <2>4, <2>5 DEF OnceIInv
  <1>3. SettleIInv /\ InboundInit => OnceIInv
    BY <1>1 DEF OnceIInv
  <1>4. OnceIInv => UnsafeReachedOnce
    BY DEF OnceIInv, FiredShape, FiredAt, UnsafeReachedOnce
  <1> QED BY <1>2, <1>3, <1>4, SettleInductive, PTL DEF InboundSpec
=============================================================================
