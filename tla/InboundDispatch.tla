-------------------------- MODULE InboundDispatch --------------------------
(***************************************************************************)
(* Inbound deliveries: an admitted webhook is recorded with a job in one   *)
(* transaction (modules/inbound-store.ts), and the job's handler turns it  *)
(* into at most a bounded number of requests to one Operation              *)
(* (jobs/inbound/dispatch.ts, operations/durable-worker.ts), against the   *)
(* table platform.inbound_deliveries (jobs/inbound/work.ts) and the        *)
(* revocation of the endpoint (modules/inbound-endpoint-gate.ts).          *)
(*                                                                         *)
(* The module composes with JobQueue: every step of the queue is a step of *)
(* JobQueue, the handler's run is refined into the steps of the broker.    *)
(* A delivery is named by its job.  One endpoint and one Operation are     *)
(* modelled; the Operation's published contract may change.                *)
(***************************************************************************)
EXTENDS JobQueue

CONSTANTS
    Contracts,        \* fingerprints of the Operation's contracts
    Safe,             \* safeToRepeat: keyed, natural or read-only
    Writes,           \* hasWriteEffects
    RequeueBound      \* bound: a stopped job is requeued while fewer requests
                      \* reached the Operation (0: never)

ASSUME DispatchAssumption ==
    /\ Safe \subseteq Contracts /\ Writes \subseteq Contracts
    /\ Contracts \ Safe \subseteq Writes
    /\ RequeueBound \in Nat
    /\ None \notin Contracts /\ None \notin HandlerOutcome

VARIABLES
    delivery,   \* platform.inbound_deliveries
    active,     \* the endpoint's registration is active
    revoking,   \* a revocation holds the endpoint's gate
    gate,       \* the worker whose mark holds the gate
    catalog,    \* the contract the catalog publishes
    dispatch,   \* the broker call each worker is in
    claims,     \* dispatchedUnsafeClaims of each process
    reached,    \* history: requests that may have reached the Operation
    admitting   \* deliveries verified, not yet recorded

inbound == <<delivery, active, revoking, gate, catalog, dispatch, claims,
             reached, admitting>>

allVars == <<vars, inbound>>

-----------------------------------------------------------------------------
(* The delivery row                                                        *)

Settlements == {"delivered", "failed", "outcome_unknown"}
OpenDelivery == {"pending", "dispatching"}

Delivery == [status : {"none"} \cup OpenDelivery \cup Settlements,
             key : Keys \cup {None}, pin : Contracts \cup {None},
             mark : {"none", "started", "not-dispatched"}, attempt : Nat,
             body : {"kept", "purged"}]

NoDelivery == [status |-> "none", key |-> None, pin |-> None,
               mark |-> "none", attempt |-> 0, body |-> "kept"]

\* The steps of one run of the handler, named for what comes next
Resolving == {"resolve", "pinned", "execute", "fence", "recheck"}
Step == Resolving \cup
        {"none", "catalog", "pin", "discover", "mark", "marking", "send",
         "sent", "limited", "unmark", "finish"}

Dispatch == [step : Step, attempt : Nat, pin : Contracts \cup {None},
             prior : BOOLEAN, contract : Contracts \cup {None},
             outcome : HandlerOutcome \cup {None}]

NoDispatch == [step |-> "none", attempt |-> 0, pin |-> None, prior |-> FALSE,
               contract |-> None, outcome |-> None]

InboundInit ==
    /\ Init
    /\ delivery = [j \in Jobs |-> NoDelivery]
    /\ active = TRUE
    /\ revoking = FALSE
    /\ gate = None
    /\ catalog \in Contracts
    /\ dispatch = [w \in Workers |-> NoDispatch]
    /\ claims = [w \in Workers |-> {}]
    /\ reached = [j \in Jobs |-> 0]
    /\ admitting = {}

-----------------------------------------------------------------------------
(* Admission, revocation, retention                                        *)

\* readEndpoint found the registration active and the signature held
Admit(j) ==
    /\ active
    /\ row[j].status = "absent"
    /\ j \notin admitting
    /\ admitting' = admitting \cup {j}
    /\ UNCHANGED <<vars, delivery, active, revoking, gate, catalog, dispatch,
                   claims, reached>>

\* recordDelivery: the receipt and its job, or neither; an equal key of a
\* delivery, which is never deleted, records nothing
RecordDelivery(j, key) ==
    /\ j \in admitting
    /\ \A i \in Jobs : delivery[i].key # key
    /\ Enqueue(j, key, TRUE)
    /\ delivery' = [delivery EXCEPT ![j].status = "pending", ![j].key = key]
    /\ admitting' = admitting \ {j}
    /\ UNCHANGED <<active, revoking, gate, catalog, dispatch, claims, reached>>

\* A duplicate, or a persist that failed: nothing is recorded
AdmissionEnds(j) ==
    /\ j \in admitting
    /\ admitting' = admitting \ {j}
    /\ UNCHANGED <<vars, delivery, active, revoking, gate, catalog, dispatch,
                   claims, reached>>

\* revokeInboundEndpoint: takes the gate, writes, and commits later
RevokeBegins ==
    /\ gate = None /\ ~revoking
    /\ revoking' = TRUE
    /\ UNCHANGED <<vars, delivery, active, gate, catalog, dispatch, claims,
                   reached, admitting>>

RevokeEnds(committed) ==
    /\ revoking
    /\ revoking' = FALSE
    /\ active' = (active /\ ~committed)
    /\ UNCHANGED <<vars, delivery, gate, catalog, dispatch, claims, reached,
                   admitting>>

\* purgeInboundDeliveryBodies: only completed deliveries
PurgeBody(j) ==
    /\ delivery[j].status \in Settlements
    /\ delivery[j].body = "kept"
    /\ delivery' = [delivery EXCEPT ![j].body = "purged"]
    /\ UNCHANGED <<vars, active, revoking, gate, catalog, dispatch, claims,
                   reached, admitting>>

\* The Operation is redeployed under another contract
Republish(c) ==
    /\ c # catalog
    /\ catalog' = c
    /\ UNCHANGED <<vars, delivery, active, revoking, gate, dispatch, claims,
                   reached, admitting>>

-----------------------------------------------------------------------------
(* The broker                                                              *)

Goto(w, s) == dispatch' = [dispatch EXCEPT ![w].step = s]

\* The broker answers; the handler settles the delivery as o
End(w, o) ==
    dispatch' = [dispatch EXCEPT ![w] =
        [NoDispatch EXCEPT !.step = "finish", !.outcome = o]]

\* Continue at s, unless there is a verdict to end with
Unless(w, verdict, s) == IF verdict = None THEN Goto(w, s) ELSE End(w, verdict)

\* The worker's attempt is the one the job row runs, under an unexpired lease,
\* and the endpoint is active
ClaimLive(w) ==
    LET j == worker[w].job
    IN  /\ row[j].status = "running"
        /\ row[j].attempts = dispatch[w].attempt
        /\ row[j].lease = "live"
        /\ active

\* claimedDelivery finds the delivery
Resolvable(w) ==
    ClaimLive(w) /\ delivery[worker[w].job].status \in OpenDelivery

\* priorDispatch of the work just resolved
Prior(w) ==
    /\ delivery[worker[w].job].mark = "started"
    /\ delivery[worker[w].job].attempt # dispatch[w].attempt

\* An unsafe contract that an earlier dispatch may already have performed
Uncertain(w) ==
    /\ dispatch[w].contract \notin Safe
    /\ Prior(w) \/ <<worker[w].job, dispatch[w].attempt>> \in claims[w]

\* Another transaction holds the lock of the delivery row: an uncommitted
\* mark, or a handler that settled it
DeliveryFree(w) ==
    \A v \in Workers \ {w} :
        worker[v].job = worker[w].job =>
            /\ dispatch[v].step # "marking"
            /\ ~(/\ worker[v].phase = "settling"
                 /\ worker[v].outcome # "retry"
                 /\ Locks(v))

GateFree == gate = None /\ ~revoking

\* What the steps of the broker leave alone
Queue == <<vars, active, revoking, catalog, admitting>>

At(w, s) == worker[w].phase = "handling" /\ dispatch[w].step = s

\* authorize: the first resolved()
Resolve(w) ==
    /\ At(w, "resolve")
    /\ Resolvable(w)
    /\ dispatch' = [dispatch EXCEPT ![w].step = "catalog",
                                    ![w].pin = delivery[worker[w].job].pin,
                                    ![w].prior = Prior(w)]
    /\ UNCHANGED <<Queue, delivery, gate, claims, reached>>

\* A resolved() that does not answer: nothing matched the claim, the payload
\* cannot be opened, no identity fits, or the capability is spent (failed); the
\* database did not answer, no keyring, or the capability expired (retry).  A
\* mark already written stays.
ResolveFails(w, o) ==
    /\ \E s \in Resolving : At(w, s)
    /\ End(w, o)
    /\ UNCHANGED <<Queue, delivery, gate, claims, reached>>

\* authorize: current(), the contract of the moment
Discover(w) ==
    /\ At(w, "catalog")
    /\ \/ /\ dispatch[w].pin \notin {None, catalog}
          /\ End(w, "failed")
       \/ /\ dispatch[w].pin = None /\ dispatch[w].prior /\ catalog \in Writes
          /\ End(w, "outcome_unknown")
       \/ /\ dispatch[w].pin \in {None, catalog}
          /\ ~(dispatch[w].pin = None /\ dispatch[w].prior /\ catalog \in Writes)
          /\ dispatch' = [dispatch EXCEPT ![w].step = "pin",
                            ![w].contract = catalog, ![w].pin = None,
                            ![w].prior = FALSE]
    /\ UNCHANGED <<Queue, delivery, gate, claims, reached>>

\* current() fails for now (retry) or for good (failed)
DiscoverFails(w, o) ==
    /\ At(w, "catalog") \/ At(w, "discover")
    /\ End(w, o)
    /\ UNCHANGED <<Queue, delivery, gate, claims, reached>>

\* pinOperationContract writes the pin once; whatever it answers is ignored
Pin(w) ==
    /\ At(w, "pin")
    /\ Goto(w, "pinned")
    /\ \/ /\ ClaimLive(w)
          /\ DeliveryFree(w)
          /\ delivery[worker[w].job].pin = None
          /\ delivery' = [delivery EXCEPT
                            ![worker[w].job].pin = dispatch[w].contract]
       \/ UNCHANGED delivery
    /\ UNCHANGED <<Queue, gate, claims, reached>>

\* authorize: the second resolved(), and the capability is minted
Pinned(w) ==
    LET pin == delivery[worker[w].job].pin
    IN  /\ At(w, "pinned")
        /\ Resolvable(w)
        /\ Unless(w, IF pin = None THEN "retry"
                     ELSE IF pin # dispatch[w].contract THEN "failed"
                     ELSE IF Uncertain(w) THEN "outcome_unknown"
                     ELSE None, "execute")
        /\ UNCHANGED <<Queue, delivery, gate, claims, reached>>

\* execute: the third resolved()
Execute(w) ==
    /\ At(w, "execute")
    /\ Resolvable(w)
    /\ Unless(w, IF delivery[worker[w].job].pin # dispatch[w].contract
                 THEN "failed" ELSE None, "discover")
    /\ UNCHANGED <<Queue, delivery, gate, claims, reached>>

\* execute: current() again, with a new token
Rediscover(w) ==
    /\ At(w, "discover")
    /\ Unless(w, IF catalog # dispatch[w].contract THEN "failed" ELSE None,
              "fence")
    /\ UNCHANGED <<Queue, delivery, gate, claims, reached>>

\* execute: the last resolved() before the mark
Fence(w) ==
    /\ At(w, "fence")
    /\ Resolvable(w)
    /\ Unless(w, IF delivery[worker[w].job].pin # dispatch[w].contract
                 THEN "failed"
                 ELSE IF Uncertain(w) THEN "outcome_unknown" ELSE None, "mark")
    /\ UNCHANGED <<Queue, delivery, gate, claims, reached>>

\* Mutant of Mark: the decision is not serialized with the revocation
MutMark(w) ==
    /\ At(w, "mark")
    /\ DeliveryFree(w)
    /\ \/ Resolvable(w) /\ Goto(w, "marking")
       \/ ~Resolvable(w) /\ End(w, "retry")
    /\ UNCHANGED <<Queue, delivery, gate, claims, reached>>

\* markInboundDispatchInTransaction: the gate is taken and the predicate
\* evaluated; what it writes is visible at the commit
Mark(w) ==
    /\ At(w, "mark")
    /\ GateFree
    /\ DeliveryFree(w)
    /\ \/ Resolvable(w) /\ Goto(w, "marking") /\ gate' = w
       \/ ~Resolvable(w) /\ End(w, "retry") /\ UNCHANGED gate
    /\ UNCHANGED <<Queue, delivery, claims, reached>>

\* The wait for the gate times out, or the transaction fails
MarkFails(w) ==
    /\ At(w, "mark") \/ At(w, "marking")
    /\ End(w, "retry")
    /\ gate' = IF gate = w THEN None ELSE gate
    /\ UNCHANGED <<Queue, delivery, claims, reached>>

\* The mark commits; without its acknowledgement nothing is sent
MarkCommits(w, acknowledged) ==
    /\ At(w, "marking")
    /\ delivery' = [delivery EXCEPT ![worker[w].job].status = "dispatching",
                        ![worker[w].job].mark = "started",
                        ![worker[w].job].attempt = dispatch[w].attempt]
    /\ gate' = None
    /\ Unless(w, IF acknowledged THEN None ELSE "retry", "recheck")
    /\ UNCHANGED <<Queue, claims, reached>>

\* The mark is read back under the claim
Recheck(w) ==
    LET d == delivery[worker[w].job]
    IN  /\ At(w, "recheck")
        /\ Resolvable(w)
        /\ Unless(w, IF d.mark = "started" /\ d.attempt = dispatch[w].attempt
                     THEN None ELSE "retry", "send")
        /\ UNCHANGED <<Queue, delivery, gate, claims, reached>>

\* The request leaves
Send(w) ==
    /\ At(w, "send")
    /\ Goto(w, "sent")
    /\ reached' = [reached EXCEPT ![worker[w].job] = @ + 1]
    /\ claims' = IF dispatch[w].contract \in Safe THEN claims
                 ELSE [claims EXCEPT ![w] = @ \cup
                         {<<worker[w].job, dispatch[w].attempt>>}]
    /\ UNCHANGED <<Queue, delivery, gate>>

\* An answer that is not the limiter's, or none: success, a canonical error
\* that is final or retryable, an unconfirmed write (outcome_unknown), an
\* unconfirmed repeatable request (retry)
Answer(w, o) ==
    /\ At(w, "sent")
    /\ End(w, o)
    /\ UNCHANGED <<Queue, delivery, gate, claims, reached>>

\* The limiter refused before any handler of the Operation ran
Limited(w) ==
    /\ At(w, "sent")
    /\ Goto(w, "limited")
    /\ reached' = [reached EXCEPT ![worker[w].job] = @ - 1]
    /\ UNCHANGED <<Queue, delivery, gate, claims>>

\* beforeRetry: fenced by the same claim, the request is sent again
Resend(w) ==
    /\ At(w, "limited")
    /\ Resolvable(w)
    /\ delivery[worker[w].job].pin = dispatch[w].contract
    /\ Goto(w, "send")
    /\ UNCHANGED <<Queue, delivery, gate, claims, reached>>

\* The repeats are used up, the wait is too long or the fence does not hold
StopWaiting(w, o) ==
    /\ At(w, "limited")
    /\ dispatch' = [dispatch EXCEPT ![w].step = "unmark", ![w].outcome = o]
    /\ UNCHANGED <<Queue, delivery, gate, claims, reached>>

\* notDispatched: the same transaction as the mark; its failure is ignored
Unmark(w) ==
    /\ At(w, "unmark")
    /\ \/ /\ GateFree /\ DeliveryFree(w) /\ Resolvable(w)
          /\ delivery' = [delivery EXCEPT
                            ![worker[w].job].status = "dispatching",
                            ![worker[w].job].mark = "not-dispatched",
                            ![worker[w].job].attempt = dispatch[w].attempt]
       \/ UNCHANGED delivery
    /\ End(w, dispatch[w].outcome)
    /\ UNCHANGED <<Queue, gate, claims, reached>>

BrokerStep(w) ==
    \/ Resolve(w) \/ Discover(w) \/ Pin(w) \/ Pinned(w)
    \/ Execute(w) \/ Rediscover(w) \/ Fence(w)
    \/ \E o \in {"retry", "failed"} :
          ResolveFails(w, o) \/ DiscoverFails(w, o) \/ StopWaiting(w, o)
    \/ Mark(w) \/ MarkFails(w) \/ \E a \in BOOLEAN : MarkCommits(w, a)
    \/ Recheck(w) \/ Send(w) \/ \E o \in HandlerOutcome : Answer(w, o)
    \/ Limited(w) \/ Resend(w) \/ Unmark(w)

-----------------------------------------------------------------------------
(* The handler in the job queue                                            *)

\* The attempt of the claim reference is the one this claim counted
ClaimDelivery(w, close, take) ==
    /\ Claim(w, close, take)
    /\ dispatch' = IF take = None THEN dispatch
                   ELSE [dispatch EXCEPT ![w].attempt = row'[take].attempts]
    /\ UNCHANGED <<delivery, active, revoking, gate, catalog, claims, reached,
                   admitting>>

\* The run ends before the handler starts: nothing settles the delivery
NotStarted(w) ==
    /\ \/ NoHandler(w) \/ OpenFails(w) \/ LoseClaim(w) \/ AdmissionFails(w)
       \/ \E o \in Refusal : Refuse(w, o)
    /\ dispatch' = [dispatch EXCEPT ![w] = NoDispatch]
    /\ UNCHANGED <<delivery, active, revoking, gate, catalog, claims, reached,
                   admitting>>

StartDispatch(w) ==
    /\ StartHandler(w)
    /\ Goto(w, "resolve")
    /\ UNCHANGED <<delivery, active, revoking, gate, catalog, claims, reached,
                   admitting>>

\* What settleInboundDeliverySql writes for the job's outcome
SettledDelivery(d, o) ==
    IF d.status \in OpenDelivery
    THEN [d EXCEPT !.status = IF o = "done" THEN "delivered" ELSE o] ELSE d

\* Mutant of Finish: the settlement does not wait for the job's commit
MutFinish(w) ==
    /\ dispatch[w].step = "finish"
    /\ dispatch[w].outcome # "retry" => Locks(w) /\ DeliveryFree(w)
    /\ HandlerReturns(w, dispatch[w].outcome)
    /\ dispatch' = [dispatch EXCEPT ![w] = NoDispatch]
    /\ delivery' = IF dispatch[w].outcome = "retry" THEN delivery
                   ELSE [delivery EXCEPT ![worker[w].job] =
                           SettledDelivery(@, dispatch[w].outcome)]
    /\ UNCHANGED <<active, revoking, gate, catalog, claims, reached, admitting>>

\* The handler settles the delivery in its own transaction and returns
Finish(w) ==
    /\ dispatch[w].step = "finish"
    /\ dispatch[w].outcome # "retry" => Locks(w) /\ DeliveryFree(w)
    /\ HandlerReturns(w, dispatch[w].outcome)
    /\ dispatch' = [dispatch EXCEPT ![w] = NoDispatch]
    /\ UNCHANGED <<delivery, active, revoking, gate, catalog, claims, reached,
                   admitting>>

\* Settling the delivery throws out of the handler
FinishFails(w) ==
    /\ dispatch[w].step = "finish"
    /\ dispatch[w].outcome # "retry"
    /\ HandlerThrows(w)
    /\ dispatch' = [dispatch EXCEPT ![w] = NoDispatch]
    /\ UNCHANGED <<delivery, active, revoking, gate, catalog, claims, reached,
                   admitting>>

\* The delivery's settlement commits with the job's
CommitDelivery(w) ==
    LET j == worker[w].job
        o == worker[w].outcome
    IN  /\ Commit(w) \/ CommitUnconfirmed(w)
        /\ delivery' = IF worker[w].phase = "settling" /\ o # "retry"
                       THEN [delivery EXCEPT ![j] = SettledDelivery(@, o)]
                       ELSE delivery
        /\ UNCHANGED <<active, revoking, gate, catalog, dispatch, claims,
                       reached, admitting>>

\* The process dies with its broker; its mark in flight is rolled back
CrashDispatch(w) ==
    /\ Crash(w)
    /\ dispatch' = [dispatch EXCEPT ![w] = NoDispatch]
    /\ claims' = [claims EXCEPT ![w] = {}]
    /\ gate' = IF gate = w THEN None ELSE gate
    /\ UNCHANGED <<delivery, active, revoking, catalog, reached, admitting>>

\* Steps of the queue in which the delivery has no part
QueueStep ==
    /\ \/ \E w \in Workers :
             \/ Lock(w) \/ CommitFails(w) \/ SettleApart(w)
             \/ SettleApartFails(w) \/ SessionLost(w) \/ Stop(w) \/ Start(w)
       \/ \E j \in Jobs :
             \/ LeaseExpires(j) \/ BecomesDue(j) \/ MarkDone(j) \/ Sweep(j)
             \/ RequeueBound > 0 /\ reached[j] < RequeueBound /\ Requeue(j)
    /\ UNCHANGED inbound

EndpointStep ==
    \/ RevokeBegins \/ \E c \in BOOLEAN : RevokeEnds(c)
    \/ \E c \in Contracts : Republish(c)
    \/ \E j \in Jobs : \/ Admit(j) \/ AdmissionEnds(j) \/ PurgeBody(j)
                       \/ \E key \in Keys : RecordDelivery(j, key)

HandlerStep(w) ==
    \/ \E close, take \in Jobs \cup {None} : ClaimDelivery(w, close, take)
    \/ NotStarted(w) \/ StartDispatch(w) \/ BrokerStep(w)
    \/ Finish(w) \/ FinishFails(w) \/ CommitDelivery(w) \/ CrashDispatch(w)

InboundNext ==
    QueueStep \/ EndpointStep \/ \E w \in Workers : HandlerStep(w)

InboundSpec == InboundInit /\ [][InboundNext]_allVars

-----------------------------------------------------------------------------
(* Properties                                                              *)

\* Every variable of the dispatch has its type: the columns of
\* platform.inbound_deliveries and the broker's call.
InboundTypeOK ==
    /\ delivery \in [Jobs -> Delivery]
    /\ active \in BOOLEAN /\ revoking \in BOOLEAN
    /\ gate \in Workers \cup {None}
    /\ catalog \in Contracts
    /\ dispatch \in [Workers -> Dispatch]
    /\ claims \in [Workers -> SUBSET (Jobs \X Nat)]
    /\ reached \in [Jobs -> Nat]
    /\ admitting \subseteq Jobs

\* docs/inbound-deliveries.md: "a crashed worker does not double-dispatch
\* silently".  Across crashes, expired leases, lost sessions, refunded attempts
\* and limiter repeats, a write that cannot be repeated reaches the Operation
\* at most once.
UnsafeReachedOnce ==
    \A j \in Jobs :
        delivery[j].pin \in Contracts \ Safe => reached[j] <= 1

\* The delivery and its job tell the same story: a delivery is delivered
\* exactly when a run of its job committed as done.
DeliveredWithJob ==
    \A j \in Jobs : delivery[j].status = "delivered" <=> applied[j] = 1

\* docs/inbound-deliveries.md: dispatch_state "'not-dispatched' means one
\* provably did not" go out.
NotDispatchedMeansUnsent ==
    \A j \in Jobs : delivery[j].mark = "not-dispatched" => reached[j] = 0

\* The receipt a delivery stands for
ReceiptState(d) == IF d.status \in OpenDelivery THEN "open" ELSE d.status

Receipts == INSTANCE InboundReceipts WITH
    Deliveries <- Jobs,
    None  <- <<"none", 0>>,
    state <- [j \in Jobs |-> ReceiptState(delivery[j])],
    mark  <- [j \in Jobs |-> <<delivery[j].mark, delivery[j].attempt>>],
    body  <- [j \in Jobs |-> delivery[j].body]

\* Two connections decide, in transactions of several statements, whether an
\* attempt goes out; the gate makes it one decision: no attempt is recorded
\* after a committed revocation or on a settled delivery, a delivery settles
\* once, and its payload is removed only then.
ImplementsReceipts == Receipts!Spec
=============================================================================
