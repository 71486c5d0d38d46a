-------------------------- MODULE ConnectorGovernor --------------------------
(***************************************************************************)
(* The reliability policy of one connector Operation in one process        *)
(* (connectors/reliability.ts): rate window and concurrency slots per      *)
(* tenant, the circuit breaker all tenants share, attempts with backoff    *)
(* inside an overall budget.  JavaScript runs a step to its next await, so *)
(* an action is the code between two awaits; a slot handed to a waiter is  *)
(* accepted only when its promise continuation runs, and the caller may    *)
(* abort in between.                                                       *)
(***************************************************************************)
EXTENDS Integers, Sequences, SequencesExt, FiniteSets

CONSTANTS
    Calls,        \* bound: calls
    Tenants,
    Signals,      \* abort signals; calls may share one
    Limit,        \* concurrency.perTenant
    PerWindow,    \* rateLimit.perTenantPerMinute
    Window,       \* length of the rate window
    MaxAttempts,  \* attempts the policy allows (1 where mayRetry refuses)
    Fixed,        \* retry.backoff: flat, or doubled with every attempt
    Backoff, AttemptTime, TotalTime,   \* base of the backoff, timeouts
    Threshold, ResetAfter,             \* circuitBreaker
    MaxTime,      \* bound of the clock
    None

\* What the model takes for granted of its constants
GovernorAssumption ==
    /\ \A n \in {Limit, PerWindow, Window, MaxAttempts, Threshold, ResetAfter} :
          n \in Nat \ {0}
    /\ \A n \in {Backoff, AttemptTime, TotalTime, MaxTime} : n \in Nat
    /\ Fixed \in BOOLEAN
    /\ None \notin 0..MaxTime

VARIABLES
    clock,
    inFlight,   \* ConcurrencyLimiter.inFlight, per tenant
    waiting,    \* ConcurrencyLimiter.waiting: queues of calls
    window,     \* RateLimiter.windows
    circuit,    \* CircuitBreaker.circuits
    call,
    aborted     \* signals that were aborted

vars == <<clock, inFlight, waiting, window, circuit, call, aborted>>

Phases == {"new", "queued", "granted", "running", "sleeping", "over"}

Call == [phase : Phases, tenant : Tenants, signal : Signals,
         attempts : 0..MaxAttempts, startedAt : 0..MaxTime, sleptAt : 0..MaxTime]

Init ==
    /\ clock = 0
    /\ inFlight = [t \in Tenants |-> 0]
    /\ waiting = [t \in Tenants |-> <<>>]
    /\ window = [t \in Tenants |-> [startedAt |-> None, count |-> 0]]
    /\ circuit = [failures |-> 0, openedAt |-> None]
    /\ call \in [Calls -> [phase : {"new"}, tenant : Tenants, signal : Signals,
                           attempts : {0}, startedAt : {0}, sleptAt : {0}]]
    /\ aborted = {}

-----------------------------------------------------------------------------
(* The parts of the policy                                                 *)

tenant(c) == call[c].tenant
Aborted(c) == call[c].signal \in aborted

\* tryConsume: the window after the call, and whether it is admitted
Lapsed(t) == window[t].startedAt # None => clock - window[t].startedAt >= Window
Consumes(t) == Lapsed(t) \/ window[t].count < PerWindow
Consumed(t) ==
    IF Lapsed(t) THEN [startedAt |-> clock, count |-> 1]
    ELSE [window[t] EXCEPT !.count = @ + 1]

\* CircuitBreaker.state
Open == circuit.openedAt # None /\ clock - circuit.openedAt < ResetAfter

\* recordSuccess
Healthy == [failures |-> 0, openedAt |-> None]

\* recordFailure; more failures than the threshold count as the threshold
Failed ==
    [failures |-> IF circuit.failures < Threshold THEN circuit.failures + 1
                  ELSE Threshold,
     openedAt |-> IF circuit.failures + 1 >= Threshold THEN clock
                  ELSE circuit.openedAt]

Smaller(a, b) == IF a < b THEN a ELSE b

\* n slots of a tenant are released while q waits: the first of q take them
\* over and the count stays put for those
Freed(t, n, q) == [inFlight EXCEPT ![t] = @ - (n - Smaller(n, Len(q)))]
Left(n, q) == SubSeq(q, Smaller(n, Len(q)) + 1, Len(q))
Chosen(n, q) == {q[i] : i \in 1..Smaller(n, Len(q))}

\* The calls after those in ended are over and the chosen ones were granted
Handed(ended, chosen) ==
    [c \in Calls |->
        IF c \in ended THEN [call[c] EXCEPT !.phase = "over"]
        ELSE IF c \in chosen THEN [call[c] EXCEPT !.phase = "granted"]
        ELSE call[c]]

\* The finally of run: the call gives its slot back, in the order of the queue
Release(c) ==
    LET t == tenant(c)
    IN  /\ inFlight' = Freed(t, 1, waiting[t])
        /\ waiting' = [waiting EXCEPT ![t] = Left(1, @)]
        /\ call' = Handed({c}, Chosen(1, waiting[t]))

-----------------------------------------------------------------------------
(* run                                                                     *)

\* An aborted signal, the rate limit or an open circuit refuse the call
Refused(c) ==
    /\ call[c].phase = "new"
    /\ Aborted(c) \/ ~Consumes(tenant(c)) \/ Open
    /\ window' = IF Aborted(c) \/ ~Consumes(tenant(c)) THEN window
                 ELSE [window EXCEPT ![tenant(c)] = Consumed(tenant(c))]
    /\ call' = [call EXCEPT ![c].phase = "over"]
    /\ UNCHANGED <<clock, inFlight, waiting, circuit, aborted>>

\* acquire: a slot, or a place in the queue
Enter(c) ==
    LET t == tenant(c)
    IN  /\ call[c].phase = "new"
        /\ ~Aborted(c)
        /\ Consumes(t)
        /\ ~Open
        /\ window' = [window EXCEPT ![t] = Consumed(t)]
        /\ IF inFlight[t] < Limit
           THEN /\ inFlight' = [inFlight EXCEPT ![t] = @ + 1]
                /\ call' = [call EXCEPT ![c].phase = "running",
                                        ![c].attempts = 1,
                                        ![c].startedAt = clock]
                /\ UNCHANGED waiting
           ELSE /\ waiting' = [waiting EXCEPT ![t] = Append(@, c)]
                /\ call' = [call EXCEPT ![c].phase = "queued"]
                /\ UNCHANGED inFlight
        /\ UNCHANGED <<clock, circuit, aborted>>

\* The continuation of acquire accepts the slot; the breaker is not asked again
Accept(c) ==
    /\ call[c].phase = "granted"
    /\ call' = [call EXCEPT ![c].phase = "running", ![c].attempts = 1,
                            ![c].startedAt = clock]
    /\ UNCHANGED <<clock, inFlight, waiting, window, circuit, aborted>>

\* The attempt returns or throws after the caller aborted
Abandon(c) ==
    /\ call[c].phase = "running"
    /\ Aborted(c)
    /\ Release(c)
    /\ UNCHANGED <<clock, window, circuit, aborted>>

Succeed(c) ==
    /\ call[c].phase = "running"
    /\ ~Aborted(c)
    /\ circuit' = Healthy
    /\ Release(c)
    /\ UNCHANGED <<clock, window, aborted>>

\* backoffDelayMs, after attempt n
Delay(n) == IF Fixed THEN Backoff ELSE Backoff * 2^(n - 1)

Elapsed(c) == clock - call[c].startedAt

\* The next attempt could complete in what is left of the budget
Fits(c) == Elapsed(c) + Delay(call[c].attempts) + AttemptTime <= TotalTime

\* The attempt throws; final: the failure is classified as not retryable, or
\* names a retry time beyond the budget
Fail(c, final) ==
    /\ call[c].phase = "running"
    /\ ~Aborted(c)
    /\ circuit' = Failed
    /\ IF final \/ call[c].attempts >= MaxAttempts \/ ~Fits(c)
       THEN Release(c)
       ELSE /\ clock + Delay(call[c].attempts) <= MaxTime    \* bound
            /\ call' = [call EXCEPT ![c].phase = "sleeping",
                                    ![c].sleptAt = clock]
            /\ UNCHANGED <<inFlight, waiting>>
    /\ UNCHANGED <<clock, window, aborted>>

\* The timer fires when the backoff has passed, or later; the budget is not
\* asked again
Wake(c) ==
    /\ call[c].phase = "sleeping"
    /\ clock - call[c].sleptAt >= Delay(call[c].attempts)
    /\ call' = [call EXCEPT ![c].phase = "running", ![c].attempts = @ + 1]
    /\ UNCHANGED <<clock, inFlight, waiting, window, circuit, aborted>>

\* Mutant of GivesBack: a slot that was granted and not accepted is forgotten
MutGivesBack(s) == {c \in Calls : call[c].signal = s /\ call[c].phase = "sleeping"}

\* Calls of the signal that hold a slot and give it back at once: the onAbort
\* of a granted waiter, the race of abortableSleep
GivesBack(s) ==
    {c \in Calls : call[c].signal = s /\ call[c].phase \in {"granted", "sleeping"}}

\* A queue from which the aborted waiters were spliced; the others keep their
\* order
Without(q, gone) ==
    LET stay  == {i \in DOMAIN q : q[i] \notin gone}
        place == CHOOSE f \in [1..Cardinality(stay) -> stay] :
                    \A i, j \in DOMAIN f : i < j => f[i] < f[j]
    IN  [i \in 1..Cardinality(stay) |-> q[place[i]]]

\* The caller aborts: its waiters leave the queue first, whatever the order of
\* the listeners, because release skips a waiter whose signal is aborted
Abort(s) ==
    LET gone    == {c \in Calls : call[c].signal = s /\ call[c].phase \in
                                      {"queued", "granted", "sleeping"}}
        queue   == [t \in Tenants |-> Without(waiting[t], gone)]
        back(t) == Cardinality({c \in GivesBack(s) : tenant(c) = t})
    IN  /\ s \notin aborted
        /\ aborted' = aborted \cup {s}
        /\ inFlight' = [t \in Tenants |-> Freed(t, back(t), queue[t])[t]]
        /\ waiting' = [t \in Tenants |-> Left(back(t), queue[t])]
        /\ call' = Handed(gone, UNION {Chosen(back(t), queue[t]) : t \in Tenants})
        /\ UNCHANGED <<clock, window, circuit>>

\* Time passes, past a timer that is due as well: an event loop that is busy
\* fires it late
Tick ==
    /\ clock < MaxTime
    /\ clock' = clock + 1
    /\ UNCHANGED <<inFlight, waiting, window, circuit, call, aborted>>

CallStep(c) ==
    \/ Refused(c) \/ Enter(c) \/ Accept(c) \/ Abandon(c) \/ Succeed(c)
    \/ \E final \in BOOLEAN : Fail(c, final)
    \/ Wake(c)

Next ==
    \/ Tick
    \/ \E c \in Calls : CallStep(c)
    \/ \E s \in Signals : Abort(s)

Spec == Init /\ [][Next]_vars

\* A continuation runs, an attempt ends (its timeout), a timer fires, time
\* passes
Fairness ==
    /\ WF_vars(Tick)
    /\ \A c \in Calls :
          /\ WF_vars(Accept(c))
          /\ WF_vars(Abandon(c) \/ Succeed(c) \/ \E final \in BOOLEAN : Fail(c, final))
          /\ WF_vars(Wake(c))

FairSpec == Spec /\ Fairness

-----------------------------------------------------------------------------
(* Properties                                                              *)

\* Calls of a tenant that hold a slot
Holding(t) ==
    {c \in Calls : tenant(c) = t /\ call[c].phase \in {"granted", "running", "sleeping"}}

\* Every variable has its type; the queue holds the queued calls of its tenant.
TypeOK ==
    /\ clock \in 0..MaxTime
    /\ inFlight \in [Tenants -> 0..Limit]
    /\ \A t \in Tenants :
          /\ IsInjective(waiting[t])
          /\ ToSet(waiting[t]) =
                {c \in Calls : tenant(c) = t /\ call[c].phase = "queued"}
    /\ \A t \in Tenants : window[t].count \in 0..PerWindow
    /\ circuit \in [failures : 0..Threshold, openedAt : 0..MaxTime \cup {None}]
    /\ call \in [Calls -> Call]
    /\ aborted \in SUBSET Signals

\* A slot is counted once and returned once, whatever is aborted between the
\* grant of a slot and its acceptance: the counter is the number of calls that
\* hold one.
SlotsAreAccounted ==
    \A t \in Tenants : inFlight[t] = Cardinality(Holding(t))

\* A tenant's calls wait only while all of its slots are in use.
NoIdleSlot ==
    \A t \in Tenants : waiting[t] # <<>> => inFlight[t] = Limit

\* A repeated attempt begins with time left for all of it.
RetryInTime ==
    \A c \in Calls :
        call[c].phase = "sleeping" /\ call'[c].phase = "running" =>
            Elapsed(c) + AttemptTime <= TotalTime

\* "Starting an attempt that cannot finish inside the budget guarantees an
\* overrun" (reliability.ts): a repeated attempt is not started when less than
\* an attempt's timeout is left of the overall budget.  The code asks before
\* the backoff, with its nominal length.
RetriesFitBudget == [][RetryInTime]_vars

\* A call that waits for a slot gets one or is aborted: slots pass on in the
\* order of the queue and none is lost.
WaitersProceed ==
    \A c \in Calls : call[c].phase = "queued" ~> call[c].phase # "queued"
=============================================================================
