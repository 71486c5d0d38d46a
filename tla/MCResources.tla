----------------------------- MODULE MCResources -----------------------------
(***************************************************************************)
(* Instances of ReadBarrier, ConnectorGovernor and McpSessions for TLC:    *)
(* locks, slots and capacities that are taken and must be given back.  The *)
(* three share no state; a behaviour of this module is one of a single     *)
(* component, and the variables of the others are None, so that TLC visits *)
(* the sum of their states in place of the product.                        *)
(***************************************************************************)
EXTENDS ReadBarrier, TLC

CONSTANTS
    Calls, Tenants, Signals, Limit, PerWindow, Window, MaxAttempts, Fixed, Backoff,
    AttemptTime, TotalTime, Threshold, ResetAfter, MaxTime,
    Users, Sessions, SessionTenants, TotalLimit, TenantLimit, ActorLimit,
    MaxCloses

VARIABLES
    part,
    clock, inFlight, waiting, window, circuit, call, aborted,
    total, tenants, actors, session, mcpSessions, servers, closes

gVars == <<clock, inFlight, waiting, window, circuit, call, aborted>>

mVars == <<total, tenants, actors, session, mcpSessions, servers, closes>>

G == INSTANCE ConnectorGovernor

M == INSTANCE McpSessions WITH Tenants <- SessionTenants

ASSUME ResourcesAssumed == G!GovernorAssumption /\ M!McpSessionsAssumption

\* The variables of a component that does not run
NoCalls ==
    /\ clock = None /\ inFlight = None /\ waiting = None /\ window = None
    /\ circuit = None /\ call = None /\ aborted = None

NoSessions ==
    /\ total = None /\ tenants = None /\ actors = None /\ session = None
    /\ mcpSessions = None /\ servers = None /\ closes = None

NoScopes ==
    /\ res = None /\ alive = FALSE /\ held = None /\ serial = None
    /\ reader = None /\ writer = None /\ version = None /\ torn = FALSE
    /\ failures = 0

MCInit ==
    /\ part \in {"barrier", "governor", "sessions"}
    /\ IF part = "barrier" THEN Init ELSE NoScopes
    /\ IF part = "governor" THEN G!Init ELSE NoCalls
    /\ IF part = "sessions" THEN M!Init ELSE NoSessions

MCNext ==
    \/ part = "barrier" /\ Next /\ UNCHANGED <<part, gVars, mVars>>
    \/ part = "governor" /\ G!Next /\ UNCHANGED <<part, vars, mVars>>
    \/ part = "sessions" /\ M!Next /\ UNCHANGED <<part, vars, gVars>>

MCSpec == MCInit /\ [][MCNext]_<<part, vars, gVars, mVars>>

\* The fairness of a component, in the behaviours that are its own
BarrierFairness ==
    /\ \A x \in Readers :
          /\ WF_vars(/\ part = "barrier"
                     /\ StartOnPool(x) \/ StartOnReserved(x) \/ RefuseWork(x))
          /\ WF_vars(part = "barrier" /\ EndWork(x))
          /\ SF_vars(/\ part = "barrier"
                     /\ reader[x].work = "none" /\ \E ok \in BOOLEAN : Close(x, ok))
          /\ SF_vars(/\ part = "barrier"
                     /\ Release(x) \/ \E freed \in BOOLEAN : ReleaseFails(x, freed))
    /\ \A w \in Writers :
          /\ SF_vars(part = "barrier" /\ Grant(w))
          /\ WF_vars(part = "barrier" /\ Commit(w))

GovernorFairness ==
    /\ WF_gVars(part = "governor" /\ G!Tick)
    /\ \A c \in Calls :
          /\ WF_gVars(part = "governor" /\ G!Accept(c))
          /\ WF_gVars(/\ part = "governor"
                      /\ \/ G!Abandon(c) \/ G!Succeed(c)
                         \/ \E final \in BOOLEAN : G!Fail(c, final))
          /\ WF_gVars(part = "governor" /\ G!Wake(c))

SessionFairness ==
    \A s \in Sessions :
        /\ WF_mVars(part = "sessions" /\ M!Idle(s))
        /\ WF_mVars(part = "sessions" /\ M!Sweep(s))
        /\ WF_mVars(part = "sessions" /\ (M!BuildServer(s) \/ M!BuildFails(s)))
        /\ WF_mVars(/\ part = "sessions"
                    /\ M!RefusedBySDK(s) \/ M!SessionInitialized(s))

MCFairSpec == MCSpec /\ BarrierFairness /\ GovernorFairness /\ SessionFairness

\* No writer comes between the reads of a scope that returns a result, even
\* where the reserved session was lost; no lock outlives its reservation; and no
\* writer holds a fence while work of a scope inside it is under way on a session
\* that stands.
BarrierHolds ==
    part = "barrier" => ReadsAreFenced /\ NoLeakedLock /\ WritersExcluded

\* A slot is counted once and returned once, whatever is aborted between the
\* grant of a slot and its acceptance: the counter of the limiter is the number
\* of calls that hold a slot, and calls wait only while all slots are in use.
SlotsAreAccounted ==
    part = "governor" => G!SlotsAreAccounted /\ G!NoIdleSlot

\* Nothing is left behind by a session that was refused, failed or ended, once
\* or twice: its capacity is free again, it is out of the map, and its server is
\* registered no more; and no limit is passed by what initializes or lives.
CapacityIsAccounted ==
    part = "sessions" => M!NothingLeaks /\ M!WithinLimits

\* A writer that waits for a fence gets it, whatever scopes come and go: queued
\* writers are honoured, and no reader is deadlocked by one.
FencesAreGranted ==
    \A w \in Writers :
        (part = "barrier" /\ writer[w].phase = "waiting") ~>
            (part = "barrier" /\ writer[w].phase = "holding")

\* A call that waits for a slot gets one or is aborted.
WaitersProceed ==
    \A c \in Calls :
        (part = "governor" /\ call[c].phase = "queued") ~>
            (part = "governor" /\ call[c].phase # "queued")

\* Once the clients fall silent, every actor finds room again and again.
RoomReturns ==
    <>[][part = "sessions" => \A s \in Sessions : ~M!Request(s)]_<<part, mVars>>
        => \A a \in M!Actors : []<>(part = "sessions" => M!HasRoom(a))

Symmetry ==
    Permutations(Readers) \cup Permutations(Calls) \cup Permutations(Signals) \cup
    Permutations(Sessions) \cup Permutations(Users)
==============================================================================
