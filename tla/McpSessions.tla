----------------------------- MODULE McpSessions -----------------------------
(***************************************************************************)
(* The stateful MCP transport sessions of one process                      *)
(* (mcp/transport-sessions.ts) and their capacity                          *)
(* (mcp/session-capacity.ts).  An initialize reserves capacity, awaits     *)
(* what its server is built from, connects it and hands the request to the *)
(* SDK, which creates the session or refuses.  A session ends by a DELETE, *)
(* by the idle sweep or by a request whose authorization has changed; the  *)
(* transport's onclose may run after that, and more than once, since both  *)
(* the transport and its server are closed.                                *)
(***************************************************************************)
EXTENDS Integers, FiniteSets

CONSTANTS
    Tenants,
    Users,        \* per tenant: an actor is a tenant and a user
    Sessions,     \* initialize requests
    TotalLimit, TenantLimit, ActorLimit,
    MaxCloses     \* bound: onclose of one transport after its session ended

\* What the model takes for granted of its constants
McpSessionsAssumption ==
    /\ {TotalLimit, TenantLimit, ActorLimit} \subseteq Nat \ {0}
    /\ MaxCloses \in Nat

VARIABLES
    total, tenants, actors,   \* SessionCapacity
    session,                  \* the initialize requests and what became of them
    mcpSessions,              \* the map of live sessions
    servers,                  \* ModulePlatform's servers
    closes                    \* closes left to the SDK, per session

vars == <<total, tenants, actors, session, mcpSessions, servers, closes>>

Actors == Tenants \X Users

Session == [phase : {"new", "building", "connecting", "live", "ended"},
            actor : Actors, released : BOOLEAN, idle : BOOLEAN]

Init ==
    /\ total = 0
    /\ tenants = [t \in Tenants |-> 0]
    /\ actors = [a \in Actors |-> 0]
    /\ session \in [Sessions -> {r \in Session : /\ r.phase = "new"
                                                /\ ~r.released /\ ~r.idle}]
    /\ mcpSessions = {}
    /\ servers = {}
    /\ closes = [s \in Sessions |-> 0]

-----------------------------------------------------------------------------
(* SessionCapacity                                                         *)

HasRoom(a) ==
    /\ total < TotalLimit
    /\ tenants[a[1]] < TenantLimit
    /\ actors[a] < ActorLimit

Count(a, d) ==
    /\ total' = total + d
    /\ tenants' = [tenants EXCEPT ![a[1]] = @ + d]
    /\ actors' = [actors EXCEPT ![a] = @ + d]

\* Mutant of Release: without the released flag
MutRelease(s) == Count(session[s].actor, -1)

\* The function acquire returns
Release(s) ==
    IF session[s].released THEN UNCHANGED <<total, tenants, actors>>
    ELSE Count(session[s].actor, -1)

Ended(s) == [session EXCEPT ![s].phase = "ended", ![s].released = TRUE]

-----------------------------------------------------------------------------
(* initialize                                                              *)

\* The counters move in the step that looked at them
Reserve(s) == Count(session[s].actor, 1)

Initialize(s) ==
    /\ session[s].phase = "new"
    /\ HasRoom(session[s].actor)
    /\ Reserve(s)
    /\ session' = [session EXCEPT ![s].phase = "building"]
    /\ UNCHANGED <<mcpSessions, servers, closes>>

\* 429 MCP_SESSION_LIMIT
Refused(s) ==
    /\ session[s].phase = "new"
    /\ ~HasRoom(session[s].actor)
    /\ session' = Ended(s)
    /\ UNCHANGED <<total, tenants, actors, mcpSessions, servers, closes>>

\* The opening sentence and the icons have arrived: the server is built
BuildServer(s) ==
    /\ session[s].phase = "building"
    /\ servers' = servers \cup {s}
    /\ session' = [session EXCEPT ![s].phase = "connecting"]
    /\ UNCHANGED <<total, tenants, actors, mcpSessions, closes>>

\* Mutant of FinallyReleases: the capacity is left to the session's end
MutFinallyReleases(s) == UNCHANGED <<total, tenants, actors>>

\* The outer finally of a session that was not retained
FinallyReleases(s) == Release(s)

\* One of the awaits before the server is built fails
BuildFails(s) ==
    /\ session[s].phase = "building"
    /\ FinallyReleases(s)
    /\ session' = Ended(s)
    /\ UNCHANGED <<mcpSessions, servers, closes>>

\* The inner finally: no session id, so nothing else would release the server
RefusedBySDK(s) ==
    /\ session[s].phase = "connecting"
    /\ FinallyReleases(s)
    /\ session' = Ended(s)
    /\ servers' = servers \ {s}
    /\ closes' = [closes EXCEPT ![s] = MaxCloses]
    /\ UNCHANGED mcpSessions

\* onsessioninitialized
SessionInitialized(s) ==
    /\ session[s].phase = "connecting"
    /\ session' = [session EXCEPT ![s].phase = "live"]
    /\ mcpSessions' = mcpSessions \cup {s}
    /\ UNCHANGED <<total, tenants, actors, servers, closes>>

-----------------------------------------------------------------------------
(* The life of a session                                                   *)

\* 30 minutes without a request
Idle(s) ==
    /\ session[s].phase = "live" /\ ~session[s].idle
    /\ session' = [session EXCEPT ![s].idle = TRUE]
    /\ UNCHANGED <<total, tenants, actors, mcpSessions, servers, closes>>

\* A request of the session's own identity and authorization
Request(s) ==
    /\ s \in mcpSessions
    /\ session[s].idle
    /\ session' = [session EXCEPT ![s].idle = FALSE]
    /\ UNCHANGED <<total, tenants, actors, mcpSessions, servers, closes>>

Remove(s) ==
    /\ mcpSessions' = mcpSessions \ {s}
    /\ servers' = servers \ {s}
    /\ Release(s)
    /\ session' = Ended(s)

\* One turn of the idle sweep; closing is asked for and not awaited
Sweep(s) ==
    /\ s \in mcpSessions
    /\ session[s].idle
    /\ Remove(s)
    /\ closes' = [closes EXCEPT ![s] = MaxCloses]

\* A request with another authorization ends the session it names: 404
AuthorizationChanged(s) ==
    /\ s \in mcpSessions
    /\ Remove(s)
    /\ closes' = [closes EXCEPT ![s] = MaxCloses]

\* The client's DELETE: the SDK closes the transport, and onclose runs
Delete(s) ==
    /\ s \in mcpSessions
    /\ Remove(s)
    /\ closes' = [closes EXCEPT ![s] = MaxCloses]

\* onclose once more, of a session that has ended
OnClose(s) ==
    /\ closes[s] > 0
    /\ Remove(s)
    /\ closes' = [closes EXCEPT ![s] = @ - 1]

SessionStep(s) ==
    \/ Initialize(s) \/ Refused(s) \/ BuildServer(s) \/ BuildFails(s)
    \/ RefusedBySDK(s) \/ SessionInitialized(s)
    \/ Idle(s) \/ Request(s) \/ Sweep(s) \/ AuthorizationChanged(s) \/ Delete(s)
    \/ OnClose(s)

Next == \E s \in Sessions : SessionStep(s)

Spec == Init /\ [][Next]_vars

\* Time passes, setInterval runs the sweep every minute, and an initialize does
\* not hang
Fairness ==
    \A s \in Sessions :
        /\ WF_vars(Idle(s))
        /\ WF_vars(Sweep(s))
        /\ WF_vars(BuildServer(s) \/ BuildFails(s))
        /\ WF_vars(RefusedBySDK(s) \/ SessionInitialized(s))

FairSpec == Spec /\ Fairness

-----------------------------------------------------------------------------
(* Properties                                                              *)

\* Every variable has its type.
TypeOK ==
    /\ total \in Nat
    /\ tenants \in [Tenants -> Nat]
    /\ actors \in [Actors -> Nat]
    /\ session \in [Sessions -> Session]
    /\ mcpSessions \in SUBSET Sessions
    /\ servers \in SUBSET Sessions
    /\ closes \in [Sessions -> 0..MaxCloses]

\* The sessions that initialize or live
Held == {s \in Sessions : session[s].phase \in {"building", "connecting", "live"}}

\* "concurrent initialize requests cannot overbook": counted by what really
\* initializes or lives, no limit is passed, however sessions are refused, fail
\* half-way, and are ended twice.
WithinLimits ==
    /\ Cardinality(Held) <= TotalLimit
    /\ \A t \in Tenants :
         Cardinality({s \in Held : session[s].actor[1] = t}) <= TenantLimit
    /\ \A a \in Actors : Cardinality({s \in Held : session[s].actor = a}) <= ActorLimit

\* Nothing is left behind by a session that was refused, failed or ended: its
\* capacity is free again, it is out of the map, and its server is registered
\* no more ("Nothing would ever release that server").
NothingLeaks ==
    /\ \A a \in Actors :
         actors[a] = Cardinality({s \in Held : session[s].actor = a})
    /\ \A t \in Tenants :
         tenants[t] = Cardinality({s \in Held : session[s].actor[1] = t})
    /\ total = Cardinality(Held)
    /\ mcpSessions = {s \in Sessions : session[s].phase = "live"}
    /\ servers = {s \in Sessions : session[s].phase \in {"connecting", "live"}}

\* Once the clients fall silent, every actor finds room again and again: what
\* has failed half-way, was refused or is left idle gives its capacity back.
RoomReturns ==
    <>[][\A s \in Sessions : ~Request(s)]_vars
        => \A a \in Actors : []<>HasRoom(a)
==============================================================================
