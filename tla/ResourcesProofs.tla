---------------------------- MODULE ResourcesProofs ----------------------------
(***************************************************************************)
(* Proofs about what is taken and given back: the capacity of the MCP      *)
(* sessions, the slots of a connector's calls, the fences of the shared    *)
(* read barrier.  The components are those of MCResources; each theorem is *)
(* about the behaviours of one.                                            *)
(***************************************************************************)
EXTENDS MCResources, FiniteSetTheorems, SequenceTheorems, TLAPS

-----------------------------------------------------------------------------
(* The capacity of the sessions                                            *)

\* The instance counts as its module does.
LEMMA SessionsCount == \A S : M!Cardinality(S) = Cardinality(S)
  BY DEF M!Cardinality, Cardinality, M!IsFiniteSet, IsFiniteSet

\* A finite set counted by a class C, with one member more.
LEMMA OneMore ==
    ASSUME NEW H, IsFiniteSet(H), NEW s, s \notin H, NEW I, I = H \cup {s}
    PROVE  \A C : /\ Cardinality(H \cap C) \in Int
                  /\ s \in C => Cardinality(I \cap C) = Cardinality(H \cap C) + 1
                  /\ s \notin C => Cardinality(I \cap C) = Cardinality(H \cap C)
  <1> TAKE C
  <1>1. IsFiniteSet(H \cap C) /\ Cardinality(H \cap C) \in Nat
    <2>1. H \cap C \in SUBSET H
      OBVIOUS
    <2> QED BY <2>1, FS_Subset, FS_CardinalityType
  <1>2. ASSUME s \in C
        PROVE  Cardinality(I \cap C) = Cardinality(H \cap C) + 1
    <2>1. I \cap C = (H \cap C) \cup {s} /\ s \notin H \cap C
      BY <1>2
    <2> QED BY <1>1, <2>1, FS_AddElement
  <1>3. s \notin C => I \cap C = H \cap C
    OBVIOUS
  <1> QED BY <1>1, <1>2, <1>3

\* And with one member less.
LEMMA OneLess ==
    ASSUME NEW H, IsFiniteSet(H), NEW s, s \in H, NEW I, I = H \ {s}
    PROVE  \A C : /\ Cardinality(H \cap C) \in Int
                  /\ s \in C => Cardinality(I \cap C) = Cardinality(H \cap C) - 1
                  /\ s \notin C => Cardinality(I \cap C) = Cardinality(H \cap C)
  <1> TAKE C
  <1>1. IsFiniteSet(H \cap C) /\ Cardinality(H \cap C) \in Nat
    <2>1. H \cap C \in SUBSET H
      OBVIOUS
    <2> QED BY <2>1, FS_Subset, FS_CardinalityType
  <1>2. ASSUME s \in C
        PROVE  Cardinality(I \cap C) = Cardinality(H \cap C) - 1
    <2>1. I \cap C = (H \cap C) \ {s} /\ s \in H \cap C
      BY <1>2
    <2> QED BY <1>1, <2>1, FS_RemoveElement
  <1>3. s \notin C => I \cap C = H \cap C
    OBVIOUS
  <1> QED BY <1>1, <1>2, <1>3

\* The sessions of an actor and of a tenant, whatever became of them
Of(a) == {s \in Sessions : session[s].actor = a}
In(t) == {s \in Sessions : session[s].actor[1] = t}

\* The counters count the sessions that initialize or live, within the limits,
\* and a session has given its capacity back exactly when it has ended
Counters ==
    /\ session \in [Sessions -> M!Session]
    /\ tenants \in [SessionTenants -> Int] /\ actors \in [M!Actors -> Int]
    /\ IsFiniteSet(M!Held)
    /\ total = Cardinality(M!Held) /\ total <= TotalLimit
    /\ \A t \in SessionTenants : /\ tenants[t] = Cardinality(M!Held \cap In(t))
                                 /\ tenants[t] <= TenantLimit
    /\ \A a \in M!Actors : /\ actors[a] = Cardinality(M!Held \cap Of(a))
                           /\ actors[a] <= ActorLimit

Lives ==
    /\ closes \in [Sessions -> Int]
    /\ mcpSessions = {s \in Sessions : session[s].phase = "live"}
    /\ servers = {s \in Sessions : session[s].phase \in {"connecting", "live"}}
    /\ \A s \in Sessions : /\ session[s].released <=> session[s].phase = "ended"
                           /\ closes[s] > 0 => session[s].phase = "ended"

SessionsInv == Counters /\ Lives

\* What the step of session s does to the session, and to the counters
Becomes(s, p) ==
    /\ session'[s].phase = p /\ session'[s].actor = session[s].actor
    /\ session'[s].released <=> p = "ended"
    /\ session' \in [Sessions -> M!Session]
    /\ \A x \in Sessions : x # s => session'[x] = session[x]

Same == UNCHANGED <<total, tenants, actors>>

Waits(p) == p \in {"building", "connecting", "live"}

Gains(s) ==
    /\ session[s].phase = "new" /\ Becomes(s, "building")
    /\ M!HasRoom(session[s].actor) /\ M!Count(session[s].actor, 1)

Gives(s) ==
    /\ Waits(session[s].phase) /\ Becomes(s, "ended")
    /\ M!Count(session[s].actor, -1)

Stays(s) ==
    /\ Same
    /\ \E p : Becomes(s, p) /\ (Waits(p) <=> Waits(session[s].phase))

\* A record of a session that is written is one.
LEMMA SessionWritten ==
    ASSUME session \in [Sessions -> M!Session], NEW s \in Sessions
    PROVE  /\ session' = M!Ended(s) => Becomes(s, "ended")
           /\ \A p \in {"building", "connecting", "live"} :
                 session[s].released = FALSE
                 /\ session' = [session EXCEPT ![s].phase = p] => Becomes(s, p)
           /\ \A i \in BOOLEAN :
                 /\ session' = [session EXCEPT ![s].idle = i]
                 /\ session[s].released <=> session[s].phase = "ended"
                 => Becomes(s, session[s].phase)
  <1>0. session[s] \in M!Session
    OBVIOUS
  <1>1. ASSUME session' = M!Ended(s) PROVE Becomes(s, "ended")
    <2>1. /\ session'[s] = [session[s] EXCEPT !.phase = "ended", !.released = TRUE]
          /\ session' = [session EXCEPT ![s] = session'[s]]
      BY <1>1 DEF M!Ended
    <2>2. /\ session'[s] \in M!Session /\ session'[s].phase = "ended"
          /\ session'[s].actor = session[s].actor /\ session'[s].released = TRUE
      BY <1>0, <2>1 DEF M!Session
    <2> QED BY <2>1, <2>2 DEF Becomes
  <1>2. ASSUME NEW p \in {"building", "connecting", "live"}, session[s].released = FALSE,
               session' = [session EXCEPT ![s].phase = p]
        PROVE  Becomes(s, p)
    <2>1. /\ session'[s] = [session[s] EXCEPT !.phase = p]
          /\ session' = [session EXCEPT ![s] = session'[s]]
      BY <1>2
    <2>2. /\ session'[s] \in M!Session /\ session'[s].phase = p
          /\ session'[s].actor = session[s].actor /\ session'[s].released = FALSE
      BY <1>0, <1>2, <2>1 DEF M!Session
    <2> QED BY <2>1, <2>2 DEF Becomes
  <1>3. ASSUME NEW i \in BOOLEAN, session' = [session EXCEPT ![s].idle = i],
               session[s].released <=> session[s].phase = "ended"
        PROVE  Becomes(s, session[s].phase)
    <2>1. /\ session'[s] = [session[s] EXCEPT !.idle = i]
          /\ session' = [session EXCEPT ![s] = session'[s]]
      BY <1>3
    <2>2. /\ session'[s] \in M!Session /\ session'[s].phase = session[s].phase
          /\ session'[s].actor = session[s].actor
          /\ session'[s].released = session[s].released
      BY <1>0, <2>1 DEF M!Session
    <2> QED BY <1>3, <2>1, <2>2 DEF Becomes
  <1> QED BY <1>1, <1>2, <1>3

\* The map, the servers and the onclose calls that are left follow a session
\* whose phase becomes p
Follows(s, p) ==
    /\ mcpSessions' = IF p = "live" THEN mcpSessions \cup {s} ELSE mcpSessions \ {s}
    /\ servers' = IF p \in {"connecting", "live"} THEN servers \cup {s} ELSE servers \ {s}
    /\ closes' \in [Sessions -> Int]
    /\ \A x \in Sessions : x # s => closes'[x] = closes[x]
    /\ closes'[s] > 0 => p = "ended"

\* Every step of a session takes capacity, gives it back or leaves it.
LEMMA SessionMoves ==
    ASSUME SessionsInv, NEW s \in Sessions, M!SessionStep(s)
    PROVE  /\ Gains(s) \/ Gives(s) \/ Stays(s)
           /\ \E p : Becomes(s, p) /\ Follows(s, p)
  <1>0. /\ session \in [Sessions -> M!Session] /\ closes \in [Sessions -> Int]
        /\ mcpSessions = {x \in Sessions : session[x].phase = "live"}
        /\ servers = {x \in Sessions : session[x].phase \in {"connecting", "live"}}
        /\ session[s].released <=> session[s].phase = "ended"
        /\ closes[s] > 0 => session[s].phase = "ended"
        /\ MaxCloses \in Int /\ closes[s] \in Int
    BY ResourcesAssumed DEF SessionsInv, Counters, Lives, M!McpSessionsAssumption
  <1>1. /\ session[s].phase \in {"new", "building", "connecting", "live", "ended"}
        /\ session[s].released \in BOOLEAN
    BY <1>0 DEF M!Session
  <1>2. /\ UNCHANGED closes \/ closes' = [closes EXCEPT ![s] = MaxCloses]
              \/ closes' = [closes EXCEPT ![s] = @ - 1]
              => closes' \in [Sessions -> Int] /\ \A x \in Sessions : x # s => closes'[x] = closes[x]
        /\ UNCHANGED closes => closes'[s] = closes[s]
    BY <1>0
  <1> DEFINE Out == (Gains(s) \/ Gives(s) \/ Stays(s)) /\ \E p : Becomes(s, p) /\ Follows(s, p)
  <1>3. CASE M!Initialize(s)
    <2>1. /\ session[s].phase = "new" /\ session[s].released = FALSE
          /\ session' = [session EXCEPT ![s].phase = "building"]
          /\ M!HasRoom(session[s].actor) /\ M!Count(session[s].actor, 1)
          /\ UNCHANGED <<mcpSessions, servers, closes>>
      BY <1>0, <1>1, <1>3 DEF M!Initialize, M!Reserve
    <2>2. Becomes(s, "building")
      BY <1>0, <2>1, SessionWritten
    <2>3. Follows(s, "building")
      BY <1>0, <1>2, <2>1 DEF Follows
    <2> QED BY <2>1, <2>2, <2>3 DEF Gains
  <1>4. CASE M!Refused(s)
    <2>1. /\ session[s].phase = "new" /\ session' = M!Ended(s) /\ Same
          /\ UNCHANGED <<mcpSessions, servers, closes>>
      BY <1>4 DEF M!Refused, Same
    <2>2. Becomes(s, "ended")
      BY <1>0, <2>1, SessionWritten
    <2>3. Follows(s, "ended")
      BY <1>0, <1>2, <2>1 DEF Follows
    <2> QED BY <2>1, <2>2, <2>3 DEF Stays, Waits
  <1>5. CASE M!BuildServer(s)
    <2>1. /\ session[s].phase = "building" /\ session[s].released = FALSE
          /\ session' = [session EXCEPT ![s].phase = "connecting"]
          /\ Same /\ servers' = servers \cup {s} /\ UNCHANGED <<mcpSessions, closes>>
      BY <1>0, <1>1, <1>5 DEF M!BuildServer, Same
    <2>2. Becomes(s, "connecting")
      BY <1>0, <2>1, SessionWritten
    <2>3. Follows(s, "connecting")
      BY <1>0, <1>2, <2>1 DEF Follows
    <2> QED BY <2>1, <2>2, <2>3 DEF Stays, Waits
  <1>6. CASE M!BuildFails(s)
    <2>1. /\ session[s].phase = "building" /\ session[s].released = FALSE
          /\ session' = M!Ended(s) /\ UNCHANGED <<mcpSessions, servers, closes>>
          /\ M!Release(s)
      BY <1>0, <1>1, <1>6 DEF M!BuildFails, M!FinallyReleases
    <2>2. Becomes(s, "ended") /\ M!Count(session[s].actor, -1)
      BY <1>0, <2>1, SessionWritten DEF M!Release
    <2>3. Follows(s, "ended")
      BY <1>0, <1>2, <2>1 DEF Follows
    <2> QED BY <2>1, <2>2, <2>3 DEF Gives, Waits
  <1>7. CASE M!RefusedBySDK(s)
    <2>1. /\ session[s].phase = "connecting" /\ session[s].released = FALSE
          /\ session' = M!Ended(s) /\ mcpSessions' = mcpSessions
          /\ servers' = servers \ {s} /\ closes' = [closes EXCEPT ![s] = MaxCloses]
          /\ M!Release(s)
      BY <1>0, <1>1, <1>7 DEF M!RefusedBySDK, M!FinallyReleases
    <2>2. Becomes(s, "ended") /\ M!Count(session[s].actor, -1)
      BY <1>0, <2>1, SessionWritten DEF M!Release
    <2>3. Follows(s, "ended")
      BY <1>0, <1>2, <2>1 DEF Follows
    <2> QED BY <2>1, <2>2, <2>3 DEF Gives, Waits
  <1>8. CASE M!SessionInitialized(s)
    <2>1. /\ session[s].phase = "connecting" /\ session[s].released = FALSE
          /\ session' = [session EXCEPT ![s].phase = "live"]
          /\ Same /\ mcpSessions' = mcpSessions \cup {s} /\ UNCHANGED <<servers, closes>>
      BY <1>0, <1>1, <1>8 DEF M!SessionInitialized, Same
    <2>2. Becomes(s, "live")
      BY <1>0, <2>1, SessionWritten
    <2>3. Follows(s, "live")
      BY <1>0, <1>2, <2>1 DEF Follows
    <2> QED BY <2>1, <2>2, <2>3 DEF Stays, Waits
  <1>9. CASE M!Idle(s) \/ M!Request(s)
    <2>1. /\ session[s].phase = "live"
          /\ \E i \in BOOLEAN : session' = [session EXCEPT ![s].idle = i]
          /\ Same /\ UNCHANGED <<mcpSessions, servers, closes>>
      BY <1>0, <1>9 DEF M!Idle, M!Request, Same
    <2>2. Becomes(s, session[s].phase)
      BY <1>0, <2>1, SessionWritten
    <2>3. Becomes(s, "live")
      BY <2>1, <2>2
    <2>4. Follows(s, "live")
      BY <1>0, <1>2, <2>1 DEF Follows
    <2> QED BY <2>1, <2>3, <2>4 DEF Stays, Waits
  <1>10. CASE M!Sweep(s) \/ M!AuthorizationChanged(s) \/ M!Delete(s)
    <2>1. /\ session[s].phase = "live" /\ session[s].released = FALSE
          /\ session' = M!Ended(s) /\ mcpSessions' = mcpSessions \ {s}
          /\ servers' = servers \ {s} /\ closes' = [closes EXCEPT ![s] = MaxCloses]
          /\ M!Release(s)
      BY <1>0, <1>1, <1>10 DEF M!Sweep, M!AuthorizationChanged, M!Delete, M!Remove
    <2>2. Becomes(s, "ended") /\ M!Count(session[s].actor, -1)
      BY <1>0, <2>1, SessionWritten DEF M!Release
    <2>3. Follows(s, "ended")
      BY <1>0, <1>2, <2>1 DEF Follows
    <2> QED BY <2>1, <2>2, <2>3 DEF Gives, Waits
  <1>11. CASE M!OnClose(s)
    <2>1. /\ session[s].phase = "ended" /\ session[s].released = TRUE
          /\ session' = M!Ended(s) /\ mcpSessions' = mcpSessions \ {s}
          /\ servers' = servers \ {s} /\ closes' = [closes EXCEPT ![s] = @ - 1]
          /\ M!Release(s)
      BY <1>0, <1>1, <1>11 DEF M!OnClose, M!Remove
    <2>2. Becomes(s, "ended") /\ Same
      BY <1>0, <2>1, SessionWritten DEF M!Release, Same
    <2>3. Follows(s, "ended")
      BY <1>0, <1>2, <2>1 DEF Follows
    <2> QED BY <2>1, <2>2, <2>3 DEF Stays, Waits
  <1> QED BY <1>3, <1>4, <1>5, <1>6, <1>7, <1>8, <1>9, <1>10, <1>11 DEF M!SessionStep

\* The map, the servers and the onclose calls stay those of the sessions.
LEMMA LivesKept ==
    ASSUME SessionsInv, NEW s \in Sessions, NEW p, Becomes(s, p), Follows(s, p)
    PROVE  Lives'
  <1>1. /\ session'[s].phase = p /\ (session'[s].released <=> p = "ended")
        /\ \A x \in Sessions : x # s => session'[x] = session[x] /\ closes'[x] = closes[x]
        /\ closes' \in [Sessions -> Int] /\ (closes'[s] > 0 => p = "ended")
    BY DEF Becomes, Follows
  <1>2. \A x \in Sessions : /\ session'[x].released <=> session'[x].phase = "ended"
                            /\ closes'[x] > 0 => session'[x].phase = "ended"
    BY <1>1 DEF SessionsInv, Lives
  <1>3. mcpSessions' = {x \in Sessions : session'[x].phase = "live"}
    BY <1>1 DEF SessionsInv, Lives, Follows
  <1>4. servers' = {x \in Sessions : session'[x].phase \in {"connecting", "live"}}
    BY <1>1 DEF SessionsInv, Lives, Follows
  <1> QED BY <1>1, <1>2, <1>3, <1>4 DEF Lives

\* The counters stay the numbers of the sessions that initialize or live.
LEMMA CountersKept ==
    ASSUME SessionsInv, NEW s \in Sessions, Gains(s) \/ Gives(s) \/ Stays(s)
    PROVE  Counters'
  <1> DEFINE a == session[s].actor
  <1>0. /\ session \in [Sessions -> M!Session] /\ IsFiniteSet(M!Held)
        /\ tenants \in [SessionTenants -> Int] /\ actors \in [M!Actors -> Int]
        /\ {TotalLimit, TenantLimit, ActorLimit} \subseteq Int
    BY ResourcesAssumed DEF SessionsInv, Counters, M!McpSessionsAssumption
  <1>1. /\ session' \in [Sessions -> M!Session] /\ session'[s].actor = a
        /\ \A x \in Sessions : x # s => session'[x] = session[x]
    BY DEF Gains, Gives, Stays, Becomes
  <1>2. /\ \A t : In(t)' = In(t) /\ (s \in In(t) <=> a[1] = t)
        /\ \A b : Of(b)' = Of(b) /\ (s \in Of(b) <=> a = b)
    BY <1>1 DEF In, Of
  <1>3. a \in M!Actors /\ a[1] \in SessionTenants
    BY <1>0 DEF M!Session, M!Actors
  <1>4. M!Held \subseteq Sessions
    BY DEF M!Held
  <1>5. CASE Gains(s)
    <2>1. M!Held' = M!Held \cup {s} /\ s \notin M!Held
      BY <1>1, <1>5 DEF Gains, Becomes, M!Held
    <2>2. /\ total' = total + 1 /\ total < TotalLimit
          /\ tenants' = [tenants EXCEPT ![a[1]] = @ + 1] /\ tenants[a[1]] < TenantLimit
          /\ actors' = [actors EXCEPT ![a] = @ + 1] /\ actors[a] < ActorLimit
      BY <1>5 DEF Gains, M!Count, M!HasRoom
    <2>3. IsFiniteSet(M!Held') /\ Cardinality(M!Held') = Cardinality(M!Held) + 1
      BY <1>0, <2>1, FS_AddElement
    <2>4. \A C : /\ Cardinality(M!Held \cap C) \in Int
                 /\ s \in C => Cardinality(M!Held' \cap C) = Cardinality(M!Held \cap C) + 1
                 /\ s \notin C => Cardinality(M!Held' \cap C) = Cardinality(M!Held \cap C)
      <3>1. IsFiniteSet(M!Held) /\ s \notin M!Held /\ M!Held' = M!Held \cup {s}
        BY <1>0, <2>1
      <3> QED BY ONLY <3>1, OneMore
    <2>6. total' = Cardinality(M!Held') /\ total' <= TotalLimit
      BY <1>0, <2>2, <2>3, FS_CardinalityType DEF SessionsInv, Counters
    <2>7. ASSUME NEW t \in SessionTenants
          PROVE  tenants'[t] = Cardinality(M!Held' \cap In(t)) /\ tenants'[t] <= TenantLimit
      <3>1. tenants[t] = Cardinality(M!Held \cap In(t)) /\ tenants[t] <= TenantLimit
        BY DEF SessionsInv, Counters
      <3>2. CASE a[1] = t
        <4>1. tenants'[t] = tenants[t] + 1
          BY <1>0, <1>3, <2>2, <3>2
        <4> QED BY <1>0, <1>2, <2>2, <2>4, <3>1, <3>2, <4>1
      <3>3. CASE a[1] # t
        <4>1. tenants'[t] = tenants[t]
          BY <1>0, <1>3, <2>2, <3>3
        <4> QED BY <1>2, <2>4, <3>1, <3>3, <4>1
      <3> QED BY <3>2, <3>3
    <2>8. ASSUME NEW b \in M!Actors
          PROVE  actors'[b] = Cardinality(M!Held' \cap Of(b)) /\ actors'[b] <= ActorLimit
      <3>1. actors[b] = Cardinality(M!Held \cap Of(b)) /\ actors[b] <= ActorLimit
        BY DEF SessionsInv, Counters
      <3>2. CASE a = b
        <4>1. actors'[b] = actors[b] + 1
          BY <1>0, <1>3, <2>2, <3>2
        <4> QED BY <1>0, <1>2, <2>2, <2>4, <3>1, <3>2, <4>1
      <3>3. CASE a # b
        <4>1. actors'[b] = actors[b]
          BY <1>0, <1>3, <2>2, <3>3
        <4> QED BY <1>2, <2>4, <3>1, <3>3, <4>1
      <3> QED BY <3>2, <3>3
    <2>9. tenants' \in [SessionTenants -> Int] /\ actors' \in [M!Actors -> Int]
      BY <1>0, <1>3, <2>2
    <2> QED BY <1>1, <1>2, <2>3, <2>6, <2>7, <2>8, <2>9 DEF Counters
  <1>6. CASE Gives(s)
    <2>1. M!Held' = M!Held \ {s} /\ s \in M!Held
      BY <1>1, <1>6 DEF Gives, Becomes, Waits, M!Held
    <2>2. /\ total' = total - 1
          /\ tenants' = [tenants EXCEPT ![a[1]] = @ - 1]
          /\ actors' = [actors EXCEPT ![a] = @ - 1]
      BY <1>0, <1>3, <1>6, FS_CardinalityType DEF Gives, M!Count, SessionsInv, Counters
    <2>3. IsFiniteSet(M!Held') /\ Cardinality(M!Held') = Cardinality(M!Held) - 1
      BY <1>0, <2>1, FS_RemoveElement
    <2>4. \A C : /\ Cardinality(M!Held \cap C) \in Int
                 /\ s \in C => Cardinality(M!Held' \cap C) = Cardinality(M!Held \cap C) - 1
                 /\ s \notin C => Cardinality(M!Held' \cap C) = Cardinality(M!Held \cap C)
      BY <1>0, <2>1, OneLess
    <2>6. total' = Cardinality(M!Held') /\ total' <= TotalLimit
      BY <1>0, <2>2, <2>3, FS_CardinalityType DEF SessionsInv, Counters
    <2>7. ASSUME NEW t \in SessionTenants
          PROVE  tenants'[t] = Cardinality(M!Held' \cap In(t)) /\ tenants'[t] <= TenantLimit
      <3>1. tenants[t] = Cardinality(M!Held \cap In(t)) /\ tenants[t] <= TenantLimit
        BY DEF SessionsInv, Counters
      <3>2. CASE a[1] = t
        <4>1. tenants'[t] = tenants[t] - 1
          BY <1>0, <1>3, <2>2, <3>2
        <4> QED BY <1>0, <1>2, <2>2, <2>4, <3>1, <3>2, <4>1
      <3>3. CASE a[1] # t
        <4>1. tenants'[t] = tenants[t]
          BY <1>0, <1>3, <2>2, <3>3
        <4> QED BY <1>2, <2>4, <3>1, <3>3, <4>1
      <3> QED BY <3>2, <3>3
    <2>8. ASSUME NEW b \in M!Actors
          PROVE  actors'[b] = Cardinality(M!Held' \cap Of(b)) /\ actors'[b] <= ActorLimit
      <3>1. actors[b] = Cardinality(M!Held \cap Of(b)) /\ actors[b] <= ActorLimit
        BY DEF SessionsInv, Counters
      <3>2. CASE a = b
        <4>1. actors'[b] = actors[b] - 1
          BY <1>0, <1>3, <2>2, <3>2
        <4> QED BY <1>0, <1>2, <2>2, <2>4, <3>1, <3>2, <4>1
      <3>3. CASE a # b
        <4>1. actors'[b] = actors[b]
          BY <1>0, <1>3, <2>2, <3>3
        <4> QED BY <1>2, <2>4, <3>1, <3>3, <4>1
      <3> QED BY <3>2, <3>3
    <2>9. tenants' \in [SessionTenants -> Int] /\ actors' \in [M!Actors -> Int]
      BY <1>0, <1>3, <2>2
    <2> QED BY <1>1, <1>2, <2>3, <2>6, <2>7, <2>8, <2>9 DEF Counters
  <1>7. CASE Stays(s)
    <2>1. UNCHANGED <<total, tenants, actors>> /\ M!Held' = M!Held
      BY <1>1, <1>7 DEF Stays, Same, Becomes, Waits, M!Held
    <2> QED BY <1>1, <1>2, <2>1 DEF SessionsInv, Counters
  <1> QED BY <1>5, <1>6, <1>7

\* While the sessions run the counters and the maps are theirs
SessionsRun == part = "sessions" => SessionsInv

\* The invariant holds initially and is kept.
LEMMA SessionsInductive == MCSpec => []SessionsRun
  <1>1. MCInit => SessionsRun
    <2> SUFFICES ASSUME M!Init PROVE SessionsInv
      BY DEF MCInit, SessionsRun
    <2>1. /\ session \in [Sessions -> M!Session]
          /\ \A s \in Sessions : session[s].phase = "new" /\ session[s].released = FALSE
      BY DEF M!Init, M!Session
    <2>2. M!Held = {} /\ \A C : {} \cap C = {}
      BY <2>1 DEF M!Held
    <2>3. \A C : Cardinality(M!Held \cap C) = 0 /\ Cardinality(M!Held) = 0
      BY <2>2, FS_EmptySet
    <2>4. /\ total = 0 /\ tenants = [t \in SessionTenants |-> 0]
          /\ actors = [a \in M!Actors |-> 0] /\ IsFiniteSet(M!Held)
      BY <2>2, FS_EmptySet DEF M!Init
    <2>5. TotalLimit >= 0 /\ TenantLimit >= 0 /\ ActorLimit >= 0
      BY ResourcesAssumed DEF M!McpSessionsAssumption
    <2>6. Counters
      BY <2>1, <2>3, <2>4, <2>5 DEF Counters
    <2>7. Lives
      BY <2>1 DEF M!Init, Lives
    <2> QED BY <2>6, <2>7 DEF SessionsInv
  <1>2. SessionsRun /\ [MCNext]_<<part, vars, gVars, mVars>> => SessionsRun'
    <2> SUFFICES ASSUME SessionsRun, [MCNext]_<<part, vars, gVars, mVars>>
                 PROVE  SessionsRun'
      OBVIOUS
    <2>1. ASSUME part = "sessions", M!Next, part' = part PROVE SessionsRun'
      <3>1. PICK s \in Sessions : M!SessionStep(s)
        BY <2>1 DEF M!Next
      <3>2. SessionsInv
        BY <2>1 DEF SessionsRun
      <3>3. Lives' /\ Counters'
        BY <3>1, <3>2, SessionMoves, LivesKept, CountersKept
      <3> QED BY <3>3 DEF SessionsInv, SessionsRun
    <2>2. ASSUME UNCHANGED <<part, mVars>> PROVE SessionsRun'
      BY <2>2 DEF mVars, SessionsRun, SessionsInv, Counters, Lives, M!Held, In, Of
    <2> QED BY <2>1, <2>2 DEF MCNext, SessionsRun
  <1> QED BY <1>1, <1>2, PTL DEF MCSpec

\* Whatever the limits, the tenants, users and sessions, and however sessions
\* are refused, fail half-way and are ended twice: the capacity, the map of
\* sessions and the servers are those of the sessions that initialize or live,
\* and these pass no limit.
THEOREM CapacityHolds == MCSpec => []CapacityIsAccounted
  <1>1. SessionsRun => CapacityIsAccounted
    <2> SUFFICES ASSUME SessionsInv PROVE M!NothingLeaks /\ M!WithinLimits
      BY DEF SessionsRun, CapacityIsAccounted
    <2>1. /\ \A t : {s \in M!Held : session[s].actor[1] = t} = M!Held \cap In(t)
          /\ \A a : {s \in M!Held : session[s].actor = a} = M!Held \cap Of(a)
      BY DEF In, Of, M!Held
    <2>2. M!NothingLeaks
      BY <2>1, SessionsCount DEF M!NothingLeaks, SessionsInv, Counters, Lives
    <2>3. M!WithinLimits
      BY <2>1, SessionsCount DEF M!WithinLimits, SessionsInv, Counters
    <2> QED BY <2>2, <2>3
  <1> QED BY <1>1, SessionsInductive, PTL

-----------------------------------------------------------------------------
(* The types of a connector's calls                                        *)

\* A call, its times as numbers
CallRecord ==
    [phase : G!Phases, tenant : Tenants, signal : Signals,
     attempts : Int, startedAt : Int, sleptAt : Int]

CallsTyped == clock \in Int /\ call \in [Calls -> CallRecord]

\* Calls that are over and calls that are granted a slot are calls.
LEMMA HandedTyped ==
    ASSUME CallsTyped, NEW E, NEW K, call' = G!Handed(E, K)
    PROVE  call' \in [Calls -> CallRecord]
  <1>1. ASSUME NEW c \in Calls PROVE call'[c] \in CallRecord
    <2>0. call[c] \in CallRecord
      BY DEF CallsTyped
    <2>1. \/ call'[c] = [call[c] EXCEPT !.phase = "over"]
          \/ call'[c] = [call[c] EXCEPT !.phase = "granted"]
          \/ call'[c] = call[c]
      BY DEF G!Handed
    <2> QED BY <2>0, <2>1 DEF CallRecord, G!Phases
  <1>2. call' = [c \in Calls |-> call'[c]]
    BY DEF G!Handed
  <1> QED BY <1>1, <1>2

\* A call whose fields are written is a call.
LEMMA CallWritten ==
    ASSUME NEW k \in CallRecord, NEW p \in G!Phases, NEW n \in Int, NEW m \in Int
    PROVE  /\ [k EXCEPT !.phase = p] \in CallRecord
           /\ [k EXCEPT !.phase = p, !.sleptAt = n] \in CallRecord
           /\ [k EXCEPT !.phase = p, !.attempts = m] \in CallRecord
           /\ [k EXCEPT !.phase = p, !.attempts = m, !.startedAt = n] \in CallRecord
  <1>1. [k EXCEPT !.phase = p] \in CallRecord
    BY DEF CallRecord
  <1>2. \A h \in CallRecord : [h EXCEPT !.sleptAt = n] \in CallRecord
    BY DEF CallRecord
  <1>3. \A h \in CallRecord : [h EXCEPT !.attempts = m] \in CallRecord
    BY DEF CallRecord
  <1>4. \A h \in CallRecord : [h EXCEPT !.startedAt = n] \in CallRecord
    BY DEF CallRecord
  <1> QED BY <1>1, <1>2, <1>3, <1>4

\* Every step of a call leaves calls.
LEMMA CallStepTyped ==
    ASSUME CallsTyped, NEW c \in Calls, G!CallStep(c)
    PROVE  call' \in [Calls -> CallRecord] /\ clock' = clock
  <1>0. /\ call[c] \in CallRecord /\ clock \in Int
        /\ call \in [Calls -> CallRecord]
        /\ 1 \in Int /\ call[c].attempts + 1 \in Int
    BY DEF CallsTyped, CallRecord
  <1>p. {"queued", "running", "sleeping", "over"} \subseteq G!Phases
    BY DEF G!Phases
  <1>w. ASSUME NEW r \in CallRecord, call' = [call EXCEPT ![c] = r]
        PROVE  call' \in [Calls -> CallRecord]
    BY <1>0, <1>w
  <1>1. CASE G!Refused(c)
    <2>1. [call[c] EXCEPT !.phase = "over"] \in CallRecord
      BY <1>0, <1>p, CallWritten
    <2> QED BY <1>1, <1>w, <2>1 DEF G!Refused
  <1>2. CASE G!Enter(c) \/ G!Accept(c)
    <2> DEFINE r == [call[c] EXCEPT !.phase = "running", !.attempts = 1,
                                    !.startedAt = clock]
               q == [call[c] EXCEPT !.phase = "queued"]
    <2>1. r \in CallRecord
      BY <1>0, <1>p, CallWritten
    <2>2. q \in CallRecord
      BY <1>0, <1>p, CallWritten
    <2>3. clock' = clock /\ (call' = [call EXCEPT ![c] = r] \/ call' = [call EXCEPT ![c] = q])
      BY <1>2 DEF G!Enter, G!Accept
    <2> HIDE DEF r, q
    <2> QED BY <1>w, <2>1, <2>2, <2>3
  <1>3. CASE G!Abandon(c) \/ G!Succeed(c)
    <2>1. clock' = clock /\ \E K : call' = G!Handed({c}, K)
      BY <1>3 DEF G!Abandon, G!Succeed, G!Release
    <2> QED BY <2>1, HandedTyped
  <1>4. ASSUME NEW final \in BOOLEAN, G!Fail(c, final)
        PROVE  call' \in [Calls -> CallRecord] /\ clock' = clock
    <2>1. clock' = clock
      BY <1>4 DEF G!Fail
    <2>2. CASE G!Release(c)
      <3>1. \E K : call' = G!Handed({c}, K)
        BY <2>2 DEF G!Release
      <3> QED BY <2>1, <3>1, HandedTyped
    <2>3. CASE call' = [call EXCEPT ![c].phase = "sleeping", ![c].sleptAt = clock]
      <3>1. [call[c] EXCEPT !.phase = "sleeping", !.sleptAt = clock] \in CallRecord
        BY <1>0, <1>p, CallWritten
      <3> QED BY <1>w, <2>1, <2>3, <3>1
    <2> QED BY <1>4, <2>2, <2>3 DEF G!Fail
  <1>5. CASE G!Wake(c)
    <2> DEFINE r == [call[c] EXCEPT !.phase = "running", !.attempts = @ + 1]
    <2>1. call' = [call EXCEPT ![c] = r] /\ clock' = clock
      BY <1>0, <1>5 DEF G!Wake
    <2>2. r \in CallRecord
      BY <1>0, <1>p, CallWritten
    <2> QED BY <1>w, <2>1, <2>2
  <1> QED BY <1>1, <1>2, <1>3, <1>4, <1>5 DEF G!CallStep

\* The types are kept.
LEMMA CallsTypedKept ==
    ASSUME CallsTyped, G!Next
    PROVE  CallsTyped'
  <1>1. CASE G!Tick
    BY <1>1 DEF G!Tick, CallsTyped
  <1>2. ASSUME NEW c \in Calls, G!CallStep(c) PROVE CallsTyped'
    BY <1>2, CallStepTyped DEF CallsTyped
  <1>3. ASSUME NEW s \in Signals, G!Abort(s) PROVE CallsTyped'
    <2>1. clock' = clock /\ \E E, K : call' = G!Handed(E, K)
      BY <1>3 DEF G!Abort
    <2> QED BY <2>1, HandedTyped DEF CallsTyped
  <1> QED BY <1>1, <1>2, <1>3 DEF G!Next

-----------------------------------------------------------------------------
(* The slots of a connector                                                *)

\* The instance counts as its module does.
LEMMA CallsCount == \A S : G!Cardinality(S) = Cardinality(S)
  BY DEF G!Cardinality, Cardinality, G!IsFiniteSet, IsFiniteSet

\* A set of naturals has a least member.
LEMMA LeastNat ==
    ASSUME NEW T \in SUBSET Nat, T # {}
    PROVE  \E n \in T : \A m \in T : n <= m
  <1>1. PICK n \in T : \A m \in T : <<m, n>> \notin OpToRel(<, Nat)
    BY WFMin, NatLessThanWellFounded, Zenon
  <1>2. \A m \in T : ~(m < n)
    BY <1>1, Zenon DEF OpToRel
  <1> QED BY <1>2

\* Induction over the naturals, for the sets that are closed under it.
LEMMA Induction ==
    ASSUME NEW T \in SUBSET Nat, 0 \in T, \A n \in T : n + 1 \in T
    PROVE  T = Nat
  <1> SUFFICES ASSUME Nat \ T # {} PROVE FALSE
    OBVIOUS
  <1>1. PICK n \in Nat \ T : \A m \in Nat \ T : n <= m
    BY LeastNat
  <1>2. n # 0 /\ n - 1 \in Nat
    BY <1>1
  <1>3. n - 1 \in T
    BY <1>1, <1>2
  <1> QED BY <1>1, <1>2, <1>3

\* A sequence of places that goes up
Increasing(f) == \A i, j \in DOMAIN f : i < j => f[i] < f[j]

\* Places can be numbered in their order.
LEMMA Enumerated ==
    ASSUME NEW N \in Nat, NEW K \in SUBSET (1..N)
    PROVE  /\ Cardinality(K) \in Nat
           /\ \E f \in [1..Cardinality(K) -> K] : Increasing(f)
  <1> DEFINE Good(L) == \E f \in [1..Cardinality(L) -> L] : Increasing(f)
             T == {n \in Nat : \A L \in SUBSET (1..N) : Cardinality(L) = n => Good(L)}
  <1>1. \A L \in SUBSET (1..N) : IsFiniteSet(L) /\ Cardinality(L) \in Nat
    <2>1. IsFiniteSet(1..N)
      BY FS_Interval
    <2>2. ASSUME NEW L \in SUBSET (1..N) PROVE IsFiniteSet(L) /\ Cardinality(L) \in Nat
      BY <2>1, FS_Subset, FS_CardinalityType
    <2> QED BY <2>2
  <1>2. 0 \in T
    <2> SUFFICES ASSUME NEW L \in SUBSET (1..N), Cardinality(L) = 0 PROVE Good(L)
      OBVIOUS
    <2> DEFINE f == [i \in 1..0 |-> i]
    <2>1. f \in [1..0 -> L] /\ Increasing(f)
      BY DEF Increasing
    <2> QED BY <2>1
  <1>3. ASSUME NEW n \in T PROVE n + 1 \in T
    <2> SUFFICES ASSUME NEW L \in SUBSET (1..N), Cardinality(L) = n + 1 PROVE Good(L)
      BY <1>3
    <2>1. L # {}
      BY <1>1, <1>3, FS_EmptySet
    <2> DEFINE B == {b \in Nat : \A k \in L : k <= b}
    <2>2. N \in B
      OBVIOUS
    <2>3. PICK m \in B : \A b \in B : m <= b
      BY <2>2, LeastNat
    <2>4. m \in L
      <3> SUFFICES ASSUME m \notin L PROVE FALSE
        OBVIOUS
      <3>1. \A k \in L : k <= m - 1
        BY <2>3
      <3>2. m - 1 \in Nat
        <4>1. PICK k \in L : TRUE
          BY <2>1
        <4>2. k \in 1..N /\ k <= m /\ m \in Nat
          BY <2>3
        <4> QED BY <4>2
      <3>3. m - 1 \in B
        BY <3>1, <3>2
      <3> QED BY <2>3, <3>3
    <2> DEFINE J == L \ {m}
    <2>5. J \in SUBSET (1..N) /\ Cardinality(J) = n
      BY <1>1, <1>3, <2>4, FS_RemoveElement
    <2>6. PICK f \in [1..n -> J] : Increasing(f)
      BY <1>3, <2>5
    <2> DEFINE g == [i \in 1..(n + 1) |-> IF i = n + 1 THEN m ELSE f[i]]
    <2>7. \A i \in 1..n : f[i] \in L /\ f[i] < m /\ f[i] \in Nat
      <3>1. ASSUME NEW k \in J PROVE k \in L /\ k < m /\ k \in Nat
        <4>1. k \in 1..N /\ k <= m /\ m \in Nat /\ k # m
          BY <2>3
        <4> QED BY <4>1
      <3> QED BY <2>6, <3>1
    <2>8. g \in [1..(n + 1) -> L]
      BY <1>3, <2>4, <2>7
    <2>9. Increasing(g)
      BY <1>3, <2>6, <2>7 DEF Increasing
    <2> QED BY <2>8, <2>9
  <1>4. T = Nat
    <2>1. T \in SUBSET Nat
      OBVIOUS
    <2> HIDE DEF T
    <2> QED BY <1>2, <1>3, <2>1, Induction
  <1>5. Cardinality(K) \in T
    BY <1>1, <1>4
  <1> QED BY <1>1, <1>5

\* A queue of calls in which nobody stands twice
Queue(q) ==
    /\ q \in Seq(Calls)
    /\ \A i, j \in 1..Len(q) : q[i] = q[j] => i = j

\* The splices of an abort leave a queue of those who were in it and stay.
LEMMA WithoutKeeps ==
    ASSUME NEW q, Queue(q), NEW gone
    PROVE  /\ Queue(G!Without(q, gone))
           /\ \A i \in 1..Len(G!Without(q, gone)) :
                 /\ G!Without(q, gone)[i] \notin gone
                 /\ \E j \in 1..Len(q) : G!Without(q, gone)[i] = q[j]
  <1> DEFINE K == {i \in DOMAIN q : q[i] \notin gone}
             n == G!Cardinality(K)
             f == CHOOSE g \in [1..n -> K] : \A i, j \in DOMAIN g : i < j => g[i] < g[j]
             r == [i \in 1..n |-> q[f[i]]]
  <1>1. Len(q) \in Nat /\ DOMAIN q = 1..Len(q) /\ \A i \in 1..Len(q) : q[i] \in Calls
    BY DEF Queue
  <1>2. n \in Nat /\ \E g \in [1..n -> K] : Increasing(g)
    <2>1. K \in SUBSET (1..Len(q)) /\ n = Cardinality(K)
      BY <1>1, CallsCount
    <2> HIDE DEF K, n
    <2> QED BY <1>1, <2>1, Enumerated
  <1>3. f \in [1..n -> K] /\ \A i, j \in 1..n : i < j => f[i] < f[j]
    <2> HIDE DEF K, n
    <2>1. \E g \in [1..n -> K] : \A i, j \in DOMAIN g : i < j => g[i] < g[j]
      BY <1>2 DEF Increasing
    <2>2. f \in [1..n -> K] /\ \A i, j \in DOMAIN f : i < j => f[i] < f[j]
      BY <2>1
    <2> QED BY <2>2
  <1>4. G!Without(q, gone) = r
    BY DEF G!Without
  <1> HIDE DEF f, n
  <1>5. \A i \in 1..n : f[i] \in 1..Len(q) /\ q[f[i]] \notin gone /\ q[f[i]] \in Calls
    BY <1>1, <1>3
  <1>6. r \in Seq(Calls) /\ Len(r) = n /\ \A i \in 1..n : r[i] = q[f[i]]
    BY <1>2, <1>5
  <1>7. ASSUME NEW i \in 1..n, NEW j \in 1..n, r[i] = r[j] PROVE i = j
    <2>1. f[i] = f[j]
      BY <1>5, <1>6, <1>7 DEF Queue
    <2>2. ~(i < j) /\ ~(j < i)
      BY <1>1, <1>3, <1>5, <2>1
    <2> QED BY <1>2, <2>2
  <1> HIDE DEF r, K
  <1> QED BY <1>4, <1>5, <1>6, <1>7 DEF Queue

\* What it means that the first of q take over n slots of the set B from H
TakenOver(H, B, n, q) ==
    LET k == G!Smaller(n, Len(q))
        I == (H \ B) \cup G!Chosen(n, q)
    IN  /\ n \in Nat /\ k \in Nat /\ k <= n
        /\ IsFiniteSet(I) /\ Cardinality(I) = Cardinality(H) - (n - k)
        /\ Cardinality(I) \in Nat /\ Cardinality(H) \in Nat
        /\ Queue(G!Left(n, q))
        /\ \A i \in 1..Len(G!Left(n, q)) :
              /\ G!Left(n, q)[i] \notin G!Chosen(n, q)
              /\ \E j \in 1..Len(q) : G!Left(n, q)[i] = q[j]
        /\ G!Left(n, q) # <<>> => k = n /\ q # <<>>

\* When some of those who hold a slot give theirs back, the first in the queue
\* take them over; whoever is left waits only if all slots are taken over.
LEMMA HandOver ==
    ASSUME NEW H, IsFiniteSet(H), NEW B, B \subseteq H, NEW n, n = Cardinality(B),
           NEW q, Queue(q), \A i \in 1..Len(q) : q[i] \notin H
    PROVE  TakenOver(H, B, n, q)
  <1> DEFINE k == G!Smaller(n, Len(q))
             C == G!Chosen(n, q)
             L == G!Left(n, q)
  <1>1. /\ n \in Nat /\ Cardinality(H) \in Nat /\ IsFiniteSet(B)
        /\ IsFiniteSet(H \ B) /\ Cardinality(H \ B) = Cardinality(H) - n
    <2>1. IsFiniteSet(B) /\ H \cap B = B
      BY FS_Subset
    <2> QED BY <2>1, FS_CardinalityType, FS_Difference
  <1>2. /\ Len(q) \in Nat /\ \A i \in 1..Len(q) : q[i] \in Calls
        /\ q = <<>> => Len(q) = 0
    BY DEF Queue
  <1>3. k \in Nat /\ k <= n /\ k <= Len(q) /\ (k < Len(q) => k = n)
    BY <1>1, <1>2 DEF G!Smaller
  <1>4. C = {q[i] : i \in 1..k}
    BY DEF G!Chosen
  <1>5. L = SubSeq(q, k + 1, Len(q))
    BY DEF G!Left
  <1> HIDE DEF k, C, L
  <1>6. IsFiniteSet(C) /\ Cardinality(C) = k
    <2> DEFINE f == [i \in 1..k |-> q[i]]
    <2>1. f \in Bijection(1..k, C)
      BY <1>3, <1>4 DEF Queue, Bijection, Injection, Surjection, IsInjective
    <2>2. ExistsBijection(1..k, C)
      BY <2>1 DEF ExistsBijection
    <2>3. IsFiniteSet(1..k)
      BY <1>3, FS_Interval
    <2> QED BY <1>3, <2>2, <2>3, FS_Bijection, FS_CountingElements
  <1>7. C \cap H = {}
    BY <1>2, <1>3, <1>4
  <1>8. /\ IsFiniteSet((H \ B) \cup C)
        /\ Cardinality((H \ B) \cup C) = Cardinality(H) - (n - k)
    <2>1. (H \ B) \cap C = {}
      BY <1>7
    <2>2. /\ IsFiniteSet((H \ B) \cup C)
          /\ Cardinality((H \ B) \cup C)
               = Cardinality(H \ B) + Cardinality(C) - Cardinality((H \ B) \cap C)
      BY <1>1, <1>6, FS_Union
    <2>3. Cardinality((H \ B) \cap C) = 0
      BY <2>1, FS_EmptySet
    <2> QED BY <1>1, <1>3, <1>6, <2>2, <2>3
  <1>9. /\ L \in Seq(Calls) /\ Len(L) = Len(q) - k
        /\ \A i \in 1..(Len(q) - k) : L[i] = q[k + i]
    <2>1. \A i \in (k + 1)..Len(q) : q[i] \in Calls
      BY <1>2, <1>3
    <2>2. k + 1 \in Int /\ Len(q) \in Int
      BY <1>2, <1>3
    <2>3. /\ L \in Seq(Calls)
          /\ Len(L) = IF k + 1 <= Len(q) THEN Len(q) - (k + 1) + 1 ELSE 0
          /\ \A i \in 1..(Len(q) - (k + 1) + 1) : L[i] = q[(k + 1) + i - 1]
      BY <1>5, <2>1, <2>2, SubSeqProperties
    <2> QED BY <1>2, <1>3, <2>3
  <1>10. Queue(L)
    <2>1. ASSUME NEW i \in 1..Len(L), NEW j \in 1..Len(L), L[i] = L[j] PROVE i = j
      <3>1. /\ k + i \in 1..Len(q) /\ k + j \in 1..Len(q) /\ i \in Int /\ j \in Int
            /\ q[k + i] = q[k + j]
        BY <1>2, <1>3, <1>9, <2>1
      <3>2. k + i = k + j
        BY <3>1 DEF Queue
      <3> QED BY <1>3, <3>1, <3>2
    <2> QED BY <1>9, <2>1 DEF Queue
  <1>11. ASSUME NEW i \in 1..Len(L)
         PROVE  L[i] \notin C /\ \E j \in 1..Len(q) : L[i] = q[j]
    <2>1. k + i \in 1..Len(q) /\ L[i] = q[k + i] /\ i >= 1 /\ i \in Int
      BY <1>2, <1>3, <1>9
    <2>2. ASSUME NEW j \in 1..k PROVE q[j] # q[k + i]
      <3>1. j \in 1..Len(q) /\ j # k + i
        BY <1>2, <1>3, <2>1
      <3> QED BY <2>1, <3>1 DEF Queue
    <2> QED BY <1>4, <2>1, <2>2
  <1>12. L # <<>> => k = n /\ q # <<>>
    <2>1. L # <<>> => Len(L) # 0
      BY <1>9
    <2> QED BY <1>2, <1>3, <1>9, <2>1
  <1> QED BY <1>1, <1>3, <1>6, <1>8, <1>10, <1>11, <1>12, FS_CardinalityType DEF k, C, L, TakenOver

\* A tenant's queue and the count of its slots
Accounted(t) ==
    /\ Queue(waiting[t])
    /\ \A i \in 1..Len(waiting[t]) :
          call[waiting[t][i]].phase = "queued" /\ call[waiting[t][i]].tenant = t
    /\ IsFiniteSet(G!Holding(t))
    /\ inFlight[t] = Cardinality(G!Holding(t))
    /\ inFlight[t] <= Limit
    /\ waiting[t] # <<>> => inFlight[t] = Limit

Slots ==
    /\ CallsTyped
    /\ DOMAIN inFlight = Tenants
    /\ DOMAIN waiting = Tenants
    /\ \A t \in Tenants : Accounted(t)

\* A call holds a slot in these phases
Holds(p) == p \in {"granted", "running", "sleeping"}

\* Calls end and the first of a queue are granted the slots of those that held one.
LEMMA HandedAccounts ==
    ASSUME Slots, NEW E, NEW K, call' = G!Handed(E, K), NEW t \in Tenants, NEW n, NEW q,
           n = Cardinality(G!Holding(t) \cap E),
           Queue(q),
           \A i \in 1..Len(q) :
              q[i] \notin E /\ \E j \in 1..Len(waiting[t]) : q[i] = waiting[t][j],
           \A c \in G!Chosen(n, q) : c \in K,
           \A c \in K : call[c].tenant = t => c \in G!Chosen(n, q),
           inFlight'[t] = inFlight[t] - (n - G!Smaller(n, Len(q))),
           waiting'[t] = G!Left(n, q)
    PROVE  Accounted(t)'
  <1> DEFINE H == G!Holding(t)
             B == H \cap E
             I == (H \ B) \cup G!Chosen(n, q)
  <1>1. /\ IsFiniteSet(H) /\ inFlight[t] = Cardinality(H) /\ inFlight[t] <= Limit
        /\ waiting[t] # <<>> => inFlight[t] = Limit
        /\ \A i \in 1..Len(waiting[t]) :
              /\ waiting[t][i] \in Calls
              /\ call[waiting[t][i]].phase = "queued" /\ call[waiting[t][i]].tenant = t
    BY DEF Slots, Accounted, Queue
  <1>2. \A i \in 1..Len(q) :
           /\ q[i] \in Calls /\ q[i] \notin E
           /\ call[q[i]].phase = "queued" /\ call[q[i]].tenant = t
    BY <1>1
  <1>3. \A c \in H : c \in Calls /\ call[c].tenant = t /\ Holds(call[c].phase)
    BY DEF G!Holding, G!tenant, Holds
  <1>4. \A i \in 1..Len(q) : q[i] \notin H
    BY <1>2, <1>3 DEF Holds
  <1>5. B \subseteq H /\ n = Cardinality(B)
    OBVIOUS
  <1> HIDE DEF H, B
  <1>6. LET k == G!Smaller(n, Len(q))
        IN  /\ n \in Nat /\ k \in Nat /\ k <= n
            /\ IsFiniteSet(I) /\ Cardinality(I) = Cardinality(H) - (n - k)
            /\ Cardinality(I) \in Nat /\ Cardinality(H) \in Nat
            /\ Queue(G!Left(n, q))
            /\ \A i \in 1..Len(G!Left(n, q)) :
                  /\ G!Left(n, q)[i] \notin G!Chosen(n, q)
                  /\ \E j \in 1..Len(q) : G!Left(n, q)[i] = q[j]
            /\ G!Left(n, q) # <<>> => k = n /\ q # <<>>
    <2>1. TakenOver(H, B, n, q)
      BY ONLY <1>1, <1>4, <1>5, Queue(q), HandOver
    <2> QED BY ONLY <2>1 DEF TakenOver
  <1>7. /\ \A c \in Calls : call[c] \in CallRecord
        /\ \A c \in Calls :
              call'[c] = IF c \in E THEN [call[c] EXCEPT !.phase = "over"]
                         ELSE IF c \in K THEN [call[c] EXCEPT !.phase = "granted"]
                         ELSE call[c]
    BY DEF G!Handed, Slots, CallsTyped
  <1>8. \A c \in Calls :
           /\ call'[c].tenant = call[c].tenant
           /\ call'[c].phase = IF c \in E THEN "over" ELSE IF c \in K THEN "granted"
                               ELSE call[c].phase
    BY <1>7 DEF CallRecord
  <1>9. \A c \in G!Chosen(n, q) : c \in Calls /\ c \notin E /\ call[c].tenant = t
    <2>1. \A i \in 1..G!Smaller(n, Len(q)) : i \in 1..Len(q)
      BY <1>6 DEF G!Smaller, Queue
    <2> QED BY <1>2, <2>1 DEF G!Chosen
  <1>10. \A c \in Calls : c \in G!Chosen(n, q) <=> c \in K /\ call[c].tenant = t
    BY <1>9
  <1>11. G!Holding(t)' = I
    <2>1. G!Holding(t)' = {c \in Calls : call'[c].tenant = t /\ Holds(call'[c].phase)}
      BY DEF G!Holding, G!tenant, Holds
    <2>2. \A c \in Calls : c \in H <=> call[c].tenant = t /\ Holds(call[c].phase)
      BY DEF H, G!Holding, G!tenant, Holds
    <2>3. \A c \in Calls : c \in B <=> c \in H /\ c \in E
      BY DEF B
    <2>4. ~Holds("over") /\ Holds("granted")
      BY DEF Holds
    <2> HIDE DEF Holds
    <2>5. \A c \in Calls : call'[c].tenant = t /\ Holds(call'[c].phase) <=> c \in I
      BY <1>8, <1>9, <1>10, <2>2, <2>3, <2>4
    <2>6. I \subseteq Calls
      BY <1>3, <1>9
    <2> QED BY <2>1, <2>5, <2>6
  <1>12. waiting'[t] # <<>> => inFlight'[t] = Limit
    <2>1. q # <<>> => waiting[t] # <<>>
      <3>1. q # <<>> => Len(q) \in Nat /\ Len(q) # 0
        BY DEF Queue
      <3>2. q # <<>> => 1 \in 1..Len(q)
        BY <3>1
      <3>3. q # <<>> => \E j \in 1..Len(waiting[t]) : TRUE
        BY <3>2
      <3>4. Len(<<>>) = 0
        OBVIOUS
      <3> QED BY <3>3, <3>4
    <2>2. ASSUME waiting'[t] # <<>> PROVE inFlight'[t] = Limit
      <3>1. /\ G!Smaller(n, Len(q)) = n /\ q # <<>>
        BY <1>6, <2>2
      <3>2. inFlight[t] = Limit
        BY <1>1, <2>1, <3>1
      <3>3. inFlight'[t] = inFlight[t] - (n - n)
        BY <3>1
      <3> QED BY <1>1, <1>6, <3>2, <3>3
    <2> QED BY <2>2
  <1>13. \A i \in 1..Len(waiting'[t]) :
            call'[waiting'[t][i]].phase = "queued" /\ call'[waiting'[t][i]].tenant = t
    <2> SUFFICES ASSUME NEW i \in 1..Len(G!Left(n, q))
                 PROVE  /\ call'[G!Left(n, q)[i]].phase = "queued"
                        /\ call'[G!Left(n, q)[i]].tenant = t
      OBVIOUS
    <2>1. PICK j \in 1..Len(q) : G!Left(n, q)[i] = q[j] /\ q[j] \notin G!Chosen(n, q)
      BY <1>6
    <2>2. q[j] \in Calls /\ q[j] \notin E /\ q[j] \notin K
      BY <1>2, <1>10, <2>1
    <2> QED BY <1>2, <1>8, <2>1, <2>2
  <1>14. inFlight'[t] = Cardinality(I) /\ inFlight'[t] <= Limit
    <2>1. Limit \in Int
      BY ResourcesAssumed DEF G!GovernorAssumption
    <2> QED BY <1>1, <1>6, <2>1
  <1> HIDE DEF I
  <1> QED BY <1>6, <1>11, <1>12, <1>13, <1>14 DEF Accounted

\* The domains and the pace carry over, so that the tenants are left to be shown.
LEMMA SlotsKept ==
    ASSUME Slots, G!Next, DOMAIN inFlight' = Tenants, DOMAIN waiting' = Tenants,
           \A t \in Tenants : Accounted(t)'
    PROVE  Slots'
  BY CallsTypedKept DEF Slots

\* A call that ends gives its slot to the first in its queue.
LEMMA ReleaseAccounts ==
    ASSUME Slots, NEW c \in Calls, call[c].phase = "running", G!Release(c)
    PROVE  /\ DOMAIN inFlight' = Tenants /\ DOMAIN waiting' = Tenants
           /\ \A t \in Tenants : Accounted(t)'
  <1> DEFINE h == call[c].tenant
             K == G!Chosen(1, waiting[h])
  <1>1. /\ inFlight' = [inFlight EXCEPT ![h] = @ - (1 - G!Smaller(1, Len(waiting[h])))]
        /\ waiting' = [waiting EXCEPT ![h] = G!Left(1, waiting[h])]
        /\ call' = G!Handed({c}, K)
    BY DEF G!Release, G!tenant, G!Freed
  <1>2. h \in Tenants /\ call[c] \in CallRecord
    BY DEF Slots, CallsTyped, CallRecord
  <1>3. \A t \in Tenants :
           /\ Queue(waiting[t])
           /\ \A i \in 1..Len(waiting[t]) :
                 /\ waiting[t][i] \in Calls /\ waiting[t][i] # c
                 /\ call[waiting[t][i]].tenant = t
    BY DEF Slots, Accounted, Queue
  <1>4. \A d \in K : d \in Calls /\ call[d].tenant = h
    <2>1. \A i \in 1..G!Smaller(1, Len(waiting[h])) : i \in 1..Len(waiting[h])
      BY <1>2, <1>3 DEF G!Smaller, Queue
    <2> QED BY <1>2, <1>3, <2>1 DEF G!Chosen
  <1>5. DOMAIN inFlight = Tenants /\ DOMAIN waiting = Tenants
    BY DEF Slots
  <1>6. ASSUME NEW t \in Tenants, t = h PROVE Accounted(t)'
    <2>1. G!Holding(t) \cap {c} = {c}
      BY <1>6 DEF G!Holding, G!tenant
    <2>2. 1 = Cardinality(G!Holding(t) \cap {c})
      BY <2>1, FS_Singleton
    <2>3. /\ \A d \in G!Chosen(1, waiting[t]) : d \in K
          /\ \A d \in K : call[d].tenant = t => d \in G!Chosen(1, waiting[t])
      BY <1>6
    <2>4. /\ inFlight'[t] = inFlight[t] - (1 - G!Smaller(1, Len(waiting[t])))
          /\ waiting'[t] = G!Left(1, waiting[t])
      BY <1>1, <1>2, <1>5, <1>6
    <2>5. \A i \in 1..Len(waiting[t]) :
             /\ waiting[t][i] \notin {c}
             /\ \E j \in 1..Len(waiting[t]) : waiting[t][i] = waiting[t][j]
      BY <1>2, <1>3
    <2> HIDE DEF h, K
    <2>6. Slots /\ t \in Tenants /\ call' = G!Handed({c}, K) /\ Queue(waiting[t])
      BY <1>1, <1>2, <1>3
    <2> QED BY ONLY <2>2, <2>3, <2>4, <2>5, <2>6, HandedAccounts
  <1>7. ASSUME NEW t \in Tenants, t # h PROVE Accounted(t)'
    <2>1. G!Holding(t) \cap {c} = {}
      BY <1>7 DEF G!Holding, G!tenant
    <2>2. 0 = Cardinality(G!Holding(t) \cap {c})
      BY <2>1, FS_EmptySet
    <2>3. G!Smaller(0, Len(waiting[t])) = 0 /\ Len(waiting[t]) \in Nat
      BY <1>3 DEF G!Smaller, Queue
    <2>4. /\ \A d \in G!Chosen(0, waiting[t]) : d \in K
          /\ \A d \in K : call[d].tenant = t => d \in G!Chosen(0, waiting[t])
      <3>1. \A d \in K : call[d].tenant # t
        BY <1>4, <1>7
      <3>2. G!Chosen(0, waiting[t]) = {}
        BY <2>3 DEF G!Chosen
      <3> HIDE DEF K, h
      <3> QED BY <3>1, <3>2
    <2>5. G!Left(0, waiting[t]) = waiting[t]
      <3>1. waiting[t] \in Seq(Calls)
        BY <1>3 DEF Queue
      <3>2. SubSeq(waiting[t], 1, Len(waiting[t])) = waiting[t]
        BY <3>1, SubSeqFull
      <3> QED BY <2>3, <3>2 DEF G!Left
    <2>6. /\ inFlight'[t] = inFlight[t] - (0 - G!Smaller(0, Len(waiting[t])))
          /\ waiting'[t] = G!Left(0, waiting[t])
      <3>1. inFlight'[t] = inFlight[t] /\ waiting'[t] = waiting[t]
        BY <1>1, <1>5, <1>7
      <3>2. inFlight[t] \in Int
        BY FS_CardinalityType DEF Slots, Accounted
      <3> QED BY <2>3, <2>5, <3>1, <3>2
    <2>7. \A i \in 1..Len(waiting[t]) :
             /\ waiting[t][i] \notin {c}
             /\ \E j \in 1..Len(waiting[t]) : waiting[t][i] = waiting[t][j]
      BY <1>3
    <2> HIDE DEF h, K
    <2>8. Slots /\ t \in Tenants /\ call' = G!Handed({c}, K) /\ Queue(waiting[t])
      BY <1>1, <1>3
    <2> QED BY ONLY <2>2, <2>4, <2>6, <2>7, <2>8, HandedAccounts
  <1>8. DOMAIN inFlight' = Tenants /\ DOMAIN waiting' = Tenants
    BY <1>1, <1>5
  <1> QED BY <1>6, <1>7, <1>8

\* A step of one call that neither takes nor returns a slot nor queues.
LEMMA SameSlots ==
    ASSUME Slots, NEW c \in Calls, NEW r, call' = [call EXCEPT ![c] = r],
           r.tenant = call[c].tenant, Holds(r.phase) <=> Holds(call[c].phase),
           call[c].phase # "queued", UNCHANGED <<inFlight, waiting>>
    PROVE  /\ DOMAIN inFlight' = Tenants /\ DOMAIN waiting' = Tenants
           /\ \A t \in Tenants : Accounted(t)'
  <1>1. \A d \in Calls :
           /\ call'[d].tenant = call[d].tenant
           /\ Holds(call'[d].phase) <=> Holds(call[d].phase)
           /\ call[d].phase = "queued" => call'[d].phase = "queued"
    BY DEF Slots, CallsTyped
  <1>2. ASSUME NEW t \in Tenants PROVE Accounted(t)'
    <2>1. G!Holding(t)' = G!Holding(t)
      <3>1. /\ G!Holding(t)' = {d \in Calls : call'[d].tenant = t /\ Holds(call'[d].phase)}
            /\ G!Holding(t) = {d \in Calls : call[d].tenant = t /\ Holds(call[d].phase)}
        BY DEF G!Holding, G!tenant, Holds
      <3> HIDE DEF Holds
      <3> QED BY <1>1, <3>1
    <2>2. Accounted(t) /\ \A i \in 1..Len(waiting[t]) : waiting[t][i] \in Calls
      BY DEF Slots, Accounted, Queue
    <2>3. \A i \in 1..Len(waiting[t]) :
             call'[waiting[t][i]].phase = "queued" /\ call'[waiting[t][i]].tenant = t
      BY <1>1, <2>2 DEF Accounted
    <2>4. waiting' = waiting /\ inFlight' = inFlight
      OBVIOUS
    <2> QED BY <2>1, <2>2, <2>3, <2>4 DEF Accounted
  <1> QED BY <1>2 DEF Slots

\* A call enters while a slot is free.
LEMMA EnterAccounts ==
    ASSUME Slots, NEW c \in Calls, G!Enter(c), inFlight[call[c].tenant] < Limit
    PROVE  /\ DOMAIN inFlight' = Tenants /\ DOMAIN waiting' = Tenants
           /\ \A t \in Tenants : Accounted(t)'
  <1> DEFINE h == call[c].tenant
             r == [call[c] EXCEPT !.phase = "running", !.attempts = 1, !.startedAt = clock]
  <1>1. /\ call[c].phase = "new" /\ inFlight' = [inFlight EXCEPT ![h] = @ + 1]
        /\ call' = [call EXCEPT ![c] = r] /\ waiting' = waiting
    BY DEF G!Enter, G!tenant
  <1>2. h \in Tenants /\ call[c] \in CallRecord /\ call \in [Calls -> CallRecord]
    BY DEF Slots, CallsTyped, CallRecord
  <1>3. r.tenant = h /\ r.phase = "running"
    BY <1>2 DEF CallRecord
  <1> HIDE DEF r
  <1>4. \A d \in Calls : call'[d] = IF d = c THEN r ELSE call[d]
    BY <1>1, <1>2
  <1>5. ASSUME NEW t \in Tenants PROVE Accounted(t)'
    <2>1. Accounted(t) /\ \A i \in 1..Len(waiting[t]) : waiting[t][i] \in Calls
      BY DEF Slots, Accounted, Queue
    <2>2. \A i \in 1..Len(waiting[t]) :
             call'[waiting[t][i]].phase = "queued" /\ call'[waiting[t][i]].tenant = t
      <3>1. \A i \in 1..Len(waiting[t]) : waiting[t][i] # c
        BY <1>1, <2>1 DEF Accounted
      <3> QED BY <1>4, <2>1, <3>1 DEF Accounted
    <2>3. /\ G!Holding(t)' = {d \in Calls : call'[d].tenant = t /\ Holds(call'[d].phase)}
          /\ G!Holding(t) = {d \in Calls : call[d].tenant = t /\ Holds(call[d].phase)}
      BY DEF G!Holding, G!tenant, Holds
    <2>4. Holds("running") /\ ~Holds("new")
      BY DEF Holds
    <2>5. CASE t = h
      <3>1. G!Holding(t)' = G!Holding(t) \cup {c} /\ c \notin G!Holding(t)
        <4> HIDE DEF Holds
        <4> QED BY <1>1, <1>3, <1>4, <2>3, <2>4, <2>5
      <3>2. IsFiniteSet(G!Holding(t)) /\ Cardinality(G!Holding(t)) \in Nat
        BY <2>1, FS_CardinalityType DEF Accounted
      <3>3. /\ IsFiniteSet(G!Holding(t)')
            /\ Cardinality(G!Holding(t)') = Cardinality(G!Holding(t)) + 1
        BY <3>1, <3>2, FS_AddElement
      <3>4. inFlight'[t] = inFlight[t] + 1 /\ inFlight[t] < Limit
        BY <1>1, <2>5 DEF Slots
      <3>5. Limit \in Nat
        BY ResourcesAssumed DEF G!GovernorAssumption
      <3>6. waiting[t] = <<>>
        BY <2>1, <3>2, <3>4, <3>5 DEF Accounted
      <3>7. inFlight'[t] = Cardinality(G!Holding(t)') /\ inFlight'[t] <= Limit
        BY <2>1, <3>2, <3>3, <3>4, <3>5 DEF Accounted
      <3> QED BY <1>1, <2>1, <2>2, <3>3, <3>6, <3>7 DEF Accounted
    <2>6. CASE t # h
      <3>1. G!Holding(t)' = G!Holding(t)
        <4> HIDE DEF Holds
        <4> QED BY <1>3, <1>4, <2>3, <2>6
      <3>2. inFlight'[t] = inFlight[t]
        BY <1>1, <2>6 DEF Slots
      <3> QED BY <1>1, <2>1, <2>2, <3>1, <3>2 DEF Accounted
    <2> QED BY <2>5, <2>6
  <1>6. DOMAIN inFlight' = Tenants /\ DOMAIN waiting' = Tenants
    BY <1>1 DEF Slots
  <1> QED BY <1>5, <1>6

\* A call queues when none is free.
LEMMA QueueAccounts ==
    ASSUME Slots, NEW c \in Calls, G!Enter(c), ~(inFlight[call[c].tenant] < Limit)
    PROVE  /\ DOMAIN inFlight' = Tenants /\ DOMAIN waiting' = Tenants
           /\ \A t \in Tenants : Accounted(t)'
  <1> DEFINE h == call[c].tenant
             r == [call[c] EXCEPT !.phase = "queued"]
  <1>1. /\ call[c].phase = "new" /\ waiting' = [waiting EXCEPT ![h] = Append(waiting[h], c)]
        /\ call' = [call EXCEPT ![c] = r] /\ inFlight' = inFlight
    BY DEF G!Enter, G!tenant
  <1>2. h \in Tenants /\ call[c] \in CallRecord /\ call \in [Calls -> CallRecord]
    BY DEF Slots, CallsTyped, CallRecord
  <1>3. r.tenant = h /\ r.phase = "queued"
    BY <1>2 DEF CallRecord
  <1> HIDE DEF r
  <1>4. \A d \in Calls : call'[d] = IF d = c THEN r ELSE call[d]
    BY <1>1, <1>2
  <1>5. ASSUME NEW t \in Tenants PROVE Accounted(t)'
    <2>1. Accounted(t) /\ \A i \in 1..Len(waiting[t]) : waiting[t][i] \in Calls
      BY DEF Slots, Accounted, Queue
    <2>2. \A i \in 1..Len(waiting[t]) :
             /\ waiting[t][i] # c
             /\ call'[waiting[t][i]].phase = "queued" /\ call'[waiting[t][i]].tenant = t
      <3>1. \A i \in 1..Len(waiting[t]) : waiting[t][i] # c
        BY <1>1, <2>1 DEF Accounted
      <3> QED BY <1>4, <2>1, <3>1 DEF Accounted
    <2>3. G!Holding(t)' = G!Holding(t)
      <3>1. /\ G!Holding(t)' = {d \in Calls : call'[d].tenant = t /\ Holds(call'[d].phase)}
            /\ G!Holding(t) = {d \in Calls : call[d].tenant = t /\ Holds(call[d].phase)}
        BY DEF G!Holding, G!tenant, Holds
      <3>2. ~Holds("queued") /\ ~Holds("new")
        BY DEF Holds
      <3> HIDE DEF Holds
      <3> QED BY <1>1, <1>3, <1>4, <3>1, <3>2
    <2>4. inFlight'[t] = inFlight[t]
      BY <1>1
    <2>5. CASE t = h
      <3> DEFINE q == waiting[t]
                 w == Append(q, c)
      <3>1. q \in Seq(Calls) /\ Len(q) \in Nat
        BY <2>1 DEF Accounted, Queue
      <3>2. waiting'[t] = w
        BY <1>1, <2>5 DEF Slots
      <3>3. /\ w \in Seq(Calls) /\ Len(w) = Len(q) + 1
            /\ \A i \in 1..Len(w) : w[i] = IF i = Len(q) + 1 THEN c ELSE q[i]
        BY <3>1
      <3>4. \A i \in 1..Len(w) : i = Len(q) + 1 \/ i \in 1..Len(q)
        BY <3>1, <3>3
      <3> HIDE DEF w
      <3>5. Queue(w)
        <4>1. ASSUME NEW i \in 1..Len(w), NEW j \in 1..Len(w), w[i] = w[j] PROVE i = j
          <5>1. CASE i = Len(q) + 1 /\ j \in 1..Len(q)
            BY <2>2, <3>1, <3>3, <4>1, <5>1
          <5>2. CASE j = Len(q) + 1 /\ i \in 1..Len(q)
            BY <2>2, <3>1, <3>3, <4>1, <5>2
          <5>3. CASE i \in 1..Len(q) /\ j \in 1..Len(q)
            <6>1. q[i] = q[j]
              BY <3>1, <3>3, <4>1, <5>3
            <6> QED BY <2>1, <5>3, <6>1 DEF Accounted, Queue
          <5> QED BY <3>4, <5>1, <5>2, <5>3
        <4> QED BY <3>3, <4>1 DEF Queue
      <3>6. \A i \in 1..Len(w) : call'[w[i]].phase = "queued" /\ call'[w[i]].tenant = t
        <4>1. call'[c].phase = "queued" /\ call'[c].tenant = t
          BY <1>3, <1>4, <2>5
        <4>2. \A i \in 1..Len(q) : call'[q[i]].phase = "queued" /\ call'[q[i]].tenant = t
          BY <2>2
        <4>3. \A i \in 1..Len(w) : i # Len(q) + 1 => i \in 1..Len(q) /\ w[i] = q[i]
          <5> HIDE DEF q
          <5> QED BY <3>3, <3>4
        <4>4. Len(q) + 1 \in 1..Len(w) => w[Len(q) + 1] = c
          <5> HIDE DEF q
          <5> QED BY <3>3
        <4> HIDE DEF q
        <4> QED BY <4>1, <4>2, <4>3, <4>4
      <3>7. inFlight[t] = Limit
        <4>1. Limit \in Nat
          BY ResourcesAssumed DEF G!GovernorAssumption
        <4>2. inFlight[t] \in Nat /\ inFlight[t] <= Limit
          BY <2>1, FS_CardinalityType DEF Accounted
        <4> QED BY <2>5, <4>1, <4>2
      <3> QED BY <2>1, <2>3, <2>4, <3>2, <3>5, <3>6, <3>7 DEF Accounted
    <2>6. CASE t # h
      <3>1. waiting'[t] = waiting[t]
        BY <1>1, <2>6 DEF Slots
      <3> QED BY <2>1, <2>2, <2>3, <2>4, <3>1 DEF Accounted
    <2> QED BY <2>5, <2>6
  <1>6. DOMAIN inFlight' = Tenants /\ DOMAIN waiting' = Tenants
    BY <1>1 DEF Slots
  <1> QED BY <1>5, <1>6

\* A signal is aborted: its waiters leave their queues, and the slots its calls
\* give back are taken over by whoever remains.
LEMMA AbortAccounts ==
    ASSUME Slots, NEW s \in Signals, G!Abort(s)
    PROVE  /\ DOMAIN inFlight' = Tenants /\ DOMAIN waiting' = Tenants
           /\ \A t \in Tenants : Accounted(t)'
  <1> DEFINE E == {c \in Calls : call[c].signal = s /\ call[c].phase \in
                                      {"queued", "granted", "sleeping"}}
             q == [t \in Tenants |-> G!Without(waiting[t], E)]
             n(t) == G!Cardinality({c \in G!GivesBack(s) : G!tenant(c) = t})
             K == UNION {G!Chosen(n(t), q[t]) : t \in Tenants}
  <1>1. /\ inFlight' = [t \in Tenants |-> G!Freed(t, n(t), q[t])[t]]
        /\ waiting' = [t \in Tenants |-> G!Left(n(t), q[t])]
        /\ call' = G!Handed(E, K)
    BY DEF G!Abort
  <1>2. ASSUME NEW t \in Tenants
        PROVE  /\ n(t) = Cardinality(G!Holding(t) \cap E)
               /\ Queue(q[t])
               /\ \A i \in 1..Len(q[t]) :
                     /\ q[t][i] \notin E
                     /\ \E j \in 1..Len(waiting[t]) : q[t][i] = waiting[t][j]
               /\ \A c \in G!Chosen(n(t), q[t]) : call[c].tenant = t
    <2>1. {c \in G!GivesBack(s) : G!tenant(c) = t} = G!Holding(t) \cap E
      <3>1. \A c \in Calls : call[c].signal = s /\ call[c].phase \in {"granted", "sleeping"}
               <=> c \in E /\ call[c].phase \in {"granted", "running", "sleeping"}
        OBVIOUS
      <3> QED BY <3>1 DEF G!GivesBack, G!Holding, G!tenant
    <2>2. n(t) = Cardinality(G!Holding(t) \cap E)
      BY <2>1, CallsCount
    <2>3. Queue(waiting[t]) /\ q[t] = G!Without(waiting[t], E)
      BY DEF Slots, Accounted
    <2> HIDE DEF n, E, q
    <2>4. /\ Queue(q[t])
          /\ \A i \in 1..Len(q[t]) :
                /\ q[t][i] \notin E
                /\ \E j \in 1..Len(waiting[t]) : q[t][i] = waiting[t][j]
      BY <2>3, WithoutKeeps
    <2>5. \A i \in 1..Len(q[t]) : call[q[t][i]].tenant = t
      BY <2>4 DEF Slots, Accounted
    <2>6. n(t) \in Nat
      <3>1. IsFiniteSet(G!Holding(t))
        BY DEF Slots, Accounted
      <3> QED BY <2>2, <3>1, FS_Intersection, FS_CardinalityType
    <2>7. \A i \in 1..G!Smaller(n(t), Len(q[t])) : i \in 1..Len(q[t])
      BY <2>4, <2>6 DEF G!Smaller, Queue
    <2> QED BY <2>2, <2>4, <2>5, <2>7 DEF G!Chosen
  <1>3. DOMAIN inFlight' = Tenants /\ DOMAIN waiting' = Tenants
    BY <1>1
  <1>4. ASSUME NEW t \in Tenants PROVE Accounted(t)'
    <2>1. /\ \A c \in G!Chosen(n(t), q[t]) : c \in K
          /\ \A c \in K : call[c].tenant = t => c \in G!Chosen(n(t), q[t])
      <3>1. \A c \in K : \E u \in Tenants : c \in G!Chosen(n(u), q[u])
        OBVIOUS
      <3>2. \A c \in G!Chosen(n(t), q[t]) : c \in K
        OBVIOUS
      <3>3. \A u \in Tenants : \A c \in G!Chosen(n(u), q[u]) : call[c].tenant = u
        BY <1>2
      <3> HIDE DEF n, q, K
      <3> QED BY <3>1, <3>2, <3>3
    <2>2. /\ inFlight'[t] = inFlight[t] - (n(t) - G!Smaller(n(t), Len(q[t])))
          /\ waiting'[t] = G!Left(n(t), q[t])
      <3> HIDE DEF n, q, K, E
      <3> QED BY <1>1 DEF G!Freed, Slots
    <2> HIDE DEF n, q, K, E
    <2>3. /\ Slots /\ t \in Tenants /\ call' = G!Handed(E, K) /\ Queue(q[t])
          /\ n(t) = Cardinality(G!Holding(t) \cap E)
          /\ \A i \in 1..Len(q[t]) :
                /\ q[t][i] \notin E
                /\ \E j \in 1..Len(waiting[t]) : q[t][i] = waiting[t][j]
      BY <1>1, <1>2
    <2> QED BY ONLY <2>1, <2>2, <2>3, HandedAccounts
  <1> QED BY <1>3, <1>4

\* A step of one call keeps the account.
LEMMA CallAccounts ==
    ASSUME Slots, NEW c \in Calls, G!CallStep(c)
    PROVE  /\ DOMAIN inFlight' = Tenants /\ DOMAIN waiting' = Tenants
           /\ \A t \in Tenants : Accounted(t)'
  <1>0. call[c] \in CallRecord /\ \A p, q \in {"new", "over"} : Holds(p) <=> Holds(q)
    BY DEF Slots, CallsTyped, Holds
  <1>1. CASE G!Refused(c)
    <2> DEFINE r == [call[c] EXCEPT !.phase = "over"]
    <2>1. /\ call' = [call EXCEPT ![c] = r] /\ UNCHANGED <<inFlight, waiting>>
          /\ call[c].phase = "new"
      BY <1>1 DEF G!Refused
    <2>2. r.tenant = call[c].tenant /\ r.phase = "over"
      BY <1>0 DEF CallRecord
    <2> HIDE DEF r
    <2>3. Holds(r.phase) <=> Holds(call[c].phase)
      BY <2>1, <2>2 DEF Holds
    <2> QED BY <2>1, <2>2, <2>3, SameSlots
  <1>2. CASE G!Enter(c)
    BY <1>2, EnterAccounts, QueueAccounts
  <1>3. CASE G!Accept(c)
    <2> DEFINE r == [call[c] EXCEPT !.phase = "running", !.attempts = 1,
                                    !.startedAt = clock]
    <2>1. /\ call' = [call EXCEPT ![c] = r] /\ UNCHANGED <<inFlight, waiting>>
          /\ call[c].phase = "granted"
      BY <1>3 DEF G!Accept
    <2>2. r.tenant = call[c].tenant /\ r.phase = "running"
      BY <1>0 DEF CallRecord
    <2> HIDE DEF r
    <2>3. Holds(r.phase) <=> Holds(call[c].phase)
      BY <2>1, <2>2 DEF Holds
    <2> QED BY <2>1, <2>2, <2>3, SameSlots
  <1>4. CASE G!Abandon(c) \/ G!Succeed(c)
    BY <1>4, ReleaseAccounts DEF G!Abandon, G!Succeed
  <1>5. ASSUME NEW final \in BOOLEAN, G!Fail(c, final)
        PROVE  /\ DOMAIN inFlight' = Tenants /\ DOMAIN waiting' = Tenants
               /\ \A t \in Tenants : Accounted(t)'
    <2>1. CASE final \/ call[c].attempts >= MaxAttempts \/ ~G!Fits(c)
      <3>1. G!Release(c) /\ call[c].phase = "running"
        BY <1>5, <2>1 DEF G!Fail
      <3> QED BY <3>1, ReleaseAccounts
    <2>2. CASE ~(final \/ call[c].attempts >= MaxAttempts \/ ~G!Fits(c))
      <3> DEFINE r == [call[c] EXCEPT !.phase = "sleeping", !.sleptAt = clock]
      <3>1. /\ call' = [call EXCEPT ![c] = r] /\ UNCHANGED <<inFlight, waiting>>
            /\ call[c].phase = "running"
        BY <1>5, <2>2 DEF G!Fail
      <3>2. r.tenant = call[c].tenant /\ r.phase = "sleeping"
        BY <1>0 DEF CallRecord
      <3> HIDE DEF r
      <3>3. Holds(r.phase) <=> Holds(call[c].phase)
        BY <3>1, <3>2 DEF Holds
      <3> QED BY <3>1, <3>2, <3>3, SameSlots
    <2> QED BY <2>1, <2>2
  <1>6. CASE G!Wake(c)
    <2> DEFINE r == [call[c] EXCEPT !.phase = "running", !.attempts = @ + 1]
    <2>1. /\ call' = [call EXCEPT ![c] = r] /\ UNCHANGED <<inFlight, waiting>>
          /\ call[c].phase = "sleeping"
      BY <1>0, <1>6 DEF G!Wake, CallRecord
    <2>2. r.tenant = call[c].tenant /\ r.phase = "running"
      BY <1>0 DEF CallRecord
    <2> HIDE DEF r
    <2>3. Holds(r.phase) <=> Holds(call[c].phase)
      BY <2>1, <2>2 DEF Holds
    <2> QED BY <2>1, <2>2, <2>3, SameSlots
  <1> QED BY <1>1, <1>2, <1>3, <1>4, <1>5, <1>6 DEF G!CallStep

\* Every step of the governor keeps the account.
LEMMA GovernorAccounts ==
    ASSUME Slots, G!Next
    PROVE  Slots'
  <1>1. CASE G!Tick
    <2>1. UNCHANGED <<inFlight, waiting, call>>
      BY <1>1 DEF G!Tick
    <2>2. \A t \in Tenants : G!Holding(t)' = G!Holding(t)
      BY <2>1 DEF G!Holding, G!tenant
    <2>3. \A t \in Tenants : Accounted(t)'
      BY <2>1, <2>2 DEF Slots, Accounted
    <2> QED BY <2>1, <2>3, SlotsKept DEF Slots
  <1>2. ASSUME NEW c \in Calls, G!CallStep(c) PROVE Slots'
    BY <1>2, CallAccounts, SlotsKept
  <1>3. ASSUME NEW s \in Signals, G!Abort(s) PROVE Slots'
    BY <1>3, AbortAccounts, SlotsKept
  <1> QED BY <1>1, <1>2, <1>3 DEF G!Next

\* Whatever the limit, the tenants, calls and signals, and whatever is aborted
\* between the grant of a slot and its acceptance: a slot is counted once and
\* returned once, and calls wait only while all slots are in use.
THEOREM SlotsBalance == MCSpec => []SlotsAreAccounted
  <1> DEFINE Run == part = "governor" => Slots
  <1>1. MCInit => Run
    <2> SUFFICES ASSUME G!Init PROVE Slots
      BY DEF MCInit
    <2>1. CallsTyped
      <3>1. clock \in Int
        BY DEF G!Init
      <3>2. call \in [Calls -> CallRecord] /\ \A c \in Calls : call[c].phase = "new"
        BY DEF G!Init, CallRecord, G!Phases
      <3> QED BY <3>1, <3>2 DEF CallsTyped
    <2>2. ASSUME NEW t \in Tenants PROVE Accounted(t)
      <3>1. waiting[t] = <<>> /\ inFlight[t] = 0 /\ Limit \in Nat
        BY ResourcesAssumed DEF G!Init, G!GovernorAssumption
      <3>2. G!Holding(t) = {}
        BY DEF G!Init, G!Holding, G!tenant
      <3>3. Queue(<<>>) /\ 1..Len(<<>>) = {}
        BY DEF Queue
      <3> QED BY <3>1, <3>2, <3>3, FS_EmptySet DEF Accounted
    <2> QED BY <2>1, <2>2 DEF Slots, G!Init
  <1>2. Run /\ [MCNext]_<<part, vars, gVars, mVars>> => Run'
    <2> SUFFICES ASSUME Run, [MCNext]_<<part, vars, gVars, mVars>> PROVE Run'
      OBVIOUS
    <2>1. ASSUME part = "governor", G!Next, part' = part PROVE Run'
      BY <2>1, GovernorAccounts
    <2>2. ASSUME UNCHANGED <<part, gVars>> PROVE Run'
      <3>1. UNCHANGED <<part, clock, call, inFlight, waiting>>
        BY <2>2 DEF gVars
      <3>2. \A t \in Tenants : G!Holding(t)' = G!Holding(t)
        BY <3>1 DEF G!Holding, G!tenant
      <3>3. Slots => Slots'
        BY <3>1, <3>2 DEF Slots, Accounted, CallsTyped
      <3> QED BY <3>1, <3>3
    <2> QED BY <2>1, <2>2 DEF MCNext
  <1>3. Run => SlotsAreAccounted
    <2> SUFFICES ASSUME Slots PROVE G!SlotsAreAccounted /\ G!NoIdleSlot
      BY DEF SlotsAreAccounted
    <2>1. \A t \in Tenants : inFlight[t] = G!Cardinality(G!Holding(t))
      BY CallsCount DEF Slots, Accounted
    <2> QED BY <2>1 DEF Slots, Accounted, G!SlotsAreAccounted, G!NoIdleSlot
  <1> HIDE DEF Run
  <1> QED BY <1>1, <1>2, <1>3, PTL DEF MCSpec

-----------------------------------------------------------------------------
(* The fences of the shared read barrier                                   *)

\* The reservation, the references of a fence, the scopes inside it
Record == [refs : [Fences -> Nat], locks : SUBSET Fences, failed : BOOLEAN]

Refs(f) == IF res = None THEN 0 ELSE res.refs[f]

IsInside(p) == p \in {"open", "draining"}

Inside(f) == {x \in Readers : reader[x].fence = f /\ IsInside(reader[x].phase)}

NoneHolds(f) == \A w \in Writers : writer[w].fence = f => writer[w].phase # "holding"

BarrierTyped ==
    /\ reader \in [Readers -> Scope] /\ writer \in [Writers -> Writer]
    /\ version \in [Fences -> Versions]

ReservationTyped ==
    /\ alive \in BOOLEAN /\ held \in [Fences -> 0..1]
    /\ res = None \/ res \in Record

\* The references of the reservation are the scopes inside
ScopesCounted == \A f \in Fences : Refs(f) = Cardinality(Inside(f))

\* A lock is held on a session that stands, for a fence the reservation tracks,
\* as long as the reservation has not failed for scopes that are inside; while
\* the session stands the scopes inside are fenced; no writer holds the fence
\* of a lock
LocksStand ==
    /\ res = None => alive = FALSE
    /\ \A f \in Fences :
          /\ held[f] > 0 => alive = TRUE /\ res # None /\ f \in res.locks
          /\ held[f] > 0 /\ res.failed = FALSE => Refs(f) > 0
          /\ alive = TRUE /\ Refs(f) > 0 => held[f] > 0
          /\ held[f] > 0 => NoneHolds(f)

\* Work is that of a scope inside, which has read at most the version its
\* fence protects while the session stands
Sound(r, a, v) ==
    /\ ~IsInside(r.phase) => r.work = "none"
    /\ r.phase = "asking" => r.seen = {}
    /\ a = TRUE /\ IsInside(r.phase) => r.seen \subseteq {v[r.fence]}

ScopesSound == \A x \in Readers : Sound(reader[x], alive, version)

BarrierInv ==
    /\ BarrierTyped /\ ReservationTyped /\ ScopesCounted /\ LocksStand
    /\ ScopesSound /\ torn = FALSE

BarrierRun == part = "barrier" => BarrierInv

\* A reservation is not None.
LEMMA RecordNotNone == \A r \in Record : r # None
  BY ReadBarrierAssumption DEF Record

\* The locks stand where the reservation, the locks and the session become r, h
\* and a.
LEMMA LocksStandAs ==
    ASSUME NEW r \in Record, NEW h \in [Fences -> 0..1], NEW a \in BOOLEAN,
           res' = r, held' = h, alive' = a, writer' = writer,
           \A f \in Fences : h[f] > 0 => a = TRUE /\ f \in r.locks /\ NoneHolds(f),
           \A f \in Fences : h[f] > 0 /\ r.failed = FALSE => r.refs[f] > 0,
           \A f \in Fences : a = TRUE /\ r.refs[f] > 0 => h[f] > 0
    PROVE  /\ ReservationTyped' /\ LocksStand'
           /\ \A f \in Fences : Refs(f)' = r.refs[f]
  <1>1. res' # None
    BY RecordNotNone
  <1>2. \A f \in Fences : Refs(f)' = r.refs[f] /\ NoneHolds(f)' = NoneHolds(f)
    BY <1>1 DEF Refs, NoneHolds
  <1>3. ReservationTyped'
    BY DEF ReservationTyped
  <1>4. LocksStand'
    BY <1>1, <1>2 DEF LocksStand
  <1> QED BY <1>2, <1>3, <1>4

\* The reservation that is kept or finished.
LEMMA Kept ==
    ASSUME NEW r \in Record, NEW h \in [Fences -> 0..1], alive \in BOOLEAN,
           Keep(r, h), writer' = writer,
           \A f \in Fences : h[f] > 0 => f \in r.locks /\ NoneHolds(f),
           \A f \in Fences : h[f] > 0 /\ r.refs # NoRefs => alive = TRUE,
           \A f \in Fences : h[f] > 0 /\ r.failed = FALSE => r.refs[f] > 0,
           \A f \in Fences : alive = TRUE /\ r.refs[f] > 0 => h[f] > 0
    PROVE  /\ ReservationTyped' /\ LocksStand'
           /\ \A f \in Fences : Refs(f)' = r.refs[f]
           /\ alive' = TRUE => alive = TRUE
  <1>1. CASE r.refs # NoRefs
    <2>1. res' = r /\ held' = h /\ alive' = alive
      BY <1>1 DEF Keep
    <2> QED BY <1>1, <2>1, LocksStandAs
  <1>2. CASE r.refs = NoRefs
    <2>1. res' = None /\ held' = Unlocked(r, h) /\ alive' = FALSE
      BY <1>2 DEF Keep
    <2>2. \A f \in Fences : held'[f] = 0
      BY <2>1 DEF Unlocked
    <2>3. held' \in [Fences -> 0..1]
      BY <2>1, <2>2 DEF Unlocked
    <2>4. \A f \in Fences : Refs(f)' = r.refs[f] /\ r.refs[f] = 0
      BY <1>2, <2>1 DEF Refs, NoRefs
    <2>5. LocksStand'
      BY <2>1, <2>2, <2>4 DEF LocksStand
    <2> QED BY <2>1, <2>3, <2>4, <2>5 DEF ReservationTyped
  <1> QED BY <1>1, <1>2

\* A scope is written: the scopes inside a fence, and their number.
LEMMA ScopeWritten ==
    ASSUME BarrierTyped, NEW x \in Readers, NEW r \in Scope,
           NEW f \in Fences, f = reader[x].fence, r.fence = f, reader' = [reader EXCEPT ![x] = r]
    PROVE  /\ reader' \in [Readers -> Scope]
           /\ \A g \in Fences : g # f => Inside(g)' = Inside(g)
           /\ (IsInside(r.phase) <=> IsInside(reader[x].phase)) =>
                 Inside(f)' = Inside(f)
           /\ IsInside(r.phase) /\ ~IsInside(reader[x].phase) =>
                 Cardinality(Inside(f)') = Cardinality(Inside(f)) + 1
           /\ ~IsInside(r.phase) /\ IsInside(reader[x].phase) =>
                 Cardinality(Inside(f)') = Cardinality(Inside(f)) - 1
           /\ Cardinality(Inside(f)) \in Nat
  <1>1. /\ reader' \in [Readers -> Scope] /\ reader'[x] = r
        /\ \A y \in Readers : y # x => reader'[y] = reader[y]
    BY DEF BarrierTyped
  <1>2. \A g \in Fences : g # f => Inside(g)' = Inside(g)
    BY <1>1 DEF Inside
  <1>3. (IsInside(r.phase) <=> IsInside(reader[x].phase)) =>
            Inside(f)' = Inside(f)
    BY <1>1 DEF Inside
  <1>4. IsFiniteSet(Inside(f)) /\ Cardinality(Inside(f)) \in Nat
    <2>1. Inside(f) \in SUBSET Readers /\ IsFiniteSet(Readers)
      BY ReadBarrierAssumption DEF Inside
    <2> QED BY <2>1, FS_Subset, FS_CardinalityType
  <1>5. ASSUME IsInside(r.phase), ~IsInside(reader[x].phase)
        PROVE  Cardinality(Inside(f)') = Cardinality(Inside(f)) + 1
    <2>1. Inside(f)' = Inside(f) \cup {x} /\ x \notin Inside(f)
      BY <1>1, <1>5 DEF Inside
    <2> QED BY <1>4, <2>1, FS_AddElement
  <1>6. ASSUME ~IsInside(r.phase), IsInside(reader[x].phase)
        PROVE  Cardinality(Inside(f)') = Cardinality(Inside(f)) - 1
    <2>1. Inside(f)' = Inside(f) \ {x} /\ x \in Inside(f)
      BY <1>1, <1>6 DEF Inside
    <2> QED BY <1>4, <2>1, FS_RemoveElement
  <1> QED BY <1>1, <1>2, <1>3, <1>4, <1>5, <1>6

\* The scopes stay sound where one is written and no session returns to scopes
\* that are inside.
LEMMA SoundKept ==
    ASSUME BarrierTyped, ScopesSound, NEW x \in Readers, NEW r \in Scope,
           reader' = [reader EXCEPT ![x] = r], version' = version,
           alive' = TRUE => alive = TRUE \/ \A y \in Readers : ~IsInside(reader[y].phase),
           Sound(r, alive', version')
    PROVE  ScopesSound'
  <1>1. reader'[x] = r /\ \A y \in Readers : y # x => reader'[y] = reader[y]
    BY DEF BarrierTyped
  <1>2. \A y \in Readers : y # x => Sound(reader[y], alive', version')
    BY DEF ScopesSound, Sound
  <1> QED BY <1>1, <1>2 DEF ScopesSound

\* What a step of scope x has to show: the scope becomes r, which is sound, and
\* the references change as the scopes inside do.
LEMMA ScopeStep ==
    ASSUME BarrierInv, NEW x \in Readers, NEW r \in Scope,
           NEW f \in Fences, f = reader[x].fence, r.fence = f,
           reader' = [reader EXCEPT ![x] = r], version' = version, writer' = writer,
           torn' = FALSE, ReservationTyped', LocksStand',
           alive' = TRUE => alive = TRUE \/ \A y \in Readers : ~IsInside(reader[y].phase),
           Sound(r, alive', version'),
           \A g \in Fences : g # f => Refs(g)' = Refs(g),
           \/ Refs(f)' = Refs(f) /\ (IsInside(r.phase) <=> IsInside(reader[x].phase))
           \/ Refs(f)' = Refs(f) + 1 /\ IsInside(r.phase) /\ ~IsInside(reader[x].phase)
           \/ Refs(f)' = Refs(f) - 1 /\ ~IsInside(r.phase) /\ IsInside(reader[x].phase)
    PROVE  BarrierInv'
  <1>0. BarrierTyped /\ ScopesSound /\ ScopesCounted
    BY DEF BarrierInv
  <1>1. BarrierTyped'
    BY <1>0 DEF BarrierTyped
  <1>2. ScopesSound'
    BY <1>0, SoundKept
  <1>3. /\ \A g \in Fences : g # f => Inside(g)' = Inside(g)
        /\ (IsInside(r.phase) <=> IsInside(reader[x].phase)) => Inside(f)' = Inside(f)
        /\ IsInside(r.phase) /\ ~IsInside(reader[x].phase) =>
              Cardinality(Inside(f)') = Cardinality(Inside(f)) + 1
        /\ ~IsInside(r.phase) /\ IsInside(reader[x].phase) =>
              Cardinality(Inside(f)') = Cardinality(Inside(f)) - 1
    BY <1>0, ScopeWritten
  <1>4. Refs(f) = Cardinality(Inside(f))
    BY <1>0 DEF ScopesCounted
  <1>5. Refs(f)' = Cardinality(Inside(f)')
    BY <1>3, <1>4
  <1>6. ScopesCounted'
    BY <1>0, <1>3, <1>5 DEF ScopesCounted
  <1> QED BY <1>1, <1>2, <1>6 DEF BarrierInv

\* A step of a scope that leaves the reservation alone.
LEMMA QuietStep ==
    ASSUME BarrierInv, NEW x \in Readers, NEW r \in Scope, r.fence = reader[x].fence,
           reader' = [reader EXCEPT ![x] = r],
           UNCHANGED <<res, alive, held, writer, version, torn>>,
           IsInside(r.phase) <=> IsInside(reader[x].phase),
           Sound(r, alive, version)
    PROVE  BarrierInv'
  <1>0. BarrierTyped /\ ReservationTyped /\ LocksStand /\ torn = FALSE
    BY DEF BarrierInv
  <1>1. reader[x].fence \in Fences
    BY <1>0 DEF BarrierTyped, Scope
  <1>2. ReservationTyped'
    BY <1>0 DEF ReservationTyped
  <1>3. \A f \in Fences : Refs(f)' = Refs(f) /\ NoneHolds(f)' = NoneHolds(f)
    BY DEF Refs, NoneHolds
  <1>4. LocksStand'
    BY <1>0, <1>3 DEF LocksStand
  <1>5. Sound(r, alive', version')
    OBVIOUS
  <1> QED BY <1>0, <1>1, <1>2, <1>3, <1>4, <1>5, ScopeStep

\* A step of a scope inside that may mark the reservation as failed.
LEMMA MarkStep ==
    ASSUME BarrierInv, NEW x \in Readers, NEW r \in Scope, r.fence = reader[x].fence,
           reader' = [reader EXCEPT ![x] = r],
           res' = res \/ res' = [res EXCEPT !.failed = TRUE],
           UNCHANGED <<alive, held, writer, version, torn>>,
           IsInside(r.phase), IsInside(reader[x].phase),
           Sound(r, alive, version)
    PROVE  BarrierInv'
  <1>0. BarrierTyped /\ ReservationTyped /\ ScopesCounted /\ LocksStand /\ torn = FALSE
    BY DEF BarrierInv
  <1>1. reader[x].fence \in Fences
    BY <1>0 DEF BarrierTyped, Scope
  <1>2. CASE res' = res
    BY <1>2, QuietStep
  <1>3. CASE res' = [res EXCEPT !.failed = TRUE]
    <2>1. res # None
      <3>1. IsFiniteSet(Inside(reader[x].fence)) /\ x \in Inside(reader[x].fence)
        <4>1. Inside(reader[x].fence) \in SUBSET Readers /\ IsFiniteSet(Readers)
          BY ReadBarrierAssumption DEF Inside
        <4> QED BY <4>1, FS_Subset DEF Inside
      <3>2. Cardinality(Inside(reader[x].fence)) # 0
        BY <3>1, FS_EmptySet
      <3> QED BY <1>0, <1>1, <3>2 DEF ScopesCounted, Refs
    <2>2. res \in Record
      BY <1>0, <2>1 DEF ReservationTyped
    <2>3. /\ res' \in Record /\ res'.refs = res.refs /\ res'.locks = res.locks
          /\ res'.failed = TRUE
      BY <1>3, <2>2 DEF Record
    <2>4. held \in [Fences -> 0..1] /\ alive \in BOOLEAN
      BY <1>0 DEF ReservationTyped
    <2>5. /\ \A f \in Fences : held[f] > 0 => alive = TRUE /\ f \in res.locks /\ NoneHolds(f)
          /\ \A f \in Fences : alive = TRUE /\ res.refs[f] > 0 => held[f] > 0
      BY <1>0, <2>1 DEF LocksStand, Refs
    <2>6. /\ ReservationTyped' /\ LocksStand'
          /\ \A f \in Fences : Refs(f)' = res'.refs[f]
      BY <2>3, <2>4, <2>5, LocksStandAs
    <2>7. \A f \in Fences : Refs(f)' = Refs(f)
      BY <2>1, <2>3, <2>6 DEF Refs
    <2>8. Sound(r, alive', version')
      OBVIOUS
    <2> QED BY <1>0, <1>1, <2>6, <2>7, <2>8, ScopeStep
  <1> QED BY <1>2, <1>3

\* A scope whose fields are written is a scope.
LEMMA ScopeRecord ==
    ASSUME NEW k \in Scope, NEW p \in {"idle", "asking", "open", "draining"},
           NEW w \in {"none", "wanted", "begun", "read"}, NEW b \in BOOLEAN,
           NEW S \in SUBSET Versions
    PROVE  /\ [k EXCEPT !.phase = p] \in Scope
           /\ [k EXCEPT !.phase = p, !.seen = S] \in Scope
           /\ [k EXCEPT !.phase = p, !.ok = b] \in Scope
           /\ [k EXCEPT !.work = w, !.slot = b] \in Scope
           /\ [k EXCEPT !.work = w, !.seen = S] \in Scope
  <1>1. \A h \in Scope : [h EXCEPT !.phase = p] \in Scope
    BY DEF Scope
  <1>2. \A h \in Scope : [h EXCEPT !.seen = S] \in Scope
    BY DEF Scope
  <1>3. \A h \in Scope : [h EXCEPT !.ok = b] \in Scope
    BY DEF Scope
  <1>4. \A h \in Scope : [h EXCEPT !.work = w] \in Scope
    BY DEF Scope
  <1>5. \A h \in Scope : [h EXCEPT !.slot = b] \in Scope
    BY DEF Scope
  <1> QED BY <1>1, <1>2, <1>3, <1>4, <1>5

\* The steps of a scope before it asks for the lock, and its database work.
LEMMA ScopeWorks ==
    ASSUME BarrierInv, NEW x \in Readers,
           \/ Ask(x) \/ GiveUp(x) \/ Want(x) \/ StartOnPool(x) \/ StartOnReserved(x)
           \/ RefuseWork(x) \/ Read(x) \/ EndWork(x)
           \/ \E ok \in BOOLEAN : Close(x, ok)
    PROVE  BarrierInv'
  <1> DEFINE k == reader[x]
  <1>0. /\ k \in Scope /\ Sound(k, alive, version) /\ version \in [Fences -> Versions]
        /\ k.fence \in Fences /\ k.seen \in SUBSET Versions
    BY DEF BarrierInv, BarrierTyped, ScopesSound, Scope
  <1>1. CASE Ask(x)
    <2> DEFINE r == [k EXCEPT !.phase = "asking", !.seen = {}]
    <2>1. /\ reader' = [reader EXCEPT ![x] = r] /\ k.phase = "idle"
          /\ UNCHANGED <<res, alive, held, writer, version, torn>>
      BY <1>1 DEF Ask
    <2>2. r \in Scope
      BY <1>0, ScopeRecord
    <2>3. r.fence = k.fence /\ r.phase = "asking" /\ r.seen = {} /\ r.work = k.work
      BY <1>0 DEF Scope
    <2>4. Sound(r, alive, version)
      BY <1>0, <2>1, <2>3 DEF Sound, IsInside
    <2> HIDE DEF r
    <2> QED BY <2>1, <2>2, <2>3, <2>4, QuietStep DEF IsInside
  <1>2. CASE GiveUp(x)
    <2> DEFINE r == [k EXCEPT !.phase = "idle"]
    <2>1. /\ reader' = [reader EXCEPT ![x] = r] /\ k.phase = "asking"
          /\ UNCHANGED <<res, alive, held, writer, version, torn>>
      BY <1>2 DEF GiveUp, Move
    <2>2. r \in Scope
      BY <1>0, ScopeRecord
    <2>3. r.fence = k.fence /\ r.phase = "idle" /\ r.work = k.work
      BY <1>0 DEF Scope
    <2>4. Sound(r, alive, version)
      BY <1>0, <2>1, <2>3 DEF Sound, IsInside
    <2> HIDE DEF r
    <2> QED BY <2>1, <2>2, <2>3, <2>4, QuietStep DEF IsInside
  <1>3. ASSUME NEW w \in {"none", "wanted", "begun", "read"}, NEW b \in BOOLEAN,
               reader' = [reader EXCEPT ![x].work = w, ![x].slot = b],
               IsInside(k.phase), UNCHANGED <<alive, held, writer, version, torn>>,
               res' = res \/ res' = [res EXCEPT !.failed = TRUE]
        PROVE  BarrierInv'
    <2> DEFINE r == [k EXCEPT !.work = w, !.slot = b]
    <2>1. reader' = [reader EXCEPT ![x] = r]
      BY <1>3
    <2>2. r \in Scope
      BY <1>0, ScopeRecord
    <2>3. r.fence = k.fence /\ r.phase = k.phase /\ r.seen = k.seen
      BY <1>0 DEF Scope
    <2>4. Sound(r, alive, version)
      BY <1>0, <1>3, <2>3 DEF Sound, IsInside
    <2> HIDE DEF r
    <2> QED BY <1>3, <2>1, <2>2, <2>3, <2>4, MarkStep
  <1>4. k.work # "none" => IsInside(k.phase)
    BY <1>0 DEF Sound
  <1>5. CASE Want(x)
    <2>1. /\ reader' = [reader EXCEPT ![x].work = "wanted", ![x].slot = FALSE]
          /\ IsInside(k.phase) /\ UNCHANGED <<res, alive, held, writer, version, torn>>
      BY <1>5 DEF Want, SetWork, IsInside
    <2> QED BY <1>3, <2>1
  <1>6. CASE StartOnPool(x)
    <2>1. /\ reader' = [reader EXCEPT ![x].work = "begun", ![x].slot = TRUE]
          /\ IsInside(k.phase) /\ UNCHANGED <<res, alive, held, writer, version, torn>>
      BY <1>6 DEF StartOnPool, IsInside
    <2> QED BY <1>3, <2>1
  <1>7. CASE StartOnReserved(x)
    <2>1. /\ reader' = [reader EXCEPT ![x].work = "begun", ![x].slot = FALSE]
          /\ IsInside(k.phase) /\ UNCHANGED <<res, alive, held, writer, version, torn>>
      BY <1>7 DEF StartOnReserved, SetWork, IsInside
    <2> QED BY <1>3, <2>1
  <1>8. CASE RefuseWork(x)
    <2>1. /\ reader' = [reader EXCEPT ![x].work = "none", ![x].slot = FALSE]
          /\ k.work = "wanted" /\ UNCHANGED <<alive, held, writer, version, torn>>
          /\ res' = res \/ res' = [res EXCEPT !.failed = TRUE]
      BY <1>8 DEF RefuseWork, SetWork
    <2> QED BY <1>3, <1>4, <2>1
  <1>9. CASE Read(x)
    <2> DEFINE S == k.seen \cup {version[k.fence]}
               r == [k EXCEPT !.work = "read", !.seen = S]
    <2>1. /\ reader' = [reader EXCEPT ![x] = r] /\ k.work = "begun"
          /\ UNCHANGED <<res, alive, held, writer, version, torn>>
      BY <1>9 DEF Read, fence
    <2>2. S \in SUBSET Versions
      BY <1>0
    <2> HIDE DEF S
    <2>3. r \in Scope
      BY <1>0, <2>2, ScopeRecord
    <2>4. r.fence = k.fence /\ r.phase = k.phase /\ r.seen = S /\ r.work = "read"
      BY <1>0 DEF Scope
    <2>5. alive = TRUE => S \subseteq {version[k.fence]}
      BY <1>0, <1>4, <2>1 DEF S, Sound
    <2>6. Sound(r, alive, version)
      BY <1>0, <1>4, <2>1, <2>4, <2>5 DEF Sound, IsInside
    <2> HIDE DEF r
    <2> QED BY <2>1, <2>3, <2>4, <2>6, QuietStep
  <1>10. CASE EndWork(x)
    <2>1. /\ reader' = [reader EXCEPT ![x].work = "none", ![x].slot = FALSE]
          /\ k.work \in {"begun", "read"} /\ UNCHANGED <<alive, held, writer, version, torn>>
          /\ res' = res \/ res' = [res EXCEPT !.failed = TRUE]
      BY <1>10 DEF EndWork, SetWork
    <2> QED BY <1>3, <1>4, <2>1
  <1>11. ASSUME NEW ok \in BOOLEAN, Close(x, ok) PROVE BarrierInv'
    <2> DEFINE r == [k EXCEPT !.phase = "draining", !.ok = ok]
    <2>1. /\ reader' = [reader EXCEPT ![x] = r] /\ k.phase = "open"
          /\ UNCHANGED <<res, alive, held, writer, version, torn>>
      BY <1>11 DEF Close
    <2>2. r \in Scope
      BY <1>0, ScopeRecord
    <2>3. r.fence = k.fence /\ r.phase = "draining" /\ r.seen = k.seen
      BY <1>0 DEF Scope
    <2>4. Sound(r, alive, version)
      BY <1>0, <2>1, <2>3 DEF Sound, IsInside
    <2> HIDE DEF r
    <2> QED BY <2>1, <2>2, <2>3, <2>4, QuietStep DEF IsInside
  <1> QED BY <1>1, <1>2, <1>5, <1>6, <1>7, <1>8, <1>9, <1>10, <1>11

\* A scope inside has a reservation that counts it.
LEMMA InsideReserved ==
    ASSUME BarrierInv, NEW x \in Readers, IsInside(reader[x].phase)
    PROVE  /\ res # None /\ res \in Record /\ reader[x].fence \in Fences
           /\ res.refs[reader[x].fence] \in Nat /\ res.refs[reader[x].fence] > 0
  <1> DEFINE f == reader[x].fence
  <1>1. f \in Fences
    BY DEF BarrierInv, BarrierTyped, Scope
  <1>2. IsFiniteSet(Inside(f)) /\ x \in Inside(f)
    <2>1. Inside(f) \in SUBSET Readers /\ IsFiniteSet(Readers)
      BY ReadBarrierAssumption DEF Inside
    <2> QED BY <2>1, FS_Subset DEF Inside
  <1>3. Cardinality(Inside(f)) # 0 /\ Cardinality(Inside(f)) \in Nat
    BY <1>2, FS_EmptySet, FS_CardinalityType
  <1>4. Refs(f) = Cardinality(Inside(f))
    BY <1>1 DEF BarrierInv, ScopesCounted
  <1>5. res # None
    BY <1>3, <1>4 DEF Refs
  <1>6. res \in Record
    BY <1>5 DEF BarrierInv, ReservationTyped
  <1> QED BY <1>1, <1>3, <1>4, <1>5, <1>6 DEF Refs

\* The reservation a scope asks, or a new one.
LEMMA CurrentCounts ==
    ASSUME BarrierInv
    PROVE  /\ Current \in Record
           /\ \A g \in Fences : Refs(g) = Current.refs[g]
           /\ res # None => Current = res
           /\ res = None => Current.refs = NoRefs /\ Current.failed = FALSE
  <1>1. CASE res = None
    <2>1. Current = NewReservation /\ NoRefs \in [Fences -> Nat]
      BY <1>1 DEF Current, NoRefs
    <2>2. Current \in Record /\ Current.refs = NoRefs /\ Current.failed = FALSE
      BY <2>1 DEF NewReservation, Record
    <2>3. \A g \in Fences : NoRefs[g] = 0
      BY DEF NoRefs
    <2> QED BY <1>1, <2>2, <2>3 DEF Refs
  <1>2. CASE res # None
    BY <1>2 DEF Current, Refs, BarrierInv, ReservationTyped
  <1> QED BY <1>1, <1>2

\* A scope takes its reference, with the lock where it is the first.
LEMMA AcquireKeeps ==
    ASSUME BarrierInv, NEW x \in Readers, Acquire(x)
    PROVE  BarrierInv'
  <1>f. PICK f \in Fences : f = reader[x].fence
    BY DEF BarrierInv, BarrierTyped, Scope
  <1> DEFINE k == reader[x]
             r == Current
             n == [r EXCEPT !.refs[f] = @ + 1, !.locks = @ \cup {f}]
             h == IF r.refs[f] > 0 THEN held ELSE [held EXCEPT ![f] = @ + 1]
             s == [k EXCEPT !.phase = "open"]
  <1>0. /\ k \in Scope /\ k.fence = f /\ Sound(k, alive, version)
        /\ held \in [Fences -> 0..1] /\ alive \in BOOLEAN /\ torn = FALSE
        /\ LocksStand
    BY <1>f DEF BarrierInv, BarrierTyped, ReservationTyped, ScopesSound
  <1>1. /\ k.phase = "asking" /\ ~Wanted(f)
        /\ res # None => alive /\ ~res.failed
        /\ res' = n /\ alive' = TRUE /\ held' = h
        /\ reader' = [reader EXCEPT ![x] = s]
        /\ UNCHANGED <<writer, version, torn>>
    BY <1>f DEF Acquire, Move, fence
  <1>2. /\ r \in Record /\ \A g \in Fences : Refs(g) = r.refs[g]
        /\ res # None => r = res
        /\ res = None => r.refs = NoRefs /\ r.failed = FALSE
    BY CurrentCounts
  <1> HIDE DEF r
  <1>3. /\ r.refs \in [Fences -> Nat] /\ r.locks \in SUBSET Fences
        /\ r.failed = FALSE /\ r.refs[f] \in Nat
    <2>1. r.refs \in [Fences -> Nat] /\ r.locks \in SUBSET Fences /\ r.failed \in BOOLEAN
      BY <1>2 DEF Record
    <2>2. r.failed = FALSE
      BY <1>1, <1>2, <2>1
    <2> QED BY <1>0, <2>1, <2>2
  <1>4. /\ n \in Record /\ n.refs = [r.refs EXCEPT ![f] = @ + 1]
        /\ n.locks = r.locks \cup {f} /\ n.failed = FALSE
    <2>1. [r.refs EXCEPT ![f] = @ + 1] \in [Fences -> Nat] /\ r.locks \cup {f} \in SUBSET Fences
      BY <1>3
    <2> DEFINE R == [r.refs EXCEPT ![f] = @ + 1]
               m == [r EXCEPT !.refs = R]
    <2>2. n = [m EXCEPT !.locks = r.locks \cup {f}]
      OBVIOUS
    <2>3. R \in [Fences -> Nat]
      BY <2>1
    <2> HIDE DEF R, n
    <2>4. m \in Record /\ m.refs = R /\ m.locks = r.locks /\ m.failed = r.failed
      BY <1>2, <2>3 DEF Record
    <2> HIDE DEF m
    <2>5. /\ n \in Record /\ n.refs = m.refs /\ n.locks = r.locks \cup {f}
          /\ n.failed = m.failed
      BY <2>1, <2>2, <2>4 DEF Record
    <2> QED BY <1>3, <2>4, <2>5 DEF R
  <1>5. r.refs[f] = 0 => held[f] = 0
    <2>1. CASE res = None
      BY <1>0, <2>1 DEF LocksStand
    <2>2. CASE res # None
      BY <1>0, <1>2, <1>3, <2>2 DEF LocksStand
    <2> QED BY <2>1, <2>2
  <1>6. h \in [Fences -> 0..1]
    BY <1>0, <1>3, <1>5
  <1>7. /\ \A g \in Fences : g # f => h[g] = held[g] /\ n.refs[g] = r.refs[g]
        /\ n.refs[f] = r.refs[f] + 1 /\ n.refs[f] > 0
    BY <1>0, <1>3, <1>4
  <1>8. h[f] > 0
    <2>1. CASE r.refs[f] > 0
      <3>1. res # None
        BY <1>0, <1>2, <2>1 DEF NoRefs
      <3> QED BY <1>0, <1>1, <1>2, <2>1, <3>1 DEF LocksStand
    <2>2. CASE ~(r.refs[f] > 0)
      BY <1>0, <1>3, <1>5, <2>2
    <2> QED BY <2>1, <2>2
  <1>9. \A g \in Fences : h[g] > 0 => g \in n.locks /\ NoneHolds(g)
    <2>1. NoneHolds(f)
      BY <1>1 DEF Wanted, NoneHolds
    <2>2. ASSUME NEW g \in Fences, g # f, h[g] > 0 PROVE g \in n.locks /\ NoneHolds(g)
      BY <1>0, <1>2, <1>4, <1>7, <2>2 DEF LocksStand
    <2> QED BY <1>4, <2>1, <2>2
  <1>10. \A g \in Fences : h[g] > 0 /\ n.failed = FALSE => n.refs[g] > 0
    <2>1. ASSUME NEW g \in Fences, g # f, h[g] > 0 PROVE n.refs[g] > 0
      <3>1. held[g] > 0 /\ res # None /\ res.failed = FALSE
        BY <1>0, <1>2, <1>3, <1>7, <2>1 DEF LocksStand
      <3> QED BY <1>0, <1>2, <1>7, <2>1, <3>1 DEF LocksStand
    <2> QED BY <1>7, <2>1
  <1>11. \A g \in Fences : n.refs[g] > 0 => h[g] > 0
    <2>1. ASSUME NEW g \in Fences, g # f, n.refs[g] > 0 PROVE h[g] > 0
      <3>1. r.refs[g] > 0 /\ res # None
        BY <1>2, <1>7, <2>1 DEF NoRefs
      <3> QED BY <1>0, <1>1, <1>2, <1>7, <2>1, <3>1 DEF LocksStand
    <2> QED BY <1>8, <2>1
  <1> HIDE DEF h, n
  <1>12. /\ ReservationTyped' /\ LocksStand'
         /\ \A g \in Fences : Refs(g)' = n.refs[g]
    BY <1>1, <1>4, <1>6, <1>9, <1>10, <1>11, LocksStandAs
  <1>13. alive = TRUE \/ \A y \in Readers : ~IsInside(reader[y].phase)
    BY <1>0, <1>1, InsideReserved
  <1>14. s \in Scope /\ s.fence = f /\ s.phase = "open" /\ s.seen = k.seen
    BY <1>0 DEF Scope
  <1>15. Sound(s, alive', version')
    BY <1>0, <1>1, <1>14 DEF Sound, IsInside
  <1>16. Refs(f)' = Refs(f) + 1 /\ \A g \in Fences : g # f => Refs(g)' = Refs(g)
    BY <1>0, <1>2, <1>7, <1>12
  <1> HIDE DEF s
  <1>17. IsInside(s.phase) /\ ~IsInside(k.phase)
    BY <1>1, <1>14 DEF IsInside
  <1> QED BY <1>0, <1>1, <1>12, <1>13, <1>14, <1>15, <1>16, <1>17, ScopeStep

\* An acquire that fails, with the lock taken or not, leaves no lock untracked.
LEMMA AcquireFailsKeeps ==
    ASSUME BarrierInv, NEW x \in Readers, NEW taken \in BOOLEAN, AcquireFails(x, taken)
    PROVE  BarrierInv'
  <1>f. PICK f \in Fences : f = reader[x].fence
    BY DEF BarrierInv, BarrierTyped, Scope
  <1> DEFINE k == reader[x]
             r == Current
             n == [r EXCEPT !.locks = @ \cup {f}, !.failed = TRUE]
             h == IF taken THEN [held EXCEPT ![f] = @ + 1] ELSE held
             s == [k EXCEPT !.phase = "idle"]
  <1>0. /\ k \in Scope /\ k.fence = f /\ Sound(k, alive, version)
        /\ held \in [Fences -> 0..1] /\ alive \in BOOLEAN /\ torn = FALSE
        /\ LocksStand
    BY <1>f DEF BarrierInv, BarrierTyped, ReservationTyped, ScopesSound
  <1>1. /\ k.phase = "asking"
        /\ res # None => ~res.failed
        /\ taken => ~Wanted(f) /\ r.refs[f] = 0 /\ (res # None => alive)
        /\ Keep(n, h)
        /\ reader' = [reader EXCEPT ![x] = s]
        /\ UNCHANGED <<writer, version, torn>>
    BY <1>f DEF AcquireFails, Move, fence
  <1>2. /\ r \in Record /\ \A g \in Fences : Refs(g) = r.refs[g]
        /\ res # None => r = res
        /\ res = None => r.refs = NoRefs /\ r.failed = FALSE
    BY CurrentCounts
  <1> HIDE DEF r
  <1>3. r.refs \in [Fences -> Nat] /\ r.locks \in SUBSET Fences /\ r.failed \in BOOLEAN
    BY <1>2 DEF Record
  <1>4. n \in Record /\ n.refs = r.refs /\ n.locks = r.locks \cup {f} /\ n.failed = TRUE
    <2> DEFINE m == [r EXCEPT !.locks = r.locks \cup {f}]
    <2>1. n = [m EXCEPT !.failed = TRUE]
      OBVIOUS
    <2>2. m \in Record /\ m.refs = r.refs /\ m.locks = r.locks \cup {f}
      BY <1>2, <1>3 DEF Record
    <2> HIDE DEF m, n
    <2> QED BY <2>1, <2>2 DEF Record
  <1>5. taken => held[f] = 0
    <2>1. CASE res = None
      BY <1>0, <2>1 DEF LocksStand
    <2>2. CASE res # None
      <3>1. res.failed = FALSE
        BY <1>1, <1>2, <1>3, <2>2
      <3> QED BY <1>0, <1>1, <1>2, <2>2, <3>1 DEF LocksStand
    <2> QED BY <2>1, <2>2
  <1>6. h \in [Fences -> 0..1]
    BY <1>0, <1>5
  <1>7. /\ \A g \in Fences : g # f \/ ~taken => h[g] = held[g]
        /\ \A g \in Fences : held[g] > 0 => h[g] > 0
    BY <1>0, <1>5
  <1>8. \A g \in Fences : h[g] > 0 => g \in n.locks /\ NoneHolds(g)
    <2>1. taken => NoneHolds(f)
      BY <1>1 DEF Wanted, NoneHolds
    <2>2. ASSUME NEW g \in Fences, g # f \/ ~taken, h[g] > 0
          PROVE  g \in n.locks /\ NoneHolds(g)
      BY <1>0, <1>2, <1>4, <1>7, <2>2 DEF LocksStand
    <2> QED BY <1>4, <2>1, <2>2
  <1>9. \A g \in Fences : h[g] > 0 /\ n.refs # NoRefs => alive = TRUE
    <2>1. ASSUME NEW g \in Fences, g # f \/ ~taken, h[g] > 0 PROVE alive = TRUE
      BY <1>0, <1>7, <2>1 DEF LocksStand
    <2>2. ASSUME taken, n.refs # NoRefs PROVE alive = TRUE
      BY <1>0, <1>1, <1>2, <1>4, <2>2
    <2> QED BY <2>1, <2>2
  <1>10. \A g \in Fences : alive = TRUE /\ n.refs[g] > 0 => h[g] > 0
    BY <1>0, <1>2, <1>4, <1>7 DEF LocksStand
  <1> HIDE DEF h, n
  <1>11. /\ ReservationTyped' /\ LocksStand'
         /\ \A g \in Fences : Refs(g)' = n.refs[g]
         /\ alive' = TRUE => alive = TRUE
    <2>1. \A g \in Fences : h[g] > 0 /\ n.failed = FALSE => n.refs[g] > 0
      BY <1>4
    <2> QED BY <1>0, <1>1, <1>4, <1>6, <1>8, <1>9, <1>10, <2>1, Kept
  <1>12. s \in Scope /\ s.fence = f /\ s.phase = "idle" /\ s.work = k.work
    BY <1>0 DEF Scope
  <1>13. Sound(s, alive', version')
    BY <1>0, <1>1, <1>12 DEF Sound, IsInside
  <1>14. \A g \in Fences : Refs(g)' = Refs(g)
    BY <1>2, <1>4, <1>11
  <1> HIDE DEF s
  <1>15. ~IsInside(s.phase) /\ ~IsInside(k.phase)
    BY <1>1, <1>12 DEF IsInside
  <1> QED BY <1>0, <1>1, <1>11, <1>12, <1>13, <1>14, <1>15, ScopeStep

\* A scope that leaves a reservation that stands gives its reference back, and
\* returns what it read of one version.
LEMMA ReleaseKeeps ==
    ASSUME BarrierInv, NEW x \in Readers, Release(x)
    PROVE  BarrierInv'
  <1>f. PICK f \in Fences : f = reader[x].fence
    BY DEF BarrierInv, BarrierTyped, Scope
  <1> DEFINE k == reader[x]
             n == [Left(res, f) EXCEPT !.locks = IF Last(f) THEN @ \ {f} ELSE @]
             h == IF Last(f) THEN [held EXCEPT ![f] = @ - 1] ELSE held
             s == [k EXCEPT !.phase = "idle"]
  <1>0. /\ k \in Scope /\ k.fence = f /\ Sound(k, alive, version)
        /\ held \in [Fences -> 0..1] /\ alive \in BOOLEAN /\ torn = FALSE
        /\ LocksStand
    BY <1>f DEF BarrierInv, BarrierTyped, ReservationTyped, ScopesSound
  <1>1. /\ k.phase = "draining" /\ k.work = "none"
        /\ ~res.failed /\ alive /\ held[f] > 0
        /\ Keep(n, h)
        /\ torn' = (torn \/ (k.ok /\ Cardinality(k.seen) > 1))
        /\ reader' = [reader EXCEPT ![x] = s]
        /\ UNCHANGED <<writer, version>>
    BY <1>f DEF Release, Drained, Intact, Held, Move, fence
  <1>2. res # None /\ res \in Record /\ res.refs[f] \in Nat /\ res.refs[f] > 0
    BY <1>0, <1>1, InsideReserved DEF IsInside
  <1>3. res.refs \in [Fences -> Nat] /\ res.locks \in SUBSET Fences /\ res.failed \in BOOLEAN
    BY <1>2 DEF Record
  <1>4. /\ n \in Record /\ n.refs = [res.refs EXCEPT ![f] = @ - 1]
        /\ n.locks = IF Last(f) THEN res.locks \ {f} ELSE res.locks
        /\ n.failed = FALSE
    <2> DEFINE R == [res.refs EXCEPT ![f] = @ - 1]
               m == [res EXCEPT !.refs = R]
               L == IF Last(f) THEN res.locks \ {f} ELSE res.locks
    <2>1. R \in [Fences -> Nat] /\ L \in SUBSET Fences
      BY <1>2, <1>3
    <2>2. m = Left(res, f)
      BY DEF Left
    <2>3. m \in Record /\ m.refs = R /\ m.locks = res.locks /\ m.failed = res.failed
      <3> HIDE DEF R
      <3> QED BY <1>2, <2>1 DEF Record
    <2>4. n = [m EXCEPT !.locks = L]
      BY <2>2, <2>3
    <2>5. n \in Record /\ n.refs = m.refs /\ n.locks = L /\ n.failed = m.failed
      <3> HIDE DEF m, L, n, R
      <3> QED BY <2>1, <2>3, <2>4 DEF Record
    <2>6. res.failed = FALSE
      BY <1>1, <1>3
    <2> QED BY <2>3, <2>5, <2>6
  <1>5. h \in [Fences -> 0..1]
    BY <1>0, <1>1
  <1>6. /\ \A g \in Fences : g # f => h[g] = held[g] /\ n.refs[g] = res.refs[g]
        /\ n.refs[f] = res.refs[f] - 1
        /\ Last(f) => h[f] = 0 /\ n.refs[f] = 0
        /\ ~Last(f) => h[f] = held[f] /\ n.refs[f] > 0
    BY <1>0, <1>1, <1>2, <1>3, <1>4 DEF Last
  <1>7. \A g \in Fences : h[g] > 0 => g \in n.locks /\ NoneHolds(g)
    <2>1. ASSUME NEW g \in Fences, h[g] > 0 PROVE held[g] > 0 /\ (Last(f) => g # f)
      BY <1>1, <1>6, <2>1
    <2> QED BY <1>0, <1>4, <2>1 DEF LocksStand
  <1>8. \A g \in Fences : h[g] > 0 => n.refs[g] > 0
    <2>1. ASSUME NEW g \in Fences, g # f, h[g] > 0 PROVE n.refs[g] > 0
      <3>1. res.failed = FALSE
        BY <1>1, <1>3
      <3> QED BY <1>0, <1>2, <1>6, <2>1, <3>1 DEF LocksStand, Refs
    <2> QED BY <1>6, <2>1
  <1>9. \A g \in Fences : alive = TRUE /\ n.refs[g] > 0 => h[g] > 0
    <2>1. ASSUME NEW g \in Fences, g # f, n.refs[g] > 0 PROVE h[g] > 0
      BY <1>0, <1>1, <1>2, <1>6, <2>1 DEF LocksStand, Refs
    <2> QED BY <1>1, <1>6, <2>1
  <1> HIDE DEF h, n
  <1>10. /\ ReservationTyped' /\ LocksStand'
         /\ \A g \in Fences : Refs(g)' = n.refs[g]
         /\ alive' = TRUE => alive = TRUE
    BY <1>0, <1>1, <1>4, <1>5, <1>7, <1>8, <1>9, Kept
  <1>11. s \in Scope /\ s.fence = f /\ s.phase = "idle" /\ s.work = k.work
    BY <1>0 DEF Scope
  <1>12. Sound(s, alive', version')
    BY <1>0, <1>1, <1>11 DEF Sound, IsInside
  <1>13. Refs(f)' = Refs(f) - 1 /\ \A g \in Fences : g # f => Refs(g)' = Refs(g)
    BY <1>2, <1>6, <1>10 DEF Refs
  <1>14. torn' = FALSE
    <2>1. k.seen \in SUBSET {version[f]}
      BY <1>0, <1>1 DEF Sound, IsInside
    <2>2. IsFiniteSet({version[f]}) /\ Cardinality({version[f]}) = 1
      BY FS_Singleton
    <2>3. Cardinality(k.seen) <= 1 /\ Cardinality(k.seen) \in Nat
      BY <2>1, <2>2, FS_Subset, FS_CardinalityType
    <2>4. ~(Cardinality(k.seen) > 1)
      BY <2>3
    <2>5. torn = FALSE /\ torn' = (torn \/ (k.ok /\ Cardinality(k.seen) > 1))
      BY <1>0, <1>1
    <2> QED BY <2>4, <2>5
  <1> HIDE DEF s
  <1>15. ~IsInside(s.phase) /\ IsInside(k.phase)
    BY <1>1, <1>11 DEF IsInside
  <1> QED BY <1>0, <1>1, <1>10, <1>11, <1>12, <1>13, <1>14, <1>15, ScopeStep

\* A scope whose release fails gives its reference back and returns nothing.
LEMMA ReleaseFailsKeeps ==
    ASSUME BarrierInv, NEW x \in Readers, NEW freed \in BOOLEAN,
           ReleaseFails(x, freed)
    PROVE  BarrierInv'
  <1>f. PICK f \in Fences : f = reader[x].fence
    BY DEF BarrierInv, BarrierTyped, Scope
  <1> DEFINE k == reader[x]
             n == [Left(res, f) EXCEPT !.failed = TRUE]
             h == IF freed THEN [held EXCEPT ![f] = @ - 1] ELSE held
             s == [k EXCEPT !.phase = "idle"]
  <1>0. /\ k \in Scope /\ k.fence = f /\ Sound(k, alive, version)
        /\ held \in [Fences -> 0..1] /\ alive \in BOOLEAN /\ torn = FALSE
        /\ LocksStand
    BY <1>f DEF BarrierInv, BarrierTyped, ReservationTyped, ScopesSound
  <1>1. /\ k.phase = "draining" /\ k.work = "none" /\ Keep(n, h)
        /\ freed => res.refs[f] = 1 /\ held[f] > 0
        /\ reader' = [reader EXCEPT ![x] = s]
        /\ UNCHANGED <<writer, version, torn>>
    BY <1>f DEF ReleaseFails, Drained, Move, fence, Last, Intact, Held
  <1>2. res # None /\ res \in Record /\ res.refs[f] \in Nat /\ res.refs[f] > 0
    BY <1>0, <1>1, InsideReserved DEF IsInside
  <1>3. res.refs \in [Fences -> Nat] /\ res.locks \in SUBSET Fences
    BY <1>2 DEF Record
  <1>4. /\ n \in Record /\ n.refs = [res.refs EXCEPT ![f] = @ - 1]
        /\ n.locks = res.locks /\ n.failed = TRUE
    <2> DEFINE R == [res.refs EXCEPT ![f] = @ - 1]
               m == [res EXCEPT !.refs = R]
    <2>1. R \in [Fences -> Nat]
      BY <1>2, <1>3
    <2>2. n = [m EXCEPT !.failed = TRUE]
      BY DEF Left
    <2>3. m \in Record /\ m.refs = R /\ m.locks = res.locks
      <3> HIDE DEF R
      <3> QED BY <1>2, <2>1 DEF Record
    <2>4. n \in Record /\ n.refs = m.refs /\ n.locks = m.locks /\ n.failed = TRUE
      <3> HIDE DEF m, n, R
      <3> QED BY <2>2, <2>3 DEF Record
    <2> QED BY <2>3, <2>4
  <1>5. /\ \A g \in Fences : g # f => n.refs[g] = res.refs[g]
        /\ n.refs[f] = res.refs[f] - 1
    BY <1>2, <1>3, <1>4
  <1>h. /\ h \in [Fences -> 0..1]
        /\ \A g \in Fences : h[g] > 0 => held[g] > 0
        /\ \A g \in Fences : n.refs[g] > 0 => h[g] = held[g]
    <2>1. CASE ~freed BY <1>0, <2>1
    <2>2. CASE freed
      <3>1. held[f] = 1 /\ n.refs[f] = 0
        BY <1>0, <1>1, <1>5, <2>2
      <3> QED BY <1>0, <1>5, <2>2, <3>1
    <2> QED BY <2>1, <2>2
  <1>6. \A g \in Fences : h[g] > 0 => alive = TRUE /\ g \in n.locks /\ NoneHolds(g)
    BY <1>0, <1>4, <1>h DEF LocksStand
  <1>7. \A g \in Fences : alive = TRUE /\ n.refs[g] > 0 => h[g] > 0
    <2>1. ASSUME NEW g \in Fences, n.refs[g] > 0 PROVE res.refs[g] > 0
      BY <1>2, <1>5, <2>1
    <2> QED BY <1>0, <1>2, <1>h, <2>1 DEF LocksStand, Refs
  <1> HIDE DEF n, h
  <1>8. /\ ReservationTyped' /\ LocksStand'
        /\ \A g \in Fences : Refs(g)' = n.refs[g]
        /\ alive' = TRUE => alive = TRUE
    <2>1. \A g \in Fences : h[g] > 0 /\ n.failed = FALSE => n.refs[g] > 0
      BY <1>4
    <2> QED BY <1>0, <1>1, <1>4, <1>h, <1>6, <1>7, <2>1, Kept
  <1>9. s \in Scope /\ s.fence = f /\ s.phase = "idle" /\ s.work = k.work
    BY <1>0 DEF Scope
  <1>10. Sound(s, alive', version')
    BY <1>0, <1>1, <1>9 DEF Sound, IsInside
  <1>11. Refs(f)' = Refs(f) - 1 /\ \A g \in Fences : g # f => Refs(g)' = Refs(g)
    BY <1>2, <1>5, <1>8 DEF Refs
  <1> HIDE DEF s
  <1>12. ~IsInside(s.phase) /\ IsInside(k.phase)
    BY <1>1, <1>9 DEF IsInside
  <1> QED BY <1>0, <1>1, <1>8, <1>9, <1>10, <1>11, <1>12, ScopeStep

\* The lost session takes its locks with it.
LEMMA LoseBackendKeeps ==
    ASSUME BarrierInv, LoseBackend
    PROVE  BarrierInv'
  <1>1. /\ alive' = FALSE /\ held' = [f \in Fences |-> 0]
        /\ UNCHANGED <<res, reader, writer, version, torn>>
    BY DEF LoseBackend
  <1>2. BarrierTyped' /\ ReservationTyped'
    <2>1. BarrierTyped'
      BY <1>1 DEF BarrierInv, BarrierTyped
    <2>2. held' \in [Fences -> 0..1] /\ alive' \in BOOLEAN
      <3>1. held' \in [Fences -> 0..1]
        BY <1>1
      <3>2. alive' \in BOOLEAN
        BY <1>1
      <3> QED BY <3>1, <3>2
    <2>3. res' = None \/ res' \in Record
      BY <1>1 DEF BarrierInv, ReservationTyped
    <2> QED BY <2>1, <2>2, <2>3 DEF ReservationTyped
  <1>3. ScopesCounted'
    BY <1>1 DEF BarrierInv, ScopesCounted, Refs, Inside
  <1>4. LocksStand'
    BY <1>1 DEF LocksStand
  <1>5. ScopesSound'
    BY <1>1 DEF BarrierInv, ScopesSound, Sound
  <1> QED BY <1>1, <1>2, <1>3, <1>4, <1>5 DEF BarrierInv

\* A writer is granted a fence without a lock, and changes what no scope inside
\* is fenced for.
LEMMA WriterKeeps ==
    ASSUME BarrierInv, NEW w \in Writers, WriterStep(w)
    PROVE  BarrierInv'
  <1>0. /\ writer[w] \in Writer /\ writer \in [Writers -> Writer]
        /\ version \in [Fences -> Versions] /\ reader \in [Readers -> Scope]
        /\ held \in [Fences -> 0..1]
    BY DEF BarrierInv, BarrierTyped, ReservationTyped
  <1>1. UNCHANGED <<res, alive, held, reader, torn>>
    BY DEF WriterStep, BeginWrite, Grant, Commit
  <1>2. \E p \in {"idle", "waiting", "holding"} :
           /\ writer' = [writer EXCEPT ![w].phase = p]
           /\ p = "holding" => held[writer[w].fence] = 0
    BY DEF WriterStep, BeginWrite, Grant, Commit
  <1>3. PICK p \in {"idle", "waiting", "holding"} :
           /\ writer' = [writer EXCEPT ![w].phase = p]
           /\ p = "holding" => held[writer[w].fence] = 0
    BY <1>2
  <1>4. /\ writer'[w] = [writer[w] EXCEPT !.phase = p] /\ writer'[w] \in Writer
        /\ writer'[w].phase = p /\ writer'[w].fence = writer[w].fence
        /\ \A v \in Writers : v # w => writer'[v] = writer[v]
        /\ writer' \in [Writers -> Writer]
    <2>1. writer'[w] = [writer[w] EXCEPT !.phase = p]
      BY <1>0, <1>3
    <2>2. /\ writer'[w] \in Writer /\ writer'[w].phase = p
          /\ writer'[w].fence = writer[w].fence
      BY <1>0, <2>1 DEF Writer
    <2> QED BY <1>0, <1>3, <2>1, <2>2
  <1>5. /\ version' \in [Fences -> Versions]
        /\ \A f \in Fences : version'[f] = version[f] \/
              (f = writer[w].fence /\ writer[w].phase = "holding")
    <2>1. CASE BeginWrite(w) \/ Grant(w)
      BY <1>0, <2>1 DEF BeginWrite, Grant
    <2>2. CASE Commit(w)
      <3>1. /\ version' = [version EXCEPT ![writer[w].fence] = (@ + 1) % 3]
            /\ writer[w].phase = "holding" /\ writer[w].fence \in Fences
        BY <1>0, <2>2 DEF Commit, Writer
      <3>2. \A v \in Versions : (v + 1) % 3 \in Versions
        BY DEF Versions
      <3> QED BY <1>0, <3>1, <3>2
    <2> QED BY <2>1, <2>2 DEF WriterStep
  <1>6. BarrierTyped' /\ ReservationTyped' /\ ScopesCounted'
    BY <1>1, <1>4, <1>5
       DEF BarrierInv, BarrierTyped, ReservationTyped, ScopesCounted, Refs, Inside
  <1>7. \A f \in Fences : held[f] > 0 => NoneHolds(f)'
    <2>1. \A f \in Fences : held[f] > 0 => NoneHolds(f)
      BY DEF BarrierInv, LocksStand
    <2> QED BY <1>0, <1>3, <1>4, <2>1 DEF NoneHolds
  <1>8. LocksStand'
    BY <1>1, <1>7 DEF BarrierInv, LocksStand, Refs
  <1>9. ASSUME NEW x \in Readers PROVE Sound(reader[x], alive, version')
    <2>1. Sound(reader[x], alive, version)
      BY DEF BarrierInv, ScopesSound
    <2>2. ASSUME alive = TRUE, IsInside(reader[x].phase)
          PROVE  version'[reader[x].fence] = version[reader[x].fence]
      <3>1. /\ reader[x].fence \in Fences /\ res # None
            /\ res.refs[reader[x].fence] > 0
        BY <2>2, InsideReserved
      <3>2. held[reader[x].fence] > 0
        BY <2>2, <3>1 DEF BarrierInv, LocksStand, Refs
      <3>3. NoneHolds(reader[x].fence)
        BY <3>1, <3>2 DEF BarrierInv, LocksStand
      <3> QED BY <1>5, <3>1, <3>3 DEF NoneHolds
    <2> QED BY <2>1, <2>2 DEF Sound
  <1>10. ScopesSound'
    BY <1>1, <1>9 DEF ScopesSound
  <1> QED BY <1>1, <1>6, <1>8, <1>10 DEF BarrierInv

\* The barrier starts without reservation, and every step keeps the invariant.
LEMMA BarrierInductive == MCSpec => []BarrierRun
  <1>1. MCInit => BarrierRun
    <2> SUFFICES ASSUME Init PROVE BarrierInv
      BY DEF MCInit, BarrierRun
    <2>1. /\ res = None /\ alive = FALSE /\ held = [f \in Fences |-> 0]
          /\ version = [f \in Fences |-> 0] /\ torn = FALSE
      BY DEF Init
    <2>2. \A x \in Readers : \E f \in Fences :
             reader[x] = [phase |-> "idle", fence |-> f, work |-> "none",
                          slot |-> FALSE, seen |-> {}, ok |-> FALSE]
      BY DEF Init
    <2>3. \A x \in Readers : /\ reader[x] \in Scope /\ reader[x].phase = "idle"
                             /\ reader[x].work = "none"
      <3> TAKE x \in Readers
      <3>1. PICK f \in Fences :
               reader[x] = [phase |-> "idle", fence |-> f, work |-> "none",
                            slot |-> FALSE, seen |-> {}, ok |-> FALSE]
        BY <2>2
      <3>2. {} \in SUBSET Versions
        OBVIOUS
      <3> QED BY <3>1, <3>2 DEF Scope
    <2>4. reader \in [Readers -> Scope]
      <3>1. reader = [x \in Readers |-> reader[x]]
        BY DEF Init
      <3> QED BY <2>3, <3>1
    <2>5. BarrierTyped
      <3>1. writer \in [Writers -> Writer]
        BY DEF Init, Writer
      <3>2. version \in [Fences -> Versions]
        BY <2>1 DEF Versions
      <3> QED BY <2>4, <3>1, <3>2 DEF BarrierTyped
    <2>6. ReservationTyped /\ LocksStand
      <3>1. held \in [Fences -> 0..1] /\ alive \in BOOLEAN /\ res = None
        <4>1. held \in [Fences -> 0..1]
          BY <2>1
        <4>2. alive \in BOOLEAN
          BY <2>1
        <4> QED BY <2>1, <4>1, <4>2
      <3>2. \A f \in Fences : held[f] = 0 /\ ~(held[f] > 0)
        BY <2>1
      <3> QED BY <2>1, <3>1, <3>2 DEF ReservationTyped, LocksStand
    <2>7. \A f : Inside(f) = {}
      BY <2>3 DEF Inside, IsInside
    <2>8. ScopesCounted
      BY <2>1, <2>7, FS_EmptySet DEF ScopesCounted, Refs
    <2>9. ScopesSound
      BY <2>3 DEF ScopesSound, Sound, IsInside
    <2> QED BY <2>1, <2>5, <2>6, <2>8, <2>9 DEF BarrierInv
  <1>2. BarrierRun /\ [MCNext]_<<part, vars, gVars, mVars>> => BarrierRun'
    <2> SUFFICES ASSUME BarrierRun, [MCNext]_<<part, vars, gVars, mVars>>
                 PROVE  BarrierRun'
      OBVIOUS
    <2>1. ASSUME part = "barrier", Next, part' = part PROVE BarrierRun'
      <3>1. BarrierInv
        BY <2>1 DEF BarrierRun
      <3>2. ASSUME NEW x \in Readers, ReaderStep(x) PROVE BarrierInv'
        BY <3>1, <3>2, ScopeWorks, AcquireKeeps, AcquireFailsKeeps, ReleaseKeeps,
           ReleaseFailsKeeps DEF ReaderStep
      <3>3. BarrierInv'
        BY <2>1, <3>1, <3>2, WriterKeeps, LoseBackendKeeps DEF Next
      <3> QED BY <3>3 DEF BarrierRun
    <2>2. ASSUME UNCHANGED <<part, vars>> PROVE BarrierRun'
      BY <2>2
         DEF vars, BarrierRun, BarrierInv, BarrierTyped, ReservationTyped, ScopesCounted,
             LocksStand, ScopesSound, Refs, Inside, NoneHolds
    <2> QED BY <2>1, <2>2 DEF MCNext, BarrierRun
  <1> QED BY <1>1, <1>2, PTL DEF MCSpec

\* Whatever the scopes, writers and fences, the pool and the number of failures,
\* and wherever the reserved session is lost between two steps: no scope returns
\* a result read across a change, no lock outlives its reservation, and no
\* writer holds the fence of a scope that is inside on a session that stands.
THEOREM BarrierStands == MCSpec => []BarrierHolds
  <1>1. BarrierRun => BarrierHolds
    <2> SUFFICES ASSUME BarrierInv PROVE ReadsAreFenced /\ NoLeakedLock /\ WritersExcluded
      BY DEF BarrierRun, BarrierHolds
    <2>1. ReadsAreFenced
      BY DEF BarrierInv, ReadsAreFenced
    <2>2. NoLeakedLock
      BY DEF BarrierInv, ReservationTyped, LocksStand, NoLeakedLock
    <2>3. ASSUME NEW x \in Readers, NEW w \in Writers, writer[w].phase = "holding",
                 writer[w].fence = reader[x].fence,
                 IsInside(reader[x].phase) \/ reader[x].work # "none"
          PROVE  ~alive
      <3>1. IsInside(reader[x].phase)
        BY <2>3 DEF BarrierInv, ScopesSound, Sound
      <3>2. /\ reader[x].fence \in Fences /\ res # None
            /\ res.refs[reader[x].fence] > 0
        BY <3>1, InsideReserved
      <3>3. alive = TRUE => NoneHolds(reader[x].fence)
        BY <3>2 DEF BarrierInv, LocksStand, Refs
      <3>4. alive # TRUE
        BY <2>3, <3>3 DEF NoneHolds
      <3> QED BY <3>4 DEF BarrierInv, ReservationTyped
    <2>4. WritersExcluded
      BY <2>3 DEF WritersExcluded, IsInside, fence
    <2> QED BY <2>1, <2>2, <2>4
  <1> QED BY <1>1, BarrierInductive, PTL
=============================================================================
