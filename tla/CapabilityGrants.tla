--------------------------- MODULE CapabilityGrants ---------------------------
(***************************************************************************)
(* The capability grants of one subject and recipient                      *)
(* (operations/capability-grants.ts, capability-grant-resolution.ts): a    *)
(* grant is issued, possibly superseding the earlier ones, its token is    *)
(* resolved for an Operation under the row lock, one use is counted in the *)
(* Operation's own transaction before its handler runs, and the grant is   *)
(* revoked, locked after wrong secrets, and purged.  Transactions run at   *)
(* READ COMMITTED: a statement sees what was committed when it began, and  *)
(* an update that waited for a row lock evaluates its where clause again.  *)
(* A transaction's writes are made at its commit here; until then it holds *)
(* the locks of the rows it writes.                                        *)
(***************************************************************************)
EXTENDS Integers, FiniteSets

CONSTANTS
    Grants,        \* grant ids; each is issued by a transaction of its own
    Requests,      \* calls of capability Operations
    MaxFailed,     \* maxFailedAttempts
    Window,        \* windowMs
    LockTime,      \* lockMs
    Ttl,           \* expires_at less issued_at
    Retain,        \* retainDays of purgeCapabilityGrants
    UseLimits,     \* values of max_uses; Unlimited: null
    UseBound,      \* bound: uses of a grant without a limit
    MaxClock,      \* bound: the time
    Unlimited,
    None

VARIABLES
    clock,
    grants,      \* platform.capability_grants, None: no row
    rowLock,     \* the transaction that holds the lock of a row
    issue,       \* issueCapabilityGrantInTransaction
    revoking,    \* revokes that have read an active grant
    req,         \* the calls
    effects,     \* history: committed uses of a grant, its handler's effects
    wrong        \* history: wrong secrets compared since the window was opened

vars == <<clock, grants, rowLock, issue, revoking, req, effects, wrong>>

Times == 0..MaxClock

\* revoked, consumed, windowStart, lockedUntil: None stands for null
Row == [expires : Nat, maxUses : UseLimits, uses : Nat,
        revoked : Times \cup {None}, consumed : Times \cup {None},
        failed : Nat, windowStart : Times \cup {None},
        lockedUntil : Nat \cup {None}, superseding : BOOLEAN]

ASSUME GrantsAssumption ==
    /\ MaxFailed \in Nat \ {0} /\ Window \in Nat /\ LockTime \in Nat
    /\ Ttl \in Nat \ {0} /\ Retain \in Nat /\ MaxClock \in Nat
    /\ UseBound \in Nat \ {0}
    /\ UseLimits \subseteq (Nat \ {0}) \cup {Unlimited}
    /\ Unlimited \notin Int
    /\ Grants \cap Requests = {}
    /\ None \notin Int /\ None \notin Grants \cup Requests /\ None \notin Row

Issue == [phase : {"new", "updated", "over"}, now : Times,
          superseding : BOOLEAN, matched : SUBSET Grants]

Request == [phase : {"idle", "begun", "comparing", "resolved", "called",
                     "counted"},
            grant : Grants \cup {None}, now : Times, right : BOOLEAN,
            seen : Row \cup {None}]

Idle == [phase |-> "idle", grant |-> None, now |-> 0, right |-> FALSE,
         seen |-> None]

Init ==
    /\ clock = 0
    /\ grants = [g \in Grants |-> None]
    /\ rowLock = [g \in Grants |-> None]
    /\ issue = [g \in Grants |-> [phase |-> "new", now |-> 0,
                                  superseding |-> FALSE, matched |-> {}]]
    /\ revoking = {}
    /\ req = [r \in Requests |-> Idle]
    /\ effects = [g \in Grants |-> 0]
    /\ wrong = [g \in Grants |-> 0]

Issued == {g \in Grants : grants[g] # None}

\* capabilityGrantStatus: revoked wins over consumed wins over expired
Status(row, now) ==
    CASE row.revoked # None -> "revoked"
      [] row.revoked = None /\ (\/ row.consumed # None
                                \/ /\ row.maxUses # Unlimited
                                   /\ row.uses >= row.maxUses) -> "consumed"
      [] OTHER -> IF row.expires <= now THEN "expired" ELSE "active"

Release(locks, owner) ==
    [g \in Grants |-> IF locks[g] = owner THEN None ELSE locks[g]]

-----------------------------------------------------------------------------
(* Issuing                                                                 *)

\* The where clause of the superseding update; subject and recipient match
Supersedable(g, now) ==
    /\ grants[g].revoked = None
    /\ grants[g].consumed = None
    /\ grants[g].expires > now

\* The superseding update: the rows committed when it begins that match, once
\* their locks are free
IssueUpdate(id, superseding) ==
    LET matched == IF superseding
                   THEN {g \in Issued : Supersedable(g, clock)} ELSE {}
    IN  /\ issue[id].phase = "new"
        /\ \A g \in matched : rowLock[g] = None
        /\ issue' = [issue EXCEPT ![id] =
                       [phase |-> "updated", now |-> clock,
                        superseding |-> superseding, matched |-> matched]]
        /\ rowLock' = [g \in Grants |-> IF g \in matched THEN id ELSE rowLock[g]]
        /\ UNCHANGED <<clock, grants, revoking, req, effects, wrong>>

\* The insert and the commit of the caller's transaction
IssueCommit(id, limit) ==
    LET t == issue[id]
    IN  /\ t.phase = "updated"
        /\ grants' = [g \in Grants |->
             CASE g = id ->
                    [expires |-> t.now + Ttl, maxUses |-> limit, uses |-> 0,
                     revoked |-> None, consumed |-> None, failed |-> 0,
                     windowStart |-> None, lockedUntil |-> None,
                     superseding |-> t.superseding]
               [] g \in t.matched -> [grants[g] EXCEPT !.revoked = t.now]
               [] OTHER -> grants[g]]
        /\ rowLock' = Release(rowLock, id)
        /\ issue' = [issue EXCEPT ![id].phase = "over"]
        /\ UNCHANGED <<clock, revoking, req, effects, wrong>>

\* The caller's transaction is rolled back: nothing was issued or superseded
IssueFails(id) ==
    /\ issue[id].phase = "updated"
    /\ rowLock' = Release(rowLock, id)
    /\ issue' = [issue EXCEPT ![id].phase = "over"]
    /\ UNCHANGED <<clock, grants, revoking, req, effects, wrong>>

-----------------------------------------------------------------------------
(* Revoking and purging                                                    *)

\* revokeCapabilityGrantInTransaction reads an active grant
RevokeRead(g) ==
    /\ grants[g] # None
    /\ Status(grants[g], clock) = "active"
    /\ revoking' = revoking \cup {g}
    /\ UNCHANGED <<clock, grants, rowLock, issue, req, effects, wrong>>

\* Its update, where revoked_at is null, and the commit
RevokeWrite(g) ==
    /\ g \in revoking
    /\ rowLock[g] = None
    /\ revoking' = revoking \ {g}
    /\ grants' = IF grants[g] # None /\ grants[g].revoked = None
                 THEN [grants EXCEPT ![g].revoked = clock] ELSE grants
    /\ UNCHANGED <<clock, rowLock, issue, req, effects, wrong>>

\* The where clause of purgeCapabilityGrants
Purgeable(g) ==
    \/ grants[g].expires < clock - Retain
    \/ grants[g].revoked # None /\ grants[g].revoked < clock - Retain

PurgeCapabilityGrants ==
    LET old == {g \in Issued : Purgeable(g)}
    IN  /\ old # {}
        /\ \A g \in old : rowLock[g] = None
        /\ grants' = [g \in Grants |-> IF g \in old THEN None ELSE grants[g]]
        /\ UNCHANGED <<clock, rowLock, issue, revoking, req, effects, wrong>>

-----------------------------------------------------------------------------
(* resolveCapabilityGrantSession                                           *)

\* A call arrives with the right or a wrong secret, the tenant of its grant is
\* found; `now' is read before the
\* row lock is waited for
Begin(r, g, right) ==
    /\ req[r].phase = "idle"
    /\ grants[g] # None
    /\ req' = [req EXCEPT ![r] = [phase |-> "begun", grant |-> g,
                                  now |-> clock, right |-> right,
                                  seen |-> None]]
    /\ UNCHANGED <<clock, grants, rowLock, issue, revoking, effects, wrong>>

\* Mutant of Unlocked: the select has no `for update'
MutUnlocked(g) == TRUE

Unlocked(g) == rowLock[g] = None

\* The select for update; no row, or a locked grant, refuses without a
\* comparison
ResolveLock(r) ==
    LET g == req[r].grant
        refused == \/ grants[g] = None
                   \/ /\ grants[g] # None
                      /\ grants[g].lockedUntil # None
                      /\ grants[g].lockedUntil > req[r].now
    IN  /\ req[r].phase = "begun"
        /\ Unlocked(g)
        /\ req' = [req EXCEPT ![r] =
                     IF refused THEN Idle
                     ELSE [@ EXCEPT !.phase = "comparing", !.seen = grants[g]]]
        /\ rowLock' = IF refused THEN rowLock ELSE [rowLock EXCEPT ![g] = r]
        /\ UNCHANGED <<clock, grants, issue, revoking, effects, wrong>>

\* recordFailedAttempt: the attempt falls into the window that is open
InWindow(row, now) ==
    row.windowStart # None /\ now - row.windowStart < Window

\* recordFailedAttempt: the update of a row, computed from the one that was read
Failed(row, seen, now) ==
    LET attempts == IF InWindow(seen, now) THEN seen.failed + 1 ELSE 1
    IN  [row EXCEPT !.failed = attempts,
                    !.windowStart = IF InWindow(seen, now)
                                    THEN seen.windowStart ELSE now,
                    !.lockedUntil = IF attempts >= MaxFailed
                                    THEN now + LockTime ELSE None]

\* The secret is wrong: the attempt is committed and the call refused
WrongSecret(r) ==
    LET g == req[r].grant
    IN  /\ req[r].phase = "comparing"
        /\ ~req[r].right
        /\ grants' = [grants EXCEPT ![g] = Failed(@, req[r].seen, req[r].now)]
        /\ wrong' = [wrong EXCEPT ![g] =
                       IF InWindow(grants[g], req[r].now) THEN @ + 1 ELSE 1]
        /\ rowLock' = [rowLock EXCEPT ![g] = None]
        /\ req' = [req EXCEPT ![r] = Idle]
        /\ UNCHANGED <<clock, issue, revoking, effects>>

\* The secret is right: the attempts are forgotten; a grant that is not active
\* or does not cover the Operation is refused
RightSecret(r, covered) ==
    LET g == req[r].grant
        active == Status(req[r].seen, req[r].now) = "active"
    IN  /\ req[r].phase = "comparing"
        /\ req[r].right
        /\ grants' = [grants EXCEPT ![g] = [@ EXCEPT !.failed = 0,
                        !.windowStart = None, !.lockedUntil = None]]
        /\ wrong' = [wrong EXCEPT ![g] = 0]
        /\ rowLock' = [rowLock EXCEPT ![g] = None]
        /\ req' = [req EXCEPT ![r] = IF active /\ covered
                                     THEN [@ EXCEPT !.phase = "resolved", !.seen = None]
                                     ELSE Idle]
        /\ UNCHANGED <<clock, issue, revoking, effects>>

-----------------------------------------------------------------------------
(* consumeCapabilityGrantInTransaction and the handler                     *)

\* The call gets to its Operation transaction; `now' is read once more
Call(r) ==
    /\ req[r].phase = "resolved"
    /\ req' = [req EXCEPT ![r] = [@ EXCEPT !.phase = "called", !.now = clock]]
    /\ UNCHANGED <<clock, grants, rowLock, issue, revoking, effects, wrong>>

\* Mutant of Consumable: without revoked_at
MutConsumableRevoked(row, now) ==
    /\ row.consumed = None
    /\ row.maxUses = Unlimited \/ row.uses < row.maxUses
    /\ row.expires > now

\* The where clause of the counting update
Consumable(row, now) ==
    /\ row.revoked = None
    /\ row.consumed = None
    /\ row.maxUses # Unlimited => row.uses < row.maxUses
    /\ row.expires > now
    /\ row.lockedUntil # None => row.lockedUntil <= now

\* The counting update, evaluated once the row lock is free; the transaction
\* keeps the lock until its end
Consume(r) ==
    LET g == req[r].grant
        counts == /\ grants[g] # None
                  /\ Consumable(grants[g], req[r].now)
    IN  /\ req[r].phase = "called"
        /\ rowLock[g] = None
        /\ counts => effects[g] < UseBound
        /\ req' = [req EXCEPT ![r] =
                     IF counts THEN [@ EXCEPT !.phase = "counted"] ELSE Idle]
        /\ rowLock' = IF counts THEN [rowLock EXCEPT ![g] = r] ELSE rowLock
        /\ UNCHANGED <<clock, grants, issue, revoking, effects, wrong>>

\* The row the counting update leaves
Used(row, now) ==
    [row EXCEPT !.uses = @ + 1,
                !.consumed = IF /\ row.maxUses # Unlimited
                                /\ row.uses + 1 >= row.maxUses
                             THEN now ELSE @]

\* The handler succeeds: its effects and the use are committed together
HandlerCommits(r) ==
    LET g == req[r].grant
    IN  /\ req[r].phase = "counted"
        /\ grants' = [grants EXCEPT ![g] = Used(@, req[r].now)]
        /\ effects' = [effects EXCEPT ![g] = @ + 1]
        /\ rowLock' = [rowLock EXCEPT ![g] = None]
        /\ req' = [req EXCEPT ![r] = Idle]
        /\ UNCHANGED <<clock, issue, revoking, wrong>>

\* Mutant of RequestFails: the use was committed before the handler ran
MutRequestFails(r) ==
    /\ req[r].phase \in {"begun", "comparing", "resolved", "called", "counted"}
    /\ grants' = IF req[r].phase = "counted"
                 THEN [grants EXCEPT ![req[r].grant] = Used(@, req[r].now)]
                 ELSE grants
    /\ rowLock' = Release(rowLock, r)
    /\ req' = [req EXCEPT ![r] = Idle]
    /\ UNCHANGED <<clock, issue, revoking, effects, wrong>>

\* A transaction of the call is rolled back, or its process dies
RequestFails(r) ==
    /\ req[r].phase \in {"begun", "comparing", "resolved", "called", "counted"}
    /\ rowLock' = Release(rowLock, r)
    /\ req' = [req EXCEPT ![r] = Idle]
    /\ UNCHANGED <<clock, grants, issue, revoking, effects, wrong>>

Tick ==
    /\ clock < MaxClock
    /\ clock' = clock + 1
    /\ UNCHANGED <<grants, rowLock, issue, revoking, req, effects, wrong>>

IssueStep(id) ==
    \/ \E superseding \in BOOLEAN : IssueUpdate(id, superseding)
    \/ \E limit \in UseLimits : IssueCommit(id, limit)
    \/ IssueFails(id)

RequestStep(r) ==
    \/ \E g \in Grants, right \in BOOLEAN : Begin(r, g, right)
    \/ ResolveLock(r) \/ WrongSecret(r)
    \/ \E covered \in BOOLEAN : RightSecret(r, covered)
    \/ Call(r) \/ Consume(r) \/ HandlerCommits(r) \/ RequestFails(r)

Next ==
    \/ \E g \in Grants : IssueStep(g) \/ RevokeRead(g) \/ RevokeWrite(g)
    \/ \E r \in Requests : RequestStep(r)
    \/ PurgeCapabilityGrants \/ Tick

Spec == Init /\ [][Next]_vars

-----------------------------------------------------------------------------
(* Properties                                                              *)

\* Every variable has its type; a row is locked by the transactions that are
\* about to write it, one at a time.
TypeOK ==
    /\ clock \in Times
    /\ grants \in [Grants -> Row \cup {None}]
    /\ rowLock \in [Grants -> Grants \cup Requests \cup {None}]
    /\ issue \in [Grants -> Issue]
    /\ revoking \in SUBSET Grants
    /\ req \in [Requests -> Request]
    /\ effects \in [Grants -> Nat]
    /\ wrong \in [Grants -> Nat]
    /\ \A r \in Requests :
          req[r].phase \in {"comparing", "counted"} <=>
              \E g \in Grants : rowLock[g] = r /\ req[r].grant = g
    /\ \A id \in Grants :
          issue[id].phase = "updated" =>
              \A g \in issue[id].matched : rowLock[g] = id

\* A use is counted in the handler's transaction, so that "a failing handler
\* never burns a use" and a single-use grant is never replayed: uses is the
\* number of committed handlers, never above max_uses, and consumed_at is set
\* with the last one, whatever fails or dies in between.
UsesAreEffects ==
    \A g \in Issued :
        /\ grants[g].uses = effects[g]
        /\ grants[g].maxUses # Unlimited =>
              /\ effects[g] <= grants[g].maxUses
              /\ grants[g].consumed # None <=> effects[g] = grants[g].maxUses

\* "a grant revoked or consumed between resolution and execution still
\* refuses": once a revoke, a superseding issue or a last use is committed,
\* nothing is done with the grant any more, by no call however far it had got,
\* and the grant does not come back.
EndedStaysEnded ==
    [][\A g \in Issued :
          Status(grants[g], 0) \in {"revoked", "consumed"} =>
              /\ effects'[g] = effects[g]
              /\ grants'[g] # None =>
                    Status(grants'[g], 0) \in {"revoked", "consumed"}]_vars

\* Concurrent guesses are counted one by one: failed_attempts is the number of
\* wrong secrets compared since the window was opened, and a grant that has had
\* maxFailedAttempts of them is locked.
EveryGuessCounts ==
    \A g \in Issued :
        /\ grants[g].failed = wrong[g]
        /\ wrong[g] >= MaxFailed <=> grants[g].lockedUntil # None

\* "supersede: same-subject-and-recipient revokes [...] every still-active
\* grant": of the grants issued that way, one is active.
SupersedeRetires ==
    \A g, h \in Issued :
        /\ grants[g].superseding /\ grants[h].superseding
        /\ Status(grants[g], clock) = "active"
        /\ Status(grants[h], clock) = "active"
        => g = h
===============================================================================
