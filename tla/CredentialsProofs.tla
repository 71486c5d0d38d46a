--------------------------- MODULE CredentialsProofs ---------------------------
(***************************************************************************)
(* What the credentials of an installation promise, for any grants, keys,  *)
(* callers, limits and times.                                              *)
(*                                                                         *)
(* Capability grants: a grant is used as often as its handler took effect, *)
(* and every guess is counted. The inductive invariant says what the lock  *)
(* of a row stands for: the request that compares a secret still sees the  *)
(* row, the one that counted a use may still use it, and an issue still    *)
(* finds what it supersedes.                                               *)
(*                                                                         *)
(* API keys: the row and the client of an integration stay in step, with   *)
(* what each request and each reconciliation run has left to do.           *)
(*                                                                         *)
(* Connector tokens: what is stored is the newest the provider issued,     *)
(* whoever refreshed it, and a retired sealing key protects nothing.       *)
(***************************************************************************)
EXTENDS MCCredentials, TLAPS

Types ==
    /\ clock \in Times
    /\ grants \in [Grants -> Row \cup {None}]
    /\ rowLock \in [Grants -> Grants \cup Requests \cup {None}]
    /\ issue \in [Grants -> Issue]
    /\ revoking \in SUBSET Grants
    /\ req \in [Requests -> Request]
    /\ effects \in [Grants -> Nat]
    /\ wrong \in [Grants -> Nat]

\* Nothing is done with a grant before it is issued
Fresh(g) ==
    issue[g].phase # "over" => grants[g] = None /\ effects[g] = 0 /\ wrong[g] = 0

\* Who holds the lock of a row
Locked(g) ==
    /\ rowLock[g] \in Requests =>
          /\ req[rowLock[g]].grant = g
          /\ req[rowLock[g]].phase \in {"comparing", "counted"}
    /\ rowLock[g] \in Grants =>
          /\ issue[rowLock[g]].phase = "updated"
          /\ g \in issue[rowLock[g]].matched

\* What a row counts
Counts(row, e, w) ==
    /\ row.uses = e
    /\ row.maxUses # Unlimited =>
          /\ e <= row.maxUses
          /\ row.consumed # None <=> e = row.maxUses
    /\ row.failed = w
    /\ w >= MaxFailed <=> row.lockedUntil # None

Counted(g) == grants[g] # None => Counts(grants[g], effects[g], wrong[g])

\* What a request may rely on
Holds(r) ==
    /\ req[r].phase # "idle" => req[r].grant \in Grants
    /\ req[r].phase \in {"comparing", "counted"} =>
          rowLock[req[r].grant] = r /\ grants[req[r].grant] # None
    /\ req[r].phase = "comparing" => req[r].seen = grants[req[r].grant]
    /\ req[r].phase = "counted" => Consumable(grants[req[r].grant], req[r].now)

\* What an issue may rely on
Supersedes(id) ==
    issue[id].phase = "updated" =>
        \A g \in issue[id].matched : rowLock[g] = id /\ grants[g] # None

IInv ==
    /\ Types
    /\ \A g \in Grants : Fresh(g)
    /\ \A g \in Grants : Locked(g)
    /\ \A g \in Grants : Counted(g)
    /\ \A r \in Requests : Holds(r)
    /\ \A id \in Grants : Supersedes(id)

-----------------------------------------------------------------------------
(* Lemmas                                                                  *)

\* A request at rest is a request.
LEMMA IdleFacts ==
    ASSUME Types
    PROVE  Idle \in Request /\ Idle.phase = "idle"
  <1>1. 0 \in Times BY GrantsAssumption DEF Times
  <1> QED BY <1>1 DEF Idle, Request

\* A step that touches only one request, and no lock, keeps the invariant.
LEMMA RequestStepKeeps ==
    ASSUME IInv, NEW r \in Requests, NEW q \in Request, req' = [req EXCEPT ![r] = q],
           UNCHANGED <<clock, grants, rowLock, issue, revoking, effects, wrong>>,
           req[r].phase \notin {"comparing", "counted"},
           q.phase \notin {"comparing", "counted"}, q.phase # "idle" => q.grant \in Grants
    PROVE  IInv'
  <1>1. Types' BY DEF IInv, Types
  <1>2. req'[r] = q /\ \A s \in Requests : s # r => req'[s] = req[s] BY DEF IInv, Types
  <1>3. ASSUME NEW g \in Grants PROVE Locked(g)'
    <2>1. Locked(g) BY DEF IInv
    <2>2. rowLock[g] # r BY <2>1 DEF Locked
    <2> QED BY <1>2, <2>1, <2>2 DEF Locked
  <1>4. ASSUME NEW s \in Requests PROVE Holds(s)'
    <2>1. CASE s = r BY <1>2, <2>1 DEF Holds
    <2>2. CASE s # r
      <3>1. Holds(s) BY DEF IInv
      <3> QED BY <1>2, <2>2, <3>1 DEF Holds
    <2> QED BY <2>1, <2>2
  <1>5. \A g \in Grants : Fresh(g)' /\ Counted(g)' BY DEF IInv, Fresh, Counted
  <1>6. \A id \in Grants : Supersedes(id)' BY DEF IInv, Supersedes
  <1> QED BY <1>1, <1>3, <1>4, <1>5, <1>6 DEF IInv

\* A request that locks a free row and may rely on it.
LEMMA LockKeeps ==
    ASSUME IInv, NEW r \in Requests, NEW q \in Request, NEW g \in Grants,
           req' = [req EXCEPT ![r] = q], rowLock' = [rowLock EXCEPT ![g] = r],
           UNCHANGED <<clock, grants, issue, revoking, effects, wrong>>,
           req[r].phase \notin {"comparing", "counted"}, rowLock[g] = None,
           grants[g] # None, q.grant = g,
           \/ q.phase = "comparing" /\ q.seen = grants[g]
           \/ q.phase = "counted" /\ Consumable(grants[g], q.now)
    PROVE  IInv'
  <1>1. Types' BY DEF IInv, Types
  <1>2. req'[r] = q /\ \A s \in Requests : s # r => req'[s] = req[s] BY DEF IInv, Types
  <1>3. rowLock'[g] = r /\ \A h \in Grants : h # g => rowLock'[h] = rowLock[h]
    BY DEF IInv, Types
  <1>4. r # None /\ r \notin Grants BY GrantsAssumption
  <1>5. ASSUME NEW h \in Grants PROVE Locked(h)'
    <2>1. Locked(h) BY DEF IInv
    <2>2. CASE h = g BY <1>2, <1>3, <1>4, <2>2 DEF Locked
    <2>3. CASE h # g
      <3>1. rowLock[h] # r BY <2>1 DEF Locked
      <3> QED BY <1>2, <1>3, <2>1, <2>3, <3>1 DEF Locked
    <2> QED BY <2>2, <2>3
  <1>6. ASSUME NEW s \in Requests PROVE Holds(s)'
    <2>1. CASE s = r BY <1>2, <1>3, <2>1 DEF Holds, Consumable
    <2>2. CASE s # r
      <3>1. Holds(s) BY DEF IInv
      <3>2. req[s].phase \in {"comparing", "counted"} => req[s].grant # g
        BY <3>1, GrantsAssumption DEF Holds
      <3> QED BY <1>2, <1>3, <2>2, <3>1, <3>2 DEF Holds, Consumable
    <2> QED BY <2>1, <2>2
  <1>7. \A h \in Grants : Fresh(h)' /\ Counted(h)' BY DEF IInv, Fresh, Counted
  <1>8. ASSUME NEW id \in Grants PROVE Supersedes(id)'
    <2>1. Supersedes(id) BY DEF IInv
    <2>2. issue[id].phase = "updated" => g \notin issue[id].matched
      BY <2>1, GrantsAssumption DEF Supersedes
    <2>3. issue[id].matched \subseteq Grants BY DEF IInv, Types, Issue
    <2> QED BY <1>3, <2>1, <2>2, <2>3 DEF Supersedes
  <1> QED BY <1>1, <1>5, <1>6, <1>7, <1>8 DEF IInv

\* A request that writes the row it holds, which still counts right, and lets go
\* of it.
LEMMA WriteKeeps ==
    ASSUME IInv, NEW r \in Requests, NEW q \in Request, NEW g \in Grants, NEW row \in Row,
           NEW e \in Nat, NEW w \in Nat,
           req[r].phase \in {"comparing", "counted"}, req[r].grant = g,
           req' = [req EXCEPT ![r] = q], rowLock' = [rowLock EXCEPT ![g] = None],
           grants' = [grants EXCEPT ![g] = row],
           effects' = [effects EXCEPT ![g] = e], wrong' = [wrong EXCEPT ![g] = w],
           UNCHANGED <<clock, issue, revoking>>,
           q.phase \notin {"comparing", "counted"}, q.phase # "idle" => q.grant \in Grants,
           Counts(row, e, w)
    PROVE  IInv'
  <1>1. Types' BY DEF IInv, Types
  <1>2. req'[r] = q /\ \A s \in Requests : s # r => req'[s] = req[s] BY DEF IInv, Types
  <1>3. /\ rowLock'[g] = None /\ grants'[g] = row /\ effects'[g] = e /\ wrong'[g] = w
        /\ \A h \in Grants : h # g => /\ rowLock'[h] = rowLock[h] /\ grants'[h] = grants[h]
                                      /\ effects'[h] = effects[h] /\ wrong'[h] = wrong[h]
    BY DEF IInv, Types
  <1>4. rowLock[g] = r /\ grants[g] # None BY DEF IInv, Holds
  <1>5. row # None /\ r # None /\ None \notin Grants \cup Requests /\ r \notin Grants
    BY GrantsAssumption
  <1>6. ASSUME NEW h \in Grants PROVE Locked(h)'
    <2>1. Locked(h) BY DEF IInv
    <2>2. CASE h = g BY <1>3, <1>5, <2>2 DEF Locked
    <2>3. CASE h # g
      <3>1. rowLock[h] # r BY <2>1, <2>3 DEF Locked
      <3> QED BY <1>2, <1>3, <2>1, <2>3, <3>1 DEF Locked
    <2> QED BY <2>2, <2>3
  <1>7. ASSUME NEW s \in Requests PROVE Holds(s)'
    <2>1. CASE s = r BY <1>2, <2>1 DEF Holds
    <2>2. CASE s # r
      <3>1. Holds(s) BY DEF IInv
      <3>2. req[s].phase \in {"comparing", "counted"} => req[s].grant # g
        BY <1>4, <2>2, <3>1 DEF Holds
      <3> QED BY <1>2, <1>3, <2>2, <3>1, <3>2 DEF Holds, Consumable
    <2> QED BY <2>1, <2>2
  <1>8. ASSUME NEW h \in Grants PROVE Fresh(h)' /\ Counted(h)'
    <2>1. Fresh(h) /\ Counted(h) BY DEF IInv
    <2>2. CASE h = g BY <1>3, <1>4, <2>1, <2>2 DEF Fresh, Counted
    <2>3. CASE h # g BY <1>3, <2>1, <2>3 DEF Fresh, Counted
    <2> QED BY <2>2, <2>3
  <1>9. ASSUME NEW id \in Grants PROVE Supersedes(id)'
    <2>1. Supersedes(id) BY DEF IInv
    <2>2. issue[id].phase = "updated" => g \notin issue[id].matched
      BY <1>4, <1>5, <2>1 DEF Supersedes
    <2>3. issue[id].matched \subseteq Grants BY DEF IInv, Types, Issue
    <2> QED BY <1>3, <2>1, <2>2, <2>3 DEF Supersedes
  <1> QED BY <1>1, <1>6, <1>7, <1>8, <1>9 DEF IInv

-----------------------------------------------------------------------------
(* The steps of a request                                                  *)

\* A call that arrives keeps the invariant.
LEMMA BeginKeeps ==
    ASSUME IInv, NEW r \in Requests, NEW g \in Grants, NEW right \in BOOLEAN,
           Begin(r, g, right)
    PROVE  IInv'
  <1> DEFINE q == [phase |-> "begun", grant |-> g, now |-> clock, right |-> right,
                   seen |-> None]
  <1>1. q \in Request /\ q.phase = "begun" /\ q.grant = g BY DEF IInv, Types, Request
  <1>2. /\ req[r].phase = "idle" /\ req' = [req EXCEPT ![r] = q]
        /\ UNCHANGED <<clock, grants, rowLock, issue, revoking, effects, wrong>>
    BY DEF Begin
  <1> HIDE DEF q
  <1> QED BY <1>1, <1>2, RequestStepKeeps

\* A resolved call that gets to its transaction keeps the invariant.
LEMMA CallKeeps ==
    ASSUME IInv, NEW r \in Requests, Call(r)
    PROVE  IInv'
  <1> DEFINE q == [req[r] EXCEPT !.phase = "called", !.now = clock]
  <1>1. req[r] \in Request /\ req[r].phase = "resolved" /\ clock \in Times
    BY DEF IInv, Types, Call
  <1>2. q \in Request /\ q.phase = "called" /\ q.grant = req[r].grant
    BY <1>1 DEF Request
  <1>3. req[r].grant \in Grants BY <1>1 DEF IInv, Holds
  <1>4. /\ req' = [req EXCEPT ![r] = q]
        /\ UNCHANGED <<clock, grants, rowLock, issue, revoking, effects, wrong>>
    BY DEF Call
  <1> HIDE DEF q
  <1> QED BY <1>1, <1>2, <1>3, <1>4, RequestStepKeeps

\* The select for update keeps the invariant, refused or not.
LEMMA ResolveLockKeeps ==
    ASSUME IInv, NEW r \in Requests, ResolveLock(r)
    PROVE  IInv'
  <1> DEFINE g == req[r].grant
             refused == \/ grants[g] = None
                        \/ /\ grants[g] # None
                           /\ grants[g].lockedUntil # None
                           /\ grants[g].lockedUntil > req[r].now
             q == [req[r] EXCEPT !.phase = "comparing", !.seen = grants[g]]
  <1>1. req[r] \in Request /\ req[r].phase = "begun" BY DEF IInv, Types, ResolveLock
  <1>2. g \in Grants BY <1>1 DEF IInv, Holds
  <1>3. grants[g] \in Row \cup {None} BY <1>2 DEF IInv, Types
  <1>4. CASE refused
    <2>1. /\ req' = [req EXCEPT ![r] = Idle]
          /\ UNCHANGED <<clock, grants, rowLock, issue, revoking, effects, wrong>>
      BY <1>4 DEF ResolveLock
    <2>2. Idle \in Request /\ Idle.phase = "idle" BY IdleFacts DEF IInv
    <2> QED BY <1>1, <2>1, <2>2, RequestStepKeeps
  <1>5. CASE ~refused
    <2>1. /\ req' = [req EXCEPT ![r] = q] /\ rowLock' = [rowLock EXCEPT ![g] = r]
          /\ UNCHANGED <<clock, grants, issue, revoking, effects, wrong>>
          /\ rowLock[g] = None
      BY <1>5 DEF ResolveLock, Unlocked
    <2>2. /\ q \in Request /\ q.phase = "comparing" /\ q.grant = g
          /\ q.seen = grants[g]
      BY <1>1, <1>3 DEF Request
    <2>3. grants[g] # None BY <1>5
    <2> HIDE DEF q, g
    <2> QED BY <1>1, <1>2, <2>1, <2>2, <2>3, LockKeeps
  <1> QED BY <1>4, <1>5

\* The counting update keeps the invariant, whether it matches the row or not.
LEMMA ConsumeKeeps ==
    ASSUME IInv, NEW r \in Requests, Consume(r)
    PROVE  IInv'
  <1> DEFINE g == req[r].grant
             counts == grants[g] # None /\ Consumable(grants[g], req[r].now)
             q == [req[r] EXCEPT !.phase = "counted"]
  <1>1. req[r] \in Request /\ req[r].phase = "called" BY DEF IInv, Types, Consume
  <1>2. g \in Grants BY <1>1 DEF IInv, Holds
  <1>3. CASE ~counts
    <2>1. /\ req' = [req EXCEPT ![r] = Idle]
          /\ UNCHANGED <<clock, grants, rowLock, issue, revoking, effects, wrong>>
      BY <1>3 DEF Consume
    <2>2. Idle \in Request /\ Idle.phase = "idle" BY IdleFacts DEF IInv
    <2> QED BY <1>1, <2>1, <2>2, RequestStepKeeps
  <1>4. CASE counts
    <2>1. /\ req' = [req EXCEPT ![r] = q] /\ rowLock' = [rowLock EXCEPT ![g] = r]
          /\ UNCHANGED <<clock, grants, issue, revoking, effects, wrong>>
          /\ rowLock[g] = None
      BY <1>4 DEF Consume
    <2>2. /\ q \in Request /\ q.phase = "counted" /\ q.grant = g
          /\ q.now = req[r].now
      BY <1>1 DEF Request
    <2>3. grants[g] # None /\ Consumable(grants[g], q.now) BY <1>4, <2>2
    <2> HIDE DEF q, g
    <2> QED BY <1>1, <1>2, <2>1, <2>2, <2>3, LockKeeps
  <1> QED BY <1>3, <1>4

\* What recordFailedAttempt writes counts one more guess.
LEMMA FailedCounts ==
    ASSUME NEW row \in Row, NEW now \in Times, NEW e \in Nat, NEW w \in Nat,
           Counts(row, e, w)
    PROVE  /\ Failed(row, row, now) \in Row
           /\ Counts(Failed(row, row, now), e,
                     IF InWindow(row, now) THEN w + 1 ELSE 1)
  <1> DEFINE attempts == IF InWindow(row, now) THEN row.failed + 1 ELSE 1
             start == IF InWindow(row, now) THEN row.windowStart ELSE now
             until == IF attempts >= MaxFailed THEN now + LockTime ELSE None
             k == Failed(row, row, now)
  <1>1. attempts \in Nat /\ start \in Times \cup {None} /\ now \in Nat
    BY GrantsAssumption DEF Row, Times
  <1>2. until \in Nat \cup {None} /\ (attempts >= MaxFailed <=> until # None)
    BY <1>1, GrantsAssumption
  <1>3. attempts = IF InWindow(row, now) THEN w + 1 ELSE 1 BY DEF Counts
  <1> HIDE DEF attempts, start, until
  <1>4. k = [row EXCEPT !.failed = attempts, !.windowStart = start,
                        !.lockedUntil = until]
    BY DEF Failed, attempts, start, until
  <1> HIDE DEF k
  <1>5. /\ k \in Row /\ k.failed = attempts /\ k.lockedUntil = until
        /\ k.uses = row.uses /\ k.maxUses = row.maxUses /\ k.consumed = row.consumed
    BY <1>1, <1>2, <1>4 DEF Row
  <1>6. Counts(k, e, attempts) BY <1>2, <1>5 DEF Counts
  <1> QED BY <1>3, <1>5, <1>6 DEF k

\* A wrong secret keeps the invariant.
LEMMA WrongSecretKeeps ==
    ASSUME IInv, NEW r \in Requests, WrongSecret(r)
    PROVE  IInv'
  <1> DEFINE g == req[r].grant
             now == req[r].now
             row == Failed(grants[g], grants[g], now)
             w == IF InWindow(grants[g], now) THEN wrong[g] + 1 ELSE 1
  <1>1. req[r] \in Request /\ req[r].phase = "comparing" BY DEF IInv, Types, WrongSecret
  <1>2. g \in Grants /\ grants[g] # None /\ req[r].seen = grants[g]
    BY <1>1 DEF IInv, Holds
  <1>3. /\ grants[g] \in Row /\ now \in Times /\ effects[g] \in Nat /\ wrong[g] \in Nat
        /\ effects = [effects EXCEPT ![g] = effects[g]]
    BY <1>1, <1>2 DEF IInv, Types, Request
  <1>4. Counts(grants[g], effects[g], wrong[g]) BY <1>2 DEF IInv, Counted
  <1>5. row \in Row /\ Counts(row, effects[g], w) BY <1>3, <1>4, FailedCounts
  <1>6. w \in Nat BY <1>3
  <1>7. /\ req' = [req EXCEPT ![r] = Idle] /\ rowLock' = [rowLock EXCEPT ![g] = None]
        /\ UNCHANGED <<clock, issue, revoking, effects>>
    BY DEF WrongSecret
  <1>8. grants' = [grants EXCEPT ![g] = row] /\ wrong' = [wrong EXCEPT ![g] = w]
    BY <1>2 DEF WrongSecret
  <1>9. Idle \in Request /\ Idle.phase = "idle" BY IdleFacts DEF IInv
  <1>10. effects' = [effects EXCEPT ![g] = effects[g]] BY <1>3, <1>7
  <1>11. g = req[r].grant OBVIOUS
  <1> HIDE DEF g, row, w
  <1> QED BY <1>1, <1>2, <1>3, <1>5, <1>6, <1>7, <1>8, <1>9, <1>10, <1>11, WriteKeeps

\* A right secret keeps the invariant.
LEMMA RightSecretKeeps ==
    ASSUME IInv, NEW r \in Requests, NEW covered \in BOOLEAN, RightSecret(r, covered)
    PROVE  IInv'
  <1> DEFINE g == req[r].grant
             on == Status(req[r].seen, req[r].now) = "active" /\ covered
             row == [grants[g] EXCEPT !.failed = 0, !.windowStart = None,
                                      !.lockedUntil = None]
             q == IF on THEN [req[r] EXCEPT !.phase = "resolved", !.seen = None]
                  ELSE Idle
  <1>1. req[r] \in Request /\ req[r].phase = "comparing" BY DEF IInv, Types, RightSecret
  <1>2. g \in Grants /\ grants[g] # None BY <1>1 DEF IInv, Holds
  <1>3. /\ grants[g] \in Row /\ effects[g] \in Nat /\ wrong[g] \in Nat
        /\ effects = [effects EXCEPT ![g] = effects[g]]
    BY <1>1, <1>2 DEF IInv, Types
  <1>4. Counts(grants[g], effects[g], wrong[g]) BY <1>2 DEF IInv, Counted
  <1>5. /\ row \in Row /\ row.failed = 0 /\ row.lockedUntil = None
        /\ row.uses = grants[g].uses /\ row.maxUses = grants[g].maxUses
        /\ row.consumed = grants[g].consumed
    BY <1>3 DEF Row
  <1>6. Counts(row, effects[g], 0)
    <2> HIDE DEF row
    <2> QED BY <1>4, <1>5, GrantsAssumption DEF Counts
  <1>7. Idle \in Request /\ Idle.phase = "idle" BY IdleFacts DEF IInv
  <1>8. /\ q \in Request /\ q.phase \notin {"comparing", "counted"}
        /\ q.phase # "idle" => q.grant \in Grants
    <2>1. CASE on
      <3>1. q = [req[r] EXCEPT !.phase = "resolved", !.seen = None] BY <2>1
      <3> QED BY <1>1, <1>2, <3>1 DEF Request
    <2>2. CASE ~on BY <1>7, <2>2
    <2> QED BY <2>1, <2>2
  <1>9. /\ req' = [req EXCEPT ![r] = q] /\ rowLock' = [rowLock EXCEPT ![g] = None]
        /\ grants' = [grants EXCEPT ![g] = row] /\ wrong' = [wrong EXCEPT ![g] = 0]
        /\ UNCHANGED <<clock, issue, revoking, effects>>
    BY DEF RightSecret
  <1>10. effects' = [effects EXCEPT ![g] = effects[g]] BY <1>3, <1>9
  <1>11. g = req[r].grant /\ 0 \in Nat OBVIOUS
  <1> HIDE DEF g, row, q
  <1> QED BY <1>1, <1>2, <1>3, <1>5, <1>6, <1>8, <1>9, <1>10, <1>11, WriteKeeps

\* What the counting update writes counts one more use.
LEMMA UsedCounts ==
    ASSUME NEW row \in Row, NEW now \in Times, NEW e \in Nat, NEW w \in Nat,
           Counts(row, e, w), Consumable(row, now)
    PROVE  Used(row, now) \in Row /\ Counts(Used(row, now), e + 1, w)
  <1> DEFINE last == row.maxUses # Unlimited /\ row.uses + 1 >= row.maxUses
             at == IF last THEN now ELSE row.consumed
             k == Used(row, now)
  <1>1. at \in Times \cup {None} /\ row.uses + 1 \in Nat BY DEF Row
  <1>2. k = [row EXCEPT !.uses = row.uses + 1, !.consumed = at] BY DEF Used
  <1>3. row.consumed = None /\ now # None
    BY GrantsAssumption DEF Consumable, Times
  <1>4. at # None <=> last BY <1>3
  <1>5. row.maxUses # Unlimited => row.maxUses \in Nat /\ row.uses < row.maxUses
    BY GrantsAssumption DEF Row, Consumable
  <1> HIDE DEF k, at
  <1>6. /\ k \in Row /\ k.uses = row.uses + 1 /\ k.consumed = at
        /\ k.maxUses = row.maxUses /\ k.failed = row.failed
        /\ k.lockedUntil = row.lockedUntil
    BY <1>1, <1>2 DEF Row
  <1>7. row.uses = e BY DEF Counts
  <1>8. row.maxUses # Unlimited => /\ e + 1 <= row.maxUses
                                   /\ at # None <=> e + 1 = row.maxUses
    BY <1>4, <1>5, <1>7
  <1>9. Counts(k, e + 1, w) BY <1>6, <1>7, <1>8 DEF Counts
  <1> QED BY <1>6, <1>9 DEF k

\* A handler that commits keeps the invariant.
LEMMA HandlerCommitsKeeps ==
    ASSUME IInv, NEW r \in Requests, HandlerCommits(r)
    PROVE  IInv'
  <1> DEFINE g == req[r].grant
             now == req[r].now
             row == Used(grants[g], now)
             e == effects[g] + 1
  <1>1. req[r] \in Request /\ req[r].phase = "counted" BY DEF IInv, Types, HandlerCommits
  <1>2. g \in Grants /\ grants[g] # None /\ Consumable(grants[g], now)
    BY <1>1 DEF IInv, Holds
  <1>3. /\ grants[g] \in Row /\ now \in Times /\ effects[g] \in Nat /\ wrong[g] \in Nat
        /\ wrong = [wrong EXCEPT ![g] = wrong[g]] /\ e \in Nat
    BY <1>1, <1>2 DEF IInv, Types, Request
  <1>4. Counts(grants[g], effects[g], wrong[g]) BY <1>2 DEF IInv, Counted
  <1>5. row \in Row /\ Counts(row, e, wrong[g]) BY <1>2, <1>3, <1>4, UsedCounts
  <1>6. /\ req' = [req EXCEPT ![r] = Idle] /\ rowLock' = [rowLock EXCEPT ![g] = None]
        /\ grants' = [grants EXCEPT ![g] = row] /\ effects' = [effects EXCEPT ![g] = e]
        /\ UNCHANGED <<clock, issue, revoking, wrong>>
    BY DEF HandlerCommits
  <1>7. Idle \in Request /\ Idle.phase = "idle" BY IdleFacts DEF IInv
  <1>8. wrong' = [wrong EXCEPT ![g] = wrong[g]] BY <1>3, <1>6
  <1>9. g = req[r].grant OBVIOUS
  <1> HIDE DEF g, row, e
  <1> QED BY <1>1, <1>2, <1>3, <1>5, <1>6, <1>7, <1>8, <1>9, WriteKeeps

\* A request that fails lets go of its locks and keeps the invariant.
LEMMA RequestFailsKeeps ==
    ASSUME IInv, NEW r \in Requests, RequestFails(r)
    PROVE  IInv'
  <1>1. Idle \in Request /\ Idle.phase = "idle" BY IdleFacts DEF IInv
  <1>2. /\ req' = [req EXCEPT ![r] = Idle] /\ rowLock' = Release(rowLock, r)
        /\ UNCHANGED <<clock, grants, issue, revoking, effects, wrong>>
    BY DEF RequestFails
  <1>3. Types' BY <1>1, <1>2 DEF IInv, Types, Release
  <1>4. req'[r] = Idle /\ \A s \in Requests : s # r => req'[s] = req[s]
    BY <1>2 DEF IInv, Types
  <1>5. \A g \in Grants : rowLock'[g] = IF rowLock[g] = r THEN None ELSE rowLock[g]
    BY <1>2 DEF Release
  <1>6. r # None /\ r \notin Grants /\ None \notin Grants \cup Requests
    BY GrantsAssumption
  <1>7. ASSUME NEW g \in Grants PROVE Locked(g)'
    <2>1. Locked(g) BY DEF IInv
    <2> QED BY <1>2, <1>4, <1>5, <1>6, <2>1 DEF Locked
  <1>8. ASSUME NEW s \in Requests PROVE Holds(s)'
    <2>1. CASE s = r BY <1>1, <1>4, <2>1 DEF Holds
    <2>2. CASE s # r
      <3>1. Holds(s) BY DEF IInv
      <3> QED BY <1>2, <1>4, <1>5, <2>2, <3>1 DEF Holds, Consumable
    <2> QED BY <2>1, <2>2
  <1>9. \A g \in Grants : Fresh(g)' /\ Counted(g)' BY <1>2 DEF IInv, Fresh, Counted
  <1>10. ASSUME NEW id \in Grants PROVE Supersedes(id)'
    <2>1. Supersedes(id) /\ id # r BY <1>6 DEF IInv
    <2>2. issue[id].matched \subseteq Grants BY DEF IInv, Types, Issue
    <2> QED BY <1>2, <1>5, <2>1, <2>2 DEF Supersedes
  <1> QED BY <1>3, <1>7, <1>8, <1>9, <1>10 DEF IInv

\* Every step of a request keeps the invariant.
LEMMA RequestKeeps ==
    ASSUME IInv, NEW r \in Requests, RequestStep(r)
    PROVE  IInv'
  BY BeginKeeps, ResolveLockKeeps, WrongSecretKeeps, RightSecretKeeps, CallKeeps,
     ConsumeKeeps, HandlerCommitsKeeps, RequestFailsKeeps DEF RequestStep

-----------------------------------------------------------------------------
(* Issuing, revoking, purging and time                                     *)

\* The superseding update keeps the invariant: it locks rows that are free.
LEMMA IssueUpdateKeeps ==
    ASSUME IInv, NEW id \in Grants, NEW superseding \in BOOLEAN,
           IssueUpdate(id, superseding)
    PROVE  IInv'
  <1> DEFINE matched == IF superseding
                        THEN {g \in Issued : Supersedable(g, clock)} ELSE {}
             t == [phase |-> "updated", now |-> clock,
                   superseding |-> superseding, matched |-> matched]
  <1>1. matched \in SUBSET Grants /\ \A g \in matched : grants[g] # None BY DEF Issued
  <1>2. /\ issue[id].phase = "new" /\ \A g \in matched : rowLock[g] = None
        /\ issue' = [issue EXCEPT ![id] = t]
        /\ rowLock' = [g \in Grants |-> IF g \in matched THEN id ELSE rowLock[g]]
        /\ UNCHANGED <<clock, grants, revoking, req, effects, wrong>>
    BY DEF IssueUpdate
  <1> HIDE DEF matched
  <1>3. t \in Issue /\ t.phase = "updated" /\ t.matched = matched
    BY <1>1 DEF IInv, Types, Issue
  <1> HIDE DEF t
  <1>4. Types' BY <1>2, <1>3 DEF IInv, Types
  <1>5. issue'[id] = t /\ \A h \in Grants : h # id => issue'[h] = issue[h]
    BY <1>2 DEF IInv, Types
  <1>6. \A g \in Grants : rowLock'[g] = IF g \in matched THEN id ELSE rowLock[g]
    BY <1>2
  <1>7. id # None /\ id \notin Requests /\ None \notin Grants \cup Requests
    BY GrantsAssumption
  <1>8. ASSUME NEW g \in Grants PROVE Locked(g)'
    <2>1. Locked(g) BY DEF IInv
    <2>2. CASE g \in matched BY <1>3, <1>5, <1>6, <1>7, <2>2 DEF Locked
    <2>3. CASE g \notin matched
      <3>1. rowLock[g] # id BY <1>2, <2>1 DEF Locked
      <3> QED BY <1>2, <1>5, <1>6, <2>1, <2>3, <3>1 DEF Locked
    <2> QED BY <2>2, <2>3
  <1>9. ASSUME NEW s \in Requests PROVE Holds(s)'
    <2>1. Holds(s) BY DEF IInv
    <2>2. req[s].phase \in {"comparing", "counted"} => req[s].grant \notin matched
      BY <1>2, <1>7, <2>1 DEF Holds
    <2> QED BY <1>2, <1>6, <2>1, <2>2 DEF Holds, Consumable
  <1>10. ASSUME NEW g \in Grants PROVE Fresh(g)' /\ Counted(g)'
    <2>1. Fresh(g) /\ Counted(g) BY DEF IInv
    <2> QED BY <1>2, <1>3, <1>5, <2>1 DEF Fresh, Counted
  <1>11. ASSUME NEW h \in Grants PROVE Supersedes(h)'
    <2>1. CASE h = id BY <1>1, <1>2, <1>3, <1>5, <1>6, <2>1 DEF Supersedes
    <2>2. CASE h # id
      <3>1. Supersedes(h) BY DEF IInv
      <3>2. issue[h].matched \subseteq Grants BY DEF IInv, Types, Issue
      <3> QED BY <1>2, <1>5, <1>6, <1>7, <2>2, <3>1, <3>2 DEF Supersedes
    <2> QED BY <2>1, <2>2
  <1> QED BY <1>4, <1>8, <1>9, <1>10, <1>11 DEF IInv

\* An issue that ends lets go of its rows, and the issues that go on keep theirs.
LEMMA IssueEnds ==
    ASSUME IInv, NEW id \in Grants, issue[id].phase = "updated",
           rowLock' = Release(rowLock, id),
           issue' = [issue EXCEPT ![id].phase = "over"], UNCHANGED req
    PROVE  /\ issue' \in [Grants -> Issue]
           /\ rowLock' \in [Grants -> Grants \cup Requests \cup {None}]
           /\ issue'[id].phase = "over"
           /\ \A h \in Grants : h # id => issue'[h] = issue[h]
           /\ \A g \in Grants :
                 rowLock'[g] = IF rowLock[g] = id THEN None ELSE rowLock[g]
           /\ \A g \in Grants : Locked(g)'
  <1> DEFINE t == [issue[id] EXCEPT !.phase = "over"]
  <1>1. issue[id] \in Issue /\ issue' = [issue EXCEPT ![id] = t] BY DEF IInv, Types
  <1>2. t \in Issue /\ t.phase = "over" BY <1>1 DEF Issue
  <1> HIDE DEF t
  <1>3. /\ issue' \in [Grants -> Issue] /\ issue'[id] = t
        /\ \A h \in Grants : h # id => issue'[h] = issue[h]
    BY <1>1, <1>2 DEF IInv, Types
  <1>4. \A g \in Grants : rowLock'[g] = IF rowLock[g] = id THEN None ELSE rowLock[g]
    BY DEF Release
  <1>5. rowLock' \in [Grants -> Grants \cup Requests \cup {None}]
    BY DEF IInv, Types, Release
  <1>6. None \notin Grants \cup Requests BY GrantsAssumption
  <1>7. ASSUME NEW g \in Grants PROVE Locked(g)'
    <2>1. Locked(g) BY DEF IInv
    <2> QED BY <1>3, <1>4, <1>6, <2>1 DEF Locked
  <1> QED BY <1>2, <1>3, <1>4, <1>5, <1>7

\* An issue that is rolled back keeps the invariant.
LEMMA IssueFailsKeeps ==
    ASSUME IInv, NEW id \in Grants, IssueFails(id)
    PROVE  IInv'
  <1>1. /\ issue[id].phase = "updated" /\ rowLock' = Release(rowLock, id)
        /\ issue' = [issue EXCEPT ![id].phase = "over"]
        /\ UNCHANGED <<clock, grants, revoking, req, effects, wrong>>
    BY DEF IssueFails
  <1>2. /\ issue' \in [Grants -> Issue]
        /\ rowLock' \in [Grants -> Grants \cup Requests \cup {None}]
        /\ issue'[id].phase = "over"
        /\ \A h \in Grants : h # id => issue'[h] = issue[h]
        /\ \A g \in Grants :
              rowLock'[g] = IF rowLock[g] = id THEN None ELSE rowLock[g]
        /\ \A g \in Grants : Locked(g)'
    BY <1>1, IssueEnds
  <1>3. Types' BY <1>1, <1>2 DEF IInv, Types
  <1>4. id # None /\ id \notin Requests BY GrantsAssumption
  <1>5. ASSUME NEW s \in Requests PROVE Holds(s)'
    <2>1. Holds(s) /\ s # id BY <1>4 DEF IInv
    <2> QED BY <1>1, <1>2, <2>1 DEF Holds, Consumable
  <1>6. ASSUME NEW g \in Grants PROVE Fresh(g)' /\ Counted(g)'
    <2>1. Fresh(g) /\ Counted(g) BY DEF IInv
    <2> QED BY <1>1, <1>2, <2>1 DEF Fresh, Counted
  <1>7. ASSUME NEW h \in Grants PROVE Supersedes(h)'
    <2>1. CASE h = id BY <1>2, <2>1 DEF Supersedes
    <2>2. CASE h # id
      <3>1. Supersedes(h) BY DEF IInv
      <3>2. issue[h].matched \subseteq Grants BY DEF IInv, Types, Issue
      <3> QED BY <1>1, <1>2, <2>2, <3>1, <3>2 DEF Supersedes
    <2> QED BY <2>1, <2>2
  <1> QED BY <1>2, <1>3, <1>5, <1>6, <1>7 DEF IInv

\* A row that is revoked stays a row that counts right.
LEMMA RevokedCounts ==
    ASSUME NEW row \in Row, NEW now \in Times, NEW e, NEW w
    PROVE  /\ [row EXCEPT !.revoked = now] \in Row
           /\ Counts(row, e, w) => Counts([row EXCEPT !.revoked = now], e, w)
  <1> DEFINE k == [row EXCEPT !.revoked = now]
  <1>1. /\ k \in Row /\ k.uses = row.uses /\ k.maxUses = row.maxUses
        /\ k.consumed = row.consumed /\ k.failed = row.failed
        /\ k.lockedUntil = row.lockedUntil
    BY DEF Row
  <1> HIDE DEF k
  <1>2. Counts(row, e, w) => Counts(k, e, w) BY <1>1 DEF Counts
  <1> QED BY <1>1, <1>2 DEF k

\* The commit of an issue keeps the invariant: its own row is new, and the rows it
\* supersedes are the ones it has locked.
LEMMA IssueCommitKeeps ==
    ASSUME IInv, NEW id \in Grants, NEW limit \in UseLimits, IssueCommit(id, limit)
    PROVE  IInv'
  <1> DEFINE t == issue[id]
             new == [expires |-> t.now + Ttl, maxUses |-> limit, uses |-> 0,
                     revoked |-> None, consumed |-> None, failed |-> 0,
                     windowStart |-> None, lockedUntil |-> None,
                     superseding |-> t.superseding]
  <1>1. /\ t.phase = "updated" /\ rowLock' = Release(rowLock, id)
        /\ issue' = [issue EXCEPT ![id].phase = "over"]
        /\ UNCHANGED <<clock, revoking, req, effects, wrong>>
    BY DEF IssueCommit
  <1>2. /\ issue' \in [Grants -> Issue]
        /\ rowLock' \in [Grants -> Grants \cup Requests \cup {None}]
        /\ issue'[id].phase = "over"
        /\ \A h \in Grants : h # id => issue'[h] = issue[h]
        /\ \A g \in Grants :
              rowLock'[g] = IF rowLock[g] = id THEN None ELSE rowLock[g]
        /\ \A g \in Grants : Locked(g)'
    BY <1>1, IssueEnds
  <1>3. t \in Issue /\ t.now \in Times /\ t.matched \subseteq Grants
    BY DEF IInv, Types, Issue
  <1>4. /\ new \in Row /\ new.uses = 0 /\ new.maxUses = limit /\ new.consumed = None
        /\ new.failed = 0 /\ new.lockedUntil = None
    <2>1. t.now + Ttl \in Nat BY <1>3, GrantsAssumption DEF Times
    <2> QED BY <1>3, <2>1 DEF Row, Issue
  <1> HIDE DEF new
  <1>5. new # None /\ Counts(new, 0, 0)
    <2>1. limit # Unlimited => limit \in Nat /\ 0 < limit BY GrantsAssumption
    <2> QED BY <1>4, <2>1, GrantsAssumption DEF Counts
  <1>6. grants[id] = None /\ effects[id] = 0 /\ wrong[id] = 0
    BY <1>1 DEF IInv, Fresh
  <1>7. \A g \in t.matched : rowLock[g] = id /\ grants[g] # None
    BY <1>1 DEF IInv, Supersedes
  <1>8. id \notin t.matched BY <1>6, <1>7
  <1>9. /\ grants' = [g \in Grants |->
               IF g = id THEN new
               ELSE IF g \in t.matched THEN [grants[g] EXCEPT !.revoked = t.now]
               ELSE grants[g]]
    BY <1>8 DEF IssueCommit, new
  <1>10. /\ grants'[id] = new
         /\ \A g \in t.matched : grants'[g] = [grants[g] EXCEPT !.revoked = t.now]
         /\ \A g \in Grants : g # id /\ g \notin t.matched => grants'[g] = grants[g]
    BY <1>3, <1>8, <1>9
  <1>11. \A g \in t.matched :
            grants[g] \in Row /\ grants'[g] \in Row /\ grants'[g] # None
    <2>1. ASSUME NEW g \in t.matched PROVE grants[g] \in Row
      BY <1>3, <1>7 DEF IInv, Types
    <2>2. ASSUME NEW g \in t.matched PROVE grants'[g] \in Row
      <3>1. grants[g] \in Row BY <2>1
      <3>2. [grants[g] EXCEPT !.revoked = t.now] \in Row BY <1>3, <3>1 DEF Row
      <3> QED BY <1>10, <3>2
    <2> QED BY <2>1, <2>2, GrantsAssumption
  <1>12. Types'
    <2>1. \A g \in Grants : grants'[g] \in Row \cup {None}
      BY <1>4, <1>10, <1>11 DEF IInv, Types
    <2>2. grants' \in [Grants -> Row \cup {None}] BY <1>9, <2>1
    <2> QED BY <1>1, <1>2, <2>2 DEF IInv, Types
  <1>13. id # None /\ id \notin Requests BY GrantsAssumption
  <1>14. ASSUME NEW s \in Requests PROVE Holds(s)'
    <2>1. Holds(s) /\ s # id BY <1>13 DEF IInv
    <2>2. req[s].phase \in {"comparing", "counted"} =>
             /\ req[s].grant \in Grants
             /\ req[s].grant # id /\ req[s].grant \notin t.matched
      BY <1>6, <1>7, <2>1 DEF Holds
    <2> QED BY <1>1, <1>2, <1>10, <2>1, <2>2 DEF Holds, Consumable
  <1>15. ASSUME NEW g \in Grants PROVE Fresh(g)' /\ Counted(g)'
    <2>1. Fresh(g) /\ Counted(g) BY DEF IInv
    <2>2. CASE g = id BY <1>1, <1>2, <1>5, <1>6, <1>10, <2>2 DEF Fresh, Counted
    <2>3. CASE g \in t.matched
      <3>1. Fresh(g)' BY <1>1, <1>2, <1>7, <1>8, <2>1, <2>3 DEF Fresh
      <3>2. Counts(grants[g], effects[g], wrong[g]) BY <1>7, <2>1, <2>3 DEF Counted
      <3>3. grants[g] \in Row /\ t.now \in Times BY <1>3, <1>11, <2>3
      <3>4. Counts([grants[g] EXCEPT !.revoked = t.now], effects[g], wrong[g])
        BY <3>2, <3>3, RevokedCounts, Zenon
      <3>5. Counts(grants'[g], effects[g], wrong[g]) BY <1>10, <2>3, <3>4, Zenon
      <3> QED BY <1>1, <3>1, <3>5 DEF Counted
    <2>4. CASE g # id /\ g \notin t.matched
      BY <1>1, <1>2, <1>10, <2>1, <2>4 DEF Fresh, Counted
    <2> QED BY <2>2, <2>3, <2>4
  <1>16. ASSUME NEW h \in Grants PROVE Supersedes(h)'
    <2>1. CASE h = id BY <1>2, <2>1 DEF Supersedes
    <2>2. CASE h # id
      <3>1. Supersedes(h) BY DEF IInv
      <3>2. issue[h].matched \subseteq Grants BY DEF IInv, Types, Issue
      <3>3. \A g \in Grants : grants[g] # None => grants'[g] # None
        BY <1>6, <1>10, <1>11
      <3> QED BY <1>2, <2>2, <3>1, <3>2, <3>3 DEF Supersedes
    <2> QED BY <2>1, <2>2
  <1> QED BY <1>2, <1>12, <1>14, <1>15, <1>16 DEF IInv

\* A step that changes one free row, or drops it, keeps what the locks stand for.
LEMMA FreeRowsKeep ==
    ASSUME IInv, NEW free \in SUBSET Grants, \A g \in free : rowLock[g] = None,
           grants' \in [Grants -> Row \cup {None}],
           \A g \in Grants : g \notin free => grants'[g] = grants[g],
           \A g \in Grants : grants[g] = None => grants'[g] = None,
           \A g \in free : grants'[g] # None =>
               Counts(grants'[g], effects[g], wrong[g]),
           revoking' \in SUBSET Grants,
           UNCHANGED <<clock, rowLock, issue, req, effects, wrong>>
    PROVE  IInv'
  <1>1. Types' BY DEF IInv, Types
  <1>2. None \notin Grants \cup Requests BY GrantsAssumption
  <1>3. \A g \in Grants : Locked(g)' BY DEF IInv, Locked
  <1>4. ASSUME NEW s \in Requests PROVE Holds(s)'
    <2>1. Holds(s) BY DEF IInv
    <2>2. req[s].phase \in {"comparing", "counted"} =>
             grants'[req[s].grant] = grants[req[s].grant]
      BY <1>2, <2>1 DEF Holds
    <2> QED BY <2>1, <2>2 DEF Holds, Consumable
  <1>5. ASSUME NEW g \in Grants PROVE Fresh(g)' /\ Counted(g)'
    <2>1. Fresh(g) /\ Counted(g) BY DEF IInv
    <2>2. CASE g \in free BY <2>1, <2>2 DEF Fresh, Counted
    <2>3. CASE g \notin free BY <2>1, <2>3 DEF Fresh, Counted
    <2> QED BY <2>2, <2>3
  <1>6. ASSUME NEW id \in Grants PROVE Supersedes(id)'
    <2>1. Supersedes(id) BY DEF IInv
    <2>2. issue[id].matched \subseteq Grants BY DEF IInv, Types, Issue
    <2>3. issue[id].phase = "updated" =>
             \A g \in issue[id].matched : grants'[g] = grants[g]
      BY <1>2, <2>1, <2>2 DEF Supersedes
    <2> QED BY <2>1, <2>2, <2>3 DEF Supersedes
  <1> QED BY <1>1, <1>3, <1>4, <1>5, <1>6 DEF IInv

\* The read and the write of a revoke keep the invariant.
LEMMA RevokeKeeps ==
    ASSUME IInv, NEW g \in Grants, RevokeRead(g) \/ RevokeWrite(g)
    PROVE  IInv'
  <1>1. Types BY DEF IInv
  <1>2. CASE RevokeRead(g)
    <2>1. /\ UNCHANGED <<clock, grants, rowLock, issue, req, effects, wrong>>
          /\ revoking' \in SUBSET Grants
      BY <1>1, <1>2 DEF RevokeRead, Types
    <2>2. grants' \in [Grants -> Row \cup {None}] BY <1>1, <2>1 DEF Types
    <2>3. {} \in SUBSET Grants OBVIOUS
    <2> QED BY <2>1, <2>2, <2>3, FreeRowsKeep
  <1>3. CASE RevokeWrite(g)
    <2>1. /\ UNCHANGED <<clock, rowLock, issue, req, effects, wrong>>
          /\ revoking' \in SUBSET Grants /\ rowLock[g] = None
      BY <1>1, <1>3 DEF RevokeWrite, Types
    <2>2. CASE grants[g] # None /\ grants[g].revoked = None
      <3> DEFINE k == [grants[g] EXCEPT !.revoked = clock]
      <3>1. grants[g] \in Row /\ clock \in Times BY <1>1, <2>2 DEF Types
      <3>2. Counts(grants[g], effects[g], wrong[g]) BY <2>2 DEF IInv, Counted
      <3>3. k \in Row /\ Counts(k, effects[g], wrong[g])
        BY <3>1, <3>2, RevokedCounts, Zenon
      <3>4. grants' = [grants EXCEPT ![g] = k] BY <1>3, <2>2 DEF RevokeWrite
      <3> HIDE DEF k
      <3>5. /\ grants' \in [Grants -> Row \cup {None}] /\ grants'[g] = k
            /\ \A h \in Grants : h \notin {g} => grants'[h] = grants[h]
        BY <1>1, <3>3, <3>4 DEF Types
      <3>6. \A h \in Grants : grants[h] = None => grants'[h] = None BY <2>2, <3>5
      <3>7. {g} \in SUBSET Grants /\ \A h \in {g} : rowLock[h] = None BY <2>1
      <3>8. \A h \in {g} : grants'[h] # None => Counts(grants'[h], effects[h], wrong[h])
        BY <3>3, <3>5
      <3> QED BY <2>1, <3>5, <3>6, <3>7, <3>8, FreeRowsKeep
    <2>3. CASE ~(grants[g] # None /\ grants[g].revoked = None)
      <3>1. grants' = grants BY <1>3, <2>3 DEF RevokeWrite
      <3>2. grants' \in [Grants -> Row \cup {None}] BY <1>1, <3>1 DEF Types
      <3>3. {} \in SUBSET Grants OBVIOUS
      <3> QED BY <2>1, <3>1, <3>2, <3>3, FreeRowsKeep
    <2> QED BY <2>2, <2>3
  <1> QED BY <1>2, <1>3

\* The purge keeps the invariant: it drops rows nobody holds.
LEMMA PurgeKeeps ==
    ASSUME IInv, PurgeCapabilityGrants
    PROVE  IInv'
  <1> DEFINE old == {g \in Issued : Purgeable(g)}
  <1>1. old \in SUBSET Grants BY DEF Issued
  <1>2. /\ \A g \in old : rowLock[g] = None
        /\ grants' = [g \in Grants |-> IF g \in old THEN None ELSE grants[g]]
        /\ UNCHANGED <<clock, rowLock, issue, revoking, req, effects, wrong>>
    BY DEF PurgeCapabilityGrants
  <1> HIDE DEF old
  <1>3. /\ grants' \in [Grants -> Row \cup {None}] /\ revoking' \in SUBSET Grants
    BY <1>2 DEF IInv, Types
  <1>4. \A g \in Grants : grants'[g] = IF g \in old THEN None ELSE grants[g] BY <1>2
  <1>5. \A g \in old : grants'[g] = None BY <1>1, <1>4
  <1> QED BY <1>1, <1>2, <1>3, <1>4, <1>5, FreeRowsKeep

\* The passing of time keeps the invariant.
LEMMA TickKeeps ==
    ASSUME IInv, Tick
    PROVE  IInv'
  <1>1. clock' \in Times BY GrantsAssumption DEF IInv, Types, Tick, Times
  <1>2. Types' BY <1>1 DEF IInv, Types, Tick
  <1>3. \A g \in Grants : Fresh(g)' /\ Locked(g)' /\ Counted(g)' /\ Supersedes(g)'
    BY DEF IInv, Tick, Fresh, Locked, Counted, Supersedes
  <1>4. \A r \in Requests : Holds(r)' BY DEF IInv, Tick, Holds
  <1> QED BY <1>2, <1>3, <1>4 DEF IInv

\* A step that changes nothing keeps the invariant.
LEMMA StutterKeeps ==
    ASSUME IInv, UNCHANGED vars
    PROVE  IInv'
  <1>1. UNCHANGED <<clock, grants, rowLock, issue, revoking, req, effects, wrong>>
    BY DEF vars
  <1>2. Types' BY <1>1 DEF IInv, Types
  <1>3. \A g \in Grants : Fresh(g)' /\ Locked(g)' /\ Counted(g)' /\ Supersedes(g)'
    BY <1>1 DEF IInv, Fresh, Locked, Counted, Supersedes
  <1>4. \A r \in Requests : Holds(r)' BY <1>1 DEF IInv, Holds
  <1> QED BY <1>2, <1>3, <1>4 DEF IInv

\* Every step keeps the invariant.
LEMMA NextKeeps ==
    ASSUME IInv, [Next]_vars
    PROVE  IInv'
  <1>1. ASSUME NEW g \in Grants, IssueStep(g) PROVE IInv'
    BY <1>1, IssueUpdateKeeps, IssueCommitKeeps, IssueFailsKeeps DEF IssueStep
  <1> QED BY <1>1, RevokeKeeps, RequestKeeps, PurgeKeeps, TickKeeps, StutterKeeps DEF Next

\* The invariant holds before anything is issued.
LEMMA InitHolds ==
    ASSUME Init
    PROVE  IInv
  <1>1. 0 \in Times /\ None \notin Grants \cup Requests
    BY GrantsAssumption DEF Times
  <1>2. Types BY <1>1 DEF Init, Types, Idle, Request, Issue
  <1>3. \A g \in Grants : Fresh(g) /\ Locked(g) /\ Counted(g) /\ Supersedes(g)
    BY <1>1 DEF Init, Fresh, Locked, Counted, Supersedes
  <1>4. \A r \in Requests : Holds(r) BY DEF Init, Holds, Idle
  <1> QED BY <1>2, <1>3, <1>4 DEF IInv

-----------------------------------------------------------------------------
(* The theorems                                                            *)

\* The locks, the rows and the requests agree in every state.
THEOREM Invariant == Spec => []IInv
  <1>1. Init => IInv BY InitHolds
  <1>2. IInv /\ [Next]_vars => IInv' BY NextKeeps
  <1> QED BY <1>1, <1>2, PTL DEF Spec

\* Every variable has its type, and a row is locked by the transactions that are
\* about to write it, for any number of them.
THEOREM TypeCorrect == Spec => []TypeOK
  <1>1. ASSUME IInv PROVE TypeOK
    <2>1. Types BY <1>1 DEF IInv
    <2>2. ASSUME NEW r \in Requests
          PROVE  req[r].phase \in {"comparing", "counted"} <=>
                    \E g \in Grants : rowLock[g] = r /\ req[r].grant = g
      <3>1. Holds(r) /\ \A g \in Grants : Locked(g) BY <1>1 DEF IInv
      <3>2. ASSUME req[r].phase \in {"comparing", "counted"}
            PROVE  \E g \in Grants : rowLock[g] = r /\ req[r].grant = g
        BY <3>1, <3>2 DEF Holds
      <3>3. ASSUME NEW g \in Grants, rowLock[g] = r
            PROVE  req[r].phase \in {"comparing", "counted"}
        BY <3>1, <3>3 DEF Locked
      <3> QED BY <3>2, <3>3
    <2>3. \A id \in Grants : issue[id].phase = "updated" =>
             \A g \in issue[id].matched : rowLock[g] = id
      BY <1>1 DEF IInv, Supersedes
    <2> QED BY <2>1, <2>2, <2>3 DEF Types, TypeOK
  <1> QED BY <1>1, Invariant, PTL

\* However many calls of one grant overlap, fail or die, and whatever is revoked,
\* superseded or purged meanwhile, the uses counted are the handlers that took
\* effect, within max_uses, and consumed_at is set with the last one.
THEOREM UsesCounted == Spec => []UsesAreEffects
  <1>1. ASSUME IInv PROVE UsesAreEffects
    BY <1>1 DEF IInv, Counted, Counts, UsesAreEffects, Issued
  <1> QED BY <1>1, Invariant, PTL

\* However many wrong secrets are tried at the same time, each is counted, and a
\* grant is locked exactly when maxFailedAttempts fell into its window.
THEOREM GuessesCounted == Spec => []EveryGuessCounts
  <1>1. ASSUME IInv PROVE EveryGuessCounts
    BY <1>1 DEF IInv, Counted, Counts, EveryGuessCounts, Issued
  <1> QED BY <1>1, Invariant, PTL

-----------------------------------------------------------------------------
(* An ended grant stays ended                                              *)

\* Revoked or used up
Ended(row) ==
    \/ row.revoked # None \/ row.consumed # None
    \/ row.maxUses # Unlimited /\ row.uses >= row.maxUses

\* What Status says of a grant that is revoked or used up, at any time.
LEMMA StatusOfEnded ==
    ASSUME NEW row, NEW now
    PROVE  Status(row, now) \in {"revoked", "consumed"} <=> Ended(row)
  <1>1. CASE row.revoked # None BY <1>1 DEF Status, Ended
  <1>2. CASE row.revoked = None /\ Ended(row) BY <1>2 DEF Status, Ended
  <1>3. CASE row.revoked = None /\ ~Ended(row) BY <1>3 DEF Status, Ended
  <1> QED BY <1>1, <1>2, <1>3

\* A row that stays as it is in what ends it stays ended.
LEMMA EndedKept ==
    ASSUME NEW row, NEW new, Ended(row),
           row.revoked # None => new.revoked # None,
           new.consumed = row.consumed, new.maxUses = row.maxUses, new.uses = row.uses
    PROVE  Ended(new)
  BY DEF Ended

\* A step of a request does nothing with an ended grant.
LEMMA RequestLeavesEnded ==
    ASSUME IInv, NEW r \in Requests, RequestStep(r), NEW g \in Grants,
           grants[g] # None, Ended(grants[g])
    PROVE  effects'[g] = effects[g] /\ Ended(grants'[g])
  <1> DEFINE h == req[r].grant
  <1>1. Types /\ Holds(r) /\ grants[g] \in Row BY DEF IInv, Types
  <1>2. CASE UNCHANGED <<grants, effects>> BY <1>2
  <1>3. CASE WrongSecret(r)
    <2> DEFINE k == Failed(grants[h], req[r].seen, req[r].now)
    <2>1. grants' = [grants EXCEPT ![h] = k] /\ effects' = effects
      BY <1>3 DEF WrongSecret
    <2>2. CASE g = h
      <3>1. k.revoked = grants[g].revoked /\ k.consumed = grants[g].consumed
            /\ k.maxUses = grants[g].maxUses /\ k.uses = grants[g].uses
        BY <1>1, <2>2 DEF Failed, Row
      <3>2. grants'[g] = k BY <1>1, <2>1, <2>2 DEF Types
      <3> HIDE DEF k
      <3> QED BY <2>1, <3>1, <3>2, EndedKept
    <2>3. CASE g # h BY <1>1, <2>1, <2>3 DEF Types
    <2> QED BY <2>2, <2>3
  <1>4. ASSUME NEW covered \in BOOLEAN, RightSecret(r, covered)
        PROVE  effects'[g] = effects[g] /\ Ended(grants'[g])
    <2> DEFINE k == [grants[h] EXCEPT !.failed = 0, !.windowStart = None,
                                      !.lockedUntil = None]
    <2>1. grants' = [grants EXCEPT ![h] = k] /\ effects' = effects
      BY <1>4 DEF RightSecret
    <2>2. CASE g = h
      <3>1. k.revoked = grants[g].revoked /\ k.consumed = grants[g].consumed
            /\ k.maxUses = grants[g].maxUses /\ k.uses = grants[g].uses
        BY <1>1, <2>2 DEF Row
      <3>2. grants'[g] = k BY <1>1, <2>1, <2>2 DEF Types
      <3> HIDE DEF k
      <3> QED BY <2>1, <3>1, <3>2, EndedKept
    <2>3. CASE g # h BY <1>1, <2>1, <2>3 DEF Types
    <2> QED BY <2>2, <2>3
  <1>5. CASE HandlerCommits(r)
    <2>1. req[r].phase = "counted" BY <1>5 DEF HandlerCommits
    <2>2. h \in Grants /\ grants[h] # None /\ Consumable(grants[h], req[r].now)
      BY <1>1, <2>1 DEF Holds
    <2>3. ~Ended(grants[h])
      <3>1. grants[h] \in Row BY <1>1, <2>2 DEF Types
      <3>2. /\ grants[h].uses \in Nat /\ grants[h].maxUses \in UseLimits
            /\ UseLimits \subseteq (Nat \ {0}) \cup {Unlimited}
        BY <3>1, GrantsAssumption DEF Row
      <3>3. grants[h].maxUses # Unlimited => ~(grants[h].uses >= grants[h].maxUses)
        <4>1. ASSUME grants[h].maxUses # Unlimited
              PROVE  grants[h].maxUses \in Nat /\ grants[h].uses < grants[h].maxUses
          BY <2>2, <3>2, <4>1 DEF Consumable
        <4> QED BY <3>2, <4>1
      <3> QED BY <2>2, <3>3 DEF Ended, Consumable
    <2>4. g # h BY <2>3
    <2> QED BY <1>1, <1>5, <2>4 DEF HandlerCommits, Types
  <1>6. CASE \/ \E x \in Grants, right \in BOOLEAN : Begin(r, x, right)
             \/ ResolveLock(r) \/ Call(r) \/ Consume(r) \/ RequestFails(r)
    BY <1>2, <1>6 DEF Begin, ResolveLock, Call, Consume, RequestFails
  <1> QED BY <1>3, <1>4, <1>5, <1>6 DEF RequestStep

\* A step of anybody else does nothing with an ended grant, or purges it.
LEMMA OthersLeaveEnded ==
    ASSUME IInv, NEW g \in Grants, grants[g] # None, Ended(grants[g]),
           \/ \E id \in Grants : IssueStep(id) \/ RevokeRead(id) \/ RevokeWrite(id)
           \/ PurgeCapabilityGrants \/ Tick
    PROVE  effects'[g] = effects[g] /\ (grants'[g] # None => Ended(grants'[g]))
  <1>1. Types /\ grants[g] \in Row BY DEF IInv, Types
  <1>2. CASE UNCHANGED <<grants, effects>> BY <1>2
  <1>3. ASSUME NEW id \in Grants, NEW limit \in UseLimits, IssueCommit(id, limit)
        PROVE  effects'[g] = effects[g] /\ Ended(grants'[g])
    <2> DEFINE t == issue[id]
               k == [grants[g] EXCEPT !.revoked = t.now]
    <2>1. t.phase = "updated" /\ effects' = effects BY <1>3 DEF IssueCommit
    <2>2. grants[id] = None BY <2>1 DEF IInv, Fresh
    <2>3. g # id BY <2>2
    <2>4. CASE g \in t.matched
      <3>1. grants'[g] = k BY <1>3, <2>3, <2>4 DEF IssueCommit
      <3>2. t.now \in Times BY <1>1 DEF Types, Issue
      <3>3. t.now # None BY <3>2, GrantsAssumption DEF Times
      <3>4. k.revoked # None BY <1>1, <3>3 DEF Row
      <3> HIDE DEF k
      <3> QED BY <2>1, <3>1, <3>4 DEF Ended
    <2>5. CASE g \notin t.matched
      <3>1. grants'[g] = grants[g] BY <1>3, <2>3, <2>5 DEF IssueCommit
      <3> QED BY <2>1, <3>1
    <2> QED BY <2>4, <2>5
  <1>4. ASSUME NEW h \in Grants, RevokeWrite(h)
        PROVE  effects'[g] = effects[g] /\ Ended(grants'[g])
    <2> DEFINE k == [grants[h] EXCEPT !.revoked = clock]
    <2>1. effects' = effects BY <1>4 DEF RevokeWrite
    <2>2. CASE h = g /\ grants[h].revoked = None
      <3>1. grants' = [grants EXCEPT ![h] = k] BY <1>4, <2>2 DEF RevokeWrite
      <3>2. grants'[g] = k BY <1>1, <2>2, <3>1 DEF Types
      <3>3. clock # None BY <1>1, GrantsAssumption DEF Types, Times
      <3>4. k.revoked # None BY <1>1, <2>2, <3>3 DEF Row
      <3> HIDE DEF k
      <3> QED BY <2>1, <3>2, <3>4 DEF Ended
    <2>3. CASE ~(h = g /\ grants[h].revoked = None)
      <3>1. grants'[g] = grants[g] BY <1>1, <1>4, <2>3 DEF RevokeWrite, Types
      <3> QED BY <2>1, <3>1
    <2> QED BY <2>2, <2>3
  <1>5. CASE PurgeCapabilityGrants BY <1>5 DEF PurgeCapabilityGrants
  <1>6. ASSUME NEW id \in Grants,
               \/ \E superseding \in BOOLEAN : IssueUpdate(id, superseding)
               \/ IssueFails(id) \/ RevokeRead(id)
        PROVE  UNCHANGED <<grants, effects>>
    BY <1>6 DEF IssueUpdate, IssueFails, RevokeRead
  <1>7. CASE Tick BY <1>2, <1>7 DEF Tick
  <1> QED BY <1>2, <1>3, <1>4, <1>5, <1>6, <1>7 DEF IssueStep

\* Once a revoke, a superseding issue or a last use is committed, no call does
\* anything with the grant any more, however far it had got, and the grant does
\* not come back, for any number of calls.
THEOREM EndedForGood == Spec => EndedStaysEnded
  <1> DEFINE Step == \A g \in Issued :
                        Status(grants[g], 0) \in {"revoked", "consumed"} =>
                          /\ effects'[g] = effects[g]
                          /\ grants'[g] # None =>
                                Status(grants'[g], 0) \in {"revoked", "consumed"}
  <1>1. ASSUME IInv, Next PROVE Step
    <2>1. SUFFICES ASSUME NEW g \in Issued,
                          Status(grants[g], 0) \in {"revoked", "consumed"}
                   PROVE  /\ effects'[g] = effects[g]
                          /\ grants'[g] # None =>
                                Status(grants'[g], 0) \in {"revoked", "consumed"}
      OBVIOUS
    <2>2. g \in Grants /\ grants[g] # None BY DEF Issued
    <2>3. Ended(grants[g]) BY <2>1, StatusOfEnded
    <2>4. effects'[g] = effects[g] /\ (grants'[g] # None => Ended(grants'[g]))
      BY <1>1, <2>2, <2>3, RequestLeavesEnded, OthersLeaveEnded DEF Next
    <2> QED BY <2>4, StatusOfEnded
  <1>2. IInv /\ [Next]_vars => [Step]_vars BY <1>1
  <1> QED BY <1>2, Invariant, PTL DEF Spec, EndedStaysEnded

-----------------------------------------------------------------------------
(* API key integrations                                                    *)

\* The rows and the clients have their types
RowsTyped ==
    /\ aRow \in [Integrations -> A!Statuses]
    /\ aStored \in [Integrations -> A!Secrets]
    /\ aAged \in SUBSET Integrations
    /\ aLock \in [Integrations -> Integrations \cup Keys \cup {None}]
    /\ aKeys \in [Integrations -> [Keys -> {"none", "live", "revoked"}]]
    /\ aRealm \in [Integrations -> A!Client]
    /\ aAttempt \in [Integrations -> A!Attempt]
    /\ aSecrets \in A!Secrets

\* What the row of integration i, its lock, its keys, its client and its attempt
\* have to do with each other
RowOK(i, st, sec, lk, ks, rl, at, old) ==
    /\ at.phase = "none" <=> st = "absent"
    /\ rl # A!Missing => st # "absent"
    /\ st = "active" => sec # 0 /\ at.phase = "over"
    /\ i \in old => at.phase = "over" /\ st \in {"pending", "disabled"}
    /\ lk \in Keys => st = "active"
    /\ at.phase = "activating" => lk = i /\ st = "pending"
    /\ at.phase \in {"created", "provisioned", "activating"} => at.secret # 0
    /\ \A k \in Keys : ks[k] = "live" => st = "active"

RowsSound ==
    \A i \in Integrations :
        RowOK(i, aRow[i], aStored[i], aLock[i], aKeys[i], aRealm[i], aAttempt[i], aAged)

\* What a run knows of the rows it read: a row it sweeps is older than the grace
\* window, a row it rebuilds has been activated, and an orphan it saw is still
\* to be visited, reported or gone
RunOK(m, rw, old, sd, at, rl) ==
    /\ \A i \in m.todo : rw[i] # "absent"
    /\ m.stalled \subseteq old
    /\ \A i \in Integrations : m.status[i] = "active" => sd[i] # 0
    /\ m.phase \in {"sweeping", "missing", "created", "ready"} =>
          m.at \in Integrations /\ rw[m.at] # "absent"
    /\ m.phase = "sweeping" => m.at \in old
    /\ m.phase \in {"missing", "created", "ready"} => sd[m.at] # 0
    /\ m.phase \in {"created", "ready"} => m.secret # 0
    /\ \A i \in m.orphans :
          /\ sd[i] = 0 /\ at[i].phase = "over"
          /\ m.status[i] = "disabled" \/ (m.status[i] = "pending" /\ i \in m.stalled)
          /\ i \in m.todo \/ i \in m.failed \/ rl[i] = A!Missing
          /\ m.phase = "sweeping" /\ m.at = i => rl[i] = A!Missing

RunsSound ==
    /\ aRecon \in [Reconcilers -> A!Run]
    /\ \A p \in Reconcilers :
          RunOK(aRecon[p], aRow, aAged, aStored, aAttempt, aRealm)

KeysInv == RowsTyped /\ RowsSound /\ RunsSound

\* What no step takes back
GrowOK(i, st, sec, rl, at) ==
    /\ aRow[i] # "absent" => st # "absent"
    /\ aRow[i] = "disabled" => st = "disabled"
    /\ aStored[i] # 0 => sec # 0
    /\ aAttempt[i].phase = "over" => at.phase = "over"
    /\ aAttempt[i].phase = "over" /\ aStored[i] = 0 =>
          sec = 0 /\ (aRealm[i] = A!Missing => rl = A!Missing)

Grows ==
    /\ aAged \subseteq aAged'
    /\ \A i \in Integrations :
          GrowOK(i, aRow'[i], aStored'[i], aRealm'[i], aAttempt'[i])

\* A step that writes one row, its client and its attempt.
LEMMA OneRow ==
    ASSUME RowsTyped, RowsSound, NEW i \in Integrations,
           NEW st \in A!Statuses, NEW sec \in A!Secrets,
           NEW lk \in Integrations \cup Keys \cup {None},
           NEW ks \in [Keys -> {"none", "live", "revoked"}],
           NEW rl \in A!Client, NEW at \in A!Attempt,
           aRow' = [aRow EXCEPT ![i] = st], aStored' = [aStored EXCEPT ![i] = sec],
           aLock' = [aLock EXCEPT ![i] = lk], aKeys' = [aKeys EXCEPT ![i] = ks],
           aRealm' = [aRealm EXCEPT ![i] = rl], aAttempt' = [aAttempt EXCEPT ![i] = at],
           aAged' \subseteq Integrations, aAged \subseteq aAged', aAged' \subseteq aAged \cup {i},
           aSecrets' \in A!Secrets,
           RowOK(i, st, sec, lk, ks, rl, at, aAged'), GrowOK(i, st, sec, rl, at)
    PROVE  RowsTyped' /\ RowsSound' /\ Grows
  <1>1. RowsTyped'
    BY DEF RowsTyped
  <1>2. /\ aRow'[i] = st /\ aStored'[i] = sec /\ aLock'[i] = lk /\ aKeys'[i] = ks
        /\ aRealm'[i] = rl /\ aAttempt'[i] = at
    BY DEF RowsTyped
  <1>3. \A j \in Integrations : j # i =>
           /\ aRow'[j] = aRow[j] /\ aStored'[j] = aStored[j] /\ aLock'[j] = aLock[j]
           /\ aKeys'[j] = aKeys[j] /\ aRealm'[j] = aRealm[j]
           /\ aAttempt'[j] = aAttempt[j] /\ (j \in aAged' <=> j \in aAged)
    BY DEF RowsTyped
  <1>4. ASSUME NEW j \in Integrations
        PROVE  /\ RowOK(j, aRow'[j], aStored'[j], aLock'[j], aKeys'[j], aRealm'[j],
                        aAttempt'[j], aAged')
               /\ GrowOK(j, aRow'[j], aStored'[j], aRealm'[j], aAttempt'[j])
    <2>1. CASE j = i
      BY <1>2, <2>1
    <2>2. CASE j # i
      <3>1. RowOK(j, aRow[j], aStored[j], aLock[j], aKeys[j], aRealm[j], aAttempt[j], aAged)
        BY DEF RowsSound
      <3>2. RowOK(j, aRow'[j], aStored'[j], aLock'[j], aKeys'[j], aRealm'[j],
                  aAttempt'[j], aAged')
        BY <1>3, <2>2, <3>1 DEF RowOK
      <3>3. GrowOK(j, aRow'[j], aStored'[j], aRealm'[j], aAttempt'[j])
        BY <1>3, <2>2 DEF GrowOK
      <3> QED BY <3>2, <3>3
    <2> QED BY <2>1, <2>2
  <1> QED BY <1>1, <1>4 DEF RowsSound, Grows

\* A run that knows its rows knows them after a step that takes nothing back.
LEMMA RunGrows ==
    ASSUME Grows, NEW m \in A!Run, RunOK(m, aRow, aAged, aStored, aAttempt, aRealm)
    PROVE  RunOK(m, aRow', aAged', aStored', aAttempt', aRealm')
  <1>1. m.todo \subseteq Integrations /\ m.orphans \subseteq Integrations
    BY DEF A!Run
  <1>2. \A i \in m.todo : aRow'[i] # "absent"
    BY <1>1 DEF RunOK, Grows, GrowOK
  <1>3. m.stalled \subseteq aAged' /\ (m.phase = "sweeping" => m.at \in aAged')
    BY DEF RunOK, Grows
  <1>4. \A i \in Integrations : m.status[i] = "active" => aStored'[i] # 0
    BY DEF RunOK, Grows, GrowOK
  <1>5. /\ m.phase \in {"sweeping", "missing", "created", "ready"} =>
              m.at \in Integrations /\ aRow'[m.at] # "absent"
        /\ m.phase \in {"missing", "created", "ready"} => aStored'[m.at] # 0
        /\ m.phase \in {"created", "ready"} => m.secret # 0
    BY DEF RunOK, Grows, GrowOK
  <1>6. ASSUME NEW i \in m.orphans
        PROVE  /\ aStored'[i] = 0 /\ aAttempt'[i].phase = "over"
               /\ m.status[i] = "disabled" \/ (m.status[i] = "pending" /\ i \in m.stalled)
               /\ i \in m.todo \/ i \in m.failed \/ aRealm'[i] = A!Missing
               /\ m.phase = "sweeping" /\ m.at = i => aRealm'[i] = A!Missing
    <2>1. GrowOK(i, aRow'[i], aStored'[i], aRealm'[i], aAttempt'[i])
      BY <1>1 DEF Grows
    <2> QED BY <2>1 DEF RunOK, GrowOK
  <1> QED BY <1>2, <1>3, <1>4, <1>5, <1>6 DEF RunOK

\* The runs after a step of something else.
LEMMA RunsGrow ==
    ASSUME RunsSound, Grows, aRecon' = aRecon
    PROVE  RunsSound'
  BY RunGrows DEF RunsSound

\* The runs after a step of one of them.
LEMMA OneRun ==
    ASSUME RunsSound, Grows, NEW p \in Reconcilers, NEW m \in A!Run,
           aRecon' = [aRecon EXCEPT ![p] = m],
           RunOK(m, aRow', aAged', aStored', aAttempt', aRealm')
    PROVE  RunsSound'
  <1>1. /\ aRecon' \in [Reconcilers -> A!Run] /\ aRecon'[p] = m
        /\ \A q \in Reconcilers : q # p => aRecon'[q] = aRecon[q]
    BY DEF RunsSound
  <1>2. \A q \in Reconcilers : RunOK(aRecon[q], aRow', aAged', aStored', aAttempt', aRealm')
    BY RunGrows DEF RunsSound
  <1> QED BY <1>1, <1>2 DEF RunsSound

\* The row of an integration before a step.
LEMMA RowBefore ==
    ASSUME RowsTyped, RowsSound, NEW i \in Integrations
    PROVE  /\ aRow[i] \in A!Statuses /\ aStored[i] \in A!Secrets
           /\ aLock[i] \in Integrations \cup Keys \cup {None}
           /\ aKeys[i] \in [Keys -> {"none", "live", "revoked"}]
           /\ aRealm[i] \in A!Client /\ aAttempt[i] \in A!Attempt
           /\ RowOK(i, aRow[i], aStored[i], aLock[i], aKeys[i], aRealm[i], aAttempt[i], aAged)
           /\ aRow = [aRow EXCEPT ![i] = aRow[i]]
           /\ aStored = [aStored EXCEPT ![i] = aStored[i]]
           /\ aLock = [aLock EXCEPT ![i] = aLock[i]]
           /\ aKeys = [aKeys EXCEPT ![i] = aKeys[i]]
           /\ aRealm = [aRealm EXCEPT ![i] = aRealm[i]]
           /\ aAttempt = [aAttempt EXCEPT ![i] = aAttempt[i]]
  BY DEF RowsTyped, RowsSound

\* A step of an attempt or of an administrator writes one row.
LEMMA RowStep ==
    ASSUME KeysInv, NEW i \in Integrations,
           NEW st \in A!Statuses, NEW sec \in A!Secrets,
           NEW lk \in Integrations \cup Keys \cup {None},
           NEW ks \in [Keys -> {"none", "live", "revoked"}],
           NEW rl \in A!Client, NEW at \in A!Attempt,
           aRow' = [aRow EXCEPT ![i] = st], aStored' = [aStored EXCEPT ![i] = sec],
           aLock' = [aLock EXCEPT ![i] = lk], aKeys' = [aKeys EXCEPT ![i] = ks],
           aRealm' = [aRealm EXCEPT ![i] = rl], aAttempt' = [aAttempt EXCEPT ![i] = at],
           aAged' \subseteq Integrations, aAged \subseteq aAged', aAged' \subseteq aAged \cup {i},
           aSecrets' \in A!Secrets, aRecon' = aRecon,
           RowOK(i, st, sec, lk, ks, rl, at, aAged'), GrowOK(i, st, sec, rl, at)
    PROVE  KeysInv' /\ Grows
  <1>1. RowsTyped' /\ RowsSound' /\ Grows
    BY OneRow DEF KeysInv
  <1> QED BY <1>1, RunsGrow DEF KeysInv

\* createIntegration up to its activation.
LEMMA IntendKeeps ==
    ASSUME KeysInv, NEW i \in Integrations, A!Intend(i)
    PROVE  KeysInv' /\ Grows
  <1> DEFINE at == [aAttempt[i] EXCEPT !.phase = "intended"]
  <1>1. RowsTyped /\ RowsSound
    BY DEF KeysInv
  <1>2. at \in A!Attempt /\ at.phase = "intended"
    BY <1>1, RowBefore DEF A!Attempt
  <1>3. aAttempt' = [aAttempt EXCEPT ![i] = at]
    BY <1>1 DEF A!Intend, RowsTyped
  <1> HIDE DEF at
  <1>4. aRow[i] = "absent" /\ aAttempt[i].phase = "none"
    BY <1>1, RowBefore DEF A!Intend, RowOK
  <1>5. /\ RowOK(i, "pending", aStored[i], aLock[i], aKeys[i], aRealm[i], at, aAged)
        /\ GrowOK(i, "pending", aStored[i], aRealm[i], at)
    BY <1>1, <1>2, <1>4, RowBefore DEF RowOK, GrowOK
  <1>6. "pending" \in A!Statuses
    BY DEF A!Statuses
  <1>7. /\ aRow' = [aRow EXCEPT ![i] = "pending"] /\ aStored' = [aStored EXCEPT ![i] = aStored[i]]
        /\ aLock' = [aLock EXCEPT ![i] = aLock[i]] /\ aKeys' = [aKeys EXCEPT ![i] = aKeys[i]]
        /\ aRealm' = [aRealm EXCEPT ![i] = aRealm[i]] /\ aRecon' = aRecon
        /\ aAged' = aAged /\ aAged \subseteq Integrations
    BY <1>1, RowBefore DEF A!Intend, RowsTyped
  <1>8. aSecrets' \in A!Secrets
    BY <1>1 DEF A!Intend, RowsTyped
  <1> QED BY <1>1, <1>2, <1>3, <1>5, <1>6, <1>7, <1>8, RowBefore, RowStep

\* createServiceAccountClient makes a client under a secret of its own.
LEMMA CreateClientKeeps ==
    ASSUME KeysInv, NEW i \in Integrations, A!CreateClient(i)
    PROVE  KeysInv' /\ Grows
  <1> DEFINE n == aSecrets + 1
             rl == [secret |-> n, ready |-> FALSE]
             at == [phase |-> "created", secret |-> n]
  <1>1. RowsTyped /\ RowsSound
    BY DEF KeysInv
  <1>2. n \in A!Secrets /\ n # 0
    BY <1>1, CredentialsAssumed DEF A!ApiKeysAssumption, A!CreateClient, RowsTyped, A!Secrets
  <1>3. /\ aAttempt' = [aAttempt EXCEPT ![i] = at] /\ aRealm' = [aRealm EXCEPT ![i] = rl]
        /\ aSecrets' = n
    BY DEF A!CreateClient
  <1> HIDE DEF n
  <1>4. /\ rl \in A!Client
        /\ at \in A!Attempt /\ at.phase = "created" /\ at.secret = n
    BY <1>2 DEF A!Client, A!Attempt
  <1> HIDE DEF rl, at
  <1>5. aAttempt[i].phase = "intended"
    BY DEF A!CreateClient
  <1>6. /\ RowOK(i, aRow[i], aStored[i], aLock[i], aKeys[i], rl, at, aAged)
        /\ GrowOK(i, aRow[i], aStored[i], rl, at)
    BY <1>1, <1>2, <1>4, <1>5, RowBefore DEF RowOK, GrowOK
  <1>7. /\ aRow' = [aRow EXCEPT ![i] = aRow[i]] /\ aStored' = [aStored EXCEPT ![i] = aStored[i]]
        /\ aLock' = [aLock EXCEPT ![i] = aLock[i]] /\ aKeys' = [aKeys EXCEPT ![i] = aKeys[i]]
        /\ aRealm' = [aRealm EXCEPT ![i] = rl] /\ aRecon' = aRecon
        /\ aAged' = aAged /\ aAged \subseteq Integrations
    BY <1>1, <1>3, RowBefore DEF A!CreateClient, RowsTyped
  <1> QED BY <1>1, <1>2, <1>3, <1>4, <1>6, <1>7, RowBefore, RowStep

\* setServiceAccountTenant and grantClientRoles.
LEMMA ReadyClientKeeps ==
    ASSUME KeysInv, NEW i \in Integrations, A!ReadyClient(i)
    PROVE  KeysInv' /\ Grows
  <1> DEFINE rl == [aRealm[i] EXCEPT !.ready = TRUE]
             at == [aAttempt[i] EXCEPT !.phase = "provisioned"]
  <1>1. RowsTyped /\ RowsSound
    BY DEF KeysInv
  <1>2. rl \in A!Client
    BY <1>1, RowBefore DEF A!Client
  <1>3. at \in A!Attempt /\ at.phase = "provisioned" /\ at.secret = aAttempt[i].secret
    BY <1>1, RowBefore DEF A!Attempt
  <1>4. /\ aAttempt' = [aAttempt EXCEPT ![i] = at] /\ aRealm' = [aRealm EXCEPT ![i] = rl]
    BY <1>1 DEF A!ReadyClient, RowsTyped
  <1> HIDE DEF rl, at
  <1>5. aAttempt[i].phase = "created"
    BY DEF A!ReadyClient
  <1>6. /\ RowOK(i, aRow[i], aStored[i], aLock[i], aKeys[i], rl, at, aAged)
        /\ GrowOK(i, aRow[i], aStored[i], rl, at)
    BY <1>1, <1>3, <1>5, RowBefore DEF RowOK, GrowOK
  <1>7. /\ aRow' = [aRow EXCEPT ![i] = aRow[i]] /\ aStored' = [aStored EXCEPT ![i] = aStored[i]]
        /\ aLock' = [aLock EXCEPT ![i] = aLock[i]] /\ aKeys' = [aKeys EXCEPT ![i] = aKeys[i]]
        /\ aRealm' = [aRealm EXCEPT ![i] = rl] /\ aRecon' = aRecon
        /\ aAged' = aAged /\ aAged \subseteq Integrations
    BY <1>1, <1>4, RowBefore DEF A!ReadyClient, RowsTyped
  <1>8. aSecrets' \in A!Secrets
    BY <1>1 DEF A!ReadyClient, RowsTyped
  <1> QED BY <1>1, <1>2, <1>3, <1>4, <1>6, <1>7, <1>8, RowBefore, RowStep

\* The lock of the activation, or the news that the attempt was fenced off.
LEMMA ActivateLockKeeps ==
    ASSUME KeysInv, NEW i \in Integrations, A!ActivateLock(i)
    PROVE  KeysInv' /\ Grows
  <1> DEFINE lk == IF A!Fence(i) THEN i ELSE aLock[i]
             at == [aAttempt[i] EXCEPT !.phase = IF A!Fence(i) THEN "activating" ELSE "fenced"]
  <1>1. RowsTyped /\ RowsSound
    BY DEF KeysInv
  <1>2. /\ lk \in Integrations \cup Keys \cup {None}
        /\ (aRow[i] = "pending" => lk = i) /\ (aRow[i] # "pending" => lk = None)
    BY <1>1, RowBefore DEF A!ActivateLock, A!Unlocked, A!Fence
  <1>3. /\ at \in A!Attempt /\ at.secret = aAttempt[i].secret
        /\ at.phase = IF aRow[i] = "pending" THEN "activating" ELSE "fenced"
    BY <1>1, RowBefore DEF A!Attempt, A!Fence
  <1>4. aAttempt[i].phase = "provisioned" /\ i \notin Keys /\ None \notin Keys
    BY CredentialsAssumed DEF A!ApiKeysAssumption, A!ActivateLock
  <1>7. /\ aRow' = [aRow EXCEPT ![i] = aRow[i]] /\ aStored' = [aStored EXCEPT ![i] = aStored[i]]
        /\ aLock' = [aLock EXCEPT ![i] = lk] /\ aKeys' = [aKeys EXCEPT ![i] = aKeys[i]]
        /\ aRealm' = [aRealm EXCEPT ![i] = aRealm[i]] /\ aAttempt' = [aAttempt EXCEPT ![i] = at]
    BY <1>1, RowBefore DEF A!ActivateLock, A!Unlocked, A!Fence, RowsTyped
  <1>8. /\ aRecon' = aRecon /\ aSecrets' \in A!Secrets /\ aAged' \subseteq Integrations
        /\ aAged' = aAged
    BY <1>1 DEF A!ActivateLock, A!Unlocked, A!Fence, RowsTyped
  <1> HIDE DEF lk, at
  <1>9. /\ RowOK(i, aRow[i], aStored[i], lk, aKeys[i], aRealm[i], at, aAged')
        /\ GrowOK(i, aRow[i], aStored[i], aRealm[i], at)
    BY <1>1, <1>2, <1>3, <1>4, <1>8, RowBefore DEF A!ActivateLock, A!Unlocked, A!Fence, RowOK, GrowOK
  <1> QED BY <1>1, <1>2, <1>3, <1>7, <1>8, <1>9, RowBefore, RowStep

\* The activation and the first key.
LEMMA ActivateCommitKeeps ==
    ASSUME KeysInv, NEW i \in Integrations, NEW k \in Keys, A!ActivateCommit(i, k)
    PROVE  KeysInv' /\ Grows
  <1> DEFINE ks == [aKeys[i] EXCEPT ![k] = "live"]
             at == [aAttempt[i] EXCEPT !.phase = "over"]
  <1>1. RowsTyped /\ RowsSound
    BY DEF KeysInv
  <1>2. ks \in [Keys -> {"none", "live", "revoked"}]
    BY <1>1, RowBefore
  <1>3. at \in A!Attempt /\ at.phase = "over"
    BY <1>1, RowBefore DEF A!Attempt
  <1>4. "active" \in A!Statuses /\ None \notin Keys /\ aAttempt[i].secret \in A!Secrets
    BY <1>1, RowBefore, CredentialsAssumed DEF A!ApiKeysAssumption, A!Attempt, A!Statuses
  <1>7. /\ aRow' = [aRow EXCEPT ![i] = "active"] /\ aStored' = [aStored EXCEPT ![i] = aAttempt[i].secret]
        /\ aLock' = [aLock EXCEPT ![i] = None] /\ aKeys' = [aKeys EXCEPT ![i] = ks]
        /\ aRealm' = [aRealm EXCEPT ![i] = aRealm[i]] /\ aAttempt' = [aAttempt EXCEPT ![i] = at]
    BY <1>1, RowBefore DEF A!ActivateCommit, RowsTyped
  <1>8. /\ aRecon' = aRecon /\ aSecrets' \in A!Secrets /\ aAged' \subseteq Integrations
        /\ aAged' = aAged
    BY <1>1 DEF A!ActivateCommit, RowsTyped
  <1> HIDE DEF ks, at
  <1>9. /\ RowOK(i, "active", aAttempt[i].secret, None, ks, aRealm[i], at, aAged')
        /\ GrowOK(i, "active", aAttempt[i].secret, aRealm[i], at)
    BY <1>1, <1>2, <1>3, <1>4, <1>8, RowBefore DEF A!ActivateCommit, RowOK, GrowOK
  <1> QED BY <1>1, <1>2, <1>3, <1>4, <1>7, <1>8, <1>9, RowBefore, RowStep

\* discardRealmClient.
LEMMA DiscardKeeps ==
    ASSUME KeysInv, NEW i \in Integrations, A!Discard(i)
    PROVE  KeysInv' /\ Grows
  <1> DEFINE at == [aAttempt[i] EXCEPT !.phase = "over"]
  <1>1. RowsTyped /\ RowsSound
    BY DEF KeysInv
  <1>3. at \in A!Attempt /\ at.phase = "over"
    BY <1>1, RowBefore DEF A!Attempt
  <1>4. A!Missing \in A!Client
    BY CredentialsAssumed DEF A!ApiKeysAssumption, A!Missing, A!Client, A!Secrets
  <1>7. /\ aRow' = [aRow EXCEPT ![i] = aRow[i]] /\ aStored' = [aStored EXCEPT ![i] = aStored[i]]
        /\ aLock' = [aLock EXCEPT ![i] = aLock[i]] /\ aKeys' = [aKeys EXCEPT ![i] = aKeys[i]]
        /\ aRealm' = [aRealm EXCEPT ![i] = A!Missing] /\ aAttempt' = [aAttempt EXCEPT ![i] = at]
    BY <1>1, RowBefore DEF A!Discard, RowsTyped
  <1>8. /\ aRecon' = aRecon /\ aSecrets' \in A!Secrets /\ aAged' \subseteq Integrations
        /\ aAged' = aAged
    BY <1>1 DEF A!Discard, RowsTyped
  <1> HIDE DEF at
  <1>9. /\ RowOK(i, aRow[i], aStored[i], aLock[i], aKeys[i], A!Missing, at, aAged')
        /\ GrowOK(i, aRow[i], aStored[i], A!Missing, at)
    BY <1>1, <1>3, <1>8, RowBefore DEF A!Discard, RowOK, GrowOK
  <1> QED BY <1>1, <1>3, <1>4, <1>7, <1>8, <1>9, RowBefore, RowStep

\* The attempt fails or dies, and its lock goes with it.
LEMMA AttemptFailsKeeps ==
    ASSUME KeysInv, NEW i \in Integrations, A!AttemptFails(i)
    PROVE  KeysInv' /\ Grows
  <1> DEFINE lk == IF aLock[i] = i THEN None ELSE aLock[i]
             at == [aAttempt[i] EXCEPT !.phase = "over"]
  <1>1. RowsTyped /\ RowsSound
    BY DEF KeysInv
  <1>2. lk \in Integrations \cup Keys \cup {None} /\ (lk \in Keys => lk = aLock[i])
    BY <1>1, RowBefore, CredentialsAssumed DEF A!ApiKeysAssumption
  <1>3. at \in A!Attempt /\ at.phase = "over"
    BY <1>1, RowBefore DEF A!Attempt
  <1>7. /\ aRow' = [aRow EXCEPT ![i] = aRow[i]] /\ aStored' = [aStored EXCEPT ![i] = aStored[i]]
        /\ aLock' = [aLock EXCEPT ![i] = lk] /\ aKeys' = [aKeys EXCEPT ![i] = aKeys[i]]
        /\ aRealm' = [aRealm EXCEPT ![i] = aRealm[i]] /\ aAttempt' = [aAttempt EXCEPT ![i] = at]
    BY <1>1, RowBefore DEF A!AttemptFails, A!IntentAfter, RowsTyped
  <1>8. /\ aRecon' = aRecon /\ aSecrets' \in A!Secrets /\ aAged' \subseteq Integrations
        /\ aAged' = aAged
    BY <1>1 DEF A!AttemptFails, A!IntentAfter, RowsTyped
  <1> HIDE DEF lk, at
  <1>9. /\ RowOK(i, aRow[i], aStored[i], lk, aKeys[i], aRealm[i], at, aAged')
        /\ GrowOK(i, aRow[i], aStored[i], aRealm[i], at)
    BY <1>1, <1>2, <1>3, <1>8, RowBefore DEF A!AttemptFails, A!IntentAfter, RowOK, GrowOK
  <1> QED BY <1>1, <1>2, <1>3, <1>7, <1>8, <1>9, RowBefore, RowStep

\* The grace window ends.
LEMMA AgeKeeps ==
    ASSUME KeysInv, NEW i \in Integrations, A!Age(i)
    PROVE  KeysInv' /\ Grows
  <1>1. RowsTyped /\ RowsSound
    BY DEF KeysInv
  <1>7. /\ aRow' = [aRow EXCEPT ![i] = aRow[i]] /\ aStored' = [aStored EXCEPT ![i] = aStored[i]]
        /\ aLock' = [aLock EXCEPT ![i] = aLock[i]] /\ aKeys' = [aKeys EXCEPT ![i] = aKeys[i]]
        /\ aRealm' = [aRealm EXCEPT ![i] = aRealm[i]] /\ aAttempt' = [aAttempt EXCEPT ![i] = aAttempt[i]]
    BY <1>1, RowBefore DEF A!Age, RowsTyped
  <1>8. /\ aRecon' = aRecon /\ aSecrets' \in A!Secrets /\ aAged' \subseteq Integrations
        /\ aAged' = aAged \cup {i}
    BY <1>1 DEF A!Age, RowsTyped
  <1>9. /\ RowOK(i, aRow[i], aStored[i], aLock[i], aKeys[i], aRealm[i], aAttempt[i], aAged')
        /\ GrowOK(i, aRow[i], aStored[i], aRealm[i], aAttempt[i])
    BY <1>1, <1>8, RowBefore DEF A!Age, RowOK, GrowOK
  <1> QED BY <1>1, <1>7, <1>8, <1>9, RowBefore, RowStep

\* issueKey takes the lock.
LEMMA IssueLockKeeps ==
    ASSUME KeysInv, NEW i \in Integrations, NEW k \in Keys, A!IssueLock(i, k)
    PROVE  KeysInv' /\ Grows
  <1>1. RowsTyped /\ RowsSound
    BY DEF KeysInv
  <1>7. /\ aRow' = [aRow EXCEPT ![i] = aRow[i]] /\ aStored' = [aStored EXCEPT ![i] = aStored[i]]
        /\ aLock' = [aLock EXCEPT ![i] = k] /\ aKeys' = [aKeys EXCEPT ![i] = aKeys[i]]
        /\ aRealm' = [aRealm EXCEPT ![i] = aRealm[i]] /\ aAttempt' = [aAttempt EXCEPT ![i] = aAttempt[i]]
    BY <1>1, RowBefore DEF A!IssueLock, A!Unlocked, RowsTyped
  <1>8. /\ aRecon' = aRecon /\ aSecrets' \in A!Secrets /\ aAged' \subseteq Integrations
        /\ aAged' = aAged
    BY <1>1 DEF A!IssueLock, A!Unlocked, RowsTyped
  <1>9. /\ RowOK(i, aRow[i], aStored[i], k, aKeys[i], aRealm[i], aAttempt[i], aAged')
        /\ GrowOK(i, aRow[i], aStored[i], aRealm[i], aAttempt[i])
    BY <1>1, <1>8, RowBefore DEF A!IssueLock, A!Unlocked, RowOK, GrowOK
  <1> QED BY <1>1, <1>7, <1>8, <1>9, RowBefore, RowStep

\* issueKey ends.
LEMMA IssueEndKeeps ==
    ASSUME KeysInv, NEW i \in Integrations, NEW k \in Keys, NEW commits \in BOOLEAN, A!IssueEnd(i, k, commits)
    PROVE  KeysInv' /\ Grows
  <1> DEFINE ks == IF commits THEN [aKeys[i] EXCEPT ![k] = "live"] ELSE aKeys[i]
  <1>1. RowsTyped /\ RowsSound
    BY DEF KeysInv
  <1>2. ks \in [Keys -> {"none", "live", "revoked"}]
    BY <1>1, RowBefore
  <1>3. None \notin Keys /\ aRow[i] = "active" /\ aAttempt[i].phase = "over"
    BY <1>1, RowBefore, CredentialsAssumed DEF A!ApiKeysAssumption, A!IssueEnd, RowOK
  <1>7. /\ aRow' = [aRow EXCEPT ![i] = aRow[i]] /\ aStored' = [aStored EXCEPT ![i] = aStored[i]]
        /\ aLock' = [aLock EXCEPT ![i] = None] /\ aKeys' = [aKeys EXCEPT ![i] = ks]
        /\ aRealm' = [aRealm EXCEPT ![i] = aRealm[i]] /\ aAttempt' = [aAttempt EXCEPT ![i] = aAttempt[i]]
    BY <1>1, RowBefore DEF A!IssueEnd, RowsTyped
  <1>8. /\ aRecon' = aRecon /\ aSecrets' \in A!Secrets /\ aAged' \subseteq Integrations
        /\ aAged' = aAged
    BY <1>1 DEF A!IssueEnd, RowsTyped
  <1> HIDE DEF ks
  <1>9. /\ RowOK(i, aRow[i], aStored[i], None, ks, aRealm[i], aAttempt[i], aAged')
        /\ GrowOK(i, aRow[i], aStored[i], aRealm[i], aAttempt[i])
    BY <1>1, <1>2, <1>3, <1>8, RowBefore DEF A!IssueEnd, RowOK, GrowOK
  <1> QED BY <1>1, <1>2, <1>3, <1>7, <1>8, <1>9, RowBefore, RowStep

\* revokeKey.
LEMMA RevokeKeyKeeps ==
    ASSUME KeysInv, NEW i \in Integrations, NEW k \in Keys, A!RevokeKey(i, k)
    PROVE  KeysInv' /\ Grows
  <1> DEFINE ks == [aKeys[i] EXCEPT ![k] = "revoked"]
  <1>1. RowsTyped /\ RowsSound
    BY DEF KeysInv
  <1>2. ks \in [Keys -> {"none", "live", "revoked"}]
    BY <1>1, RowBefore
  <1>3. \A j \in Keys : ks[j] = "live" => aKeys[i][j] = "live"
    BY <1>1, RowBefore
  <1>7. /\ aRow' = [aRow EXCEPT ![i] = aRow[i]] /\ aStored' = [aStored EXCEPT ![i] = aStored[i]]
        /\ aLock' = [aLock EXCEPT ![i] = aLock[i]] /\ aKeys' = [aKeys EXCEPT ![i] = ks]
        /\ aRealm' = [aRealm EXCEPT ![i] = aRealm[i]] /\ aAttempt' = [aAttempt EXCEPT ![i] = aAttempt[i]]
    BY <1>1, RowBefore DEF A!RevokeKey, RowsTyped
  <1>8. /\ aRecon' = aRecon /\ aSecrets' \in A!Secrets /\ aAged' \subseteq Integrations
        /\ aAged' = aAged
    BY <1>1 DEF A!RevokeKey, RowsTyped
  <1> HIDE DEF ks
  <1>9. /\ RowOK(i, aRow[i], aStored[i], aLock[i], ks, aRealm[i], aAttempt[i], aAged')
        /\ GrowOK(i, aRow[i], aStored[i], aRealm[i], aAttempt[i])
    BY <1>1, <1>2, <1>3, <1>8, RowBefore DEF A!RevokeKey, RowOK, GrowOK
  <1> QED BY <1>1, <1>2, <1>7, <1>8, <1>9, RowBefore, RowStep

\* disableIntegration: no key is live, and no attempt is inside its activation.
LEMMA DisableKeeps ==
    ASSUME KeysInv, NEW i \in Integrations, A!DisableIntegration(i)
    PROVE  KeysInv' /\ Grows
  <1> DEFINE ks == [k \in Keys |-> IF aKeys[i][k] = "live" THEN "revoked" ELSE aKeys[i][k]]
  <1>1. RowsTyped /\ RowsSound
    BY DEF KeysInv
  <1>2. ks \in [Keys -> {"none", "live", "revoked"}]
    BY <1>1, RowBefore
  <1>3. \A k \in Keys : ks[k] # "live"
    OBVIOUS
  <1>4. "disabled" \in A!Statuses /\ None \notin Keys /\ i # None
    BY CredentialsAssumed DEF A!ApiKeysAssumption, A!Statuses
  <1>7. /\ aRow' = [aRow EXCEPT ![i] = "disabled"] /\ aStored' = [aStored EXCEPT ![i] = aStored[i]]
        /\ aLock' = [aLock EXCEPT ![i] = aLock[i]] /\ aKeys' = [aKeys EXCEPT ![i] = ks]
        /\ aRealm' = [aRealm EXCEPT ![i] = aRealm[i]] /\ aAttempt' = [aAttempt EXCEPT ![i] = aAttempt[i]]
    BY <1>1, RowBefore DEF A!DisableIntegration, A!Unlocked, RowsTyped
  <1>8. /\ aRecon' = aRecon /\ aSecrets' \in A!Secrets /\ aAged' \subseteq Integrations
        /\ aAged' = aAged
    BY <1>1 DEF A!DisableIntegration, A!Unlocked, RowsTyped
  <1> HIDE DEF ks
  <1>9. /\ RowOK(i, "disabled", aStored[i], aLock[i], ks, aRealm[i], aAttempt[i], aAged')
        /\ GrowOK(i, "disabled", aStored[i], aRealm[i], aAttempt[i])
    BY <1>1, <1>2, <1>3, <1>4, <1>8, RowBefore DEF A!DisableIntegration, A!Unlocked, RowOK, GrowOK
  <1> QED BY <1>1, <1>2, <1>4, <1>7, <1>8, <1>9, RowBefore, RowStep

\* A step of an attempt or of an administrator.
LEMMA RowsKeep ==
    ASSUME KeysInv, NEW i \in Integrations, A!AttemptStep(i) \/ A!AdministratorStep(i)
    PROVE  KeysInv' /\ Grows
  BY IntendKeeps, CreateClientKeeps, ReadyClientKeeps, ActivateLockKeeps, ActivateCommitKeeps,
     DiscardKeeps, AttemptFailsKeeps, AgeKeeps, IssueLockKeeps, IssueEndKeeps, RevokeKeyKeeps,
     DisableKeeps DEF A!AttemptStep, A!AdministratorStep

\* A step that leaves the rows, the clients and the attempts alone.
LEMMA SameRows ==
    ASSUME RowsTyped, RowsSound,
           UNCHANGED <<aRow, aStored, aAged, aLock, aKeys, aRealm, aAttempt, aSecrets>>
    PROVE  RowsTyped' /\ RowsSound' /\ Grows
  <1>1. RowsTyped' /\ RowsSound'
    BY DEF RowsTyped, RowsSound
  <1>2. Grows
    BY DEF Grows, GrowOK
  <1> QED BY <1>1, <1>2

\* The rows after a step of a run, which writes at most one row and its client.
LEMMA OneRowOfRun ==
    ASSUME RowsTyped, RowsSound, NEW i \in Integrations,
           NEW st \in A!Statuses, NEW sec \in A!Secrets, NEW rl \in A!Client,
           aRow' = [aRow EXCEPT ![i] = st], aStored' = [aStored EXCEPT ![i] = sec],
           aRealm' = [aRealm EXCEPT ![i] = rl],
           UNCHANGED <<aLock, aKeys, aAttempt, aAged>>, aSecrets' \in A!Secrets,
           RowOK(i, st, sec, aLock[i], aKeys[i], rl, aAttempt[i], aAged),
           GrowOK(i, st, sec, rl, aAttempt[i])
    PROVE  RowsTyped' /\ RowsSound' /\ Grows
  <1>1. aAged' = aAged /\ aAged \subseteq Integrations
    BY DEF RowsTyped
  <1>2. /\ aLock' = [aLock EXCEPT ![i] = aLock[i]] /\ aKeys' = [aKeys EXCEPT ![i] = aKeys[i]]
        /\ aAttempt' = [aAttempt EXCEPT ![i] = aAttempt[i]]
    BY RowBefore
  <1>3. /\ aLock[i] \in Integrations \cup Keys \cup {None} /\ aAttempt[i] \in A!Attempt
        /\ aKeys[i] \in [Keys -> {"none", "live", "revoked"}]
    BY RowBefore
  <1>4. RowOK(i, st, sec, aLock[i], aKeys[i], rl, aAttempt[i], aAged')
    BY <1>1
  <1>5. aAged' \subseteq Integrations /\ aAged \subseteq aAged' /\ aAged' \subseteq aAged \cup {i}
    BY <1>1
  <1> QED BY <1>2, <1>3, <1>4, <1>5, OneRow

\* Run h after a visit of row i
VisitOf(m, h, i, f) ==
    /\ m.phase = f
    /\ m.todo = IF f = "running" THEN h.todo \ {i} ELSE h.todo
    /\ m.at = IF f = "running" THEN None ELSE i
    /\ m.status = h.status /\ m.stalled = h.stalled
    /\ m.orphans = h.orphans /\ m.failed = h.failed

\* What a visit writes down about the run.
LEMMA VisitMakes ==
    ASSUME RunsSound, NEW p \in Reconcilers, NEW i \in Integrations,
           NEW f \in {"running", "sweeping", "missing"}, A!Visit(p, i, f)
    PROVE  \E m \in A!Run : aRecon' = [aRecon EXCEPT ![p] = m] /\ VisitOf(m, aRecon[p], i, f)
  <1> DEFINE h == aRecon[p]
             td == IF f = "running" THEN h.todo \ {i} ELSE h.todo
             a == IF f = "running" THEN None ELSE i
             m1 == [h EXCEPT !.phase = f]
             m2 == [m1 EXCEPT !.todo = td]
             m3 == [m2 EXCEPT !.at = a]
  <1>1. h \in A!Run
    BY DEF RunsSound
  <1>2. aRecon' = [aRecon EXCEPT ![p] = m3]
    BY <1>1 DEF A!Visit, RunsSound, A!Run
  <1> HIDE DEF h
  <1>3. td \in SUBSET Integrations /\ a \in Integrations \cup {None}
    BY <1>1 DEF A!Run
  <1> HIDE DEF td, a
  <1>4. /\ m1 \in A!Run /\ m1.phase = f /\ m1.status = h.status
        /\ m1.stalled = h.stalled /\ m1.orphans = h.orphans /\ m1.failed = h.failed
    BY <1>1 DEF A!Run
  <1> HIDE DEF m1
  <1>5. /\ m2 \in A!Run /\ m2.phase = f /\ m2.status = h.status /\ m2.todo = td
        /\ m2.stalled = h.stalled /\ m2.orphans = h.orphans /\ m2.failed = h.failed
    BY <1>3, <1>4 DEF A!Run
  <1> HIDE DEF m2
  <1>6. /\ m3 \in A!Run /\ m3.phase = f /\ m3.status = h.status /\ m3.todo = td /\ m3.at = a
        /\ m3.stalled = h.stalled /\ m3.orphans = h.orphans /\ m3.failed = h.failed
    BY <1>3, <1>5 DEF A!Run
  <1> HIDE DEF m3
  <1>7. VisitOf(m3, h, i, f)
    BY <1>6 DEF VisitOf, td, a
  <1> QED BY <1>2, <1>6, <1>7 DEF h

\* A run that is not running.
LEMMA IdleRun ==
    /\ A!NotRunning \in A!Run
    /\ A!NotRunning.phase = "idle" /\ A!NotRunning.todo = {}
    /\ A!NotRunning.stalled = {} /\ A!NotRunning.orphans = {}
    /\ \A i \in Integrations : A!NotRunning.status[i] = "absent"
  BY CredentialsAssumed DEF A!NotRunning, A!Run, A!Statuses, A!ApiKeysAssumption, A!Secrets

\* The rows are read.
LEMMA ReadKeeps ==
    ASSUME KeysInv, NEW p \in Reconcilers, A!ReconcileRead(p)
    PROVE  KeysInv' /\ Grows
  <1> DEFINE td == {i \in Integrations : A!Visited(i)}
             or == {i \in Integrations :
                      /\ aRealm[i] # A!Missing /\ aStored[i] = 0
                      /\ aAttempt[i].phase = "over"
                      /\ aRow[i] = "disabled" \/ i \in aAged}
             m == [A!NotRunning EXCEPT !.phase = "running", !.todo = td,
                      !.status = aRow, !.stored = aStored, !.stalled = aAged,
                      !.orphans = or]
  <1>1. RowsTyped /\ RowsSound /\ RunsSound
    BY DEF KeysInv
  <1>2. aRecon' = [aRecon EXCEPT ![p] = m]
    BY DEF A!ReconcileRead
  <1>3. RowsTyped' /\ RowsSound' /\ Grows
    BY <1>1, SameRows DEF A!ReconcileRead
  <1>4. td \subseteq Integrations /\ (\A i \in td : aRow[i] # "absent")
    BY DEF A!Visited
  <1>5. \A i \in Integrations : aRow[i] = "active" => aStored[i] # 0
    BY <1>1 DEF RowsSound, RowOK
  <1>6. ASSUME NEW i \in or
        PROVE  /\ i \in Integrations /\ aStored[i] = 0 /\ aAttempt[i].phase = "over"
               /\ aRow[i] = "disabled" \/ (aRow[i] = "pending" /\ i \in aAged)
               /\ i \in td
    BY <1>1 DEF RowsSound, RowOK, A!Visited
  <1>7. or \subseteq Integrations
    OBVIOUS
  <1> HIDE DEF td, or
  <1>8. /\ m.phase = "running" /\ m.todo = td /\ m.status = aRow /\ m.stalled = aAged
        /\ m.orphans = or
    BY DEF A!NotRunning
  <1>9. m \in A!Run
    <2> DEFINE m0 == A!NotRunning
               m1 == [m0 EXCEPT !.phase = "running"]
               m2 == [m1 EXCEPT !.todo = td]
               m3 == [m2 EXCEPT !.status = aRow]
               m4 == [m3 EXCEPT !.stored = aStored]
               m5 == [m4 EXCEPT !.stalled = aAged]
               m6 == [m5 EXCEPT !.orphans = or]
    <2>0. m = m6
      OBVIOUS
    <2>1. m0 \in A!Run
      BY IdleRun
    <2> HIDE DEF m, m0
    <2>2. m1 \in A!Run
      BY <2>1 DEF A!Run
    <2> HIDE DEF m1
    <2>3. m2 \in A!Run
      BY <2>2, <1>4 DEF A!Run
    <2> HIDE DEF m2
    <2>4. m3 \in A!Run
      BY <2>3, <1>1 DEF A!Run, RowsTyped
    <2> HIDE DEF m3
    <2>5. m4 \in A!Run
      BY <2>4, <1>1 DEF A!Run, RowsTyped
    <2> HIDE DEF m4
    <2>6. m5 \in A!Run
      BY <2>5, <1>1 DEF A!Run, RowsTyped
    <2> HIDE DEF m5
    <2>7. m6 \in A!Run
      BY <2>6, <1>7 DEF A!Run
    <2> HIDE DEF m6
    <2> QED BY <2>0, <2>7
  <1> HIDE DEF m
  <1>10. RunOK(m, aRow, aAged, aStored, aAttempt, aRealm)
    BY <1>4, <1>5, <1>6, <1>8 DEF RunOK
  <1>11. RunOK(m, aRow', aAged', aStored', aAttempt', aRealm')
    BY <1>3, <1>9, <1>10, RunGrows
  <1>12. RunsSound'
    BY <1>1, <1>2, <1>3, <1>9, <1>11, OneRun
  <1> QED BY <1>3, <1>12 DEF KeysInv

\* A run that ends or dies.
LEMMA EndKeeps ==
    ASSUME KeysInv, NEW p \in Reconcilers, A!ReconcileEnd(p) \/ A!ReconcileDies(p)
    PROVE  KeysInv' /\ Grows
  <1> DEFINE m == A!NotRunning
  <1>1. RowsTyped /\ RowsSound /\ RunsSound
    BY DEF KeysInv
  <1>2. aRecon' = [aRecon EXCEPT ![p] = m]
    BY DEF A!ReconcileEnd, A!ReconcileDies
  <1>3. RowsTyped' /\ RowsSound' /\ Grows
    BY <1>1, SameRows DEF A!ReconcileEnd, A!ReconcileDies
  <1>4. m \in A!Run
    BY IdleRun
  <1>5. /\ m.phase = "idle" /\ m.todo = {} /\ m.stalled = {} /\ m.orphans = {}
        /\ \A i \in Integrations : m.status[i] = "absent"
    BY IdleRun
  <1> HIDE DEF m
  <1>6. RunOK(m, aRow, aAged, aStored, aAttempt, aRealm)
    BY <1>5 DEF RunOK
  <1>7. RunOK(m, aRow', aAged', aStored', aAttempt', aRealm')
    BY <1>3, <1>4, <1>6, RunGrows
  <1>8. RunsSound'
    BY <1>1, <1>2, <1>3, <1>4, <1>7, OneRun
  <1> QED BY <1>3, <1>8 DEF KeysInv

\* A row that needs nothing is left behind, and a missing client noted.
LEMMA LookKeeps ==
    ASSUME KeysInv, NEW p \in Reconcilers, NEW i \in Integrations,
           A!SkipPending(p, i) \/ A!Probe(p, i)
    PROVE  KeysInv' /\ Grows
  <1>1. RowsTyped /\ RowsSound /\ RunsSound
    BY DEF KeysInv
  <1>2. RowsTyped' /\ RowsSound' /\ Grows
    BY <1>1, SameRows DEF A!SkipPending, A!Probe
  <1>3. PICK f \in {"running", "missing"} :
           /\ A!Visit(p, i, f)
           /\ f = "missing" => aRecon[p].status[i] = "active"
    BY DEF A!SkipPending, A!Probe
  <1>4. PICK m \in A!Run : aRecon' = [aRecon EXCEPT ![p] = m] /\ VisitOf(m, aRecon[p], i, f)
    BY <1>1, <1>3, VisitMakes
  <1>5. RunOK(aRecon[p], aRow, aAged, aStored, aAttempt, aRealm)
    BY <1>1 DEF RunsSound
  <1>6. aRecon[p].phase = "running" /\ i \in aRecon[p].todo
    BY DEF A!SkipPending, A!Probe
  <1>7. i \notin aRecon[p].orphans
    BY <1>5 DEF A!SkipPending, A!Probe, RunOK
  <1>8. aStored[i] # 0 \/ f = "running"
    BY <1>3, <1>5 DEF RunOK
  <1>9. RunOK(m, aRow, aAged, aStored, aAttempt, aRealm)
    BY <1>3, <1>4, <1>5, <1>6, <1>7, <1>8 DEF RunOK, VisitOf
  <1>10. RunOK(m, aRow', aAged', aStored', aAttempt', aRealm')
    BY <1>2, <1>9, RunGrows
  <1>11. RunsSound'
    BY <1>1, <1>2, <1>4, <1>10, OneRun
  <1> QED BY <1>2, <1>11 DEF KeysInv

\* sweepStalled deletes the client of a row it read beyond the grace window.
LEMMA SweepClientKeeps ==
    ASSUME KeysInv, NEW p \in Reconcilers, NEW i \in Integrations, A!SweepClient(p, i)
    PROVE  KeysInv' /\ Grows
  <1>1. RowsTyped /\ RowsSound /\ RunsSound
    BY DEF KeysInv
  <1>2. RunOK(aRecon[p], aRow, aAged, aStored, aAttempt, aRealm)
    BY <1>1 DEF RunsSound
  <1>3. aRecon[p].phase = "running" /\ i \in aRecon[p].todo /\ aRow[i] # "absent" /\ A!Missing \in A!Client
    BY <1>2, CredentialsAssumed
       DEF A!SweepClient, RunOK, A!ApiKeysAssumption, A!Missing, A!Client, A!Secrets
  <1>4. /\ aRow' = [aRow EXCEPT ![i] = aRow[i]] /\ aStored' = [aStored EXCEPT ![i] = aStored[i]]
        /\ aRealm' = [aRealm EXCEPT ![i] = A!Missing]
        /\ UNCHANGED <<aLock, aKeys, aAttempt, aAged>>
    BY <1>1, <1>3, RowBefore DEF A!SweepClient
  <1>5. aSecrets' \in A!Secrets
    BY <1>1, <1>3 DEF A!SweepClient, RowsTyped
  <1>6. /\ RowOK(i, aRow[i], aStored[i], aLock[i], aKeys[i], A!Missing, aAttempt[i], aAged)
        /\ GrowOK(i, aRow[i], aStored[i], A!Missing, aAttempt[i])
    BY <1>1, <1>3, RowBefore DEF RowOK, GrowOK
  <1>7. RowsTyped' /\ RowsSound' /\ Grows
    BY <1>1, <1>3, <1>4, <1>5, <1>6, RowBefore, OneRowOfRun
  <1>8. A!Visit(p, i, "sweeping")
    BY DEF A!SweepClient
  <1>9. PICK m \in A!Run :
           aRecon' = [aRecon EXCEPT ![p] = m] /\ VisitOf(m, aRecon[p], i, "sweeping")
    BY <1>1, <1>3, <1>8, VisitMakes
  <1>10. RunOK(aRecon[p], aRow', aAged', aStored', aAttempt', aRealm')
    BY <1>1, <1>2, <1>7, RunGrows DEF RunsSound
  <1>11. aRealm'[i] = A!Missing
    BY <1>1, <1>4 DEF RowsTyped
  <1>12. RunOK(m, aRow', aAged', aStored', aAttempt', aRealm')
    BY <1>3, <1>9, <1>10, <1>11 DEF RunOK, VisitOf, A!SweepClient
  <1>13. RunsSound'
    BY <1>1, <1>7, <1>9, <1>12, OneRun
  <1> QED BY <1>7, <1>13 DEF KeysInv

\* The client of a row that was never activated is deleted.
LEMMA SweepAbandonedKeeps ==
    ASSUME KeysInv, NEW p \in Reconcilers, NEW i \in Integrations, A!SweepAbandoned(p, i)
    PROVE  KeysInv' /\ Grows
  <1>1. RowsTyped /\ RowsSound /\ RunsSound
    BY DEF KeysInv
  <1>2. RunOK(aRecon[p], aRow, aAged, aStored, aAttempt, aRealm)
    BY <1>1 DEF RunsSound
  <1>3. aRecon[p].phase = "running" /\ i \in aRecon[p].todo /\ aRow[i] # "absent" /\ A!Missing \in A!Client
    BY <1>2, CredentialsAssumed
       DEF A!SweepAbandoned, RunOK, A!ApiKeysAssumption, A!Missing, A!Client, A!Secrets
  <1>4. /\ aRow' = [aRow EXCEPT ![i] = aRow[i]] /\ aStored' = [aStored EXCEPT ![i] = aStored[i]]
        /\ aRealm' = [aRealm EXCEPT ![i] = A!Missing]
        /\ UNCHANGED <<aLock, aKeys, aAttempt, aAged>>
    BY <1>1, <1>3, RowBefore DEF A!SweepAbandoned
  <1>5. aSecrets' \in A!Secrets
    BY <1>1, <1>3 DEF A!SweepAbandoned, RowsTyped
  <1>6. /\ RowOK(i, aRow[i], aStored[i], aLock[i], aKeys[i], A!Missing, aAttempt[i], aAged)
        /\ GrowOK(i, aRow[i], aStored[i], A!Missing, aAttempt[i])
    BY <1>1, <1>3, RowBefore DEF RowOK, GrowOK
  <1>7. RowsTyped' /\ RowsSound' /\ Grows
    BY <1>1, <1>3, <1>4, <1>5, <1>6, RowBefore, OneRowOfRun
  <1>8. A!Visit(p, i, "running")
    BY DEF A!SweepAbandoned
  <1>9. PICK m \in A!Run :
           aRecon' = [aRecon EXCEPT ![p] = m] /\ VisitOf(m, aRecon[p], i, "running")
    BY <1>1, <1>3, <1>8, VisitMakes
  <1>10. RunOK(aRecon[p], aRow', aAged', aStored', aAttempt', aRealm')
    BY <1>1, <1>2, <1>7, RunGrows DEF RunsSound
  <1>11. aRealm'[i] = A!Missing
    BY <1>1, <1>4 DEF RowsTyped
  <1>12. RunOK(m, aRow', aAged', aStored', aAttempt', aRealm')
    BY <1>3, <1>9, <1>10, <1>11 DEF RunOK, VisitOf
  <1>13. RunsSound'
    BY <1>1, <1>7, <1>9, <1>12, OneRun
  <1> QED BY <1>7, <1>13 DEF KeysInv

\* sweepStalled marks a row that is still pending, or disabled already.
LEMMA SweepRowKeeps ==
    ASSUME KeysInv, NEW p \in Reconcilers, A!SweepRow(p)
    PROVE  KeysInv' /\ Grows
  <1> DEFINE i == aRecon[p].at
  <1>1. RowsTyped /\ RowsSound /\ RunsSound
    BY DEF KeysInv
  <1>2. RunOK(aRecon[p], aRow, aAged, aStored, aAttempt, aRealm)
    BY <1>1 DEF RunsSound
  <1>3. /\ aRecon[p].phase = "sweeping" /\ i \in Integrations /\ i \in aAged /\ aRow[i] # "absent"
        /\ "disabled" \in A!Statuses /\ aLock[i] = None /\ None \notin Keys
    BY <1>2, CredentialsAssumed DEF A!SweepRow, RunOK, A!Statuses, A!ApiKeysAssumption
  <1>4. /\ aRow' = [aRow EXCEPT ![i] = "disabled"] /\ aStored' = [aStored EXCEPT ![i] = aStored[i]]
        /\ aRealm' = [aRealm EXCEPT ![i] = aRealm[i]]
        /\ UNCHANGED <<aLock, aKeys, aAttempt, aAged>>
    BY <1>1, <1>3, RowBefore DEF A!SweepRow
  <1>5. aSecrets' \in A!Secrets
    BY <1>1, <1>3 DEF A!SweepRow, RowsTyped
  <1>6. /\ RowOK(i, "disabled", aStored[i], aLock[i], aKeys[i], aRealm[i], aAttempt[i], aAged)
        /\ GrowOK(i, "disabled", aStored[i], aRealm[i], aAttempt[i])
    BY <1>1, <1>3, RowBefore DEF RowOK, GrowOK
  <1>7. RowsTyped' /\ RowsSound' /\ Grows
    BY <1>1, <1>3, <1>4, <1>5, <1>6, RowBefore, OneRowOfRun
  <1>8. A!Visit(p, i, "running")
    BY DEF A!SweepRow
  <1>9. PICK m \in A!Run :
           aRecon' = [aRecon EXCEPT ![p] = m] /\ VisitOf(m, aRecon[p], i, "running")
    BY <1>1, <1>3, <1>8, VisitMakes
  <1>10. RunOK(aRecon[p], aRow', aAged', aStored', aAttempt', aRealm')
    BY <1>1, <1>2, <1>7, RunGrows DEF RunsSound
  <1>11. RunOK(m, aRow', aAged', aStored', aAttempt', aRealm')
    BY <1>3, <1>9, <1>10 DEF RunOK, VisitOf
  <1>12. RunsSound'
    BY <1>1, <1>7, <1>9, <1>11, OneRun
  <1> QED BY <1>7, <1>12 DEF KeysInv

\* The rebuilt client's secret is stored.
LEMMA RebuildStoreKeeps ==
    ASSUME KeysInv, NEW p \in Reconcilers, A!RebuildStore(p)
    PROVE  KeysInv' /\ Grows
  <1> DEFINE i == aRecon[p].at
             sec == aRecon[p].secret
  <1>1. RowsTyped /\ RowsSound /\ RunsSound
    BY DEF KeysInv
  <1>2. RunOK(aRecon[p], aRow, aAged, aStored, aAttempt, aRealm)
    BY <1>1 DEF RunsSound
  <1>3. /\ aRecon[p].phase = "ready" /\ i \in Integrations /\ aStored[i] # 0 /\ aRow[i] # "absent"
        /\ sec \in A!Secrets /\ sec # 0
    BY <1>1, <1>2 DEF A!RebuildStore, RunOK, RunsSound, A!Run
  <1>4. /\ aRow' = [aRow EXCEPT ![i] = aRow[i]] /\ aStored' = [aStored EXCEPT ![i] = sec]
        /\ aRealm' = [aRealm EXCEPT ![i] = aRealm[i]]
        /\ UNCHANGED <<aLock, aKeys, aAttempt, aAged>>
    BY <1>1, <1>3, RowBefore DEF A!RebuildStore
  <1>5. aSecrets' \in A!Secrets
    BY <1>1, <1>3 DEF A!RebuildStore, RowsTyped
  <1>6. /\ RowOK(i, aRow[i], sec, aLock[i], aKeys[i], aRealm[i], aAttempt[i], aAged)
        /\ GrowOK(i, aRow[i], sec, aRealm[i], aAttempt[i])
    BY <1>1, <1>3, RowBefore DEF RowOK, GrowOK
  <1>7. RowsTyped' /\ RowsSound' /\ Grows
    BY <1>1, <1>3, <1>4, <1>5, <1>6, RowBefore, OneRowOfRun
  <1>8. A!Visit(p, i, "running")
    BY DEF A!RebuildStore
  <1>9. PICK m \in A!Run :
           aRecon' = [aRecon EXCEPT ![p] = m] /\ VisitOf(m, aRecon[p], i, "running")
    BY <1>1, <1>3, <1>8, VisitMakes
  <1>10. RunOK(aRecon[p], aRow', aAged', aStored', aAttempt', aRealm')
    BY <1>1, <1>2, <1>7, RunGrows DEF RunsSound
  <1>11. aStored'[i] # 0
    BY <1>1, <1>3, <1>4 DEF RowsTyped
  <1>12. RunOK(m, aRow', aAged', aStored', aAttempt', aRealm')
    BY <1>3, <1>9, <1>10, <1>11 DEF RunOK, VisitOf
  <1>13. RunsSound'
    BY <1>1, <1>7, <1>9, <1>12, OneRun
  <1> QED BY <1>7, <1>13 DEF KeysInv

\* The client of an activated row is created anew.
LEMMA RebuildCreateKeeps ==
    ASSUME KeysInv, NEW p \in Reconcilers, A!RebuildCreate(p)
    PROVE  KeysInv' /\ Grows
  <1> DEFINE i == aRecon[p].at
             n == aSecrets + 1
             rl == [secret |-> n, ready |-> FALSE]
             m1 == [aRecon[p] EXCEPT !.phase = "created"]
             m == [m1 EXCEPT !.secret = n]
  <1>1. RowsTyped /\ RowsSound /\ RunsSound
    BY DEF KeysInv
  <1>2. RunOK(aRecon[p], aRow, aAged, aStored, aAttempt, aRealm)
    BY <1>1 DEF RunsSound
  <1>3. /\ aRecon[p].phase = "missing" /\ i \in Integrations /\ aStored[i] # 0 /\ aRow[i] # "absent"
        /\ n \in A!Secrets /\ n # 0 /\ rl \in A!Client
    BY <1>1, <1>2, CredentialsAssumed
       DEF A!RebuildCreate, RunOK, RowsTyped, A!Client, A!Secrets, A!ApiKeysAssumption
  <1>4. /\ aRow' = [aRow EXCEPT ![i] = aRow[i]] /\ aStored' = [aStored EXCEPT ![i] = aStored[i]]
        /\ aRealm' = [aRealm EXCEPT ![i] = rl]
        /\ UNCHANGED <<aLock, aKeys, aAttempt, aAged>>
    BY <1>1, <1>3, RowBefore DEF A!RebuildCreate
  <1>5. aSecrets' \in A!Secrets
    BY <1>1, <1>3 DEF A!RebuildCreate, RowsTyped
  <1>6. /\ RowOK(i, aRow[i], aStored[i], aLock[i], aKeys[i], rl, aAttempt[i], aAged)
        /\ GrowOK(i, aRow[i], aStored[i], rl, aAttempt[i])
    BY <1>1, <1>3, RowBefore DEF RowOK, GrowOK
  <1>7. RowsTyped' /\ RowsSound' /\ Grows
    BY <1>1, <1>3, <1>4, <1>5, <1>6, RowBefore, OneRowOfRun
  <1>8. RunOK(aRecon[p], aRow', aAged', aStored', aAttempt', aRealm')
    BY <1>1, <1>2, <1>7, RunGrows DEF RunsSound
  <1>9. aRecon' = [aRecon EXCEPT ![p] = m]
    BY <1>1 DEF A!RebuildCreate, RunsSound, A!Run
  <1>10. /\ m1 \in A!Run /\ m1.phase = "created" /\ m1.at = i /\ m1.todo = aRecon[p].todo
        /\ m1.status = aRecon[p].status /\ m1.stalled = aRecon[p].stalled
        /\ m1.orphans = aRecon[p].orphans /\ m1.failed = aRecon[p].failed
    BY <1>1 DEF RunsSound, A!Run
  <1> HIDE DEF m1, n
  <1>11. /\ m \in A!Run /\ m.phase = "created" /\ m.at = i /\ m.todo = aRecon[p].todo
         /\ m.status = aRecon[p].status /\ m.stalled = aRecon[p].stalled
         /\ m.orphans = aRecon[p].orphans /\ m.failed = aRecon[p].failed /\ m.secret = n
    BY <1>3, <1>10 DEF A!Run
  <1> HIDE DEF m
  <1>12. RunOK(m, aRow', aAged', aStored', aAttempt', aRealm')
    BY <1>3, <1>8, <1>11 DEF RunOK
  <1>13. RunsSound'
    BY <1>1, <1>7, <1>9, <1>11, <1>12, OneRun
  <1> QED BY <1>7, <1>13 DEF KeysInv

\* The new client gets its tenant and its roles.
LEMMA RebuildReadyKeeps ==
    ASSUME KeysInv, NEW p \in Reconcilers, A!RebuildReady(p)
    PROVE  KeysInv' /\ Grows
  <1> DEFINE i == aRecon[p].at
             rl == [aRealm[i] EXCEPT !.ready = TRUE]
             m == [aRecon[p] EXCEPT !.phase = "ready"]
  <1>1. RowsTyped /\ RowsSound /\ RunsSound
    BY DEF KeysInv
  <1>2. RunOK(aRecon[p], aRow, aAged, aStored, aAttempt, aRealm)
    BY <1>1 DEF RunsSound
  <1>3. /\ aRecon[p].phase = "created" /\ i \in Integrations /\ aStored[i] # 0 /\ aRow[i] # "absent"
    BY <1>2 DEF A!RebuildReady, RunOK
  <1>4. rl \in A!Client
    BY <1>1, <1>3, RowBefore DEF A!Client
  <1>5. /\ aRow' = [aRow EXCEPT ![i] = aRow[i]] /\ aStored' = [aStored EXCEPT ![i] = aStored[i]]
        /\ aRealm' = [aRealm EXCEPT ![i] = rl]
        /\ UNCHANGED <<aLock, aKeys, aAttempt, aAged>>
    BY <1>1, <1>3, RowBefore DEF A!RebuildReady
  <1>6. aSecrets' \in A!Secrets
    BY <1>1, <1>3 DEF A!RebuildReady, RowsTyped
  <1>7. /\ RowOK(i, aRow[i], aStored[i], aLock[i], aKeys[i], rl, aAttempt[i], aAged)
        /\ GrowOK(i, aRow[i], aStored[i], rl, aAttempt[i])
    BY <1>1, <1>3, RowBefore DEF RowOK, GrowOK
  <1>8. RowsTyped' /\ RowsSound' /\ Grows
    BY <1>1, <1>3, <1>5, <1>6, <1>7, <1>4, RowBefore, OneRowOfRun
  <1>9. RunOK(aRecon[p], aRow', aAged', aStored', aAttempt', aRealm')
    BY <1>1, <1>2, <1>8, RunGrows DEF RunsSound
  <1>10. aRecon' = [aRecon EXCEPT ![p] = m]
    BY <1>1 DEF A!RebuildReady, RunsSound, A!Run
  <1>11. /\ m \in A!Run /\ m.phase = "ready" /\ m.at = i /\ m.todo = aRecon[p].todo
         /\ m.status = aRecon[p].status /\ m.stalled = aRecon[p].stalled
         /\ m.orphans = aRecon[p].orphans /\ m.failed = aRecon[p].failed /\ m.secret = aRecon[p].secret
    BY <1>1 DEF RunsSound, A!Run
  <1> HIDE DEF m
  <1>12. RunOK(m, aRow', aAged', aStored', aAttempt', aRealm')
    BY <1>3, <1>9, <1>11 DEF RunOK
  <1>13. RunsSound'
    BY <1>1, <1>8, <1>10, <1>11, <1>12, OneRun
  <1> QED BY <1>8, <1>13 DEF KeysInv

\* A row whose visit failed is reported.
LEMMA VisitFailsKeeps ==
    ASSUME KeysInv, NEW p \in Reconcilers, NEW i \in Integrations, A!VisitFails(p, i)
    PROVE  KeysInv' /\ Grows
  <1> DEFINE m1 == [aRecon[p] EXCEPT !.phase = "running"]
             m2 == [m1 EXCEPT !.at = None]
             m3 == [m2 EXCEPT !.todo = aRecon[p].todo \ {i}]
             m == [m3 EXCEPT !.failed = aRecon[p].failed \cup {i}]
  <1>1. RowsTyped /\ RowsSound /\ RunsSound
    BY DEF KeysInv
  <1>2. RunOK(aRecon[p], aRow, aAged, aStored, aAttempt, aRealm)
    BY <1>1 DEF RunsSound
  <1>3. RowsTyped' /\ RowsSound' /\ Grows
    BY <1>1, SameRows DEF A!VisitFails
  <1>4. RunOK(aRecon[p], aRow', aAged', aStored', aAttempt', aRealm')
    BY <1>1, <1>2, <1>3, RunGrows DEF RunsSound
  <1>5. aRecon' = [aRecon EXCEPT ![p] = m]
    BY <1>1 DEF A!VisitFails, RunsSound, A!Run
  <1>6. /\ m1 \in A!Run /\ m1.phase = "running"
        /\ m1.status = aRecon[p].status /\ m1.stalled = aRecon[p].stalled
        /\ m1.orphans = aRecon[p].orphans
    BY <1>1 DEF RunsSound, A!Run
  <1> HIDE DEF m1
  <1>7. /\ m2 \in A!Run /\ m2.phase = "running"
        /\ m2.status = aRecon[p].status /\ m2.stalled = aRecon[p].stalled
        /\ m2.orphans = aRecon[p].orphans
    BY <1>6 DEF A!Run
  <1> HIDE DEF m2
  <1>8. /\ aRecon[p].todo \ {i} \in SUBSET Integrations
        /\ aRecon[p].failed \cup {i} \in SUBSET Integrations
    BY <1>1 DEF RunsSound, A!Run
  <1>9. /\ m3 \in A!Run /\ m3.phase = "running" /\ m3.todo = aRecon[p].todo \ {i}
        /\ m3.status = aRecon[p].status /\ m3.stalled = aRecon[p].stalled
        /\ m3.orphans = aRecon[p].orphans
    BY <1>7, <1>8 DEF A!Run
  <1> HIDE DEF m3
  <1>10. /\ m \in A!Run /\ m.phase = "running" /\ m.todo = aRecon[p].todo \ {i}
         /\ m.status = aRecon[p].status /\ m.stalled = aRecon[p].stalled
         /\ m.orphans = aRecon[p].orphans /\ m.failed = aRecon[p].failed \cup {i}
    BY <1>8, <1>9 DEF A!Run
  <1> HIDE DEF m
  <1>11. RunOK(m, aRow', aAged', aStored', aAttempt', aRealm')
    BY <1>4, <1>10 DEF RunOK
  <1>12. RunsSound'
    BY <1>1, <1>3, <1>5, <1>10, <1>11, OneRun
  <1> QED BY <1>3, <1>12 DEF KeysInv

\* A reset erases the clients, and the runs that are under way notice nothing.
LEMMA ResetKeeps ==
    ASSUME KeysInv, A!Reset
    PROVE  KeysInv' /\ Grows
  <1>1. RowsTyped /\ RowsSound /\ RunsSound
    BY DEF KeysInv
  <1>2. A!Missing \in A!Client
    BY CredentialsAssumed DEF A!ApiKeysAssumption, A!Missing, A!Client, A!Secrets
  <1>3. RowsTyped'
    BY <1>1, <1>2 DEF A!Reset, RowsTyped
  <1>4. \A i \in Integrations : aRealm'[i] = A!Missing
    BY DEF A!Reset
  <1>5. UNCHANGED <<aRow, aStored, aAged, aLock, aKeys, aAttempt, aSecrets>>
    BY DEF A!Reset
  <1>6. RowsSound'
    BY <1>1, <1>4, <1>5 DEF RowsSound, RowOK
  <1>7. Grows
    BY <1>4, <1>5 DEF Grows, GrowOK
  <1>8. ASSUME NEW p \in Reconcilers
        PROVE  /\ aRecon'[p] \in A!Run
               /\ RunOK(aRecon'[p], aRow', aAged', aStored', aAttempt', aRealm')
    <2> DEFINE h == aRecon[p]
               m == [h EXCEPT !.reset = TRUE]
    <2>1. aRecon'[p] = h \/ aRecon'[p] = m
      BY DEF A!Reset
    <2>2. h \in A!Run /\ RunOK(h, aRow', aAged', aStored', aAttempt', aRealm')
      BY <1>1, <1>7, RunGrows DEF RunsSound
    <2> HIDE DEF h
    <2>3. /\ m \in A!Run /\ m.phase = h.phase /\ m.at = h.at /\ m.todo = h.todo
          /\ m.status = h.status /\ m.stalled = h.stalled
          /\ m.orphans = h.orphans /\ m.failed = h.failed /\ m.secret = h.secret
      BY <2>2 DEF A!Run
    <2> HIDE DEF m
    <2>4. RunOK(m, aRow', aAged', aStored', aAttempt', aRealm')
      BY <2>2, <2>3 DEF RunOK
    <2> QED BY <2>1, <2>2, <2>3, <2>4
  <1>9. aRecon' = [p \in Reconcilers |-> aRecon'[p]]
    BY DEF A!Reset
  <1>10. RunsSound'
    BY <1>8, <1>9 DEF RunsSound
  <1> QED BY <1>3, <1>6, <1>7, <1>10 DEF KeysInv

\* Every step of the integrations keeps the invariant and takes nothing back.
LEMMA KeysStep ==
    ASSUME KeysInv, A!Next
    PROVE  KeysInv' /\ Grows
  <1>1. ASSUME NEW p \in Reconcilers, A!ReconcileStep(p)
        PROVE  KeysInv' /\ Grows
    BY <1>1, ReadKeeps, EndKeeps, LookKeeps, SweepClientKeeps, SweepAbandonedKeeps, SweepRowKeeps,
       RebuildCreateKeeps, RebuildReadyKeeps, RebuildStoreKeeps, VisitFailsKeeps
       DEF A!ReconcileStep
  <1> QED BY <1>1, RowsKeep, ResetKeeps DEF A!Next

\* A step of another component leaves the integrations alone.
LEMMA KeysStutter ==
    ASSUME KeysInv, UNCHANGED aVars
    PROVE  KeysInv' /\ Grows
  <1>1. RowsTyped' /\ RowsSound' /\ Grows
    BY SameRows DEF KeysInv, aVars
  <1> QED BY <1>1, RunsGrow DEF KeysInv, aVars

\* The initial state.
LEMMA KeysInit ==
    ASSUME A!Init
    PROVE  KeysInv
  <1>1. 0 \in A!Secrets /\ "absent" \in A!Statuses /\ A!Missing \in A!Client
    BY CredentialsAssumed
       DEF A!ApiKeysAssumption, A!Missing, A!Client, A!Secrets, A!Statuses
  <1>2. RowsTyped
    BY <1>1 DEF A!Init, RowsTyped, A!Attempt
  <1>3. RowsSound
    BY CredentialsAssumed DEF A!ApiKeysAssumption, A!Init, RowsSound, RowOK
  <1>4. \A p \in Reconcilers : aRecon[p] = A!NotRunning
    BY DEF A!Init
  <1>5. aRecon \in [Reconcilers -> A!Run]
    BY IdleRun DEF A!Init
  <1>6. RunOK(A!NotRunning, aRow, aAged, aStored, aAttempt, aRealm)
    BY IdleRun DEF RunOK
  <1>7. RunsSound
    BY <1>4, <1>5, <1>6 DEF RunsSound
  <1> QED BY <1>2, <1>3, <1>7 DEF KeysInv

\* Every step of every part.
LEMMA KeysAnyStep ==
    ASSUME KeysInv, [MCNext]_<<part, vars, aVars, tVars>>
    PROVE  KeysInv' /\ Grows
  BY KeysStep, KeysStutter DEF MCNext

\* The invariant of the integrations.
LEMMA KeysInvariant == MCSpec => []KeysInv
  <1>1. MCInit => KeysInv
    BY KeysInit DEF MCInit
  <1>2. KeysInv /\ [MCNext]_<<part, vars, aVars, tVars>> => KeysInv'
    BY KeysAnyStep
  <1> QED BY <1>1, <1>2, PTL DEF MCSpec

\* A live key belongs to an active integration that has a secret to exchange,
\* and every client in the realm is named by a row.
THEOREM KeysSound == MCSpec => []KeysAreSound
  <1>1. KeysInv => KeysAreSound
    BY DEF KeysInv, RowsSound, RowOK, KeysAreSound, A!LiveKeyIsUsable, A!ClientsAreNamed
  <1> QED BY <1>1, KeysInvariant, PTL

\* A disable, by an administrator or a sweep, is never undone.
THEOREM DisablesStand == MCSpec => DisableStands
  <1>1. KeysInv /\ [MCNext]_<<part, vars, aVars, tVars>> =>
           [\A i \in Integrations : aRow[i] = "disabled" => aRow'[i] = "disabled"]_(A!vars)
    BY KeysAnyStep DEF Grows, GrowOK
  <1> QED BY <1>1, KeysInvariant, PTL DEF MCSpec, DisableStands, A!DisableStands

\* A run of reconcileApiKeyIntegrations that returns has deleted every orphan it
\* saw and does not report.
THEOREM OrphansGone == MCSpec => OrphansAreSwept
  <1>1. KeysInv =>
           [\A p \in Reconcilers :
               aRecon[p].phase = "running" /\ aRecon[p].todo = {} /\ aRecon'[p] = A!NotRunning
               => \A i \in aRecon[p].orphans \ aRecon[p].failed :
                     aRealm[i] = A!Missing]_(A!vars)
    BY DEF KeysInv, RunsSound, RunOK
  <1> QED BY <1>1, KeysInvariant, PTL DEF MCSpec, OrphansAreSwept, A!OrphansAreSwept
-----------------------------------------------------------------------------
(* Refreshes and callbacks of an installation, while nobody rotates keys   *)

TokensTyped ==
    /\ inst \in [n : 0..MaxInst, live : BOOLEAN]
    /\ tRow \in T!TokenRow \cup {None}
    /\ tLock \in Callers \cup {None}
    /\ provider \in [Flows -> T!Grant]
    /\ caller \in [Callers -> T!Caller]
    /\ callback \in [Callbacks -> T!Callback]
    /\ lost \in SUBSET Flows
    /\ sweep.running = FALSE /\ drained = FALSE

\* A caller that is inside its transaction has the lock; the refresh token it
\* presents is the one the provider expects, unless a replacement was lost
CallerOK(c, m, lk, pv, ls) ==
    /\ m.phase \in {"locked", "exchanging", "exchanged"} => lk = c
    /\ m.phase \notin {"exchanging", "exchanged"} => m.got = None
    /\ m.phase \in {"exchanging", "exchanged"} =>
          m.got \in T!TokenRow /\ pv[m.got.grant].state # "none"
    /\ m.phase = "exchanging" =>
          m.got.grant \in ls \/ m.got.serial = pv[m.got.grant].serial
    /\ m.phase = "exchanged" => m.got.serial = pv[m.got.grant].serial

CallersSound == \A c \in Callers : CallerOK(c, caller[c], tLock, provider, lost)

\* A callback that exchanged its code has the first token of a grant that nobody
\* else has seen
CallbackOK(m, rw, pv, cl) ==
    m.phase = "exchanged" =>
        /\ m.got \in T!TokenRow /\ m.got.grant = m.flow
        /\ pv[m.flow].state # "none" /\ pv[m.flow].serial = m.got.serial
        /\ rw # None => rw.grant # m.flow
        /\ \A c \in Callers :
              cl[c].phase \in {"exchanging", "exchanged"} => cl[c].got.grant # m.flow

CallbacksSound ==
    /\ \A k \in Callbacks : CallbackOK(callback[k], tRow, provider, caller)
    /\ \A j, k \in Callbacks :
          /\ callback[j].phase = "exchanged" /\ callback[k].phase = "exchanged"
          /\ callback[j].flow = callback[k].flow
          => j = k

\* The stored token set is of an installation that exists and of a grant that
\* was given
StoredSound ==
    /\ ~inst.live => tRow = None
    /\ tRow # None => provider[tRow.grant].state # "none"
    /\ T!StoredIsNewest

TokensInv == TokensTyped /\ CallersSound /\ CallbacksSound /\ StoredSound

\* What the assumptions give.
LEMMA TokensGiven ==
    /\ None \notin Callers /\ None \notin T!TokenRow
    /\ MaxSerial \in Nat \ {0} /\ MaxInst \in Nat \ {0}
  BY CredentialsAssumed DEF T!TokensAssumption

\* The callers after a step of one of them: no other caller is inside its
\* transaction, or the step leaves what they depend on alone.
LEMMA OneCaller ==
    ASSUME TokensTyped, CallersSound, NEW c \in Callers, NEW m \in T!Caller,
           caller' = [caller EXCEPT ![c] = m],
           CallerOK(c, m, tLock', provider', lost'),
           tLock \in {None, c} \/ UNCHANGED <<tLock, provider, lost>>
    PROVE  caller' \in [Callers -> T!Caller] /\ caller'[c] = m /\ CallersSound'
  <1>1. /\ caller' \in [Callers -> T!Caller] /\ caller'[c] = m
        /\ \A d \in Callers : d # c => caller'[d] = caller[d]
    BY DEF TokensTyped
  <1>2. ASSUME NEW d \in Callers, d # c
        PROVE  CallerOK(d, caller[d], tLock', provider', lost')
    <2>1. CallerOK(d, caller[d], tLock, provider, lost)
      BY DEF CallersSound
    <2>2. CASE UNCHANGED <<tLock, provider, lost>>
      BY <2>1, <2>2
    <2>3. CASE tLock \in {None, c}
      BY <1>2, <2>1, <2>3, TokensGiven DEF CallerOK
    <2> QED BY <2>2, <2>3
  <1>3. \A d \in Callers : CallerOK(d, caller'[d], tLock', provider', lost')
    BY <1>1, <1>2
  <1> QED BY <1>1, <1>3 DEF CallersSound

\* The callbacks after a step of something else: what was handed out stays
\* theirs.
LEMMA CallbacksStay ==
    ASSUME CallbacksSound, callback' = callback,
           ASSUME NEW k \in Callbacks, callback[k].phase = "exchanged"
           PROVE  /\ provider'[callback[k].flow].state # "none"
                  /\ provider'[callback[k].flow].serial = provider[callback[k].flow].serial
                  /\ tRow' # None => tRow'.grant # callback[k].flow
                  /\ \A c \in Callers :
                        caller'[c].phase \in {"exchanging", "exchanged"} =>
                        caller'[c].got.grant # callback[k].flow
    PROVE  CallbacksSound'
  <1>1. ASSUME NEW k \in Callbacks
        PROVE  CallbackOK(callback[k], tRow', provider', caller')
    <2>1. CallbackOK(callback[k], tRow, provider, caller)
      BY DEF CallbacksSound
    <2> QED BY <2>1 DEF CallbackOK
  <1> QED BY <1>1 DEF CallbacksSound

\* A caller that leaves the stored tokens and the provider alone.  If it gives up
\* a replacement of the stored token, that grant is lost.
LEMMA CallerMoves ==
    ASSUME TokensInv, NEW c \in Callers, NEW m \in T!Caller,
           caller' = [caller EXCEPT ![c] = m],
           UNCHANGED <<inst, tRow, provider, callback, sweep, drained>>,
           tLock' \in Callers \cup {None}, lost' \in SUBSET Flows, lost \subseteq lost',
           tLock \in {None, c} \/ UNCHANGED <<tLock, provider, lost>>,
           CallerOK(c, m, tLock', provider, lost'),
           m.phase # "exchanged", m.phase = "exchanging" => tRow # None /\ m.got = tRow,
           /\ caller[c].phase = "exchanged" /\ tRow # None
           /\ tRow.grant = caller[c].got.grant /\ tRow.serial # caller[c].got.serial
           => tRow.grant \in lost'
    PROVE  TokensInv'
  <1>1. TokensTyped /\ CallersSound /\ CallbacksSound /\ StoredSound
    BY DEF TokensInv
  <1>2. caller' \in [Callers -> T!Caller] /\ caller'[c] = m /\ CallersSound'
    BY <1>1, OneCaller
  <1>3. TokensTyped'
    BY <1>1, <1>2 DEF TokensTyped
  <1>4. \A d \in Callers : d # c => caller'[d] = caller[d]
    BY <1>1 DEF TokensTyped
  <1>5. ASSUME NEW k \in Callbacks, callback[k].phase = "exchanged"
        PROVE  /\ provider'[callback[k].flow].state # "none"
               /\ provider'[callback[k].flow].serial = provider[callback[k].flow].serial
               /\ tRow' # None => tRow'.grant # callback[k].flow
               /\ \A d \in Callers :
                     caller'[d].phase \in {"exchanging", "exchanged"} =>
                     caller'[d].got.grant # callback[k].flow
    BY <1>1, <1>2, <1>4, <1>5 DEF CallbacksSound, CallbackOK
  <1>6. CallbacksSound'
    BY <1>1, <1>5, CallbacksStay
  <1>7. CallerOK(c, caller[c], tLock, provider, lost)
    BY <1>1 DEF CallersSound
  <1>8. StoredSound'
    <2>1. SUFFICES ASSUME tRow # None, tRow.grant \notin lost'
                   PROVE  \/ tRow.serial = provider[tRow.grant].serial
                          \/ \E d \in Callers :
                                /\ caller'[d].phase = "exchanged"
                                /\ caller'[d].got.grant = tRow.grant
                                /\ caller'[d].got.serial = provider[tRow.grant].serial
      BY <1>1 DEF StoredSound, T!StoredIsNewest
    <2>2. \/ tRow.serial = provider[tRow.grant].serial
          \/ \E d \in Callers :
                /\ caller[d].phase = "exchanged"
                /\ caller[d].got.grant = tRow.grant
                /\ caller[d].got.serial = provider[tRow.grant].serial
      BY <1>1, <2>1 DEF StoredSound, T!StoredIsNewest
    <2> QED BY <1>4, <1>7, <2>1, <2>2 DEF CallerOK
  <1> QED BY <1>2, <1>3, <1>6, <1>8 DEF TokensInv

\* withLockedRow.
LEMMA LockHolds ==
    ASSUME TokensInv, NEW c \in Callers, T!Lock(c)
    PROVE  TokensInv'
  <1> DEFINE f == IF inst.live THEN "locked" ELSE "consent"
             m == [caller[c] EXCEPT !.phase = f]
  <1>1. TokensTyped /\ CallersSound
    BY DEF TokensInv
  <1>2. caller[c] \in T!Caller /\ CallerOK(c, caller[c], tLock, provider, lost)
    BY <1>1 DEF TokensTyped, CallersSound
  <1>3. /\ UNCHANGED <<inst, tRow, provider, callback, sweep, lost, drained>>
        /\ caller[c].phase = "idle" /\ tLock = None
        /\ tLock' = IF inst.live THEN c ELSE tLock
        /\ caller' = [caller EXCEPT ![c] = m]
    BY <1>1 DEF T!Lock, T!Unlocked, TokensTyped
  <1>4. m \in T!Caller /\ m.phase \in {"locked", "consent"} /\ m.got = caller[c].got
    BY <1>2 DEF T!Caller
  <1>5. m.phase = "locked" => tLock' = c
    BY <1>2, <1>3 DEF T!Caller
  <1> HIDE DEF m
  <1>6. CallerOK(c, m, tLock', provider, lost')
    BY <1>2, <1>3, <1>4, <1>5 DEF CallerOK
  <1>7. lost' \in SUBSET Flows /\ tLock' \in Callers \cup {None}
    BY <1>1, <1>3 DEF TokensTyped
  <1> QED BY <1>3, <1>4, <1>6, <1>7, CallerMoves

\* A transaction that ends without a replacement.
LEMMA Ends ==
    ASSUME TokensInv, NEW c \in Callers, NEW f \in {"done", "consent"}, T!End(c, f),
           caller[c].phase \in {"locked", "exchanging", "exchanged"},
           UNCHANGED <<inst, tRow, provider, callback, sweep, drained>>,
           lost' \in SUBSET Flows, lost \subseteq lost',
           /\ caller[c].phase = "exchanged" /\ tRow # None
           /\ tRow.grant = caller[c].got.grant /\ tRow.serial # caller[c].got.serial
           => tRow.grant \in lost'
    PROVE  TokensInv'
  <1> DEFINE m == [phase |-> f, got |-> None]
  <1>1. m \in T!Caller /\ m.phase = f /\ m.got = None
    BY DEF T!Caller
  <1>2. caller' = [caller EXCEPT ![c] = m] /\ tLock' = None
    BY DEF T!End
  <1> HIDE DEF m
  <1>3. CallerOK(c, m, tLock', provider, lost')
    BY <1>1 DEF CallerOK
  <1>4. CallerOK(c, caller[c], tLock, provider, lost)
    BY DEF TokensInv, CallersSound
  <1>5. tLock \in {None, c}
    BY <1>4 DEF CallerOK
  <1>6. tLock' \in Callers \cup {None} /\ m.phase # "exchanged" /\ m.phase # "exchanging"
    BY <1>1, <1>2
  <1> QED BY <1>1, <1>2, <1>3, <1>5, <1>6, CallerMoves

\* The tokens are read inside the lock.
LEMMA DecideHolds ==
    ASSUME TokensInv, NEW c \in Callers, T!Decide(c)
    PROVE  TokensInv'
  <1>1. TokensTyped /\ CallersSound /\ StoredSound
    BY DEF TokensInv
  <1>2. /\ UNCHANGED <<inst, tRow, provider, callback, sweep, lost, drained>>
        /\ caller[c].phase = "locked"
    BY DEF T!Decide
  <1>3. lost' \in SUBSET Flows /\ lost \subseteq lost'
    BY <1>1, <1>2 DEF TokensTyped
  <1>4. CASE T!End(c, "consent") \/ T!End(c, "done")
    BY <1>2, <1>3, <1>4, Ends
  <1>5. CASE ~(T!End(c, "consent") \/ T!End(c, "done"))
    <2> DEFINE m == [phase |-> "exchanging", got |-> tRow]
    <2>1. tRow # None /\ caller' = [caller EXCEPT ![c] = m] /\ tLock' = tLock
      BY <1>5 DEF T!Decide
    <2>2. m \in T!Caller /\ m.phase = "exchanging" /\ m.got = tRow
      BY <1>1, <2>1 DEF T!Caller, TokensTyped
    <2> HIDE DEF m
    <2>3. tLock = c
      BY <1>1, <1>2 DEF CallersSound, CallerOK
    <2>4. \A d \in Callers : caller[d].phase # "exchanged"
      BY <1>1, <1>2, <2>3 DEF CallersSound, CallerOK
    <2>5. tRow.grant \in lost \/ tRow.serial = provider[tRow.grant].serial
      BY <1>1, <2>1, <2>4 DEF StoredSound, T!StoredIsNewest
    <2>6. provider[tRow.grant].state # "none" /\ tRow \in T!TokenRow
      BY <1>1, <2>1 DEF StoredSound, TokensTyped
    <2>7. CallerOK(c, m, tLock', provider, lost')
      BY <1>2, <2>1, <2>2, <2>3, <2>5, <2>6 DEF CallerOK
    <2>8. tLock' \in Callers \cup {None} /\ m.phase # "exchanged"
      BY <2>1, <2>2, <2>3
    <2> QED BY <1>2, <1>3, <2>1, <2>2, <2>3, <2>7, <2>8, CallerMoves
  <1> QED BY <1>4, <1>5

\* The provider refuses the token, or the call fails.
LEMMA FailHolds ==
    ASSUME TokensInv, NEW c \in Callers, T!RefreshRefused(c) \/ T!Fail(c)
    PROVE  TokensInv'
  <1>1. TokensTyped /\ CallersSound
    BY DEF TokensInv
  <1>2. CallerOK(c, caller[c], tLock, provider, lost)
    BY <1>1 DEF CallersSound
  <1>3. CASE T!RefreshRefused(c)
    <2>1. /\ UNCHANGED <<inst, tRow, provider, callback, sweep, lost, drained>>
          /\ caller[c].phase = "exchanging" /\ T!End(c, "consent")
      BY <1>3 DEF T!RefreshRefused
    <2>2. lost' \in SUBSET Flows /\ lost \subseteq lost'
      BY <1>1, <2>1 DEF TokensTyped
    <2> QED BY <2>1, <2>2, Ends
  <1>4. CASE T!Fail(c)
    <2>1. /\ UNCHANGED <<inst, tRow, provider, callback, sweep, drained>>
          /\ caller[c].phase \in {"locked", "exchanging", "exchanged"} /\ T!End(c, "done")
      BY <1>4 DEF T!Fail
    <2>2. /\ caller[c].phase = "exchanged" /\ tRow # None
          /\ tRow.grant = caller[c].got.grant /\ tRow.serial # caller[c].got.serial
          => tRow.grant \in lost'
      BY <1>4 DEF T!Fail
    <2>3. caller[c].phase = "exchanged" => caller[c].got.grant \in Flows
      BY <1>2 DEF CallerOK, T!TokenRow
    <2>4. lost' \in SUBSET Flows /\ lost \subseteq lost'
      BY <1>1, <1>4, <2>3 DEF T!Fail, TokensTyped
    <2> QED BY <2>1, <2>2, <2>4, Ends
  <1> QED BY <1>3, <1>4

\* Another call.
LEMMA AgainHolds ==
    ASSUME TokensInv, NEW c \in Callers, T!Again(c)
    PROVE  TokensInv'
  <1> DEFINE m == [caller[c] EXCEPT !.phase = "idle"]
  <1>1. TokensTyped /\ CallersSound
    BY DEF TokensInv
  <1>2. caller[c] \in T!Caller /\ CallerOK(c, caller[c], tLock, provider, lost)
    BY <1>1 DEF TokensTyped, CallersSound
  <1>3. /\ UNCHANGED <<inst, tRow, tLock, provider, callback, sweep, lost, drained>>
        /\ caller[c].phase \in {"done", "consent"}
        /\ caller' = [caller EXCEPT ![c] = m]
    BY <1>1 DEF T!Again, TokensTyped
  <1>4. m \in T!Caller /\ m.phase = "idle" /\ m.got = caller[c].got
    BY <1>2 DEF T!Caller
  <1> HIDE DEF m
  <1>5. CallerOK(c, m, tLock', provider, lost')
    BY <1>2, <1>3, <1>4 DEF CallerOK
  <1>6. lost' \in SUBSET Flows /\ tLock' \in Callers \cup {None}
    BY <1>1, <1>3 DEF TokensTyped
  <1> QED BY <1>3, <1>4, <1>5, <1>6, CallerMoves

\* The provider replaces the refresh token of a grant that is in use: no callback
\* has a token of it.
LEMMA Replaces ==
    ASSUME TokensInv, NEW c \in Callers, NEW m \in T!Caller, NEW n \in 0..MaxSerial,
           caller[c].phase = "exchanging",
           caller' = [caller EXCEPT ![c] = m],
           provider' = [provider EXCEPT ![caller[c].got.grant].serial = n],
           UNCHANGED <<inst, tRow, callback, sweep, drained>>,
           tLock' \in Callers \cup {None}, lost' \in SUBSET Flows, lost \subseteq lost',
           CallerOK(c, m, tLock', provider', lost'),
           m.phase \in {"exchanging", "exchanged"} => m.got.grant = caller[c].got.grant,
           \/ m.phase = "exchanged" /\ m.got.serial = n
           \/ caller[c].got.grant \in lost'
           \/ n = provider[caller[c].got.grant].serial
    PROVE  TokensInv'
  <1> DEFINE g == caller[c].got.grant
  <1>1. TokensTyped /\ CallersSound /\ CallbacksSound /\ StoredSound
    BY DEF TokensInv
  <1>2. /\ CallerOK(c, caller[c], tLock, provider, lost)
        /\ \A d \in Callers : CallerOK(d, caller[d], tLock, provider, lost)
    BY <1>1 DEF CallersSound
  <1>3. tLock = c /\ g \in Flows
    BY <1>2 DEF CallerOK, T!TokenRow
  <1> HIDE DEF g
  <1>4. provider' = [provider EXCEPT ![g].serial = n]
    BY DEF g
  <1>5. /\ provider' \in [Flows -> T!Grant]
        /\ provider'[g].serial = n /\ provider'[g].state = provider[g].state
        /\ \A f \in Flows : f # g => provider'[f] = provider[f]
    <2> DEFINE pg == [provider[g] EXCEPT !.serial = n]
    <2>1. provider \in [Flows -> T!Grant] /\ provider[g] \in T!Grant
      BY <1>1, <1>3 DEF TokensTyped
    <2>2. pg \in T!Grant /\ pg.serial = n /\ pg.state = provider[g].state
      BY <2>1 DEF T!Grant
    <2>3. provider' = [provider EXCEPT ![g] = pg]
      BY <1>4
    <2> HIDE DEF pg
    <2> QED BY ONLY <1>3, <2>1, <2>2, <2>3
  <1>6. caller' \in [Callers -> T!Caller] /\ caller'[c] = m /\ CallersSound'
    BY <1>1, <1>3, OneCaller
  <1>7. TokensTyped'
    BY <1>1, <1>5, <1>6 DEF TokensTyped
  <1>8. \A d \in Callers : d # c => caller'[d] = caller[d]
    BY <1>1 DEF TokensTyped
  <1>9. ASSUME NEW k \in Callbacks, callback[k].phase = "exchanged"
        PROVE  /\ provider'[callback[k].flow].state # "none"
               /\ provider'[callback[k].flow].serial = provider[callback[k].flow].serial
               /\ tRow' # None => tRow'.grant # callback[k].flow
               /\ \A d \in Callers :
                     caller'[d].phase \in {"exchanging", "exchanged"} =>
                     caller'[d].got.grant # callback[k].flow
    <2>1. CallbackOK(callback[k], tRow, provider, caller) /\ callback[k].flow \in Flows
      BY <1>1 DEF CallbacksSound, TokensTyped, T!Callback
    <2>2. callback[k].flow # g
      BY <1>9, <2>1 DEF CallbackOK, g
    <2> QED BY <1>5, <1>6, <1>8, <1>9, <2>1, <2>2 DEF CallbackOK, g
  <1>10. CallbacksSound'
    BY <1>1, <1>9, CallbacksStay
  <1>11. StoredSound'
    <2>1. tRow # None => tRow.grant \in Flows
      BY <1>1 DEF TokensTyped, T!TokenRow
    <2>2. tRow # None => provider'[tRow.grant].state # "none"
      BY <1>1, <1>5, <2>1 DEF StoredSound
    <2>3. ASSUME tRow # None, tRow.grant \notin lost'
          PROVE  \/ tRow.serial = provider'[tRow.grant].serial
                 \/ \E d \in Callers :
                       /\ caller'[d].phase = "exchanged"
                       /\ caller'[d].got.grant = tRow.grant
                       /\ caller'[d].got.serial = provider'[tRow.grant].serial
      <3>1. \A d \in Callers : caller[d].phase # "exchanged"
        BY <1>2, <1>3 DEF CallerOK
      <3>2. tRow.serial = provider[tRow.grant].serial
        BY <1>1, <2>3, <3>1 DEF StoredSound, T!StoredIsNewest
      <3>3. CASE tRow.grant # g
        BY <1>5, <2>1, <2>3, <3>2, <3>3
      <3>4. CASE tRow.grant = g /\ m.phase = "exchanged" /\ m.got.serial = n
        BY <1>5, <1>6, <3>4 DEF g
      <3>5. CASE tRow.grant = g /\ n = provider[g].serial
        BY <1>5, <3>2, <3>5
      <3> QED BY <2>3, <3>3, <3>4, <3>5 DEF g
    <2> QED BY <1>1, <2>2, <2>3 DEF StoredSound, T!StoredIsNewest
  <1> QED BY <1>6, <1>7, <1>10, <1>11 DEF TokensInv

\* refreshOAuthTokenSet with an answer.
LEMMA RefreshHolds ==
    ASSUME TokensInv, NEW c \in Callers, NEW n \in 0..MaxSerial, NEW fresh \in BOOLEAN,
           T!Refresh(c, n, fresh)
    PROVE  TokensInv'
  <1> DEFINE g == caller[c].got.grant
             tk == [grant |-> g, serial |-> n, fresh |-> fresh, key |-> "active"]
             m == [phase |-> "exchanged", got |-> tk]
  <1>1. TokensTyped /\ CallersSound
    BY DEF TokensInv
  <1>2. CallerOK(c, caller[c], tLock, provider, lost)
    BY <1>1 DEF CallersSound
  <1>3. /\ UNCHANGED <<inst, tRow, tLock, callback, sweep, lost, drained>>
        /\ caller[c].phase = "exchanging" /\ caller' = [caller EXCEPT ![c] = m]
        /\ provider' = [provider EXCEPT ![g].serial = n]
    BY DEF T!Refresh
  <1>4. tLock = c /\ g \in Flows /\ provider[g].state # "none"
    BY <1>2, <1>3 DEF CallerOK, T!TokenRow
  <1> HIDE DEF g
  <1>5. tk \in T!TokenRow /\ tk.grant = g /\ tk.serial = n
    BY <1>4 DEF T!TokenRow
  <1> HIDE DEF tk
  <1>6. m \in T!Caller /\ m.phase = "exchanged" /\ m.got = tk
    BY <1>5 DEF T!Caller
  <1> HIDE DEF m
  <1>7. provider'[g].serial = n /\ provider'[g].state = provider[g].state
    BY <1>1, <1>3, <1>4 DEF TokensTyped, T!Grant
  <1>8. CallerOK(c, m, tLock', provider', lost')
    BY <1>3, <1>4, <1>5, <1>6, <1>7 DEF CallerOK
  <1>9. lost' \in SUBSET Flows /\ lost \subseteq lost' /\ tLock' \in Callers \cup {None}
    BY <1>1, <1>3 DEF TokensTyped
  <1>10. m.got.grant = caller[c].got.grant /\ m.got.serial = n
    BY <1>5, <1>6 DEF g
  <1>11. provider' = [provider EXCEPT ![caller[c].got.grant].serial = n]
    BY <1>3 DEF g
  <1> QED BY <1>3, <1>6, <1>8, <1>9, <1>10, <1>11, Replaces

\* The answer is lost: so is the grant, if its token was replaced.
LEMMA AnswerLostHolds ==
    ASSUME TokensInv, NEW c \in Callers, NEW n \in 0..MaxSerial, T!AnswerLost(c, n)
    PROVE  TokensInv'
  <1> DEFINE m == [phase |-> "done", got |-> None]
  <1>1. TokensTyped /\ CallersSound
    BY DEF TokensInv
  <1>2. CallerOK(c, caller[c], tLock, provider, lost)
    BY <1>1 DEF CallersSound
  <1>3. /\ UNCHANGED <<inst, tRow, callback, sweep, drained>> /\ tLock' = None
        /\ caller[c].phase = "exchanging" /\ caller' = [caller EXCEPT ![c] = m]
        /\ provider' = [provider EXCEPT ![caller[c].got.grant].serial = n]
        /\ lost' = IF n = caller[c].got.serial THEN lost ELSE lost \cup {caller[c].got.grant}
    BY DEF T!AnswerLost, T!End
  <1>4. caller[c].got.grant \in Flows
    BY <1>2, <1>3 DEF CallerOK, T!TokenRow
  <1>5. lost' \in SUBSET Flows /\ lost \subseteq lost' /\ tLock' \in Callers \cup {None}
    BY <1>1, <1>3, <1>4 DEF TokensTyped
  <1>6. m \in T!Caller /\ m.phase = "done" /\ m.got = None
    BY DEF T!Caller
  <1> HIDE DEF m
  <1>7. CallerOK(c, m, tLock', provider', lost')
    BY <1>6 DEF CallerOK
  <1>8. \/ caller[c].got.grant \in lost'
        \/ n = provider[caller[c].got.grant].serial
    BY <1>2, <1>3 DEF CallerOK
  <1>9. m.phase \in {"exchanging", "exchanged"} => m.got.grant = caller[c].got.grant
    BY <1>6
  <1> QED BY <1>3, <1>5, <1>6, <1>7, <1>8, <1>9, Replaces

\* persist writes the replacement.
LEMMA PersistHolds ==
    ASSUME TokensInv, NEW c \in Callers, T!Persist(c)
    PROVE  TokensInv'
  <1> DEFINE m == [phase |-> "done", got |-> None]
  <1>1. TokensTyped /\ CallersSound /\ CallbacksSound /\ StoredSound
    BY DEF TokensInv
  <1>2. CallerOK(c, caller[c], tLock, provider, lost)
    BY <1>1 DEF CallersSound
  <1>3. /\ UNCHANGED <<inst, provider, callback, sweep, lost, drained>> /\ tLock' = None
        /\ caller[c].phase = "exchanged" /\ caller' = [caller EXCEPT ![c] = m]
        /\ tRow' = IF tRow = None THEN None ELSE caller[c].got
    BY DEF T!Persist, T!End, T!Persisted
  <1>4. m \in T!Caller /\ m.phase = "done" /\ m.got = None
    BY DEF T!Caller
  <1> HIDE DEF m
  <1>5. CallerOK(c, m, tLock', provider', lost')
    BY <1>4 DEF CallerOK
  <1>6. tLock = c
    BY <1>2, <1>3 DEF CallerOK
  <1>7. caller' \in [Callers -> T!Caller] /\ caller'[c] = m /\ CallersSound'
    BY <1>1, <1>3, <1>4, <1>5, <1>6, OneCaller
  <1>8. /\ caller[c].got \in T!TokenRow /\ provider[caller[c].got.grant].state # "none"
        /\ caller[c].got.serial = provider[caller[c].got.grant].serial
    BY <1>2, <1>3 DEF CallerOK
  <1>9. TokensTyped'
    BY <1>1, <1>3, <1>7, <1>8 DEF TokensTyped
  <1>10. \A d \in Callers : d # c => caller'[d] = caller[d]
    BY <1>1, <1>3 DEF TokensTyped
  <1>11. ASSUME NEW k \in Callbacks, callback[k].phase = "exchanged"
         PROVE  /\ provider'[callback[k].flow].state # "none"
                /\ provider'[callback[k].flow].serial = provider[callback[k].flow].serial
                /\ tRow' # None => tRow'.grant # callback[k].flow
                /\ \A d \in Callers :
                      caller'[d].phase \in {"exchanging", "exchanged"} =>
                      caller'[d].got.grant # callback[k].flow
    BY <1>1, <1>3, <1>4, <1>7, <1>10, <1>11 DEF CallbacksSound, CallbackOK
  <1>12. CallbacksSound'
    BY <1>1, <1>3, <1>11, CallbacksStay
  <1>13. StoredSound'
    BY <1>1, <1>3, <1>8 DEF StoredSound, T!StoredIsNewest
  <1> QED BY <1>7, <1>9, <1>12, <1>13 DEF TokensInv

\* A callback that has not exchanged its code, or has no more use for it.
LEMMA CallbackMoves ==
    ASSUME TokensInv, NEW k \in Callbacks, NEW m \in T!Callback,
           callback' = [callback EXCEPT ![k] = m], m.phase # "exchanged",
           UNCHANGED <<inst, tRow, tLock, provider, caller, sweep, lost, drained>>
    PROVE  TokensInv'
  <1>1. TokensTyped /\ CallersSound /\ CallbacksSound /\ StoredSound
    BY DEF TokensInv
  <1>2. /\ callback' \in [Callbacks -> T!Callback] /\ callback'[k] = m
        /\ \A j \in Callbacks : j # k => callback'[j] = callback[j]
    BY <1>1 DEF TokensTyped
  <1>3. TokensTyped'
    BY <1>1, <1>2 DEF TokensTyped
  <1>4. CallbacksSound'
    BY <1>1, <1>2 DEF CallbacksSound, CallbackOK
  <1>5. CallersSound' /\ StoredSound'
    BY <1>1 DEF CallersSound, StoredSound, T!StoredIsNewest
  <1> QED BY <1>3, <1>4, <1>5 DEF TokensInv

\* consumeAuthorizationState.
LEMMA ClaimHolds ==
    ASSUME TokensInv, NEW k \in Callbacks, T!Claim(k)
    PROVE  TokensInv'
  <1> DEFINE f == IF inst.live THEN "claimed" ELSE "over"
             m1 == [callback[k] EXCEPT !.inst = inst.n]
             m == [m1 EXCEPT !.phase = f]
  <1>1. TokensTyped /\ callback[k] \in T!Callback /\ inst.n \in 0..MaxInst
    BY DEF TokensInv, TokensTyped
  <1>2. m1 \in T!Callback
    BY <1>1 DEF T!Callback
  <1>3. callback' = [callback EXCEPT ![k] = m]
    BY <1>1 DEF T!Claim, TokensTyped
  <1> HIDE DEF m1
  <1>4. m \in T!Callback /\ m.phase # "exchanged"
    BY <1>2 DEF T!Callback
  <1> HIDE DEF m
  <1> QED BY <1>3, <1>4, CallbackMoves DEF T!Claim

\* A state that cannot be claimed, or a callback that fails.
LEMMA CallbackEndHolds ==
    ASSUME TokensInv, NEW k \in Callbacks, T!Refuse(k) \/ T!CallbackFails(k)
    PROVE  TokensInv'
  <1>1. TokensTyped /\ callback[k] \in T!Callback
    BY DEF TokensInv, TokensTyped
  <1>2. PICK f \in {"refused", "over"} : callback' = [callback EXCEPT ![k].phase = f]
    BY DEF T!Refuse, T!CallbackFails
  <1> DEFINE m == [callback[k] EXCEPT !.phase = f]
  <1>3. callback' = [callback EXCEPT ![k] = m]
    BY <1>1, <1>2 DEF TokensTyped
  <1>4. m \in T!Callback /\ m.phase # "exchanged"
    BY <1>1 DEF T!Callback
  <1> HIDE DEF m
  <1> QED BY <1>3, <1>4, CallbackMoves DEF T!Refuse, T!CallbackFails

\* exchangeAuthorizationCode: the grant is new.
LEMMA ExchangeHolds ==
    ASSUME TokensInv, NEW k \in Callbacks, NEW n \in 0..1, NEW fresh \in BOOLEAN,
           T!ExchangeCode(k, n, fresh)
    PROVE  TokensInv'
  <1> DEFINE f == callback[k].flow
             tk == [grant |-> f, serial |-> n, fresh |-> fresh, key |-> "active"]
             m1 == [callback[k] EXCEPT !.phase = "exchanged"]
             m == [m1 EXCEPT !.got = tk]
             pg == [state |-> "live", serial |-> n]
  <1>1. TokensTyped /\ CallersSound /\ CallbacksSound /\ StoredSound
    BY DEF TokensInv
  <1>2. callback[k] \in T!Callback /\ f \in Flows /\ n \in 0..MaxSerial
    BY <1>1, TokensGiven DEF TokensTyped, T!Callback
  <1>3. /\ UNCHANGED <<inst, tRow, tLock, caller, sweep, lost, drained>>
        /\ provider[f].state = "none"
        /\ provider' = [provider EXCEPT ![f] = pg]
        /\ callback' = [callback EXCEPT ![k] = m]
    BY <1>1 DEF T!ExchangeCode, TokensTyped
  <1>4. tk \in T!TokenRow /\ tk.grant = f /\ tk.serial = n
    BY <1>2 DEF T!TokenRow
  <1> HIDE DEF tk
  <1>5. m1 \in T!Callback /\ m1.flow = f /\ m1.phase = "exchanged"
    BY <1>2 DEF T!Callback
  <1> HIDE DEF m1
  <1>6. m \in T!Callback /\ m.flow = f /\ m.phase = "exchanged" /\ m.got = tk
    BY <1>4, <1>5 DEF T!Callback
  <1> HIDE DEF m
  <1>7. pg \in T!Grant /\ pg.state = "live" /\ pg.serial = n
    BY <1>2 DEF T!Grant
  <1> HIDE DEF pg
  <1>8. /\ provider' \in [Flows -> T!Grant] /\ provider'[f] = pg
        /\ \A g \in Flows : g # f => provider'[g] = provider[g]
    BY ONLY <1>1, <1>2, <1>3, <1>7 DEF TokensTyped
  <1>9. /\ callback' \in [Callbacks -> T!Callback] /\ callback'[k] = m
        /\ \A j \in Callbacks : j # k => callback'[j] = callback[j]
    BY ONLY <1>1, <1>3, <1>6, k \in Callbacks DEF TokensTyped
  <1>10. TokensTyped'
    BY <1>1, <1>3, <1>8, <1>9 DEF TokensTyped
  <1>11. \A c \in Callers :
            caller[c].phase \in {"exchanging", "exchanged"} =>
            caller[c].got.grant \in Flows /\ caller[c].got.grant # f
    BY <1>1, <1>3 DEF CallersSound, CallerOK, T!TokenRow
  <1>12. tRow # None => tRow.grant \in Flows /\ tRow.grant # f
    BY <1>1, <1>3 DEF StoredSound, TokensTyped, T!TokenRow
  <1>13. CallersSound'
    BY <1>1, <1>3, <1>8, <1>11 DEF CallersSound, CallerOK
  <1>14. StoredSound'
    BY <1>1, <1>3, <1>8, <1>12 DEF StoredSound, T!StoredIsNewest
  <1>15. ASSUME NEW j \in Callbacks, j # k, callback[j].phase = "exchanged"
         PROVE  callback[j].flow \in Flows /\ callback[j].flow # f
    BY <1>1, <1>3, <1>15 DEF CallbacksSound, CallbackOK, TokensTyped, T!Callback
  <1>16. CallbackOK(m, tRow', provider', caller')
    BY <1>3, <1>4, <1>6, <1>7, <1>8, <1>11, <1>12 DEF CallbackOK
  <1>17. ASSUME NEW j \in Callbacks, j # k
         PROVE  CallbackOK(callback[j], tRow', provider', caller')
    BY <1>1, <1>3, <1>8, <1>15, <1>17 DEF CallbacksSound, CallbackOK
  <1>18. \A j \in Callbacks : CallbackOK(callback'[j], tRow', provider', caller')
    BY <1>9, <1>16, <1>17
  <1>19. ASSUME NEW i \in Callbacks, NEW j \in Callbacks,
                callback'[i].phase = "exchanged", callback'[j].phase = "exchanged",
                callback'[i].flow = callback'[j].flow
         PROVE  i = j
    BY <1>1, <1>6, <1>9, <1>15, <1>19 DEF CallbacksSound
  <1>20. CallbacksSound'
    BY <1>18, <1>19 DEF CallbacksSound
  <1> QED BY <1>10, <1>13, <1>14, <1>20 DEF TokensInv

\* writeOAuthTokens.
LEMMA WriteTokensHolds ==
    ASSUME TokensInv, NEW k \in Callbacks, T!WriteTokens(k)
    PROVE  TokensInv'
  <1> DEFINE m == [callback[k] EXCEPT !.phase = "over"]
  <1>1. TokensTyped /\ CallersSound /\ CallbacksSound /\ StoredSound
    BY DEF TokensInv
  <1>2. /\ callback[k] \in T!Callback /\ callback[k].phase = "exchanged"
        /\ CallbackOK(callback[k], tRow, provider, caller)
    BY <1>1 DEF TokensTyped, CallbacksSound, T!WriteTokens
  <1>3. /\ UNCHANGED <<inst, tLock, provider, caller, sweep, lost, drained>>
        /\ callback' = [callback EXCEPT ![k] = m]
        /\ tRow' = tRow \/ (tRow' = callback[k].got /\ inst.live)
    BY <1>1 DEF T!WriteTokens, TokensTyped
  <1>4. m \in T!Callback /\ m.phase = "over"
    BY <1>2 DEF T!Callback
  <1> HIDE DEF m
  <1>5. /\ callback' \in [Callbacks -> T!Callback] /\ callback'[k] = m
        /\ \A j \in Callbacks : j # k => callback'[j] = callback[j]
    BY <1>1, <1>3, <1>4 DEF TokensTyped
  <1>6. /\ callback[k].got \in T!TokenRow /\ callback[k].got.grant = callback[k].flow
        /\ provider[callback[k].got.grant].state # "none"
        /\ callback[k].got.serial = provider[callback[k].got.grant].serial
    BY <1>2 DEF CallbackOK
  <1>7. TokensTyped'
    BY <1>1, <1>3, <1>5, <1>6 DEF TokensTyped
  <1>8. CallersSound'
    BY <1>1, <1>3 DEF CallersSound
  <1>9. StoredSound'
    BY <1>1, <1>3, <1>6 DEF StoredSound, T!StoredIsNewest
  <1>10. ASSUME NEW j \in Callbacks, j # k, callback[j].phase = "exchanged"
         PROVE  callback[j].flow # callback[k].flow
    BY <1>1, <1>2, <1>10 DEF CallbacksSound
  <1>11. ASSUME NEW j \in Callbacks, j # k
         PROVE  CallbackOK(callback[j], tRow', provider', caller')
    BY <1>1, <1>3, <1>6, <1>10, <1>11 DEF CallbacksSound, CallbackOK
  <1>12. CallbackOK(m, tRow', provider', caller')
    BY <1>4 DEF CallbackOK
  <1>13. CallbacksSound'
    BY <1>1, <1>4, <1>5, <1>11, <1>12 DEF CallbacksSound
  <1> QED BY <1>7, <1>8, <1>9, <1>13 DEF TokensInv

\* The installation, the access token's life and the states.
LEMMA InstallationHolds ==
    ASSUME TokensInv,
           T!Delete \/ T!Configure \/ T!Expire \/ T!Purge
           \/ (\E f \in Flows : T!Authorize(f) \/ T!Lapse(f))
    PROVE  TokensInv'
  <1>1. TokensTyped /\ CallersSound /\ CallbacksSound /\ StoredSound
    BY DEF TokensInv
  <1>2. UNCHANGED <<tLock, provider, caller, callback, sweep, lost, drained>>
    BY DEF T!Delete, T!Configure, T!Expire, T!Purge, T!Authorize, T!Lapse
  <1>3. \/ tRow' = tRow \/ tRow' = None
        \/ tRow # None /\ tRow' = [tRow EXCEPT !.fresh = FALSE]
    BY DEF T!Delete, T!Configure, T!Expire, T!Purge, T!Authorize, T!Lapse
  <1>4. /\ tRow' \in T!TokenRow \cup {None}
        /\ tRow' # None =>
              tRow # None /\ tRow'.grant = tRow.grant /\ tRow'.serial = tRow.serial
    <2>1. CASE tRow # None /\ tRow' = [tRow EXCEPT !.fresh = FALSE]
      <3>1. tRow \in T!TokenRow
        BY <1>1, <2>1 DEF TokensTyped
      <3>2. /\ [tRow EXCEPT !.fresh = FALSE] \in T!TokenRow
            /\ [tRow EXCEPT !.fresh = FALSE].grant = tRow.grant
            /\ [tRow EXCEPT !.fresh = FALSE].serial = tRow.serial
        BY <3>1 DEF T!TokenRow
      <3> QED BY <2>1, <3>2
    <2> QED BY <1>1, <1>3, <2>1 DEF TokensTyped
  <1>5. inst' \in [n : 0..MaxInst, live : BOOLEAN]
    <2>1. CASE T!Delete
      BY <1>1, <2>1 DEF T!Delete, TokensTyped
    <2>2. CASE T!Configure
      BY <1>1, <2>2, TokensGiven DEF T!Configure, TokensTyped
    <2>3. CASE inst' = inst
      BY <1>1, <2>3 DEF TokensTyped
    <2> QED BY <2>1, <2>2, <2>3 DEF T!Expire, T!Purge, T!Authorize, T!Lapse
  <1>6. ~inst'.live => tRow' = None
    BY <1>1, TokensGiven
       DEF StoredSound, TokensTyped, T!Delete, T!Configure, T!Expire, T!Purge, T!Authorize, T!Lapse
  <1>7. TokensTyped'
    BY <1>1, <1>2, <1>4, <1>5 DEF TokensTyped
  <1>8. CallersSound'
    BY <1>1, <1>2 DEF CallersSound
  <1>9. CallbacksSound'
    BY <1>1, <1>2, <1>4 DEF CallbacksSound, CallbackOK
  <1>10. StoredSound'
    BY <1>1, <1>2, <1>4, <1>6 DEF StoredSound, T!StoredIsNewest
  <1> QED BY <1>7, <1>8, <1>9, <1>10 DEF TokensInv

\* A grant is withdrawn.
LEMMA WithdrawHolds ==
    ASSUME TokensInv, NEW f \in Flows, T!Revoke(f)
    PROVE  TokensInv'
  <1> DEFINE pg == [provider[f] EXCEPT !.state = "revoked"]
  <1>1. TokensTyped /\ CallersSound /\ CallbacksSound /\ StoredSound
    BY DEF TokensInv
  <1>2. /\ UNCHANGED <<inst, tRow, tLock, caller, callback, sweep, lost, drained>>
        /\ provider[f] \in T!Grant
        /\ provider' = [provider EXCEPT ![f] = pg]
    BY <1>1 DEF T!Revoke, TokensTyped
  <1>3. pg \in T!Grant /\ pg.state = "revoked" /\ pg.serial = provider[f].serial
    BY <1>2 DEF T!Grant
  <1> HIDE DEF pg
  <1>4. /\ provider' \in [Flows -> T!Grant]
        /\ \A g \in Flows : /\ provider'[g].serial = provider[g].serial
                            /\ provider[g].state # "none" => provider'[g].state # "none"
    BY ONLY <1>1, <1>2, <1>3, f \in Flows DEF TokensTyped
  <1>5. TokensTyped'
    BY <1>1, <1>2, <1>4 DEF TokensTyped
  <1>6. \A c \in Callers :
           caller[c].phase \in {"exchanging", "exchanged"} => caller[c].got.grant \in Flows
    BY <1>1 DEF CallersSound, CallerOK, T!TokenRow
  <1>7. CallersSound'
    BY <1>1, <1>2, <1>4, <1>6 DEF CallersSound, CallerOK
  <1>8. \A k \in Callbacks : callback[k].flow \in Flows
    BY <1>1 DEF TokensTyped, T!Callback
  <1>9. CallbacksSound'
    BY <1>1, <1>2, <1>4, <1>8 DEF CallbacksSound, CallbackOK
  <1>10. tRow # None => tRow.grant \in Flows
    BY <1>1 DEF TokensTyped, T!TokenRow
  <1>11. StoredSound'
    BY <1>1, <1>2, <1>4, <1>10 DEF StoredSound, T!StoredIsNewest
  <1> QED BY <1>5, <1>7, <1>9, <1>11 DEF TokensInv

\* Every step while nobody rotates.
LEMMA TokensStep ==
    ASSUME TokensInv, T!Next
    PROVE  TokensInv'
  <1>1. ~sweep.running
    BY DEF TokensInv, TokensTyped
  <1>2. ~T!ReadSecrets /\ ~T!WriteSecrets
    BY <1>1 DEF T!ReadSecrets, T!WriteSecrets
  <1>3. ASSUME NEW c \in Callers, T!CallerStep(c)
        PROVE  TokensInv'
    BY <1>3, LockHolds, DecideHolds, FailHolds, PersistHolds, AgainHolds, AnswerLostHolds,
       RefreshHolds DEF T!CallerStep
  <1>4. ASSUME NEW k \in Callbacks, T!CallbackStep(k)
        PROVE  TokensInv'
    BY <1>4, ClaimHolds, CallbackEndHolds, WriteTokensHolds, ExchangeHolds DEF T!CallbackStep
  <1> QED BY <1>2, <1>3, <1>4, InstallationHolds, WithdrawHolds DEF T!Next

\* The initial states.
LEMMA TokensInit ==
    ASSUME T!Init
    PROVE  TokensInv
  <1>1. 0 \in 0..MaxSerial /\ 1 \in 0..MaxSerial /\ 0 \in 0..MaxInst /\ 1 \in 0..MaxInst
    BY TokensGiven
  <1>2. inst \in [n : 0..MaxInst, live : BOOLEAN] /\ inst.live = TRUE
    BY <1>1 DEF T!Init
  <1>3. /\ tLock \in Callers \cup {None} /\ lost \in SUBSET Flows
        /\ sweep.running = FALSE /\ drained = FALSE
    BY DEF T!Init, T!Idle
  <1>4. caller \in [Callers -> T!Caller] /\ (\A c \in Callers : caller[c] = [phase |-> "idle", got |-> None])
    BY DEF T!Init, T!Caller
  <1>5. callback \in [Callbacks -> T!Callback] /\ (\A k \in Callbacks : callback[k].phase = "idle")
    BY <1>1 DEF T!Init, T!Callback
  <1>6. CASE tRow = None /\ provider = [f \in Flows |-> [state |-> "none", serial |-> 0]]
    <2>1. TokensTyped
      BY <1>1, <1>2, <1>3, <1>4, <1>5, <1>6 DEF TokensTyped, T!Grant
    <2>2. CallersSound /\ CallbacksSound
      BY <1>4, <1>5 DEF CallersSound, CallerOK, CallbacksSound, CallbackOK
    <2>3. StoredSound
      BY <1>6 DEF StoredSound, T!StoredIsNewest
    <2> QED BY <2>1, <2>2, <2>3 DEF TokensInv
  <1>7. ASSUME NEW g \in Flows,
               tRow = [grant |-> g, serial |-> 1, fresh |-> FALSE, key |-> "retired"],
               provider = [f \in Flows |-> IF f = g THEN [state |-> "live", serial |-> 1]
                                           ELSE [state |-> "none", serial |-> 0]]
        PROVE  TokensInv
    <2>1. tRow \in T!TokenRow /\ tRow.grant = g /\ tRow.serial = 1
      BY <1>1, <1>7 DEF T!TokenRow
    <2>2. provider \in [Flows -> T!Grant] /\ provider[g].state = "live" /\ provider[g].serial = 1
      BY <1>1, <1>7 DEF T!Grant
    <2>3. TokensTyped
      BY <1>2, <1>3, <1>4, <1>5, <2>1, <2>2 DEF TokensTyped
    <2>4. CallersSound /\ CallbacksSound
      BY <1>4, <1>5 DEF CallersSound, CallerOK, CallbacksSound, CallbackOK
    <2>5. StoredSound
      BY <1>2, <2>1, <2>2 DEF StoredSound, T!StoredIsNewest
    <2> QED BY <2>3, <2>4, <2>5 DEF TokensInv
  <1> QED BY <1>6, <1>7 DEF T!Init

\* The invariant of the part in which nobody rotates.
LEMMA TokensInvariant == MCSpec => [](part = "tokens" => TokensInv)
  <1>1. MCInit => (part = "tokens" => TokensInv)
    BY TokensInit DEF MCInit
  <1>2. ASSUME TokensInv, UNCHANGED tVars
        PROVE  TokensInv'
    BY <1>2 DEF TokensInv, TokensTyped, CallersSound, CallbacksSound, StoredSound,
       T!StoredIsNewest, tVars
  <1>3. (part = "tokens" => TokensInv) /\ [MCNext]_<<part, vars, aVars, tVars>>
           => (part = "tokens" => TokensInv)'
    BY <1>2, TokensStep DEF MCNext
  <1> QED BY <1>1, <1>3, PTL DEF MCSpec

\* The stored refresh token is the one the provider expects next, unless its
\* replacement died with a call or an answer.
THEOREM NewestIsStored == MCSpec => []StoredIsNewest
  <1>1. (part = "tokens" => TokensInv) => StoredIsNewest
    BY DEF TokensInv, StoredSound, StoredIsNewest
  <1> QED BY <1>1, TokensInvariant, PTL

\* Nobody is sent to the consent screen while the stored grant is good.
THEOREM ConsentIsNeeded == MCSpec => ConsentOnlyIfNeeded
  <1>1. ASSUME TokensInv, T!Next, NEW c \in Callers,
               caller'[c].phase = "consent", caller[c].phase # "consent"
        PROVE  \/ tRow = None \/ tRow.serial = 0
               \/ LET g == IF caller[c].got = None THEN tRow.grant ELSE caller[c].got.grant
                  IN  g \in lost \/ provider[g].state = "revoked"
    <2>1. /\ TokensTyped /\ StoredSound
          /\ CallerOK(c, caller[c], tLock, provider, lost)
      BY <1>1 DEF TokensInv, CallersSound
    <2>2. ~sweep.running
      BY <2>1 DEF TokensTyped
    <2>3. \E d \in Callers : T!CallerStep(d)
      BY <1>1, <2>2
         DEF T!Next, T!CallbackStep, T!Claim, T!Refuse, T!WriteTokens, T!CallbackFails,
             T!ExchangeCode, T!Authorize, T!Lapse, T!Revoke, T!Purge, T!ReadSecrets,
             T!WriteSecrets, T!Delete, T!Configure, T!Expire
    <2>4. PICK d \in Callers : T!CallerStep(d)
      BY <2>3
    <2>5. c = d
      BY <1>1, <2>1, <2>4
         DEF T!CallerStep, T!Lock, T!Decide, T!RefreshRefused, T!Persist, T!Fail, T!Again,
             T!AnswerLost, T!Refresh, T!End, TokensTyped
    <2>6. T!Lock(c) \/ T!Decide(c) \/ T!RefreshRefused(c)
      <3>1. caller \in [Callers -> T!Caller] /\ caller[c] \in T!Caller
        BY <2>1 DEF TokensTyped
      <3>2. ~T!Persist(c) /\ ~T!Fail(c)
        BY <1>1, <3>1 DEF T!Persist, T!Fail, T!End
      <3>3. ~T!Again(c)
        BY <1>1, <3>1 DEF T!Again, T!Caller
      <3>4. \A n \in 0..MaxSerial : ~T!AnswerLost(c, n)
        BY <1>1, <3>1 DEF T!AnswerLost, T!End
      <3>5. \A n \in 0..MaxSerial, fresh \in BOOLEAN : ~T!Refresh(c, n, fresh)
        BY <1>1, <3>1 DEF T!Refresh
      <3> QED BY <2>4, <2>5, <3>2, <3>3, <3>4, <3>5 DEF T!CallerStep
    <2>7. CASE T!Lock(c)
      BY <1>1, <2>1, <2>7 DEF T!Lock, StoredSound, TokensTyped, T!Caller
    <2>8. CASE T!Decide(c)
      BY <1>1, <2>1, <2>8 DEF T!Decide, T!End, TokensTyped, T!Caller
    <2>9. CASE T!RefreshRefused(c)
      <3> DEFINE t == caller[c].got
      <3>1. /\ t \in T!TokenRow /\ provider[t.grant].state # "none"
            /\ t.grant \in lost \/ t.serial = provider[t.grant].serial
            /\ provider[t.grant] # [state |-> "live", serial |-> t.serial]
        BY <2>1, <2>9 DEF T!RefreshRefused, T!Accepts, CallerOK
      <3>2. t # None /\ provider[t.grant] \in T!Grant
        BY <2>1, <3>1, TokensGiven DEF TokensTyped, T!TokenRow
      <3> HIDE DEF t
      <3>3. t.grant \in lost \/ provider[t.grant].state = "revoked"
        BY <3>1, <3>2 DEF T!Grant
      <3> QED BY <3>2, <3>3 DEF t
    <2> QED BY <2>6, <2>7, <2>8, <2>9
  <1>2. (part = "tokens" => TokensInv) /\ [MCNext]_<<part, vars, aVars, tVars>>
           => [part = "tokens" => T!ConsentStep]_<<part, tVars>>
    BY <1>1 DEF MCNext, T!ConsentStep, tVars
  <1> QED BY <1>2, TokensInvariant, PTL DEF MCSpec, ConsentOnlyIfNeeded
-----------------------------------------------------------------------------
(* rotateSecrets beside refreshes and callbacks                            *)

\* What a caller is about to store is encrypted with the active key
CallerSealed(m) ==
    /\ m \in R!Caller
    /\ m.phase \in {"exchanging", "exchanged"} => m.got \in R!TokenRow
    /\ m.phase = "exchanged" => m.got.key = "active"

CallbackSealed(m) ==
    /\ m \in R!Callback
    /\ m.phase = "exchanged" => m.got \in R!TokenRow /\ m.got.key = "active"

Sealed ==
    /\ inst \in [n : {1}, live : BOOLEAN]
    /\ tRow \in R!TokenRow \cup {None}
    /\ caller \in [RotationCallers -> {m \in R!Caller : CallerSealed(m)}]
    /\ callback \in [Callbacks -> {m \in R!Callback : CallbackSealed(m)}]

\* A sweep that has not written yet has seen the row while it needed rotation,
\* and once one has completed no row needs it
SweepSound ==
    /\ sweep.running =>
          /\ sweep.inst = 1 /\ sweep.seen \in R!TokenRow
          /\ tRow # None /\ tRow.key = "retired" => sweep.seen.key = "retired"
    /\ drained /\ tRow # None => tRow.key = "active"

RotationInv == Sealed /\ SweepSound

\* A step that stores nothing under the retired key.
LEMMA StaysSealed ==
    ASSUME RotationInv, Sealed', UNCHANGED <<sweep, drained>>,
           tRow' # None => tRow'.key = "active" \/ (tRow # None /\ tRow'.key = tRow.key)
    PROVE  RotationInv'
  BY DEF RotationInv, SweepSound

\* One caller's step.
LEMMA CallerSeals ==
    ASSUME RotationInv, NEW c \in RotationCallers, NEW m, CallerSealed(m),
           caller' = [caller EXCEPT ![c] = m],
           UNCHANGED <<inst, callback, sweep, drained>>,
           \/ tRow' = tRow
           \/ tRow' = None
           \/ tRow' \in R!TokenRow /\ tRow'.key = "active"
    PROVE  RotationInv'
  <1>1. m \in {x \in R!Caller : CallerSealed(x)}
    BY DEF CallerSealed
  <1>2. caller' \in [RotationCallers -> {x \in R!Caller : CallerSealed(x)}]
    BY <1>1 DEF RotationInv, Sealed
  <1>3. Sealed'
    BY <1>2 DEF RotationInv, Sealed
  <1> QED BY <1>3, StaysSealed

\* One callback's step.
LEMMA CallbackSeals ==
    ASSUME RotationInv, NEW k \in Callbacks, NEW m, CallbackSealed(m),
           callback' = [callback EXCEPT ![k] = m],
           UNCHANGED <<inst, caller, sweep, drained>>,
           \/ tRow' = tRow
           \/ tRow' \in R!TokenRow /\ tRow'.key = "active"
    PROVE  RotationInv'
  <1>1. m \in {x \in R!Callback : CallbackSealed(x)}
    BY DEF CallbackSealed
  <1>2. callback' \in [Callbacks -> {x \in R!Callback : CallbackSealed(x)}]
    BY <1>1 DEF RotationInv, Sealed
  <1>3. Sealed'
    BY <1>2 DEF RotationInv, Sealed
  <1> QED BY <1>3, StaysSealed

\* What a caller does beside a rotation.
LEMMA CallerRotates ==
    ASSUME RotationInv, NEW c \in RotationCallers, R!CallerStep(c)
    PROVE  RotationInv'
  <1>1. Sealed
    BY DEF RotationInv
  <1>2. caller[c] \in R!Caller /\ CallerSealed(caller[c])
    BY <1>1 DEF Sealed
  <1>3. tRow \in R!TokenRow \cup {None}
    BY <1>1 DEF Sealed
  <1>4. ASSUME NEW f \in {"done", "consent"}, R!End(c, f),
               UNCHANGED <<inst, callback, sweep, drained>>,
               tRow' = tRow \/ tRow' = None \/ (tRow' \in R!TokenRow /\ tRow'.key = "active")
        PROVE  RotationInv'
    <2> DEFINE m == [phase |-> f, got |-> None]
    <2>1. caller' = [caller EXCEPT ![c] = m]
      BY <1>4 DEF R!End
    <2>2. CallerSealed(m)
      BY DEF CallerSealed, R!Caller
    <2> HIDE DEF m
    <2> QED BY <1>4, <2>1, <2>2, CallerSeals
  <1>5. ASSUME NEW f \in {"idle", "locked", "consent"}, caller' = [caller EXCEPT ![c].phase = f],
               UNCHANGED <<inst, callback, sweep, drained, tRow>>
        PROVE  RotationInv'
    <2> DEFINE m == [caller[c] EXCEPT !.phase = f]
    <2>1. caller' = [caller EXCEPT ![c] = m]
      BY <1>5
    <2>2. m \in R!Caller /\ m.phase = f
      BY <1>2 DEF R!Caller
    <2> HIDE DEF m
    <2>3. CallerSealed(m)
      BY <2>2 DEF CallerSealed
    <2> QED BY <1>5, <2>1, <2>3, CallerSeals
  <1>6. CASE R!Lock(c)
    <2>1. PICK f \in {"idle", "locked", "consent"} : caller' = [caller EXCEPT ![c].phase = f]
      BY <1>6 DEF R!Lock
    <2> QED BY <1>5, <1>6, <2>1 DEF R!Lock
  <1>7. CASE R!Again(c)
    BY <1>5, <1>7 DEF R!Again
  <1>8. CASE R!Decide(c)
    <2>1. UNCHANGED <<inst, callback, sweep, drained, tRow>>
      BY <1>8 DEF R!Decide
    <2>2. CASE R!End(c, "consent") \/ R!End(c, "done")
      BY <1>4, <2>1, <2>2
    <2>3. CASE ~(R!End(c, "consent") \/ R!End(c, "done"))
      <3> DEFINE m == [phase |-> "exchanging", got |-> tRow]
      <3>1. tRow # None /\ caller' = [caller EXCEPT ![c] = m]
        BY <1>8, <2>3 DEF R!Decide
      <3>2. CallerSealed(m)
        BY <1>3, <3>1 DEF CallerSealed, R!Caller
      <3> HIDE DEF m
      <3> QED BY <2>1, <3>1, <3>2, CallerSeals
    <2> QED BY <2>2, <2>3
  <1>9. CASE R!RefreshRefused(c)
    BY <1>4, <1>9 DEF R!RefreshRefused
  <1>10. CASE R!Fail(c)
    BY <1>4, <1>10 DEF R!Fail
  <1>11. CASE R!Persist(c)
    <2>1. tRow' = tRow \/ tRow' = None \/ (tRow' \in R!TokenRow /\ tRow'.key = "active")
      BY <1>2, <1>11 DEF R!Persist, R!Persisted, CallerSealed
    <2> QED BY <1>4, <1>11, <2>1 DEF R!Persist
  <1>12. ASSUME NEW n \in 0..MaxSerial, R!AnswerLost(c, n)
         PROVE  RotationInv'
    BY <1>4, <1>12 DEF R!AnswerLost
  <1>13. ASSUME NEW n \in 0..MaxSerial, NEW fresh \in BOOLEAN, R!Refresh(c, n, fresh)
         PROVE  RotationInv'
    <2> DEFINE g == caller[c].got.grant
               tk == [grant |-> g, serial |-> n, fresh |-> fresh, key |-> "active"]
               m == [phase |-> "exchanged", got |-> tk]
    <2>1. /\ UNCHANGED <<inst, tRow, callback, sweep, drained>>
          /\ caller[c].phase = "exchanging" /\ caller' = [caller EXCEPT ![c] = m]
      BY <1>13 DEF R!Refresh
    <2>2. g \in Flows
      BY <1>2, <2>1 DEF CallerSealed, R!TokenRow
    <2> HIDE DEF g
    <2>3. tk \in R!TokenRow /\ tk.key = "active"
      BY <2>2 DEF R!TokenRow
    <2> HIDE DEF tk
    <2>4. m \in R!Caller /\ m.phase = "exchanged" /\ m.got = tk
      BY <2>3 DEF R!Caller
    <2> HIDE DEF m
    <2>5. CallerSealed(m)
      BY <2>3, <2>4 DEF CallerSealed
    <2> QED BY <2>1, <2>5, CallerSeals
  <1> QED BY <1>6, <1>7, <1>8, <1>9, <1>10, <1>11, <1>12, <1>13 DEF R!CallerStep

\* What a callback does beside a rotation.
LEMMA CallbackRotates ==
    ASSUME RotationInv, NEW k \in Callbacks, R!CallbackStep(k)
    PROVE  RotationInv'
  <1>1. Sealed
    BY DEF RotationInv
  <1>2. callback[k] \in R!Callback /\ CallbackSealed(callback[k])
    BY <1>1 DEF Sealed
  <1>3. ASSUME NEW f \in {"claimed", "over", "refused"}, NEW n \in 0..1,
               callback' = [callback EXCEPT ![k] =
                              [[callback[k] EXCEPT !.inst = n] EXCEPT !.phase = f]],
               UNCHANGED <<inst, caller, sweep, drained>>,
               tRow' = tRow \/ (tRow' \in R!TokenRow /\ tRow'.key = "active")
        PROVE  RotationInv'
    <2> DEFINE m1 == [callback[k] EXCEPT !.inst = n]
               m == [m1 EXCEPT !.phase = f]
    <2>1. m1 \in R!Callback
      BY <1>2 DEF R!Callback
    <2>2. callback' = [callback EXCEPT ![k] = m]
      BY <1>3
    <2> HIDE DEF m1
    <2>3. m \in R!Callback /\ m.phase = f
      BY <2>1 DEF R!Callback
    <2> HIDE DEF m
    <2>4. CallbackSealed(m)
      BY <2>3 DEF CallbackSealed
    <2> QED BY <1>3, <2>2, <2>4, CallbackSeals
  <1>4. ASSUME NEW f \in {"over", "refused"},
               callback' = [callback EXCEPT ![k].phase = f],
               UNCHANGED <<inst, caller, sweep, drained>>,
               tRow' = tRow \/ (tRow' \in R!TokenRow /\ tRow'.key = "active")
        PROVE  RotationInv'
    <2> DEFINE m == [callback[k] EXCEPT !.phase = f]
    <2>1. callback' = [callback EXCEPT ![k] = m]
      BY <1>4
    <2>2. m \in R!Callback /\ m.phase = f
      BY <1>2 DEF R!Callback
    <2> HIDE DEF m
    <2>3. CallbackSealed(m)
      BY <2>2 DEF CallbackSealed
    <2> QED BY <1>4, <2>1, <2>3, CallbackSeals
  <1>5. CASE R!Claim(k)
    <2> DEFINE f == IF inst.live THEN "claimed" ELSE "over"
    <2>1. f \in {"claimed", "over", "refused"} /\ inst.n \in 0..1
      BY <1>1 DEF Sealed
    <2>2. callback' = [callback EXCEPT ![k] =
                         [[callback[k] EXCEPT !.inst = inst.n] EXCEPT !.phase = f]]
      BY <1>1, <1>5 DEF R!Claim, Sealed
    <2> HIDE DEF f
    <2> QED BY <1>3, <1>5, <2>1, <2>2 DEF R!Claim
  <1>6. CASE R!Refuse(k)
    BY <1>4, <1>6 DEF R!Refuse
  <1>7. CASE R!CallbackFails(k)
    BY <1>4, <1>7 DEF R!CallbackFails
  <1>8. CASE R!WriteTokens(k)
    <2>1. tRow' = tRow \/ (tRow' \in R!TokenRow /\ tRow'.key = "active")
      BY <1>2, <1>8 DEF R!WriteTokens, CallbackSealed
    <2> QED BY <1>4, <1>8, <2>1 DEF R!WriteTokens
  <1>9. ASSUME NEW n \in 0..1, NEW fresh \in BOOLEAN, R!ExchangeCode(k, n, fresh)
        PROVE  RotationInv'
    <2> DEFINE f == callback[k].flow
               tk == [grant |-> f, serial |-> n, fresh |-> fresh, key |-> "active"]
               m1 == [callback[k] EXCEPT !.phase = "exchanged"]
               m == [m1 EXCEPT !.got = tk]
    <2>1. /\ UNCHANGED <<inst, tRow, caller, sweep, drained>>
          /\ callback' = [callback EXCEPT ![k] = m]
      BY <1>1, <1>9 DEF R!ExchangeCode, Sealed
    <2>2. f \in Flows /\ n \in 0..MaxSerial
      BY <1>2, TokensGiven DEF R!Callback
    <2> HIDE DEF f
    <2>3. tk \in R!TokenRow /\ tk.key = "active"
      BY <2>2 DEF R!TokenRow
    <2> HIDE DEF tk
    <2>4. m1 \in R!Callback /\ m1.phase = "exchanged"
      BY <1>2 DEF R!Callback
    <2> HIDE DEF m1
    <2>5. m \in R!Callback /\ m.phase = "exchanged" /\ m.got = tk
      BY <2>3, <2>4 DEF R!Callback
    <2> HIDE DEF m
    <2>6. CallbackSealed(m)
      BY <2>3, <2>5 DEF CallbackSealed
    <2> QED BY <2>1, <2>6, CallbackSeals
  <1> QED BY <1>5, <1>6, <1>7, <1>8, <1>9 DEF R!CallbackStep

\* rotateSecrets reads the secrets, and writes what it read under the active key.
LEMMA SweepRotates ==
    ASSUME RotationInv, R!ReadSecrets \/ R!WriteSecrets
    PROVE  RotationInv'
  <1>1. Sealed /\ SweepSound
    BY DEF RotationInv
  <1>2. CASE R!ReadSecrets
    <2>1. Sealed'
      BY <1>1, <1>2 DEF R!ReadSecrets, Sealed
    <2>2. SweepSound'
      BY <1>1, <1>2 DEF R!ReadSecrets, SweepSound, Sealed
    <2> QED BY <2>1, <2>2 DEF RotationInv
  <1>3. CASE R!WriteSecrets
    <2> DEFINE s == sweep.seen
               e == [s EXCEPT !.key = "active"]
    <2>1. /\ UNCHANGED <<inst, caller, callback>> /\ sweep'.running = FALSE
          /\ tRow' = IF s.key = "retired" /\ tRow # None /\ sweep.inst = inst.n THEN e ELSE tRow
      BY <1>3 DEF R!WriteSecrets, R!Reencrypted, R!Idle
    <2>2. /\ sweep.inst = 1 /\ s \in R!TokenRow /\ inst.n = 1
          /\ tRow # None /\ tRow.key = "retired" => s.key = "retired"
      BY <1>1, <1>3 DEF R!WriteSecrets, SweepSound, Sealed
    <2>3. tRow # None => tRow.key \in {"retired", "active"}
      BY <1>1 DEF Sealed, R!TokenRow
    <2> HIDE DEF s
    <2>4. e \in R!TokenRow /\ e.key = "active"
      BY <2>2 DEF R!TokenRow
    <2> HIDE DEF e
    <2>5. tRow' \in R!TokenRow \cup {None} /\ (tRow' # None => tRow'.key = "active")
      BY <1>1, <2>1, <2>2, <2>3, <2>4 DEF Sealed
    <2>6. Sealed'
      BY <1>1, <2>1, <2>5 DEF Sealed
    <2>7. SweepSound'
      BY <2>1, <2>5 DEF SweepSound
    <2> QED BY <2>6, <2>7 DEF RotationInv
  <1> QED BY <1>2, <1>3

\* The rest of what happens beside a rotation.
LEMMA OthersRotate ==
    ASSUME RotationInv,
           R!Delete \/ R!Configure \/ R!Expire \/ R!Purge
           \/ (\E f \in Flows : R!Authorize(f) \/ R!Lapse(f) \/ R!Revoke(f))
    PROVE  RotationInv'
  <1>1. Sealed
    BY DEF RotationInv
  <1>2. UNCHANGED <<caller, callback, sweep, drained>>
    BY DEF R!Delete, R!Configure, R!Expire, R!Purge, R!Authorize, R!Lapse, R!Revoke
  <1>3. \/ tRow' = tRow \/ tRow' = None
        \/ tRow # None /\ tRow' = [tRow EXCEPT !.fresh = FALSE]
    BY DEF R!Delete, R!Configure, R!Expire, R!Purge, R!Authorize, R!Lapse, R!Revoke
  <1>4. /\ tRow' \in R!TokenRow \cup {None}
        /\ tRow' # None => tRow # None /\ tRow'.key = tRow.key
    <2>1. CASE tRow # None /\ tRow' = [tRow EXCEPT !.fresh = FALSE]
      <3>1. tRow \in R!TokenRow
        BY <1>1, <2>1 DEF Sealed
      <3>2. /\ [tRow EXCEPT !.fresh = FALSE] \in R!TokenRow
            /\ [tRow EXCEPT !.fresh = FALSE].key = tRow.key
        BY <3>1 DEF R!TokenRow
      <3> QED BY <2>1, <3>2
    <2> QED BY <1>1, <1>3, <2>1 DEF Sealed
  <1>5. ~R!Configure
    BY <1>1 DEF R!Configure, Sealed
  <1>6. inst' \in [n : {1}, live : BOOLEAN]
    <2>1. CASE R!Delete
      BY <1>1, <2>1 DEF R!Delete, Sealed
    <2>2. CASE inst' = inst
      BY <1>1, <2>2 DEF Sealed
    <2> QED BY <1>5, <2>1, <2>2 DEF R!Expire, R!Purge, R!Authorize, R!Lapse, R!Revoke
  <1>7. Sealed'
    BY <1>1, <1>2, <1>4, <1>6 DEF Sealed
  <1> QED BY <1>2, <1>4, <1>7, StaysSealed

\* The initial states.
LEMMA RotationInit ==
    ASSUME R!Init
    PROVE  RotationInv
  <1>1. inst \in [n : {1}, live : BOOLEAN]
    BY DEF R!Init
  <1>2. tRow \in R!TokenRow \cup {None}
    <2>1. 1 \in 0..MaxSerial
      BY TokensGiven
    <2>2. \A g \in Flows :
             [grant |-> g, serial |-> 1, fresh |-> FALSE, key |-> "retired"] \in R!TokenRow
      BY <2>1 DEF R!TokenRow
    <2> QED BY <2>2 DEF R!Init
  <1>3. [phase |-> "idle", got |-> None] \in {m \in R!Caller : CallerSealed(m)}
    BY DEF R!Caller, CallerSealed
  <1>4. caller \in [RotationCallers -> {m \in R!Caller : CallerSealed(m)}]
    BY <1>3 DEF R!Init
  <1>5. [phase : {"idle"}, flow : Flows, inst : {0}, got : {None}]
           \subseteq {m \in R!Callback : CallbackSealed(m)}
    BY DEF R!Callback, CallbackSealed
  <1>6. callback \in [Callbacks -> {m \in R!Callback : CallbackSealed(m)}]
    BY <1>5 DEF R!Init
  <1>7. SweepSound
    BY DEF R!Init, R!Idle, SweepSound
  <1> QED BY <1>1, <1>2, <1>4, <1>6, <1>7 DEF RotationInv, Sealed

\* After rotateSecrets has completed nothing stored depends on the retired key.
THEOREM KeyIsRetired == MCSpec => []KeyRetires
  <1> DEFINE Inv == /\ part = "rotation" => RotationInv
                    /\ part # "rotation" => drained = FALSE
                    /\ part = "tokens" => sweep.running = FALSE
  <1>1. MCInit => Inv
    <2>1. T!Init => drained = FALSE /\ sweep.running = FALSE
      BY DEF T!Init, T!Idle
    <2>2. NoTokens => drained = FALSE
      BY DEF NoTokens
    <2> QED BY <2>1, <2>2, RotationInit DEF MCInit
  <1>2. ASSUME RotationInv, R!Next
        PROVE  RotationInv'
    BY <1>2, CallerRotates, CallbackRotates, SweepRotates, OthersRotate DEF R!Next
  <1>3. ASSUME RotationInv, UNCHANGED tVars
        PROVE  RotationInv'
    BY <1>3 DEF RotationInv, Sealed, SweepSound, tVars
  <1>4. ASSUME T!Next, sweep.running = FALSE, drained = FALSE
        PROVE  sweep'.running = FALSE /\ drained' = FALSE
    <2>1. ~T!ReadSecrets /\ ~T!WriteSecrets
      BY <1>4 DEF T!ReadSecrets, T!WriteSecrets
    <2>2. ASSUME NEW c \in Callers, T!CallerStep(c)
          PROVE  UNCHANGED <<sweep, drained>>
      BY <2>2 DEF T!CallerStep, T!Lock, T!Decide, T!RefreshRefused, T!Persist, T!Fail,
                  T!Again, T!AnswerLost, T!Refresh
    <2>3. ASSUME NEW k \in Callbacks, T!CallbackStep(k)
          PROVE  UNCHANGED <<sweep, drained>>
      BY <2>3 DEF T!CallbackStep, T!Claim, T!Refuse, T!WriteTokens, T!CallbackFails,
                  T!ExchangeCode
    <2>4. ASSUME \/ \E f \in Flows : T!Authorize(f) \/ T!Lapse(f) \/ T!Revoke(f)
                 \/ T!Purge \/ T!Delete \/ T!Configure \/ T!Expire
          PROVE  UNCHANGED <<sweep, drained>>
      BY <2>4 DEF T!Authorize, T!Lapse, T!Revoke, T!Purge, T!Delete, T!Configure, T!Expire
    <2>5. UNCHANGED <<sweep, drained>>
      BY <1>4, <2>1, <2>2, <2>3, <2>4 DEF T!Next
    <2> QED BY <1>4, <2>5
  <1>5. Inv /\ [MCNext]_<<part, vars, aVars, tVars>> => Inv'
    <2>1. SUFFICES ASSUME Inv, [MCNext]_<<part, vars, aVars, tVars>>
                   PROVE  Inv'
      OBVIOUS
    <2>2. CASE part = "rotation" /\ R!Next /\ part' = part
      BY <1>2, <2>1, <2>2
    <2>3. CASE part = "tokens" /\ T!Next /\ part' = part
      BY <1>4, <2>1, <2>3
    <2>4. CASE UNCHANGED <<part, tVars>>
      BY <1>3, <2>1, <2>4 DEF tVars
    <2> QED BY <2>1, <2>2, <2>3, <2>4 DEF MCNext
  <1>6. Inv => KeyRetires
    BY DEF RotationInv, SweepSound, KeyRetires, R!KeyRetires
  <1> HIDE DEF Inv
  <1> QED BY <1>1, <1>5, <1>6, PTL DEF MCSpec
===============================================================================
