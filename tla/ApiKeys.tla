------------------------------- MODULE ApiKeys -------------------------------
(***************************************************************************)
(* API key integrations, which live in two systems without a shared        *)
(* transaction (auth/api-key/service.ts, keycloak-admin.ts, reconcile.ts): *)
(* a row of platform.api_key_integrations with its keys, and a             *)
(* confidential client of the Keycloak realm whose secret the row keeps.   *)
(* An attempt to create one writes its intent, provisions the client and   *)
(* activates the row; it may fail or die anywhere.  Administrators issue   *)
(* and revoke keys and disable integrations meanwhile, the realm may be    *)
(* reset, and reconcilers, run by hand and possibly two at a time, sweep   *)
(* and rebuild.  An update of a row waits for its lock.                    *)
(***************************************************************************)
EXTENDS Integers, FiniteSets

CONSTANTS
    Integrations,
    Keys,          \* keys of an integration
    Reconcilers,   \* runs of reconcileApiKeyIntegrations
    MaxSecret,     \* bound: clients ever created
    None

\* What the model takes for granted of its constants
ApiKeysAssumption ==
    /\ MaxSecret \in Nat \ {0}
    /\ None \notin Integrations \cup Keys \cup Reconcilers
    /\ Integrations \cap Keys = {}

VARIABLES
    row,        \* status of a row of api_key_integrations
    stored,     \* its client_secret_ciphertext, 0: null
    aged,       \* rows older than PENDING_GRACE_MS
    lock,       \* who holds the row lock: an attempt or an issueKey
    keys,       \* platform.api_keys
    realm,      \* the client of an integration in the realm
    attempt,    \* createIntegration
    recon,      \* reconcileApiKeyIntegrations
    secrets     \* client secrets the realm has made

vars == <<row, stored, aged, lock, keys, realm, attempt, recon, secrets>>

Statuses == {"absent", "pending", "active", "disabled"}

Secrets == 0..MaxSecret

\* ready: the service account has its tenant and its roles
Client == [secret : Secrets, ready : BOOLEAN]

Missing == [secret |-> 0, ready |-> FALSE]

Attempt == [phase : {"none", "intended", "created", "provisioned",
                     "activating", "fenced", "over"}, secret : Secrets]

\* todo: the rows that were read and are still to be visited; at: the row
\* being repaired; failed: rows reported for a human
Run == [phase : {"idle", "running", "sweeping", "missing", "created", "ready"},
        todo : SUBSET Integrations, at : Integrations \cup {None},
        status : [Integrations -> Statuses],
        stored : [Integrations -> Secrets],
        stalled : SUBSET Integrations, secret : Secrets,
        orphans : SUBSET Integrations, failed : SUBSET Integrations,
        reset : BOOLEAN]

NotRunning ==
    [phase |-> "idle", todo |-> {}, at |-> None,
     status |-> [i \in Integrations |-> "absent"],
     stored |-> [i \in Integrations |-> 0],
     stalled |-> {}, secret |-> 0, orphans |-> {}, failed |-> {},
     reset |-> FALSE]

Init ==
    /\ row = [i \in Integrations |-> "absent"]
    /\ stored = [i \in Integrations |-> 0]
    /\ aged = {}
    /\ lock = [i \in Integrations |-> None]
    /\ keys = [i \in Integrations |-> [k \in Keys |-> "none"]]
    /\ realm = [i \in Integrations |-> Missing]
    /\ attempt = [i \in Integrations |-> [phase |-> "none", secret |-> 0]]
    /\ recon = [p \in Reconcilers |-> NotRunning]
    /\ secrets = 0

-----------------------------------------------------------------------------
(* createIntegration                                                       *)

\* Step 1: the intent row, committed on its own
Intend(i) ==
    /\ attempt[i].phase = "none"
    /\ row' = [row EXCEPT ![i] = "pending"]
    /\ attempt' = [attempt EXCEPT ![i].phase = "intended"]
    /\ UNCHANGED <<stored, aged, lock, keys, realm, recon, secrets>>

\* createServiceAccountClient
CreateClient(i) ==
    /\ attempt[i].phase = "intended"
    /\ realm[i] = Missing
    /\ secrets < MaxSecret
    /\ secrets' = secrets + 1
    /\ realm' = [realm EXCEPT ![i] = [secret |-> secrets + 1, ready |-> FALSE]]
    /\ attempt' = [attempt EXCEPT ![i] = [phase |-> "created",
                                          secret |-> secrets + 1]]
    /\ UNCHANGED <<row, stored, aged, lock, keys, recon>>

\* setServiceAccountTenant and grantClientRoles, of a client still there
ReadyClient(i) ==
    /\ attempt[i].phase = "created"
    /\ realm[i].secret = attempt[i].secret
    /\ realm' = [realm EXCEPT ![i].ready = TRUE]
    /\ attempt' = [attempt EXCEPT ![i].phase = "provisioned"]
    /\ UNCHANGED <<row, stored, aged, lock, keys, recon, secrets>>

\* Mutant of Unlocked: the row is read without for update
MutUnlocked(i) == TRUE

\* lockIntegration: the lock is free
Unlocked(i) == lock[i] = None

\* Mutant of Fence: the activation does not look at the status
MutFence(i) == TRUE

\* The row is still the attempt that was recorded
Fence(i) == row[i] = "pending"

\* Step 3 takes the lock, or finds that the attempt has been fenced off
ActivateLock(i) ==
    /\ attempt[i].phase = "provisioned"
    /\ Unlocked(i)
    /\ attempt' = [attempt EXCEPT ![i].phase =
                     IF Fence(i) THEN "activating" ELSE "fenced"]
    /\ lock' = IF Fence(i) THEN [lock EXCEPT ![i] = i] ELSE lock
    /\ UNCHANGED <<row, stored, aged, keys, realm, recon, secrets>>

\* The activation and the first key are committed
ActivateCommit(i, k) ==
    /\ attempt[i].phase = "activating"
    /\ keys[i][k] = "none"
    /\ row' = [row EXCEPT ![i] = "active"]
    /\ stored' = [stored EXCEPT ![i] = attempt[i].secret]
    /\ keys' = [keys EXCEPT ![i][k] = "live"]
    /\ lock' = [lock EXCEPT ![i] = None]
    /\ attempt' = [attempt EXCEPT ![i].phase = "over"]
    /\ UNCHANGED <<aged, realm, recon, secrets>>

\* discardRealmClient
Discard(i) ==
    /\ attempt[i].phase = "fenced"
    /\ realm' = [realm EXCEPT ![i] = Missing]
    /\ attempt' = [attempt EXCEPT ![i].phase = "over"]
    /\ UNCHANGED <<row, stored, aged, lock, keys, recon, secrets>>

\* The status a failure leaves: the intent was committed independently
IntentAfter(i) == row[i]

\* The realm refuses or cannot be reached, the transaction is rolled back, or
\* the process dies
AttemptFails(i) ==
    /\ attempt[i].phase \in {"intended", "created", "provisioned",
                             "activating", "fenced"}
    /\ row' = [row EXCEPT ![i] = IntentAfter(i)]
    /\ lock' = [lock EXCEPT ![i] = IF @ = i THEN None ELSE @]
    /\ attempt' = [attempt EXCEPT ![i].phase = "over"]
    /\ UNCHANGED <<stored, aged, keys, realm, recon, secrets>>

\* PENDING_GRACE_MS pass.  Each call to the realm is cut off after seconds, so
\* that an attempt has ended by then.
Age(i) ==
    /\ row[i] = "pending"
    /\ attempt[i].phase = "over"
    /\ aged' = aged \cup {i}
    /\ UNCHANGED <<row, stored, lock, keys, realm, attempt, recon, secrets>>

-----------------------------------------------------------------------------
(* issueKey, revokeKey, disableIntegration                                 *)

\* issueKey takes the lock and finds the integration active
IssueLock(i, k) ==
    /\ keys[i][k] = "none"
    /\ row[i] = "active"
    /\ Unlocked(i)
    /\ lock' = [lock EXCEPT ![i] = k]
    /\ UNCHANGED <<row, stored, aged, keys, realm, attempt, recon, secrets>>

\* The key is inserted and the transaction ends, with or without success
IssueEnd(i, k, commits) ==
    /\ lock[i] = k
    /\ keys' = IF commits THEN [keys EXCEPT ![i][k] = "live"] ELSE keys
    /\ lock' = [lock EXCEPT ![i] = None]
    /\ UNCHANGED <<row, stored, aged, realm, attempt, recon, secrets>>

RevokeKey(i, k) ==
    /\ keys[i][k] = "live"
    /\ keys' = [keys EXCEPT ![i][k] = "revoked"]
    /\ UNCHANGED <<row, stored, aged, lock, realm, attempt, recon, secrets>>

\* disableIntegration: under the lock, with every key that is not yet revoked
DisableIntegration(i) ==
    /\ row[i] # "absent"
    /\ Unlocked(i)
    /\ row' = [row EXCEPT ![i] = "disabled"]
    /\ keys' = [keys EXCEPT ![i] = [k \in Keys |->
                  IF keys[i][k] = "live" THEN "revoked" ELSE keys[i][k]]]
    /\ UNCHANGED <<stored, aged, lock, realm, attempt, recon, secrets>>

\* A deliberate reset of the realm erases the clients made at runtime
Reset ==
    /\ \E i \in Integrations : realm[i] # Missing
    /\ realm' = [i \in Integrations |-> Missing]
    /\ recon' = [p \in Reconcilers |->
                   IF recon[p].phase = "idle" THEN recon[p]
                   ELSE [recon[p] EXCEPT !.reset = TRUE]]
    /\ UNCHANGED <<row, stored, aged, lock, keys, attempt, secrets>>

-----------------------------------------------------------------------------
(* reconcileApiKeyIntegrations                                             *)

\* Mutant of Visited: only the statuses the reconciler used to list
MutVisited(i) == row[i] \in {"pending", "active"}

\* The where clause of the select
Visited(i) ==
    /\ row[i] # "absent"
    /\ row[i] = "disabled" => stored[i] = 0

\* The rows are read, once
ReconcileRead(p) ==
    /\ recon[p].phase = "idle"
    /\ recon' = [recon EXCEPT ![p] =
         [NotRunning EXCEPT
            !.phase = "running",
            !.todo = {i \in Integrations : Visited(i)},
            !.status = row, !.stored = stored,
            !.stalled = aged,
            !.orphans = {i \in Integrations :
                           /\ realm[i] # Missing /\ stored[i] = 0
                           /\ attempt[i].phase = "over"
                           /\ row[i] = "disabled" \/ i \in aged}]]
    /\ UNCHANGED <<row, stored, aged, lock, keys, realm, attempt, secrets>>

\* The visit of a row has ended
Visit(p, i, phase) ==
    recon' = [recon EXCEPT ![p].phase = phase,
                           ![p].todo = IF phase = "running" THEN @ \ {i} ELSE @,
                           ![p].at = IF phase = "running" THEN None ELSE i]

\* A pending row inside the grace window is left alone
SkipPending(p, i) ==
    /\ recon[p].phase = "running" /\ i \in recon[p].todo
    /\ recon[p].status[i] = "pending"
    /\ i \notin recon[p].stalled
    /\ Visit(p, i, "running")
    /\ UNCHANGED <<row, stored, aged, lock, keys, realm, attempt, secrets>>

\* sweepStalled deletes the client ...
SweepClient(p, i) ==
    /\ recon[p].phase = "running" /\ i \in recon[p].todo
    /\ recon[p].status[i] = "pending"
    /\ i \in recon[p].stalled
    /\ realm' = [realm EXCEPT ![i] = Missing]
    /\ Visit(p, i, "sweeping")
    /\ UNCHANGED <<row, stored, aged, lock, keys, attempt, secrets>>

\* ... and marks the row
SweepRow(p) ==
    LET i == recon[p].at
    IN  /\ recon[p].phase = "sweeping"
        /\ lock[i] = None
        /\ row' = [row EXCEPT ![i] = "disabled"]
        /\ Visit(p, i, "running")
        /\ UNCHANGED <<stored, aged, lock, keys, realm, attempt, secrets>>

\* A row that was never activated: its client, if there is one, is deleted
SweepAbandoned(p, i) ==
    /\ recon[p].phase = "running" /\ i \in recon[p].todo
    /\ recon[p].status[i] = "disabled"
    /\ recon[p].stored[i] = 0
    /\ realm' = [realm EXCEPT ![i] = Missing]
    /\ Visit(p, i, "running")
    /\ UNCHANGED <<row, stored, aged, lock, keys, attempt, secrets>>

\* An active row whose client exists needs nothing; clientExists is the probe
Probe(p, i) ==
    /\ recon[p].phase = "running" /\ i \in recon[p].todo
    /\ recon[p].status[i] = "active"
    /\ recon[p].stored[i] # 0
    /\ Visit(p, i, IF realm[i] # Missing THEN "running" ELSE "missing")
    /\ UNCHANGED <<row, stored, aged, lock, keys, realm, attempt, secrets>>

\* rebuild: createServiceAccountClient, unless another run was faster
RebuildCreate(p) ==
    LET i == recon[p].at
    IN  /\ recon[p].phase = "missing"
        /\ realm[i] = Missing
        /\ secrets < MaxSecret
        /\ secrets' = secrets + 1
        /\ realm' = [realm EXCEPT ![i] = [secret |-> secrets + 1, ready |-> FALSE]]
        /\ recon' = [recon EXCEPT ![p].phase = "created",
                                  ![p].secret = secrets + 1]
        /\ UNCHANGED <<row, stored, aged, lock, keys, attempt>>

\* rebuild: setServiceAccountTenant and grantClientRoles
RebuildReady(p) ==
    LET i == recon[p].at
    IN  /\ recon[p].phase = "created"
        /\ realm[i].secret = recon[p].secret
        /\ realm' = [realm EXCEPT ![i].ready = TRUE]
        /\ recon' = [recon EXCEPT ![p].phase = "ready"]
        /\ UNCHANGED <<row, stored, aged, lock, keys, attempt, secrets>>

\* rebuild: the new secret is stored
RebuildStore(p) ==
    LET i == recon[p].at
    IN  /\ recon[p].phase = "ready"
        /\ lock[i] = None
        /\ stored' = [stored EXCEPT ![i] = recon[p].secret]
        /\ Visit(p, i, "running")
        /\ UNCHANGED <<row, aged, lock, keys, realm, attempt, secrets>>

\* A step of a visit throws, a client that already exists (409) included: the
\* row is reported and the next one visited
VisitFails(p, i) ==
    /\ recon[p].phase # "idle"
    /\ i = recon[p].at \/ (recon[p].at = None /\ i \in recon[p].todo)
    /\ recon' = [recon EXCEPT ![p].phase = "running", ![p].at = None,
                             ![p].todo = @ \ {i}, ![p].failed = @ \cup {i}]
    /\ UNCHANGED <<row, stored, aged, lock, keys, realm, attempt, secrets>>

\* The run returns its report
ReconcileEnd(p) ==
    /\ recon[p].phase = "running"
    /\ recon[p].todo = {}
    /\ recon' = [recon EXCEPT ![p] = NotRunning]
    /\ UNCHANGED <<row, stored, aged, lock, keys, realm, attempt, secrets>>

\* The run dies
ReconcileDies(p) ==
    /\ recon[p].phase # "idle"
    /\ ~(recon[p].phase = "running" /\ recon[p].todo = {})
    /\ recon' = [recon EXCEPT ![p] = NotRunning]
    /\ UNCHANGED <<row, stored, aged, lock, keys, realm, attempt, secrets>>

AttemptStep(i) ==
    \/ Intend(i) \/ CreateClient(i) \/ ReadyClient(i) \/ ActivateLock(i)
    \/ \E k \in Keys : ActivateCommit(i, k)
    \/ Discard(i) \/ AttemptFails(i) \/ Age(i)

AdministratorStep(i) ==
    \/ DisableIntegration(i)
    \/ \E k \in Keys : \/ IssueLock(i, k) \/ RevokeKey(i, k)
                       \/ \E commits \in BOOLEAN : IssueEnd(i, k, commits)

ReconcileStep(p) ==
    \/ ReconcileRead(p) \/ SweepRow(p) \/ RebuildCreate(p) \/ RebuildReady(p)
    \/ RebuildStore(p) \/ ReconcileEnd(p) \/ ReconcileDies(p)
    \/ \E i \in Integrations :
          \/ SkipPending(p, i) \/ SweepClient(p, i) \/ SweepAbandoned(p, i)
          \/ Probe(p, i) \/ VisitFails(p, i)

Next ==
    \/ \E i \in Integrations : AttemptStep(i) \/ AdministratorStep(i)
    \/ \E p \in Reconcilers : ReconcileStep(p)
    \/ Reset

Spec == Init /\ [][Next]_vars

-----------------------------------------------------------------------------
(* Properties                                                              *)

\* Every variable has its type; a row lock is held by the transaction that is
\* inside it.
TypeOK ==
    /\ row \in [Integrations -> Statuses]
    /\ stored \in [Integrations -> Secrets]
    /\ aged \in SUBSET Integrations
    /\ lock \in [Integrations -> Integrations \cup Keys \cup {None}]
    /\ keys \in [Integrations -> [Keys -> {"none", "live", "revoked"}]]
    /\ realm \in [Integrations -> Client]
    /\ attempt \in [Integrations -> Attempt]
    /\ recon \in [Reconcilers -> Run]
    /\ secrets \in Secrets
    /\ \A i \in Integrations :
          /\ attempt[i].phase = "activating" <=> lock[i] = i
          /\ lock[i] \in Keys => row[i] = "active" /\ keys[i][lock[i]] = "none"

\* The lock that activation, issueKey and disableIntegration share prevents "a
\* live credential under a disabled parent": a live key belongs to an active
\* integration that has a secret to exchange.
LiveKeyIsUsable ==
    \A i \in Integrations, k \in Keys :
        keys[i][k] = "live" => row[i] = "active" /\ stored[i] # 0

\* "an unconditional `set status = 'active'` would quietly undo that disable":
\* an integration that was disabled, by an administrator or a sweep, at any
\* point of its provisioning, is never active again.
DisableStands ==
    [][\A i \in Integrations : row[i] = "disabled" => row'[i] = "disabled"]_vars

\* "leaving the realm client step 2 may have created with nothing on record":
\* every client in the realm is named by a row, so that a run can find it.
ClientsAreNamed ==
    \A i \in Integrations : realm[i] # Missing => row[i] # "absent"

\* An attempt that never reached its activation leaves a client behind, and
\* "the orphan would survive every later run" if no branch visited it: a run
\* that returns has deleted every orphan that was there when it began, except
\* those it reports.
OrphansAreSwept ==
    [][\A p \in Reconcilers :
          recon[p].phase = "running" /\ recon[p].todo = {} /\ recon'[p] = NotRunning
          => \A i \in recon[p].orphans \ recon[p].failed : realm[i] = Missing]_vars

\* "The database is the source of truth for intent, which is what makes both
\* recoverable": after a run that reports no failure, an integration that was
\* active all along can exchange its secret for a token, unless the realm was
\* reset once more or another run is rebuilding it.
RunRepairs ==
    [][\A p \in Reconcilers, i \in Integrations :
          /\ recon[p].phase = "running" /\ recon[p].todo = {}
          /\ recon'[p] = NotRunning
          /\ recon[p].status[i] = "active" /\ row[i] = "active"
          /\ i \notin recon[p].failed
          /\ ~recon[p].reset
          /\ \A q \in Reconcilers \ {p} : recon[q].at # i
          => realm[i] = [secret |-> stored[i], ready |-> TRUE]]_vars
===============================================================================
