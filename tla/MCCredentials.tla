---------------------------- MODULE MCCredentials ----------------------------
(***************************************************************************)
(* Instances of CapabilityGrants, ApiKeys and ConnectorTokens for TLC.     *)
(*                                                                         *)
(* The three share no state; a behaviour of this module is one of a single *)
(* component, and the others stand in an initial state, so that TLC visits *)
(* the sum of their states in place of the product.  Two parts of          *)
(* CapabilityGrants and two of ConnectorTokens differ in what is bounded.  *)
(***************************************************************************)
EXTENDS CapabilityGrants, TLC

CONSTANTS
    Parts,   \* what a behaviour may be one of
    Integrations, Keys, Reconcilers, MaxSecret,
    Callers, Callbacks, Flows, MaxSerial, MaxInst,
    RotationCallers

VARIABLES
    part,
    aRow, aStored, aAged, aLock, aKeys, aRealm, aAttempt, aRecon, aSecrets,
    inst, tRow, tLock, states, provider, caller, callback, sweep, lost, latest,
    drained

aVars == <<aRow, aStored, aAged, aLock, aKeys, aRealm, aAttempt, aRecon, aSecrets>>

tVars == <<inst, tRow, tLock, states, provider, caller, callback, sweep, lost,
           latest, drained>>

A == INSTANCE ApiKeys WITH
    row <- aRow, stored <- aStored, aged <- aAged, lock <- aLock, keys <- aKeys,
    realm <- aRealm, attempt <- aAttempt, recon <- aRecon, secrets <- aSecrets

\* Refreshes and callbacks, while nobody rotates keys
T == INSTANCE ConnectorTokens WITH
    Rotates <- FALSE, row <- tRow, lock <- tLock

\* The same for one installation, beside rotateSecrets
R == INSTANCE ConnectorTokens WITH
    Rotates <- TRUE, MaxInst <- 1, Callers <- RotationCallers,
    row <- tRow, lock <- tLock

ASSUME CredentialsAssumed ==
    A!ApiKeysAssumption /\ T!TokensAssumption /\ R!TokensAssumption

\* part "calls": many calls of one grant, the issue of any other was rolled
\* back.  part "issues": many grants, one call at a time.
CallsOfOneGrant ==
    \E g \in Grants :
        issue = [h \in Grants |->
                   [phase |-> IF h = g THEN "new" ELSE "over", now |-> 0,
                    superseding |-> FALSE, matched |-> {}]]

\* No installation, in the parts that are not about ConnectorTokens
NoTokens ==
    /\ inst = None /\ tRow = None /\ tLock = None /\ states = None
    /\ provider = None /\ caller = None /\ callback = None /\ sweep = None
    /\ lost = None /\ latest = None /\ drained = FALSE

MCInit ==
    /\ part \in Parts
    /\ IF part = "calls"
       THEN /\ CallsOfOneGrant
            /\ clock = 0
            /\ grants = [g \in Grants |-> None]
            /\ rowLock = [g \in Grants |-> None]
            /\ revoking = {}
            /\ req = [r \in Requests |-> Idle]
            /\ effects = [g \in Grants |-> 0]
            /\ wrong = [g \in Grants |-> 0]
       ELSE Init
    /\ A!Init
    /\ CASE part = "tokens" -> T!Init
         [] part = "rotation" -> R!Init
         [] OTHER -> NoTokens

OneCallAtATime ==
    /\ Cardinality({r \in Requests : req'[r].phase # "idle"}) <= 1
    /\ clock' < MaxClock

MCNext ==
    \/ part = "calls" /\ Next /\ UNCHANGED <<part, aVars, tVars>>
    \/ part = "issues" /\ Next /\ OneCallAtATime /\ UNCHANGED <<part, aVars, tVars>>
    \/ part = "keys" /\ A!Next /\ UNCHANGED <<part, vars, tVars>>
    \/ part = "tokens" /\ T!Next /\ UNCHANGED <<part, vars, aVars>>
    \/ part = "rotation" /\ R!Next /\ UNCHANGED <<part, vars, aVars>>

MCSpec == MCInit /\ [][MCNext]_<<part, vars, aVars, tVars>>

\* The lock that activation, issueKey and disableIntegration share prevents "a
\* live credential under a disabled parent": a live key belongs to an active
\* integration that has a secret to exchange, and every client in the realm is
\* named by a row, so that a run can find it.
KeysAreSound == A!LiveKeyIsUsable /\ A!ClientsAreNamed

\* An administrator's or a sweep's disable is not undone by an activation,
\* however far that had got.
DisableStands == A!DisableStands

\* A run of reconcileApiKeyIntegrations that returns has deleted every orphaned
\* client that was there when it began, except those it reports.
OrphansAreSwept == A!OrphansAreSwept

\* The stored refresh token is the one the provider expects next, unless the
\* replacement died with a call or its answer.
StoredIsNewest == part = "tokens" => T!StoredIsNewest

\* A waiter uses what the winner of the row lock stored: nobody is sent to the
\* consent screen while the stored grant is good.
ConsentOnlyIfNeeded ==
    [][part = "tokens" => T!ConsentStep]_<<part, tVars>>

\* After rotateSecrets has completed nothing stored depends on the retired key.
KeyRetires == R!KeyRetires

\* rotateSecrets leaves the token set that is stored when it writes.
RotationKeepsSecret == R!RotationKeepsSecret

Symmetry ==
    Permutations(Requests) \cup Permutations(Grants) \cup
    Permutations(Keys) \cup
    Permutations(Callers) \cup Permutations(Flows)
=============================================================================
