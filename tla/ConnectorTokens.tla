--------------------------- MODULE ConnectorTokens ---------------------------
(***************************************************************************)
(* The OAuth tokens of one connector installation: the authorize round     *)
(* trip with its single-use state (connectors/oauth-state.ts,              *)
(* oauth-routes.ts), the refresh under the installation's row lock         *)
(* (token-lifecycle.ts, oauth.ts) and the re-encryption of stored secrets  *)
(* under a new key (store.ts).  The provider issues single-use refresh     *)
(* tokens: each refresh may replace the one it was given.  A call may be   *)
(* aborted, die or lose its COMMIT at any point, also after the provider   *)
(* has replaced the token.                                                 *)
(***************************************************************************)
EXTENDS Integers, FiniteSets

CONSTANTS
    Callers,     \* invocations that need an access token
    Callbacks,   \* redirects from the provider, repeated ones included
    Flows,       \* authorize round trips; each ends in a grant of its own
    MaxSerial,   \* bound: refresh tokens of a grant
    MaxInst,     \* bound: installations, one after the other
    Rotates,     \* somebody runs rotateSecrets
    None

VARIABLES
    inst,       \* the installation: its number, and whether it exists
    row,        \* its connector_secrets row of PLATFORM_OAUTH_FIELD
    lock,       \* who holds the row lock of the installation
    states,     \* connector_oauth_states
    provider,   \* the provider: the grant of a flow, its current refresh token
    caller,     \* ensureAuthorizationCodeAccessToken
    callback,   \* the callback route
    sweep,      \* rotateSecrets
    lost,       \* history: grants whose replacement token was never stored
    latest,     \* history: the grant stored by the last callback
    drained     \* history: a rotateSecrets has completed

vars == <<inst, row, lock, states, provider, caller, callback, sweep,
          lost, latest, drained>>

\* A stored token set.  serial 0: without a refresh token.  fresh: it does not
\* need a refresh yet.  key: the key it is encrypted with.
TokenRow == [grant : Flows, serial : 0..MaxSerial, fresh : BOOLEAN,
             key : {"retired", "active"}]

\* What the model takes for granted of its constants
TokensAssumption ==
    /\ MaxSerial \in Nat \ {0}
    /\ MaxInst \in Nat \ {0}
    /\ Rotates \in BOOLEAN
    /\ None \notin Callers /\ None \notin TokenRow

Grant == [state : {"none", "live", "revoked"}, serial : 0..MaxSerial]

Caller == [phase : {"idle", "locked", "exchanging", "exchanged", "done", "consent"},
           got : TokenRow \cup {None}]

Callback == [phase : {"idle", "claimed", "exchanged", "over", "refused"},
             flow : Flows, inst : 0..MaxInst, got : TokenRow \cup {None}]

Sweep == [running : BOOLEAN, inst : 0..MaxInst, seen : TokenRow \cup {None}]

Idle == [running |-> FALSE, inst |-> 0, seen |-> None]

Init ==
    /\ inst = [n |-> 1, live |-> TRUE]
    /\ \/ /\ row = None
          /\ states = [f \in Flows |-> "none"]
          /\ provider = [f \in Flows |-> [state |-> "none", serial |-> 0]]
          /\ latest = None
       \/ \E g \in Flows :
            /\ row = [grant |-> g, serial |-> 1, fresh |-> FALSE, key |-> "retired"]
            /\ states = [f \in Flows |-> IF f = g THEN "gone" ELSE "none"]
            /\ provider = [f \in Flows |->
                             IF f = g THEN [state |-> "live", serial |-> 1]
                             ELSE [state |-> "none", serial |-> 0]]
            /\ latest = g
    /\ lock = None
    /\ caller = [c \in Callers |-> [phase |-> "idle", got |-> None]]
    /\ callback \in [Callbacks -> [phase : {"idle"}, flow : Flows,
                                   inst : {0}, got : {None}]]
    /\ sweep = Idle
    /\ lost = {}
    /\ drained = FALSE

-----------------------------------------------------------------------------
(* The authorize round trip                                                *)

\* The authorize route: createAuthorizationState
Authorize(f) ==
    /\ inst.live
    /\ states[f] = "none"
    /\ states' = [states EXCEPT ![f] = "open"]
    /\ UNCHANGED <<inst, row, lock, provider, caller, callback, sweep, lost,
                   latest, drained>>

\* Ten minutes pass
Lapse(f) ==
    /\ states[f] \in {"open", "consumed"}
    /\ states' = [states EXCEPT ![f] = "expired"]
    /\ UNCHANGED <<inst, row, lock, provider, caller, callback, sweep, lost,
                   latest, drained>>

\* purgeExpiredAuthorizationStates
Purge ==
    /\ \E f \in Flows : states[f] = "expired"
    /\ states' = [f \in Flows |-> IF states[f] = "expired" THEN "gone"
                                  ELSE states[f]]
    /\ UNCHANGED <<inst, row, lock, provider, caller, callback, sweep, lost,
                   latest, drained>>

\* The where clause of consumeAuthorizationState
Claimable(f) == states[f] = "open"

\* consumeAuthorizationState: one statement, committed; then the installation
\* is looked up
Claim(k) ==
    LET f == callback[k].flow
    IN  /\ callback[k].phase = "idle"
        /\ Claimable(f)
        /\ states' = [states EXCEPT ![f] = "consumed"]
        /\ callback' = [callback EXCEPT ![k].inst = inst.n,
                          ![k].phase = IF inst.live THEN "claimed" ELSE "over"]
        /\ UNCHANGED <<inst, row, lock, provider, caller, sweep, lost, latest,
                       drained>>

\* The state is unknown, already used or expired
Refuse(k) ==
    /\ callback[k].phase = "idle"
    /\ states[callback[k].flow] # "none"
    /\ ~Claimable(callback[k].flow)
    /\ callback' = [callback EXCEPT ![k].phase = "refused"]
    /\ UNCHANGED <<inst, row, lock, states, provider, caller, sweep, lost,
                   latest, drained>>

\* exchangeAuthorizationCode: the provider accepts a code once, and may give a
\* refresh token with the access token
ExchangeCode(k, n, fresh) ==
    LET f == callback[k].flow
    IN  /\ callback[k].phase = "claimed"
        /\ provider[f].state = "none"
        /\ provider' = [provider EXCEPT ![f] = [state |-> "live", serial |-> n]]
        /\ callback' = [callback EXCEPT ![k].phase = "exchanged",
                          ![k].got = [grant |-> f, serial |-> n,
                                      fresh |-> fresh, key |-> "active"]]
        /\ UNCHANGED <<inst, row, lock, states, caller, sweep, lost, latest,
                       drained>>

\* writeOAuthTokens: an upsert.  It takes no lock on the installation where it
\* updates the row; an insert waits for one, and the foreign key refuses a
\* deleted installation.
WriteTokens(k) ==
    /\ callback[k].phase = "exchanged"
    /\ row = None => lock = None
    /\ callback' = [callback EXCEPT ![k].phase = "over"]
    /\ IF inst = [n |-> callback[k].inst, live |-> TRUE]
       THEN row' = callback[k].got /\ latest' = callback[k].flow
       ELSE UNCHANGED <<row, latest>>
    /\ UNCHANGED <<inst, lock, states, provider, caller, sweep, lost, drained>>

\* The exchange or the write fails, or the process dies
CallbackFails(k) ==
    /\ callback[k].phase \in {"claimed", "exchanged"}
    /\ callback' = [callback EXCEPT ![k].phase = "over"]
    /\ UNCHANGED <<inst, row, lock, states, provider, caller, sweep, lost,
                   latest, drained>>

-----------------------------------------------------------------------------
(* ensureOAuthTokenSet                                                     *)

\* Mutant of Unlocked: the row is read without a lock
MutUnlocked == TRUE

Unlocked == lock = None

\* withLockedRow; an installation that was deleted has no row and no tokens
Lock(c) ==
    /\ caller[c].phase = "idle"
    /\ Unlocked
    /\ lock' = IF inst.live THEN c ELSE lock
    /\ caller' = [caller EXCEPT ![c].phase =
                    IF inst.live THEN "locked" ELSE "consent"]
    /\ UNCHANGED <<inst, row, states, provider, callback, sweep, lost, latest,
                   drained>>

\* The transaction ends, and with it the lock
End(c, phase) ==
    /\ lock' = None
    /\ caller' = [caller EXCEPT ![c] = [phase |-> phase, got |-> None]]

\* The tokens are read inside the lock: a usable one is answered, none or one
\* without a refresh token means consent
Decide(c) ==
    /\ caller[c].phase = "locked"
    /\ IF row = None \/ (row # None /\ ~row.fresh /\ row.serial = 0)
       THEN End(c, "consent")
       ELSE IF row.fresh THEN End(c, "done")
       ELSE /\ caller' = [caller EXCEPT ![c] =
                            [phase |-> "exchanging", got |-> row]]
            /\ UNCHANGED lock
    /\ UNCHANGED <<inst, row, states, provider, callback, sweep, lost, latest,
                   drained>>

\* The provider still knows the refresh token the caller presents
Accepts(c) ==
    LET t == caller[c].got
    IN  provider[t.grant] = [state |-> "live", serial |-> t.serial]

\* The provider replaces the refresh token, or returns none and the old one is
\* kept
Serials(c) ==
    LET n == caller[c].got.serial IN {n} \cup ({n + 1} \cap (0..MaxSerial))

\* refreshOAuthTokenSet with an answer that can be used
Refresh(c, n, fresh) ==
    LET t == caller[c].got
    IN  /\ caller[c].phase = "exchanging"
        /\ Accepts(c)
        /\ n \in Serials(c)
        /\ provider' = [provider EXCEPT ![t.grant].serial = n]
        /\ caller' = [caller EXCEPT ![c] =
                        [phase |-> "exchanged",
                         got |-> [grant |-> t.grant, serial |-> n,
                                  fresh |-> fresh, key |-> "active"]]]
        /\ UNCHANGED <<inst, row, lock, states, callback, sweep, lost, latest,
                       drained>>

\* The provider acts and its answer is lost, cannot be parsed or is for another
\* audience: the transaction is rolled back
AnswerLost(c, n) ==
    LET t == caller[c].got
    IN  /\ caller[c].phase = "exchanging"
        /\ Accepts(c)
        /\ n \in Serials(c)
        /\ provider' = [provider EXCEPT ![t.grant].serial = n]
        /\ lost' = IF n = t.serial THEN lost ELSE lost \cup {t.grant}
        /\ End(c, "done")
        /\ UNCHANGED <<inst, row, states, callback, sweep, latest, drained>>

\* 400 or 401: authorization is required again
RefreshRefused(c) ==
    /\ caller[c].phase = "exchanging"
    /\ ~Accepts(c)
    /\ End(c, "consent")
    /\ UNCHANGED <<inst, row, states, provider, callback, sweep, lost, latest,
                   drained>>

\* Mutant of Persisted: the new refresh token is dropped
MutPersisted(t) == [t EXCEPT !.serial = row.serial]

\* The row persist writes
Persisted(t) == t

\* persist, auditRefreshed and the commit; the answer to the COMMIT may be lost
Persist(c) ==
    /\ caller[c].phase = "exchanged"
    /\ row' = IF row = None THEN None ELSE Persisted(caller[c].got)
    /\ End(c, "done")
    /\ UNCHANGED <<inst, states, provider, callback, sweep, lost, latest, drained>>

\* The caller aborts, a statement or the commit fails, or the process dies: the
\* transaction is rolled back, whatever the provider has done
Fail(c) ==
    /\ caller[c].phase \in {"locked", "exchanging", "exchanged"}
    /\ lost' = IF /\ caller[c].phase = "exchanged"
                  /\ row # None
                  /\ row.grant = caller[c].got.grant
                  /\ row.serial # caller[c].got.serial
               THEN lost \cup {caller[c].got.grant} ELSE lost
    /\ End(c, "done")
    /\ UNCHANGED <<inst, row, states, provider, callback, sweep, latest, drained>>

\* Another call of the same process
Again(c) ==
    /\ caller[c].phase \in {"done", "consent"}
    /\ caller' = [caller EXCEPT ![c].phase = "idle"]
    /\ UNCHANGED <<inst, row, lock, states, provider, callback, sweep, lost,
                   latest, drained>>

-----------------------------------------------------------------------------
(* rotateSecrets and the installation                                      *)

\* The select of rotateSecrets, which locks nothing
ReadSecrets ==
    /\ Rotates
    /\ ~sweep.running
    /\ row # None
    /\ sweep' = [running |-> TRUE, inst |-> inst.n, seen |-> row]
    /\ UNCHANGED <<inst, row, lock, states, provider, caller, callback, lost,
                   latest, drained>>

\* Mutant of Reencrypted: the key that is being retired is used
MutReencrypted == [sweep.seen EXCEPT !.key = "retired"]

\* needsRotation, decryptSecret and encryptSecret: the plaintext that was read
Reencrypted == [sweep.seen EXCEPT !.key = "active"]

\* The update of a row that needs it, by id, and the commit
WriteSecrets ==
    /\ sweep.running
    /\ row' = IF sweep.seen.key = "retired" /\ row # None /\ sweep.inst = inst.n
              THEN Reencrypted ELSE row
    /\ sweep' = Idle
    /\ drained' = TRUE
    /\ UNCHANGED <<inst, lock, states, provider, caller, callback, lost, latest>>

\* deleteInstallation; the row lock of a refresh is waited for
Delete ==
    /\ inst.live
    /\ lock = None
    /\ inst' = [inst EXCEPT !.live = FALSE]
    /\ row' = None
    /\ latest' = None
    /\ UNCHANGED <<lock, states, provider, caller, callback, sweep, lost, drained>>

\* upsertInstallation of a connector that has none
Configure ==
    /\ ~inst.live
    /\ inst.n < MaxInst
    /\ inst' = [n |-> inst.n + 1, live |-> TRUE]
    /\ UNCHANGED <<row, lock, states, provider, caller, callback, sweep, lost,
                   latest, drained>>

\* The access token comes to the end of its life, less the leeway
Expire ==
    /\ row # None
    /\ row.fresh
    /\ row' = [row EXCEPT !.fresh = FALSE]
    /\ UNCHANGED <<inst, lock, states, provider, caller, callback, sweep, lost,
                   latest, drained>>

\* The user or the provider withdraws a grant
Revoke(f) ==
    /\ provider[f].state = "live"
    /\ provider' = [provider EXCEPT ![f].state = "revoked"]
    /\ UNCHANGED <<inst, row, lock, states, caller, callback, sweep, lost,
                   latest, drained>>

CallerStep(c) ==
    \/ Lock(c) \/ Decide(c) \/ RefreshRefused(c) \/ Persist(c) \/ Fail(c) \/ Again(c)
    \/ \E n \in 0..MaxSerial :
          AnswerLost(c, n) \/ \E fresh \in BOOLEAN : Refresh(c, n, fresh)

CallbackStep(k) ==
    \/ Claim(k) \/ Refuse(k) \/ WriteTokens(k) \/ CallbackFails(k)
    \/ \E n \in 0..1, fresh \in BOOLEAN : ExchangeCode(k, n, fresh)

Next ==
    \/ \E c \in Callers : CallerStep(c)
    \/ \E k \in Callbacks : CallbackStep(k)
    \/ \E f \in Flows : Authorize(f) \/ Lapse(f) \/ Revoke(f)
    \/ Purge \/ ReadSecrets \/ WriteSecrets \/ Delete \/ Configure \/ Expire

Spec == Init /\ [][Next]_vars

-----------------------------------------------------------------------------
(* Properties                                                              *)

\* Every variable has its type; the row lock is held by the caller that is
\* inside its transaction, and only by that one.
TypeOK ==
    /\ inst \in [n : 1..MaxInst, live : BOOLEAN]
    /\ row \in TokenRow \cup {None}
    /\ lock \in Callers \cup {None}
    /\ states \in [Flows -> {"none", "open", "consumed", "expired", "gone"}]
    /\ provider \in [Flows -> Grant]
    /\ caller \in [Callers -> Caller]
    /\ callback \in [Callbacks -> Callback]
    /\ sweep \in Sweep
    /\ lost \in SUBSET Flows
    /\ latest \in Flows \cup {None}
    /\ drained \in BOOLEAN
    /\ \A c \in Callers :
          caller[c].phase \in {"locked", "exchanging", "exchanged"} <=> lock = c

\* "a connector that dropped the replacement would authenticate once and fail
\* on its next call": the stored refresh token is the one the provider expects
\* next, while no caller is between the exchange and its commit, unless the
\* replacement died with a call or its answer.
StoredIsNewest ==
    row # None /\ row.grant \notin lost =>
        \/ row.serial = provider[row.grant].serial
        \/ \E c \in Callers :
              /\ caller[c].phase = "exchanged"
              /\ caller[c].got.grant = row.grant
              /\ caller[c].got.serial = provider[row.grant].serial

\* A waiter "observes the winner's rotation rather than spending a stale
\* refresh token": nobody is sent to the consent screen while the stored grant
\* is good.
ConsentStep ==
    \A c \in Callers :
        caller'[c].phase = "consent" /\ caller[c].phase # "consent" =>
            \/ row = None
            \/ row.serial = 0
            \/ LET g == IF caller[c].got = None THEN row.grant
                        ELSE caller[c].got.grant
               IN  g \in lost \/ provider[g].state = "revoked"

\* "the second one must not": of all callbacks that carry one state, one claims
\* it, whatever expires or is purged meanwhile.
StateUsedOnce ==
    \A j, k \in Callbacks :
        /\ callback[j].phase \in {"claimed", "exchanged", "over"}
        /\ callback[k].phase \in {"claimed", "exchanged", "over"}
        /\ callback[j].flow = callback[k].flow
        => j = k

\* "retiring a key is only safe once nothing depends on it": once rotateSecrets
\* has completed, no stored token set depends on the retired key again.
KeyRetires ==
    drained /\ row # None => row.key = "active"

\* The plaintext "is the only thing rotation must not change": rotateSecrets
\* leaves the token set that is stored when it writes.
RotationKeepsSecret ==
    [][sweep.running /\ ~sweep'.running /\ row # None =>
          row'.grant = row.grant /\ row'.serial = row.serial]_vars

\* A callback stores its tokens "replacing whatever was there": the tokens of an
\* installation belong to the grant that was authorized last.
ReauthorizationStands ==
    row # None => row.grant = latest
=============================================================================
