-------------------------- MODULE ExecutionReceipts --------------------------
(***************************************************************************)
(* Keyed execution of an Operation: platform.operation_execution_receipts  *)
(* (operations/execution-receipts.ts), with the two admissions by the      *)
(* host's execution policies that surround it (operations/runtime.ts,      *)
(* modules/platform.ts, operations/execution-policy.ts).                   *)
(*                                                                         *)
(* A database-only Operation claims its key, works and completes in ONE    *)
(* transaction.  An Operation that writes outside commits its claim first, *)
(* executes without a transaction, and completes or settles the claim in   *)
(* transactions of their own; each of those, and the process, may fail at  *)
(* any point, and a COMMIT may take effect although its acknowledgement is *)
(* lost.                                                                   *)
(***************************************************************************)
EXTENDS Integers, FiniteSets

CONSTANTS
    Keys,        \* (tenant, actor, Operation, intent, key hash)
    External,    \* keys of Operations that declare effects.external = write
    Bodies,      \* request and contract fingerprints
    Requests,    \* bound: calls; a result is named by the call it comes from
    InFlight,    \* EXTERNAL_IN_FLIGHT_SECONDS
    MaxTime,     \* bound of the clock
    None

ASSUME ReceiptsAssumption ==
    /\ External \subseteq Keys
    /\ InFlight \in Nat \ {0}
    /\ MaxTime \in Nat
    /\ None \notin [state : {"running", "completed", "unknown"},
                    body : Bodies, by : Requests, retryAt : Nat]
    /\ None \notin [stage : {"claimed", "admitted", "done", "unknown"},
                    body : Bodies, by : Requests]

VARIABLES
    clock,
    open,      \* every registered execution policy admits the Operation
    rows,      \* the committed receipt of a key
    req,       \* a call: its phase, key and input
    admitted,  \* calls whose effectsAdmitted flag is set
    answers,   \* what a call was told
    effects,   \* history: effects that took place
    told,      \* history: successes that were answered
    aged       \* history: keys found running past their retry_at

vars == <<clock, open, rows, req, admitted, answers, effects, told, aged>>

Phases == {"idle", "asked", "locked", "local", "ready", "claimed", "admitted",
           "sent", "returned", "failing", "over"}

\* by: whose claim the row is; no statement reads it
Receipt == [state : {"running", "completed", "unknown"}, body : Bodies,
            by : Requests, retryAt : Nat]

Call == [phase : Phases, key : Keys, body : Bodies]

Effect == [key : Keys, body : Bodies, by : Requests]

Answers == {"ok", "refused", "error", "busy", "reused", "unknown"}

Init ==
    /\ clock = 0
    /\ open = TRUE
    /\ rows = [k \in Keys |-> None]
    /\ req \in [Requests -> [phase : {"idle"}, key : Keys, body : Bodies]]
    /\ admitted = {}
    /\ answers = [r \in Requests |-> None]
    /\ effects = {}
    /\ told = {}
    /\ aged = {}

-----------------------------------------------------------------------------
(* Helpers                                                                 *)

key(r) == req[r].key
EffectOf(r) == [key |-> key(r), body |-> req[r].body, by |-> r]

\* The transaction of a call that holds the advisory lock of the key
Holds(r) == req[r].phase \in {"locked", "local", "ready"}

\* A call that executes the Operation under a committed claim
Executes(r) == req[r].phase \in {"claimed", "admitted", "sent", "returned", "failing"}

Goto(r, phase) == req' = [req EXCEPT ![r].phase = phase]

\* The call ends with this answer
Answer(r, a) ==
    /\ Goto(r, "over")
    /\ answers' = [answers EXCEPT ![r] = a]

\* assertOperationAdmitted: a refusal by one policy, a throwing or malformed
\* policy and an unreachable database all refuse
Admits == open

\* Mutant of MatchesClaim: the state of the row is not compared
MutMatchesClaim(r) ==
    /\ rows[key(r)] # None
    /\ rows[key(r)].body = req[r].body

\* The where clause of complete, deleteRunning and markUnknown
MatchesClaim(r) ==
    /\ rows[key(r)] # None
    /\ rows[key(r)].body = req[r].body
    /\ rows[key(r)].state = "running"

-----------------------------------------------------------------------------
(* The environment                                                         *)

Tick ==
    /\ clock < MaxTime
    /\ clock' = clock + 1
    /\ UNCHANGED <<open, rows, req, admitted, answers, effects, told, aged>>

\* A host policy changes its mind
Decide ==
    /\ open' = ~open
    /\ UNCHANGED <<clock, rows, req, admitted, answers, effects, told, aged>>

\* The process dies, or its connection with the call's transaction
Crash(r) ==
    /\ req[r].phase \notin {"idle", "over"}
    /\ Goto(r, "over")
    /\ UNCHANGED <<clock, open, rows, admitted, answers, effects, told, aged>>

-----------------------------------------------------------------------------
(* The claim                                                               *)

\* invokeOperation: the early admission, before the receipt
Begin(r) ==
    /\ req[r].phase = "idle"
    /\ IF Admits THEN Goto(r, "asked") /\ UNCHANGED answers
                 ELSE Answer(r, "refused")
    /\ UNCHANGED <<clock, open, rows, admitted, effects, told, aged>>

\* authorizeReplay may refuse, canonicalJson may reject the input, and any
\* statement of the claiming transaction may fail: all of it is rolled back
ClaimFails(r) ==
    /\ req[r].phase \in {"asked", "locked", "local", "ready"}
    /\ Answer(r, "error")
    /\ UNCHANGED <<clock, open, rows, admitted, effects, told, aged>>

\* acquireLock
Lock(r) ==
    /\ req[r].phase = "asked"
    /\ IF \E s \in Requests : Holds(s) /\ key(s) = key(r)
       THEN Answer(r, "busy")
       ELSE Goto(r, "locked") /\ UNCHANGED answers
    /\ UNCHANGED <<clock, open, rows, admitted, effects, told, aged>>

\* Mutant of Replays: the input of the stored request is not compared
MutReplays(r) == rows[key(r)].state = "completed"

\* assertSameRequest and state = completed
Replays(r) ==
    rows[key(r)].body = req[r].body /\ rows[key(r)].state = "completed"

\* existingOutcome, where it answers the stored result
Replay(r) ==
    /\ req[r].phase = "locked"
    /\ rows[key(r)] # None
    /\ Replays(r)
    /\ Answer(r, "ok")
    /\ told' = told \cup {[key |-> key(r), body |-> req[r].body,
                           by |-> rows[key(r)].by]}
    /\ UNCHANGED <<clock, open, rows, admitted, effects, aged>>

\* existingOutcome, where it throws.  The update of an aged row to
\* outcome_unknown precedes the throw in the same transaction, which the throw
\* rolls back: the row does not change.
Existing(r) ==
    /\ req[r].phase = "locked"
    /\ rows[key(r)] # None
    /\ ~Replays(r)
    /\ LET row  == rows[key(r)]
           late == row.state = "running" /\ row.retryAt <= clock
       IN  IF row.body # req[r].body
           THEN Answer(r, "reused") /\ UNCHANGED aged
           ELSE IF row.state = "running" /\ ~late
           THEN Answer(r, "busy") /\ UNCHANGED aged
           ELSE /\ Answer(r, "unknown")
                /\ aged' = IF late THEN aged \cup {key(r)} ELSE aged
    /\ UNCHANGED <<clock, open, rows, admitted, effects, told>>

\* insertRunning of a database-only Operation: private to its transaction
ClaimLocal(r) ==
    /\ req[r].phase = "locked"
    /\ key(r) \notin External
    /\ rows[key(r)] = None
    /\ Goto(r, "local")
    /\ UNCHANGED <<clock, open, rows, admitted, answers, effects, told, aged>>

RetryAt == clock + InFlight

\* insertRunning of an external Operation, committed.  Where the commit's
\* acknowledgement is lost the call ends with an error and nobody executes.
ClaimExternal(r, acknowledged) ==
    /\ req[r].phase = "locked"
    /\ key(r) \in External
    /\ rows[key(r)] = None
    /\ rows' = [rows EXCEPT ![key(r)] =
                  [state |-> "running", body |-> req[r].body, by |-> r,
                   retryAt |-> RetryAt]]
    /\ IF acknowledged THEN Goto(r, "claimed") /\ UNCHANGED answers
                       ELSE Answer(r, "error")
    /\ UNCHANGED <<clock, open, admitted, effects, told, aged>>

-----------------------------------------------------------------------------
(* Database-only execution                                                 *)

\* The decisive admission and the handler; its writes are in the transaction
ExecuteLocal(r) ==
    /\ req[r].phase = "local"
    /\ IF Admits THEN Goto(r, "ready") /\ UNCHANGED answers
                 ELSE Answer(r, "refused")
    /\ UNCHANGED <<clock, open, rows, admitted, effects, told, aged>>

\* complete, and the commit of the transaction, the caller's where it is
\* nested; the primary key admits one row
CommitLocal(r, acknowledged) ==
    /\ req[r].phase = "ready"
    /\ rows[key(r)] = None
    /\ rows' = [rows EXCEPT ![key(r)] =
                  [state |-> "completed", body |-> req[r].body, by |-> r,
                   retryAt |-> 0]]
    /\ effects' = effects \cup {EffectOf(r)}
    /\ IF acknowledged
       THEN Answer(r, "ok") /\ told' = told \cup {EffectOf(r)}
       ELSE Answer(r, "error") /\ UNCHANGED told
    /\ UNCHANGED <<clock, open, admitted, aged>>

-----------------------------------------------------------------------------
(* External execution                                                      *)

\* The decisive admission, then markEffectsAdmitted
Admit(r) ==
    /\ req[r].phase = "claimed"
    /\ Admits
    /\ admitted' = admitted \cup {r}
    /\ Goto(r, "admitted")
    /\ UNCHANGED <<clock, open, rows, answers, effects, told, aged>>

\* The handler reaches the external system
Send(r) ==
    /\ req[r].phase = "admitted"
    /\ effects' = effects \cup {EffectOf(r)}
    /\ Goto(r, "sent")
    /\ UNCHANGED <<clock, open, rows, admitted, answers, told, aged>>

\* The handler returns a valid result
Return(r) ==
    /\ req[r].phase = "sent"
    /\ Goto(r, "returned")
    /\ UNCHANGED <<clock, open, rows, admitted, answers, effects, told, aged>>

\* A refused admission, a control that does not hold, a throwing handler, a
\* result outside its schema
Throw(r) ==
    /\ req[r].phase \in {"claimed", "admitted", "sent"}
    /\ Goto(r, "failing")
    /\ UNCHANGED <<clock, open, rows, admitted, answers, effects, told, aged>>

\* complete, and its commit; no row, a failure or a lost acknowledgement throws
Complete(r, acknowledged) ==
    /\ req[r].phase = "returned"
    /\ MatchesClaim(r)
    /\ rows' = [rows EXCEPT ![key(r)].state = "completed"]
    /\ IF acknowledged
       THEN Answer(r, "ok") /\ told' = told \cup {EffectOf(r)}
       ELSE Goto(r, "failing") /\ UNCHANGED <<answers, told>>
    /\ UNCHANGED <<clock, open, admitted, effects, aged>>

CompleteFails(r) ==
    /\ req[r].phase = "returned"
    /\ Goto(r, "failing")
    /\ UNCHANGED <<clock, open, rows, admitted, answers, effects, told, aged>>

\* Mutant of Settled: the claim is freed whether or not effects were admitted
MutSettled(r) == [rows EXCEPT ![key(r)] = None]

\* markUnknown where effects were admitted, deleteRunning where not
Settled(r) ==
    IF r \in admitted THEN [rows EXCEPT ![key(r)].state = "unknown"]
                      ELSE [rows EXCEPT ![key(r)] = None]

\* The catch of executeKeyedOperation; a failure to settle is ignored
Settle(r, settles) ==
    /\ req[r].phase = "failing"
    /\ rows' = IF settles /\ MatchesClaim(r) THEN Settled(r) ELSE rows
    /\ Answer(r, IF r \in admitted THEN "unknown" ELSE "error")
    /\ UNCHANGED <<clock, open, admitted, effects, told, aged>>

Step(r) ==
    \/ Begin(r) \/ ClaimFails(r) \/ Lock(r) \/ Replay(r) \/ Existing(r)
    \/ ClaimLocal(r) \/ ExecuteLocal(r)
    \/ \E ack \in BOOLEAN : ClaimExternal(r, ack) \/ CommitLocal(r, ack)
    \/ Admit(r) \/ Send(r) \/ Return(r) \/ Throw(r)
    \/ \E ack \in BOOLEAN : Complete(r, ack) \/ Settle(r, ack)
    \/ CompleteFails(r)

Next ==
    \/ Tick \/ Decide
    \/ \E r \in Requests : Step(r) \/ Crash(r)

Spec == Init /\ [][Next]_vars

-----------------------------------------------------------------------------
(* Properties                                                              *)

\* Every variable has its type: the receipt's columns, the phases of a call.
TypeOK ==
    /\ clock \in 0..MaxTime
    /\ open \in BOOLEAN
    /\ rows \in [Keys -> Receipt \cup {None}]
    /\ req \in [Requests -> Call]
    /\ admitted \in SUBSET Requests
    /\ answers \in [Requests -> Answers \cup {None}]
    /\ effects \in SUBSET Effect
    /\ told \in SUBSET Effect
    /\ aged \in SUBSET Keys

\* "core never dispatches the external write again automatically": a key takes
\* effect once at most, whatever calls race for it, fail, time out or crash.
EffectOncePerKey ==
    \A e, f \in effects : e.key = f.key => e = f

\* A call that is told of a success is told the result of the effect that took
\* place, and asked for it with the same input: a replay never stands for work
\* that was rolled back, lost or done for another request.
SuccessIsTheEffect == told \subseteq effects

\* A key is executed by one call at a time, and a call executes only while the
\* receipt it claimed stands: no late settlement frees or closes the claim of
\* a call that came after.
ExecutorOwnsClaim ==
    \A r \in Requests :
        Executes(r) => rows[key(r)] # None /\ rows[key(r)].by = r

\* A refusal "neither leaves a receipt claiming success nor reports an
\* uncertain external delivery" (runtime.ts): a key is left outcome_unknown
\* only by a call whose effects were admitted, and completed only where the
\* effect took place.
UnknownOnlyIfAdmitted ==
    \A k \in Keys :
        rows[k] # None =>
            /\ rows[k].state = "unknown" => rows[k].by \in admitted
            /\ rows[k].state = "completed" =>
                   [key |-> k, body |-> rows[k].body, by |-> rows[k].by]
                       \in effects

\* A receipt whose outcome was recorded is final: completed and
\* outcome_unknown are never left, and no key is freed once its effect took
\* place.
ReceiptsAreFinal ==
    [][\A k \in Keys :
          /\ rows[k] # None /\ rows[k].state # "running" => rows'[k] = rows[k]
          /\ rows[k] # None /\ rows'[k] = None =>
                 \A e \in effects' : e.key # k]_vars

\* "the claim becomes (or ages into) outcome_unknown": once a call met a claim
\* past its retry_at and was answered OPERATION_OUTCOME_UNKNOWN, the receipt
\* says so.
AgedClaimIsUnknown ==
    \A k \in aged : rows[k] # None /\ rows[k].state = "unknown"

\* The life of a key as its receipt and the flag of its call show it
Stage(k) ==
    IF rows[k].state = "completed" THEN "done"
    ELSE IF rows[k].state = "unknown" THEN "unknown"
    ELSE IF \E r \in admitted : key(r) = k /\ rows[k].by = r THEN "admitted"
    ELSE "claimed"

Slot(k) ==
    IF rows[k] = None THEN None
    ELSE [stage |-> Stage(k), body |-> rows[k].body, by |-> rows[k].by]

Slots == [k \in Keys |-> Slot(k)]

\* The receipts implement the life of an idempotency key: claimed once, freed
\* only before effects were admitted, one effect between admission and
\* outcome, an outcome that no late or repeated settlement changes, and
\* answers of success that name the effect of a key that is done.
Promise == INSTANCE KeyedEffect WITH slot <- Slots
KeyPromise == Promise!Spec
=============================================================================
