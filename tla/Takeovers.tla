------------------------------ MODULE Takeovers ------------------------------
(***************************************************************************)
(* Operation overrides (operations/entity/operation-overrides.ts): an      *)
(* override takes a record's update or delete in place of the original.    *)
(* The module has the calls of one operation, record and input, retries    *)
(* and concurrent ones, the takeovers that core records for them, the      *)
(* override's own runs (external: what RuntimeOperationOverride promises), *)
(* and the replays of the original by the service identity.  Each          *)
(* statement is a transaction of its own; a call may die between two.      *)
(***************************************************************************)
EXTENDS Integers, FiniteSets

CONSTANTS
    Callers,
    Takeovers,    \* ids of platform.operation_takeovers
    ReplayCalls,      \* calls that carry osfTakeover
    Refuses,      \* the override may answer with an error, or throw
    None

\* What the model takes for granted of its constants
TakeoversAssumption ==
    /\ Refuses \in BOOLEAN
    /\ None \notin Takeovers
    /\ None \notin [owned : BOOLEAN, open : BOOLEAN]

VARIABLES
    rows,       \* platform.operation_takeovers
    caller,     \* takeOverEntityOperation
    replay,     \* the replays of the service identity
    runs,       \* the override's work for a takeover
    answered,   \* history: takeovers some caller was told were accepted
    writes,     \* history: how often the original was performed
    released    \* history: takeovers closed because their owner had finished

vars == <<rows, caller, replay, runs, answered, writes, released>>

\* owned: owner_ref is set.  open: completed_at is null.
Row == [owned : BOOLEAN, open : BOOLEAN]

Call == [phase : {"idle", "found", "finished", "recording", "raced",
                  "executing", "accepted", "settled", "completed", "refused",
                  "over"},
         id : Takeovers \cup {None}]

Over == [phase |-> "over", id |-> None]

Init ==
    /\ rows = [t \in Takeovers |-> None]
    /\ caller = [c \in Callers |-> [phase |-> "idle", id |-> None]]
    /\ replay = [r \in ReplayCalls |-> None]
    /\ runs = [t \in Takeovers |-> "none"]
    /\ answered = {}
    /\ writes = [t \in Takeovers |-> 0]
    /\ released = {}

\* The row of the lookup: operation_takeovers_open_uidx admits one
Open == {t \in Takeovers : rows[t] # None /\ rows[t].open}

-----------------------------------------------------------------------------
(* takeOverEntityOperation                                                 *)

\* The lookup: a takeover without an owner is asked again under the same id
Lookup(c) ==
    /\ caller[c].phase = "idle"
    /\ caller' = [caller EXCEPT ![c] =
         IF Open = {} THEN [phase |-> "recording", id |-> None]
         ELSE LET t == CHOOSE t \in Open : TRUE
              IN  [phase |-> IF rows[t].owned THEN "found" ELSE "executing",
                   id |-> t]]
    /\ UNCHANGED <<rows, replay, runs, answered, writes, released>>

\* The owner of the open takeover is asked whether it has finished without the
\* original; it has not, and the call is answered with its run
AnswerOpen(c) ==
    /\ caller[c].phase = "found"
    /\ runs[caller[c].id] # "rejected"
    /\ answered' = answered \cup {caller[c].id}
    /\ caller' = [caller EXCEPT ![c] = Over]
    /\ UNCHANGED <<rows, replay, runs, writes, released>>

\* It has finished
OwnerFinished(c) ==
    /\ caller[c].phase = "found"
    /\ runs[caller[c].id] = "rejected"
    /\ caller' = [caller EXCEPT ![c].phase = "finished"]
    /\ UNCHANGED <<rows, replay, runs, answered, writes, released>>

\* The update that sets completed_at, by id
Closed(t) == IF rows[t] # None THEN [rows EXCEPT ![t].open = FALSE] ELSE rows

\* The takeover the owner has finished is closed: this call is a new one
CloseFinished(c) ==
    /\ caller[c].phase = "finished"
    /\ rows' = Closed(caller[c].id)
    /\ released' = released \cup {caller[c].id}
    /\ caller' = [caller EXCEPT ![c] = [phase |-> "recording", id |-> None]]
    /\ UNCHANGED <<replay, runs, answered, writes>>

\* Mutant of Conflict: without the unique index
MutConflict == FALSE

\* on conflict (...) where completed_at is null do nothing
Conflict == Open # {}

\* The caller's controls are consumed and the takeover inserted, in one
\* transaction
Record(c, t) ==
    /\ caller[c].phase = "recording"
    /\ ~Conflict
    /\ rows[t] = None /\ runs[t] = "none" /\ t \notin answered
    /\ \A d \in Callers : caller[d].id # t
    /\ rows' = [rows EXCEPT ![t] = [owned |-> FALSE, open |-> TRUE]]
    /\ caller' = [caller EXCEPT ![c] = [phase |-> "executing", id |-> t]]
    /\ UNCHANGED <<replay, runs, answered, writes, released>>

\* A concurrent call recorded it first
RecordConflict(c) ==
    /\ caller[c].phase = "recording"
    /\ Conflict
    /\ caller' = [caller EXCEPT ![c].phase = "raced"]
    /\ UNCHANGED <<rows, replay, runs, answered, writes, released>>

\* The second lookup: the other call's run, its takeover, or neither
Raced(c) ==
    /\ caller[c].phase = "raced"
    /\ IF Open = {}
       THEN caller' = [caller EXCEPT ![c] = Over] /\ UNCHANGED answered
       ELSE LET t == CHOOSE t \in Open : TRUE
            IN  IF rows[t].owned
                THEN /\ caller' = [caller EXCEPT ![c] = Over]
                     /\ answered' = answered \cup {t}
                ELSE /\ caller' = [caller EXCEPT ![c] =
                                     [phase |-> "executing", id |-> t]]
                     /\ UNCHANGED answered
    /\ UNCHANGED <<rows, replay, runs, writes, released>>

\* The override answers with the run it has for this takeover, or starts one
OverrideAccepts(c) ==
    LET t == caller[c].id
    IN  /\ caller[c].phase = "executing"
        /\ runs[t] # "performed"
        /\ runs' = [runs EXCEPT ![t] = IF @ = "none" THEN "active" ELSE @]
        /\ caller' = [caller EXCEPT ![c].phase = "accepted"]
        /\ UNCHANGED <<rows, replay, answered, writes, released>>

\* It answers with a run that has ended without the original: status 'completed'
OverrideSettles(c) ==
    LET t == caller[c].id
    IN  /\ caller[c].phase = "executing"
        /\ runs[t] \in {"none", "rejected"}
        /\ runs' = [runs EXCEPT ![t] = "rejected"]
        /\ caller' = [caller EXCEPT ![c].phase = "settled"]
        /\ UNCHANGED <<rows, replay, answered, writes, released>>

\* Its run has already replayed the original
OverrideCompletes(c) ==
    /\ caller[c].phase = "executing"
    /\ runs[caller[c].id] = "performed"
    /\ caller' = [caller EXCEPT ![c].phase = "completed"]
    /\ UNCHANGED <<rows, replay, runs, answered, writes, released>>

\* It refuses, answers something invalid, or throws, for this call
OverrideRefuses(c) ==
    /\ Refuses
    /\ caller[c].phase = "executing"
    /\ caller' = [caller EXCEPT ![c].phase = "refused"]
    /\ UNCHANGED <<rows, replay, runs, answered, writes, released>>

\* discard: the row is deleted while it has no owner
Discard(c) ==
    LET t == caller[c].id
    IN  /\ caller[c].phase = "refused"
        /\ rows' = [rows EXCEPT ![t] =
                      IF rows[t] # None /\ ~rows[t].owned THEN None ELSE @]
        /\ caller' = [caller EXCEPT ![c] = Over]
        /\ UNCHANGED <<replay, runs, answered, writes, released>>

\* The owner's reference is stored and the call answered; a run that has ended
\* closes the takeover
StoreOwner(c) ==
    LET t    == caller[c].id
        done == caller[c].phase = "settled"
    IN  /\ caller[c].phase \in {"accepted", "settled"}
        /\ rows' = IF rows[t] = None THEN rows
                   ELSE [rows EXCEPT ![t] = [owned |-> TRUE, open |-> @.open /\ ~done]]
        /\ answered' = answered \cup {t}
        /\ released' = IF done THEN released \cup {t} ELSE released
        /\ caller' = [caller EXCEPT ![c] = Over]
        /\ UNCHANGED <<replay, runs, writes>>

\* completed_at is set if it is not
StoreCompleted(c) ==
    /\ caller[c].phase = "completed"
    /\ rows' = Closed(caller[c].id)
    /\ caller' = [caller EXCEPT ![c] = Over]
    /\ UNCHANGED <<replay, runs, answered, writes, released>>

\* The call is refused its controls, a statement fails, or the process dies
CallFails(c) ==
    /\ caller[c].phase \notin {"idle", "over"}
    /\ caller' = [caller EXCEPT ![c] = Over]
    /\ UNCHANGED <<rows, replay, runs, answered, writes, released>>

\* The caller tries again
Retry(c) ==
    /\ caller[c].phase = "over"
    /\ caller' = [caller EXCEPT ![c].phase = "idle"]
    /\ UNCHANGED <<rows, replay, runs, answered, writes, released>>

-----------------------------------------------------------------------------
(* The override's runs and the replays                                     *)

\* A run ends without the original, such as a rejected approval
RunRejected(t) ==
    /\ runs[t] = "active"
    /\ \A r \in ReplayCalls : replay[r] # t
    /\ runs' = [runs EXCEPT ![t] = "rejected"]
    /\ UNCHANGED <<rows, caller, replay, answered, writes, released>>

\* prepareTakeoverReplay: the takeover is open; a run may replay twice
PrepareReplay(r, t) ==
    /\ replay[r] = None
    /\ runs[t] \in {"active", "performed"}
    /\ t \in Open
    /\ replay' = [replay EXCEPT ![r] = t]
    /\ UNCHANGED <<rows, caller, runs, answered, writes, released>>

\* Mutant of StillOpen: the close does not look at completed_at
MutStillOpen(t) == rows[t] # None

\* The where clause of closeTakeoverReplay
StillOpen(t) == rows[t] # None /\ rows[t].open

\* The original is performed and the takeover closed in one transaction
ReplayWrites(r) ==
    LET t == replay[r]
    IN  /\ t # None
        /\ StillOpen(t)
        /\ rows' = [rows EXCEPT ![t].open = FALSE]
        /\ writes' = [writes EXCEPT ![t] = @ + 1]
        /\ runs' = [runs EXCEPT ![t] = "performed"]
        /\ replay' = [replay EXCEPT ![r] = None]
        /\ UNCHANGED <<caller, answered, released>>

\* TAKEOVER_INVALID, a version conflict, or any other failure of the write
ReplayFails(r) ==
    /\ replay[r] # None
    /\ replay' = [replay EXCEPT ![r] = None]
    /\ UNCHANGED <<rows, caller, runs, answered, writes, released>>

CallStep(c) ==
    \/ Lookup(c) \/ AnswerOpen(c) \/ OwnerFinished(c) \/ CloseFinished(c)
    \/ (\E t \in Takeovers : Record(c, t)) \/ RecordConflict(c) \/ Raced(c)
    \/ OverrideAccepts(c) \/ OverrideSettles(c) \/ OverrideCompletes(c)
    \/ OverrideRefuses(c)
    \/ Discard(c) \/ StoreOwner(c) \/ StoreCompleted(c) \/ CallFails(c) \/ Retry(c)

Next ==
    \/ \E c \in Callers : CallStep(c)
    \/ \E t \in Takeovers : RunRejected(t) \/ \E r \in ReplayCalls : PrepareReplay(r, t)
    \/ \E r \in ReplayCalls : ReplayWrites(r) \/ ReplayFails(r)

Spec == Init /\ [][Next]_vars

-----------------------------------------------------------------------------
(* Properties                                                              *)

\* Every variable has its type; one takeover is open at a time.
TypeOK ==
    /\ rows \in [Takeovers -> Row \cup {None}]
    /\ caller \in [Callers -> Call]
    /\ replay \in [ReplayCalls -> Takeovers \cup {None}]
    /\ runs \in [Takeovers -> {"none", "active", "rejected", "performed"}]
    /\ answered \in SUBSET Takeovers
    /\ writes \in [Takeovers -> Nat]
    /\ released \in SUBSET Takeovers
    /\ Cardinality(Open) <= 1

\* "two concurrent replays cannot both pass": a takeover's original is
\* performed once, and its takeover is not open any more.
OriginalOnce ==
    \A t \in Takeovers :
        /\ writes[t] <= 1
        /\ writes[t] = 1 => t \notin Open

\* "a retry finds the same run instead of starting another": with calls that
\* overlap, race for the insert and die anywhere, one run works at a time.  An
\* override that refuses a call can break it: its takeover is discarded, with
\* the run that another call of the same takeover was accepted for.
OneRun ==
    Cardinality({t \in Takeovers : runs[t] = "active"}) <= 1

\* What is left of it for every override: of the takeovers that are recorded,
\* one at most has a run that works.
OneRecordedRun ==
    Cardinality({t \in Takeovers : runs[t] = "active" /\ rows[t] # None}) <= 1

\* "Nothing was taken over: a later call may try again" must only be said when
\* it is true: a takeover that a caller was told was accepted stays open until
\* its original is performed or its owner has finished, so that its run can
\* replay the original.
AcceptedIsOpen ==
    \A t \in answered :
        \/ writes[t] = 1
        \/ t \in released
        \/ rows[t] # None /\ rows[t].open
==============================================================================
