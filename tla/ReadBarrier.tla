------------------------------ MODULE ReadBarrier -----------------------------
(***************************************************************************)
(* The shared read barrier of one process (db/read-barrier.ts): concurrent *)
(* reader scopes share ONE reserved connection, whose session holds one    *)
(* shared advisory lock per fence for all of them; writers take the        *)
(* matching exclusive transaction lock before they change protected data.  *)
(* What a scope reads goes through short transactions on free pool slots,  *)
(* or on the reserved connection where writers that wait for the fence     *)
(* occupy the pool.                                                        *)
(*                                                                         *)
(* Everything the manager does passes through one promise queue            *)
(* (#serialize), so an operation of it is one step; the reserved backend   *)
(* may be lost between any two, and any of its statements may fail with    *)
(* or without effect.                                                      *)
(***************************************************************************)
EXTENDS Integers, FiniteSets

CONSTANTS
    Readers,    \* scopes
    Writers,    \* transactions that change protected data
    Fences,     \* (namespace, tenant)
    Pool,       \* size of the connection pool
    Failures,   \* bound: failures of the reserved connection
    None

ASSUME ReadBarrierAssumption ==
    /\ IsFiniteSet(Readers) /\ IsFiniteSet(Writers)
    /\ Pool \in Nat /\ Failures \in Nat
    /\ None \notin Readers
    /\ None \notin [refs : [Fences -> Nat], locks : SUBSET Fences, failed : BOOLEAN]

\* Bound: versions of the protected data are told apart up to three changes
Versions == 0..2

VARIABLES
    res,       \* #reservation: references, locks and failure
    alive,     \* the reserved backend's session is alive
    held,      \* shared locks of the reserved session, a count per fence
    serial,    \* the scope whose work runs on the reserved connection
    reader,    \* scopes
    writer,    \* writers
    version,   \* the data a fence protects
    torn,      \* history: a scope returned a result read across a change
    failures   \* failures so far

vars == <<res, alive, held, serial, reader, writer, version, torn, failures>>

Reservation == [refs : [Fences -> 0..Cardinality(Readers)],
                locks : SUBSET Fences, failed : BOOLEAN]

Scope == [phase : {"idle", "asking", "open", "draining"}, fence : Fences,
          work : {"none", "wanted", "begun", "read"},
          slot : BOOLEAN,               \* its work occupies a slot of the pool
          seen : SUBSET Versions,       \* versions its work read
          ok : BOOLEAN]                 \* its callback returned a result

Writer == [phase : {"idle", "waiting", "holding"}, fence : Fences]

Init ==
    /\ res = None
    /\ alive = FALSE
    /\ held = [f \in Fences |-> 0]
    /\ serial = None
    /\ reader \in [Readers -> {[phase |-> "idle", fence |-> f, work |-> "none",
                                slot |-> FALSE, seen |-> {}, ok |-> FALSE] :
                                  f \in Fences}]
    /\ writer \in [Writers -> [phase : {"idle"}, fence : Fences]]
    /\ version = [f \in Fences |-> 0]
    /\ torn = FALSE
    /\ failures = 0

-----------------------------------------------------------------------------
(* Helpers                                                                 *)

fence(x) == reader[x].fence
Move(x, p) == reader' = [reader EXCEPT ![x].phase = p]
SetWork(x, w) == reader' = [reader EXCEPT ![x].work = w, ![x].slot = FALSE]

\* Slots of the pool in use: the reservation, writers, work of scopes
SlotsUsed ==
    (IF res = None THEN 0 ELSE 1)
    + Cardinality({w \in Writers : writer[w].phase # "idle"})
    + Cardinality({x \in Readers : reader[x].slot})

\* The promise queue is free
Free == serial = None

\* Mutant of Wanted: a waiting writer is not honoured
MutWanted(f) == \E w \in Writers : writer[w].fence = f /\ writer[w].phase = "holding"

\* A writer waits for the fence or holds it
Wanted(f) == \E w \in Writers : writer[w].fence = f /\ writer[w].phase # "idle"

NoRefs == [f \in Fences |-> 0]
NewReservation == [refs |-> NoRefs, locks |-> {}, failed |-> FALSE]
Current == IF res = None THEN NewReservation ELSE res

\* #finish: every tracked lock is released; where that fails the backend is
\* terminated
Unlocked(r, h) ==
    [f \in Fences |-> IF f \in r.locks /\ h[f] > 0 THEN h[f] - 1 ELSE h[f]]

\* The manager keeps the reservation r, or finishes it with the last reference
Keep(r, h) ==
    IF r.refs # NoRefs
    THEN res' = r /\ held' = h /\ UNCHANGED alive
    ELSE res' = None /\ held' = Unlocked(r, h) /\ alive' = FALSE

\* A failing statement of the reserved connection
Fails == failures < Failures /\ failures' = failures + 1

\* #assertHeld
Held(f) == alive /\ held[f] > 0

-----------------------------------------------------------------------------
(* Entering a scope                                                        *)

\* run: a scope wants the fence
Ask(x) ==
    /\ reader[x].phase = "idle"
    /\ reader' = [reader EXCEPT ![x].phase = "asking", ![x].seen = {}]
    /\ UNCHANGED <<res, alive, held, serial, writer, version, torn, failures>>

\* The deadline passes, the caller aborts, or the reservation has failed
GiveUp(x) ==
    /\ reader[x].phase = "asking"
    /\ Move(x, "idle")
    /\ UNCHANGED <<res, alive, held, serial, writer, version, torn, failures>>

\* #acquire.  A try that meets a writer changes nothing: a reservation made
\* for it is finished at once, and the scope tries again.
Acquire(x) ==
    LET f == fence(x)
        r == Current
    IN  /\ reader[x].phase = "asking"
        /\ Free
        /\ res = None => SlotsUsed < Pool
        /\ res # None => alive /\ ~res.failed
        /\ ~Wanted(f)
        /\ res' = [r EXCEPT !.refs[f] = @ + 1, !.locks = @ \cup {f}]
        /\ alive' = TRUE
        /\ held' = IF r.refs[f] > 0 THEN held ELSE [held EXCEPT ![f] = @ + 1]
        /\ Move(x, "open")
        /\ UNCHANGED <<serial, writer, version, torn, failures>>

\* The acquiring statement fails, after the lock was taken or before: the lock
\* is tracked either way
AcquireFails(x, taken) ==
    LET f == fence(x)
        r == Current
    IN  /\ reader[x].phase = "asking"
        /\ Free
        /\ res = None => SlotsUsed < Pool
        /\ res # None => ~res.failed
        /\ taken => ~Wanted(f) /\ r.refs[f] = 0 /\ (res # None => alive)
        /\ Fails
        /\ Keep([r EXCEPT !.locks = @ \cup {f}, !.failed = TRUE],
                IF taken THEN [held EXCEPT ![f] = @ + 1] ELSE held)
        /\ Move(x, "idle")
        /\ UNCHANGED <<serial, writer, version, torn>>

-----------------------------------------------------------------------------
(* Database work of a scope                                                *)

\* databaseWork: retained by the scope until it has settled
Want(x) ==
    /\ reader[x].phase = "open"
    /\ reader[x].work = "none"
    /\ SetWork(x, "wanted")
    /\ UNCHANGED <<res, alive, held, serial, writer, version, torn, failures>>

\* assertActive and the fence check before the work; a free slot is preferred
StartOnPool(x) ==
    /\ reader[x].work = "wanted"
    /\ reader[x].phase = "open"
    /\ Free
    /\ ~res.failed
    /\ Held(fence(x))
    /\ SlotsUsed < Pool
    /\ reader' = [reader EXCEPT ![x].work = "begun", ![x].slot = TRUE]
    /\ UNCHANGED <<res, alive, held, serial, writer, version, torn, failures>>

\* The admission probe timed out: the reserved connection, in the queue
StartOnReserved(x) ==
    /\ reader[x].work = "wanted"
    /\ reader[x].phase = "open"
    /\ Free
    /\ ~res.failed
    /\ Held(fence(x))
    /\ serial' = x
    /\ SetWork(x, "begun")
    /\ UNCHANGED <<res, alive, held, writer, version, torn, failures>>

\* The scope is closed, or its fence is gone: the work is refused
RefuseWork(x) ==
    /\ reader[x].work = "wanted"
    /\ Free
    /\ reader[x].phase # "open" \/ res.failed \/ ~Held(fence(x))
    /\ res' = IF reader[x].phase = "open" THEN [res EXCEPT !.failed = TRUE] ELSE res
    /\ SetWork(x, "none")
    /\ UNCHANGED <<alive, held, serial, writer, version, torn, failures>>

\* The transaction reads protected data
Read(x) ==
    /\ reader[x].work = "begun"
    /\ serial = x => alive
    /\ reader' = [reader EXCEPT ![x].work = "read",
                                ![x].seen = @ \cup {version[fence(x)]}]
    /\ UNCHANGED <<res, alive, held, serial, writer, version, torn, failures>>

\* The work ends, or throws; the fence is checked again
EndWork(x) ==
    /\ reader[x].work \in {"begun", "read"}
    /\ Free \/ serial = x
    /\ serial' = None
    /\ res' = IF Held(fence(x)) THEN res ELSE [res EXCEPT !.failed = TRUE]
    /\ SetWork(x, "none")
    /\ UNCHANGED <<alive, held, writer, version, torn, failures>>

-----------------------------------------------------------------------------
(* Leaving a scope                                                         *)

\* The callback returns or throws, even while database work is under way
Close(x, ok) ==
    /\ reader[x].phase = "open"
    /\ reader' = [reader EXCEPT ![x].phase = "draining", ![x].ok = ok]
    /\ UNCHANGED <<res, alive, held, serial, writer, version, torn, failures>>

Left(r, f) == [r EXCEPT !.refs[f] = @ - 1]

\* The scope has waited for all work it retained
Drained(x) == reader[x].work = "none"

Last(f) == res.refs[f] = 1

\* Mutant of Intact: only the last reference is checked
MutIntact(f) == Last(f) => ~res.failed /\ Held(f)

\* The releasing statement finds the fence intact
Intact(f) == ~res.failed /\ Held(f)

\* #release: the last reference unlocks, the others check that the lock stands.
\* Only then the result is returned.
Release(x) ==
    LET f == fence(x)
    IN  /\ reader[x].phase = "draining"
        /\ Drained(x)
        /\ Free
        /\ Intact(f)
        /\ Keep([Left(res, f) EXCEPT !.locks = IF Last(f) THEN @ \ {f} ELSE @],
                IF Last(f) THEN [held EXCEPT ![f] = @ - 1] ELSE held)
        /\ torn' = (torn \/ (reader[x].ok /\ Cardinality(reader[x].seen) > 1))
        /\ Move(x, "idle")
        /\ UNCHANGED <<serial, writer, version, failures>>

\* The reservation has failed, or the releasing statement fails, after the lock
\* was freed or before: the reference goes, the lock stays tracked and the
\* result is withheld
ReleaseFails(x, freed) ==
    LET f == fence(x)
    IN  /\ reader[x].phase = "draining"
        /\ Drained(x)
        /\ Free
        /\ \/ ~freed /\ ~Intact(f) /\ UNCHANGED failures
           \/ (freed => Last(f) /\ Intact(f)) /\ Fails
        /\ Keep([Left(res, f) EXCEPT !.failed = TRUE],
                IF freed THEN [held EXCEPT ![f] = @ - 1] ELSE held)
        /\ Move(x, "idle")
        /\ UNCHANGED <<serial, writer, version, torn>>

-----------------------------------------------------------------------------
(* The environment                                                         *)

\* PostgreSQL ends the reserved session, and its locks with it
LoseBackend ==
    /\ alive
    /\ Fails
    /\ alive' = FALSE
    /\ held' = [f \in Fences |-> 0]
    /\ UNCHANGED <<res, serial, reader, writer, version, torn>>

\* A writer's transaction takes a slot and waits for the exclusive lock
BeginWrite(w) ==
    /\ writer[w].phase = "idle"
    /\ SlotsUsed < Pool
    /\ writer' = [writer EXCEPT ![w].phase = "waiting"]
    /\ UNCHANGED <<res, alive, held, serial, reader, version, torn, failures>>

Grant(w) ==
    LET f == writer[w].fence
    IN  /\ writer[w].phase = "waiting"
        /\ held[f] = 0
        /\ \A v \in Writers : writer[v].fence = f => writer[v].phase # "holding"
        /\ writer' = [writer EXCEPT ![w].phase = "holding"]
        /\ UNCHANGED <<res, alive, held, serial, reader, version, torn, failures>>

\* The writer commits its change
Commit(w) ==
    LET f == writer[w].fence
    IN  /\ writer[w].phase = "holding"
        /\ writer' = [writer EXCEPT ![w].phase = "idle"]
        /\ version' = [version EXCEPT ![f] = (@ + 1) % 3]
        /\ UNCHANGED <<res, alive, held, serial, reader, torn, failures>>

ReaderStep(x) ==
    \/ Ask(x) \/ GiveUp(x) \/ Acquire(x)
    \/ \E taken \in BOOLEAN : AcquireFails(x, taken)
    \/ Want(x) \/ StartOnPool(x) \/ StartOnReserved(x) \/ RefuseWork(x)
    \/ Read(x) \/ EndWork(x)
    \/ \E ok \in BOOLEAN : Close(x, ok)
    \/ Release(x) \/ \E freed \in BOOLEAN : ReleaseFails(x, freed)

WriterStep(w) == BeginWrite(w) \/ Grant(w) \/ Commit(w)

Next ==
    \/ \E x \in Readers : ReaderStep(x)
    \/ \E w \in Writers : WriterStep(w)
    \/ LoseBackend

Spec == Init /\ [][Next]_vars

\* Work is started or refused, ends (the transaction budget cuts it off), a
\* callback whose work is done returns, the queue reaches a scope's release,
\* PostgreSQL grants a lock it can grant, a writer commits
Fairness ==
    /\ \A x \in Readers :
          /\ WF_vars(StartOnPool(x) \/ StartOnReserved(x) \/ RefuseWork(x))
          /\ WF_vars(EndWork(x))
          /\ SF_vars(reader[x].work = "none" /\ \E ok \in BOOLEAN : Close(x, ok))
          /\ SF_vars(Release(x) \/ \E freed \in BOOLEAN : ReleaseFails(x, freed))
    /\ \A w \in Writers : SF_vars(Grant(w)) /\ WF_vars(Commit(w))

FairSpec == Spec /\ Fairness

-----------------------------------------------------------------------------
(* Properties                                                              *)

\* Every variable has its type; a reference is counted per fence.
TypeOK ==
    /\ res \in Reservation \cup {None}
    /\ alive \in BOOLEAN
    /\ held \in [Fences -> 0..1]
    /\ serial \in Readers \cup {None}
    /\ reader \in [Readers -> Scope]
    /\ writer \in [Writers -> Writer]
    /\ version \in [Fences -> Versions]
    /\ torn \in BOOLEAN
    /\ failures \in 0..Failures

\* A scope that returns a result read one state of the protected data: no
\* writer came between its reads, even where the reserved session was lost and
\* a writer passed, unnoticed by work on other connections.
ReadsAreFenced == ~torn

\* The references of the reservation are the scopes that are inside: the lock
\* is neither given up under a reader nor kept for one that left.
ReferencesAreScopes ==
    \A f \in Fences :
        Cardinality({x \in Readers : /\ reader[x].fence = f
                                     /\ reader[x].phase \in {"open", "draining"}})
            = (IF res = None THEN 0 ELSE res.refs[f])

\* "Never return a connection with uncertain session-lock ownership": no lock
\* outlives its reservation, an acquire interrupted after its lock was taken
\* included.
NoLeakedLock ==
    res = None => \A f \in Fences : held[f] = 0

\* While the reserved session stands no writer holds a fence a scope is in,
\* and no work of a scope runs on when its reference is gone.
WritersExcluded ==
    \A x \in Readers, w \in Writers :
        /\ writer[w].phase = "holding"
        /\ writer[w].fence = fence(x)
        /\ reader[x].phase \in {"open", "draining"} \/ reader[x].work # "none"
        => ~alive

\* "honour queued writers so a stream of new readers cannot indefinitely
\* postpone retirement", and "waiting writers cannot deadlock a reader": a
\* writer that waits for a fence gets it.
WritersProceed ==
    \A w \in Writers : writer[w].phase = "waiting" ~> writer[w].phase = "holding"
=============================================================================
