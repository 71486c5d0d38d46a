------------------------------ MODULE EditLease ------------------------------
(***************************************************************************)
(* Edit leases and confirmation challenges of the generated entity         *)
(* Operations (operations/entity/edit-leases.ts, confirmation-challenges.ts)*)
(* with the guarded update, delete and invoke that consume them            *)
(* (operations/entity/mutations.ts, runtime.ts, operations/runtime.ts).    *)
(*                                                                         *)
(* Every request is one PostgreSQL transaction, and now() in it is the     *)
(* instant it BEGAN: expiry is decided, and the new version written, with  *)
(* a time that may be long past when the transaction, after its waits for  *)
(* row locks, takes effect.  So a request is two steps: Begin fixes now()  *)
(* and the inputs; the second step reads and writes the rows under their   *)
(* locks.  From the first row lock to the commit nobody else changes what  *)
(* the transaction read, which is why one step stands for it.              *)
(***************************************************************************)
EXTENDS Integers

CONSTANTS
    Users,
    Targets,        \* records of one entity
    Ops,            \* guarded Operations: concurrency.version is required
    LeaseOps,       \* concurrency.editLease is required too
    ChallengeOps,   \* interaction.confirmation.mode = "challenge"
    Deletes,        \* intent delete
    Invokes,        \* intent invoke, the others are updates
    Ttl,            \* inactivity timeout of a lease, life of a challenge
    Stamps,         \* bound: the instants the clock takes
    Txs,            \* bound: transactions in flight
    None

ASSUME EditLeaseAssumption ==
    /\ LeaseOps \subseteq Ops /\ ChallengeOps \subseteq Ops
    /\ Deletes \subseteq Ops /\ Invokes \subseteq Ops
    /\ Deletes \cap Invokes = {}
    /\ Ttl \in Nat \ {0}
    /\ Stamps \subseteq Nat /\ 0 \in Stamps
    /\ None \notin Stamps \cup Ops
    /\ None \notin [user : Users, target : Targets, op : Ops, rev : Nat]

VARIABLES
    clock,
    rows,         \* the entity's table; rev, history: changes of the record
    leases,       \* platform.entity_edit_leases, one row per target
    challenges,   \* platform.operation_confirmation_challenges, by token
    tx,           \* requests in flight
    minted,       \* history: for whom a token was minted, and the rev shown
    log           \* history: committed guarded writes

vars == <<clock, rows, leases, challenges, tx, minted, log>>

\* A token, a version and a transaction are named by the instant of the
\* transaction that made them
Record == [exists : BOOLEAN, version : Stamps, rev : Nat]

Lease == [owner : Users, token : Stamps, op : LeaseOps, version : Stamps,
          expires : Nat]

Challenge == [owner : Users, op : ChallengeOps, target : Targets,
              version : Stamps, expires : Nat, consumed : BOOLEAN]

Request == [kind : {"acquire", "renew", "release", "issue", "write", "plain"},
            user : Users, target : Targets, op : Ops \cup {None},
            now : Stamps, version : Stamps \cup {None},
            lease : Stamps \cup {None}, challenge : Stamps \cup {None},
            seen : Lease \cup {None}, rev : Nat]

Grant == [user : Users, target : Targets, op : Ops, rev : Nat]

Effect == [at : Stamps, user : Users, target : Targets, op : Ops,
           lease : Stamps \cup {None}, challenge : Stamps \cup {None},
           rev : Nat, changed : BOOLEAN]

Init ==
    /\ clock = 0
    /\ rows = [g \in Targets |-> [exists |-> TRUE, version |-> 0, rev |-> 0]]
    /\ leases = [g \in Targets |-> None]
    /\ challenges = [s \in Stamps |-> None]
    /\ tx = [t \in Txs |-> None]
    /\ minted = [s \in Stamps |-> None]
    /\ log = {}

-----------------------------------------------------------------------------
(* Requests                                                                *)

\* A transaction begins: now() is fixed.  PostgreSQL's clock has a resolution
\* of a microsecond; two transactions are taken to begin at different instants.
Begin(t, r) ==
    /\ tx[t] = None
    /\ clock + 1 \in Stamps
    /\ clock' = clock + 1
    /\ tx' = [tx EXCEPT ![t] = r]
    /\ UNCHANGED <<rows, leases, challenges, minted, log>>

BlankRequest(kind, u, g) ==
    [kind |-> kind, user |-> u, target |-> g, op |-> None, now |-> clock + 1,
     version |-> None, lease |-> None, challenge |-> None, seen |-> None,
     rev |-> 0]

\* acquireEntityEditLease is serializable: what it reads is the snapshot of
\* its beginning, the version of the record among it
BeginAcquire(t, u, g, o) ==
    /\ rows[g].exists
    /\ Begin(t, [BlankRequest("acquire", u, g) EXCEPT
                    !.op = o, !.version = rows[g].version,
                    !.seen = leases[g], !.rev = rows[g].rev])

\* What callers hold: every token answered, and versions of the record.  One
\* older than these matches nothing and is refused.
Confirmations == {s \in Stamps : challenges[s] # None}
LeaseTokens == {s \in Stamps : minted[s] # None} \ Confirmations
Versions(g) ==
    {rows[g].version} \cup
    {leases[h].version : h \in {h \in {g} : leases[h] # None}} \cup
    {challenges[s].version : s \in Confirmations}

BeginRenew(t, u, g, l) ==
    Begin(t, [BlankRequest("renew", u, g) EXCEPT !.lease = l])

BeginRelease(t, u, g, l) ==
    Begin(t, [BlankRequest("release", u, g) EXCEPT !.lease = l])

\* A guarded Operation: expectedVersion and, where the contract requires it,
\* leaseToken; a challenge Operation called without its confirmation issues one
BeginGuarded(t, u, g, o, v, l, c) ==
    /\ o \in LeaseOps <=> l # None
    /\ c # None => o \in ChallengeOps
    /\ Begin(t, [BlankRequest(IF o \in ChallengeOps /\ c = None
                              THEN "issue" ELSE "write", u, g)
                 EXCEPT !.op = o, !.version = v, !.lease = l, !.challenge = c])

\* A write of the record by an Operation without a version contract
BeginPlain(t, u, g) == Begin(t, BlankRequest("plain", u, g))

\* The transaction ends without effect: every error answer, a refused
\* admission, a serialization failure, a lost connection
Abort(t) ==
    /\ tx[t] # None
    /\ tx' = [tx EXCEPT ![t] = None]
    /\ UNCHANGED <<clock, rows, leases, challenges, minted, log>>

Tick ==
    /\ clock + 1 \in Stamps
    /\ clock' = clock + 1
    /\ UNCHANGED <<rows, leases, challenges, tx, minted, log>>

-----------------------------------------------------------------------------
(* The transactions                                                        *)

\* The request in t is of this kind, and its transaction ends
Ends(t, kind) ==
    /\ tx[t] # None
    /\ tx[t].kind = kind
    /\ tx' = [tx EXCEPT ![t] = None]
    /\ UNCHANGED clock

\* The grant a token minted by request r stands for
GrantOf(r, rev) == [user |-> r.user, target |-> r.target, op |-> r.op,
                    rev |-> rev]

\* Mutant of Upsertable: the conflict clause has no condition
MutUpsertable(r) == leases[r.target] # None => leases[r.target] = r.seen

\* The insert meets no row, or updates the row of its snapshot where it has
\* expired or belongs to the caller.  A row changed since is a serialization
\* failure; one deleted since is not noticed.
Upsertable(r) ==
    LET held == leases[r.target]
    IN  held # None =>
            /\ held = r.seen
            /\ held.expires <= r.now \/ held.owner = r.user

\* acquireEntityEditLease
Acquire(t) ==
    LET r == tx[t]
    IN  /\ Ends(t, "acquire")
        /\ Upsertable(r)
        /\ leases' = [leases EXCEPT ![r.target] =
                        [owner |-> r.user, token |-> r.now, op |-> r.op,
                         version |-> r.version, expires |-> r.now + Ttl]]
        /\ minted' = [minted EXCEPT ![r.now] = GrantOf(r, r.rev)]
        /\ UNCHANGED <<rows, challenges, log>>

\* Mutant of Owned: any lease of the caller on the record will do
MutOwned(r) ==
    leases[r.target] # None /\ leases[r.target].owner = r.user

\* The row a renewal or a release names by owner and token
Owned(r) ==
    /\ leases[r.target] # None
    /\ leases[r.target].owner = r.user
    /\ leases[r.target].token = r.lease

Renew(t) ==
    LET r == tx[t]
    IN  /\ Ends(t, "renew")
        /\ Owned(r)
        /\ leases[r.target].expires > r.now
        /\ leases' = [leases EXCEPT ![r.target].expires = r.now + Ttl]
        /\ UNCHANGED <<rows, challenges, minted, log>>

Release(t) ==
    LET r == tx[t]
    IN  /\ Ends(t, "release")
        /\ Owned(r)
        /\ leases' = [leases EXCEPT ![r.target] = None]
        /\ UNCHANGED <<rows, challenges, minted, log>>

\* Mutant of LeaseValid: the acquired version is not compared
MutLeaseValid(r) ==
    Owned(r) /\ leases[r.target].expires > r.now /\ leases[r.target].op = r.op

\* requireEntityEditLeaseInTransaction
LeaseValid(r) ==
    /\ Owned(r)
    /\ leases[r.target].expires > r.now
    /\ leases[r.target].version = r.version
    /\ leases[r.target].op = r.op

\* consumeEntityConfirmationInTransaction; a wrong answer ends in Abort
ConfirmationValid(r) ==
    LET c == challenges[r.challenge]
    IN  /\ c # None
        /\ c.owner = r.user
        /\ ~c.consumed
        /\ c.expires > r.now
        /\ c.op = r.op /\ c.target = r.target
        /\ c.version = r.version

\* Mutant of VersionMatches: the write has no version predicate
MutVersionMatches(r) == rows[r.target].exists

\* expectedVersionWhere, validateEntityVersionInTransaction
VersionMatches(r) ==
    rows[r.target].exists /\ rows[r.target].version = r.version

\* issueEntityConfirmationChallenge
Issue(t) ==
    LET r == tx[t]
    IN  /\ Ends(t, "issue")
        /\ r.op \in LeaseOps => LeaseValid(r)
        /\ VersionMatches(r)
        /\ challenges' = [challenges EXCEPT ![r.now] =
                            [owner |-> r.user, op |-> r.op,
                             target |-> r.target, version |-> r.version,
                             expires |-> r.now + Ttl, consumed |-> FALSE]]
        /\ minted' = [minted EXCEPT ![r.now] =
                        GrantOf(r, rows[r.target].rev)]
        /\ UNCHANGED <<rows, leases, log>>

\* The record after the write: its version is the beginning of the transaction
Written(r, changed) ==
    IF ~changed THEN rows[r.target]
    ELSE [exists |-> r.op \notin Deletes, version |-> r.now,
          rev |-> rows[r.target].rev + 1]

\* applyGeneratedRowUpdate: the row changes where its version is the expected
\* one.  Values supplied as stored change nothing, a missing row answers null.
UpdateApplies(r, changed) ==
    VersionMatches(r) \/ (~rows[r.target].exists /\ ~changed)

\* deleteGeneratedEntity: a missing row answers false
DeleteApplies(r, changed) ==
    IF rows[r.target].exists THEN VersionMatches(r) /\ changed ELSE ~changed

\* A custom Operation proves the version of its target before its handler runs
InvokeApplies(r) == VersionMatches(r)

\* A guarded write: the controls are consumed in the transaction of the change,
\* also when nothing changes
Write(t, changed) ==
    LET r == tx[t]
    IN  /\ Ends(t, "write")
        /\ r.op \in LeaseOps => LeaseValid(r)
        /\ r.op \in ChallengeOps => ConfirmationValid(r)
        /\ r.op \in Deletes => DeleteApplies(r, changed)
        /\ r.op \in Invokes => InvokeApplies(r)
        /\ r.op \notin Deletes \cup Invokes => UpdateApplies(r, changed)
        /\ rows' = [rows EXCEPT ![r.target] = Written(r, changed)]
        /\ leases' = IF r.op \in LeaseOps
                     THEN [leases EXCEPT ![r.target] = None] ELSE leases
        /\ challenges' = IF r.op \in ChallengeOps
                         THEN [challenges EXCEPT ![r.challenge].consumed = TRUE]
                         ELSE challenges
        /\ log' = log \cup {[at |-> r.now, user |-> r.user,
                             target |-> r.target, op |-> r.op,
                             lease |-> r.lease, challenge |-> r.challenge,
                             rev |-> rows[r.target].rev, changed |-> changed]}
        /\ UNCHANGED minted

\* The same update without a guard
PlainWrite(t) ==
    LET r == tx[t]
    IN  /\ Ends(t, "plain")
        /\ rows[r.target].exists
        /\ rows' = [rows EXCEPT ![r.target] = Written(r, TRUE)]
        /\ UNCHANGED <<leases, challenges, minted, log>>

BeginSome(t) ==
    \E u \in Users, g \in Targets :
        \/ \E o \in LeaseOps : BeginAcquire(t, u, g, o)
        \/ \E l \in LeaseTokens : BeginRenew(t, u, g, l) \/ BeginRelease(t, u, g, l)
        \/ \E o \in Ops, v \in Versions(g), l \in LeaseTokens \cup {None},
              c \in Confirmations \cup {None} :
              BeginGuarded(t, u, g, o, v, l, c)
        \/ BeginPlain(t, u, g)

Next ==
    \/ Tick
    \/ \E t \in Txs :
          \/ BeginSome(t) \/ Abort(t)
          \/ Acquire(t) \/ Renew(t) \/ Release(t) \/ Issue(t)
          \/ \E changed \in BOOLEAN : Write(t, changed)
          \/ PlainWrite(t)

Spec == Init /\ [][Next]_vars

-----------------------------------------------------------------------------
(* Properties                                                              *)

\* Every variable has its type: the columns of the two platform tables, the
\* version column of the record, the controls of a request.
TypeOK ==
    /\ clock \in Stamps
    /\ rows \in [Targets -> Record]
    /\ leases \in [Targets -> Lease \cup {None}]
    /\ challenges \in [Stamps -> Challenge \cup {None}]
    /\ tx \in [Txs -> Request \cup {None}]
    /\ minted \in [Stamps -> Grant \cup {None}]
    /\ log \in SUBSET Effect

\* The grant an effect must rest on
Asked(e) == [user |-> e.user, target |-> e.target, op |-> e.op, rev |-> e.rev]

\* A lease-protected change is made by the user, on the record and through the
\* Operation its token was minted for, and on the content the record had when
\* the lease was acquired: no write, leased or not, came between, whatever
\* transactions overlapped and however late they took effect.
LeasedChangeOnLeasedContent ==
    \A e \in log : e.changed /\ e.op \in LeaseOps => minted[e.lease] = Asked(e)

\* A confirmed change is made on the content that was shown when the challenge
\* was issued, to the same user, for the same Operation and record.
ConfirmedChangeOnShownContent ==
    \A e \in log :
        e.changed /\ e.op \in ChallengeOps => minted[e.challenge] = Asked(e)

\* A lease token and a challenge each admit one committed write at most
\* (singleUse: true), a write that changed nothing counts.
ControlsUsedOnce ==
    \A e, f \in log :
        \/ e = f
        \/ /\ e.lease # None => e.lease # f.lease
           /\ e.challenge # None => e.challenge # f.challenge

\* platform-schema.yaml: "one actor editing a Relation blocks every other
\* lease-requiring operation [...] until release or expiry".  Only a request of
\* its owner ends or replaces a lease that has not expired.
OnlyOwnerEndsLease ==
    [][\A g \in Targets :
          /\ leases[g] # None
          /\ leases[g].expires > clock
          /\ leases'[g] # leases[g]
          => \E t \in Txs : /\ tx[t] # None /\ tx'[t] = None
                            /\ tx[t].user = leases[g].owner]_vars
=============================================================================
