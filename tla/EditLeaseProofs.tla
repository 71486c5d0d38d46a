--------------------------- MODULE EditLeaseProofs ---------------------------
(***************************************************************************)
(* Proofs about EditLease for every set of users, records, Operations and  *)
(* instants, and any number of overlapping transactions.  The heart of the *)
(* invariant is Unused: the instant of a transaction that has not taken    *)
(* effect is nobody's version and nobody's token, so a version that once   *)
(* changed never comes back.                                               *)
(***************************************************************************)
EXTENDS EditLease, TLAPS

\* Nothing carries the instant s
Fresh(s) ==
    /\ minted[s] = None /\ challenges[s] = None
    /\ \A g \in Targets : /\ rows[g].version # s
                          /\ leases[g] # None => leases[g].version # s
    /\ \A c \in Stamps : challenges[c] # None => challenges[c].version # s
    /\ \A t \in Txs : tx[t] # None => tx[t].version # s

\* The instants to come and those of the requests in flight are unused
Unused ==
    /\ \A s \in Stamps : s > clock => Fresh(s)
    /\ \A t \in Txs : tx[t] # None => Fresh(tx[t].now)

\* Requests in flight have begun, at different instants
Begun ==
    /\ \A t \in Txs : tx[t] # None => tx[t].now <= clock
    /\ \A t, u \in Txs : /\ tx[t] # None /\ tx[u] # None
                         /\ tx[t].now = tx[u].now
                         => t = u

\* What a request carries
RequestShape ==
    \A t \in Txs : tx[t] # None =>
        /\ tx[t].kind = "acquire" =>
              /\ tx[t].op \in LeaseOps /\ tx[t].version \in Stamps
              /\ rows[tx[t].target].version = tx[t].version
                    => rows[tx[t].target].rev = tx[t].rev
        /\ tx[t].kind = "issue" => tx[t].op \in ChallengeOps
        /\ tx[t].kind = "write" =>
              /\ tx[t].op \in Ops
              /\ tx[t].op \in LeaseOps <=> tx[t].lease # None
              /\ tx[t].op \in ChallengeOps <=> tx[t].challenge # None

\* The token of a lease was minted for its owner, record and Operation; while
\* the record has the version of the lease it has the content of the lease
LeaseShape ==
    \A g \in Targets : leases[g] # None =>
        /\ minted[leases[g].token] # None
        /\ minted[leases[g].token].user = leases[g].owner
        /\ minted[leases[g].token].target = g
        /\ minted[leases[g].token].op = leases[g].op
        /\ rows[g].version = leases[g].version
              => rows[g].rev = minted[leases[g].token].rev
        /\ \A e \in log : e.lease # leases[g].token

\* The same for a challenge; one that is not consumed was not used
ChallengeShape ==
    \A s \in Stamps : challenges[s] # None =>
        /\ minted[s] # None
        /\ minted[s].user = challenges[s].owner
        /\ minted[s].target = challenges[s].target
        /\ minted[s].op = challenges[s].op
        /\ rows[challenges[s].target].version = challenges[s].version
              => rows[challenges[s].target].rev = minted[s].rev
        /\ challenges[s].consumed \/ \A e \in log : e.challenge # s

\* A committed write names tokens that were minted
LogShape ==
    \A e \in log :
        /\ e.op \in LeaseOps <=> e.lease # None
        /\ e.op \in ChallengeOps <=> e.challenge # None
        /\ e.lease # None => minted[e.lease] # None
        /\ e.challenge # None => minted[e.challenge] # None

IInv == /\ TypeOK /\ Unused /\ Begun /\ RequestShape
        /\ LeaseShape /\ ChallengeShape /\ LogShape
        /\ LeasedChangeOnLeasedContent /\ ConfirmedChangeOnShownContent
        /\ ControlsUsedOnce

-----------------------------------------------------------------------------
\* The initial states satisfy the inductive invariant.
LEMMA InitIInv == Init => IInv
  <1> SUFFICES ASSUME Init PROVE IInv
    OBVIOUS
  <1> USE EditLeaseAssumption
  <1>1. TypeOK
    BY DEF Init, TypeOK, Record
  <1>2. Unused
    BY DEF Init, Unused, Fresh
  <1>3. /\ Begun /\ RequestShape /\ LeaseShape /\ ChallengeShape /\ LogShape
        /\ LeasedChangeOnLeasedContent /\ ConfirmedChangeOnShownContent
        /\ ControlsUsedOnce
    BY DEF Init, Begun, RequestShape, LeaseShape, ChallengeShape, LogShape,
           LeasedChangeOnLeasedContent, ConfirmedChangeOnShownContent,
           ControlsUsedOnce
  <1> QED BY <1>1, <1>2, <1>3 DEF IInv

\* The statements about the rows and the history do not mention the clock or
\* the requests in flight.
LEMMA RowsKeep ==
    ASSUME IInv, UNCHANGED <<rows, leases, challenges, minted, log>>
    PROVE  /\ LeaseShape' /\ ChallengeShape' /\ LogShape'
           /\ LeasedChangeOnLeasedContent' /\ ConfirmedChangeOnShownContent'
           /\ ControlsUsedOnce'
  <1>1. LeaseShape'
    BY DEF IInv, LeaseShape
  <1>2. ChallengeShape'
    BY DEF IInv, ChallengeShape
  <1>3. LogShape' /\ ControlsUsedOnce'
    BY DEF IInv, LogShape, ControlsUsedOnce
  <1>4. LeasedChangeOnLeasedContent' /\ ConfirmedChangeOnShownContent'
    BY DEF IInv, LeasedChangeOnLeasedContent, ConfirmedChangeOnShownContent, Asked
  <1> QED BY <1>1, <1>2, <1>3, <1>4

\* The clock advances, or a transaction ends without effect.
LEMMA IdleStep ==
    ASSUME IInv, Tick \/ \E t \in Txs : Abort(t)
    PROVE  IInv'
  <1>0. UNCHANGED <<rows, leases, challenges, minted, log>>
    BY DEF Tick, Abort
  <1>1. /\ clock \in Nat /\ clock' \in Stamps /\ clock' \in Nat /\ clock <= clock'
        /\ Stamps \subseteq Nat
    BY EditLeaseAssumption DEF IInv, TypeOK, Tick, Abort
  <1>2. tx' \in [Txs -> Request \cup {None}]
    BY DEF IInv, TypeOK, Tick, Abort
  <1>3. \A t \in Txs : tx'[t] # None => tx[t] # None /\ tx'[t] = tx[t]
    BY DEF IInv, TypeOK, Tick, Abort
  <1>4. TypeOK'
    BY <1>0, <1>1, <1>2 DEF IInv, TypeOK
  <1>5. \A t \in Txs : tx[t] # None => tx[t].now \in Nat
    BY <1>1 DEF IInv, TypeOK, Request
  <1>6. \A s \in Stamps : Fresh(s) => Fresh(s)'
    BY <1>0, <1>3 DEF Fresh
  <1>7. Unused'
    <2>1. \A s \in Stamps : s > clock' => s > clock
      BY <1>1
    <2>2. \A t \in Txs : tx'[t] # None => tx[t].now \in Stamps
      BY <1>3 DEF IInv, TypeOK, Request
    <2> QED BY <1>3, <1>6, <2>1, <2>2 DEF IInv, Unused
  <1>8. Begun'
    BY <1>1, <1>3, <1>5 DEF IInv, Begun
  <1>9. RequestShape'
    BY <1>0, <1>3 DEF IInv, RequestShape
  <1> QED BY <1>0, <1>4, <1>7, <1>8, <1>9, RowsKeep DEF IInv

\* A request begins: its inputs are well formed and none is its own instant.
LEMMA BeginStep ==
    ASSUME IInv, NEW t \in Txs, NEW r \in Request, Begin(t, r),
           r.now = clock + 1, \A s \in Stamps : Fresh(s) => r.version # s,
           r.kind = "acquire" =>
              /\ r.op \in LeaseOps /\ r.version \in Stamps
              /\ rows[r.target].version = r.version
                    => rows[r.target].rev = r.rev,
           r.kind = "issue" => r.op \in ChallengeOps,
           r.kind = "write" =>
              /\ r.op \in Ops
              /\ r.op \in LeaseOps <=> r.lease # None
              /\ r.op \in ChallengeOps <=> r.challenge # None
    PROVE  IInv'
  <1>0. UNCHANGED <<rows, leases, challenges, minted, log>>
    BY DEF Begin
  <1>1. /\ clock \in Nat /\ clock' = clock + 1 /\ clock' \in Stamps
        /\ Stamps \subseteq Nat
    BY EditLeaseAssumption DEF IInv, TypeOK, Begin
  <1>2. tx' = [tx EXCEPT ![t] = r] /\ tx \in [Txs -> Request \cup {None}]
    BY DEF IInv, TypeOK, Begin
  <1>3. tx'[t] = r /\ \A u \in Txs \ {t} : tx'[u] = tx[u]
    BY <1>2
  <1>4. TypeOK'
    <2>1. tx' \in [Txs -> Request \cup {None}]
      BY <1>2
    <2> QED BY <1>0, <1>1, <2>1 DEF IInv, TypeOK
  <1>5. \A u \in Txs : tx[u] # None => tx[u].now \in Nat /\ tx[u].now \in Stamps
    BY <1>1 DEF IInv, TypeOK, Request
  <1>6. Unused'
    <2>1. \A s \in Stamps : Fresh(s) => Fresh(s)'
      BY <1>0, <1>3 DEF Fresh
    <2>2. \A s \in Stamps : s > clock' => s > clock
      BY <1>1
    <2>3. Fresh(r.now) /\ r.now \in Stamps
      BY <1>1 DEF IInv, Unused
    <2>4. \A u \in Txs : tx'[u] # None => Fresh(tx'[u].now) /\ tx'[u].now \in Stamps
      BY <1>3, <1>5, <2>3 DEF IInv, Unused
    <2> QED BY <2>1, <2>2, <2>4 DEF IInv, Unused
  <1>7. Begun'
    BY <1>1, <1>3, <1>5 DEF IInv, Begun
  <1>8. RequestShape'
    BY <1>0, <1>3 DEF IInv, RequestShape
  <1> QED BY <1>0, <1>4, <1>6, <1>7, <1>8, RowsKeep DEF IInv

\* Each kind of request begins well formed; the version it expects is one the
\* record, a lease or a challenge carries.
LEMMA BeginSomeStep == ASSUME IInv, NEW t \in Txs, BeginSome(t) PROVE IInv'
  <1>0. /\ clock \in Nat /\ None \notin Stamps /\ None \notin Ops
        /\ LeaseOps \subseteq Ops /\ ChallengeOps \subseteq Ops
        /\ rows \in [Targets -> Record]
        /\ leases \in [Targets -> Lease \cup {None}]
        /\ challenges \in [Stamps -> Challenge \cup {None}]
    BY EditLeaseAssumption DEF IInv, TypeOK
  <1>1. ASSUME NEW kind \in {"acquire", "renew", "release", "issue", "write", "plain"},
               NEW u \in Users, NEW g \in Targets, clock + 1 \in Stamps
        PROVE  /\ BlankRequest(kind, u, g) \in Request
               /\ BlankRequest(kind, u, g).kind = kind
               /\ BlankRequest(kind, u, g).target = g
               /\ BlankRequest(kind, u, g).now = clock + 1
               /\ BlankRequest(kind, u, g).version = None
    BY <1>1 DEF BlankRequest, Request
  <1>2. PICK u \in Users, g \in Targets :
           \/ \E o \in LeaseOps : BeginAcquire(t, u, g, o)
           \/ \E l \in LeaseTokens : BeginRenew(t, u, g, l) \/ BeginRelease(t, u, g, l)
           \/ \E o \in Ops, v \in Versions(g), l \in LeaseTokens \cup {None},
                 c \in Confirmations \cup {None} :
                 BeginGuarded(t, u, g, o, v, l, c)
           \/ BeginPlain(t, u, g)
    BY DEF BeginSome
  <1>3. clock + 1 \in Stamps
    BY <1>2 DEF BeginAcquire, BeginRenew, BeginRelease, BeginGuarded, BeginPlain, Begin
  <1>4. \A s \in Stamps : Fresh(s) => None # s
    BY <1>0
  <1>5. CASE \E o \in LeaseOps : BeginAcquire(t, u, g, o)
    <2> PICK o \in LeaseOps : BeginAcquire(t, u, g, o)
      BY <1>5
    <2> DEFINE b == BlankRequest("acquire", u, g)
               r == [b EXCEPT !.op = o, !.version = rows[g].version,
                              !.seen = leases[g], !.rev = rows[g].rev]
    <2>1. b \in Request /\ b.kind = "acquire" /\ b.target = g /\ b.now = clock + 1
      BY <1>1, <1>3
    <2>2. /\ rows[g].version \in Stamps /\ rows[g].rev \in Nat
          /\ leases[g] \in Lease \cup {None}
      BY <1>0 DEF Record
    <2>3. Begin(t, r)
      BY DEF BeginAcquire
    <2> HIDE DEF b
    <2>4. /\ r \in Request /\ r.kind = "acquire" /\ r.target = g
          /\ r.now = clock + 1 /\ r.op = o /\ r.version = rows[g].version
          /\ r.rev = rows[g].rev
      BY <1>0, <2>1, <2>2 DEF Request
    <2>5. \A s \in Stamps : Fresh(s) => r.version # s
      BY <2>4 DEF Fresh
    <2> HIDE DEF r
    <2> QED BY <2>2, <2>3, <2>4, <2>5, BeginStep
  <1>6. CASE \E l \in LeaseTokens : BeginRenew(t, u, g, l) \/ BeginRelease(t, u, g, l)
    <2> PICK l \in LeaseTokens : BeginRenew(t, u, g, l) \/ BeginRelease(t, u, g, l)
      BY <1>6
    <2>1. PICK kind \in {"renew", "release"} :
             Begin(t, [BlankRequest(kind, u, g) EXCEPT !.lease = l])
      BY DEF BeginRenew, BeginRelease
    <2> DEFINE b == BlankRequest(kind, u, g)
               r == [b EXCEPT !.lease = l]
    <2>2. b \in Request /\ b.kind = kind /\ b.now = clock + 1 /\ b.version = None
      BY <1>1, <1>3
    <2>3. Begin(t, r)
      BY <2>1
    <2> HIDE DEF b
    <2>4. r \in Request /\ r.kind = kind /\ r.now = clock + 1 /\ r.version = None
      BY <2>2 DEF Request, LeaseTokens
    <2> HIDE DEF r
    <2> QED BY <1>4, <2>3, <2>4, BeginStep
  <1>7. CASE \E o \in Ops, v \in Versions(g), l \in LeaseTokens \cup {None},
                c \in Confirmations \cup {None} :
                BeginGuarded(t, u, g, o, v, l, c)
    <2> PICK o \in Ops, v \in Versions(g), l \in LeaseTokens \cup {None},
             c \in Confirmations \cup {None} :
             BeginGuarded(t, u, g, o, v, l, c)
      BY <1>7
    <2> DEFINE kind == IF o \in ChallengeOps /\ c = None THEN "issue" ELSE "write"
               b == BlankRequest(kind, u, g)
               r == [b EXCEPT !.op = o, !.version = v, !.lease = l,
                              !.challenge = c]
    <2>1. kind \in {"issue", "write"}
      OBVIOUS
    <2>2. b \in Request /\ b.kind = kind /\ b.now = clock + 1
      BY <1>1, <1>3
    <2>3. Begin(t, r)
      BY DEF BeginGuarded
    <2>4. v \in Stamps /\ \A s \in Stamps : Fresh(s) => v # s
      <3>1. CASE v = rows[g].version
        BY <1>0, <3>1 DEF Record, Fresh
      <3>2. CASE leases[g] # None /\ v = leases[g].version
        BY <1>0, <3>2 DEF Lease, Fresh
      <3>3. CASE \E s \in Confirmations : v = challenges[s].version
        BY <1>0, <3>3 DEF Challenge, Fresh, Confirmations
      <3> QED BY <3>1, <3>2, <3>3 DEF Versions
    <2>5. l \in Stamps \cup {None} /\ c \in Stamps \cup {None}
      BY DEF LeaseTokens, Confirmations
    <2>6. /\ o \in LeaseOps <=> l # None
          /\ kind = "issue" => o \in ChallengeOps
          /\ kind = "write" => (o \in ChallengeOps <=> c # None)
      BY DEF BeginGuarded
    <2> HIDE DEF b, kind
    <2>7. /\ r \in Request /\ r.kind = kind /\ r.now = clock + 1
          /\ r.op = o /\ r.version = v /\ r.lease = l /\ r.challenge = c
      BY <2>2, <2>4, <2>5 DEF Request
    <2> HIDE DEF r
    <2> QED BY <2>1, <2>3, <2>4, <2>6, <2>7, BeginStep
  <1>8. CASE BeginPlain(t, u, g)
    <2> DEFINE r == BlankRequest("plain", u, g)
    <2>1. r \in Request /\ r.kind = "plain" /\ r.now = clock + 1 /\ r.version = None
      BY <1>1, <1>3
    <2>2. Begin(t, r)
      BY <1>8 DEF BeginPlain
    <2> HIDE DEF r
    <2> QED BY <1>4, <2>1, <2>2, BeginStep
  <1> QED BY <1>2, <1>5, <1>6, <1>7, <1>8
-----------------------------------------------------------------------------
(* The transactions                                                        *)

\* A transaction that takes effect: its instant was unused, and the requests
\* that stay in flight keep theirs.
LEMMA Ending ==
    ASSUME IInv, NEW t \in Txs, NEW kind, Ends(t, kind)
    PROVE  /\ tx[t] \in Request /\ tx[t] # None /\ tx[t].kind = kind
           /\ tx[t].now \in Stamps /\ tx[t].now \in Nat /\ Fresh(tx[t].now)
           /\ tx' \in [Txs -> Request \cup {None}] /\ clock' = clock
           /\ \A u \in Txs : tx'[u] # None =>
                 tx[u] # None /\ tx'[u] = tx[u] /\ tx[u].now # tx[t].now
           /\ Begun'
           /\ (\A s \in Stamps : s # tx[t].now /\ Fresh(s) => Fresh(s)') => Unused'
  <1>1. /\ tx[t] \in Request /\ tx[t] # None /\ tx[t].kind = kind
        /\ tx' = [tx EXCEPT ![t] = None] /\ tx \in [Txs -> Request \cup {None}]
        /\ clock' = clock /\ clock \in Nat /\ Stamps \subseteq Nat
    BY EditLeaseAssumption DEF IInv, TypeOK, Ends
  <1>2. tx[t].now \in Stamps /\ tx[t].now \in Nat
    BY <1>1 DEF Request
  <1>3. Fresh(tx[t].now) /\ tx[t].now <= clock
    BY <1>1 DEF IInv, Unused, Begun
  <1>4. tx' \in [Txs -> Request \cup {None}]
    BY <1>1
  <1>5. \A u \in Txs : tx'[u] # None => u # t /\ tx[u] # None /\ tx'[u] = tx[u]
    BY <1>1
  <1>6. \A u \in Txs : tx'[u] # None => tx[u].now # tx[t].now
    BY <1>1, <1>5 DEF IInv, Begun
  <1>7. Begun'
    BY <1>1, <1>5 DEF IInv, Begun
  <1>8. ASSUME \A s \in Stamps : s # tx[t].now /\ Fresh(s) => Fresh(s)'
        PROVE  Unused'
    <2>1. \A s \in Stamps : s > clock => s # tx[t].now
      BY <1>1, <1>2, <1>3
    <2>2. \A u \in Txs : tx'[u] # None =>
             tx[u].now \in Stamps /\ tx[u].now # tx[t].now /\ Fresh(tx[u].now)
      BY <1>1, <1>5, <1>6 DEF IInv, Unused, Request
    <2> QED BY <1>1, <1>5, <1>8, <2>1, <2>2 DEF IInv, Unused
  <1> QED BY <1>1, <1>2, <1>3, <1>4, <1>5, <1>6, <1>7, <1>8

\* acquireEntityEditLease: the new token stands for the content of the snapshot.
LEMMA AcquireStep == ASSUME IInv, NEW t \in Txs, Acquire(t) PROVE IInv'
  <1> DEFINE r == tx[t]
             l == [owner |-> r.user, token |-> r.now, op |-> r.op,
                   version |-> r.version, expires |-> r.now + Ttl]
             grant == GrantOf(r, r.rev)
  <1>1. /\ r \in Request /\ r # None /\ r.kind = "acquire"
        /\ r.now \in Stamps /\ r.now \in Nat /\ Fresh(r.now)
        /\ tx' \in [Txs -> Request \cup {None}] /\ clock' = clock
        /\ \A u \in Txs : tx'[u] # None =>
              tx[u] # None /\ tx'[u] = tx[u] /\ tx[u].now # r.now
        /\ Begun'
        /\ (\A s \in Stamps : s # r.now /\ Fresh(s) => Fresh(s)') => Unused'
    BY Ending DEF Acquire
  <1>2. /\ leases' = [leases EXCEPT ![r.target] = l]
        /\ minted' = [minted EXCEPT ![r.now] = grant]
        /\ UNCHANGED <<rows, challenges, log>>
    BY DEF Acquire
  <1>3. r.user \in Users /\ r.target \in Targets /\ r.rev \in Nat
    BY <1>1 DEF Request
  <1>4. /\ r.op \in LeaseOps /\ r.version \in Stamps
        /\ rows[r.target].version = r.version => rows[r.target].rev = r.rev
    BY <1>1 DEF IInv, RequestShape
  <1>5. /\ l \in Lease /\ l.owner = r.user /\ l.token = r.now /\ l.op = r.op
        /\ l.version = r.version
    BY <1>1, <1>3, <1>4, EditLeaseAssumption DEF Lease
  <1>6. /\ grant \in Grant /\ grant # None /\ grant.user = r.user
        /\ grant.target = r.target /\ grant.op = r.op /\ grant.rev = r.rev
    BY <1>3, <1>4, EditLeaseAssumption DEF Grant, GrantOf
  <1>7. /\ minted \in [Stamps -> Grant \cup {None}]
        /\ leases \in [Targets -> Lease \cup {None}]
    BY DEF IInv, TypeOK
  <1>8. minted[r.now] = None /\ challenges[r.now] = None
    BY <1>1 DEF Fresh
  <1>9. tx[t].version = r.version /\ tx[t] # None
    BY <1>1
  <1> HIDE DEF l, grant
  <1>10. leases'[r.target] = l /\ \A g \in Targets \ {r.target} : leases'[g] = leases[g]
    BY <1>2, <1>3, <1>7
  <1>11. minted'[r.now] = grant /\ \A s \in Stamps \ {r.now} : minted'[s] = minted[s]
    BY <1>1, <1>2, <1>7
  <1>12. TypeOK'
    BY <1>1, <1>2, <1>3, <1>5, <1>6, <1>7 DEF IInv, TypeOK
  <1>13. Unused'
    <2> SUFFICES ASSUME NEW s \in Stamps, s # r.now, Fresh(s) PROVE Fresh(s)'
      BY <1>1
    <2>1. r.version # s
      BY <1>9 DEF Fresh
    <2> HIDE DEF r
    <2> QED BY <1>1, <1>2, <1>5, <1>10, <1>11, <2>1 DEF Fresh
  <1>14. RequestShape'
    BY <1>1, <1>2 DEF IInv, RequestShape
  <1> HIDE DEF r
  <1>15. \A s \in Stamps : minted[s] # None => s # r.now /\ minted'[s] = minted[s]
    BY <1>8, <1>11
  <1>16. \A e \in log : /\ e.lease \in Stamps \cup {None} /\ e.challenge \in Stamps \cup {None}
                        /\ e.lease # None => minted[e.lease] # None
                        /\ e.challenge # None => minted[e.challenge] # None
    BY DEF IInv, TypeOK, Effect, LogShape
  <1>17. LeaseShape'
    <2> SUFFICES ASSUME NEW g \in Targets, leases'[g] # None
                 PROVE  /\ minted'[leases'[g].token] # None
                        /\ minted'[leases'[g].token].user = leases'[g].owner
                        /\ minted'[leases'[g].token].target = g
                        /\ minted'[leases'[g].token].op = leases'[g].op
                        /\ rows[g].version = leases'[g].version
                              => rows[g].rev = minted'[leases'[g].token].rev
                        /\ \A e \in log : e.lease # leases'[g].token
      BY <1>2 DEF LeaseShape
    <2>1. CASE g = r.target
      BY <1>1, <1>4, <1>5, <1>6, <1>8, <1>10, <1>11, <1>16, <2>1, EditLeaseAssumption
    <2>2. CASE g # r.target
      <3>1. leases'[g] = leases[g] /\ leases[g].token \in Stamps
        BY <1>7, <1>10, <2>2 DEF Lease
      <3> QED BY <1>15, <3>1 DEF IInv, LeaseShape
    <2> QED BY <2>1, <2>2
  <1>18. ChallengeShape'
    BY <1>2, <1>15 DEF IInv, ChallengeShape
  <1>19. LogShape'
    BY <1>2, <1>15, <1>16 DEF IInv, LogShape
  <1>20. LeasedChangeOnLeasedContent' /\ ConfirmedChangeOnShownContent'
    BY <1>2, <1>15, <1>16 DEF IInv, LogShape, LeasedChangeOnLeasedContent,
         ConfirmedChangeOnShownContent, Asked
  <1>21. ControlsUsedOnce'
    BY <1>2 DEF IInv, ControlsUsedOnce
  <1> QED BY <1>1, <1>12, <1>13, <1>14, <1>17, <1>18, <1>19, <1>20, <1>21 DEF IInv

\* Renewal moves the expiry of a row, release removes it: what the other
\* statements read of the rows that stay is unchanged.
LEMMA RenewStep == ASSUME IInv, NEW t \in Txs, Renew(t) \/ Release(t) PROVE IInv'
  <1> DEFINE r == tx[t]
  <1>1. /\ r \in Request /\ r # None
        /\ r.now \in Stamps /\ r.now \in Nat /\ Fresh(r.now)
        /\ tx' \in [Txs -> Request \cup {None}] /\ clock' = clock
        /\ \A u \in Txs : tx'[u] # None =>
              tx[u] # None /\ tx'[u] = tx[u] /\ tx[u].now # r.now
        /\ Begun'
        /\ (\A s \in Stamps : s # r.now /\ Fresh(s) => Fresh(s)') => Unused'
    <2>1. PICK kind : Ends(t, kind)
      BY DEF Renew, Release
    <2> QED BY <2>1, Ending
  <1>2. r.target \in Targets /\ leases \in [Targets -> Lease \cup {None}]
    BY <1>1 DEF Request, IInv, TypeOK
  <1>3. /\ UNCHANGED <<rows, challenges, minted, log>>
        /\ leases[r.target] # None
        /\ \/ leases' = [leases EXCEPT ![r.target].expires = r.now + Ttl]
           \/ leases' = [leases EXCEPT ![r.target] = None]
    BY DEF Renew, Release, Owned
  <1>4. /\ leases' \in [Targets -> Lease \cup {None}]
        /\ \A g \in Targets : leases'[g] # None =>
              /\ leases[g] # None
              /\ leases'[g].token = leases[g].token
              /\ leases'[g].owner = leases[g].owner
              /\ leases'[g].op = leases[g].op
              /\ leases'[g].version = leases[g].version
    <2>1. CASE leases' = [leases EXCEPT ![r.target] = None]
      BY <1>2, <2>1
    <2>2. CASE leases' = [leases EXCEPT ![r.target].expires = r.now + Ttl]
      <3> DEFINE old == leases[r.target]
                 new == [old EXCEPT !.expires = r.now + Ttl]
      <3>1. old \in Lease
        BY <1>2, <1>3
      <3>2. r.now + Ttl \in Nat
        BY <1>1, EditLeaseAssumption
      <3>3. leases' = [leases EXCEPT ![r.target] = new]
        BY <1>2, <2>2
      <3> HIDE DEF r
      <3>4. /\ new \in Lease /\ new.token = old.token /\ new.owner = old.owner
            /\ new.op = old.op /\ new.version = old.version
        BY <3>1, <3>2 DEF Lease
      <3> HIDE DEF new
      <3> QED BY <1>2, <1>3, <3>3, <3>4
    <2> QED BY <1>3, <2>1, <2>2
  <1>5. TypeOK'
    BY <1>1, <1>3, <1>4 DEF IInv, TypeOK
  <1>6. Unused'
    <2> SUFFICES ASSUME NEW s \in Stamps, Fresh(s) PROVE Fresh(s)'
      BY <1>1
    <2> HIDE DEF r
    <2> QED BY <1>1, <1>3, <1>4 DEF Fresh
  <1>7. RequestShape'
    BY <1>1, <1>3 DEF IInv, RequestShape
  <1> HIDE DEF r
  <1>8. LeaseShape'
    BY <1>3, <1>4 DEF IInv, LeaseShape
  <1>9. ChallengeShape'
    BY <1>3 DEF IInv, ChallengeShape
  <1>10. LogShape' /\ ControlsUsedOnce'
    BY <1>3 DEF IInv, LogShape, ControlsUsedOnce
  <1>11. LeasedChangeOnLeasedContent' /\ ConfirmedChangeOnShownContent'
    BY <1>3 DEF IInv, LeasedChangeOnLeasedContent, ConfirmedChangeOnShownContent,
                Asked
  <1> QED BY <1>1, <1>5, <1>6, <1>7, <1>8, <1>9, <1>10, <1>11 DEF IInv

\* issueEntityConfirmationChallenge: the challenge stands for the content read.
LEMMA IssueStep == ASSUME IInv, NEW t \in Txs, Issue(t) PROVE IInv'
  <1> DEFINE r == tx[t]
             c == [owner |-> r.user, op |-> r.op, target |-> r.target,
                   version |-> r.version, expires |-> r.now + Ttl,
                   consumed |-> FALSE]
             grant == GrantOf(r, rows[r.target].rev)
  <1>1. /\ r \in Request /\ r # None /\ r.kind = "issue"
        /\ r.now \in Stamps /\ r.now \in Nat /\ Fresh(r.now)
        /\ tx' \in [Txs -> Request \cup {None}] /\ clock' = clock
        /\ \A u \in Txs : tx'[u] # None =>
              tx[u] # None /\ tx'[u] = tx[u] /\ tx[u].now # r.now
        /\ Begun'
        /\ (\A s \in Stamps : s # r.now /\ Fresh(s) => Fresh(s)') => Unused'
    BY Ending DEF Issue
  <1>2. /\ challenges' = [challenges EXCEPT ![r.now] = c]
        /\ minted' = [minted EXCEPT ![r.now] = grant]
        /\ rows[r.target].version = r.version
        /\ UNCHANGED <<rows, leases, log>>
    BY DEF Issue, VersionMatches
  <1>3. /\ r.user \in Users /\ r.target \in Targets
        /\ rows[r.target].rev \in Nat /\ rows[r.target].version \in Stamps
    BY <1>1 DEF Request, IInv, TypeOK, Record
  <1>4. r.op \in ChallengeOps
    BY <1>1 DEF IInv, RequestShape
  <1>5. /\ c \in Challenge /\ c.owner = r.user /\ c.op = r.op
        /\ c.target = r.target /\ c.version = r.version
    BY <1>1, <1>2, <1>3, <1>4, EditLeaseAssumption DEF Challenge
  <1>6. /\ grant \in Grant /\ grant # None /\ grant.user = r.user
        /\ grant.target = r.target /\ grant.op = r.op
        /\ grant.rev = rows[r.target].rev
    BY <1>3, <1>4, EditLeaseAssumption DEF Grant, GrantOf
  <1>7. /\ minted \in [Stamps -> Grant \cup {None}]
        /\ challenges \in [Stamps -> Challenge \cup {None}]
        /\ leases \in [Targets -> Lease \cup {None}]
    BY DEF IInv, TypeOK
  <1>8. minted[r.now] = None /\ challenges[r.now] = None
    BY <1>1 DEF Fresh
  <1>9. tx[t].version = r.version /\ tx[t] # None
    BY <1>1
  <1> HIDE DEF c, grant
  <1>10. challenges'[r.now] = c /\ \A s \in Stamps \ {r.now} : challenges'[s] = challenges[s]
    BY <1>1, <1>2, <1>7
  <1>11. minted'[r.now] = grant /\ \A s \in Stamps \ {r.now} : minted'[s] = minted[s]
    BY <1>1, <1>2, <1>7
  <1>12. TypeOK'
    BY <1>1, <1>2, <1>3, <1>5, <1>6, <1>7 DEF IInv, TypeOK
  <1>13. Unused'
    <2> SUFFICES ASSUME NEW s \in Stamps, s # r.now, Fresh(s) PROVE Fresh(s)'
      BY <1>1
    <2>1. r.version # s
      BY <1>9 DEF Fresh
    <2> HIDE DEF r
    <2> QED BY <1>1, <1>2, <1>5, <1>10, <1>11, <2>1 DEF Fresh
  <1>14. RequestShape'
    BY <1>1, <1>2 DEF IInv, RequestShape
  <1> HIDE DEF r
  <1>15. \A s \in Stamps : minted[s] # None => s # r.now /\ minted'[s] = minted[s]
    BY <1>8, <1>11
  <1>16. \A e \in log : /\ e.lease \in Stamps \cup {None} /\ e.challenge \in Stamps \cup {None}
                        /\ e.lease # None => minted[e.lease] # None
                        /\ e.challenge # None => minted[e.challenge] # None
    BY DEF IInv, TypeOK, Effect, LogShape
  <1>17. LeaseShape'
    <2>1. \A g \in Targets : leases[g] # None => leases[g].token \in Stamps
      BY <1>7 DEF Lease
    <2> QED BY <1>2, <1>15, <2>1 DEF IInv, LeaseShape
  <1>18. ChallengeShape'
    <2> SUFFICES ASSUME NEW s \in Stamps, challenges'[s] # None
                 PROVE  /\ minted'[s] # None
                        /\ minted'[s].user = challenges'[s].owner
                        /\ minted'[s].target = challenges'[s].target
                        /\ minted'[s].op = challenges'[s].op
                        /\ rows[challenges'[s].target].version = challenges'[s].version
                              => rows[challenges'[s].target].rev = minted'[s].rev
                        /\ challenges'[s].consumed \/ \A e \in log : e.challenge # s
      BY <1>2 DEF ChallengeShape
    <2>1. CASE s = r.now
      BY <1>5, <1>6, <1>8, <1>10, <1>11, <1>16, <2>1, EditLeaseAssumption
    <2>2. CASE s # r.now
      <3>1. challenges'[s] = challenges[s] /\ minted'[s] = minted[s]
        BY <1>10, <1>11, <2>2
      <3> QED BY <3>1 DEF IInv, ChallengeShape
    <2> QED BY <2>1, <2>2
  <1>19. LogShape'
    BY <1>2, <1>15, <1>16 DEF IInv, LogShape
  <1>20. LeasedChangeOnLeasedContent' /\ ConfirmedChangeOnShownContent'
    BY <1>2, <1>15, <1>16 DEF IInv, LogShape, LeasedChangeOnLeasedContent,
         ConfirmedChangeOnShownContent, Asked
  <1>21. ControlsUsedOnce'
    BY <1>2 DEF IInv, ControlsUsedOnce
  <1> QED BY <1>1, <1>12, <1>13, <1>14, <1>17, <1>18, <1>19, <1>20, <1>21 DEF IInv

\* A change gives the record a version nobody carries: every statement about
\* the content of that version holds of it, and no other version returns.
LEMMA ChangedRow ==
    ASSUME IInv, NEW t \in Txs, NEW kind, Ends(t, kind), NEW changed \in BOOLEAN,
           rows' = [rows EXCEPT ![tx[t].target] = Written(tx[t], changed)]
    PROVE  /\ rows' \in [Targets -> Record]
           /\ \A g \in Targets :
                 \/ rows'[g] = rows[g]
                 \/ rows'[g].version = tx[t].now
  <1> DEFINE r == tx[t]
             new == Written(r, changed)
  <1>1. r \in Request /\ r.now \in Stamps
    BY Ending
  <1>2. r.target \in Targets /\ rows \in [Targets -> Record]
    BY <1>1 DEF Request, IInv, TypeOK
  <1>3. rows[r.target] \in Record /\ rows[r.target].rev \in Nat
    BY <1>2 DEF Record
  <1>4. new \in Record /\ (new = rows[r.target] \/ new.version = r.now)
    <2>1. CASE ~changed
      BY <1>3, <2>1 DEF Written
    <2>2. CASE changed
      <3> DEFINE exists == r.op \notin Deletes
      <3>1. exists \in BOOLEAN
        OBVIOUS
      <3>2. new = [exists |-> exists, version |-> r.now,
                   rev |-> rows[r.target].rev + 1]
        BY <2>2 DEF Written
      <3> HIDE DEF exists, new
      <3> QED BY <1>1, <1>3, <3>1, <3>2 DEF Record
    <2> QED BY <2>1, <2>2
  <1> HIDE DEF new
  <1>5. rows' = [rows EXCEPT ![r.target] = new]
    BY DEF new
  <1> HIDE DEF r
  <1> QED BY <1>2, <1>4, <1>5 DEF r

\* An unguarded write changes the record under every lease and challenge.
LEMMA PlainStep == ASSUME IInv, NEW t \in Txs, PlainWrite(t) PROVE IInv'
  <1> DEFINE r == tx[t]
  <1>1. /\ r \in Request /\ r # None
        /\ r.now \in Stamps /\ r.now \in Nat /\ Fresh(r.now)
        /\ tx' \in [Txs -> Request \cup {None}] /\ clock' = clock
        /\ \A u \in Txs : tx'[u] # None =>
              tx[u] # None /\ tx'[u] = tx[u] /\ tx[u].now # r.now
        /\ Begun'
        /\ (\A s \in Stamps : s # r.now /\ Fresh(s) => Fresh(s)') => Unused'
    BY Ending DEF PlainWrite
  <1>2. UNCHANGED <<leases, challenges, minted, log>>
    BY DEF PlainWrite
  <1>3. /\ rows' \in [Targets -> Record]
        /\ \A g \in Targets : rows'[g] = rows[g] \/ rows'[g].version = r.now
    BY ChangedRow DEF PlainWrite
  <1> HIDE DEF r
  <1>4. TypeOK'
    BY <1>1, <1>2, <1>3 DEF IInv, TypeOK
  <1>5. Unused'
    <2> SUFFICES ASSUME NEW s \in Stamps, s # r.now, Fresh(s) PROVE Fresh(s)'
      BY <1>1
    <2> QED BY <1>1, <1>2, <1>3 DEF Fresh
  <1>6. RequestShape'
    <2>1. \A u \in Txs : tx[u] # None => tx[u].target \in Targets
      BY DEF IInv, TypeOK, Request
    <2>2. \A u \in Txs : tx[u] # None => tx[u].version # r.now
      BY <1>1 DEF Fresh
    <2> QED BY <1>1, <1>3, <2>1, <2>2 DEF IInv, RequestShape
  <1>7. LeaseShape'
    BY <1>1, <1>2, <1>3 DEF IInv, LeaseShape, Fresh
  <1>8. ChallengeShape'
    <2>1. \A s \in Stamps : challenges[s] # None => challenges[s].target \in Targets
      BY DEF IInv, TypeOK, Challenge
    <2> QED BY <1>1, <1>2, <1>3, <2>1 DEF IInv, ChallengeShape, Fresh
  <1>9. LogShape' /\ ControlsUsedOnce'
    BY <1>2 DEF IInv, LogShape, ControlsUsedOnce
  <1>10. LeasedChangeOnLeasedContent' /\ ConfirmedChangeOnShownContent'
    BY <1>2 DEF IInv, LeasedChangeOnLeasedContent, ConfirmedChangeOnShownContent,
                Asked
  <1> QED BY <1>1, <1>4, <1>5, <1>6, <1>7, <1>8, <1>9, <1>10 DEF IInv

\* A guarded write: what it consumed was minted for it and is spent with it.
LEMMA WriteStep ==
    ASSUME IInv, NEW t \in Txs, NEW changed \in BOOLEAN, Write(t, changed)
    PROVE  IInv'
  <1> DEFINE r == tx[t]
             e == [at |-> r.now, user |-> r.user, target |-> r.target,
                   op |-> r.op, lease |-> r.lease, challenge |-> r.challenge,
                   rev |-> rows[r.target].rev, changed |-> changed]
  <1>1. /\ r \in Request /\ r # None /\ r.kind = "write"
        /\ r.now \in Stamps /\ r.now \in Nat /\ Fresh(r.now)
        /\ tx' \in [Txs -> Request \cup {None}] /\ clock' = clock
        /\ \A u \in Txs : tx'[u] # None =>
              tx[u] # None /\ tx'[u] = tx[u] /\ tx[u].now # r.now
        /\ Begun'
        /\ (\A s \in Stamps : s # r.now /\ Fresh(s) => Fresh(s)') => Unused'
    BY Ending DEF Write
  <1>2. /\ rows' \in [Targets -> Record]
        /\ \A g \in Targets : rows'[g] = rows[g] \/ rows'[g].version = r.now
    BY ChangedRow DEF Write
  <1>3. minted' = minted /\ log' = log \cup {e}
    BY DEF Write
  <1>4. /\ r.user \in Users /\ r.target \in Targets
        /\ r.lease \in Stamps \cup {None} /\ r.challenge \in Stamps \cup {None}
        /\ rows[r.target].rev \in Nat
    BY <1>1 DEF Request, IInv, TypeOK, Record
  <1>5. /\ r.op \in Ops
        /\ r.op \in LeaseOps <=> r.lease # None
        /\ r.op \in ChallengeOps <=> r.challenge # None
    BY <1>1 DEF IInv, RequestShape
  <1>6. changed => rows[r.target].version = r.version
    BY DEF Write, UpdateApplies, DeleteApplies, InvokeApplies, VersionMatches
  <1>7. /\ leases \in [Targets -> Lease \cup {None}]
        /\ challenges \in [Stamps -> Challenge \cup {None}]
        /\ minted \in [Stamps -> Grant \cup {None}]
        /\ None \notin Stamps
    BY EditLeaseAssumption DEF IInv, TypeOK
  <1>8. r.op \in LeaseOps =>
           /\ leases[r.target] # None
           /\ leases[r.target].owner = r.user
           /\ leases[r.target].token = r.lease
           /\ leases[r.target].version = r.version
           /\ leases[r.target].op = r.op
    BY DEF Write, LeaseValid, Owned
  <1>9. r.op \in ChallengeOps =>
           /\ r.challenge \in Stamps
           /\ challenges[r.challenge] # None
           /\ challenges[r.challenge].owner = r.user
           /\ challenges[r.challenge].op = r.op
           /\ challenges[r.challenge].target = r.target
           /\ challenges[r.challenge].version = r.version
    BY <1>4, <1>5 DEF Write, ConfirmationValid
  <1>10. r.op \in ChallengeOps => ~challenges[r.challenge].consumed
    BY DEF Write, ConfirmationValid
  <1>11. leases' = IF r.op \in LeaseOps
                   THEN [leases EXCEPT ![r.target] = None] ELSE leases
    BY DEF Write
  <1>12. challenges' = IF r.op \in ChallengeOps
                       THEN [challenges EXCEPT ![r.challenge].consumed = TRUE]
                       ELSE challenges
    BY DEF Write
  <1>13. /\ e \in Effect /\ e.user = r.user /\ e.target = r.target /\ e.op = r.op
         /\ e.lease = r.lease /\ e.challenge = r.challenge
         /\ e.rev = rows[r.target].rev
    BY <1>1, <1>4, <1>5 DEF Effect
  <1>14. e.changed = changed
    OBVIOUS
  <1> HIDE DEF e
  <1>15. /\ leases' \in [Targets -> Lease \cup {None}]
         /\ \A g \in Targets : leases'[g] # None =>
               leases'[g] = leases[g] /\ (r.op \in LeaseOps => g # r.target)
    <2> HIDE DEF r
    <2> QED BY <1>4, <1>7, <1>11
  <1>16. /\ challenges' \in [Stamps -> Challenge \cup {None}]
         /\ \A s \in Stamps : challenges'[s] # None =>
               /\ challenges[s] # None
               /\ challenges'[s].owner = challenges[s].owner
               /\ challenges'[s].op = challenges[s].op
               /\ challenges'[s].target = challenges[s].target
               /\ challenges'[s].version = challenges[s].version
         /\ \A s \in Stamps : challenges[s] = None => challenges'[s] = None
         /\ \A s \in Stamps : s # r.challenge => challenges'[s] = challenges[s]
    <2>1. CASE r.op \notin ChallengeOps
      BY <1>7, <1>12, <2>1
    <2>2. CASE r.op \in ChallengeOps
      <3> DEFINE k == r.challenge
                 old == challenges[k]
                 new == [old EXCEPT !.consumed = TRUE]
      <3>1. old \in Challenge /\ k \in Stamps /\ old # None
        BY <1>7, <1>9, <2>2
      <3>2. challenges' = [challenges EXCEPT ![k] = new]
        BY <1>7, <1>12, <2>2, <3>1
      <3> HIDE DEF k, r
      <3>3. /\ new \in Challenge /\ new.owner = old.owner /\ new.op = old.op
            /\ new.target = old.target /\ new.version = old.version
        BY <3>1 DEF Challenge
      <3> HIDE DEF new
      <3> QED BY <1>7, <3>1, <3>2, <3>3 DEF k
    <2> QED BY <2>1, <2>2
  <1>17. r.op \in ChallengeOps => challenges'[r.challenge].consumed
    <2> SUFFICES ASSUME r.op \in ChallengeOps
                 PROVE  challenges'[r.challenge].consumed
      OBVIOUS
    <2>1. challenges[r.challenge] \in Challenge /\ r.challenge \in Stamps
      BY <1>7, <1>9
    <2>2. challenges'[r.challenge] = [challenges[r.challenge] EXCEPT !.consumed = TRUE]
      BY <1>7, <1>12, <2>1
    <2> QED BY <2>1, <2>2 DEF Challenge
  <1>18. TypeOK'
    <2>1. log' \in SUBSET Effect
      BY <1>3, <1>13 DEF IInv, TypeOK
    <2> HIDE DEF r
    <2> QED BY <1>1, <1>2, <1>3, <1>15, <1>16, <2>1 DEF IInv, TypeOK
  <1> HIDE DEF r
  <1>19. Unused'
    <2> SUFFICES ASSUME NEW s \in Stamps, s # r.now, Fresh(s) PROVE Fresh(s)'
      BY <1>1
    <2>1. minted'[s] = None /\ challenges'[s] = None
      BY <1>3, <1>16 DEF Fresh
    <2>2. \A g \in Targets : /\ rows'[g].version # s
                             /\ leases'[g] # None => leases'[g].version # s
      BY <1>2, <1>15 DEF Fresh
    <2>3. \A c \in Stamps : challenges'[c] # None => challenges'[c].version # s
      BY <1>16 DEF Fresh
    <2>4. \A u \in Txs : tx'[u] # None => tx'[u].version # s
      BY <1>1 DEF Fresh
    <2> QED BY <2>1, <2>2, <2>3, <2>4 DEF Fresh
  <1>20. RequestShape'
    <2>1. \A u \in Txs : tx[u] # None => tx[u].target \in Targets
      BY DEF IInv, TypeOK, Request
    <2>2. \A u \in Txs : tx[u] # None => tx[u].version # r.now
      BY <1>1 DEF Fresh
    <2> QED BY <1>1, <1>2, <2>1, <2>2 DEF IInv, RequestShape
  <1>21. LeaseShape'
    <2> SUFFICES ASSUME NEW g \in Targets, leases'[g] # None
                 PROVE  /\ minted[leases[g].token] # None
                        /\ minted[leases[g].token].user = leases[g].owner
                        /\ minted[leases[g].token].target = g
                        /\ minted[leases[g].token].op = leases[g].op
                        /\ rows'[g].version = leases[g].version
                              => rows'[g].rev = minted[leases[g].token].rev
                        /\ \A f \in log' : f.lease # leases[g].token
      BY <1>3, <1>15 DEF LeaseShape
    <2>1. leases[g] # None /\ leases[g].token \in Stamps
      BY <1>7, <1>15 DEF Lease
    <2>2. r.lease # leases[g].token
      <3>1. CASE r.op \in LeaseOps
        BY <1>4, <1>8, <1>15, <2>1, <3>1 DEF IInv, LeaseShape
      <3>2. CASE r.op \notin LeaseOps
        BY <1>5, <1>7, <2>1, <3>2
      <3> QED BY <3>1, <3>2
    <2>3. rows'[g].version = leases[g].version => rows'[g] = rows[g]
      BY <1>1, <1>2, <2>1 DEF Fresh
    <2>4. \A f \in log' : f.lease # leases[g].token
      BY <1>3, <1>13, <2>1, <2>2 DEF IInv, LeaseShape
    <2> QED BY <2>1, <2>3, <2>4 DEF IInv, LeaseShape
  <1>22. ChallengeShape'
    <2> SUFFICES ASSUME NEW s \in Stamps, challenges'[s] # None
                 PROVE  /\ minted[s] # None
                        /\ minted[s].user = challenges[s].owner
                        /\ minted[s].target = challenges[s].target
                        /\ minted[s].op = challenges[s].op
                        /\ rows'[challenges[s].target].version = challenges[s].version
                              => rows'[challenges[s].target].rev = minted[s].rev
                        /\ challenges'[s].consumed \/ \A f \in log' : f.challenge # s
      BY <1>3, <1>16 DEF ChallengeShape
    <2>1. challenges[s] # None /\ challenges[s].target \in Targets
      BY <1>7, <1>16 DEF Challenge
    <2>2. rows'[challenges[s].target].version = challenges[s].version
             => rows'[challenges[s].target] = rows[challenges[s].target]
      BY <1>1, <1>2, <2>1 DEF Fresh
    <2>3. challenges'[s].consumed \/ \A f \in log' : f.challenge # s
      <3>1. CASE s = r.challenge
        BY <1>5, <1>7, <1>17, <3>1
      <3>2. CASE s # r.challenge
        BY <1>3, <1>13, <1>16, <2>1, <3>2 DEF IInv, ChallengeShape
      <3> QED BY <3>1, <3>2
    <2> QED BY <2>1, <2>2, <2>3 DEF IInv, ChallengeShape
  <1>23. r.op \in LeaseOps =>
            /\ minted[r.lease] # None
            /\ changed => minted[r.lease] = Asked(e)
            /\ \A f \in log : f.lease # r.lease
    <2> SUFFICES ASSUME r.op \in LeaseOps
                 PROVE  /\ minted[r.lease] # None
                        /\ changed => minted[r.lease] = Asked(e)
                        /\ \A f \in log : f.lease # r.lease
      OBVIOUS
    <2>1. /\ minted[r.lease] # None /\ minted[r.lease].user = r.user
          /\ minted[r.lease].target = r.target /\ minted[r.lease].op = r.op
          /\ changed => minted[r.lease].rev = rows[r.target].rev
          /\ \A f \in log : f.lease # r.lease
      BY <1>4, <1>6, <1>8 DEF IInv, LeaseShape
    <2>2. minted[r.lease] \in Grant
      BY <1>4, <1>5, <1>7, <2>1
    <2> QED BY <1>13, <2>1, <2>2 DEF Grant, Asked
  <1>24. r.op \in ChallengeOps =>
            /\ minted[r.challenge] # None
            /\ changed => minted[r.challenge] = Asked(e)
    <2> SUFFICES ASSUME r.op \in ChallengeOps
                 PROVE  /\ minted[r.challenge] # None
                        /\ changed => minted[r.challenge] = Asked(e)
      OBVIOUS
    <2>1. /\ minted[r.challenge] # None /\ minted[r.challenge].user = r.user
          /\ minted[r.challenge].target = r.target /\ minted[r.challenge].op = r.op
          /\ changed => minted[r.challenge].rev = rows[r.target].rev
      BY <1>4, <1>6, <1>9 DEF IInv, ChallengeShape
    <2>2. minted[r.challenge] \in Grant
      BY <1>7, <1>9, <2>1
    <2> QED BY <1>13, <2>1, <2>2 DEF Grant, Asked
  <1>25. r.op \in ChallengeOps => \A f \in log : f.challenge # r.challenge
    BY <1>9, <1>10 DEF IInv, ChallengeShape
  <1>26. LogShape'
    BY <1>3, <1>5, <1>13, <1>23, <1>24 DEF IInv, LogShape
  <1>27. LeasedChangeOnLeasedContent'
    BY <1>3, <1>13, <1>14, <1>23 DEF IInv, LeasedChangeOnLeasedContent, Asked
  <1>28. ConfirmedChangeOnShownContent'
    BY <1>3, <1>13, <1>14, <1>24 DEF IInv, ConfirmedChangeOnShownContent, Asked
  <1>29. ControlsUsedOnce'
    <2>1. \A f \in log : /\ r.lease # None => f.lease # r.lease
                         /\ r.challenge # None => f.challenge # r.challenge
      BY <1>5, <1>23, <1>25
    <2> QED BY <1>3, <1>13, <2>1 DEF IInv, ControlsUsedOnce
  <1> QED BY <1>1, <1>18, <1>19, <1>20, <1>21, <1>22, <1>26, <1>27, <1>28, <1>29
          DEF IInv
-----------------------------------------------------------------------------
\* Every step of the specification preserves the inductive invariant.
LEMMA NextIInv == IInv /\ [Next]_vars => IInv'
  <1> SUFFICES ASSUME IInv, [Next]_vars PROVE IInv'
    OBVIOUS
  <1>1. CASE UNCHANGED vars
    <2>1. UNCHANGED <<rows, leases, challenges, minted, log>> /\ UNCHANGED <<clock, tx>>
      BY <1>1 DEF vars
    <2>2. TypeOK' /\ Begun' /\ RequestShape'
      BY <2>1 DEF IInv, TypeOK, Begun, RequestShape
    <2>3. Unused'
      BY <2>1 DEF IInv, Unused, Fresh
    <2> QED BY <2>1, <2>2, <2>3, RowsKeep DEF IInv
  <1>2. CASE Tick \/ \E t \in Txs : Abort(t)
    BY <1>2, IdleStep
  <1>3. ASSUME NEW t \in Txs, BeginSome(t) PROVE IInv'
    BY <1>3, BeginSomeStep
  <1>4. ASSUME NEW t \in Txs, Acquire(t) PROVE IInv'
    BY <1>4, AcquireStep
  <1>5. ASSUME NEW t \in Txs, Renew(t) \/ Release(t) PROVE IInv'
    BY <1>5, RenewStep
  <1>6. ASSUME NEW t \in Txs, Issue(t) PROVE IInv'
    BY <1>6, IssueStep
  <1>7. ASSUME NEW t \in Txs, NEW changed \in BOOLEAN, Write(t, changed) PROVE IInv'
    BY <1>7, WriteStep
  <1>8. ASSUME NEW t \in Txs, PlainWrite(t) PROVE IInv'
    BY <1>8, PlainStep
  <1> QED BY <1>1, <1>2, <1>3, <1>4, <1>5, <1>6, <1>7, <1>8 DEF Next

\* The invariant holds in every reachable state, for every set of users,
\* records, Operations and instants.
THEOREM Inductive == Spec => []IInv
  BY InitIInv, NextIInv, PTL DEF Spec

\* The tables of leases and challenges, the requests and the history keep
\* their types.
THEOREM TypeCorrect == Spec => []TypeOK
  BY Inductive, PTL DEF IInv

\* No lost update under a lease: however many transactions overlap, a leased
\* change is made on the content its token was minted for, by its owner.
THEOREM NoLostUpdate == Spec => []LeasedChangeOnLeasedContent
  BY Inductive, PTL DEF IInv

\* A confirmed change is made on the content that was shown with the challenge.
THEOREM ConfirmedContent == Spec => []ConfirmedChangeOnShownContent
  BY Inductive, PTL DEF IInv

\* A lease token and a challenge admit one committed write at most.
THEOREM SingleUse == Spec => []ControlsUsedOnce
  BY Inductive, PTL DEF IInv

\* A lease that has not expired is ended, replaced or moved only by a request
\* of its owner: the beginning of a transaction, with which another user's
\* acquire decides expiry, is never later than the clock.
THEOREM OwnerKeepsLease == Spec => OnlyOwnerEndsLease
  <1> DEFINE Kept ==
        \A g \in Targets :
            /\ leases[g] # None
            /\ leases[g].expires > clock
            /\ leases'[g] # leases[g]
            => \E t \in Txs : /\ tx[t] # None /\ tx'[t] = None
                              /\ tx[t].user = leases[g].owner
  <1>1. IInv /\ [Next]_vars => [Kept]_vars
    <2> SUFFICES ASSUME IInv, Next, NEW g \in Targets, leases[g] # None,
                        leases[g].expires > clock, leases'[g] # leases[g]
                 PROVE  \E t \in Txs : /\ tx[t] # None /\ tx'[t] = None
                                       /\ tx[t].user = leases[g].owner
      OBVIOUS
    <2>1. /\ leases \in [Targets -> Lease \cup {None}]
          /\ tx \in [Txs -> Request \cup {None}] /\ clock \in Nat
          /\ leases[g].expires \in Nat
      BY EditLeaseAssumption DEF IInv, TypeOK, Lease
    <2>2. PICK t \in Txs :
             \/ Acquire(t) \/ Renew(t) \/ Release(t)
             \/ \E changed \in BOOLEAN : Write(t, changed)
      <3>1. ASSUME NEW t \in Txs, BeginSome(t) PROVE leases' = leases
        <4>1. \A r : Begin(t, r) => leases' = leases
          BY DEF Begin
        <4>2. \A u \in Users, h \in Targets, o \in LeaseOps :
                 BeginAcquire(t, u, h, o) => leases' = leases
          BY <4>1 DEF BeginAcquire
        <4>3. \A u \in Users, h \in Targets, l \in LeaseTokens :
                 BeginRenew(t, u, h, l) \/ BeginRelease(t, u, h, l) => leases' = leases
          BY <4>1 DEF BeginRenew, BeginRelease
        <4>4. \A u \in Users, h \in Targets : \A o \in Ops, v \in Versions(h),
                 l \in LeaseTokens \cup {None}, c \in Confirmations \cup {None} :
                 BeginGuarded(t, u, h, o, v, l, c) => leases' = leases
          BY <4>1 DEF BeginGuarded
        <4>5. \A u \in Users, h \in Targets : BeginPlain(t, u, h) => leases' = leases
          BY <4>1 DEF BeginPlain
        <4> QED BY <3>1, <4>2, <4>3, <4>4, <4>5 DEF BeginSome
      <3>2. ASSUME NEW t \in Txs, Abort(t) \/ Issue(t) \/ PlainWrite(t)
            PROVE  leases' = leases
        BY <3>2 DEF Abort, Issue, PlainWrite
      <3>3. ~Tick
        BY DEF Tick
      <3> QED BY <3>1, <3>2, <3>3 DEF Next
    <2>3. PICK kind : Ends(t, kind)
      BY <2>2 DEF Acquire, Renew, Release, Write
    <2>4. /\ tx[t] # None /\ tx'[t] = None /\ tx[t].now <= clock
          /\ tx[t].now \in Nat /\ tx[t].target \in Targets
      BY <2>1, <2>3, Ending DEF Ends, IInv, Begun, Request
    <2>5. CASE Acquire(t)
      <3>1. g = tx[t].target
        BY <2>1, <2>4, <2>5 DEF Acquire
      <3>2. leases[g].expires <= tx[t].now \/ leases[g].owner = tx[t].user
        BY <2>5, <3>1 DEF Acquire, Upsertable
      <3> QED BY <2>1, <2>4, <3>2
    <2>6. CASE Renew(t) \/ Release(t)
      <3>1. g = tx[t].target
        BY <2>1, <2>4, <2>6 DEF Renew, Release
      <3> QED BY <2>4, <2>6, <3>1 DEF Renew, Release, Owned
    <2>7. CASE \E changed \in BOOLEAN : Write(t, changed)
      <3>1. g = tx[t].target /\ tx[t].op \in LeaseOps
        BY <2>1, <2>4, <2>7 DEF Write
      <3> QED BY <2>4, <2>7, <3>1 DEF Write, LeaseValid, Owned
    <2> QED BY <2>2, <2>5, <2>6, <2>7
  <1>2. Spec => [][Kept]_vars
    BY <1>1, Inductive, PTL DEF Spec
  <1> QED BY <1>2 DEF OnlyOwnerEndsLease
=============================================================================
