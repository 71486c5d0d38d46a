---------------------------- MODULE TenantsProofs ----------------------------
(***************************************************************************)
(* The projection of a tenant heals, the organization scopes converge and  *)
(* the closure of the sub-organisations stays exact, for any callers,      *)
(* names, aliases, units and bounds.  The invariants of the first two say  *)
(* what a call still knows to be true of the registry and of the realm at  *)
(* each of its steps, as long as it is alone: that nobody else is under    *)
(* way, and that what it read is what is there.  That of the third is the  *)
(* tree itself, with what its one writer has checked and written so far.   *)
(***************************************************************************)
EXTENDS MCTenants, FiniteSetTheorems, TLAPS

\* What a step of any call needs to be well defined
ShapeOf(k) ==
    /\ k.phase = "row" \/ (k.phase = "update" /\ k.op = "rename") => k.name \in Names
    /\ k.phase \in {"create", "link", "get", "put"} => row # None /\ k.status \in Statuses
    /\ k.phase \in {"link", "get", "put"} => k.org \in Ids
    /\ k.phase = "update" => k.op \in {"suspend", "activate", "rename"}
    /\ k.phase = "list" => k.status \in Statuses /\ k.name \in Names

\* What a call that is alone knows
KnownTo(k) ==
    /\ k.phase = "list" => row # None /\ k.name = row.name /\ k.status = row.status /\ k.org = row.org
    /\ k.phase = "row" /\ k.op = "reapply" => row # None /\ k.name = row.name
    /\ k.phase \in {"create", "link", "get", "put"} => k.status = row.status
    /\ k.phase = "link" => organization # None /\ organization.id = k.org
    /\ k.phase \in {"get", "put"} => k.org = row.org
    /\ k.phase = "scope" => Projected
    /\ k.phase = "done" /\ k.op # "rename" => Projected

Solitary(c) ==
    calls[c].alone = TRUE => KnownTo(calls[c]) /\ \A e \in Callers \ {c} : Resting(e)

IInv ==
    /\ TypeOK
    /\ \A c \in Callers : ShapeOf(calls[c])
    /\ \A c \in Callers : Solitary(c)

-----------------------------------------------------------------------------
(* Lemmas                                                                  *)

\* While a call is under way no other is alone.
LEMMA OthersNotAlone ==
    ASSUME IInv, NEW c \in Callers, ~Resting(c), NEW d \in Callers, d # c
    PROVE  calls[d].alone # TRUE
  BY DEF IInv, Solitary

\* A step of a call under way keeps the invariant where it keeps the types, does
\* not lose the row, and leaves the call with what it must know.
LEMMA OwnStep ==
    ASSUME IInv, NEW c \in Callers, ~Resting(c), NEW k \in Call,
           calls' = [calls EXCEPT ![c] = k],
           k.alone = calls[c].alone \/ k.alone = FALSE,
           TypeOK', row # None => row' # None,
           ShapeOf(k)', k.alone = TRUE => KnownTo(k)'
    PROVE  IInv'
  <1>1. calls'[c] = k /\ \A d \in Callers : d # c => calls'[d] = calls[d]
    BY DEF IInv, TypeOK
  <1>2. ASSUME NEW d \in Callers PROVE ShapeOf(calls[d])'
    <2>1. CASE d = c BY <1>1, <2>1 DEF ShapeOf
    <2>2. CASE d # c
      <3>1. ShapeOf(calls[d]) BY DEF IInv
      <3> QED BY <1>1, <2>2, <3>1 DEF ShapeOf
    <2> QED BY <2>1, <2>2
  <1>3. ASSUME NEW d \in Callers PROVE Solitary(d)'
    <2>1. CASE d = c
      <3>1. SUFFICES ASSUME k.alone = TRUE
                     PROVE  KnownTo(calls[d])' /\ \A e \in Callers \ {d} : Resting(e)'
        BY <1>1, <2>1 DEF Solitary
      <3>2. KnownTo(calls[d])' BY <1>1, <2>1, <3>1 DEF KnownTo
      <3>3. \A e \in Callers \ {c} : Resting(e)
        <4>1. calls[c].alone = TRUE BY <3>1
        <4> QED BY <4>1 DEF IInv, Solitary
      <3>4. \A e \in Callers \ {c} : Resting(e)' BY <1>1, <3>3 DEF Resting
      <3> QED BY <2>1, <3>2, <3>4
    <2>2. CASE d # c
      <3>1. calls[d].alone # TRUE BY <2>2, OthersNotAlone
      <3> QED BY <1>1, <2>2, <3>1 DEF Solitary
    <2> QED BY <2>1, <2>2
  <1> QED BY <1>2, <1>3 DEF IInv

\* A call that moves to another phase stays a call.
LEMMA Moved ==
    ASSUME NEW k \in Call,
           NEW p \in {"idle", "scan", "list", "row", "create", "link", "get", "put", "scope",
                      "update", "done"}
    PROVE  LET j == [k EXCEPT !.phase = p]
           IN  /\ j \in Call
               /\ j.phase = p /\ j.op = k.op /\ j.name = k.name /\ j.status = k.status
               /\ j.org = k.org /\ j.alone = k.alone
  BY DEF Call

\* A call that is no longer alone is otherwise the same.
LEMMA NotAlone ==
    ASSUME NEW k \in Call
    PROVE  LET j == [k EXCEPT !.alone = FALSE]
           IN  /\ j \in Call
               /\ j.phase = k.phase /\ j.op = k.op /\ j.name = k.name
               /\ j.status = k.status /\ j.org = k.org /\ j.alone = FALSE
  BY DEF Call

\* The call that has ended is a call.
LEMMA IdleFacts == Idle \in Call /\ Idle.phase = "idle" /\ Idle.alone = FALSE
  BY DEF Idle, Call

-----------------------------------------------------------------------------
(* Each action keeps the invariant                                         *)

\* Initially nothing is there and nobody is under way.
LEMMA InitIInv == Init => IInv
  <1> SUFFICES ASSUME Init PROVE IInv OBVIOUS
  <1>1. TypeOK
    <2>1. ids \in 0..MaxIds BY ProjectionAssumption DEF Init
    <2> QED BY <2>1, IdleFacts DEF Init, TypeOK
  <1>2. \A c \in Callers : calls[c].phase = "idle" /\ calls[c].alone = FALSE
    BY IdleFacts DEF Init
  <1> QED BY <1>1, <1>2 DEF IInv, ShapeOf, Solitary

\* A step that ends the call without a result keeps the invariant.
LEMMA EndKeeps ==
    ASSUME IInv, NEW c \in Callers, ~Resting(c), calls' = [calls EXCEPT ![c] = Idle],
           TypeOK', row # None => row' # None
    PROVE  IInv'
  <1>1. ShapeOf(Idle)' BY IdleFacts DEF ShapeOf
  <1> QED BY <1>1, IdleFacts, OwnStep

\* A failed request keeps the invariant.
LEMMA FailKeeps == ASSUME IInv, NEW c \in Callers, Fail(c) PROVE IInv'
  <1>1. TypeOK' BY IdleFacts DEF IInv, TypeOK, Fail
  <1> QED BY <1>1, EndKeeps DEF Fail

\* Drift ends everybody's being alone.
LEMMA DriftKeeps == ASSUME IInv, Drift PROVE IInv'
  <1>2. ASSUME NEW c \in Callers
        PROVE  /\ calls'[c] \in Call /\ calls'[c].alone = FALSE
               /\ calls'[c].phase = calls[c].phase /\ calls'[c].op = calls[c].op
               /\ calls'[c].name = calls[c].name /\ calls'[c].status = calls[c].status
               /\ calls'[c].org = calls[c].org
    <2>1. calls[c] \in Call BY DEF IInv, TypeOK
    <2>2. calls'[c] = [calls[c] EXCEPT !.alone = FALSE] BY DEF Drift
    <2> QED BY <2>1, <2>2, NotAlone
  <1>1. calls' \in [Callers -> Call] BY <1>2 DEF Drift
  <1>3. organization' \in Organization \cup {None}
    <2>1. organization \in Organization BY DEF IInv, TypeOK, Drift
    <2>2. [organization EXCEPT !.enabled = ~@] \in Organization BY <2>1 DEF Organization
    <2> QED BY <2>2 DEF Drift
  <1>4. TypeOK' BY <1>1, <1>3 DEF IInv, TypeOK, Drift
  <1>5. ASSUME NEW c \in Callers PROVE ShapeOf(calls[c])'
    <2>1. ShapeOf(calls[c]) BY DEF IInv
    <2>2. row' = row BY DEF Drift
    <2> QED BY <1>2, <2>1, <2>2 DEF ShapeOf
  <1> QED BY <1>2, <1>4, <1>5 DEF IInv, Solitary

\* A call that begins knows nothing yet, and is alone where the others rest.
LEMMA BeginKeeps ==
    ASSUME IInv, NEW c \in Callers, NEW op \in Ops, NEW name \in Names, Begin(c, op, name)
    PROVE  IInv'
  <1> DEFINE k == calls'[c]
             solo == \A e \in Callers \ {c} : Resting(e)
  <1>1. op \in {"provision", "suspend", "activate", "rename", "reapply"}
    BY ProjectionAssumption
  <1>2. /\ k.op = op /\ k.phase \in {"row", "scan", "update"}
        /\ op = "provision" => k.phase = "row" /\ k.name = name
        /\ op = "reapply" => k.phase = "scan"
        /\ op \notin {"provision", "reapply"} => k.phase = "update"
        /\ op = "rename" => k.name = name
    BY <1>1 DEF Begin, Idle
  <1>3. k.alone = solo BY DEF Begin, Idle
  <1>4. k \in Call
    <2>1. k = [op |-> op, phase |-> k.phase, name |-> k.name, status |-> None, org |-> None,
               alone |-> k.alone]
      BY DEF Begin, Idle
    <2>2. k.name \in Names \cup {None} BY DEF Begin, Idle
    <2>3. k.alone \in BOOLEAN BY <1>3
    <2> HIDE DEF k
    <2> QED BY <1>1, <1>2, <2>1, <2>2, <2>3 DEF Call
  <1>5. ASSUME NEW d \in Callers, d # c
        PROVE  /\ calls'[d] \in Call /\ calls'[d].alone = FALSE
               /\ calls'[d].phase = calls[d].phase /\ calls'[d].op = calls[d].op
               /\ calls'[d].name = calls[d].name /\ calls'[d].status = calls[d].status
               /\ calls'[d].org = calls[d].org
    <2>1. calls[d] \in Call BY DEF IInv, TypeOK
    <2>2. calls'[d] = [calls[d] EXCEPT !.alone = FALSE] BY <1>5 DEF Begin
    <2> QED BY <2>1, <2>2, NotAlone
  <1>6. calls' \in [Callers -> Call]
    <2>1. calls' = [d \in Callers |-> calls'[d]] BY DEF Begin
    <2>2. \A d \in Callers : calls'[d] \in Call BY <1>4, <1>5
    <2> HIDE DEF k
    <2> QED BY <2>1, <2>2
  <1>7. TypeOK' BY <1>6 DEF IInv, TypeOK, Begin
  <1>8. UNCHANGED <<row, organization>> BY DEF Begin
  <1> HIDE DEF k
  <1>9. ASSUME NEW d \in Callers PROVE ShapeOf(calls[d])'
    <2>1. CASE d = c BY <1>1, <1>2, <2>1 DEF ShapeOf, k
    <2>2. CASE d # c
      <3>1. ShapeOf(calls[d]) /\ calls[d] \in Call BY DEF IInv, TypeOK
      <3> QED BY <1>5, <1>8, <2>2, <3>1 DEF ShapeOf
    <2> QED BY <2>1, <2>2
  <1>10. ASSUME NEW d \in Callers PROVE Solitary(d)'
    <2>1. CASE d = c
      <3>1. SUFFICES ASSUME k.alone = TRUE
                     PROVE  KnownTo(calls[c])' /\ \A e \in Callers \ {c} : Resting(e)'
        BY <2>1 DEF Solitary, k
      <3>2. KnownTo(calls[c])' BY <1>1, <1>2 DEF KnownTo, k
      <3>3. solo BY <1>3, <3>1
      <3>4. \A e \in Callers \ {c} : calls'[e].phase = calls[e].phase BY <1>5
      <3> QED BY <3>2, <3>3, <3>4 DEF Resting
    <2>2. CASE d # c
      <3>1. calls'[d].alone = FALSE BY <1>5, <2>2
      <3> QED BY <3>1 DEF Solitary
    <2> QED BY <2>1, <2>2
  <1> QED BY <1>7, <1>9, <1>10 DEF IInv

\* 1. the registry row.
LEMMA UpsertRowKeeps == ASSUME IInv, NEW c \in Callers, UpsertRow(c) PROVE IInv'
  <1> DEFINE k == [calls[c] EXCEPT !.phase = "create", !.status = row'.status]
  <1>1. calls[c] \in Call /\ calls[c].phase = "row" /\ calls[c].name \in Names
    BY DEF IInv, TypeOK, UpsertRow, ShapeOf
  <1>2. ~Resting(c) BY <1>1 DEF Resting
  <1>3. row' \in Row /\ row'.name = calls[c].name
    <2>1. CASE row = None BY <1>1, <2>1 DEF UpsertRow, Upserted, Row, Statuses, DefaultStatus
    <2>2. CASE row # None
      <3>1. row \in Row BY <2>2 DEF IInv, TypeOK
      <3> QED BY <1>1, <2>2, <3>1 DEF UpsertRow, Upserted, Row
    <2> QED BY <2>1, <2>2
  <1>4. row' # None BY <1>3, ProjectionAssumption
  <1>5. row'.status \in Statuses BY <1>3 DEF Row
  <1>6. /\ k \in Call /\ k.phase = "create" /\ k.op = calls[c].op
        /\ k.status = row'.status /\ k.alone = calls[c].alone
    BY <1>1, <1>5 DEF Call
  <1>7. calls' = [calls EXCEPT ![c] = k] BY DEF UpsertRow, IInv, TypeOK
  <1>8. UNCHANGED <<organization, ids, clean>> BY DEF UpsertRow
  <1> HIDE DEF k
  <1>9. TypeOK' BY <1>3, <1>6, <1>7, <1>8 DEF IInv, TypeOK
  <1>10. PICK j \in Call : j = k BY <1>6
  <1>11. ShapeOf(j)' /\ KnownTo(j)' BY <1>4, <1>5, <1>6, <1>10 DEF ShapeOf, KnownTo
  <1> QED BY <1>2, <1>4, <1>6, <1>7, <1>9, <1>10, <1>11, OwnStep

\* 2. the Organization.
LEMMA CreateOrganizationKeeps == ASSUME IInv, NEW c \in Callers, CreateOrganization(c) PROVE IInv'
  <1> DEFINE k == [calls[c] EXCEPT !.phase = "link", !.org = organization'.id]
  <1>1. /\ calls[c] \in Call /\ calls[c].phase = "create"
        /\ row # None /\ calls[c].status \in Statuses
    BY DEF IInv, TypeOK, CreateOrganization, ShapeOf
  <1>2. ~Resting(c) BY <1>1 DEF Resting
  <1>3. ids' \in 0..MaxIds /\ organization' \in Organization
    <2>1. ids \in 0..MaxIds /\ MaxIds \in Nat BY ProjectionAssumption DEF IInv, TypeOK
    <2>2. CASE organization = None
      <3>1. ids' = ids + 1 /\ ids' \in Ids BY <2>1, <2>2 DEF CreateOrganization, Ids
      <3>2. organization' = [id |-> ids', enabled |-> TRUE] BY <2>2 DEF CreateOrganization
      <3> QED BY <3>1, <3>2 DEF Organization, Ids
    <2>3. CASE organization # None
      <3>1. organization \in Organization BY <2>3 DEF IInv, TypeOK
      <3>2. organization' = [id |-> organization.id, enabled |-> TRUE] /\ ids' = ids
        BY <2>3 DEF CreateOrganization
      <3> QED BY <2>1, <3>1, <3>2 DEF Organization
    <2> QED BY <2>2, <2>3
  <1>4. organization' # None /\ organization'.id \in Ids
    BY <1>3, ProjectionAssumption DEF Organization
  <1>5. /\ k \in Call /\ k.phase = "link" /\ k.op = calls[c].op /\ k.org = organization'.id
        /\ k.status = calls[c].status /\ k.alone = calls[c].alone
    BY <1>1, <1>4 DEF Call
  <1>6. calls' = [calls EXCEPT ![c] = k] BY DEF CreateOrganization, IInv, TypeOK
  <1>7. UNCHANGED <<row, clean>> BY DEF CreateOrganization
  <1> HIDE DEF k
  <1>8. TypeOK' BY <1>3, <1>5, <1>6, <1>7 DEF IInv, TypeOK
  <1>9. PICK j \in Call : j = k BY <1>5
  <1>10. ShapeOf(j)' BY <1>1, <1>4, <1>5, <1>7, <1>9 DEF ShapeOf
  <1>11. ASSUME j.alone = TRUE PROVE KnownTo(j)'
    <2>1. calls[c].status = row.status BY <1>1, <1>5, <1>9, <1>11 DEF IInv, Solitary, KnownTo
    <2> QED BY <1>4, <1>5, <1>7, <1>9, <2>1 DEF KnownTo
  <1> QED BY <1>2, <1>5, <1>6, <1>7, <1>8, <1>9, <1>10, <1>11, OwnStep

\* A step that only moves its call, from a phase in which it is under way.
LEMMA GoKeeps ==
    ASSUME IInv, NEW c \in Callers, ~Resting(c),
           NEW p \in {"idle", "scan", "list", "row", "create", "link", "get", "put", "scope",
                      "update", "done"},
           Go(c, p), UNCHANGED <<row, ids, clean>>,
           organization' \in Organization \cup {None},
           NEW j \in Call, j = [calls[c] EXCEPT !.phase = p],
           ShapeOf(j)', j.alone = TRUE => KnownTo(j)'
    PROVE  IInv'
  <1>1. calls[c] \in Call BY DEF IInv, TypeOK
  <1>2. calls' = [calls EXCEPT ![c] = j] BY DEF Go, IInv, TypeOK
  <1>3. TypeOK' BY <1>2 DEF IInv, TypeOK
  <1>4. j.alone = calls[c].alone BY <1>1, Moved
  <1> QED BY <1>2, <1>3, <1>4, OwnStep

\* 3. the link.
LEMMA LinkKeeps == ASSUME IInv, NEW c \in Callers, LinkTenantOrganization(c) PROVE IInv'
  <1>1. /\ calls[c] \in Call /\ calls[c].phase = "link"
        /\ row # None /\ calls[c].status \in Statuses /\ calls[c].org \in Ids
    BY DEF IInv, TypeOK, LinkTenantOrganization, ShapeOf
  <1>2. ~Resting(c) BY <1>1 DEF Resting
  <1>3. PICK j \in Call : j = [calls[c] EXCEPT !.phase = "get"] BY <1>1, Moved
  <1>4. /\ j.phase = "get" /\ j.op = calls[c].op /\ j.org = calls[c].org
        /\ j.status = calls[c].status /\ j.alone = calls[c].alone
    BY <1>1, <1>3, Moved
  <1>5. calls' = [calls EXCEPT ![c] = j]
    BY <1>3 DEF LinkTenantOrganization, Go, AfterLink, IInv, TypeOK
  <1>6. row \in Row BY <1>1 DEF IInv, TypeOK
  <1>7. row' \in Row /\ row'.org = calls[c].org /\ row'.status = row.status
    BY <1>1, <1>6 DEF LinkTenantOrganization, Row
  <1>8. row' # None BY <1>7, ProjectionAssumption
  <1>9. UNCHANGED <<organization, ids, clean>> BY DEF LinkTenantOrganization
  <1>10. TypeOK' BY <1>5, <1>7, <1>9 DEF IInv, TypeOK
  <1>11. ShapeOf(j)' BY <1>1, <1>4, <1>8 DEF ShapeOf
  <1>12. ASSUME j.alone = TRUE PROVE KnownTo(j)'
    <2>1. calls[c].status = row.status BY <1>1, <1>4, <1>12 DEF IInv, Solitary, KnownTo
    <2> QED BY <1>4, <1>7, <2>1 DEF KnownTo
  <1> QED BY <1>2, <1>4, <1>5, <1>8, <1>10, <1>11, <1>12, OwnStep

\* 5. the scope.
LEMMA ScopeKeeps == ASSUME IInv, NEW c \in Callers, ProvisionOrganizationScope(c) PROVE IInv'
  <1>1. calls[c] \in Call /\ calls[c].phase = "scope"
    BY DEF IInv, TypeOK, ProvisionOrganizationScope
  <1>2. ~Resting(c) BY <1>1 DEF Resting
  <1>3. PICK j \in Call : j = [calls[c] EXCEPT !.phase = "done"] BY <1>1, Moved
  <1>4. j.phase = "done" /\ j.alone = calls[c].alone BY <1>1, <1>3, Moved
  <1>5. UNCHANGED <<row, organization, ids, clean>> /\ Go(c, "done")
    BY DEF ProvisionOrganizationScope
  <1>6. ShapeOf(j)' BY <1>4 DEF ShapeOf
  <1>7. ASSUME j.alone = TRUE PROVE KnownTo(j)'
    <2>1. Projected BY <1>1, <1>4, <1>7 DEF IInv, Solitary, KnownTo
    <2>2. Projected' BY <1>5, <2>1 DEF Projected
    <2> QED BY <1>4, <2>2 DEF KnownTo
  <1>8. organization' \in Organization \cup {None} BY <1>5 DEF IInv, TypeOK
  <1> QED BY <1>2, <1>3, <1>5, <1>6, <1>7, <1>8, GoKeeps

\* A call whose Organization is the linked one, and as enabled as its status
\* says, has projected the row it knows.
LEMMA ProjectedFacts ==
    ASSUME TypeOK, NEW c \in Callers, row # None, calls[c].org = row.org,
           calls[c].status = row.status, Found(c),
           organization.enabled = EnabledFor(calls[c].status)
    PROVE  Projected
  BY DEF Projected, Found

\* The GET of setOrganizationEnabled.
LEMMA GetKeeps == ASSUME IInv, NEW c \in Callers, GetOrganization(c) PROVE IInv'
  <1> DEFINE same == organization.enabled = EnabledFor(calls[c].status)
             p == IF same THEN AfterEnabled(c) ELSE "put"
  <1>1. /\ calls[c] \in Call /\ calls[c].phase = "get"
        /\ row # None /\ calls[c].status \in Statuses /\ calls[c].org \in Ids
    BY DEF IInv, TypeOK, GetOrganization, ShapeOf
  <1>2. ~Resting(c) BY <1>1 DEF Resting
  <1>3. p \in {"scope", "done", "put"} /\ (p # "put" => same) BY DEF AfterEnabled
  <1>4. Go(c, p) /\ UNCHANGED <<row, organization, ids, clean>> /\ Found(c)
    BY DEF GetOrganization
  <1> HIDE DEF p
  <1>5. PICK j \in Call : j = [calls[c] EXCEPT !.phase = p] BY <1>1, <1>3, Moved
  <1>6. /\ j.phase = p /\ j.op = calls[c].op /\ j.org = calls[c].org
        /\ j.status = calls[c].status /\ j.alone = calls[c].alone
    BY <1>1, <1>3, <1>5, Moved
  <1>7. ShapeOf(j)' BY <1>1, <1>3, <1>4, <1>6 DEF ShapeOf
  <1>8. ASSUME j.alone = TRUE PROVE KnownTo(j)'
    <2>1. calls[c].status = row.status /\ calls[c].org = row.org
      BY <1>1, <1>6, <1>8 DEF IInv, Solitary, KnownTo
    <2>2. CASE p = "put" BY <1>4, <1>6, <2>1, <2>2 DEF KnownTo
    <2>3. CASE p # "put"
      <3>1. Projected BY <1>1, <1>3, <1>4, <2>1, <2>3, ProjectedFacts DEF IInv
      <3>2. Projected' BY <1>4, <3>1 DEF Projected
      <3> QED BY <1>3, <1>6, <2>3, <3>2 DEF KnownTo
    <2> QED BY <2>2, <2>3
  <1>9. organization' \in Organization \cup {None} BY <1>4 DEF IInv, TypeOK
  <1> QED BY <1>2, <1>3, <1>4, <1>5, <1>7, <1>8, <1>9, GoKeeps

\* The PUT of setOrganizationEnabled.
LEMMA PutKeeps == ASSUME IInv, NEW c \in Callers, PutOrganization(c) PROVE IInv'
  <1> DEFINE p == AfterEnabled(c)
  <1>1. /\ calls[c] \in Call /\ calls[c].phase = "put" /\ row # None
    BY DEF IInv, TypeOK, PutOrganization, ShapeOf
  <1>2. ~Resting(c) BY <1>1 DEF Resting
  <1>3. p \in {"scope", "done"} BY DEF AfterEnabled
  <1>4. Go(c, p) /\ UNCHANGED <<row, ids, clean>> /\ Found(c) BY DEF PutOrganization
  <1> HIDE DEF p
  <1>5. PICK j \in Call : j = [calls[c] EXCEPT !.phase = p] BY <1>1, <1>3, Moved
  <1>6. /\ j.phase = p /\ j.op = calls[c].op /\ j.org = calls[c].org
        /\ j.status = calls[c].status /\ j.alone = calls[c].alone
    BY <1>1, <1>3, <1>5, Moved
  <1>7. organization \in Organization BY <1>4 DEF IInv, TypeOK, Found
  <1>8. EnabledFor(calls[c].status) \in BOOLEAN BY DEF EnabledFor
  <1>9. /\ organization' \in Organization /\ organization'.id = organization.id
        /\ organization'.enabled = EnabledFor(calls[c].status)
    BY <1>7, <1>8 DEF PutOrganization, Organization
  <1>10. organization' # None BY <1>9, ProjectionAssumption
  <1>11. ShapeOf(j)' BY <1>3, <1>6 DEF ShapeOf
  <1>12. ASSUME j.alone = TRUE PROVE KnownTo(j)'
    <2>1. calls[c].status = row.status /\ calls[c].org = row.org
      BY <1>1, <1>6, <1>12 DEF IInv, Solitary, KnownTo
    <2>2. Projected' BY <1>1, <1>4, <1>9, <1>10, <2>1 DEF Projected, Found, EnabledFor
    <2> QED BY <1>3, <1>6, <2>2 DEF KnownTo
  <1>13. organization' \in Organization \cup {None} BY <1>9
  <1> QED BY <1>2, <1>3, <1>4, <1>5, <1>11, <1>12, <1>13, GoKeeps

\* The row updateTenant writes is a row.
LEMMA NextRowFacts ==
    ASSUME IInv, NEW c \in Callers, calls[c].phase = "update", row # None
    PROVE  NextRow(c) \in Row /\ NextRow(c).org = row.org
  <1>1. row \in Row BY DEF IInv, TypeOK
  <1>2. ShapeOf(calls[c]) BY DEF IInv
  <1>3. CASE calls[c].op = "suspend" BY <1>1, <1>3 DEF NextRow, Row, Statuses
  <1>4. CASE calls[c].op = "activate" BY <1>1, <1>4 DEF NextRow, Row, Statuses
  <1>5. CASE calls[c].op = "rename"
    <2>1. calls[c].name \in Names BY <1>2, <1>5 DEF ShapeOf
    <2> QED BY <1>1, <1>5, <2>1 DEF NextRow, Row
  <1> QED BY <1>2, <1>3, <1>4, <1>5 DEF ShapeOf

\* updateTenant.
LEMMA UpdateKeeps == ASSUME IInv, NEW c \in Callers, Update(c) PROVE IInv'
  <1>1. calls[c] \in Call /\ calls[c].phase = "update" /\ row # None
    BY DEF IInv, TypeOK, Update
  <1>2. ~Resting(c) BY <1>1 DEF Resting
  <1>3. row' \in Row /\ row'.org = row.org BY <1>1, NextRowFacts DEF Update
  <1>4. row' # None BY <1>3, ProjectionAssumption
  <1>5. row'.status \in Statuses BY <1>3 DEF Row
  <1>6. UNCHANGED <<organization, ids>> /\ clean' \in BOOLEAN
    <2>1. clean \in BOOLEAN BY DEF IInv, TypeOK
    <2> QED BY <2>1 DEF Update
  <1>7. CASE calls[c].op = "rename"
    <2>1. PICK j \in Call : j = [calls[c] EXCEPT !.phase = "done"] BY <1>1, Moved
    <2>2. j.phase = "done" /\ j.op = "rename" /\ j.alone = calls[c].alone
      BY <1>1, <1>7, <2>1, Moved
    <2>3. calls' = [calls EXCEPT ![c] = j] BY <1>7, <2>1 DEF Update, Go, IInv, TypeOK
    <2>4. TypeOK' BY <1>3, <1>6, <2>3 DEF IInv, TypeOK
    <2>5. ShapeOf(j)' /\ KnownTo(j)' BY <2>2 DEF ShapeOf, KnownTo
    <2> QED BY <1>2, <1>4, <2>2, <2>3, <2>4, <2>5, OwnStep
  <1>8. CASE calls[c].op # "rename" /\ row.org = None
    <2>1. calls' = [calls EXCEPT ![c] = Idle] BY <1>8 DEF Update
    <2>2. TypeOK' BY <1>3, <1>6, <2>1, IdleFacts DEF IInv, TypeOK
    <2> QED BY <1>2, <1>4, <2>1, <2>2, EndKeeps
  <1>9. CASE calls[c].op # "rename" /\ row.org # None
    <2> DEFINE k == [calls[c] EXCEPT !.phase = "get", !.status = row'.status, !.org = row.org]
    <2>1. row.org \in Ids BY <1>1, <1>9 DEF IInv, TypeOK, Row
    <2>2. /\ k \in Call /\ k.phase = "get" /\ k.status = row'.status /\ k.org = row.org
          /\ k.alone = calls[c].alone /\ k.op = calls[c].op
      BY <1>1, <1>5, <2>1 DEF Call
    <2>3. calls' = [calls EXCEPT ![c] = k] BY <1>9 DEF Update, IInv, TypeOK
    <2> HIDE DEF k
    <2>4. TypeOK' BY <1>3, <1>6, <2>2, <2>3 DEF IInv, TypeOK
    <2>5. PICK j \in Call : j = k BY <2>2
    <2>6. ShapeOf(j)' BY <1>4, <1>5, <2>1, <2>2, <2>5 DEF ShapeOf
    <2>7. KnownTo(j)' BY <1>3, <2>2, <2>5 DEF KnownTo
    <2> QED BY <1>2, <1>4, <2>2, <2>3, <2>4, <2>5, <2>6, <2>7, OwnStep
  <1> QED BY <1>7, <1>8, <1>9

\* scanRegistry.
LEMMA ScanKeeps == ASSUME IInv, NEW c \in Callers, ScanRegistry(c) PROVE IInv'
  <1> DEFINE k == [calls[c] EXCEPT !.phase = "list", !.name = row.name,
                                   !.status = row.status, !.org = row.org]
  <1>1. calls[c] \in Call /\ calls[c].phase = "scan" /\ row # None /\ row \in Row
    BY DEF IInv, TypeOK, ScanRegistry
  <1>2. ~Resting(c) BY <1>1 DEF Resting
  <1>3. row.name \in Names /\ row.status \in Statuses /\ row.org \in Ids \cup {None}
    BY <1>1 DEF Row
  <1>4. /\ k \in Call /\ k.phase = "list" /\ k.name = row.name /\ k.status = row.status
        /\ k.org = row.org /\ k.alone = calls[c].alone
    BY <1>1, <1>3 DEF Call
  <1>5. calls' = [calls EXCEPT ![c] = k] BY DEF ScanRegistry, IInv, TypeOK
  <1>6. UNCHANGED <<row, organization, ids, clean>> BY DEF ScanRegistry
  <1> HIDE DEF k
  <1>7. TypeOK' BY <1>4, <1>5, <1>6 DEF IInv, TypeOK
  <1>8. PICK j \in Call : j = k BY <1>4
  <1>9. ShapeOf(j)' /\ KnownTo(j)' BY <1>1, <1>3, <1>4, <1>6, <1>8 DEF ShapeOf, KnownTo
  <1> QED BY <1>2, <1>4, <1>5, <1>6, <1>7, <1>8, <1>9, OwnStep

\* compareRegistryToRealm.
LEMMA CompareKeeps == ASSUME IInv, NEW c \in Callers, Compare(c) PROVE IInv'
  <1> DEFINE p == IF Drifted(c) THEN "row" ELSE "done"
  <1>1. calls[c] \in Call /\ calls[c].phase = "list" /\ calls[c].name \in Names
    BY DEF IInv, TypeOK, Compare, ShapeOf
  <1>2. ~Resting(c) BY <1>1 DEF Resting
  <1>3. p \in {"row", "done"} /\ (p = "done" => ~Drifted(c)) OBVIOUS
  <1>4. Go(c, p) /\ UNCHANGED <<row, organization, ids, clean>> BY DEF Compare
  <1> HIDE DEF p
  <1>5. PICK j \in Call : j = [calls[c] EXCEPT !.phase = p] BY <1>1, <1>3, Moved
  <1>6. j.phase = p /\ j.name = calls[c].name /\ j.alone = calls[c].alone
    BY <1>1, <1>3, <1>5, Moved
  <1>7. ShapeOf(j)' BY <1>1, <1>3, <1>6 DEF ShapeOf
  <1>8. ASSUME j.alone = TRUE PROVE KnownTo(j)'
    <2>1. /\ row # None /\ calls[c].name = row.name
          /\ calls[c].status = row.status /\ calls[c].org = row.org
      BY <1>1, <1>6, <1>8 DEF IInv, Solitary, KnownTo
    <2>2. CASE p = "row" BY <1>4, <1>6, <2>1, <2>2 DEF KnownTo
    <2>3. CASE p = "done"
      <3>1. Found(c) /\ organization.enabled = EnabledFor(calls[c].status)
        BY <1>3, <2>3 DEF Drifted
      <3>2. Projected BY <2>1, <3>1, ProjectedFacts DEF IInv
      <3>3. Projected' BY <1>4, <3>2 DEF Projected
      <3> QED BY <1>6, <2>3, <3>3 DEF KnownTo
    <2> QED BY <1>3, <2>2, <2>3
  <1>9. organization' \in Organization \cup {None} BY <1>4 DEF IInv, TypeOK
  <1> QED BY <1>2, <1>3, <1>4, <1>5, <1>7, <1>8, <1>9, GoKeeps

\* Every step keeps the invariant.
LEMMA NextKeeps == IInv /\ [Next]_vars => IInv'
  <1> SUFFICES ASSUME IInv, [Next]_vars PROVE IInv' OBVIOUS
  <1>1. CASE UNCHANGED vars
    BY <1>1 DEF vars, IInv, TypeOK, ShapeOf, Solitary, KnownTo, Projected, Resting
  <1>2. CASE Drift BY <1>2, DriftKeeps
  <1>3. ASSUME NEW c \in Callers, Step(c) PROVE IInv'
    BY <1>3, BeginKeeps, FailKeeps, UpsertRowKeeps, CreateOrganizationKeeps, LinkKeeps,
       ScopeKeeps, GetKeeps, PutKeeps, UpdateKeeps, ScanKeeps, CompareKeeps DEF Step
  <1> QED BY <1>1, <1>2, <1>3 DEF Next

-----------------------------------------------------------------------------
(* The theorems                                                            *)

\* The invariant holds in every reachable state.
THEOREM Invariant == Spec => []IInv
  BY InitIInv, NextKeeps, PTL DEF Spec

\* Every variable keeps its type.
THEOREM TypeCorrect == Spec => []TypeOK
  <1>1. IInv => TypeOK BY DEF IInv
  <1> QED BY <1>1, Invariant, PTL

\* Whatever failed, raced or drifted before, a provisionTenant, a status change
\* or a reapplyProjection that runs alone and returns has left the Organization
\* linked and enabled as the row says.
THEOREM CallsHeal == Spec => []AloneHeals
  <1>1. IInv => AloneHeals
    <2> SUFFICES ASSUME IInv, NEW c \in Callers, calls[c].phase = "done", calls[c].alone,
                        calls[c].op # "rename"
                 PROVE  Projected
      BY DEF AloneHeals
    <2>1. calls[c].alone \in BOOLEAN BY DEF IInv, TypeOK, Call
    <2>2. calls[c].alone = TRUE BY <2>1
    <2> QED BY <2>2 DEF IInv, Solitary, KnownTo
  <1> QED BY <1>1, Invariant, PTL

\* A reapplyProjection that runs alone changes neither name nor status of the
\* tenant: its upsert writes the name that is there.
THEOREM ReapplyIsReadOnly == Spec => AloneKeepsRegistry
  <1>1. IInv /\ [Next]_vars =>
          [\A c \in Callers :
             calls[c].op = "reapply" /\ calls[c].alone /\ calls[c].phase = "row" /\ row' # row
               => Registry(row') = Registry(row)]_vars
    <2> SUFFICES ASSUME IInv, Next, NEW c \in Callers, calls[c].op = "reapply",
                        calls[c].alone, calls[c].phase = "row", row' # row
                 PROVE  Registry(row') = Registry(row)
      OBVIOUS
    <2>1. calls[c].alone = TRUE
      <3>1. calls[c].alone \in BOOLEAN BY DEF IInv, TypeOK, Call
      <3> QED BY <3>1
    <2>2. row # None /\ calls[c].name = row.name BY <2>1 DEF IInv, Solitary, KnownTo
    <2>3. \A e \in Callers \ {c} : Resting(e) BY <2>1 DEF IInv, Solitary
    <2>4. row \in Row BY <2>2 DEF IInv, TypeOK
    <2>5. PICK d \in Callers : UpsertRow(d) \/ LinkTenantOrganization(d) \/ Update(d)
      BY DEF Next, Drift, Step, Begin, Fail, CreateOrganization, ProvisionOrganizationScope,
             GetOrganization, PutOrganization, ScanRegistry, Compare
    <2>6. d = c
      BY <2>3, <2>5 DEF Resting, UpsertRow, LinkTenantOrganization, Update
    <2>7. UpsertRow(c) BY <2>5, <2>6 DEF LinkTenantOrganization, Update
    <2>8. row' = [row EXCEPT !.name = row.name] BY <2>2, <2>7 DEF UpsertRow, Upserted
    <2> QED BY <2>4, <2>8 DEF Row, Registry
  <1> QED BY <1>1, Invariant, PTL DEF Spec, AloneKeepsRegistry
-----------------------------------------------------------------------------
(* Organization scopes                                                     *)

Ensuring == {"create", "map", "attach", "detach", "allow"}

RealmTyped ==
    /\ orgs \subseteq Aliases /\ scopes \subseteq Aliases /\ mapped \subseteq Aliases
    /\ attached \subseteq Aliases /\ inherited \subseteq Aliases
    /\ allowed \subseteq Aliases \cup {Other}

\* What a step of any request needs to be well defined
CallShape(m) ==
    /\ m.phase # "idle" => m.op # "none"
    /\ m.phase = "list" => m.op = "reconcile"
    /\ m.op = "ensure" /\ m.phase \in {"scopes", "rest"} => m.todo # {}
    /\ m.phase \in Ensuring => m.at \in Aliases

\* What a reconciliation that nothing overlaps knows of the realm: the snapshot
\* it edits along is still what is there, no orphan is left once they have gone,
\* and the scopes it has been through are usable; where it was refused, an
\* Organization has an entry and no scope
Knows(m, os, sc, mp, att, inh, al) ==
    /\ m.phase \in {"scopes", "rest", "orphans", "sweep"} => m.todo = os
    /\ m.phase \in {"rest", "orphans", "sweep"} \cup Ensuring => m.scopes = sc
    /\ m.phase \in {"orphans", "sweep"} \cup Ensuring =>
          /\ m.policy = al
          /\ \A a \in os : (a \in m.attached <=> a \in att) /\ (a \in m.inherited <=> a \in inh)
    /\ m.phase \in {"sweep", "done"} \cup Ensuring => sc \subseteq os
    /\ m.phase \in {"done"} \cup Ensuring => al \subseteq os \cup {Other}
    /\ m.phase \in Ensuring =>
          /\ m.todo \subseteq os /\ m.at \in m.todo
          /\ \A a \in os \ m.todo : a \in mp /\ a \in att /\ a \notin inh /\ a \in al
    /\ m.phase \in {"map", "attach", "detach", "allow"} => m.at \in sc
    /\ m.phase \in {"attach", "detach", "allow"} => m.at \in mp
    /\ m.phase \in {"detach", "allow"} => m.at \in att
    /\ m.phase = "allow" => m.at \notin inh
    /\ m.phase = "done" =>
          \A a \in os : a \in mp /\ a \in att /\ a \notin inh /\ a \in al
    /\ m.phase = "refused" => (al \cap os) \ sc # {}

AloneKnows(c) ==
    sCalls[c].alone = TRUE =>
        /\ \A e \in ScopeCallers \ {c} : S!Resting(e)
        /\ sCalls[c].op = "reconcile" =>
              Knows(sCalls[c], orgs, scopes, mapped, attached, inherited, allowed)

ScopesInv ==
    /\ RealmTyped
    /\ sCalls \in [ScopeCallers -> S!Call]
    /\ \A c \in ScopeCallers : CallShape(sCalls[c])
    /\ \A c \in ScopeCallers : AloneKnows(c)

\* A step of a request under way: nobody else is alone.
LEMMA OwnRequest ==
    ASSUME ScopesInv, NEW c \in ScopeCallers, ~S!Resting(c), NEW k \in S!Call,
           sCalls' = [sCalls EXCEPT ![c] = k], k.alone = sCalls[c].alone \/ k.alone = FALSE,
           RealmTyped', CallShape(k),
           k.alone = TRUE /\ k.op = "reconcile" =>
              Knows(k, orgs', scopes', mapped', attached', inherited', allowed')
    PROVE  ScopesInv'
  <1>1. /\ sCalls' \in [ScopeCallers -> S!Call] /\ sCalls'[c] = k
        /\ \A d \in ScopeCallers : d # c => sCalls'[d] = sCalls[d]
    BY DEF ScopesInv
  <1>2. \A d \in ScopeCallers : CallShape(sCalls'[d])
    BY <1>1 DEF ScopesInv
  <1>3. ASSUME NEW d \in ScopeCallers PROVE AloneKnows(d)'
    <2>1. CASE d # c
      <3>1. sCalls[d].alone # TRUE
        BY <2>1 DEF ScopesInv, AloneKnows
      <3> QED BY <1>1, <2>1, <3>1 DEF AloneKnows
    <2>2. CASE d = c
      <3>1. sCalls[c].alone = TRUE => \A e \in ScopeCallers \ {c} : S!Resting(e)
        BY DEF ScopesInv, AloneKnows
      <3>2. sCalls[c].alone = TRUE => \A e \in ScopeCallers \ {c} : S!Resting(e)'
        BY <1>1, <3>1 DEF S!Resting
      <3> QED BY <1>1, <2>2, <3>2 DEF AloneKnows
    <2> QED BY <2>1, <2>2
  <1> QED BY <1>1, <1>2, <1>3 DEF ScopesInv

\* The request that is not there.
LEMMA NoRequest ==
    /\ S!Idle \in S!Call /\ S!Idle.op = "none" /\ S!Idle.phase = "idle"
    /\ S!Idle.alone = FALSE /\ S!Idle.todo = {}
  BY DEF S!Idle, S!Call

\* A request that is no longer alone is otherwise the same.
LEMMA Overlapped ==
    ASSUME NEW m \in S!Call
    PROVE  LET j == [m EXCEPT !.alone = FALSE]
           IN  /\ j \in S!Call /\ j.alone = FALSE
               /\ j.op = m.op /\ j.phase = m.phase /\ j.todo = m.todo /\ j.at = m.at
  BY DEF S!Call

\* A failed request.
LEMMA RequestFails ==
    ASSUME ScopesInv, NEW c \in ScopeCallers, S!Fail(c)
    PROVE  ScopesInv'
  <1>1. RealmTyped'
    BY DEF ScopesInv, RealmTyped, S!Fail, S!realm
  <1>2. CallShape(S!Idle)
    BY NoRequest DEF CallShape, Ensuring
  <1> QED BY <1>1, <1>2, NoRequest, OwnRequest DEF S!Fail

\* Drift ends everybody's being alone.
LEMMA RealmDrifts ==
    ASSUME ScopesInv, S!Drift
    PROVE  ScopesInv'
  <1>1. RealmTyped'
    <2>1. RealmTyped
      BY DEF ScopesInv
    <2> QED BY <2>1 DEF RealmTyped, S!Drift, S!DeleteScopes
  <1>2. ASSUME NEW c \in ScopeCallers
        PROVE  /\ sCalls'[c] \in S!Call /\ sCalls'[c].alone = FALSE
               /\ sCalls'[c].op = sCalls[c].op /\ sCalls'[c].phase = sCalls[c].phase
               /\ sCalls'[c].todo = sCalls[c].todo /\ sCalls'[c].at = sCalls[c].at
    <2>1. sCalls[c] \in S!Call
      BY DEF ScopesInv
    <2>2. sCalls'[c] = [sCalls[c] EXCEPT !.alone = FALSE]
      BY DEF S!Drift
    <2> QED BY <2>1, <2>2, Overlapped
  <1>3. sCalls' \in [ScopeCallers -> S!Call]
    <2>1. sCalls' = [c \in ScopeCallers |-> sCalls'[c]]
      BY DEF S!Drift
    <2> QED BY <1>2, <2>1
  <1>4. \A c \in ScopeCallers : CallShape(sCalls'[c])
    BY <1>2 DEF ScopesInv, CallShape
  <1>5. \A c \in ScopeCallers : AloneKnows(c)'
    BY <1>2 DEF AloneKnows
  <1> QED BY <1>1, <1>3, <1>4, <1>5 DEF ScopesInv

\* A request begins; it is alone where the others rest.
LEMMA RequestBegins ==
    ASSUME ScopesInv, NEW c \in ScopeCallers, NEW m \in S!Call, S!BeginCall(c, m),
           RealmTyped', CallShape(m), m.phase \in {"list", "scopes"},
           m.phase = "scopes" => m.op = "ensure"
    PROVE  ScopesInv'
  <1> DEFINE solo == \A e \in ScopeCallers \ {c} : S!Resting(e)
             k == [m EXCEPT !.alone = solo]
  <1>1. sCalls'[c] = k
    BY DEF S!BeginCall
  <1>2. solo \in BOOLEAN
    OBVIOUS
  <1>3. k.alone = solo
    BY DEF S!Call
  <1> HIDE DEF solo
  <1>4. k \in S!Call
    BY <1>2 DEF S!Call
  <1>5. k.op = m.op /\ k.phase = m.phase /\ k.todo = m.todo /\ k.at = m.at
    BY DEF S!Call
  <1> HIDE DEF k
  <1>6. ASSUME NEW d \in ScopeCallers, d # c
        PROVE  /\ sCalls'[d] \in S!Call /\ sCalls'[d].alone = FALSE
               /\ sCalls'[d].op = sCalls[d].op /\ sCalls'[d].phase = sCalls[d].phase
               /\ sCalls'[d].todo = sCalls[d].todo /\ sCalls'[d].at = sCalls[d].at
    <2>1. sCalls[d] \in S!Call
      BY DEF ScopesInv
    <2>2. sCalls'[d] = [sCalls[d] EXCEPT !.alone = FALSE]
      BY <1>6 DEF S!BeginCall
    <2> QED BY <2>1, <2>2, Overlapped
  <1>7. sCalls' \in [ScopeCallers -> S!Call]
    <2>1. sCalls' = [d \in ScopeCallers |-> sCalls'[d]]
      BY DEF S!BeginCall
    <2>2. \A d \in ScopeCallers : sCalls'[d] \in S!Call
      BY <1>1, <1>4, <1>6
    <2> QED BY <2>1, <2>2
  <1>8. ASSUME NEW d \in ScopeCallers PROVE CallShape(sCalls'[d])
    <2>1. CASE d = c
      BY <1>1, <1>5, <2>1 DEF CallShape
    <2>2. CASE d # c
      BY <1>6, <2>2 DEF ScopesInv, CallShape
    <2> QED BY <2>1, <2>2
  <1>9. ASSUME NEW d \in ScopeCallers PROVE AloneKnows(d)'
    <2>1. CASE d # c
      BY <1>6, <2>1 DEF AloneKnows
    <2>2. CASE d = c
      <3>1. k.op = "reconcile" =>
               Knows(k, orgs', scopes', mapped', attached', inherited', allowed')
        BY <1>5 DEF Knows, Ensuring
      <3>2. k.alone = TRUE => \A e \in ScopeCallers \ {c} : S!Resting(e)
        BY <1>3 DEF solo
      <3>3. k.alone = TRUE => \A e \in ScopeCallers \ {c} : S!Resting(e)'
        BY <1>6, <3>2 DEF S!Resting
      <3> QED BY <1>1, <2>2, <3>1, <3>3 DEF AloneKnows
    <2> QED BY <2>1, <2>2
  <1> QED BY <1>7, <1>8, <1>9 DEF ScopesInv

\* ensureOrganizationScope and reconcileOrganizationScopes begin.
LEMMA BeginsKeep ==
    ASSUME ScopesInv, NEW c \in ScopeCallers,
           S!BeginReconcile(c) \/ (\E a \in Aliases : S!BeginEnsure(c, a))
    PROVE  ScopesInv'
  <1>1. RealmTyped
    BY DEF ScopesInv
  <1>2. CASE S!BeginReconcile(c)
    <2> DEFINE m == [S!Idle EXCEPT !.op = "reconcile", !.phase = "list"]
    <2>1. m \in S!Call /\ m.op = "reconcile" /\ m.phase = "list"
      BY DEF S!Idle, S!Call
    <2>2. S!BeginCall(c, m)
      BY <1>2 DEF S!BeginReconcile
    <2> HIDE DEF m
    <2>3. CallShape(m)
      BY <2>1 DEF CallShape, Ensuring
    <2>4. RealmTyped'
      BY <1>1, <1>2 DEF RealmTyped, S!BeginReconcile, S!realm
    <2> QED BY <2>1, <2>2, <2>3, <2>4, RequestBegins
  <1>3. ASSUME NEW a \in Aliases, S!BeginEnsure(c, a)
        PROVE  ScopesInv'
    <2> DEFINE m == [S!Idle EXCEPT !.op = "ensure", !.phase = "scopes", !.todo = {a}]
    <2>1. m \in S!Call /\ m.op = "ensure" /\ m.phase = "scopes" /\ m.todo = {a}
      BY DEF S!Idle, S!Call
    <2>2. S!BeginCall(c, m)
      BY <1>3 DEF S!BeginEnsure
    <2> HIDE DEF m
    <2>3. CallShape(m)
      BY <2>1 DEF CallShape, Ensuring
    <2>4. RealmTyped'
      BY <1>1, <1>3 DEF RealmTyped, S!BeginEnsure
    <2> QED BY <2>1, <2>2, <2>3, <2>4, RequestBegins
  <1> QED BY <1>2, <1>3

\* listOrganizations.
LEMMA ListKeeps ==
    ASSUME ScopesInv, NEW c \in ScopeCallers, S!ListOrganizations(c)
    PROVE  ScopesInv'
  <1> DEFINE h == sCalls[c]
             m1 == [h EXCEPT !.phase = "scopes"]
             m == [m1 EXCEPT !.todo = orgs]
  <1>1. /\ RealmTyped /\ h \in S!Call /\ CallShape(h)
        /\ h.alone = TRUE /\ h.op = "reconcile" =>
              Knows(h, orgs, scopes, mapped, attached, inherited, allowed)
    BY DEF ScopesInv, AloneKnows
  <1>2. /\ h.phase = "list" /\ UNCHANGED <<orgs, scopes, mapped, attached, inherited, allowed>>
        /\ orgs \in SUBSET Aliases
    BY <1>1 DEF S!ListOrganizations, S!realm, RealmTyped
  <1>3. sCalls' = [sCalls EXCEPT ![c] = m] /\ ~S!Resting(c)
    BY <1>1 DEF S!ListOrganizations, S!Resting, ScopesInv, S!Call
  <1> HIDE DEF h
  <1>4. /\ m1 \in S!Call /\ m1.op = h.op /\ m1.phase = "scopes"
        /\ m1.todo = h.todo /\ m1.at = h.at /\ m1.scopes = h.scopes
        /\ m1.attached = h.attached /\ m1.inherited = h.inherited
        /\ m1.policy = h.policy /\ m1.alone = h.alone
    BY <1>1 DEF S!Call
  <1> HIDE DEF m1
  <1>5. /\ m \in S!Call /\ m.op = h.op /\ m.phase = "scopes" /\ m.todo = orgs
        /\ m.at = h.at /\ m.scopes = h.scopes /\ m.attached = h.attached
        /\ m.inherited = h.inherited /\ m.policy = h.policy /\ m.alone = h.alone
    BY <1>4, <1>2 DEF S!Call
  <1> HIDE DEF m
  <1>6. RealmTyped'
    BY <1>1, <1>2 DEF S!ListOrganizations, RealmTyped
  <1>7. CallShape(m)
    BY <1>1, <1>2, <1>5 DEF CallShape, Ensuring
  <1>8. ASSUME h.alone = TRUE, h.op = "reconcile"
        PROVE  Knows(m, orgs', scopes', mapped', attached', inherited', allowed')
    <2>1. Knows(h, orgs, scopes, mapped, attached, inherited, allowed)
      BY <1>1, <1>8
    <2> QED BY <1>1, <1>2, <1>5, <1>8, <2>1 DEF Knows, Ensuring, RealmTyped
  <1>9. m.alone = sCalls[c].alone
    BY <1>5 DEF h
  <1> QED BY <1>3, <1>5, <1>6, <1>7, <1>8, <1>9, OwnRequest

\* The client scopes are read.
LEMMA ReadScopesKeeps ==
    ASSUME ScopesInv, NEW c \in ScopeCallers, S!ReadScopes(c)
    PROVE  ScopesInv'
  <1> DEFINE h == sCalls[c]
             m1 == [h EXCEPT !.phase = "rest"]
             m == [m1 EXCEPT !.scopes = scopes]
  <1>1. /\ RealmTyped /\ h \in S!Call /\ CallShape(h)
        /\ h.alone = TRUE /\ h.op = "reconcile" =>
              Knows(h, orgs, scopes, mapped, attached, inherited, allowed)
    BY DEF ScopesInv, AloneKnows
  <1>2. /\ h.phase = "scopes" /\ UNCHANGED <<orgs, scopes, mapped, attached, inherited, allowed>>
        /\ scopes \in SUBSET Aliases
    BY <1>1 DEF S!ReadScopes, S!realm, RealmTyped
  <1>3. sCalls' = [sCalls EXCEPT ![c] = m] /\ ~S!Resting(c)
    BY <1>1 DEF S!ReadScopes, S!Resting, ScopesInv, S!Call
  <1> HIDE DEF h
  <1>4. /\ m1 \in S!Call /\ m1.op = h.op /\ m1.phase = "rest"
        /\ m1.todo = h.todo /\ m1.at = h.at /\ m1.scopes = h.scopes
        /\ m1.attached = h.attached /\ m1.inherited = h.inherited
        /\ m1.policy = h.policy /\ m1.alone = h.alone
    BY <1>1 DEF S!Call
  <1> HIDE DEF m1
  <1>5. /\ m \in S!Call /\ m.op = h.op /\ m.phase = "rest" /\ m.todo = h.todo
        /\ m.at = h.at /\ m.scopes = scopes /\ m.attached = h.attached
        /\ m.inherited = h.inherited /\ m.policy = h.policy /\ m.alone = h.alone
    BY <1>4, <1>2 DEF S!Call
  <1> HIDE DEF m
  <1>6. RealmTyped'
    BY <1>1, <1>2 DEF S!ReadScopes, RealmTyped
  <1>7. CallShape(m)
    BY <1>1, <1>2, <1>5 DEF CallShape, Ensuring
  <1>8. ASSUME h.alone = TRUE, h.op = "reconcile"
        PROVE  Knows(m, orgs', scopes', mapped', attached', inherited', allowed')
    <2>1. Knows(h, orgs, scopes, mapped, attached, inherited, allowed)
      BY <1>1, <1>8
    <2> QED BY <1>1, <1>2, <1>5, <1>8, <2>1 DEF Knows, Ensuring, RealmTyped
  <1>9. m.alone = sCalls[c].alone
    BY <1>5 DEF h
  <1> QED BY <1>3, <1>5, <1>6, <1>7, <1>8, <1>9, OwnRequest

\* The last orphan has gone.
LEMMA OrphansDoneKeeps ==
    ASSUME ScopesInv, NEW c \in ScopeCallers, S!OrphansDone(c)
    PROVE  ScopesInv'
  <1> DEFINE h == sCalls[c]
             m == [h EXCEPT !.phase = "sweep"]
  <1>1. /\ RealmTyped /\ h \in S!Call /\ CallShape(h)
        /\ h.alone = TRUE /\ h.op = "reconcile" =>
              Knows(h, orgs, scopes, mapped, attached, inherited, allowed)
    BY DEF ScopesInv, AloneKnows
  <1>2. /\ h.phase = "orphans" /\ UNCHANGED <<orgs, scopes, mapped, attached, inherited, allowed>>
        /\ h.scopes \subseteq h.todo
    BY <1>1 DEF S!OrphansDone, S!realm
  <1>3. sCalls' = [sCalls EXCEPT ![c] = m] /\ ~S!Resting(c)
    BY <1>1 DEF S!OrphansDone, S!Resting, ScopesInv, S!Call
  <1> HIDE DEF h
  <1>4. /\ m \in S!Call /\ m.op = h.op /\ m.phase = "sweep" /\ m.todo = h.todo
        /\ m.at = h.at /\ m.scopes = h.scopes /\ m.attached = h.attached
        /\ m.inherited = h.inherited /\ m.policy = h.policy /\ m.alone = h.alone
    BY <1>1 DEF S!Call
  <1> HIDE DEF m
  <1>5. RealmTyped'
    BY <1>1, <1>2 DEF S!OrphansDone, RealmTyped
  <1>6. CallShape(m)
    BY <1>1, <1>2, <1>4 DEF CallShape, Ensuring
  <1>7. ASSUME h.alone = TRUE, h.op = "reconcile"
        PROVE  Knows(m, orgs', scopes', mapped', attached', inherited', allowed')
    <2>1. Knows(h, orgs, scopes, mapped, attached, inherited, allowed)
      BY <1>1, <1>7
    <2> QED BY <1>1, <1>2, <1>4, <1>7, <2>1 DEF Knows, Ensuring, RealmTyped
  <1>8. m.alone = sCalls[c].alone
    BY <1>4 DEF h
  <1> QED BY <1>3, <1>4, <1>5, <1>6, <1>7, <1>8, OwnRequest

\* The audience mappers.
LEMMA MapKeeps ==
    ASSUME ScopesInv, NEW c \in ScopeCallers, S!MapAudiences(c)
    PROVE  ScopesInv'
  <1> DEFINE h == sCalls[c]
             m == [h EXCEPT !.phase = "attach"]
  <1>1. /\ RealmTyped /\ h \in S!Call /\ CallShape(h)
        /\ h.alone = TRUE /\ h.op = "reconcile" =>
              Knows(h, orgs, scopes, mapped, attached, inherited, allowed)
    BY DEF ScopesInv, AloneKnows
  <1>2. /\ h.phase = "map" /\ h.at \in Aliases
        /\ mapped' = mapped \cup {h.at}
        /\ UNCHANGED <<orgs, scopes, attached, inherited, allowed>>
    BY <1>1 DEF S!MapAudiences, CallShape, Ensuring
  <1>3. sCalls' = [sCalls EXCEPT ![c] = m] /\ ~S!Resting(c)
    BY <1>1 DEF S!MapAudiences, S!Resting, ScopesInv, S!Call
  <1> HIDE DEF h
  <1>4. /\ m \in S!Call /\ m.op = h.op /\ m.phase = "attach" /\ m.todo = h.todo
        /\ m.at = h.at /\ m.scopes = h.scopes /\ m.attached = h.attached
        /\ m.inherited = h.inherited /\ m.policy = h.policy /\ m.alone = h.alone
    BY <1>1 DEF S!Call
  <1> HIDE DEF m
  <1>5. RealmTyped'
    BY <1>1, <1>2 DEF S!MapAudiences, RealmTyped
  <1>6. CallShape(m)
    BY <1>1, <1>2, <1>4 DEF CallShape, Ensuring
  <1>7. ASSUME h.alone = TRUE, h.op = "reconcile"
        PROVE  Knows(m, orgs', scopes', mapped', attached', inherited', allowed')
    <2>1. Knows(h, orgs, scopes, mapped, attached, inherited, allowed)
      BY <1>1, <1>7
    <2> QED BY <1>1, <1>2, <1>4, <1>7, <2>1 DEF Knows, Ensuring, RealmTyped
  <1>8. m.alone = sCalls[c].alone
    BY <1>4 DEF h
  <1> QED BY <1>3, <1>4, <1>5, <1>6, <1>7, <1>8, OwnRequest

\* The scope, unless the snapshot has it.
LEMMA CreateScopeKeeps ==
    ASSUME ScopesInv, NEW c \in ScopeCallers, S!CreateScope(c)
    PROVE  ScopesInv'
  <1> DEFINE h == sCalls[c]
             m1 == [h EXCEPT !.phase = "map"]
             m == [m1 EXCEPT !.scopes = h.scopes \cup {h.at}]
  <1>1. /\ RealmTyped /\ h \in S!Call /\ CallShape(h)
        /\ h.alone = TRUE /\ h.op = "reconcile" =>
              Knows(h, orgs, scopes, mapped, attached, inherited, allowed)
    BY DEF ScopesInv, AloneKnows
  <1>2. /\ h.phase = "create" /\ h.at \in Aliases /\ h.scopes \cup {h.at} \in SUBSET Aliases
        /\ scopes' = IF h.at \in h.scopes THEN scopes ELSE scopes \cup {h.at}
        /\ UNCHANGED <<orgs, mapped, attached, inherited, allowed>>
    BY <1>1 DEF S!CreateScope, CallShape, Ensuring, S!Call
  <1>3. sCalls' = [sCalls EXCEPT ![c] = m] /\ ~S!Resting(c)
    BY <1>1 DEF S!CreateScope, S!Resting, ScopesInv, S!Call
  <1> HIDE DEF h
  <1>4. /\ m1 \in S!Call /\ m1.op = h.op /\ m1.phase = "map" /\ m1.todo = h.todo
        /\ m1.at = h.at /\ m1.scopes = h.scopes /\ m1.attached = h.attached
        /\ m1.inherited = h.inherited /\ m1.policy = h.policy
        /\ m1.alone = h.alone
    BY <1>1 DEF S!Call
  <1> HIDE DEF m1
  <1>5. /\ m \in S!Call /\ m.op = h.op /\ m.phase = "map" /\ m.todo = h.todo
        /\ m.at = h.at /\ m.scopes = h.scopes \cup {h.at}
        /\ m.attached = h.attached /\ m.inherited = h.inherited
        /\ m.policy = h.policy /\ m.alone = h.alone
    BY <1>4, <1>2 DEF S!Call
  <1> HIDE DEF m
  <1>6. RealmTyped'
    BY <1>1, <1>2 DEF S!CreateScope, RealmTyped
  <1>7. CallShape(m)
    BY <1>1, <1>2, <1>5 DEF CallShape, Ensuring
  <1>8. ASSUME h.alone = TRUE, h.op = "reconcile"
        PROVE  Knows(m, orgs', scopes', mapped', attached', inherited', allowed')
    <2>1. Knows(h, orgs, scopes, mapped, attached, inherited, allowed)
      BY <1>1, <1>8
    <2> QED BY <1>1, <1>2, <1>5, <1>8, <2>1 DEF Knows, Ensuring, RealmTyped
  <1>9. m.alone = sCalls[c].alone
    BY <1>5 DEF h
  <1> QED BY <1>3, <1>5, <1>6, <1>7, <1>8, <1>9, OwnRequest

\* The attachment, unless the snapshot has it.
LEMMA AttachKeeps ==
    ASSUME ScopesInv, NEW c \in ScopeCallers, S!AttachClients(c)
    PROVE  ScopesInv'
  <1> DEFINE h == sCalls[c]
             m1 == [h EXCEPT !.phase = "detach"]
             m == [m1 EXCEPT !.attached = h.attached \cup {h.at}]
  <1>1. /\ RealmTyped /\ h \in S!Call /\ CallShape(h)
        /\ h.alone = TRUE /\ h.op = "reconcile" =>
              Knows(h, orgs, scopes, mapped, attached, inherited, allowed)
    BY DEF ScopesInv, AloneKnows
  <1>2. /\ h.phase = "attach" /\ h.at \in Aliases /\ h.attached \cup {h.at} \in SUBSET Aliases
        /\ attached' = IF h.at \in h.attached THEN attached ELSE attached \cup {h.at}
        /\ UNCHANGED <<orgs, scopes, mapped, inherited, allowed>>
    BY <1>1 DEF S!AttachClients, CallShape, Ensuring, S!Call
  <1>3. sCalls' = [sCalls EXCEPT ![c] = m] /\ ~S!Resting(c)
    BY <1>1 DEF S!AttachClients, S!Resting, ScopesInv, S!Call
  <1> HIDE DEF h
  <1>4. /\ m1 \in S!Call /\ m1.op = h.op /\ m1.phase = "detach"
        /\ m1.todo = h.todo /\ m1.at = h.at /\ m1.scopes = h.scopes
        /\ m1.attached = h.attached /\ m1.inherited = h.inherited
        /\ m1.policy = h.policy /\ m1.alone = h.alone
    BY <1>1 DEF S!Call
  <1> HIDE DEF m1
  <1>5. /\ m \in S!Call /\ m.op = h.op /\ m.phase = "detach" /\ m.todo = h.todo
        /\ m.at = h.at /\ m.scopes = h.scopes
        /\ m.attached = h.attached \cup {h.at} /\ m.inherited = h.inherited
        /\ m.policy = h.policy /\ m.alone = h.alone
    BY <1>4, <1>2 DEF S!Call
  <1> HIDE DEF m
  <1>6. RealmTyped'
    BY <1>1, <1>2 DEF S!AttachClients, RealmTyped
  <1>7. CallShape(m)
    BY <1>1, <1>2, <1>5 DEF CallShape, Ensuring
  <1>8. ASSUME h.alone = TRUE, h.op = "reconcile"
        PROVE  Knows(m, orgs', scopes', mapped', attached', inherited', allowed')
    <2>1. Knows(h, orgs, scopes, mapped, attached, inherited, allowed)
      BY <1>1, <1>8
    <2> QED BY <1>1, <1>2, <1>5, <1>8, <2>1 DEF Knows, Ensuring, RealmTyped
  <1>9. m.alone = sCalls[c].alone
    BY <1>5 DEF h
  <1> QED BY <1>3, <1>5, <1>6, <1>7, <1>8, <1>9, OwnRequest

\* The realm default, if the snapshot has it.
LEMMA DetachKeeps ==
    ASSUME ScopesInv, NEW c \in ScopeCallers, S!DetachRealm(c)
    PROVE  ScopesInv'
  <1> DEFINE h == sCalls[c]
             m1 == [h EXCEPT !.phase = "allow"]
             m == [m1 EXCEPT !.inherited = h.inherited \ {h.at}]
  <1>1. /\ RealmTyped /\ h \in S!Call /\ CallShape(h)
        /\ h.alone = TRUE /\ h.op = "reconcile" =>
              Knows(h, orgs, scopes, mapped, attached, inherited, allowed)
    BY DEF ScopesInv, AloneKnows
  <1>2. /\ h.phase = "detach" /\ h.at \in Aliases /\ h.inherited \ {h.at} \in SUBSET Aliases
        /\ inherited' = IF h.at \in h.inherited THEN inherited \ {h.at} ELSE inherited
        /\ UNCHANGED <<orgs, scopes, mapped, attached, allowed>>
    BY <1>1 DEF S!DetachRealm, CallShape, Ensuring, S!Call
  <1>3. sCalls' = [sCalls EXCEPT ![c] = m] /\ ~S!Resting(c)
    BY <1>1 DEF S!DetachRealm, S!Resting, ScopesInv, S!Call
  <1> HIDE DEF h
  <1>4. /\ m1 \in S!Call /\ m1.op = h.op /\ m1.phase = "allow"
        /\ m1.todo = h.todo /\ m1.at = h.at /\ m1.scopes = h.scopes
        /\ m1.attached = h.attached /\ m1.inherited = h.inherited
        /\ m1.policy = h.policy /\ m1.alone = h.alone
    BY <1>1 DEF S!Call
  <1> HIDE DEF m1
  <1>5. /\ m \in S!Call /\ m.op = h.op /\ m.phase = "allow" /\ m.todo = h.todo
        /\ m.at = h.at /\ m.scopes = h.scopes /\ m.attached = h.attached
        /\ m.inherited = h.inherited \ {h.at} /\ m.policy = h.policy
        /\ m.alone = h.alone
    BY <1>4, <1>2 DEF S!Call
  <1> HIDE DEF m
  <1>6. RealmTyped'
    BY <1>1, <1>2 DEF S!DetachRealm, RealmTyped
  <1>7. CallShape(m)
    BY <1>1, <1>2, <1>5 DEF CallShape, Ensuring
  <1>8. ASSUME h.alone = TRUE, h.op = "reconcile"
        PROVE  Knows(m, orgs', scopes', mapped', attached', inherited', allowed')
    <2>1. Knows(h, orgs, scopes, mapped, attached, inherited, allowed)
      BY <1>1, <1>8
    <2> QED BY <1>1, <1>2, <1>5, <1>8, <2>1 DEF Knows, Ensuring, RealmTyped
  <1>9. m.alone = sCalls[c].alone
    BY <1>5 DEF h
  <1> QED BY <1>3, <1>5, <1>6, <1>7, <1>8, <1>9, OwnRequest

\* The clients, the realm defaults and the policy are read.
LEMMA ReadRestKeeps ==
    ASSUME ScopesInv, NEW c \in ScopeCallers, S!ReadRest(c)
    PROVE  ScopesInv'
  <1> DEFINE h == sCalls[c]
             f == IF h.op = "reconcile" THEN "orphans" ELSE "create"
             a == IF h.op = "ensure" THEN CHOOSE x \in h.todo : TRUE ELSE None
             m1 == [h EXCEPT !.phase = f]
             m2 == [m1 EXCEPT !.attached = attached]
             m3 == [m2 EXCEPT !.inherited = inherited]
             m4 == [m3 EXCEPT !.policy = allowed]
             m == [m4 EXCEPT !.at = a]
  <1>1. /\ RealmTyped /\ h \in S!Call /\ CallShape(h)
        /\ h.alone = TRUE /\ h.op = "reconcile" =>
              Knows(h, orgs, scopes, mapped, attached, inherited, allowed)
    BY DEF ScopesInv, AloneKnows
  <1>2. /\ h.phase = "rest" /\ UNCHANGED <<orgs, scopes, mapped, attached, inherited, allowed>>
        /\ ~S!Resting(c)
    BY <1>1 DEF S!ReadRest, S!realm, S!Resting
  <1>3. sCalls' = [sCalls EXCEPT ![c] = m]
    <2> DEFINE g1 == [sCalls EXCEPT ![c].phase = f]
               g2 == [g1 EXCEPT ![c].attached = attached]
               g3 == [g2 EXCEPT ![c].inherited = inherited]
               g4 == [g3 EXCEPT ![c].policy = allowed]
    <2>1. sCalls' = [g4 EXCEPT ![c].at = a]
      BY DEF S!ReadRest
    <2>2. c \in DOMAIN sCalls /\ sCalls \in [ScopeCallers -> S!Call]
      BY DEF ScopesInv
    <2> HIDE DEF f, a, h
    <2>3. g1 = [sCalls EXCEPT ![c] = m1] /\ g1[c] = m1
      BY <2>2 DEF h
    <2> HIDE DEF g1, m1
    <2>4. g2 = [sCalls EXCEPT ![c] = m2] /\ g2[c] = m2
      BY <2>2, <2>3
    <2> HIDE DEF g2, m2
    <2>5. g3 = [sCalls EXCEPT ![c] = m3] /\ g3[c] = m3
      BY <2>2, <2>4
    <2> HIDE DEF g3, m3
    <2>6. g4 = [sCalls EXCEPT ![c] = m4] /\ g4[c] = m4
      BY <2>2, <2>5
    <2> HIDE DEF g4, m4
    <2> QED BY <2>1, <2>2, <2>6
  <1> HIDE DEF h
  <1>4. a \in Aliases \cup {None} /\ (h.op = "ensure" => a \in Aliases)
    <2>1. h.todo \subseteq Aliases /\ (h.op = "ensure" => h.todo # {})
      BY <1>1, <1>2 DEF CallShape, S!Call
    <2>2. h.op = "ensure" => (CHOOSE x \in h.todo : TRUE) \in h.todo
      BY <2>1
    <2> QED BY <2>1, <2>2
  <1>5. f \in {"orphans", "create"} /\ (f = "create" => h.op = "ensure")
    BY <1>1, <1>2 DEF CallShape, S!Call
  <1>6. h.op = "reconcile" => f = "orphans"
    OBVIOUS
  <1> HIDE DEF a, f
  <1>7. /\ m1 \in S!Call /\ m1.op = h.op /\ m1.phase = f /\ m1.todo = h.todo
        /\ m1.scopes = h.scopes /\ m1.alone = h.alone
    BY <1>1, <1>5 DEF S!Call
  <1> HIDE DEF m1
  <1>8. /\ m2 \in S!Call /\ m2.op = h.op /\ m2.phase = f /\ m2.todo = h.todo
        /\ m2.scopes = h.scopes /\ m2.alone = h.alone /\ m2.attached = attached
    BY <1>1, <1>7 DEF S!Call, RealmTyped
  <1> HIDE DEF m2
  <1>9. /\ m3 \in S!Call /\ m3.op = h.op /\ m3.phase = f /\ m3.todo = h.todo
        /\ m3.scopes = h.scopes /\ m3.alone = h.alone /\ m3.attached = attached
        /\ m3.inherited = inherited
    BY <1>1, <1>8 DEF S!Call, RealmTyped
  <1> HIDE DEF m3
  <1>10. /\ m4 \in S!Call /\ m4.op = h.op /\ m4.phase = f /\ m4.todo = h.todo
         /\ m4.scopes = h.scopes /\ m4.alone = h.alone /\ m4.attached = attached
         /\ m4.inherited = inherited /\ m4.policy = allowed
    BY <1>1, <1>9 DEF S!Call, RealmTyped
  <1> HIDE DEF m4
  <1>11. /\ m \in S!Call /\ m.op = h.op /\ m.phase = f /\ m.todo = h.todo
         /\ m.scopes = h.scopes /\ m.alone = h.alone /\ m.attached = attached
         /\ m.inherited = inherited /\ m.policy = allowed /\ m.at = a
    BY <1>4, <1>10 DEF S!Call
  <1> HIDE DEF m
  <1>12. RealmTyped'
    BY <1>1, <1>2 DEF RealmTyped
  <1>13. CallShape(m)
    BY <1>1, <1>2, <1>4, <1>5, <1>11 DEF CallShape, Ensuring
  <1>14. ASSUME h.alone = TRUE, h.op = "reconcile"
         PROVE  Knows(m, orgs', scopes', mapped', attached', inherited', allowed')
    <2>1. Knows(h, orgs, scopes, mapped, attached, inherited, allowed)
      BY <1>1, <1>14
    <2> QED BY <1>2, <1>6, <1>11, <1>14, <2>1 DEF Knows, Ensuring
  <1>15. m.alone = sCalls[c].alone
    BY <1>11 DEF h
  <1> QED BY <1>2, <1>3, <1>11, <1>12, <1>13, <1>14, <1>15, OwnRequest

\* An orphan goes.
LEMMA DeleteOrphanKeeps ==
    ASSUME ScopesInv, NEW c \in ScopeCallers, S!DeleteOrphan(c)
    PROVE  ScopesInv'
  <1> DEFINE h == sCalls[c]
  <1>1. /\ RealmTyped /\ h \in S!Call /\ CallShape(h)
        /\ h.alone = TRUE /\ h.op = "reconcile" =>
              Knows(h, orgs, scopes, mapped, attached, inherited, allowed)
    BY DEF ScopesInv, AloneKnows
  <1>2. PICK a \in h.scopes \ h.todo :
           /\ S!DeleteScopes({a})
           /\ sCalls' = [sCalls EXCEPT ![c].scopes = h.scopes \ {a}]
    BY DEF S!DeleteOrphan
  <1> DEFINE m == [h EXCEPT !.scopes = h.scopes \ {a}]
  <1>3. /\ h.phase = "orphans" /\ ~S!Resting(c) /\ UNCHANGED <<orgs, allowed>>
        /\ scopes' = scopes \ {a} /\ mapped' = mapped \ {a}
        /\ attached' = attached \ {a} /\ inherited' = inherited \ {a}
    BY <1>2 DEF S!DeleteOrphan, S!DeleteScopes, S!Resting
  <1>4. sCalls' = [sCalls EXCEPT ![c] = m]
    BY <1>2 DEF ScopesInv
  <1> HIDE DEF h
  <1>5. /\ m \in S!Call /\ m.op = h.op /\ m.phase = "orphans" /\ m.todo = h.todo
        /\ m.scopes = h.scopes \ {a} /\ m.attached = h.attached
        /\ m.inherited = h.inherited /\ m.policy = h.policy /\ m.alone = h.alone
    BY <1>1, <1>3 DEF S!Call
  <1> HIDE DEF m
  <1>6. RealmTyped'
    BY <1>1, <1>3 DEF RealmTyped
  <1>7. CallShape(m)
    BY <1>1, <1>3, <1>5 DEF CallShape, Ensuring
  <1>8. ASSUME h.alone = TRUE, h.op = "reconcile"
        PROVE  Knows(m, orgs', scopes', mapped', attached', inherited', allowed')
    <2>1. Knows(h, orgs, scopes, mapped, attached, inherited, allowed)
      BY <1>1, <1>8
    <2>2. a \notin orgs
      BY <1>2, <1>3, <2>1 DEF Knows
    <2> QED BY <1>3, <1>5, <2>1, <2>2 DEF Knows, Ensuring
  <1>9. m.alone = sCalls[c].alone
    BY <1>5 DEF h
  <1> QED BY <1>3, <1>4, <1>5, <1>6, <1>7, <1>8, <1>9, OwnRequest

\* The next alias.
LEMMA FollowingFacts ==
    ASSUME NEW h \in S!Call, NEW todo \in SUBSET Aliases
    PROVE  LET m == S!Following(h, todo)
           IN  /\ m \in S!Call /\ m.op = h.op /\ m.todo = h.todo /\ m.scopes = h.scopes
               /\ m.attached = h.attached /\ m.inherited = h.inherited
               /\ m.policy = h.policy /\ m.alone = h.alone
               /\ m.phase \in {"done", "create"}
               /\ m.phase = "done" => todo = {}
               /\ m.phase = "create" => m.at \in todo
  <1>1. CASE todo = {}
    <2> DEFINE m1 == [h EXCEPT !.phase = "done"]
               m == [m1 EXCEPT !.at = None]
    <2>1. S!Following(h, todo) = m
      BY <1>1 DEF S!Following
    <2>2. /\ m1 \in S!Call /\ m1.op = h.op /\ m1.todo = h.todo /\ m1.scopes = h.scopes
          /\ m1.attached = h.attached /\ m1.inherited = h.inherited
          /\ m1.policy = h.policy /\ m1.alone = h.alone /\ m1.phase = "done"
      BY DEF S!Call
    <2> HIDE DEF m1
    <2>3. /\ m \in S!Call /\ m.op = h.op /\ m.todo = h.todo /\ m.scopes = h.scopes
          /\ m.attached = h.attached /\ m.inherited = h.inherited
          /\ m.policy = h.policy /\ m.alone = h.alone /\ m.phase = "done"
      BY <2>2 DEF S!Call
    <2> HIDE DEF m
    <2> QED BY <1>1, <2>1, <2>3
  <1>2. CASE todo # {}
    <2> DEFINE a == CHOOSE x \in todo : TRUE
               m1 == [h EXCEPT !.phase = "create"]
               m == [m1 EXCEPT !.at = a]
    <2>1. S!Following(h, todo) = m
      BY <1>2 DEF S!Following
    <2>2. a \in todo /\ a \in Aliases
      BY <1>2
    <2> HIDE DEF a
    <2>3. /\ m1 \in S!Call /\ m1.op = h.op /\ m1.todo = h.todo /\ m1.scopes = h.scopes
          /\ m1.attached = h.attached /\ m1.inherited = h.inherited
          /\ m1.policy = h.policy /\ m1.alone = h.alone /\ m1.phase = "create"
      BY DEF S!Call
    <2> HIDE DEF m1
    <2>4. /\ m \in S!Call /\ m.op = h.op /\ m.todo = h.todo /\ m.scopes = h.scopes
          /\ m.attached = h.attached /\ m.inherited = h.inherited
          /\ m.policy = h.policy /\ m.alone = h.alone /\ m.phase = "create" /\ m.at = a
      BY <2>2, <2>3 DEF S!Call
    <2> HIDE DEF m
    <2> QED BY <2>1, <2>2, <2>4
  <1> QED BY <1>1, <1>2

\* A reconciliation that goes on as next, with the list in its snapshot and in the
\* realm, knows what it must.
GoesOn(c, list, next) ==
    \A k \in S!Call :
        /\ sCalls[c].alone = TRUE /\ k.op = "reconcile"
        /\ k.op = next.op /\ k.phase = next.phase /\ k.todo = next.todo /\ k.at = next.at
        /\ k.scopes = next.scopes /\ k.attached = next.attached
        /\ k.inherited = next.inherited /\ k.policy = list
        /\ list = sCalls[c].policy => allowed' = allowed
        /\ list # sCalls[c].policy => allowed' = list
        => Knows(k, orgs', scopes', mapped', attached', inherited', allowed')

\* A reconciliation is refused only for an Organization that has an entry and no
\* scope.
RefusedRightly(c, list) ==
    sCalls[c].alone = TRUE /\ sCalls[c].op = "reconcile" /\ ~S!Valid(list)
      => (allowed \cap orgs) \ scopes # {}

\* setRegistrationPolicyScopes: the list is written or refused, and a call that
\* goes on has it in its snapshot.
LEMMA PolicyKeeps ==
    ASSUME ScopesInv, NEW c \in ScopeCallers, ~S!Resting(c),
           NEW list \in SUBSET (Aliases \cup {Other}), NEW next \in S!Call,
           S!SetPolicy(c, list, next), next.alone = sCalls[c].alone, next.policy = sCalls[c].policy,
           UNCHANGED <<orgs, scopes, mapped, attached, inherited>>,
           CallShape(next), next.phase \in {"done", "create"},
           GoesOn(c, list, next), RefusedRightly(c, list)
    PROVE  ScopesInv'
  <1> DEFINE h == sCalls[c]
             r == [h EXCEPT !.phase = "refused"]
             w == [next EXCEPT !.policy = list]
  <1>1. RealmTyped /\ h \in S!Call /\ CallShape(h)
    BY DEF ScopesInv
  <1>2. \/ sCalls' = [sCalls EXCEPT ![c] = next] /\ allowed' = allowed /\ list = h.policy
        \/ sCalls' = [sCalls EXCEPT ![c] = w] /\ allowed' = list /\ list # h.policy
        \/ sCalls' = [sCalls EXCEPT ![c] = r] /\ allowed' = allowed /\ ~S!Valid(list)
    BY <1>1 DEF S!SetPolicy, S!Noted, ScopesInv
  <1>3. h.phase # "idle"
    BY DEF S!Resting
  <1>4. RealmTyped'
    BY <1>1, <1>2 DEF RealmTyped
  <1>5. CASE sCalls' = [sCalls EXCEPT ![c] = next] /\ allowed' = allowed /\ list = h.policy
    <2>1. next.alone = TRUE /\ next.op = "reconcile" =>
             Knows(next, orgs', scopes', mapped', attached', inherited', allowed')
      BY <1>5 DEF GoesOn
    <2> QED BY <1>4, <1>5, <2>1, OwnRequest
  <1>6. CASE sCalls' = [sCalls EXCEPT ![c] = w] /\ allowed' = list /\ list # h.policy
    <2>1. /\ w \in S!Call /\ w.op = next.op /\ w.phase = next.phase /\ w.todo = next.todo
          /\ w.at = next.at /\ w.scopes = next.scopes /\ w.attached = next.attached
          /\ w.inherited = next.inherited /\ w.policy = list /\ w.alone = next.alone
      BY DEF S!Call
    <2> HIDE DEF w
    <2>2. CallShape(w)
      BY <2>1 DEF CallShape
    <2>3. w.alone = TRUE /\ w.op = "reconcile" =>
             Knows(w, orgs', scopes', mapped', attached', inherited', allowed')
      BY <1>6, <2>1 DEF GoesOn
    <2> QED BY <1>4, <1>6, <2>1, <2>2, <2>3, OwnRequest
  <1>7. CASE sCalls' = [sCalls EXCEPT ![c] = r] /\ allowed' = allowed /\ ~S!Valid(list)
    <2>5. h.alone = TRUE /\ h.op = "reconcile" => (allowed \cap orgs) \ scopes # {}
      BY <1>7 DEF RefusedRightly
    <2> HIDE DEF h
    <2>1. r \in S!Call /\ r.op = h.op /\ r.phase = "refused" /\ r.alone = h.alone
      BY <1>1 DEF S!Call
    <2> HIDE DEF r
    <2>2. CallShape(r)
      BY <1>1, <1>3, <2>1 DEF CallShape, Ensuring
    <2>3. r.alone = TRUE /\ r.op = "reconcile" =>
             Knows(r, orgs', scopes', mapped', attached', inherited', allowed')
      BY <1>7, <2>1, <2>5 DEF Knows, Ensuring
    <2>4. r.alone = sCalls[c].alone
      BY <2>1 DEF h
    <2> QED BY <1>4, <1>7, <2>1, <2>2, <2>3, <2>4, OwnRequest
  <1> QED BY <1>2, <1>5, <1>6, <1>7

\* The entries of Organizations that are gone are swept.
LEMMA SweepKeeps ==
    ASSUME ScopesInv, NEW c \in ScopeCallers, S!Sweep(c)
    PROVE  ScopesInv'
  <1> DEFINE h == sCalls[c]
             list == {e \in h.policy : e \in Aliases => e \in h.todo}
             next == S!Following(h, h.todo)
  <1>1. /\ RealmTyped /\ h \in S!Call /\ CallShape(h)
        /\ h.alone = TRUE /\ h.op = "reconcile" =>
              Knows(h, orgs, scopes, mapped, attached, inherited, allowed)
    BY DEF ScopesInv, AloneKnows
  <1>2. /\ h.phase = "sweep" /\ ~S!Resting(c) /\ S!SetPolicy(c, list, next)
        /\ UNCHANGED <<orgs, scopes, mapped, attached, inherited>>
    BY DEF S!Sweep, S!Resting
  <1> HIDE DEF h
  <1>3. h.todo \in SUBSET Aliases /\ h.policy \in SUBSET (Aliases \cup {Other})
    BY <1>1 DEF S!Call
  <1>4. /\ list \in SUBSET (Aliases \cup {Other}) /\ list \subseteq h.todo \cup {Other}
    BY <1>3
  <1>5. /\ next \in S!Call /\ next.op = h.op /\ next.todo = h.todo /\ next.scopes = h.scopes
        /\ next.attached = h.attached /\ next.inherited = h.inherited
        /\ next.policy = h.policy /\ next.alone = h.alone
        /\ next.phase \in {"done", "create"}
        /\ next.phase = "done" => h.todo = {}
        /\ next.phase = "create" => next.at \in h.todo
    BY <1>1, <1>3, FollowingFacts
  <1> HIDE DEF list, next
  <1>6. CallShape(next)
    BY <1>1, <1>2, <1>3, <1>5 DEF CallShape, Ensuring
  <1>7. ASSUME NEW k \in S!Call, h.alone = TRUE, k.op = "reconcile",
               k.op = next.op, k.phase = next.phase, k.todo = next.todo, k.at = next.at,
               k.scopes = next.scopes, k.attached = next.attached,
               k.inherited = next.inherited, k.policy = list,
               list = h.policy => allowed' = allowed,
               list # h.policy => allowed' = list
        PROVE  Knows(k, orgs', scopes', mapped', attached', inherited', allowed')
    <2>1. Knows(h, orgs, scopes, mapped, attached, inherited, allowed)
      BY <1>1, <1>5, <1>7
    <2>2. h.todo = orgs /\ h.policy = allowed /\ allowed' = list
      BY <1>2, <1>7, <2>1 DEF Knows
    <2> QED BY <1>2, <1>4, <1>5, <1>7, <2>1, <2>2 DEF Knows, Ensuring
  <1>8. next.alone = sCalls[c].alone /\ next.policy = sCalls[c].policy
    BY <1>5 DEF h
  <1>9. ASSUME h.alone = TRUE, h.op = "reconcile", ~S!Valid(list)
        PROVE  (allowed \cap orgs) \ scopes # {}
    <2>1. h.todo = orgs /\ h.policy = allowed
      BY <1>1, <1>2, <1>9 DEF Knows
    <2>2. list \subseteq allowed /\ list \subseteq orgs \cup {Other}
      BY <1>4, <2>1 DEF list
    <2> QED BY <1>9, <2>2 DEF S!Valid
  <1>10. GoesOn(c, list, next)
    BY <1>7 DEF GoesOn, h
  <1>11. RefusedRightly(c, list)
    BY <1>9 DEF RefusedRightly, h
  <1> QED BY <1>2, <1>4, <1>5, <1>6, <1>8, <1>10, <1>11, PolicyKeeps

\* The entry is appended, and the next alias ensured.
LEMMA AllowKeeps ==
    ASSUME ScopesInv, NEW c \in ScopeCallers, S!AllowRegistration(c)
    PROVE  ScopesInv'
  <1> DEFINE h == sCalls[c]
             left == h.todo \ {h.at}
             list == h.policy \cup {h.at}
             n0 == S!Following(h, left)
             next == [n0 EXCEPT !.todo = left]
  <1>1. /\ RealmTyped /\ h \in S!Call /\ CallShape(h)
        /\ h.alone = TRUE /\ h.op = "reconcile" =>
              Knows(h, orgs, scopes, mapped, attached, inherited, allowed)
    BY DEF ScopesInv, AloneKnows
  <1>2. /\ h.phase = "allow" /\ ~S!Resting(c) /\ S!SetPolicy(c, list, next)
        /\ UNCHANGED <<orgs, scopes, mapped, attached, inherited>>
    BY DEF S!AllowRegistration, S!Appended, S!Resting
  <1> HIDE DEF h
  <1>3. /\ left \in SUBSET Aliases /\ list \in SUBSET (Aliases \cup {Other})
        /\ h.at \in Aliases
    BY <1>1, <1>2 DEF S!Call, CallShape, Ensuring
  <1> HIDE DEF left
  <1>4. /\ n0 \in S!Call /\ n0.op = h.op /\ n0.scopes = h.scopes
        /\ n0.attached = h.attached /\ n0.inherited = h.inherited
        /\ n0.policy = h.policy /\ n0.alone = h.alone
        /\ n0.phase \in {"done", "create"}
        /\ n0.phase = "done" => left = {}
        /\ n0.phase = "create" => n0.at \in left
    BY <1>1, <1>3, FollowingFacts
  <1> HIDE DEF n0
  <1>5. /\ next \in S!Call /\ next.op = h.op /\ next.scopes = h.scopes
        /\ next.attached = h.attached /\ next.inherited = h.inherited
        /\ next.policy = h.policy /\ next.alone = h.alone /\ next.todo = left
        /\ next.phase = n0.phase /\ next.at = n0.at
    BY <1>3, <1>4 DEF S!Call
  <1> HIDE DEF list, next
  <1>6. CallShape(next)
    BY <1>1, <1>2, <1>3, <1>4, <1>5 DEF CallShape, Ensuring
  <1>7. ASSUME NEW k \in S!Call, h.alone = TRUE, k.op = "reconcile",
               k.op = next.op, k.phase = next.phase, k.todo = next.todo, k.at = next.at,
               k.scopes = next.scopes, k.attached = next.attached,
               k.inherited = next.inherited, k.policy = list,
               list = h.policy => allowed' = allowed,
               list # h.policy => allowed' = list
        PROVE  Knows(k, orgs', scopes', mapped', attached', inherited', allowed')
    <2>1. Knows(h, orgs, scopes, mapped, attached, inherited, allowed)
      BY <1>1, <1>5, <1>7
    <2>2. h.policy = allowed /\ allowed' = list
      BY <1>2, <1>7, <2>1 DEF Knows, Ensuring
    <2>3. /\ h.todo \subseteq orgs /\ h.at \in h.todo /\ scopes \subseteq orgs
          /\ h.at \in mapped /\ h.at \in attached /\ h.at \notin inherited
          /\ allowed \subseteq orgs \cup {Other} /\ h.scopes = scopes
      BY <1>2, <2>1 DEF Knows, Ensuring
    <2>4. \A a \in orgs \ h.todo :
             a \in mapped /\ a \in attached /\ a \notin inherited /\ a \in allowed
      BY <1>2, <2>1 DEF Knows, Ensuring
    <2>5. \A a \in orgs \ left :
             a \in mapped /\ a \in attached /\ a \notin inherited /\ a \in list
      BY <2>2, <2>3, <2>4 DEF left, list
    <2>6. left \subseteq orgs /\ list \subseteq orgs \cup {Other}
      BY <2>2, <2>3 DEF left, list
    <2>7. \A a \in orgs : (a \in h.attached <=> a \in attached)
                          /\ (a \in h.inherited <=> a \in inherited)
      BY <1>2, <2>1 DEF Knows, Ensuring
    <2> QED BY <1>2, <1>4, <1>5, <1>7, <2>2, <2>3, <2>5, <2>6, <2>7 DEF Knows, Ensuring
  <1>8. next.alone = sCalls[c].alone /\ next.policy = sCalls[c].policy
    BY <1>5 DEF h
  <1>9. next.phase \in {"done", "create"}
    BY <1>4, <1>5
  <1>10. ASSUME h.alone = TRUE, h.op = "reconcile", ~S!Valid(list)
         PROVE  (allowed \cap orgs) \ scopes # {}
    <2>1. h.policy = allowed /\ h.at \in scopes /\ allowed \subseteq orgs \cup {Other}
      BY <1>1, <1>2, <1>10 DEF Knows, Ensuring
    <2> QED BY <1>10, <2>1 DEF S!Valid, list
  <1>11. GoesOn(c, list, next)
    BY <1>7 DEF GoesOn, h
  <1>12. RefusedRightly(c, list)
    BY <1>10 DEF RefusedRightly, h
  <1> QED BY <1>2, <1>3, <1>5, <1>6, <1>8, <1>9, <1>11, <1>12, PolicyKeeps

\* The invariant of the scopes.
LEMMA ScopesInvariant == MCSpec => []ScopesInv
  <1>1. ASSUME S!Init PROVE ScopesInv
    <2>1. RealmTyped
      BY <1>1 DEF S!Init, RealmTyped
    <2>2. sCalls \in [ScopeCallers -> S!Call] /\ (\A c \in ScopeCallers : sCalls[c] = S!Idle)
      BY <1>1, NoRequest DEF S!Init
    <2>3. \A c \in ScopeCallers : CallShape(sCalls[c]) /\ AloneKnows(c)
      BY <2>2, NoRequest DEF CallShape, Ensuring, AloneKnows
    <2> QED BY <2>1, <2>2, <2>3 DEF ScopesInv
  <1>2. ASSUME ScopesInv, NEW c \in ScopeCallers, S!Step(c) PROVE ScopesInv'
    BY <1>2, BeginsKeep, RequestFails, ListKeeps, ReadScopesKeeps, ReadRestKeeps,
       DeleteOrphanKeeps, OrphansDoneKeeps, SweepKeeps, CreateScopeKeeps, MapKeeps, AttachKeeps,
       DetachKeeps, AllowKeeps DEF S!Step
  <1>3. ASSUME ScopesInv, S!Next PROVE ScopesInv'
    BY <1>2, <1>3, RealmDrifts DEF S!Next
  <1>4. ASSUME ScopesInv, UNCHANGED sVars PROVE ScopesInv'
    BY <1>4 DEF ScopesInv, RealmTyped, AloneKnows, S!Resting, sVars
  <1>5. ScopesInv /\ [MCNext]_<<part, vars, sVars, uVars>> => ScopesInv'
    BY <1>3, <1>4 DEF MCNext
  <1>6. MCInit => ScopesInv
    BY <1>1 DEF MCInit
  <1> QED BY <1>5, <1>6, PTL DEF MCSpec

\* Whatever other requests, failures and drift came before it, a reconciliation
\* that nothing overlaps leaves the scope of every Organization usable and nothing
\* of any other alias where it returns, and is refused for nothing but an
\* Organization whose scope is gone and whose entry is not.
THEOREM ReconciliationConverges == MCSpec => []AloneConverges
  <1>1. ScopesInv => AloneConverges
    <2> SUFFICES ASSUME ScopesInv, NEW c \in ScopeCallers,
                        sCalls[c].alone, sCalls[c].op = "reconcile"
                 PROVE  /\ sCalls[c].phase = "done" => S!Converged
                        /\ sCalls[c].phase = "refused" => (allowed \cap orgs) \ scopes # {}
      BY DEF AloneConverges, S!AloneConverges
    <2>1. sCalls[c].alone \in BOOLEAN
      BY DEF ScopesInv, S!Call
    <2>2. sCalls[c].alone = TRUE
      BY <2>1
    <2>3. Knows(sCalls[c], orgs, scopes, mapped, attached, inherited, allowed)
      BY <2>2 DEF ScopesInv, AloneKnows
    <2> QED BY <2>3 DEF Knows, Ensuring, S!Usable, S!Converged
  <1> QED BY <1>1, ScopesInvariant, PTL

-----------------------------------------------------------------------------
(* The tree of the sub-organisations and its closure                       *)

\* The roots, the missing rows and the units are told apart.
LEMMA UnitsApart == Top \notin Units /\ None \notin Units /\ Top # None
  BY TenantsAssumed DEF U!OrgUnitAssumption

\* The instance counts as its module does.
LEMMA UnitsCount ==
    \A X : U!Cardinality(X) = Cardinality(X) /\ (U!IsFiniteSet(X) <=> IsFiniteSet(X))
  BY DEF U!Cardinality, Cardinality, U!IsFiniteSet, IsFiniteSet

\* The cap is positive, and the table is finite.
LEMMA UnitBounds == MaxDepth \in Nat \ {0} /\ IsFiniteSet(Units)
  BY TenantsAssumed, UnitsCount DEF U!OrgUnitAssumption

\* A set of naturals has a least member.
LEMMA LeastNat ==
    ASSUME NEW T \in SUBSET Nat, T # {}
    PROVE  \E n \in T : \A m \in T : n <= m
  <1>1. PICK n \in T : \A m \in T : <<m, n>> \notin OpToRel(<, Nat)
    BY WFMin, NatLessThanWellFounded, Zenon
  <1>2. \A m \in T : ~(m < n)
    BY <1>1, Zenon DEF OpToRel
  <1> QED BY <1>2

\* Induction over the naturals, for the sets that are closed under it.
LEMMA Induction ==
    ASSUME NEW T \in SUBSET Nat, 0 \in T, \A n \in T : n + 1 \in T
    PROVE  T = Nat
  <1> SUFFICES ASSUME Nat \ T # {} PROVE FALSE
    OBVIOUS
  <1>1. PICK n \in Nat \ T : \A m \in Nat \ T : n <= m
    BY LeastNat
  <1>2. n # 0 /\ n - 1 \in Nat
    BY <1>1
  <1>3. n - 1 \in T
    BY <1>1, <1>2
  <1> QED BY <1>1, <1>2, <1>3

\* C joins the descendant u to the ancestor a at the distance k
At(C, a, u, k) == <<a, u, k>> \in C

\* A tree of units by parent_id and a relation that is its transitive closure
\* with distances, said of a unit and what is one step above it
Tree(P, C) ==
    /\ P \in [Units -> Units \cup {Top, None}]
    /\ C \subseteq Units \X Units \X Nat
    /\ \A u \in Units : P[u] \in Units => P[P[u]] # None
    /\ \A a, u \in Units : At(C, a, u, 0) <=> a = u /\ P[u] # None
    /\ \A a, u \in Units : \A k \in Nat :
          At(C, a, u, k + 1) <=> \E b \in Units : At(C, b, u, k) /\ P[b] = a
    /\ \A u \in Units : \A k \in Nat : At(C, u, u, k) => k = 0

\* One step further up
LEMMA OneUp ==
    ASSUME NEW P, NEW C, Tree(P, C), NEW a \in Units, NEW u \in Units, NEW k \in Nat
    PROVE  At(C, a, u, k + 1) <=> \E b \in Units : At(C, b, u, k) /\ P[b] = a
  BY DEF Tree

\* Units that are joined are there.
LEMMA JoinedUnitsExist ==
    ASSUME NEW P, NEW C, Tree(P, C), NEW a \in Units, NEW u \in Units, NEW k \in Nat,
           At(C, a, u, k)
    PROVE  P[a] # None /\ P[u] # None
  <1> DEFINE T == {n \in Nat : \A x, v \in Units : At(C, x, v, n) => P[x] # None /\ P[v] # None}
  <1>1. 0 \in T
    BY DEF Tree
  <1>2. ASSUME NEW n \in T PROVE n + 1 \in T
    <2> SUFFICES ASSUME NEW x \in Units, NEW v \in Units, At(C, x, v, n + 1)
                 PROVE  P[x] # None /\ P[v] # None
      BY <1>2
    <2>1. PICK b \in Units : At(C, b, v, n) /\ P[b] = x
      BY <1>2 DEF Tree
    <2> QED BY <1>2, <2>1 DEF Tree
  <1>3. T = Nat
    <2>1. T \in SUBSET Nat
      OBVIOUS
    <2> HIDE DEF T
    <2> QED BY <1>1, <1>2, <2>1, Induction
  <1> QED BY <1>3

\* The closure seen from below: an ancestor of the parent, one step further
LEMMA FromBelow ==
    ASSUME NEW P, NEW C, Tree(P, C), NEW a \in Units, NEW u \in Units, NEW k \in Nat
    PROVE  At(C, a, u, k + 1) <=> P[u] \in Units /\ At(C, a, P[u], k)
  <1> DEFINE T == {n \in Nat : \A x \in Units :
                     At(C, x, u, n + 1) <=> P[u] \in Units /\ At(C, x, P[u], n)}
  <1>1. 0 \in T
    <2> SUFFICES ASSUME NEW x \in Units
                 PROVE  At(C, x, u, 0 + 1) <=> P[u] \in Units /\ At(C, x, P[u], 0)
      OBVIOUS
    <2>1. At(C, x, u, 0 + 1) <=> \E b \in Units : At(C, b, u, 0) /\ P[b] = x
      BY DEF Tree
    <2>2. At(C, x, u, 0 + 1) <=> P[u] # None /\ P[u] = x
      BY <2>1 DEF Tree
    <2>3. P[u] \in Units => (At(C, x, P[u], 0) <=> x = P[u])
      BY DEF Tree
    <2> QED BY <2>2, <2>3, UnitsApart
  <1>2. ASSUME NEW n \in T PROVE n + 1 \in T
    <2> SUFFICES ASSUME NEW x \in Units
                 PROVE  At(C, x, u, (n + 1) + 1)
                          <=> P[u] \in Units /\ At(C, x, P[u], n + 1)
      BY <1>2
    <2>1. At(C, x, u, (n + 1) + 1)
            <=> \E b \in Units : At(C, b, u, n + 1) /\ P[b] = x
      <3>1. n + 1 \in Nat
        BY <1>2
      <3>2. \A m \in Nat : At(C, x, u, m + 1)
                            <=> \E b \in Units : At(C, b, u, m) /\ P[b] = x
        BY OneUp
      <3> HIDE DEF T
      <3> QED BY ONLY <3>1, <3>2
    <2>2. \A b \in Units : At(C, b, u, n + 1) <=> P[u] \in Units /\ At(C, b, P[u], n)
      BY <1>2
    <2>3. P[u] \in Units =>
             (At(C, x, P[u], n + 1) <=> \E b \in Units : At(C, b, P[u], n) /\ P[b] = x)
      BY <1>2 DEF Tree
    <2> QED BY <2>1, <2>2, <2>3
  <1>3. T = Nat
    <2>1. T \in SUBSET Nat
      OBVIOUS
    <2> HIDE DEF T
    <2> QED BY <1>1, <1>2, <2>1, Induction
  <1> QED BY <1>3

\* Paths compose.
LEMMA Transitive ==
    ASSUME NEW P, NEW C, Tree(P, C), NEW a \in Units, NEW b \in Units, NEW c \in Units,
           NEW j \in Nat, NEW k \in Nat, At(C, a, b, j), At(C, b, c, k)
    PROVE  At(C, a, c, j + k)
  <1> DEFINE T == {n \in Nat : \A v \in Units : At(C, b, v, n) => At(C, a, v, j + n)}
  <1>1. 0 \in T
    <2> SUFFICES ASSUME NEW v \in Units, At(C, b, v, 0) PROVE At(C, a, v, j + 0)
      OBVIOUS
    <2>1. b = v /\ j + 0 = j
      BY DEF Tree
    <2> QED BY <2>1
  <1>2. ASSUME NEW n \in T PROVE n + 1 \in T
    <2> SUFFICES ASSUME NEW v \in Units, At(C, b, v, n + 1)
                 PROVE  At(C, a, v, j + (n + 1))
      BY <1>2
    <2>1. P[v] \in Units /\ At(C, b, P[v], n)
      BY <1>2, FromBelow
    <2>2. At(C, a, P[v], j + n)
      BY <1>2, <2>1
    <2>3. j + n \in Nat /\ j + (n + 1) = (j + n) + 1
      BY <1>2
    <2>4. At(C, a, v, (j + n) + 1)
      BY <2>1, <2>2, <2>3, FromBelow
    <2> QED BY <2>3, <2>4
  <1>3. T = Nat
    <2>1. T \in SUBSET Nat
      OBVIOUS
    <2> HIDE DEF T
    <2> QED BY <1>1, <1>2, <2>1, Induction
  <1> QED BY <1>3

\* A unit has one ancestor at each distance.
LEMMA OneAncestor ==
    ASSUME NEW P, NEW C, Tree(P, C), NEW a \in Units, NEW b \in Units, NEW u \in Units,
           NEW k \in Nat, At(C, a, u, k), At(C, b, u, k)
    PROVE  a = b
  <1> DEFINE T == {n \in Nat : \A x, y \in Units :
                     At(C, x, u, n) /\ At(C, y, u, n) => x = y}
  <1>1. 0 \in T
    BY DEF Tree
  <1>2. ASSUME NEW n \in T PROVE n + 1 \in T
    <2> SUFFICES ASSUME NEW x \in Units, NEW y \in Units,
                        At(C, x, u, n + 1), At(C, y, u, n + 1)
                 PROVE  x = y
      BY <1>2
    <2>0. n \in Nat
      BY <1>2
    <2>1. PICK c \in Units : At(C, c, u, n) /\ P[c] = x
      BY <2>0, OneUp
    <2>2. PICK d \in Units : At(C, d, u, n) /\ P[d] = y
      BY <2>0, OneUp
    <2> QED BY <1>2, <2>1, <2>2
  <1>3. T = Nat
    <2>1. T \in SUBSET Nat
      OBVIOUS
    <2> HIDE DEF T
    <2> QED BY <1>1, <1>2, <2>1, Induction
  <1> QED BY <1>3

\* A longer path passes through the ancestor of the shorter one.
LEMMA Between ==
    ASSUME NEW P, NEW C, Tree(P, C), NEW a \in Units, NEW b \in Units, NEW u \in Units,
           NEW j \in Nat, NEW m \in Nat, At(C, b, u, j), At(C, a, u, j + m)
    PROVE  At(C, a, b, m)
  <1> DEFINE T == {n \in Nat : \A x \in Units : At(C, x, u, j + n) => At(C, x, b, n)}
  <1>1. 0 \in T
    <2> SUFFICES ASSUME NEW x \in Units, At(C, x, u, j + 0) PROVE At(C, x, b, 0)
      OBVIOUS
    <2>0. j + 0 = j
      OBVIOUS
    <2>1. x = b
      BY <2>0, OneAncestor
    <2>2. P[b] # None
      BY JoinedUnitsExist
    <2> QED BY <2>1, <2>2 DEF Tree
  <1>2. ASSUME NEW n \in T PROVE n + 1 \in T
    <2> SUFFICES ASSUME NEW x \in Units, At(C, x, u, j + (n + 1))
                 PROVE  At(C, x, b, n + 1)
      BY <1>2
    <2>0. j + n \in Nat /\ j + (n + 1) = (j + n) + 1
      BY <1>2
    <2>1. PICK c \in Units : At(C, c, u, j + n) /\ P[c] = x
      BY <2>0, OneUp
    <2>2. At(C, c, b, n)
      BY <1>2, <2>1
    <2> QED BY <1>2, <2>1, <2>2 DEF Tree
  <1>3. T = Nat
    <2>1. T \in SUBSET Nat
      OBVIOUS
    <2> HIDE DEF T
    <2> QED BY <1>1, <1>2, <2>1, Induction
  <1> QED BY <1>3

\* Below an ancestor at some distance there is one at each smaller distance.
LEMMA NoGap ==
    ASSUME NEW P, NEW C, Tree(P, C), NEW a \in Units, NEW u \in Units, NEW k \in Nat,
           At(C, a, u, k)
    PROVE  \A j \in 0..k : \E b \in Units : At(C, b, u, j)
  <1> DEFINE T == {n \in Nat : \A x \in Units : At(C, x, u, n) =>
                     \A j \in 0..n : \E b \in Units : At(C, b, u, j)}
  <1>1. 0 \in T
    <2> SUFFICES ASSUME NEW x \in Units, At(C, x, u, 0), NEW j \in 0..0
                 PROVE  \E b \in Units : At(C, b, u, j)
      OBVIOUS
    <2>1. j = 0
      OBVIOUS
    <2> QED BY <2>1
  <1>2. ASSUME NEW n \in T PROVE n + 1 \in T
    <2> SUFFICES ASSUME NEW x \in Units, At(C, x, u, n + 1), NEW j \in 0..(n + 1)
                 PROVE  \E b \in Units : At(C, b, u, j)
      BY <1>2
    <2>0. n \in Nat
      BY <1>2
    <2>1. PICK c \in Units : At(C, c, u, n) /\ P[c] = x
      BY <2>0, OneUp
    <2>2. j = n + 1 \/ j \in 0..n
      BY <1>2
    <2> QED BY <1>2, <2>1, <2>2
  <1>3. T = Nat
    <2>1. T \in SUBSET Nat
      OBVIOUS
    <2> HIDE DEF T
    <2> QED BY <1>1, <1>2, <2>1, Induction
  <1> QED BY <1>3

\* A path is shorter than there are units.
LEMMA ShortPath ==
    ASSUME NEW P, NEW C, Tree(P, C), IsFiniteSet(Units),
           NEW a \in Units, NEW u \in Units, NEW k \in Nat, At(C, a, u, k)
    PROVE  k \in 0..Cardinality(Units)
  <1> DEFINE f == [j \in 0..k |-> CHOOSE b \in Units : At(C, b, u, j)]
  <1>1. \A j \in 0..k : f[j] \in Units /\ At(C, f[j], u, j)
    <2>1. \A j \in 0..k : \E b \in Units : At(C, b, u, j)
      BY NoGap
    <2> QED BY <2>1
  <1>2. f \in [0..k -> Units]
    BY <1>1
  <1> HIDE DEF f
  <1>3. ASSUME NEW i \in 0..k, NEW j \in 0..k, f[i] = f[j] PROVE ~(i < j)
    <2> SUFFICES ASSUME i < j PROVE FALSE
      OBVIOUS
    <2>1. i \in Nat /\ j - i \in Nat /\ i + (j - i) = j /\ j - i # 0
      OBVIOUS
    <2>2. At(C, f[j], f[i], j - i)
      BY <1>1, <2>1, Between
    <2> QED BY <1>1, <1>3, <2>1, <2>2 DEF Tree
  <1>4. f \in Injection(0..k, Units)
    <2>1. \A i, j \in 0..k : f[i] = f[j] => i = j
      BY <1>3
    <2> QED BY <1>2, <2>1 DEF Injection, IsInjective
  <1>5. Cardinality(0..k) <= Cardinality(Units) /\ Cardinality(Units) \in Nat
    BY <1>4, FS_Injection, FS_CardinalityType
  <1>6. Cardinality(0..k) = k + 1
    BY FS_Interval
  <1> QED BY <1>5, <1>6

\* The ancestors of a unit are more than its distance to any of them.
LEMMA ManyAncestors ==
    ASSUME NEW P, NEW C, Tree(P, C), IsFiniteSet(C),
           NEW a \in Units, NEW u \in Units, NEW k \in Nat, At(C, a, u, k),
           NEW A, \A b \in Units : \A j \in Nat : At(C, b, u, j) => At(A, b, u, j),
           A \subseteq C
    PROVE  Cardinality(A) \in Nat /\ k + 1 <= Cardinality(A)
  <1> DEFINE f == [j \in 0..k |-> <<CHOOSE b \in Units : At(C, b, u, j), u, j>>]
  <1>1. \A j \in 0..k : \E b \in Units : At(C, b, u, j)
    BY NoGap
  <1>2. \A j \in 0..k : f[j] \in A
    <2> SUFFICES ASSUME NEW j \in 0..k PROVE f[j] \in A
      OBVIOUS
    <2>1. PICK b \in Units : b = (CHOOSE x \in Units : At(C, x, u, j)) /\ At(C, b, u, j)
      BY <1>1
    <2>2. f[j] = <<b, u, j>> /\ j \in Nat
      BY <2>1
    <2>3. At(A, b, u, j)
      BY <2>1, <2>2
    <2> QED BY <2>2, <2>3 DEF At
  <1>3. \A i, j \in 0..k : f[i] = f[j] => i = j
    OBVIOUS
  <1>4. f \in Injection(0..k, A)
    BY <1>2, <1>3 DEF Injection, IsInjective
  <1>5. IsFiniteSet(A) /\ Cardinality(A) \in Nat
    BY FS_Subset, FS_CardinalityType
  <1>6. Cardinality(0..k) <= Cardinality(A)
    BY <1>4, <1>5, FS_Injection
  <1>7. Cardinality(0..k) = k + 1
    BY FS_Interval
  <1> QED BY <1>5, <1>6, <1>7

\* A unit is inserted: it gets the ancestors of its parent, one step further.
LEMMA UnitInserted ==
    ASSUME NEW P, NEW C, Tree(P, C), NEW u \in Units, P[u] = None,
           NEW p \in Units \cup {Top}, p \in Units => P[p] # None,
           NEW D, D \subseteq Units \X Units \X Nat,
           \A a, v \in Units : \A k \in Nat : v # u => (At(D, a, v, k) <=> At(C, a, v, k)),
           \A a \in Units : At(D, a, u, 0) <=> a = u,
           \A a \in Units : \A k \in Nat :
              At(D, a, u, k + 1) <=> p \in Units /\ At(C, a, p, k)
    PROVE  Tree([P EXCEPT ![u] = p], D)
  <1> DEFINE Q == [P EXCEPT ![u] = p]
  <1>0. \A a, v \in Units : At(C, a, v, 0) <=> a = v /\ P[v] # None
    BY ONLY Tree(P, C) DEF Tree
  <1>a. \A a, v \in Units : \A k \in Nat :
           At(C, a, v, k + 1) <=> \E b \in Units : At(C, b, v, k) /\ P[b] = a
    BY ONLY Tree(P, C) DEF Tree
  <1>1. P \in [Units -> Units \cup {Top, None}]
    BY DEF Tree
  <1>2. Q \in [Units -> Units \cup {Top, None}] /\ \A v \in Units : Q[v] = IF v = u THEN p ELSE P[v]
    BY <1>1
  <1> HIDE DEF Q
  <1>3. \A v \in Units : P[v] # u
    BY UnitsApart DEF Tree
  <1>4. \A a, v \in Units : \A k \in Nat : At(C, a, v, k) => a # u /\ v # u
    BY JoinedUnitsExist
  <1>5. \A v \in Units : Q[v] \in Units => Q[Q[v]] # None
    <2>1. p # u
      OBVIOUS
    <2> QED BY <1>2, <1>3, <2>1, UnitsApart DEF Tree
  <1>6. \A a, v \in Units : At(D, a, v, 0) <=> a = v /\ Q[v] # None
    <2>1. \A a, v \in Units : v # u => (At(D, a, v, 0) <=> At(C, a, v, 0))
      OBVIOUS
    <2>2. p # None
      BY UnitsApart
    <2>3. ASSUME NEW a \in Units, NEW v \in Units
          PROVE  At(D, a, v, 0) <=> a = v /\ Q[v] # None
      <3>1. CASE v = u
        <4>1. At(D, a, u, 0) <=> a = u
          OBVIOUS
        <4> QED BY ONLY <1>2, <2>2, <3>1, <4>1, v \in Units
      <3>2. CASE v # u
        BY ONLY <1>0, <1>2, <2>1, <3>2, a \in Units, v \in Units
      <3> QED BY <3>1, <3>2
    <2> QED BY <2>3
  <1>7. ASSUME NEW a \in Units, NEW v \in Units, NEW k \in Nat
        PROVE  At(D, a, v, k + 1) <=> \E b \in Units : At(D, b, v, k) /\ Q[b] = a
    <2>1. k + 1 \in Nat
      OBVIOUS
    <2>2. CASE v # u
      <3>1. At(D, a, v, k + 1) <=> At(C, a, v, k + 1)
        BY <2>1, <2>2
      <3>2. \A b \in Units : At(D, b, v, k) <=> At(C, b, v, k)
        BY <2>2
      <3>3. \A b \in Units : At(C, b, v, k) => Q[b] = P[b]
        BY <1>2, <1>4
      <3>4. At(C, a, v, k + 1) <=> \E b \in Units : At(C, b, v, k) /\ P[b] = a
        BY ONLY <1>a, <2>1, a \in Units, v \in Units, k \in Nat
      <3> QED BY <3>1, <3>2, <3>3, <3>4
    <2>3. CASE v = u /\ k = 0
      <3>1. At(D, a, u, k + 1) <=> p \in Units /\ At(C, a, p, 0)
        BY <2>3
      <3>2. At(D, a, u, k + 1) <=> a = p
        BY <3>1 DEF Tree
      <3>3. \A b \in Units : At(D, b, v, k) <=> b = u
        BY <2>3
      <3>4. Q[u] = p
        BY <1>2
      <3> QED BY <2>3, <3>2, <3>3, <3>4
    <2>4. CASE v = u /\ k # 0
      <3>1. k - 1 \in Nat /\ (k - 1) + 1 = k
        BY <2>4
      <3>2. \A b \in Units : At(D, b, u, k) <=> p \in Units /\ At(C, b, p, k - 1)
        BY <3>1
      <3>3. At(D, a, u, k + 1) <=> p \in Units /\ At(C, a, p, k)
        OBVIOUS
      <3>4. p \in Units =>
               (At(C, a, p, k) <=> \E b \in Units : At(C, b, p, k - 1) /\ P[b] = a)
        <4>1. \A y \in Units :
                At(C, a, y, k) <=> \E b \in Units : At(C, b, y, k - 1) /\ P[b] = a
          BY ONLY <1>a, <3>1, a \in Units, k \in Nat
        <4> QED BY <4>1
      <3>5. \A b \in Units : p \in Units /\ At(C, b, p, k - 1) => Q[b] = P[b]
        BY <1>2, <1>4, <3>1
      <3> QED BY <2>4, <3>2, <3>3, <3>4, <3>5
    <2> QED BY <2>2, <2>3, <2>4
  <1>8. ASSUME NEW v \in Units, NEW k \in Nat, At(D, v, v, k) PROVE k = 0
    <2>1. CASE v # u
      BY <1>8, <2>1 DEF Tree
    <2>2. CASE v = u /\ k # 0
      <3>1. k - 1 \in Nat /\ (k - 1) + 1 = k
        BY <2>2
      <3>2. p \in Units /\ At(C, u, p, k - 1)
        BY <1>8, <2>2, <3>1
      <3> QED BY <1>4, <3>1, <3>2
    <2> QED BY <2>1, <2>2
  <1> QED BY <1>2, <1>5, <1>6, <1>7, <1>8 DEF Tree, Q

\* A unit without children is deleted, and every pair that names it.
LEMMA UnitDeleted ==
    ASSUME NEW P, NEW C, Tree(P, C), NEW u \in Units, \A v \in Units : P[v] # u,
           NEW D, D \subseteq Units \X Units \X Nat,
           \A a, v \in Units : \A k \in Nat :
              At(D, a, v, k) <=> At(C, a, v, k) /\ a # u /\ v # u
    PROVE  Tree([P EXCEPT ![u] = None], D)
  <1> DEFINE Q == [P EXCEPT ![u] = None]
  <1>0. \A a, v \in Units : At(C, a, v, 0) <=> a = v /\ P[v] # None
    BY ONLY Tree(P, C) DEF Tree
  <1>a. \A a, v \in Units : \A k \in Nat :
           At(C, a, v, k + 1) <=> \E b \in Units : At(C, b, v, k) /\ P[b] = a
    BY ONLY Tree(P, C) DEF Tree
  <1>1. P \in [Units -> Units \cup {Top, None}]
    BY DEF Tree
  <1>2. /\ Q \in [Units -> Units \cup {Top, None}]
        /\ \A v \in Units : Q[v] = IF v = u THEN None ELSE P[v]
    BY <1>1
  <1> HIDE DEF Q
  <1>3. \A v \in Units : Q[v] \in Units => Q[Q[v]] # None
    BY <1>2, UnitsApart DEF Tree
  <1>4. \A a, v \in Units : At(D, a, v, 0) <=> a = v /\ Q[v] # None
    <2>1. \A a, v \in Units : At(D, a, v, 0) <=> At(C, a, v, 0) /\ a # u /\ v # u
      OBVIOUS
    <2> QED BY <1>0, <1>2, <2>1
  <1>5. ASSUME NEW a \in Units, NEW v \in Units, NEW k \in Nat
        PROVE  At(D, a, v, k + 1) <=> \E b \in Units : At(D, b, v, k) /\ Q[b] = a
    <2>1. At(C, a, v, k + 1) <=> \E b \in Units : At(C, b, v, k) /\ P[b] = a
      BY ONLY <1>a, k + 1 \in Nat, a \in Units, v \in Units, k \in Nat
    <2>2. At(D, a, v, k + 1) <=> At(C, a, v, k + 1) /\ a # u /\ v # u
      OBVIOUS
    <2>3. v # u => ~At(C, u, v, k)
      <3> SUFFICES ASSUME v # u, At(C, u, v, k) PROVE FALSE
        OBVIOUS
      <3>1. k # 0
        BY DEF Tree
      <3>2. k - 1 \in Nat /\ (k - 1) + 1 = k
        BY <3>1
      <3>3. \E b \in Units : At(C, b, v, k - 1) /\ P[b] = u
        BY ONLY <1>a, <3>2, At(C, u, v, k), u \in Units, v \in Units, k \in Nat
      <3> QED BY <3>3
    <2> QED BY <1>2, <2>1, <2>2, <2>3, UnitsApart
  <1>6. \A v \in Units : \A k \in Nat : At(D, v, v, k) => k = 0
    BY DEF Tree
  <1> QED BY <1>2, <1>3, <1>4, <1>5, <1>6 DEF Tree, Q

\* J joins the ancestors of p with what is below u, as C has them.
JoinOf(J, C, p, u) ==
    /\ J \subseteq Units \X Units \X Nat
    /\ \A a, v \in Units : \A k \in Nat :
          At(J, a, v, k) <=>
             /\ p \in Units
             /\ \E i, d \in Nat : k = i + d + 1 /\ At(C, a, p, i) /\ At(C, u, v, d)

\* B is what is below u, and u itself.
Subtree(B, C, u) == \A v \in Units : v \in B <=> \E d \in Nat : At(C, u, v, d)

\* D is C without the pairs that led into B from outside, and with J.
Regrafted(D, C, B, J) ==
    \A a, v \in Units : \A k \in Nat :
       At(D, a, v, k) <=> (At(C, a, v, k) /\ (v \in B => a \in B)) \/ At(J, a, v, k)

\* A subtree is moved: the pairs that led into it from outside go, and the
\* ancestors of the new parent are joined with what is inside.
LEMMA UnitMoved ==
    ASSUME NEW P, NEW C, Tree(P, C), NEW u \in Units, P[u] # None,
           NEW p \in Units \cup {Top}, p \in Units => P[p] # None,
           NEW B, Subtree(B, C, u),
           p \notin B,
           NEW J, JoinOf(J, C, p, u),
           NEW D, D \subseteq Units \X Units \X Nat,
           Regrafted(D, C, B, J)
    PROVE  Tree([P EXCEPT ![u] = p], D)
  <1> DEFINE Q == [P EXCEPT ![u] = p]
             Joined(a, v, k) == /\ p \in Units
                                /\ \E i, d \in Nat : /\ k = i + d + 1
                                                     /\ At(C, a, p, i) /\ At(C, u, v, d)
  <1>0. \A a, v \in Units : At(C, a, v, 0) <=> a = v /\ P[v] # None
    BY ONLY Tree(P, C) DEF Tree
  <1>a. \A a, v \in Units : \A k \in Nat :
           At(C, a, v, k + 1) <=> \E b \in Units : At(C, b, v, k) /\ P[b] = a
    BY ONLY Tree(P, C) DEF Tree
  <1>1. P \in [Units -> Units \cup {Top, None}]
    BY DEF Tree
  <1>2. Q \in [Units -> Units \cup {Top, None}] /\ \A v \in Units : Q[v] = IF v = u THEN p ELSE P[v]
    BY <1>1
  <1>3. \A a, v \in Units : \A k \in Nat :
           At(D, a, v, k) <=> (At(C, a, v, k) /\ (v \in B => a \in B)) \/ Joined(a, v, k)
    <2>1. \A a, v \in Units : \A k \in Nat : At(J, a, v, k) <=> Joined(a, v, k)
      BY DEF JoinOf
    <2> HIDE DEF Joined
    <2> QED BY <2>1 DEF Regrafted
  <1> HIDE DEF Q, Joined
  <1>4. u \in B
    <2>1. At(C, u, u, 0)
      BY DEF Tree
    <2> QED BY <2>1 DEF Subtree
  <1>5. \A v \in Units : P[v] \in B \cap Units => v \in B /\ v # u
    <2> SUFFICES ASSUME NEW v \in Units, P[v] \in B, P[v] \in Units PROVE v \in B /\ v # u
      OBVIOUS
    <2>1. PICK d \in Nat : At(C, u, P[v], d)
      BY DEF Subtree
    <2>2. At(C, u, v, d + 1) /\ d + 1 \in Nat /\ d + 1 # 0
      BY <2>1, FromBelow
    <2>3. v \in B
      BY <2>2 DEF Subtree
    <2>4. v # u
      BY <2>2 DEF Tree
    <2> QED BY <2>3, <2>4
  <1>6. \A v \in Units : v \in B /\ v # u => P[v] \in B /\ P[v] \in Units
    <2> SUFFICES ASSUME NEW v \in Units, v \in B, v # u PROVE P[v] \in B /\ P[v] \in Units
      OBVIOUS
    <2>1. PICK d \in Nat : At(C, u, v, d)
      BY DEF Subtree
    <2>2. d # 0
      BY <2>1 DEF Tree
    <2>3. d - 1 \in Nat /\ (d - 1) + 1 = d
      BY <2>2
    <2>4. P[v] \in Units /\ At(C, u, P[v], d - 1)
      BY <2>1, <2>3, FromBelow
    <2> QED BY <2>3, <2>4 DEF Subtree
  <1>7. \A x \in Units : \A i \in Nat : p \in Units /\ At(C, x, p, i) => x \notin B /\ x # u
    <2> SUFFICES ASSUME NEW x \in Units, NEW i \in Nat, p \in Units, At(C, x, p, i), x \in B
                 PROVE  FALSE
      BY <1>4
    <2>1. PICK d \in Nat : At(C, u, x, d)
      BY DEF Subtree
    <2>2. At(C, u, p, d + i) /\ d + i \in Nat
      BY <2>1, Transitive
    <2> QED BY <2>2 DEF Subtree
  <1>8. \A v \in Units : Q[v] \in Units => Q[Q[v]] # None
    <2>1. \A v \in Units : Q[v] \in Units => P[Q[v]] # None
      BY <1>2 DEF Tree
    <2>2. p # None
      BY UnitsApart
    <2> QED BY <1>2, <2>1, <2>2
  <1>9. ASSUME NEW a \in Units, NEW v \in Units
        PROVE  At(D, a, v, 0) <=> a = v /\ Q[v] # None
    <2>1. ~Joined(a, v, 0)
      <3>1. \A i, d \in Nat : 0 # i + d + 1
        OBVIOUS
      <3> QED BY <3>1 DEF Joined
    <2>2. At(D, a, v, 0) <=> At(C, a, v, 0) /\ (v \in B => a \in B)
      BY <1>3, <2>1
    <2>3. At(C, a, v, 0) <=> a = v /\ P[v] # None
      BY DEF Tree
    <2>4. Q[v] # None <=> P[v] # None
      BY <1>2, UnitsApart
    <2> QED BY <2>2, <2>3, <2>4
  <1>10. ASSUME NEW a \in Units, NEW v \in Units, NEW k \in Nat, At(D, a, v, k + 1)
         PROVE  \E b \in Units : At(D, b, v, k) /\ Q[b] = a
    <2>0. k + 1 \in Nat
      OBVIOUS
    <2>1. CASE At(C, a, v, k + 1) /\ (v \in B => a \in B)
      <3>1. PICK b \in Units : At(C, b, v, k) /\ P[b] = a
        BY ONLY <1>a, <2>0, <2>1, a \in Units, v \in Units, k \in Nat
      <3>2. v \in B => b \in B /\ b # u
        BY <1>5, <2>1, <3>1
      <3>3. v \notin B => b # u
        BY <3>1 DEF Subtree
      <3>4. Q[b] = a
        BY <1>2, <3>1, <3>2, <3>3
      <3>5. At(D, b, v, k)
        BY <1>3, <3>1, <3>2
      <3> QED BY <3>4, <3>5
    <2>2. CASE Joined(a, v, k + 1)
      <3>1. PICK i \in Nat, d \in Nat : /\ k + 1 = i + d + 1
                                        /\ At(C, a, p, i) /\ At(C, u, v, d)
        BY <2>2 DEF Joined
      <3>2. p \in Units
        BY <2>2 DEF Joined
      <3>3. v \in B /\ k = i + d
        BY <3>1 DEF Subtree
      <3>4. CASE i = 0
        <4>1. a = p /\ k = d
          BY <3>1, <3>2, <3>3, <3>4 DEF Tree
        <4>2. At(D, u, v, k)
          BY <1>3, <1>4, <3>1, <4>1
        <4>3. Q[u] = a
          BY <1>2, <4>1
        <4> QED BY <4>2, <4>3
      <3>5. CASE i # 0
        <4>1. i - 1 \in Nat /\ (i - 1) + 1 = i /\ k = (i - 1) + d + 1
          BY <3>3, <3>5
        <4>2. PICK b \in Units : At(C, b, p, i - 1) /\ P[b] = a
          BY ONLY <1>a, <3>1, <3>2, <4>1, a \in Units
        <4>3. b # u
          BY <1>7, <3>2, <4>1, <4>2
        <4>4. Q[b] = a
          BY <1>2, <4>2, <4>3
        <4>5. Joined(b, v, k)
          BY <3>1, <3>2, <4>1, <4>2 DEF Joined
        <4>6. At(D, b, v, k)
          BY <1>3, <4>5
        <4> QED BY <4>4, <4>6
      <3> QED BY <3>4, <3>5
    <2>3. (At(C, a, v, k + 1) /\ (v \in B => a \in B)) \/ Joined(a, v, k + 1)
      BY <1>3, <1>10, <2>0
    <2> QED BY <2>1, <2>2, <2>3
  <1>11. ASSUME NEW a \in Units, NEW v \in Units, NEW k \in Nat, NEW b \in Units,
                At(D, b, v, k), Q[b] = a
         PROVE  At(D, a, v, k + 1)
    <2>0. k + 1 \in Nat
      OBVIOUS
    <2>1. CASE At(C, b, v, k) /\ (v \in B => b \in B) /\ b # u
      <3>1. P[b] = a
        BY <1>2, <1>11, <2>1
      <3>2. At(C, a, v, k + 1)
        BY ONLY <1>a, <2>0, <2>1, <3>1, a \in Units, v \in Units, k \in Nat
      <3>3. v \in B => a \in B
        BY <1>6, <2>1, <3>1
      <3> QED BY <1>3, <2>0, <3>2, <3>3
    <2>2. CASE At(C, b, v, k) /\ b = u
      <3>1. a = p /\ p \in Units
        BY <1>2, <1>11, <2>2
      <3>2. At(C, a, p, 0)
        BY <3>1 DEF Tree
      <3>3. k + 1 = 0 + k + 1 /\ 0 \in Nat
        OBVIOUS
      <3>4. Joined(a, v, k + 1)
        BY <2>2, <3>1, <3>2, <3>3 DEF Joined
      <3> QED BY <1>3, <2>0, <3>4
    <2>3. CASE Joined(b, v, k)
      <3>1. PICK i \in Nat, d \in Nat : /\ k = i + d + 1
                                        /\ At(C, b, p, i) /\ At(C, u, v, d)
        BY <2>3 DEF Joined
      <3>2. p \in Units
        BY <2>3 DEF Joined
      <3>3. P[b] = a
        BY <1>2, <1>7, <1>11, <3>1, <3>2
      <3>4. At(C, a, p, i + 1)
        BY <3>1, <3>2, <3>3, OneUp
      <3>5. k + 1 = (i + 1) + d + 1 /\ i + 1 \in Nat
        BY <3>1
      <3>6. Joined(a, v, k + 1)
        BY <3>1, <3>2, <3>4, <3>5 DEF Joined
      <3> QED BY <1>3, <2>0, <3>6
    <2> QED BY <1>3, <1>11, <2>1, <2>2, <2>3
  <1>12. ASSUME NEW v \in Units, NEW k \in Nat, At(D, v, v, k) PROVE k = 0
    <2>1. ~Joined(v, v, k)
      <3> SUFFICES ASSUME Joined(v, v, k) PROVE FALSE
        OBVIOUS
      <3>1. p \in Units /\ \E i, d \in Nat : At(C, v, p, i) /\ At(C, u, v, d)
        BY DEF Joined
      <3> QED BY <1>7, <3>1 DEF Subtree
    <2>2. At(C, v, v, k)
      BY <1>3, <1>12, <2>1
    <2> QED BY <2>2 DEF Tree
  <1>13. \A a, v \in Units : \A k \in Nat :
            At(D, a, v, k + 1) <=> \E b \in Units : At(D, b, v, k) /\ Q[b] = a
    BY <1>10, <1>11
  <1> QED BY <1>2, <1>8, <1>9, <1>12, <1>13 DEF Tree, Q

-----------------------------------------------------------------------------
(* The transactions of one writer                                          *)

\* A transaction by its fields
UnitRec(op, phase, unit, to, dels, adds) ==
    [op |-> op, phase |-> phase, unit |-> unit, to |-> to, dels |-> dels, adds |-> adds]

\* The fields of a transaction, and an assignment to its phase
LEMMA UnitFields ==
    \A o, f, u, p, d, a :
       /\ UnitRec(o, f, u, p, d, a).op = o
       /\ UnitRec(o, f, u, p, d, a).phase = f
       /\ UnitRec(o, f, u, p, d, a).unit = u
       /\ UnitRec(o, f, u, p, d, a).to = p
       /\ UnitRec(o, f, u, p, d, a).dels = d
       /\ UnitRec(o, f, u, p, d, a).adds = a
       /\ \A x : [UnitRec(o, f, u, p, d, a) EXCEPT !.phase = x] = UnitRec(o, x, u, p, d, a)
  BY DEF UnitRec

\* What the transaction t knows of the rows it found
UnitTx(t) ==
    /\ t = UnitRec(t.op, t.phase, t.unit, t.to, t.dels, t.adds)
    /\ t.phase # "idle" =>
          /\ t.unit \in Units
          /\ \/ t.op = "insert" /\ parent[t.unit] = None /\ t.to \in Units \cup {Top}
             \/ t.op = "move" /\ parent[t.unit] # None /\ t.to \in Units \cup {Top}
             \/ t.op = "delete" /\ parent[t.unit] # None /\ t.to = None
    /\ t.phase \in {"checked", "written", "pruned", "grafted"} /\ t.op # "delete" =>
          /\ U!Cardinality(U!Chain(t.to)) + 1 + U!Height(t.unit) <= MaxDepth
          /\ t.op = "move" => t.to \notin U!Below(closure, t.unit)
    /\ t.phase \in {"written", "pruned", "grafted"} =>
          /\ t.to \in Units => parent[t.to] # None
          /\ t.op = "delete" => \A v \in Units : parent[v] # t.unit

\* The rows of the closure that the trigger deletes for t, and those it adds
Gone(t) ==
    CASE t.op = "move"   -> U!Crossing(closure, t.unit)
      [] t.op = "delete" -> {e \in closure : t.unit \in {e[1], e[2]}}
      [] t.op = "insert" -> {}

Added(t, C) ==
    CASE t.op = "move"   -> U!Joined(C, t.to, t.unit)
      [] t.op = "insert" -> {<<t.unit, t.unit, 0>>}
                              \cup U!Joined(C \cup {<<t.unit, t.unit, 0>>}, t.to, t.unit)
      [] t.op = "delete" -> {}

\* What the trigger has done for t by now
UnitWrites(t) ==
    /\ t.dels = IF t.phase \in {"pruned", "grafted"} THEN Gone(t) ELSE {}
    /\ t.adds = IF t.phase = "grafted" THEN Added(t, closure \ Gone(t)) ELSE {}

Shallow(C) == \A a, u \in Units : \A k \in Nat : At(C, a, u, k) => k < MaxDepth

TreeInv ==
    /\ Tree(parent, closure) /\ Shallow(closure)
    /\ tx = [w \in Writers |-> tx[w]]
    /\ \A w \in Writers : UnitTx(tx[w]) /\ UnitWrites(tx[w])

\* The tree is empty to begin with.
LEMMA InitTree == U!Init => TreeInv
  <1> SUFFICES ASSUME U!Init PROVE TreeInv
    OBVIOUS
  <1>1. /\ parent = [u \in Units |-> None] /\ closure = {}
        /\ tx = [w \in Writers |-> U!Idle]
    BY DEF U!Init
  <1>2. \A a, u, k : ~At(closure, a, u, k)
    BY <1>1 DEF At
  <1>3. Tree(parent, closure)
    BY <1>1, <1>2, UnitsApart DEF Tree
  <1>4. Shallow(closure)
    BY <1>2 DEF Shallow
  <1>5. \A w \in Writers : UnitTx(tx[w]) /\ UnitWrites(tx[w])
    BY <1>1 DEF U!Idle, UnitTx, UnitWrites, UnitRec
  <1> QED BY <1>1, <1>3, <1>4, <1>5 DEF TreeInv

\* What a transaction knows stays so while the rows do.
LEMMA RowsKept ==
    ASSUME parent' = parent, closure' = closure
    PROVE  \A x : (UnitTx(x)' <=> UnitTx(x)) /\ (UnitWrites(x)' <=> UnitWrites(x))
  <1>1. \A p : U!Chain(p)' = U!Chain(p)
    BY DEF U!Chain, U!Exists
  <1>2. \A u : U!Height(u)' = U!Height(u)
    BY DEF U!Height
  <1>3. \A x : Gone(x)' = Gone(x)
    BY DEF Gone
  <1>4. \A x : UnitTx(x)' <=> UnitTx(x)
    BY <1>1, <1>2 DEF UnitTx
  <1>5. \A x : UnitWrites(x)' <=> UnitWrites(x)
    BY <1>3 DEF UnitWrites
  <1> QED BY <1>4, <1>5

\* What the units are after a step that leaves the rows alone.
LEMMA StepKeeps ==
    ASSUME TreeInv, NEW w \in Writers, UNCHANGED <<parent, closure>>,
           NEW t, tx' = [tx EXCEPT ![w] = t], UnitTx(t), UnitWrites(t)
    PROVE  TreeInv'
  <1>1. tx' = [v \in Writers |-> IF v = w THEN t ELSE tx[v]]
    BY DEF TreeInv
  <1>2. \A x : (UnitTx(x)' <=> UnitTx(x)) /\ (UnitWrites(x)' <=> UnitWrites(x))
    BY RowsKept
  <1> QED BY <1>1, <1>2 DEF TreeInv, Shallow

\* One writer: nothing is locked, and nobody else has written.
OneWriter == \A v, w \in Writers : v = w

\* A transaction begins.
LEMMA UnitBegins ==
    ASSUME TreeInv, NEW w \in Writers, NEW u \in Units, NEW p \in Units \cup {Top},
           U!BeginInsert(w, u, p) \/ U!BeginMove(w, u, p) \/ U!BeginDelete(w, u)
    PROVE  TreeInv'
  <1> DEFINE Begun(op, phase, to) == UnitRec(op, phase, u, to, {}, {})
  <1>1. UNCHANGED <<parent, closure>>
    BY DEF U!BeginInsert, U!BeginMove, U!BeginDelete
  <1>5. \A op, phase, to :
           /\ [U!Idle EXCEPT !.op = op, !.phase = phase, !.unit = u] = Begun(op, phase, None)
           /\ [U!Idle EXCEPT !.op = op, !.phase = phase, !.unit = u, !.to = to]
                = Begun(op, phase, to)
    <2> TAKE op, phase, to
    <2>1. [U!Idle EXCEPT !.op = op] = UnitRec(op, "idle", None, None, {}, {})
      BY DEF U!Idle, UnitRec
    <2>2. [UnitRec(op, "idle", None, None, {}, {}) EXCEPT !.phase = phase]
            = UnitRec(op, phase, None, None, {}, {})
      BY DEF UnitRec
    <2>3. [UnitRec(op, phase, None, None, {}, {}) EXCEPT !.unit = u] = Begun(op, phase, None)
      BY DEF UnitRec
    <2>4. [UnitRec(op, phase, u, None, {}, {}) EXCEPT !.to = to] = Begun(op, phase, to)
      BY DEF UnitRec
    <2> QED BY <2>1, <2>2, <2>3, <2>4
  <1>2. CASE U!BeginInsert(w, u, p)
    <2>1. parent[u] = None /\ tx' = [tx EXCEPT ![w] = Begun("insert", "locked", p)]
      BY <1>2, <1>5 DEF U!BeginInsert, U!Exists
    <2>2. UnitTx(Begun("insert", "locked", p)) /\ UnitWrites(Begun("insert", "locked", p))
      BY <2>1, UnitFields DEF UnitTx, UnitWrites
    <2> QED BY <1>1, <2>1, <2>2, StepKeeps
  <1>3. CASE U!BeginMove(w, u, p)
    <2>1. parent[u] # None /\ tx' = [tx EXCEPT ![w] = Begun("move", "locked", p)]
      BY <1>3, <1>5 DEF U!BeginMove, U!Exists
    <2>2. UnitTx(Begun("move", "locked", p)) /\ UnitWrites(Begun("move", "locked", p))
      BY <2>1, UnitFields DEF UnitTx, UnitWrites
    <2> QED BY <1>1, <2>1, <2>2, StepKeeps
  <1>4. CASE U!BeginDelete(w, u)
    <2>1. parent[u] # None /\ tx' = [tx EXCEPT ![w] = Begun("delete", "checked", None)]
      BY <1>4, <1>5 DEF U!BeginDelete, U!Exists
    <2>2. UnitTx(Begun("delete", "checked", None)) /\ UnitWrites(Begun("delete", "checked", None))
      BY <2>1, UnitFields DEF UnitTx, UnitWrites
    <2> QED BY <1>1, <2>1, <2>2, StepKeeps
  <1> QED BY <1>2, <1>3, <1>4

\* A transaction ends without a write.
LEMMA UnitAborts == ASSUME TreeInv, NEW w \in Writers, U!Abort(w) PROVE TreeInv'
  <1>1. UnitTx(U!Idle) /\ UnitWrites(U!Idle)
    BY DEF U!Idle, UnitTx, UnitWrites, UnitRec
  <1> QED BY <1>1, StepKeeps DEF U!Abort

\* A transaction goes on to another phase.
LEMMA Onward ==
    ASSUME TreeInv, NEW w \in Writers, NEW f, tx' = [tx EXCEPT ![w].phase = f]
    PROVE  tx' = [tx EXCEPT ![w] = UnitRec(tx[w].op, f, tx[w].unit, tx[w].to,
                                           tx[w].dels, tx[w].adds)]
  <1>1. tx[w] = UnitRec(tx[w].op, tx[w].phase, tx[w].unit, tx[w].to, tx[w].dels, tx[w].adds)
    BY DEF TreeInv, UnitTx
  <1>2. [tx[w] EXCEPT !.phase = f] =
           UnitRec(tx[w].op, f, tx[w].unit, tx[w].to, tx[w].dels, tx[w].adds)
    BY <1>1, UnitFields
  <1> QED BY <1>2

\* The checks of the control plane
LEMMA CheckKeeps == ASSUME TreeInv, NEW w \in Writers, U!Check(w) PROVE TreeInv'
  <1> DEFINE t == tx[w]
             r == UnitRec(t.op, "checked", t.unit, t.to, t.dels, t.adds)
  <1>1. /\ t.phase = "locked" /\ UNCHANGED <<parent, closure>>
        /\ t.op = "move" => t.to \notin U!Below(closure, t.unit)
        /\ U!Cardinality(U!Chain(t.to)) + 1 + U!Height(t.unit) <= MaxDepth
        /\ tx' = [tx EXCEPT ![w] = r]
    BY Onward DEF U!Check
  <1>2. UnitTx(t) /\ UnitWrites(t)
    BY DEF TreeInv
  <1>3. UnitTx(r) /\ UnitWrites(r)
    BY <1>1, <1>2, UnitFields DEF UnitTx, UnitWrites
  <1> HIDE DEF r
  <1> QED BY <1>1, <1>3, StepKeeps

\* The statement and its foreign keys
LEMMA WriteKeeps == ASSUME TreeInv, NEW w \in Writers, U!Write(w) PROVE TreeInv'
  <1> DEFINE t == tx[w]
             r == UnitRec(t.op, "written", t.unit, t.to, t.dels, t.adds)
  <1>1. /\ t.phase = "checked" /\ UNCHANGED <<parent, closure>>
        /\ t.to \in Units => parent[t.to] # None
        /\ t.op = "delete" => \A v \in Units : parent[v] # t.unit
        /\ tx' = [tx EXCEPT ![w] = r]
    BY Onward DEF U!Write, U!Exists
  <1>2. UnitTx(t) /\ UnitWrites(t)
    BY DEF TreeInv
  <1>3. UnitTx(r) /\ UnitWrites(r)
    BY <1>1, <1>2, UnitFields DEF UnitTx, UnitWrites
  <1> HIDE DEF r
  <1> QED BY <1>1, <1>3, StepKeeps

\* The trigger's delete, and its insert: before them the transaction reads the
\* closure as it is committed.
LEMMA PruneKeeps == ASSUME TreeInv, NEW w \in Writers, U!Prune(w) PROVE TreeInv'
  <1> DEFINE t == tx[w]
             r == UnitRec(t.op, "pruned", t.unit, t.to, Gone(t), t.adds)
  <1>1. UnitTx(t) /\ UnitWrites(t) /\ t.phase = "written" /\ UNCHANGED <<parent, closure>>
    BY DEF TreeInv, U!Prune
  <1>2. U!Seen(w) = closure
    BY <1>1 DEF U!Seen, UnitWrites
  <1>3. tx' = [tx EXCEPT ![w] = r]
    <2>1. tx' = [tx EXCEPT ![w].phase = "pruned", ![w].dels = Gone(t)]
      BY <1>2 DEF U!Prune, Gone
    <2>2. t = UnitRec(t.op, t.phase, t.unit, t.to, t.dels, t.adds)
      BY <1>1 DEF UnitTx
    <2>3. [[t EXCEPT !.phase = "pruned"] EXCEPT !.dels = Gone(t)] = r
      <3>1. [t EXCEPT !.phase = "pruned"]
              = UnitRec(t.op, "pruned", t.unit, t.to, t.dels, t.adds)
        BY <2>2, UnitFields
      <3>2. \A d : [UnitRec(t.op, "pruned", t.unit, t.to, t.dels, t.adds) EXCEPT !.dels = d]
                     = UnitRec(t.op, "pruned", t.unit, t.to, d, t.adds)
        BY DEF UnitRec
      <3> QED BY <3>1, <3>2
    <2> QED BY <2>1, <2>3
  <1>4. UnitTx(r) /\ UnitWrites(r)
    <2>1. /\ r.op = t.op /\ r.unit = t.unit /\ r.to = t.to
          /\ r = UnitRec(r.op, r.phase, r.unit, r.to, r.dels, r.adds)
          /\ r.phase = "pruned" /\ r.dels = Gone(t) /\ r.adds = t.adds
      BY UnitFields
    <2>2. Gone(r) = Gone(t)
      BY <2>1 DEF Gone
    <2> HIDE DEF r
    <2>3. UnitTx(r)
      BY <1>1, <2>1 DEF UnitTx
    <2>4. UnitWrites(r)
      BY <1>1, <2>1, <2>2 DEF UnitWrites
    <2> QED BY <2>3, <2>4
  <1> HIDE DEF r
  <1> QED BY <1>1, <1>3, <1>4, StepKeeps

\* After the delete it reads what is left.
LEMMA GraftKeeps == ASSUME TreeInv, NEW w \in Writers, U!Graft(w) PROVE TreeInv'
  <1> DEFINE t == tx[w]
             C == closure \ Gone(t)
             r == UnitRec(t.op, "grafted", t.unit, t.to, t.dels, Added(t, C))
  <1>1. UnitTx(t) /\ UnitWrites(t) /\ t.phase = "pruned" /\ UNCHANGED <<parent, closure>>
    BY DEF TreeInv, U!Graft
  <1>2. U!Seen(w) = C
    BY <1>1 DEF U!Seen, UnitWrites
  <1>3. tx' = [tx EXCEPT ![w] = r]
    <2>1. U!Grafts(w) = Added(t, C)
      BY <1>2 DEF U!Grafts, Added
    <2>2. tx' = [tx EXCEPT ![w].phase = "grafted", ![w].adds = Added(t, C)]
      BY <2>1 DEF U!Graft
    <2>3. t = UnitRec(t.op, t.phase, t.unit, t.to, t.dels, t.adds)
      BY <1>1 DEF UnitTx
    <2>4. [[t EXCEPT !.phase = "grafted"] EXCEPT !.adds = Added(t, C)] = r
      <3>1. [t EXCEPT !.phase = "grafted"]
              = UnitRec(t.op, "grafted", t.unit, t.to, t.dels, t.adds)
        BY <2>3, UnitFields
      <3>2. \A a : [UnitRec(t.op, "grafted", t.unit, t.to, t.dels, t.adds) EXCEPT !.adds = a]
                     = UnitRec(t.op, "grafted", t.unit, t.to, t.dels, a)
        BY DEF UnitRec
      <3> QED BY <3>1, <3>2
    <2> QED BY <2>2, <2>4
  <1>4. UnitTx(r) /\ UnitWrites(r)
    <2>1. /\ r.op = t.op /\ r.unit = t.unit /\ r.to = t.to
          /\ r = UnitRec(r.op, r.phase, r.unit, r.to, r.dels, r.adds)
          /\ r.phase = "grafted" /\ r.dels = t.dels /\ r.adds = Added(t, C)
      BY UnitFields
    <2>2. Gone(r) = Gone(t)
      BY <2>1 DEF Gone
    <2> HIDE DEF r
    <2>3. UnitTx(r)
      BY <1>1, <2>1 DEF UnitTx
    <2>4. UnitWrites(r)
      BY <1>1, <2>1, <2>2 DEF UnitWrites, Added
    <2> QED BY <2>3, <2>4
  <1> HIDE DEF r
  <1> QED BY <1>1, <1>3, <1>4, StepKeeps

\* A set of naturals with a bound has a greatest member.
LEMMA GreatestNat ==
    ASSUME NEW T \in SUBSET Nat, T # {}, NEW b \in Nat, \A n \in T : n <= b
    PROVE  \E n \in T : \A m \in T : m <= n
  <1> DEFINE B == {n \in Nat : \A m \in T : m <= n}
  <1>1. PICK n \in B : \A m \in B : n <= m
    <2>1. B \in SUBSET Nat /\ B # {}
      OBVIOUS
    <2> HIDE DEF B
    <2> QED BY <2>1, LeastNat
  <1>2. ASSUME n \notin T PROVE FALSE
    <2>1. PICK m \in T : TRUE
      OBVIOUS
    <2>2. \A j \in T : j <= n /\ j # n
      BY <1>1, <1>2
    <2>3. n - 1 \in Nat
      BY <1>1, <2>1, <2>2
    <2>4. \A j \in T : j <= n - 1
      BY <1>1, <2>2
    <2>5. n - 1 \in B
      BY <2>3, <2>4
    <2> QED BY <1>1, <2>5
  <1> QED BY <1>1, <1>2

\* Every pair of a closure that is not deep is within these bounds.
LEMMA WithinBounds ==
    ASSUME NEW P, NEW C, Tree(P, C), Shallow(C), NEW e \in C
    PROVE  /\ e = <<e[1], e[2], e[3]>> /\ At(C, e[1], e[2], e[3])
           /\ e[1] \in Units /\ e[2] \in Units /\ e[3] \in Nat /\ e[3] < MaxDepth
  <1>1. e \in Units \X Units \X Nat
    BY DEF Tree
  <1>2. e = <<e[1], e[2], e[3]>> /\ e[1] \in Units /\ e[2] \in Units /\ e[3] \in Nat
    BY <1>1
  <1>3. At(C, e[1], e[2], e[3])
    BY <1>2 DEF At
  <1> QED BY <1>2, <1>3 DEF Shallow

\* It is finite.
LEMMA ClosureIsFinite ==
    ASSUME NEW P, NEW C, Tree(P, C), Shallow(C)
    PROVE  IsFiniteSet(C)
  <1> DEFINE D == 0..MaxDepth
             F == Units \X (Units \X D)
             f == [e \in C |-> <<e[1], <<e[2], e[3]>>>>]
  <1>1. IsFiniteSet(F)
    <2>1. IsFiniteSet(Units) /\ IsFiniteSet(D)
      BY UnitBounds, FS_Interval
    <2> HIDE DEF D
    <2>2. IsFiniteSet(Units \X D)
      BY <2>1, FS_Product
    <2> QED BY <2>1, <2>2, FS_Product
  <1>2. \A e \in C : f[e] \in F
    BY WithinBounds, UnitBounds
  <1>3. ASSUME NEW e \in C, NEW g \in C, f[e] = f[g] PROVE e = g
    <2>1. e = <<e[1], e[2], e[3]>> /\ g = <<g[1], g[2], g[3]>>
      BY WithinBounds
    <2>2. e[1] = g[1] /\ e[2] = g[2] /\ e[3] = g[3]
      BY <1>3
    <2> QED BY <2>1, <2>2
  <1>4. f \in Injection(C, F)
    <2> HIDE DEF F
    <2>1. f \in [C -> F]
      BY <1>2
    <2> HIDE DEF f
    <2> QED BY <1>3, <2>1 DEF Injection, IsInjective
  <1> HIDE DEF f, F
  <1> QED BY <1>1, <1>4, FS_Injection

\* The height of a unit is the distance to the furthest below it.
LEMMA HeightBounds ==
    ASSUME Tree(parent, closure), Shallow(closure), NEW u \in Units
    PROVE  /\ U!Height(u) \in Nat
           /\ \A v \in Units : \A d \in Nat : At(closure, u, v, d) => d <= U!Height(u)
  <1> DEFINE E == {x \in closure : x[1] = u}
             T == {e[3] : e \in E} \cup {0}
  <1>1. U!Height(u) = CHOOSE k \in T : \A j \in T : j <= k
    BY DEF U!Height
  <1>2. T \in SUBSET Nat /\ \A n \in T : n <= MaxDepth
    BY WithinBounds, UnitBounds
  <1>3. 0 \in T /\ \A v \in Units : \A d \in Nat : At(closure, u, v, d) => d \in T
    <2> SUFFICES ASSUME NEW v \in Units, NEW d \in Nat, At(closure, u, v, d)
                 PROVE  d \in T
      OBVIOUS
    <2>1. <<u, v, d>> \in E
      BY DEF At
    <2> QED BY <2>1
  <1> HIDE DEF T
  <1>4. \E k \in T : \A j \in T : j <= k
    BY <1>2, <1>3, UnitBounds, GreatestNat
  <1> QED BY <1>1, <1>2, <1>3, <1>4

\* What the checks let through stays within the cap.
LEMMA JoinedIsShallow ==
    ASSUME Tree(parent, closure), Shallow(closure), NEW u \in Units, NEW p \in Units,
           U!Cardinality(U!Chain(p)) + 1 + U!Height(u) <= MaxDepth,
           NEW a \in Units, NEW i \in Nat, At(closure, a, p, i),
           NEW d \in Nat, d <= U!Height(u)
    PROVE  i + d + 1 < MaxDepth
  <1> DEFINE A == U!Chain(p)
  <1>1. \A b \in Units : \A j \in Nat : At(closure, b, p, j) => At(A, b, p, j)
    <2> SUFFICES ASSUME NEW b \in Units, NEW j \in Nat, At(closure, b, p, j)
                 PROVE  At(A, b, p, j)
      OBVIOUS
    <2>1. parent[b] # None
      BY JoinedUnitsExist
    <2> QED BY <2>1 DEF At, U!Chain, U!Exists
  <1>2. A \subseteq closure
    BY DEF U!Chain
  <1> HIDE DEF A
  <1>3. Cardinality(A) \in Nat /\ i + 1 <= Cardinality(A)
    BY <1>1, <1>2, ClosureIsFinite, ManyAncestors
  <1>4. U!Height(u) \in Nat
    BY HeightBounds
  <1>5. Cardinality(A) + 1 + U!Height(u) <= MaxDepth
    BY UnitsCount DEF A
  <1> QED BY <1>3, <1>4, <1>5, UnitBounds

\* The trigger's insert is such a join.
LEMMA JoinedRows ==
    ASSUME NEW C, C \subseteq Units \X Units \X Nat,
           NEW p \in Units \cup {Top}, NEW u \in Units
    PROVE  JoinOf(U!Joined(C, p, u), C, p, u)
  <1> DEFINE X == {e \in C : e[2] = p}
             Y == {e \in C : e[1] = u}
  <1>1. \A e \in C : /\ e = <<e[1], e[2], e[3]>>
                     /\ e[1] \in Units /\ e[2] \in Units /\ e[3] \in Nat
    OBVIOUS
  <1>2. U!Joined(C, p, u) = {<<x[1], y[2], x[3] + y[3] + 1>> : x \in X, y \in Y}
    BY DEF U!Joined
  <1>3. \A x \in X, y \in Y : /\ x[1] \in Units /\ y[2] \in Units /\ x[3] + y[3] + 1 \in Nat
                              /\ p \in Units
                              /\ At(C, x[1], p, x[3]) /\ At(C, u, y[2], y[3])
    <2> SUFFICES ASSUME NEW x \in X, NEW y \in Y
                 PROVE  /\ x[1] \in Units /\ y[2] \in Units /\ x[3] + y[3] + 1 \in Nat
                        /\ p \in Units
                        /\ At(C, x[1], p, x[3]) /\ At(C, u, y[2], y[3])
      OBVIOUS
    <2>1. x \in C /\ y \in C /\ x[2] = p /\ y[1] = u
      OBVIOUS
    <2>2. x = <<x[1], p, x[3]>> /\ y = <<u, y[2], y[3]>>
      BY <1>1, <2>1
    <2> QED BY <1>1, <2>1, <2>2 DEF At
  <1>4. ASSUME NEW a \in Units, NEW v \in Units, NEW k \in Nat, At(U!Joined(C, p, u), a, v, k)
        PROVE  /\ p \in Units
               /\ \E i, d \in Nat : k = i + d + 1 /\ At(C, a, p, i) /\ At(C, u, v, d)
    <2>1. PICK x \in X, y \in Y : <<a, v, k>> = <<x[1], y[2], x[3] + y[3] + 1>>
      BY <1>2, <1>4 DEF At
    <2>2. a = x[1] /\ v = y[2] /\ k = x[3] + y[3] + 1
      BY <2>1
    <2>3. x[3] \in Nat /\ y[3] \in Nat
      BY <1>1
    <2> QED BY <1>3, <2>2, <2>3
  <1>5. ASSUME NEW a \in Units, NEW v \in Units, NEW i \in Nat, NEW d \in Nat,
               At(C, a, p, i), At(C, u, v, d)
        PROVE  At(U!Joined(C, p, u), a, v, i + d + 1)
    <2>1. <<a, p, i>> \in X /\ <<u, v, d>> \in Y
      BY <1>5 DEF At
    <2>2. <<<<a, p, i>>[1], <<u, v, d>>[2], <<a, p, i>>[3] + <<u, v, d>>[3] + 1>>
            \in U!Joined(C, p, u)
      BY <1>2, <2>1
    <2> QED BY <2>2 DEF At
  <1>6. U!Joined(C, p, u) \subseteq Units \X Units \X Nat
    BY <1>2, <1>3
  <1> HIDE DEF X, Y
  <1>7. ASSUME NEW a \in Units, NEW v \in Units, NEW k \in Nat, p \in Units,
               \E i, d \in Nat : k = i + d + 1 /\ At(C, a, p, i) /\ At(C, u, v, d)
        PROVE  At(U!Joined(C, p, u), a, v, k)
    BY <1>5, <1>7
  <1> QED BY <1>4, <1>6, <1>7 DEF JoinOf

\* An inserted unit leaves a tree within the cap.
LEMMA InsertCommits ==
    ASSUME Tree(parent, closure), Shallow(closure), NEW u \in Units, parent[u] = None,
           NEW p \in Units \cup {Top}, p \in Units => parent[p] # None,
           U!Cardinality(U!Chain(p)) + 1 + U!Height(u) <= MaxDepth,
           NEW D, D = closure \cup ({<<u, u, 0>>} \cup U!Joined(closure \cup {<<u, u, 0>>}, p, u))
    PROVE  Tree([parent EXCEPT ![u] = p], D) /\ Shallow(D)
  <1> DEFINE B == closure \cup {<<u, u, 0>>}
             J == U!Joined(B, p, u)
  <1>1. closure \subseteq Units \X Units \X Nat
    BY DEF Tree
  <1>2. B \subseteq Units \X Units \X Nat
    BY <1>1
  <1>3. \A a, v \in Units : \A k \in Nat :
           At(B, a, v, k) <=> At(closure, a, v, k) \/ (a = u /\ v = u /\ k = 0)
    BY DEF At
  <1>4. \A a, v \in Units : \A k \in Nat : At(D, a, v, k) <=> At(B, a, v, k) \/ At(J, a, v, k)
    BY DEF At
  <1> HIDE DEF B
  <1>5. JoinOf(J, B, p, u)
    BY <1>2, JoinedRows
  <1>6. D \subseteq Units \X Units \X Nat
    <2>1. D = closure \cup ({<<u, u, 0>>} \cup J)
      BY DEF B
    <2>2. <<u, u, 0>> \in Units \X Units \X Nat
      OBVIOUS
    <2> HIDE DEF J
    <2> QED BY <1>1, <1>5, <2>1, <2>2 DEF JoinOf
  <1> HIDE DEF J
  <1>7. p # u
    BY UnitsApart
  <1>8. \A a, v \in Units : \A k \in Nat : At(closure, a, v, k) => a # u /\ v # u
    BY JoinedUnitsExist
  <1>9. \A a, v \in Units : \A k \in Nat :
           At(J, a, v, k) <=> /\ p \in Units /\ v = u
                              /\ \E i \in Nat : k = i + 1 /\ At(closure, a, p, i)
    <2> SUFFICES ASSUME NEW a \in Units, NEW v \in Units, NEW k \in Nat
                 PROVE  At(J, a, v, k) <=> /\ p \in Units /\ v = u
                                           /\ \E i \in Nat : k = i + 1 /\ At(closure, a, p, i)
      OBVIOUS
    <2>1. \A d \in Nat : At(B, u, v, d) <=> v = u /\ d = 0
      BY <1>3, <1>8
    <2>2. p \in Units => \A i \in Nat : At(B, a, p, i) <=> At(closure, a, p, i)
      BY <1>3, <1>7
    <2>3. ASSUME At(J, a, v, k)
          PROVE  p \in Units /\ v = u /\ \E i \in Nat : k = i + 1 /\ At(closure, a, p, i)
      <3>1. PICK i \in Nat, d \in Nat : /\ p \in Units /\ k = i + d + 1
                                        /\ At(B, a, p, i) /\ At(B, u, v, d)
        BY <1>5, <2>3 DEF JoinOf
      <3>2. v = u /\ d = 0 /\ At(closure, a, p, i)
        BY <2>1, <2>2, <3>1
      <3>3. k = i + 1
        BY <3>1, <3>2
      <3> QED BY <3>1, <3>2, <3>3
    <2>4. ASSUME p \in Units, v = u, NEW i \in Nat, k = i + 1, At(closure, a, p, i)
          PROVE  At(J, a, v, k)
      <3>1. At(B, a, p, i) /\ At(B, u, v, 0)
        BY <2>1, <2>2, <2>4
      <3>2. k = i + 0 + 1 /\ 0 \in Nat
        BY <2>4
      <3> QED BY <1>5, <2>4, <3>1, <3>2 DEF JoinOf
    <2> QED BY <2>3, <2>4
  <1>10. \A a, v \in Units : \A k \in Nat : v # u => (At(D, a, v, k) <=> At(closure, a, v, k))
    BY <1>3, <1>4, <1>9
  <1>11. \A a \in Units : At(D, a, u, 0) <=> a = u
    <2>1. \A i \in Nat : 0 # i + 1
      OBVIOUS
    <2>2. \A a \in Units : ~At(J, a, u, 0)
      BY <1>9, <2>1
    <2> QED BY <1>3, <1>4, <1>8, <2>2
  <1>12. \A a \in Units : \A k \in Nat : At(D, a, u, k + 1) <=> p \in Units /\ At(closure, a, p, k)
    <2> SUFFICES ASSUME NEW a \in Units, NEW k \in Nat
                 PROVE  At(D, a, u, k + 1) <=> p \in Units /\ At(closure, a, p, k)
      OBVIOUS
    <2>1. k + 1 \in Nat /\ k + 1 # 0 /\ \A i \in Nat : k + 1 = i + 1 => i = k
      OBVIOUS
    <2>2. At(D, a, u, k + 1) <=> At(J, a, u, k + 1)
      BY <1>3, <1>4, <1>8, <2>1
    <2> QED BY <1>9, <2>1, <2>2
  <1>13. Tree([parent EXCEPT ![u] = p], D)
    <2> HIDE DEF J
    <2> QED BY <1>6, <1>10, <1>11, <1>12, UnitInserted
  <1>14. ASSUME NEW a \in Units, NEW v \in Units, NEW k \in Nat, At(D, a, v, k)
         PROVE  k < MaxDepth
    <2>1. CASE At(closure, a, v, k)
      BY <2>1 DEF Shallow
    <2>2. CASE k = 0
      BY <2>2, UnitBounds
    <2>3. CASE At(J, a, v, k)
      <3>1. PICK i \in Nat : p \in Units /\ k = i + 1 /\ At(closure, a, p, i)
        BY <1>9, <2>3
      <3>2. U!Height(u) \in Nat
        BY HeightBounds
      <3>3. i + 0 + 1 < MaxDepth
        BY <3>1, <3>2, JoinedIsShallow
      <3> QED BY <3>1, <3>3
    <2> QED BY <1>3, <1>4, <1>14, <2>1, <2>2, <2>3
  <1> QED BY <1>13, <1>14 DEF Shallow

\* So does a moved one, with everything below it.
LEMMA MoveCommits ==
    ASSUME Tree(parent, closure), Shallow(closure), NEW u \in Units, parent[u] # None,
           NEW p \in Units \cup {Top}, p \in Units => parent[p] # None,
           p \notin U!Below(closure, u),
           U!Cardinality(U!Chain(p)) + 1 + U!Height(u) <= MaxDepth,
           NEW C, C = closure \ U!Crossing(closure, u),
           NEW D, D = C \cup U!Joined(C, p, u)
    PROVE  Tree([parent EXCEPT ![u] = p], D) /\ Shallow(D)
  <1> DEFINE B == U!Below(closure, u)
             J == U!Joined(C, p, u)
  <1>1. closure \subseteq Units \X Units \X Nat /\ C \subseteq Units \X Units \X Nat
    BY DEF Tree
  <1>2. Subtree(B, closure, u)
    <2> SUFFICES ASSUME NEW v \in Units PROVE v \in B <=> \E d \in Nat : At(closure, u, v, d)
      BY DEF Subtree
    <2>1. v \in B <=> \E e \in closure : e[1] = u /\ e[2] = v
      BY DEF U!Below
    <2>2. \A e \in closure : e = <<e[1], e[2], e[3]>> /\ e[3] \in Nat
      BY WithinBounds
    <2>3. \A d \in Nat : At(closure, u, v, d) => <<u, v, d>> \in closure
      BY DEF At
    <2>4. \A d \in Nat : <<u, v, d>>[1] = u /\ <<u, v, d>>[2] = v
      OBVIOUS
    <2>5. ASSUME NEW e \in closure, e[1] = u, e[2] = v PROVE At(closure, u, v, e[3])
      BY <2>2, <2>5 DEF At
    <2> QED BY <2>1, <2>2, <2>3, <2>4, <2>5
  <1>3. \A a, v \in Units : \A k \in Nat :
           At(C, a, v, k) <=> At(closure, a, v, k) /\ (v \in B => a \in B)
    BY DEF At, U!Crossing
  <1>4. \A a, v \in Units : \A k \in Nat : At(D, a, v, k) <=> At(C, a, v, k) \/ At(J, a, v, k)
    BY DEF At
  <1>5. JoinOf(J, C, p, u)
    BY <1>1, JoinedRows
  <1>6. D \subseteq Units \X Units \X Nat
    BY <1>1, <1>5 DEF JoinOf
  <1> HIDE DEF J, B
  <1>7. u \in B /\ p \notin B
    <2>1. At(closure, u, u, 0)
      BY DEF Tree
    <2> QED BY <1>2, <2>1 DEF B, Subtree
  <1>8. JoinOf(J, closure, p, u)
    <2>1. p \in Units => \A a \in Units : \A i \in Nat : At(C, a, p, i) <=> At(closure, a, p, i)
      BY <1>3, <1>7
    <2>2. \A v \in Units : \A d \in Nat : At(C, u, v, d) <=> At(closure, u, v, d)
      BY <1>3, <1>7
    <2> QED BY <1>5, <2>1, <2>2 DEF JoinOf
  <1>9. Regrafted(D, closure, B, J)
    BY <1>3, <1>4 DEF Regrafted
  <1>10. Tree([parent EXCEPT ![u] = p], D)
    BY <1>2, <1>6, <1>7, <1>8, <1>9, UnitMoved
  <1>11. ASSUME NEW a \in Units, NEW v \in Units, NEW k \in Nat, At(D, a, v, k)
         PROVE  k < MaxDepth
    <2>1. CASE At(closure, a, v, k)
      BY <2>1 DEF Shallow
    <2>2. CASE ~At(closure, a, v, k)
      <3>1. PICK i \in Nat, d \in Nat : /\ p \in Units /\ k = i + d + 1
                                        /\ At(closure, a, p, i) /\ At(closure, u, v, d)
        BY <1>8, <1>9, <1>11, <2>2 DEF JoinOf, Regrafted
      <3>2. d <= U!Height(u)
        BY <3>1, HeightBounds
      <3>3. i + d + 1 < MaxDepth
        BY <3>1, <3>2, JoinedIsShallow
      <3> QED BY <3>1, <3>3
    <2> QED BY <2>1, <2>2
  <1> QED BY <1>10, <1>11 DEF Shallow

\* And a deleted one.
LEMMA DeleteCommits ==
    ASSUME Tree(parent, closure), Shallow(closure), NEW u \in Units,
           \A v \in Units : parent[v] # u,
           NEW D, D = closure \ {e \in closure : u \in {e[1], e[2]}}
    PROVE  Tree([parent EXCEPT ![u] = None], D) /\ Shallow(D)
  <1>1. D \subseteq Units \X Units \X Nat
    BY DEF Tree
  <1>2. \A a, v \in Units : \A k \in Nat : At(D, a, v, k) <=> At(closure, a, v, k) /\ a # u /\ v # u
    BY DEF At
  <1>3. Tree([parent EXCEPT ![u] = None], D)
    BY <1>1, <1>2, UnitDeleted
  <1> QED BY <1>2, <1>3 DEF Shallow

\* A transaction commits: with one writer, what it writes is made of what is
\* committed.
LEMMA CommitKeeps ==
    ASSUME OneWriter, TreeInv, NEW w \in Writers, U!Commit(w)
    PROVE  TreeInv'
  <1> DEFINE t == tx[w]
             C == closure \ Gone(t)
  <1>1. /\ Tree(parent, closure) /\ Shallow(closure)
        /\ UnitTx(t) /\ UnitWrites(t) /\ t.phase = "grafted"
    BY DEF TreeInv, U!Commit
  <1>2. /\ parent' = [parent EXCEPT ![t.unit] = t.to]
        /\ closure' = C \cup Added(t, C)
        /\ tx' = [tx EXCEPT ![w] = U!Idle]
    BY <1>1 DEF U!Commit, U!Seen, UnitWrites
  <1>3. t.unit \in Units
    BY <1>1 DEF UnitTx
  <1>4. Tree(parent', closure') /\ Shallow(closure')
    <2>1. CASE t.op = "insert"
      <3>1. /\ parent[t.unit] = None /\ t.to \in Units \cup {Top}
            /\ t.to \in Units => parent[t.to] # None
            /\ U!Cardinality(U!Chain(t.to)) + 1 + U!Height(t.unit) <= MaxDepth
        BY <1>1, <2>1 DEF UnitTx
      <3>2. C = closure
        BY <2>1 DEF Gone
      <3>3. closure' = closure \cup ({<<t.unit, t.unit, 0>>}
                          \cup U!Joined(closure \cup {<<t.unit, t.unit, 0>>}, t.to, t.unit))
        BY <1>2, <2>1, <3>2 DEF Added
      <3> QED BY <1>1, <1>2, <1>3, <3>1, <3>3, InsertCommits
    <2>2. CASE t.op = "move"
      <3>1. /\ parent[t.unit] # None /\ t.to \in Units \cup {Top}
            /\ t.to \in Units => parent[t.to] # None
            /\ t.to \notin U!Below(closure, t.unit)
            /\ U!Cardinality(U!Chain(t.to)) + 1 + U!Height(t.unit) <= MaxDepth
        BY <1>1, <2>2 DEF UnitTx
      <3>2. C = closure \ U!Crossing(closure, t.unit)
        BY <2>2 DEF Gone
      <3>3. closure' = C \cup U!Joined(C, t.to, t.unit)
        BY <1>2, <2>2 DEF Added
      <3> HIDE DEF C
      <3> QED BY <1>1, <1>2, <1>3, <3>1, <3>2, <3>3, MoveCommits
    <2>3. CASE t.op = "delete"
      <3>1. t.to = None /\ \A v \in Units : parent[v] # t.unit
        BY <1>1, <2>3 DEF UnitTx
      <3>2. closure' = closure \ {e \in closure : t.unit \in {e[1], e[2]}}
        BY <1>2, <2>3 DEF Gone, Added
      <3> QED BY <1>1, <1>2, <1>3, <3>1, <3>2, DeleteCommits
    <2> QED BY <1>1, <2>1, <2>2, <2>3 DEF UnitTx
  <1>5. tx' = [v \in Writers |-> U!Idle]
    BY <1>2 DEF TreeInv, OneWriter
  <1>6. UnitTx(U!Idle)' /\ UnitWrites(U!Idle)'
    BY DEF U!Idle, UnitTx, UnitWrites, UnitRec
  <1> QED BY <1>4, <1>5, <1>6 DEF TreeInv, Shallow

\* The tree is one forever, and a step of another part leaves it alone.
LEMMA TreeInvariant == ASSUME OneWriter PROVE MCSpec => []TreeInv
  <1>1. MCInit => TreeInv
    BY InitTree DEF MCInit
  <1>2. TreeInv /\ [MCNext]_<<part, vars, sVars, uVars>> => TreeInv'
    <2> SUFFICES ASSUME TreeInv, [MCNext]_<<part, vars, sVars, uVars>> PROVE TreeInv'
      OBVIOUS
    <2>1. ASSUME UNCHANGED uVars PROVE TreeInv'
      <3>1. parent' = parent /\ closure' = closure /\ tx' = tx
        BY <2>1 DEF uVars
      <3>2. \A x : (UnitTx(x)' <=> UnitTx(x)) /\ (UnitWrites(x)' <=> UnitWrites(x))
        BY <3>1, RowsKept
      <3> QED BY <3>1, <3>2 DEF TreeInv, Shallow
    <2>2. ASSUME NEW w \in Writers, U!Step(w) PROVE TreeInv'
      <3>1. ASSUME NEW u \in Units, NEW p \in Units \cup {Top},
                   U!BeginInsert(w, u, p) \/ U!BeginMove(w, u, p)
            PROVE  TreeInv'
        BY <3>1, UnitBegins
      <3>2. ASSUME NEW u \in Units, U!BeginDelete(w, u) PROVE TreeInv'
        BY <3>2, UnitBegins
      <3> QED BY <2>2, <3>1, <3>2, CheckKeeps, WriteKeeps, PruneKeeps, GraftKeeps, CommitKeeps,
                 UnitAborts DEF U!Step
    <2> QED BY <2>1, <2>2 DEF MCNext, U!Next, uVars, vars, sVars
  <1> QED BY <1>1, <1>2, PTL DEF MCSpec

-----------------------------------------------------------------------------
(* The ancestors along parent_id                                           *)

\* One step of the recursion that defines Up
Climb(f) ==
    [k \in Nat |->
       IF k = 0 THEN [u \in Units |-> IF parent[u] # None THEN u ELSE Top]
       ELSE [u \in Units |-> IF f[k - 1][u] \in Units THEN parent[f[k - 1][u]] ELSE Top]]

\* The ancestor of u at the distance k, or Top: the recursion has this solution.
Ancestor(k, u) ==
    IF \E a \in Units : At(closure, a, u, k) THEN CHOOSE a \in Units : At(closure, a, u, k)
    ELSE Top

\* It is the one the closure has.
LEMMA AncestorIs ==
    ASSUME Tree(parent, closure), NEW u \in Units, NEW k \in Nat
    PROVE  /\ \A a \in Units : At(closure, a, u, k) <=> Ancestor(k, u) = a
           /\ Ancestor(k, u) \in Units => At(closure, Ancestor(k, u), u, k)
           /\ Ancestor(k, u) \notin Units => Ancestor(k, u) = Top
  <1>1. CASE \E a \in Units : At(closure, a, u, k)
    <2>1. Ancestor(k, u) \in Units /\ At(closure, Ancestor(k, u), u, k)
      BY <1>1 DEF Ancestor
    <2> HIDE DEF Ancestor
    <2>2. \A a \in Units : At(closure, a, u, k) => Ancestor(k, u) = a
      BY <2>1, OneAncestor
    <2> QED BY <2>1, <2>2
  <1>2. CASE ~\E a \in Units : At(closure, a, u, k)
    <2>1. Ancestor(k, u) = Top
      BY <1>2 DEF Ancestor
    <2> QED BY <1>2, <2>1, UnitsApart
  <1> QED BY <1>1, <1>2

\* Up is defined by its recursion.
LEMMA UpClimbs == ASSUME Tree(parent, closure) PROVE U!Up = Climb(U!Up)
  <1> DEFINE f == [k \in Nat |-> [u \in Units |-> Ancestor(k, u)]]
  <1>1. f = Climb(f)
    <2>1. ASSUME NEW k \in Nat, k = 0 PROVE f[k] = Climb(f)[k]
      <3>1. \A u \in Units : Ancestor(0, u) = IF parent[u] # None THEN u ELSE Top
        <4> SUFFICES ASSUME NEW u \in Units
                     PROVE  Ancestor(0, u) = IF parent[u] # None THEN u ELSE Top
          OBVIOUS
        <4>1. \A a \in Units : At(closure, a, u, 0) <=> a = u /\ parent[u] # None
          BY DEF Tree
        <4>2. /\ \A a \in Units : At(closure, a, u, 0) <=> Ancestor(0, u) = a
              /\ Ancestor(0, u) \notin Units => Ancestor(0, u) = Top
          BY AncestorIs
        <4> QED BY <4>1, <4>2
      <3>2. Climb(f)[k] = [u \in Units |-> IF parent[u] # None THEN u ELSE Top]
        BY <2>1 DEF Climb
      <3> QED BY <2>1, <3>1, <3>2
    <2>2. ASSUME NEW k \in Nat, k # 0 PROVE f[k] = Climb(f)[k]
      <3>1. k - 1 \in Nat /\ (k - 1) + 1 = k
        BY <2>2
      <3>2. \A u \in Units : Ancestor(k, u) =
               IF Ancestor(k - 1, u) \in Units THEN parent[Ancestor(k - 1, u)] ELSE Top
        <4> SUFFICES ASSUME NEW u \in Units
                     PROVE  Ancestor(k, u) =
                              IF Ancestor(k - 1, u) \in Units THEN parent[Ancestor(k - 1, u)]
                              ELSE Top
          OBVIOUS
        <4> DEFINE b == Ancestor(k - 1, u)
                   c == Ancestor(k, u)
        <4>1. /\ \A a \in Units : At(closure, a, u, k) <=> c = a
              /\ c \notin Units => c = Top
          BY AncestorIs
        <4>2. /\ \A a \in Units : At(closure, a, u, k - 1) <=> b = a
              /\ b \in Units => At(closure, b, u, k - 1)
          BY <3>1, AncestorIs
        <4>3. \A a \in Units : At(closure, a, u, k)
                 <=> \E x \in Units : At(closure, x, u, k - 1) /\ parent[x] = a
          BY <3>1, OneUp
        <4>4. b \in Units => parent[b] \in Units \cup {Top}
          <5>1. b \in Units => parent[b] # None
            BY <3>1, <4>2, JoinedUnitsExist
          <5> QED BY <5>1 DEF Tree
        <4> HIDE DEF b, c
        <4>5. CASE b \in Units
          <5>1. \A a \in Units : At(closure, a, u, k) <=> parent[b] = a
            BY <4>2, <4>3, <4>5
          <5>2. \A a \in Units : c = a <=> parent[b] = a
            BY <4>1, <5>1
          <5> QED BY <4>1, <4>4, <4>5, <5>2, UnitsApart DEF b, c
        <4>6. CASE b \notin Units
          <5>1. \A a \in Units : ~At(closure, a, u, k)
            BY <4>2, <4>3, <4>6
          <5> QED BY <4>1, <4>6, <5>1 DEF b, c
        <4> QED BY <4>5, <4>6
      <3>3. Climb(f)[k] = [u \in Units |-> IF f[k - 1][u] \in Units THEN parent[f[k - 1][u]]
                                           ELSE Top]
        BY <2>2 DEF Climb
      <3>4. \A u \in Units : f[k - 1][u] = Ancestor(k - 1, u)
        BY <3>1
      <3>5. f[k] = [u \in Units |-> Ancestor(k, u)]
        OBVIOUS
      <3> HIDE DEF f
      <3> QED BY <3>2, <3>3, <3>4, <3>5
    <2>3. f = [k \in Nat |-> f[k]] /\ Climb(f) = [k \in Nat |-> Climb(f)[k]]
      BY DEF Climb
    <2> HIDE DEF f
    <2> QED BY <2>1, <2>2, <2>3
  <1>2. U!Up = CHOOSE g : g = Climb(g)
    <2>1. U!Up = CHOOSE g : g =
            [k \in Nat |->
               IF k = 0 THEN [u \in Units |-> IF parent[u] # None THEN u ELSE Top]
               ELSE [u \in Units |-> IF g[k - 1][u] \in Units THEN parent[g[k - 1][u]]
                                     ELSE Top]]
      BY DEF U!Up, U!Exists
    <2> QED BY <2>1 DEF Climb
  <1> HIDE DEF f
  <1>3. \E g : g = Climb(g)
    BY <1>1
  <1> QED BY <1>2, <1>3

\* The recursion computes what the closure has.
LEMMA UpIs ==
    ASSUME Tree(parent, closure), NEW k \in Nat, NEW u \in Units, NEW a \in Units
    PROVE  At(closure, a, u, k) <=> U!Up[k][u] = a
  <1> DEFINE T == {n \in Nat : \A x, b \in Units : At(closure, b, x, n) <=> U!Up[n][x] = b}
  <1>1. /\ U!Up[0] = [x \in Units |-> IF parent[x] # None THEN x ELSE Top]
        /\ \A n \in Nat : n + 1 \in Nat /\ n + 1 # 0 /\ (n + 1) - 1 = n
        /\ \A n \in Nat : \A x \in Units :
              U!Up[n + 1][x] = IF U!Up[n][x] \in Units THEN parent[U!Up[n][x]] ELSE Top
    <2>1. \A n \in Nat : U!Up[n] = Climb(U!Up)[n]
      BY UpClimbs
    <2>2. \A n \in Nat : n + 1 \in Nat /\ n + 1 # 0 /\ (n + 1) - 1 = n
      OBVIOUS
    <2>3. \A n \in Nat : U!Up[n + 1] =
             [x \in Units |-> IF U!Up[n][x] \in Units THEN parent[U!Up[n][x]] ELSE Top]
      BY <2>1, <2>2 DEF Climb
    <2>4. U!Up[0] = [x \in Units |-> IF parent[x] # None THEN x ELSE Top]
      BY <2>1 DEF Climb
    <2>5. ASSUME NEW n \in Nat, NEW x \in Units
          PROVE  U!Up[n + 1][x] = IF U!Up[n][x] \in Units THEN parent[U!Up[n][x]] ELSE Top
      <3>1. U!Up[n + 1] =
              [y \in Units |-> IF U!Up[n][y] \in Units THEN parent[U!Up[n][y]] ELSE Top]
        BY <2>3
      <3> QED BY ONLY <3>1, x \in Units
    <2> QED BY <2>2, <2>4, <2>5
  <1>2. 0 \in T
    <2> SUFFICES ASSUME NEW x \in Units, NEW b \in Units
                 PROVE  At(closure, b, x, 0) <=> U!Up[0][x] = b
      OBVIOUS
    <2>1. At(closure, b, x, 0) <=> b = x /\ parent[x] # None
      BY DEF Tree
    <2>2. U!Up[0][x] = IF parent[x] # None THEN x ELSE Top
      BY <1>1
    <2> QED BY <2>1, <2>2, UnitsApart
  <1>3. ASSUME NEW n \in T PROVE n + 1 \in T
    <2> SUFFICES ASSUME NEW x \in Units, NEW b \in Units
                 PROVE  At(closure, b, x, n + 1) <=> U!Up[n + 1][x] = b
      BY <1>1, <1>3
    <2>1. At(closure, b, x, n + 1) <=> \E c \in Units : At(closure, c, x, n) /\ parent[c] = b
      BY <1>3, OneUp
    <2>2. \A c \in Units : At(closure, c, x, n) <=> U!Up[n][x] = c
      BY <1>3
    <2>3. U!Up[n + 1][x] = IF U!Up[n][x] \in Units THEN parent[U!Up[n][x]] ELSE Top
      BY <1>1, <1>3
    <2> QED BY <2>1, <2>2, <2>3, UnitsApart
  <1>4. T = Nat
    <2>1. T \in SUBSET Nat
      OBVIOUS
    <2> HIDE DEF T
    <2> QED BY <1>2, <1>3, <2>1, Induction
  <1> QED BY <1>4

\* With one transaction at a time, after any sequence of inserts, moves and
\* deletes, refused or aborted anywhere: the closure is the transitive closure of
\* parent_id with its distances, and no unit is deeper than the cap.
THEOREM ClosureStaysExact == ASSUME OneWriter PROVE MCSpec => []TreeIsSound
  <1>1. TreeInv => TreeIsSound
    <2> SUFFICES ASSUME TreeInv PROVE U!Exact /\ U!WithinDepth
      BY DEF TreeIsSound
    <2>1. Tree(parent, closure) /\ Shallow(closure)
      BY DEF TreeInv
    <2>2. U!Edge = Units \X Units \X (0..Cardinality(Units)) /\ Cardinality(Units) \in Nat
      BY UnitsCount, UnitBounds, FS_CardinalityType DEF U!Edge
    <2>3. ASSUME NEW e \in closure PROVE e \in U!Edge /\ U!Up[e[3]][e[2]] = e[1]
      <3>1. /\ e = <<e[1], e[2], e[3]>> /\ At(closure, e[1], e[2], e[3])
            /\ e[1] \in Units /\ e[2] \in Units /\ e[3] \in Nat
        BY <2>1, WithinBounds
      <3>2. e[3] \in 0..Cardinality(Units)
        BY <2>1, <3>1, UnitBounds, ShortPath
      <3>3. U!Up[e[3]][e[2]] = e[1]
        BY <2>1, <3>1, UpIs
      <3> QED BY <2>2, <3>1, <3>2, <3>3
    <2>4. ASSUME NEW e \in U!Edge, U!Up[e[3]][e[2]] = e[1] PROVE e \in closure
      <3>1. /\ e = <<e[1], e[2], e[3]>>
            /\ e[1] \in Units /\ e[2] \in Units /\ e[3] \in Nat
        BY <2>2
      <3>2. At(closure, e[1], e[2], e[3])
        BY <2>1, <2>4, <3>1, UpIs
      <3> QED BY <3>1, <3>2 DEF At
    <2>5. U!Exact
      BY <2>3, <2>4 DEF U!Exact
    <2>6. ASSUME NEW u \in Units, U!Up[MaxDepth][u] \in Units PROVE FALSE
      <3>1. At(closure, U!Up[MaxDepth][u], u, MaxDepth)
        BY <2>1, <2>6, UnitBounds, UpIs
      <3>2. MaxDepth < MaxDepth
        BY <2>1, <2>6, <3>1, UnitBounds DEF Shallow
      <3> QED BY <3>2, UnitBounds
    <2> QED BY <2>5, <2>6 DEF U!WithinDepth
  <1> QED BY <1>1, TreeInvariant, PTL
==============================================================================
