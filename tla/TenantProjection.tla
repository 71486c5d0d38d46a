-------------------------- MODULE TenantProjection --------------------------
(***************************************************************************)
(* One tenant of the registry (platform.tenants) and the Keycloak root     *)
(* Organization that mirrors it: provisionTenant, updateTenant and         *)
(* reapplyProjection of src/apps/api/src/control.  The registry is         *)
(* authoritative.  Each call is one database transaction followed or       *)
(* preceded by HTTP requests to Keycloak, every one of which may fail, and *)
(* nothing spans the two; the realm is also changed by others (drift).     *)
(* Organizations are found by id where the registry links them and by      *)
(* alias, here the tenant's only one, where provisioning creates them.     *)
(***************************************************************************)
EXTENDS Integers

CONSTANTS
    Callers,    \* requests to the control plane, one after the other each
    Names,      \* display names
    Ops,        \* the operations the callers use
    MaxIds,     \* bound: Organizations the realm creates under the alias
    None        \* no row, no link, no Organization

VARIABLES
    row,            \* platform.tenants: status, name, keycloak_organization_id
    organization,   \* what the realm holds under the alias: id, enabled
    ids,            \* Organizations created so far
    calls,          \* the requests
    clean           \* no request failed and nobody else changed the realm

vars == <<row, organization, ids, calls, clean>>

\* TENANT_STATUSES; "inactive" is treated as "suspended" is
Statuses == {"active", "suspended"}

Ids == 1..MaxIds

Row == [status : Statuses, name : Names, org : Ids \cup {None}]

Organization == [id : Ids, enabled : BOOLEAN]

ASSUME ProjectionAssumption ==
    /\ MaxIds \in Nat
    /\ None \notin Names \cup Nat \cup Row \cup Organization
    /\ Ops \subseteq {"provision", "suspend", "activate", "rename", "reapply"}

Call == [op : {"none", "provision", "suspend", "activate", "rename", "reapply"},
         phase : {"idle", "scan", "list", "row", "create", "link", "get", "put", "scope",
                  "update", "done"},
         name : Names \cup {None}, status : Statuses \cup {None},
         org : Ids \cup {None}, alone : BOOLEAN]

Idle == [op |-> "none", phase |-> "idle", name |-> None, status |-> None,
         org |-> None, alone |-> FALSE]

Init ==
    /\ row = None
    /\ organization = None
    /\ ids = 0
    /\ calls = [c \in Callers |-> Idle]
    /\ clean = TRUE

Resting(c) == calls[c].phase \in {"idle", "done"}

\* organizationEnabledFor
EnabledFor(status) == status = "active"

Go(c, phase) == calls' = [calls EXCEPT ![c].phase = phase]

-----------------------------------------------------------------------------
(* Requests begin and fail; the realm drifts                               *)

\* A call that begins while no other is under way is alone until one is
Begin(c, op, name) ==
    /\ Resting(c) /\ op \in Ops
    /\ calls' = [d \in Callers |->
         IF d # c THEN [calls[d] EXCEPT !.alone = FALSE]
         ELSE [Idle EXCEPT !.op = op,
                           !.phase = CASE op = "provision" -> "row"
                                       [] op = "reapply"   -> "scan"
                                       [] OTHER            -> "update",
                           !.name = IF op \in {"provision", "rename"} THEN name ELSE None,
                           !.alone = \A e \in Callers \ {c} : Resting(e)]]
    /\ UNCHANGED <<row, organization, ids, clean>>

\* A request to Keycloak or a transaction fails, or the process ends
Fail(c) ==
    /\ ~Resting(c)
    /\ calls' = [calls EXCEPT ![c] = Idle]
    /\ clean' = FALSE
    /\ UNCHANGED <<row, organization, ids>>

\* Somebody else disables, enables or deletes the Organization
Drift ==
    /\ organization # None
    /\ organization' \in {None, [organization EXCEPT !.enabled = ~@]}
    /\ calls' = [c \in Callers |-> [calls[c] EXCEPT !.alone = FALSE]]
    /\ clean' = FALSE
    /\ UNCHANGED <<row, ids>>

-----------------------------------------------------------------------------
(* provisionTenant                                                         *)

\* DEFAULT_TENANT_STATUS
DefaultStatus == "active"

\* Mutant of Upserted: status is in the conflict target's SET list
MutUpserted(name) ==
    [status |-> DefaultStatus, name |-> name, org |-> IF row = None THEN None ELSE row.org]

\* insert ... on conflict do update set name: status is left alone
Upserted(name) ==
    IF row = None THEN [status |-> DefaultStatus, name |-> name, org |-> None]
    ELSE [row EXCEPT !.name = name]

\* 1. the registry row; its status is kept for the last step
UpsertRow(c) ==
    /\ calls[c].phase = "row"
    /\ row' = Upserted(calls[c].name)
    /\ calls' = [calls EXCEPT ![c].phase = "create", ![c].status = row'.status]
    /\ UNCHANGED <<organization, ids, clean>>

\* 2. the Organization: getByAlias or create, and setEnabled(true) every time
CreateOrganization(c) ==
    /\ calls[c].phase = "create"
    /\ organization = None => ids < MaxIds
    /\ ids' = IF organization = None THEN ids + 1 ELSE ids
    /\ organization' = [id |-> IF organization = None THEN ids' ELSE organization.id,
                        enabled |-> TRUE]
    /\ calls' = [calls EXCEPT ![c].phase = "link", ![c].org = organization'.id]
    /\ UNCHANGED <<row, clean>>

\* Mutant of AfterLink: the status is not projected again
MutAfterLink == "scope"

AfterLink == "get"

\* 3. the link
LinkTenantOrganization(c) ==
    /\ calls[c].phase = "link"
    /\ row' = [row EXCEPT !.org = calls[c].org]
    /\ Go(c, AfterLink)
    /\ UNCHANGED <<organization, ids, clean>>

\* 5. the audience scope, which is not part of this model
ProvisionOrganizationScope(c) ==
    /\ calls[c].phase = "scope"
    /\ Go(c, "done")
    /\ UNCHANGED <<row, organization, ids, clean>>

-----------------------------------------------------------------------------
(* setOrganizationEnabled: a GET, and a PUT where it differs               *)

Found(c) == organization # None /\ organization.id = calls[c].org

AfterEnabled(c) == IF calls[c].op \in {"provision", "reapply"} THEN "scope" ELSE "done"

GetOrganization(c) ==
    /\ calls[c].phase = "get"
    /\ Found(c)
    /\ Go(c, IF organization.enabled = EnabledFor(calls[c].status) THEN AfterEnabled(c) ELSE "put")
    /\ UNCHANGED <<row, organization, ids, clean>>

PutOrganization(c) ==
    /\ calls[c].phase = "put"
    /\ Found(c)
    /\ organization' = [organization EXCEPT !.enabled = EnabledFor(calls[c].status)]
    /\ Go(c, AfterEnabled(c))
    /\ UNCHANGED <<row, ids, clean>>

-----------------------------------------------------------------------------
(* updateTenant                                                            *)

NextRow(c) ==
    CASE calls[c].op = "suspend"  -> [row EXCEPT !.status = "suspended"]
      [] calls[c].op = "activate" -> [row EXCEPT !.status = "active"]
      [] calls[c].op = "rename"   -> [row EXCEPT !.name = calls[c].name]

\* Read and written under FOR UPDATE.  A rename has no Keycloak half; a status
\* without a link is written and the call fails
Update(c) ==
    /\ calls[c].phase = "update" /\ row # None
    /\ row' = NextRow(c)
    /\ IF calls[c].op = "rename" THEN Go(c, "done") /\ clean' = clean
       ELSE IF row.org = None THEN calls' = [calls EXCEPT ![c] = Idle] /\ clean' = FALSE
       ELSE /\ calls' = [calls EXCEPT ![c].phase = "get", ![c].status = row'.status,
                                      ![c].org = row.org]
            /\ clean' = clean
    /\ UNCHANGED <<organization, ids>>

-----------------------------------------------------------------------------
(* reapplyProjection                                                       *)

\* scanRegistry: what the replay will be given
ScanRegistry(c) ==
    /\ calls[c].phase = "scan" /\ row # None
    /\ calls' = [calls EXCEPT ![c].phase = "list", ![c].name = row.name,
                              ![c].status = row.status, ![c].org = row.org]
    /\ UNCHANGED <<row, organization, ids, clean>>

\* compareRegistryToRealm: a repairable finding for the tenant
Drifted(c) ==
    ~Found(c) \/ organization.enabled # EnabledFor(calls[c].status)

\* listOrganizations, and provisionTenant for a tenant with a finding
Compare(c) ==
    /\ calls[c].phase = "list"
    /\ Go(c, IF Drifted(c) THEN "row" ELSE "done")
    /\ UNCHANGED <<row, organization, ids, clean>>

-----------------------------------------------------------------------------
Step(c) ==
    \/ \E op \in Ops, name \in Names : Begin(c, op, name)
    \/ UpsertRow(c) \/ CreateOrganization(c) \/ LinkTenantOrganization(c)
    \/ GetOrganization(c) \/ PutOrganization(c) \/ ProvisionOrganizationScope(c)
    \/ Update(c) \/ ScanRegistry(c) \/ Compare(c)
    \/ Fail(c)

Next == Drift \/ \E c \in Callers : Step(c)

Spec == Init /\ [][Next]_vars

-----------------------------------------------------------------------------
(* Properties                                                              *)

\* Every variable has its type.
TypeOK ==
    /\ row \in Row \cup {None}
    /\ organization \in Organization \cup {None}
    /\ ids \in 0..MaxIds
    /\ calls \in [Callers -> Call]
    /\ clean \in BOOLEAN

Projected ==
    /\ row # None /\ organization # None
    /\ row.org = organization.id
    /\ organization.enabled = EnabledFor(row.status)

\* "replaying the identical request heals": whatever failed, raced or drifted
\* before, a create, a status change or a re-apply that nothing else overlaps and
\* that returns leaves the Organization linked and enabled as the row says.
AloneHeals ==
    \A c \in Callers :
        calls[c].phase = "done" /\ calls[c].alone /\ calls[c].op # "rename" => Projected

Registry(r) == [status |-> r.status, name |-> r.name]

\* "a repair only ever pushes registry state INTO Keycloak": a re-apply that
\* nothing else overlaps changes neither the tenant's status nor its name.
AloneKeepsRegistry ==
    [][\A c \in Callers :
         calls[c].op = "reapply" /\ calls[c].alone /\ calls[c].phase = "row" /\ row' # row
           => Registry(row') = Registry(row)]_vars

\* "Nothing here writes to platform.tenants [...] except the
\* keycloak_organization_id link": no step of any re-apply changes the tenant's
\* status or its name.
ReapplyKeepsRegistry ==
    [][\A c \in Callers :
         calls[c].op = "reapply" /\ calls'[c].op = "reapply" /\ calls'[c] # calls[c]
         /\ calls[c].phase \in {"row", "link"} /\ row # None
           => Registry(row') = Registry(row)]_vars

\* "Replaying a create must not resurrect a tenant that S5 has since suspended",
\* and "Re-asserting the row's status here closes it": where no request failed
\* and nobody else changed the realm, a suspended tenant's Organization is
\* disabled once the requests have returned.
NotResurrected ==
    clean /\ (\A c \in Callers : Resting(c)) /\ row # None /\ row.status = "suspended"
      => ~organization.enabled
==============================================================================
