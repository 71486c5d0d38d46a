------------------------- MODULE OrganizationScopes -------------------------
(***************************************************************************)
(* The Keycloak client scope mcp-resource:<alias> of every Organization:   *)
(* its audience mappers, its attachment to clients, its absence from the   *)
(* realm defaults, and its entry in the anonymous client-registration      *)
(* allow-list (src/apps/api/src/control/organization-scopes.ts).           *)
(* ensureOrganizationScope is the last step of provisioning;               *)
(* reconcileOrganizationScopes is the scope pass of a full re-apply.  Both *)
(* read a snapshot of the realm, edit it along with the realm, and write   *)
(* the allow-list as a whole.  Every request may fail, two calls may run   *)
(* at once, and others change the realm as well (drift).                   *)
(***************************************************************************)
EXTENDS FiniteSets

CONSTANTS
    Aliases,   \* of Organizations; an alias also stands for its scope and its entry
    Callers,   \* requests to the control plane, one after the other each
    Other,     \* an entry of the allow-list that belongs to the deployment
    Drifts,    \* what others do: "organization", "scope", "default", "entry"
    None

\* What the model takes for granted of its constants
ScopesAssumption ==
    /\ Other \notin Aliases /\ None \notin Aliases
    /\ Drifts \subseteq {"organization", "scope", "default", "entry"}

VARIABLES
    orgs,        \* aliases of the Organizations the realm holds
    scopes,      \* client scopes that exist
    mapped,      \* those with their audience mappers
    attached,    \* those attached to the clients
    inherited,   \* those among the realm's default scopes
    allowed,     \* allowed-client-scopes of the registration policy
    calls        \* the requests

realm == <<orgs, scopes, mapped, attached, inherited, allowed>>
vars == <<orgs, scopes, mapped, attached, inherited, allowed, calls>>

Call == [op : {"none", "ensure", "reconcile"},
         phase : {"idle", "list", "scopes", "rest", "orphans", "sweep", "create", "map",
                  "attach", "detach", "allow", "done", "refused"},
         todo : SUBSET Aliases, at : Aliases \cup {None},
         scopes : SUBSET Aliases, attached : SUBSET Aliases, inherited : SUBSET Aliases,
         policy : SUBSET (Aliases \cup {Other}), alone : BOOLEAN]

Idle == [op |-> "none", phase |-> "idle", todo |-> {}, at |-> None, scopes |-> {},
         attached |-> {}, inherited |-> {}, policy |-> {}, alone |-> FALSE]

Init ==
    /\ orgs = {} /\ scopes = {} /\ mapped = {} /\ attached = {} /\ inherited = {}
    /\ allowed = {Other}
    /\ calls = [c \in Callers |-> Idle]

Resting(c) == calls[c].phase \in {"idle", "done", "refused"}

-----------------------------------------------------------------------------
(* Requests begin and fail; the realm drifts                               *)

BeginCall(c, call) ==
    /\ Resting(c)
    /\ calls' = [d \in Callers |->
         IF d # c THEN [calls[d] EXCEPT !.alone = FALSE]
         ELSE [call EXCEPT !.alone = \A e \in Callers \ {c} : Resting(e)]]

\* provisionTenant has created the Organization
BeginEnsure(c, a) ==
    /\ BeginCall(c, [Idle EXCEPT !.op = "ensure", !.phase = "scopes", !.todo = {a}])
    /\ orgs' = orgs \cup {a}
    /\ UNCHANGED <<scopes, mapped, attached, inherited, allowed>>

Usable(a) ==
    a \in mapped /\ a \in attached /\ a \notin inherited /\ a \in allowed

\* compareOrganizationScopes, read as one: some finding
ScopeDrift ==
    \/ \E a \in orgs : ~Usable(a)
    \/ ~(scopes \cup (allowed \ {Other}) \subseteq orgs)

\* reapplyProjection for all tenants gets to its scope pass
BeginReconcile(c) ==
    /\ ScopeDrift
    /\ BeginCall(c, [Idle EXCEPT !.op = "reconcile", !.phase = "list"])
    /\ UNCHANGED realm

\* Keycloak does not answer, or the process ends
Fail(c) ==
    /\ ~Resting(c)
    /\ calls' = [calls EXCEPT ![c] = Idle]
    /\ UNCHANGED realm

\* deleteClientScope, by whoever: Keycloak detaches it and keeps the entry
DeleteScopes(gone) ==
    /\ scopes' = scopes \ gone
    /\ mapped' = mapped \ gone
    /\ attached' = attached \ gone
    /\ inherited' = inherited \ gone

Drift ==
    /\ \/ \E a \in orgs : /\ "organization" \in Drifts
                          /\ orgs' = orgs \ {a}
                          /\ UNCHANGED <<scopes, mapped, attached, inherited, allowed>>
       \/ \E a \in scopes : /\ "scope" \in Drifts
                            /\ DeleteScopes({a})
                            /\ UNCHANGED <<orgs, allowed>>
       \/ \E a \in scopes : /\ "default" \in Drifts
                            /\ inherited' = inherited \cup {a}
                            /\ UNCHANGED <<orgs, scopes, mapped, attached, allowed>>
       \/ \E a \in allowed : /\ "entry" \in Drifts
                             /\ allowed' = allowed \ {a}
                             /\ UNCHANGED <<orgs, scopes, mapped, attached, inherited>>
    /\ calls' = [c \in Callers |-> [calls[c] EXCEPT !.alone = FALSE]]

-----------------------------------------------------------------------------
(* The snapshot                                                            *)

\* listOrganizations, before the pass reads anything else
ListOrganizations(c) ==
    /\ calls[c].phase = "list"
    /\ calls' = [calls EXCEPT ![c].phase = "scopes", ![c].todo = orgs]
    /\ UNCHANGED realm

ReadScopes(c) ==
    /\ calls[c].phase = "scopes"
    /\ calls' = [calls EXCEPT ![c].phase = "rest", ![c].scopes = scopes]
    /\ UNCHANGED realm

\* The clients, the realm defaults and the policy, read as one
ReadRest(c) ==
    /\ calls[c].phase = "rest"
    /\ calls' = [calls EXCEPT ![c].phase = IF calls[c].op = "reconcile" THEN "orphans" ELSE "create",
                              ![c].attached = attached, ![c].inherited = inherited,
                              ![c].policy = allowed,
                              ![c].at = IF calls[c].op = "ensure"
                                        THEN CHOOSE a \in calls[c].todo : TRUE ELSE None]
    /\ UNCHANGED realm

-----------------------------------------------------------------------------
(* Orphans go first                                                        *)

\* A scope that somebody else has deleted already is answered 404
DeleteOrphan(c) ==
    /\ calls[c].phase = "orphans"
    /\ \E a \in calls[c].scopes \ calls[c].todo :
         /\ a \in scopes
         /\ DeleteScopes({a})
         /\ calls' = [calls EXCEPT ![c].scopes = @ \ {a}]
    /\ UNCHANGED <<orgs, allowed>>

OrphansDone(c) ==
    /\ calls[c].phase = "orphans"
    /\ calls[c].scopes \subseteq calls[c].todo
    /\ calls' = [calls EXCEPT ![c].phase = "sweep"]
    /\ UNCHANGED realm

\* validateConfiguration: every entry names a client scope
Valid(list) == list \subseteq scopes \cup {Other}

\* Mutant of Noted: the snapshot keeps the list as it was read
MutNoted(c, list) == calls[c].policy

\* policy.allowedScopes = next
Noted(c, list) == list

\* setRegistrationPolicyScopes: the whole list, where it changes.  A refused
\* list ends the call
SetPolicy(c, list, next) ==
    IF list = calls[c].policy THEN allowed' = allowed /\ calls' = [calls EXCEPT ![c] = next]
    ELSE IF Valid(list)
    THEN allowed' = list /\ calls' = [calls EXCEPT ![c] = [next EXCEPT !.policy = Noted(c, list)]]
    ELSE allowed' = allowed /\ calls' = [calls EXCEPT ![c].phase = "refused"]

\* The next alias to ensure, if there is one
Following(call, todo) ==
    IF todo = {} THEN [call EXCEPT !.phase = "done", !.at = None]
    ELSE [call EXCEPT !.phase = "create", !.at = CHOOSE a \in todo : TRUE]

Sweep(c) ==
    /\ calls[c].phase = "sweep"
    /\ SetPolicy(c, {e \in calls[c].policy : e \in Aliases => e \in calls[c].todo},
                 Following(calls[c], calls[c].todo))
    /\ UNCHANGED <<orgs, scopes, mapped, attached, inherited>>

-----------------------------------------------------------------------------
(* ensureWithSnapshot.  A request about a scope that is gone is answered   *)
(* 404, a scope that is there already 409: both end the call, as Fail does *)

CreateScope(c) ==
    LET a == calls[c].at
    IN  /\ calls[c].phase = "create"
        /\ a \notin calls[c].scopes => a \notin scopes
        /\ scopes' = IF a \in calls[c].scopes THEN scopes ELSE scopes \cup {a}
        /\ calls' = [calls EXCEPT ![c].phase = "map", ![c].scopes = @ \cup {a}]
        /\ UNCHANGED <<orgs, mapped, attached, inherited, allowed>>

\* The audience mappers are read when they are needed, not from the snapshot
MapAudiences(c) ==
    LET a == calls[c].at
    IN  /\ calls[c].phase = "map"
        /\ a \in scopes
        /\ mapped' = mapped \cup {a}
        /\ calls' = [calls EXCEPT ![c].phase = "attach"]
        /\ UNCHANGED <<orgs, scopes, attached, inherited, allowed>>

AttachClients(c) ==
    LET a == calls[c].at
    IN  /\ calls[c].phase = "attach"
        /\ a \notin calls[c].attached => a \in scopes
        /\ attached' = IF a \in calls[c].attached THEN attached ELSE attached \cup {a}
        /\ calls' = [calls EXCEPT ![c].phase = "detach", ![c].attached = @ \cup {a}]
        /\ UNCHANGED <<orgs, scopes, mapped, inherited, allowed>>

DetachRealm(c) ==
    LET a == calls[c].at
    IN  /\ calls[c].phase = "detach"
        /\ inherited' = IF a \in calls[c].inherited THEN inherited \ {a} ELSE inherited
        /\ calls' = [calls EXCEPT ![c].phase = "allow", ![c].inherited = @ \ {a}]
        /\ UNCHANGED <<orgs, scopes, mapped, attached, allowed>>

\* Append-only, onto the list of the snapshot
Appended(policy, a) == policy \cup {a}

AllowRegistration(c) ==
    /\ calls[c].phase = "allow"
    /\ LET left == calls[c].todo \ {calls[c].at}
       IN  SetPolicy(c, Appended(calls[c].policy, calls[c].at),
                     [Following(calls[c], left) EXCEPT !.todo = left])
    /\ UNCHANGED <<orgs, scopes, mapped, attached, inherited>>

-----------------------------------------------------------------------------
Step(c) ==
    \/ \E a \in Aliases : BeginEnsure(c, a)
    \/ BeginReconcile(c) \/ Fail(c)
    \/ ListOrganizations(c) \/ ReadScopes(c) \/ ReadRest(c)
    \/ DeleteOrphan(c) \/ OrphansDone(c) \/ Sweep(c)
    \/ CreateScope(c) \/ MapAudiences(c) \/ AttachClients(c) \/ DetachRealm(c)
    \/ AllowRegistration(c)

Next == Drift \/ \E c \in Callers : Step(c)

Spec == Init /\ [][Next]_vars

-----------------------------------------------------------------------------
(* Properties                                                              *)

\* Every variable has its type.
TypeOK ==
    /\ orgs \subseteq Aliases /\ scopes \subseteq Aliases
    /\ mapped \subseteq scopes /\ attached \subseteq scopes /\ inherited \subseteq scopes
    /\ allowed \subseteq Aliases \cup {Other}
    /\ calls \in [Callers -> Call]

\* The scope of every Organization is usable, and there is no scope and no entry
\* of any other alias.
Converged ==
    /\ \A a \in orgs : Usable(a)
    /\ scopes \subseteq orgs /\ allowed \subseteq orgs \cup {Other}

\* "Orphans go first so a rename [...] converges in one pass": whatever failed,
\* raced or drifted before, a reconciliation that nothing else overlaps converges
\* where it returns, and where Keycloak refuses a list of it, that is for an
\* Organization whose scope is gone and whose entry is not: no entry of an
\* Organization that is gone ever stands in its way.
AloneConverges ==
    \A c \in Callers :
        calls[c].alone /\ calls[c].op = "reconcile"
          => /\ calls[c].phase = "done" => Converged
             /\ calls[c].phase = "refused" => (allowed \cap orgs) \ scopes # {}

\* "The list is EDITED, never replaced": a call that nothing else overlaps
\* removes no entry but those of Organizations that are gone.
AloneEdits ==
    [][\A c \in Callers :
         calls[c].alone /\ calls'[c].alone /\ calls'[c] # calls[c]
           => allowed \ allowed' \subseteq Aliases \ orgs]_vars

\* "Append-only: the entries already there are somebody's policy": no
\* provisioning removes the entry of an Organization that exists, whatever other
\* calls run.
EnsureAppends ==
    [][\A c \in Callers :
         calls[c].phase = "allow" /\ calls'[c] # calls[c]
           => allowed \ allowed' \subseteq Aliases \ orgs]_vars

\* "a scope whose Organization was simply not listed must not be deleted": no
\* reconciliation deletes the scope of an Organization that exists.
LiveScopeKept ==
    [][\A c \in Callers :
         calls[c].phase = "orphans" /\ calls'[c] # calls[c]
           => scopes \ scopes' \subseteq Aliases \ orgs]_vars

\* A missing scope is what "a replay or re-apply closes", and orphans go first
\* so that it "converges in one pass": Keycloak refuses no list that a
\* reconciliation writes while nothing else overlaps it.
NeverRefused ==
    \A c \in Callers :
        calls[c].op = "reconcile" /\ calls[c].alone => calls[c].phase # "refused"
==============================================================================
