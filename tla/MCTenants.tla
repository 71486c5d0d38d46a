------------------------------ MODULE MCTenants ------------------------------
(***************************************************************************)
(* Instances of TenantProjection, OrganizationScopes and OrgUnitClosure    *)
(* for TLC.  The three share no state; a behaviour of this module is one   *)
(* of a single component, and the others stand in their initial state, so  *)
(* that TLC visits the sum of their states in place of the product.        *)
(***************************************************************************)
EXTENDS TenantProjection, TLC

CONSTANTS
    Parts,   \* what a behaviour may be one of
    Aliases, ScopeCallers, Other, Drifts,
    Units, Writers, MaxDepth, Top

VARIABLES
    part,
    orgs, scopes, mapped, attached, inherited, allowed, sCalls,
    parent, closure, tx

sVars == <<orgs, scopes, mapped, attached, inherited, allowed, sCalls>>

uVars == <<parent, closure, tx>>

S == INSTANCE OrganizationScopes WITH Callers <- ScopeCallers, calls <- sCalls

U == INSTANCE OrgUnitClosure

ASSUME TenantsAssumed == S!ScopesAssumption /\ U!OrgUnitAssumption

MCInit == part \in Parts /\ Init /\ S!Init /\ U!Init

MCNext ==
    \/ part = "projection" /\ Next /\ UNCHANGED <<part, sVars, uVars>>
    \/ part = "scopes" /\ S!Next /\ UNCHANGED <<part, vars, uVars>>
    \/ part = "units" /\ U!Next /\ UNCHANGED <<part, vars, sVars>>

MCSpec == MCInit /\ [][MCNext]_<<part, vars, sVars, uVars>>

\* "Orphans go first so a rename [...] converges in one pass": whatever failed,
\* raced or drifted before, a reconciliation that nothing else overlaps leaves,
\* where it returns, the scope of every Organization usable and nothing of any
\* other alias; and where Keycloak refuses a list of it, that is for an
\* Organization whose scope is gone and whose entry is not.
AloneConverges == S!AloneConverges

\* The org_unit_closure trigger and the checks before a move, with one
\* transaction at a time: after any sequence of inserts, moves and deletes the
\* closure is the transitive closure of parent_id with its distances, and no
\* unit is deeper than the cap, whatever subtrees were moved.
TreeIsSound == part = "units" => U!Exact /\ U!WithinDepth

\* The locked read is there "so a concurrent move cannot slip between the cycle
\* check and the write": no unit is its own ancestor.
Acyclic == part = "units" => U!Acyclic

Symmetry == Permutations(Callers) \cup Permutations(Names)

UnitSymmetry == Permutations(Units) \cup Permutations(Writers)
==============================================================================
