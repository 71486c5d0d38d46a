--------------------------- MODULE OrgUnitClosure ---------------------------
(***************************************************************************)
(* The sub-organisations of one tenant (platform.org_unit) and their       *)
(* transitive closure (platform.org_unit_closure), through which row-level *)
(* security resolves a session's groups.  A trigger keeps the closure      *)
(* (db/migrations/core-invariants.ts); control/provisioning.ts inserts     *)
(* units and control/org-unit-registry.ts moves them.  Each writer is a    *)
(* READ COMMITTED transaction: every statement, also inside the trigger,   *)
(* reads what is committed by then and what the transaction itself wrote.  *)
(* The row locks are those of SELECT FOR UPDATE, of DELETE, and of the     *)
(* foreign key on parent_id, which locks the parent FOR KEY SHARE.         *)
(***************************************************************************)
EXTENDS Integers, FiniteSets

CONSTANTS
    Units,      \* ids of platform.org_unit
    Writers,    \* transactions, one after the other each
    MaxDepth,   \* MAX_ORG_UNIT_DEPTH
    Top,        \* a null parent_id
    None        \* no such row

\* What the model takes for granted of its constants
OrgUnitAssumption ==
    /\ MaxDepth \in Nat \ {0} /\ IsFiniteSet(Units)
    /\ Top \notin Units /\ None \notin Units /\ Top # None

VARIABLES
    parent,    \* platform.org_unit: parent_id, or None where there is no row
    closure,   \* platform.org_unit_closure: <<ancestor, descendant, depth>>
    tx         \* the transactions

vars == <<parent, closure, tx>>

Edge == Units \X Units \X (0..Cardinality(Units))

Tx == [op : {"none", "insert", "move", "delete"},
       phase : {"idle", "locked", "checked", "written", "pruned", "grafted"},
       unit : Units \cup {None}, to : Units \cup {Top, None},
       dels : SUBSET Edge, adds : SUBSET Edge]

Idle == [op |-> "none", phase |-> "idle", unit |-> None, to |-> None,
         dels |-> {}, adds |-> {}]

Init ==
    /\ parent = [u \in Units |-> None]
    /\ closure = {}
    /\ tx = [w \in Writers |-> Idle]

Exists(u) == parent[u] # None

-----------------------------------------------------------------------------
(* Row locks.  Both are held to the end of the transaction.                *)

LockedForUpdate(w, u) ==
    tx[w].op \in {"move", "delete"} /\ tx[w].unit = u /\ tx[w].phase # "idle"

KeyShared(w, u) == tx[w].to = u /\ tx[w].phase \in {"written", "pruned", "grafted"}

Free(w, u) == \A v \in Writers \ {w} : ~LockedForUpdate(v, u) /\ ~KeyShared(v, u)

Shareable(w, u) == \A v \in Writers \ {w} : ~LockedForUpdate(v, u)

\* What a statement of w reads
Seen(w) == (closure \ tx[w].dels) \cup tx[w].adds

Below(C, u) == {e[2] : e \in {x \in C : x[1] = u}}

-----------------------------------------------------------------------------
(* The transactions                                                        *)

\* provisionSubOrganization begins; the row and its id are new
BeginInsert(w, u, p) ==
    /\ tx[w].phase = "idle"
    /\ ~Exists(u)
    /\ \A v \in Writers : tx[v].unit # u
    /\ tx' = [tx EXCEPT ![w] = [Idle EXCEPT !.op = "insert", !.phase = "locked",
                                            !.unit = u, !.to = p]]
    /\ UNCHANGED <<parent, closure>>

\* updateOrgUnit begins: SELECT ... FOR UPDATE of the unit
BeginMove(w, u, p) ==
    /\ tx[w].phase = "idle"
    /\ Exists(u) /\ Free(w, u)
    /\ tx' = [tx EXCEPT ![w] = [Idle EXCEPT !.op = "move", !.phase = "locked",
                                            !.unit = u, !.to = p]]
    /\ UNCHANGED <<parent, closure>>

\* A unit is deleted by SQL; nothing in the control plane does
BeginDelete(w, u) ==
    /\ tx[w].phase = "idle"
    /\ Exists(u) /\ Free(w, u)
    /\ tx' = [tx EXCEPT ![w] = [Idle EXCEPT !.op = "delete", !.phase = "checked",
                                            !.unit = u]]
    /\ UNCHANGED <<parent, closure>>

\* The ancestors of the new parent, the parent included, joined with their rows
Chain(p) == {e \in closure : e[2] = p /\ Exists(e[1])}

\* max(depth) of the subtree of u, 0 for one without descendants
Height(u) ==
    LET below == {e[3] : e \in {x \in closure : x[1] = u}} \cup {0}
    IN  CHOOSE k \in below : \A j \in below : j <= k

\* resolveAncestry, the refusals of validateReparent, the depth cap
Check(w) ==
    LET t == tx[w]
    IN  /\ t.phase = "locked"
        /\ t.to # Top => Chain(t.to) # {}
        /\ t.op = "move" => t.to \notin Below(closure, t.unit)
        /\ Cardinality(Chain(t.to)) + 1 + Height(t.unit) <= MaxDepth
        /\ tx' = [tx EXCEPT ![w].phase = "checked"]
        /\ UNCHANGED <<parent, closure>>

\* The statement.  A move to the parent the unit already has writes nothing.
\* The foreign key: the parent is there and is locked FOR KEY SHARE, which
\* waits for FOR UPDATE; a deleted unit has no children (ON DELETE RESTRICT)
Write(w) ==
    LET t == tx[w]
    IN  /\ t.phase = "checked"
        /\ t.op = "move" => t.to # parent[t.unit]
        /\ t.to \in Units => Exists(t.to) /\ Shareable(w, t.to)
        /\ t.op = "delete" => \A v \in Units : parent[v] # t.unit
        /\ tx' = [tx EXCEPT ![w].phase = "written"]
        /\ UNCHANGED <<parent, closure>>

\* The trigger's refusals: no self-row of the parent, or a cycle
Refused(w) ==
    LET t == tx[w]
    IN  \/ t.to \in Units /\ <<t.to, t.to, 0>> \notin Seen(w)
        \/ t.op = "move" /\ t.to \in Below(Seen(w), t.unit)

\* Mutant of Crossing: the edges into the moved unit only
MutCrossing(C, u) == {e \in C : e[2] = u /\ e[1] # u}

\* The edges from outside a subtree into it
Crossing(C, u) == {e \in C : e[2] \in Below(C, u) /\ e[1] \notin Below(C, u)}

\* The trigger's guards and its delete, which waits for a transaction that is
\* deleting one of its rows
Prune(w) ==
    LET t == tx[w]
        gone == CASE t.op = "move"   -> Crossing(Seen(w), t.unit)
                  [] t.op = "delete" -> {e \in Seen(w) : t.unit \in {e[1], e[2]}}
                  [] t.op = "insert" -> {}
    IN  /\ t.phase = "written"
        /\ ~Refused(w)
        /\ \A v \in Writers \ {w} : gone \cap tx[v].dels = {}
        /\ tx' = [tx EXCEPT ![w].phase = "pruned", ![w].dels = gone]
        /\ UNCHANGED <<parent, closure>>

\* Paths to the new parent, joined with those inside the subtree
Joined(C, p, u) ==
    {<<x[1], y[2], x[3] + y[3] + 1>> :
        x \in {e \in C : e[2] = p}, y \in {e \in C : e[1] = u}}

Grafts(w) ==
    LET t == tx[w]
        self == {<<t.unit, t.unit, 0>>}
    IN  CASE t.op = "move"   -> Joined(Seen(w), t.to, t.unit)
          [] t.op = "insert" -> self \cup Joined(Seen(w) \cup self, t.to, t.unit)
          [] t.op = "delete" -> {}

Keys(E) == {<<e[1], e[2]>> : e \in E}

\* The trigger's insert; org_unit_closure_edge_uk refuses an edge that is there
\* and waits for a transaction that adds or deletes it
Graft(w) ==
    /\ tx[w].phase = "pruned"
    /\ Keys(Grafts(w)) \cap Keys(Seen(w)) = {}
    /\ \A v \in Writers \ {w} :
         Keys(Grafts(w)) \cap Keys(tx[v].adds \cup tx[v].dels) = {}
    /\ tx' = [tx EXCEPT ![w].phase = "grafted", ![w].adds = Grafts(w)]
    /\ UNCHANGED <<parent, closure>>

Commit(w) ==
    LET t == tx[w]
    IN  /\ t.phase = "grafted"
        /\ parent' = [parent EXCEPT ![t.unit] = t.to]
        /\ closure' = Seen(w)
        /\ tx' = [tx EXCEPT ![w] = Idle]

\* A refusal of any of the steps, a deadlock, a failure
Abort(w) ==
    /\ tx[w].phase # "idle"
    /\ tx' = [tx EXCEPT ![w] = Idle]
    /\ UNCHANGED <<parent, closure>>

Step(w) ==
    \/ \E u \in Units, p \in Units \cup {Top} : BeginInsert(w, u, p) \/ BeginMove(w, u, p)
    \/ \E u \in Units : BeginDelete(w, u)
    \/ Check(w) \/ Write(w) \/ Prune(w) \/ Graft(w) \/ Commit(w) \/ Abort(w)

Next == \E w \in Writers : Step(w)

Spec == Init /\ [][Next]_vars

-----------------------------------------------------------------------------
(* Properties                                                              *)

\* Every variable has its type.
TypeOK ==
    /\ parent \in [Units -> Units \cup {Top, None}]
    /\ closure \in SUBSET Edge
    /\ tx \in [Writers -> Tx]

\* The k-th ancestor of a unit along parent_id, the definition the closure is
\* measured against
Up[k \in Nat] ==
    IF k = 0 THEN [u \in Units |-> IF Exists(u) THEN u ELSE Top]
    ELSE [u \in Units |-> LET a == Up[k - 1][u] IN IF a \in Units THEN parent[a] ELSE Top]

\* "The trigger keeps it exact on every insert, reparent and delete": the
\* closure is the transitive closure of parent_id with its distances.
Exact ==
    closure = {e \in Edge : Up[e[3]][e[2]] = e[1]}

\* "Enforced on BOTH writes": no unit is deeper than the cap, whatever subtrees
\* are moved.
WithinDepth ==
    \A u \in Units : Up[MaxDepth][u] \notin Units

\* The locked read is there "so a concurrent move cannot slip between the cycle
\* check and the write": no unit is its own ancestor.
Acyclic ==
    \A u \in Units, k \in 1..Cardinality(Units) : Exists(u) => Up[k][u] # u
==============================================================================
