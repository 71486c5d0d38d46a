-------------------------- MODULE InboundReceipts --------------------------
(***************************************************************************)
(* What an inbound endpoint promises the tenant and the provider, with no  *)
(* workers, claims or advisory locks: a received delivery stays open until *)
(* it is settled once; whether an attempt may go out is decided while the  *)
(* endpoint is active and the delivery open; a payload is removed only     *)
(* after the delivery settled; a revocation is final.                      *)
(***************************************************************************)
CONSTANTS Deliveries, Settlements, None

VARIABLES
    state,    \* "none", "open" or how the delivery was settled
    mark,     \* the record of the last dispatch decision
    body,     \* "kept" or "purged"
    active    \* the endpoint is not revoked

vars == <<state, mark, body, active>>

Init ==
    /\ state = [d \in Deliveries |-> "none"]
    /\ mark = [d \in Deliveries |-> None]
    /\ body = [d \in Deliveries |-> "kept"]
    /\ active = TRUE

Receive(d) ==
    /\ state[d] = "none"
    /\ state' = [state EXCEPT ![d] = "open"]
    /\ UNCHANGED <<mark, body, active>>

\* The one step that decides whether an attempt goes out
Decide(d) ==
    /\ active
    /\ state[d] = "open"
    /\ mark'[d] # None
    /\ \A e \in Deliveries : e # d => mark'[e] = mark[e]
    /\ UNCHANGED <<state, body, active>>

Settle(d, s) ==
    /\ state[d] = "open"
    /\ state' = [state EXCEPT ![d] = s]
    /\ UNCHANGED <<mark, body, active>>

Purge(d) ==
    /\ state[d] \in Settlements
    /\ body' = [body EXCEPT ![d] = "purged"]
    /\ UNCHANGED <<state, mark, active>>

Revoke ==
    /\ active
    /\ active' = FALSE
    /\ UNCHANGED <<state, mark, body>>

Next ==
    \/ \E d \in Deliveries :
          \/ Receive(d) \/ Decide(d) \/ Purge(d)
          \/ \E s \in Settlements : Settle(d, s)
    \/ Revoke

Spec == Init /\ [][Next]_vars
=============================================================================
