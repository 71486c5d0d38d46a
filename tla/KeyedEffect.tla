----------------------------- MODULE KeyedEffect -----------------------------
(***************************************************************************)
(* What an idempotency key promises, as the life of the key.  A key is     *)
(* free, claimed by one call with one input, admitted for effects, and at  *)
(* last done or unknown.  The effect takes place once, between admission   *)
(* and outcome; a key is freed only before admission; an outcome is final; *)
(* and whoever is told of a success is told of the effect of a key that is *)
(* done.                                                                   *)
(***************************************************************************)
CONSTANTS Keys, Bodies, Requests, None

VARIABLES
    slot,      \* None, or who claimed the key, for what, and how far it is
    effects,   \* effects that took place
    told       \* successes that were answered

vars == <<slot, effects, told>>

\* The effect of the call that holds a key
Of(k) == [key |-> k, body |-> slot[k].body, by |-> slot[k].by]

At(k, stage) == slot[k] # None /\ slot[k].stage = stage

Sets(k, stage, b, r) ==
    slot' = [slot EXCEPT ![k] = [stage |-> stage, body |-> b, by |-> r]]

Moves(k, from, to) == At(k, from) /\ Sets(k, to, slot[k].body, slot[k].by)

Tells(e, reply) == told' = IF reply THEN told \cup {e} ELSE told

Init ==
    /\ slot = [k \in Keys |-> None]
    /\ effects = {}
    /\ told = {}

Claim(k, b, r) ==
    /\ slot[k] = None
    /\ Sets(k, "claimed", b, r)
    /\ UNCHANGED <<effects, told>>

Abandon(k) ==
    /\ At(k, "claimed")
    /\ slot' = [slot EXCEPT ![k] = None]
    /\ UNCHANGED <<effects, told>>

Admit(k) ==
    /\ Moves(k, "claimed", "admitted")
    /\ UNCHANGED <<effects, told>>

Perform(k) ==
    /\ At(k, "admitted")
    /\ \A e \in effects : e.key # k
    /\ effects' = effects \cup {Of(k)}
    /\ UNCHANGED <<slot, told>>

Finish(k, reply) ==
    /\ Moves(k, "admitted", "done")
    /\ Of(k) \in effects
    /\ Tells(Of(k), reply)
    /\ UNCHANGED effects

Doubt(k) ==
    /\ Moves(k, "admitted", "unknown")
    /\ UNCHANGED <<effects, told>>

Reply(k) ==
    /\ At(k, "done")
    /\ Tells(Of(k), TRUE)
    /\ UNCHANGED <<slot, effects>>

\* A database-only Operation is claimed, takes effect and is done in one commit
AtOnce(k, b, r, reply) ==
    LET e == [key |-> k, body |-> b, by |-> r]
    IN  /\ slot[k] = None
        /\ \A f \in effects : f.key # k
        /\ Sets(k, "done", b, r)
        /\ effects' = effects \cup {e}
        /\ Tells(e, reply)

KeyStep(k) ==
    \/ Abandon(k) \/ Admit(k) \/ Perform(k) \/ Doubt(k) \/ Reply(k)
    \/ \E reply \in BOOLEAN : Finish(k, reply)
    \/ \E b \in Bodies, r \in Requests :
          Claim(k, b, r) \/ \E reply \in BOOLEAN : AtOnce(k, b, r, reply)

Next == \E k \in Keys : KeyStep(k)

Spec == Init /\ [][Next]_vars
=============================================================================
