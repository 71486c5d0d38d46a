---------------------------- MODULE MCOperations ----------------------------
(***************************************************************************)
(* Instances of ExecutionReceipts and Takeovers for TLC.                   *)
(*                                                                         *)
(* The two share no state: a behaviour of both at once says nothing that   *)
(* their own behaviours do not.  A behaviour of this module is therefore   *)
(* one of either, and the other stands in an initial state: TLC visits the *)
(* sum of their states in place of the product.                            *)
(***************************************************************************)
EXTENDS ExecutionReceipts, TLC

CONSTANTS Callers, Takeovers, ReplayCalls

VARIABLES
    part,   \* what the behaviour is one of
    tRows, tCaller, tReplay, tRuns, tAnswered, tWrites, tReleased

tVars == <<tRows, tCaller, tReplay, tRuns, tAnswered, tWrites, tReleased>>

\* An override that may answer with an error
T == INSTANCE Takeovers WITH
    Refuses <- TRUE, rows <- tRows, caller <- tCaller,
    replay <- tReplay, runs <- tRuns, answered <- tAnswered, writes <- tWrites,
    released <- tReleased

\* An override that accepts, completes or hands back what it is given
A == INSTANCE Takeovers WITH
    Refuses <- FALSE, rows <- tRows, caller <- tCaller,
    replay <- tReplay, runs <- tRuns, answered <- tAnswered, writes <- tWrites,
    released <- tReleased

ASSUME TakeoversAssumed == T!TakeoversAssumption /\ A!TakeoversAssumption

MCInit ==
    /\ part \in {"receipts", "takeovers", "accepting"}
    /\ Init
    /\ part # "receipts" =>
          \A r, s \in Requests : req[r] = req[s] /\ req[r].key \in External
    /\ T!Init

MCNext ==
    \/ part = "receipts" /\ Next /\ UNCHANGED <<part, tVars>>
    \/ part = "takeovers" /\ T!Next /\ UNCHANGED <<part, vars>>
    \/ part = "accepting" /\ A!Next /\ UNCHANGED <<part, vars>>

MCSpec == MCInit /\ [][MCNext]_<<part, vars, tVars>>

\* "two concurrent replays cannot both pass" (operation-overrides.ts): the
\* original of a takeover is performed once, whatever its override answers,
\* and its takeover is not open any more.
OriginalOnce == T!OriginalOnce

\* "a retry finds the same run instead of starting another": with calls that
\* overlap, race for the insert and die anywhere, one run works at a time
\* whose takeover is recorded, whatever the override answers; and one at all
\* when the override never refuses or throws, so that no takeover is discarded.
OneRun ==
    /\ T!OneRecordedRun
    /\ part = "accepting" => A!OneRun

Symmetry == Permutations(Requests) \cup Permutations(Bodies) \cup
            Permutations(Callers) \cup Permutations(Takeovers) \cup
            Permutations(ReplayCalls)
=============================================================================
