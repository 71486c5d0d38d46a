---------------------------- MODULE TakeoverProofs ----------------------------
(***************************************************************************)
(* Proofs about operation overrides: the original of a takeover is         *)
(* performed once, and of the recorded takeovers one at most has a run     *)
(* that works, whatever the override answers; an override that never       *)
(* refuses works on one run at a time.  The two readings of Takeovers are  *)
(* the instances T and A of MCOperations; they share their variables and   *)
(* differ in one action.                                                   *)
(***************************************************************************)
EXTENDS MCOperations, FiniteSetTheorems, TLAPS

-----------------------------------------------------------------------------
(* The original is performed once                                          *)

\* A takeover whose original was performed has a run that says so, and is
\* neither open nor recorded again
Performed ==
    \A t \in Takeovers :
        /\ tWrites[t] \in {0, 1}
        /\ tWrites[t] = 1 => /\ tRuns[t] = "performed"
                             /\ tRows[t] # None => ~tRows[t].open

\* What the proof needs of the types
RowsTyped ==
    /\ tRows \in [Takeovers -> T!Row \cup {None}]
    /\ tCaller \in [Callers -> T!Call]
    /\ tReplay \in [ReplayCalls -> Takeovers \cup {None}]
    /\ tRuns \in [Takeovers -> {"none", "active", "rejected", "performed"}]
    /\ tWrites \in [Takeovers -> Nat]

OnceInv == RowsTyped /\ Performed

\* An override that does not refuse is one that may.
LEMMA AcceptingIsOne == A!Next => T!Next
  <1>1. ASSUME NEW c \in Callers, A!CallStep(c) PROVE T!CallStep(c)
    BY <1>1 DEF A!CallStep, A!Lookup, A!AnswerOpen, A!OwnerFinished, A!CloseFinished,
       A!Record, A!RecordConflict, A!Raced, A!OverrideAccepts, A!OverrideSettles, A!OverrideCompletes,
       A!OverrideRefuses, A!Discard, A!StoreOwner, A!StoreCompleted, A!CallFails,
       A!Retry, A!Open, A!Closed, A!Conflict, A!Over,
       T!CallStep, T!Lookup, T!AnswerOpen, T!OwnerFinished, T!CloseFinished,
       T!Record, T!RecordConflict, T!Raced, T!OverrideAccepts, T!OverrideSettles, T!OverrideCompletes,
       T!OverrideRefuses, T!Discard, T!StoreOwner, T!StoreCompleted, T!CallFails,
       T!Retry, T!Open, T!Closed, T!Conflict, T!Over
  <1>2. ASSUME NEW t \in Takeovers, A!RunRejected(t) PROVE T!RunRejected(t)
    BY <1>2 DEF A!RunRejected, T!RunRejected
  <1>3. ASSUME NEW t \in Takeovers, NEW r \in ReplayCalls, A!PrepareReplay(r, t)
        PROVE  T!PrepareReplay(r, t)
    BY <1>3 DEF A!PrepareReplay, T!PrepareReplay, A!Open, T!Open
  <1>4. ASSUME NEW r \in ReplayCalls, A!ReplayWrites(r) \/ A!ReplayFails(r)
        PROVE  T!ReplayWrites(r) \/ T!ReplayFails(r)
    BY <1>4 DEF A!ReplayWrites, T!ReplayWrites, A!ReplayFails, T!ReplayFails,
                A!StillOpen, T!StillOpen
  <1> QED BY <1>1, <1>2, <1>3, <1>4 DEF A!Next, T!Next

\* A row that is written is a row.
LEMMA RowWritten ==
    ASSUME NEW r \in T!Row
    PROVE  /\ r # None => [r EXCEPT !.open = FALSE] \in T!Row
           /\ [r EXCEPT !.open = FALSE].open = FALSE
           /\ [r EXCEPT !.open = FALSE].owned = r.owned
           /\ \A o \in BOOLEAN : [owned |-> TRUE, open |-> o] \in T!Row
           /\ r.open \in BOOLEAN
           /\ [owned |-> FALSE, open |-> TRUE] \in T!Row
  BY DEF T!Row

\* None is no row.
LEMMA NewRow == None \notin T!Row /\ [owned |-> FALSE, open |-> TRUE] # None
  <1>1. None \notin T!Row
    BY TakeoversAssumed DEF T!TakeoversAssumption, T!Row
  <1>2. [owned |-> FALSE, open |-> TRUE] \in T!Row
    BY DEF T!Row
  <1> QED BY <1>1, <1>2

\* The rows keep their type, and a row is open that was, or is recorded.
LEMMA RowsStep ==
    ASSUME RowsTyped, T!Next
    PROVE  /\ tRows' \in [Takeovers -> T!Row \cup {None}]
           /\ \A t \in Takeovers : tRows'[t] # None /\ tRows'[t].open =>
                 \/ tRows[t] # None /\ tRows[t].open
                 \/ \E c \in Callers : T!Record(c, t)
  <1>0. tRows \in [Takeovers -> T!Row \cup {None}]
    BY DEF RowsTyped
  <1> DEFINE Kept == /\ tRows' \in [Takeovers -> T!Row \cup {None}]
                     /\ \A t \in Takeovers : tRows'[t] # None /\ tRows'[t].open =>
                           \/ tRows[t] # None /\ tRows[t].open
                           \/ \E c \in Callers : T!Record(c, t)
  <1>1. CASE tRows' = tRows
    BY <1>0, <1>1
  <1>2. ASSUME NEW i, tRows' = T!Closed(i) PROVE Kept
    <2>1. CASE i \in Takeovers /\ tRows[i] # None
      <3>1. /\ tRows'[i] = [tRows[i] EXCEPT !.open = FALSE] /\ tRows[i] \in T!Row
            /\ tRows' = [tRows EXCEPT ![i] = tRows'[i]]
        BY <1>0, <1>2, <2>1 DEF T!Closed
      <3>2. tRows'[i] \in T!Row /\ tRows'[i].open = FALSE
        BY <2>1, <3>1, RowWritten
      <3> QED BY <1>0, <3>1, <3>2
    <2>2. CASE i \notin Takeovers \/ tRows[i] = None
      BY <1>0, <1>2, <2>2 DEF T!Closed
    <2> QED BY <2>1, <2>2
  <1>3. ASSUME NEW c \in Callers, NEW t \in Takeovers, T!Record(c, t) PROVE Kept
    <2>1. tRows' = [tRows EXCEPT ![t] = [owned |-> FALSE, open |-> TRUE]]
      BY <1>3 DEF T!Record
    <2>2. [owned |-> FALSE, open |-> TRUE] \in T!Row
      BY DEF T!Row
    <2> QED BY <1>0, <1>3, <2>1, <2>2
  <1>4. ASSUME NEW c \in Callers, T!Discard(c) PROVE Kept
    <2>1. \A t \in Takeovers : tRows'[t] = tRows[t] \/ tRows'[t] = None
      BY <1>0, <1>4 DEF T!Discard
    <2>2. tRows' \in [Takeovers -> T!Row \cup {None}]
      BY <1>0, <1>4 DEF T!Discard
    <2> QED BY <2>1, <2>2
  <1>5. ASSUME NEW c \in Callers, T!StoreOwner(c) PROVE Kept
    <2> DEFINE i == tCaller[c].id
               o == tRows[i].open /\ tCaller[c].phase # "settled"
    <2>1. tRows' = IF tRows[i] = None THEN tRows
                   ELSE [tRows EXCEPT ![i] = [owned |-> TRUE, open |-> o]]
      BY <1>5 DEF T!StoreOwner
    <2>2. o \in BOOLEAN /\ (o => tRows[i].open)
      OBVIOUS
    <2> HIDE DEF i, o
    <2>3. CASE i \in Takeovers /\ tRows[i] # None
      <3>1. [owned |-> TRUE, open |-> o] \in T!Row
        BY <2>2 DEF T!Row
      <3> QED BY <1>0, <2>1, <2>2, <2>3, <3>1 DEF i
    <2>4. CASE i \notin Takeovers \/ tRows[i] = None
      BY <1>0, <2>1, <2>4
    <2> QED BY <2>3, <2>4
  <1>6. ASSUME NEW r \in ReplayCalls, T!ReplayWrites(r) PROVE Kept
    <2>1. tRows' = T!Closed(tReplay[r])
      BY <1>6 DEF T!ReplayWrites, T!Closed, T!StillOpen
    <2> QED BY <1>2, <2>1
  <1>7. ASSUME NEW c \in Callers, T!CallStep(c) PROVE Kept
    BY <1>1, <1>2, <1>3, <1>4, <1>5, <1>7
       DEF T!CallStep, T!Lookup, T!AnswerOpen, T!OwnerFinished, T!CloseFinished,
           T!RecordConflict, T!Raced, T!OverrideAccepts, T!OverrideSettles, T!OverrideCompletes,
           T!OverrideRefuses, T!StoreCompleted, T!CallFails, T!Retry
  <1> HIDE DEF Kept
  <1>8. ASSUME tRows' = tRows PROVE Kept
    BY <1>1, <1>8 DEF Kept
  <1>9. ASSUME NEW t \in Takeovers, NEW r \in ReplayCalls,
               T!RunRejected(t) \/ T!PrepareReplay(r, t) \/ T!ReplayFails(r)
        PROVE  tRows' = tRows
    BY <1>9 DEF T!RunRejected, T!PrepareReplay, T!ReplayFails
  <1>10. ASSUME NEW t \in Takeovers, T!RunRejected(t) PROVE tRows' = tRows
    BY <1>10 DEF T!RunRejected
  <1>11. ASSUME NEW r \in ReplayCalls, T!ReplayFails(r) PROVE tRows' = tRows
    BY <1>11 DEF T!ReplayFails
  <1>12. Kept
    BY <1>6, <1>7, <1>8, <1>9, <1>10, <1>11 DEF T!Next
  <1> QED BY <1>12 DEF Kept

\* The runs and the count keep their types; a performed run stays performed,
\* and the original is counted where its takeover was open.
LEMMA RunsStep ==
    ASSUME RowsTyped, T!Next
    PROVE  /\ tRuns' \in [Takeovers -> {"none", "active", "rejected", "performed"}]
           /\ tWrites' \in [Takeovers -> Nat]
           /\ \A t \in Takeovers :
                 \/ /\ tWrites'[t] = tWrites[t]
                    /\ tRuns[t] = "performed" => tRuns'[t] = "performed"
                 \/ /\ tWrites'[t] = tWrites[t] + 1 /\ tRuns'[t] = "performed"
                    /\ tRows[t] # None /\ tRows[t].open
                    /\ tRows'[t] # None => ~tRows'[t].open
  <1> DEFINE States == {"none", "active", "rejected", "performed"}
             Kept == /\ tRuns' \in [Takeovers -> States]
                     /\ tWrites' \in [Takeovers -> Nat]
                     /\ \A t \in Takeovers :
                           \/ /\ tWrites'[t] = tWrites[t]
                              /\ tRuns[t] = "performed" => tRuns'[t] = "performed"
                           \/ /\ tWrites'[t] = tWrites[t] + 1 /\ tRuns'[t] = "performed"
                              /\ tRows[t] # None /\ tRows[t].open
                              /\ tRows'[t] # None => ~tRows'[t].open
  <1>0. tRuns \in [Takeovers -> States] /\ tWrites \in [Takeovers -> Nat]
        /\ tRows \in [Takeovers -> T!Row \cup {None}]
    BY DEF RowsTyped
  <1>1. ASSUME tRuns' = tRuns, tWrites' = tWrites PROVE Kept
    BY <1>0, <1>1
  <1>2. ASSUME NEW c \in Callers, T!OverrideAccepts(c) PROVE Kept
    <2>1. /\ tWrites' = tWrites
          /\ tRuns' = [tRuns EXCEPT ![tCaller[c].id] = IF @ = "none" THEN "active" ELSE @]
      BY <1>2 DEF T!OverrideAccepts
    <2> QED BY <1>0, <2>1
  <1>2s. ASSUME NEW c \in Callers, T!OverrideSettles(c) PROVE Kept
    <2>1. /\ tWrites' = tWrites /\ tRuns[tCaller[c].id] # "performed"
          /\ tRuns' = [tRuns EXCEPT ![tCaller[c].id] = "rejected"]
      BY <1>2s DEF T!OverrideSettles
    <2> QED BY <1>0, <2>1
  <1>3. ASSUME NEW t \in Takeovers, T!RunRejected(t) PROVE Kept
    <2>1. /\ tWrites' = tWrites /\ tRuns[t] = "active"
          /\ tRuns' = [tRuns EXCEPT ![t] = "rejected"]
      BY <1>3 DEF T!RunRejected
    <2> QED BY <1>0, <2>1
  <1>4. ASSUME NEW r \in ReplayCalls, T!ReplayWrites(r) PROVE Kept
    <2> DEFINE i == tReplay[r]
    <2>1. /\ i \in Takeovers /\ tRows[i] # None /\ tRows[i].open
          /\ tRows' = [tRows EXCEPT ![i].open = FALSE]
          /\ tWrites' = [tWrites EXCEPT ![i] = @ + 1]
          /\ tRuns' = [tRuns EXCEPT ![i] = "performed"]
      BY <1>4 DEF T!ReplayWrites, T!StillOpen, RowsTyped
    <2> HIDE DEF i
    <2>2. tRows'[i] = [tRows[i] EXCEPT !.open = FALSE] /\ tRows[i] \in T!Row
      BY <1>0, <2>1
    <2>3. ~tRows'[i].open
      BY <2>2, RowWritten
    <2> QED BY <1>0, <2>1, <2>3
  <1>5. ASSUME NEW c \in Callers, T!CallStep(c)
        PROVE  \/ T!OverrideAccepts(c) \/ T!OverrideSettles(c)
               \/ tRuns' = tRuns /\ tWrites' = tWrites
    BY <1>5
       DEF T!CallStep, T!Lookup, T!AnswerOpen, T!OwnerFinished, T!CloseFinished,
           T!Record, T!RecordConflict, T!Raced, T!OverrideCompletes,
           T!OverrideRefuses, T!Discard, T!StoreOwner, T!StoreCompleted, T!CallFails,
           T!Retry
  <1>6. ASSUME NEW t \in Takeovers, NEW r \in ReplayCalls, T!PrepareReplay(r, t)
        PROVE  tRuns' = tRuns /\ tWrites' = tWrites
    BY <1>6 DEF T!PrepareReplay
  <1>7. ASSUME NEW r \in ReplayCalls, T!ReplayFails(r)
        PROVE  tRuns' = tRuns /\ tWrites' = tWrites
    BY <1>7 DEF T!ReplayFails
  <1> HIDE DEF Kept
  <1>8. Kept
    BY <1>1, <1>2, <1>2s, <1>3, <1>4, <1>5, <1>6, <1>7 DEF T!Next
  <1> QED BY <1>8 DEF Kept

\* The calls and the replays keep their types.
LEMMA CallsTyped ==
    ASSUME RowsTyped, T!Next
    PROVE  /\ tCaller' \in [Callers -> T!Call]
           /\ tReplay' \in [ReplayCalls -> Takeovers \cup {None}]
  <1>0. /\ tCaller \in [Callers -> T!Call]
        /\ \A c \in Callers : tCaller[c] \in T!Call
        /\ tReplay \in [ReplayCalls -> Takeovers \cup {None}]
    BY DEF RowsTyped
  <1>1. T!Over \in T!Call
    BY DEF T!Over, T!Call
  <1>2. ASSUME NEW t \in Takeovers, NEW p \in {"found", "executing", "recording"}
        PROVE  [phase |-> p, id |-> t] \in T!Call /\ [phase |-> p, id |-> None] \in T!Call
    BY DEF T!Call
  <1>3. ASSUME NEW c \in Callers,
               NEW p \in {"idle", "finished", "raced", "accepted", "settled",
                         "completed", "refused"}
        PROVE  [tCaller[c] EXCEPT !.phase = p] \in T!Call
    BY <1>0 DEF T!Call
  <1>4. T!Open # {} => (CHOOSE t \in T!Open : TRUE) \in Takeovers
    BY DEF T!Open
  <1>5. ASSUME NEW c \in Callers, T!CallStep(c)
        PROVE  \E k \in T!Call : tCaller' = [tCaller EXCEPT ![c] = k]
    <2>1. CASE T!Lookup(c) \/ T!Raced(c)
      <3>1. [phase |-> "recording", id |-> None] \in T!Call
        BY DEF T!Call
      <3>2. ASSUME T!Open # {} PROVE
               /\ [phase |-> "found", id |-> CHOOSE t \in T!Open : TRUE] \in T!Call
               /\ [phase |-> "executing", id |-> CHOOSE t \in T!Open : TRUE] \in T!Call
        BY <1>2, <1>4, <3>2
      <3> DEFINE k == CHOOSE t \in T!Open : TRUE
      <3>3. \/ tCaller' = [tCaller EXCEPT ![c] = T!Over]
            \/ tCaller' = [tCaller EXCEPT ![c] = [phase |-> "recording", id |-> None]]
            \/ T!Open # {} /\ tCaller' = [tCaller EXCEPT ![c] = [phase |-> "found", id |-> k]]
            \/ T!Open # {}
               /\ tCaller' = [tCaller EXCEPT ![c] = [phase |-> "executing", id |-> k]]
        <4> HIDE DEF k
        <4> QED BY <2>1 DEF T!Lookup, T!Raced, k
      <3> QED BY <1>1, <3>1, <3>2, <3>3
    <2>2. CASE \E t \in Takeovers : T!Record(c, t)
      BY <1>2, <2>2 DEF T!Record
    <2>3. CASE T!AnswerOpen(c) \/ T!Discard(c) \/ T!StoreOwner(c) \/ T!StoreCompleted(c)
               \/ T!CallFails(c)
      BY <1>1, <2>3 DEF T!AnswerOpen, T!Discard, T!StoreOwner, T!StoreCompleted,
                        T!CallFails
    <2>4. CASE T!CloseFinished(c)
      <3>1. [phase |-> "recording", id |-> None] \in T!Call
        BY DEF T!Call
      <3> QED BY <2>4, <3>1 DEF T!CloseFinished
    <2>5. CASE T!OwnerFinished(c) \/ T!RecordConflict(c) \/ T!OverrideAccepts(c)
               \/ T!OverrideSettles(c) \/ T!OverrideCompletes(c)
               \/ T!OverrideRefuses(c) \/ T!Retry(c)
      <3>1. \E p \in {"idle", "finished", "raced", "accepted", "settled", "completed",
                     "refused"} :
               tCaller' = [tCaller EXCEPT ![c] = [tCaller[c] EXCEPT !.phase = p]]
        BY <1>0, <2>5 DEF T!OwnerFinished, T!RecordConflict, T!OverrideAccepts,
                          T!OverrideSettles, T!OverrideCompletes,
                          T!OverrideRefuses, T!Retry
      <3> QED BY <1>3, <3>1
    <2> QED BY <1>5, <2>1, <2>2, <2>3, <2>4, <2>5 DEF T!CallStep
  <1>6. ASSUME NEW c \in Callers, T!CallStep(c) PROVE tReplay' = tReplay
    BY <1>6
       DEF T!CallStep, T!Lookup, T!AnswerOpen, T!OwnerFinished, T!CloseFinished,
           T!Record, T!RecordConflict, T!Raced, T!OverrideAccepts, T!OverrideSettles, T!OverrideCompletes,
           T!OverrideRefuses, T!Discard, T!StoreOwner, T!StoreCompleted, T!CallFails,
           T!Retry
  <1>7. CASE \E c \in Callers : T!CallStep(c)
    BY <1>0, <1>5, <1>6, <1>7
  <1>8. ASSUME NEW t \in Takeovers, T!RunRejected(t)
        PROVE  tCaller' = tCaller /\ tReplay' = tReplay
    BY <1>8 DEF T!RunRejected
  <1>9. ASSUME NEW t \in Takeovers, NEW r \in ReplayCalls, T!PrepareReplay(r, t)
        PROVE  tCaller' = tCaller /\ tReplay' \in [ReplayCalls -> Takeovers \cup {None}]
    BY <1>0, <1>9 DEF T!PrepareReplay
  <1>10. ASSUME NEW r \in ReplayCalls, T!ReplayWrites(r) \/ T!ReplayFails(r)
         PROVE  tCaller' = tCaller /\ tReplay' = [tReplay EXCEPT ![r] = None]
    BY <1>10 DEF T!ReplayWrites, T!ReplayFails
  <1> QED BY <1>0, <1>7, <1>8, <1>9, <1>10 DEF T!Next

\* The invariant of the takeovers, by a step of either reading.
LEMMA OnceStep == ASSUME OnceInv, T!Next PROVE OnceInv'
  <1>1. RowsTyped'
    BY RowsStep, RunsStep, CallsTyped DEF OnceInv, RowsTyped
  <1>2. ASSUME NEW t \in Takeovers
        PROVE  /\ tWrites'[t] \in {0, 1}
               /\ tWrites'[t] = 1 => /\ tRuns'[t] = "performed"
                                     /\ tRows'[t] # None => ~tRows'[t].open
    <2>1. /\ tWrites[t] \in {0, 1}
          /\ tWrites[t] = 1 => /\ tRuns[t] = "performed"
                               /\ tRows[t] # None => ~tRows[t].open
      BY DEF OnceInv, Performed
    <2>2. CASE /\ tWrites'[t] = tWrites[t]
               /\ tRuns[t] = "performed" => tRuns'[t] = "performed"
      <3>1. tRows'[t] # None /\ tRows'[t].open =>
               (tRows[t] # None /\ tRows[t].open) \/ tRuns[t] = "none"
        BY RowsStep DEF OnceInv, T!Record
      <3> QED BY <2>1, <2>2, <3>1
    <2>3. CASE /\ tWrites'[t] = tWrites[t] + 1 /\ tRuns'[t] = "performed"
               /\ tRows[t] # None /\ tRows[t].open
               /\ tRows'[t] # None => ~tRows'[t].open
      BY <2>1, <2>3
    <2> QED BY <2>2, <2>3, RunsStep DEF OnceInv
  <1> QED BY <1>1, <1>2 DEF OnceInv, Performed

\* "two concurrent replays cannot both pass" (operation-overrides.ts): for any
\* number of calls, takeovers and replays, and whatever the override answers,
\* the original of a takeover is performed at most once, and its takeover is
\* then not open.
THEOREM OriginalPerformedOnce == MCSpec => []OriginalOnce
  <1>1. MCInit => OnceInv
    <2> SUFFICES ASSUME MCInit PROVE OnceInv
      OBVIOUS
    <2>1. T!Init
      BY DEF MCInit
    <2>2. RowsTyped
      BY <2>1 DEF T!Init, RowsTyped, T!Call
    <2> QED BY <2>1, <2>2 DEF T!Init, OnceInv, Performed
  <1>2. OnceInv /\ [MCNext]_<<part, vars, tVars>> => OnceInv'
    <2>1. OnceInv /\ UNCHANGED tVars => OnceInv'
      BY DEF OnceInv, RowsTyped, Performed, tVars
    <2> QED BY <2>1, OnceStep, AcceptingIsOne DEF MCNext
  <1>3. OnceInv => OriginalOnce
    BY DEF OnceInv, Performed, OriginalOnce, T!OriginalOnce, T!Open
  <1> QED BY <1>1, <1>2, <1>3, PTL DEF MCSpec

-----------------------------------------------------------------------------
(* One run at a time                                                       *)

IsOpen(t) == tRows[t] # None /\ tRows[t].open

\* The run has ended
RunEnded(t) == tRuns[t] \in {"rejected", "performed"}

\* The open takeover is one, and of those that are recorded it is the only one
\* whose run may work
OneOpen ==
    /\ \A t, u \in Takeovers : IsOpen(t) /\ IsOpen(u) => t = u
    /\ \A t \in Takeovers : tRows[t] # None /\ ~RunEnded(t) => IsOpen(t)

\* The phases of a call that has a takeover, and those in which it closes it
WithTakeover == {"found", "finished", "executing", "accepted", "settled", "completed"}
Closing == {"finished", "settled", "completed"}

\* A call that closes its takeover knows that the run has ended
CallShape ==
    \A c \in Callers :
        /\ tCaller[c].phase \in WithTakeover => tCaller[c].id \in Takeovers
        /\ tCaller[c].phase \in Closing => RunEnded(tCaller[c].id)

OneRunInv == RowsTyped /\ OneOpen /\ CallShape

\* Under an override that does not refuse, the takeovers of the calls and of the
\* runs that work are recorded
Recorded ==
    /\ \A c \in Callers :
          /\ tCaller[c].phase # "refused"
          /\ tCaller[c].phase \in WithTakeover => tRows[tCaller[c].id] # None
    /\ \A t \in Takeovers : tRuns[t] = "active" => tRows[t] # None

\* A row that stays is closed only when its run has ended, and it stays unless
\* a call is refused.
LEMMA RowsStay ==
    ASSUME RowsTyped, CallShape, T!Next, NEW t \in Takeovers, tRows[t] # None
    PROVE  \/ tRows'[t] = None /\ \E c \in Callers : tCaller[c].phase = "refused"
           \/ tRows'[t] # None /\ (~IsOpen(t) \/ IsOpen(t)' \/ RunEnded(t)')
  <1>0. /\ tRows \in [Takeovers -> T!Row \cup {None}] /\ tRows[t] \in T!Row
        /\ tRuns \in [Takeovers -> {"none", "active", "rejected", "performed"}]
        /\ tReplay \in [ReplayCalls -> Takeovers \cup {None}]
        /\ None \notin T!Row
    BY TakeoversAssumed DEF RowsTyped, T!TakeoversAssumption, T!Row
  <1>1. CASE tRows' = tRows
    BY <1>1 DEF IsOpen
  <1>2. ASSUME NEW i, tRows' = T!Closed(i), i = t => RunEnded(t)'
        PROVE  tRows'[t] # None /\ (~IsOpen(t) \/ IsOpen(t)' \/ RunEnded(t)')
    <2>1. CASE i # t
      BY <1>0, <1>2, <2>1 DEF T!Closed, IsOpen
    <2>2. CASE i = t
      <3>1. tRows'[t] = [tRows[t] EXCEPT !.open = FALSE]
        BY <1>0, <1>2, <2>2 DEF T!Closed
      <3>2. tRows'[t] \in T!Row
        BY <1>0, <3>1, RowWritten
      <3> QED BY <1>0, <1>2, <2>2, <3>2
    <2> QED BY <2>1, <2>2
  <1>3. ASSUME NEW c \in Callers, T!CloseFinished(c) \/ T!StoreCompleted(c)
        PROVE  tRows'[t] # None /\ (~IsOpen(t) \/ IsOpen(t)' \/ RunEnded(t)')
    <2>1. /\ tRows' = T!Closed(tCaller[c].id) /\ tRuns' = tRuns
          /\ tCaller[c].phase \in Closing
      BY <1>3 DEF T!CloseFinished, T!StoreCompleted, Closing
    <2>2. RunEnded(tCaller[c].id)
      BY <2>1 DEF CallShape
    <2>3. tCaller[c].id = t => RunEnded(t)'
      BY <2>1, <2>2 DEF RunEnded
    <2> QED BY <1>2, <2>1, <2>3
  <1>4. ASSUME NEW c \in Callers, NEW u \in Takeovers, T!Record(c, u)
        PROVE  tRows'[t] = tRows[t]
    BY <1>0, <1>4 DEF T!Record
  <1>5. ASSUME NEW c \in Callers, T!StoreOwner(c)
        PROVE  tRows'[t] # None /\ (~IsOpen(t) \/ IsOpen(t)' \/ RunEnded(t)')
    <2> DEFINE i == tCaller[c].id
               o == tRows[i].open /\ tCaller[c].phase # "settled"
               r == [owned |-> TRUE, open |-> o]
    <2>1. tRuns' = tRuns /\ (tRows' = tRows \/ tRows' = [tRows EXCEPT ![i] = r])
      BY <1>5 DEF T!StoreOwner
    <2>2. r \in T!Row /\ r.open = o
      BY DEF T!Row
    <2>3. tCaller[c].phase = "settled" => RunEnded(i)
      BY DEF CallShape, Closing
    <2>4. o \/ tRows[i].open = FALSE \/ tCaller[c].phase = "settled"
      BY <1>0 DEF T!Row
    <2> HIDE DEF r
    <2>5. tRows'[t] = tRows[t] \/ (tRows'[t] = r /\ i = t)
      BY <1>0, <2>1
    <2>6. CASE tRows'[t] = tRows[t]
      BY <2>6 DEF IsOpen
    <2>7. CASE tRows'[t] = r /\ i = t
      <3>1. RunEnded(i) => RunEnded(t)'
        BY <2>1, <2>7 DEF RunEnded
      <3>2. tRows'[t] # None /\ tRows'[t].open = o
        BY <1>0, <2>2, <2>7
      <3> QED BY <2>3, <2>7, <3>1, <3>2 DEF IsOpen
    <2> QED BY <2>5, <2>6, <2>7
  <1>6. ASSUME NEW r \in ReplayCalls, T!ReplayWrites(r)
        PROVE  tRows'[t] # None /\ (~IsOpen(t) \/ IsOpen(t)' \/ RunEnded(t)')
    <2>1. /\ tRows' = T!Closed(tReplay[r])
          /\ tRuns' = [tRuns EXCEPT ![tReplay[r]] = "performed"]
      BY <1>6 DEF T!ReplayWrites, T!Closed, T!StillOpen
    <2>2. tReplay[r] = t => RunEnded(t)'
      BY <1>0, <2>1 DEF RunEnded
    <2> QED BY <1>2, <2>1, <2>2
  <1>7. ASSUME NEW c \in Callers, T!Discard(c)
        PROVE  tRows'[t] = tRows[t] \/ (tRows'[t] = None /\ tCaller[c].phase = "refused")
    BY <1>0, <1>7 DEF T!Discard
  <1>8. ASSUME NEW c \in Callers, T!CallStep(c)
        PROVE  \/ tRows' = tRows \/ T!Discard(c)
               \/ T!CloseFinished(c) \/ T!StoreCompleted(c) \/ T!StoreOwner(c)
               \/ \E u \in Takeovers : T!Record(c, u)
    BY <1>8
       DEF T!CallStep, T!Lookup, T!AnswerOpen, T!OwnerFinished, T!RecordConflict,
           T!Raced, T!OverrideAccepts, T!OverrideSettles, T!OverrideCompletes, T!OverrideRefuses,
           T!CallFails, T!Retry
  <1>9. CASE \E c \in Callers : T!CallStep(c)
    BY <1>1, <1>3, <1>4, <1>5, <1>7, <1>8, <1>9 DEF IsOpen
  <1>10. ASSUME NEW u \in Takeovers,
                T!RunRejected(u) \/ \E r \in ReplayCalls : T!PrepareReplay(r, u)
         PROVE  tRows' = tRows
    BY <1>10 DEF T!RunRejected, T!PrepareReplay
  <1>11. ASSUME NEW r \in ReplayCalls, T!ReplayFails(r) PROVE tRows' = tRows
    BY <1>11 DEF T!ReplayFails
  <1> QED BY <1>1, <1>6, <1>9, <1>10, <1>11 DEF T!Next

\* A run starts when the override accepts the call of its takeover, and one
\* that has ended stays so.
LEMMA RunsLater ==
    ASSUME RowsTyped, T!Next, NEW t \in Takeovers
    PROVE  /\ RunEnded(t) => RunEnded(t)'
           /\ tRuns'[t] = "none" => tRuns[t] = "none"
           /\ tRuns'[t] = "active" =>
                 \/ tRuns[t] = "active"
                 \/ /\ tRuns[t] = "none" /\ tRows' = tRows
                    /\ \E c \in Callers : /\ tCaller[c].phase = "executing"
                                          /\ tCaller[c].id = t
  <1>0. tRuns \in [Takeovers -> {"none", "active", "rejected", "performed"}]
    BY DEF RowsTyped
  <1>1. CASE tRuns' = tRuns
    BY <1>1 DEF RunEnded
  <1>2. ASSUME NEW c \in Callers, T!OverrideAccepts(c)
        PROVE  \/ tRuns'[t] = tRuns[t]
               \/ /\ tRuns[t] = "none" /\ tRuns'[t] = "active" /\ tCaller[c].id = t
                  /\ tCaller[c].phase = "executing" /\ tRows' = tRows
    BY <1>0, <1>2 DEF T!OverrideAccepts
  <1>2s. ASSUME NEW c \in Callers, T!OverrideSettles(c)
         PROVE  \/ tRuns'[t] = tRuns[t]
                \/ tRuns'[t] = "rejected" /\ tRuns[t] # "performed"
    BY <1>0, <1>2s DEF T!OverrideSettles
  <1>3. ASSUME NEW u \in Takeovers, T!RunRejected(u)
        PROVE  tRuns'[t] = tRuns[t] \/ tRuns'[t] = "rejected"
    BY <1>0, <1>3 DEF T!RunRejected
  <1>4. ASSUME NEW r \in ReplayCalls, T!ReplayWrites(r)
        PROVE  tRuns'[t] = tRuns[t] \/ tRuns'[t] = "performed"
    BY <1>0, <1>4 DEF T!ReplayWrites
  <1>5. ASSUME NEW c \in Callers, T!CallStep(c)
        PROVE  T!OverrideAccepts(c) \/ T!OverrideSettles(c) \/ tRuns' = tRuns
    BY <1>5
       DEF T!CallStep, T!Lookup, T!AnswerOpen, T!OwnerFinished, T!CloseFinished,
           T!Record, T!RecordConflict, T!Raced, T!OverrideCompletes,
           T!OverrideRefuses, T!Discard, T!StoreOwner, T!StoreCompleted, T!CallFails,
           T!Retry
  <1>6. ASSUME NEW u \in Takeovers, NEW r \in ReplayCalls,
               T!PrepareReplay(r, u)
        PROVE  tRuns' = tRuns
    BY <1>6 DEF T!PrepareReplay
  <1>7. ASSUME NEW r \in ReplayCalls, T!ReplayFails(r) PROVE tRuns' = tRuns
    BY <1>7 DEF T!ReplayFails
  <1>8. \/ tRuns'[t] = tRuns[t]
        \/ tRuns'[t] \in {"rejected", "performed"}
        \/ /\ tRuns[t] = "none" /\ tRuns'[t] = "active" /\ tRows' = tRows
           /\ \E c \in Callers : /\ tCaller[c].phase = "executing"
                                 /\ tCaller[c].id = t
    BY <1>2, <1>2s, <1>3, <1>4, <1>5, <1>6, <1>7 DEF T!Next
  <1> QED BY <1>8 DEF RunEnded

\* A row appears when it is recorded, while no takeover is open.
LEMMA Appears ==
    ASSUME RowsTyped, T!Next, NEW t \in Takeovers, tRows[t] = None, tRows'[t] # None
    PROVE  \E c \in Callers : T!Record(c, t)
  <1>0. tRows \in [Takeovers -> T!Row \cup {None}]
        /\ tReplay \in [ReplayCalls -> Takeovers \cup {None}]
    BY DEF RowsTyped
  <1>1. ASSUME NEW i PROVE tRows' = T!Closed(i) => tRows'[t] = tRows[t]
    BY <1>0 DEF T!Closed
  <1>2. ASSUME NEW c \in Callers, T!Discard(c) PROVE tRows'[t] = tRows[t]
    BY <1>0, <1>2 DEF T!Discard
  <1>3. ASSUME NEW c \in Callers, T!StoreOwner(c) PROVE tRows'[t] = tRows[t]
    BY <1>0, <1>3 DEF T!StoreOwner
  <1>4. ASSUME NEW c \in Callers, NEW u \in Takeovers, T!Record(c, u), u # t
        PROVE  tRows'[t] = tRows[t]
    BY <1>0, <1>4 DEF T!Record
  <1>5. ASSUME NEW r \in ReplayCalls, T!ReplayWrites(r) PROVE tRows'[t] = tRows[t]
    BY <1>0, <1>5 DEF T!ReplayWrites, T!StillOpen
  <1>6. ASSUME NEW c \in Callers, T!CallStep(c), ~\E u \in Takeovers : T!Record(c, u)
        PROVE  tRows'[t] = tRows[t]
    BY <1>1, <1>2, <1>3, <1>6
       DEF T!CallStep, T!Lookup, T!AnswerOpen, T!OwnerFinished, T!CloseFinished,
           T!RecordConflict, T!Raced, T!OverrideAccepts, T!OverrideSettles, T!OverrideCompletes,
           T!OverrideRefuses, T!StoreCompleted, T!CallFails, T!Retry
  <1>7. ASSUME NEW u \in Takeovers,
               T!RunRejected(u) \/ \E r \in ReplayCalls : T!PrepareReplay(r, u)
        PROVE  tRows' = tRows
    BY <1>7 DEF T!RunRejected, T!PrepareReplay
  <1>8. ASSUME NEW r \in ReplayCalls, T!ReplayFails(r) PROVE tRows' = tRows
    BY <1>8 DEF T!ReplayFails
  <1> QED BY <1>4, <1>5, <1>6, <1>7, <1>8 DEF T!Next

\* One takeover stays open at most, and its run is the one that can work.
LEMMA OneOpenStep ==
    ASSUME OneRunInv, T!Next PROVE OneOpen'
  <1>0. RowsTyped /\ OneOpen /\ CallShape
    BY DEF OneRunInv
  <1>1. ASSUME NEW t \in Takeovers, NEW c \in Callers, T!Record(c, t)
        PROVE  /\ \A u \in Takeovers : ~IsOpen(u) /\ (u # t => tRows'[u] = tRows[u])
               /\ IsOpen(t)'
    <2>1. /\ T!Open = {}
          /\ tRows' = [tRows EXCEPT ![t] = [owned |-> FALSE, open |-> TRUE]]
      BY <1>1 DEF T!Record, T!Conflict
    <2>2. tRows'[t] = [owned |-> FALSE, open |-> TRUE]
          /\ \A u \in Takeovers : u # t => tRows'[u] = tRows[u]
      BY <1>0, <2>1 DEF RowsTyped
    <2>3. tRows'[t] # None /\ tRows'[t].open
      <3>1. tRows'[t] # None
        BY <2>2, NewRow
      <3>2. tRows'[t].open
        BY <2>2
      <3> QED BY <3>1, <3>2
    <2> QED BY <2>1, <2>2, <2>3 DEF IsOpen, T!Open
  <1>2. ASSUME NEW t \in Takeovers, IsOpen(t)'
        PROVE  IsOpen(t) \/ \E c \in Callers : T!Record(c, t)
    BY <1>0, <1>2, RowsStep DEF IsOpen
  <1>3. ASSUME NEW t \in Takeovers, NEW u \in Takeovers, IsOpen(t)', IsOpen(u)'
        PROVE  t = u
    <2>1. CASE IsOpen(t) /\ IsOpen(u)
      BY <1>0, <2>1 DEF OneOpen
    <2>2. CASE \E c \in Callers : T!Record(c, t)
      <3>1. ~IsOpen(u) /\ (u # t => tRows'[u] = tRows[u])
        BY <1>1, <2>2
      <3> QED BY <1>3, <3>1 DEF IsOpen
    <2>3. CASE \E c \in Callers : T!Record(c, u)
      <3>1. ~IsOpen(t) /\ (t # u => tRows'[t] = tRows[t])
        BY <1>1, <2>3
      <3> QED BY <1>3, <3>1 DEF IsOpen
    <2> QED BY <1>2, <1>3, <2>1, <2>2, <2>3
  <1>4. ASSUME NEW t \in Takeovers, ~RunEnded(t)', tRows'[t] # None
        PROVE  IsOpen(t)'
    <2>1. ~RunEnded(t)
      BY <1>0, <1>4, RunsLater
    <2>2. CASE tRows[t] = None
      BY <1>0, <1>1, <1>4, <2>2, Appears
    <2>3. CASE tRows[t] # None
      <3>1. IsOpen(t)
        BY <1>0, <2>1, <2>3 DEF OneOpen
      <3> QED BY <1>0, <1>4, <2>3, <3>1, RowsStay
    <2> QED BY <2>2, <2>3
  <1> QED BY <1>3, <1>4 DEF OneOpen

\* A call has its takeover from before, or one that is recorded; it closes one
\* whose run has ended.
LEMMA CallMoves ==
    ASSUME RowsTyped, CallShape, T!Next, NEW c \in Callers
    PROVE  /\ tCaller'[c].phase \in WithTakeover =>
                 \/ tCaller'[c].id = tCaller[c].id /\ tCaller[c].phase \in WithTakeover
                 \/ tCaller'[c].id \in Takeovers /\ tRows'[tCaller'[c].id] # None
           /\ tCaller'[c].phase \in Closing =>
                 tRuns'[tCaller'[c].id] \in {"rejected", "performed"}
  <1> DEFINE Moved(d) ==
        /\ tCaller'[d].phase \in WithTakeover =>
              \/ tCaller'[d].id = tCaller[d].id /\ tCaller[d].phase \in WithTakeover
              \/ tCaller'[d].id \in Takeovers /\ tRows'[tCaller'[d].id] # None
        /\ tCaller'[d].phase \in Closing =>
              tRuns'[tCaller'[d].id] \in {"rejected", "performed"}
  <1>0. /\ tCaller \in [Callers -> T!Call]
        /\ tRows \in [Takeovers -> T!Row \cup {None}]
        /\ tRuns \in [Takeovers -> {"none", "active", "rejected", "performed"}]
    BY DEF RowsTyped
  <1>1. ASSUME NEW d \in Callers, tCaller[d].phase \in Closing
        PROVE  tRuns'[tCaller[d].id] \in {"rejected", "performed"}
    <2>1. tCaller[d].id \in Takeovers /\ RunEnded(tCaller[d].id)
      BY <1>1 DEF CallShape, WithTakeover, Closing
    <2> QED BY <2>1, RunsLater DEF RunEnded
  <1>2. ASSUME NEW d \in Callers, tCaller'[d] = tCaller[d] PROVE Moved(d)
    BY <1>1, <1>2
  <1>3. ASSUME NEW d \in Callers, T!CallStep(d) PROVE Moved(d)
    <2>1. CASE T!Lookup(d) \/ T!Raced(d)
      <3> DEFINE k == CHOOSE t \in T!Open : TRUE
      <3>1. T!Open # {} => k \in Takeovers /\ tRows[k] # None
        BY DEF T!Open
      <3>2. tRows' = tRows
        BY <2>1 DEF T!Lookup, T!Raced
      <3> HIDE DEF k
      <3>3. \/ tCaller'[d] = [phase |-> "over", id |-> None]
            \/ tCaller'[d] = [phase |-> "recording", id |-> None]
            \/ T!Open # {} /\ tCaller'[d] = [phase |-> "found", id |-> k]
            \/ T!Open # {} /\ tCaller'[d] = [phase |-> "executing", id |-> k]
        BY <1>0, <2>1 DEF T!Lookup, T!Raced, T!Over, k
      <3> QED BY <3>1, <3>2, <3>3 DEF WithTakeover, Closing
    <2>2. ASSUME NEW t \in Takeovers, T!Record(d, t) PROVE Moved(d)
      <3>1. tCaller'[d] = [phase |-> "executing", id |-> t]
            /\ tRows'[t] = [owned |-> FALSE, open |-> TRUE]
        BY <1>0, <2>2 DEF T!Record
      <3>2. tRows'[t] # None
        BY <3>1, NewRow
      <3> QED BY <3>1, <3>2 DEF Closing
    <2>3. CASE \/ T!AnswerOpen(d) \/ T!Discard(d) \/ T!StoreOwner(d)
               \/ T!StoreCompleted(d) \/ T!CallFails(d) \/ T!CloseFinished(d)
      <3>1. tCaller'[d].phase \in {"over", "recording"}
        BY <1>0, <2>3 DEF T!AnswerOpen, T!Discard, T!StoreOwner, T!StoreCompleted,
                          T!CallFails, T!CloseFinished, T!Over
      <3> QED BY <3>1 DEF WithTakeover, Closing
    <2>4. CASE \/ T!OwnerFinished(d) \/ T!RecordConflict(d) \/ T!OverrideAccepts(d)
               \/ T!OverrideSettles(d) \/ T!OverrideCompletes(d) \/ T!OverrideRefuses(d)
               \/ T!Retry(d)
      <3>1. PICK p \in {"finished", "settled", "completed", "accepted", "raced", "idle",
                       "refused"} :
               /\ tCaller'[d] = [tCaller[d] EXCEPT !.phase = p]
               /\ p \in WithTakeover => tCaller[d].phase \in {"found", "executing"}
               /\ p \in {"finished", "completed"} =>
                     tRuns' = tRuns /\ RunEnded(tCaller[d].id)
               /\ p = "settled" => tRuns' = [tRuns EXCEPT ![tCaller[d].id] = "rejected"]
        BY <1>0, <2>4 DEF T!OwnerFinished, T!RecordConflict, T!OverrideAccepts,
                          T!OverrideSettles, T!OverrideCompletes, T!OverrideRefuses,
                          T!Retry, RunEnded, WithTakeover
      <3>2. tCaller'[d].phase = p /\ tCaller'[d].id = tCaller[d].id
        BY <1>0, <3>1 DEF T!Call
      <3>3. p = "settled" => tRuns'[tCaller[d].id] = "rejected"
        <4>1. tCaller[d].phase = "executing" \/ tCaller[d].phase = "found" =>
                 tCaller[d].id \in Takeovers
          BY DEF CallShape, WithTakeover
        <4> QED BY <1>0, <3>1, <4>1 DEF WithTakeover
      <3>4. p \in Closing => tRuns'[tCaller[d].id] \in {"rejected", "performed"}
        BY <3>1, <3>3 DEF Closing, RunEnded
      <3>5. p \in WithTakeover => tCaller[d].phase \in WithTakeover
        BY <3>1 DEF WithTakeover
      <3> QED BY <3>2, <3>4, <3>5
    <2> HIDE DEF Moved
    <2> QED BY <1>3, <2>1, <2>2, <2>3, <2>4 DEF T!CallStep
  <1>4. ASSUME NEW d \in Callers, T!CallStep(d), d # c PROVE tCaller'[c] = tCaller[c]
    BY <1>0, <1>4
       DEF T!CallStep, T!Lookup, T!AnswerOpen, T!OwnerFinished, T!CloseFinished,
           T!Record, T!RecordConflict, T!Raced, T!OverrideAccepts, T!OverrideSettles,
           T!OverrideCompletes, T!OverrideRefuses, T!Discard, T!StoreOwner,
           T!StoreCompleted, T!CallFails, T!Retry
  <1>5. \/ tCaller' = tCaller
        \/ \E d \in Callers : T!CallStep(d)
    BY DEF T!Next, T!RunRejected, T!PrepareReplay, T!ReplayWrites, T!ReplayFails
  <1> HIDE DEF Moved
  <1>6. Moved(c)
    BY <1>2, <1>3, <1>4, <1>5
  <1> QED BY <1>6 DEF Moved

\* Every step keeps the invariant, whatever the override answers.
LEMMA OneRunStep == ASSUME OneRunInv, T!Next PROVE OneOpen' /\ CallShape'
  <1>1. \A c \in Callers : tCaller'[c].phase \in WithTakeover =>
           tCaller'[c].id \in Takeovers
    BY CallMoves DEF OneRunInv, CallShape
  <1>2. \A c \in Callers : tCaller'[c].phase \in Closing =>
           tRuns'[tCaller'[c].id] \in {"rejected", "performed"}
    BY CallMoves DEF OneRunInv
  <1> QED BY <1>1, <1>2, OneOpenStep DEF CallShape, RunEnded

\* Under an override that does not refuse, no takeover is discarded.
LEMMA RecordedStep == ASSUME OneRunInv, Recorded, A!Next PROVE Recorded'
  <1>0. RowsTyped /\ CallShape /\ T!Next
        /\ tCaller \in [Callers -> T!Call]
    BY AcceptingIsOne DEF OneRunInv, RowsTyped
  <1>1. \A t \in Takeovers : tRows[t] # None => tRows'[t] # None
    BY <1>0, RowsStay DEF Recorded
  <1>2. ASSUME NEW c \in Callers, tCaller'[c].phase \in WithTakeover
        PROVE  tRows'[tCaller'[c].id] # None
    <2>1. CASE tCaller'[c].id = tCaller[c].id /\ tCaller[c].phase \in WithTakeover
      BY <1>0, <1>1, <2>1 DEF CallShape, Recorded
    <2> QED BY <1>0, <1>2, <2>1, CallMoves
  <1>3. ASSUME NEW c \in Callers PROVE tCaller'[c].phase # "refused"
    <2>1. ASSUME NEW d \in Callers, A!CallStep(d) PROVE tCaller'[c].phase # "refused"
      <3>1. \/ tCaller'[c] = tCaller[c]
            \/ \E p \in {"finished", "settled", "completed", "accepted", "raced", "idle"} :
                  tCaller'[c] = [tCaller[c] EXCEPT !.phase = p]
            \/ tCaller'[c].phase \in {"over", "recording", "found", "executing"}
        <4>1. CASE c # d
          BY <1>0, <2>1, <4>1
             DEF A!CallStep, A!Lookup, A!AnswerOpen, A!OwnerFinished, A!CloseFinished,
                 A!Record, A!RecordConflict, A!Raced, A!OverrideAccepts,
                 A!OverrideSettles, A!OverrideCompletes, A!OverrideRefuses, A!Discard,
                 A!StoreOwner, A!StoreCompleted, A!CallFails, A!Retry
        <4>2. CASE c = d
          <5>1. CASE \/ A!AnswerOpen(d) \/ A!Discard(d) \/ A!StoreOwner(d)
                     \/ A!StoreCompleted(d) \/ A!CallFails(d) \/ A!CloseFinished(d)
            <6>1. tCaller'[c] \in {[phase |-> "over", id |-> None],
                                  [phase |-> "recording", id |-> None]}
              BY <1>0, <4>2, <5>1
                 DEF A!AnswerOpen, A!Discard, A!StoreOwner, A!StoreCompleted,
                     A!CallFails, A!CloseFinished, A!Over
            <6> QED BY <6>1
          <5>2. CASE \/ A!OwnerFinished(d) \/ A!RecordConflict(d) \/ A!OverrideAccepts(d)
                     \/ A!OverrideSettles(d) \/ A!OverrideCompletes(d) \/ A!Retry(d)
            BY <1>0, <4>2, <5>2
               DEF A!OwnerFinished, A!RecordConflict, A!OverrideAccepts,
                   A!OverrideSettles, A!OverrideCompletes, A!Retry
          <5>3. CASE A!Lookup(d) \/ A!Raced(d)
            <6> DEFINE k == CHOOSE t \in A!Open : TRUE
            <6>1. tCaller'[c] \in {[phase |-> "over", id |-> None],
                                  [phase |-> "recording", id |-> None],
                                  [phase |-> "found", id |-> k],
                                  [phase |-> "executing", id |-> k]}
              <7> HIDE DEF k
              <7> QED BY <1>0, <4>2, <5>3 DEF A!Lookup, A!Raced, A!Over, k
            <6> HIDE DEF k
            <6> QED BY <6>1
          <5>4. CASE \E t \in Takeovers : A!Record(d, t)
            BY <1>0, <4>2, <5>4 DEF A!Record
          <5>5. ~A!OverrideRefuses(d)
            BY DEF A!OverrideRefuses
          <5> QED BY <2>1, <5>1, <5>2, <5>3, <5>4, <5>5 DEF A!CallStep
        <4> QED BY <4>1, <4>2
      <3> QED BY <1>0, <3>1 DEF Recorded, T!Call
    <2>2. \/ tCaller' = tCaller
          \/ \E d \in Callers : A!CallStep(d)
      BY DEF A!Next, A!RunRejected, A!PrepareReplay, A!ReplayWrites, A!ReplayFails
    <2> QED BY <2>1, <2>2 DEF Recorded
  <1>4. ASSUME NEW t \in Takeovers, tRuns'[t] = "active" PROVE tRows'[t] # None
    <2>1. CASE tRuns[t] = "active"
      BY <1>1, <2>1 DEF Recorded
    <2>2. CASE /\ tRuns[t] = "none" /\ tRows' = tRows
               /\ \E c \in Callers : tCaller[c].phase = "executing" /\ tCaller[c].id = t
      BY <2>2 DEF Recorded, WithTakeover
    <2> QED BY <1>0, <1>4, <2>1, <2>2, RunsLater
  <1> QED BY <1>2, <1>3, <1>4 DEF Recorded

\* The instances count as their modules do.
LEMMA SameCardinality ==
    \A S : A!Cardinality(S) = Cardinality(S) /\ T!Cardinality(S) = Cardinality(S)
  BY DEF A!Cardinality, T!Cardinality, Cardinality, A!IsFiniteSet, T!IsFiniteSet,
         IsFiniteSet

\* A set without two members has at most one.
LEMMA AtMostOne ==
    ASSUME NEW S, \A t, u \in S : t = u
    PROVE  Cardinality(S) <= 1
  <1>1. CASE S = {}
    BY <1>1, FS_EmptySet
  <1>2. CASE S # {}
    <2>1. PICK t \in S : S = {t}
      BY <1>2
    <2>2. Cardinality(S) = 1
      BY <2>1, FS_Singleton
    <2> QED BY <2>2
  <1> QED BY <1>1, <1>2

\* "a retry finds the same run instead of starting another" (operation-
\* overrides.ts): for any number of calls that overlap, race for the insert and
\* die anywhere, and whatever the override answers, one run works at a time
\* whose takeover is recorded.  An override that never refuses or throws
\* discards no takeover: it works on one run, without the restriction.
THEOREM OneRunAtATime == MCSpec => []OneRun
  <1> DEFINE Inv == OneRunInv /\ (part = "accepting" => Recorded)
  <1>1. MCInit => Inv
    <2> SUFFICES ASSUME MCInit PROVE Inv
      OBVIOUS
    <2>1. T!Init
      BY DEF MCInit
    <2>2. RowsTyped
      BY <2>1 DEF T!Init, RowsTyped, T!Call
    <2>3. OneOpen /\ CallShape /\ Recorded
      BY <2>1 DEF T!Init, OneOpen, CallShape, Recorded, IsOpen, WithTakeover, Closing
    <2> QED BY <2>2, <2>3 DEF OneRunInv
  <1>2. Inv /\ [MCNext]_<<part, vars, tVars>> => Inv'
    <2> SUFFICES ASSUME Inv, [MCNext]_<<part, vars, tVars>> PROVE Inv'
      OBVIOUS
    <2>1. part' = part
      BY DEF MCNext
    <2>2. ASSUME T!Next PROVE OneRunInv'
      <3>1. RowsTyped'
        BY <2>2, RowsStep, RunsStep, CallsTyped DEF OneRunInv, RowsTyped
      <3> QED BY <2>2, <3>1, OneRunStep DEF OneRunInv
    <2>3. CASE part = "accepting" /\ A!Next
      BY <2>1, <2>2, <2>3, RecordedStep, AcceptingIsOne
    <2>4. CASE part = "takeovers" /\ T!Next
      BY <2>1, <2>2, <2>4
    <2>5. CASE UNCHANGED tVars
      BY <2>1, <2>5 DEF OneRunInv, OneOpen, CallShape, Recorded, IsOpen, RunEnded,
                        RowsTyped, tVars
    <2> HIDE DEF Inv
    <2> QED BY <2>3, <2>4, <2>5 DEF MCNext
  <1>3. Inv => OneRun
    <2> SUFFICES ASSUME Inv PROVE T!OneRecordedRun /\ (part = "accepting" => A!OneRun)
      BY DEF OneRun
    <2>1. \A t, u \in Takeovers :
             (/\ tRuns[t] = "active" /\ tRows[t] # None
              /\ tRuns[u] = "active" /\ tRows[u] # None) => t = u
      BY DEF OneRunInv, OneOpen, RunEnded
    <2>2. T!OneRecordedRun
      <3> DEFINE S == {t \in Takeovers : tRuns[t] = "active" /\ tRows[t] # None}
      <3>1. Cardinality(S) <= 1
        BY <2>1, AtMostOne
      <3> QED BY <3>1, SameCardinality DEF T!OneRecordedRun
    <2>3. ASSUME part = "accepting" PROVE A!OneRun
      <3> DEFINE S == {t \in Takeovers : tRuns[t] = "active"}
      <3>1. \A t, u \in S : t = u
        BY <2>1, <2>3 DEF Recorded
      <3>2. Cardinality(S) <= 1
        BY <3>1, AtMostOne
      <3> QED BY <3>2, SameCardinality DEF A!OneRun
    <2> QED BY <2>2, <2>3
  <1> HIDE DEF Inv
  <1> QED BY <1>1, <1>2, <1>3, PTL DEF MCSpec
=============================================================================
