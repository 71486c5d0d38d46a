---------------------------- MODULE ReceiptsProofs ----------------------------
(***************************************************************************)
(* The receipts keep the promise of an idempotency key, for any keys,      *)
(* inputs, calls and time-out.  The inductive invariant says who stands    *)
(* behind a row: a call that executes owns the row of its key, an effect   *)
(* is recorded by a row of the call that caused it, and a call reached the *)
(* external system only after markEffectsAdmitted.                         *)
(***************************************************************************)
EXTENDS ExecutionReceipts, TLAPS

\* A call that executes owns the row of its key
Owner(r) ==
    Executes(r) =>
        /\ key(r) \in External
        /\ rows[key(r)] # None
        /\ rows[key(r)].by = r
        /\ rows[key(r)].body = req[r].body
        /\ req[r].phase # "failing" => rows[key(r)].state = "running"

\* The flag and the effect follow the phases
Progress(r) ==
    /\ req[r].phase \in {"admitted", "sent", "returned"} => r \in admitted
    /\ req[r].phase \in {"sent", "returned"} => EffectOf(r) \in effects
    /\ req[r].phase \in {"local", "ready"} => key(r) \notin External
    /\ req[r].phase \in {"idle", "asked", "locked", "local", "ready", "claimed"} =>
           r \notin admitted

\* An effect is recorded by the row of the call that caused it
Recorded(e) ==
    /\ rows[e.key] # None
    /\ rows[e.key].by = e.by
    /\ rows[e.key].body = e.body
    /\ req[e.by].phase \in {"sent", "returned", "failing", "over"}
    /\ e.key \in External => e.by \in admitted

IInv ==
    /\ TypeOK
    /\ \A r \in Requests : Owner(r)
    /\ \A r \in Requests : Progress(r)
    /\ \A e \in effects : Recorded(e)
    /\ UnknownOnlyIfAdmitted
    /\ SuccessIsTheEffect

-----------------------------------------------------------------------------
(* Lemmas                                                                  *)

\* Moving a call to another phase changes nothing else of any call.
LEMMA GotoFacts ==
    ASSUME TypeOK, NEW r \in Requests, NEW p \in Phases, Goto(r, p)
    PROVE  /\ req' \in [Requests -> Call]
           /\ req'[r].phase = p
           /\ \A s \in Requests : req'[s].key = req[s].key /\ req'[s].body = req[s].body
           /\ \A s \in Requests : s # r => req'[s].phase = req[s].phase
  BY DEF TypeOK, Goto, Call

\* An answer ends the call.
LEMMA AnswerFacts ==
    ASSUME TypeOK, NEW r \in Requests, NEW a \in Answers, Answer(r, a)
    PROVE  /\ req' \in [Requests -> Call]
           /\ req'[r].phase = "over"
           /\ \A s \in Requests : req'[s].key = req[s].key /\ req'[s].body = req[s].body
           /\ \A s \in Requests : s # r => req'[s].phase = req[s].phase
           /\ answers' \in [Requests -> Answers \cup {None}]
  <1>1. "over" \in Phases BY DEF Phases
  <1>2. Goto(r, "over") BY DEF Answer
  <1>3. answers' \in [Requests -> Answers \cup {None}] BY DEF Answer, TypeOK
  <1> QED BY <1>1, <1>2, <1>3, GotoFacts

\* A row written for a key is that row, and the other keys keep theirs.
LEMMA RowFacts ==
    ASSUME TypeOK, NEW k \in Keys, NEW row \in Receipt \cup {None},
           rows' = [rows EXCEPT ![k] = row]
    PROVE  /\ rows' \in [Keys -> Receipt \cup {None}]
           /\ rows'[k] = row
           /\ \A j \in Keys : j # k => rows'[j] = rows[j]
  BY DEF TypeOK

\* A settled or completed row keeps its owner and its input.
LEMMA StateFacts ==
    ASSUME TypeOK, NEW k \in Keys, rows[k] # None,
           NEW s \in {"running", "completed", "unknown"},
           rows' = [rows EXCEPT ![k].state = s]
    PROVE  /\ rows' \in [Keys -> Receipt \cup {None}]
           /\ rows'[k] # None
           /\ rows'[k].state = s
           /\ rows'[k].by = rows[k].by
           /\ rows'[k].body = rows[k].body
           /\ \A j \in Keys : j # k => rows'[j] = rows[j]
  <1>1. rows[k] \in Receipt BY DEF TypeOK
  <1>2. PICK row : row = [rows[k] EXCEPT !.state = s] OBVIOUS
  <1>3. row \in Receipt /\ row.state = s /\ row.by = rows[k].by /\ row.body = rows[k].body
    BY <1>1, <1>2 DEF Receipt
  <1>4. rows' = [rows EXCEPT ![k] = row] BY <1>2
  <1>5. None \notin Receipt BY ReceiptsAssumption DEF Receipt
  <1> QED BY <1>3, <1>4, <1>5, RowFacts

\* The initial states satisfy the invariant.
LEMMA InitIInv == Init => IInv
  <1> SUFFICES ASSUME Init PROVE IInv OBVIOUS
  <1> USE DEF Init
  <1>1. req \in [Requests -> Call] BY DEF Call, Phases
  <1>2. \A r \in Requests : req[r].phase = "idle" OBVIOUS
  <1>3. TypeOK BY <1>1, ReceiptsAssumption DEF TypeOK, Effect
  <1>4. \A r \in Requests : Owner(r) BY <1>2 DEF Owner, Executes
  <1>5. \A r \in Requests : Progress(r) BY <1>2 DEF Progress
  <1>6. UnknownOnlyIfAdmitted BY DEF UnknownOnlyIfAdmitted
  <1> QED BY <1>3, <1>4, <1>5, <1>6 DEF IInv, Recorded, SuccessIsTheEffect

\* Call r moves to phase q and nothing else of any call changes.
Moves(r, q) ==
    /\ req' \in [Requests -> Call]
    /\ req'[r].phase = q
    /\ \A s \in Requests : req'[s].key = req[s].key /\ req'[s].body = req[s].body
    /\ \A s \in Requests : s # r => req'[s].phase = req[s].phase

\* What the rows and effects say about the calls
Consistent ==
    /\ \A r \in Requests : Owner(r)
    /\ \A r \in Requests : Progress(r)
    /\ \A e \in effects : Recorded(e)

\* A call that leaves its phase without touching rows, flags or effects
\* keeps the invariant: it was not executing, it ends, or it starts to fail.
LEMMA PhaseStep ==
    ASSUME IInv, NEW r \in Requests, NEW q \in Phases, Moves(r, q),
           UNCHANGED <<rows, admitted, effects>>,
           \/ q = "over"
           \/ /\ req[r].phase \in {"idle", "asked", "locked", "local"}
              /\ q \in {"asked", "locked", "local", "ready"}
              /\ q = "local" => key(r) \notin External
              /\ q = "ready" => req[r].phase = "local"
           \/ Executes(r) /\ q = "failing"
           \/ req[r].phase = "sent" /\ q = "returned"
    PROVE  Consistent'
  <1>1. ASSUME NEW s \in Requests PROVE Owner(s)'
    <2>1. Owner(s) BY DEF IInv
    <2>2. Owner(r) BY DEF IInv
    <2> QED BY <2>1, <2>2 DEF Owner, Executes, Moves, key
  <1>2. ASSUME NEW s \in Requests PROVE Progress(s)'
    <2>1. Progress(s) BY DEF IInv
    <2>2. EffectOf(s)' = EffectOf(s) /\ key(s)' = key(s) BY DEF EffectOf, key, Moves
    <2>3. CASE s = r
      <3>1. q \in {"admitted", "sent", "returned"} => req[r].phase = "sent"
        OBVIOUS
      <3> QED BY <2>1, <2>2, <2>3, <3>1 DEF Progress, Moves
    <2>4. CASE s # r BY <2>1, <2>2, <2>4 DEF Progress, Moves
    <2> QED BY <2>3, <2>4
  <1>3. ASSUME NEW e \in effects' PROVE Recorded(e)'
    <2>1. e \in effects OBVIOUS
    <2>2. e.by \in Requests BY <2>1 DEF IInv, TypeOK, Effect
    <2>3. Recorded(e) BY <2>1 DEF IInv
    <2>4. CASE e.by = r BY <2>3, <2>4 DEF Recorded, Moves, Executes
    <2>5. CASE e.by # r BY <2>2, <2>3, <2>5 DEF Recorded, Moves
    <2> QED BY <2>4, <2>5
  <1> QED BY <1>1, <1>2, <1>3 DEF Consistent

\* The rest of the invariant where rows, flags and effects do not change.
LEMMA FrameStep ==
    ASSUME IInv, Consistent', UNCHANGED <<rows, admitted, effects, told>>,
           clock' \in 0..MaxTime, open' \in BOOLEAN,
           req' \in [Requests -> Call], aged' \in SUBSET Keys,
           answers' \in [Requests -> Answers \cup {None}]
    PROVE  IInv'
  <1>1. TypeOK' BY DEF IInv, TypeOK
  <1>2. UnknownOnlyIfAdmitted' BY DEF IInv, UnknownOnlyIfAdmitted
  <1>3. SuccessIsTheEffect' BY DEF IInv, SuccessIsTheEffect
  <1> QED BY <1>1, <1>2, <1>3 DEF IInv, Consistent

\* A step in which a call only changes its phase, and may be answered.
LEMMA PlainStep ==
    ASSUME IInv, NEW r \in Requests, NEW q \in Phases,
           \/ Goto(r, q) /\ UNCHANGED answers
           \/ q = "over" /\ \E a \in Answers : Answer(r, a),
           UNCHANGED <<clock, open, rows, admitted, effects, told>>,
           aged' \in SUBSET Keys,
           \/ q = "over"
           \/ /\ req[r].phase \in {"idle", "asked", "locked", "local"}
              /\ q \in {"asked", "locked", "local", "ready"}
              /\ q = "local" => key(r) \notin External
              /\ q = "ready" => req[r].phase = "local"
           \/ Executes(r) /\ q = "failing"
           \/ req[r].phase = "sent" /\ q = "returned"
    PROVE  IInv'
  <1>0. TypeOK BY DEF IInv
  <1>1. Moves(r, q) /\ answers' \in [Requests -> Answers \cup {None}]
    <2>1. CASE Goto(r, q) /\ UNCHANGED answers
      <3>1. answers' \in [Requests -> Answers \cup {None}]
        BY <1>0, <2>1 DEF TypeOK
      <3> QED BY <1>0, <2>1, <3>1, GotoFacts DEF Moves
    <2>2. CASE q = "over" /\ \E a \in Answers : Answer(r, a)
      <3>1. PICK a \in Answers : Answer(r, a) BY <2>2
      <3> QED BY <1>0, <2>2, <3>1, AnswerFacts DEF Moves
    <2> QED BY <2>1, <2>2
  <1>2. Consistent' BY <1>1, PhaseStep
  <1>3. clock' \in 0..MaxTime /\ open' \in BOOLEAN BY <1>0 DEF TypeOK
  <1> QED BY <1>1, <1>2, <1>3, FrameStep DEF Moves

-----------------------------------------------------------------------------
(* The steps that touch rows, flags or effects                             *)

\* A replay answers the effect the completed row records.
LEMMA ReplayStep ==
    ASSUME IInv, NEW r \in Requests, Replay(r)
    PROVE  /\ IInv'
           /\ [key |-> key(r), body |-> req[r].body, by |-> rows[key(r)].by] \in effects
  <1> DEFINE e == [key |-> key(r), body |-> req[r].body, by |-> rows[key(r)].by]
  <1>0. TypeOK BY DEF IInv
  <1>1. key(r) \in Keys BY <1>0 DEF TypeOK, key, Call
  <1>2. e \in effects
    BY <1>1 DEF Replay, Replays, IInv, UnknownOnlyIfAdmitted
  <1>3. Answer(r, "ok") /\ "ok" \in Answers BY DEF Replay, Answers
  <1>4. Moves(r, "over") /\ answers' \in [Requests -> Answers \cup {None}]
    BY <1>0, <1>3, AnswerFacts DEF Moves
  <1>5. UNCHANGED <<clock, open, rows, admitted, effects, aged>> /\ told' = told \cup {e}
    BY DEF Replay
  <1>6. Consistent' BY <1>4, <1>5, PhaseStep DEF Phases
  <1>7. TypeOK' BY <1>0, <1>2, <1>4, <1>5 DEF TypeOK, Moves
  <1>8. UnknownOnlyIfAdmitted' BY <1>5 DEF IInv, UnknownOnlyIfAdmitted
  <1>9. SuccessIsTheEffect' BY <1>2, <1>5 DEF IInv, SuccessIsTheEffect
  <1> QED BY <1>2, <1>6, <1>7, <1>8, <1>9 DEF IInv, Consistent

\* No effect of a key without a row, nobody executes it.
LEMMA FreeKey ==
    ASSUME IInv, NEW k \in Keys, rows[k] = None
    PROVE  /\ \A e \in effects : e.key # k
           /\ \A s \in Requests : key(s) = k => ~Executes(s)
  BY DEF IInv, Owner, Recorded

\* A committed claim makes its call the owner of the key.
LEMMA ClaimExternalStep ==
    ASSUME IInv, NEW r \in Requests, NEW ack \in BOOLEAN, ClaimExternal(r, ack)
    PROVE  IInv'
  <1> DEFINE row == [state |-> "running", body |-> req[r].body, by |-> r,
                     retryAt |-> RetryAt]
  <1>0. TypeOK BY DEF IInv
  <1>1. key(r) \in Keys /\ req[r].body \in Bodies BY <1>0 DEF TypeOK, key, Call
  <1>2. RetryAt \in Nat BY <1>0, ReceiptsAssumption DEF TypeOK, RetryAt
  <1>3. row \in Receipt /\ row.state = "running" /\ row.by = r /\ row.body = req[r].body
    BY <1>1, <1>2 DEF Receipt
  <1>4. row # None BY <1>3, ReceiptsAssumption DEF Receipt
  <1>5. rows' = [rows EXCEPT ![key(r)] = row] BY DEF ClaimExternal
  <1> HIDE DEF row
  <1>6. /\ rows' \in [Keys -> Receipt \cup {None}]
        /\ rows'[key(r)] = row
        /\ \A j \in Keys : j # key(r) => rows'[j] = rows[j]
    BY <1>0, <1>1, <1>3, <1>5, RowFacts
  <1>7. PICK q \in {"claimed", "over"} :
          Moves(r, q) /\ answers' \in [Requests -> Answers \cup {None}]
    <2>1. CASE Goto(r, "claimed") /\ UNCHANGED answers
      <3>1. answers' \in [Requests -> Answers \cup {None}] BY <1>0, <2>1 DEF TypeOK
      <3>2. "claimed" \in Phases BY DEF Phases
      <3> QED BY <1>0, <2>1, <3>1, <3>2, GotoFacts DEF Moves
    <2>2. CASE Answer(r, "error")
      <3>1. "error" \in Answers BY DEF Answers
      <3> QED BY <1>0, <2>2, <3>1, AnswerFacts DEF Moves
    <2> QED BY <2>1, <2>2 DEF ClaimExternal
  <1>8. /\ rows[key(r)] = None /\ key(r) \in External /\ req[r].phase = "locked"
        /\ UNCHANGED <<clock, open, admitted, effects, told, aged>>
    BY DEF ClaimExternal
  <1>9. /\ \A e \in effects : e.key # key(r)
        /\ \A s \in Requests : key(s) = key(r) => ~Executes(s)
    BY <1>1, <1>8, FreeKey
  <1>10. ASSUME NEW s \in Requests PROVE Owner(s)'
    <2>1. Owner(s) BY DEF IInv
    <2>2. key(s) \in Keys /\ key(s)' = key(s) BY <1>0, <1>7 DEF TypeOK, key, Call, Moves
    <2>3. CASE s = r
      BY <1>3, <1>4, <1>6, <1>7, <1>8, <2>2, <2>3 DEF Owner, Moves, Executes
    <2>4. CASE s # r
      <3>1. Executes(s)' <=> Executes(s) BY <1>7, <2>4 DEF Executes, Moves
      <3>2. CASE key(s) = key(r) BY <1>9, <3>1, <3>2 DEF Owner
      <3>3. CASE key(s) # key(r)
        BY <1>6, <1>7, <2>1, <2>2, <2>4, <3>1, <3>3 DEF Owner, Moves
      <3> QED BY <3>2, <3>3
    <2> QED BY <2>3, <2>4
  <1>11. ASSUME NEW s \in Requests PROVE Progress(s)'
    <2>1. Progress(s) BY DEF IInv
    <2>2. EffectOf(s)' = EffectOf(s) /\ key(s)' = key(s) BY <1>7 DEF EffectOf, key, Moves
    <2>3. CASE s = r BY <1>7, <1>8, <2>1, <2>3 DEF Progress, Moves
    <2>4. CASE s # r BY <1>7, <1>8, <2>1, <2>2, <2>4 DEF Progress, Moves
    <2> QED BY <2>3, <2>4
  <1>12. ASSUME NEW e \in effects' PROVE Recorded(e)'
    <2>1. e \in effects BY <1>8
    <2>2. e.by \in Requests /\ e.key \in Keys BY <1>0, <2>1 DEF TypeOK, Effect
    <2>3. Recorded(e) BY <2>1 DEF IInv
    <2>4. e.by # r BY <1>8, <2>3 DEF Recorded
    <2>5. rows'[e.key] = rows[e.key] BY <1>6, <1>9, <2>1, <2>2
    <2> QED BY <1>7, <1>8, <2>2, <2>3, <2>4, <2>5 DEF Recorded, Moves
  <1>13. UnknownOnlyIfAdmitted'
    <2> SUFFICES ASSUME NEW k \in Keys, rows'[k] # None
                 PROVE  /\ rows'[k].state = "unknown" => rows'[k].by \in admitted'
                        /\ rows'[k].state = "completed" =>
                             [key |-> k, body |-> rows'[k].body, by |-> rows'[k].by] \in effects'
      BY DEF UnknownOnlyIfAdmitted
    <2>1. CASE k = key(r) BY <1>3, <1>6, <2>1
    <2>2. CASE k # key(r) BY <1>6, <1>8, <2>2 DEF IInv, UnknownOnlyIfAdmitted
    <2> QED BY <2>1, <2>2
  <1>14. TypeOK' BY <1>0, <1>6, <1>7, <1>8 DEF TypeOK, Moves
  <1>15. SuccessIsTheEffect' BY <1>8 DEF IInv, SuccessIsTheEffect
  <1> QED BY <1>10, <1>11, <1>12, <1>13, <1>14, <1>15 DEF IInv

\* The commit of a database-only Operation takes effect with its receipt, on a
\* key that had none.
LEMMA CommitLocalStep ==
    ASSUME IInv, NEW r \in Requests, NEW ack \in BOOLEAN, CommitLocal(r, ack)
    PROVE  IInv' /\ EffectOf(r) \in Effect /\ \A f \in effects : f.key # key(r)
  <1> DEFINE row == [state |-> "completed", body |-> req[r].body, by |-> r,
                     retryAt |-> 0]
  <1>0. TypeOK BY DEF IInv
  <1>1. key(r) \in Keys /\ req[r].body \in Bodies BY <1>0 DEF TypeOK, key, Call
  <1>3. row \in Receipt /\ row.state = "completed" /\ row.by = r /\ row.body = req[r].body
    BY <1>1 DEF Receipt
  <1>4. row # None BY <1>3, ReceiptsAssumption DEF Receipt
  <1>5. rows' = [rows EXCEPT ![key(r)] = row] BY DEF CommitLocal
  <1> HIDE DEF row
  <1>6. /\ rows' \in [Keys -> Receipt \cup {None}]
        /\ rows'[key(r)] = row
        /\ \A j \in Keys : j # key(r) => rows'[j] = rows[j]
    BY <1>0, <1>1, <1>3, <1>5, RowFacts
  <1>7. Moves(r, "over") /\ answers' \in [Requests -> Answers \cup {None}]
    <2>1. PICK a \in {"ok", "error"} : Answer(r, a) BY DEF CommitLocal
    <2>2. a \in Answers BY DEF Answers
    <2> QED BY <1>0, <2>1, <2>2, AnswerFacts DEF Moves
  <1>8. /\ rows[key(r)] = None /\ req[r].phase = "ready"
        /\ effects' = effects \cup {EffectOf(r)}
        /\ told' = told \/ told' = told \cup {EffectOf(r)}
        /\ UNCHANGED <<clock, open, admitted, aged>>
    BY DEF CommitLocal
  <1>9. /\ \A e \in effects : e.key # key(r)
        /\ \A s \in Requests : key(s) = key(r) => ~Executes(s)
    BY <1>1, <1>8, FreeKey
  <1>e. /\ EffectOf(r) \in Effect /\ EffectOf(r).key = key(r)
        /\ EffectOf(r).by = r /\ EffectOf(r).body = req[r].body
    BY <1>1 DEF EffectOf, Effect
  <1>10. ASSUME NEW s \in Requests PROVE Owner(s)'
    <2>1. Owner(s) BY DEF IInv
    <2>2. key(s) \in Keys /\ key(s)' = key(s) BY <1>0, <1>7 DEF TypeOK, key, Call, Moves
    <2>3. CASE s = r BY <1>7, <2>3 DEF Owner, Moves, Executes
    <2>4. CASE s # r
      <3>1. Executes(s)' <=> Executes(s) BY <1>7, <2>4 DEF Executes, Moves
      <3>2. CASE key(s) = key(r) BY <1>9, <3>1, <3>2 DEF Owner
      <3>3. CASE key(s) # key(r)
        BY <1>6, <1>7, <2>1, <2>2, <2>4, <3>1, <3>3 DEF Owner, Moves
      <3> QED BY <3>2, <3>3
    <2> QED BY <2>3, <2>4
  <1>11. ASSUME NEW s \in Requests PROVE Progress(s)'
    <2>1. Progress(s) BY DEF IInv
    <2>2. EffectOf(s)' = EffectOf(s) /\ key(s)' = key(s) BY <1>7 DEF EffectOf, key, Moves
    <2>3. CASE s = r BY <1>7, <2>3 DEF Progress, Moves
    <2>4. CASE s # r BY <1>7, <1>8, <2>1, <2>2, <2>4 DEF Progress, Moves
    <2> QED BY <2>3, <2>4
  <1>l. key(r) \notin External
    BY <1>8 DEF IInv, Progress
  <1>12. ASSUME NEW e \in effects' PROVE Recorded(e)'
    <2>1. CASE e \in effects
      <3>2. e.by \in Requests /\ e.key \in Keys BY <1>0, <2>1 DEF TypeOK, Effect
      <3>3. Recorded(e) BY <2>1 DEF IInv
      <3>4. e.by # r BY <1>8, <3>3 DEF Recorded
      <3>5. rows'[e.key] = rows[e.key] BY <1>6, <1>9, <2>1, <3>2
      <3> QED BY <1>7, <1>8, <3>2, <3>3, <3>4, <3>5 DEF Recorded, Moves
    <2>2. CASE e = EffectOf(r)
      BY <1>3, <1>4, <1>6, <1>7, <1>e, <1>l, <2>2 DEF Recorded, Moves
    <2> QED BY <1>8, <2>1, <2>2
  <1>13. UnknownOnlyIfAdmitted'
    <2> SUFFICES ASSUME NEW k \in Keys, rows'[k] # None
                 PROVE  /\ rows'[k].state = "unknown" => rows'[k].by \in admitted'
                        /\ rows'[k].state = "completed" =>
                             [key |-> k, body |-> rows'[k].body, by |-> rows'[k].by] \in effects'
      BY DEF UnknownOnlyIfAdmitted
    <2>1. CASE k = key(r) BY <1>3, <1>6, <1>8, <2>1 DEF EffectOf
    <2>2. CASE k # key(r) BY <1>6, <1>8, <2>2 DEF IInv, UnknownOnlyIfAdmitted
    <2> QED BY <2>1, <2>2
  <1>14. TypeOK' BY <1>0, <1>6, <1>7, <1>8, <1>e DEF TypeOK, Moves
  <1>15. SuccessIsTheEffect' BY <1>8 DEF IInv, SuccessIsTheEffect
  <1> QED BY <1>9, <1>10, <1>11, <1>12, <1>13, <1>14, <1>15, <1>e DEF IInv

\* A call that executes shares its key with no other that does.
LEMMA SoleExecutor ==
    ASSUME IInv, NEW r \in Requests, NEW s \in Requests,
           Executes(r), Executes(s), key(r) = key(s)
    PROVE  r = s
  BY DEF IInv, Owner

\* markEffectsAdmitted keeps the invariant.
LEMMA AdmitStep == ASSUME IInv, NEW r \in Requests, Admit(r) PROVE IInv'
  <1>0. TypeOK BY DEF IInv
  <1>1. /\ req[r].phase = "claimed" /\ admitted' = admitted \cup {r}
        /\ UNCHANGED <<clock, open, rows, answers, effects, told, aged>>
        /\ Goto(r, "admitted")
    BY DEF Admit
  <1>2. Moves(r, "admitted") BY <1>0, <1>1, GotoFacts DEF Moves, Phases
  <1>3. ASSUME NEW s \in Requests PROVE Owner(s)'
    <2>1. Owner(s) BY DEF IInv
    <2> QED BY <1>1, <1>2, <2>1 DEF Owner, Executes, Moves, key
  <1>4. ASSUME NEW s \in Requests PROVE Progress(s)'
    <2>1. Progress(s) BY DEF IInv
    <2>2. EffectOf(s)' = EffectOf(s) /\ key(s)' = key(s) BY <1>2 DEF EffectOf, key, Moves
    <2>3. CASE s = r BY <1>1, <1>2, <2>3 DEF Progress, Moves
    <2>4. CASE s # r BY <1>1, <1>2, <2>1, <2>2, <2>4 DEF Progress, Moves
    <2> QED BY <2>3, <2>4
  <1>5. ASSUME NEW e \in effects' PROVE Recorded(e)'
    <2>1. e \in effects BY <1>1
    <2>2. e.by \in Requests BY <1>0, <2>1 DEF TypeOK, Effect
    <2>3. Recorded(e) BY <2>1 DEF IInv
    <2>4. e.by # r BY <1>1, <2>3 DEF Recorded
    <2> QED BY <1>1, <1>2, <2>2, <2>3, <2>4 DEF Recorded, Moves
  <1>6. UnknownOnlyIfAdmitted' BY <1>1 DEF IInv, UnknownOnlyIfAdmitted
  <1>7. TypeOK' BY <1>0, <1>1, <1>2 DEF TypeOK, Moves
  <1>8. SuccessIsTheEffect' BY <1>1 DEF IInv, SuccessIsTheEffect
  <1> QED BY <1>3, <1>4, <1>5, <1>6, <1>7, <1>8 DEF IInv

\* The external effect is the first of its key.
LEMMA SendStep ==
    ASSUME IInv, NEW r \in Requests, Send(r)
    PROVE  IInv' /\ EffectOf(r) \in Effect /\ \A f \in effects : f.key # key(r)
  <1>0. TypeOK BY DEF IInv
  <1>k. key(r) \in Keys /\ req[r].body \in Bodies BY <1>0 DEF TypeOK, key, Call
  <1>1. /\ req[r].phase = "admitted" /\ effects' = effects \cup {EffectOf(r)}
        /\ UNCHANGED <<clock, open, rows, admitted, answers, told, aged>>
        /\ Goto(r, "sent")
    BY DEF Send
  <1>2. Moves(r, "sent") BY <1>0, <1>1, GotoFacts DEF Moves, Phases
  <1>o. /\ rows[key(r)] # None /\ rows[key(r)].by = r
        /\ rows[key(r)].body = req[r].body /\ r \in admitted
    BY <1>1 DEF IInv, Owner, Executes, Progress
  <1>e. /\ EffectOf(r) \in Effect /\ EffectOf(r).key = key(r)
        /\ EffectOf(r).by = r /\ EffectOf(r).body = req[r].body
    BY <1>k DEF EffectOf, Effect
  <1>f. \A f \in effects : f.key # key(r)
    <2> SUFFICES ASSUME NEW f \in effects, f.key = key(r) PROVE FALSE OBVIOUS
    <2>1. Recorded(f) BY DEF IInv
    <2> QED BY <1>1, <1>o, <2>1 DEF Recorded
  <1>3. ASSUME NEW s \in Requests PROVE Owner(s)'
    <2>1. Owner(s) BY DEF IInv
    <2> QED BY <1>1, <1>2, <2>1 DEF Owner, Executes, Moves, key
  <1>4. ASSUME NEW s \in Requests PROVE Progress(s)'
    <2>1. Progress(s) BY DEF IInv
    <2>2. EffectOf(s)' = EffectOf(s) /\ key(s)' = key(s) BY <1>2 DEF EffectOf, key, Moves
    <2>3. CASE s = r BY <1>1, <1>2, <1>o, <2>2, <2>3 DEF Progress, Moves
    <2>4. CASE s # r BY <1>1, <1>2, <2>1, <2>2, <2>4 DEF Progress, Moves
    <2> QED BY <2>3, <2>4
  <1>5. ASSUME NEW e \in effects' PROVE Recorded(e)'
    <2>1. CASE e \in effects
      <3>2. e.by \in Requests BY <1>0, <2>1 DEF TypeOK, Effect
      <3>3. Recorded(e) BY <2>1 DEF IInv
      <3>4. e.by # r BY <1>1, <3>3 DEF Recorded
      <3> QED BY <1>1, <1>2, <3>2, <3>3, <3>4 DEF Recorded, Moves
    <2>2. CASE e = EffectOf(r)
      BY <1>1, <1>2, <1>o, <1>e, <2>2 DEF Recorded, Moves
    <2> QED BY <1>1, <2>1, <2>2
  <1>6. UnknownOnlyIfAdmitted' BY <1>1 DEF IInv, UnknownOnlyIfAdmitted
  <1>7. TypeOK' BY <1>0, <1>1, <1>2, <1>e DEF TypeOK, Moves
  <1>8. SuccessIsTheEffect' BY <1>1 DEF IInv, SuccessIsTheEffect
  <1> QED BY <1>3, <1>4, <1>5, <1>6, <1>7, <1>8, <1>e, <1>f DEF IInv

\* The owner of a claim records its outcome and fails or ends.
LEMMA OutcomeStep ==
    ASSUME IInv, NEW r \in Requests, Executes(r), NEW v \in {"completed", "unknown"},
           rows' = [rows EXCEPT ![key(r)].state = v],
           NEW q \in {"failing", "over"}, Moves(r, q),
           UNCHANGED <<clock, open, admitted, effects, aged>>,
           answers' \in [Requests -> Answers \cup {None}],
           v = "completed" => EffectOf(r) \in effects,
           v = "unknown" => r \in admitted,
           told' \subseteq told \cup {EffectOf(r)},
           told' # told => EffectOf(r) \in effects
    PROVE  IInv'
  <1>0. TypeOK BY DEF IInv
  <1>1. key(r) \in Keys BY <1>0 DEF TypeOK, key, Call
  <1>2. rows[key(r)] # None /\ rows[key(r)].by = r /\ rows[key(r)].body = req[r].body
    BY DEF IInv, Owner
  <1>3. /\ rows' \in [Keys -> Receipt \cup {None}]
        /\ rows'[key(r)] # None
        /\ rows'[key(r)].state = v
        /\ rows'[key(r)].by = r
        /\ rows'[key(r)].body = req[r].body
        /\ \A j \in Keys : j # key(r) => rows'[j] = rows[j]
    BY <1>0, <1>1, <1>2, StateFacts
  <1>4. ASSUME NEW s \in Requests PROVE Owner(s)'
    <2>1. Owner(s) BY DEF IInv
    <2>2. key(s) \in Keys /\ key(s)' = key(s) BY <1>0 DEF TypeOK, key, Call, Moves
    <2>3. CASE s = r
      <3>1. key(r) \in External BY DEF IInv, Owner
      <3> QED BY <1>3, <2>2, <2>3, <3>1 DEF Owner, Moves, Executes
    <2>4. CASE s # r
      <3>1. Executes(s)' <=> Executes(s) BY <2>4 DEF Executes, Moves
      <3>2. CASE ~Executes(s) BY <3>1, <3>2 DEF Owner
      <3>3. CASE Executes(s)
        <4>1. key(s) # key(r) BY <2>4, <3>3, SoleExecutor
        <4> QED BY <1>3, <2>1, <2>2, <2>4, <3>1, <4>1 DEF Owner, Moves
      <3> QED BY <3>2, <3>3
    <2> QED BY <2>3, <2>4
  <1>5. ASSUME NEW s \in Requests PROVE Progress(s)'
    <2>1. Progress(s) BY DEF IInv
    <2>2. EffectOf(s)' = EffectOf(s) /\ key(s)' = key(s) BY DEF EffectOf, key, Moves
    <2>3. CASE s = r BY <2>3 DEF Progress, Moves
    <2>4. CASE s # r BY <2>1, <2>2, <2>4 DEF Progress, Moves
    <2> QED BY <2>3, <2>4
  <1>6. ASSUME NEW e \in effects' PROVE Recorded(e)'
    <2>1. e \in effects OBVIOUS
    <2>2. e.by \in Requests /\ e.key \in Keys BY <1>0, <2>1 DEF TypeOK, Effect
    <2>3. Recorded(e) BY <2>1 DEF IInv
    <2>4. req'[e.by].phase \in {"sent", "returned", "failing", "over"}
      BY <2>2, <2>3 DEF Recorded, Moves
    <2>5. CASE e.key = key(r) BY <1>2, <1>3, <2>3, <2>4, <2>5 DEF Recorded
    <2>6. CASE e.key # key(r) BY <1>3, <2>2, <2>3, <2>4, <2>6 DEF Recorded
    <2> QED BY <2>5, <2>6
  <1>7. UnknownOnlyIfAdmitted'
    <2> SUFFICES ASSUME NEW k \in Keys, rows'[k] # None
                 PROVE  /\ rows'[k].state = "unknown" => rows'[k].by \in admitted'
                        /\ rows'[k].state = "completed" =>
                             [key |-> k, body |-> rows'[k].body, by |-> rows'[k].by] \in effects'
      BY DEF UnknownOnlyIfAdmitted
    <2>1. CASE k = key(r) BY <1>3, <2>1 DEF EffectOf
    <2>2. CASE k # key(r) BY <1>3, <2>2 DEF IInv, UnknownOnlyIfAdmitted
    <2> QED BY <2>1, <2>2
  <1>8. SuccessIsTheEffect' BY DEF IInv, SuccessIsTheEffect
  <1>9. TypeOK' BY <1>0, <1>3, <1>8 DEF TypeOK, Moves, SuccessIsTheEffect
  <1> QED BY <1>4, <1>5, <1>6, <1>7, <1>8, <1>9 DEF IInv

\* complete keeps the invariant, and answers an effect that took place.
LEMMA CompleteStep ==
    ASSUME IInv, NEW r \in Requests, NEW ack \in BOOLEAN, Complete(r, ack)
    PROVE  IInv' /\ EffectOf(r) \in effects
  <1>0. TypeOK BY DEF IInv
  <1>1. Executes(r) BY DEF Complete, Executes
  <1>2. EffectOf(r) \in effects BY DEF Complete, IInv, Progress
  <1>3. PICK q \in {"failing", "over"} :
          Moves(r, q) /\ answers' \in [Requests -> Answers \cup {None}]
    <2>1. CASE Goto(r, "failing") /\ UNCHANGED answers
      <3>1. answers' \in [Requests -> Answers \cup {None}] BY <1>0, <2>1 DEF TypeOK
      <3>2. "failing" \in Phases BY DEF Phases
      <3> QED BY <1>0, <2>1, <3>1, <3>2, GotoFacts DEF Moves
    <2>2. CASE Answer(r, "ok")
      <3>1. "ok" \in Answers BY DEF Answers
      <3> QED BY <1>0, <2>2, <3>1, AnswerFacts DEF Moves
    <2> QED BY <2>1, <2>2 DEF Complete
  <1>4. /\ rows' = [rows EXCEPT ![key(r)].state = "completed"]
        /\ UNCHANGED <<clock, open, admitted, effects, aged>>
        /\ told' \subseteq told \cup {EffectOf(r)}
    BY DEF Complete
  <1> QED BY <1>1, <1>2, <1>3, <1>4, OutcomeStep

\* Freeing a claim whose effects were not admitted loses no effect.
LEMMA DeleteStep ==
    ASSUME IInv, NEW r \in Requests, Executes(r), r \notin admitted,
           rows' = [rows EXCEPT ![key(r)] = None], Moves(r, "over"),
           UNCHANGED <<clock, open, admitted, effects, told, aged>>,
           answers' \in [Requests -> Answers \cup {None}]
    PROVE  IInv'
  <1>0. TypeOK BY DEF IInv
  <1>1. key(r) \in Keys BY <1>0 DEF TypeOK, key, Call
  <1>2. rows[key(r)].by = r /\ key(r) \in External BY DEF IInv, Owner
  <1>3. /\ rows' \in [Keys -> Receipt \cup {None}]
        /\ rows'[key(r)] = None
        /\ \A j \in Keys : j # key(r) => rows'[j] = rows[j]
    BY <1>0, <1>1, RowFacts
  <1>f. \A f \in effects : f.key # key(r)
    <2> SUFFICES ASSUME NEW f \in effects, f.key = key(r) PROVE FALSE OBVIOUS
    <2>1. Recorded(f) BY DEF IInv
    <2> QED BY <1>2, <2>1 DEF Recorded
  <1>4. ASSUME NEW s \in Requests PROVE Owner(s)'
    <2>1. Owner(s) BY DEF IInv
    <2>2. key(s) \in Keys /\ key(s)' = key(s) BY <1>0 DEF TypeOK, key, Call, Moves
    <2>3. CASE s = r BY <2>3 DEF Owner, Moves, Executes
    <2>4. CASE s # r
      <3>1. Executes(s)' <=> Executes(s) BY <2>4 DEF Executes, Moves
      <3>2. CASE ~Executes(s) BY <3>1, <3>2 DEF Owner
      <3>3. CASE Executes(s)
        <4>1. key(s) # key(r) BY <2>4, <3>3, SoleExecutor
        <4> QED BY <1>3, <2>1, <2>2, <2>4, <3>1, <4>1 DEF Owner, Moves
      <3> QED BY <3>2, <3>3
    <2> QED BY <2>3, <2>4
  <1>5. ASSUME NEW s \in Requests PROVE Progress(s)'
    <2>1. Progress(s) BY DEF IInv
    <2>2. EffectOf(s)' = EffectOf(s) /\ key(s)' = key(s) BY DEF EffectOf, key, Moves
    <2>3. CASE s = r BY <2>3 DEF Progress, Moves
    <2>4. CASE s # r BY <2>1, <2>2, <2>4 DEF Progress, Moves
    <2> QED BY <2>3, <2>4
  <1>6. ASSUME NEW e \in effects' PROVE Recorded(e)'
    <2>1. e \in effects OBVIOUS
    <2>2. e.by \in Requests /\ e.key \in Keys BY <1>0, <2>1 DEF TypeOK, Effect
    <2>3. Recorded(e) BY <2>1 DEF IInv
    <2>4. req'[e.by].phase \in {"sent", "returned", "failing", "over"}
      BY <2>2, <2>3 DEF Recorded, Moves
    <2> QED BY <1>3, <1>f, <2>1, <2>2, <2>3, <2>4 DEF Recorded
  <1>7. UnknownOnlyIfAdmitted'
    <2> SUFFICES ASSUME NEW k \in Keys, rows'[k] # None
                 PROVE  /\ rows'[k].state = "unknown" => rows'[k].by \in admitted'
                        /\ rows'[k].state = "completed" =>
                             [key |-> k, body |-> rows'[k].body, by |-> rows'[k].by] \in effects'
      BY DEF UnknownOnlyIfAdmitted
    <2>1. CASE k = key(r) BY <1>3, <2>1
    <2>2. CASE k # key(r) BY <1>3, <2>2 DEF IInv, UnknownOnlyIfAdmitted
    <2> QED BY <2>1, <2>2
  <1>8. SuccessIsTheEffect' BY DEF IInv, SuccessIsTheEffect
  <1>9. TypeOK' BY <1>0, <1>3 DEF TypeOK, Moves
  <1> QED BY <1>4, <1>5, <1>6, <1>7, <1>8, <1>9 DEF IInv

\* The settlement of a failed call keeps the invariant.
LEMMA SettleStep ==
    ASSUME IInv, NEW r \in Requests, NEW settles \in BOOLEAN, Settle(r, settles)
    PROVE  IInv'
  <1>0. TypeOK BY DEF IInv
  <1>1. Executes(r) BY DEF Settle, Executes
  <1>2. PICK a \in {"unknown", "error"} : Answer(r, a) BY DEF Settle
  <1>3. a \in Answers BY DEF Answers
  <1>4. Moves(r, "over") /\ answers' \in [Requests -> Answers \cup {None}]
    BY <1>0, <1>2, <1>3, AnswerFacts DEF Moves
  <1>5. UNCHANGED <<clock, open, admitted, effects, told, aged>> BY DEF Settle
  <1>6. CASE rows' = rows
    <2>1. "over" \in Phases /\ aged' \in SUBSET Keys BY <1>0, <1>5 DEF Phases, TypeOK
    <2> QED BY <1>2, <1>3, <1>5, <1>6, <2>1, PlainStep
  <1>7. CASE r \in admitted /\ rows' = [rows EXCEPT ![key(r)].state = "unknown"]
    BY <1>1, <1>4, <1>5, <1>7, OutcomeStep
  <1>8. CASE r \notin admitted /\ rows' = [rows EXCEPT ![key(r)] = None]
    BY <1>1, <1>4, <1>5, <1>8, DeleteStep
  <1> QED BY <1>6, <1>7, <1>8 DEF Settle, Settled

-----------------------------------------------------------------------------
(* Theorems                                                                *)

\* Every step keeps the invariant.
LEMMA NextIInv == IInv /\ [Next]_vars => IInv'
  <1> SUFFICES ASSUME IInv, [Next]_vars PROVE IInv' OBVIOUS
  <1>0. TypeOK BY DEF IInv
  <1>p. {"asked", "locked", "local", "ready", "returned", "failing", "over"} \subseteq Phases
    BY DEF Phases
  <1>a. Answers = {"ok", "refused", "error", "busy", "reused", "unknown"} BY DEF Answers
  <1>g. UNCHANGED aged => aged' \in SUBSET Keys BY <1>0 DEF TypeOK
  <1>1. CASE Tick \/ Decide \/ UNCHANGED vars
    <2>1. UNCHANGED <<rows, req, admitted, answers, effects, told, aged>>
      BY <1>1 DEF Tick, Decide, vars
    <2>2. clock' \in 0..MaxTime
      BY <1>0, <1>1, ReceiptsAssumption DEF Tick, Decide, vars, TypeOK
    <2>3. open' \in BOOLEAN BY <1>0, <1>1 DEF Tick, Decide, vars, TypeOK
    <2>4. Consistent' BY <2>1 DEF IInv, Consistent, Owner, Executes, key, Progress,
                                  EffectOf, Recorded
    <2>5. /\ req' \in [Requests -> Call] /\ aged' \in SUBSET Keys
          /\ answers' \in [Requests -> Answers \cup {None}]
      BY <1>0, <2>1 DEF TypeOK
    <2> QED BY <2>1, <2>2, <2>3, <2>4, <2>5, FrameStep
  <1>2. ASSUME NEW r \in Requests, Step(r) \/ Crash(r) PROVE IInv'
    <2>1. CASE Begin(r)
      <3>1. CASE Goto(r, "asked") /\ UNCHANGED answers
        BY <1>p, <1>g, <2>1, <3>1, PlainStep DEF Begin
      <3>2. CASE \E b \in Answers : Answer(r, b)
        BY <1>p, <1>g, <2>1, <3>2, PlainStep DEF Begin
      <3> QED BY <1>a, <2>1, <3>1, <3>2 DEF Begin
    <2>2. CASE ClaimFails(r)
      BY <1>p, <1>a, <1>g, <2>2, PlainStep DEF ClaimFails
    <2>3. CASE Lock(r)
      <3>1. CASE Goto(r, "locked") /\ UNCHANGED answers
        BY <1>p, <1>g, <2>3, <3>1, PlainStep DEF Lock
      <3>2. CASE \E b \in Answers : Answer(r, b)
        BY <1>p, <1>g, <2>3, <3>2, PlainStep DEF Lock
      <3> QED BY <1>a, <2>3, <3>1, <3>2 DEF Lock
    <2>4. CASE Existing(r)
      <3>1. aged' \in SUBSET Keys
        BY <1>0, <2>4 DEF TypeOK, Call, key, Existing
      <3>2. \E b \in Answers : Answer(r, b) BY <1>a, <2>4 DEF Existing
      <3> QED BY <1>p, <2>4, <3>1, <3>2, PlainStep DEF Existing
    <2>5. CASE ClaimLocal(r)
      BY <1>p, <1>g, <2>5, PlainStep DEF ClaimLocal
    <2>6. CASE ExecuteLocal(r)
      <3>1. CASE Goto(r, "ready") /\ UNCHANGED answers
        BY <1>p, <1>g, <2>6, <3>1, PlainStep DEF ExecuteLocal
      <3>2. CASE \E b \in Answers : Answer(r, b)
        BY <1>p, <1>g, <2>6, <3>2, PlainStep DEF ExecuteLocal
      <3> QED BY <1>a, <2>6, <3>1, <3>2 DEF ExecuteLocal
    <2>7. CASE Return(r)
      BY <1>p, <1>g, <2>7, PlainStep DEF Return
    <2>8. CASE Throw(r)
      <3>1. Executes(r) BY <2>8 DEF Throw, Executes
      <3> QED BY <1>p, <1>g, <2>8, <3>1, PlainStep DEF Throw
    <2>9. CASE CompleteFails(r)
      <3>1. Executes(r) BY <2>9 DEF CompleteFails, Executes
      <3> QED BY <1>p, <1>g, <2>9, <3>1, PlainStep DEF CompleteFails
    <2>10. CASE Crash(r)
      BY <1>p, <1>g, <2>10, PlainStep DEF Crash
    <2>11. CASE Replay(r) BY <2>11, ReplayStep
    <2>12. CASE Admit(r) BY <2>12, AdmitStep
    <2>13. CASE Send(r) BY <2>13, SendStep
    <2>14. CASE \E ack \in BOOLEAN : ClaimExternal(r, ack) BY <2>14, ClaimExternalStep
    <2>15. CASE \E ack \in BOOLEAN : CommitLocal(r, ack) BY <2>15, CommitLocalStep
    <2>16. CASE \E ack \in BOOLEAN : Complete(r, ack) BY <2>16, CompleteStep
    <2>17. CASE \E ack \in BOOLEAN : Settle(r, ack) BY <2>17, SettleStep
    <2> QED BY <1>2, <2>1, <2>2, <2>3, <2>4, <2>5, <2>6, <2>7, <2>8, <2>9, <2>10, <2>11, <2>12, <2>13, <2>14, <2>15, <2>16, <2>17 DEF Step
  <1> QED BY <1>1, <1>2 DEF Next

\* The inductive invariant holds in every state.
THEOREM ReceiptsInvariant == Spec => []IInv
  BY InitIInv, NextIInv, PTL DEF Spec

\* Type correctness of the receipts and calls.
THEOREM ReceiptsTypeCorrect == Spec => []TypeOK
  <1>1. IInv => TypeOK BY DEF IInv
  <1> QED BY <1>1, ReceiptsInvariant, PTL

\* A key takes effect once at most.
THEOREM EffectOnce == Spec => []EffectOncePerKey
  <1>1. IInv => EffectOncePerKey
    <2> SUFFICES ASSUME IInv, NEW e \in effects, NEW f \in effects, e.key = f.key
                 PROVE  e = f
      BY DEF EffectOncePerKey
    <2>1. e \in Effect /\ f \in Effect BY DEF IInv, TypeOK
    <2>2. Recorded(e) /\ Recorded(f) BY DEF IInv
    <2>3. e.by = f.by /\ e.body = f.body BY <2>2 DEF Recorded
    <2> QED BY <2>1, <2>3 DEF Effect
  <1> QED BY <1>1, ReceiptsInvariant, PTL

\* Every success that was answered is the effect of its key.
THEOREM SuccessSound == Spec => []SuccessIsTheEffect
  <1>1. IInv => SuccessIsTheEffect BY DEF IInv
  <1> QED BY <1>1, ReceiptsInvariant, PTL

\* Whoever executes an Operation holds the claim of its key.
THEOREM ClaimsAreOwned == Spec => []ExecutorOwnsClaim
  <1>1. IInv => ExecutorOwnsClaim BY DEF IInv, Owner, ExecutorOwnsClaim
  <1> QED BY <1>1, ReceiptsInvariant, PTL

\* A key is left unknown only where effects were admitted.
THEOREM UnknownIsHonest == Spec => []UnknownOnlyIfAdmitted
  <1>1. IInv => UnknownOnlyIfAdmitted BY DEF IInv
  <1> QED BY <1>1, ReceiptsInvariant, PTL

-----------------------------------------------------------------------------
(* The life of a key                                                       *)

\* No step changes what a call asks for.
LEMMA AsksStay ==
    ASSUME TypeOK, [Next]_vars
    PROVE  \A s \in Requests : key(s)' = key(s) /\ req'[s].body = req[s].body
  <1> DEFINE Kept == \A s \in Requests : key(s)' = key(s) /\ req'[s].body = req[s].body
  <1>1. ASSUME NEW r \in Requests, NEW p, Goto(r, p) PROVE Kept
    BY <1>1 DEF Goto, key, TypeOK, Call
  <1>2. ASSUME NEW r \in Requests, NEW a, Answer(r, a) PROVE Kept
    BY <1>1, <1>2 DEF Answer
  <1>3. ASSUME NEW r \in Requests, Step(r) \/ Crash(r) PROVE Kept
    <2>1. CASE \/ Begin(r) \/ Lock(r) \/ ExecuteLocal(r)
               \/ \E ack \in BOOLEAN : ClaimExternal(r, ack) \/ Complete(r, ack)
      BY <1>1, <1>2, <2>1 DEF Begin, Lock, ExecuteLocal, ClaimExternal, Complete
    <2>2. CASE ClaimFails(r) \/ Replay(r) \/ Existing(r)
      BY <1>2, <2>2 DEF ClaimFails, Replay, Existing
    <2>3. CASE \E ack \in BOOLEAN : CommitLocal(r, ack) \/ Settle(r, ack)
      BY <1>2, <2>3 DEF CommitLocal, Settle
    <2>4. CASE ClaimLocal(r) \/ Admit(r) \/ Send(r) \/ Return(r) \/ Throw(r)
               \/ CompleteFails(r) \/ Crash(r)
      BY <1>1, <2>4 DEF ClaimLocal, Admit, Send, Return, Throw, CompleteFails, Crash
    <2> QED BY <1>3, <2>1, <2>2, <2>3, <2>4 DEF Step
  <1>4. CASE Tick \/ Decide \/ UNCHANGED vars
    BY <1>4 DEF Tick, Decide, vars, key
  <1> QED BY <1>3, <1>4 DEF Next

\* A key whose row stays, and whose call is not admitted meanwhile, stays.
LEMMA SlotStays ==
    ASSUME TypeOK, NEW j \in Keys, rows'[j] = rows[j],
           \A s \in Requests : key(s)' = key(s),
           NEW r \in Requests, admitted' \in {admitted, admitted \cup {r}},
           j # key(r) \/ admitted' = admitted
    PROVE  Slot(j)' = Slot(j)
  <1>1. admitted \subseteq Requests /\ admitted' \subseteq Requests BY DEF TypeOK
  <1>2. (\E s \in admitted' : key(s)' = j /\ rows'[j].by = s)
          <=> \E s \in admitted : key(s) = j /\ rows[j].by = s
    BY <1>1
  <1>3. Stage(j)' = Stage(j) BY <1>2 DEF Stage
  <1> QED BY <1>3 DEF Slot

\* One key moves and the others stay.
LEMMA SlotsMove ==
    ASSUME NEW k \in Keys, NEW x, Slot(k)' = x,
           \A j \in Keys : j # k => Slot(j)' = Slot(j)
    PROVE  /\ Slots[k] = Slot(k)
           /\ Slots' = [Slots EXCEPT ![k] = x]
  BY DEF Slots

\* Nothing of what the life of a key shows changes.
LEMMA SlotsStay ==
    ASSUME TypeOK, UNCHANGED <<rows, admitted>>,
           \A s \in Requests : key(s)' = key(s)
    PROVE  Slots' = Slots
  <1>1. ASSUME NEW j \in Keys PROVE Slot(j)' = Slot(j)
    <2>1. (\E s \in admitted' : key(s)' = j /\ rows'[j].by = s)
            <=> \E s \in admitted : key(s) = j /\ rows[j].by = s
      BY DEF TypeOK
    <2> QED BY <2>1 DEF Slot, Stage
  <1> QED BY <1>1 DEF Slots

\* A call that executes holds its key, claimed or admitted, while the row runs.
LEMMA SlotOfOwner ==
    ASSUME IInv, NEW r \in Requests, Executes(r), rows[key(r)].state = "running"
    PROVE  /\ key(r) \in Keys
           /\ Slot(key(r)) = [stage |-> IF r \in admitted THEN "admitted" ELSE "claimed",
                              body |-> req[r].body, by |-> r]
           /\ Slot(key(r)) # None
  <1>1. key(r) \in Keys /\ req[r].body \in Bodies BY DEF IInv, TypeOK, key, Call
  <1>2. /\ rows[key(r)] # None /\ rows[key(r)].by = r
        /\ rows[key(r)].body = req[r].body
    BY DEF IInv, Owner
  <1>3. Stage(key(r)) = IF r \in admitted THEN "admitted" ELSE "claimed"
    BY <1>2 DEF Stage
  <1>4. Slot(key(r)) = [stage |-> IF r \in admitted THEN "admitted" ELSE "claimed",
                        body |-> req[r].body, by |-> r]
    BY <1>2, <1>3 DEF Slot
  <1> QED BY <1>1, <1>4, ReceiptsAssumption

\* The row that was written shows its state as the stage of the key.
LEMMA SlotOfRow ==
    ASSUME NEW k \in Keys, rows'[k] # None, rows'[k].state \in {"completed", "unknown"}
    PROVE  Slot(k)' = [stage |-> IF rows'[k].state = "completed" THEN "done" ELSE "unknown",
                       body |-> rows'[k].body, by |-> rows'[k].by]
  <1>1. Stage(k)' = IF rows'[k].state = "completed" THEN "done" ELSE "unknown"
    BY DEF Stage
  <1> QED BY <1>1 DEF Slot

\* A replay answers the effect of a key that is done.
LEMMA ReplayMaps ==
    ASSUME IInv, NEW r \in Requests, Replay(r), Slots' = Slots
    PROVE  Promise!Next
  <1> DEFINE k == key(r)
  <1>1. k \in Keys /\ Slots[k] = Slot(k) BY DEF IInv, TypeOK, key, Call, Slots
  <1>2. /\ rows[k] # None /\ rows[k].state = "completed" /\ rows[k].body = req[r].body
        /\ told' = told \cup {[key |-> k, body |-> req[r].body, by |-> rows[k].by]}
        /\ effects' = effects
    BY DEF Replay, Replays
  <1>3. Slot(k) = [stage |-> "done", body |-> rows[k].body, by |-> rows[k].by]
    BY <1>2 DEF Slot, Stage
  <1>4. rows[k] \in Receipt BY <1>1, <1>2 DEF IInv, TypeOK
  <1>5. Slot(k) # None BY <1>3, <1>4, ReceiptsAssumption DEF Receipt
  <1>6. Promise!Reply(k)
    BY <1>1, <1>2, <1>3, <1>5 DEF Promise!Reply, Promise!At, Promise!Tells, Promise!Of
  <1> QED BY <1>1, <1>6 DEF Promise!Next, Promise!KeyStep

\* The committed claim of an external Operation claims a free key.
LEMMA ClaimMaps ==
    ASSUME IInv, NEW r \in Requests, NEW ack \in BOOLEAN, ClaimExternal(r, ack),
           \A s \in Requests : key(s)' = key(s)
    PROVE  Promise!Next
  <1> DEFINE k == key(r)
             row == [state |-> "running", body |-> req[r].body, by |-> r,
                     retryAt |-> RetryAt]
  <1>0. TypeOK BY DEF IInv
  <1>1. k \in Keys /\ req[r].body \in Bodies BY <1>0 DEF TypeOK, key, Call
  <1>2. /\ rows[k] = None /\ rows' = [rows EXCEPT ![k] = row]
        /\ req[r].phase = "locked" /\ UNCHANGED <<admitted, effects, told>>
    BY DEF ClaimExternal
  <1>3. RetryAt \in Nat BY <1>0, ReceiptsAssumption DEF TypeOK, RetryAt
  <1>4. row \in Receipt BY <1>1, <1>3 DEF Receipt
  <1>5. /\ rows'[k] = row /\ \A j \in Keys : j # k => rows'[j] = rows[j]
    BY <1>0, <1>1, <1>2, <1>4, RowFacts
  <1>6. row # None BY <1>4, ReceiptsAssumption DEF Receipt
  <1>7. r \notin admitted BY <1>2 DEF IInv, Progress
  <1>8. Stage(k)' = "claimed"
    <2>1. rows'[k].state = "running" /\ rows'[k].by = r BY <1>5
    <2>2. ~ \E s \in admitted' : key(s)' = k /\ rows'[k].by = s BY <1>2, <1>7, <2>1
    <2> QED BY <2>1, <2>2 DEF Stage
  <1>9. Slot(k)' = [stage |-> "claimed", body |-> req[r].body, by |-> r]
    BY <1>5, <1>6, <1>8 DEF Slot
  <1>10. \A j \in Keys : j # k => Slot(j)' = Slot(j)
    BY <1>0, <1>2, <1>5, SlotStays
  <1>11. Slots[k] = None BY <1>1, <1>2 DEF Slots, Slot
  <1>12. Slots' = [Slots EXCEPT ![k] = [stage |-> "claimed", body |-> req[r].body, by |-> r]]
    BY <1>1, <1>9, <1>10, SlotsMove
  <1>13. Promise!Claim(k, req[r].body, r)
    BY <1>2, <1>11, <1>12 DEF Promise!Claim, Promise!Sets
  <1> QED BY <1>1, <1>13 DEF Promise!Next, Promise!KeyStep

\* The commit of a database-only Operation does everything at once.
LEMMA CommitMaps ==
    ASSUME IInv, NEW r \in Requests, NEW ack \in BOOLEAN, CommitLocal(r, ack),
           \A s \in Requests : key(s)' = key(s)
    PROVE  Promise!Next
  <1> DEFINE k == key(r)
             row == [state |-> "completed", body |-> req[r].body, by |-> r,
                     retryAt |-> 0]
  <1>0. TypeOK BY DEF IInv
  <1>1. k \in Keys /\ req[r].body \in Bodies BY <1>0 DEF TypeOK, key, Call
  <1>2. /\ rows[k] = None /\ rows' = [rows EXCEPT ![k] = row]
        /\ effects' = effects \cup {EffectOf(r)} /\ UNCHANGED admitted
        /\ told' = IF ack THEN told \cup {EffectOf(r)} ELSE told
    BY DEF CommitLocal
  <1>3. row \in Receipt BY <1>1 DEF Receipt
  <1>4. /\ rows'[k] = row /\ \A j \in Keys : j # k => rows'[j] = rows[j]
    BY <1>0, <1>1, <1>2, <1>3, RowFacts
  <1>5. row # None BY <1>3, ReceiptsAssumption DEF Receipt
  <1>6. Slot(k)' = [stage |-> "done", body |-> req[r].body, by |-> r]
    BY <1>1, <1>4, <1>5, SlotOfRow
  <1>7. \A j \in Keys : j # k => Slot(j)' = Slot(j)
    BY <1>0, <1>2, <1>4, SlotStays
  <1>8. Slots[k] = None BY <1>1, <1>2 DEF Slots, Slot
  <1>9. Slots' = [Slots EXCEPT ![k] = [stage |-> "done", body |-> req[r].body, by |-> r]]
    BY <1>1, <1>6, <1>7, SlotsMove
  <1>10. \A f \in effects : f.key # k BY CommitLocalStep
  <1>11. EffectOf(r) = [key |-> k, body |-> req[r].body, by |-> r] BY DEF EffectOf
  <1>12. Promise!AtOnce(k, req[r].body, r, ack)
    BY <1>2, <1>8, <1>9, <1>10, <1>11 DEF Promise!AtOnce, Promise!Sets, Promise!Tells
  <1> QED BY <1>1, <1>12 DEF Promise!Next, Promise!KeyStep

\* markEffectsAdmitted admits the key its call has claimed.
LEMMA AdmitMaps ==
    ASSUME IInv, NEW r \in Requests, Admit(r),
           \A s \in Requests : key(s)' = key(s) /\ req'[s].body = req[s].body
    PROVE  Promise!Next
  <1> DEFINE k == key(r)
  <1>0. TypeOK BY DEF IInv
  <1>1. /\ req[r].phase = "claimed" /\ admitted' = admitted \cup {r}
        /\ UNCHANGED <<rows, effects, told>>
    BY DEF Admit
  <1>2. Executes(r) /\ rows[k].state = "running" /\ r \notin admitted
    BY <1>1 DEF Executes, IInv, Owner, Progress
  <1>3. /\ k \in Keys /\ Slot(k) # None
        /\ Slot(k) = [stage |-> "claimed", body |-> req[r].body, by |-> r]
    BY <1>2, SlotOfOwner
  <1>4. rows[k] # None /\ rows[k].by = r /\ rows[k].body = req[r].body
    BY <1>2 DEF IInv, Owner
  <1>5. Stage(k)' = "admitted"
    <2>1. rows'[k].state = "running" BY <1>1, <1>2
    <2>2. \E s \in admitted' : key(s)' = k /\ rows'[k].by = s BY <1>1, <1>4
    <2> QED BY <2>1, <2>2 DEF Stage
  <1>6. Slot(k)' = [stage |-> "admitted", body |-> req[r].body, by |-> r]
    BY <1>1, <1>4, <1>5 DEF Slot
  <1>7. \A j \in Keys : j # k => Slot(j)' = Slot(j)
    BY <1>0, <1>1, SlotStays
  <1>8. /\ Slots[k] = Slot(k)
        /\ Slots' = [Slots EXCEPT ![k] = [stage |-> "admitted", body |-> req[r].body, by |-> r]]
    BY <1>3, <1>6, <1>7, SlotsMove
  <1>9. Promise!Admit(k)
    BY <1>1, <1>3, <1>8 DEF Promise!Admit, Promise!Moves, Promise!At, Promise!Sets
  <1> QED BY <1>3, <1>9 DEF Promise!Next, Promise!KeyStep

\* The external effect is performed by the call that holds the admitted key.
LEMMA SendMaps ==
    ASSUME IInv, NEW r \in Requests, Send(r), Slots' = Slots
    PROVE  Promise!Next
  <1> DEFINE k == key(r)
  <1>1. /\ req[r].phase = "admitted" /\ effects' = effects \cup {EffectOf(r)}
        /\ told' = told
    BY DEF Send
  <1>2. Executes(r) /\ rows[k].state = "running" /\ r \in admitted
    BY <1>1 DEF Executes, IInv, Owner, Progress
  <1>3. /\ k \in Keys /\ Slot(k) # None
        /\ Slot(k) = [stage |-> "admitted", body |-> req[r].body, by |-> r]
    BY <1>2, SlotOfOwner
  <1>4. Slots[k] = Slot(k) BY <1>3 DEF Slots
  <1>5. \A f \in effects : f.key # k BY SendStep
  <1>6. EffectOf(r) = [key |-> k, body |-> req[r].body, by |-> r] BY DEF EffectOf
  <1>7. Promise!Perform(k)
    BY <1>1, <1>3, <1>4, <1>5, <1>6 DEF Promise!Perform, Promise!At, Promise!Of
  <1> QED BY <1>3, <1>7 DEF Promise!Next, Promise!KeyStep

\* The outcome of the call that holds an admitted key is recorded for good.
LEMMA OutcomeMaps ==
    ASSUME IInv, NEW r \in Requests, Executes(r), r \in admitted,
           rows[key(r)].state = "running", NEW v \in {"completed", "unknown"},
           rows' = [rows EXCEPT ![key(r)].state = v], UNCHANGED admitted,
           \A s \in Requests : key(s)' = key(s)
    PROVE  /\ key(r) \in Keys
           /\ Promise!Moves(key(r), "admitted", IF v = "completed" THEN "done" ELSE "unknown")
           /\ Promise!Of(key(r)) = EffectOf(r)
  <1> DEFINE k == key(r)
             stage == IF v = "completed" THEN "done" ELSE "unknown"
  <1>0. TypeOK BY DEF IInv
  <1>1. /\ k \in Keys /\ Slot(k) # None
        /\ Slot(k) = [stage |-> "admitted", body |-> req[r].body, by |-> r]
    BY SlotOfOwner
  <1>2. rows[k] # None /\ rows[k].by = r /\ rows[k].body = req[r].body
    BY DEF IInv, Owner
  <1>3. /\ rows'[k] # None /\ rows'[k].state = v
        /\ rows'[k].by = r /\ rows'[k].body = req[r].body
        /\ \A j \in Keys : j # k => rows'[j] = rows[j]
    BY <1>0, <1>1, <1>2, StateFacts
  <1>4. Slot(k)' = [stage |-> stage, body |-> req[r].body, by |-> r]
    BY <1>1, <1>3, SlotOfRow
  <1>5. \A j \in Keys : j # k => Slot(j)' = Slot(j)
    BY <1>0, <1>3, SlotStays
  <1>6. /\ Slots[k] = Slot(k)
        /\ Slots' = [Slots EXCEPT ![k] = [stage |-> stage, body |-> req[r].body, by |-> r]]
    BY <1>1, <1>4, <1>5, SlotsMove
  <1>7. Promise!Moves(k, "admitted", stage)
    BY <1>1, <1>6 DEF Promise!Moves, Promise!At, Promise!Sets
  <1>8. Promise!Of(k) = EffectOf(r) BY <1>1, <1>6 DEF Promise!Of, EffectOf
  <1> QED BY <1>1, <1>7, <1>8

\* complete finishes the key, whether or not its caller learns of it.
LEMMA CompleteMaps ==
    ASSUME IInv, NEW r \in Requests, NEW ack \in BOOLEAN, Complete(r, ack),
           \A s \in Requests : key(s)' = key(s)
    PROVE  Promise!Next
  <1> DEFINE k == key(r)
  <1>1. /\ req[r].phase = "returned" /\ MatchesClaim(r)
        /\ rows' = [rows EXCEPT ![k].state = "completed"]
        /\ told' = IF ack THEN told \cup {EffectOf(r)} ELSE told
        /\ UNCHANGED <<admitted, effects>>
    BY DEF Complete
  <1>2. Executes(r) /\ r \in admitted /\ rows[k].state = "running"
    BY <1>1 DEF Executes, IInv, Progress, MatchesClaim
  <1>3. /\ k \in Keys
        /\ Promise!Moves(k, "admitted", "done")
        /\ Promise!Of(k) = EffectOf(r)
    BY <1>1, <1>2, OutcomeMaps
  <1>4. EffectOf(r) \in effects BY CompleteStep
  <1>5. Promise!Finish(k, ack) BY <1>1, <1>3, <1>4 DEF Promise!Finish, Promise!Tells
  <1> QED BY <1>3, <1>5 DEF Promise!Next, Promise!KeyStep

\* The settlement of a failed call frees a key that was only claimed, leaves an
\* admitted one in doubt, or changes nothing.
LEMMA SettleMaps ==
    ASSUME IInv, NEW r \in Requests, NEW settles \in BOOLEAN, Settle(r, settles),
           \A s \in Requests : key(s)' = key(s)
    PROVE  Promise!Next \/ UNCHANGED Promise!vars
  <1> DEFINE k == key(r)
  <1>0. TypeOK BY DEF IInv
  <1>1. req[r].phase = "failing" /\ UNCHANGED <<admitted, effects, told>> BY DEF Settle
  <1>2. Executes(r) BY <1>1 DEF Executes
  <1>3. CASE ~(settles /\ MatchesClaim(r))
    <2>1. rows' = rows BY <1>3 DEF Settle
    <2>2. Slots' = Slots BY <1>0, <1>1, <2>1, SlotsStay
    <2> QED BY <1>1, <2>2 DEF Promise!vars
  <1>4. CASE settles /\ MatchesClaim(r)
    <2>1. rows[k].state = "running" /\ rows' = Settled(r)
      BY <1>4 DEF Settle, MatchesClaim
    <2>2. CASE r \in admitted
      <3>1. rows' = [rows EXCEPT ![k].state = "unknown"] BY <2>1, <2>2 DEF Settled
      <3>2. k \in Keys /\ Promise!Moves(k, "admitted", "unknown")
        BY <1>1, <1>2, <2>1, <2>2, <3>1, OutcomeMaps
      <3>3. Promise!Doubt(k) BY <1>1, <3>2 DEF Promise!Doubt
      <3> QED BY <3>2, <3>3 DEF Promise!Next, Promise!KeyStep
    <2>3. CASE r \notin admitted
      <3>1. rows' = [rows EXCEPT ![k] = None] BY <2>1, <2>3 DEF Settled
      <3>2. /\ k \in Keys /\ Slot(k) # None
            /\ Slot(k) = [stage |-> "claimed", body |-> req[r].body, by |-> r]
        BY <1>2, <2>1, <2>3, SlotOfOwner
      <3>3. rows'[k] = None /\ \A j \in Keys : j # k => rows'[j] = rows[j]
        BY <1>0, <3>1, <3>2, RowFacts
      <3>4. Slot(k)' = None BY <3>3 DEF Slot
      <3>5. \A j \in Keys : j # k => Slot(j)' = Slot(j)
        BY <1>0, <1>1, <3>3, SlotStays
      <3>6. Slots[k] = Slot(k) /\ Slots' = [Slots EXCEPT ![k] = None]
        BY <3>2, <3>4, <3>5, SlotsMove
      <3>7. Promise!Abandon(k)
        BY <1>1, <3>2, <3>6 DEF Promise!Abandon, Promise!At
      <3> QED BY <3>2, <3>7 DEF Promise!Next, Promise!KeyStep
    <2> QED BY <2>2, <2>3
  <1> QED BY <1>3, <1>4

\* The receipts implement KeyedEffect: every step is one of the life of its
\* key, or leaves all of them as they are.
THEOREM ReceiptsKeepPromise == Spec => KeyPromise
  <1>1. Init => Promise!Init
    BY DEF Init, Promise!Init, Slots, Slot
  <1>2. IInv /\ [Next]_vars => [Promise!Next]_(Promise!vars)
    <2> SUFFICES ASSUME IInv, [Next]_vars
                 PROVE  Promise!Next \/ UNCHANGED Promise!vars
      OBVIOUS
    <2>0. TypeOK BY DEF IInv
    <2>k. \A s \in Requests : key(s)' = key(s) /\ req'[s].body = req[s].body
      BY <2>0, AsksStay
    <2>s. UNCHANGED <<rows, admitted>> => Slots' = Slots BY <2>0, <2>k, SlotsStay
    <2>1. CASE Tick \/ Decide \/ UNCHANGED vars
      <3>1. UNCHANGED <<rows, admitted, effects, told>>
        BY <2>1 DEF Tick, Decide, vars
      <3> QED BY <2>s, <3>1 DEF Promise!vars
    <2>2. ASSUME NEW r \in Requests, Step(r) \/ Crash(r)
          PROVE  Promise!Next \/ UNCHANGED Promise!vars
      <3>1. CASE \/ Begin(r) \/ ClaimFails(r) \/ Lock(r) \/ Existing(r) \/ ClaimLocal(r)
                 \/ ExecuteLocal(r) \/ Return(r) \/ Throw(r) \/ CompleteFails(r) \/ Crash(r)
        <4>1. UNCHANGED <<rows, admitted, effects, told>>
          BY <3>1 DEF Begin, ClaimFails, Lock, Existing, ClaimLocal, ExecuteLocal,
                      Return, Throw, CompleteFails, Crash
        <4> QED BY <2>s, <4>1 DEF Promise!vars
      <3>2. CASE Replay(r)
        <4>1. Slots' = Slots BY <2>s, <3>2 DEF Replay
        <4> QED BY <3>2, <4>1, ReplayMaps
      <3>3. CASE Send(r)
        <4>1. Slots' = Slots BY <2>s, <3>3 DEF Send
        <4> QED BY <3>3, <4>1, SendMaps
      <3>4. CASE Admit(r) BY <2>k, <3>4, AdmitMaps
      <3>5. CASE \E ack \in BOOLEAN : ClaimExternal(r, ack) BY <2>k, <3>5, ClaimMaps
      <3>6. CASE \E ack \in BOOLEAN : CommitLocal(r, ack) BY <2>k, <3>6, CommitMaps
      <3>7. CASE \E ack \in BOOLEAN : Complete(r, ack) BY <2>k, <3>7, CompleteMaps
      <3>8. CASE \E ack \in BOOLEAN : Settle(r, ack) BY <2>k, <3>8, SettleMaps
      <3> QED BY <2>2, <3>1, <3>2, <3>3, <3>4, <3>5, <3>6, <3>7, <3>8 DEF Step
    <2> QED BY <2>1, <2>2 DEF Next
  <1> QED BY <1>1, <1>2, ReceiptsInvariant, PTL DEF Spec, KeyPromise, Promise!Spec
=============================================================================
