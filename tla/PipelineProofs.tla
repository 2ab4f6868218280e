--------------------------- MODULE PipelineProofs ---------------------------
(***************************************************************************)
(* Proofs about Pipeline, for every number of phases and every budget.     *)
(*                                                                         *)
(* The invariant that carries them is IInv: while a phase is being worked  *)
(* on, its row is the newest of the table and the result of every earlier  *)
(* phase of the run is settled.  A repair moves the phase back, so fewer   *)
(* phases have to be settled; a new row never unsettles an earlier phase   *)
(* because the row's phase is not before it.                               *)
(***************************************************************************)
EXTENDS Pipeline, TLAPS

Live == pc \in {"session", "overseer"}

NewestRow == rows[Len(rows)]

\* The phase being worked on is in the run and owns the newest row.
CurrentRow ==
  Live => /\ at \in inRun
          /\ rows # <<>>
          /\ NewestRow.phase = at

\* Its row is open during the session and shows the verdict after it.
RowStatus ==
  /\ pc = "session" => NewestRow.status = "running"
  /\ pc = "overseer" =>
       NewestRow.status = Status(verdict.outcome)

\* Everything before the phase being worked on is settled.
EarlierSettled == Live => \A q \in inRun : q < at => Settled(q)

\* A loop that ran to its end leaves everything settled.
LoopDone == pc = "closing" /\ finalStatus = "done" => AllSettled

LoopInv == CurrentRow /\ RowStatus /\ EarlierSettled /\ LoopDone

\* The record is written once, at the very end.
RecordLast == record # "running" => pc = "over"

\* The planner always stays in the run, and no row precedes its first one.
Fresh == /\ Planner \in inRun
         /\ pc = "start" => rows = <<>>

IInv == TypeOK /\ LoopInv /\ RecordLast /\ Fresh /\ DoneMeansSettled

-----------------------------------------------------------------------------
(* The audit table. *)

(* A row the session opens, and one recorded for a skipped phase, are rows of  *)
(* the phases table (store.startPhase).                                        *)
LEMMA RowTypes ==
  ASSUME NEW p \in Phase, NEW a \in Nat
  PROVE  StartedRow(p, a) \in Row /\ SkippedRow(p) \in Row
BY DEF StartedRow, SkippedRow, Row

(* Finishing the newest row keeps the table's type, its length and its phases, *)
(* and changes no other row (store.finishPhase).                               *)
LEMMA FinishedRowsShape ==
  ASSUME rows \in Seq(Row), rows # <<>>, NEW o \in Outcome
  PROVE  /\ FinishedRows(o) \in Seq(Row)
         /\ Len(FinishedRows(o)) = Len(rows)
         /\ \A i \in 1..Len(rows) :
              /\ FinishedRows(o)[i].phase = rows[i].phase
              /\ i # Len(rows) => FinishedRows(o)[i] = rows[i]
         /\ FinishedRows(o)[Len(rows)].status = Status(o)
<1>1. Status(o) \in {"ok", "failed"}
  BY DEF Status, Outcome
<1>2. \A i \in 1..Len(rows) : rows[i] \in Row
  OBVIOUS
<1>3. \A i \in 1..Len(rows) : [rows[i] EXCEPT !.status = Status(o)] \in Row
  BY <1>1, <1>2 DEF Row
<1>4. Len(rows) \in 1..Len(rows)
  OBVIOUS
<1>5. FinishedRows(o) = [i \in 1..Len(rows) |->
                           IF i = Len(rows) THEN [rows[i] EXCEPT !.status = Status(o)]
                                            ELSE rows[i]]
  BY <1>4 DEF FinishedRows
<1>6. FinishedRows(o) \in Seq(Row)
  BY <1>2, <1>3, <1>5
<1>7. Len(FinishedRows(o)) = Len(rows)
  BY <1>5, <1>6
<1>8. \A i \in 1..Len(rows) : FinishedRows(o)[i].phase = rows[i].phase
  BY <1>2, <1>5 DEF Row
<1>9. FinishedRows(o)[Len(rows)].status = Status(o)
  BY <1>2, <1>4, <1>5 DEF Row
<1>10. \A i \in 1..Len(rows) : i # Len(rows) => FinishedRows(o)[i] = rows[i]
  BY <1>5
<1>11. QED
  BY <1>6, <1>7, <1>8, <1>9, <1>10

(* A row of phase r keeps settled exactly the phases before r: what            *)
(* PhaseGate calls reopening r.                                                *)
LEMMA SettledAppend ==
  ASSUME NEW log \in Seq(Row), NEW row \in Row, NEW p \in Phase
  PROVE  /\ SettledIn(log, p) /\ p < row.phase => SettledIn(Append(log, row), p)
         /\ SettledIn(Append(log, row), p) /\ p # row.phase
              => SettledIn(log, p) /\ p < row.phase
         /\ SettledIn(Append(log, row), row.phase) <=> row.status = "ok"
<1> DEFINE new == Append(log, row)
<1>1. /\ new \in Seq(Row)
      /\ Len(new) = Len(log) + 1
      /\ new[Len(log) + 1] = row
      /\ \A i \in 1..Len(log) : new[i] = log[i]
      /\ Len(log) \in Nat
  OBVIOUS
<1>2. row.phase \in Nat /\ p \in Nat
  BY PipelineAssumption DEF Row, Phase
<1>3. ASSUME SettledIn(log, p), p < row.phase
      PROVE  SettledIn(new, p)
  <2>1. PICK i \in 1..Len(log) :
          /\ log[i].phase = p
          /\ log[i].status = "ok"
          /\ \A j \in (i+1)..Len(log) : log[j].phase > p
    BY <1>3 DEF SettledIn
  <2>2. \A j \in (i+1)..Len(new) : new[j].phase > p
    <3> SUFFICES ASSUME NEW j \in (i+1)..Len(new)
                 PROVE  new[j].phase > p
      OBVIOUS
    <3>1. CASE j = Len(log) + 1
      BY <1>1, <1>2, <1>3, <3>1
    <3>2. CASE j # Len(log) + 1
      <4>1. j \in (i+1)..Len(log) /\ j \in 1..Len(log)
        BY <1>1, <3>2
      <4>2. QED
        BY <1>1, <2>1, <4>1
    <3>3. QED
      BY <3>1, <3>2
  <2>3. i \in 1..Len(new) /\ new[i] = log[i]
    BY <1>1
  <2>4. QED
    BY <2>1, <2>2, <2>3 DEF SettledIn
<1>4. ASSUME SettledIn(new, p), p # row.phase
      PROVE  SettledIn(log, p) /\ p < row.phase
  <2>1. PICK i \in 1..Len(new) :
          /\ new[i].phase = p
          /\ new[i].status = "ok"
          /\ \A j \in (i+1)..Len(new) : new[j].phase > p
    BY <1>4 DEF SettledIn
  <2>2. i \in 1..Len(log)
    BY <1>1, <1>4, <2>1
  <2>3. Len(log) + 1 \in (i+1)..Len(new)
    BY <1>1, <2>2
  <2>4. p < row.phase
    BY <1>1, <1>2, <2>1, <2>3
  <2>5. \A j \in (i+1)..Len(log) : j \in (i+1)..Len(new) /\ new[j] = log[j]
    BY <1>1, <2>2
  <2>6. QED
    BY <1>1, <2>1, <2>2, <2>4, <2>5 DEF SettledIn
<1>5. SettledIn(new, row.phase) <=> row.status = "ok"
  <2>1. ASSUME row.status = "ok"
        PROVE  SettledIn(new, row.phase)
    <3>1. Len(new) \in 1..Len(new) /\ new[Len(new)] = row
      BY <1>1
    <3>2. \A j \in (Len(new)+1)..Len(new) : new[j].phase > row.phase
      BY <1>1
    <3>3. QED
      BY <2>1, <3>1, <3>2 DEF SettledIn
  <2>2. ASSUME SettledIn(new, row.phase)
        PROVE  row.status = "ok"
    <3>1. PICK i \in 1..Len(new) :
            /\ new[i].status = "ok"
            /\ \A j \in (i+1)..Len(new) : new[j].phase > row.phase
      BY <2>2 DEF SettledIn
    <3>2. i = Len(log) + 1
      <4>1. SUFFICES ASSUME i # Len(log) + 1
                     PROVE  FALSE
        OBVIOUS
      <4>2. Len(log) + 1 \in (i+1)..Len(new)
        BY <1>1, <4>1
      <4>3. row.phase > row.phase
        BY <1>1, <3>1, <4>2
      <4>4. QED
        BY <1>2, <4>3
    <3>3. QED
      BY <1>1, <3>1, <3>2
  <2>3. QED
    BY <2>1, <2>2
<1>6. QED
  BY <1>3, <1>4, <1>5

(* Finishing the newest row settles its phase on a pass, and nothing else.     *)
LEMMA SettledFinish ==
  ASSUME rows \in Seq(Row), rows # <<>>, NewestRow.status = "running",
         NEW o \in Outcome, NEW p \in Phase
  PROVE  /\ SettledIn(rows, p) => p < NewestRow.phase
         /\ p # NewestRow.phase => (SettledIn(FinishedRows(o), p) <=> SettledIn(rows, p))
         /\ SettledIn(FinishedRows(o), NewestRow.phase) <=> o = "pass"
<1> DEFINE new == FinishedRows(o)
           last == Len(rows)
<1>1. /\ new \in Seq(Row)
      /\ Len(new) = last
      /\ \A i \in 1..last : new[i].phase = rows[i].phase
      /\ \A i \in 1..last : i # last => new[i] = rows[i]
      /\ new[last].status = Status(o)
  BY FinishedRowsShape
<1>2. last \in 1..last /\ last \in Nat
  OBVIOUS
<1>3. NewestRow.phase \in Nat /\ p \in Nat /\ rows[last] = NewestRow
  <2>1. rows[last] = NewestRow
    BY DEF NewestRow
  <2>2. rows[last] \in Row
    BY <1>2
  <2>3. Phase \subseteq Nat
    BY PipelineAssumption DEF Phase
  <2>4. QED
    BY <2>1, <2>2, <2>3 DEF Row
<1>4. Status(o) = "ok" <=> o = "pass"
  BY DEF Status, Outcome
<1> HIDE DEF new, last
<1>5. ASSUME SettledIn(rows, p)
      PROVE  p < NewestRow.phase
  <2>1. PICK i \in 1..last :
          /\ rows[i].phase = p
          /\ rows[i].status = "ok"
          /\ \A j \in (i+1)..last : rows[j].phase > p
    BY <1>5 DEF SettledIn, last
  <2>2. i # last
    BY <1>3, <2>1
  <2>3. last \in (i+1)..last
    BY <1>2, <2>2
  <2>4. QED
    BY <1>3, <2>1, <2>3
<1>6. ASSUME p # NewestRow.phase
      PROVE  SettledIn(new, p) <=> SettledIn(rows, p)
  <2>1. \A i \in 1..last : rows[i].phase = p => i # last /\ new[i] = rows[i]
    BY <1>1, <1>2, <1>3, <1>6
  <2>2. \A i \in 1..last : \A j \in (i+1)..last : new[j].phase = rows[j].phase
    BY <1>1, <1>2
  <2>3. ASSUME NEW i \in 1..last
        PROVE  (\A j \in (i+1)..last : rows[j].phase > p)
                 <=> (\A j \in (i+1)..last : new[j].phase > p)
    BY <2>2
  <2>4. \A i \in 1..last : rows[i].phase = p <=> new[i].phase = p
    BY <1>1
  <2>5. QED
    BY <1>1, <2>1, <2>3, <2>4 DEF SettledIn, last
<1>7. ASSUME o = "pass"
      PROVE  SettledIn(new, NewestRow.phase)
  <2>1. new[last].phase = NewestRow.phase /\ new[last].status = "ok"
    BY <1>1, <1>2, <1>3, <1>4, <1>7
  <2>2. \A j \in (last+1)..last : new[j].phase > NewestRow.phase
    BY <1>2
  <2>3. QED
    BY <1>1, <1>2, <2>1, <2>2 DEF SettledIn
<1>8. ASSUME SettledIn(new, NewestRow.phase)
      PROVE  o = "pass"
  <2>1. PICK i \in 1..last :
          /\ new[i].status = "ok"
          /\ \A j \in (i+1)..last : new[j].phase > NewestRow.phase
    BY <1>1, <1>8 DEF SettledIn
  <2>2. i = last
    <3>1. SUFFICES ASSUME i # last
                   PROVE  FALSE
      OBVIOUS
    <3>2. last \in (i+1)..last
      BY <1>2, <3>1
    <3>3. QED
      BY <1>1, <1>2, <1>3, <2>1, <3>2
  <2>3. QED
    BY <1>1, <1>4, <2>1, <2>2
<1>9. QED
  BY <1>5, <1>6, <1>7, <1>8 DEF new

-----------------------------------------------------------------------------
(* The loop. *)

\* The type of what the loop body assigns.
LoopType == /\ pc \in {"session", "overseer", "closing"}
            /\ at \in Phase
            /\ attempts \in [Phase -> Nat]
            /\ rows \in Seq(Row)
            /\ finalStatus \in {"done", "stopped", "failed"}

(* Going to phase p with everything before it settled keeps the loop's         *)
(* invariant (the top of the while loop, pipeline.ts).                         *)
LEMMA TurnStep ==
  ASSUME TypeOK, NEW p \in Phase, NEW log \in Seq(Row), Turn(p, log),
         inRun' \subseteq Phase, p \in inRun',
         \A q \in inRun' : q < p => SettledIn(log, q)
  PROVE  LoopType' /\ LoopInv'
<1>1. CASE stopped
  <2>1. /\ rows' = log
        /\ pc' = "closing"
        /\ finalStatus' = "stopped"
        /\ UNCHANGED <<at, attempts>>
    BY <1>1 DEF Turn, Break
  <2>2. QED
    BY <2>1 DEF TypeOK, LoopType, LoopInv, CurrentRow, RowStatus, EarlierSettled,
                LoopDone, Live
<1>2. CASE ~stopped
  <2> DEFINE row == StartedRow(p, attempts[p] + 1)
  <2>1. at' = p /\ attempts' = [attempts EXCEPT ![p] = @ + 1]
    BY <1>2 DEF Turn
  <2>2. attempts[p] + 1 \in Nat /\ attempts' \in [Phase -> Nat]
    BY <2>1 DEF TypeOK
  <2>3. CASE rows' = log /\ pc' = "closing" /\ finalStatus' = "failed"
    BY <2>1, <2>2, <2>3 DEF LoopType, LoopInv, CurrentRow, RowStatus, EarlierSettled,
                             LoopDone, Live
  <2>4. CASE rows' = Append(log, row) /\ pc' = "session" /\ UNCHANGED finalStatus
    <3>3. row \in Row
      BY <2>2, RowTypes
    <3>4. row.phase = p /\ row.status = "running"
      BY DEF StartedRow
    <3> HIDE DEF row
    <3>5. rows' \in Seq(Row) /\ rows' # <<>> /\ rows'[Len(rows')] = row
      BY <2>4, <3>3
    <3>6. \A q \in inRun' : q < p => SettledIn(rows', q)
      BY <2>4, <3>3, <3>4, SettledAppend
    <3>7. LoopType'
      BY <2>1, <2>2, <2>4, <3>5 DEF TypeOK, LoopType
    <3>8. CurrentRow' /\ RowStatus'
      BY <2>1, <2>4, <3>4, <3>5 DEF CurrentRow, RowStatus, NewestRow
    <3>9. EarlierSettled' /\ LoopDone'
      BY <2>1, <2>4, <3>6 DEF EarlierSettled, LoopDone, Settled
    <3>10. QED
      BY <3>7, <3>8, <3>9 DEF LoopInv
  <2>5. QED
    BY <1>2, <2>3, <2>4 DEF Turn
<1>3. QED
  BY <1>1, <1>2

(* Going on from phase p with everything up to it settled keeps the loop's     *)
(* invariant, and ends the loop only with everything settled.                  *)
LEMMA AdvanceStep ==
  ASSUME TypeOK, NEW p \in Phase, NEW log \in Seq(Row), inRun' \subseteq Phase,
         Advance(p, inRun', log),
         \A q \in inRun' : q <= p => SettledIn(log, q)
  PROVE  LoopType' /\ LoopInv'
<1>1. ASSUME NEW q \in inRun', q > p, \A r \in inRun' : r > p => q <= r,
             Turn(q, log)
      PROVE  LoopType' /\ LoopInv'
  <2>1. \A r \in inRun' : r < q => SettledIn(log, r)
    BY <1>1, PipelineAssumption DEF Phase
  <2>2. QED
    BY <1>1, <2>1, TurnStep
<1>2. ASSUME \A r \in inRun' : r <= p, rows' = log, Break(finalStatus)
      PROVE  LoopType' /\ LoopInv'
  <2>1. pc' = "closing" /\ finalStatus' = finalStatus /\ UNCHANGED <<at, attempts>>
    BY <1>2 DEF Break
  <2>2. AllSettled'
    BY <1>2 DEF AllSettled, Settled
  <2>3. QED
    BY <1>2, <2>1, <2>2 DEF TypeOK, LoopType, LoopInv, CurrentRow, RowStatus,
                            EarlierSettled, LoopDone, Live
<1>3. QED
  BY <1>1, <1>2 DEF Advance

(* Leaving the loop with a status other than done needs nothing settled.       *)
LEMMA BreakStep ==
  ASSUME TypeOK, NEW s \in {"stopped", "failed"}, Break(s), rows' \in Seq(Row)
  PROVE  LoopType' /\ LoopInv'
BY DEF Break, TypeOK, LoopType, LoopInv, CurrentRow, RowStatus, EarlierSettled,
       LoopDone, Live

(* A phase that was reported as passed is settled with everything before it;   *)
(* the skip of the test designer leaves that so (the continue branch).         *)
LEMMA ContinueStep ==
  ASSUME TypeOK, LoopInv, Fresh, pc = "overseer", verdict.outcome = "pass", Continue
  PROVE  LoopType' /\ LoopInv' /\ inRun' \subseteq Phase /\ Planner \in inRun'
<1>1. /\ rows \in Seq(Row) /\ rows # <<>>
      /\ NewestRow.phase = at /\ NewestRow.status = "ok"
      /\ at \in inRun /\ at \in Phase /\ inRun \subseteq Phase
  BY DEF TypeOK, LoopInv, CurrentRow, RowStatus, Live, Status
<1>2. Settled(at)
  <2>1. Len(rows) \in 1..Len(rows) /\ Len(rows) \in Nat
    BY <1>1
  <2>2. \A j \in (Len(rows)+1)..Len(rows) : rows[j].phase > at
    BY <2>1
  <2>3. QED
    BY <1>1, <2>1, <2>2 DEF Settled, SettledIn, NewestRow
<1>3. \A q \in inRun : q <= at => SettledIn(rows, q)
  BY <1>1, <1>2, PipelineAssumption DEF LoopInv, EarlierSettled, Live, Settled, Phase
<1>4. CASE /\ at = Planner
           /\ inRun' = inRun \ {TestDesigner}
           /\ Advance(at, inRun', Append(rows, SkippedRow(TestDesigner)))
  <2> DEFINE row == SkippedRow(TestDesigner)
             log == Append(rows, row)
  <2>1. TestDesigner \in Phase /\ Planner < TestDesigner /\ TestDesigner # Planner
    BY PipelineAssumption DEF Phase, Planner
  <2>2. row \in Row /\ row.phase = TestDesigner
    BY <2>1, RowTypes DEF SkippedRow
  <2> HIDE DEF row
  <2>3. log \in Seq(Row)
    BY <1>1, <2>2
  <2>4. inRun' \subseteq Phase /\ Planner \in inRun'
    BY <1>1, <1>4, <2>1
  <2>5. \A q \in inRun' : q <= at => SettledIn(log, q)
    <3> SUFFICES ASSUME NEW q \in inRun', q <= at
                 PROVE  SettledIn(log, q)
      OBVIOUS
    <3>1. q \in Phase /\ q < row.phase /\ SettledIn(rows, q)
      BY <1>1, <1>3, <1>4, <2>1, <2>2, PipelineAssumption DEF Phase, Planner
    <3>2. QED
      BY <1>1, <2>2, <3>1, SettledAppend
  <2>6. Advance(at, inRun', log)
    BY <1>4 DEF row
  <2> HIDE DEF log
  <2>7. QED
    BY <1>1, <2>3, <2>4, <2>5, <2>6, AdvanceStep
<1>5. CASE inRun' = inRun /\ Advance(at, inRun, rows)
  BY <1>1, <1>3, <1>5, AdvanceStep DEF Fresh
<1>6. CASE /\ UNCHANGED inRun
           /\ rows' \in {rows, Append(rows, StartedRow(TestDesigner, 1))}
           /\ Break("failed")
  <2>1. TestDesigner \in Phase
    BY PipelineAssumption DEF Phase
  <2>2. rows' \in Seq(Row)
    BY <1>1, <1>6, <2>1, RowTypes
  <2>3. QED
    BY <1>1, <1>6, <2>2, BreakStep DEF Fresh
<1>7. QED
  BY <1>4, <1>5, <1>6 DEF Continue

(* A repair goes to a phase of the run at or before the current one.           *)
LEMMA RepairStep ==
  ASSUME TypeOK, LoopInv, pc = "overseer", NEW t \in 1..at, Repair(t)
  PROVE  LoopType' /\ LoopInv'
<1>1. at \in inRun /\ inRun' = inRun /\ inRun \subseteq Phase /\ at \in Phase
  BY DEF TypeOK, LoopInv, CurrentRow, Live, Repair
<1>2. CASE Break("failed") /\ UNCHANGED rows
  BY <1>2, BreakStep DEF TypeOK
<1>3. CASE Turn(RepairTarget(t, at), rows)
  <2> DEFINE p == RepairTarget(t, at)
  <2>1. p \in inRun /\ p <= at
    BY <1>1, PipelineAssumption DEF RepairTarget, Phase
  <2> HIDE DEF p
  <2>2. \A q \in inRun : q < p => SettledIn(rows, q)
    <3>1. \A q \in inRun : q < at => SettledIn(rows, q)
      BY DEF LoopInv, EarlierSettled, Live, Settled
    <3>2. inRun \subseteq Nat
      BY <1>1, PipelineAssumption DEF Phase
    <3>3. QED
      BY <1>1, <2>1, <3>1, <3>2
  <2>3. p \in Phase /\ rows \in Seq(Row)
    BY <1>1, <2>1 DEF TypeOK
  <2>4. Turn(p, rows)
    BY <1>3 DEF p
  <2>5. QED
    BY <1>1, <2>1, <2>2, <2>3, <2>4, TurnStep
<1>4. QED
  BY <1>2, <1>3 DEF Repair

-----------------------------------------------------------------------------
(* The invariant. *)

(* A run begins with nothing in the table and the invariant holding.           *)
LEMMA InitIInv == Init => IInv
<1> SUFFICES ASSUME Init
             PROVE  IInv
  OBVIOUS
<1>1. Planner \in Phase
  BY PipelineAssumption DEF Planner, Phase
<1>2. TypeOK
  <2>1. rows \in Seq(Row) /\ attempts \in [Phase -> Nat]
    BY DEF Init
  <2>2. verdict \in [outcome : Outcome, suggestedSkip : BOOLEAN]
    BY DEF Init, Outcome
  <2>3. QED
    BY <1>1, <2>1, <2>2 DEF Init, TypeOK
<1>3. LoopInv
  BY DEF Init, LoopInv, CurrentRow, RowStatus, EarlierSettled, LoopDone, Live
<1>4. RecordLast /\ Fresh /\ DoneMeansSettled
  BY <1>1 DEF Init, RecordLast, Fresh, DoneMeansSettled
<1>5. QED
  BY <1>2, <1>3, <1>4 DEF IInv

(* What a step of the loop leaves of IInv besides LoopType and LoopInv.        *)
LEMMA LoopStepIInv ==
  ASSUME IInv, pc \in {"start", "session", "overseer"}, LoopType', LoopInv',
         verdict' \in [outcome : Outcome, suggestedSkip : BOOLEAN],
         inRun' \subseteq Phase, Planner \in inRun', totalRepairs' \in Nat,
         announced' \in BOOLEAN, UNCHANGED <<record, stopped>>
  PROVE  IInv'
<1>1. record = "running"
  BY DEF IInv, RecordLast
<1>2. TypeOK'
  BY <1>1 DEF IInv, TypeOK, LoopType
<1>3. RecordLast' /\ Fresh' /\ DoneMeansSettled'
  BY <1>1 DEF LoopType, RecordLast, Fresh, DoneMeansSettled
<1>4. QED
  BY <1>2, <1>3 DEF IInv

(* Every step of the run keeps the invariant: one case per action.             *)
LEMMA StepIInv == IInv /\ [Next]_vars => IInv'
<1> SUFFICES ASSUME IInv, [Next]_vars
             PROVE  IInv'
  OBVIOUS
<1>1. TypeOK /\ LoopInv /\ RecordLast /\ Fresh /\ DoneMeansSettled
  BY DEF IInv
<1>2. CASE Begin
  <2>1. Planner \in Phase /\ rows \in Seq(Row)
    BY <1>1, PipelineAssumption DEF TypeOK, Planner, Phase
  <2>2. \A q \in inRun' : ~(q < Planner)
    BY <1>1, <1>2, PipelineAssumption DEF Begin, TypeOK, Planner, Phase
  <2>3. LoopType' /\ LoopInv'
    BY <1>1, <1>2, <2>1, <2>2, TurnStep DEF Begin, TypeOK, Fresh
  <2>4. QED
    BY <1>1, <1>2, <2>3, LoopStepIInv DEF Begin, TypeOK, Fresh
<1>3. CASE SessionEnds
  <2>1. PICK o \in Outcome, s \in BOOLEAN :
          /\ verdict' = [outcome |-> o, suggestedSkip |-> s]
          /\ rows' = FinishedRows(o)
    BY <1>3 DEF SessionEnds
  <2>2. /\ pc = "session" /\ rows \in Seq(Row) /\ rows # <<>>
        /\ at \in Phase /\ at \in inRun /\ inRun \subseteq Phase
        /\ NewestRow.phase = at /\ NewestRow.status = "running"
    BY <1>1, <1>3 DEF SessionEnds, TypeOK, LoopInv, CurrentRow, RowStatus, Live
  <2>3. /\ rows' \in Seq(Row) /\ rows' # <<>>
        /\ rows'[Len(rows')].phase = at
        /\ rows'[Len(rows')].status = Status(o)
    <3>1. Len(rows) \in 1..Len(rows)
      BY <2>2
    <3>2. QED
      BY <2>1, <2>2, <3>1, FinishedRowsShape DEF NewestRow
  <2>4. CASE stopped /\ Break("stopped")
    BY <1>1, <1>3, <2>1, <2>3, <2>4, <2>2, BreakStep, LoopStepIInv
       DEF SessionEnds, TypeOK, Fresh
  <2>5. CASE ~stopped /\ pc' = "overseer" /\ UNCHANGED <<finalStatus, at, attempts>>
    <3>1. inRun' = inRun
      BY <1>3 DEF SessionEnds
    <3>2. LoopType'
      BY <1>1, <2>3, <2>5 DEF TypeOK, LoopType
    <3>3. CurrentRow' /\ RowStatus' /\ LoopDone'
      BY <2>1, <2>2, <2>3, <2>5, <3>1 DEF CurrentRow, RowStatus, LoopDone, NewestRow
    <3>4. EarlierSettled'
      <4> SUFFICES ASSUME NEW q \in inRun, q < at
                   PROVE  SettledIn(rows', q)
        BY <2>5, <3>1 DEF EarlierSettled, Settled
      <4>1. SettledIn(rows, q)
        BY <1>1, <2>2 DEF LoopInv, EarlierSettled, Live, Settled
      <4>2. q # at /\ q \in Phase
        BY <2>2, PipelineAssumption DEF Phase
      <4>3. QED
        BY <2>1, <2>2, <4>1, <4>2, SettledFinish
    <3>5. LoopInv'
      BY <3>3, <3>4 DEF LoopInv
    <3>6. QED
      BY <1>1, <1>3, <2>1, <3>2, <3>5, LoopStepIInv DEF SessionEnds, TypeOK, Fresh
  <2>6. CASE ~stopped /\ Break("failed")
    BY <1>1, <1>3, <2>1, <2>3, <2>6, <2>2, BreakStep, LoopStepIInv
       DEF SessionEnds, TypeOK, Fresh
  <2>7. QED
    BY <1>3, <2>4, <2>5, <2>6 DEF SessionEnds
<1>4. CASE StoreFails
  BY <1>1, <1>4, BreakStep, LoopStepIInv DEF StoreFails, TypeOK, Fresh
<1>5. CASE OverseerReturns
  <2>1. /\ pc = "overseer" /\ at \in Phase /\ verdict.outcome \in Outcome
        /\ attempts[at] \in Nat
    BY <1>1, <1>5 DEF OverseerReturns, TypeOK
  <2>2. PICK d \in OverseerDecisions(at, attempts[at], verdict.outcome) :
          LET e == Effective(d, at, verdict.outcome)
          IN  \/ e.action = "continue" /\ Continue
              \/ e.action = "stop" /\ Stop
              \/ e.action = "repair" /\ Repair(e.target)
    BY <1>5 DEF OverseerReturns
  <2> DEFINE e == Effective(d, at, verdict.outcome)
  <2>3. e.action = "continue" => verdict.outcome = "pass"
    BY DEF Effective, Decision
  <2>4. e.action = "repair" => e.target \in 1..at
    <3>1. at \in 1..at
      BY <2>1, PipelineAssumption DEF Phase
    <3>2. d.action \in {"continue", "stop"} \/ d.target \in 1..at
      BY <2>2 DEF OverseerDecisions, Decision
    <3>3. QED
      BY <3>1, <3>2 DEF Effective, Decision
  <2> HIDE DEF e
  <2>5. \/ e.action = "continue" /\ Continue
        \/ e.action = "stop" /\ Stop
        \/ e.action = "repair" /\ Repair(e.target)
    BY <2>2 DEF e
  <2>6. UNCHANGED <<verdict, record, stopped, announced>>
    BY <1>5 DEF OverseerReturns
  <2>7. CASE e.action = "continue" /\ Continue
    BY <1>1, <2>1, <2>3, <2>6, <2>7, ContinueStep, LoopStepIInv DEF Continue, TypeOK
  <2>8. CASE e.action = "stop" /\ Stop
    <3>1. /\ Break(IF verdict.outcome = "pass" THEN "stopped" ELSE "failed")
          /\ UNCHANGED <<inRun, totalRepairs, rows>>
      BY <2>8 DEF Stop
    <3>2. LoopType' /\ LoopInv'
      BY <1>1, <3>1, BreakStep DEF TypeOK
    <3>3. QED
      BY <1>1, <2>1, <2>6, <3>1, <3>2, LoopStepIInv DEF TypeOK, Fresh
  <2>9. CASE e.action = "repair" /\ Repair(e.target)
    <3>1. LoopType' /\ LoopInv'
      BY <1>1, <2>1, <2>4, <2>9, RepairStep
    <3>2. totalRepairs' \in Nat /\ inRun' = inRun
      BY <1>1, <2>9 DEF Repair, TypeOK
    <3>3. QED
      BY <1>1, <2>1, <2>6, <3>1, <3>2, LoopStepIInv DEF TypeOK, Fresh
  <2>10. QED
    BY <2>5, <2>7, <2>8, <2>9
<1>6. CASE OverseerThrows
  <2>1. LoopType' /\ LoopInv'
    BY <1>1, <1>6, BreakStep DEF OverseerThrows, TypeOK
  <2>2. QED
    BY <1>1, <1>6, <2>1, LoopStepIInv DEF OverseerThrows, TypeOK, Fresh
<1>7. CASE CloseRun
  <2>1. /\ pc = "closing" /\ pc' = "over" /\ record' \in {finalStatus, record}
        /\ UNCHANGED <<at, verdict, inRun, attempts, totalRepairs, rows, finalStatus,
                       stopped, announced>>
    BY <1>7 DEF CloseRun
  <2>2. AllSettled' = AllSettled
    BY <2>1 DEF AllSettled, Settled
  <2>3. TypeOK'
    BY <1>1, <2>1 DEF TypeOK
  <2>4. LoopInv' /\ RecordLast' /\ Fresh'
    BY <1>1, <2>1 DEF LoopInv, CurrentRow, RowStatus, EarlierSettled, LoopDone, Live,
                      RecordLast, Fresh
  <2>5. DoneMeansSettled'
    BY <1>1, <2>1, <2>2 DEF LoopInv, LoopDone, DoneMeansSettled
  <2>6. QED
    BY <2>3, <2>4, <2>5 DEF IInv
<1>8. CASE RequestStop \/ Crash \/ UNCHANGED vars
  <2>1. /\ pc' \in {pc, "dead"}
        /\ pc' # pc => pc # "over"
        /\ stopped' \in BOOLEAN /\ announced' \in BOOLEAN
        /\ UNCHANGED <<at, verdict, inRun, attempts, totalRepairs, rows, finalStatus, record>>
    <3>1. CASE RequestStop
      BY <1>1, <3>1 DEF RequestStop, TypeOK
    <3>2. CASE Crash
      BY <1>1, <3>2 DEF Crash, TypeOK
    <3>3. CASE UNCHANGED vars
      BY <1>1, <3>3 DEF vars, TypeOK
    <3>4. QED
      BY <1>8, <3>1, <3>2, <3>3
  <2>2. TypeOK'
    BY <1>1, <2>1 DEF TypeOK
  <2>3. LoopInv'
    BY <1>1, <2>1 DEF LoopInv, CurrentRow, RowStatus, EarlierSettled, LoopDone, Live,
                      NewestRow, AllSettled, Settled
  <2>4. RecordLast' /\ Fresh' /\ DoneMeansSettled'
    BY <1>1, <2>1 DEF RecordLast, Fresh, DoneMeansSettled, AllSettled, Settled
  <2>5. QED
    BY <2>2, <2>3, <2>4 DEF IInv
<1>9. QED
  BY <1>2, <1>3, <1>4, <1>5, <1>6, <1>7, <1>8 DEF Next, Progress

(* The inductive invariant holds throughout every run (runPipeline).           *)
THEOREM Invariance == Spec => []IInv
BY InitIInv, StepIInv, PTL DEF Spec

(* Every variable keeps its type, for any number of phases and any budgets.    *)
THEOREM TypeCorrect == Spec => []TypeOK
<1>1. IInv => TypeOK
  BY DEF IInv
<1>2. QED
  BY <1>1, Invariance, PTL

(* A run recorded done has every phase it did not skip passed, each on work    *)
(* newer than the phases before it (runPipeline, pipeline.ts).                 *)
THEOREM DoneIsSettled == Spec => []DoneMeansSettled
<1>1. IInv => DoneMeansSettled
  BY DEF IInv
<1>2. QED
  BY <1>1, Invariance, PTL

(* No session starts once a stop is requested (the loop's top, pipeline.ts).   *)
THEOREM NoStartAfterStop == Spec => StopStartsNothing
<1>1. ASSUME stopped, NEW p, NEW log, Turn(p, log)
      PROVE  pc' = "closing"
  BY <1>1 DEF Turn, Break
<1>2. ASSUME stopped, NEW p, NEW log, NEW live, Advance(p, live, log)
      PROVE  pc' = "closing"
  BY <1>1, <1>2 DEF Advance, Break
<1>3. ASSUME [Next]_vars, stopped, pc' = "session"
      PROVE  pc = "session"
  <2>1. CASE Begin
    BY <1>1, <1>3, <2>1 DEF Begin
  <2>2. CASE OverseerReturns
    <3>1. ASSUME Continue
          PROVE  FALSE
      BY <1>2, <1>3, <3>1 DEF Continue, Break
    <3>2. ASSUME Stop
          PROVE  FALSE
      BY <1>3, <3>2 DEF Stop, Break
    <3>3. ASSUME NEW t, Repair(t)
          PROVE  FALSE
      BY <1>1, <1>3, <3>3 DEF Repair, Break
    <3>4. QED
      BY <2>2, <3>1, <3>2, <3>3 DEF OverseerReturns
  <2>3. CASE SessionEnds \/ StoreFails \/ OverseerThrows \/ CloseRun
               \/ RequestStop \/ Crash \/ UNCHANGED vars
    BY <1>3, <2>3 DEF SessionEnds, StoreFails, OverseerThrows, CloseRun, RequestStop,
                      Crash, Break, vars
  <2>4. QED
    BY <1>3, <2>1, <2>2, <2>3 DEF Next, Progress
<1>4. [Next]_vars => [stopped => (pc' = "session" => pc = "session")]_vars
  BY <1>3
<1>5. QED
  BY <1>4, PTL DEF Spec, StopStartsNothing

-----------------------------------------------------------------------------
(***************************************************************************)
(* Pipeline implements PhaseGate: the phases whose result stands in the    *)
(* audit table are what the abstract gate calls accepted.                  *)
(***************************************************************************)
Accepted == {p \in inRun : Settled(p)}

GateVars == <<inRun, Accepted, record>>

GateStep == [Gate!Next]_GateVars

-----------------------------------------------------------------------------

(* Going to phase p withdraws what the table says of p and later phases, or,   *)
(* after a stop, changes nothing.                                              *)
LEMMA TurnAccepted ==
  ASSUME TypeOK, NEW p \in Phase, NEW log \in Seq(Row), Turn(p, log),
         inRun' \subseteq Phase
  PROVE  \/ Accepted' = {q \in inRun' : SettledIn(log, q)}
         \/ Accepted' = {q \in inRun' : SettledIn(log, q) /\ q < p}
<1>1. CASE stopped
  BY <1>1 DEF Turn, Accepted, Settled
<1>2. CASE ~stopped
  <2> DEFINE row == StartedRow(p, attempts[p] + 1)
  <2>1. row \in Row /\ row.phase = p /\ row.status # "ok"
    BY RowTypes DEF TypeOK, StartedRow
  <2>2. CASE rows' = log
    BY <2>2 DEF Accepted, Settled
  <2>3. CASE rows' = Append(log, row)
    <3> HIDE DEF row
    <3>1. \A q \in Phase : SettledIn(rows', q) <=> SettledIn(log, q) /\ q < p
      <4> SUFFICES ASSUME NEW q \in Phase
                   PROVE  SettledIn(rows', q) <=> SettledIn(log, q) /\ q < p
        OBVIOUS
      <4>1. CASE q = p
        <5>1. ~(q < p)
          BY <4>1, PipelineAssumption DEF Phase
        <5>2. ~SettledIn(rows', q)
          BY <2>1, <2>3, <4>1, SettledAppend
        <5>3. QED
          BY <5>1, <5>2
      <4>2. CASE q # p
        BY <2>1, <2>3, <4>2, SettledAppend
      <4>3. QED
        BY <4>1, <4>2
    <3>2. QED
      BY <3>1 DEF Accepted, Settled
  <2>4. QED
    BY <1>2, <2>2, <2>3 DEF Turn
<1>3. QED
  BY <1>1, <1>2

(* Going to a phase of the run from the table as it is reopens that phase.     *)
LEMMA TurnGate ==
  ASSUME TypeOK, NEW p \in inRun, Turn(p, rows), UNCHANGED <<inRun, record>>,
         record = "running"
  PROVE  GateStep
<1>1. p \in Phase /\ rows \in Seq(Row) /\ inRun' \subseteq Phase
  BY DEF TypeOK
<1>2. Accepted' = Accepted \/ Accepted' = {q \in Accepted : q < p}
  BY <1>1, TurnAccepted DEF Accepted, Settled
<1>3. CASE Accepted' = Accepted
  BY <1>3 DEF GateStep, GateVars
<1>4. CASE Accepted' = {q \in Accepted : q < p}
  <2>1. Gate!Reopen(p)
    BY <1>4 DEF Gate!Reopen, Accepted
  <2>2. QED
    BY <1>1, <2>1 DEF GateStep, Gate!Next, Gate!Phase, Phase
<1>5. QED
  BY <1>2, <1>3, <1>4

(* When the planner has just passed, it alone is settled.                      *)
LEMMA PlannerOnlySettled ==
  ASSUME IInv, pc = "overseer", at = Planner, verdict.outcome = "pass",
         NEW q \in Phase
  PROVE  SettledIn(rows, q) <=> q = Planner
<1>1. /\ rows \in Seq(Row) /\ rows # <<>>
      /\ NewestRow.phase = Planner /\ NewestRow.status = "ok"
  BY DEF IInv, TypeOK, LoopInv, CurrentRow, RowStatus, Live, Status
<1>2. Planner \in Nat /\ \A r \in Phase : r \in Nat /\ (r = Planner \/ Planner < r)
  BY PipelineAssumption DEF Phase, Planner
<1>3. Len(rows) \in 1..Len(rows) /\ Len(rows) \in Nat /\ NewestRow = rows[Len(rows)]
  BY <1>1 DEF NewestRow
<1>4. SettledIn(rows, Planner)
  <2>1. \A j \in (Len(rows)+1)..Len(rows) : rows[j].phase > Planner
    BY <1>3
  <2>2. QED
    BY <1>1, <1>3, <2>1 DEF SettledIn
<1>5. ASSUME SettledIn(rows, q)
      PROVE  q = Planner
  <2>1. PICK i \in 1..Len(rows) :
          /\ rows[i].phase = q
          /\ \A j \in (i+1)..Len(rows) : rows[j].phase > q
    BY <1>5 DEF SettledIn
  <2>2. CASE i = Len(rows)
    BY <1>1, <1>3, <2>1, <2>2
  <2>3. CASE i # Len(rows)
    <3>1. Len(rows) \in (i+1)..Len(rows)
      BY <1>3, <2>3
    <3>2. Planner > q
      BY <1>1, <1>3, <2>1, <3>1
    <3>3. QED
      BY <1>2, <3>2
  <2>4. QED
    BY <2>2, <2>3
<1>6. QED
  BY <1>4, <1>5

(* The skip of the test designer is the gate's waiver.                         *)
LEMMA SkipGate ==
  ASSUME IInv, pc = "overseer", at = Planner, verdict.outcome = "pass",
         inRun' = inRun \ {TestDesigner},
         Advance(at, inRun', Append(rows, SkippedRow(TestDesigner))),
         record = "running", UNCHANGED record
  PROVE  GateStep
<1> DEFINE row == SkippedRow(TestDesigner)
           log == Append(rows, row)
<1>1. /\ rows \in Seq(Row) /\ rows # <<>> /\ inRun \subseteq Phase /\ TypeOK
      /\ Planner \in inRun
      /\ NewestRow.phase = Planner /\ NewestRow.status = "ok"
  BY DEF IInv, TypeOK, LoopInv, CurrentRow, RowStatus, Live, Status
<1>2. /\ TestDesigner \in Phase /\ Planner \in Phase /\ Planner < TestDesigner
      /\ Phase \subseteq Nat /\ Planner \in Nat /\ \A q \in Phase : q = Planner \/ Planner < q
  BY PipelineAssumption DEF Phase, Planner
<1>3. row \in Row /\ row.phase = TestDesigner
  BY <1>2, RowTypes DEF SkippedRow
<1>4. Advance(at, inRun', log)
  OBVIOUS
<1> HIDE DEF row
<1>5. log \in Seq(Row)
  BY <1>1, <1>3
<1>6. ASSUME NEW q \in Phase
      PROVE  SettledIn(rows, q) <=> q = Planner
  BY <1>6, PlannerOnlySettled
<1>7. ASSUME NEW q \in inRun'
      PROVE  SettledIn(log, q) <=> q = Planner
  <2>1. q \in Phase /\ q # row.phase
    BY <1>1, <1>3
  <2>2. SettledIn(log, q) => q = Planner
    BY <1>1, <1>3, <1>6, <2>1, SettledAppend
  <2>3. SettledIn(log, Planner)
    BY <1>1, <1>2, <1>3, <1>6, SettledAppend
  <2>4. QED
    BY <2>2, <2>3
<1> HIDE DEF log
<1>8. Accepted = {Planner}
  BY <1>1, <1>2, <1>6 DEF Accepted, Settled
<1>9. Planner \in inRun' /\ inRun' \subseteq Phase
  BY <1>1, <1>2
<1>10. Accepted' = {Planner}
  <2>1. ASSUME NEW p \in inRun', p > at, Turn(p, log)
        PROVE  Accepted' = {Planner}
    BY <1>1, <1>5, <1>7, <1>9, <2>1, TurnAccepted
  <2>2. ASSUME rows' = log
        PROVE  Accepted' = {Planner}
    BY <1>7, <1>9, <2>2 DEF Accepted, Settled
  <2>3. QED
    BY <1>4, <2>1, <2>2 DEF Advance
<1>11. Gate!Waive
  BY <1>8, <1>10 DEF Gate!Waive, Accepted, Planner
<1>12. QED
  BY <1>11 DEF GateStep, Gate!Next

(* A skip whose row is half written ends the run with nothing more accepted.   *)
LEMMA HalfSkipGate ==
  ASSUME IInv, pc = "overseer", at = Planner, verdict.outcome = "pass",
         UNCHANGED <<inRun, record>>,
         rows' \in {rows, Append(rows, StartedRow(TestDesigner, 1))}
  PROVE  GateStep
<1>1. CASE rows' = rows
  BY <1>1 DEF GateStep, GateVars, Accepted, Settled
<1>2. CASE rows' = Append(rows, StartedRow(TestDesigner, 1))
  <2> DEFINE row == StartedRow(TestDesigner, 1)
  <2>1. TestDesigner \in Phase /\ inRun \subseteq Phase /\ rows \in Seq(Row)
    BY PipelineAssumption DEF IInv, TypeOK, Phase
  <2>2. row \in Row /\ row.phase = TestDesigner /\ row.status # "ok"
    BY <2>1, RowTypes DEF StartedRow
  <2>3. rows' = Append(rows, row)
    BY <1>2
  <2> HIDE DEF row
  <2>4. ASSUME NEW q \in inRun, SettledIn(rows, q)
        PROVE  q < TestDesigner
    BY <2>1, <2>4, PlannerOnlySettled, PipelineAssumption DEF Planner
  <2>5. \A q \in inRun : SettledIn(rows', q) <=> SettledIn(rows, q)
    BY <2>1, <2>2, <2>3, <2>4, SettledAppend
  <2>6. QED
    BY <2>5 DEF GateStep, GateVars, Accepted, Settled
<1>3. QED
  BY <1>1, <1>2

(* The continue branch is a waiver, a reopening of the next phase or a stutter *)
(* of the gate.                                                                *)
LEMMA ContinueGate ==
  ASSUME IInv, pc = "overseer", verdict.outcome = "pass", Continue,
         record = "running", UNCHANGED record
  PROVE  GateStep
<1>1. TypeOK /\ inRun \subseteq Phase
  BY DEF IInv, TypeOK
<1>2. CASE /\ at = Planner
           /\ inRun' = inRun \ {TestDesigner}
           /\ Advance(at, inRun', Append(rows, SkippedRow(TestDesigner)))
  BY <1>2, SkipGate
<1>3. CASE inRun' = inRun /\ Advance(at, inRun, rows)
  <2>1. ASSUME NEW p \in inRun, Turn(p, rows)
        PROVE  GateStep
    BY <1>1, <1>3, <2>1, TurnGate
  <2>2. ASSUME rows' = rows
        PROVE  GateStep
    BY <1>3, <2>2 DEF GateStep, GateVars, Accepted, Settled
  <2>3. QED
    BY <1>3, <2>1, <2>2 DEF Advance
<1>4. CASE /\ at = Planner
           /\ UNCHANGED inRun
           /\ rows' \in {rows, Append(rows, StartedRow(TestDesigner, 1))}
  BY <1>4, HalfSkipGate
<1>5. QED
  BY <1>2, <1>3, <1>4 DEF Continue

(* A step that leaves the table, the run's phases and the record alone is a    *)
(* stutter of the gate.                                                        *)
LEMMA Stutter ==
  ASSUME UNCHANGED <<rows, inRun, record>>
  PROVE  GateStep
BY DEF GateStep, GateVars, Accepted, Settled

(* Every step of the run is a step or a stutter of the gate: a case per action. *)
LEMMA StepGate == IInv /\ [Next]_vars => GateStep
<1> SUFFICES ASSUME IInv, [Next]_vars
             PROVE  GateStep
  OBVIOUS
<1>1. /\ TypeOK /\ LoopInv /\ Fresh
      /\ pc # "over" => record = "running"
  BY DEF IInv, RecordLast
<1>2. CASE Begin
  BY <1>1, <1>2, TurnGate DEF Begin, Fresh
<1>3. CASE SessionEnds
  <2>1. PICK o \in Outcome : rows' = FinishedRows(o)
    BY <1>3 DEF SessionEnds
  <2>2. /\ pc = "session" /\ record = "running" /\ UNCHANGED <<inRun, record>>
        /\ rows \in Seq(Row) /\ rows # <<>> /\ inRun \subseteq Phase
        /\ at \in inRun /\ NewestRow.phase = at /\ NewestRow.status = "running"
        /\ \A q \in inRun : q < at => Settled(q)
    BY <1>1, <1>3 DEF SessionEnds, TypeOK, LoopInv, CurrentRow, RowStatus,
                      EarlierSettled, Live
  <2>3. at \in Phase /\ at \in Nat
    BY <2>2, PipelineAssumption DEF Phase
  <2>4. ~Settled(at)
    BY <2>2, <2>3, SettledFinish DEF Settled, Outcome
  <2>5. \A q \in inRun : q # at => (SettledIn(rows', q) <=> SettledIn(rows, q))
    BY <2>1, <2>2, SettledFinish
  <2>6. SettledIn(rows', at) <=> o = "pass"
    BY <2>1, <2>2, <2>3, SettledFinish
  <2>7. CASE o = "pass"
    <3>1. Accepted' = Accepted \cup {at}
      BY <2>2, <2>5, <2>6, <2>7 DEF Accepted, Settled
    <3>2. \A q \in inRun : q < at => q \in Accepted
      BY <2>2 DEF Accepted
    <3>3. Gate!Accept(at)
      BY <2>2, <2>4, <3>1, <3>2 DEF Gate!Accept, Accepted
    <3>4. QED
      BY <2>3, <3>3 DEF GateStep, Gate!Next, Gate!Phase, Phase
  <2>8. CASE o # "pass"
    <3>1. Accepted' = Accepted
      BY <2>2, <2>4, <2>5, <2>6, <2>8 DEF Accepted, Settled
    <3>2. QED
      BY <2>2, <3>1 DEF GateStep, GateVars
  <2>9. QED
    BY <2>7, <2>8
<1>4. CASE OverseerReturns
  <2>1. /\ pc = "overseer" /\ record = "running" /\ UNCHANGED record
        /\ at \in inRun /\ at \in Phase
    BY <1>1, <1>4 DEF OverseerReturns, LoopInv, CurrentRow, Live, TypeOK
  <2>2. PICK d : LET e == Effective(d, at, verdict.outcome)
                 IN  \/ e.action = "continue" /\ Continue
                     \/ e.action = "stop" /\ Stop
                     \/ e.action = "repair" /\ Repair(e.target)
    BY <1>4 DEF OverseerReturns
  <2> DEFINE e == Effective(d, at, verdict.outcome)
  <2>3. e.action = "continue" => verdict.outcome = "pass"
    BY DEF Effective, Decision
  <2>4. CASE e.action = "continue" /\ Continue
    BY <2>1, <2>3, <2>4, ContinueGate
  <2>5. CASE Stop
    BY <2>1, <2>5, Stutter DEF Stop
  <2>6. ASSUME NEW t, Repair(t)
        PROVE  GateStep
    <3>1. RepairTarget(t, at) \in inRun /\ inRun' = inRun
      BY <2>1, <2>6 DEF RepairTarget, Repair
    <3>2. CASE UNCHANGED rows
      BY <2>1, <3>1, <3>2, Stutter
    <3>3. CASE Turn(RepairTarget(t, at), rows)
      BY <1>1, <2>1, <3>1, <3>3, TurnGate
    <3>4. QED
      BY <2>6, <3>2, <3>3 DEF Repair
  <2>7. QED
    BY <2>2, <2>4, <2>5, <2>6
<1>5. CASE CloseRun
  <2>1. /\ pc = "closing" /\ record = "running" /\ record' \in {finalStatus, record}
        /\ UNCHANGED <<inRun, rows>>
        /\ finalStatus \in {"done", "stopped", "failed"}
    BY <1>1, <1>5 DEF CloseRun, TypeOK
  <2>2. UNCHANGED Accepted
    BY <2>1 DEF Accepted, Settled
  <2>3. finalStatus = "done" => Accepted = inRun
    BY <1>1, <2>1 DEF LoopInv, LoopDone, AllSettled, Accepted
  <2>4. CASE record' = finalStatus
    <3>1. Gate!Finish(finalStatus)
      BY <2>1, <2>2, <2>3, <2>4 DEF Gate!Finish, Accepted
    <3>2. QED
      BY <2>1, <3>1 DEF GateStep, Gate!Next
  <2>5. CASE record' = record
    BY <2>1, <2>5, Stutter
  <2>6. QED
    BY <2>1, <2>4, <2>5
<1>6. CASE StoreFails \/ OverseerThrows \/ RequestStop \/ Crash \/ UNCHANGED vars
  BY <1>6, Stutter DEF StoreFails, OverseerThrows, RequestStop, Crash, vars
<1>7. QED
  BY <1>2, <1>3, <1>4, <1>5, <1>6 DEF Next, Progress

(* A run that begins is a gate with nothing accepted.                          *)
LEMMA InitGate == Init => Gate!Init
<1> SUFFICES ASSUME Init
             PROVE  Gate!Init
  OBVIOUS
<1>1. Accepted = {}
  BY DEF Init, Accepted, Settled, SettledIn
<1>2. QED
  BY <1>1 DEF Init, Gate!Init, Accepted, Gate!Phase, Phase

(* Every run, seen through its audit table, accepts phases in order, withdraws *)
(* what a repair sends back, waives only the test designer and only before     *)
(* anything after the planner stands, and is done only with all accepted.      *)
THEOREM ImplementsGate == Spec => GateSpec
<1>1. IInv /\ [Next]_vars => [Gate!Next]_(Gate!vars)
  BY StepGate DEF GateStep, GateVars, Accepted, Gate!vars
<1>2. QED
  BY <1>1, InitGate, Invariance, PTL DEF Spec, GateSpec, Gate!Spec
=============================================================================
