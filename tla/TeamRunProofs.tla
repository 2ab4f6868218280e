---------------------------- MODULE TeamRunProofs ----------------------------
(***************************************************************************)
(* Proofs about TeamRun, for every proposal, every task, any caps and any  *)
(* budgets.                                                                *)
(*                                                                         *)
(* They rest on IInv.  Its first half is about the plan: the order that    *)
(* was computed at the start tells any two steps apart, puts the           *)
(* gatekeeper last and stays an order of the plan when steps are removed,  *)
(* and every plan the loop has is one the rules accepted.  Its second half *)
(* is about the loop, as in PipelineProofs: the step in turn owns the      *)
(* newest row and every earlier step of the plan is settled.  GateInv adds *)
(* what the view of the run as a StepGate rests on.                        *)
(***************************************************************************)
EXTENDS TeamRun, TLAPS, FiniteSetTheorems, WellFoundedInduction

Placed == place # <<>>

InLoop == pc \in {"turn", "session", "overseer", "onward"}

(* What the rules of a plan leave to the loop, whatever it removed.            *)
FloorHolds ==
  /\ \A b \in Of(plan, "builder") : \E v \in Of(plan, "verifier") : plan[v].checks = b
  /\ \A r \in signals.required : Of(plan, r) # {}
  /\ signals.writes =>
       /\ Of(plan, "builder") # {}
       /\ \E g \in Of(plan, "gatekeeper") : \A s \in DOMAIN place : place[s] <= place[g]

(* No two steps have one place.                                                *)
Distinct == \A s, t \in DOMAIN place : place[s] = place[t] => s = t

PlanInv ==
  /\ pc \in {"cli", "refused", "start"} => ~Placed
  /\ pc = "start" /\ signals.writes => Of(plan, "builder") # {}
  /\ InLoop => Placed
  /\ Placed => /\ DOMAIN plan \subseteq DOMAIN place
               /\ Distinct
               /\ FloorHolds

NewestRow == rows[Len(rows)]

(* Every row is of a step that has a place.                                    *)
RowsPlaced == \A i \in 1..Len(rows) : rows[i].step \in DOMAIN place

CurrentRow ==
  pc \in {"session", "overseer"} =>
    /\ rows # <<>>
    /\ NewestRow.step = at
    /\ pc = "overseer" /\ verdict.outcome = "pass" => NewestRow.status = "ok"

EarlierSettled ==
  /\ InLoop => at \in DOMAIN plan
  /\ InLoop => \A s \in DOMAIN plan : place[s] < place[at] => Settled(s)
  /\ pc = "onward" => Settled(at)

(* The planner's skips are judged past the planner only, of later steps.       *)
AskedLater == /\ InLoop /\ pc # "onward" => asked = {}
              /\ pc = "onward" => asked \subseteq Later

AllSettled == Placed /\ \A s \in DOMAIN plan : Settled(s)

(* Only a loop that ran to its end leaves "done" to be written.                *)
DoneIsSettled ==
  /\ pc = "closing" /\ finalStatus = "done" => AllSettled
  /\ record = "done" => pc = "over" /\ AllSettled

LoopInv == RowsPlaced /\ CurrentRow /\ EarlierSettled /\ AskedLater /\ DoneIsSettled

IInv == TypeOK /\ PlanInv /\ OrderFits /\ LoopInv

-----------------------------------------------------------------------------
(* Plans. *)

(* A set of numbers that is not empty has a least member.                      *)
LEMMA LeastOfNat ==
  ASSUME NEW S \in SUBSET Nat, S # {}
  PROVE  Min(S) \in S
<1>1. PICK x \in S : \A y \in S : ~(<<y, x>> \in OpToRel(<, Nat))
  BY NatLessThanWellFounded, WFMin
<1>2. ASSUME NEW y \in S
      PROVE  x <= y
  <2>1. <<y, x>> \in Nat \X Nat /\ (y < x => <<y, x>> \in OpToRel(<, Nat))
    BY DEF OpToRel
  <2>2. ~(y < x)
    BY <1>1, <2>1, Zenon
  <2>3. QED
    BY <2>2
<1>3. QED
  BY <1>2 DEF Min

(* An order gives every step of the plan a number (topoOrder).                 *)
LEMMA OrderType ==
  ASSUME NEW p, IsFiniteSet(DOMAIN p), NEW f \in Orders(p)
  PROVE  f \in [DOMAIN p -> Nat] /\ Stable(p, f)
<1>1. f = TopoOrder(p) /\ Stable(p, f)
  BY DEF Orders
<1> DEFINE n == Cardinality(DOMAIN p)
           next[S \in SUBSET DOMAIN p] ==
             S \cup First({s \in DOMAIN p \ S : Waits(p, s) \subseteq S})
           done[k \in 0..n] == IF k = 0 THEN {} ELSE next[done[k-1]]
           ready(s) == {k \in 0..n : s \in done[k]} \cup {n + 1}
<1>2. n \in Nat
  BY FS_CardinalityType
<1>3. f = [s \in DOMAIN p |-> Min(ready(s))]
  BY <1>1 DEF TopoOrder
<1> HIDE DEF done, n
<1>4. \A s \in DOMAIN p : ready(s) \in SUBSET Nat /\ ready(s) # {}
  BY <1>2
<1>5. \A s \in DOMAIN p : Min(ready(s)) \in Nat
  BY <1>4, LeastOfNat
<1>6. QED
  BY <1>1, <1>3, <1>5

(* In a stable order two steps in one place would both be the first of the     *)
(* plan's list that is ready, so they are one.                                 *)
LEMMA StableApart ==
  ASSUME NEW p, DOMAIN p \subseteq Nat, NEW f \in [DOMAIN p -> Nat], Stable(p, f),
         NEW s \in DOMAIN p, NEW t \in DOMAIN p, f[s] = f[t]
  PROVE  s = t
<1> DEFINE done == {u \in DOMAIN p : f[u] < f[s]}
<1>1. done = {u \in DOMAIN p : f[u] < f[t]}
  OBVIOUS
<1>2. s \notin done /\ t \notin done
  OBVIOUS
<1>3. Waits(p, s) \subseteq done /\ (Waits(p, t) \subseteq done => s <= t)
  BY <1>2 DEF Stable
<1>4. Waits(p, t) \subseteq done /\ (Waits(p, s) \subseteq done => t <= s)
  BY <1>1, <1>2 DEF Stable
<1>5. QED
  BY <1>3, <1>4

(* Removing a step (removeStep) changes no role and no check, and what a step  *)
(* waits for then it waited for before, itself or through the removed one.     *)
LEMMA RemoveStepShape ==
  ASSUME NEW p, Shaped(p), NEW s \in DOMAIN p
  PROVE  /\ DOMAIN RemoveStep(p, s) = DOMAIN p \ {s}
         /\ \A x \in DOMAIN p \ {s} :
              /\ RemoveStep(p, s)[x].role = p[x].role
              /\ RemoveStep(p, s)[x].checks = p[x].checks
              /\ Waits(RemoveStep(p, s), x) \subseteq Waits(p, x) \cup
                   (IF s \in Waits(p, x) THEN Waits(p, s) ELSE {})
<1> DEFINE q == RemoveStep(p, s)
<1>1. DOMAIN q = DOMAIN p \ {s}
  BY DEF RemoveStep
<1>2. SUFFICES ASSUME NEW x \in DOMAIN p \ {s}
               PROVE  /\ q[x].role = p[x].role
                      /\ q[x].checks = p[x].checks
                      /\ Waits(q, x) \subseteq Waits(p, x) \cup
                           (IF s \in Waits(p, x) THEN Waits(p, s) ELSE {})
  BY <1>1
<1>3. p[x] \in Step
  BY DEF Shaped
<1> DEFINE after == IF s \in p[x].after THEN (p[x].after \ {s}) \cup Waits(p, s)
                                         ELSE p[x].after
<1>4. q[x] = [p[x] EXCEPT !.after = after]
  BY DEF RemoveStep
<1>5. /\ q[x].role = p[x].role
      /\ q[x].checks = p[x].checks
      /\ q[x].after = after
  BY <1>3, <1>4 DEF Step
<1> HIDE DEF q
<1>6. Waits(q, x) = after \cup (IF p[x].checks = None THEN {} ELSE {p[x].checks})
  BY <1>5 DEF Waits
<1>7. Waits(p, x) = p[x].after \cup (IF p[x].checks = None THEN {} ELSE {p[x].checks})
  BY DEF Waits
<1>8. QED
  BY <1>5, <1>6, <1>7

-----------------------------------------------------------------------------
(* Rows. *)

(* As long as the order stays, a result stands or not by the rows alone.       *)
LEMMA SettledByRows ==
  ASSUME place' = place, NEW s
  PROVE  Settled(s)' <=> SettledIn(rows', s)
BY DEF Settled, SettledIn

(* A row of a later step unsettles nothing before it, and an "ok" row settles  *)
(* its step.                                                                   *)
LEMMA SettledAppend ==
  ASSUME NEW log \in Seq(Row), NEW row \in Row, NEW s
  PROVE  /\ SettledIn(log, s) /\ place[row.step] > place[s] => SettledIn(Append(log, row), s)
         /\ row.status = "ok" => SettledIn(Append(log, row), row.step)
<1> DEFINE new == Append(log, row)
<1>1. /\ new \in Seq(Row)
      /\ Len(new) = Len(log) + 1
      /\ new[Len(log) + 1] = row
      /\ \A i \in 1..Len(log) : new[i] = log[i]
      /\ Len(log) \in Nat
  OBVIOUS
<1> HIDE DEF new
<1>2. ASSUME SettledIn(log, s), place[row.step] > place[s]
      PROVE  SettledIn(new, s)
  <2>1. PICK i \in 1..Len(log) :
          /\ log[i].step = s
          /\ log[i].status = "ok"
          /\ \A j \in (i+1)..Len(log) : place[log[j].step] > place[s]
    BY <1>2 DEF SettledIn
  <2>2. ASSUME NEW j \in (i+1)..Len(new)
        PROVE  place[new[j].step] > place[s]
    <3>1. CASE j = Len(log) + 1
      BY <1>1, <1>2, <3>1
    <3>2. CASE j # Len(log) + 1
      <4>1. j \in (i+1)..Len(log) /\ j \in 1..Len(log)
        BY <1>1, <3>2
      <4>2. QED
        BY <1>1, <2>1, <4>1
    <3>3. QED
      BY <3>1, <3>2
  <2>3. i \in 1..Len(new) /\ new[i] = log[i]
    BY <1>1
  <2>4. QED
    BY <2>1, <2>2, <2>3 DEF SettledIn
<1>3. ASSUME row.status = "ok"
      PROVE  SettledIn(new, row.step)
  <2>1. Len(new) \in 1..Len(new) /\ new[Len(new)] = row
    BY <1>1
  <2>2. \A j \in (Len(new)+1)..Len(new) : place[new[j].step] > place[row.step]
    BY <1>1
  <2>3. QED
    BY <1>3, <2>1, <2>2 DEF SettledIn
<1>4. QED
  BY <1>2, <1>3 DEF new

(* Finishing the newest row keeps the table's type and steps, unsettles no     *)
(* other step, and settles the row's own on a pass.                            *)
LEMMA SettledFinish ==
  ASSUME rows \in Seq(Row), rows # <<>>, NEW o \in {"pass", "fail"}
  PROVE  /\ FinishedRows(o) \in Seq(Row)
         /\ Len(FinishedRows(o)) = Len(rows)
         /\ \A i \in 1..Len(rows) : FinishedRows(o)[i].step = rows[i].step
         /\ \A s : SettledIn(rows, s) /\ s # NewestRow.step => SettledIn(FinishedRows(o), s)
         /\ o = "pass" => FinishedRows(o)[Len(rows)].status = "ok"
<1> DEFINE new  == FinishedRows(o)
           last == Len(rows)
           st   == IF o = "pass" THEN "ok" ELSE "failed"
<1>1. last \in 1..last /\ last \in Nat
  OBVIOUS
<1>2. \A i \in 1..last : rows[i] \in Row
  OBVIOUS
<1>3. \A i \in 1..last : [rows[i] EXCEPT !.status = st] \in Row
  BY <1>2 DEF Row
<1>4. new = [i \in 1..last |-> IF i = last THEN [rows[i] EXCEPT !.status = st] ELSE rows[i]]
  BY <1>1 DEF FinishedRows
<1>5. new \in Seq(Row)
  BY <1>2, <1>3, <1>4
<1>6. Len(new) = last
  BY <1>4, <1>5
<1>7. \A i \in 1..last : new[i].step = rows[i].step
  BY <1>2, <1>4 DEF Row
<1>8. \A i \in 1..last : i # last => new[i] = rows[i]
  BY <1>4
<1>9. o = "pass" => new[last].status = "ok"
  BY <1>1, <1>2, <1>4 DEF Row
<1>10. ASSUME NEW s, SettledIn(rows, s), s # NewestRow.step
       PROVE  SettledIn(new, s)
  <2>1. PICK i \in 1..last :
          /\ rows[i].step = s
          /\ rows[i].status = "ok"
          /\ \A j \in (i+1)..last : place[rows[j].step] > place[s]
    BY <1>10 DEF SettledIn
  <2>2. i # last
    BY <1>10, <2>1 DEF NewestRow
  <2>3. new[i] = rows[i] /\ i \in 1..Len(new)
    BY <1>6, <1>8, <2>2
  <2>4. \A j \in (i+1)..Len(new) : new[j].step = rows[j].step
    BY <1>6, <1>7
  <2>5. QED
    BY <1>6, <2>1, <2>3, <2>4 DEF SettledIn
<1> HIDE DEF new, last, st
<1>11. QED
  BY <1>5, <1>6, <1>7, <1>9, <1>10 DEF new, last

(* An "ok" row at the end of the table settles its step.                       *)
LEMMA NewestSettles ==
  ASSUME rows \in Seq(Row), rows # <<>>, NewestRow.status = "ok"
  PROVE  Settled(NewestRow.step)
<1>1. Len(rows) \in 1..Len(rows)
  OBVIOUS
<1>2. \A j \in (Len(rows)+1)..Len(rows) : place[rows[j].step] > place[NewestRow.step]
  BY <1>1
<1>3. QED
  BY <1>1, <1>2 DEF Settled, SettledIn, NewestRow

-----------------------------------------------------------------------------
(* Types. *)

(* A repair goes back to a step of the plan, at or before the one in turn      *)
(* (boundRepairTarget, whatever was named).                                    *)
LEMMA RepairBack ==
  ASSUME TypeOK, Placed, OrderFits, at \in DOMAIN plan, DOMAIN plan \subseteq DOMAIN place,
         NEW n
  PROVE  /\ BoundRepairTarget(n) \in DOMAIN plan
         /\ place[BoundRepairTarget(n)] <= place[at]
<1>1. place[at] \in Nat
  BY DEF TypeOK
<1>2. plan[at].checks # None =>
        plan[at].checks \in DOMAIN plan /\ place[plan[at].checks] < place[at]
  BY DEF OrderFits, Placed, Waits
<1>3. plan[at].checks # None => place[plan[at].checks] <= place[at]
  BY <1>1, <1>2 DEF TypeOK
<1>4. BoundRepairTarget(n) \in
        {at} \cup (IF plan[at].checks = None THEN {} ELSE {plan[at].checks})
             \cup {t \in DOMAIN plan : place[t] <= place[at]}
  BY DEF BoundRepairTarget
<1>5. QED
  BY <1>1, <1>2, <1>3, <1>4

(* Rows the run writes are rows of the table.                                  *)
LEMMA RowTypes ==
  ASSUME NEW s \in Nat, NEW n \in Nat, NEW st \in {"running", "ok", "failed"},
         NEW how \in {"session", "unrun", "skipped"}
  PROVE  /\ NewRow(s, n, st, how) \in Row
         /\ NewRow(s, n, st, how).step = s
         /\ NewRow(s, n, st, how).status = st
BY DEF NewRow, Row

(* A table that got nothing or one row more is still one.                      *)
LEMMA AppendType ==
  ASSUME rows \in Seq(Row), rows' = rows \/ \E row \in Row : rows' = Append(rows, row)
  PROVE  rows' \in Seq(Row)
<1>1. ASSUME NEW row \in Row, rows' = Append(rows, row)
      PROVE  rows' \in Seq(Row)
  BY <1>1
<1>2. QED
  BY <1>1

(* What Turn and JudgeSkip may append is nothing, or one row of a step.        *)
LEMMA TurnRows ==
  ASSUME TypeOK, PlanInv, EarlierSettled, Turn
  PROVE  /\ attempts' \in [DOMAIN place -> Nat]
         /\ \/ rows' = rows
            \/ \E row \in Row : row.step = at /\ rows' = Append(rows, row)
         /\ pc' \in {"session", "onward", "closing"}
         /\ pc' \in {"session", "onward"} =>
              \E row \in Row : /\ row.step = at
                               /\ rows' = Append(rows, row)
                               /\ pc' = "onward" => row.status = "ok"
         /\ pc' = "closing" => finalStatus' \in {"stopped", "failed"}
         /\ pc' # "closing" => finalStatus' = finalStatus
<1>1. at \in DOMAIN plan /\ at \in DOMAIN place /\ at \in Nat
  BY DEF Turn, EarlierSettled, InLoop, PlanInv, TypeOK
<1>2. CASE SeesStop
  BY <1>2 DEF Turn, TypeOK, Break
<1>3. CASE ~SeesStop
  <2> DEFINE n == attempts'[at]
  <2>1. attempts' = [attempts EXCEPT ![at] = @ + 1]
    BY <1>3 DEF Turn
  <2>2. attempts' \in [DOMAIN place -> Nat] /\ n \in Nat
    BY <1>1, <2>1 DEF TypeOK
  <2>3. \/ rows' = Append(rows, NewRow(at, n, "running", "session"))
             /\ pc' = "session" /\ UNCHANGED finalStatus
        \/ rows' = Append(rows, NewRow(at, n, "ok", "unrun"))
             /\ pc' = "onward" /\ UNCHANGED finalStatus
        \/ rows' \in {rows, Append(rows, NewRow(at, n, "running", "unrun"))}
             /\ pc' = "closing" /\ finalStatus' = "failed"
    BY <1>3 DEF Turn, Break
  <2> HIDE DEF n
  <2>4. \A st \in {"running", "ok"}, how \in {"session", "unrun"} :
          /\ NewRow(at, n, st, how) \in Row
          /\ NewRow(at, n, st, how).step = at
          /\ NewRow(at, n, st, how).status = st
    BY <1>1, <2>2, RowTypes
  <2>5. CASE pc' = "session"
    BY <2>2, <2>3, <2>4, <2>5
  <2>6. CASE pc' = "onward"
    BY <2>2, <2>3, <2>4, <2>6
  <2>7. CASE pc' = "closing"
    BY <2>2, <2>3, <2>4, <2>7
  <2>8. QED
    BY <2>3, <2>5, <2>6, <2>7
<1>4. QED
  BY <1>2, <1>3

(* Skipping a step writes its row and leaves a plan the rules accept without   *)
(* it (judgeSkips, skipStep).                                                  *)
LEMMA SkipShape ==
  ASSUME TypeOK, PlanInv, LoopInv, JudgeSkip
  PROVE  \E s \in asked :
           /\ s \in Later
           /\ asked' = asked \ {s}
           /\ rows' = rows \/ \E row \in Row : row.step = s /\ rows' = Append(rows, row)
           /\ \/ pc' = "closing" /\ finalStatus' = "failed" /\ plan' = plan
              \/ pc' = "onward" /\ finalStatus' = finalStatus
                   /\ \/ plan' = plan
                      \/ /\ plan' = RemoveStep(plan, s)
                         /\ plan[s].role \notin Unskippable \cup signals.required
                         /\ Valid(plan', EngineContext(plan))
<1>1. PICK s \in asked :
        /\ asked' = asked \ {s}
        /\ \/ /\ MaySkip(plan, s, EngineContext(plan))
              /\ \/ /\ rows' = Append(rows, NewRow(s, 1, "ok", "skipped"))
                    /\ plan' = RemoveStep(plan, s)
                    /\ UNCHANGED <<pc, finalStatus>>
                 \/ /\ rows' \in {rows, Append(rows, NewRow(s, 1, "running", "skipped"))}
                    /\ Break("failed")
                    /\ UNCHANGED plan
           \/ UNCHANGED <<pc, plan, rows, finalStatus>>
  BY DEF JudgeSkip
<1>2. pc = "onward" /\ s \in Later /\ s \in Nat
  BY DEF JudgeSkip, LoopInv, AskedLater, Later, TypeOK, Shaped
<1>3. /\ NewRow(s, 1, "ok", "skipped") \in Row
      /\ NewRow(s, 1, "ok", "skipped").step = s
      /\ NewRow(s, 1, "running", "skipped") \in Row
      /\ NewRow(s, 1, "running", "skipped").step = s
  BY <1>2, RowTypes
<1>4. rows' = rows \/ \E row \in Row : row.step = s /\ rows' = Append(rows, row)
  BY <1>1, <1>3
<1>5. \/ pc' = "closing" /\ finalStatus' = "failed" /\ plan' = plan
      \/ pc' = "onward" /\ finalStatus' = finalStatus
           /\ \/ plan' = plan
              \/ /\ plan' = RemoveStep(plan, s)
                 /\ plan[s].role \notin Unskippable \cup signals.required
                 /\ Valid(plan', EngineContext(plan))
  <2>1. EngineContext(plan).required = signals.required
    BY DEF EngineContext
  <2>2. QED
    BY <1>1, <1>2, <2>1 DEF MaySkip, Break
<1>6. QED
  BY <1>1, <1>2, <1>4, <1>5

(* Every step keeps the types.                                                 *)
LEMMA TypeStep ==
  ASSUME IInv, [Next]_vars
  PROVE  TypeOK'
<1>0. Suggestions \subseteq Seq(Role) /\ <<>> \in Seq(Role)
  BY TeamRunAssumption
<1>1. CASE UNCHANGED vars
  BY <1>1 DEF IInv, TypeOK, vars, given
<1>2. CASE Resolve
  <2>1. Shaped(plan')
    BY <1>2 DEF Resolve, Valid, IInv, TypeOK
  <2>2. pc' \in {"start", "refused"} /\ record' \in {"running", record}
    BY <1>2 DEF Resolve
  <2>3. QED
    BY <1>2, <2>1, <2>2 DEF Resolve, IInv, TypeOK, given
<1>3. CASE Begin
  <2>1. Shaped(plan) /\ plan' = plan
    BY <1>3 DEF Begin, IInv, TypeOK
  <2>2. CASE UNCHANGED <<place, at, attempts>> /\ Break("failed")
    BY <1>3, <2>2 DEF Begin, IInv, TypeOK, Break, given
  <2>3. CASE /\ place' \in Orders(plan)
             /\ at' \in DOMAIN plan
             /\ attempts' = [s \in DOMAIN plan |-> 0]
             /\ pc' = "turn"
             /\ UNCHANGED finalStatus
    <3>1. place' \in [DOMAIN plan -> Nat]
      BY <2>1, <2>3, OrderType DEF Shaped
    <3>2. asked' = {} /\ at' \in Nat
      BY <1>3, <2>1, <2>3 DEF Begin, IInv, TypeOK, PlanInv, Placed, Shaped
    <3>3. QED
      BY <1>3, <2>1, <2>3, <3>1, <3>2 DEF Begin, IInv, TypeOK, given
  <2>4. QED
    BY <1>3, <2>2, <2>3 DEF Begin
<1>4. CASE Turn
  <2>1. rows' \in Seq(Row)
    <3>1. rows' = rows \/ \E row \in Row : rows' = Append(rows, row)
      BY <1>4, TurnRows DEF IInv, LoopInv
    <3>2. QED
      BY <3>1, AppendType DEF IInv, TypeOK
  <2>2. /\ attempts' \in [DOMAIN place -> Nat]
        /\ pc' \in {"session", "onward", "closing"}
        /\ finalStatus' \in {"stopped", "failed", finalStatus}
    BY <1>4, TurnRows DEF IInv, LoopInv
  <2>3. verdict' \in [outcome : {"pass", "fail"}, suggestedSkip : Seq(Role)]
    BY <1>4 DEF Turn, NoVerdict
  <2>4. QED
    BY <1>4, <2>1, <2>2, <2>3 DEF Turn, IInv, TypeOK, given
<1>5. CASE SessionEnds
  <2>1. PICK o \in {"pass", "fail"}, skip \in Suggestions \cup {<<>>} :
          verdict' = [outcome |-> o, suggestedSkip |-> skip] /\ rows' = FinishedRows(o)
    BY <1>5 DEF SessionEnds
  <2>2. verdict' \in [outcome : {"pass", "fail"}, suggestedSkip : Seq(Role)]
    <3>1. skip \in Seq(Role)
      BY <1>0
    <3>2. QED
      BY <2>1, <3>1
  <2>3. rows' \in Seq(Row)
    BY <1>5, <2>1, SettledFinish DEF SessionEnds, IInv, TypeOK, LoopInv, CurrentRow
  <2>4. pc' \in {"overseer", "closing"} /\ finalStatus' \in {"stopped", "failed", finalStatus}
    BY <1>5 DEF SessionEnds, Break
  <2>5. QED
    BY <1>5, <2>2, <2>3, <2>4 DEF SessionEnds, IInv, TypeOK, given
<1>6. CASE StoreFails
  BY <1>6 DEF StoreFails, Break, IInv, TypeOK, given
<1>7. CASE OverseerReturns
  <2>1. PICK e :
          \/ e.action = "continue" /\ Continue
          \/ e.action = "stop" /\ Stop
          \/ e.action = "repair" /\ Repair(BoundRepairTarget(e.target))
    BY <1>7 DEF OverseerReturns
  <2>2. CASE Continue
    <3>1. asked' \subseteq DOMAIN place
      BY <1>7, <2>2 DEF Continue, Later, OverseerReturns, IInv, PlanInv, InLoop
    <3>2. QED
      BY <1>7, <2>2, <3>1 DEF Continue, OverseerReturns, IInv, TypeOK, given
  <2>3. CASE Stop
    BY <1>7, <2>3 DEF Stop, Break, OverseerReturns, IInv, TypeOK, given
  <2>4. CASE Repair(BoundRepairTarget(e.target))
    <3>1. BoundRepairTarget(e.target) \in Nat
      BY <1>7, RepairBack DEF OverseerReturns, IInv, PlanInv, LoopInv, EarlierSettled,
                              InLoop, TypeOK, Shaped
    <3>2. /\ at' \in Nat
          /\ pc' \in {"turn", "closing"}
          /\ finalStatus' \in {"failed", finalStatus}
          /\ totalRepairs' = totalRepairs + 1
          /\ asked' = asked
      BY <2>4, <3>1 DEF Repair, Break, IInv, TypeOK
    <3>3. QED
      BY <1>7, <3>2 DEF OverseerReturns, IInv, TypeOK, given
  <2>5. QED
    BY <2>1, <2>2, <2>3, <2>4
<1>8. CASE OverseerThrows
  BY <1>8 DEF OverseerThrows, Break, IInv, TypeOK, given
<1>9. CASE JudgeSkip
  <2>1. PICK s \in asked :
          /\ asked' = asked \ {s}
          /\ rows' = rows \/ \E row \in Row : row.step = s /\ rows' = Append(rows, row)
          /\ pc' \in {"closing", "onward"} /\ finalStatus' \in {"failed", finalStatus}
          /\ plan' = plan \/ Valid(plan', EngineContext(plan))
    BY <1>9, SkipShape DEF IInv
  <2>2. rows' \in Seq(Row)
    <3>1. rows' = rows \/ \E row \in Row : rows' = Append(rows, row)
      BY <2>1
    <3>2. QED
      BY <3>1, AppendType DEF IInv, TypeOK
  <2>3. Shaped(plan')
    BY <2>1 DEF IInv, TypeOK, Valid
  <2>4. QED
    BY <1>9, <2>1, <2>2, <2>3 DEF JudgeSkip, IInv, TypeOK, given
<1>10. CASE GoOn
  <2>1. at' \in Nat
    BY <1>10 DEF GoOn, Later, IInv, TypeOK, Shaped
  <2>2. pc' \in {"turn", "closing"} /\ finalStatus' = finalStatus
    BY <1>10 DEF GoOn, Break
  <2>3. QED
    BY <1>10, <2>1, <2>2 DEF GoOn, IInv, TypeOK, given
<1>11. CASE CloseRun
  BY <1>11 DEF CloseRun, IInv, TypeOK, given
<1>12. CASE RequestStop
  BY <1>12 DEF RequestStop, IInv, TypeOK, given
<1>13. CASE Crash
  BY <1>13 DEF Crash, IInv, TypeOK, given
<1>14. QED
  BY <1>1, <1>2, <1>3, <1>4, <1>5, <1>6, <1>7, <1>8, <1>9, <1>10, <1>11, <1>12, <1>13
     DEF Next, Progress

-----------------------------------------------------------------------------
(* The plan. *)

(* The loop's own validation makes an order that fits the plan, with the       *)
(* gatekeeper last, and what was validated is the floor (runTeamPlan's start). *)
LEMMA BeginPlan ==
  ASSUME IInv, Begin, Valid(plan, EngineContext(plan)), place' \in Orders(plan)
  PROVE  DOMAIN place' = DOMAIN plan /\ Distinct' /\ FloorHolds' /\ OrderFits'
<1>1. plan' = plan /\ signals' = signals /\ Shaped(plan)
  BY DEF Begin, given, IInv, TypeOK
<1>2. place' \in [DOMAIN plan -> Nat] /\ Stable(plan, place')
  BY <1>1, OrderType DEF Shaped
<1>3. \A s \in DOMAIN plan : \A t \in Waits(plan, s) :
        t \in DOMAIN plan /\ place'[t] < place'[s]
  BY <1>2 DEF Stable
<1>4. OrderFits'
  BY <1>1, <1>3 DEF OrderFits, Waits
<1>5. Distinct'
  BY <1>1, <1>2, StableApart DEF Distinct, Shaped
<1>6. /\ FloorKept(plan, EngineContext(plan).writes)
      /\ \A r \in signals.required : Of(plan, r) # {}
  BY DEF Valid, EngineContext
<1>7. \A b \in Of(plan, "builder") : \E v \in Of(plan, "verifier") : plan[v].checks = b
  BY <1>6 DEF FloorKept
<1>8. ASSUME signals.writes
      PROVE  /\ Of(plan, "builder") # {}
             /\ \E g \in Of(plan, "gatekeeper") : \A s \in DOMAIN plan : place'[s] <= place'[g]
  <2>1. Of(plan, "builder") # {}
    BY <1>8 DEF Begin, IInv, PlanInv
  <2>2. Cardinality(Of(plan, "gatekeeper")) = 1
    BY <1>6, <2>1 DEF FloorKept
  <2>3. IsFiniteSet(Of(plan, "gatekeeper"))
    BY <1>1, FS_Subset DEF Shaped, Of
  <2>4. PICK g : Of(plan, "gatekeeper") = {g}
    BY <2>2, <2>3, FS_Singleton
  <2>5. g \in DOMAIN plan
    BY <2>4 DEF Of
  <2>6. \A s \in DOMAIN plan : place'[s] <= place'[g]
    BY <1>6, <2>4, <2>5 DEF FloorKept, GateLast
  <2>7. QED
    BY <2>1, <2>4, <2>6
<1>9. FloorHolds'
  BY <1>1, <1>2, <1>6, <1>7, <1>8 DEF FloorHolds, Of
<1>10. QED
  BY <1>2, <1>4, <1>5, <1>9

(* A step taken out of the plan leaves a plan that fits the order and keeps    *)
(* the floor (skipStep, removeStep; the order only loses the step).            *)
LEMMA SkipPlan ==
  ASSUME IInv, NEW s \in DOMAIN plan, Placed, plan' = RemoveStep(plan, s),
         plan[s].role \notin Unskippable, Valid(plan', EngineContext(plan)),
         UNCHANGED <<place, signals>>
  PROVE  DOMAIN plan' \subseteq DOMAIN place /\ FloorHolds' /\ OrderFits'
<1>1. Shaped(plan) /\ DOMAIN plan \subseteq DOMAIN place /\ place \in [DOMAIN place -> Nat]
  BY DEF IInv, TypeOK, PlanInv
<1>2. /\ DOMAIN plan' = DOMAIN plan \ {s}
      /\ \A x \in DOMAIN plan' :
           /\ plan'[x].role = plan[x].role
           /\ plan'[x].checks = plan[x].checks
           /\ Waits(plan', x) \subseteq Waits(plan, x) \cup
                (IF s \in Waits(plan, x) THEN Waits(plan, s) ELSE {})
  <2> DEFINE q == RemoveStep(plan, s)
  <2>1. /\ DOMAIN q = DOMAIN plan \ {s}
        /\ \A x \in DOMAIN plan \ {s} :
             /\ q[x].role = plan[x].role
             /\ q[x].checks = plan[x].checks
             /\ Waits(q, x) \subseteq Waits(plan, x) \cup
                  (IF s \in Waits(plan, x) THEN Waits(plan, s) ELSE {})
    BY <1>1, RemoveStepShape
  <2> HIDE DEF q
  <2>2. plan' = q
    BY DEF q
  <2>3. QED
    BY <2>1, <2>2
<1>3. \A x \in DOMAIN plan : \A t \in Waits(plan, x) :
        t \in DOMAIN plan /\ place[t] < place[x]
  BY DEF IInv, OrderFits, Placed
<1>4. ASSUME NEW x \in DOMAIN plan', NEW t \in Waits(plan', x)
      PROVE  t \in DOMAIN plan' /\ place[t] < place[x]
  <2>1. t \in DOMAIN plan'
    BY DEF Valid, GraphSound
  <2>2. CASE t \in Waits(plan, x)
    BY <1>2, <1>3, <2>1, <2>2
  <2>3. CASE s \in Waits(plan, x) /\ t \in Waits(plan, s)
    <3>1. place[t] < place[s] /\ place[s] < place[x]
      BY <1>2, <1>3, <2>3
    <3>2. place[t] \in Nat /\ place[s] \in Nat /\ place[x] \in Nat
      BY <1>1, <1>2, <2>1
    <3>3. QED
      BY <2>1, <3>1, <3>2
  <2>4. QED
    BY <1>2, <2>2, <2>3
<1>5. OrderFits'
  BY <1>4 DEF OrderFits, Waits
<1>6. \A r : Of(plan', r) = Of(plan, r) \ {s}
  BY <1>2 DEF Of
<1>7. /\ FloorKept(plan', EngineContext(plan).writes)
      /\ \A r \in signals.required : Of(plan', r) # {}
  BY DEF Valid, EngineContext
<1>8. \A b \in Of(plan', "builder") : \E v \in Of(plan', "verifier") : plan'[v].checks = b
  BY <1>7 DEF FloorKept
<1>9. ASSUME signals.writes
      PROVE  /\ Of(plan', "builder") # {}
             /\ \E g \in Of(plan', "gatekeeper") :
                  \A x \in DOMAIN place : place[x] <= place[g]
  <2>1. FloorHolds
    BY DEF IInv, PlanInv
  <2>2. plan[s].role # "builder" /\ plan[s].role # "gatekeeper"
    BY DEF Unskippable
  <2>3. Of(plan', "builder") = Of(plan, "builder")
    BY <1>6, <2>2 DEF Of
  <2>4. Of(plan', "gatekeeper") = Of(plan, "gatekeeper")
    BY <1>6, <2>2 DEF Of
  <2>5. QED
    BY <1>9, <2>1, <2>3, <2>4 DEF FloorHolds
<1>10. FloorHolds'
  BY <1>7, <1>8, <1>9 DEF FloorHolds, Of
<1>11. QED
  BY <1>1, <1>2, <1>5, <1>10

(* Every step keeps the plan, its order and its floor together.                *)
LEMMA PlanStep ==
  ASSUME IInv, [Next]_vars
  PROVE  PlanInv' /\ OrderFits'
<1> DEFINE same == /\ UNCHANGED <<plan, signals, place>>
                   /\ \/ UNCHANGED pc
                      \/ pc' \in {"closing", "over", "dead"}
                      \/ InLoop /\ pc' \in {"turn", "session", "overseer", "onward"}
<1>1. ASSUME same
      PROVE  PlanInv' /\ OrderFits'
  <2>1. Placed' = Placed /\ Distinct' = Distinct /\ FloorHolds' = FloorHolds
    BY <1>1 DEF Placed, Distinct, FloorHolds, Of
  <2>2. OrderFits'
    BY <1>1 DEF IInv, OrderFits, Waits
  <2>3. PlanInv'
    BY <1>1, <2>1 DEF IInv, PlanInv, InLoop, Of
  <2>4. QED
    BY <2>2, <2>3
<1>2. CASE Resolve
  <2>1. ~Placed' /\ pc' \in {"start", "refused"}
    BY <1>2 DEF Resolve, IInv, PlanInv, Placed
  <2>2. pc' = "start" /\ signals'.writes => Of(plan, "builder")' # {}
    <3>1. ASSUME pc' = "start"
          PROVE  Valid(plan', UserContext) /\ signals' = signals
      BY <1>2, <3>1 DEF Resolve, given
    <3>2. QED
      BY <3>1 DEF Valid, FloorKept, UserContext, Of
  <2>3. QED
    BY <2>1, <2>2 DEF PlanInv, OrderFits, Placed, InLoop
<1>3. CASE Begin
  <2>1. CASE UNCHANGED place /\ Break("failed")
    BY <1>1, <1>3, <2>1 DEF Begin, Break, given
  <2>2. CASE Valid(plan, EngineContext(plan)) /\ place' \in Orders(plan) /\ pc' = "turn"
    <3>1. DOMAIN place' = DOMAIN plan /\ Distinct' /\ FloorHolds' /\ OrderFits'
      BY <1>3, <2>2, BeginPlan
    <3>2. DOMAIN plan # {} /\ plan' = plan
      BY <1>3, <2>2 DEF Begin, Valid
    <3>3. Placed'
      BY <3>1, <3>2 DEF Placed
    <3>4. QED
      BY <2>2, <3>1, <3>2, <3>3 DEF PlanInv, InLoop
  <2>3. QED
    BY <1>3, <2>1, <2>2 DEF Begin
<1>4. CASE JudgeSkip
  <2>1. PICK s \in Later :
          \/ plan' = plan /\ pc' \in {"closing", "onward"}
          \/ /\ plan' = RemoveStep(plan, s)
             /\ plan[s].role \notin Unskippable \cup signals.required
             /\ Valid(plan', EngineContext(plan))
             /\ pc' = "onward"
    BY <1>4, SkipShape DEF IInv
  <2>2. UNCHANGED <<place, signals>> /\ pc = "onward"
    BY <1>4 DEF JudgeSkip, given
  <2>3. CASE plan' = plan /\ pc' \in {"closing", "onward"}
    BY <1>1, <2>2, <2>3 DEF InLoop
  <2>4. CASE /\ plan' = RemoveStep(plan, s)
             /\ plan[s].role \notin Unskippable
             /\ Valid(plan', EngineContext(plan))
             /\ pc' = "onward"
    <3>1. Placed /\ Distinct /\ s \in DOMAIN plan
      BY <2>2 DEF IInv, PlanInv, InLoop, Later
    <3>2. DOMAIN plan' \subseteq DOMAIN place /\ FloorHolds' /\ OrderFits'
      BY <2>2, <2>4, <3>1, SkipPlan
    <3>3. Placed' /\ Distinct'
      BY <2>2, <3>1 DEF Placed, Distinct
    <3>4. QED
      BY <2>2, <2>4, <3>2, <3>3 DEF PlanInv, InLoop
  <2>5. QED
    BY <2>1, <2>3, <2>4
<1>5. CASE Turn
  <2>1. pc' \in {"session", "onward", "closing"}
    BY <1>5, TurnRows DEF IInv, LoopInv
  <2>2. QED
    BY <1>1, <1>5, <2>1 DEF Turn, InLoop, given
<1>6. CASE SessionEnds
  BY <1>1, <1>6 DEF SessionEnds, InLoop, Break, given
<1>7. CASE StoreFails
  BY <1>1, <1>7 DEF StoreFails, InLoop, Break, given
<1>8. CASE OverseerReturns
  <2>1. pc' \in {"onward", "turn", "closing"}
    BY <1>8 DEF OverseerReturns, Continue, Stop, Repair, Break
  <2>2. QED
    BY <1>1, <1>8, <2>1 DEF OverseerReturns, InLoop, given
<1>9. CASE OverseerThrows
  BY <1>1, <1>9 DEF OverseerThrows, InLoop, Break, given
<1>10. CASE GoOn
  BY <1>1, <1>10 DEF GoOn, InLoop, Break, given
<1>11. CASE CloseRun
  BY <1>1, <1>11 DEF CloseRun, given
<1>12. CASE RequestStop
  BY <1>1, <1>12 DEF RequestStop, given
<1>13. CASE Crash
  BY <1>1, <1>13 DEF Crash, given
<1>14. CASE UNCHANGED vars
  BY <1>1, <1>14 DEF vars, given
<1>15. QED
  BY <1>2, <1>3, <1>4, <1>5, <1>6, <1>7, <1>8, <1>9, <1>10, <1>11, <1>12, <1>13, <1>14
     DEF Next, Progress

-----------------------------------------------------------------------------
(* The loop. *)

(* A loop that breaks off without "done" owes nothing but rows that are placed.*)
LEMMA BreakOff ==
  ASSUME IInv, RowsPlaced', pc' = "closing", finalStatus' \in {"stopped", "failed"},
         pc # "over", record' = record
  PROVE  LoopInv'
BY DEF IInv, LoopInv, CurrentRow, EarlierSettled, AskedLater, DoneIsSettled, InLoop

(* Rows stay placed when one of a placed step is added.                        *)
LEMMA RowsStayPlaced ==
  ASSUME TypeOK, RowsPlaced, place' = place,
         rows' = rows \/ \E row \in Row : /\ row.step \in DOMAIN place
                                         /\ rows' = Append(rows, row)
  PROVE  RowsPlaced'
<1>1. CASE rows' = rows
  BY <1>1 DEF RowsPlaced
<1>2. ASSUME NEW row \in Row, row.step \in DOMAIN place, rows' = Append(rows, row)
      PROVE  RowsPlaced'
  <2>1. /\ Len(rows') = Len(rows) + 1
        /\ rows'[Len(rows) + 1] = row
        /\ \A i \in 1..Len(rows) : rows'[i] = rows[i]
        /\ Len(rows) \in Nat
    BY <1>2 DEF TypeOK
  <2>2. ASSUME NEW i \in 1..Len(rows')
        PROVE  rows'[i].step \in DOMAIN place
    BY <1>2, <2>1 DEF RowsPlaced
  <2>3. QED
    BY <2>2 DEF RowsPlaced
<1>3. QED
  BY <1>1, <1>2

(* The first turn: nothing has a row, and nothing is before the first step.    *)
LEMMA BeginLoop ==
  ASSUME IInv, Begin, TypeOK'
  PROVE  LoopInv'
<1>1. ~Placed /\ rows' = rows /\ asked' = asked /\ record' = record /\ pc = "start"
  BY DEF Begin, IInv, PlanInv
<1>2. asked = {} /\ \A i \in 1..Len(rows) : FALSE
  BY <1>1 DEF Placed, IInv, TypeOK, LoopInv, RowsPlaced
<1>3. RowsPlaced'
  BY <1>1, <1>2 DEF RowsPlaced
<1>4. CASE Break("failed")
  BY <1>1, <1>3, <1>4, BreakOff DEF Break
<1>5. CASE /\ place' \in Orders(plan)
           /\ at' \in DOMAIN plan
           /\ \A s \in DOMAIN plan : place'[at'] <= place'[s]
           /\ pc' = "turn"
  <2>1. plan' = plan /\ place' \in [DOMAIN plan -> Nat]
    BY <1>5, OrderType DEF Begin, IInv, TypeOK, Shaped
  <2>2. \A s \in DOMAIN plan' : ~(place'[s] < place'[at'])
    BY <1>5, <2>1
  <2>3. QED
    BY <1>1, <1>2, <1>3, <1>5, <2>1, <2>2
       DEF IInv, LoopInv, CurrentRow, EarlierSettled, AskedLater, DoneIsSettled, InLoop
<1>6. QED
  BY <1>4, <1>5 DEF Begin

(* A turn adds a row of the step in turn, which unsettles nothing before it.   *)
LEMMA TurnLoop ==
  ASSUME IInv, Turn, TypeOK'
  PROVE  LoopInv'
<1>1. /\ UNCHANGED <<plan, place, at, asked, record>>
      /\ pc = "turn"
      /\ verdict'.outcome = "fail"
  BY DEF Turn, NoVerdict
<1>2. /\ at \in DOMAIN plan /\ at \in DOMAIN place
      /\ asked = {}
      /\ record # "done"
      /\ \A s \in DOMAIN plan : place[s] < place[at] => Settled(s)
  BY <1>1 DEF IInv, PlanInv, LoopInv, EarlierSettled, AskedLater, DoneIsSettled, InLoop
<1>3. RowsPlaced'
  <2>1. rows' = rows \/ \E row \in Row : row.step \in DOMAIN place /\ rows' = Append(rows, row)
    BY <1>2, TurnRows DEF IInv, LoopInv
  <2>2. QED
    BY <1>1, <2>1, RowsStayPlaced DEF IInv, LoopInv
<1>4. CASE pc' = "closing"
  <2>1. finalStatus' \in {"stopped", "failed"}
    BY <1>4, TurnRows DEF IInv, LoopInv
  <2>2. QED
    BY <1>1, <1>3, <1>4, <2>1, BreakOff
<1>5. CASE pc' \in {"session", "onward"}
  <2>1. PICK row \in Row : /\ row.step = at
                           /\ rows' = Append(rows, row)
                           /\ pc' = "onward" => row.status = "ok"
    BY <1>5, TurnRows DEF IInv, LoopInv
  <2>2. rows \in Seq(Row) /\ place \in [DOMAIN place -> Nat] /\ DOMAIN plan \subseteq DOMAIN place
    BY <1>1 DEF IInv, TypeOK, PlanInv, InLoop
  <2>3. ASSUME NEW s \in DOMAIN plan, place[s] < place[at]
        PROVE  Settled(s)'
    <3>1. SettledIn(rows, s) /\ place[row.step] > place[s]
      BY <1>2, <2>1, <2>2, <2>3 DEF Settled
    <3>2. SettledIn(rows', s)
      BY <2>1, <2>2, <3>1, SettledAppend
    <3>3. QED
      BY <1>1, <3>2, SettledByRows
  <2>4. pc' = "onward" => Settled(at)'
    BY <1>1, <2>1, <2>2, SettledAppend, SettledByRows
  <2>5. EarlierSettled'
    BY <1>1, <1>2, <1>5, <2>3, <2>4 DEF EarlierSettled, InLoop, Settled, SettledIn
  <2>6. CurrentRow'
    <3>1. rows' # <<>> /\ rows'[Len(rows')] = row
      BY <2>1, <2>2
    <3>2. QED
      BY <1>1, <1>5, <2>1, <3>1 DEF CurrentRow, NewestRow
  <2>7. AskedLater' /\ DoneIsSettled'
    BY <1>1, <1>2, <1>5 DEF AskedLater, DoneIsSettled
  <2>8. QED
    BY <1>3, <2>5, <2>6, <2>7 DEF LoopInv
<1>6. QED
  BY <1>4, <1>5, TurnRows DEF IInv, LoopInv

(* The end of a session closes the newest row, which is the step's own.        *)
LEMMA SessionLoop ==
  ASSUME IInv, SessionEnds, TypeOK'
  PROVE  LoopInv'
<1>1. PICK o \in {"pass", "fail"} : verdict'.outcome = o /\ rows' = FinishedRows(o)
  BY DEF SessionEnds
<1>2. /\ UNCHANGED <<plan, place, at, asked, record>>
      /\ pc = "session"
      /\ \/ pc' = "overseer"
         \/ pc' = "closing" /\ finalStatus' \in {"stopped", "failed"}
  BY DEF SessionEnds, Break
<1>3. /\ rows \in Seq(Row) /\ rows # <<>>
      /\ NewestRow.step = at
      /\ at \in DOMAIN plan
      /\ asked = {}
      /\ record # "done"
      /\ \A s \in DOMAIN plan : place[s] < place[at] => Settled(s)
  BY <1>2 DEF IInv, TypeOK, LoopInv, CurrentRow, EarlierSettled, AskedLater, DoneIsSettled,
              InLoop
<1>4. /\ rows' \in Seq(Row)
      /\ Len(rows') = Len(rows)
      /\ \A i \in 1..Len(rows) : rows'[i].step = rows[i].step
      /\ \A s : SettledIn(rows, s) /\ s # at => SettledIn(rows', s)
      /\ o = "pass" => rows'[Len(rows)].status = "ok"
  BY <1>1, <1>3, SettledFinish
<1>5. Len(rows) \in 1..Len(rows) /\ rows' # <<>>
  BY <1>3, <1>4
<1>6. RowsPlaced'
  BY <1>2, <1>4 DEF IInv, LoopInv, RowsPlaced
<1>7. CASE pc' = "closing"
  BY <1>2, <1>6, <1>7, BreakOff
<1>8. CASE pc' = "overseer"
  <2>1. CurrentRow'
    BY <1>1, <1>2, <1>3, <1>4, <1>5 DEF CurrentRow, NewestRow
  <2>2. ASSUME NEW s \in DOMAIN plan, place[s] < place[at]
        PROVE  Settled(s)'
    <3>1. s # at
      BY <1>2, <1>3, <2>2 DEF IInv, TypeOK, PlanInv, InLoop
    <3>2. SettledIn(rows', s)
      BY <1>3, <1>4, <2>2, <3>1 DEF Settled
    <3>3. QED
      BY <1>2, <3>2, SettledByRows
  <2>3. EarlierSettled'
    BY <1>2, <1>3, <1>8, <2>2 DEF EarlierSettled, InLoop, Settled, SettledIn
  <2>4. AskedLater' /\ DoneIsSettled'
    BY <1>2, <1>3, <1>8 DEF AskedLater, DoneIsSettled
  <2>5. QED
    BY <1>6, <2>1, <2>3, <2>4 DEF LoopInv
<1>9. QED
  BY <1>2, <1>7, <1>8

(* Going on needs a pass, which settles the step; going back needs less than   *)
(* was settled already.                                                        *)
LEMMA OverseerLoop ==
  ASSUME IInv, OverseerReturns, TypeOK'
  PROVE  LoopInv'
<1>1. PICK d \in OverseerDecisions(verdict.outcome) :
        LET e == Effective(d, verdict.outcome)
        IN  \/ e.action = "continue" /\ Continue
            \/ e.action = "stop" /\ Stop
            \/ e.action = "repair" /\ Repair(BoundRepairTarget(e.target))
  BY DEF OverseerReturns
<1> DEFINE e == Effective(d, verdict.outcome)
<1>2. /\ UNCHANGED <<plan, place, rows, record>>
      /\ pc = "overseer"
  BY DEF OverseerReturns
<1>3. /\ Placed /\ at \in DOMAIN plan /\ DOMAIN plan \subseteq DOMAIN place
      /\ place \in [DOMAIN place -> Nat]
      /\ asked = {}
      /\ record # "done"
      /\ \A s \in DOMAIN plan : place[s] < place[at] => Settled(s)
      /\ \A s : Settled(s)' = Settled(s)
  BY <1>2 DEF IInv, TypeOK, PlanInv, LoopInv, EarlierSettled, AskedLater, DoneIsSettled,
              InLoop, Settled, SettledIn
<1>4. RowsPlaced'
  BY <1>2 DEF IInv, LoopInv, RowsPlaced
<1>5. CASE e.action = "continue" /\ Continue
  <2>1. verdict.outcome = "pass"
    BY <1>5 DEF Effective, Decision
  <2>2. Settled(at)
    <3>1. rows \in Seq(Row) /\ rows # <<>> /\ NewestRow.step = at /\ NewestRow.status = "ok"
      BY <1>2, <2>1 DEF IInv, TypeOK, LoopInv, CurrentRow
    <3>2. QED
      BY <3>1, NewestSettles
  <2>3. pc' = "onward" /\ at' = at /\ asked' \subseteq Later
    BY <1>5 DEF Continue
  <2>4. EarlierSettled'
    BY <1>2, <1>3, <2>2, <2>3 DEF EarlierSettled, Settled, SettledIn
  <2>5. CurrentRow' /\ AskedLater' /\ DoneIsSettled'
    BY <1>2, <1>3, <2>3 DEF CurrentRow, AskedLater, DoneIsSettled, Later
  <2>6. QED
    BY <1>4, <2>4, <2>5 DEF LoopInv
<1>6. CASE Stop
  <2>1. pc' = "closing" /\ finalStatus' \in {"stopped", "failed"}
    BY <1>6 DEF Stop, Break
  <2>2. QED
    BY <1>2, <1>4, <2>1, BreakOff
<1>7. CASE Repair(BoundRepairTarget(e.target))
  <2> DEFINE target == BoundRepairTarget(e.target)
  <2>1. target \in DOMAIN plan /\ place[target] <= place[at]
    BY <1>2, <1>3, RepairBack DEF IInv
  <2> HIDE DEF target
  <2>2. CASE pc' = "closing" /\ finalStatus' = "failed"
    BY <1>2, <1>4, <2>2, BreakOff
  <2>3. CASE pc' = "turn" /\ at' = target
    <3>1. \A s \in DOMAIN plan : place[s] < place[target] => Settled(s)
      BY <1>3, <2>1
    <3>2. EarlierSettled'
      BY <1>2, <1>3, <2>1, <2>3, <3>1 DEF EarlierSettled, Settled, SettledIn
    <3>3. CurrentRow' /\ AskedLater' /\ DoneIsSettled'
      BY <1>2, <1>3, <1>7, <2>3 DEF CurrentRow, AskedLater, DoneIsSettled, Repair
    <3>4. QED
      BY <1>4, <3>2, <3>3 DEF LoopInv
  <2>4. QED
    BY <1>7, <2>2, <2>3 DEF Repair, Break, target
<1>8. QED
  BY <1>1, <1>5, <1>6, <1>7

(* A skipped step is a later one: its row unsettles no step up to the one in   *)
(* turn, and the steps that are left are steps of the plan before.             *)
LEMMA SkipLoop ==
  ASSUME IInv, JudgeSkip, TypeOK'
  PROVE  LoopInv'
<1>1. PICK s \in Later :
        /\ asked' = asked \ {s}
        /\ rows' = rows \/ \E row \in Row : row.step = s /\ rows' = Append(rows, row)
        /\ \/ pc' = "closing" /\ finalStatus' = "failed"
           \/ pc' = "onward" /\ (plan' = plan \/ plan' = RemoveStep(plan, s))
  BY SkipShape DEF IInv
<1>2. pc = "onward" /\ UNCHANGED <<place, at, verdict, record>>
  BY DEF JudgeSkip
<1>3. /\ at \in DOMAIN plan /\ DOMAIN plan \subseteq DOMAIN place
      /\ place \in [DOMAIN place -> Nat]
      /\ rows \in Seq(Row)
      /\ asked \subseteq Later
      /\ record # "done"
      /\ Settled(at)
      /\ \A t \in DOMAIN plan : place[t] < place[at] => Settled(t)
  BY <1>2 DEF IInv, TypeOK, PlanInv, LoopInv, EarlierSettled, AskedLater, DoneIsSettled,
              InLoop
<1>4. s \in DOMAIN plan /\ place[s] > place[at]
  BY DEF Later
<1>5. RowsPlaced'
  <2>1. rows' = rows \/ \E row \in Row : row.step \in DOMAIN place /\ rows' = Append(rows, row)
    BY <1>1, <1>3, <1>4
  <2>2. QED
    BY <1>2, <2>1, RowsStayPlaced DEF IInv, LoopInv
<1>6. CASE pc' = "closing" /\ finalStatus' = "failed"
  BY <1>2, <1>5, <1>6, BreakOff
<1>7. CASE pc' = "onward" /\ (plan' = plan \/ plan' = RemoveStep(plan, s))
  <2>1. ASSUME NEW t \in DOMAIN plan, place[t] < place[s], SettledIn(rows, t)
        PROVE  SettledIn(rows', t)
    <3>1. CASE rows' = rows
      BY <2>1, <3>1
    <3>2. ASSUME NEW row \in Row, row.step = s, rows' = Append(rows, row)
          PROVE  SettledIn(rows', t)
      <4>1. place[row.step] > place[t]
        BY <1>3, <1>4, <2>1, <3>2
      <4>2. QED
        BY <1>3, <2>1, <3>2, <4>1, SettledAppend
    <3>3. QED
      BY <1>1, <3>1, <3>2
  <2>2. ASSUME NEW t \in DOMAIN plan, t = at \/ place[t] < place[at]
        PROVE  Settled(t)'
    <3>1. SettledIn(rows, t) /\ place[t] < place[s]
      BY <1>3, <1>4, <2>2 DEF Settled
    <3>2. QED
      BY <1>2, <2>1, <3>1, SettledByRows
  <2>3. DOMAIN plan' \in {DOMAIN plan, DOMAIN plan \ {s}} /\ s # at
    BY <1>3, <1>4, <1>7 DEF RemoveStep
  <2>4. EarlierSettled'
    BY <1>2, <1>3, <1>7, <2>2, <2>3 DEF EarlierSettled, Settled, SettledIn
  <2>5. asked' \subseteq Later'
    BY <1>1, <1>2, <1>3, <2>3 DEF Later
  <2>6. CurrentRow' /\ AskedLater' /\ DoneIsSettled'
    BY <1>2, <1>3, <1>7, <2>5 DEF CurrentRow, AskedLater, DoneIsSettled
  <2>7. QED
    BY <1>5, <2>4, <2>6 DEF LoopInv
<1>8. QED
  BY <1>1, <1>6, <1>7

(* The next step is the first that is later, so all before it are settled; with*)
(* none later, all are.                                                        *)
LEMMA GoOnLoop ==
  ASSUME IInv, GoOn, TypeOK'
  PROVE  LoopInv'
<1>1. /\ UNCHANGED <<plan, place, rows, asked, record, finalStatus>>
      /\ pc = "onward" /\ asked = {}
  BY DEF GoOn, Break
<1>2. /\ Placed /\ at \in DOMAIN plan /\ DOMAIN plan \subseteq DOMAIN place
      /\ place \in [DOMAIN place -> Nat]
      /\ Distinct
      /\ record # "done"
      /\ Settled(at)
      /\ \A s \in DOMAIN plan : place[s] < place[at] => Settled(s)
      /\ \A s : Settled(s)' = Settled(s)
  BY <1>1 DEF IInv, TypeOK, PlanInv, LoopInv, EarlierSettled, DoneIsSettled, InLoop,
              Settled, SettledIn
<1>3. \A s \in DOMAIN plan \ Later : Settled(s)
  BY <1>2 DEF Later, Distinct
<1>4. RowsPlaced'
  BY <1>1 DEF IInv, LoopInv, RowsPlaced
<1>5. ASSUME NEW s \in Later, \A t \in Later : place[s] <= place[t], at' = s, pc' = "turn"
      PROVE  LoopInv'
  <2>1. s \in DOMAIN plan
    BY DEF Later
  <2>2. \A t \in DOMAIN plan : place[t] < place[s] => Settled(t)
    BY <1>2, <1>3, <1>5, <2>1
  <2>3. EarlierSettled'
    BY <1>1, <1>2, <1>5, <2>1, <2>2 DEF EarlierSettled, Settled, SettledIn
  <2>4. CurrentRow' /\ AskedLater' /\ DoneIsSettled'
    BY <1>1, <1>2, <1>5 DEF CurrentRow, AskedLater, DoneIsSettled
  <2>5. QED
    BY <1>4, <2>3, <2>4 DEF LoopInv
<1>6. CASE Later = {} /\ pc' = "closing"
  <2>1. AllSettled'
    BY <1>1, <1>2, <1>3, <1>6 DEF AllSettled, Placed, Settled, SettledIn
  <2>2. QED
    BY <1>1, <1>2, <1>4, <1>6, <2>1
       DEF LoopInv, CurrentRow, EarlierSettled, AskedLater, DoneIsSettled, InLoop
<1>7. QED
  BY <1>5, <1>6 DEF GoOn, Break

(* Every step keeps what the loop knows of its rows.                           *)
LEMMA LoopStep ==
  ASSUME IInv, [Next]_vars, TypeOK'
  PROVE  LoopInv'
<1>1. ASSUME UNCHANGED <<plan, place, at, verdict, asked, rows>>,
             UNCHANGED pc \/ pc' \in {"start", "refused", "over", "dead"},
             UNCHANGED finalStatus, pc' = "over" \/ record' # "done",
             record' = "done" => AllSettled
      PROVE  LoopInv'
  <2>1. /\ AllSettled' = AllSettled
        /\ \A s : Settled(s)' = Settled(s)
    BY <1>1 DEF AllSettled, Placed, Settled, SettledIn
  <2>2. RowsPlaced' /\ CurrentRow'
    BY <1>1 DEF IInv, LoopInv, RowsPlaced, CurrentRow, NewestRow
  <2>3. EarlierSettled' /\ AskedLater'
    BY <1>1, <2>1 DEF IInv, LoopInv, EarlierSettled, AskedLater, InLoop, Later
  <2>4. DoneIsSettled'
    BY <1>1, <2>1 DEF IInv, LoopInv, DoneIsSettled
  <2>5. QED
    BY <2>2, <2>3, <2>4 DEF LoopInv
<1>2. record = "done" => pc = "over" /\ AllSettled
  BY DEF IInv, LoopInv, DoneIsSettled
<1>3. CASE Resolve
  <2>1. pc' \in {"start", "refused"} /\ record' # "done"
    BY <1>2, <1>3 DEF Resolve
  <2>2. ~Placed /\ rows' = rows /\ place' = place /\ pc = "cli"
    BY <1>3 DEF Resolve, IInv, PlanInv
  <2>3. RowsPlaced'
    BY <2>2 DEF IInv, LoopInv, RowsPlaced
  <2>4. QED
    BY <2>1, <2>3
       DEF LoopInv, CurrentRow, EarlierSettled, AskedLater, DoneIsSettled, InLoop
<1>4. CASE StoreFails \/ OverseerThrows
  <2>1. /\ pc' = "closing" /\ pc # "over"
        /\ finalStatus' \in {"stopped", "failed"}
        /\ UNCHANGED <<rows, place, record>>
    BY <1>4 DEF StoreFails, OverseerThrows, Break
  <2>2. RowsPlaced'
    BY <2>1 DEF IInv, LoopInv, RowsPlaced
  <2>3. QED
    BY <2>1, <2>2, BreakOff
<1>5. CASE CloseRun
  <2>1. record' = "done" => AllSettled
    BY <1>2, <1>5 DEF CloseRun, IInv, LoopInv, DoneIsSettled
  <2>2. QED
    BY <1>1, <1>5, <2>1 DEF CloseRun
<1>6. CASE RequestStop
  BY <1>1, <1>2, <1>6 DEF RequestStop
<1>7. CASE Crash
  BY <1>1, <1>2, <1>7 DEF Crash
<1>8. CASE UNCHANGED vars
  BY <1>1, <1>2, <1>8 DEF vars
<1>9. QED
  BY <1>3, <1>4, <1>5, <1>6, <1>7, <1>8, BeginLoop, TurnLoop, SessionLoop, OverseerLoop,
     SkipLoop, GoOnLoop DEF Next, Progress

-----------------------------------------------------------------------------
(* Theorems. *)

LEMMA Inductive ==
  /\ Init => IInv
  /\ IInv /\ [Next]_vars => IInv'
<1>1. ASSUME Init
      PROVE  IInv
  <2>1. Shaped(plan) /\ ~Placed /\ rows = <<>>
    BY <1>1, TeamRunAssumption DEF Init, Placed
  <2>2. NoVerdict \in [outcome : {"pass", "fail"}, suggestedSkip : Seq(Role)]
    BY DEF NoVerdict
  <2>3. place \in [DOMAIN place -> Nat] /\ attempts \in [DOMAIN place -> Nat]
    BY <1>1 DEF Init
  <2>4. rows \in Seq(Row)
    BY <2>1
  <2>5. TypeOK
    BY <1>1, <2>1, <2>2, <2>3, <2>4 DEF Init, TypeOK, None
  <2>6. PlanInv /\ OrderFits
    BY <1>1, <2>1 DEF Init, PlanInv, OrderFits, Placed, InLoop
  <2>7. LoopInv
    BY <1>1, <2>1 DEF Init, LoopInv, RowsPlaced, CurrentRow, EarlierSettled, AskedLater,
                      DoneIsSettled, InLoop
  <2>8. QED
    BY <2>5, <2>6, <2>7 DEF IInv
<1>2. ASSUME IInv, [Next]_vars
      PROVE  IInv'
  BY <1>2, TypeStep, PlanStep, LoopStep DEF IInv
<1>3. QED
  BY <1>1, <1>2

(* Every variable keeps its type, whatever was proposed and is answered.       *)
THEOREM TypeCorrect == Spec => []TypeOK
<1>1. IInv => TypeOK
  BY DEF IInv
<1>2. QED
  BY <1>1, Inductive, PTL DEF Spec

(* The order computed at the start stays an order of the plan, whatever the    *)
(* planner has skipped (judgeSkips and order.filter in runTeamPlan).           *)
THEOREM OrderStays == Spec => []OrderFits
<1>1. IInv => OrderFits
  BY DEF IInv
<1>2. QED
  BY <1>1, Inductive, PTL DEF Spec

(* A run recorded "done" has every step it kept settled, every builder under a *)
(* verifier of its own that came later, the mandatory reviews, and, if the task*)
(* writes, a builder and the gatekeeper's row as the last one (runTeamPlan).   *)
THEOREM DoneIsChecked == Spec => []DoneMeansChecked
<1>1. IInv => DoneMeansChecked
  <2> SUFFICES ASSUME IInv, record = "done"
               PROVE  /\ \A s \in DOMAIN plan : Settled(s)
                      /\ \A b \in Of(plan, "builder") : \E v \in Of(plan, "verifier") :
                           plan[v].checks = b /\ place[v] > place[b]
                      /\ \A r \in signals.required : Of(plan, r) # {}
                      /\ signals.writes =>
                           /\ Of(plan, "builder") # {}
                           /\ rows[Len(rows)].step \in Of(plan, "gatekeeper")
    BY DEF DoneMeansChecked
  <2>1. /\ Placed /\ \A s \in DOMAIN plan : Settled(s)
        /\ FloorHolds
        /\ Distinct
        /\ DOMAIN plan \subseteq DOMAIN place
        /\ place \in [DOMAIN place -> Nat]
        /\ rows \in Seq(Row)
    BY DEF IInv, TypeOK, LoopInv, DoneIsSettled, AllSettled, PlanInv
  <2>2. ASSUME NEW b \in Of(plan, "builder"), NEW v \in Of(plan, "verifier"),
               plan[v].checks = b
        PROVE  place[v] > place[b]
    <3>1. b \in DOMAIN plan /\ v \in DOMAIN plan /\ b # None
      BY DEF Of, IInv, TypeOK, Shaped
    <3>2. b \in Waits(plan, v)
      BY <2>2, <3>1 DEF Waits
    <3>3. place[b] < place[v]
      BY <2>1, <3>1, <3>2 DEF IInv, OrderFits, Placed
    <3>4. QED
      BY <2>1, <3>1, <3>3
  <2>3. \A b \in Of(plan, "builder") : \E v \in Of(plan, "verifier") :
          plan[v].checks = b /\ place[v] > place[b]
    BY <2>1, <2>2 DEF FloorHolds
  <2>4. ASSUME signals.writes
        PROVE  /\ Of(plan, "builder") # {}
               /\ rows[Len(rows)].step \in Of(plan, "gatekeeper")
    <3>1. PICK g \in Of(plan, "gatekeeper") : \A s \in DOMAIN place : place[s] <= place[g]
      BY <2>1, <2>4 DEF FloorHolds
    <3>2. g \in DOMAIN plan
      BY DEF Of
    <3>3. PICK i \in 1..Len(rows) :
            /\ rows[i].step = g
            /\ \A j \in (i+1)..Len(rows) : place[rows[j].step] > place[g]
      BY <2>1, <3>2 DEF Settled, SettledIn
    <3>4. \A j \in 1..Len(rows) : rows[j].step \in DOMAIN place
      BY DEF IInv, LoopInv, RowsPlaced
    <3>5. i = Len(rows)
      <4>1. SUFFICES ASSUME i # Len(rows)
                     PROVE  FALSE
        OBVIOUS
      <4>2. Len(rows) \in (i+1)..Len(rows) /\ Len(rows) \in 1..Len(rows)
        BY <2>1, <4>1
      <4>3. place[rows[Len(rows)].step] > place[g] /\ place[rows[Len(rows)].step] <= place[g]
        BY <3>1, <3>3, <3>4, <4>2
      <4>4. place[rows[Len(rows)].step] \in Nat /\ place[g] \in Nat
        BY <2>1, <3>2, <3>4, <4>2
      <4>5. QED
        BY <4>3, <4>4
    <3>6. QED
      BY <2>1, <2>4, <3>3, <3>5 DEF FloorHolds
  <2>5. QED
    BY <2>1, <2>3, <2>4 DEF FloorHolds
<1>2. QED
  BY <1>1, Inductive, PTL DEF Spec

(* No session starts once a stop is requested (the check at the loop's top).   *)
THEOREM NoStartAfterStop == Spec => StopStartsNothing
<1>1. [Next]_vars => [stopped => (pc' = "session" => pc = "session")]_vars
  <2> SUFFICES ASSUME Next, stopped, pc' = "session"
               PROVE  pc = "session"
    OBVIOUS
  <2>1. CASE Turn
    BY <2>1 DEF Turn, SeesStop, Break
  <2>2. CASE OverseerReturns
    BY <2>2 DEF OverseerReturns, Continue, Stop, Repair, Break
  <2>3. CASE JudgeSkip
    BY <2>3 DEF JudgeSkip, Break
  <2>4. QED
    BY <2>1, <2>2, <2>3
       DEF Next, Progress, Resolve, Begin, SessionEnds, StoreFails, OverseerThrows, GoOn,
           CloseRun, RequestStop, Crash, Break
<1>2. QED
  BY <1>1, PTL DEF Spec, StopStartsNothing

-----------------------------------------------------------------------------
(* The gate. *)

Accepted == {s \in DOMAIN plan : Settled(s)}

Team == [s \in DOMAIN plan |->
           [needs |-> Waits(plan, s),
            floor |-> plan[s].role \in Unskippable \cup signals.required]]

GateVars == <<Team, Accepted, record>>

GateStep == [Gate!Next]_GateVars

(* The steps of the plan that come before this one.                            *)
Before(s) == {t \in DOMAIN plan : place[t] < place[s]}

(* Nothing past the step in turn is accepted, unless a repair has just gone    *)
(* back to a step that is; the record says "running" until the run is over.    *)
GateInv ==
  /\ pc = "turn" => at \in Accepted \/ Accepted = Before(at)
  /\ pc = "session" => Accepted = Before(at)
  /\ pc \in {"overseer", "onward"} => Accepted \subseteq Before(at) \cup {at}
  /\ pc \in {"cli", "refused"} => record = "none"
  /\ InLoop \/ pc \in {"start", "closing"} => record = "running"

(* What a row at the end of the table can have settled: its own step, if it is *)
(* "ok", and what was settled before and comes before its step.                *)
LEMMA SettledThen ==
  ASSUME NEW log \in Seq(Row), NEW row \in Row, NEW s, SettledIn(Append(log, row), s)
  PROVE  \/ s = row.step /\ row.status = "ok"
         \/ SettledIn(log, s) /\ place[row.step] > place[s]
<1> DEFINE new == Append(log, row)
<1>1. /\ Len(new) = Len(log) + 1
      /\ new[Len(log) + 1] = row
      /\ \A i \in 1..Len(log) : new[i] = log[i]
      /\ Len(log) \in Nat
  OBVIOUS
<1>2. SettledIn(new, s)
  OBVIOUS
<1> HIDE DEF new
<1>3. PICK i \in 1..Len(new) :
        /\ new[i].step = s
        /\ new[i].status = "ok"
        /\ \A j \in (i+1)..Len(new) : place[new[j].step] > place[s]
  BY <1>2 DEF SettledIn
<1>4. CASE i = Len(log) + 1
  BY <1>1, <1>3, <1>4
<1>5. CASE i # Len(log) + 1
  <2>1. i \in 1..Len(log) /\ Len(log) + 1 \in (i+1)..Len(new)
    BY <1>1, <1>5
  <2>2. place[row.step] > place[s]
    BY <1>1, <1>3, <2>1
  <2>3. \A j \in (i+1)..Len(log) : place[log[j].step] > place[s]
    <3>1. ASSUME NEW j \in (i+1)..Len(log)
          PROVE  place[log[j].step] > place[s]
      <4>1. j \in (i+1)..Len(new) /\ new[j] = log[j]
        BY <1>1, <2>1
      <4>2. QED
        BY <1>3, <4>1
    <3>2. QED
      BY <3>1
  <2>4. log[i].step = s /\ log[i].status = "ok"
    BY <1>1, <1>3, <2>1
  <2>5. QED
    BY <2>1, <2>2, <2>3, <2>4 DEF SettledIn
<1>6. QED
  BY <1>4, <1>5

(* What a finished row can have settled: its own step, by a pass.              *)
LEMMA FinishedThen ==
  ASSUME rows \in Seq(Row), rows # <<>>, NEW o \in {"pass", "fail"}, NEW s,
         place[s] \in Nat, SettledIn(FinishedRows(o), s)
  PROVE  \/ s = NewestRow.step /\ o = "pass"
         \/ s # NewestRow.step /\ SettledIn(rows, s)
<1> DEFINE new  == FinishedRows(o)
           last == Len(rows)
           st   == IF o = "pass" THEN "ok" ELSE "failed"
<1>1. last \in 1..last /\ last \in Nat /\ NewestRow = rows[last]
  BY DEF NewestRow
<1>2. \A i \in 1..last : rows[i] \in Row
  OBVIOUS
<1>3. /\ Len(new) = last
      /\ \A i \in 1..last : new[i].step = rows[i].step
  BY SettledFinish
<1>4. new = [rows EXCEPT ![last].status = st]
  BY DEF FinishedRows
<1>5. new[last].status = st /\ \A i \in 1..last : i # last => new[i] = rows[i]
  BY <1>1, <1>2, <1>4 DEF Row
<1> HIDE DEF new, last
<1>6. PICK i \in 1..last :
        /\ new[i].step = s
        /\ new[i].status = "ok"
        /\ \A j \in (i+1)..last : place[new[j].step] > place[s]
  BY <1>3 DEF SettledIn, new
<1>7. CASE i = last
  BY <1>1, <1>3, <1>5, <1>6, <1>7
<1>8. CASE i # last
  <2>1. last \in (i+1)..last
    BY <1>1, <1>8
  <2>2. place[NewestRow.step] > place[s]
    BY <1>1, <1>3, <1>6, <2>1
  <2>3. s # NewestRow.step
    BY <2>2
  <2>4. ASSUME NEW j \in (i+1)..last
        PROVE  place[rows[j].step] > place[s]
    <3>1. j \in 1..last
      BY <1>1
    <3>2. QED
      BY <1>3, <1>6, <3>1
  <2>5. rows[i].step = s /\ rows[i].status = "ok"
    BY <1>3, <1>5, <1>6, <1>8
  <2>6. QED
    BY <2>3, <2>4, <2>5 DEF SettledIn, last
<1>9. QED
  BY <1>7, <1>8

(* Inside the loop the steps are ordered, and all before the one in turn are   *)
(* accepted.                                                                   *)
LEMMA InLoopFacts ==
  ASSUME IInv, InLoop
  PROVE  /\ at \in DOMAIN plan /\ DOMAIN plan \subseteq DOMAIN place
         /\ place \in [DOMAIN place -> Nat] /\ rows \in Seq(Row)
         /\ \A s, t \in DOMAIN plan : place[s] = place[t] => s = t
         /\ Before(at) \subseteq Accepted
         /\ Placed
BY DEF IInv, TypeOK, PlanInv, LoopInv, EarlierSettled, Distinct, Before, Accepted, Placed

(* A row of the step in turn leaves what comes before it accepted, and itself  *)
(* if the row is "ok".                                                         *)
LEMMA RowAccepted ==
  ASSUME IInv, InLoop, NEW row \in Row, row.step = at, rows' = Append(rows, row),
         UNCHANGED <<plan, place>>
  PROVE  Accepted' = Before(at) \cup (IF row.status = "ok" THEN {at} ELSE {})
<1>1. /\ at \in DOMAIN plan /\ DOMAIN plan \subseteq DOMAIN place
      /\ place \in [DOMAIN place -> Nat] /\ rows \in Seq(Row)
      /\ \A s \in Before(at) : SettledIn(rows, s)
  BY InLoopFacts DEF Accepted, Settled
<1>2. ASSUME NEW s \in DOMAIN plan
      PROVE  SettledIn(rows', s) <=>
               s \in Before(at) \/ (s = at /\ row.status = "ok")
  <2>1. ASSUME SettledIn(rows', s)
        PROVE  s \in Before(at) \/ (s = at /\ row.status = "ok")
    <3>1. (s = row.step /\ row.status = "ok") \/ place[row.step] > place[s]
      BY <1>1, <2>1, SettledThen
    <3>2. place[s] \in Nat /\ place[at] \in Nat
      BY <1>1
    <3>3. QED
      BY <3>1, <3>2 DEF Before
  <2>2. ASSUME s \in Before(at)
        PROVE  SettledIn(rows', s)
    <3>1. SettledIn(rows, s) /\ place[row.step] > place[s]
      BY <1>1, <2>2 DEF Before
    <3>2. QED
      BY <1>1, <3>1, SettledAppend
  <2>3. row.status = "ok" => SettledIn(rows', at)
    BY <1>1, SettledAppend
  <2>4. QED
    BY <2>1, <2>2, <2>3
<1>3. Accepted' = {s \in DOMAIN plan : SettledIn(rows', s)}
  BY DEF Accepted, Settled, SettledIn
<1>4. Before(at) \subseteq DOMAIN plan
  BY DEF Before
<1>5. ASSUME NEW s
      PROVE  s \in Accepted' <=> s \in Before(at) \cup (IF row.status = "ok" THEN {at} ELSE {})
  BY <1>1, <1>2, <1>3, <1>4
<1>6. QED
  BY <1>5

(* What is accepted rests on the accepted: a step waits for earlier ones only. *)
LEMMA FoundedBefore ==
  ASSUME IInv, InLoop
  PROVE  \A s \in Before(at) \cup {at} : Waits(plan, s) \subseteq Before(at)
<1>1. /\ at \in DOMAIN plan /\ DOMAIN plan \subseteq DOMAIN place
      /\ place \in [DOMAIN place -> Nat] /\ Placed
  BY InLoopFacts
<1>2. \A s \in DOMAIN plan : \A t \in Waits(plan, s) : t \in DOMAIN plan /\ place[t] < place[s]
  BY <1>1 DEF IInv, OrderFits, Placed
<1>3. ASSUME NEW s \in Before(at) \cup {at}, NEW t \in Waits(plan, s)
      PROVE  t \in Before(at)
  <2>1. s \in DOMAIN plan /\ place[s] <= place[at]
    BY <1>1 DEF Before
  <2>2. t \in DOMAIN plan /\ place[t] < place[s]
    BY <1>2, <2>1
  <2>3. place[t] \in Nat /\ place[s] \in Nat /\ place[at] \in Nat
    BY <1>1, <2>1, <2>2
  <2>4. QED
    BY <2>1, <2>2, <2>3 DEF Before
<1>4. QED
  BY <1>3

(* Accepting the step in turn is a step of the gate.                           *)
LEMMA AcceptGate ==
  ASSUME IInv, InLoop, record = "running", UNCHANGED <<plan, place, signals, record>>,
         Accepted = Before(at), Accepted' = Before(at) \cup {at}
  PROVE  GateStep
<1>1. /\ at \in DOMAIN plan /\ at \notin Before(at)
      /\ \A s \in Before(at) \cup {at} : s \in DOMAIN plan /\ Waits(plan, s) \subseteq Before(at)
  <2>1. at \in DOMAIN plan /\ place[at] \in Nat
    BY InLoopFacts
  <2>2. QED
    BY <2>1, FoundedBefore DEF Before
<1>2. DOMAIN Team = DOMAIN plan /\ Team' = Team
  BY DEF Team, Waits
<1>3. \A s \in Accepted' : Team[s].needs \subseteq Accepted'
  BY <1>1 DEF Team
<1>4. Gate!Accept(at)
  BY <1>1, <1>2, <1>3 DEF Gate!Accept, Gate!Founded, Accepted, Team
<1>5. QED
  BY <1>1, <1>2, <1>4 DEF GateStep, Gate!Next, Team

(* So is taking results back, down to what comes before the step in turn, or   *)
(* to that and the step.                                                       *)
LEMMA ReopenGate ==
  ASSUME IInv, InLoop, record = "running", UNCHANGED <<plan, place, signals, record>>,
         Accepted' \subseteq Accepted, Accepted' \in {Before(at), Before(at) \cup {at}}
  PROVE  GateStep
<1>1. \A s \in Accepted' : s \in DOMAIN plan /\ Waits(plan, s) \subseteq Accepted'
  <2>1. at \in DOMAIN plan
    BY InLoopFacts
  <2>2. QED
    BY <2>1, FoundedBefore DEF Before
<1>2. Team' = Team
  BY DEF Team, Waits
<1>3. \A s \in Accepted' : Team[s].needs \subseteq Accepted'
  BY <1>1 DEF Team
<1>4. Gate!Reopen
  BY <1>2, <1>3 DEF Gate!Reopen, Gate!Founded, Accepted, Team
<1>5. QED
  BY <1>4 DEF GateStep, Gate!Next

(* A step that leaves the plan, the rows and the record alone is a stutter of  *)
(* the gate.                                                                   *)
LEMMA Unseen ==
  ASSUME UNCHANGED <<plan, place, signals, rows, record>>
  PROVE  GateStep /\ Accepted' = Accepted /\ \A s : Before(s)' = Before(s)
BY DEF GateStep, GateVars, Team, Accepted, Before, Settled, SettledIn, Waits

(* A turn takes back the step in turn and all that comes later; a step that is *)
(* no work is accepted at once.                                                *)
LEMMA TurnGate ==
  ASSUME IInv, GateInv, Turn
  PROVE  GateStep /\ GateInv'
<1>1. /\ pc = "turn" /\ UNCHANGED <<plan, place, signals, at, record>>
      /\ InLoop /\ record = "running"
  BY DEF Turn, given, GateInv, InLoop
<1>2. /\ pc' \in {"session", "onward", "closing"}
      /\ \A s : Before(s)' = Before(s)
  BY <1>1, TurnRows DEF IInv, LoopInv, Before
<1>3. at \notin Before(at)
  BY <1>1, InLoopFacts DEF Before
<1>4. ASSUME rows' = rows
      PROVE  GateStep /\ GateInv'
  <2>1. pc' = "closing"
    <3>1. ASSUME NEW row \in Row, rows' = Append(rows, row)
          PROVE  FALSE
      BY <1>1, <1>4, <3>1, InLoopFacts
    <3>2. QED
      BY <1>2, <3>1, TurnRows DEF IInv, LoopInv
  <2>2. QED
    BY <1>1, <1>4, <2>1, Unseen DEF GateInv, InLoop
<1>5. ASSUME NEW row \in Row, row.step = at, rows' = Append(rows, row)
      PROVE  GateStep /\ GateInv'
  <2>1. Accepted' = Before(at) \cup (IF row.status = "ok" THEN {at} ELSE {})
    BY <1>1, <1>5, RowAccepted
  <2>2. pc' = "session" => row.status # "ok"
    <3>1. ASSUME pc' = "session"
          PROVE  row.status = "running"
      <4> DEFINE new == NewRow(at, attempts'[at], "running", "session")
      <4>1. rows' = Append(rows, new)
        BY <3>1 DEF Turn, Break
      <4>2. new \in Row /\ new.status = "running"
        <5>1. at \in Nat /\ attempts'[at] \in Nat
          BY <1>1, InLoopFacts, TurnRows DEF IInv, TypeOK, LoopInv
        <5>2. QED
          BY <5>1, RowTypes
      <4> HIDE DEF new
      <4>3. rows \in Seq(Row)
        BY DEF IInv, TypeOK
      <4>4. row = new
        <5>1. Append(rows, row)[Len(rows) + 1] = row
          BY <4>3
        <5>2. Append(rows, new)[Len(rows) + 1] = new
          BY <4>2, <4>3
        <5>3. QED
          BY <1>5, <4>1, <5>1, <5>2
      <4>5. QED
        BY <4>2, <4>4
    <3>2. QED
      BY <3>1
  <2>3. GateInv'
    BY <1>1, <1>2, <2>1, <2>2 DEF GateInv, InLoop
  <2>4. CASE Accepted' \subseteq Accepted
    BY <1>1, <2>1, <2>3, <2>4, ReopenGate
  <2>5. CASE ~(Accepted' \subseteq Accepted)
    <3>1. Before(at) \subseteq Accepted
      BY <1>1, InLoopFacts
    <3>2. at \notin Accepted /\ Accepted' = Before(at) \cup {at}
      BY <2>1, <2>5, <3>1
    <3>3. Accepted = Before(at)
      BY <1>1, <3>2 DEF GateInv
    <3>4. QED
      BY <1>1, <2>3, <3>2, <3>3, AcceptGate
  <2>6. QED
    BY <2>3, <2>4, <2>5
<1>6. QED
  BY <1>4, <1>5, TurnRows DEF IInv, LoopInv

(* A session that passes accepts its step, another one leaves it open.         *)
LEMMA SessionGate ==
  ASSUME IInv, GateInv, SessionEnds
  PROVE  GateStep /\ GateInv'
<1>1. PICK o \in {"pass", "fail"} : rows' = FinishedRows(o)
  BY DEF SessionEnds
<1>2. /\ pc = "session" /\ UNCHANGED <<plan, place, signals, at, record>>
      /\ InLoop /\ record = "running"
      /\ pc' \in {"overseer", "closing"}
      /\ Accepted = Before(at)
      /\ rows # <<>> /\ NewestRow.step = at
  BY DEF SessionEnds, Break, given, GateInv, InLoop, IInv, LoopInv, CurrentRow
<1>3. /\ at \in DOMAIN plan /\ DOMAIN plan \subseteq DOMAIN place
      /\ place \in [DOMAIN place -> Nat] /\ rows \in Seq(Row)
      /\ at \notin Accepted
  <2>1. at \notin Before(at)
    BY <1>2, InLoopFacts DEF Before
  <2>2. QED
    BY <1>2, <2>1, InLoopFacts
<1>4. ASSUME NEW s \in DOMAIN plan
      PROVE  SettledIn(rows', s) <=> s \in Accepted \/ (s = at /\ o = "pass")
  <2>1. place[s] \in Nat
    BY <1>3
  <2>2. SettledIn(rows', s) => s \in Accepted \/ (s = at /\ o = "pass")
    <3>1. ASSUME SettledIn(rows', s)
          PROVE  (s # at /\ SettledIn(rows, s)) \/ (s = at /\ o = "pass")
      BY <1>1, <1>2, <1>3, <2>1, <3>1, FinishedThen
    <3>2. QED
      BY <3>1 DEF Accepted, Settled
  <2>3. s \in Accepted => SettledIn(rows', s)
    BY <1>1, <1>2, <1>3, SettledFinish DEF Accepted, Settled
  <2>4. o = "pass" => SettledIn(rows', at)
    <3>1. ASSUME o = "pass"
          PROVE  SettledIn(rows', at)
      <4>1. /\ rows' \in Seq(Row) /\ Len(rows') = Len(rows)
            /\ rows'[Len(rows)].step = at /\ rows'[Len(rows)].status = "ok"
            /\ Len(rows) \in 1..Len(rows)
        <5>1. Len(rows) \in 1..Len(rows) /\ NewestRow = rows[Len(rows)]
          BY <1>2, <1>3 DEF NewestRow
        <5>2. QED
          BY <1>1, <1>2, <1>3, <3>1, <5>1, SettledFinish
      <4>2. \A j \in (Len(rows)+1)..Len(rows') : place[rows'[j].step] > place[at]
        BY <4>1
      <4>3. QED
        BY <4>1, <4>2 DEF SettledIn
    <3>2. QED
      BY <3>1
  <2>5. QED
    BY <2>2, <2>3, <2>4
<1>5. Accepted' = Accepted \cup (IF o = "pass" THEN {at} ELSE {})
  <2>1. Accepted' = {s \in DOMAIN plan : SettledIn(rows', s)}
    BY <1>2 DEF Accepted, Settled, SettledIn
  <2>2. Accepted \subseteq DOMAIN plan
    BY DEF Accepted
  <2>3. ASSUME NEW s
        PROVE  s \in Accepted' <=> s \in Accepted \cup (IF o = "pass" THEN {at} ELSE {})
    BY <1>3, <1>4, <2>1, <2>2
  <2>4. QED
    BY <2>3
<1>6. GateInv'
  <2>1. Before(at)' = Before(at)
    BY <1>2 DEF Before
  <2>2. QED
    BY <1>2, <1>5, <2>1 DEF GateInv, InLoop
<1>7. CASE o = "pass"
  BY <1>2, <1>5, <1>6, <1>7, AcceptGate
<1>8. CASE o # "pass"
  BY <1>2, <1>5, <1>6, <1>8 DEF GateStep, GateVars, Team, Waits
<1>9. QED
  BY <1>7, <1>8

(* The Overseer's answer alone writes nothing; a repair goes to a step that is *)
(* accepted, or back to the one in turn.                                       *)
LEMMA OverseerGate ==
  ASSUME IInv, GateInv, OverseerReturns
  PROVE  GateStep /\ GateInv'
<1>1. PICK e :
        \/ e.action = "continue" /\ Continue
        \/ e.action = "stop" /\ Stop
        \/ e.action = "repair" /\ Repair(BoundRepairTarget(e.target))
  BY DEF OverseerReturns
<1>2. /\ pc = "overseer" /\ UNCHANGED <<plan, place, signals, rows, record>>
      /\ InLoop /\ record = "running" /\ Accepted \subseteq Before(at) \cup {at}
  BY DEF OverseerReturns, given, GateInv, InLoop
<1>3. GateStep /\ Accepted' = Accepted /\ \A s : Before(s)' = Before(s)
  BY <1>2, Unseen
<1>4. CASE Continue
  BY <1>2, <1>3, <1>4 DEF Continue, GateInv, InLoop, Before
<1>5. CASE Stop
  BY <1>2, <1>3, <1>5 DEF Stop, Break, GateInv, InLoop
<1>6. CASE Repair(BoundRepairTarget(e.target))
  <2> DEFINE target == BoundRepairTarget(e.target)
  <2>1. /\ at \in DOMAIN plan /\ DOMAIN plan \subseteq DOMAIN place
        /\ place \in [DOMAIN place -> Nat]
        /\ \A s, t \in DOMAIN plan : place[s] = place[t] => s = t
        /\ Before(at) \subseteq Accepted
        /\ Placed
    BY <1>2, InLoopFacts
  <2>2. target \in DOMAIN plan /\ place[target] <= place[at]
    BY <2>1, RepairBack DEF IInv
  <2> HIDE DEF target
  <2>3. target \in Accepted \/ Accepted = Before(target)
    <3>1. CASE target = at
      BY <1>2, <2>1, <3>1
    <3>2. CASE target # at
      <4>1. place[target] < place[at]
        BY <2>1, <2>2, <3>2
      <4>2. QED
        BY <2>1, <2>2, <4>1 DEF Before
    <3>3. QED
      BY <3>1, <3>2
  <2>4. pc' = "closing" \/ (pc' = "turn" /\ at' = target)
    BY <1>6 DEF Repair, Break, target
  <2>5. pc' = "turn" => at' \in Accepted' \/ Accepted' = Before(at)'
    BY <1>2, <1>3, <2>3, <2>4 DEF Before
  <2>6. QED
    BY <1>2, <1>3, <2>4, <2>5 DEF GateInv, InLoop
<1>7. QED
  BY <1>1, <1>4, <1>5, <1>6

(* Taking a step out of the plan is the gate's waiver: who waited for it waits *)
(* for what it waited for.  No step checks it, or the rules refused the plan.  *)
LEMMA WaiveNeeds ==
  ASSUME Shaped(plan), NEW s \in DOMAIN plan, plan' = RemoveStep(plan, s),
         Valid(plan', EngineContext(plan)), UNCHANGED signals
  PROVE  Team' = [t \in DOMAIN Team \ {s} |->
                    [Team[t] EXCEPT !.needs =
                       IF s \in @ THEN (@ \ {s}) \cup Team[s].needs ELSE @]]
<1>1. DOMAIN plan' = DOMAIN plan \ {s}
  BY DEF RemoveStep
<1>2. ASSUME NEW t \in DOMAIN plan \ {s}
      PROVE  /\ plan'[t].role = plan[t].role
             /\ Waits(plan', t) = IF s \in Waits(plan, t)
                                  THEN (Waits(plan, t) \ {s}) \cup Waits(plan, s)
                                  ELSE Waits(plan, t)
  <2>1. plan[t] \in Step
    BY DEF Shaped
  <2> DEFINE after == IF s \in plan[t].after THEN (plan[t].after \ {s}) \cup Waits(plan, s)
                                              ELSE plan[t].after
  <2>2. plan'[t] = [plan[t] EXCEPT !.after = after]
    BY DEF RemoveStep
  <2>3. /\ plan'[t].role = plan[t].role
        /\ plan'[t].checks = plan[t].checks
        /\ plan'[t].after = after
    BY <2>1, <2>2 DEF Step
  <2>4. s \notin Waits(plan', t)
    BY <1>1 DEF Valid, GraphSound
  <2>5. plan[t].checks # None => plan[t].checks # s
    BY <2>3, <2>4 DEF Waits
  <2>6. /\ Waits(plan', t) = after \cup (IF plan[t].checks = None THEN {} ELSE {plan[t].checks})
        /\ Waits(plan, t) = plan[t].after \cup (IF plan[t].checks = None THEN {} ELSE {plan[t].checks})
    BY <2>3 DEF Waits
  <2>7. QED
    BY <2>3, <2>5, <2>6
<1>3. Team' = [t \in DOMAIN plan \ {s} |->
                 [needs |-> Waits(plan', t),
                  floor |-> plan'[t].role \in Unskippable \cup signals.required]]
  <2>1. \A t : Waits(plan, t)' = Waits(plan', t)
    BY DEF Waits
  <2>2. QED
    BY <1>1, <2>1 DEF Team
<1>4. ASSUME NEW t \in DOMAIN plan \ {s}
      PROVE  [needs |-> Waits(plan', t),
              floor |-> plan'[t].role \in Unskippable \cup signals.required]
             = [Team[t] EXCEPT !.needs =
                  IF s \in @ THEN (@ \ {s}) \cup Team[s].needs ELSE @]
  <2>1. /\ Team[t] = [needs |-> Waits(plan, t),
                      floor |-> plan[t].role \in Unskippable \cup signals.required]
        /\ Team[s].needs = Waits(plan, s)
    <3>1. Team[t] = [needs |-> Waits(plan, t),
                     floor |-> plan[t].role \in Unskippable \cup signals.required]
      BY DEF Team
    <3>2. Team[s].needs = Waits(plan, s)
      BY DEF Team
    <3>3. QED
      BY <3>1, <3>2
  <2>2. /\ plan'[t].role = plan[t].role
        /\ Waits(plan', t) = IF s \in Waits(plan, t)
                             THEN (Waits(plan, t) \ {s}) \cup Waits(plan, s)
                             ELSE Waits(plan, t)
    BY <1>2
  <2>3. QED
    BY <2>1, <2>2
<1>5. DOMAIN Team = DOMAIN plan
  BY DEF Team
<1>6. QED
  BY <1>3, <1>4, <1>5

(* A skip is a waiver; a skip that is refused or half written changes nothing  *)
(* the gate sees.                                                              *)
LEMMA SkipGate ==
  ASSUME IInv, GateInv, JudgeSkip
  PROVE  GateStep /\ GateInv'
<1>1. /\ pc = "onward" /\ UNCHANGED <<place, signals, at, record>>
      /\ InLoop /\ record = "running" /\ Accepted \subseteq Before(at) \cup {at}
  BY DEF JudgeSkip, given, GateInv, InLoop
<1>2. PICK s \in asked :
        \/ /\ MaySkip(plan, s, EngineContext(plan))
           /\ \/ /\ rows' = Append(rows, NewRow(s, 1, "ok", "skipped"))
                 /\ plan' = RemoveStep(plan, s)
                 /\ pc' = pc
              \/ /\ rows' \in {rows, Append(rows, NewRow(s, 1, "running", "skipped"))}
                 /\ pc' = "closing"
                 /\ UNCHANGED plan
        \/ UNCHANGED <<pc, plan, rows>>
  BY DEF JudgeSkip, Break
<1>3. s \in Later
  BY <1>1 DEF IInv, LoopInv, AskedLater
<1>4. /\ s \in DOMAIN plan /\ s \in Nat
      /\ at \in DOMAIN plan /\ DOMAIN plan \subseteq DOMAIN place
      /\ place \in [DOMAIN place -> Nat] /\ rows \in Seq(Row)
      /\ Before(at) \cup {at} = Accepted
      /\ \A t \in Accepted : place[s] > place[t] /\ t # s
  <2>1. at \in Accepted
    BY <1>1, InLoopFacts DEF IInv, LoopInv, EarlierSettled, Accepted
  <2>2. Before(at) \cup {at} = Accepted
    BY <1>1, <2>1, InLoopFacts
  <2>3. s \in DOMAIN plan /\ s \in Nat /\ place[s] > place[at]
    BY <1>3 DEF Later, IInv, TypeOK, Shaped
  <2>4. \A t \in Before(at) \cup {at} : place[s] > place[t] /\ t # s
    BY <1>1, <2>3, InLoopFacts DEF Before
  <2>5. QED
    BY <1>1, <2>2, <2>3, <2>4, InLoopFacts
<1>5. ASSUME NEW row \in Row, row.step = s, rows' = Append(rows, row),
             NEW t \in DOMAIN plan, t # s \/ row.status # "ok"
      PROVE  SettledIn(rows', t) <=> t \in Accepted
  <2>1. SettledIn(rows', t) => SettledIn(rows, t)
    BY <1>4, <1>5, SettledThen
  <2>2. t \in Accepted => SettledIn(rows', t)
    <3>1. ASSUME t \in Accepted
          PROVE  SettledIn(rows, t) /\ place[row.step] > place[t]
      BY <1>4, <1>5, <3>1 DEF Accepted, Settled
    <3>2. QED
      BY <1>4, <1>5, <3>1, SettledAppend
  <2>3. QED
    BY <2>1, <2>2 DEF Accepted, Settled
<1>6. Accepted' = {t \in DOMAIN plan' : SettledIn(rows', t)}
  BY <1>1 DEF Accepted, Settled, SettledIn
<1>7. CASE UNCHANGED <<plan, rows>>
  <2>1. GateStep /\ Accepted' = Accepted /\ Before(at)' = Before(at)
    BY <1>1, <1>7, Unseen DEF Before
  <2>2. pc' \in {"onward", "closing"}
    BY <1>1, <1>2
  <2>3. QED
    BY <1>1, <2>1, <2>2 DEF GateInv, InLoop
<1>8. CASE rows' = Append(rows, NewRow(s, 1, "running", "skipped")) /\ pc' = "closing"
             /\ UNCHANGED plan
  <2> DEFINE row == NewRow(s, 1, "running", "skipped")
  <2>1. s \in Nat /\ rows' = Append(rows, row)
    BY <1>4, <1>8
  <2>2. row \in Row /\ row.step = s /\ row.status = "running"
    BY <2>1, RowTypes
  <2> HIDE DEF row
  <2>3. \A t \in DOMAIN plan : SettledIn(rows', t) <=> t \in Accepted
    BY <1>5, <2>1, <2>2
  <2>4. Accepted' = Accepted
    BY <1>6, <1>8, <2>3 DEF Accepted
  <2>5. Team' = Team
    BY <1>1, <1>8 DEF Team, Waits
  <2>6. QED
    BY <1>1, <1>8, <2>4, <2>5 DEF GateStep, GateVars, GateInv, InLoop, Team
<1>9. CASE /\ MaySkip(plan, s, EngineContext(plan))
           /\ rows' = Append(rows, NewRow(s, 1, "ok", "skipped"))
           /\ plan' = RemoveStep(plan, s)
           /\ pc' = pc
  <2>1. PICK row \in Row : row.step = s /\ rows' = Append(rows, row)
    BY <1>4, <1>9, RowTypes
  <2>2. DOMAIN plan' = DOMAIN plan \ {s}
    BY <1>9 DEF RemoveStep
  <2>3. \A t \in DOMAIN plan' : SettledIn(rows', t) <=> t \in Accepted
    BY <1>5, <2>1, <2>2
  <2>4. Accepted' = Accepted
    BY <1>4, <1>6, <2>2, <2>3 DEF Accepted
  <2>5. GateInv'
    <3>1. Before(at)' \cup {at'} = Before(at) \cup {at}
      BY <1>1, <1>4, <2>2 DEF Before, Accepted
    <3>2. QED
      BY <1>1, <1>9, <2>4, <3>1 DEF GateInv, InLoop
  <2>6. /\ plan[s].role \notin Unskippable \cup signals.required
        /\ Valid(plan', EngineContext(plan))
    BY <1>9 DEF MaySkip, EngineContext
  <2>7. Team' = [t \in DOMAIN Team \ {s} |->
                   [Team[t] EXCEPT !.needs =
                      IF s \in @ THEN (@ \ {s}) \cup Team[s].needs ELSE @]]
    BY <1>1, <1>4, <1>9, <2>6, WaiveNeeds DEF IInv, TypeOK
  <2>8. s \in DOMAIN Team \ Accepted /\ ~Team[s].floor
    BY <1>4, <2>6 DEF Team
  <2>9. Gate!Waive(s)
    BY <1>1, <2>4, <2>7, <2>8 DEF Gate!Waive, Team, Accepted
  <2>10. QED
    BY <2>5, <2>8, <2>9 DEF GateStep, Gate!Next, Team
<1>10. QED
  BY <1>2, <1>7, <1>8, <1>9

(* The next step in order finds nothing accepted but what comes before it.     *)
LEMMA GoOnGate ==
  ASSUME IInv, GateInv, GoOn
  PROVE  GateStep /\ GateInv'
<1>1. /\ pc = "onward" /\ UNCHANGED <<plan, place, signals, rows, record>>
      /\ InLoop /\ record = "running" /\ Accepted \subseteq Before(at) \cup {at}
  BY DEF GoOn, given, GateInv, InLoop
<1>2. GateStep /\ Accepted' = Accepted /\ \A s : Before(s)' = Before(s)
  BY <1>1, Unseen
<1>3. ASSUME NEW s \in Later, \A t \in Later : place[s] <= place[t], at' = s, pc' = "turn"
      PROVE  GateStep /\ GateInv'
  <2>1. /\ at \in DOMAIN plan /\ DOMAIN plan \subseteq DOMAIN place
        /\ place \in [DOMAIN place -> Nat]
        /\ at \in Accepted /\ Before(at) \subseteq Accepted
    BY <1>1, InLoopFacts DEF IInv, LoopInv, EarlierSettled, Accepted
  <2>2. s \in DOMAIN plan /\ place[s] > place[at]
    BY DEF Later
  <2>3. Before(s) = Before(at) \cup {at}
    <3>1. ASSUME NEW t \in Before(s)
          PROVE  t \in Before(at) \cup {at}
      <4>1. t \in DOMAIN plan /\ ~(place[s] <= place[t])
        BY <2>1, <2>2 DEF Before
      <4>2. t \notin Later
        BY <1>3, <4>1
      <4>3. place[t] <= place[at]
        BY <2>1, <4>1, <4>2 DEF Later
      <4>4. place[t] < place[at] \/ t = at
        BY <1>1, <2>1, <4>1, <4>3, InLoopFacts
      <4>5. QED
        BY <4>1, <4>4 DEF Before
    <3>2. Before(at) \cup {at} \subseteq Before(s)
      BY <2>1, <2>2 DEF Before
    <3>3. QED
      BY <3>1, <3>2
  <2>4. Accepted' = Before(s)'
    BY <1>1, <1>2, <2>1, <2>3
  <2>5. Before(at)' = Before(s)'
    BY <1>3 DEF Before
  <2>6. QED
    BY <1>1, <1>2, <1>3, <2>4, <2>5 DEF GateInv, InLoop
<1>4. CASE pc' = "closing"
  BY <1>1, <1>2, <1>4 DEF GateInv, InLoop
<1>5. QED
  BY <1>3, <1>4 DEF GoOn, Break

(* A run is recorded "done" with all accepted.                                 *)
LEMMA CloseGate ==
  ASSUME IInv, GateInv, CloseRun
  PROVE  GateStep /\ GateInv'
<1>1. /\ pc = "closing" /\ pc' = "over" /\ record = "running"
      /\ record' \in {finalStatus, record}
      /\ finalStatus \in {"done", "stopped", "failed"}
      /\ UNCHANGED <<plan, place, signals, rows, finalStatus>>
  BY DEF CloseRun, given, GateInv, IInv, TypeOK
<1>2. GateInv'
  BY <1>1 DEF GateInv, InLoop
<1>3. Team' = Team /\ Accepted' = Accepted
  BY <1>1 DEF Team, Waits, Accepted, Settled, SettledIn
<1>4. CASE record' = record
  BY <1>1, <1>2, <1>4, Unseen
<1>5. CASE record' = finalStatus
  <2>1. finalStatus = "done" => Accepted = DOMAIN Team
    BY <1>1 DEF IInv, LoopInv, DoneIsSettled, AllSettled, Accepted, Team
  <2>2. Gate!Finish(finalStatus)
    BY <1>1, <1>3, <1>5, <2>1 DEF Gate!Finish, Accepted, Team
  <2>3. QED
    BY <1>1, <1>2, <2>2 DEF GateStep, Gate!Next
<1>6. QED
  BY <1>1, <1>4, <1>5

(* Before a run has rows nothing is accepted, whatever plan is put before it.  *)
LEMMA StartGate ==
  ASSUME IInv, GateInv, Resolve \/ Begin
  PROVE  GateStep /\ GateInv'
<1>1. rows' = rows /\ signals' = signals /\ ~Placed /\ pc \in {"cli", "start"}
  BY DEF Resolve, Begin, given, IInv, PlanInv
<1>2. \A i \in 1..Len(rows) : FALSE
  BY <1>1 DEF Placed, IInv, LoopInv, RowsPlaced
<1>3. Accepted = {} /\ Accepted' = {}
  BY <1>1, <1>2 DEF Accepted, Settled, SettledIn
<1>4. CASE Resolve /\ pc' = "start"
  <2>1. record = "none" /\ record' = "running"
    BY <1>4 DEF Resolve, GateInv
  <2>2. Gate!Agree
    BY <1>3, <2>1 DEF Gate!Agree, Accepted
  <2>3. QED
    BY <1>4, <2>1, <2>2 DEF GateStep, Gate!Next, GateInv, InLoop
<1>5. CASE Resolve /\ pc' # "start"
  <2>1. pc' = "refused" /\ record' = "none" /\ UNCHANGED <<plan, place, signals, rows, record>>
    BY <1>5 DEF Resolve, GateInv, given
  <2>2. QED
    BY <2>1, Unseen DEF GateInv, InLoop
<1>6. CASE Begin
  <2>1. plan' = plan /\ record' = record /\ record = "running" /\ pc' \in {"closing", "turn"}
    BY <1>6 DEF Begin, Break, GateInv
  <2>2. GateStep
    BY <1>1, <1>3, <2>1 DEF GateStep, GateVars, Team, Waits
  <2>3. ASSUME pc' = "turn"
        PROVE  Before(at)' = {}
    <3>1. place' \in [DOMAIN plan -> Nat] /\ at' \in DOMAIN plan
          /\ \A s \in DOMAIN plan : place'[at'] <= place'[s]
      BY <1>6, <2>3, OrderType DEF Begin, Break, IInv, TypeOK, Shaped
    <3>2. \A s \in DOMAIN plan' : ~(place'[s] < place'[at'])
      BY <2>1, <3>1
    <3>3. QED
      BY <3>2 DEF Before
  <2>4. QED
    BY <1>3, <2>1, <2>2, <2>3 DEF GateInv, InLoop
<1>7. QED
  BY <1>4, <1>5, <1>6

(* Every step of the run is a step or a stutter of the gate: a case per action.*)
LEMMA StepGateStep ==
  ASSUME IInv, GateInv, [Next]_vars
  PROVE  GateStep /\ GateInv'
<1>1. ASSUME UNCHANGED <<plan, place, signals, rows, record, at>>,
             pc' = pc \/ pc' = "dead" \/ (pc' = "closing" /\ InLoop)
      PROVE  GateStep /\ GateInv'
  <2>1. GateStep /\ Accepted' = Accepted /\ Before(at)' = Before(at)
    BY <1>1, Unseen DEF Before
  <2>2. QED
    BY <1>1, <2>1 DEF GateInv, InLoop
<1>2. CASE StoreFails \/ OverseerThrows
  BY <1>1, <1>2 DEF StoreFails, OverseerThrows, Break, InLoop, given
<1>3. CASE RequestStop \/ Crash
  BY <1>1, <1>3 DEF RequestStop, Crash, given
<1>4. CASE UNCHANGED vars
  BY <1>1, <1>4 DEF vars, given
<1>5. QED
  BY <1>2, <1>3, <1>4, StartGate, TurnGate, SessionGate, OverseerGate, SkipGate, GoOnGate, CloseGate
     DEF Next, Progress

(* A run that has not begun is a gate with nothing accepted.                   *)
LEMMA InitGate == Init => Gate!Init /\ GateInv
<1> SUFFICES ASSUME Init
             PROVE  Gate!Init /\ GateInv
  OBVIOUS
<1>1. Accepted = {}
  BY DEF Init, Accepted, Settled, SettledIn
<1>2. QED
  BY <1>1 DEF Init, Gate!Init, Accepted, GateInv, InLoop

(* Every run of a team, seen through its rows, accepts steps on what they rest *)
(* on, takes back what rests on a step that starts again, waives no step of    *)
(* the floor and is recorded "done" with every step accepted (runTeamPlan).    *)
THEOREM ImplementsStepGate == Spec => GateSpec
<1>1. IInv /\ GateInv /\ [Next]_vars => [Gate!Next]_(Gate!vars) /\ GateInv'
  BY StepGateStep DEF GateStep, GateVars, Team, Accepted, Gate!vars
<1>2. QED
  BY <1>1, InitGate, Inductive, PTL DEF Spec, GateSpec, Gate!Spec
=============================================================================
