---------------------------- MODULE LedgerProofs ----------------------------
(***************************************************************************)
(* The ledger sends nothing unrecorded, nothing twice and nothing past its *)
(* caps, for any number of processes and postings, any caps and any length *)
(* of run; the last two however often the clock is set back, but for the   *)
(* lead a remembered time may have.  And a form that is clicked away holds *)
(* what was meant, whatever its page does to itself.                       *)
(***************************************************************************)
EXTENDS MCLedger, FiniteSetTheorems, SequenceTheorems, WellFoundedInduction, TLAPS

(* A process whose session may still send an application.                      *)
Armed(p) == pc[p] \in {"filling", "ready", "judging", "answer"}

(* Such a process has a row of its own, which was not taken back.              *)
HasRow == \A p \in Proc : Armed(p) => /\ mine[p] \in DOMAIN rows
                                      /\ rows[mine[p]].state # "gone"
OwnRow == \A p, q \in Proc : Armed(p) /\ Armed(q) /\ p # q => mine[p] # mine[q]

(* Verify looks at a row in the table.                                         *)
LooksAtRow == \A p \in Proc : pc[p] = "verifying" => mine[p] \in DOMAIN rows

IInv == TypeOK /\ HasRow /\ OwnRow /\ LooksAtRow

(* What every step does to the rows: it adds some, and what a row is for, when *)
(* it was written and that it was closed stays.                                *)
Closed(r) == r.state \in {"failed", "gone"}
Kept(i) == /\ i \in DOMAIN rows'
           /\ rows'[i].job = rows[i].job
           /\ rows'[i].made = rows[i].made
           /\ Closed(rows[i]) => rows'[i].state = rows[i].state

-----------------------------------------------------------------------------

(* Reading the time may move rows in time and changes nothing else of them.    *)
LEMMA RepairKeeps ==
  ASSUME rows \in Seq(Row), clock \in Int, NEW f \in Int
  PROVE  /\ RowsAt(f) \in Seq(Row)
         /\ Len(RowsAt(f)) = Len(rows)
         /\ DOMAIN RowsAt(f) = DOMAIN rows
         /\ \A i \in DOMAIN rows :
              /\ RowsAt(f)[i].job = rows[i].job
              /\ RowsAt(f)[i].state = rows[i].state
              /\ RowsAt(f)[i].made = rows[i].made
              /\ RowsAt(f)[i].sent = rows[i].sent
         /\ Now(f) \in Int
<1>1. Now(f) \in Int
  BY DEF Now
<1>2. CASE ~TooFarAhead(f)
  BY <1>1, <1>2 DEF RowsAt
<1>3. CASE TooFarAhead(f)
  <2> DEFINE drawn(i) == IF rows[i].at > clock + MaxLead THEN [rows[i] EXCEPT !.at = clock]
                                                          ELSE rows[i]
  <2>1. RowsAt(f) = [i \in 1..Len(rows) |-> drawn(i)]
    BY <1>3 DEF RowsAt
  <2>2. \A i \in 1..Len(rows) :
          /\ drawn(i) \in Row
          /\ drawn(i).job = rows[i].job
          /\ drawn(i).state = rows[i].state
          /\ drawn(i).made = rows[i].made
          /\ drawn(i).sent = rows[i].sent
    <3> SUFFICES ASSUME NEW i \in 1..Len(rows)
                 PROVE  /\ drawn(i) \in Row
                        /\ drawn(i).job = rows[i].job
                        /\ drawn(i).state = rows[i].state
                        /\ drawn(i).made = rows[i].made
                        /\ drawn(i).sent = rows[i].sent
      OBVIOUS
    <3>1. rows[i] \in Row
      OBVIOUS
    <3>2. [rows[i] EXCEPT !.at = clock] \in Row
      BY <3>1 DEF Row
    <3>3. QED
      BY <3>1, <3>2 DEF Row
  <2> HIDE DEF drawn
  <2>3. RowsAt(f) \in Seq(Row) /\ Len(RowsAt(f)) = Len(rows) /\ DOMAIN RowsAt(f) = DOMAIN rows
    BY <2>1, <2>2
  <2>4. QED
    BY <1>1, <2>1, <2>2, <2>3
<1>4. QED
  BY <1>2, <1>3

(* The last time in the table is a time.                                       *)
LEMMA LastTimeInt ==
  ASSUME rows \in Seq(Row), NEW f \in LastTime
  PROVE  f \in Int
<1>1. \A i \in DOMAIN rows : rows[i].at \in Int
  <2>1. \A i \in DOMAIN rows : rows[i] \in Row
    OBVIOUS
  <2>2. QED
    BY <2>1 DEF Row
<1>2. Times \subseteq Int
  BY <1>1 DEF Times
<1>3. QED
  BY <1>2 DEF LastTime

(* A change of one row.                                                        *)
LEMMA UpdateKeeps ==
  ASSUME rows \in Seq(Row), NEW i \in DOMAIN rows, NEW r \in Row, rows' = [rows EXCEPT ![i] = r]
  PROVE  /\ rows' \in Seq(Row)
         /\ DOMAIN rows' = DOMAIN rows
         /\ Len(rows') = Len(rows)
         /\ rows'[i] = r
         /\ \A k \in DOMAIN rows : k # i => rows'[k] = rows[k]
OBVIOUS

LEMMA StateKeeps ==
  ASSUME rows \in Seq(Row), NEW i \in DOMAIN rows, NEW s \in States, SetState(i, s)
  PROVE  /\ rows' \in Seq(Row) /\ DOMAIN rows' = DOMAIN rows /\ Len(rows') = Len(rows)
         /\ \A k \in DOMAIN rows : k # i => rows'[k] = rows[k]
         /\ rows'[i] = [rows[i] EXCEPT !.state = s]
<1>1. rows[i] \in Row
  OBVIOUS
<1>2. [rows[i] EXCEPT !.state = s] \in Row
  BY <1>1 DEF Row
<1>3. rows' = [rows EXCEPT ![i] = [rows[i] EXCEPT !.state = s]]
  BY DEF SetState
<1>4. QED
  BY <1>2, <1>3, UpdateKeeps

LEMMA SendKeeps ==
  ASSUME rows \in Seq(Row), NEW i \in DOMAIN rows, NEW s \in BOOLEAN, Sends(i, s)
  PROVE  /\ rows' \in Seq(Row) /\ DOMAIN rows' = DOMAIN rows /\ Len(rows') = Len(rows)
         /\ \A k \in DOMAIN rows : k # i => rows'[k] = rows[k]
         /\ rows'[i] = [rows[i] EXCEPT !.sent = @ \/ s]
<1>1. rows[i] \in Row
  OBVIOUS
<1>2. [rows[i] EXCEPT !.sent = @ \/ s] \in Row
  BY <1>1 DEF Row
<1>3. rows' = [rows EXCEPT ![i] = [rows[i] EXCEPT !.sent = @ \/ s]]
  BY DEF Sends
<1>4. QED
  BY <1>2, <1>3, UpdateKeeps

LEMMA SendKept ==
  ASSUME rows \in Seq(Row), NEW i \in DOMAIN rows, \E s \in BOOLEAN : Sends(i, s)
  PROVE  /\ rows' \in Seq(Row) /\ DOMAIN rows' = DOMAIN rows /\ Len(rows') = Len(rows)
         /\ \A k \in DOMAIN rows : /\ rows'[k].job = rows[k].job
                                   /\ rows'[k].state = rows[k].state
                                   /\ rows'[k].at = rows[k].at
                                   /\ rows'[k].made = rows[k].made
<1>1. PICK s \in BOOLEAN : Sends(i, s)
  OBVIOUS
<1>2. rows[i] \in Row
  OBVIOUS
<1>3. /\ rows' \in Seq(Row) /\ DOMAIN rows' = DOMAIN rows /\ Len(rows') = Len(rows)
      /\ \A k \in DOMAIN rows : k # i => rows'[k] = rows[k]
      /\ rows'[i] = [rows[i] EXCEPT !.sent = @ \/ s]
  BY <1>1, SendKeeps
<1>4. /\ rows'[i].job = rows[i].job /\ rows'[i].state = rows[i].state
      /\ rows'[i].at = rows[i].at /\ rows'[i].made = rows[i].made
  BY <1>2, <1>3 DEF Row
<1>5. QED
  BY <1>3, <1>4

(* A new row.                                                                  *)
LEMMA AppendKeeps ==
  ASSUME rows \in Seq(Row), NEW rs \in Seq(Row), Len(rs) = Len(rows), NEW r \in Row,
         rows' = Append(rs, r)
  PROVE  /\ rows' \in Seq(Row) /\ Len(rows') = Len(rows) + 1
         /\ DOMAIN rows' = 1..(Len(rows) + 1)
         /\ rows'[Len(rows) + 1] = r
         /\ \A i \in DOMAIN rows : i \in DOMAIN rows' /\ rows'[i] = rs[i]
         /\ ~(Len(rows) + 1 \in DOMAIN rows)
OBVIOUS

LEMMA NewIndex == \A n \in Nat : \A k \in 1..(n + 1) : k = n + 1 \/ k \in 1..n
OBVIOUS

(* Nothing of the rows but their times is touched by what PauseSite does.      *)
LEMMA PauseKeeps ==
  ASSUME TypeOK, NEW p \in Proc, NEW s \in Site, PauseSite(p, s)
  PROVE  /\ rows' \in Seq(Row) /\ DOMAIN rows' = DOMAIN rows /\ Len(rows') = Len(rows)
         /\ \A i \in DOMAIN rows : /\ rows'[i].job = rows[i].job
                                   /\ rows'[i].state = rows[i].state
                                   /\ rows'[i].made = rows[i].made
                                   /\ rows'[i].sent = rows[i].sent
         /\ floor' \in [Proc -> Int]
         /\ paused' \subseteq Site
<1>1. floor[p] \in Int /\ rows \in Seq(Row) /\ clock \in Int
  BY DEF TypeOK
<1>2. /\ RowsAt(floor[p]) \in Seq(Row)
      /\ Len(RowsAt(floor[p])) = Len(rows)
      /\ DOMAIN RowsAt(floor[p]) = DOMAIN rows
      /\ \A i \in DOMAIN rows :
           /\ RowsAt(floor[p])[i].job = rows[i].job
           /\ RowsAt(floor[p])[i].state = rows[i].state
           /\ RowsAt(floor[p])[i].made = rows[i].made
           /\ RowsAt(floor[p])[i].sent = rows[i].sent
      /\ Now(floor[p]) \in Int
  BY <1>1, RepairKeeps
<1>3. rows' = RowsAt(floor[p]) /\ floor' = [floor EXCEPT ![p] = Now(floor[p])]
      /\ paused' = paused \cup {s}
  BY DEF PauseSite
<1>4. QED
  BY <1>2, <1>3 DEF TypeOK

(* A confirmation closes nothing and opens nothing that was closed.            *)
LEMMA ConfirmKeeps ==
  ASSUME rows \in Seq(Row), NEW i \in DOMAIN rows, Confirm(i)
  PROVE  /\ rows' \in Seq(Row) /\ DOMAIN rows' = DOMAIN rows /\ Len(rows') = Len(rows)
         /\ \A k \in DOMAIN rows : /\ rows'[k].job = rows[k].job
                                   /\ rows'[k].made = rows[k].made
                                   /\ rows'[k].at = rows[k].at
                                   /\ rows'[k].sent = rows[k].sent
                                   /\ rows[k].state # "gone" => rows'[k].state # "gone"
                                   /\ Closed(rows[k]) => rows'[k].state = rows[k].state
<1>1. CASE rows[i].state = "intended"
  <2>1. SetState(i, "confirmed") /\ "confirmed" \in States
    BY <1>1 DEF Confirm, States
  <2>2. rows[i] \in Row
    OBVIOUS
  <2>3. /\ rows' \in Seq(Row) /\ DOMAIN rows' = DOMAIN rows /\ Len(rows') = Len(rows)
        /\ \A k \in DOMAIN rows : k # i => rows'[k] = rows[k]
        /\ rows'[i] = [rows[i] EXCEPT !.state = "confirmed"]
    BY <2>1, StateKeeps
  <2>4. /\ rows'[i].job = rows[i].job /\ rows'[i].made = rows[i].made
        /\ rows'[i].at = rows[i].at /\ rows'[i].sent = rows[i].sent
        /\ rows'[i].state = "confirmed"
    BY <2>2, <2>3 DEF Row
  <2>5. QED
    BY <1>1, <2>3, <2>4 DEF Closed
<1>2. CASE rows[i].state # "intended"
  BY <1>2 DEF Confirm
<1>3. QED
  BY <1>1, <1>2

-----------------------------------------------------------------------------

(* An empty table, and processes that do nothing yet, satisfy the invariant.   *)
THEOREM IInvInit == ASSUME LedgerAssumption PROVE Init => IInv
BY DEF Init, IInv, TypeOK, HasRow, OwnRow, LooksAtRow, Armed, LedgerAssumption

(* A step that arms nobody and takes no row back keeps the pointers.           *)
Follows == \A q \in Proc :
             /\ Armed(q)' => Armed(q) /\ mine'[q] = mine[q]
             /\ pc'[q] = "verifying" => pc[q] = "verifying" /\ mine'[q] = mine[q]

LEMMA FollowsKeeps ==
  ASSUME HasRow, OwnRow, LooksAtRow, Follows, DOMAIN rows' = DOMAIN rows,
         \A i \in DOMAIN rows : rows[i].state # "gone" => rows'[i].state # "gone"
  PROVE  HasRow' /\ OwnRow' /\ LooksAtRow'
BY DEF HasRow, OwnRow, LooksAtRow, Follows

LEMMA MineKeeps ==
  ASSUME NEW n \in Nat, NEW m \in Nat, n <= m, mine \in [Proc -> 0..n],
         NEW p \in Proc, NEW v \in 0..m, mine' = [mine EXCEPT ![p] = v]
  PROVE  mine' \in [Proc -> 0..m]
<1>1. \A q \in Proc : mine[q] \in 0..m
  OBVIOUS
<1>2. QED
  BY <1>1

(* Every step keeps the invariant, and closes rows for good.                   *)
LEMMA Step ==
  ASSUME LedgerAssumption, IInv, [Next]_vars
  PROVE  IInv' /\ \A i \in DOMAIN rows : Kept(i)
<1> USE DEF Armed
<1>0. /\ rows \in Seq(Row) /\ DOMAIN rows = 1..Len(rows) /\ Len(rows) \in Nat
      /\ pc \in [Proc -> {"idle", "page", "filling", "ready", "judging", "answer",
                          "closing", "verifying"}]
      /\ job \in [Proc -> Job] /\ mine \in [Proc -> 0..Len(rows)]
      /\ floor \in [Proc -> Int] /\ clock \in Int /\ real \in Nat /\ steps \in Nat
      /\ paused \subseteq Site
  BY DEF IInv, TypeOK
<1>a. \A i \in DOMAIN rows : rows[i] \in Row
  BY <1>0
<1>1. ASSUME NEW p \in Proc, NEW j \in Job, Start(p, j)
      PROVE  IInv' /\ \A i \in DOMAIN rows : Kept(i)
  <2>1. PICK f \in LastTime : rows' = RowsAt(f) /\ floor' = [floor EXCEPT ![p] = Now(f)]
    BY <1>1 DEF Start
  <2>2. f \in Int
    BY <1>0, LastTimeInt
  <2>3. /\ rows' \in Seq(Row) /\ Len(rows') = Len(rows) /\ DOMAIN rows' = DOMAIN rows
        /\ \A i \in DOMAIN rows : /\ rows'[i].job = rows[i].job
                                  /\ rows'[i].state = rows[i].state
                                  /\ rows'[i].made = rows[i].made
        /\ Now(f) \in Int
    <3>1. /\ RowsAt(f) \in Seq(Row)
          /\ Len(RowsAt(f)) = Len(rows)
          /\ DOMAIN RowsAt(f) = DOMAIN rows
          /\ \A i \in DOMAIN rows :
               /\ RowsAt(f)[i].job = rows[i].job
               /\ RowsAt(f)[i].state = rows[i].state
               /\ RowsAt(f)[i].made = rows[i].made
          /\ Now(f) \in Int
      BY <1>0, <2>2, RepairKeeps
    <3>2. QED
      BY <2>1, <3>1
  <2>4. TypeOK'
    <3>1. pc' = [pc EXCEPT ![p] = "page"] /\ job' = [job EXCEPT ![p] = j]
          /\ mine' = [mine EXCEPT ![p] = 0] /\ UNCHANGED <<paused, clock, real, steps>>
      BY <1>1 DEF Start, Goto
    <3>2. mine' \in [Proc -> 0..Len(rows)]
      BY <1>0, <3>1, MineKeeps
    <3>3. floor' \in [Proc -> Int]
      BY <1>0, <2>1, <2>3
    <3>4. QED
      BY <1>0, <2>3, <3>1, <3>2, <3>3 DEF TypeOK
  <2>5. HasRow' /\ OwnRow' /\ LooksAtRow'
    <3>1. Follows
      BY <1>0, <1>1 DEF Follows, Start, Goto
    <3>2. QED
      BY <3>1, <2>3, FollowsKeeps DEF IInv
  <2>6. QED
    BY <2>3, <2>4, <2>5 DEF IInv, Kept
<1>2. ASSUME NEW p \in Proc, TurnBack(p)
      PROVE  IInv' /\ \A i \in DOMAIN rows : Kept(i)
  <2>1. job[p] \in Job /\ SiteOf[job[p]] \in Site
    BY <1>0 DEF LedgerAssumption
  <2>2. /\ rows' \in Seq(Row) /\ DOMAIN rows' = DOMAIN rows /\ Len(rows') = Len(rows)
        /\ \A i \in DOMAIN rows : /\ rows'[i].job = rows[i].job
                                  /\ rows'[i].state = rows[i].state
                                  /\ rows'[i].made = rows[i].made
        /\ floor' \in [Proc -> Int]
        /\ paused' \subseteq Site
    BY <1>0, <1>2, <2>1, PauseKeeps DEF TurnBack, IInv
  <2>3. TypeOK'
    BY <1>0, <1>2, <2>2 DEF TurnBack, Goto, TypeOK
  <2>4. HasRow' /\ OwnRow' /\ LooksAtRow'
    <3>1. Follows
      BY <1>0, <1>2 DEF Follows, TurnBack, Goto
    <3>2. QED
      BY <3>1, <2>2, FollowsKeeps DEF IInv
  <2>5. QED
    BY <2>2, <2>3, <2>4 DEF IInv, Kept
<1>3. ASSUME NEW p \in Proc, Intend(p)
      PROVE  IInv' /\ \A i \in DOMAIN rows : Kept(i)
  <2>1. /\ RowsAt(floor[p]) \in Seq(Row) /\ Len(RowsAt(floor[p])) = Len(rows)
        /\ DOMAIN RowsAt(floor[p]) = DOMAIN rows
        /\ \A i \in DOMAIN rows : /\ RowsAt(floor[p])[i].job = rows[i].job
                                  /\ RowsAt(floor[p])[i].state = rows[i].state
                                  /\ RowsAt(floor[p])[i].made = rows[i].made
        /\ Now(floor[p]) \in Int
    BY <1>0, RepairKeeps
  <2>2. CASE UNCHANGED <<rows, mine>> /\ Goto(p, "idle")
    <3>1. TypeOK'
      BY <1>0, <1>3, <2>1, <2>2 DEF Intend, Goto, TypeOK
    <3>2. HasRow' /\ OwnRow' /\ LooksAtRow'
      <4>1. Follows
        BY <1>0, <1>3, <2>2 DEF Follows, Intend, Goto
      <4>2. QED
        BY <4>1, <2>2, FollowsKeeps DEF IInv
    <3>3. QED
      BY <2>2, <3>1, <3>2 DEF IInv, Kept
  <2>3. CASE /\ rows' = Append(RowsAt(floor[p]),
                               [job |-> job[p], state |-> "intended", at |-> Now(floor[p]),
                                made |-> real, sent |-> FALSE])
             /\ mine' = [mine EXCEPT ![p] = Len(rows) + 1]
             /\ Goto(p, "filling")
    <3> DEFINE new == [job |-> job[p], state |-> "intended", at |-> Now(floor[p]),
                       made |-> real, sent |-> FALSE]
    <3>1. new \in Row
      BY <1>0, <2>1 DEF Row, States
    <3>2. new.state = "intended" /\ rows' = Append(RowsAt(floor[p]), new)
      BY <2>3
    <3> HIDE DEF new
    <3>3. /\ rows' \in Seq(Row) /\ Len(rows') = Len(rows) + 1
          /\ DOMAIN rows' = 1..(Len(rows) + 1)
          /\ rows'[Len(rows) + 1] = new
          /\ \A i \in DOMAIN rows : i \in DOMAIN rows' /\ rows'[i] = RowsAt(floor[p])[i]
          /\ ~(Len(rows) + 1 \in DOMAIN rows)
      <4>1. RowsAt(floor[p]) \in Seq(Row) /\ Len(RowsAt(floor[p])) = Len(rows)
        BY <2>1
      <4>2. QED
        BY <1>0, <3>1, <3>2, <4>1, AppendKeeps
    <3>4. TypeOK'
      <4>1. mine' \in [Proc -> 0..Len(rows')]
        <5>1. /\ Len(rows) + 1 \in Nat /\ Len(rows) <= Len(rows) + 1
              /\ Len(rows) + 1 \in 0..(Len(rows) + 1)
          BY <1>0
        <5>2. QED
          BY <1>0, <2>3, <3>3, <5>1, MineKeeps
      <4>2. floor' \in [Proc -> Int] /\ UNCHANGED <<paused, job, clock, real, steps>>
        BY <1>0, <1>3, <2>1 DEF Intend
      <4>3. QED
        BY <1>0, <2>3, <3>3, <4>1, <4>2 DEF Goto, TypeOK
    <3>5. HasRow'
      <4> SUFFICES ASSUME NEW q \in Proc, Armed(q)'
                   PROVE  mine'[q] \in DOMAIN rows' /\ rows'[mine'[q]].state # "gone"
        BY DEF HasRow
      <4>1. CASE q = p
        <5>1. mine'[q] = Len(rows) + 1
          BY <1>0, <2>3, <4>1
        <5>2. Len(rows) + 1 \in DOMAIN rows'
          BY <1>0, <3>3
        <5>3. QED
          BY <3>2, <3>3, <5>1, <5>2
      <4>2. CASE q # p
        <5>1. Armed(q) /\ mine'[q] = mine[q]
          BY <1>0, <2>3, <4>2 DEF Goto
        <5>2. mine[q] \in DOMAIN rows /\ rows[mine[q]].state # "gone"
          BY <5>1 DEF IInv, HasRow
        <5>3. mine[q] \in DOMAIN rows' /\ rows'[mine[q]] = RowsAt(floor[p])[mine[q]]
          BY <3>3, <5>2
        <5>4. RowsAt(floor[p])[mine[q]].state = rows[mine[q]].state
          BY <2>1, <5>2
        <5>5. QED
          BY <5>1, <5>2, <5>3, <5>4
      <4>3. QED
        BY <4>1, <4>2
    <3>8. OwnRow'
      <4>1. \A q \in Proc : q # p /\ Armed(q)' =>
              /\ Armed(q) /\ mine'[q] = mine[q] /\ mine[q] \in DOMAIN rows
              /\ mine[q] # Len(rows) + 1
        <5>1. \A q \in Proc : q # p /\ Armed(q)' => Armed(q) /\ mine'[q] = mine[q]
          BY <1>0, <2>3 DEF Goto
        <5> HIDE DEF Armed
        <5>2. \A q \in Proc : Armed(q) => mine[q] \in DOMAIN rows
          BY DEF IInv, HasRow
        <5>3. QED
          BY <3>3, <5>1, <5>2
      <4>2. mine'[p] = Len(rows) + 1
        BY <1>0, <2>3
      <4> HIDE DEF Armed
      <4>3. QED
        BY <4>1, <4>2 DEF IInv, OwnRow
    <3>9. LooksAtRow'
      BY <1>0, <2>3, <3>3 DEF IInv, LooksAtRow, Goto
    <3>6. \A i \in DOMAIN rows : Kept(i)
      BY <1>0, <2>1, <3>3 DEF Kept, Closed
    <3>10. QED
      BY <3>4, <3>5, <3>8, <3>6, <3>9 DEF IInv
  <2>4. QED
    BY <1>3, <2>2, <2>3 DEF Intend
<1>4. ASSUME NEW p \in Proc, Fill(p)
      PROVE  IInv' /\ \A i \in DOMAIN rows : Kept(i)
  <2>1. mine[p] \in DOMAIN rows /\ \E s \in BOOLEAN : Sends(mine[p], s)
    BY <1>0, <1>4 DEF Fill, IInv, HasRow
  <2>2. /\ rows' \in Seq(Row) /\ DOMAIN rows' = DOMAIN rows /\ Len(rows') = Len(rows)
        /\ \A i \in DOMAIN rows : /\ rows'[i].job = rows[i].job
                                  /\ rows'[i].state = rows[i].state
                                  /\ rows'[i].made = rows[i].made
    BY <1>0, <2>1, SendKept
  <2>3. TypeOK'
    BY <1>0, <1>4, <2>2 DEF Fill, Goto, TypeOK
  <2>4. HasRow' /\ OwnRow' /\ LooksAtRow'
    <3>1. Follows
      BY <1>0, <1>4 DEF Follows, Fill, Goto
    <3>2. QED
      BY <3>1, <2>2, FollowsKeeps DEF IInv
  <2>5. QED
    BY <2>2, <2>3, <2>4 DEF IInv, Kept
<1>5. ASSUME NEW p \in Proc, GiveUp(p)
      PROVE  IInv' /\ \A i \in DOMAIN rows : Kept(i)
  <2>1. mine[p] \in DOMAIN rows
    BY <1>0, <1>5 DEF GiveUp, IInv, HasRow
  <2>2. CASE UNCHANGED rows
    <3>1. TypeOK'
      BY <1>0, <1>5, <2>2 DEF GiveUp, Goto, TypeOK
    <3>2. HasRow' /\ OwnRow' /\ LooksAtRow'
      <4>1. Follows
        BY <1>0, <1>5 DEF Follows, GiveUp, Goto
      <4>2. QED
        BY <4>1, <2>2, FollowsKeeps DEF IInv
    <3>3. QED
      BY <2>2, <3>1, <3>2 DEF IInv, Kept
  <2>3. CASE rows[mine[p]].state = "intended" /\ SetState(mine[p], "gone")
    <3>1. /\ rows' \in Seq(Row) /\ DOMAIN rows' = DOMAIN rows /\ Len(rows') = Len(rows)
          /\ \A k \in DOMAIN rows : k # mine[p] => rows'[k] = rows[k]
          /\ rows'[mine[p]] = [rows[mine[p]] EXCEPT !.state = "gone"]
      BY <1>0, <2>1, <2>3, StateKeeps DEF States
    <3>2. rows'[mine[p]].job = rows[mine[p]].job /\ rows'[mine[p]].made = rows[mine[p]].made
      BY <1>a, <2>1, <3>1 DEF Row
    <3>3. TypeOK'
      BY <1>0, <1>5, <3>1 DEF GiveUp, Goto, TypeOK
    <3>4. HasRow' /\ OwnRow' /\ LooksAtRow'
      <4>1. \A q \in Proc : Armed(q)' => q # p /\ Armed(q)
        BY <1>0, <1>5 DEF GiveUp, Goto
      <4>2. /\ mine' = mine /\ Armed(p)
            /\ \A q \in Proc : pc'[q] = "verifying" => pc[q] = "verifying"
        BY <1>0, <1>5 DEF GiveUp, Goto
      <4> HIDE DEF Armed
      <4>3. \A q \in Proc : Armed(q)' => mine[q] # mine[p] /\ mine[q] \in DOMAIN rows
                                        /\ rows[mine[q]].state # "gone"
        BY <4>1, <4>2 DEF IInv, HasRow, OwnRow
      <4>4. HasRow'
        BY <3>1, <4>2, <4>3 DEF HasRow
      <4>5. OwnRow' /\ LooksAtRow'
        BY <3>1, <4>1, <4>2 DEF IInv, OwnRow, LooksAtRow
      <4>6. QED
        BY <4>4, <4>5
    <3>5. \A i \in DOMAIN rows : Kept(i)
      BY <2>3, <3>1, <3>2 DEF Kept, Closed
    <3>6. QED
      BY <3>3, <3>4, <3>5 DEF IInv
  <2>4. QED
    BY <1>5, <2>2, <2>3 DEF GiveUp
<1>6. ASSUME NEW p \in Proc, Click(p)
      PROVE  IInv' /\ \A i \in DOMAIN rows : Kept(i)
  <2>1. mine[p] \in DOMAIN rows /\ \E s \in BOOLEAN : Sends(mine[p], s)
    BY <1>0, <1>6 DEF Click, IInv, HasRow
  <2>2. /\ rows' \in Seq(Row) /\ DOMAIN rows' = DOMAIN rows /\ Len(rows') = Len(rows)
        /\ \A i \in DOMAIN rows : /\ rows'[i].job = rows[i].job
                                  /\ rows'[i].state = rows[i].state
                                  /\ rows'[i].made = rows[i].made
    BY <1>0, <2>1, SendKept
  <2>3. TypeOK'
    BY <1>0, <1>6, <2>2 DEF Click, Goto, TypeOK
  <2>4. HasRow' /\ OwnRow' /\ LooksAtRow'
    <3>1. /\ \A q \in Proc : Armed(q)' => Armed(q)
          /\ \A q \in Proc : pc'[q] = "verifying" => pc[q] = "verifying"
          /\ mine' = mine
      BY <1>0, <1>6 DEF Click, Goto
    <3> HIDE DEF Armed
    <3>2. QED
      BY <2>2, <3>1 DEF IInv, HasRow, OwnRow, LooksAtRow
  <2>5. QED
    BY <2>2, <2>3, <2>4 DEF IInv, Kept
<1>7. ASSUME NEW p \in Proc, ReadAnswer(p)
      PROVE  IInv' /\ \A i \in DOMAIN rows : Kept(i)
  <2>1. mine[p] \in DOMAIN rows /\ SiteOf[job[p]] \in Site
    BY <1>0, <1>7 DEF ReadAnswer, IInv, HasRow, LedgerAssumption
  <2>2. /\ rows' \in Seq(Row) /\ DOMAIN rows' = DOMAIN rows /\ Len(rows') = Len(rows)
        /\ \A i \in DOMAIN rows : /\ rows'[i].job = rows[i].job
                                  /\ rows'[i].made = rows[i].made
                                  /\ rows[i].state # "gone" => rows'[i].state # "gone"
                                  /\ Closed(rows[i]) => rows'[i].state = rows[i].state
        /\ floor' \in [Proc -> Int]
        /\ paused' \subseteq Site
    <3>1. CASE Confirm(mine[p]) /\ UNCHANGED <<paused, floor>>
      BY <1>0, <2>1, <3>1, ConfirmKeeps
    <3>2. CASE UNCHANGED <<rows, paused, floor>>
      BY <1>0, <3>2 DEF Closed
    <3>3. CASE PauseSite(p, SiteOf[job[p]])
      <4>1. /\ rows' \in Seq(Row) /\ DOMAIN rows' = DOMAIN rows /\ Len(rows') = Len(rows)
            /\ \A i \in DOMAIN rows : /\ rows'[i].job = rows[i].job
                                      /\ rows'[i].state = rows[i].state
                                      /\ rows'[i].made = rows[i].made
            /\ floor' \in [Proc -> Int]
            /\ paused' \subseteq Site
        BY <2>1, <3>3, PauseKeeps DEF IInv
      <4>2. QED
        BY <4>1
    <3>4. QED
      BY <1>7, <3>1, <3>2, <3>3 DEF ReadAnswer
  <2>3. TypeOK'
    BY <1>0, <1>7, <2>2 DEF ReadAnswer, Goto, TypeOK
  <2>4. HasRow' /\ OwnRow' /\ LooksAtRow'
    <3>1. Follows
      BY <1>0, <1>7 DEF Follows, ReadAnswer, Goto
    <3>2. QED
      BY <3>1, <2>2, FollowsKeeps DEF IInv
  <2>5. QED
    BY <2>2, <2>3, <2>4 DEF IInv, Kept
<1>8. ASSUME NEW p \in Proc, PageSends(p)
      PROVE  IInv' /\ \A i \in DOMAIN rows : Kept(i)
  <2>1. mine[p] \in DOMAIN rows /\ \E s \in BOOLEAN : Sends(mine[p], s)
    <3>1. mine[p] \in 0..Len(rows) /\ mine[p] # 0
      BY <1>0, <1>8 DEF PageSends
    <3>2. Sends(mine[p], TRUE)
      BY <1>8 DEF PageSends
    <3>3. mine[p] \in DOMAIN rows
      BY <1>0, <3>1
    <3>4. QED
      BY <3>2, <3>3
  <2>2. /\ rows' \in Seq(Row) /\ DOMAIN rows' = DOMAIN rows /\ Len(rows') = Len(rows)
        /\ \A i \in DOMAIN rows : /\ rows'[i].job = rows[i].job
                                  /\ rows'[i].state = rows[i].state
                                  /\ rows'[i].made = rows[i].made
    BY <1>0, <2>1, SendKept
  <2>3. TypeOK'
    BY <1>0, <1>8, <2>2 DEF PageSends, Goto, TypeOK
  <2>4. HasRow' /\ OwnRow' /\ LooksAtRow'
    <3>1. Follows
      BY <1>0, <1>8 DEF Follows, PageSends, Goto
    <3>2. QED
      BY <3>1, <2>2, FollowsKeeps DEF IInv
  <2>5. QED
    BY <2>2, <2>3, <2>4 DEF IInv, Kept
<1>9. ASSUME NEW p \in Proc, Leave(p)
      PROVE  IInv' /\ \A i \in DOMAIN rows : Kept(i)
  <2>1. TypeOK'
    <3>1. mine' = [mine EXCEPT ![p] = 0] /\ UNCHANGED <<rows, paused, job, floor, clock, real, steps>>
      BY <1>9 DEF Leave
    <3>2. mine' \in [Proc -> 0..Len(rows)]
      BY <1>0, <3>1, MineKeeps
    <3>3. pc' = [pc EXCEPT ![p] = "idle"]
      BY <1>9 DEF Leave, Goto
    <3>4. QED
      BY <1>0, <3>1, <3>2, <3>3 DEF TypeOK
  <2>2. HasRow' /\ OwnRow' /\ LooksAtRow'
    <3>1. Follows
      BY <1>0, <1>9 DEF Follows, Leave, Goto
    <3>2. QED
      BY <3>1, <1>9, FollowsKeeps DEF IInv, Leave
  <2>3. QED
    BY <1>9, <2>1, <2>2 DEF IInv, Kept, Leave
<1>10. ASSUME NEW p \in Proc, NEW i \in DOMAIN rows, Verify(p, i)
       PROVE  IInv' /\ \A k \in DOMAIN rows : Kept(k)
  <2>1. PICK f \in LastTime : floor' = [floor EXCEPT ![p] = f]
    BY <1>10 DEF Verify
  <2>2. f \in Int
    BY <1>0, LastTimeInt
  <2>3. TypeOK'
    <3>1. pc' = [pc EXCEPT ![p] = "verifying"] /\ mine' = [mine EXCEPT ![p] = i]
          /\ UNCHANGED <<rows, paused, job, clock, real, steps>>
      BY <1>10 DEF Verify, Goto
    <3>2. i \in 0..Len(rows)
      BY <1>0, <1>10
    <3>3. mine' \in [Proc -> 0..Len(rows)]
      BY <1>0, <3>1, <3>2, MineKeeps
    <3>4. floor' \in [Proc -> Int]
      BY <1>0, <2>1, <2>2
    <3>5. QED
      BY <1>0, <3>1, <3>3, <3>4 DEF TypeOK
  <2>4. HasRow' /\ OwnRow' /\ LooksAtRow'
    BY <1>0, <1>10 DEF IInv, HasRow, OwnRow, LooksAtRow, Verify, Goto
  <2>5. QED
    BY <1>10, <2>3, <2>4 DEF IInv, Kept, Verify
<1>11. ASSUME NEW p \in Proc, Verified(p)
       PROVE  IInv' /\ \A i \in DOMAIN rows : Kept(i)
  <2>1. mine[p] \in DOMAIN rows
    BY <1>11 DEF Verified, IInv, LooksAtRow
  <2>2. SiteOf[rows[mine[p]].job] \in Site
    BY <1>a, <2>1 DEF LedgerAssumption, Row
  <2>3. /\ rows' \in Seq(Row) /\ DOMAIN rows' = DOMAIN rows /\ Len(rows') = Len(rows)
        /\ \A i \in DOMAIN rows : /\ rows'[i].job = rows[i].job
                                  /\ rows'[i].made = rows[i].made
                                  /\ rows[i].state # "gone" => rows'[i].state # "gone"
                                  /\ Closed(rows[i]) => rows'[i].state = rows[i].state
        /\ floor' \in [Proc -> Int]
        /\ paused' \subseteq Site
    <3>1. CASE Confirm(mine[p]) /\ UNCHANGED <<paused, floor>>
      BY <1>0, <2>1, <3>1, ConfirmKeeps
    <3>2. CASE UNCHANGED <<rows, paused, floor>>
      BY <1>0, <3>2 DEF Closed
    <3>3. CASE PauseSite(p, SiteOf[rows[mine[p]].job])
      <4>1. /\ rows' \in Seq(Row) /\ DOMAIN rows' = DOMAIN rows /\ Len(rows') = Len(rows)
            /\ \A i \in DOMAIN rows : /\ rows'[i].job = rows[i].job
                                      /\ rows'[i].state = rows[i].state
                                      /\ rows'[i].made = rows[i].made
            /\ floor' \in [Proc -> Int]
            /\ paused' \subseteq Site
        BY <2>2, <3>3, PauseKeeps DEF IInv
      <4>2. QED
        BY <4>1
    <3>4. QED
      BY <1>11, <3>1, <3>2, <3>3 DEF Verified
  <2>4. TypeOK'
    <3>1. /\ pc' = [pc EXCEPT ![p] = "idle"]
          /\ mine' = [mine EXCEPT ![p] = 0]
          /\ UNCHANGED <<job, clock, real, steps>>
      BY <1>11 DEF Verified, Goto
    <3>2. mine' \in [Proc -> 0..Len(rows')]
      BY <1>0, <2>3, <3>1, MineKeeps
    <3>3. QED
      BY <1>0, <2>3, <3>1, <3>2 DEF TypeOK
  <2>5. HasRow' /\ OwnRow' /\ LooksAtRow'
    <3>1. Follows
      BY <1>0, <1>11 DEF Follows, Verified, Goto
    <3>2. QED
      BY <3>1, <2>3, FollowsKeeps DEF IInv
  <2>6. QED
    BY <2>3, <2>4, <2>5 DEF IInv, Kept
<1>12. ASSUME NEW i \in DOMAIN rows, Forget(i)
       PROVE  IInv' /\ \A k \in DOMAIN rows : Kept(k)
  <2>1. /\ rows' \in Seq(Row) /\ DOMAIN rows' = DOMAIN rows /\ Len(rows') = Len(rows)
        /\ \A k \in DOMAIN rows : k # i => rows'[k] = rows[k]
        /\ rows'[i] = [rows[i] EXCEPT !.state = "failed"]
    BY <1>0, <1>12, StateKeeps DEF Forget, States
  <2>2. /\ rows'[i].job = rows[i].job /\ rows'[i].made = rows[i].made
        /\ rows'[i].state = "failed"
    BY <1>a, <2>1 DEF Row
  <2>3. TypeOK'
    BY <1>0, <1>12, <2>1 DEF Forget, TypeOK
  <2>4. HasRow' /\ OwnRow' /\ LooksAtRow'
    <3>1. Follows
      BY <1>0, <1>12 DEF Follows, Forget
    <3>2. QED
      BY <3>1, <2>1, <2>2, FollowsKeeps DEF IInv
  <2>5. \A k \in DOMAIN rows : Kept(k)
    BY <1>12, <2>1, <2>2 DEF Kept, Closed, Forget
  <2>6. QED
    BY <2>3, <2>4, <2>5 DEF IInv
<1>13. ASSUME \/ \E s \in Site : ResumeSite(s)
              \/ Tick
              \/ SetClock
              \/ UNCHANGED vars
       PROVE  IInv' /\ \A i \in DOMAIN rows : Kept(i)
  <2>1. UNCHANGED <<rows, pc, job, mine, floor>>
    BY <1>13 DEF ResumeSite, Tick, SetClock, vars
  <2>2. paused' \subseteq Site /\ clock' \in Int /\ real' \in Nat /\ steps' \in Nat
    <3>1. ASSUME NEW s \in Site, ResumeSite(s)
          PROVE  paused' \subseteq Site /\ UNCHANGED <<clock, real, steps>>
      BY <1>0, <3>1 DEF ResumeSite
    <3>2. CASE Tick
      BY <1>0, <3>2 DEF Tick
    <3>3. CASE SetClock
      BY <1>0, <3>3 DEF SetClock
    <3>4. CASE UNCHANGED vars
      BY <1>0, <3>4 DEF vars
    <3>5. QED
      BY <1>0, <1>13, <3>1, <3>2, <3>3, <3>4
  <2>3. TypeOK'
    BY <1>0, <2>1, <2>2 DEF TypeOK
  <2>4. HasRow' /\ OwnRow' /\ LooksAtRow'
    BY <2>1 DEF IInv, HasRow, OwnRow, LooksAtRow
  <2>5. QED
    BY <2>1, <2>3, <2>4 DEF IInv, Kept
<1>14. QED
  BY <1>1, <1>2, <1>3, <1>4, <1>5, <1>6, <1>7, <1>8, <1>9, <1>10, <1>11, <1>12, <1>13 DEF Next

(* The type invariant.                                                         *)
THEOREM Typed == ASSUME LedgerAssumption PROVE Spec => []TypeOK
<1>1. IInv /\ [Next]_vars => IInv'
  BY Step
<1>2. IInv => TypeOK
  BY DEF IInv
<1>3. QED
  BY IInvInit, <1>1, <1>2, PTL DEF Spec

(* A row that was closed, by the user or by the run that wrote it, stays       *)
(* closed, whatever the clock and the pages do.                                *)
THEOREM ClosedKept == ASSUME LedgerAssumption PROVE Spec => ClosedStaysClosed
<1>1. IInv /\ [Next]_vars => IInv'
  BY Step
<1>2. IInv /\ [Next]_vars =>
        [\A i \in DOMAIN rows : rows[i].state \in {"failed", "gone"}
                                 => rows'[i].state = rows[i].state]_vars
  BY Step DEF Kept, Closed
<1>3. QED
  BY IInvInit, <1>1, <1>2, PTL DEF Spec, ClosedStaysClosed

-----------------------------------------------------------------------------
(* Nothing is sent unrecorded, where pages submit themselves only while filled:*)
(* the row is taken back only by the process it belongs to, after the last     *)
(* step that may send, and only if nothing was sent.                           *)

LEMMA RecordedStep ==
  ASSUME LedgerAssumption, IInv, SentIsRecorded, [Next]_vars
  PROVE  SentIsRecorded'
<1>0. /\ rows \in Seq(Row) /\ DOMAIN rows = 1..Len(rows) /\ Len(rows) \in Nat
      /\ job \in [Proc -> Job] /\ floor \in [Proc -> Int] /\ clock \in Int /\ real \in Nat
  BY DEF IInv, TypeOK
<1>a. \A i \in DOMAIN rows : rows[i] \in Row
  BY <1>0
<1>b. \A i \in DOMAIN rows : rows'[i].job = rows[i].job
  BY Step DEF Kept
<1>1. ASSUME NEW p \in Proc, NEW j \in Job, Start(p, j)
      PROVE  SentIsRecorded'
  <2>1. PICK f \in LastTime : rows' = RowsAt(f)
    BY <1>1 DEF Start
  <2>2. f \in Int
    BY <1>0, LastTimeInt
  <2>3. /\ DOMAIN RowsAt(f) = DOMAIN rows
        /\ \A i \in DOMAIN rows : /\ RowsAt(f)[i].state = rows[i].state
                                  /\ RowsAt(f)[i].sent = rows[i].sent
    BY <1>0, <2>2, RepairKeeps
  <2>4. QED
    BY <1>b, <2>1, <2>3 DEF SentIsRecorded
<1>2. ASSUME NEW p \in Proc, NEW s \in Site, PauseSite(p, s)
      PROVE  SentIsRecorded'
  <2>1. /\ DOMAIN rows' = DOMAIN rows
        /\ \A i \in DOMAIN rows : /\ rows'[i].state = rows[i].state
                                  /\ rows'[i].sent = rows[i].sent
    BY <1>2, PauseKeeps DEF IInv
  <2>2. QED
    BY <1>b, <2>1 DEF SentIsRecorded
<1>3. ASSUME NEW i \in DOMAIN rows, Confirm(i)
      PROVE  SentIsRecorded'
  <2>1. /\ DOMAIN rows' = DOMAIN rows
        /\ \A k \in DOMAIN rows : /\ rows'[k].sent = rows[k].sent
                                  /\ rows[k].state # "gone" => rows'[k].state # "gone"
    BY <1>0, <1>3, ConfirmKeeps
  <2>2. QED
    BY <1>b, <2>1 DEF SentIsRecorded
<1>4. ASSUME UNCHANGED rows
      PROVE  SentIsRecorded'
  BY <1>b, <1>4 DEF SentIsRecorded
<1>5. ASSUME NEW p \in Proc, TurnBack(p)
      PROVE  SentIsRecorded'
  <2>1. SiteOf[job[p]] \in Site
    BY <1>0 DEF LedgerAssumption
  <2>2. QED
    BY <1>2, <1>4, <1>5, <2>1 DEF TurnBack
<1>6. ASSUME NEW p \in Proc, Intend(p)
      PROVE  SentIsRecorded'
  <2>1. /\ RowsAt(floor[p]) \in Seq(Row) /\ Len(RowsAt(floor[p])) = Len(rows)
        /\ DOMAIN RowsAt(floor[p]) = DOMAIN rows
        /\ \A i \in DOMAIN rows : /\ RowsAt(floor[p])[i].state = rows[i].state
                                  /\ RowsAt(floor[p])[i].sent = rows[i].sent
        /\ Now(floor[p]) \in Int
    BY <1>0, RepairKeeps
  <2> DEFINE new == [job |-> job[p], state |-> "intended", at |-> Now(floor[p]),
                     made |-> real, sent |-> FALSE]
  <2>2. new \in Row /\ ~new.sent
    BY <1>0, <2>1 DEF Row, States
  <2>3. UNCHANGED rows \/ rows' = Append(RowsAt(floor[p]), new)
    BY <1>6 DEF Intend
  <2> HIDE DEF new
  <2>4. CASE rows' = Append(RowsAt(floor[p]), new)
    <3>1. /\ DOMAIN rows' = 1..(Len(rows) + 1)
          /\ rows'[Len(rows) + 1] = new
          /\ \A i \in DOMAIN rows : rows'[i] = RowsAt(floor[p])[i]
      <4>1. RowsAt(floor[p]) \in Seq(Row) /\ Len(RowsAt(floor[p])) = Len(rows)
        BY <2>1
      <4>2. QED
        BY <1>0, <2>2, <2>4, <4>1, AppendKeeps
    <3>2. \A i \in DOMAIN rows' : i = Len(rows) + 1 \/ i \in DOMAIN rows
      BY <1>0, <3>1, NewIndex
    <3>3. QED
      BY <1>b, <2>1, <2>2, <3>1, <3>2 DEF SentIsRecorded
  <2>5. QED
    BY <1>4, <2>3, <2>4
<1>7. ASSUME NEW p \in Proc, Armed(p), NEW s \in BOOLEAN, Sends(mine[p], s)
      PROVE  SentIsRecorded'
  <2>1. mine[p] \in DOMAIN rows /\ rows[mine[p]].state # "gone"
    BY <1>7 DEF IInv, HasRow
  <2>2. /\ DOMAIN rows' = DOMAIN rows
        /\ \A k \in DOMAIN rows : k # mine[p] => rows'[k] = rows[k]
    BY <1>0, <1>7, <2>1, SendKeeps
  <2>3. rows'[mine[p]].state = rows[mine[p]].state
    BY <1>0, <1>7, <2>1, SendKept
  <2>4. QED
    BY <1>b, <2>1, <2>2, <2>3 DEF SentIsRecorded
<1>8. ASSUME NEW p \in Proc, GiveUp(p)
      PROVE  SentIsRecorded'
  <2>1. mine[p] \in DOMAIN rows
    BY <1>8 DEF GiveUp, IInv, HasRow, Armed
  <2>2. CASE ~rows[mine[p]].sent /\ SetState(mine[p], "gone")
    <3>1. /\ DOMAIN rows' = DOMAIN rows
          /\ \A k \in DOMAIN rows : k # mine[p] => rows'[k] = rows[k]
          /\ rows'[mine[p]] = [rows[mine[p]] EXCEPT !.state = "gone"]
      BY <1>0, <2>1, <2>2, StateKeeps DEF States
    <3>2. rows'[mine[p]].sent = rows[mine[p]].sent
      BY <1>a, <2>1, <3>1 DEF Row
    <3>3. QED
      BY <1>b, <2>2, <3>1, <3>2 DEF SentIsRecorded
  <2>3. QED
    BY <1>4, <1>8, <2>2 DEF GiveUp
<1>9. ASSUME NEW i \in DOMAIN rows, Forget(i)
      PROVE  SentIsRecorded'
  <2>1. /\ DOMAIN rows' = DOMAIN rows
        /\ \A k \in DOMAIN rows : k # i => rows'[k] = rows[k]
        /\ rows'[i] = [rows[i] EXCEPT !.state = "failed"]
    BY <1>0, <1>9, StateKeeps DEF Forget, States
  <2>2. rows'[i].state = "failed"
    BY <1>a, <2>1 DEF Row
  <2>3. QED
    BY <1>b, <2>1, <2>2 DEF SentIsRecorded
<1>10. ASSUME NEW p \in Proc, ReadAnswer(p)
       PROVE  SentIsRecorded'
  <2>1. mine[p] \in DOMAIN rows /\ SiteOf[job[p]] \in Site
    BY <1>0, <1>10 DEF ReadAnswer, IInv, HasRow, Armed, LedgerAssumption
  <2>2. QED
    BY <1>2, <1>3, <1>4, <1>10, <2>1 DEF ReadAnswer
<1>11. ASSUME NEW p \in Proc, Verified(p)
       PROVE  SentIsRecorded'
  <2>1. mine[p] \in DOMAIN rows
    BY <1>11 DEF Verified, IInv, LooksAtRow
  <2>2. SiteOf[rows[mine[p]].job] \in Site
    BY <1>a, <2>1 DEF LedgerAssumption, Row
  <2>3. QED
    BY <1>2, <1>3, <1>4, <1>11, <2>1, <2>2 DEF Verified
<1>12. ASSUME NEW p \in Proc, Fill(p) \/ Click(p)
       PROVE  SentIsRecorded'
  <2>1. Armed(p) /\ \E s \in BOOLEAN : Sends(mine[p], s)
    BY <1>12 DEF Fill, Click, Armed
  <2>2. QED
    BY <1>7, <2>1
<1>13. ASSUME NEW p \in Proc, PageSends(p)
       PROVE  SentIsRecorded'
  <2>1. mine[p] \in 0..Len(rows) /\ mine[p] # 0 /\ Sends(mine[p], TRUE)
        /\ rows[mine[p]].job \in TimerPages
    BY <1>13 DEF PageSends, IInv, TypeOK
  <2>2. mine[p] \in DOMAIN rows
    BY <1>0, <2>1
  <2>3. /\ DOMAIN rows' = DOMAIN rows
        /\ \A k \in DOMAIN rows : k # mine[p] => rows'[k] = rows[k]
    BY <1>0, <2>1, <2>2, SendKeeps
  <2>4. QED
    BY <1>b, <2>1, <2>3 DEF SentIsRecorded
<1>14. ASSUME \/ \E p \in Proc : Leave(p)
              \/ \E p \in Proc, i \in DOMAIN rows : Verify(p, i)
              \/ \E s \in Site : ResumeSite(s)
              \/ Tick
              \/ SetClock
              \/ UNCHANGED vars
       PROVE  SentIsRecorded'
  BY <1>4, <1>14 DEF Leave, Verify, ResumeSite, Tick, SetClock, vars
<1>15. QED
  BY <1>1, <1>5, <1>6, <1>8, <1>9, <1>10, <1>11, <1>12, <1>13, <1>14 DEF Next

(* Every application that left the browser has a row, for as long as the table *)
(* is kept, unless its page submits itself at any time.                        *)
THEOREM SentRecorded ==
  ASSUME LedgerAssumption
  PROVE  Spec => []SentIsRecorded
<1>1. Init => SentIsRecorded
  BY DEF Init, SentIsRecorded
<1>2. IInv /\ SentIsRecorded /\ [Next]_vars => IInv' /\ SentIsRecorded'
  BY Step, RecordedStep
<1>3. QED
  BY IInvInit, <1>1, <1>2, PTL DEF Spec

-----------------------------------------------------------------------------
(* Time.  Until the machine's clock is set back it is the real time, no row is *)
(* ever repaired, and what intend compares with its windows is what was        *)
(* written.  From then on it never says more time passed than did.             *)

TrueTime == /\ clock = real
            /\ \A i \in DOMAIN rows : rows[i].at = rows[i].made /\ rows[i].made <= real
            /\ \A p \in Proc : floor[p] <= clock

TimeLost == \A i \in DOMAIN rows : /\ clock - rows[i].at <= real - rows[i].made
                                   /\ rows[i].made <= real

TimeKept == (steps = 0 => TrueTime) /\ TimeLost

(* What a clock that is wrong by l says of a window and of a gap.               *)
LEMMA WindowsNarrow ==
  \A a, now, m, then, span, l, l2 \in Int :
    l <= l2 /\ now - a <= then - m + l =>
      /\ then - m <= span - l2 => a >= now - span
      /\ now - a >= span => then - m >= span - l2
OBVIOUS

(* What a row that is written was decided on: what the table says of the time  *)
(* since a row is no more, but for what the clock may be wrong by, than the    *)
(* time that passed.                                                           *)
Decided(p, rs, now, lead) ==
  /\ MayStart(job[p], rs, now)
  /\ DOMAIN rs = DOMAIN rows /\ now \in Int
  /\ \A i \in DOMAIN rows : /\ rs[i].state = rows[i].state /\ rs[i].job = rows[i].job
                            /\ rs[i].at \in Int
                            /\ now - rs[i].at <= real - rows[i].made + lead
  /\ DOMAIN rows' = 1..(Len(rows) + 1)
  /\ rows'[Len(rows) + 1].made = real
  /\ rows'[Len(rows) + 1].job = job[p]

(* No row, or one that was decided on so.                                      *)
DecidedStep(lead) == \/ DOMAIN rows' = DOMAIN rows
                     \/ \E p \in Proc, rs \in Seq(Row), now \in Int : Decided(p, rs, now, lead)

LEMMA NoRepair ==
  ASSUME LedgerAssumption, clock \in Int, NEW f \in Int, f <= clock
  PROVE  RowsAt(f) = rows /\ Now(f) = clock
<1>1. ~TooFarAhead(f)
  BY DEF TooFarAhead, LedgerAssumption
<1>2. QED
  BY <1>1 DEF RowsAt, Now

LEMMA TimeStep ==
  ASSUME LedgerAssumption, steps' = 0, IInv, TrueTime, [Next]_vars
  PROVE  /\ TrueTime'
         /\ \/ DOMAIN rows' = DOMAIN rows
            \/ \E p \in Proc : /\ MayStart(job[p], rows, clock)
                               /\ DOMAIN rows' = 1..(Len(rows) + 1)
                               /\ rows'[Len(rows) + 1].job = job[p]
                               /\ rows'[Len(rows) + 1].made = clock
<1>0. /\ rows \in Seq(Row) /\ DOMAIN rows = 1..Len(rows) /\ Len(rows) \in Nat
      /\ job \in [Proc -> Job] /\ floor \in [Proc -> Int] /\ clock \in Int /\ real \in Nat
  BY DEF IInv, TypeOK
<1>a. \A i \in DOMAIN rows : rows[i] \in Row /\ rows[i].at \in Int /\ rows[i].made \in Nat
  <2>1. \A i \in DOMAIN rows : rows[i] \in Row
    BY <1>0
  <2>2. QED
    BY <2>1 DEF Row
<1>b. \A f \in LastTime : f \in Int /\ f <= clock
  <2>1. \A t \in Times : t <= clock
    <3>1. \A i \in DOMAIN rows : rows[i].at <= clock
      BY <1>a DEF TrueTime
    <3>2. 0 <= clock
      BY <1>0 DEF TrueTime
    <3>3. QED
      BY <3>1, <3>2 DEF Times
  <2>2. \A f \in LastTime : f \in Int
    BY <1>0, LastTimeInt
  <2>3. QED
    BY <2>1, <2>2 DEF LastTime
<1>c. \A p \in Proc : RowsAt(floor[p]) = rows /\ Now(floor[p]) = clock
  BY <1>0, NoRepair DEF TrueTime
<1> DEFINE SameTimes == /\ DOMAIN rows' = DOMAIN rows
                        /\ \A i \in DOMAIN rows : /\ rows'[i].at = rows[i].at
                                                  /\ rows'[i].made = rows[i].made
           LowFloors == \A p \in Proc : floor'[p] \in Int /\ floor'[p] <= clock
<1>d. ASSUME SameTimes, LowFloors, UNCHANGED <<clock, real>>
      PROVE  TrueTime' /\ DOMAIN rows' = DOMAIN rows
  BY <1>d DEF TrueTime
<1>e. ASSUME UNCHANGED rows
      PROVE  SameTimes
  BY <1>e
<1>f. ASSUME UNCHANGED floor
      PROVE  LowFloors
  BY <1>0, <1>f DEF TrueTime
<1>g. ASSUME NEW p \in Proc, NEW f \in Int, f <= clock, floor' = [floor EXCEPT ![p] = f]
      PROVE  LowFloors
  BY <1>0, <1>g DEF TrueTime
<1>l. ASSUME NEW p \in Proc, floor' = [floor EXCEPT ![p] = clock]
      PROVE  LowFloors
  <2>1. \A q \in Proc : floor'[q] = floor[q] \/ floor'[q] = clock
    BY <1>0, <1>l
  <2>2. \A q \in Proc : floor[q] \in Int /\ floor[q] <= clock
    BY <1>0 DEF TrueTime
  <2>3. clock \in Int
    BY <1>0
  <2>4. clock <= clock
    BY <2>3
  <2>5. QED
    BY <2>1, <2>2, <2>3, <2>4
<1>h. ASSUME NEW i \in DOMAIN rows, NEW s \in States, SetState(i, s)
      PROVE  SameTimes
  <2>1. /\ DOMAIN rows' = DOMAIN rows
        /\ \A k \in DOMAIN rows : k # i => rows'[k] = rows[k]
        /\ rows'[i] = [rows[i] EXCEPT !.state = s]
    BY <1>0, <1>h, StateKeeps
  <2>2. rows'[i].at = rows[i].at /\ rows'[i].made = rows[i].made
    BY <1>a, <2>1 DEF Row
  <2>3. QED
    BY <2>1, <2>2
<1>i. ASSUME NEW p \in Proc, NEW s \in Site, PauseSite(p, s)
      PROVE  SameTimes /\ LowFloors
  <2>1. UNCHANGED rows /\ floor' = [floor EXCEPT ![p] = clock]
    BY <1>c, <1>i DEF PauseSite
  <2>2. QED
    BY <1>e, <1>l, <2>1
<1>j. ASSUME NEW i \in DOMAIN rows, Confirm(i)
      PROVE  SameTimes
  BY <1>0, <1>j, ConfirmKeeps
<1>k. ASSUME NEW i \in DOMAIN rows, \E s \in BOOLEAN : Sends(i, s)
      PROVE  SameTimes
  BY <1>0, <1>k, SendKept
<1> HIDE DEF SameTimes, LowFloors
<1>1. ASSUME NEW p \in Proc, NEW j \in Job, Start(p, j)
      PROVE  TrueTime' /\ DOMAIN rows' = DOMAIN rows
  <2>1. PICK f \in LastTime : rows' = RowsAt(f) /\ floor' = [floor EXCEPT ![p] = Now(f)]
    BY <1>1 DEF Start
  <2>2. RowsAt(f) = rows /\ Now(f) = clock
    BY <1>0, <1>b, NoRepair
  <2>3. SameTimes /\ LowFloors
    BY <1>e, <1>l, <2>1, <2>2
  <2>4. QED
    BY <1>1, <1>d, <2>3 DEF Start
<1>2. ASSUME NEW p \in Proc, TurnBack(p)
      PROVE  TrueTime' /\ DOMAIN rows' = DOMAIN rows
  <2>1. SiteOf[job[p]] \in Site
    BY <1>0 DEF LedgerAssumption
  <2>2. SameTimes /\ LowFloors
    BY <1>2, <1>e, <1>f, <1>i, <2>1 DEF TurnBack
  <2>3. QED
    BY <1>2, <1>d, <2>2 DEF TurnBack
<1>3. ASSUME NEW p \in Proc, Intend(p)
      PROVE  \/ TrueTime' /\ DOMAIN rows' = DOMAIN rows
             \/ /\ TrueTime'
                /\ MayStart(job[p], rows, clock)
                /\ DOMAIN rows' = 1..(Len(rows) + 1)
                /\ rows'[Len(rows) + 1].job = job[p]
                /\ rows'[Len(rows) + 1].made = clock
  <2> DEFINE new == [job |-> job[p], state |-> "intended", at |-> clock, made |-> real,
                     sent |-> FALSE]
  <2>1. /\ \/ UNCHANGED rows
           \/ MayStart(job[p], rows, clock) /\ rows' = Append(rows, new)
        /\ floor' = [floor EXCEPT ![p] = clock]
        /\ UNCHANGED <<clock, real>>
    BY <1>3, <1>c DEF Intend
  <2>2. new \in Row /\ new.job = job[p] /\ new.at = real /\ new.made = real
    BY <1>0 DEF Row, States, TrueTime
  <2> HIDE DEF new
  <2>3. LowFloors
    BY <1>l, <2>1
  <2>4. CASE UNCHANGED rows
    BY <1>d, <1>e, <2>1, <2>3, <2>4
  <2>5. CASE MayStart(job[p], rows, clock) /\ rows' = Append(rows, new)
    <3>1. /\ DOMAIN rows' = 1..(Len(rows) + 1)
          /\ rows'[Len(rows) + 1] = new
          /\ \A i \in DOMAIN rows : rows'[i] = rows[i]
      BY <1>0, <2>2, <2>5, AppendKeeps
    <3>2. \A i \in DOMAIN rows' : i = Len(rows) + 1 \/ i \in DOMAIN rows
      BY <1>0, <3>1, NewIndex
    <3>3. \A i \in DOMAIN rows' : rows'[i].at = rows'[i].made /\ rows'[i].made <= real
      <4>1. rows'[Len(rows) + 1].at = real /\ rows'[Len(rows) + 1].made = real /\ real <= real
        BY <1>0, <2>2, <3>1
      <4>2. \A i \in DOMAIN rows : rows'[i].at = rows'[i].made /\ rows'[i].made <= real
        BY <3>1 DEF TrueTime
      <4>3. QED
        BY <3>2, <4>1, <4>2
    <3>4. TrueTime'
      BY <2>1, <2>3, <3>3 DEF TrueTime, LowFloors
    <3>5. QED
      BY <2>2, <2>5, <3>1, <3>4 DEF TrueTime
  <2>6. QED
    BY <2>1, <2>4, <2>5
<1>4. ASSUME NEW p \in Proc, Fill(p) \/ Click(p)
      PROVE  TrueTime' /\ DOMAIN rows' = DOMAIN rows
  <2>1. mine[p] \in DOMAIN rows /\ \E s \in BOOLEAN : Sends(mine[p], s)
    BY <1>4 DEF Fill, Click, IInv, HasRow, Armed
  <2>2. SameTimes /\ LowFloors
    BY <1>4, <1>f, <1>k, <2>1 DEF Fill, Click
  <2>3. QED
    BY <1>4, <1>d, <2>2 DEF Fill, Click
<1>5. ASSUME NEW p \in Proc, GiveUp(p)
      PROVE  TrueTime' /\ DOMAIN rows' = DOMAIN rows
  <2>1. mine[p] \in DOMAIN rows
    BY <1>5 DEF GiveUp, IInv, HasRow, Armed
  <2>2. SameTimes /\ LowFloors
    BY <1>5, <1>e, <1>f, <1>h, <2>1 DEF GiveUp, States
  <2>3. QED
    BY <1>5, <1>d, <2>2 DEF GiveUp
<1>6. ASSUME NEW p \in Proc, ReadAnswer(p)
      PROVE  TrueTime' /\ DOMAIN rows' = DOMAIN rows
  <2>1. mine[p] \in DOMAIN rows /\ SiteOf[job[p]] \in Site
    BY <1>0, <1>6 DEF ReadAnswer, IInv, HasRow, Armed, LedgerAssumption
  <2>2. SameTimes /\ LowFloors
    BY <1>6, <1>e, <1>f, <1>i, <1>j, <2>1 DEF ReadAnswer
  <2>3. QED
    BY <1>6, <1>d, <2>2 DEF ReadAnswer
<1>7. ASSUME NEW p \in Proc, PageSends(p)
      PROVE  TrueTime' /\ DOMAIN rows' = DOMAIN rows
  <2>1. mine[p] \in 0..Len(rows) /\ mine[p] # 0
    BY <1>7 DEF PageSends, IInv, TypeOK
  <2>2. mine[p] \in DOMAIN rows
    BY <1>0, <2>1
  <2>3. Sends(mine[p], TRUE) /\ UNCHANGED <<floor, clock, real>>
    BY <1>7 DEF PageSends
  <2>4. SameTimes /\ LowFloors
    BY <1>f, <1>k, <2>2, <2>3
  <2>5. QED
    BY <1>d, <2>3, <2>4
<1>8. ASSUME NEW p \in Proc, NEW i \in DOMAIN rows, Verify(p, i)
      PROVE  TrueTime' /\ DOMAIN rows' = DOMAIN rows
  <2>1. PICK f \in LastTime : floor' = [floor EXCEPT ![p] = f]
    BY <1>8 DEF Verify
  <2>2. SameTimes /\ LowFloors
    BY <1>8, <1>b, <1>e, <1>g, <2>1 DEF Verify
  <2>3. QED
    BY <1>8, <1>d, <2>2 DEF Verify
<1>9. ASSUME NEW p \in Proc, Verified(p)
      PROVE  TrueTime' /\ DOMAIN rows' = DOMAIN rows
  <2>1. mine[p] \in DOMAIN rows
    BY <1>9 DEF Verified, IInv, LooksAtRow
  <2>2. SiteOf[rows[mine[p]].job] \in Site
    BY <1>a, <2>1 DEF LedgerAssumption, Row
  <2>3. SameTimes /\ LowFloors
    BY <1>9, <1>e, <1>f, <1>i, <1>j, <2>1, <2>2 DEF Verified
  <2>4. QED
    BY <1>9, <1>d, <2>3 DEF Verified
<1>10. ASSUME NEW i \in DOMAIN rows, Forget(i)
       PROVE  TrueTime' /\ DOMAIN rows' = DOMAIN rows
  <2>1. SameTimes /\ LowFloors
    BY <1>10, <1>f, <1>h DEF Forget, States
  <2>2. QED
    BY <1>10, <1>d, <2>1 DEF Forget
<1>11. ASSUME \/ \E p \in Proc : Leave(p)
              \/ \E s \in Site : ResumeSite(s)
              \/ UNCHANGED vars
       PROVE  TrueTime' /\ DOMAIN rows' = DOMAIN rows
  BY <1>11, <1>d, <1>e, <1>f DEF Leave, ResumeSite, vars
<1>12. ASSUME Tick
       PROVE  TrueTime' /\ DOMAIN rows' = DOMAIN rows
  <2>1. clock' = clock + 1 /\ real' = real + 1 /\ UNCHANGED <<rows, floor>>
    BY <1>12 DEF Tick
  <2>2. \A n \in Int : n <= real => n <= real + 1
    BY <1>0
  <2>3. \A p \in Proc : floor[p] \in Int /\ floor[p] <= real /\ clock = real
    BY <1>0 DEF TrueTime
  <2>4. \A i \in DOMAIN rows : rows[i].made \in Int /\ rows[i].made <= real
    BY <1>a DEF TrueTime
  <2>5. QED
    BY <2>1, <2>2, <2>3, <2>4 DEF TrueTime
<1>13. ASSUME SetClock
       PROVE  FALSE
  BY <1>13 DEF SetClock, IInv, TypeOK
<1>14. QED
  BY <1>1, <1>2, <1>3, <1>4, <1>5, <1>6, <1>7, <1>8, <1>9, <1>10, <1>11, <1>12, <1>13 DEF Next

(* While the clock is not reset, a row's time is the time it was written.      *)
LEMMA TrueDecision ==
  ASSUME LedgerAssumption, steps' = 0, IInv, TrueTime, [Next]_vars
  PROVE  TrueTime' /\ DecidedStep(0)
<1>0. rows \in Seq(Row) /\ clock \in Int /\ real \in Nat
  BY DEF IInv, TypeOK
<1>1. \A i \in DOMAIN rows : rows[i].at \in Int /\ rows[i].made \in Nat
  <2>1. \A i \in DOMAIN rows : rows[i] \in Row
    BY <1>0
  <2>2. QED
    BY <2>1 DEF Row
<1>2. ASSUME NEW p \in Proc, MayStart(job[p], rows, clock), DOMAIN rows' = 1..(Len(rows) + 1),
             rows'[Len(rows) + 1].made = clock, rows'[Len(rows) + 1].job = job[p]
      PROVE  Decided(p, rows, clock, 0)
  BY <1>0, <1>1, <1>2 DEF Decided, TrueTime
<1>3. QED
  BY <1>0, <1>2, TimeStep DEF DecidedStep

(* Reading the time loses none, whatever floor it is read with, and says a     *)
(* time from now to the lead on.                                               *)
LEMMA RepairLosesTime ==
  ASSUME LedgerAssumption, rows \in Seq(Row), clock \in Int, real \in Nat, TimeLost,
         NEW f \in Int
  PROVE  /\ \A i \in DOMAIN rows : /\ RowsAt(f)[i].at \in Int
                                   /\ clock - RowsAt(f)[i].at <= real - rows[i].made
                                   /\ Now(f) - RowsAt(f)[i].at <= real - rows[i].made + MaxLead
         /\ Now(f) \in Int /\ Now(f) >= clock
<1>0. MaxLead \in Nat
  BY DEF LedgerAssumption
<1>1. Now(f) \in Int /\ clock <= Now(f) /\ Now(f) <= clock + MaxLead
  BY <1>0 DEF Now, TooFarAhead
<1>2. ASSUME NEW i \in DOMAIN rows
      PROVE  RowsAt(f)[i].at \in Int /\ clock - RowsAt(f)[i].at <= real - rows[i].made
  <2>1. rows[i] \in Row
    OBVIOUS
  <2>2. rows[i].at \in Int /\ rows[i].made \in Nat
    BY <2>1 DEF Row
  <2>3. RowsAt(f)[i] = rows[i] \/ RowsAt(f)[i] = [rows[i] EXCEPT !.at = clock]
    BY DEF RowsAt
  <2>4. RowsAt(f)[i].at = rows[i].at \/ RowsAt(f)[i].at = clock
    BY <2>1, <2>3 DEF Row
  <2>5. clock - rows[i].at <= real - rows[i].made /\ rows[i].made <= real
    BY DEF TimeLost
  <2>6. rows[i].made \in Int /\ real \in Int
    BY <2>2
  <2>7. clock - clock <= real - rows[i].made
    BY <2>5, <2>6
  <2>8. QED
    BY <2>2, <2>4, <2>5, <2>7
<1>3. ASSUME NEW i \in DOMAIN rows
      PROVE  Now(f) - RowsAt(f)[i].at <= real - rows[i].made + MaxLead
  <2>1. rows[i] \in Row
    OBVIOUS
  <2>2. rows[i].made \in Nat
    BY <2>1 DEF Row
  <2>3. rows[i].made \in Int /\ real \in Int /\ MaxLead \in Int
    BY <1>0, <2>2
  <2>4. QED
    <3>1. PICK a \in Int, m \in Int, n \in Int :
            a = RowsAt(f)[i].at /\ m = rows[i].made /\ n = Now(f)
      BY <1>1, <1>2, <2>3
    <3>2. PICK c \in Int, t \in Int, lead \in Int : c = clock /\ t = real /\ lead = MaxLead
      BY <2>3
    <3>3. c - a <= t - m /\ n <= c + lead
      BY <1>1, <1>2, <3>1, <3>2
    <3>4. n - a <= t - m + lead
      BY <3>3
    <3>5. QED
      BY <3>1, <3>2, <3>4
<1>4. QED
  BY <1>1, <1>2, <1>3

(* A step sets clocks back and rows' times forward, and decides on no less     *)
(* than what the clock lost.                                                   *)
LEMMA LostStep ==
  ASSUME LedgerAssumption, "forward" \notin ClockMoves, IInv, TimeLost, [Next]_vars
  PROVE  TimeLost' /\ DecidedStep(MaxLead)
<1>0. /\ rows \in Seq(Row) /\ DOMAIN rows = 1..Len(rows) /\ Len(rows) \in Nat
      /\ job \in [Proc -> Job] /\ floor \in [Proc -> Int] /\ clock \in Int /\ real \in Nat
      /\ MaxLead \in Nat
  BY DEF IInv, TypeOK, LedgerAssumption
<1>a. \A i \in DOMAIN rows : rows[i] \in Row /\ rows[i].at \in Int /\ rows[i].made \in Nat
  <2>1. \A i \in DOMAIN rows : rows[i] \in Row
    BY <1>0
  <2>2. QED
    BY <2>1 DEF Row
<1> DEFINE Later == /\ DOMAIN rows' = DOMAIN rows
                    /\ \A i \in DOMAIN rows : /\ rows'[i].made = rows[i].made
                                              /\ clock - rows'[i].at <= real - rows[i].made
           Goal == TimeLost' /\ DOMAIN rows' = DOMAIN rows
<1>b. ASSUME Later, UNCHANGED <<clock, real>>
      PROVE  Goal
  BY <1>b DEF TimeLost
<1>c. ASSUME UNCHANGED rows
      PROVE  Later
  BY <1>c DEF TimeLost
<1>d. ASSUME NEW f \in Int, rows' = RowsAt(f)
      PROVE  Later
  <2>1. /\ DOMAIN RowsAt(f) = DOMAIN rows
        /\ \A i \in DOMAIN rows : RowsAt(f)[i].made = rows[i].made
    BY <1>0, RepairKeeps
  <2>2. \A i \in DOMAIN rows : clock - RowsAt(f)[i].at <= real - rows[i].made
    BY <1>0, RepairLosesTime
  <2>3. QED
    BY <1>d, <2>1, <2>2
<1>e. ASSUME /\ DOMAIN rows' = DOMAIN rows
             /\ \A i \in DOMAIN rows : rows'[i].at = rows[i].at /\ rows'[i].made = rows[i].made
      PROVE  Later
  BY <1>e DEF TimeLost
<1>f. ASSUME NEW i \in DOMAIN rows, NEW s \in States, SetState(i, s)
      PROVE  Later
  <2>1. /\ DOMAIN rows' = DOMAIN rows
        /\ \A k \in DOMAIN rows : k # i => rows'[k] = rows[k]
        /\ rows'[i] = [rows[i] EXCEPT !.state = s]
    BY <1>0, <1>f, StateKeeps
  <2>2. rows'[i].at = rows[i].at /\ rows'[i].made = rows[i].made
    BY <1>a, <2>1 DEF Row
  <2>3. QED
    BY <1>e, <2>1, <2>2
<1>g. ASSUME NEW p \in Proc, NEW s \in Site, PauseSite(p, s)
      PROVE  Later
  BY <1>0, <1>d, <1>g DEF PauseSite
<1>h. ASSUME NEW i \in DOMAIN rows, Confirm(i)
      PROVE  Later
  BY <1>0, <1>e, <1>h, ConfirmKeeps
<1>i. ASSUME NEW i \in DOMAIN rows, \E s \in BOOLEAN : Sends(i, s)
      PROVE  Later
  BY <1>0, <1>e, <1>i, SendKept
<1> HIDE DEF Later
<1>1. ASSUME NEW p \in Proc, NEW j \in Job, Start(p, j)
      PROVE  Goal
  <2>1. PICK f \in LastTime : rows' = RowsAt(f)
    BY <1>1 DEF Start
  <2>2. f \in Int
    BY <1>0, LastTimeInt
  <2>3. QED
    BY <1>1, <1>b, <1>d, <2>1, <2>2 DEF Start
<1>2. ASSUME NEW p \in Proc, TurnBack(p)
      PROVE  Goal
  <2>1. SiteOf[job[p]] \in Site
    BY <1>0 DEF LedgerAssumption
  <2>2. Later
    BY <1>2, <1>c, <1>g, <2>1 DEF TurnBack
  <2>3. QED
    BY <1>2, <1>b, <2>2 DEF TurnBack
<1>3. ASSUME NEW p \in Proc, Intend(p)
      PROVE  Goal \/ (TimeLost' /\ \E rs \in Seq(Row), now \in Int : Decided(p, rs, now, MaxLead))
  <2> DEFINE rs == RowsAt(floor[p])
             now == Now(floor[p])
             new == [job |-> job[p], state |-> "intended", at |-> now, made |-> real,
                     sent |-> FALSE]
  <2>1. /\ UNCHANGED rows \/ (MayStart(job[p], rs, now) /\ rows' = Append(rs, new))
        /\ UNCHANGED <<clock, real>>
    BY <1>3 DEF Intend
  <2>2. floor[p] \in Int
    BY <1>0
  <2>3. /\ rs \in Seq(Row) /\ Len(rs) = Len(rows) /\ DOMAIN rs = DOMAIN rows
        /\ \A i \in DOMAIN rows : /\ rs[i].state = rows[i].state /\ rs[i].made = rows[i].made
                                  /\ rs[i].job = rows[i].job
    BY <1>0, <2>2, RepairKeeps
  <2>4. /\ \A i \in DOMAIN rows : /\ rs[i].at \in Int
                                  /\ clock - rs[i].at <= real - rows[i].made
                                  /\ now - rs[i].at <= real - rows[i].made + MaxLead
        /\ now \in Int /\ now >= clock
    BY <1>0, <2>2, RepairLosesTime
  <2>5. new \in Row /\ new.at = now /\ new.made = real /\ new.job = job[p]
    BY <1>0, <2>4 DEF Row, States
  <2> HIDE DEF rs, now, new
  <2>6. CASE UNCHANGED rows
    BY <1>b, <1>c, <2>1, <2>6
  <2>7. CASE MayStart(job[p], rs, now) /\ rows' = Append(rs, new)
    <3>1. /\ DOMAIN rows' = 1..(Len(rows) + 1)
          /\ rows'[Len(rows) + 1] = new
          /\ \A i \in DOMAIN rows : rows'[i] = rs[i]
      BY <1>0, <2>3, <2>5, <2>7, AppendKeeps
    <3>2. \A i \in DOMAIN rows' : i = Len(rows) + 1 \/ i \in DOMAIN rows
      BY <1>0, <3>1, NewIndex
    <3>3. clock - rows'[Len(rows) + 1].at <= real - rows'[Len(rows) + 1].made
          /\ rows'[Len(rows) + 1].made <= real
      BY <1>0, <2>4, <2>5, <3>1
    <3>4. \A i \in DOMAIN rows : /\ clock - rows'[i].at <= real - rows'[i].made
                                 /\ rows'[i].made <= real
      BY <2>3, <2>4, <3>1 DEF TimeLost
    <3>5. TimeLost'
      BY <2>1, <3>2, <3>3, <3>4 DEF TimeLost
    <3>6. Decided(p, rs, now, MaxLead)
      BY <1>0, <2>3, <2>4, <2>5, <2>7, <3>1 DEF Decided
    <3>7. QED
      BY <2>3, <2>4, <3>5, <3>6
  <2>8. QED
    BY <2>1, <2>6, <2>7
<1>4. ASSUME NEW p \in Proc, Fill(p) \/ Click(p)
      PROVE  Goal
  <2>1. mine[p] \in DOMAIN rows /\ \E s \in BOOLEAN : Sends(mine[p], s)
    BY <1>4 DEF Fill, Click, IInv, HasRow, Armed
  <2>2. QED
    BY <1>4, <1>b, <1>i, <2>1 DEF Fill, Click
<1>5. ASSUME NEW p \in Proc, GiveUp(p)
      PROVE  Goal
  <2>1. mine[p] \in DOMAIN rows
    BY <1>5 DEF GiveUp, IInv, HasRow, Armed
  <2>2. Later
    BY <1>5, <1>c, <1>f, <2>1 DEF GiveUp, States
  <2>3. QED
    BY <1>5, <1>b, <2>2 DEF GiveUp
<1>6. ASSUME NEW p \in Proc, ReadAnswer(p)
      PROVE  Goal
  <2>1. mine[p] \in DOMAIN rows /\ SiteOf[job[p]] \in Site
    BY <1>0, <1>6 DEF ReadAnswer, IInv, HasRow, Armed, LedgerAssumption
  <2>2. Later
    BY <1>6, <1>c, <1>g, <1>h, <2>1 DEF ReadAnswer
  <2>3. QED
    BY <1>6, <1>b, <2>2 DEF ReadAnswer
<1>7. ASSUME NEW p \in Proc, PageSends(p)
      PROVE  Goal
  <2>1. mine[p] \in 0..Len(rows) /\ mine[p] # 0
    BY <1>7 DEF PageSends, IInv, TypeOK
  <2>2. mine[p] \in DOMAIN rows
    BY <1>0, <2>1
  <2>3. Sends(mine[p], TRUE) /\ UNCHANGED <<clock, real>>
    BY <1>7 DEF PageSends
  <2>4. QED
    BY <1>b, <1>i, <2>2, <2>3
<1>8. ASSUME NEW p \in Proc, NEW i \in DOMAIN rows, Verify(p, i)
      PROVE  Goal
  BY <1>8, <1>b, <1>c DEF Verify
<1>9. ASSUME NEW p \in Proc, Verified(p)
      PROVE  Goal
  <2>1. mine[p] \in DOMAIN rows
    BY <1>9 DEF Verified, IInv, LooksAtRow
  <2>2. SiteOf[rows[mine[p]].job] \in Site
    BY <1>a, <2>1 DEF LedgerAssumption, Row
  <2>3. Later
    BY <1>9, <1>c, <1>g, <1>h, <2>1, <2>2 DEF Verified
  <2>4. QED
    BY <1>9, <1>b, <2>3 DEF Verified
<1>10. ASSUME NEW i \in DOMAIN rows, Forget(i)
       PROVE  Goal
  <2>1. SetState(i, "failed") /\ "failed" \in States /\ UNCHANGED <<clock, real>>
    BY <1>10 DEF Forget, States
  <2>2. QED
    BY <1>b, <1>f, <2>1
<1>11. CASE Tick
  <2>1. UNCHANGED rows /\ clock' = clock + 1 /\ real' = real + 1
    BY <1>11 DEF Tick
  <2>2. \A i \in DOMAIN rows : clock' - rows[i].at <= real' - rows[i].made /\ rows[i].made <= real'
    <3>1. ASSUME NEW i \in DOMAIN rows
          PROVE  clock' - rows[i].at <= real' - rows[i].made /\ rows[i].made <= real'
      <4>1. rows[i].at \in Int /\ rows[i].made \in Int /\ real \in Int
        BY <1>0, <1>a
      <4>2. clock - rows[i].at <= real - rows[i].made /\ rows[i].made <= real
        BY DEF TimeLost
      <4>3. QED
        <5>1. PICK a \in Int, m \in Int : a = rows[i].at /\ m = rows[i].made
          BY <4>1
        <5>2. clock - a <= real - m /\ m <= real
          BY <4>2, <5>1
        <5>3. (clock + 1) - a <= (real + 1) - m /\ m <= real + 1
          BY <1>0, <4>1, <5>2
        <5>4. QED
          BY <2>1, <5>1, <5>3
    <3>2. QED
      BY <3>1
  <2>3. QED
    BY <2>1, <2>2 DEF TimeLost, DecidedStep
<1>12. CASE SetClock
  <2>1. UNCHANGED <<rows, real>> /\ clock' \in 1..(clock - 1)
    BY <1>0, <1>12 DEF SetClock
  <2>2. \A i \in DOMAIN rows : clock' - rows[i].at <= real - rows[i].made /\ rows[i].made <= real
    <3>1. ASSUME NEW i \in DOMAIN rows
          PROVE  clock' - rows[i].at <= real - rows[i].made /\ rows[i].made <= real
      <4>1. rows[i].at \in Int /\ rows[i].made \in Int /\ real \in Int
        BY <1>0, <1>a
      <4>2. clock - rows[i].at <= real - rows[i].made /\ rows[i].made <= real
        BY DEF TimeLost
      <4>3. clock' \in Int /\ clock' <= clock
        BY <1>0, <2>1
      <4>4. QED
        <5>1. PICK a \in Int, m \in Int, c \in Int : a = rows[i].at /\ m = rows[i].made /\ c = clock'
          BY <4>1, <4>3
        <5>2. clock - a <= real - m /\ m <= real /\ c <= clock
          BY <4>2, <4>3, <5>1
        <5>3. c - a <= real - m
          BY <1>0, <4>1, <5>2
        <5>4. QED
          BY <4>2, <5>1, <5>3
    <3>2. QED
      BY <3>1
  <2>3. QED
    BY <2>1, <2>2 DEF TimeLost, DecidedStep
<1>13. CASE (\E s \in Site : ResumeSite(s)) \/ (\E p \in Proc : Leave(p)) \/ UNCHANGED vars
  <2>1. UNCHANGED <<rows, clock, real>>
    BY <1>13 DEF ResumeSite, Leave, vars
  <2>2. QED
    BY <1>b, <1>c, <2>1 DEF DecidedStep
<1>14. QED
  BY <1>1, <1>2, <1>3, <1>4, <1>5, <1>6, <1>7, <1>8, <1>9, <1>10, <1>11, <1>12, <1>13 DEF Next, DecidedStep

(* The clock is reset in steps that write nothing.                             *)
LEMMA Resets ==
  ASSUME LedgerAssumption, IInv, [Next]_vars
  PROVE  /\ steps \in Nat /\ steps' \in Nat /\ MaxLead \in Nat
         /\ steps' = steps \/ (steps' = steps + 1 /\ UNCHANGED rows)
<1>1. steps' = steps \/ (steps' = steps + 1 /\ UNCHANGED rows)
  BY DEF Next, Start, TurnBack, Intend, Fill, GiveUp, Click, ReadAnswer, PageSends, Leave, Verify,
         Verified, Forget, ResumeSite, Tick, SetClock, vars
<1>2. QED
  BY <1>1 DEF IInv, TypeOK, LedgerAssumption

(* So every row was decided on with no error but the slack there is.           *)
LEMMA TimeKeeps ==
  ASSUME LedgerAssumption, "forward" \notin ClockMoves, IInv, TimeKept, [Next]_vars
  PROVE  TimeKept' /\ DecidedStep(Slack)
<1>0. /\ steps \in Nat /\ steps' \in Nat /\ MaxLead \in Nat
      /\ steps' = steps \/ (steps' = steps + 1 /\ UNCHANGED rows)
  BY Resets
<1>1. TimeLost' /\ DecidedStep(MaxLead)
  BY LostStep DEF TimeKept
<1>2. CASE steps # 0
  BY <1>0, <1>1, <1>2 DEF TimeKept, Slack
<1>3. CASE steps = 0 /\ steps' = 0
  <2>1. TrueTime' /\ DecidedStep(0)
    BY <1>3, TrueDecision DEF TimeKept
  <2>2. QED
    BY <1>1, <1>3, <2>1 DEF TimeKept, Slack
<1>4. CASE steps = 0 /\ steps' # 0
  BY <1>0, <1>1, <1>4 DEF TimeKept, DecidedStep
<1>5. QED
  BY <1>2, <1>3, <1>4

LEMMA TimeInit == ASSUME LedgerAssumption, Init PROVE TimeKept
<1>1. rows = <<>> /\ clock = 1 /\ real = 1 /\ \A p \in Proc : floor[p] = 0
  BY DEF Init
<1>2. DOMAIN rows = {} /\ clock = real /\ \A p \in Proc : floor[p] <= clock
  BY <1>1
<1>3. QED
  BY <1>2 DEF TimeKept, TrueTime, TimeLost

(* What may be lost does not grow less.                                        *)
LEMMA SlackGrows ==
  ASSUME LedgerAssumption, IInv, [Next]_vars
  PROVE  /\ Slack \in Nat /\ Slack' \in Nat
         /\ \E l, m \in Nat : l = Slack /\ m = Slack' /\ l <= m
<1>1. steps \in Nat /\ MaxLead \in Nat /\ (steps' = steps \/ steps' = steps + 1)
  BY Resets
<1>2. steps # 0 => steps' # 0
  BY <1>1
<1>3. \/ Slack = 0 /\ Slack' = 0
      \/ Slack = 0 /\ Slack' = MaxLead
      \/ Slack = MaxLead /\ Slack' = MaxLead
  BY <1>2 DEF Slack
<1>4. 0 \in Nat /\ 0 <= MaxLead /\ 0 <= 0 /\ MaxLead <= MaxLead
  BY <1>1
<1>5. QED
  BY <1>1, <1>3, <1>4, Zenon

-----------------------------------------------------------------------------
(* Nothing is sent twice. *)

(* A row for a posting already taken within the month was written only after   *)
(* the earlier one was closed.                                                 *)
Replaced == \A i, k \in DOMAIN rows :
              i < k /\ rows[i].job \in Alike[rows[k].job] /\ rows[k].made - rows[i].made <= Month - Slack
                => Closed(rows[i])

LEMMA ReplacedStep ==
  ASSUME LedgerAssumption, IInv, Replaced, [Next]_vars, DecidedStep(Slack)
  PROVE  Replaced'
<1>0. /\ rows \in Seq(Row) /\ DOMAIN rows = 1..Len(rows) /\ Len(rows) \in Nat /\ real \in Nat
      /\ \A i \in DOMAIN rows : rows[i].state \in States /\ rows[i].made \in Nat
      /\ Month \in Nat
  <2>1. rows \in Seq(Row) /\ real \in Nat
    BY DEF IInv, TypeOK
  <2>2. \A i \in DOMAIN rows : rows[i] \in Row
    BY <2>1
  <2>3. \A i \in DOMAIN rows : rows[i].state \in States /\ rows[i].made \in Nat
    BY <2>2 DEF Row
  <2>4. QED
    BY <2>1, <2>3 DEF LedgerAssumption
<1>1. \A i \in DOMAIN rows : /\ rows'[i].job = rows[i].job
                             /\ rows'[i].made = rows[i].made
                             /\ Closed(rows[i]) => Closed(rows'[i])
  BY Step DEF Kept, Closed
<1>2. PICK l \in Nat, l2 \in Nat : l = Slack /\ l2 = Slack' /\ l <= l2
  BY SlackGrows
<1>a. l <= l2 /\ Month \in Nat /\ real \in Nat
  BY <1>0, <1>2
<1>3. ASSUME NEW i \in DOMAIN rows, NEW k \in DOMAIN rows, i < k,
             rows'[i].job \in Alike[rows'[k].job], rows'[k].made - rows'[i].made <= Month - Slack'
      PROVE  Closed(rows'[i])
  <2>1. PICK m \in Int, n \in Int : m = rows[i].made /\ n = rows[k].made
    BY <1>0
  <2>2. n - m <= Month - l2
    BY <1>1, <1>2, <1>3, <2>1
  <2>3. n - m <= Month - l
    BY <1>a, <2>2
  <2>4. QED
    BY <1>1, <1>2, <1>3, <2>1, <2>3 DEF Replaced
<1>4. CASE DOMAIN rows' = DOMAIN rows
  BY <1>3, <1>4 DEF Replaced, Closed
<1>5. ASSUME NEW p \in Proc, NEW rs \in Seq(Row), NEW now \in Int, Decided(p, rs, now, Slack)
      PROVE  Replaced'
  <2>1. ASSUME NEW i \in DOMAIN rows, rows[i].job \in Alike[job[p]],
               real - rows[i].made <= Month - Slack'
        PROVE  Closed(rows[i])
    <3>1. /\ rs[i].state = rows[i].state /\ rs[i].job = rows[i].job /\ i \in DOMAIN rs
          /\ rs[i].at \in Int /\ now - rs[i].at <= real - rows[i].made + Slack
      BY <1>5 DEF Decided
    <3>2. ~(i \in Live(rs, now - Month))
      BY <1>5, <2>1, <3>1 DEF Decided, MayStart, Duplicate
    <3>a. rows[i].made \in Nat
      BY <1>0
    <3>3. PICK a \in Int, m \in Int : a = rs[i].at /\ m = rows[i].made
      BY <3>1, <3>a
    <3>4. real - m <= Month - l2 /\ now - a <= real - m + l
      BY <1>2, <2>1, <3>1, <3>3
    <3>5. a >= now - Month
      <4>1. l \in Int /\ l2 \in Int /\ real \in Int /\ Month \in Int /\ l <= l2
        BY <1>a
      <4> QED BY <3>4, <4>1, WindowsNarrow
    <3>6. rows[i].state \in States /\ ~(rows[i].state \in {"intended", "confirmed"})
      BY <1>0, <3>1, <3>2, <3>3, <3>5 DEF Live
    <3>7. QED
      BY <3>6 DEF Closed, States
  <2>2. SUFFICES ASSUME NEW i \in DOMAIN rows', NEW k \in DOMAIN rows', i < k,
                        rows'[i].job \in Alike[rows'[k].job],
                        rows'[k].made - rows'[i].made <= Month - Slack'
                 PROVE  Closed(rows'[i])
    BY DEF Replaced, Closed
  <2>3. /\ DOMAIN rows' = 1..(Len(rows) + 1)
        /\ rows'[Len(rows) + 1].made = real /\ rows'[Len(rows) + 1].job = job[p]
    BY <1>5 DEF Decided
  <2>4. i \in DOMAIN rows
    <3>1. i \in 1..(Len(rows) + 1) /\ k \in 1..(Len(rows) + 1) /\ Len(rows) \in Nat
      BY <1>0, <2>2, <2>3
    <3>2. i # Len(rows) + 1
      BY <2>2, <3>1
    <3>3. QED
      BY <1>0, <3>1, <3>2, NewIndex
  <2>5. CASE k \in DOMAIN rows
    BY <1>3, <2>2, <2>4, <2>5
  <2>6. CASE k = Len(rows) + 1
    BY <1>1, <2>1, <2>2, <2>3, <2>4, <2>6
  <2>7. QED
    <3>1. k \in 1..(Len(rows) + 1)
      BY <2>2, <2>3
    <3>2. QED
      BY <1>0, <2>5, <2>6, <3>1, NewIndex
<1>6. QED
  BY <1>4, <1>5 DEF DecidedStep

(* Two applications to the same posting leave within a month only if the user  *)
(* closed the first, however often the clock is set back.                      *)
THEOREM AppliedOnce ==
  ASSUME LedgerAssumption, "forward" \notin ClockMoves
  PROVE  Spec => []NoDoubleApply
<1>1. Init => SentIsRecorded /\ TimeKept /\ Replaced
  <2>1. Init => rows = <<>>
    BY DEF Init
  <2>2. Init => SentIsRecorded /\ Replaced
    BY <2>1 DEF SentIsRecorded, Replaced
  <2>3. QED
    BY <2>2, TimeInit
<1>2. IInv /\ SentIsRecorded /\ TimeKept /\ Replaced /\ [Next]_vars
        => IInv' /\ SentIsRecorded' /\ TimeKept' /\ Replaced'
  BY Step, RecordedStep, TimeKeeps, ReplacedStep
<1>3. SentIsRecorded /\ Replaced => NoDoubleApply
  BY DEF SentIsRecorded, Replaced, Closed, NoDoubleApply
<1>4. QED
  BY IInvInit, <1>1, <1>2, <1>3, PTL DEF Spec

-----------------------------------------------------------------------------
(* The caps. *)

(* What counts against a row is among what counted when it was written: rows   *)
(* are closed and never opened again.                                          *)
LEMMA CountedShrinks ==
  ASSUME LedgerAssumption, IInv, [Next]_vars, NEW k \in DOMAIN rows, NEW span \in Nat
  PROVE  /\ Counted(k, span)' \subseteq Counted(k, span)
         /\ rows'[k].made = rows[k].made
         /\ \A i \in Counted(k, span)' : rows'[i].made = rows[i].made
<1>1. \A i \in DOMAIN rows : /\ rows'[i].made = rows[i].made
                             /\ Closed(rows[i]) => rows'[i].state = rows[i].state
  BY Step DEF Kept
<1>2. /\ DOMAIN rows = 1..Len(rows) /\ Len(rows) \in Nat
      /\ \A i \in DOMAIN rows : rows[i].state \in States /\ rows[i].made \in Nat
  <2>1. rows \in Seq(Row)
    BY DEF IInv, TypeOK
  <2>2. \A i \in DOMAIN rows : rows[i] \in Row
    BY <2>1
  <2>3. \A i \in DOMAIN rows : rows[i].state \in States /\ rows[i].made \in Nat
    BY <2>2 DEF Row
  <2>4. QED
    BY <2>1, <2>3
<1>3. \A i \in 1..(k - 1) : i \in DOMAIN rows
  BY <1>2
<1>4. \A i \in DOMAIN rows :
        rows'[i].state \in {"intended", "confirmed"} => rows[i].state \in {"intended", "confirmed"}
  BY <1>1, <1>2 DEF Closed, States
<1>5. ASSUME NEW i \in Counted(k, span)'
      PROVE  i \in Counted(k, span) /\ i \in DOMAIN rows
  <2>1. /\ i \in 1..(k - 1) /\ rows'[i].state \in {"intended", "confirmed"}
        /\ rows'[k].made - rows'[i].made <= span - Slack'
    BY DEF Counted
  <2>2. PICK l \in Nat, l2 \in Nat : l = Slack /\ l2 = Slack' /\ l <= l2
    BY SlackGrows
  <2>a. l <= l2
    BY <2>2
  <2>3. rows[i].made \in Nat /\ rows[k].made \in Nat
    BY <1>2, <1>3, <2>1
  <2>4. rows[k].made - rows[i].made <= span - Slack
    <3>1. PICK m \in Nat, n \in Nat : m = rows[i].made /\ n = rows[k].made
      BY <2>3
    <3>2. n - m <= span - l2
      BY <1>1, <1>3, <2>1, <2>2, <3>1
    <3>3. n - m <= span - l
      BY <2>a, <3>2
    <3>4. QED
      BY <2>2, <3>1, <3>3
  <2>5. QED
    BY <1>3, <1>4, <2>1, <2>4 DEF Counted
<1>6. QED
  BY <1>1, <1>5

LEMMA CountedFinite ==
  ASSUME NEW k \in Nat, NEW span
  PROVE  IsFiniteSet(Counted(k, span))
<1>1. IsFiniteSet(1..(k - 1))
  BY FS_Interval
<1>2. Counted(k, span) \in SUBSET (1..(k - 1))
  BY DEF Counted
<1>3. QED
  BY <1>1, <1>2, FS_Subset

(* What a row keeps is kept.                                                   *)
Within(k) == /\ Cardinality(Counted(k, Hour)) < PerHour /\ Cardinality(Counted(k, Day)) < PerDay
             /\ Cardinality(CountedOnSite(k)) < PerSiteDay
             /\ \A i \in Counted(k, Day) : rows[k].made - rows[i].made >= MinGap - Slack

LEMMA WithinKept ==
  ASSUME LedgerAssumption, IInv, [Next]_vars, NEW k \in DOMAIN rows, Within(k)
  PROVE  Within(k)'
<1>0. k \in Nat /\ {Hour, Day, PerHour, PerDay, PerSiteDay} \subseteq Nat
  BY DEF IInv, TypeOK, LedgerAssumption
<1>1. ASSUME NEW span \in Nat
      PROVE  /\ Counted(k, span)' \subseteq Counted(k, span)
             /\ Cardinality(Counted(k, span)') <= Cardinality(Counted(k, span))
             /\ Cardinality(Counted(k, span)') \in Nat /\ Cardinality(Counted(k, span)) \in Nat
  <2>1. Counted(k, span)' \subseteq Counted(k, span)
    BY CountedShrinks
  <2>2. IsFiniteSet(Counted(k, span))
    BY <1>0, CountedFinite
  <2>3. QED
    BY <2>1, <2>2, FS_Subset, FS_CardinalityType
<1>2. /\ Cardinality(Counted(k, Hour)') < PerHour /\ Cardinality(Counted(k, Day)') < PerDay
  BY <1>0, <1>1 DEF Within
<1>3. ASSUME NEW i \in Counted(k, Day)'
      PROVE  rows'[k].made - rows'[i].made >= MinGap - Slack'
  <2>1. /\ rows'[k].made = rows[k].made /\ rows'[i].made = rows[i].made
        /\ i \in Counted(k, Day)
    BY <1>0, CountedShrinks
  <2>2. i \in DOMAIN rows
    BY <1>0, <2>1 DEF Counted, IInv, TypeOK
  <2>3. \A l \in DOMAIN rows : rows[l].made \in Nat
    <3>1. \A l \in DOMAIN rows : rows[l] \in Row
      BY DEF IInv, TypeOK
    <3>2. QED
      BY <3>1 DEF Row
  <2>4. PICK m \in Int, n \in Int : m = rows[i].made /\ n = rows[k].made
    BY <2>2, <2>3
  <2>5. PICK l \in Nat, l2 \in Nat : l = Slack /\ l2 = Slack' /\ l <= l2
    BY SlackGrows
  <2>a. l <= l2 /\ MinGap \in Nat
    BY <2>5 DEF LedgerAssumption
  <2>6. n - m >= MinGap - l
    BY <2>1, <2>4, <2>5 DEF Within
  <2>7. n - m >= MinGap - l2
    BY <2>6, <2>a
  <2>8. QED
    BY <2>1, <2>4, <2>5, <2>7
<1>4. Cardinality(CountedOnSite(k)') < PerSiteDay
  <2>1. \A i \in DOMAIN rows : rows'[i].job = rows[i].job
    BY Step DEF Kept
  <2>2. \A i \in Counted(k, Day) : i \in DOMAIN rows
    BY <1>0 DEF Counted, IInv, TypeOK
  <2>3. CountedOnSite(k)' \subseteq CountedOnSite(k)
    BY <1>0, <1>1, <2>1, <2>2 DEF CountedOnSite
  <2>4. IsFiniteSet(CountedOnSite(k))
    <3>1. IsFiniteSet(Counted(k, Day)) /\ CountedOnSite(k) \in SUBSET Counted(k, Day)
      BY <1>0, CountedFinite DEF CountedOnSite
    <3>2. QED
      BY <3>1, FS_Subset
  <2>5. /\ Cardinality(CountedOnSite(k)') <= Cardinality(CountedOnSite(k))
        /\ Cardinality(CountedOnSite(k)') \in Nat /\ Cardinality(CountedOnSite(k)) \in Nat
    BY <2>3, <2>4, FS_Subset, FS_CardinalityType
  <2>6. QED
    BY <1>0, <2>5 DEF Within
<1>5. QED
  BY <1>2, <1>3, <1>4 DEF Within

(* A row that is written is within the caps at that moment.                    *)
LEMMA CapsStep ==
  ASSUME LedgerAssumption, IInv, CapsHold, [Next]_vars, DecidedStep(Slack)
  PROVE  CapsHold'
<1>0. /\ DOMAIN rows = 1..Len(rows) /\ Len(rows) \in Nat /\ real \in Nat
      /\ Slack \in Nat /\ Slack' \in Nat
      /\ \A i \in DOMAIN rows : rows[i].state \in States /\ rows[i].made \in Nat
  <2>1. rows \in Seq(Row) /\ real \in Nat
    BY DEF IInv, TypeOK
  <2>2. \A i \in DOMAIN rows : rows[i] \in Row
    BY <2>1
  <2>3. \A i \in DOMAIN rows : rows[i].state \in States /\ rows[i].made \in Nat
    BY <2>2 DEF Row
  <2>4. QED
    BY <2>1, <2>3, SlackGrows
<1>a. PICK l \in Nat, l2 \in Nat : l = Slack /\ l2 = Slack' /\ l <= l2
  BY SlackGrows
<1>b. l <= l2 /\ real \in Nat
  BY <1>0, <1>a
<1>1. \A k \in DOMAIN rows : Within(k)'
  BY WithinKept DEF CapsHold, Within
<1>2. CASE DOMAIN rows' = DOMAIN rows
  BY <1>1, <1>2 DEF CapsHold, Within
<1>3. ASSUME NEW p \in Proc, NEW rs \in Seq(Row), NEW now \in Int, Decided(p, rs, now, Slack),
             NEW k \in Nat, k = Len(rows) + 1
      PROVE  CapsHold'
  <2> DEFINE live(span) == Live(rs, now - span)
  <2>0. {Hour, Day, PerHour, PerDay, PerSiteDay, MinGap} \subseteq Nat
    BY DEF LedgerAssumption
  <2>1. /\ Cardinality(live(Day)) < PerDay /\ Cardinality(live(Hour)) < PerHour
        /\ Cardinality({i \in live(Day) : SiteOf[rs[i].job] = SiteOf[job[p]]}) < PerSiteDay
        /\ \A i \in live(Day) : now - rs[i].at >= MinGap
    BY <1>3 DEF Decided, MayStart, WithinCaps
  <2>2. \A i \in DOMAIN rows : /\ rows'[i].made = rows[i].made
                               /\ Closed(rows[i]) => rows'[i].state = rows[i].state
    BY Step DEF Kept
  <2>3. \A i \in DOMAIN rows :
          rows'[i].state \in {"intended", "confirmed"} => rows[i].state \in {"intended", "confirmed"}
    BY <1>0, <2>2 DEF Closed, States
  <2>4. ASSUME NEW span \in Nat
        PROVE  /\ \A i \in Counted(k, span)' : /\ i \in DOMAIN rows /\ i \in live(span)
                                                /\ rows'[i].made = rows[i].made
               /\ Cardinality(Counted(k, span)') <= Cardinality(live(span))
               /\ Cardinality(Counted(k, span)') \in Nat /\ Cardinality(live(span)) \in Nat
               /\ IsFiniteSet(live(span))
    <3>1. ASSUME NEW i \in Counted(k, span)'
          PROVE  i \in DOMAIN rows /\ i \in live(span)
      <4>1. i \in 1..(k - 1) /\ i \in DOMAIN rows
        BY <1>0, <1>3 DEF Counted
      <4>2. rows'[i].state \in {"intended", "confirmed"} /\ real - rows[i].made <= span - Slack'
        <5>1. /\ i \in 1..(k - 1) /\ rows'[i].state \in {"intended", "confirmed"}
              /\ rows'[k].made - rows'[i].made <= span - Slack'
          BY DEF Counted
        <5>2. rows'[i].made = rows[i].made /\ rows'[k].made = real
          BY <1>3, <2>2, <4>1 DEF Decided
        <5>3. QED
          BY <5>1, <5>2
      <4>3. /\ rs[i].at \in Int /\ rs[i].state = rows[i].state /\ i \in DOMAIN rs
            /\ now - rs[i].at <= real - rows[i].made + Slack
        BY <1>3, <4>1 DEF Decided
      <4>4. rs[i].at >= now - span
        <5>1. rows[i].made \in Nat
          BY <1>0, <4>1
        <5>2. rows[i].made \in Int /\ real \in Int /\ Slack \in Int /\ span \in Int
          BY <1>0, <5>1, SMTT(40)
        <5>3. QED
          <6>1. PICK a \in Int, m \in Int : a = rs[i].at /\ m = rows[i].made
            BY <4>3, <5>2
          <6>2. real - m <= span - l2 /\ now - a <= real - m + l
            BY <1>a, <4>2, <4>3, <6>1
          <6>a. span \in Int
            BY <5>2
          <6>3. a >= now - span
            <7>1. l \in Int /\ l2 \in Int /\ real \in Int /\ l <= l2
              BY <1>b, <5>2
            <7> QED BY <6>a, <6>2, <7>1, WindowsNarrow
          <6>4. QED
            BY <6>1, <6>3
      <4>5. QED
        BY <2>3, <4>1, <4>2, <4>3, <4>4 DEF Live
    <3>2. IsFiniteSet(live(span))
      <4>1. IsFiniteSet(1..Len(rows))
        BY <1>0, FS_Interval
      <4>2. live(span) \in SUBSET (1..Len(rows))
        BY <1>0, <1>3 DEF Live, Decided
      <4>3. QED
        BY <4>1, <4>2, FS_Subset
    <3>3. Counted(k, span)' \subseteq live(span)
      BY <3>1
    <3>4. QED
      BY <2>2, <3>1, <3>2, <3>3, FS_Subset, FS_CardinalityType
  <2>5. rows'[k].made = real /\ DOMAIN rows' = 1..k
    BY <1>3 DEF Decided
  <2> HIDE DEF live
  <2>6. /\ Cardinality(Counted(k, Hour)') < PerHour /\ Cardinality(Counted(k, Day)') < PerDay
    <3>1. /\ Cardinality(Counted(k, Hour)') <= Cardinality(live(Hour))
          /\ Cardinality(Counted(k, Hour)') \in Nat /\ Cardinality(live(Hour)) \in Nat
      BY <2>0, <2>4
    <3>2. /\ Cardinality(Counted(k, Day)') <= Cardinality(live(Day))
          /\ Cardinality(Counted(k, Day)') \in Nat /\ Cardinality(live(Day)) \in Nat
      BY <2>0, <2>4
    <3>3. PerHour \in Nat /\ PerDay \in Nat
      BY <2>0
    <3>4. \A a, b, c \in Nat : a <= b /\ b < c => a < c
      OBVIOUS
    <3>5. QED
      BY <2>1, <3>1, <3>2, <3>3, <3>4
  <2>7. ASSUME NEW i \in Counted(k, Day)'
        PROVE  rows'[k].made - rows'[i].made >= MinGap - Slack'
    <3>1. i \in DOMAIN rows /\ i \in live(Day) /\ rows'[i].made = rows[i].made
      BY <2>0, <2>4
    <3>2. /\ now - rs[i].at >= MinGap /\ rs[i].at \in Int
          /\ now - rs[i].at <= real - rows[i].made + Slack
      BY <1>3, <2>1, <3>1 DEF Decided
    <3>3. rows[i].made \in Int /\ MinGap \in Int /\ real \in Int
      <4>1. rows[i].made \in Nat
        BY <1>0, <3>1
      <4>2. MinGap \in Nat /\ real \in Nat
        BY <1>0, <2>0
      <4> QED BY <4>1, <4>2, SMTT(40)
    <3>4. real - rows[i].made >= MinGap - Slack'
      <4>1. PICK a \in Int, m \in Int : a = rs[i].at /\ m = rows[i].made
        BY <3>2, <3>3
      <4>2. now - a >= MinGap /\ now - a <= real - m + l
        BY <1>a, <3>2, <4>1
      <4>3. real - m >= MinGap - l2
        <5>1. l \in Int /\ l2 \in Int /\ l <= l2
          BY <1>b
        <5> QED BY <3>3, <4>2, <5>1, WindowsNarrow
      <4>4. QED
        BY <1>a, <4>1, <4>3
    <3>5. QED
      BY <2>5, <3>1, <3>4
  <2>b. Cardinality(CountedOnSite(k)') < PerSiteDay
    <3> DEFINE there == {i \in live(Day) : SiteOf[rs[i].job] = SiteOf[job[p]]}
    <3>1. \A i \in DOMAIN rows : rows'[i].job = rows[i].job /\ rs[i].job = rows[i].job
      BY <1>3, Step DEF Kept, Decided
    <3>2. rows'[k].job = job[p]
      BY <1>3 DEF Decided
    <3>3. CountedOnSite(k)' \subseteq there
      BY <2>0, <2>4, <3>1, <3>2 DEF CountedOnSite
    <3>4. IsFiniteSet(there)
      <4>1. IsFiniteSet(live(Day)) /\ there \in SUBSET live(Day)
        BY <2>0, <2>4
      <4>2. QED
        BY <4>1, FS_Subset
    <3>5. /\ Cardinality(CountedOnSite(k)') <= Cardinality(there)
          /\ Cardinality(CountedOnSite(k)') \in Nat /\ Cardinality(there) \in Nat
      BY <3>3, <3>4, FS_Subset, FS_CardinalityType
    <3>6. QED
      BY <2>0, <2>1, <3>5
  <2>8. \A j \in DOMAIN rows' : j \in DOMAIN rows \/ j = k
    BY <1>0, <1>3, <2>5, NewIndex
  <2>9. QED
    BY <1>1, <2>6, <2>7, <2>b, <2>8 DEF CapsHold, Within
<1>4. Len(rows) + 1 \in Nat
  BY <1>0
<1>5. QED
  BY <1>2, <1>3, <1>4 DEF DecidedStep

(* The caps and the gap bound what leaves, whichever of any number of processes*)
(* race for the last slot and wherever they die, for any caps and windows and  *)
(* any number of times the clock is set back: exactly until it is, and then but*)
(* for the lead a remembered time may have (intend, repair).                   *)
THEOREM CapsBound ==
  ASSUME LedgerAssumption, "forward" \notin ClockMoves
  PROVE  Spec => []CapsHold
<1>1. Init => TimeKept /\ CapsHold
  <2>1. Init => rows = <<>>
    BY DEF Init
  <2>2. QED
    BY <2>1, TimeInit DEF CapsHold
<1>2. IInv /\ TimeKept /\ CapsHold /\ [Next]_vars => IInv' /\ TimeKept' /\ CapsHold'
  BY Step, TimeKeeps, CapsStep
<1>3. QED
  BY IInvInit, <1>1, <1>2, PTL DEF Spec

-----------------------------------------------------------------------------
(* A form: filters of lists.                                                   *)

(* < is well founded on the naturals.                                          *)
LEMMA LessIsWellFounded ==
  \E R : IsWellFoundedOn(R, Nat) /\ \A x, y \in Nat : x < y => <<x, y>> \in R
<1>1. IsWellFoundedOn(OpToRel(<, Nat), Nat)
  BY NatLessThanWellFounded
<1>2. \A x, y \in Nat : x < y => <<x, y>> \in OpToRel(<, Nat)
  BY DEF OpToRel
<1>3. QED
  BY <1>1, <1>2, Zenon

(* A set of naturals that is not empty has a least element.                    *)
LEMMA LeastNat ==
  ASSUME NEW T, T \subseteq Nat, T # {}
  PROVE  \E x \in T : \A y \in T : x <= y
<1>1. PICK R : IsWellFoundedOn(R, Nat) /\ \A x, y \in Nat : x < y => <<x, y>> \in R
  BY LessIsWellFounded
<1>2. \E x \in T : \A y \in T : <<y, x>> \notin R
  <2>1. \A X, Q, U : IsWellFoundedOn(Q, X) /\ U \subseteq X /\ U # {} => \E u \in U : \A y \in U : <<y, u>> \notin Q
    BY WFMin
  <2>2. IsWellFoundedOn(R, Nat)
    BY <1>1
  <2>3. QED
    BY <2>1, <2>2, Zenon
<1>3. PICK x \in T : \A y \in T : <<y, x>> \notin R
  BY <1>2
<1>4. ASSUME NEW y \in T PROVE x <= y
  <2>1. x \in Nat /\ y \in Nat
    OBVIOUS
  <2>2. ~(y < x)
    BY <1>1, <1>3, <2>1, Zenon
  <2>3. QED
    BY <2>1, <2>2
<1>5. QED
  BY <1>3, <1>4

\* One more of a list: it is kept if it is in the set.
More(kept, e, set) == IF e \in set THEN Append(kept, e) ELSE kept

(* The loop of a filter.                                                       *)
LEMMA FilterIs ==
  ASSUME NEW s, NEW T, Len(s) \in Nat
  PROVE  \E k : k = [n \in 0..Len(s) |-> IF n = 0 THEN <<>> ELSE More(k[n - 1], s[n], T)]
<1> DEFINE Is(k, m) == k = [n \in 0..m |-> IF n = 0 THEN <<>> ELSE More(k[n - 1], s[n], T)]
           bad == {m \in 0..Len(s) : ~\E k : Is(k, m)}
<1>0. bad \subseteq 0..Len(s) /\ \A m \in 0..Len(s) : m \notin bad => \E k : Is(k, m)
  OBVIOUS
<1>1. ASSUME NEW m \in 1..Len(s), NEW k, Is(k, m - 1)
      PROVE  \E l : Is(l, m)
  <2> DEFINE l == [n \in 0..m |-> IF n < m THEN k[n] ELSE More(k[n - 1], s[n], T)]
  <2>1. \A n \in 0..(m - 1) : n < m /\ l[n] = k[n]
    OBVIOUS
  <2>2. ASSUME NEW n \in 0..m
        PROVE  l[n] = IF n = 0 THEN <<>> ELSE More(l[n - 1], s[n], T)
    <3>1. CASE n = 0
      BY <1>1, <3>1
    <3>2. CASE n # 0
      <4>1. n - 1 \in 0..(m - 1) /\ l[n - 1] = k[n - 1]
        BY <2>1, <3>2
      <4>2. CASE n < m
        <5>1. n \in 0..(m - 1)
          BY <4>2
        <5>2. k[n] = More(k[n - 1], s[n], T)
          BY <1>1, <3>2, <5>1
        <5>3. QED
          BY <2>1, <3>2, <4>1, <5>1, <5>2
      <4>3. CASE ~(n < m)
        BY <3>2, <4>1, <4>3
      <4>4. QED
        BY <4>2, <4>3
    <3>3. QED
      BY <3>1, <3>2
  <2>3. l = [n \in 0..m |-> l[n]]
    OBVIOUS
  <2> HIDE DEF l
  <2>4. Is(l, m)
    BY <2>2, <2>3
  <2>5. QED
    BY <2>4
<1>2. \E k : Is(k, 0)
  <2> DEFINE k == [n \in 0..0 |-> <<>>]
  <2>1. Is(k, 0)
    OBVIOUS
  <2>2. QED
    BY <2>1
<1> HIDE DEF Is, bad
<1>3. bad = {}
  <2> SUFFICES ASSUME bad # {} PROVE FALSE
    OBVIOUS
  <2>1. PICK m \in bad : \A x \in bad : m <= x
    <3>1. bad \subseteq Nat
      BY <1>0
    <3>2. QED
      BY <3>1, LeastNat
  <2>2. m \in 0..Len(s) /\ m # 0
    BY <1>0, <1>2, <2>1 DEF bad
  <2>3. m \in 1..Len(s) /\ m - 1 \in 0..Len(s) /\ m - 1 \notin bad
    BY <1>0, <2>1, <2>2
  <2>4. PICK k : Is(k, m - 1)
    BY <1>0, <2>3
  <2>5. QED
    BY <1>1, <2>1, <2>3, <2>4 DEF bad
<1>4. \E k : Is(k, Len(s))
  BY <1>0, <1>3
<1>5. QED
  BY <1>4 DEF Is

\* The members of the list so far that are in the set.
Among(s, T, m) == {s[i] : i \in {j \in 1..m : s[j] \in T}}

(* The members of a list with one more.                                        *)
LEMMA RangeAppend ==
  ASSUME NEW S, NEW q \in Seq(S), NEW e \in S
  PROVE  Append(q, e) \in Seq(S) /\ F!Range(Append(q, e)) = F!Range(q) \cup {e}
<1>1. PICK r : r = Append(q, e)
  OBVIOUS
<1>2. r \in Seq(S) /\ Len(r) = Len(q) + 1 /\ Len(q) \in Nat
  BY <1>1
<1>3. /\ DOMAIN r = 1..(Len(q) + 1) /\ DOMAIN q = 1..Len(q)
      /\ \A i \in 1..Len(q) : r[i] = q[i]
      /\ r[Len(q) + 1] = e
  BY <1>1, <1>2
<1>4. DOMAIN r = DOMAIN q \cup {Len(q) + 1}
  BY <1>2, <1>3
<1>5. ASSUME NEW x \in F!Range(r) PROVE x \in F!Range(q) \cup {e}
  <2>1. PICK i \in DOMAIN r : x = r[i]
    BY DEF F!Range
  <2> QED BY <1>3, <1>4, <2>1 DEF F!Range
<1>6. ASSUME NEW x \in F!Range(q) PROVE x \in F!Range(r)
  <2>1. PICK i \in DOMAIN q : x = q[i]
    BY DEF F!Range
  <2>2. i \in DOMAIN r /\ r[i] = x
    BY <1>3, <1>4, <2>1
  <2> QED BY <2>2 DEF F!Range
<1>7. e \in F!Range(r)
  BY <1>3, <1>4 DEF F!Range
<1> QED BY <1>1, <1>2, <1>5, <1>6, <1>7

(* A filter keeps what is in the list and in the set.                          *)
LEMMA ThoseAre ==
  ASSUME NEW S, NEW s \in Seq(S), NEW T
  PROVE  /\ F!Those(s, T) \in Seq(S)
         /\ F!Range(F!Those(s, T)) = F!Range(s) \cap T
<1> DEFINE kept[n \in 0..Len(s)] == IF n = 0 THEN <<>> ELSE IF s[n] \in T THEN Append(kept[n - 1], s[n]) ELSE kept[n - 1]
           Fine(m) == kept[m] \in Seq(S) /\ F!Range(kept[m]) = Among(s, T, m)
           bad == {m \in 0..Len(s) : ~Fine(m)}
<1>1. kept = [n \in 0..Len(s) |-> IF n = 0 THEN <<>> ELSE IF s[n] \in T THEN Append(kept[n - 1], s[n]) ELSE kept[n - 1]]
  <2>1. Len(s) \in Nat
    OBVIOUS
  <2>2. \E k : k = [n \in 0..Len(s) |-> IF n = 0 THEN <<>> ELSE More(k[n - 1], s[n], T)]
    BY <2>1, FilterIs
  <2> QED BY <2>2 DEF More
<1>2. F!Those(s, T) = kept[Len(s)]
  BY DEF F!Those
<1> HIDE DEF kept
<1>3. kept[0] = <<>> /\ \A n \in 1..Len(s) : kept[n] = IF s[n] \in T THEN Append(kept[n - 1], s[n]) ELSE kept[n - 1]
  <2>1. \A n \in 0..Len(s) : kept[n] = IF n = 0 THEN <<>> ELSE IF s[n] \in T THEN Append(kept[n - 1], s[n]) ELSE kept[n - 1]
    BY <1>1, Zenon
  <2>2. 0 \in 0..Len(s) /\ \A n \in 1..Len(s) : n \in 0..Len(s) /\ n # 0
    OBVIOUS
  <2> QED BY <2>1, <2>2
<1>4. Fine(0)
  BY <1>3 DEF Among, F!Range
<1>5. ASSUME NEW m \in 1..Len(s), Fine(m - 1)
      PROVE  Fine(m)
  <2>0. s[m] \in S /\ kept[m - 1] \in Seq(S) /\ m - 1 \in Nat /\ m \notin 1..(m - 1) /\ 1..m = (1..(m - 1)) \cup {m}
    BY <1>5
  <2>1. CASE s[m] \in T
    <3>1. kept[m] = Append(kept[m - 1], s[m])
      BY <1>3, <2>1
    <3>2. kept[m] \in Seq(S) /\ F!Range(kept[m]) = F!Range(kept[m - 1]) \cup {s[m]}
      BY <2>0, <3>1, RangeAppend
    <3>3. Among(s, T, m) = Among(s, T, m - 1) \cup {s[m]}
      BY <2>0, <2>1 DEF Among
    <3> QED BY <1>5, <3>2, <3>3
  <2>2. CASE s[m] \notin T
    <3>1. kept[m] = kept[m - 1]
      BY <1>3, <2>2
    <3>2. Among(s, T, m) = Among(s, T, m - 1)
      BY <2>0, <2>2 DEF Among
    <3> QED BY <1>5, <3>1, <3>2
  <2> QED BY <2>1, <2>2
<1> HIDE DEF Fine
<1>6. bad = {}
  <2> SUFFICES ASSUME bad # {} PROVE FALSE
    OBVIOUS
  <2>1. bad \subseteq Nat
    OBVIOUS
  <2>2. PICK m \in bad : \A k \in bad : m <= k
    <3> HIDE DEF bad
    <3> QED BY <2>1, LeastNat
  <2>3. m \in 1..Len(s)
    BY <1>4, <2>2
  <2>4. m - 1 \in 0..Len(s) /\ m - 1 \notin bad
    <3>1. m \in Nat /\ m - 1 \in 0..Len(s) /\ ~(m <= m - 1)
      BY <2>3
    <3> HIDE DEF bad
    <3> QED BY <2>2, <3>1
  <2> QED BY <1>5, <2>2, <2>3, <2>4
<1>7. Fine(Len(s))
  BY <1>6
<1>8. Among(s, T, Len(s)) = F!Range(s) \cap T
  BY DEF Among, F!Range
<1> QED BY <1>2, <1>7, <1>8 DEF Fine

-----------------------------------------------------------------------------
(* What a form's fields are planned to hold.                                   *)

(* The fields, those to fill and those for the resume are elements of the page. *)
LEMMA FieldsAre ==
  ASSUME NEW els \in Seq(Element)
  PROVE  /\ F!PageFields(els) \in Seq(Element)
         /\ F!Range(F!PageFields(els)) = {e \in F!Range(els) : ~e.disabled /\ e.role # "button"}
         /\ F!Range(F!ToFill(els)) = {f \in F!Range(F!PageFields(els)) : F!ToDecide(f) /\ F!PlanField(f) = "fill"}
         /\ F!ToFill(els) \in Seq(Element) /\ F!ResumeFields(els) \in Seq(Element)
         /\ F!Range(F!ResumeFields(els)) = {f \in F!Range(F!PageFields(els)) :
              ~f.framed /\ f.role = "file-input" /\ "resume" \in f.label}
<1>1. /\ F!PageFields(els) \in Seq(Element)
      /\ F!Range(F!PageFields(els)) = F!Range(els) \cap {e \in F!Range(els) : ~e.disabled /\ e.role # "button"}
  BY ThoseAre DEF F!PageFields
<1>2. /\ F!ToFill(els) \in Seq(Element)
      /\ F!Range(F!ToFill(els)) = F!Range(F!PageFields(els)) \cap {f \in F!Range(els) : F!ToDecide(f) /\ F!PlanField(f) = "fill"}
  BY <1>1, ThoseAre DEF F!ToFill
<1>3. /\ F!ResumeFields(els) \in Seq(Element)
      /\ F!Range(F!ResumeFields(els)) = F!Range(F!PageFields(els)) \cap
           {f \in F!Range(els) : ~f.framed /\ f.role = "file-input" /\ "resume" \in f.label}
  BY <1>1, ThoseAre DEF F!ResumeFields
<1> QED BY <1>1, <1>2, <1>3

(* The fields of one role and label.                                           *)
LEMMA KeyedAre ==
  ASSUME NEW list \in Seq(Element), NEW k
  PROVE  /\ F!WithKey(list, k) \in Seq(Element)
         /\ F!Range(F!WithKey(list, k)) = {e \in F!Range(list) : F!LabelKey(e) = k}
<1>1. /\ F!WithKey(list, k) \in Seq(Element)
      /\ F!Range(F!WithKey(list, k)) = F!Range(list) \cap {e \in F!Range(list) : F!LabelKey(e) = k}
  BY ThoseAre DEF F!WithKey
<1> QED BY <1>1

(* The user's facts, as they were read from a file that was not refused.       *)
Known == \E file \in Files : facts \in F!LoadFacts(file)
Classes == {"public", "application", "post-offer-only", "never-autofill"}

(* Each fact has a value of its own and one of the four classes.               *)
LEMMA FactsAre ==
  ASSUME Known
  PROVE  \A k \in DOMAIN facts :
           /\ facts[k].value \in STRING \ {"", "page", "resume"} /\ facts[k].class \in Classes
           /\ \A j \in DOMAIN facts : facts[j].value = facts[k].value => j = k
<1>1. PICK file \in Files : facts \in F!LoadFacts(file)
  BY DEF Known
<1> SUFFICES ASSUME NEW k \in DOMAIN facts
             PROVE  /\ facts[k].value \in STRING \ {"", "page", "resume"} /\ facts[k].class \in Classes
                    /\ \A j \in DOMAIN facts : facts[j].value = facts[k].value => j = k
  OBVIOUS
<1>2. /\ facts[k].value \in STRING \ {"page", "resume"}
      /\ \A j \in DOMAIN facts : facts[j].value = facts[k].value => j = k
  BY <1>1, FactsAssumption
<1>3. facts # <<>>
  OBVIOUS
<1>4. facts = F!ParseFacts(file.json) /\ ~F!Refused(file.json)
  BY <1>1, <1>3 DEF F!LoadFacts
<1>5. /\ DOMAIN facts = DOMAIN file.json /\ facts[k].value = file.json[k].value
      /\ facts[k].class = IF file.json[k].class = "own" THEN F!OwnClass(k)
                          ELSE F!Stricter(F!OwnClass(k), file.json[k].class)
  BY <1>4 DEF F!ParseFacts
<1>6. file.json[k].value # "" /\ file.json[k].class \in F!Range(F!ClassOrder) \cup {"own"}
  BY <1>4, <1>5 DEF F!Refused
<1>7. F!Range(F!ClassOrder) = Classes
  BY DEF F!Range, F!ClassOrder, Classes
<1>8. F!OwnClass(k) \in Classes
  BY DEF F!OwnClass, Classes
<1>9. \A a, b : F!Stricter(a, b) \in {a, b}
  BY DEF F!Stricter
<1> QED BY <1>2, <1>5, <1>6, <1>7, <1>8, <1>9

(* A label asks for the fact of the first rule it matches.                     *)
LEMMA AskedIs ==
  ASSUME NEW l, F!Asked(l) # "nothing"
  PROVE  F!Asked(l) \in l
<1> DEFINE hits == {i \in DOMAIN F!Rules : F!Rules[i] \in l}
<1>1. F!Asked(l) = IF hits = {} THEN "nothing" ELSE F!Rules[CHOOSE i \in hits : \A j \in hits : i <= j]
  BY DEF F!Asked
<1>2. hits # {}
  BY <1>1
<1>3. hits \subseteq Nat
  BY DEF F!Rules
<1>4. \A i \in hits : F!Rules[i] \in l
  OBVIOUS
<1> HIDE DEF hits
<1>5. \E i \in hits : \A j \in hits : i <= j
  BY <1>2, <1>3, LeastNat
<1>6. (CHOOSE i \in hits : \A j \in hits : i <= j) \in hits
  BY <1>5
<1> QED BY <1>1, <1>2, <1>4, <1>6

(* What is filled in is a fact that may be told, in a field that asks for it and *)
(* for nothing else.                                                           *)
LEMMA FillIs ==
  ASSUME NEW f, F!PlanField(f) = "fill", Known
  PROVE  LET k == F!Asked(f.label) IN
         /\ k \in DOMAIN facts /\ facts[k].class \in {"public", "application"}
         /\ k \in f.label /\ f.label \cap {"forbidden", "demographic"} = {}
         /\ k \in F!YesNo => f.label \cap {"not", "other person", "also asks"} = {}
<1> DEFINE k == F!Asked(f.label)
<1>1. PICK kind : kind = F!Kind(f.label, f.role = "checkbox")
  OBVIOUS
<1>2. /\ kind = "fact" /\ k \in DOMAIN facts
      /\ facts[k].class \notin {"post-offer-only", "never-autofill"}
  <2>1. F!PlanField(f) =
          LET IfRequired == IF f.required THEN "park" ELSE "skip"
          IN CASE kind \in {"forbidden", "attestation"} -> "park"
               [] kind # "fact" -> IfRequired
               [] "long" \in f.label \/ k \notin DOMAIN facts -> IfRequired
               [] facts[k].class \in {"post-offer-only", "never-autofill"} -> "park"
               [] f.options # {} /\ facts[k].value \notin f.options -> IfRequired
               [] OTHER -> "fill"
    BY <1>1 DEF F!PlanField
  <2> QED BY <2>1
<1>3. /\ "forbidden" \notin f.label /\ "demographic" \notin f.label /\ k # "nothing"
      /\ ~(k \in F!YesNo /\ F!Spoilt(f.label))
  BY <1>1, <1>2 DEF F!Kind
<1>4. k \in f.label
  BY <1>3, AskedIs
<1>5. facts[k].class \in {"public", "application"}
  BY <1>2, FactsAre DEF Classes
<1> QED BY <1>2, <1>3, <1>4, <1>5 DEF F!Spoilt

-----------------------------------------------------------------------------
(* What a form holds that was compared with its plan.                          *)

(* A value that the user never tells.                                          *)
Secret(v) == \E k \in DOMAIN facts : facts[k].value = v /\ facts[k].class \notin {"public", "application"}

(* A button holds nothing, a file field at most the resume, and no element a    *)
(* secret; an element keeps its role.                                          *)
Holds(e) ==
  /\ e.role = "button" => e.value = ""
  /\ e.role = "file-input" => e.value \in {"", "resume"}
  /\ ~Secret(e.value)
SameRole(e) == \A f \in F!Range(firstSeen.els) : e.id = f.id => e.role = f.role
Fit(els) == els \in Seq(Element) /\ \A e \in F!Range(els) : Holds(e) /\ SameRole(e)

(* A page as it opens.                                                         *)
LEMMA PageIs ==
  ASSUME NEW p \in Pages
  PROVE  /\ p = [title |-> p.title, says |-> p.says, els |-> p.els]
         /\ p.says \subseteq STRING /\ p.els \in Seq(Element)
         /\ \A e \in F!Range(p.els) :
              /\ e \in Element
              /\ e.role \notin F!ValueRoles \cup {"combobox", "listbox"} => e.value = ""
              /\ Known => ~Secret(e.value)
<1>1. /\ p = [title |-> p.title, says |-> p.says, els |-> p.els]
      /\ p.says \subseteq STRING /\ p.els \in Seq(Element)
  BY PagesAssumption
<1> SUFFICES ASSUME NEW e \in F!Range(p.els)
             PROVE  /\ e \in Element
                    /\ e.role \notin F!ValueRoles \cup {"combobox", "listbox"} => e.value = ""
                    /\ Known => ~Secret(e.value)
  BY <1>1
<1>2. e \in Extras \cup UNION {F!Range(q.els) : q \in Pages}
  OBVIOUS
<1>3. /\ e \in Element
      /\ e.role \notin F!ValueRoles \cup {"combobox", "listbox"} => e.value = ""
      /\ \A file \in Files : \A table \in F!LoadFacts(file) : \A k \in DOMAIN table :
           table[k].value = e.value => table[k].class \in {"public", "application"}
  BY <1>2, PagesAssumption
<1> QED BY <1>3 DEF Known, Secret

(* What was planned for the form as it was first inspected.                    *)
Plan == F!Range(F!ToFill(firstSeen.els))
PlanKeys == {F!LabelKey(f) : f \in Plan}
NowFields == F!PageFields(seen.els)
WasFields == F!PageFields(firstSeen.els)

\* A form that was inspected, planned and compared.
Compared == Known /\ firstSeen \in Pages /\ ~F!Parks(firstSeen) /\ Fit(seen.els) /\ ~F!Wrong(seen)

(* A field that no plan is for holds nothing, or the resume.                   *)
LEMMA UnplannedHolds ==
  ASSUME Compared, NEW e \in F!Range(NowFields), F!LabelKey(e) \notin PlanKeys
  PROVE  e.value \in {"", "resume"}
<1>1. PICK k, list, was : k = F!LabelKey(e) /\ list = F!WithKey(NowFields, k) /\ was = F!WithKey(WasFields, k)
  OBVIOUS
<1>2. firstSeen.els \in Seq(Element) /\ seen.els \in Seq(Element)
  BY PageIs DEF Compared, Fit
<1>3. NowFields \in Seq(Element) /\ WasFields \in Seq(Element)
  BY <1>2, FieldsAre DEF NowFields, WasFields
<1>4. /\ list \in Seq(Element) /\ F!Range(list) = {x \in F!Range(NowFields) : F!LabelKey(x) = k}
      /\ was \in Seq(Element) /\ F!Range(was) = {x \in F!Range(WasFields) : F!LabelKey(x) = k}
  BY <1>1, <1>3, KeyedAre
<1>5. PICK i \in DOMAIN list : e = list[i]
  BY <1>1, <1>4 DEF F!Range
<1>6. ~F!Strange(list, was, FALSE)
  <2>1. ~F!Strange(list, was, k \in {F!LabelKey(f) : f \in F!Range(F!ToFill(firstSeen.els))})
    <3>1. k \in {F!LabelKey(x) : x \in F!Range(F!PageFields(seen.els))}
      BY <1>1 DEF NowFields
    <3> QED BY <1>1, <3>1 DEF Compared, F!Wrong, NowFields, WasFields
  <2>2. (k \in {F!LabelKey(f) : f \in F!Range(F!ToFill(firstSeen.els))}) = FALSE
    BY <1>1 DEF PlanKeys, Plan
  <2> QED BY <2>1, <2>2
<1>7. \A x \in F!Range(list) : x.role = e.role
  BY <1>1, <1>4 DEF F!LabelKey
<1>8. list[1] \in F!Range(list)
  <2>1. DOMAIN list = 1..Len(list) /\ 1 \in DOMAIN list
    BY <1>4, <1>5
  <2> QED BY <2>1 DEF F!Range
<1>9. CASE e.role = "file-input"
  <2>1. e \in F!Range(seen.els)
    BY <1>2, FieldsAre DEF NowFields
  <2> QED BY <1>9, <2>1 DEF Compared, Fit, Holds
<1>10. CASE e.role # "file-input"
  <2>1. /\ ~(Len(list) > Len(was))
        /\ \A j \in DOMAIN list : /\ list[j].value = was[j].value
                                  /\ ~(list[j].role \in F!ValueRoles /\ list[j].value # "")
    BY <1>6, <1>7, <1>8, <1>10 DEF F!Strange
  <2>2. i \in DOMAIN was /\ e.value = was[i].value
    <3>1. Len(list) \in Nat /\ Len(was) \in Nat /\ DOMAIN list = 1..Len(list) /\ DOMAIN was = 1..Len(was)
      BY <1>4
    <3>2. Len(list) <= Len(was)
      <4>1. ~(Len(list) > Len(was))
        BY <2>1, Zenon
      <4> QED BY <3>1, <4>1
    <3>3. i \in DOMAIN was
      <4>1. i \in 1..Len(list)
        BY <1>5, <3>1
      <4> QED BY <3>1, <3>2, <4>1
    <3>4. list[i].value = was[i].value
      BY <1>5, <2>1, Zenon
    <3> QED BY <1>5, <3>3, <3>4, Zenon
  <2>3. PICK w : w = was[i] /\ w \in F!Range(was)
    BY <2>2 DEF F!Range
  <2>4. w \in F!Range(WasFields) /\ F!LabelKey(w) = k /\ w.role = e.role
    BY <1>1, <1>4, <2>3 DEF F!LabelKey
  <2>5. w \in F!Range(firstSeen.els) /\ ~w.disabled /\ w.role # "button"
    BY <1>2, <2>4, FieldsAre DEF WasFields
  <2>6. CASE e.role \in F!ValueRoles
    BY <1>5, <2>1, <2>6
  <2>7. CASE e.role \notin F!ValueRoles \cup {"combobox", "listbox"}
    BY <2>2, <2>3, <2>4, <2>5, <2>7, PageIs DEF Compared
  <2>8. CASE e.role \in {"combobox", "listbox"}
    <3>1. ~w.checked /\ ~w.framed /\ ~F!Chosen(w)
      BY <2>4, <2>5 DEF Compared, F!Parks, WasFields
    <3>2. w.value = "" \/ F!PlanField([w EXCEPT !.required = FALSE]) = "fill"
      BY <2>4, <2>8, <3>1 DEF F!Chosen
    <3>3. CASE F!PlanField([w EXCEPT !.required = FALSE]) = "fill"
      <4>1. F!PlanField(w) = "fill"
        <5>1. PICK u : u = [w EXCEPT !.required = FALSE]
          OBVIOUS
        <5>2. w \in Element
          BY <2>5, PageIs DEF Compared
        <5>3. u.label = w.label /\ u.role = w.role /\ u.options = w.options /\ u.required = FALSE
          BY <5>1, <5>2 DEF Element
        <5>4. PICK kind : kind = F!Kind(w.label, w.role = "checkbox")
          OBVIOUS
        <5>5. F!PlanField(u) = "fill"
          BY <3>3, <5>1
        <5>6. /\ kind \notin {"forbidden", "attestation"} /\ kind = "fact"
              /\ ~("long" \in w.label \/ F!Asked(w.label) \notin DOMAIN facts)
              /\ facts[F!Asked(w.label)].class \notin {"post-offer-only", "never-autofill"}
              /\ ~(w.options # {} /\ facts[F!Asked(w.label)].value \notin w.options)
          BY <5>3, <5>4, <5>5 DEF F!PlanField
        <5> QED BY <5>4, <5>6 DEF F!PlanField
      <4>2. F!ToDecide(w)
        BY <2>4, <2>8, <3>1 DEF F!ToDecide
      <4>3. w \in Plan
        BY <1>2, <2>4, <4>1, <4>2, FieldsAre DEF Plan, WasFields
      <4> QED BY <1>1, <2>4, <4>3 DEF PlanKeys
    <3> QED BY <2>2, <2>3, <3>2, <3>3
  <2> QED BY <2>6, <2>7, <2>8
<1> QED BY <1>9, <1>10

(* The first field of each role and label that was planned holds its fact.     *)
LEMMA PlannedHolds ==
  ASSUME Compared, NEW f \in Plan, NEW first1, first1 = F!WithKey(NowFields, F!LabelKey(f))[1]
  PROVE  /\ first1 \in F!Range(NowFields) /\ F!LabelKey(first1) = F!LabelKey(f)
         /\ first1.value = facts[F!Asked(f.label)].value
<1>1. PICK list : list = F!WithKey(NowFields, F!LabelKey(f))
  OBVIOUS
<1>2. list # <<>> /\ list[1].value = F!Value(f)
  BY <1>1 DEF Compared, F!Wrong, Plan, NowFields
<1>3. seen.els \in Seq(Element) /\ NowFields \in Seq(Element)
  BY FieldsAre DEF Compared, Fit, NowFields
<1>4. list \in Seq(Element) /\ F!Range(list) = {x \in F!Range(NowFields) : F!LabelKey(x) = F!LabelKey(f)}
  BY <1>1, <1>3, KeyedAre
<1>5. first1 \in F!Range(list)
  <2>1. 1 \in DOMAIN list
    BY <1>2, <1>4
  <2> QED BY <1>1, <2>1 DEF F!Range
<1> QED BY <1>1, <1>2, <1>4, <1>5 DEF F!Value

(* What is clicked away is the user's own, where it is asked for.              *)
LEMMA ComparedMeant ==
  ASSUME Compared
  PROVE  /\ seen.says \cap {"forbidden", "attestation"} = {}
         /\ \A e \in F!Range(F!PageFields(seen.els)) :
              ~e.checked /\ (e.value \in {"", "resume"} \/ F!Answers(e) \/ F!Twin(e))
<1>1. seen.says \cap {"forbidden", "attestation"} = {} /\ \A e \in F!Range(seen.els) : ~e.checked
  BY DEF Compared, F!Wrong
<1>2. /\ seen.els \in Seq(Element) /\ firstSeen.els \in Seq(Element)
      /\ F!Range(NowFields) = {e \in F!Range(seen.els) : ~e.disabled /\ e.role # "button"}
  BY PageIs, FieldsAre DEF Compared, Fit, NowFields
<1> SUFFICES ASSUME NEW e \in F!Range(NowFields), e.value \notin {"", "resume"}, ~F!Twin(e)
             PROVE  F!Answers(e)
  BY <1>1, <1>2 DEF NowFields
<1>3. PICK f \in Plan : F!LabelKey(f) = F!LabelKey(e)
  BY UnplannedHolds DEF PlanKeys
<1>4. e = F!WithKey(NowFields, F!LabelKey(f))[1]
  BY <1>3 DEF F!Twin, NowFields, Plan
<1>5. PICK k : k = F!Asked(f.label)
  OBVIOUS
<1>6. e.value = facts[k].value
  BY <1>4, <1>5, PlannedHolds
<1>7. f.label = e.label /\ \A x \in Plan : F!PlanField(x) = "fill"
  BY <1>2, <1>3, FieldsAre DEF F!LabelKey, Plan
<1>8. Known
  BY DEF Compared
<1>9. /\ k \in DOMAIN facts /\ facts[k].class \in {"public", "application"}
      /\ k \in e.label /\ e.label \cap {"forbidden", "demographic"} = {}
      /\ k \in F!YesNo => e.label \cap {"not", "other person", "also asks"} = {}
  BY <1>5, <1>7, <1>8, FillIs
<1>10. ASSUME NEW g \in F!Range(seen.els), g.id # e.id, ~g.disabled, g.value = e.value, ~F!Twin(g)
       PROVE  FALSE
  <2>1. facts[k].value \notin {"", "resume"}
    BY <1>8, <1>9, FactsAre
  <2>2. g.role # "button"
    BY <1>6, <1>10, <2>1 DEF Compared, Fit, Holds
  <2>3. g \in F!Range(NowFields)
    BY <1>2, <1>10, <2>2
  <2>4. PICK h \in Plan : F!LabelKey(h) = F!LabelKey(g)
    BY <1>6, <1>10, <2>1, <2>3, UnplannedHolds DEF PlanKeys
  <2>5. g = F!WithKey(NowFields, F!LabelKey(h))[1]
    BY <1>10, <2>4 DEF F!Twin, NowFields, Plan
  <2>6. g.value = facts[F!Asked(h.label)].value
    BY <2>5, PlannedHolds
  <2>7. F!Asked(h.label) \in DOMAIN facts
    BY <1>7, <1>8, <2>4, FillIs
  <2>8. F!Asked(h.label) = k
    BY <1>6, <1>8, <1>9, <1>10, <2>6, <2>7, FactsAre
  <2>9. h = f
    BY <1>5, <2>8 DEF Compared, F!Parks, Plan
  <2> QED BY <1>4, <1>10, <2>5, <2>9
<1> QED BY <1>6, <1>9, <1>10 DEF F!Answers

-----------------------------------------------------------------------------
(* One application of a form.                                                  *)

Before == {"open", "inspect", "decide"}
Outcomes == {"duplicate", "unconfirmed", "capped", "error", "paused-site", "parked", "unverified", "submitted"}

\* The elements of pages, and the page that is first inspected: the one that was opened.
FormKinds ==
  /\ Known /\ firstSeen \in Pages /\ Fit(seen.els) /\ Fit(page.els)
  /\ page = [title |-> page.title, says |-> page.says, els |-> page.els]
  /\ at \in {"open", "inspect"} => page = firstSeen
  /\ left \in BOOLEAN /\ moved \in BOOLEAN /\ filled \in Nat

\* Nothing is touched, and so nothing can leave, before everything was decided.
Untouched == /\ at \in Before => filled = 0 /\ attached = {} /\ ~left
             /\ at \in {"open", "inspect"} => ~moved

\* Until the click, what left was seen to leave; what is called parked did not.
LeavingSeen == /\ at \notin {"answer", "ended"} /\ left => moved
               /\ at = "ended" => outcome \in Outcomes /\ (outcome = "parked" => ~left)

\* What is filled was planned, and what is clicked was compared.
InOrder == /\ at \in {"fill", "attach", "compare", "give up", "click", "answer"} => ~F!Parks(firstSeen)
           /\ at \in {"click", "answer"} => ~F!Wrong(seen)

\* The file that was attached is the one designated.
Designated ==
  /\ pin.at # "" => pin.at \notin Home
  /\ \A d \in attached : d.is = "file" /\ pin.sha \in {"", d.content} /\ pin.at \in {"", d.at}

FormInv == FormKinds /\ Untouched /\ LeavingSeen /\ InOrder /\ Designated

(* Elements that change, come and go.                                          *)
LEMMA OneChanges ==
  ASSUME NEW els, Fit(els), NEW i \in DOMAIN els, NEW m \in Element, Holds(m), SameRole(m)
  PROVE  Fit([els EXCEPT ![i] = m])
<1>1. PICK after : after = [els EXCEPT ![i] = m]
  OBVIOUS
<1>2. els \in Seq(Element) /\ \A e \in F!Range(els) : Holds(e) /\ SameRole(e)
  BY DEF Fit
<1>3. after \in Seq(Element) /\ DOMAIN after = DOMAIN els /\ \A j \in DOMAIN els : after[j] = IF j = i THEN m ELSE els[j]
  BY <1>1, <1>2
<1>4. \A e \in F!Range(after) : Holds(e) /\ SameRole(e)
  BY <1>2, <1>3 DEF F!Range
<1> QED BY <1>1, <1>3, <1>4 DEF Fit

(* A field the page adds is the page's own.                                    *)
LEMMA OneComes ==
  ASSUME NEW els, Fit(els), Known, firstSeen \in Pages, NEW e \in Extras
  PROVE  Fit(Append(els, e))
<1>1. els \in Seq(Element) /\ \A x \in F!Range(els) : Holds(x) /\ SameRole(x)
  BY DEF Fit
<1>2. e \in Extras \cup UNION {F!Range(q.els) : q \in Pages}
  OBVIOUS
<1>3. /\ e \in Element
      /\ e.role \notin F!ValueRoles \cup {"combobox", "listbox"} => e.value = ""
      /\ \A file \in Files : \A table \in F!LoadFacts(file) : \A k \in DOMAIN table :
           table[k].value = e.value => table[k].class \in {"public", "application"}
  BY <1>2, PagesAssumption
<1>4. Holds(e)
  BY <1>3 DEF Holds, Known, Secret, F!ValueRoles
<1>5. SameRole(e)
  <2>1. \A i \in DOMAIN firstSeen.els : firstSeen.els[i].id # e.id
    BY PagesAssumption
  <2> QED BY <2>1 DEF SameRole, F!Range
<1>6. Append(els, e) \in Seq(Element) /\ F!Range(Append(els, e)) = F!Range(els) \cup {e}
  <2>1. els \in Seq(Element) /\ e \in Element
    BY <1>1, <1>3
  <2> QED BY ONLY <2>1, RangeAppend
<1> QED BY <1>1, <1>4, <1>5, <1>6 DEF Fit

(* The others stay as they are.                                                *)
LEMMA OneGoes ==
  ASSUME NEW els, Fit(els), NEW i \in DOMAIN els
  PROVE  Fit(F!RemoveAt(els, i))
<1>1. els \in Seq(Element) /\ \A x \in F!Range(els) : Holds(x) /\ SameRole(x)
  BY DEF Fit
<1>2. PICK after : after = F!RemoveAt(els, i)
  OBVIOUS
<1>3. /\ after \in Seq(Element) /\ Len(after) = Len(els) - 1
      /\ \A j \in 1..Len(after) : after[j] = IF j < i THEN els[j] ELSE els[j + 1]
  <2>1. i \in 1..Len(els) /\ Len(els) \in Nat
    BY <1>1
  <2>2. PICK a, b : a = SubSeq(els, 1, i - 1) /\ b = SubSeq(els, i + 1, Len(els))
    OBVIOUS
  <2>3. /\ a \in Seq(Element) /\ Len(a) = i - 1 /\ \A j \in 1..(i - 1) : a[j] = els[j]
    BY <1>1, <2>1, <2>2
  <2>4. /\ b \in Seq(Element) /\ Len(b) = Len(els) - i /\ \A j \in 1..(Len(els) - i) : b[j] = els[j + i]
    BY <1>1, <2>1, <2>2
  <2>5. after = a \o b
    BY <1>2, <2>2 DEF F!RemoveAt
  <2> QED BY <2>1, <2>3, <2>4, <2>5
<1>4. \A x \in F!Range(after) : x \in F!Range(els)
  <2> SUFFICES ASSUME NEW j \in 1..Len(after) PROVE after[j] \in F!Range(els)
    BY <1>3 DEF F!Range
  <2>1. j \in DOMAIN els /\ j + 1 \in DOMAIN els
    BY <1>1, <1>3
  <2>2. els[j] \in F!Range(els) /\ els[j + 1] \in F!Range(els)
    BY <2>1 DEF F!Range
  <2> QED BY <1>3, <2>2
<1> QED BY <1>1, <1>2, <1>3, <1>4 DEF Fit

(* A field takes a value.                                                      *)
LEMMA ValueTaken ==
  ASSUME FormKinds, NEW i \in DOMAIN page.els, NEW v \in Texts, ~Secret(v),
         page' = [page EXCEPT !.els[i].value = v],
         page.els[i].role # "button", page.els[i].role = "file-input" => v = "resume"
  PROVE  page' = [title |-> page.title, says |-> page.says, els |-> page'.els] /\ Fit(page'.els)
<1>1. PICK e, m : e = page.els[i] /\ m = [e EXCEPT !.value = v]
  OBVIOUS
<1>2. page.els \in Seq(Element) /\ e \in Element /\ e \in F!Range(page.els) /\ Holds(e) /\ SameRole(e)
  BY <1>1 DEF FormKinds, Fit, F!Range
<1>3. m \in Element /\ m.id = e.id /\ m.role = e.role /\ m.value = v
  BY <1>1, <1>2 DEF Element
<1>4. Holds(m) /\ SameRole(m)
  BY <1>1, <1>2, <1>3 DEF Holds, SameRole
<1>5. PICK after : after = [page.els EXCEPT ![i] = m]
  OBVIOUS
<1>6. page' = [title |-> page.title, says |-> page.says, els |-> after]
  BY <1>1, <1>5 DEF FormKinds
<1>7. Fit(after)
  BY <1>3, <1>4, <1>5, OneChanges DEF FormKinds
<1>8. page'.els = after
  BY <1>6
<1> QED BY <1>6, <1>7, <1>8, Zenon

(* A planned field takes its fact, the resume's field the resume.              *)
LEMMA PutKeeps ==
  ASSUME FormKinds, NEW f \in F!Range(firstSeen.els), NEW v \in Texts, ~Secret(v), F!Put(f.id, v),
         f.role # "button", f.role = "file-input" => v = "resume"
  PROVE  page' = [title |-> page.title, says |-> page.says, els |-> page'.els] /\ Fit(page'.els)
<1>1. PICK i \in DOMAIN page.els : page.els[i].id = f.id /\ page' = [page EXCEPT !.els[i].value = v]
  BY DEF F!Put
<1>2. page.els[i].role = f.role
  BY <1>1 DEF FormKinds, Fit, SameRole, F!Range
<1> QED BY <1>1, <1>2, ValueTaken

(* What was first inspected and the facts stay, and with them what is said of   *)
(* them.                                                                       *)
LEMMA SameFit ==
  ASSUME facts' = facts, firstSeen' = firstSeen
  PROVE  /\ Known' = Known
         /\ Fit(page.els)' = Fit(page'.els)
         /\ Fit(seen.els)' = Fit(seen'.els)
BY DEF Known, Fit, Holds, SameRole, Secret


(* So is what is planned,                                                      *)
LEMMA SamePlan ==
  ASSUME facts' = facts, firstSeen' = firstSeen
  PROVE  F!Parks(firstSeen)' = F!Parks(firstSeen) /\ F!ToFill(firstSeen.els)' = F!ToFill(firstSeen.els)
<1>1. \A f : F!PlanField(f)' = F!PlanField(f)
  BY DEF F!PlanField
<1>2. \A f : F!Chosen(f)' = F!Chosen(f)
  BY DEF F!Chosen, F!PlanField
<1>3. \A f : F!ToDecide(f)' = F!ToDecide(f)
  BY DEF F!ToDecide, F!Chosen, F!PlanField
<1>4. F!ToFill(firstSeen.els)' = F!ToFill(firstSeen.els)
  BY DEF F!ToFill, F!ToDecide, F!Chosen, F!PlanField
<1>5. F!Parks(firstSeen)' = F!Parks(firstSeen)
  BY DEF F!Parks, F!ToFill, F!ToDecide, F!Chosen, F!PlanField
<1> QED BY <1>4, <1>5

(* and what differs from it.                                                   *)
LEMMA SameDiff ==
  ASSUME facts' = facts, firstSeen' = firstSeen
  PROVE  F!Wrong(seen)' = F!Wrong(seen')
BY DEF F!Wrong, F!ToFill, F!ToDecide, F!Chosen, F!PlanField, F!Value

(* At the start.                                                               *)
LEMMA FormStarts == F!Init => FormInv
<1> SUFFICES ASSUME F!Init PROVE FormInv
  OBVIOUS
<1>1. Known /\ page \in Pages /\ firstSeen = page /\ seen = page
  BY DEF F!Init, Known
<1>2. Fit(page.els)
  <2>1. \A e \in F!Range(page.els) : Holds(e)
    BY <1>1, PageIs DEF Holds, F!ValueRoles
  <2>2. \A e \in F!Range(page.els) : SameRole(e)
    <3>1. \A i, j \in DOMAIN page.els : page.els[i].id = page.els[j].id => i = j
      BY <1>1, PagesAssumption
    <3> QED BY <1>1, <3>1 DEF SameRole, F!Range
  <2> QED BY <1>1, <2>1, <2>2, PageIs DEF Fit
<1>3. FormKinds
  BY <1>1, <1>2, PageIs DEF F!Init, FormKinds
<1>4. pin.at # "" => pin.at \notin Home
  <2>1. PICK resume \in Resumes : pin \in F!LoadUploads(resume, disk)
    BY DEF F!Init
  <2>2. /\ ~(~resume.wellFormed \/ resume.type \notin F!UPLOAD_EXTENSIONS \/ disk.at \in Home)
        /\ pin \in {[at |-> IF disk.is \in {"link", "missing"} THEN "" ELSE disk.at, sha |-> resume.sha]}
    BY <2>1, Zenon DEF F!LoadUploads
  <2>3. PICK there : there = IF disk.is \in {"link", "missing"} THEN "" ELSE disk.at
    OBVIOUS
  <2>4. pin = [at |-> there, sha |-> resume.sha]
    BY <2>2, <2>3, Zenon
  <2>5. pin.at = there
    BY <2>4
  <2> QED BY <2>2, <2>3, <2>5
<1> QED BY <1>3, <1>4 DEF F!Init, FormInv, Untouched, LeavingSeen, InOrder, Designated, Before

(* A fact that is filled in is no secret; nor is what a page or a file says.    *)
LEMMA TellsNoSecret ==
  ASSUME Known
  PROVE  /\ ~Secret("page") /\ ~Secret("resume")
         /\ \A f : F!PlanField(f) = "fill" => F!Value(f) \in Texts /\ ~Secret(F!Value(f))
<1>1. ~Secret("page") /\ ~Secret("resume")
  BY FactsAre DEF Secret
<1>2. ASSUME NEW f, F!PlanField(f) = "fill"
      PROVE  F!Value(f) \in Texts /\ ~Secret(F!Value(f))
  <2>1. PICK k : k = F!Asked(f.label)
    OBVIOUS
  <2>2. k \in DOMAIN facts /\ facts[k].class \in {"public", "application"} /\ F!Value(f) = facts[k].value
    BY <1>2, <2>1, FillIs DEF F!Value
  <2> QED BY <2>2, FactsAre DEF Secret, Texts
<1> QED BY <1>1, <1>2

(* A page that changes itself keeps to its roles and knows no secret.          *)
LEMMA ShiftsKeeps ==
  ASSUME FormKinds, F!Shifts
  PROVE  page' = [title |-> page'.title, says |-> page'.says, els |-> page'.els] /\ Fit(page'.els)
<1>0. /\ page = [title |-> page.title, says |-> page.says, els |-> page.els]
      /\ Fit(page.els) /\ Known /\ firstSeen \in Pages /\ page.els \in Seq(Element)
  BY DEF FormKinds, Fit
<1>1. ASSUME NEW els, page' = [page EXCEPT !.els = els], Fit(els)
      PROVE  page' = [title |-> page'.title, says |-> page'.says, els |-> page'.els] /\ Fit(page'.els)
  <2>1. page' = [title |-> page.title, says |-> page.says, els |-> els]
    BY <1>0, <1>1
  <2> QED BY <1>1, <2>1
<1>2. ASSUME NEW i \in DOMAIN page.els, NEW m \in Element, page' = [page EXCEPT !.els = [page.els EXCEPT ![i] = m]],
             m.id = page.els[i].id, m.role = page.els[i].role, m.value = page.els[i].value
      PROVE  page' = [title |-> page'.title, says |-> page'.says, els |-> page'.els] /\ Fit(page'.els)
  <2>1. Holds(page.els[i]) /\ SameRole(page.els[i])
    BY <1>0 DEF Fit, F!Range
  <2>2. Holds(m) /\ SameRole(m)
    BY <1>2, <2>1 DEF Holds, SameRole
  <2>3. Fit([page.els EXCEPT ![i] = m])
    BY <1>0, <2>2, OneChanges
  <2> QED BY <1>1, <1>2, <2>3
<1>3. ASSUME NEW e \in Extras, page' = [page EXCEPT !.els = Append(@, e)]
      PROVE  page' = [title |-> page'.title, says |-> page'.says, els |-> page'.els] /\ Fit(page'.els)
  BY <1>0, <1>1, <1>3, OneComes
<1>4. ASSUME NEW i \in DOMAIN page.els
      PROVE  /\ page' = [page EXCEPT !.els = F!RemoveAt(@, i)]
                => page' = [title |-> page'.title, says |-> page'.says, els |-> page'.els] /\ Fit(page'.els)
             /\ page' = [page EXCEPT !.els[i].disabled = ~@]
                => page' = [title |-> page'.title, says |-> page'.says, els |-> page'.els] /\ Fit(page'.els)
             /\ page' = [page EXCEPT !.els[i].form = 2]
                => page' = [title |-> page'.title, says |-> page'.says, els |-> page'.els] /\ Fit(page'.els)
             /\ page' = [page EXCEPT !.els[i].checked = TRUE]
                => page' = [title |-> page'.title, says |-> page'.says, els |-> page'.els] /\ Fit(page'.els)
             /\ page.els[i].role \in {"textbox", "combobox"} /\ page' = [page EXCEPT !.els[i].value = "page"]
                => page' = [title |-> page'.title, says |-> page'.says, els |-> page'.els] /\ Fit(page'.els)
  <2>0. PICK e : e = page.els[i] /\ e \in Element
    BY <1>0
  <2>1. ASSUME page' = [page EXCEPT !.els = F!RemoveAt(@, i)]
        PROVE  page' = [title |-> page'.title, says |-> page'.says, els |-> page'.els] /\ Fit(page'.els)
    BY <1>0, <1>1, <2>1, OneGoes
  <2>2. ASSUME page' = [page EXCEPT !.els[i].disabled = ~@]
        PROVE  page' = [title |-> page'.title, says |-> page'.says, els |-> page'.els] /\ Fit(page'.els)
    <3>1. PICK m : m = [e EXCEPT !.disabled = ~@]
      OBVIOUS
    <3>2. m \in Element /\ m.id = e.id /\ m.role = e.role /\ m.value = e.value
      BY <2>0, <3>1 DEF Element
    <3>3. page' = [page EXCEPT !.els = [page.els EXCEPT ![i] = m]]
      BY <1>0, <2>0, <2>2, <3>1
    <3> QED BY <1>2, <2>0, <3>2, <3>3
  <2>3. ASSUME page' = [page EXCEPT !.els[i].form = 2]
        PROVE  page' = [title |-> page'.title, says |-> page'.says, els |-> page'.els] /\ Fit(page'.els)
    <3>1. PICK m : m = [e EXCEPT !.form = 2]
      OBVIOUS
    <3>2. m \in Element /\ m.id = e.id /\ m.role = e.role /\ m.value = e.value
      BY <2>0, <3>1 DEF Element
    <3>3. page' = [page EXCEPT !.els = [page.els EXCEPT ![i] = m]]
      BY <1>0, <2>0, <2>3, <3>1
    <3> QED BY <1>2, <2>0, <3>2, <3>3
  <2>4. ASSUME page' = [page EXCEPT !.els[i].checked = TRUE]
        PROVE  page' = [title |-> page'.title, says |-> page'.says, els |-> page'.els] /\ Fit(page'.els)
    <3>1. PICK m : m = [e EXCEPT !.checked = TRUE]
      OBVIOUS
    <3>2. m \in Element /\ m.id = e.id /\ m.role = e.role /\ m.value = e.value
      BY <2>0, <3>1 DEF Element
    <3>3. page' = [page EXCEPT !.els = [page.els EXCEPT ![i] = m]]
      BY <1>0, <2>0, <2>4, <3>1
    <3> QED BY <1>2, <2>0, <3>2, <3>3
  <2>5. ASSUME page.els[i].role \in {"textbox", "combobox"}, page' = [page EXCEPT !.els[i].value = "page"]
        PROVE  page' = [title |-> page'.title, says |-> page'.says, els |-> page'.els] /\ Fit(page'.els)
    <3>1. page' = [title |-> page.title, says |-> page.says, els |-> page'.els] /\ Fit(page'.els)
      <4>0. ~Secret("page")
        BY <1>0, TellsNoSecret
      <4>1. "page" \in Texts /\ ~Secret("page")
        BY <4>0 DEF Texts
      <4>2. page.els[i].role # "button" /\ page.els[i].role # "file-input"
        BY <2>5
      <4>3. FormKinds /\ i \in DOMAIN page.els /\ page' = [page EXCEPT !.els[i].value = "page"]
        BY <2>5
      <4> QED BY ONLY <4>1, <4>2, <4>3, ValueTaken
    <3>2. page'.title = page.title /\ page'.says = page.says
      BY <3>1
    <3> QED BY <3>1, <3>2
  <2> QED BY <2>1, <2>2, <2>3, <2>4, <2>5
<1>5. ASSUME NEW w, page' = [page EXCEPT !.says = @ \cup {w}]
      PROVE  page' = [title |-> page'.title, says |-> page'.says, els |-> page'.els] /\ Fit(page'.els)
  <2>1. page' = [title |-> page.title, says |-> page.says \cup {w}, els |-> page.els]
    BY <1>0, <1>5
  <2> QED BY <1>0, <2>1
<1> QED BY <1>3, <1>4, <1>5 DEF F!Shifts

(* A step.                                                                     *)
LEMMA FormSteps == FormInv /\ [F!Next]_F!vars => FormInv'
<1> SUFFICES ASSUME FormInv, [F!Next]_F!vars PROVE FormInv'
  OBVIOUS
<1>0. FormKinds /\ Untouched /\ LeavingSeen /\ InOrder /\ Designated
  BY DEF FormInv
<1>1. facts' = facts /\ firstSeen' = firstSeen /\ pin' = pin
  BY <1>0 DEF FormKinds, F!Next, F!vars, F!Open, F!Inspect, F!Decide, F!Fill, F!Compare, F!GiveUp, F!Click, F!Answer,
       F!Attach, F!Shifts, F!SendsItself, F!DiskChanges
<1>2. /\ Known' = Known /\ Fit(page.els)' = Fit(page'.els) /\ Fit(seen.els)' = Fit(seen'.els)
      /\ F!Parks(firstSeen)' = F!Parks(firstSeen) /\ F!Wrong(seen)' = F!Wrong(seen')
  BY <1>1, SameFit, SamePlan, SameDiff
<1> USE DEF FormKinds, Untouched, LeavingSeen, InOrder, Designated, Before, Outcomes, F!Ends, F!Goto, F!Refusals
<1>3. ASSUME UNCHANGED <<page, seen>>,
             at' \in {"open", "inspect"} => at \in {"open", "inspect"},
             left' \in BOOLEAN, moved' \in BOOLEAN, UNCHANGED filled
      PROVE  FormKinds'
  BY <1>0, <1>1, <1>2, <1>3
<1>4. CASE F!Open
  BY <1>0, <1>1, <1>2, <1>3, <1>4 DEF FormInv, F!Open
<1>5. CASE F!Inspect
  <2>0. filled' = filled
    BY <1>5 DEF F!Inspect
  <2>1. FormKinds'
    BY <1>0, <1>1, <1>2, <1>5, <2>0 DEF F!Inspect
  <2> QED BY <1>0, <1>1, <1>2, <1>5, <2>1 DEF FormInv, F!Inspect
<1>6. CASE F!Decide
  BY <1>0, <1>1, <1>2, <1>3, <1>6 DEF FormInv, F!Decide
<1>7. CASE F!Fill
  <2>1. /\ at = "fill" /\ at' \in {"fill", "give up", "attach"}
        /\ UNCHANGED <<disk, pin, attached, seen, firstSeen, moved, left, outcome>>
    BY <1>7 DEF F!Fill
  <2>2. page' = [title |-> page.title, says |-> page.says, els |-> page'.els] /\ Fit(page'.els)
    <3>1. CASE page' = page
      BY <1>0, <3>1
    <3>2. CASE page' # page
      <4>1. PICK plan, f : /\ plan = F!ToFill(firstSeen.els) /\ f = plan[filled + 1]
                           /\ filled < Len(plan) /\ F!Put(f.id, F!Value(f))
        BY <1>7, <3>2 DEF F!Fill
      <4>2. firstSeen.els \in Seq(Element) /\ Known
        BY <1>0, PageIs
      <4>3. plan \in Seq(Element) /\ \A x \in F!Range(plan) : /\ x \in F!Range(firstSeen.els) /\ x.role # "button"
                                                          /\ F!ToDecide(x) /\ F!PlanField(x) = "fill"
        BY <4>1, <4>2, FieldsAre
      <4>4. f \in F!Range(plan)
        <5>0. Len(plan) \in Nat /\ DOMAIN plan = 1..Len(plan) /\ filled \in Nat /\ filled < Len(plan)
          <6>1. Len(plan) \in Nat /\ DOMAIN plan = 1..Len(plan)
            BY <4>3
          <6> QED BY <1>0, <4>1, <6>1
        <5>1. filled + 1 \in DOMAIN plan
          BY ONLY <5>0
        <5> QED BY <4>1, <5>1 DEF F!Range
      <4>5. f \in F!Range(firstSeen.els) /\ f.role \notin {"button", "file-input"} /\ F!PlanField(f) = "fill"
        BY <4>3, <4>4 DEF F!ToDecide
      <4>6. F!Value(f) \in Texts /\ ~Secret(F!Value(f))
        BY <4>2, <4>5, TellsNoSecret
      <4>7. FormKinds /\ F!Put(f.id, F!Value(f))
        BY <1>0, <4>1
      <4> QED BY ONLY <4>5, <4>6, <4>7, PutKeeps
    <3> QED BY <3>1, <3>2
  <2>3. filled' \in Nat
    <3>1. filled' \in {filled, filled + 1}
      BY <1>7, Zenon DEF F!Fill
    <3>2. filled \in Nat
      BY <1>0
    <3> QED BY ONLY <3>1, <3>2
  <2>4. FormKinds'
    BY <1>0, <1>1, <1>2, <2>1, <2>2, <2>3
  <2> QED BY <1>0, <1>1, <1>2, <2>1, <2>4 DEF FormInv
<1>8. CASE F!Attach
  <2>1. /\ at = "attach" /\ at' \in {"give up", "compare"} /\ UNCHANGED <<filled, disk, pin, seen, firstSeen, moved, left, outcome>>
    BY <1>8 DEF F!Attach
  <2>2. /\ page' = [title |-> page.title, says |-> page.says, els |-> page'.els] /\ Fit(page'.els)
        /\ attached' = attached \/ (attached' = {disk} /\ F!Resolves)
    <3>1. CASE page' = page /\ attached' = attached
      BY <1>0, <3>1
    <3>2. CASE ~(page' = page /\ attached' = attached)
      <4>1. PICK list, f : /\ list = F!ResumeFields(firstSeen.els) /\ f = list[1]
                           /\ F!Resolves /\ attached' = {disk} /\ F!Put(f.id, "resume")
        BY <1>8, <3>2 DEF F!Attach
      <4>2. firstSeen.els \in Seq(Element) /\ Known
        BY <1>0, PageIs
      <4>3. list \in Seq(Element) /\ \A x \in F!Range(list) : x \in F!Range(firstSeen.els) /\ x.role = "file-input"
        BY <4>1, <4>2, FieldsAre
      <4>4. f \in F!Range(list)
        <5>1. Len(list) = 1
          BY <1>0, <2>1, <4>1 DEF F!Parks
        <5>2. 1 \in DOMAIN list
          BY <4>3, <5>1
        <5> QED BY <4>1, <5>2 DEF F!Range
      <4>5. f \in F!Range(firstSeen.els) /\ f.role = "file-input"
        BY <4>3, <4>4
      <4>61. ~Secret("resume")
        BY <4>2, TellsNoSecret
      <4>6. "resume" \in Texts /\ ~Secret("resume")
        BY <4>61 DEF Texts
      <4>7. FormKinds /\ F!Put(f.id, "resume")
        BY <1>0, <4>1
      <4>8. page' = [title |-> page.title, says |-> page.says, els |-> page'.els] /\ Fit(page'.els)
        BY ONLY <4>5, <4>6, <4>7, PutKeeps
      <4> QED BY <4>1, <4>8
    <3> QED BY <3>1, <3>2
  <2>3. FormKinds'
    BY <1>0, <1>1, <1>2, <2>1, <2>2
  <2>4. Designated'
    BY <1>0, <1>1, <2>2 DEF F!Resolves
  <2> QED BY <1>0, <1>1, <1>2, <2>1, <2>3, <2>4 DEF FormInv
<1>9. CASE F!Compare
  <2>1. FormKinds'
    BY <1>0, <1>1, <1>2, <1>9 DEF F!Compare
  <2> QED BY <1>0, <1>1, <1>2, <1>9, <2>1 DEF FormInv, F!Compare
<1>10. CASE F!GiveUp
  BY <1>0, <1>1, <1>2, <1>3, <1>10 DEF FormInv, F!GiveUp
<1>11. CASE F!Click
  BY <1>0, <1>1, <1>2, <1>3, <1>11 DEF FormInv, F!Click
<1>12. CASE F!Answer
  BY <1>0, <1>1, <1>2, <1>3, <1>12 DEF FormInv, F!Answer
<1>13. CASE F!Shifts
  <2>1. page' = [title |-> page'.title, says |-> page'.says, els |-> page'.els] /\ Fit(page'.els)
    BY <1>0, <1>13, ShiftsKeeps
  <2>2. /\ at \notin {"open", "inspect", "ended"}
        /\ UNCHANGED <<disk, pin, attached, seen, firstSeen, at, filled, moved, left, outcome>>
    BY <1>13 DEF F!Shifts, F!MayChange
  <2>3. FormKinds'
    BY <1>0, <1>1, <1>2, <2>1, <2>2
  <2> QED BY <1>0, <1>1, <1>2, <2>2, <2>3 DEF FormInv
<1>14. CASE F!SendsItself
  <2>1. left' \in BOOLEAN
    BY <1>0, <1>14 DEF F!SendsItself
  <2>2. /\ at \notin {"open", "inspect", "ended"}
        /\ UNCHANGED <<page, disk, pin, attached, seen, firstSeen, at, filled, outcome>>
        /\ moved' = TRUE /\ left' = (left \/ filled > 0 \/ attached # {})
    BY <1>14 DEF F!SendsItself, F!MayChange
  <2>3. FormKinds'
    BY <1>0, <1>1, <1>2, <1>3, <2>1, <2>2
  <2>4. Untouched'
    <3>1. at = "decide" => filled = 0 /\ attached = {} /\ ~left
      BY <1>0
    <3>2. at = "decide" => ~(left \/ filled > 0 \/ attached # {})
      BY <3>1
    <3>3. at = "decide" => ~left'
      BY <2>2, <3>2, Zenon
    <3> QED BY <2>2, <3>1, <3>3
  <2> QED BY <1>0, <1>1, <1>2, <2>2, <2>3, <2>4 DEF FormInv
<1>15. CASE F!DiskChanges
  BY <1>0, <1>1, <1>2, <1>3, <1>15 DEF FormInv, F!DiskChanges, F!MayChange
<1>16. CASE UNCHANGED F!vars
  BY <1>0, <1>1, <1>2, <1>3, <1>16 DEF FormInv, F!vars
<1> QED BY <1>4, <1>5, <1>6, <1>7, <1>8, <1>9, <1>10, <1>11, <1>12, <1>13, <1>14, <1>15, <1>16 DEF F!Next

(* What the invariant says of the form that is clicked away.                   *)
LEMMA FormMeans == FormInv => FormIsMeant
<1> SUFFICES ASSUME FormInv PROVE FormIsMeant
  OBVIOUS
<1>0. FormKinds /\ Untouched /\ LeavingSeen /\ InOrder /\ Designated
  BY DEF FormInv
<1>1. at \in {"click", "answer"} =>
        /\ seen.says \cap {"forbidden", "attestation"} = {}
        /\ \A e \in F!Range(F!PageFields(seen.els)) :
             ~e.checked /\ (e.value \in {"", "resume"} \/ F!Answers(e) \/ F!Twin(e))
  <2> SUFFICES ASSUME at \in {"click", "answer"} PROVE Compared
    BY ComparedMeant
  <2> QED BY <1>0 DEF FormKinds, InOrder, Compared
<1>2. \A e \in F!Range(page.els), k \in DOMAIN facts :
        e.value = facts[k].value => facts[k].class \in {"public", "application"}
  BY <1>0 DEF FormKinds, Fit, Holds, Secret
<1>3. \A d \in attached : /\ d.is = "file" /\ pin.sha \in {"", d.content}
                          /\ pin.at # "" => d.at = pin.at /\ d.at \notin Home
  BY <1>0 DEF Designated
<1>4. at = "ended" /\ F!ExitCode = 3 => ~left
  <2>1. at = "ended" /\ F!ExitCode = 3 => outcome = "parked"
    BY <1>0 DEF LeavingSeen, Outcomes, F!ExitCode
  <2> QED BY <1>0, <2>1 DEF LeavingSeen
<1> QED BY <1>1, <1>2, <1>3, <1>4 DEF FormIsMeant, F!FormIsMeant

(* What is clicked away is what was meant, for any pages, facts, files and any   *)
(* number of changes the page or the disk makes in between: each field holds an  *)
(* answer of the user's own that it asks for, or nothing (planField, the form    *)
(* diff); nothing the user does not tell is in any field; the file is the one    *)
(* designated (resolveUpload); and no form that sent itself is called parked     *)
(* (giveUp, applyCommand).                                                       *)
THEOREM FormMeant == F!Spec => []FormIsMeant
BY FormStarts, FormSteps, FormMeans, PTL DEF F!Spec

=============================================================================
