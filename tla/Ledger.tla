------------------------------- MODULE Ledger -------------------------------
(***************************************************************************)
(* The application ledger and the job-apply engine that writes it          *)
(* (ledger.ts, job-apply.ts, apply-command.ts).  A user may run several    *)
(* apply commands at once; each is a process with a session on a page,     *)
(* and they share one SQLite table.  A process may die at any moment, a    *)
(* page may submit itself, an answer may never come, the user may close    *)
(* rows by hand, and the machine's clock may be set back.                  *)
(*                                                                         *)
(* Every synchronous stretch of a process is one action: the tools it      *)
(* awaits are the points between.  Rows are never removed here: a row the  *)
(* code deletes is "gone", as its number is never used again.  "real" is   *)
(* the time that really passed, "clock" what the machine says.             *)
(***************************************************************************)
EXTENDS Integers, FiniteSets, Sequences

CONSTANTS Proc, Job, Site,
          SiteOf,       \* SiteOf[j]: the platform of posting j
          Alike,        \* Alike[j]: the postings duplicate() takes for j, j too
          PerDay, PerHour, PerSiteDay, MinGap,  \* the caps
          Hour, Day, Month,                     \* the windows
          MaxLead,      \* MAX_LEAD_MS
          TimerPages,   \* the postings whose pages submit themselves at any time, not
                        \* only while they are filled
          ClockMoves,   \* subset of {"back", "forward"}: how the clock is reset
          MaxTime, MaxRows, MaxSteps  \* bounds: time, rows, resets of the clock

ASSUME LedgerAssumption ==
  /\ SiteOf \in [Job -> Site]
  /\ Alike \in [Job -> SUBSET Job]
  /\ \A j \in Job : j \in Alike[j]
  /\ \A i, j \in Job : i \in Alike[j] => j \in Alike[i]
  /\ {PerDay, PerHour, PerSiteDay, MinGap, Hour, Day, Month, MaxLead} \subseteq Nat
  /\ {MaxTime, MaxRows, MaxSteps} \subseteq Nat
  /\ TimerPages \subseteq Job
  /\ ClockMoves \subseteq {"back", "forward"}

VARIABLES
  rows,     \* the applications table
  paused,   \* the site_pauses table
  pc,       \* where the engine of each process is
  job,      \* the posting it applies to
  mine,     \* the row it wrote, or looks at; 0 for none
  floor,    \* Ledger.floor
  clock,
  real,
  steps     \* resets of the clock so far

vars == <<rows, paused, pc, job, mine, floor, clock, real, steps>>

States == {"intended", "confirmed", "failed", "gone"}

\* at is the time the ledger has for a row; made the real time it was written;
\* sent whether an application left the browser under it.
Row == [job : Job, state : States, at : Int, made : Nat, sent : BOOLEAN]

TypeOK ==
  /\ rows \in Seq(Row)
  /\ paused \subseteq Site
  /\ pc \in [Proc -> {"idle", "page", "filling", "ready", "judging", "answer",
                      "closing", "verifying"}]
  /\ job \in [Proc -> Job]
  /\ mine \in [Proc -> 0..Len(rows)]
  /\ floor \in [Proc -> Int]
  /\ clock \in Int
  /\ real \in Nat
  /\ steps \in Nat

-----------------------------------------------------------------------------
(* The ledger's clock. *)

TooFarAhead(f) == f > clock + MaxLead

\* now() and repair(): the rows as they are once a process whose floor is f has
\* read the time.
RowsAt(f) ==
  IF ~TooFarAhead(f) THEN rows
  ELSE [i \in DOMAIN rows |->
          IF rows[i].at > clock + MaxLead THEN [rows[i] EXCEPT !.at = clock] ELSE rows[i]]

\* now(): the time it reads, which becomes its floor.
Now(f) == IF TooFarAhead(f) \/ f < clock THEN clock ELSE f

\* The times in the table, and the last of them: the floor of a ledger that is
\* opened.
Times == {0} \cup {rows[i].at : i \in {k \in DOMAIN rows : rows[k].state # "gone"}}
LastTime == {t \in Times : \A u \in Times : u <= t}

-----------------------------------------------------------------------------
(* The decisions, on table rs at time now. *)

\* The rows that count, from some time on.
Live(rs, since) ==
  {i \in DOMAIN rs : rs[i].state \in {"intended", "confirmed"} /\ rs[i].at >= since}

Duplicate(j, rs, now) == \E i \in Live(rs, now - Month) : rs[i].job \in Alike[j]

\* mutant: the hour may hold one more than its cap
WithinCapsHourMore(j, rs, now) ==
  LET day == Live(rs, now - Day)
  IN /\ Cardinality(day) < PerDay
     /\ Cardinality(Live(rs, now - Hour)) <= PerHour
     /\ Cardinality({i \in day : SiteOf[rs[i].job] = SiteOf[j]}) < PerSiteDay
     /\ \A i \in day : now - rs[i].at >= MinGap

\* mutant: the day may hold one more than its cap
WithinCapsDayMore(j, rs, now) ==
  LET day == Live(rs, now - Day)
  IN /\ Cardinality(day) <= PerDay
     /\ Cardinality(Live(rs, now - Hour)) < PerHour
     /\ Cardinality({i \in day : SiteOf[rs[i].job] = SiteOf[j]}) < PerSiteDay
     /\ \A i \in day : now - rs[i].at >= MinGap

\* mutant: a site may have one more in a day than its cap
WithinCapsSiteMore(j, rs, now) ==
  LET day == Live(rs, now - Day)
  IN /\ Cardinality(day) < PerDay
     /\ Cardinality(Live(rs, now - Hour)) < PerHour
     /\ Cardinality({i \in day : SiteOf[rs[i].job] = SiteOf[j]}) <= PerSiteDay
     /\ \A i \in day : now - rs[i].at >= MinGap

\* mutant: the gap is not kept
WithinCapsNoGap(j, rs, now) ==
  LET day == Live(rs, now - Day)
  IN /\ Cardinality(day) < PerDay
     /\ Cardinality(Live(rs, now - Hour)) < PerHour
     /\ Cardinality({i \in day : SiteOf[rs[i].job] = SiteOf[j]}) < PerSiteDay

WithinCaps(j, rs, now) ==
  LET day == Live(rs, now - Day)
  IN /\ Cardinality(day) < PerDay
     /\ Cardinality(Live(rs, now - Hour)) < PerHour
     /\ Cardinality({i \in day : SiteOf[rs[i].job] = SiteOf[j]}) < PerSiteDay
     /\ \A i \in day : now - rs[i].at >= MinGap

MayStart(j, rs, now) == ~Duplicate(j, rs, now) /\ WithinCaps(j, rs, now)

-----------------------------------------------------------------------------
(* One application. *)

Init ==
  /\ rows = <<>>
  /\ paused = {}
  /\ pc = [p \in Proc |-> "idle"]
  /\ job \in [Proc -> Job]
  /\ mine = [p \in Proc |-> 0]
  /\ floor = [p \in Proc |-> 0]
  /\ clock = 1
  /\ real = 1
  /\ steps = 0

Goto(p, where) == pc' = [pc EXCEPT ![p] = where]
SetState(i, s) == rows' = [rows EXCEPT ![i].state = s]
Sends(i, s) == rows' = [rows EXCEPT ![i].sent = @ \/ s]

\* The first lines of applyToJob: the pause, the duplicate and the caps.
Start(p, j) ==
  /\ pc[p] = "idle"
  /\ SiteOf[j] \notin paused
  /\ \E f \in LastTime :
       /\ rows' = RowsAt(f)
       /\ floor' = [floor EXCEPT ![p] = Now(f)]
       /\ MayStart(j, RowsAt(f), Now(f))
  /\ job' = [job EXCEPT ![p] = j]
  /\ mine' = [mine EXCEPT ![p] = 0]
  /\ Goto(p, "page")
  /\ UNCHANGED <<paused, clock, real, steps>>

\* pauseSite, by a process whose page says to slow down.
PauseSite(p, site) ==
  /\ paused' = paused \cup {site}
  /\ rows' = RowsAt(floor[p])
  /\ floor' = [floor EXCEPT ![p] = Now(floor[p])]

\* The page is opened and read; the run parks, fails or pauses the site.
TurnBack(p) ==
  /\ pc[p] = "page"
  /\ \/ UNCHANGED <<rows, paused, floor>>
     \/ PauseSite(p, SiteOf[job[p]])
  /\ Goto(p, "idle")
  /\ UNCHANGED <<job, mine, clock, real, steps>>

\* mutant: the caps and duplicates were looked at when the run began
IntendUnchecked(p) ==
  /\ pc[p] = "page"
  /\ Len(rows) < MaxRows
  /\ LET rs == RowsAt(floor[p])
         now == Now(floor[p])
         row == [job |-> job[p], state |-> "intended", at |-> now, made |-> real, sent |-> FALSE]
     IN /\ rows' = Append(rs, row)
        /\ mine' = [mine EXCEPT ![p] = Len(rows) + 1]
        /\ floor' = [floor EXCEPT ![p] = now]
  /\ Goto(p, "filling")
  /\ UNCHANGED <<paused, job, clock, real, steps>>

\* intend: the decision again and the row, in one write transaction; a refusal
\* rolls back what now() repaired.
Intend(p) ==
  /\ pc[p] = "page"
  /\ Len(rows) < MaxRows
  /\ LET rs == RowsAt(floor[p])
         now == Now(floor[p])
         row == [job |-> job[p], state |-> "intended", at |-> now, made |-> real, sent |-> FALSE]
     IN /\ \/ /\ MayStart(job[p], rs, now)
              /\ rows' = Append(rs, row)
              /\ mine' = [mine EXCEPT ![p] = Len(rows) + 1]
              /\ Goto(p, "filling")
           \/ /\ ~MayStart(job[p], rs, now)
              /\ Goto(p, "idle")
              /\ UNCHANGED <<rows, mine>>
        /\ floor' = [floor EXCEPT ![p] = now]
  /\ UNCHANGED <<paused, job, clock, real, steps>>

\* The form is filled and compared with the plan; the page may send itself.
Fill(p) ==
  /\ pc[p] = "filling"
  /\ \E s \in BOOLEAN : Sends(mine[p], s)
  /\ \E where \in {"ready", "judging"} : Goto(p, where)
  /\ UNCHANGED <<paused, job, mine, floor, clock, real, steps>>

\* mutant: the row is taken back whatever the page did
GiveUpAlways(p) ==
  /\ pc[p] = "judging"
  /\ IF rows[mine[p]].state = "intended" THEN SetState(mine[p], "gone") ELSE UNCHANGED rows
  /\ Goto(p, "closing")
  /\ UNCHANGED <<paused, job, mine, floor, clock, real, steps>>

\* giveUp: a page that moved, as one that was sent has, keeps its row; for one
\* that did not, the row is taken back unless somebody closed it.
GiveUp(p) ==
  /\ pc[p] = "judging"
  /\ \/ UNCHANGED rows
     \/ /\ ~rows[mine[p]].sent
        /\ IF rows[mine[p]].state = "intended" THEN SetState(mine[p], "gone")
                                               ELSE UNCHANGED rows
  /\ Goto(p, "closing")
  /\ UNCHANGED <<paused, job, mine, floor, clock, real, steps>>

\* The click on the submit button: the application leaves, or it does not.
Click(p) ==
  /\ pc[p] = "ready"
  /\ \E s \in BOOLEAN : Sends(mine[p], s)
  /\ Goto(p, "answer")
  /\ UNCHANGED <<paused, job, mine, floor, clock, real, steps>>

\* confirm: only of a row that is still intended.
Confirm(i) ==
  IF rows[i].state = "intended" THEN SetState(i, "confirmed") ELSE UNCHANGED rows

\* What came back: a confirmation, nothing sure, or a request to slow down.
ReadAnswer(p) ==
  /\ pc[p] = "answer"
  /\ \/ Confirm(mine[p]) /\ UNCHANGED <<paused, floor>>
     \/ UNCHANGED <<rows, paused, floor>>
     \/ PauseSite(p, SiteOf[job[p]])
  /\ Goto(p, "closing")
  /\ UNCHANGED <<job, mine, clock, real, steps>>

\* A page with a timer sends itself while its session is open.
PageSends(p) ==
  /\ pc[p] \in {"filling", "ready", "judging", "answer", "closing"}
  /\ mine[p] # 0
  /\ rows[mine[p]].job \in TimerPages
  /\ Sends(mine[p], TRUE)
  /\ UNCHANGED <<paused, pc, job, mine, floor, clock, real, steps>>

\* The session is closed and the command ends; or the process dies, anywhere.
Leave(p) ==
  /\ pc[p] # "idle"
  /\ Goto(p, "idle")
  /\ mine' = [mine EXCEPT ![p] = 0]
  /\ UNCHANGED <<rows, paused, job, floor, clock, real, steps>>

-----------------------------------------------------------------------------
(* The user. *)

\* apply --verify, for one row of its list: its site is looked at, unless paused.
\* Every row was intended when it was listed; it may have been closed since.
Verify(p, i) ==
  /\ pc[p] = "idle"
  /\ SiteOf[rows[i].job] \notin paused
  /\ mine' = [mine EXCEPT ![p] = i]
  /\ \E f \in LastTime : floor' = [floor EXCEPT ![p] = f]
  /\ Goto(p, "verifying")
  /\ UNCHANGED <<rows, paused, job, clock, real, steps>>

\* The page says the application was received, truly or not, or says nothing,
\* or asks to slow down.
Verified(p) ==
  /\ pc[p] = "verifying"
  /\ \/ Confirm(mine[p]) /\ UNCHANGED <<paused, floor>>
     \/ UNCHANGED <<rows, paused, floor>>
     \/ PauseSite(p, SiteOf[rows[mine[p]].job])
  /\ Goto(p, "idle")
  /\ mine' = [mine EXCEPT ![p] = 0]
  /\ UNCHANGED <<job, clock, real, steps>>

\* apply --forget: the user says a row was not received; --even-if-recent lifts
\* the refusal of a row younger than two minutes.
Forget(i) ==
  /\ rows[i].state \in {"intended", "confirmed"}
  /\ SetState(i, "failed")
  /\ UNCHANGED <<paused, pc, job, mine, floor, clock, real, steps>>

\* apply --resume-site.
ResumeSite(s) ==
  /\ s \in paused
  /\ paused' = paused \ {s}
  /\ UNCHANGED <<rows, pc, job, mine, floor, clock, real, steps>>

-----------------------------------------------------------------------------
(* Time. *)

Tick ==
  /\ real < MaxTime
  /\ real' = real + 1
  /\ clock' = clock + 1
  /\ UNCHANGED <<rows, paused, pc, job, mine, floor, steps>>

\* The clock is set back, or set right again.
SetClock ==
  /\ steps < MaxSteps
  /\ steps' = steps + 1
  /\ clock' \in {c \in 1..(clock - 1) : "back" \in ClockMoves}
                \cup {c \in {real} : "forward" \in ClockMoves}
  /\ UNCHANGED <<rows, paused, pc, job, mine, floor, real>>

Next ==
  \/ \E p \in Proc, j \in Job : Start(p, j)
  \/ \E p \in Proc : \/ TurnBack(p) \/ Intend(p) \/ Fill(p) \/ GiveUp(p) \/ Click(p)
                     \/ ReadAnswer(p) \/ PageSends(p) \/ Leave(p) \/ Verified(p)
  \/ \E p \in Proc, i \in DOMAIN rows : Verify(p, i)
  \/ \E i \in DOMAIN rows : Forget(i)
  \/ \E s \in Site : ResumeSite(s)
  \/ Tick
  \/ SetClock

Spec == Init /\ [][Next]_vars

-----------------------------------------------------------------------------
(* Properties. *)

(* Nothing is sent unrecorded: an application that left the browser has a row, *)
(* over crashes, parked runs and a row closed by hand (intend before the form  *)
(* is touched, giveUp), unless its page has a timer.                           *)
SentIsRecorded ==
  \A i \in DOMAIN rows : rows[i].sent /\ rows[i].job \notin TimerPages => rows[i].state # "gone"

\* What a ledger's clock may be wrong by once the machine's was set back: the lead a
\* remembered time may have.
Slack == IF steps = 0 THEN 0 ELSE MaxLead

(* Nothing is sent twice: of two applications to the same posting within a     *)
(* month the user closed the first by hand, whichever processes sent them and  *)
(* died where (the write transaction of intend), and but for the lead though   *)
(* the clock is set back (repair).                                             *)
NoDoubleApply ==
  \A i, k \in DOMAIN rows :
    i < k /\ rows[i].sent /\ rows[k].sent /\ rows[i].job \in Alike[rows[k].job] \ TimerPages
      /\ rows[k].made - rows[i].made <= Month - Slack
    => rows[i].state = "failed"

\* The rows before row k that count against it, and those of its own site.
Counted(k, span) == {i \in 1..(k - 1) : /\ rows[i].state \in {"intended", "confirmed"}
                                       /\ rows[k].made - rows[i].made <= span - Slack}
CountedOnSite(k) == {i \in Counted(k, Day) : SiteOf[rows[i].job] = SiteOf[rows[k].job]}

(* The caps of an hour, of a day and of a day at one site, and the gap, bound  *)
(* what leaves in time that really passed, whichever processes send (the second*)
(* check inside intend), and but for the lead though the clock is set back     *)
(* (repair).                                                                   *)
CapsHold ==
  \A k \in DOMAIN rows :
    /\ Cardinality(Counted(k, Hour)) < PerHour
    /\ Cardinality(Counted(k, Day)) < PerDay
    /\ Cardinality(CountedOnSite(k)) < PerSiteDay
    /\ \A i \in Counted(k, Day) : rows[k].made - rows[i].made >= MinGap - Slack

(* A row the user closed, or a run took back, is never counted again (confirm, *)
(* retract and fail look at the state they leave).                             *)
ClosedStaysClosed ==
  [][\A i \in DOMAIN rows : rows[i].state \in {"failed", "gone"} => rows'[i].state = rows[i].state]_vars

=============================================================================
