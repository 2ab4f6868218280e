------------------------------ MODULE Pipeline ------------------------------
(***************************************************************************)
(* One run of the fixed five-phase pipeline (src/src/pipeline.ts), with    *)
(* the Overseer's decision (overseer.ts), the switch that ends a run early *)
(* (run-control.ts) and the rows the run leaves in the audit database      *)
(* (store.ts).                                                             *)
(*                                                                         *)
(* The program is single threaded: what runs between two awaits is one     *)
(* action.  The awaits are a phase's model session ("session"), the        *)
(* Overseer call ("overseer") and the closing of the browser and desktop   *)
(* sessions ("closing"); a stop request or the death of the process can    *)
(* fall at any of them.  runPhases, which only ever loses elements of      *)
(* PHASES, is the set inRun, and phases are numbered in pipeline order.    *)
(* The outcomes fail, blocked and inconclusive, which the loop treats      *)
(* alike, are one outcome "fail".                                          *)
(***************************************************************************)
EXTENDS Naturals, Sequences

CONSTANTS N,               \* PHASES.length; phase 1 is the planner
          TestDesigner,    \* the one member of SKIPPABLE_PHASES
          MaxRetries,      \* config.maxRetriesPerPhase
          MaxTotalRepairs  \* config.maxTotalRepairs

ASSUME PipelineAssumption ==
  /\ N \in Nat \ {0}
  /\ TestDesigner \in 2..N
  /\ MaxRetries \in Nat
  /\ MaxTotalRepairs \in Nat

Phase   == 1..N
Planner == 1
Outcome == {"pass", "fail"}

VARIABLES
  pc,            \* which await the run is at
  at,            \* runPhases[phaseIdx]
  verdict,       \* the verdict of the last session
  inRun,         \* runPhases
  attempts,      \* attemptCounts
  totalRepairs,  \* totalRepairs
  rows,          \* the phases table of this run, oldest row first
  finalStatus,   \* finalStatus
  record,        \* runs.status in the database
  stopped,       \* control.stopped
  announced      \* has the stop-requested event been emitted

vars == <<pc, at, verdict, inRun, attempts, totalRepairs, rows, finalStatus,
          record, stopped, announced>>

Row == [phase : Phase, attempt : Nat, status : {"running", "ok", "failed"},
        skipped : BOOLEAN]

TypeOK ==
  /\ pc \in {"start", "session", "overseer", "closing", "over", "dead"}
  /\ at \in Phase
  /\ verdict \in [outcome : Outcome, suggestedSkip : BOOLEAN]
  /\ inRun \subseteq Phase
  /\ attempts \in [Phase -> Nat]
  /\ totalRepairs \in Nat
  /\ rows \in Seq(Row)
  /\ finalStatus \in {"done", "stopped", "failed"}
  /\ record \in {"running", "done", "stopped", "failed"}
  /\ stopped \in BOOLEAN
  /\ announced \in BOOLEAN

-----------------------------------------------------------------------------
(* The audit rows. *)

StartedRow(p, a) == [phase |-> p, attempt |-> a, status |-> "running", skipped |-> FALSE]

SkippedRow(p) == [phase |-> p, attempt |-> 1, status |-> "ok", skipped |-> TRUE]

\* store.finishPhase on the row the session opened, which is the newest one.
Status(o) == IF o = "pass" THEN "ok" ELSE "failed"
FinishedRows(o) == [rows EXCEPT ![Len(rows)].status = Status(o)]

-----------------------------------------------------------------------------
(* What the Overseer may answer. *)

Decision(action, target) == [action |-> action, target |-> target]

\* Past the retry budget no model is asked: a pass goes on, anything else ends
\* the run.  Within it the model may answer anything; a repair it names comes
\* back bounded to a phase at or before p, and an unreadable answer is one of
\* these too (a pass continues, anything else repairs p).
OverseerDecisions(p, attempt, outcome) ==
  IF attempt > MaxRetries
  THEN {Decision(IF outcome = "pass" THEN "continue" ELSE "stop", p)}
  ELSE {Decision("continue", p), Decision("stop", p)}
         \cup {Decision("repair", t) : t \in 1..p}

\* mutant: the Overseer has the last word
EffectiveNoOverride(d, p, outcome) == d

\* The pipeline's own override: only a pass is continued past.
Effective(d, p, outcome) ==
  IF d.action = "continue" /\ outcome # "pass" THEN Decision("repair", p) ELSE d

\* isValidRepairTarget, and the phase itself for a target that is not valid.
RepairTarget(t, p) == IF t <= p /\ t \in inRun THEN t ELSE p

-----------------------------------------------------------------------------
(* The loop. *)

\* mutant: the break is missing where a stop is seen
BreakMissing(status) ==
  /\ pc' = IF status = "stopped" THEN pc ELSE "closing"
  /\ finalStatus' = status
  /\ UNCHANGED <<at, attempts>>

Break(status) ==
  /\ pc' = "closing"
  /\ finalStatus' = status
  /\ UNCHANGED <<at, attempts>>

\* The top of the loop for phase p, when the table already holds log: halt if
\* a stop was requested, otherwise open a row and start the session; a database
\* that refuses the row ends the run in the outer catch.
Turn(p, log) ==
  \/ /\ stopped
     /\ rows' = log
     /\ Break("stopped")
  \/ /\ ~stopped
     /\ at' = p
     /\ attempts' = [attempts EXCEPT ![p] = @ + 1]
     /\ \/ /\ rows' = Append(log, StartedRow(p, attempts[p] + 1))
           /\ pc' = "session"
           /\ UNCHANGED finalStatus
        \/ /\ rows' = log
           /\ pc' = "closing"
           /\ finalStatus' = "failed"

\* mutant: any later phase may come next
AdvanceAnywhere(p, live, log) ==
  \/ \E q \in live : q > p /\ Turn(q, log)
  \/ /\ \A r \in live : r <= p
     /\ rows' = log
     /\ Break(finalStatus)

\* The next phase of the sequence live after p, or the end of the loop.
Advance(p, live, log) ==
  \/ \E q \in live : /\ q > p
                     /\ \A r \in live : r > p => q <= r
                     /\ Turn(q, log)
  \/ /\ \A r \in live : r <= p
     /\ rows' = log
     /\ Break(finalStatus)

Init ==
  /\ pc = "start"
  /\ at = Planner
  /\ verdict = [outcome |-> "fail", suggestedSkip |-> FALSE]
  /\ inRun = Phase
  /\ attempts = [p \in Phase |-> 0]
  /\ totalRepairs = 0
  /\ rows = <<>>
  /\ finalStatus = "done"
  /\ record = "running"
  /\ stopped = FALSE
  /\ announced = FALSE

\* The listener is attached, an earlier stop is announced at once, and the
\* loop begins.
Begin ==
  /\ pc = "start"
  /\ announced' = stopped
  /\ Turn(Planner, rows)
  /\ UNCHANGED <<verdict, inRun, totalRepairs, record, stopped>>

\* The session ends, with a verdict or by throwing (which is a verdict too).
\* Only the planner's skip suggestion is ever looked at.  What is written and
\* read between the verdict and the Overseer call can be refused too.
SessionEnds ==
  /\ pc = "session"
  /\ \E o \in Outcome, s \in BOOLEAN :
       /\ s => at = Planner
       /\ verdict' = [outcome |-> o, suggestedSkip |-> s]
       /\ rows' = FinishedRows(o)
  /\ \/ stopped /\ Break("stopped")
     \/ ~stopped /\ pc' = "overseer" /\ UNCHANGED <<finalStatus, at, attempts>>
     \/ ~stopped /\ Break("failed")
  /\ UNCHANGED <<inRun, totalRepairs, record, stopped, announced>>

\* The database refuses the verdict of the session: the outer catch ends the run.
StoreFails ==
  /\ pc = "session"
  /\ Break("failed")
  /\ UNCHANGED <<verdict, inRun, totalRepairs, rows, record, stopped, announced>>

\* A skipped phase gets a row and leaves the run; its row can be refused, whole
\* or half written.
Continue ==
  /\ \/ /\ at = Planner
        /\ verdict.suggestedSkip
        /\ TestDesigner \in inRun
        /\ \/ /\ inRun' = inRun \ {TestDesigner}
              /\ Advance(at, inRun', Append(rows, SkippedRow(TestDesigner)))
           \/ /\ UNCHANGED inRun
              /\ rows' \in {rows, Append(rows, StartedRow(TestDesigner, 1))}
              /\ Break("failed")
     \/ /\ ~(at = Planner /\ verdict.suggestedSkip /\ TestDesigner \in inRun)
        /\ UNCHANGED inRun
        /\ Advance(at, inRun, rows)
  /\ UNCHANGED totalRepairs

Stop ==
  /\ Break(IF verdict.outcome = "pass" THEN "stopped" ELSE "failed")
  /\ UNCHANGED <<inRun, totalRepairs, rows>>

\* Both budgets are spent here, the total one first.
OutOfBudget(t) ==
  \/ totalRepairs + 1 > MaxTotalRepairs
  \/ RepairTarget(t, at) = at /\ attempts[at] > MaxRetries

Repair(t) ==
  /\ totalRepairs' = totalRepairs + 1
  /\ \/ /\ OutOfBudget(t)
        /\ Break("failed")
        /\ UNCHANGED rows
     \/ /\ ~OutOfBudget(t)
        /\ Turn(RepairTarget(t, at), rows)
  /\ UNCHANGED inRun

OverseerReturns ==
  /\ pc = "overseer"
  /\ \E d \in OverseerDecisions(at, attempts[at], verdict.outcome) :
       LET e == Effective(d, at, verdict.outcome)
       IN  \/ e.action = "continue" /\ Continue
           \/ e.action = "stop" /\ Stop
           \/ e.action = "repair" /\ Repair(e.target)
  /\ UNCHANGED <<verdict, record, stopped, announced>>

\* The call throws: because of the stop, or for a reason of its own.
OverseerThrows ==
  /\ pc = "overseer"
  /\ Break(IF stopped THEN "stopped" ELSE "failed")
  /\ UNCHANGED <<verdict, inRun, totalRepairs, rows, record, stopped, announced>>

\* finally: the sessions are closed and the status written; a database that
\* refuses the write is reported and leaves "running".
CloseRun ==
  /\ pc = "closing"
  /\ pc' = "over"
  /\ record' \in {finalStatus, record}
  /\ UNCHANGED <<at, verdict, inRun, attempts, totalRepairs, rows, finalStatus,
                 stopped, announced>>

\* The first call of control.stop; the pipeline's listener is attached from
\* the start of the loop to the start of finally.
RequestStop ==
  /\ ~stopped
  /\ pc \notin {"over", "dead"}
  /\ stopped' = TRUE
  /\ announced' = (announced \/ pc \in {"session", "overseer"})
  /\ UNCHANGED <<pc, at, verdict, inRun, attempts, totalRepairs, rows,
                 finalStatus, record>>

\* The process dies: nothing more is written.
Crash ==
  /\ pc \notin {"over", "dead"}
  /\ pc' = "dead"
  /\ UNCHANGED <<at, verdict, inRun, attempts, totalRepairs, rows, finalStatus,
                 record, stopped, announced>>

Progress == Begin \/ SessionEnds \/ StoreFails \/ OverseerReturns
              \/ OverseerThrows \/ CloseRun

Next == Progress \/ RequestStop \/ Crash

Spec == Init /\ [][Next]_vars
FairSpec == Spec /\ WF_vars(Progress)

-----------------------------------------------------------------------------
(* Properties. *)

\* The result of p stands in the table log: its newest row is "ok", and every
\* row written after that one belongs to a later phase.
SettledIn(log, p) ==
  \E i \in 1..Len(log) :
    /\ log[i].phase = p
    /\ log[i].status = "ok"
    /\ \A j \in (i+1)..Len(log) : log[j].phase > p

Settled(p) == SettledIn(rows, p)

AllSettled == \A p \in inRun : Settled(p)

(* A run recorded "done" has every phase it did not skip passed, each one on   *)
(* work done after the last attempt of the phases before it: no repair, skip   *)
(* or override lets a run finish on a result that was sent back               *)
(* (runPipeline, pipeline.ts).                                                 *)
DoneMeansSettled == record = "done" => AllSettled

\* The run, seen through its rows, is a PhaseGate.
Gate == INSTANCE PhaseGate WITH
          required <- inRun,
          accepted <- {p \in inRun : Settled(p)},
          outcome  <- record

(* Every step of the loop is a step PhaseGate allows: phases are accepted in   *)
(* order, a repair withdraws what follows its target, only a run with          *)
(* everything accepted becomes "done" (runPipeline, pipeline.ts).              *)
GateSpec == Gate!Spec

(* Once a stop is requested no further model session is started, whatever the  *)
(* Overseer call in flight answers (pipeline.ts, the check at the loop's top). *)
StopStartsNothing == [][stopped => (pc' = "session" => pc = "session")]_vars

(* Every run that is not killed reaches its terminal event: no sequence of     *)
(* repairs goes on for ever (the budgets of pipeline.ts and overseer.ts).      *)
Termination == <>(pc \in {"over", "dead"})
=============================================================================
