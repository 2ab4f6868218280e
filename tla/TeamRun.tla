------------------------------- MODULE TeamRun -------------------------------
(***************************************************************************)
(* One run of a composed team, from the command line that is given a plan  *)
(* (src/src/team/cli-run.ts) over the floor (compose.ts) and the rules     *)
(* (plan.ts, module TeamPlan) to the loop over the plan's steps            *)
(* (team/run-plan.ts) inside runPipeline (pipeline.ts).                    *)
(*                                                                         *)
(* The awaits are a step's model session ("session"), the Overseer call    *)
(* ("overseer") and the closing of the browser and desktop ("closing").    *)
(* "turn" (the top of the loop) and "onward" (past a step, the planner's   *)
(* skips first) are places inside code that does not wait: no stop can     *)
(* fall there.  place is the validated order; the steps of the run are the *)
(* domain of plan, since a step leaves both at once.  The outcomes fail,   *)
(* blocked and inconclusive, which the loop treats alike, are one outcome  *)
(* "fail", as is a pass that the audit of the tree overturned.             *)
(***************************************************************************)
EXTENDS TeamPlan

CONSTANTS Proposals,        \* the plans a user may write
          Suggestions,      \* what a planner may ask to skip: sequences of roles
          Signals,          \* what code reads from the task
          Caps,             \* --cap, at most MAX_CAP
          DefaultCap,       \* DEFAULT_CAP
          MaxRetries,       \* config.maxRetriesPerPhase
          MaxTotalRepairs   \* config.maxTotalRepairs

ASSUME TeamRunAssumption ==
  /\ \A p \in Proposals : Shaped(p)
  /\ Suggestions \subseteq Seq(Role)
  /\ Signals \subseteq [writes : BOOLEAN, required : SUBSET Range(Reviews)]
  /\ Caps \subseteq Nat \ {0}
  /\ DefaultCap \in Nat \ {0}
  /\ MaxRetries \in Nat
  /\ MaxTotalRepairs \in Nat

VARIABLES
  pc,            \* which await the run is at, or where between two of them
  plan,          \* plan
  signals,       \* the task's signals
  cap,           \* the user's cap
  place,         \* order: each step's place in it
  at,            \* order[idx]
  verdict,       \* this turn's verdict
  asked,         \* the steps the planner's skips still have to be judged for
  attempts,      \* attempts
  totalRepairs,  \* totalRepairs
  rows,          \* the phases table of this run, oldest row first
  finalStatus,   \* finalStatus
  record,        \* runs.status in the database, "none" before the run has a row
  stopped        \* control.stopped

given == <<signals, cap>>
vars == <<pc, plan, given, place, at, verdict, asked, attempts, totalRepairs,
          rows, finalStatus, record, stopped>>

Row == [step : Nat, attempt : Nat, status : {"running", "ok", "failed"},
        how : {"session", "unrun", "skipped"}]

TypeOK ==
  /\ pc \in {"cli", "refused", "start", "turn", "session", "overseer", "onward",
             "closing", "over", "dead"}
  /\ Shaped(plan)
  /\ signals \in Signals
  /\ cap \in Caps
  /\ place \in [DOMAIN place -> Nat]
  /\ at \in Nat
  /\ verdict \in [outcome : {"pass", "fail"}, suggestedSkip : Seq(Role)]
  /\ asked \subseteq DOMAIN place
  /\ attempts \in [DOMAIN place -> Nat]
  /\ totalRepairs \in Nat
  /\ rows \in Seq(Row)
  /\ finalStatus \in {"done", "stopped", "failed"}
  /\ record \in {"none", "running", "done", "stopped", "failed"}
  /\ stopped \in BOOLEAN

-----------------------------------------------------------------------------
(* The audit rows. *)

NewRow(s, n, status, how) == [step |-> s, attempt |-> n, status |-> status, how |-> how]

\* store.finishPhase on the row the session opened, which is the newest one.
FinishedRows(o) == [rows EXCEPT ![Len(rows)].status = IF o = "pass" THEN "ok" ELSE "failed"]

-----------------------------------------------------------------------------
(* What the Overseer may answer, and what the loop makes of it. *)

\* mutant: any step of the plan will do
BoundRepairTargetAnywhere(named) ==
  IF named \in DOMAIN plan THEN named ELSE at

\* boundRepairTarget: the step named if it is at or before this one; with none
\* named a checker's step goes back to what it checks.
BoundRepairTarget(named) ==
  CASE named = None -> IF plan[at].checks = None THEN at ELSE plan[at].checks
    [] named \in DOMAIN plan /\ place[named] <= place[at] -> named
    [] OTHER -> at

Decision(action, target) == [action |-> action, target |-> target]

\* Past the retry budget no model is asked.  Within it the model may answer
\* anything: a step of the plan, none, or (as 0) a name it made up; an
\* unreadable answer is one of these too.
OverseerDecisions(outcome) ==
  IF attempts[at] > MaxRetries
  THEN {Decision(IF outcome = "pass" THEN "continue" ELSE "stop", at)}
  ELSE {Decision("continue", at), Decision("stop", at), Decision("repair", at)}
         \cup {Decision("repair", BoundRepairTarget(t)) : t \in DOMAIN plan \cup {None}}

\* mutant: the Overseer has the last word
EffectiveNoOverride(d, outcome) == d

\* The loop's own override: only a pass is continued past.
Effective(d, outcome) ==
  IF d.action = "continue" /\ outcome # "pass" THEN Decision("repair", at) ELSE d

\* The context the command line validates with.
UserContext == [writes |-> signals.writes, required |-> signals.required, cap |-> cap]

\* The context the loop validates with, and judges skips with: the cap is the
\* default one, and the task writes if any role of the plan may write.  (The
\* code asks the plan as it was at the start; a plan it then accepts has a builder
\* if it has a writer, and no builder is ever skipped.)
EngineContext(p) ==
  [writes   |-> \E s \in DOMAIN p : p[s].role \in Writers,
   required |-> signals.required,
   cap      |-> DefaultCap]

-----------------------------------------------------------------------------
(* The command line and the start of the run. *)

\* mutant: the break is missing where a stop is seen
BreakMissing(status) ==
  pc' = (IF status = "stopped" THEN "turn" ELSE "closing") /\ finalStatus' = status

Break(status) == pc' = "closing" /\ finalStatus' = status

NoVerdict == [outcome |-> "fail", suggestedSkip |-> <<>>]

Init ==
  /\ pc = "cli"
  /\ plan \in Proposals
  /\ signals \in Signals
  /\ cap \in Caps
  /\ place = <<>>
  /\ at = None
  /\ verdict = NoVerdict
  /\ asked = {}
  /\ attempts = <<>>
  /\ totalRepairs = 0
  /\ rows = <<>>
  /\ finalStatus = "done"
  /\ record = "none"
  /\ stopped = FALSE

\* The floor is put under the proposal; a plan it cannot repair starts nothing.
Resolve ==
  /\ pc = "cli"
  /\ LET p == Finalized(plan, signals, cap)
     IN  IF Valid(p, UserContext)
         THEN pc' = "start" /\ plan' = p /\ record' = "running"
         ELSE pc' = "refused" /\ UNCHANGED <<plan, record>>
  /\ UNCHANGED <<given, place, at, verdict, asked, attempts, totalRepairs, rows,
                 finalStatus, stopped>>

\* The loop's own validation, then the validated order; a plan refused here has
\* a run already, which fails before any step.
Begin ==
  /\ pc = "start"
  /\ \/ /\ ~Valid(plan, EngineContext(plan))
        /\ Break("failed")
        /\ UNCHANGED <<place, at, attempts>>
     \/ /\ Valid(plan, EngineContext(plan))
        /\ place' \in Orders(plan)
        /\ at' \in DOMAIN plan
        /\ \A s \in DOMAIN plan : place'[at'] <= place'[s]
        /\ attempts' = [s \in DOMAIN plan |-> 0]
        /\ pc' = "turn"
        /\ UNCHANGED finalStatus
  /\ UNCHANGED <<plan, given, verdict, asked, totalRepairs, rows, record, stopped>>

-----------------------------------------------------------------------------
(* The loop. *)

SeesStop == stopped

\* The top of the loop: halt if a stop was requested, otherwise open a row and
\* start the session; a step that is no work gets its row closed and no session.
\* A database that refuses a write ends the run in the outer catch.
Turn ==
  /\ pc = "turn"
  /\ \/ /\ SeesStop
        /\ Break("stopped")
        /\ UNCHANGED <<attempts, rows>>
     \/ /\ ~SeesStop
        /\ attempts' = [attempts EXCEPT ![at] = @ + 1]
        /\ LET n    == attempts'[at]
               meta == plan[at].role \in Meta
           IN  \/ /\ ~meta
                  /\ rows' = Append(rows, NewRow(at, n, "running", "session"))
                  /\ pc' = "session"
                  /\ UNCHANGED finalStatus
               \/ /\ meta
                  /\ rows' = Append(rows, NewRow(at, n, "ok", "unrun"))
                  /\ pc' = "onward"
                  /\ UNCHANGED finalStatus
               \/ /\ rows' \in {rows} \cup (IF meta THEN {Append(rows, NewRow(at, n, "running", "unrun"))} ELSE {})
                  /\ Break("failed")
  /\ verdict' = NoVerdict
  /\ UNCHANGED <<plan, given, place, at, asked, totalRepairs, record,
                 stopped>>

\* The session ends, with a verdict or by throwing (which is a verdict too), and
\* the tree is compared: writes its role may not make turn any verdict into a
\* failure.  What is written and read before the Overseer call can be refused.
SessionEnds ==
  /\ pc = "session"
  /\ \E o \in {"pass", "fail"}, skip \in Suggestions \cup {<<>>} :
       /\ skip # <<>> => o = "pass" /\ plan[at].role = "planner"
       /\ verdict' = [outcome |-> o, suggestedSkip |-> skip]
       /\ rows' = FinishedRows(o)
  /\ \/ stopped /\ Break("stopped")
     \/ ~stopped /\ pc' = "overseer" /\ UNCHANGED finalStatus
     \/ ~stopped /\ Break("failed")
  /\ UNCHANGED <<plan, given, place, at, asked, attempts, totalRepairs, record,
                 stopped>>

\* The database refuses the verdict of the session: the outer catch ends the run.
StoreFails ==
  /\ pc = "session"
  /\ Break("failed")
  /\ UNCHANGED <<plan, given, place, at, verdict, asked, attempts, totalRepairs,
                 rows, record, stopped>>

\* The steps that come after this one.
Later == {s \in DOMAIN plan : place[s] > place[at]}

Continue ==
  /\ asked' = {s \in Later : plan[s].role \in Range(verdict.suggestedSkip)}
  /\ pc' = "onward"
  /\ UNCHANGED <<at, totalRepairs, finalStatus>>

Stop ==
  /\ Break(IF verdict.outcome = "pass" THEN "stopped" ELSE "failed")
  /\ UNCHANGED <<at, asked, totalRepairs>>

\* Both budgets, the total one first.
OutOfBudget(target) ==
  \/ totalRepairs + 1 > MaxTotalRepairs
  \/ target = at /\ attempts[at] > MaxRetries

\* A repair goes back to a step at or before this one; the Overseer's own bound
\* is applied again.
Repair(target) ==
  /\ totalRepairs' = totalRepairs + 1
  /\ IF OutOfBudget(target)
     THEN Break("failed") /\ UNCHANGED at
     ELSE pc' = "turn" /\ at' = target /\ UNCHANGED finalStatus
  /\ UNCHANGED asked

OverseerReturns ==
  /\ pc = "overseer"
  /\ \E d \in OverseerDecisions(verdict.outcome) :
       LET e == Effective(d, verdict.outcome)
       IN  \/ e.action = "continue" /\ Continue
           \/ e.action = "stop" /\ Stop
           \/ e.action = "repair" /\ Repair(BoundRepairTarget(e.target))
  /\ UNCHANGED <<plan, given, place, verdict, attempts, rows, record, stopped>>

\* The call throws: because of the stop, or for a reason of its own.
OverseerThrows ==
  /\ pc = "overseer"
  /\ Break(IF stopped THEN "stopped" ELSE "failed")
  /\ UNCHANGED <<plan, given, place, at, verdict, asked, attempts, totalRepairs,
                 rows, record, stopped>>

\* Skips are judged role by role as the planner names them, a role's steps in order.
Sooner(s, t) ==
  LET wish == verdict.suggestedSkip
  IN  \E i \in DOMAIN wish :
        /\ wish[i] = plan[s].role
        /\ IF plan[t].role = plan[s].role THEN place[s] <= place[t]
           ELSE \A j \in 1..i : wish[j] # plan[t].role

\* judgeSkips and what the loop makes of it, one step at a time: a step that may
\* be skipped gets a row and leaves the plan and the order, another one stays.
\* The row can be refused, whole or half written.
JudgeSkip ==
  /\ pc = "onward"
  /\ \E s \in asked :
       /\ \A t \in asked : Sooner(s, t)
       /\ asked' = asked \ {s}
       /\ \/ /\ MaySkip(plan, s, EngineContext(plan))
             /\ \/ /\ rows' = Append(rows, NewRow(s, 1, "ok", "skipped"))
                   /\ plan' = RemoveStep(plan, s)
                   /\ UNCHANGED <<pc, finalStatus>>
                \/ /\ rows' \in {rows, Append(rows, NewRow(s, 1, "running", "skipped"))}
                   /\ Break("failed")
                   /\ UNCHANGED plan
          \/ /\ ~MaySkip(plan, s, EngineContext(plan))
             /\ UNCHANGED <<pc, plan, rows, finalStatus>>
  /\ UNCHANGED <<given, place, at, verdict, attempts, totalRepairs, record, stopped>>

\* The next step in order, or the end of the loop.
GoOn ==
  /\ pc = "onward"
  /\ asked = {}
  /\ \/ /\ \E s \in Later : /\ \A t \in Later : place[s] <= place[t]
                            /\ at' = s
        /\ pc' = "turn"
        /\ UNCHANGED finalStatus
     \/ /\ Later = {}
        /\ Break(finalStatus)
        /\ UNCHANGED at
  /\ UNCHANGED <<plan, given, place, verdict, asked, attempts, totalRepairs, rows,
                 record, stopped>>

\* runPipeline's finally: the sessions are closed and the status written; a
\* database that refuses the write is reported and leaves "running".
CloseRun ==
  /\ pc = "closing"
  /\ pc' = "over"
  /\ record' \in {finalStatus, record}
  /\ UNCHANGED <<plan, given, place, at, verdict, asked, attempts, totalRepairs,
                 rows, finalStatus, stopped>>

\* The first call of control.stop, at an await of the run.
RequestStop ==
  /\ ~stopped
  /\ pc \in {"start", "session", "overseer", "closing"}
  /\ stopped' = TRUE
  /\ UNCHANGED <<pc, plan, given, place, at, verdict, asked, attempts, totalRepairs,
                 rows, finalStatus, record>>

\* The process dies: nothing more is written.
Crash ==
  /\ pc \notin {"refused", "over", "dead"}
  /\ pc' = "dead"
  /\ UNCHANGED <<plan, given, place, at, verdict, asked, attempts, totalRepairs,
                 rows, finalStatus, record, stopped>>

Progress == \/ Begin \/ Turn \/ SessionEnds \/ StoreFails
            \/ OverseerReturns \/ OverseerThrows \/ JudgeSkip \/ GoOn \/ CloseRun

Next == Resolve \/ Progress \/ RequestStop \/ Crash

Spec == Init /\ [][Next]_vars
FairSpec == Spec /\ WF_vars(Progress)

-----------------------------------------------------------------------------
(* Properties. *)

\* The result of s stands: its newest row is "ok", and every row written after
\* that one belongs to a step later in the order.
SettledIn(log, s) ==
  \E i \in 1..Len(log) :
    /\ log[i].step = s
    /\ log[i].status = "ok"
    /\ \A j \in (i+1)..Len(log) : place[log[j].step] > place[s]
Settled(s) == SettledIn(rows, s)

(* A run recorded "done" did what the task and the floor asked for: every step *)
(* it still has is settled, every builder is settled under a verifier of its   *)
(* own, every mandatory review is settled, and a task that writes has a        *)
(* builder and ends on its gatekeeper's row, whatever was skipped, repaired or *)
(* overridden on the way (runTeamPlan, run-plan.ts; V2, V4, V12).              *)
DoneMeansChecked ==
  record = "done" =>
    /\ \A s \in DOMAIN plan : Settled(s)
    /\ \A b \in Of(plan, "builder") : \E v \in Of(plan, "verifier") :
         plan[v].checks = b /\ place[v] > place[b]
    /\ \A r \in signals.required : Of(plan, r) # {}
    /\ signals.writes =>
         /\ Of(plan, "builder") # {}
         /\ rows[Len(rows)].step \in Of(plan, "gatekeeper")

(* The order the run was given stays an order of the plan it has: no skip     *)
(* leaves a step waiting for one that comes later or is gone (removeStep and   *)
(* order.filter, which edit the plan and the order apart).                     *)
OrderFits ==
  place # <<>> => \A s \in DOMAIN plan : \A t \in Waits(plan, s) :
                    t \in DOMAIN plan /\ place[t] < place[s]

\* The run, seen through its rows, is a StepGate.
Gate == INSTANCE StepGate WITH
          team     <- [s \in DOMAIN plan |->
                         [needs |-> Waits(plan, s),
                          floor |-> plan[s].role \in Unskippable \cup signals.required]],
          accepted <- {s \in DOMAIN plan : Settled(s)},
          outcome  <- record

(* Every step of the loop is a step StepGate allows: results are accepted on   *)
(* accepted ones, a repair takes back what rests on its target, the floor is   *)
(* never waived (runTeamPlan, judgeSkips, run-plan.ts).                        *)
GateSpec == Gate!Spec

(* Once a stop is requested no further model session is started (the check at  *)
(* the loop's top, run-plan.ts).                                               *)
StopStartsNothing == [][stopped => (pc' = "session" => pc = "session")]_vars

(* Every run that begins and is not killed reaches its terminal event: no      *)
(* sequence of repairs and skips goes on for ever (the budgets of run-plan.ts  *)
(* and overseer.ts).                                                           *)
Termination == pc = "start" ~> pc \in {"over", "dead"}
=============================================================================
