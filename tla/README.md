# agent-loop in TLA+

This directory is the verification project of agent-loop: TLA+ modules
translated from the TypeScript under `src/`, the TLC configurations that check
them on small instances, and proofs that TLAPS checks for every value of the
constants. `PROJECT.json` names, for every definition that models code, the
lines it stands for.

## 1. Inventory

agent-loop runs a team of model sessions over a working directory. One Node
process does everything: what runs between two `await`s is atomic, and every
hard behaviour comes from what can happen at an `await` (a model answers, a
person answers or does not, a signal arrives, a page changes, a driver hangs),
from the process dying there, and from *other processes* that share a file or a
database with it.

| Component | State it keeps | Operations | What makes it correct |
|---|---|---|---|
| Pipeline (`pipeline.ts`, `overseer.ts`) | phase in turn, attempts, repairs, phases still in the run, rows and status in the database | start a session, take its verdict, ask the Overseer, continue / repair / stop, skip, close | "done" means every phase the run needs passed, on work newer than everything before it; a stop starts nothing more; every run ends |
| Stop switch (`run-control.ts`, `cli.ts`, `fatal.ts`) | aborted or not, first reason, interrupts, handlers and their grace timer | cost cap, Ctrl-C, SIGTERM, Stop button, uncaught error, the run's own end | first reason wins; the run ends and is recorded, or the process leaves within the grace time; the exit code and the row tell the truth |
| Phase session (`phases.ts`, `team/roster.ts`, `team/role-spec.ts`, `hooks.ts`) | the session's last words, calls waiting, rules granted | begin, say, call a tool, answer, end, abort | a step has its role's tools and no more, and passes only by its own last words |
| Approvals (`bus.ts`, `hooks.ts`, `server.ts`, `terminal.ts`, `ui/index.html`) | requests waiting, allow rules, denial streak, history, one queue per terminal and per tab, the line being typed | a tool call asks, a person answers in a tab or the terminal, the run stops, a tab (re)connects | nothing runs without the answer to *its* prompt or a rule a person made; a prompt nobody answered stays visible; no one waits for ever after a stop; keys answer the prompt on show |
| History (`bus.ts`) | replayable events | emit, trim, replay | trimming never drops a prompt still waiting or the run's start, and says how much is gone |
| Team plan (`team/plan.ts`, `team/roster.ts`, `team/compose.ts`, `team/signals.ts`) | none (pure) | validate, order, append, remove, skip | one gatekeeper, last; every builder checked; disjoint slices; edits keep the plan valid |
| Team run (`team/run-plan.ts`, `team/changes.ts`, `team/write-scope.ts`) | step in turn, attempts, skipped steps, snapshots of the tree | run a step, audit its changes, skip, repair, stop, save its report | as the pipeline, over a graph; a step that wrote outside its scope never passes |
| Application ledger (`ledger.ts`, `job-apply.ts`, `apply-command.ts`) | rows intended / confirmed / failed, pauses, clock floor | apply, park, give up, confirm, verify, forget, pause | nothing is sent twice, nothing is sent unrecorded, over any crash and any number of processes |
| Facts and forms (`facts.ts`, `job-apply.ts`) | the facts file, the form as planned and as it is | plan each field, fill, compare, click, give up | what is clicked away holds the user's own answers where they were asked for, and nothing the page put in |
| Designated uploads (`uploads.ts`, `browser-tools.ts`) | the file's real place and hash, the tab it is attached in | pin, resolve, check the form, hold the tab, attach | the file is the one designated and goes to no site but the one it was attached on |
| Profile lock (`profile.ts`, `login.ts`) | lock file, recovery directory, dead holder | acquire, recover, release | one holder at a time; a dead holder never locks the site for ever |
| Desktop session (`desktop-tools.ts`, `desktop-policy.ts`, `desktop-driver-cua.ts`) | last capture, used up or not, counts, lock | capture, click, type, key, close | every action spends its own capture of the same window, caps hold, a timed-out action is the last |
| Browser session (`browser-tools.ts`, `browser-policy.ts`) | tabs, documents, refs, screenshots, deadlines, notices | open, inspect, act by ref or point, tabs, upload, close | a ref or a point acts only on the page it was taken from; nothing is done twice; every call is answered; what failed is told; the session closes |
| Network gate (`net-gate.ts`, `allowances.ts`) | connections, denied hosts | decide, resolve, connect, tunnel, close | only checked addresses of allowed hosts are connected to, and nothing outlives its client |
| Store (`store.ts`) | the tables | rows for runs, phases, events, decisions | a phase is finished once; interrupted runs are recognisable |
| Shell and path rules (`bash-analysis.ts`, `readonly-shell.ts`, `path-canon.ts`, `hooks.ts`) | none (pure) | read-only?, rule?, inside? | never read-only for a command that writes; a link never leads outside |
| Lineage, insights (`lineage.ts`, `habits.ts`, `roast.ts`, `report.ts`) | derived | build from events, publish, rebuild from the store | totals add up; a live tree equals the rebuilt one |
| Reels (`reel/*`) | frames on disk, the table of ideas | probe, extract, read, judge, remember; decide, purge | a verdict is earned by its scores; what was refused is never approved; a decision stands |
| Voice, page, build (`persona.ts`, `sprites.ts`, `ui/*`, `scripts/*`, `bench/*`) | display only | | not about state |

How they meet: `cli.ts` builds one `EventBus`, one `Store`, one `RunControl`,
starts the server, and calls `runPipeline`, which either runs the five phases
or hands over to `runTeamPlan`. Each phase is a model session whose tool calls
pass the hooks; a call that needs a person becomes a request on the bus, shown
by every tab and the terminal, and answered by whichever is first. The hooks
also judge paths and commands against the step's scope, and the tree is audited
after a step that could use a shell. The browser's tools drive one Chromium
whose every request passes the gate. Stopping is one abort signal seen by the
pipeline (which announces it and refuses what is waiting), the sessions and the
Overseer call. `apply`, `login`, `reel` and `ideas` are separate commands,
separate processes, that share the ledger, the table of ideas or a browser
profile with any other process of the same user.

The hazards this code is exposed to, each at its line, are in `PROJECT.json`.

## 2. The modules

| Module | Models | State and actions against the code |
|---|---|---|
| `PhaseGate` | what a run promises to the reader of its audit record (abstract) | phases are accepted in order, reopened, waived; "done" only with all accepted |
| `Pipeline` | `runPipeline` with `overseerDecide`, `RunControl` and the rows of `store.ts` | variables are the loop's locals and the tables; an action is the code from one `await` to the next: `Begin`, `SessionEnds`, `OverseerReturns` (with `Continue`, `Stop`, `Repair` and, inside them, the next turn of the loop), `OverseerThrows`, `CloseRun`; `StoreFails` is a refused write, `RequestStop` the first `control.stop`, `Crash` the process dying |
| `TeamPlan` | `validatePlan`'s rules on the graph, the floor, the mandatory reviews and the caps, `topoOrder`, `removeStep`, `skipStep`, `withGateAfterSinks`, `finalizePlan` with `attachLoose` and its drops | no state: a plan is a function from step numbers to steps; the order is a recursive function, checked against `Stable`, which says what a stable order is |
| `StepGate` | what a team's run promises to the reader of its audit record (abstract): `PhaseGate` over a partial order | steps are accepted on accepted ones, reopened, waived unless they are floor |
| `TeamRun` | `resolveTeamOption` given a plan file, then `runTeamPlan` inside `runPipeline`, with `judgeSkips`, `boundRepairTarget` and `overseerDecide` | as `Pipeline`, over a plan's order: `Resolve` puts the floor under the proposal, `Begin` validates again, `Turn`, `SessionEnds`, `OverseerReturns`, `JudgeSkip` (one step the planner wants skipped), `GoOn`, `CloseRun` |
| `Session` | `runPhase` and what it takes from the roster, `parseUserRole`, the hooks one call passes | the stream of one step after another: `Begins`, `Says`, `Calls` (all hooks at once), `Answers`, `Ends`, `Aborted`; rules granted stay, as the bus's do |
| `Scope` | `path-canon.ts`, the file hooks, `write-scope.ts`, `changes.ts`, the audit and `saveReport` | a file tree with links: `FileTool` (read, write, search, list), `Bash` (removes, writes, makes and moves files, directories and links), `Audit`, `SaveReport` |
| `Consent` | what the approval gate promises (abstract) | a call runs after a yes to *it*, or under rules persons granted to calls that ran |
| `Approval` | `createApprovalHook`, `EventBus`, the server's sockets, the page's queue, the terminal's queue, `denyAllPending` | one hook per call; a tab is a process with a queue each way, lost when it disconnects; an answer, an abort, a stop or the granting of a rule settles calls, and the hooks they wake run in the same action |
| `Terminal` | `terminal.ts`'s prompt | a key, a request made, a request answered elsewhere, and the later moment the terminal hears of it; each typed character remembers the prompt it was typed at; what is left of a line after its prompt was replaced are keys to the next |
| `History` | `emit`, `trimHistory` and `replay` of `bus.ts` | events by kind; a trim is part of the emit it follows |
| `Ledger` | `Ledger`, `applyToJob`, `verifyAttempt`, `apply --forget` and `--resume-site` | one SQLite table shared by processes; every synchronous stretch of `applyToJob` is an action; rows the code deletes are kept as "gone" so that a row keeps its number; `real` is the time that really passed, `clock` what the machine says, `floor` what a `Ledger` object remembers |
| `Form` | `facts.ts`, `uploads.ts` and the form's side of `applyToJob`: what a label asks for, which forms are parked, the fill, the comparison, the click, `giveUp` and the exit code | a step is one call of the tools; between two of them the page may change fields, navigate or submit itself, and the file may change on disk |
| `Desktop` | `DesktopSession` | one record per tool call in flight with the await it is at (`listing`, `naming`, `shooting`, `acting`) and the check that await is part of; the window moves, closes or changes hands in between |
| `ProfileLock` | `acquireProfileLock`, `readHolder`, `release` | one action per file-system call of one process; the lock file, the recovery directory and who made them; `slips` records the two takeovers that exclude nobody (section 7), and no guard reads it |
| `Browser` | one open session of `browser-tools.ts`: tabs, refs, screenshots, the deadline and the retry of `instrumented` | one record per tool call with its await; a page navigates, opens popups, closes and drops calls at any time; a call given up may still go on |
| `Shutdown` | `cli.ts`'s end of a run, `fatal.ts`, `RunControl`, `getOrCreate` and `close` of the browser's manager | signals, errors, the timer, the run's steps to its exit, and the launches of two calls |
| `NetGate` | `net-gate.ts` | a request's `Arrive`, `Decide`, `Connects` / `ConnectFails` for each address, either side hanging up, `Close` |
| `Sites` | `allowances.ts` and what `browser-policy.ts` makes of it | pure: hosts are sequences of labels; `ListsAgree` relates the layers |
| `Uploads` | the holding of a tab (`browser-tools.ts` 516-720, the upload tool, the policy of requests and sockets) | an upload's checks, hold and set one await at a time; tabs navigate, open others and close in between; what a request or a socket would be allowed is an operator, asked of every state |
| `Notices` | the listeners of a page, `pushNotice`, the gate's refusals, what a result carries | requests in flight, the timers of the two echoes, a log in which repeats collapse |
| `Lineage` | `buildLineage`, `LineageTracker`, `agent-loop lineage` | the log of events; the tree is a fold of it, the tracker's a fold of what it kept; one operator per case of `buildLineage`'s switch (`Start`, `Ends`, `Repair`, `Continue`, `Write`, `Written`, `Failed`, `Ask`, `Answer`, `Cost`, `Over`) |
| `Reels` | `reel-command.ts`, `judge.ts`, `ideas.ts`, `ideas-command.ts` | processes on one table: a command's awaits, a decision's look and its write, a purge |

`MCPipeline`, `MCTeamRun`, `MCApproval`, `MCLedger`, `MCDesktop`,
`MCProfileLock`, `MCBrowser`, `MCLimits` and `MCRecords` instantiate them for
TLC. Four of these hold several *worlds*: components that share no state, and are asked the
same kind of question, are checked in one run, each in a world of its own
while the others stand still in one state, so that their states add up and do
not multiply. `PipelineProofs`, `TeamRunProofs`, `ApprovalProofs`,
`LedgerProofs` (with `Form`), `BrowserProofs` (with `Shutdown` and `ProfileLock`),
`LimitsProofs` (`NetGate`, `Session`, `Uploads`, `Scope` and `Desktop`), `RecordsProofs`
(`Reels`, `Terminal`, `Notices` and `History`) and `TreeProofs` (`Lineage`) hold the theorems. An operator with the comment "mutant:" above
a definition is that definition with a bug in it; no specification uses it.
`PROJECT.json` pairs each property with one, and under it TLC finds the property
violated.

What is abstracted everywhere: what a model says is a choice among the verdicts
or decisions the parser can return; what a page, a person, a driver or an
operating system does is a choice; texts, prompts, names of files and layouts
are left out.

## 3. The runs

Violated runs are disagreements between the code and what the repository says
of it (section 7). The sizes are distinct states.

**`pipeline`** - four phases with the waivable one second, two retries of each,
two repairs in all (157 000). *Asks:* does every run end; is a run "done" only
with every phase it kept settled by work newer than all before it, whatever is
sent back, skipped, refused by the database or stopped; is the loop a
`PhaseGate`? Four phases are the fewest with a phase before, a phase after and
one to skip between; two retries and two repairs let either budget run out
first.

**`pipeline_stop`** - a stop during the last Overseer call that answers anyway
is announced and the run recorded "done".

**`team_run`** - four proposals (a lone builder; a plan whose builder comes first in the list and whose
verifier is marked skippable; one with a gatekeeper in the middle and a checked
docs-writer behind it; a question with a root that may be skipped), each with a
task that only reads and one that writes and is sensitive, caps below and above
the default, one retry and one repair in all (102 000). *Asks:* does what the
floor, the drops and the skips leave still fit the order computed at the start;
is a run "done" only with every step settled, its builders verified, the
mandatory reviews there and the gatekeeper's row the newest; is the loop a
`StepGate`; does every run end? A proposal grows to seven steps under the floor,
so that caps of five, six and seven drop, refuse and accept. Two repairs in all
give 1.1 million states and the same answers.

**`approval_tabs`** - two shell commands with a rule in common, two tabs and the
terminal (1.7 million, under symmetry of the tabs and a VIEW without `said`,
which no guard reads and neither property mentions). *Asks:* is a waiting prompt
in front of every connected page whatever it connected or lost, and does a page
at rest show exactly what waits? Two calls are enough for a rule granted by one
to settle the other, and two tabs for a late answer to cross an earlier one.

**`approval_calls`** - three desktop inputs, asked in one order as one is like
another, a shell command, the terminal only, and a limit of two (329 000). *Asks:*
is the gate a `Consent`; does every waiting call get an answer; does a stop leave
none waiting; is the streak the number of inputs refused *since the last one
allowed*, whatever comes between, and is an input ever put before a person once as
many as the limit stand refused? With three inputs one can be allowed between two
refusals, or offered after two.

**`ledger_apply`** - four worlds (1.32 million, under symmetry of processes and
of a posting and its repost; the VIEW forgets what an idle process remembers,
which is set again before it is read), with caps of two an hour, three a day and two
a day at one site, a gap none of them implies, and a month so short that its end is
met. In the first two one application is behind, at another board, and stays. *Caps:*
two processes race for the last slot of the hour, over three postings of one board,
two of which are one job, with crashes anywhere. *Clock:* one process, pages that
submit themselves at any moment, a clock set back twice. A second reset is what makes
a repaired row lie in the future again. *Boards:* one process at a time and up to four
rows at two boards, until the hour, the day, the site and the gap each were what
stops it; one mutant for each breaks the run. *Form:* one form of up to two fields and
a file, changed twice by its page or by anything that touches the file. *Asks:* is
anything sent unrecorded or twice within the month; do the caps and the gap hold, in a
race and under resets too, but for the lead a remembered time may have; and is what is
clicked away what was planned?

**`desktop_calls`** - two calls at once, captures of two sizes, caps of two
(228 000). *Asks:* is a capture good for one input of each call; what still goes
out after a lock; by how much are the caps passed; does every call end?
Two calls are enough for every crossing: the session's checks relate one call
to the state the others leave. The theorems are for any number.

**`lock_races`** - two processes, a dead holder, and a third process that died
before, perhaps inside a recovery, whose directory is still there; four attempts,
deaths before any step, files that become too old to wait for at any moment
(369 000). *Asks:* does the lock file name whoever has the lock, until one of the two
takeovers of section 7 happens, both of which do here; is the recovery directory left
by anyone but who died in it; does an attempt end? The theorem is for any number.

**`lock_broken`** - two processes that found the same broken file: one removes
the other's fresh lock.

**`browser`** - two worlds (310 000). *Calls:* two tool calls at once of ten
tools on at most two tabs, one navigation of each, one screenshot. *Ending:* a
stop, two interrupts, two uncaught errors, the timer and the run's end in any
order, while two calls launch a browser. *Asks:* is a ref that is accepted an
element of the page as it is and is one open tab the active one; is any input
sent twice; is every call answered; do exit code and row tell the truth; is
anything left open; does an uncaught error end the process? One navigation of
each tab separates "before" from "after", and two tabs are the cap at which a
popup, an `open` and a closed page meet.

**`limits`** - what a step may reach, in four worlds (205 000). *Gate:* a plain
request and two tunnels, an allowed and a denied name, three addresses, one of
them private. *Sites:* three tabs, of which a request's own and its opener are looked at, five
hosts, one of them this machine's, four allowances files (two of which must be
refused), four navigations, windows or uploads, and tabs that close at any time.
*Tools:* four roles, seven role files, two steps and two calls, with approval and
without (`--no-approval`). *Files:* three trees with links out of a slice, to what is
not there, to a secret, to another slice, to themselves, and a slice that is a link;
five roles and some twenty paths; one call of a file tool and a shell that twice
removes, writes, makes or moves a file, a directory or a link, in any order. *Asks:*
is every upstream to a checked address and gone with its client; is every request
settled; does a designated file go to its own site only; does a session have its
role's tools, approvals and verdict and no more; do the file tools stay in the project
and write only in the role's scope, is an accepted step proved clean by the audit, of
what its snapshots hold, and is one that kept to its tools accepted? Two tunnels and a
request show every crossing of a close and a hang-up, and three tabs one that is
further from the file than is looked. A shell's second command undoes or covers its
first, which is the least a comparison of two snapshots can be deceived by; three
links within links are more than any of the trees needs, so that only a loop meets the
limit. The theorems, of every world, are for any number.

**`records`** - what the program shows and keeps, in five worlds (1.26 million).
*Bus* (16 000): a history of four, nine events, two calls. *Page* (1.1 million): one host, one
kind of exception, a log of two, three activities, every delay of the echoes; only page loads
use plain http, every other request a tunnel.
*Tree* (77 000): two steps of two attempts, one file, a log of six, a tree of two, a tracker of five.
*Prompts* (4 000): three requests, a reason of two characters. *Reels*
(69 000): two commands, two deciders, two sources, scores on both sides of every
threshold. *Asks:* is a late page shown the run's start, all it is still asked
and how much it misses; is a failure that happens again news; is the live tree
the stored one and does it add up; is a reason sent with no other request than the
one it was typed for, and the oldest request shown;
are verdicts earned and decisions kept? Each bound is the first at which its list
overflows and something has to go. All of them are theorems for any bounds.

Bounds. `MaxTime`, `MaxRows`, `MaxSteps` (`Ledger`, `Uploads`, `Session`),
`MaxCalls` (`Scope`, `Session`), `MaxNav` (`Browser`), `MaxChanges` (`Form`), `MaxActivity`
(`Notices`), `MaxEmits` (`History`), `MaxLog` and `MaxAttempt` (`Lineage`) and `MaxTyped`
(`Terminal`) stop the model, not the code. Every other bound is the code's own
(retries, repairs, captures, tabs, limits of lists) with a small value. Deadlock is
not checked: every one of these systems stops when its run or its commands are
over.

## 4. Fairness

Only what the code itself sees to is fair.

- `Pipeline`: the loop takes its next step. A session ends (a turn limit, a
  timeout of its own, or the abort of a stop) and the Overseer call ends. Nothing
  says that a session passes, that a model repairs what it is asked to, or that
  anybody stops the run.
- `TeamRun`: the same as `Pipeline`, from the start of the run on; `Resolve` and what
  the user writes before it are not fair.
- `Approval`: the hooks' timeout gives up every call that waits (`Abort`);
  sockets deliver what they carry while they are open. Nobody has to answer.
- `Desktop`: `withTimeout` ends every wait for a listing, a picture or an input;
  the naming of a process is a bounded call of the operating system. The driver
  need never answer.
- `ProfileLock`: a living process takes its next step; file-system calls
  do not wait for other processes. Nobody has to release.
- `Browser`: the deadline of each call, a timer of the process (`Deadline`). The page
  need never answer.
- `Shutdown`: the grace timer, and the process's own last steps once the run
  has returned (`Records`, `Lingers`, `Leaves`). Neither the run nor the closing of
  the browser has to end.
- `NetGate`: a name is looked up (or the lookup fails) and a connect is given up
  by its timer (`Decide`, `ConnectFails`). No address has to answer.
- `Ledger` has no liveness: a command that dies is the normal case, and the
  user may never verify anything. Nor have the pure records: nothing says that an event comes.

## 5. What is proved

For every value of the constants that the modules' assumptions admit (TLC
evaluates the assumptions in every run):

| Theorem | Says | Argument |
|---|---|---|
| `PipelineProofs!TypeCorrect`, `DoneIsSettled`, `NoStartAfterStop` | types; "done" means settled; a stop starts nothing | `IInv`: while a phase is worked on its row is the newest and every earlier phase of the run is settled. "Done means settled" alone is not inductive: the loop's end needs to know that the last phase's pass comes on top of settled ones, and a repair that it only unsettles what it will do again |
| `PipelineProofs!ImplementsGate` | the loop implements `PhaseGate` | from `IInv`, step by step: a pass is an `Accept`, a repair's new row a `Reopen`, a skip with its row and the turn after it a `Waive` or a stutter, the close a `Finish` |
| `TeamRunProofs!TypeCorrect`, `OrderStays`, `DoneIsChecked`, `NoStartAfterStop` | types; the loop's order stays an order of its plan; "done" means checked by the floor; a stop starts nothing, for every proposal, task and cap | `IInv` has two halves. The plan: the order made at the start tells any two steps apart and has the gatekeeper last, and a plan after any number of skips is still one that `Valid` accepts, so it fits the order and keeps its verifiers and reviews. The loop, as in `PipelineProofs`: the step in turn owns the newest row and every earlier step of the plan is settled. What `finalizePlan` builds is not looked into (its folds are recursive): of its result only that the rules accepted it is used, as the code does |
| `TeamRunProofs!ImplementsStepGate` | the team's loop implements `StepGate`, for every plan, order, budget and answer | `IInv` with `GateInv`: nothing past the step in turn is accepted, unless a repair went back to an accepted one. Without it a turn after a repair could look like the acceptance of a step on steps that are not |
| `ApprovalProofs!ConsentKept` | the gate implements `Consent` | `ConsentInv`: an answer on its way was given by a person *for that call*. Everything else about pages, replay and the history can be arbitrary, which is why the proof never mentions them |
| `ApprovalProofs!StopRefusesAll` | a stop leaves no call waiting, for any calls and pages | `WaitingKept`: a hook that waits is in the map that `denyAllPending` empties |
| `ApprovalProofs!StreakHolds` | the streak is the number of desktop inputs refused since the last one allowed; no input is put before a person once as many as the limit stand refused; for any *finite* set of calls and any limit | `StreakInv`, about the history: only a call that was refused, allowed or given up has an outcome there (`OutcomesTrue`). The row of refusals after the last allowed input grows by the inputs an answer refuses, as many as were waiting at a stop, and is empty once one is allowed (`SettledRow`); a request of an input is written only where the row is shorter than the limit (`LimitKept`) |
| `ApprovalProofs!PromptStays`, `ViewsAgree` | a waiting prompt is in front of every connected page, on its way to it, or just answered by it; a page at rest and the terminal show exactly what waits, for any tabs and any *finite* set of calls | `ViewInv`: the history holds the request of each call that waits, with no outcome after it, and after its request the outcome of each that does not; what is on its way to a page does the same for that page. The agreement of a page *at rest* says nothing of one in between, so the invariant is about the queue. Lemmas say what a message more at the end, or one fewer at the front, leaves true of it, and that a replay of the history (a recursive function) is such a queue |
| `LedgerProofs!Typed`, `ClosedKept` | types; a closed row stays closed | `IInv`: a process that may still send has a row of its own that was not taken back, and no two have the same; needs nothing of pages or clocks |
| `LedgerProofs!SentRecorded` | nothing is sent unrecorded | from `IInv`, of every posting whose page does not submit itself at any time (`TimerPages`): such a page can send after `giveUp` took its row back, and the property names it |
| `LedgerProofs!AppliedOnce` | nothing is sent twice within a month unless the user closed the first | from `IInv` with "a row's time is when it was written, and of two live rows of one posting the later is a month later"; needs a clock that is never set forward as well |
| `LedgerProofs!CapsBound` | the caps of an hour, of a day and of a day at one site, and the gap, bound what leaves, for any processes, caps and windows: exactly until the clock is set back, then but for the lead a remembered time may have | the row is written in the step that counts, so what was sent in a window is among the rows of that window. `TimeKept`: until the clock is set back it is the true one and rows are as written; from then on it never says that more time passed since a row than did; *if the clock is never set forward again* (`"forward" \notin ClockMoves`; section 7 says what happens then) |
| `LedgerProofs!FormMeant` | a form that is clicked away holds the user's own answers, each where it is asked for, and nothing the page put in; what is never told is in no field; the file is the one designated; no form that sent itself is called parked: for any pages, facts, files and changes of the page | `FormInv`: every element of the page *as it is*, whatever came and went, has the role it was planned in, and holds what the page or the plan put there, never a secret (which is what fills and attachments, going by ids, rely on); nothing is touched before all is decided, so until then nothing can have left; what left was seen to; a click comes after a comparison that found nothing. That such a comparison leaves only answers is a lemma about two pages and no step: an unplanned field holds what it held, which was nothing or the form was parked; a planned one its fact; two planned ones two facts. Of the constants: a value is what fact it is of, so no two facts have one value (`FactsAssumption`); a page's elements have ids of their own and the page does not know what the user never tells (`PagesAssumption`) |
| `LimitsProofs!CaptureOnce`, `LockHolds` | one input of each call per capture; a locked session drains | `FenceInv`: a used capture is used up, a call inside the fence has not used its capture, and after the lock it was inside when the lock came and has sent nothing since |
| `LimitsProofs!CapsKept` | caps are passed by no more inputs than are inside the fence with the last one, and by no capture, for any *finite* set of calls | `CapInv`: a call inside the fence is counted with the actions that went out, one taking a picture with the captures. The cap itself is not inductive: what must be bounded is what went out *and* what still may |
| `BrowserProofs!Exclusive` | the lock file names whoever holds it, so there is one living holder, for any number of processes, deaths anywhere and files that become too old at any time, *until one of two takeovers happens that the code lets through* (`slips`, section 7) | `Apart`: who recovers is in a directory of its own, the lock it found is a dead process's or cannot be read and at the unlink is still that, a living holder is the one the file names. The step that breaks it is one of the two, and what has slipped has slipped (`SlipsStay`) |
| `BrowserProofs!NotLeft` | the recovery directory is left only by a process that died in it, whatever is taken for too old | with the types it is inductive: only the process that made the directory goes on inside it, and leaving it, or another's clearing it for its age, removes it |
| `BrowserProofs!ActsOnIt`, `SentOnce` | an accepted ref is an element of the page as it is and one open tab is active; nothing is sent twice, for any calls, tabs and limits | `BrowserInv`: the elements of a snapshot, and of one still being collected, are of documents no older than the generation noted for it, which `resolveRef` compares with the tab's; an open page's tab is one of the session's, so what is brought to the front exists; what was sent is not asked again |
| `LimitsProofs!UpstreamsKept` | an upstream is connected to a checked address of an allowed host and goes with its client, for any requests, hosts and addresses | `IInv`: types, and what waits to be tried was checked for the host it waits for. The property says nothing of addresses not yet tried, which is what `Connects` relies on |
| `LimitsProofs!StepStaysInScope` | a file tool opens nothing outside the project, reveals no secret by its path and writes only where its role may, whatever links its path goes through; of what its snapshots hold, an accepted step changed only what it may, by any means; a step that kept to the file tools is not blocked for it; the report is written inside: for any trees, links, paths, patterns, roles and limits, and whatever the shell removed, made and moved, *as long as the links are the ones the step found* | `ScopeInv`: the tree hangs together, and until a shell has been at work no directory or link came or went and what differs is a file the step might write (`TreeKept`, `Might`). The rest is about two recursions and no step: where the system comes along a path (`Walk`), `canonicalPath` reads the same place (`ReadsThePlace`, over the links left and then the names). Directories may come and go under a link, so two trees are compared that share their links only: where the system comes to a place in both, it is one place (`WalkBoth`), and where it came in the one, the program reads that place in the other or none (`CanonFollows`); so the slice the audit reads is, as far as it reads one, where the system finds it before the step or now (`OwnOf`, `PermitsIts`). *Slices that go through links to what is not there are left out* (`Astray`): of `no/../web` the system makes nothing and the program `web` (section 7). Of the constants besides: a tree hangs together (`IsTree`), `..` is no name |
| `LimitsProofs!EveryStepKeepsToRole` | a step runs no call its role may not make and none that was not asked for as it must be, and passes only by its own last words, for any roles, files and calls | `AskedNow`: a call waits for a person only in the session it was made in, made by a role that has its tool; rules are those of calls persons allowed; a session has returned nothing before its end. Without it a late yes could let a call of an earlier step run |
| `LimitsProofs!FilesStay` | no request of a page that has a designated file, or of a window it opened, is let through to another site, for any sites, lists, tabs and navigations; and the layers agree on what a list allows | `FilesInv`: a tab with a file is on that file's site and, unless a failed upload left it there, held there; the tab an upload is about to set is held where it is for as long as its document is the one checked. The property names what the code does not cover: a file that a failed upload left behind, openers too far back, closed or held themselves, and sockets while another tab is held (section 7) |
| `BrowserProofs!EndsTruthfully`, `NothingLeftOpen` | exit code and row tell the truth; after a close no session or gate is left but the named ones, for any stops, errors and launches | `EndInv`: the handlers go only once the row is written or the user was told that it could not be, and the code is chosen after that; `SessionInv`: until the process exits, an open session is the one opened last, the one being closed, or one of the named ones, and a gate is that of a launch or a session |
| `RecordsProofs!IdeasStand` | verdicts are earned, what was refused is never approved, decisions stand | `ReelInv`: no id was given twice, so the row a decision writes is the row it looked at or none, and a yes in the making is for a row that was not refused; and, of the pure judgment, making one score worse makes no verdict better |
| `RecordsProofs!PromptsAreKept` | a reason goes with no other request than the one it was typed for; none is answered twice; the oldest that waits is the one shown | `PromptInv`: the queue holds each request once, those that wait among them, and others only until the terminal hears of their answer; its first is the one shown, and what is typed was typed for that one |
| `RecordsProofs!NewsIsKept` | what happened since the model was last told is in an entry its next result carries or counts, or the log says entries were dropped; a refused page load is told, for a log and results of any size | `NoticeInv`: of each message there is one entry, whose count is how often it reached the log (at most that, once entries were dropped); a page load that was refused has been told or has a timer that will tell |
| `RecordsProofs!ReplayTellsAll` | a page that connects sees the run's start, all it is still asked, and exactly how many events are missing, for any limit and length of run | `HistoryInv`: every event is kept or counted. Lemmas about the two loops of `trimHistory`: bulk goes and is counted, what has shape stays as long as bulk was enough |
| `TreeProofs!TreeTellsTheRun` | the tree a page is shown is the one the store's events give, while the tracker has room; its totals, files and answers are where they belong however late they come; the table of agents and the lanes agree with it; for any steps, calls, attempts and limits of the tree and the tracker | `TreeInv`, of the tree as a function of the log: `TreeSound` (its pointers are into it, the totals are the sums over its attempts, a step has a latest attempt if it has one at all, and an attempt has as many prompts *still unanswered* as it asked and has no answer for) and `TreeTells` (each cost, start, prompt and write of the log is in it, and a write that has not returned is its attempt's), with `Live` (the tracker kept the log while there was room). The property says nothing of prompts and writes that still wait, which is what a late answer or result goes by. One lemma per event for each half; the sums, the table of agents, the lanes and the tree are lemmas of their own |

A recursive definition over a list (the messages on their way to a page, the history's
filter and its trimming loop, the terminal's queue, a form's filters, the tree and its sums), or over
the names of a path and the links on it, is a recursive *function*
here, and each such proof first shows that the function exists and then argues by a
least counterexample (`LeastNat`, from the well-foundedness of the naturals). The
library's induction theorems take an operator as a parameter and cannot be used.

Model-checked only:

- everything temporal under fairness (`Termination`,
  `EveryCallAnswered`, `EveryCallEnds`, `AcquireEnds`, `EveryRequestSettles`,
  `FaultEnds`), which TLAPS does not do;
- what `TeamPlan`'s folds build: of `finalizePlan`'s result the theorems use only that
  the rules accepted it;
- the ledger's caps when a clock is set forward after it was set back, which do
  not hold (section 7).

## 6. Not modelled, and why

The `note` of each component in `PROJECT.json` says it for each. In short:

- *Scanners of shell commands* (`bash-analysis.ts`, `readonly-shell.ts`) are grammars
  over the characters of one string, thousands of cases and no state. What they
  decide about a command is a parameter of each command in `Session`, `Scope` and
  `Approval`.
- *Classification of strings*: desktop targets and keys (`desktop-policy.ts`), which words
  refuse a reel, what counts as a confirmation, classes of addresses.
- *Derived text*: persona, roast, habits and insights, reports and pages' layout.
- *Adapters and input*: the desktop driver's, the reel's readers and parsers, the
  offline composer, the command lines, `doctor`, the server's HTTP routes, environment.
- *Development tools*: benches, scripts, git hooks.

Simplifications to know when reading a result:

- `Pipeline`: fail, blocked and inconclusive, which the loop treats alike, are
  one outcome.
- `TeamPlan`: fields checked only for their shape, slices' paths, items of a foreach
  and user-defined roles are left out; `appendSteps` is called by no command.
- `TeamRun`: as `Pipeline`; the audit of the tree is one of the reasons a verdict is
  no pass (`Scope` has the audit itself); of a batch of skips the code judges all before it records the first,
  the model one at a time, which differs only in a run that then fails.
- `Session`: the words are the verdicts their JSON block would give; the streak of
  refusals is `Approval`'s.
- `Scope`: the folding of case and of Unicode forms is left out; `expandBraces`'
  limit of 64 too, a pattern being the set of its alternatives. `MaxHops` limits links
  within links, as `canonicalPath`'s `hops` does; the system's own limit on all the links of a path,
  which only makes it refuse more, is taken for the same. A search may open all that is below its
  directory, and goes through no link there.
- `Approval`: the history is not trimmed, which is `History`'s; the run of a tool is not shown, only
  that it was let run; a person may answer any prompt on show, not the oldest only.
- `Ledger`: a page that was sent has moved, so `giveUp` keeps its row; that the
  confirmation text may be a false one only matters to rows' states.
- `Form`: a label is the set of the patterns it matches, a very long label being one more; the
  placeholder of a select is "no value"; links count as buttons; the file does not
  change while one upload call lasts.
- `Desktop`: refusals that change nothing are left out.
- `Browser`: ids of refs and screenshots are never used twice, so an earlier one is
  simply refused; the viewport, the scroll position and the policy only add refusals.
- `Shutdown`: the run's own work is one step whose end is a choice.
- `NetGate`: the bytes piped are left out; a lookup answers whatever it likes.
- `Notices`: one tab; both layers of listeners hear in one turn; the 200 ms the gate
  waits are enough for the browser's own event; counts shown and log lines, and the
  clearing of the requests seen past five hundred, are left out.
- `Lineage`: a call writes one file of its own, and every cost is one.
- `Reels`: the removal of frames is tried once and may fail unseen (what counts is the try);
  the key a source gets is arbitrary, a purge may take any rows, the models' answers
  are any of a set; the novelty score and the citations' text, which no threshold
  reads, are left out.
- `ProfileLock`: a process's life is one process, so a pid used again is "gone",
  which the start time in the file tells; what is there becomes too old to wait
  for at any moment, so a process may be slow anywhere.

## 7. Where the code and its documentation disagree

Two are runs that must be violated, and findings in `PROJECT.json`.

1. `pipeline_stop` - a stop during the last Overseer call is announced, then
   lost: the run is saved "done".
2. `lock_broken` - two processes that found the same broken lock file can both
   get the lock: to the re-read inside the mutex a missing file and an unreadable
   one are the same.

Observed while modelling, without a run of their own. *Run and team:*

- `--cap` reaches the command line's validation and not the run's (`run-plan.ts:115`): a plan
  of thirteen steps accepted under `--cap 20` starts a run that is refused before
  its first step and recorded failed. In the same way the run takes any role with a write
  scope for a task that writes: a plan with a docs-writer and no builder, accepted
  for a task that only reads, is refused by its own run.
- `attachLoose` (`compose.ts:199`): of two mandatory reviews missing from a plan with one
  sink, the second finds no sink left and stays a second root, so that the plan is
  refused (V6) although the floor was to repair it.
- After a repair back to the planner, "the steps that have not run"
  (`run-plan.ts:86`) are those later in the order, whether they ran or not: a step
  with a row, a failed one too, can be skipped into the record.
- A session's verdict is the *first* JSON block of its last text, and a text
  that gave one stands if the session ends in an error without another.
- The built-in verifier and gatekeeper have Write and no write scope, so that "don't ask
  again" for a builder's Write covers theirs.
- A step whose shell puts a link where a file outside its slice was, into its
  slice, passes the audit (the audit's claim is only of a step whose links are the ones it found,
  `Scope`'s `Relinked`). The snapshots look at nothing outside the project nor in derived directories
  (`changes.ts:18`), so a shell's work there is nobody's. `saveReport` writes through a link to any file
  inside the project. A slice behind a link to `no/../web`, where there is
  no `no`, is read as `web` (`path-canon.ts:23`) until a file called `no` is made: the same link then
  cannot be read, and the audit blocks the step for what its hook let it write in `web`. `Scope`'s `Astray`
  leaves such a slice out. A Grep of a directory, or of no path at all, reads the secrets
  below it (`hooks.ts:134`, 166; `docs/IMPROVEMENTS.md:574` says so): only the path it is given is judged.
  `slicePrefixes` gives a directory that leads outside the prefix `undefined`, which is
  then the name of a directory in scope.

*Approvals, terminal, history:*

- A stop or a timeout counts as a human's refusal: `bus.ts:47` calls the streak requests
  "a human refused", and the hook (`hooks.ts:355`) notes the denial that an abort makes
  up as well, so three prompts nobody answered end desktop input. `StreakCounts` counts
  them as the code does.
- A line typed for one prompt answers the next if the first is answered elsewhere meanwhile:
  the reason typed so far is dropped, and the keys that follow, up to the Enter, go to the prompt that took
  its place (`terminal.ts:224`, 141-165). `PromptsKept` claims only that the *reason* stays with its request.
- `bus.ts:88` says a pending request is "Never dropped"; the last branch of the
  trimming keeps structure only, so a history filled by structure drops it
  (`History`'s `overfull`). A result whose call was trimmed away before it stays until the next trim.
- A record-decision within 300 ms of the run's end publishes an almost empty tree, and
  the tracker of a run with more than fifty thousand events never hears its end.

*Ledger, facts, uploads, profile:*

- `profile.ts:235` says that two processes that found the same stale lock cannot each
  remove the other's fresh one. Besides `lock_broken`, where one died inside a recovery
  they can: two others find its directory old, the first removes it and begins a recovery
  of its own, the second removes *that* directory by name (240) and begins another; both
  find the dead holder's lock, the first unlinks it and links its own, the second unlinks
  the first's. `lock_races` reaches this, and `OneHolder` names it (`slips`).
- `ledger.ts:94` says an intended row "blocks a new attempt until it is verified";
  `duplicate()` looks back thirty days only.
- A clock that is set right after a step back ages every row written in between
  at once, and the caps start anew (`ClockMoves` with "forward").
- With pages that submit themselves at any time, `SentIsRecorded` fails: the
  page sends between `giveUp` and the closing of its session.
- `verifyAttempt` answers "confirmed" without looking at what `confirm()` did
  (`job-apply.ts:349`), and a site's pause is read once, at the start (181).
- The comparison with the plan looks at the first field of a role and a label
  only (`job-apply.ts:291`, `FormIsMeant` leaves such a twin out); a change between it and the
  click is unseen; a form that submitted itself during the fill is clicked all the
  same (312); the text of the page is not judged again after the fill.
- A designated file that is missing or behind a link when the session starts is
  not pinned; and it may change between being resolved and being set
  (`browser-tools.ts:1918`, 1926).

*Desktop and browser:*

- `DESKTOP-AGENT.md:92` says a capture is single-use and nothing is sent after a
  lock: true of calls one after another. Of calls at once two may both send on one capture,
  each once (`OncePerCall` and `LockDrains` say what holds), and a
  capture in parallel does not make an earlier click's id stale once the click is past
  the check (`desktop-tools.ts:500`).
- A screenshot's document is read after its picture has arrived
  (`browser-tools.ts:1984`), and its id is given after an await for the title: a
  point may be on a picture of the page before, which is why `ActsOnWhatIsThere`
  speaks of refs.
- `close()` during a launch finds nothing to close; a launch that fails half way keeps its
  gate, browser and lock; two launches at once make two sessions
  (`SessionsClosed` names them, and they last until the process exits).
- A CONNECT's "close" listener is attached after `decide` was awaited, so a
  client that left before is not noticed (`UpstreamsAccounted` names it).
- An upload that fails drops the hold of its tab though its field may not have been emptied, or the page may
  have kept this file or an earlier one (`Uploads`' `lost`); a tab's own hold hides its opener's; a window whose
  opener has closed is not held; a socket is judged when it is opened, by the first of the
  held tabs; four pages are looked at, the tab's own and three openers.
- Of refusals, some are told by nobody: a subresource over plain http, the
  favicon, a headerless load of a host refused before, and a network failure
  within two seconds of any refusal. `notices` without an argument does not put a repeated
  entry first.

*Reels:*

- Two `reel` commands on one source at once: the second tells its own verdict although
  the table kept the first's (`reel-command.ts:96` does not look at what `add()` returns).
- `judge.ts:93` says that a risk of five "refuses too"; an attack tool in a
  defensive sense is "ask" whatever its risk or its scores (107 is before 110), and a text addressed
  to an AI lifts an idea that its scores would skip to "ask".

## 8. Plan

Done: `PhaseGate` and `Pipeline` (the run's control), `Consent` and `Approval`
(nothing runs without a yes), `Ledger` (nothing is sent twice), `Desktop`,
`ProfileLock`, `TeamPlan`, `StepGate` and `TeamRun` (done means checked), each
with its theorems; then `History`, `Shutdown`, `Browser`, `NetGate` with its
theorem, `Sites` and `Uploads`, `Notices`, `Lineage`, `Terminal`, `Form`, `Scope`,
`Session`, `Reels`, and the theorem that `TeamRun` implements `StepGate`; then the
theorems of `Browser`, of the caps, of the streak and the stop, and of the
recovery directory; last those of the prompts and pages, of the ending of a
process, of uploads and sessions, of the records, the tree among them, of forms, and of
the places a step reads and writes.

What is left, most important first:

1. A theorem about what `finalizePlan` builds.
2. `Approval`'s replay over `History`'s trimmed one, and `Session`'s hooks over
   `Scope`'s judgment of a path: compositions of what is now checked apart.
3. A bounded scanner of shell commands against a reference definition.

## 9. Running it

`tlc -config pipeline.cfg MCPipeline` and so on, the module of each run being in
`PROJECT.json`; `tlapm PipelineProofs.tla` and so on for the proofs. A passing
run takes from seconds to about three minutes with two workers (`records` is the longest), a
proof module from one to about twelve (`TreeProofs`).
