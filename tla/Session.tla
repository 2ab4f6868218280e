------------------------------ MODULE Session ------------------------------
(***************************************************************************)
(* The model session of one step (phases.ts): the tools its role has       *)
(* (team/roster.ts, team/role-spec.ts), the hooks each call of a tool      *)
(* passes, all of them at once (hooks.ts), and the verdict read from its   *)
(* last words.  The rules a person grants outlive the step: they are the   *)
(* bus's, and hold for the steps after it.                                 *)
(*                                                                         *)
(* "look" and "act" are the browser's tools that read a page and those     *)
(* that act on what it contains, "capture" and "input" the desktop's.      *)
(***************************************************************************)
EXTENDS Naturals, Sequences, FiniteSets

CONSTANTS
  Team,             \* the steps of a run, by the names of their roles or phases
  Definitions,      \* role files of the user, [id, kind, tools, scope]
  Tried,            \* the tools its sessions call
  Commands,         \* shell commands: [rules, reads], no rules for one that must be asked every time
  MaxSteps, MaxCalls

Reading == {"Read", "Glob", "Grep"}
Writing == {"Write", "Edit"}
Desktop == {"capture", "input"}

Role(id, kind, tools, scope) == [id |-> id, kind |-> kind, tools |-> tools, scope |-> scope, builtin |-> TRUE]

BuiltinRoster ==
  {Role("composer", "meta", {}, "none"), Role("learner", "meta", {}, "none"), Role("watchdog", "monitor", {}, "none"),
   Role("researcher", "read", {"read"}, "none"), Role("planner", "plan", {"read"}, "none"),
   Role("advisor", "advise", {"read"}, "none"), Role("test-designer", "plan", {"read"}, "tests"),
   Role("builder", "build", {"read", "run"}, "slice"), Role("integrator", "build", {"read", "run"}, "shared"),
   Role("docs-writer", "build", {"read"}, "docs"), Role("verifier", "check", {"read", "run", "browser-read"}, "none"),
   Role("security-reviewer", "check", {"read"}, "none"), Role("migration-reviewer", "check", {"read"}, "none"),
   Role("a11y-reviewer", "check", {"read", "browser-read"}, "none"), Role("perf-reviewer", "check", {"read", "run"}, "none"),
   Role("ui-tester", "check", {"browser"}, "none"), Role("desktop-tester", "check", {"desktop"}, "none"),
   Role("adversary", "check", {"read", "run"}, "none"), Role("gatekeeper", "gate", {"read"}, "none")}

\* parseUserRole
Accepted(d) ==
  /\ d.id \notin {r.id : r \in BuiltinRoster}
  /\ d.kind \in {"read", "plan", "advise", "build", "check"}
  /\ d.tools \subseteq {"read", "run", "web", "browser-read"}
  /\ d.scope \in {"none", "tests", "docs", "slice"}
  /\ d.kind \in {"read", "advise", "check"} => d.scope = "none"

\* loadRoster
Roster == BuiltinRoster \cup
          {[id |-> d.id, kind |-> d.kind, tools |-> d.tools, scope |-> d.scope, builtin |-> FALSE]
             : d \in {d \in Definitions : Accepted(d)}}

\* roleSpec and sdkTools; a browser read only has none of the acting tools.  The "web" class grants nothing.
RoleTools(r) ==
  IF r.kind \in {"meta", "monitor"} THEN {}
  ELSE UNION {IF "read" \in r.tools THEN Reading ELSE {}, IF "run" \in r.tools THEN {"Bash"} ELSE {},
              IF r.scope # "none" THEN Writing ELSE {},
              IF "browser" \in r.tools THEN {"look", "act"} ELSE IF "browser-read" \in r.tools THEN {"look"} ELSE {},
              IF "desktop" \in r.tools THEN Desktop ELSE {}}

\* PHASE_SPECS, BROWSER_ENABLED_PHASES and DESKTOP_ENABLED_PHASES
PhaseTools(phase) ==
  UNION {Reading \cup {"Write"},
         IF phase \in {"Builder", "Verifier", "Gatekeeper"} THEN {"Bash"} ELSE {},
         IF phase \in {"Builder", "Verifier"} THEN {"look", "act"} \cup Desktop ELSE {},
         IF phase = "Builder" THEN {"Edit"} ELSE {}}

Phases == {"Planner", "Test-Designer", "Builder", "Verifier", "Gatekeeper"}
RoleOf == [s \in {r.id : r \in Roster} |-> CHOOSE r \in Roster : r.id = s]
Tools == [s \in Team |-> IF s \in Phases THEN PhaseTools(s) ELSE RoleTools(RoleOf[s])]

-----------------------------------------------------------------------------

VARIABLES
  requireApproval,  \* not --no-approval
  step, begun,   \* the step whose session runs, "none" between two, and how many there were
  text,          \* lastAssistantText: the verdict blocks in it, in order
  spoke,         \* whether this session said anything
  called,        \* how many calls there were
  waiting,       \* the calls whose hook waits for a person
  rules, grants, \* bus.allowRules, and the calls that granted them
  ran,           \* [by, call, how]: what was let run
  returned       \* of the last session

vars == <<requireApproval, step, begun, text, spoke, called, waiting, rules, grants, ran, returned>>

\* Texts, by the blocks of json in them: an outcome, or nothing parseVerdict takes.
Texts == {<<>>, <<"pass">>, <<"invalid", "pass">>}

\* A call names a tool and, if that has them, the place of a file or a command.
NoCommand == [rules |-> {}, reads |-> FALSE]
Call == [tool : Tried \cap Writing, inside : BOOLEAN, inScope : BOOLEAN, command : {NoCommand}]
        \cup [tool : Tried \cap Reading, inside : BOOLEAN, inScope : {TRUE}, command : {NoCommand}]
        \cup [tool : Tried \cap {"Bash"}, inside : BOOLEAN, inScope : {TRUE}, command : Commands]
        \cup [tool : Tried \cap ({"look", "act"} \cup Desktop), inside : {TRUE}, inScope : {TRUE}, command : {NoCommand}]

Init ==
  /\ requireApproval \in BOOLEAN
  /\ step = "none" /\ begun = 0 /\ text = <<>> /\ spoke = FALSE
  /\ called = 0 /\ waiting = {} /\ rules = {} /\ grants = {} /\ ran = {} /\ returned = "none"

\* mutant: the words of the session before are still there
BeginsMidSentence(s) ==
  /\ step = "none" /\ begun < MaxSteps /\ begun' = begun + 1
  /\ step' = s /\ spoke' = FALSE /\ returned' = "none"
  /\ UNCHANGED <<text, called, waiting, rules, grants, ran>>

Begins(s) ==
  /\ step = "none" /\ begun < MaxSteps /\ begun' = begun + 1
  /\ step' = s /\ text' = <<>> /\ spoke' = FALSE /\ returned' = "none"
  /\ UNCHANGED <<called, waiting, rules, grants, ran>>

Says(t) ==
  /\ step # "none" /\ text' = t /\ spoke' = TRUE
  /\ UNCHANGED <<step, begun, called, waiting, rules, grants, ran, returned>>

\* approvalPlan: no rules for an input of the desktop nor for a command too open to generalise.
RulesOf(c) == IF c.tool = "input" THEN {} ELSE IF c.tool = "Bash" THEN c.command.rules ELSE {c.tool}
ReadsOnly(c) == c.tool = "Bash" /\ c.command.reads
Covered(c) == ReadsOnly(c) \/ (RulesOf(c) # {} /\ RulesOf(c) \subseteq rules)

\* The other hooks: hard-denied commands, files outside or secret, and for a team's step its write
\* scope.  The built-in phases have none.
Denied(c) == \/ ~c.inside /\ c.tool \in Reading \cup Writing \cup {"Bash"}
             \/ step \notin Phases /\ c.tool \in Writing /\ ~c.inScope

Runs(c, how) == ran' = IF Denied(c) THEN ran ELSE ran \cup {[by |-> step, call |-> c, how |-> how]}

\* mutant: without approval the desktop's calls run like all others
CallsDesktopUnasked(c) ==
  /\ step # "none" /\ c.tool \in Tools[step]
  /\ called < MaxCalls /\ called' = called + 1
  /\ \/ ~requireApproval /\ Runs(c, "unasked") /\ UNCHANGED waiting
     \/ requireApproval /\ c.tool \in Reading /\ Runs(c, "free") /\ UNCHANGED waiting
     \/ requireApproval /\ c.tool \notin Reading /\ Covered(c) /\ Runs(c, "covered") /\ UNCHANGED waiting
     \/ requireApproval /\ c.tool \notin Reading /\ ~Covered(c) /\ waiting' = waiting \cup {c} /\ UNCHANGED ran
  /\ UNCHANGED <<step, begun, text, spoke, rules, grants, returned>>

\* createApprovalHook, to its answer or its prompt; a deny of another hook wins over its allow.
Calls(c) ==
  /\ step # "none" /\ c.tool \in Tools[step]
  /\ called < MaxCalls /\ called' = called + 1
  /\ \/ c.tool \in Desktop /\ ~requireApproval /\ UNCHANGED <<ran, waiting>>
     \/ c.tool \notin Desktop /\ ~requireApproval /\ Runs(c, "unasked") /\ UNCHANGED waiting
     \/ requireApproval /\ c.tool \in Reading /\ Runs(c, "free") /\ UNCHANGED waiting
     \/ requireApproval /\ c.tool \notin Reading /\ Covered(c) /\ Runs(c, "covered") /\ UNCHANGED waiting
     \/ requireApproval /\ c.tool \notin Reading /\ ~Covered(c) /\ waiting' = waiting \cup {c} /\ UNCHANGED ran
  /\ UNCHANGED <<step, begun, text, spoke, rules, grants, returned>>

\* The person's answer, for good or once; what the other hooks said is not its business.
Answers(c, yes, remember) ==
  /\ c \in waiting /\ waiting' = waiting \ {c}
  /\ IF yes THEN Runs(c, "yes") ELSE UNCHANGED ran
  /\ rules' = IF yes /\ remember THEN rules \cup RulesOf(c) ELSE rules
  /\ grants' = IF yes /\ remember THEN grants \cup {c} ELSE grants
  /\ UNCHANGED <<step, begun, text, spoke, called, returned>>

\* parseVerdict: the first block counts.
Outcome == IF text # <<>> /\ Head(text) # "invalid" THEN Head(text) ELSE "inconclusive"

\* The stream ends with every call answered, or the run's abort ends it with a throw.
Ends ==
  /\ step # "none" /\ waiting = {}
  /\ returned' = Outcome /\ step' = "none"
  /\ UNCHANGED <<begun, text, spoke, called, waiting, rules, grants, ran>>

Aborted ==
  /\ step # "none" /\ waiting' = {} /\ returned' = "threw" /\ step' = "none"
  /\ UNCHANGED <<begun, text, spoke, called, rules, grants, ran>>

Next ==
  /\ \/ \E s \in Team : Begins(s)
     \/ \E t \in Texts : Says(t)
     \/ \E c \in Call : Calls(c)
     \/ \E c \in waiting, yes, remember \in BOOLEAN : Answers(c, yes, remember)
     \/ Ends \/ Aborted
  /\ UNCHANGED requireApproval

Spec == Init /\ [][Next]_vars

-----------------------------------------------------------------------------

\* What the roster promises of a role, whoever wrote it.
RosterHolds ==
  \A r \in Roster :
    /\ r.kind \in {"read", "advise", "check", "gate", "meta", "monitor"} => RoleTools(r) \cap Writing = {}
    /\ r.scope = "none" => RoleTools(r) \cap Writing = {}
    /\ ~r.builtin => RoleTools(r) \cap ({"act"} \cup Desktop) = {} /\ r.scope # "shared"

KeepsToRole ==
  \A x \in ran :
    /\ x.call.tool \in Tools[x.by]
    /\ x.by \notin Phases /\ x.call.tool \in Writing => x.call.inScope /\ RoleOf[x.by].scope # "none"
    /\ x.call.tool \in Reading \cup Writing \cup {"Bash"} => x.call.inside

AskedFor ==
  \A x \in ran :
    /\ x.call.tool \in Desktop => requireApproval
    /\ x.call.tool = "input" => x.how = "yes"
    /\ x.how = "covered" => ReadsOnly(x.call) \/ RulesOf(x.call) \subseteq UNION {RulesOf(g) : g \in grants}
    /\ x.how = "unasked" => ~requireApproval

LastWordCounts == returned = "pass" => spoke /\ text # <<>> /\ Head(text) = "pass"

(* A step does what its role may do and no more: with the rules other steps     *)
(* were granted too, with a yes for a call that another hook refuses, and with   *)
(* a role file of the user's own; an input of the desktop has a yes of its own;   *)
(* and it passes only by the last words of its own session (runPhase, roleSpec,  *)
(* parseUserRole, createApprovalHook).                                          *)
StepKeepsToRole == RosterHolds /\ KeepsToRole /\ AskedFor /\ LastWordCounts

=============================================================================
