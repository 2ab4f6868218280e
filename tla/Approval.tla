------------------------------ MODULE Approval ------------------------------
(***************************************************************************)
(* The approval round-trip of a run: the PreToolUse hook that blocks a     *)
(* tool call until a person answers (hooks.ts), the bus that keeps the     *)
(* requests waiting and the rules granted (bus.ts), the WebSocket server   *)
(* and the pages connected to it (server.ts, ui/index.html), the terminal  *)
(* prompt (terminal.ts), and the stop that refuses what is waiting         *)
(* (pipeline.ts).                                                          *)
(*                                                                         *)
(* A run makes several tool calls at once, each with a hook of its own.    *)
(* In the process, what follows an event up to the next await is one       *)
(* action; the listeners of the bus, the terminal among them, run inside   *)
(* it, and so does the hook that an answer wakes.  A page is another       *)
(* process: events and answers travel on its socket, in order, and are     *)
(* lost with it.  A page and the terminal show the oldest prompt first;    *)
(* here a person may answer any prompt shown.                              *)
(***************************************************************************)
EXTENDS Naturals, SequencesExt

CONSTANTS Call,             \* tool calls
          Kind,             \* Kind[c] \in {"input", "look", "auto", "readonly", "other"}
          Rules,            \* Rules[c]: the rules of approvalPlan, {} for none
          Tab,              \* the browser tabs a person may open
          MaxDenials,       \* MAX_CONSECUTIVE_INPUT_DENIALS
          RequireApproval,  \* not --no-approval
          Strict            \* --strict-approval

ASSUME ApprovalAssumption ==
  /\ Kind \in [Call -> {"input", "look", "auto", "readonly", "other"}]
  /\ \A c \in Call : Kind[c] \in {"input", "readonly"} => Rules[c] = {}
  /\ MaxDenials \in Nat
  /\ RequireApproval \in BOOLEAN
  /\ Strict \in BOOLEAN

Answer == {"yes", "always", "no"}

VARIABLES
  status,    \* what became of each call
  aborted,   \* the calls whose hook was given up by an abort
  pending,   \* bus.pending
  rules,     \* bus.allowRules
  streak,    \* bus.inputDenialStreak
  history,   \* bus.history, the events a prompt depends on
  stopped,   \* the stop was announced and what waited refused
  over,      \* the run's finally block has run
  terminal,  \* the terminal's queue
  open,      \* the tabs with an open socket
  view,      \* view[t]: state.pending of the page
  toTab,     \* toTab[t]: events on their way to the page
  toServer,  \* toServer[t]: answers on their way to the server
  said       \* said[c]: every answer a person has given for c

vars == <<status, aborted, pending, rules, streak, history, stopped, over,
          terminal, open, view, toTab, toServer, said>>

bus    == <<pending, rules, streak, history>>
pages  == <<open, view, toTab, toServer>>

Requested(c) == [type |-> "approval-request", call |-> c]
Resolved(c)  == [type |-> "approval-resolved", call |-> c]
\* What a page sends: a decision for one request.
Message == [call : Call, answer : Answer]
Event == {Requested(c) : c \in Call} \cup {Resolved(c) : c \in Call}

TypeOK ==
  /\ status \in [Call -> {"new", "waiting", "allowed", "ruled", "denied"}]
  /\ aborted \subseteq Call
  /\ pending \subseteq Call
  /\ rules \subseteq UNION {Rules[c] : c \in Call}
  /\ streak \in Nat
  /\ history \in Seq(Event)
  /\ stopped \in BOOLEAN
  /\ over \in BOOLEAN
  /\ terminal \subseteq Call
  /\ open \subseteq Tab
  /\ view \in [Tab -> SUBSET Call]
  /\ toTab \in [Tab -> Seq(Event)]
  /\ toServer \in [Tab -> Seq(Message)]
  /\ said \in [Call -> SUBSET Answer]

Waiting == {c \in Call : status[c] = "waiting"}

-----------------------------------------------------------------------------
(* Events. *)

\* What a list of prompts becomes when event e reaches it.
Shown(list, e) ==
  IF e.type = "approval-request" THEN list \cup {e.call} ELSE list \ {e.call}

\* The calls these events are about.
Of(events, type) == {e.call : e \in {x \in ToSet(events) : x.type = type}}

\* bus.emitEvent: the history, every connected page and the terminal get the
\* events.  A call's request comes before its outcome.
Emit(events) ==
  /\ history' = history \o events
  /\ toTab' = [t \in Tab |-> IF t \in open THEN toTab[t] \o events ELSE toTab[t]]
  /\ terminal' = (terminal \cup Of(events, "approval-request")) \ Of(events, "approval-resolved")

\* mutant: replay leaves out requests, answered or not
ReplayAnswered == SelectSeq(history, LAMBDA e : e.type # "approval-request")

\* mutant: replay sends what waits and no outcomes
ReplayWaitingOnly == SelectSeq(history, LAMBDA e : e.type = "approval-request" /\ e.call \in pending)

\* bus.replay: every outcome, and the requests that are still waiting, as they came.
Replayed(e) == e.type = "approval-request" => e.call \in pending
Replay ==
  LET kept[n \in 0..Len(history)] ==
        IF n = 0 THEN <<>>
        ELSE IF Replayed(history[n]) THEN Append(kept[n - 1], history[n]) ELSE kept[n - 1]
  IN kept[Len(history)]

\* The events of the calls S being resolved, in any order.
Resolutions(S) ==
  {es \in [1..Cardinality(S) -> {Resolved(c) : c \in S}] :
     \A c \in S : Resolved(c) \in ToSet(es)}

-----------------------------------------------------------------------------
(* The hook. *)

Count(S) == Cardinality({c \in S : Kind[c] = "input"})

\* mutant: looking at the window resets the streak too
StreakAnyTool(S, answer) ==
  IF answer = "no" THEN streak + Count(S) ELSE 0

\* mutant: an input that is allowed takes one refusal off
StreakNotReset(S, answer) ==
  CASE Count(S) = 0  -> streak
    [] answer = "no" -> streak + Count(S)
    [] OTHER         -> IF streak = 0 THEN 0 ELSE streak - 1

\* noteDesktopInputDecision, for each desktop input call of S.
StreakAfter(S, answer) ==
  CASE Count(S) = 0  -> streak
    [] answer = "no" -> streak + Count(S)
    [] OTHER         -> 0

\* mutant: the rules shown are granted by a plain yes
RulesAfterAny(S, answer) ==
  IF answer = "no" THEN rules ELSE rules \cup UNION {Rules[c] : c \in S}

RulesAfter(S, answer) ==
  IF answer = "always" THEN rules \cup UNION {Rules[c] : c \in S} ELSE rules

\* The hooks of the calls S go on with an answer.
Settle(S, answer, before) ==
  /\ status' = [c \in Call |-> IF c \notin S THEN status[c]
                               ELSE IF answer = "no" THEN "denied" ELSE "allowed"]
  /\ streak' = StreakAfter(S, answer)
  /\ rules' = RulesAfter(S, answer)
  /\ \E es \in Resolutions(S) : Emit(before \o es)

Init ==
  /\ status = [c \in Call |-> "new"]
  /\ aborted = {}
  /\ pending = {}
  /\ rules = {}
  /\ streak = 0
  /\ history = <<>>
  /\ stopped = FALSE
  /\ over = FALSE
  /\ terminal = {}
  /\ open = {}
  /\ view = [t \in Tab |-> {}]
  /\ toTab = [t \in Tab |-> <<>>]
  /\ toServer = [t \in Tab |-> <<>>]
  /\ said = [c \in Call |-> {}]

Desktop(c) == Kind[c] \in {"input", "look"}

\* mutant: every one of no rules is granted
CoveredByNone(c) ==
  \/ Kind[c] = "readonly" /\ ~Strict
  \/ Rules[c] \subseteq rules

\* Allowed without asking: a read-only command, or every rule granted.
Covered(c) ==
  \/ Kind[c] = "readonly" /\ ~Strict
  \/ Rules[c] # {} /\ Rules[c] \subseteq rules

\* mutant: one more input is offered after the limit
RefusedLate(c) ==
  \/ Desktop(c) /\ ~RequireApproval
  \/ Kind[c] = "input" /\ streak > MaxDenials

\* Denied without asking: a desktop tool with approval off, or another input
\* after the person refused so many in a row.
Refused(c) ==
  \/ Desktop(c) /\ ~RequireApproval
  \/ Kind[c] = "input" /\ streak >= MaxDenials

\* Allowed without asking.
LetThrough(c) ==
  \/ ~Desktop(c) /\ ~RequireApproval
  \/ Kind[c] = "auto"
  \/ Covered(c)

\* What createApprovalHook makes of a call before it asks anybody.
Unasked(c) ==
  IF Refused(c) THEN "denied" ELSE IF LetThrough(c) THEN "ruled" ELSE "waiting"

\* A tool call reaches the hook.
CallTool(c) ==
  /\ status[c] = "new"
  /\ ~over
  /\ status' = [status EXCEPT ![c] = Unasked(c)]
  /\ \/ /\ Unasked(c) # "waiting"
        /\ UNCHANGED <<pending, history, toTab, terminal>>
     \/ /\ Unasked(c) = "waiting"
        /\ pending' = pending \cup {c}
        /\ Emit(<<Requested(c)>>)
  /\ UNCHANGED <<aborted, rules, streak, stopped, over, open, view, toServer, said>>

\* The same after a stop, in a session that is already aborted: the request is
\* made and refused at once.
CallToolAborted(c) ==
  /\ status[c] = "new"
  /\ stopped
  /\ ~over
  /\ Unasked(c) = "waiting"
  /\ pending' = pending \cup {c}
  /\ aborted' = aborted \cup {c}
  /\ Settle({c}, "no", <<Requested(c)>>)
  /\ UNCHANGED <<stopped, over, open, view, toServer, said>>

\* mutant: the hook keeps waiting for the answer
AbortIgnored(c) ==
  /\ status[c] = "waiting"
  /\ aborted' = aborted \cup {c}
  /\ UNCHANGED <<status, pending, rules, streak, history, terminal, toTab, stopped,
                 over, open, view, toServer, said>>

\* The session of a waiting call is aborted, or its hour is over (the hooks'
\* timeout): the hook goes on without an answer, and the bus is not told.
Abort(c) ==
  /\ status[c] = "waiting"
  /\ aborted' = aborted \cup {c}
  /\ Settle({c}, "no", <<>>)
  /\ UNCHANGED <<pending, stopped, over, open, view, toServer, said>>

-----------------------------------------------------------------------------
(* Answers. *)

\* bus.resolveApproval: an answer to a request that is not waiting any more is
\* dropped; one whose hook was aborted only leaves the map.
Resolve(c, answer) ==
  /\ pending' = pending \ {c}
  /\ \/ /\ c \in pending /\ status[c] = "waiting"
        /\ Settle({c}, answer, <<>>)
     \/ /\ ~(c \in pending /\ status[c] = "waiting")
        /\ UNCHANGED <<status, rules, streak, history, terminal, toTab>>

\* A person can say "don't ask again" where the prompt shows a rule.
Offered(c) == IF Rules[c] = {} THEN {"yes", "no"} ELSE Answer

Say(c, answer) == said' = [said EXCEPT ![c] = @ \cup {answer}]

\* A key at the terminal.
AnswerInTerminal(c, answer) ==
  /\ c \in terminal
  /\ answer \in Offered(c)
  /\ Say(c, answer)
  /\ Resolve(c, answer)
  /\ UNCHANGED <<aborted, stopped, over, open, view, toServer>>

\* A click in a page: the answer is sent and the prompt taken away.
AnswerInTab(t, c, answer) ==
  /\ t \in open
  /\ c \in view[t]
  /\ answer \in Offered(c)
  /\ Say(c, answer)
  /\ toServer' = [toServer EXCEPT ![t] = Append(@, [call |-> c, answer |-> answer])]
  /\ view' = [view EXCEPT ![t] = @ \ {c}]
  /\ UNCHANGED <<status, aborted, bus, stopped, over, terminal, open, toTab>>

\* The server reads an answer.
ServerReceives(t) ==
  /\ toServer[t] # <<>>
  /\ toServer' = [toServer EXCEPT ![t] = Tail(@)]
  /\ Resolve(Head(toServer[t]).call, Head(toServer[t]).answer)
  /\ UNCHANGED <<aborted, stopped, over, open, view, said>>

-----------------------------------------------------------------------------
(* Pages. *)

\* A tab opens, or comes back: it starts from nothing and is sent the replay.
Connect(t) ==
  /\ t \notin open
  /\ open' = open \cup {t}
  /\ view' = [view EXCEPT ![t] = {}]
  /\ toTab' = [toTab EXCEPT ![t] = Replay]
  /\ UNCHANGED <<status, aborted, bus, stopped, over, terminal, toServer, said>>

\* Its socket closes with what is on it.
Disconnect(t) ==
  /\ t \in open
  /\ open' = open \ {t}
  /\ toTab' = [toTab EXCEPT ![t] = <<>>]
  /\ toServer' = [toServer EXCEPT ![t] = <<>>]
  /\ UNCHANGED <<status, aborted, bus, stopped, over, terminal, view, said>>

TabReceives(t) ==
  /\ toTab[t] # <<>>
  /\ toTab' = [toTab EXCEPT ![t] = Tail(@)]
  /\ view' = [view EXCEPT ![t] = Shown(@, Head(toTab[t]))]
  /\ UNCHANGED <<status, aborted, bus, stopped, over, terminal, open, toServer, said>>

-----------------------------------------------------------------------------
(* The end of the run. *)

\* mutant: only the newest request is refused
StopRefusesOne ==
  /\ ~stopped
  /\ ~over
  /\ stopped' = TRUE
  /\ \E S \in SUBSET pending :
       /\ Cardinality(S) <= 1
       /\ pending' = pending \ S
       /\ Settle(S \cap Waiting, "no", <<>>)
  /\ UNCHANGED <<aborted, over, open, view, toServer, said>>

\* The first stop, announced by the pipeline: denyAllPending.
Stop ==
  /\ ~stopped
  /\ ~over
  /\ stopped' = TRUE
  /\ pending' = {}
  /\ Settle(pending \cap Waiting, "no", <<>>)
  /\ UNCHANGED <<aborted, over, open, view, toServer, said>>

\* The run's finally block: the sessions are over, so no hook is waiting.
EndRun ==
  /\ ~over
  /\ Waiting = {}
  /\ over' = TRUE
  /\ UNCHANGED <<status, aborted, bus, stopped, terminal, pages, said>>

Next ==
  \/ \E c \in Call : CallTool(c) \/ CallToolAborted(c) \/ Abort(c)
  \/ \E c \in Call, a \in Answer : AnswerInTerminal(c, a)
  \/ \E t \in Tab, c \in Call, a \in Answer : AnswerInTab(t, c, a)
  \/ \E t \in Tab : ServerReceives(t) \/ Connect(t) \/ Disconnect(t) \/ TabReceives(t)
  \/ Stop
  \/ EndRun

Spec == Init /\ [][Next]_vars

\* The hooks' timeout gives up every call in the end; sockets deliver.
FairSpec ==
  /\ Spec
  /\ \A c \in Call : WF_vars(Abort(c))
  /\ \A t \in Tab : WF_vars(TabReceives(t)) /\ WF_vars(ServerReceives(t))

-----------------------------------------------------------------------------
(* Properties. *)

\* The calls of the run that no person has to see.
FreeCalls == {c \in Call : \/ Kind[c] = "auto"
                           \/ Kind[c] = "readonly" /\ ~Strict
                           \/ ~RequireApproval /\ ~Desktop(c)}

Verdict(s) == CASE s \in {"new", "waiting"}   -> "no"
                [] s \in {"allowed", "ruled"} -> "ran"
                [] s = "denied"               -> "refused"

Decided == [c \in Call |-> Verdict(status[c])]
SaidYes == {c \in Call : said[c] \cap {"yes", "always"} # {}}
SaidAlways == {c \in Call : "always" \in said[c]}

Promise == INSTANCE Consent WITH Free    <- FreeCalls,
                                 decided <- Decided,
                                 yes     <- SaidYes,
                                 always  <- SaidAlways,
                                 granted <- rules

(* No call runs without a person's yes to that very call or rules persons      *)
(* granted, however answers from several pages and the terminal, reconnects,   *)
(* aborts and a stop cross (createApprovalHook, resolveApproval).              *)
ConsentSpec == Promise!Spec

(* A call waiting for a person is in front of one: every connected page shows  *)
(* it, is about to be sent it, or has just answered it (replay, emitEvent).    *)
PromptNotLost ==
  \A t \in open, c \in Waiting :
    \/ c \in view[t]
    \/ Requested(c) \in ToSet(toTab[t])
    \/ \E m \in ToSet(toServer[t]) : m.call = c

(* A page with nothing under way shows exactly the calls that wait, and the    *)
(* terminal always does: nobody is asked about a call that was decided.        *)
QuietViewsAgree ==
  /\ terminal = Waiting
  /\ \A t \in open :
       toTab[t] = <<>> /\ toServer[t] = <<>> => view[t] = Waiting

(* The step that stops the run leaves no call waiting (denyAllPending).        *)
StopRefusesWaiting == [][~stopped /\ stopped' => Waiting' = {}]_vars

\* A desktop input was allowed in event e, by a person's answer.
InputAllowed(e) ==
  e.type = "approval-resolved" /\ Kind[e.call] = "input" /\ status[e.call] = "allowed"

\* The desktop inputs refused in a row at the end of the first n events: those
\* asked about and refused, with no input allowed since.
Row(n) ==
  {c \in Call : /\ Kind[c] = "input"
                /\ \E i \in 1..n : /\ history[i] = Resolved(c)
                                   /\ \A j \in i..n : ~InputAllowed(history[j])}

\* An outcome is noted of every refusal, a person's, a stop's and a timeout's
\* (noteDesktopInputDecision).
StreakCounts == streak = Cardinality(Row(Len(history)))

\* When a request of an input went out, so many had not been refused in a row.
OfferedWithinLimit ==
  \A n \in 1..Len(history), c \in Call :
    Kind[c] = "input" /\ history[n] = Requested(c) => Cardinality(Row(n - 1)) < MaxDenials

(* The streak is the number of desktop inputs refused since the last one that  *)
(* was allowed, whatever else is asked, answered or refused unasked between    *)
(* and however several waiting prompts are answered; and no desktop input is   *)
(* put before a person once MaxDenials in a row were refused                   *)
(* (MAX_CONSECUTIVE_INPUT_DENIALS).                                            *)
InputsLimited == StreakCounts /\ OfferedWithinLimit

(* Nobody waits for ever: every call that asks gets an answer, a stop or its   *)
(* timeout (raceWithAbort, the hooks' timeout in phases.ts).                   *)
EveryCallAnswered == \A c \in Call : (status[c] = "waiting") ~> (status[c] # "waiting")

=============================================================================
