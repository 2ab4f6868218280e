------------------------------ MODULE Lineage ------------------------------
(***************************************************************************)
(* The run's tree (lineage.ts): a pure function of the run's events, which *)
(* the tracker applies to the events it hears, to publish a tree as the    *)
(* run goes, and the CLI to the events the store kept, to write the same   *)
(* tree down.  Results, answers and costs may come after the step they     *)
(* belong to has ended.                                                    *)
(***************************************************************************)
EXTENDS Naturals, Sequences, FiniteSets, SequencesExt

CONSTANTS Step,          \* the steps of the plan
          Call,          \* the tool calls that write a file, one file each
          MaxNodes,      \* MAX_NODES
          MaxTracked,    \* MAX_TRACKED_EVENTS
          MaxAttempt, MaxLog     \* bound the events of a run

VARIABLES log,        \* the events of the run, in the order the store keeps them
          tracked,    \* those the tracker heard and kept
          published   \* the last tree it published and how much of the log there was; or nothing

vars == <<log, tracked, published>>

None == "none"
Event(type, step, arg) == [type |-> type, step |-> step, arg |-> arg]

\* What the tree is made of, and what it is published on.
Relevant == {"phase-start", "phase-end", "repair", "continue", "tool-call", "tool-result",
             "tool-error", "request", "resolved", "usage", "run-end"}
PublishOn == {"phase-start", "phase-end", "repair", "continue", "run-end"}

-----------------------------------------------------------------------------
(* buildLineage. *)

Node(step, attempt, kind, parent) ==
  [step |-> step, attempt |-> attempt, kind |-> kind, parent |-> parent, outcome |-> "running",
   cost |-> 0, asked |-> 0, answered |-> 0, calls |-> 0, files |-> {}, failed |-> 0]

\* Nodes are named by their place; 0 is no node.
Empty == [nodes |-> <<>>, current |-> 0, ended |-> 0, from |-> 0, target |-> None,
          latest |-> [s \in Step |-> 0], writing |-> [c \in Call |-> 0], asking |-> [c \in Call |-> 0],
          cost |-> 0, loose |-> 0, asked |-> 0, calls |-> 0, repairs |-> 0,
          done |-> FALSE, truncated |-> FALSE]

\* nodeFor: the step in progress, else the latest attempt of the step.
NodeFor(t, step) ==
  IF step = None THEN t.current
  ELSE IF t.current # 0 /\ t.nodes[t.current].step = step THEN t.current ELSE t.latest[step]

Named(t, step, attempt) ==
  {i \in 1..Len(t.nodes) : t.nodes[i].step = step /\ t.nodes[i].attempt = attempt}

\* How a new attempt came about and what it was handed by.
Start(t, step, attempt) ==
  LET known == Named(t, step, attempt)
      kind == IF t.from # 0 THEN (IF t.target = step THEN "repair" ELSE "handoff")
              ELSE IF t.ended = 0 THEN "root"
              ELSE IF t.nodes[t.ended].step = step THEN "retry" ELSE "handoff"
      parent == IF t.from # 0 THEN t.from ELSE t.ended
      At(i, u) == [u EXCEPT !.latest[step] = i, !.current = i]
  IN IF known # {} THEN At(CHOOSE i \in known : TRUE, t)
     ELSE IF Len(t.nodes) >= MaxNodes THEN [t EXCEPT !.truncated = TRUE]
     ELSE At(Len(t.nodes) + 1, [t EXCEPT !.nodes = Append(@, Node(step, attempt, kind, parent)),
                                         !.from = 0, !.target = None])

Ends(t, step, attempt) ==
  LET named == Named(t, step, attempt)
      i == IF named # {} THEN CHOOSE i \in named : TRUE ELSE NodeFor(t, step)
  IN IF i = 0 THEN t
     ELSE [t EXCEPT !.nodes[i].outcome = "ended", !.ended = i, !.current = IF @ = i THEN 0 ELSE @]

Repair(t, n, target) == IF n = 0 THEN t ELSE [t EXCEPT !.repairs = @ + 1, !.from = n, !.target = target]
Continue(t, n) == IF n = 0 THEN t ELSE [t EXCEPT !.from = 0, !.target = None]

\* A write's file is the attempt's that asked for it once it is written.
Write(t, n, call) ==
  IF n = 0 THEN t ELSE [t EXCEPT !.calls = @ + 1, !.nodes[n].calls = @ + 1, !.writing[call] = n]
Written(t, call) ==
  LET w == t.writing[call] IN
  IF w = 0 THEN t ELSE [t EXCEPT !.writing[call] = 0, !.nodes[w].files = @ \cup {call}]
Failed(t, call) ==
  LET w == t.writing[call] IN
  IF w = 0 THEN t ELSE [t EXCEPT !.writing[call] = 0, !.nodes[w].failed = @ + 1]

\* mutant: an answer counts for the step that is in progress
AnswerCurrent(t, n, call) ==
  LET by == IF t.current # 0 THEN t.current ELSE n IN
  IF by = 0 THEN t ELSE [t EXCEPT !.asking[call] = 0, !.nodes[by].answered = @ + 1]

\* requestNode: an answer counts where its prompt was asked.
Ask(t, n, call) ==
  IF n = 0 THEN t ELSE [t EXCEPT !.asked = @ + 1, !.nodes[n].asked = @ + 1, !.asking[call] = n]
Answer(t, n, call) ==
  LET by == IF t.asking[call] # 0 THEN t.asking[call] ELSE n IN
  IF by = 0 THEN t ELSE [t EXCEPT !.asking[call] = 0, !.nodes[by].answered = @ + 1]

Cost(t, n) == IF n # 0 THEN [t EXCEPT !.cost = @ + 1, !.nodes[n].cost = @ + 1]
                       ELSE [t EXCEPT !.cost = @ + 1, !.loose = @ + 1]
Over(t) == [t EXCEPT !.done = TRUE, !.nodes = [i \in 1..Len(@) |->
              IF @[i].outcome = "running" THEN [@[i] EXCEPT !.outcome = "incomplete"] ELSE @[i]]]

Apply(t, e) ==
  LET n == NodeFor(t, e.step) IN
  CASE e.type = "phase-start" -> Start(t, e.step, e.arg)
    [] e.type = "phase-end" -> Ends(t, e.step, e.arg)
    [] e.type = "repair" -> Repair(t, n, e.arg)
    [] e.type = "continue" -> Continue(t, n)
    [] e.type = "tool-call" -> Write(t, n, e.arg)
    [] e.type = "tool-result" -> Written(t, e.arg)
    [] e.type = "tool-error" -> Failed(t, e.arg)
    [] e.type = "request" -> Ask(t, n, e.arg)
    [] e.type = "resolved" -> Answer(t, n, e.arg)
    [] e.type = "usage" -> Cost(t, IF e.step = None THEN 0 ELSE n)
    [] e.type = "run-end" -> Over(t)
    [] OTHER -> t

Tree(events) ==
  LET tree[i \in 0..Len(events)] == IF i = 0 THEN Empty ELSE Apply(tree[i - 1], events[i])
  IN tree[Len(events)]

\* A step's place in the plan is the order it was first reached in: places are only compared, so
\* the first attempt's place in the run stands for the step's.
PlaceOf(nodes, step) ==
  CHOOSE i \in 1..Len(nodes) : /\ nodes[i].step = step
                               /\ \A j \in 1..Len(nodes) : nodes[j].step = step => i <= j

\* An attempt that does not get past where the run had got to sits in the repair lane.
Lane(nodes, i) ==
  IF \E j \in 1..(i - 1) : PlaceOf(nodes, nodes[i].step) <= PlaceOf(nodes, nodes[j].step) THEN 1 ELSE 0

Sum(f) ==
  LET sum[i \in 0..Len(f)] == IF i = 0 THEN 0 ELSE sum[i - 1] + f[i]
  IN sum[Len(f)]

Spent(nodes) == [i \in 1..Len(nodes) |-> nodes[i].cost]
Called(nodes) == [i \in 1..Len(nodes) |-> nodes[i].calls]
Asked(nodes) == [i \in 1..Len(nodes) |-> nodes[i].asked]

\* "Made by": a row at each place that was reached, of all the attempts of its step.
Agents(nodes) ==
  LET Mine(p) == {i \in 1..Len(nodes) : nodes[i].step = nodes[p].step}
      Part(p, f) == Sum([i \in 1..Len(nodes) |-> IF i \in Mine(p) THEN f[i] ELSE 0])
  IN [p \in {i \in 1..Len(nodes) : PlaceOf(nodes, nodes[i].step) = i} |->
        [step |-> nodes[p].step, attempts |-> Part(p, [i \in 1..Len(nodes) |-> 1]),
         cost |-> Part(p, Spent(nodes)), calls |-> Part(p, Called(nodes)), asked |-> Part(p, Asked(nodes)),
         files |-> UNION {nodes[i].files : i \in Mine(p)}]]

-----------------------------------------------------------------------------
(* The run's events, and the tracker. *)

Of(type) == {i \in 1..Len(log) : log[i].type = type}
Attempts(step) == Cardinality({i \in Of("phase-start") : log[i].step = step})
Done == Of("run-end") # {}

\* mutant: a prompt does not concern the tree
HeardNoPrompts(e) == e.type \in Relevant \ {"request"}

Heard(e) == e.type \in Relevant

\* emitEvent and onEvent: stored, kept if there is room, and the tree so far is published.
Emit(e) ==
  LET kept == IF Heard(e) /\ Len(tracked) < MaxTracked THEN Append(tracked, e) ELSE tracked
  IN /\ Len(log) < MaxLog
     /\ log' = Append(log, e)
     /\ tracked' = IF e.type = "run-end" THEN <<>> ELSE kept
     /\ published' = IF e.type \in PublishOn THEN {[tree |-> Tree(kept), upto |-> Len(log) + 1]}
                                            ELSE published

Init == log = <<>> /\ tracked = <<>> /\ published = {}

\* The step that is worked on, whether the tree has room for it or not.
Working(s) == \E i \in Of("phase-start") :
                log[i].step = s /\ \A j \in Of("phase-start") \cup Of("phase-end") : j <= i

\* The order the pipeline and its sessions keep: steps and decisions one at a time.
Starts(s) == /\ ~Done /\ (\A x \in Step : ~Working(x)) /\ Attempts(s) < MaxAttempt
             /\ Emit(Event("phase-start", s, Attempts(s) + 1))
EndsStep(s) == ~Done /\ Working(s) /\ Emit(Event("phase-end", s, Attempts(s)))
Decides(s) == /\ ~Done /\ Len(log) > 0 /\ Last(log) \in {Event("phase-end", s, a) : a \in 1..MaxAttempt}
              /\ \/ Emit(Event("continue", s, None))
                 \/ \E target \in Step : Emit(Event("repair", s, target))

\* What a session does, or did: calls and prompts while it lasts, results and costs later too.
CallsTool(s, c) == /\ Attempts(s) > 0 /\ \A i \in Of("tool-call") : log[i].arg # c
                   /\ Emit(Event("tool-call", s, c))
Returns(s, c) == /\ \E i \in Of("tool-call") : log[i] = Event("tool-call", s, c)
                 /\ \A i \in Of("tool-result") \cup Of("tool-error") : log[i].arg # c
                 /\ \E type \in {"tool-result", "tool-error"} : Emit(Event(type, s, c))
Asks(s, c) == /\ Attempts(s) > 0 /\ ~Done /\ \A i \in Of("request") : log[i].arg # c
              /\ Emit(Event("request", s, c))
Answers(s, c) == /\ \E i \in Of("request") : log[i] = Event("request", s, c)
                 /\ \A i \in Of("resolved") : log[i].arg # c
                 /\ Emit(Event("resolved", s, c))
Costs(s) == Emit(Event("usage", s, None))
EndsRun == ~Done /\ Emit(Event("run-end", None, None))

Next == \/ \E s \in Step : \/ Starts(s) \/ EndsStep(s) \/ Decides(s)
                           \/ \E c \in Call : \/ CallsTool(s, c) \/ Returns(s, c)
                                            \/ Asks(s, c) \/ Answers(s, c)
        \/ \E s \in Step \cup {None} : Costs(s)
        \/ EndsRun

Spec == Init /\ [][Next]_vars

-----------------------------------------------------------------------------

TypeOK == /\ \A i \in 1..Len(log) : log[i].type \in Relevant
          /\ Len(log) <= MaxLog /\ Len(tracked) <= MaxTracked

(* The tree a page is shown is the one the store's events give: late results,  *)
(* costs of ended steps and repairs included - while the tracker has room      *)
(* (LineageTracker, RELEVANT, `agent-loop lineage`).                           *)
LiveIsRebuilt ==
  \A p \in published : p.upto > MaxTracked \/ p.tree = Tree(SubSeq(log, 1, p.upto))

\* The table of agents says what the tree says, and a step's first attempt, and no other, is in
\* the lane that goes forward.
TableAgrees(t) ==
  LET n == t.nodes  rows == Agents(n)
      Column(f) == Sum([p \in 1..Len(n) |-> IF p \in DOMAIN rows THEN f[p] ELSE 0])
  IN /\ t.cost = t.loose + Column([p \in DOMAIN rows |-> rows[p].cost])
     /\ t.asked = Column([p \in DOMAIN rows |-> rows[p].asked])
     /\ t.calls = Column([p \in DOMAIN rows |-> rows[p].calls])
     /\ Len(n) = Column([p \in DOMAIN rows |-> rows[p].attempts])
     /\ \A p \in DOMAIN rows : \E i \in Of("phase-start") : log[i].step = rows[p].step
     /\ t.truncated \/ \A i \in Of("phase-start") : \E p \in DOMAIN rows : rows[p].step = log[i].step
     /\ \A i \in 1..Len(n) : Lane(n, i) = 0 <=> \A j \in 1..(i - 1) : n[j].step # n[i].step

(* Every dollar, prompt and call is some attempt's or said to be nobody's; an  *)
(* answer is counted with the attempt that asked and a file with the attempt    *)
(* that asked to write it, if the write succeeded, however late either comes;    *)
(* every attempt but the first was handed something by an earlier one, and the  *)
(* table of agents and the lanes agree with it (buildLineage, requestNode,      *)
(* pendingFile).                                                               *)
TreeAddsUp ==
  LET t == Tree(log)  n == t.nodes
      Wrote(i, c) == \E a, b \in 1..Len(log) :
        /\ a < b /\ log[a].type = "tool-call" /\ log[a].arg = c
        /\ log[b] = Event("tool-result", log[a].step, c)
        /\ i = NodeFor(Tree(SubSeq(log, 1, a)), log[a].step)
  IN /\ TableAgrees(t)
     /\ t.cost = t.loose + Sum(Spent(n))
     /\ t.cost = Cardinality(Of("usage"))
     /\ t.asked = Sum(Asked(n))
     /\ \A i \in 1..Len(n) :
          /\ n[i].answered <= n[i].asked
          /\ n[i].files = {c \in Call : Wrote(i, c)}
          /\ n[i].parent < i /\ (n[i].kind = "root" <=> n[i].parent = 0)
=============================================================================
