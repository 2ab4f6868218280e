------------------------------ MODULE TeamPlan ------------------------------
(***************************************************************************)
(* A team plan and what code enforces about it: the rules of               *)
(* src/src/team/plan.ts on the plan's graph, the edits that remove and     *)
(* skip a step, and the floor that compose.ts puts under a proposal.       *)
(*                                                                         *)
(* A plan is a function from the ids of its steps, numbers in the order of *)
(* the plan's list (a gatekeeper that the floor moves to the end keeps its *)
(* number: it waits for the rest).  Left out are texts, the paths of        *)
(* slices, and the items of a foreach, which no command composes.          *)
(***************************************************************************)
EXTENDS Naturals, FiniteSets, SequencesExt

Meta        == {"composer", "learner", "watchdog"}
Builds      == {"builder", "integrator", "docs-writer"}
Writers     == Builds \cup {"test-designer"}
Unskippable == {"composer", "builder", "verifier", "gatekeeper", "watchdog"}
Role        == Meta \cup Writers \cup Unskippable
                 \cup {"researcher", "planner", "advisor", "security-reviewer",
                       "migration-reviewer", "a11y-reviewer", "perf-reviewer",
                       "ui-tester", "desktop-tester", "adversary"}

\* RoleDef.max of the built-in roles.
Most(r) == CASE r \in {"builder", "verifier"}         -> 6
             [] r = "advisor"                         -> 3
             [] r \in {"researcher", "test-designer"} -> 2
             [] OTHER                                 -> 1

DropOrder == <<"docs-writer", "a11y-reviewer", "perf-reviewer", "ui-tester",
               "desktop-tester", "adversary", "researcher", "advisor", "test-designer">>

Reviews == <<"migration-reviewer", "security-reviewer">>

None == 0   \* no step: checks of a step that names none

Step == [role : Role, after : SUBSET Nat, checks : Nat, skippable : BOOLEAN,
         added : BOOLEAN]

-----------------------------------------------------------------------------
(* The graph of a plan. *)

\* What s waits for: the steps it is after, and the step it checks.
Waits(plan, s) ==
  plan[s].after \cup (IF plan[s].checks = None THEN {} ELSE {plan[s].checks})

Of(plan, r) == {s \in DOMAIN plan : plan[s].role = r}

\* The reference for an order, a function that gives each step its place: at
\* every place stands, of the steps whose dependencies are done, the first of the
\* plan's list.
Stable(plan, place) ==
  \A s \in DOMAIN plan :
    LET done == {t \in DOMAIN plan : place[t] < place[s]}
    IN  /\ Waits(plan, s) \subseteq done
        /\ \A t \in DOMAIN plan \ done : Waits(plan, t) \subseteq done => s <= t

\* The least of a set of steps, as a set: nothing of nothing.
First(S) == {s \in S : \A t \in S : s <= t}

\* topoOrder's loop; a step that never gets ready has no place before n + 1.
TopoOrder(plan) ==
  LET n == Cardinality(DOMAIN plan)
      next[S \in SUBSET DOMAIN plan] ==
        S \cup First({s \in DOMAIN plan \ S : Waits(plan, s) \subseteq S})
      done[k \in 0..n] == IF k = 0 THEN {} ELSE next[done[k-1]]
  IN  [s \in DOMAIN plan |-> Min({k \in 0..n : s \in done[k]} \cup {n + 1})]

\* The order of a plan, none for a plan with a cycle.
Orders(plan) == {place \in {TopoOrder(plan)} : Stable(plan, place)}

-----------------------------------------------------------------------------
(* validatePlan, for ctx == [writes, required, cap]. *)

\* Each step on its own (V1).
Shaped(plan) == /\ IsFiniteSet(DOMAIN plan)
                /\ DOMAIN plan \subseteq Nat \ {None}
                /\ plan \in [DOMAIN plan -> Step]

\* V6
GraphSound(plan) ==
  /\ \A s \in DOMAIN plan : Waits(plan, s) \subseteq DOMAIN plan \ {s}
  /\ \E root \in DOMAIN plan :
       \A s \in DOMAIN plan : Waits(plan, s) = {} <=> s = root
  /\ Orders(plan) # {}

\* V2: only one gatekeeper has a place to be held to.
GateLast(plan) ==
  \A g \in DOMAIN plan :
    Of(plan, "gatekeeper") = {g} =>
      \A place \in Orders(plan), s \in DOMAIN plan : place[s] <= place[g]

\* V2, V3
FloorKept(plan, writes) ==
  /\ writes \/ Of(plan, "builder") # {} =>
       /\ Of(plan, "builder") # {}
       /\ Cardinality(Of(plan, "gatekeeper")) = 1
       /\ \A b \in Of(plan, "builder") :
            \E v \in Of(plan, "verifier") : plan[v].checks = b
  /\ GateLast(plan)
  /\ \A v \in Of(plan, "verifier") :
       plan[v].checks \in {s \in DOMAIN plan \ {v} : plan[s].role \in Builds}

\* V5, and V8's integrator
CapsKept(plan, cap) ==
  /\ Cardinality(DOMAIN plan) <= cap
  /\ \A r \in Role : Cardinality(Of(plan, r)) <= Most(r)
  /\ Cardinality(Of(plan, "builder")) >= 2 => Of(plan, "integrator") # {}

Valid(plan, ctx) ==
  /\ DOMAIN plan # {}
  /\ Shaped(plan)
  /\ GraphSound(plan)
  /\ FloorKept(plan, ctx.writes)
  /\ \A r \in ctx.required : Of(plan, r) # {}
  /\ CapsKept(plan, ctx.cap)

-----------------------------------------------------------------------------
(* Edits of a plan. *)

\* Whatever waited for the step now waits for what it waited for.
RemoveStep(plan, id) ==
  [s \in DOMAIN plan \ {id} |->
     [plan[s] EXCEPT !.after = IF id \in @ THEN (@ \ {id}) \cup Waits(plan, id) ELSE @]]

\* mutant: the plan's own mark is enough
MaySkipMarked(plan, id, ctx) == plan[id].skippable

\* skipStep (V12)
MaySkip(plan, id, ctx) ==
  /\ plan[id].role \notin Unskippable \cup ctx.required
  /\ plan[id].skippable
  /\ Valid(RemoveStep(plan, id), ctx)

\* withGateAfterSinks: the first gatekeeper waits for every step nothing waits for.
GateAfterSinks(plan) ==
  IF Of(plan, "gatekeeper") = {} THEN plan
  ELSE LET gate   == Min(Of(plan, "gatekeeper"))
           others == DOMAIN plan \ {gate}
           freed  == [s \in DOMAIN plan |-> [plan[s] EXCEPT !.after = @ \ {gate}]]
           sinks  == others \ UNION {Waits(freed, s) : s \in others}
       IN  [freed EXCEPT ![gate].after = IF sinks = {} THEN plan[gate].after ELSE sinks]

-----------------------------------------------------------------------------
(* The floor under a proposal (finalizePlan). *)

Added(role, checks) == [role |-> role, after |-> {}, checks |-> checks,
                        skippable |-> FALSE, added |-> TRUE]

\* The plan with a sequence of steps pushed to its end.
Push(plan, batch) ==
  LET n == Max(DOMAIN plan \cup {0})
  IN  [s \in DOMAIN plan \cup (n+1)..(n + Len(batch)) |->
         IF s \in DOMAIN plan THEN plan[s] ELSE batch[s - n]]

Unchecked(plan) ==
  {b \in Of(plan, "builder") : \A v \in Of(plan, "verifier") : plan[v].checks # b}

WithVerifiers(plan) ==
  LET bs == SetToSortSeq(Unchecked(plan), <)
  IN  Push(plan, [i \in DOMAIN bs |-> Added("verifier", bs[i])])

WithReviews(plan, required) ==
  LET missing == SelectSeq(Reviews, LAMBDA r : r \in required /\ Of(plan, r) = {})
  IN  Push(plan, [i \in DOMAIN missing |-> Added(missing[i], None)])

WithGate(plan) ==
  IF Of(plan, "gatekeeper") = {} THEN Push(plan, <<Added("gatekeeper", None)>>) ELSE plan

\* attachLoose: the added steps that wait for nothing are put after the plan's
\* sinks, the first of them after the last sink, the second after the last but
\* one; those that find no sink left stay as they are.
AttachLoose(plan) ==
  LET gates == Of(plan, "gatekeeper")
      gate  == IF gates = {} THEN None ELSE Min(gates)
      body  == DOMAIN plan \ {gate}
      loose == {s \in body : /\ plan[s].added
                             /\ plan[s].role # "gatekeeper"
                             /\ Waits(plan, s) = {}
                             /\ s # Min(body)}
      sinks == (body \ loose) \ UNION {Waits(plan, s) : s \in body}
      Before(s) == Cardinality({t \in loose : t < s})
      After(k)  == Cardinality({t \in sinks : t > k})
  IN  GateAfterSinks([s \in DOMAIN plan |->
         IF s \in loose
         THEN [plan[s] EXCEPT !.after = {k \in sinks : After(k) = Before(s)}]
         ELSE plan[s]])

\* The floor before the caps: verifiers, mandatory reviews, the gatekeeper last.
Floored(plan, signals) ==
  LET writes   == signals.writes \/ Of(plan, "builder") # {}
      checked  == IF writes THEN WithVerifiers(plan) ELSE plan
      reviewed == WithReviews(checked, signals.required)
  IN  IF writes THEN AttachLoose(GateAfterSinks(WithGate(reviewed))) ELSE reviewed

\* Which steps go when a plan is over its cap, in this order (V5).
Drops(plan, cap) ==
  LET Rank(s)    == CHOOSE i \in DOMAIN DropOrder : DropOrder[i] = plan[s].role
      optional   == {s \in DOMAIN plan : plan[s].role \in Range(DropOrder)}
      Sooner(s, t) == Rank(s) < Rank(t) \/ (Rank(s) = Rank(t) /\ s < t)
      queue      == SetToSortSeq(optional, Sooner)
      over       == Cardinality(DOMAIN plan) - cap
  IN  IF over <= 0 THEN <<>> ELSE SubSeq(queue, 1, Min({over, Len(queue)}))

Finalized(plan, signals, cap) ==
  LET floored == Floored(plan, signals)
  IN  FoldLeft(RemoveStep, floored, Drops(floored, cap))
=============================================================================
