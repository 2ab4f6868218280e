------------------------------ MODULE PhaseGate ------------------------------
(***************************************************************************)
(* What a run of agent-loop promises to whoever reads its audit record,    *)
(* with no mention of sessions, overseers, budgets or stops: phases are    *)
(* accepted in pipeline order, going back to a phase withdraws its         *)
(* acceptance and that of every later phase, a phase may be waived only    *)
(* while none after the first is accepted, and "done" is written only      *)
(* when every phase the run still requires is accepted.                    *)
(***************************************************************************)
EXTENDS Naturals

CONSTANTS N,             \* number of phases; phase 1 is the planner
          TestDesigner   \* the one phase that may be waived

Phase == 1..N

VARIABLES required,  \* the phases this run needs
          accepted,  \* the required phases whose result stands
          outcome    \* what the audit record says of the run

vars == <<required, accepted, outcome>>

Init == /\ required = Phase
        /\ accepted = {}
        /\ outcome = "running"

\* The result of p is accepted: everything before it is already accepted.
Accept(p) == /\ outcome = "running"
             /\ p \in required \ accepted
             /\ \A q \in required : q < p => q \in accepted
             /\ accepted' = accepted \cup {p}
             /\ UNCHANGED <<required, outcome>>

\* Work starts again at p: what was accepted from p on no longer stands.
Reopen(p) == /\ outcome = "running"
             /\ p \in required
             /\ accepted' = {q \in accepted : q < p}
             /\ UNCHANGED <<required, outcome>>

\* Once the planner is accepted, and nothing else is, the waivable phase may go.
Waive == /\ outcome = "running"
         /\ accepted = {1}
         /\ required' = required \ {TestDesigner}
         /\ UNCHANGED <<accepted, outcome>>

Finish(s) == /\ outcome = "running"
             /\ s = "done" => accepted = required
             /\ outcome' = s
             /\ UNCHANGED <<required, accepted>>

Next == \/ \E p \in Phase : Accept(p) \/ Reopen(p)
        \/ Waive
        \/ \E s \in {"done", "stopped", "failed"} : Finish(s)

Spec == Init /\ [][Next]_vars
=============================================================================
