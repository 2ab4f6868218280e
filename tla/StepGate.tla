------------------------------ MODULE StepGate ------------------------------
(***************************************************************************)
(* What the run of a team promises to whoever reads its audit record, with *)
(* no mention of sessions, overseers, budgets or stops.  The steps of a    *)
(* team form a partial order: a step is accepted on top of accepted ones,  *)
(* work that starts again takes back whatever rests on it, a step of the   *)
(* floor is never waived, what waited for a waived step waits for what the *)
(* waived step waited for, and "done" is written only when every step the  *)
(* team still has is accepted.                                             *)
(***************************************************************************)

VARIABLES team,      \* step -> [needs |-> steps it rests on, floor |-> BOOLEAN]
          accepted,  \* the steps whose result stands
          outcome    \* what the audit record says of the run

vars == <<team, accepted, outcome>>

Founded(S) == \A s \in S : team[s].needs \subseteq S

Init == outcome = "none" /\ accepted = {}

\* A team is agreed on and the run begins.
Agree == /\ outcome = "none"
         /\ outcome' = "running"
         /\ accepted' = {}

Accept(s) == /\ outcome = "running"
             /\ s \in DOMAIN team \ accepted
             /\ accepted' = accepted \cup {s}
             /\ Founded(accepted')
             /\ UNCHANGED <<team, outcome>>

Reopen == /\ outcome = "running"
          /\ accepted' \subseteq accepted
          /\ Founded(accepted')
          /\ UNCHANGED <<team, outcome>>

Waive(s) ==
  /\ outcome = "running"
  /\ s \in DOMAIN team \ accepted
  /\ ~team[s].floor
  /\ team' = [t \in DOMAIN team \ {s} |->
                [team[t] EXCEPT !.needs =
                   IF s \in @ THEN (@ \ {s}) \cup team[s].needs ELSE @]]
  /\ UNCHANGED <<accepted, outcome>>

Finish(o) == /\ outcome = "running"
             /\ o = "done" => accepted = DOMAIN team
             /\ outcome' = o
             /\ UNCHANGED <<team, accepted>>

Next == \/ Agree
        \/ \E s \in DOMAIN team : Accept(s) \/ Waive(s)
        \/ Reopen
        \/ \E o \in {"done", "stopped", "failed"} : Finish(o)

Spec == Init /\ [][Next]_vars
=============================================================================
