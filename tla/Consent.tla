------------------------------- MODULE Consent -------------------------------
(***************************************************************************)
(* What the approval gate promises, with no mention of pages, terminals,   *)
(* messages in flight or stops: a tool call that needs a person runs only  *)
(* after a person said yes to that very call, or under rules that persons  *)
(* granted by saying "don't ask again" to calls that then ran; what was    *)
(* decided once stays decided.                                             *)
(***************************************************************************)
CONSTANTS Call,   \* the tool calls of a run
          Free,   \* those no person has to see
          Rules   \* Rules[c]: the rules that would cover call c

VARIABLES decided,  \* decided[c] is "no" (not yet), "ran" or "refused"
          yes,      \* the calls a person said yes to
          always,   \* those answered "don't ask again" among them
          granted   \* the rules granted

vars == <<decided, yes, always, granted>>

Init == /\ decided = [c \in Call |-> "no"]
        /\ yes = {}
        /\ always = {}
        /\ granted = {}

Covered(c) == Rules[c] # {} /\ Rules[c] \subseteq granted

\* A person says yes to call c, maybe for good.
SaysYes(c) == /\ yes' = yes \cup {c}
              /\ always' \in {always, always \cup {c}}

\* The answer may come too late to count.
Consents(c) == SaysYes(c) /\ UNCHANGED <<decided, granted>>

\* A call runs, maybe by the very answer it waited for, and what was granted
\* with it holds from now on.
Runs(c) == /\ decided[c] = "no"
           /\ SaysYes(c) \/ UNCHANGED <<yes, always>>
           /\ c \in yes' \/ c \in Free \/ Covered(c)
           /\ decided' = [decided EXCEPT ![c] = "ran"]
           /\ \/ granted' = granted
              \/ c \in always' /\ granted' = granted \cup Rules[c]

\* Refusing needs nobody, and a stop refuses many at once.
Refuses(S) == /\ \A c \in S : decided[c] = "no"
              /\ decided' = [c \in Call |-> IF c \in S THEN "refused" ELSE decided[c]]
              /\ UNCHANGED <<yes, always, granted>>

Next == \/ \E c \in Call : Consents(c) \/ Runs(c)
        \/ \E S \in SUBSET Call : Refuses(S)

Spec == Init /\ [][Next]_vars
=============================================================================
