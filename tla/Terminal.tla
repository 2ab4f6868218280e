------------------------------ MODULE Terminal ------------------------------
(***************************************************************************)
(* The terminal's permission prompt (terminal.ts): one request at a time,  *)
(* answered by keys, with a reason typed for a rejection, while any other  *)
(* view may answer the same request first and its answer is heard late.    *)
(***************************************************************************)
EXTENDS Naturals, Sequences, SequencesExt

CONSTANTS Request,      \* the requests a run makes, in this order: 1..n
          Ruled,        \* those a "don't ask again" rule could cover
          MaxTyped      \* bounds the reason's length

VARIABLES
  asked,      \* how many requests have been made
  pending,    \* bus.pending
  heard,      \* requests answered but not yet announced with "approval-resolved"
  queue, active,      \* the terminal's own
  rejecting,  \* typing # null: a reason is being typed
  typed,      \* the reason: for each character, the request shown when it was typed
  answers     \* what this terminal answered that the bus accepted

vars == <<asked, pending, heard, queue, active, rejecting, typed, answers>>

None == 0
Key == {"1", "2", "3", "y", "n", "letter", "enter", "escape", "backspace"}
Decision == {"allow", "always", "deny"}

TypeOK ==
  /\ asked \in Nat /\ pending \subseteq Request /\ heard \subseteq Request
  /\ queue \in Seq(Request) /\ active \in Request \cup {None}
  /\ rejecting \in BOOLEAN /\ typed \in Seq(Request)
  /\ answers \subseteq [request : Request, decision : Decision, reason : Seq(Request)]

Init ==
  /\ asked = 0 /\ pending = {} /\ heard = {} /\ queue = <<>> /\ active = None
  /\ rejecting = FALSE /\ typed = <<>> /\ answers = {}

\* showPrompt: the oldest request, when none is shown.
Show(shown, q) == IF shown = None /\ q # <<>> THEN Head(q) ELSE shown

\* requestApproval, heard at once.
Ask ==
  LET r == asked + 1 IN
  /\ r \in Request
  /\ asked' = r /\ pending' = pending \cup {r}
  /\ queue' = Append(queue, r) /\ active' = Show(active, queue')
  /\ UNCHANGED <<heard, rejecting, typed, answers>>

\* A page, a stop or an abort answers; the hook announces it a moment later.
AnsweredElsewhere(r) ==
  /\ r \in pending
  /\ pending' = pending \ {r} /\ heard' = heard \cup {r}
  /\ UNCHANGED <<asked, queue, active, rejecting, typed, answers>>

\* mutant: only the prompt is replaced, the reason stays open
ForgetsPrompt(r) == IF active = r THEN /\ active' = Show(None, queue')
                                       /\ UNCHANGED <<rejecting, typed>>
                                  ELSE active' = Show(active, queue') /\ UNCHANGED <<rejecting, typed>>

\* What was shown for r goes, with the reason that was being typed for it.
Forgets(r) == IF active = r THEN /\ active' = Show(None, queue')
                                 /\ rejecting' = FALSE /\ typed' = <<>>
                            ELSE active' = Show(active, queue') /\ UNCHANGED <<rejecting, typed>>

\* "approval-resolved", whoever answered.
Resolved(r) ==
  /\ r \in heard
  /\ heard' = heard \ {r}
  /\ queue' = IF r \in ToSet(queue) THEN RemoveAt(queue, CHOOSE i \in DOMAIN queue : queue[i] = r)
                                    ELSE queue
  /\ Forgets(r)
  /\ UNCHANGED <<asked, pending, answers>>

\* finish: the prompt moves on before the bus is asked whether the answer counts.
Finish(decision, reason) ==
  /\ queue' = Tail(queue) /\ active' = Show(None, queue')
  /\ rejecting' = FALSE /\ typed' = <<>>
  /\ IF active \in pending
     THEN /\ pending' = pending \ {active} /\ heard' = heard \cup {active}
          /\ answers' = answers \cup {[request |-> active, decision |-> decision, reason |-> reason]}
     ELSE UNCHANGED <<pending, heard, answers>>

\* onKey while a reason is typed.
TypesReason(key) ==
  /\ rejecting
  /\ \/ key = "enter" /\ Finish("deny", typed)
     \/ /\ \/ key = "escape" /\ rejecting' = FALSE /\ typed' = <<>>
           \/ /\ key = "backspace" /\ typed' = (IF typed = <<>> THEN typed ELSE Front(typed))
              /\ UNCHANGED rejecting
           \/ /\ key \notin {"enter", "escape", "backspace"} /\ Len(typed) < MaxTyped
              /\ typed' = Append(typed, active) /\ UNCHANGED rejecting
        /\ UNCHANGED <<pending, heard, queue, active, answers>>

\* onKey at the prompt: the key that says no is the last number.
AnswersPrompt(key) ==
  LET no == IF active \in Ruled THEN "3" ELSE "2" IN
  /\ ~rejecting
  /\ \/ key \in {"1", "y"} /\ Finish("allow", <<>>)
     \/ key = "2" /\ active \in Ruled /\ Finish("always", <<>>)
     \/ /\ key \in {no, "n", "escape"}
        /\ rejecting' = TRUE /\ typed' = <<>>
        /\ UNCHANGED <<pending, heard, queue, active, answers>>

Press(key) == active # None /\ (TypesReason(key) \/ AnswersPrompt(key)) /\ UNCHANGED asked

Next == Ask \/ (\E r \in Request : AnsweredElsewhere(r) \/ Resolved(r)) \/ \E key \in Key : Press(key)

Spec == Init /\ [][Next]_vars

-----------------------------------------------------------------------------

\* A rejection's reason was typed for the request it rejects, all of it.
ReasonsTheirs == \A x \in answers : ToSet(x.reason) \subseteq {x.request}

\* A request is answered once, and does not wait after that.
AnsweredOnce ==
  \A x, y \in answers : x.request \notin pending /\ (x.request = y.request => x = y)

\* What waits is in the queue, the oldest is shown, and nothing that is over stays.
PromptCurrent ==
  /\ active = (IF queue = <<>> THEN None ELSE Head(queue))
  /\ pending \subseteq ToSet(queue) /\ ToSet(queue) \subseteq pending \cup heard
  /\ active = None => ~rejecting

(* However keys and answers given elsewhere cross, and however late those are    *)
(* heard: what was typed as a reason for one request is never sent with the      *)
(* answer to another, a request is answered at most once, and the oldest that    *)
(* waits is the one shown (terminal.ts 105-228). A prompt may be replaced under  *)
(* a line that is being typed: the keys that follow then answer the prompt that  *)
(* took its place, as 141-165 have it, and nothing here says they do not.        *)
PromptsKept == ReasonsTheirs /\ AnsweredOnce /\ PromptCurrent

=============================================================================
