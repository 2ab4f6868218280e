--------------------------- MODULE ApprovalProofs ---------------------------
(***************************************************************************)
(* Approval implements Consent: for every set of calls, tabs and rules, no *)
(* call runs without a person's yes to it or rules persons granted.  For   *)
(* every finite set of calls a prompt stays in front of the pages until it *)
(* is answered, and refusals are counted once.                             *)
(***************************************************************************)
EXTENDS Approval, FiniteSetTheorems, SequenceTheorems, NaturalsInduction,
        WellFoundedInduction, TLAPS

(* What consent rests on: an answer on its way to the server was given by a    *)
(* person, for that call.                                                      *)
GivenAnswers ==
  \A t \in Tab : \A i \in DOMAIN toServer[t] :
    toServer[t][i].answer \in said[toServer[t][i].call]

StatusType == status \in [Call -> {"new", "waiting", "allowed", "ruled", "denied"}]

ConsentInv ==
  /\ StatusType
  /\ said \in [Call -> SUBSET Answer]
  /\ toServer \in [Tab -> Seq(Message)]
  /\ GivenAnswers

PromiseVars == <<Decided, SaidYes, SaidAlways, rules>>

PromiseStep == [Promise!Next]_PromiseVars

-----------------------------------------------------------------------------

(* What a person has said stays said.                                          *)
LEMMA SayAdds ==
  ASSUME said \in [Call -> SUBSET Answer], NEW c \in Call, NEW a \in Answer, Say(c, a)
  PROVE  /\ said' \in [Call -> SUBSET Answer]
         /\ a \in said'[c]
         /\ \A d \in Call : said[d] \subseteq said'[d]
         /\ \A d \in Call : d # c => said'[d] = said[d]
         /\ said'[c] = said[c] \cup {a}
BY DEF Say

(* When the answers in flight stay and what was said grows, they stay given.   *)
LEMMA GivenGrows ==
  ASSUME ConsentInv, toServer' = toServer, \A d \in Call : said[d] \subseteq said'[d]
  PROVE  GivenAnswers'
<1> SUFFICES ASSUME NEW t \in Tab, NEW i \in DOMAIN toServer[t]
             PROVE  toServer[t][i].answer \in said'[toServer[t][i].call]
  BY DEF GivenAnswers
<1>1. toServer[t][i] \in Message
  BY DEF ConsentInv
<1>2. QED
  BY <1>1 DEF ConsentInv, GivenAnswers, Message

(* Settling calls keeps the type of status.                                    *)
LEMMA SettleStatus ==
  ASSUME StatusType, NEW S, NEW a, NEW before, Settle(S, a, before)
  PROVE  StatusType'
BY DEF Settle, StatusType

(* So does resolving a request.                                                *)
LEMMA ResolveStatus ==
  ASSUME StatusType, NEW c \in Call, NEW a \in Answer, Resolve(c, a)
  PROVE  StatusType'
BY SettleStatus DEF Resolve, StatusType

(* Every step keeps the invariant.                                             *)
LEMMA ConsentNext == ConsentInv /\ [Next]_vars => ConsentInv'
<1> SUFFICES ASSUME ConsentInv, [Next]_vars
             PROVE  ConsentInv'
  OBVIOUS
<1> USE DEF ConsentInv
<1>1. ASSUME NEW c \in Call, CallTool(c)
      PROVE  ConsentInv'
  <2>1. Unasked(c) \in {"waiting", "ruled", "denied"}
    BY DEF Unasked
  <2>2. StatusType'
    BY <1>1, <2>1 DEF CallTool, StatusType
  <2>3. QED
    BY <1>1, <2>2, GivenGrows DEF CallTool
<1>2. ASSUME NEW c \in Call, CallToolAborted(c) \/ Abort(c)
      PROVE  ConsentInv'
  BY <1>2, SettleStatus, GivenGrows DEF CallToolAborted, Abort
<1>3. ASSUME NEW c \in Call, NEW a \in Answer, AnswerInTerminal(c, a)
      PROVE  ConsentInv'
  <2>1. StatusType'
    BY <1>3, ResolveStatus DEF AnswerInTerminal
  <2>2. said' \in [Call -> SUBSET Answer] /\ GivenAnswers'
    BY <1>3, SayAdds, GivenGrows DEF AnswerInTerminal
  <2>3. QED
    BY <1>3, <2>1, <2>2 DEF AnswerInTerminal
<1>4. ASSUME NEW t \in Tab, NEW c \in Call, NEW a \in Answer, AnswerInTab(t, c, a)
      PROVE  ConsentInv'
  <2> DEFINE m == [call |-> c, answer |-> a]
  <2>1. /\ said' \in [Call -> SUBSET Answer]
        /\ a \in said'[c]
        /\ \A d \in Call : said[d] \subseteq said'[d]
    BY <1>4, SayAdds DEF AnswerInTab
  <2>2. /\ toServer' = [toServer EXCEPT ![t] = Append(@, m)]
        /\ status' = status
    BY <1>4 DEF AnswerInTab
  <2>3. m \in Message
    BY DEF Message
  <2>4. toServer' \in [Tab -> Seq(Message)]
    BY <2>2, <2>3
  <2>5. ASSUME NEW u \in Tab, NEW i \in DOMAIN toServer'[u]
        PROVE  toServer'[u][i].answer \in said'[toServer'[u][i].call]
    <3>1. CASE u # t \/ i # Len(toServer[t]) + 1
      <4>1. i \in DOMAIN toServer[u] /\ toServer'[u][i] = toServer[u][i]
        BY <2>2, <2>3, <3>1
      <4>2. toServer[u][i] \in Message
        BY <4>1
      <4>3. QED
        BY <2>1, <4>1, <4>2 DEF GivenAnswers, Message
    <3>2. CASE u = t /\ i = Len(toServer[t]) + 1
      <4>1. toServer'[u][i] = m
        BY <2>2, <2>3, <3>2
      <4>2. QED
        BY <2>1, <4>1
    <3>3. QED
      BY <3>1, <3>2
  <2>6. QED
    BY <2>1, <2>2, <2>4, <2>5 DEF GivenAnswers, StatusType
<1>5. ASSUME NEW t \in Tab, ServerReceives(t)
      PROVE  ConsentInv'
  <2>1. Head(toServer[t]) \in Message
    BY <1>5 DEF ServerReceives
  <2>2. StatusType'
    BY <1>5, <2>1, ResolveStatus DEF ServerReceives, Message
  <2>3. /\ toServer' = [toServer EXCEPT ![t] = Tail(@)]
        /\ toServer[t] # <<>>
        /\ said' = said
    BY <1>5 DEF ServerReceives
  <2>4. toServer' \in [Tab -> Seq(Message)]
    BY <2>3
  <2>5. ASSUME NEW u \in Tab, NEW i \in DOMAIN toServer'[u]
        PROVE  toServer'[u][i].answer \in said'[toServer'[u][i].call]
    <3>1. PICK j \in DOMAIN toServer[u] : toServer'[u][i] = toServer[u][j]
      <4>1. CASE u = t
        <5>1. i + 1 \in DOMAIN toServer[u] /\ toServer'[u][i] = toServer[u][i + 1]
          BY <2>3, <4>1
        <5>2. QED
          BY <5>1
      <4>2. CASE u # t
        BY <2>3, <4>2
      <4>3. QED
        BY <4>1, <4>2
    <3>2. QED
      BY <2>3, <3>1 DEF GivenAnswers
  <2>6. QED
    BY <2>2, <2>3, <2>4, <2>5 DEF GivenAnswers
<1>6. ASSUME NEW t \in Tab, Disconnect(t)
      PROVE  ConsentInv'
  <2>1. toServer' = [toServer EXCEPT ![t] = <<>>] /\ said' = said /\ status' = status
    BY <1>6 DEF Disconnect
  <2>2. toServer' \in [Tab -> Seq(Message)]
    BY <2>1
  <2>3. GivenAnswers'
    BY <2>1 DEF GivenAnswers
  <2>4. QED
    BY <2>1, <2>2, <2>3 DEF StatusType
<1>7. CASE \/ \E t \in Tab : Connect(t) \/ TabReceives(t)
           \/ EndRun
           \/ UNCHANGED vars
  <2>1. UNCHANGED <<status, said, toServer>>
    BY <1>7 DEF Connect, TabReceives, EndRun, pages, vars
  <2>2. QED
    BY <2>1, GivenGrows DEF StatusType
<1>8. CASE Stop
  BY <1>8, SettleStatus, GivenGrows DEF Stop
<1>9. QED
  BY <1>1, <1>2, <1>3, <1>4, <1>5, <1>6, <1>7, <1>8 DEF Next

(* The invariant holds in every run.                                           *)
LEMMA ConsentInvariant == Spec => []ConsentInv
<1>1. Init => ConsentInv
  BY DEF Init, ConsentInv, StatusType, GivenAnswers
<1>2. QED
  BY <1>1, ConsentNext, PTL DEF Spec

-----------------------------------------------------------------------------

(* A step that changes neither what was decided nor what was said or granted.  *)
LEMMA PromiseStutter == UNCHANGED <<status, said, rules>> => PromiseStep
BY DEF PromiseStep, PromiseVars, Decided, SaidYes, SaidAlways

(* Refusing calls that wait, and maybe one that is new, refuses them.          *)
LEMMA SettleRefuses ==
  ASSUME StatusType, NEW S \in SUBSET Call, NEW before, Settle(S, "no", before),
         \A c \in S : status[c] \in {"new", "waiting"},
         SaidYes' = SaidYes, SaidAlways' = SaidAlways
  PROVE  PromiseStep
<1>1. rules' = rules
  BY DEF Settle, RulesAfter
<1>2. \A c \in S : Decided[c] = "no"
  BY DEF Decided, Verdict
<1>3. Decided' = [c \in Call |-> IF c \in S THEN "refused" ELSE Decided[c]]
  <2>1. \A c \in Call : Verdict(status'[c]) = IF c \in S THEN "refused" ELSE Verdict(status[c])
    BY DEF Settle, StatusType, Verdict
  <2>2. QED
    BY <2>1 DEF Decided
<1>4. Promise!Refuses(S)
  BY <1>1, <1>2, <1>3 DEF Promise!Refuses
<1>5. QED
  BY <1>4 DEF PromiseStep, Promise!Next

(* A waiting call that is allowed runs, if the answer was a person's.          *)
LEMMA SettleRuns ==
  ASSUME StatusType, said' \in [Call -> SUBSET Answer], NEW c \in Call,
         NEW a \in {"yes", "always"}, NEW before, Settle({c}, a, before),
         status[c] = "waiting", a \in said'[c],
         \/ UNCHANGED <<SaidYes, SaidAlways>>
         \/ Promise!SaysYes(c)
  PROVE  PromiseStep
<1>1. Decided[c] = "no"
  BY DEF Decided, Verdict
<1>2. Decided' = [Decided EXCEPT ![c] = "ran"]
  <2>1. \A d \in Call : Verdict(status'[d]) = IF d = c THEN "ran" ELSE Verdict(status[d])
    BY DEF Settle, StatusType, Verdict
  <2>2. QED
    BY <2>1 DEF Decided
<1>3. c \in SaidYes'
  BY DEF SaidYes
<1>4. rules' = rules \/ (c \in SaidAlways' /\ rules' = rules \cup Rules[c])
  <2>1. UNION {Rules[d] : d \in {c}} = Rules[c]
    OBVIOUS
  <2>2. rules' = RulesAfter({c}, a)
    BY DEF Settle
  <2>3. CASE a = "yes"
    BY <2>2, <2>3 DEF RulesAfter
  <2>4. CASE a = "always"
    <3>1. rules' = rules \cup Rules[c]
      BY <2>1, <2>2, <2>4 DEF RulesAfter
    <3>2. c \in SaidAlways'
      BY <2>4 DEF SaidAlways
    <3>3. QED
      BY <3>1, <3>2
  <2>5. QED
    BY <2>3, <2>4
<1>5. Promise!Runs(c)
  BY <1>1, <1>2, <1>3, <1>4 DEF Promise!Runs
<1>6. QED
  BY <1>5 DEF PromiseStep, Promise!Next

(* What a person says shows as a yes to that call or not at all.               *)
LEMMA SayConsents ==
  ASSUME said \in [Call -> SUBSET Answer], NEW c \in Call, NEW a \in Answer, Say(c, a)
  PROVE  /\ a = "no" => UNCHANGED <<SaidYes, SaidAlways>>
         /\ a # "no" => Promise!SaysYes(c)
<1>1. /\ \A d \in Call : d # c => said'[d] = said[d]
      /\ said'[c] = said[c] \cup {a}
  BY SayAdds
<1>2. ASSUME a = "no"
      PROVE  UNCHANGED <<SaidYes, SaidAlways>>
  BY <1>1, <1>2 DEF SaidYes, SaidAlways
<1>3. ASSUME a = "yes"
      PROVE  Promise!SaysYes(c)
  <2>1. SaidYes' = SaidYes \cup {c} /\ SaidAlways' = SaidAlways
    BY <1>1, <1>3 DEF SaidYes, SaidAlways
  <2>2. QED
    BY <2>1 DEF Promise!SaysYes
<1>4. ASSUME a = "always"
      PROVE  Promise!SaysYes(c)
  <2>1. SaidYes' = SaidYes \cup {c} /\ SaidAlways' = SaidAlways \cup {c}
    BY <1>1, <1>4 DEF SaidYes, SaidAlways
  <2>2. QED
    BY <2>1 DEF Promise!SaysYes
<1>5. QED
  BY <1>2, <1>3, <1>4 DEF Answer

(* An answer that is resolved keeps the promise, if a person gave it.          *)
LEMMA ResolveStep ==
  ASSUME StatusType, said' \in [Call -> SUBSET Answer], NEW c \in Call,
         NEW a \in Answer, Resolve(c, a), a \in said'[c],
         \/ UNCHANGED <<SaidYes, SaidAlways>>
         \/ a # "no" /\ Promise!SaysYes(c)
  PROVE  PromiseStep
<1>1. CASE Settle({c}, a, <<>>) /\ status[c] = "waiting" /\ a = "no"
  BY <1>1, SettleRefuses
<1>2. CASE Settle({c}, a, <<>>) /\ status[c] = "waiting" /\ a # "no"
  BY <1>2, SettleRuns DEF Answer
<1>3. CASE UNCHANGED <<status, rules>>
  <2>1. UNCHANGED <<Decided, rules>>
    BY <1>3 DEF Decided
  <2>2. CASE UNCHANGED <<SaidYes, SaidAlways>>
    BY <2>1, <2>2 DEF PromiseStep, PromiseVars
  <2>3. CASE Promise!SaysYes(c)
    BY <2>1, <2>3 DEF PromiseStep, Promise!Next, Promise!Consents
  <2>4. QED
    BY <2>2, <2>3
<1>4. QED
  BY <1>1, <1>2, <1>3 DEF Resolve

(* Every step of the round-trip is a step of the promise, or none of it.       *)
LEMMA StepPromise ==
  ASSUME ConsentInv, ConsentInv', [Next]_vars
  PROVE  PromiseStep
<1> USE DEF ConsentInv
<1>1. ASSUME NEW c \in Call, CallTool(c)
      PROVE  PromiseStep
  <2>1. /\ status[c] = "new"
        /\ status' = [status EXCEPT ![c] = Unasked(c)]
        /\ UNCHANGED <<said, rules, SaidYes, SaidAlways>>
    BY <1>1 DEF CallTool, SaidYes, SaidAlways
  <2>2. CASE Unasked(c) = "waiting"
    <3>1. \A d \in Call : Verdict(status'[d]) = Verdict(status[d])
      BY <2>1, <2>2 DEF StatusType, Verdict
    <3>2. Decided' = Decided
      BY <3>1 DEF Decided
    <3>3. QED
      BY <2>1, <3>2 DEF PromiseStep, PromiseVars
  <2>3. CASE Unasked(c) = "denied"
    <3>1. \A d \in Call : Verdict(status'[d]) = IF d \in {c} THEN "refused" ELSE Verdict(status[d])
      BY <2>1, <2>3 DEF StatusType, Verdict
    <3>2. Decided' = [d \in Call |-> IF d \in {c} THEN "refused" ELSE Decided[d]]
      BY <3>1 DEF Decided
    <3>3. Promise!Refuses({c})
      BY <2>1, <3>2 DEF Promise!Refuses, Decided, Verdict
    <3>4. QED
      BY <3>3 DEF PromiseStep, Promise!Next
  <2>4. CASE Unasked(c) = "ruled"
    <3>1. \A d \in Call : Verdict(status'[d]) = IF d = c THEN "ran" ELSE Verdict(status[d])
      BY <2>1, <2>4 DEF StatusType, Verdict
    <3>2. Decided[c] = "no"
      BY <2>1 DEF Decided, Verdict
    <3>3. Decided' = [Decided EXCEPT ![c] = "ran"]
      BY <3>1 DEF Decided
    <3>4. c \in FreeCalls \/ Promise!Covered(c)
      BY <2>4 DEF Unasked, LetThrough, FreeCalls, Covered, Promise!Covered
    <3>5. Promise!Runs(c)
      BY <2>1, <3>2, <3>3, <3>4 DEF Promise!Runs
    <3>6. QED
      BY <3>5 DEF PromiseStep, Promise!Next
  <2>5. QED
    BY <2>2, <2>3, <2>4 DEF Unasked
<1>2. ASSUME NEW c \in Call, CallToolAborted(c) \/ Abort(c)
      PROVE  PromiseStep
  <2>1. Settle({c}, "no", <<Requested(c)>>) \/ Settle({c}, "no", <<>>)
    BY <1>2 DEF CallToolAborted, Abort
  <2>2. status[c] \in {"new", "waiting"} /\ said' = said
    BY <1>2 DEF CallToolAborted, Abort
  <2>3. QED
    BY <2>1, <2>2, SettleRefuses DEF SaidYes, SaidAlways
<1>3. ASSUME NEW c \in Call, NEW a \in Answer, AnswerInTerminal(c, a)
      PROVE  PromiseStep
  <2>1. Say(c, a) /\ Resolve(c, a) /\ a \in said'[c]
    BY <1>3, SayAdds DEF AnswerInTerminal
  <2>2. QED
    BY <2>1, SayConsents, ResolveStep
<1>4. ASSUME NEW t \in Tab, NEW c \in Call, NEW a \in Answer, AnswerInTab(t, c, a)
      PROVE  PromiseStep
  <2>1. Say(c, a) /\ UNCHANGED <<rules, Decided>>
    BY <1>4 DEF AnswerInTab, bus, Decided
  <2>2. CASE a = "no"
    BY <2>1, <2>2, SayConsents DEF PromiseStep, PromiseVars
  <2>3. CASE a # "no"
    BY <2>1, <2>3, SayConsents DEF PromiseStep, Promise!Next, Promise!Consents
  <2>4. QED
    BY <2>2, <2>3
<1>5. ASSUME NEW t \in Tab, ServerReceives(t)
      PROVE  PromiseStep
  <2> DEFINE m == Head(toServer[t])
  <2>1. m \in Message /\ m.answer \in said[m.call]
    BY <1>5 DEF ServerReceives, GivenAnswers
  <2>2. Resolve(m.call, m.answer) /\ said' = said
    BY <1>5 DEF ServerReceives
  <2>3. m.call \in Call /\ m.answer \in Answer /\ m.answer \in said'[m.call]
    BY <2>1, <2>2 DEF Message
  <2>4. UNCHANGED <<SaidYes, SaidAlways>>
    BY <2>2 DEF SaidYes, SaidAlways
  <2> HIDE DEF m
  <2>5. QED
    BY <2>2, <2>3, <2>4, ResolveStep
<1>6. CASE Stop
  <2> DEFINE S == pending \cap Waiting
  <2>1. Settle(S, "no", <<>>)
    BY <1>6 DEF Stop
  <2>2. \A c \in S : status[c] = "waiting"
    BY DEF Waiting
  <2>3. UNCHANGED <<SaidYes, SaidAlways>> /\ S \in SUBSET Call
    BY <1>6 DEF Stop, SaidYes, SaidAlways, Waiting
  <2>4. QED
    BY <2>1, <2>2, <2>3, SettleRefuses
<1>7. CASE \/ \E t \in Tab : Connect(t) \/ Disconnect(t) \/ TabReceives(t)
           \/ EndRun
           \/ UNCHANGED vars
  <2>1. UNCHANGED <<status, said, rules>>
    BY <1>7 DEF Connect, Disconnect, TabReceives, EndRun, bus, vars
  <2>2. QED
    BY <2>1, PromiseStutter
<1>8. QED
  BY <1>1, <1>2, <1>3, <1>4, <1>5, <1>6, <1>7 DEF Next

(* However answers of several tabs and the terminal, reconnects, aborts and a  *)
(* stop cross: no call runs without a person's yes to that very call or rules  *)
(* persons granted, and what was decided stays decided.                        *)
THEOREM ConsentKept == Spec => ConsentSpec
<1>1. Init => Promise!Init
  <2> SUFFICES ASSUME Init
               PROVE  Promise!Init
    OBVIOUS
  <2>1. Decided = [c \in Call |-> "no"]
    BY DEF Init, Decided, Verdict
  <2>2. SaidYes = {} /\ SaidAlways = {} /\ rules = {}
    BY DEF Init, SaidYes, SaidAlways
  <2>3. QED
    BY <2>1, <2>2 DEF Promise!Init
<1>2. ConsentInv /\ ConsentInv' /\ [Next]_vars => [Promise!Next]_(Promise!vars)
  BY StepPromise DEF PromiseStep, PromiseVars, Promise!vars
<1>3. QED
  BY <1>1, <1>2, ConsentInvariant, PTL DEF Spec, ConsentSpec, Promise!Spec

-----------------------------------------------------------------------------

(* A call whose hook waits is one the bus keeps.                               *)
WaitingKept == Waiting \subseteq pending

LEMMA ResolveKeeps ==
  ASSUME StatusType, WaitingKept, NEW c \in Call, NEW a, Resolve(c, a)
  PROVE  WaitingKept'
<1>1. CASE c \in pending /\ status[c] = "waiting"
  <2>1. Settle({c}, a, <<>>) /\ pending' = pending \ {c}
    BY <1>1 DEF Resolve
  <2>2. QED
    BY <2>1 DEF Settle, WaitingKept, Waiting
<1>2. CASE ~(c \in pending /\ status[c] = "waiting")
  BY <1>2 DEF Resolve, WaitingKept, Waiting
<1>3. QED
  BY <1>1, <1>2

LEMMA WaitingNext == ConsentInv /\ WaitingKept /\ [Next]_vars => WaitingKept'
<1> SUFFICES ASSUME ConsentInv, WaitingKept, [Next]_vars
             PROVE  WaitingKept'
  OBVIOUS
<1> USE DEF ConsentInv
<1>1. ASSUME NEW c \in Call, CallTool(c)
      PROVE  WaitingKept'
  BY <1>1 DEF CallTool, WaitingKept, Waiting, StatusType
<1>2. ASSUME NEW c \in Call, CallToolAborted(c) \/ Abort(c)
      PROVE  WaitingKept'
  BY <1>2 DEF CallToolAborted, Abort, Settle, WaitingKept, Waiting
<1>3. ASSUME NEW c \in Call, NEW a \in Answer, AnswerInTerminal(c, a)
      PROVE  WaitingKept'
  BY <1>3, ResolveKeeps DEF AnswerInTerminal
<1>4. ASSUME NEW t \in Tab, ServerReceives(t)
      PROVE  WaitingKept'
  <2>1. Head(toServer[t]) \in Message
    BY <1>4 DEF ServerReceives
  <2>2. QED
    BY <1>4, <2>1, ResolveKeeps DEF ServerReceives, Message
<1>5. ASSUME NEW t \in Tab, \/ \E c \in Call, a \in Answer : AnswerInTab(t, c, a)
                            \/ Connect(t) \/ Disconnect(t) \/ TabReceives(t)
      PROVE  WaitingKept'
  BY <1>5 DEF AnswerInTab, Connect, Disconnect, TabReceives, bus, WaitingKept, Waiting
<1>6. CASE Stop
  BY <1>6 DEF Stop, Settle, WaitingKept, Waiting
<1>7. CASE EndRun \/ UNCHANGED vars
  BY <1>7 DEF EndRun, vars, bus, WaitingKept, Waiting
<1>8. QED
  BY <1>1, <1>2, <1>3, <1>4, <1>5, <1>6, <1>7 DEF Next

(* The step that stops the run leaves no call waiting, for any number of calls *)
(* and pages: every hook that waits is in the map denyAllPending empties.      *)
THEOREM StopRefusesAll == Spec => StopRefusesWaiting
<1>1. Init => ConsentInv /\ WaitingKept
  BY DEF Init, ConsentInv, StatusType, GivenAnswers, WaitingKept, Waiting
<1>2. WaitingKept /\ [Next]_vars => [~stopped /\ stopped' => Waiting' = {}]_vars
  <2> SUFFICES ASSUME WaitingKept, Next, ~stopped, stopped'
               PROVE  Waiting' = {}
    BY DEF vars
  <2>1. Stop
    BY DEF Next, CallTool, CallToolAborted, Abort, AnswerInTerminal, AnswerInTab, ServerReceives,
           Connect, Disconnect, TabReceives, EndRun
  <2>2. QED
    BY <2>1 DEF Stop, Settle, WaitingKept, Waiting
<1>3. ConsentInv /\ WaitingKept /\ [Next]_vars => (ConsentInv /\ WaitingKept)'
  BY ConsentNext, WaitingNext
<1>4. QED
  BY <1>1, <1>2, <1>3, PTL DEF Spec, StopRefusesWaiting

-----------------------------------------------------------------------------

(* What is in one sequence or the other is in both together.                   *)
LEMMA ConcatSet ==
  ASSUME NEW X, NEW s \in Seq(X), NEW t \in Seq(X)
  PROVE  s \o t \in Seq(X) /\ ToSet(s \o t) = ToSet(s) \cup ToSet(t)
<1> DEFINE st == s \o t
<1>1. /\ st \in Seq(X) /\ Len(st) = Len(s) + Len(t)
      /\ \A i \in 1..(Len(s) + Len(t)) : st[i] = IF i <= Len(s) THEN s[i] ELSE t[i - Len(s)]
  BY ConcatProperties
<1> HIDE DEF st
<1>2. DOMAIN s = 1..Len(s) /\ DOMAIN t = 1..Len(t) /\ DOMAIN st = 1..Len(st)
      /\ Len(s) \in Nat /\ Len(t) \in Nat
  BY <1>1
<1>3. ASSUME NEW x \in ToSet(s) PROVE x \in ToSet(st)
  <2>1. PICK i \in 1..Len(s) : s[i] = x
    BY <1>2 DEF ToSet
  <2>2. i \in 1..(Len(s) + Len(t)) /\ st[i] = x
    BY <1>1, <1>2, <2>1
  <2>3. QED
    BY <1>1, <1>2, <2>2 DEF ToSet
<1>4. ASSUME NEW x \in ToSet(t) PROVE x \in ToSet(st)
  <2>1. PICK i \in 1..Len(t) : t[i] = x
    BY <1>2 DEF ToSet
  <2>2. /\ Len(s) + i \in 1..(Len(s) + Len(t)) /\ ~(Len(s) + i <= Len(s))
        /\ (Len(s) + i) - Len(s) = i
    BY <1>2
  <2>3. st[Len(s) + i] = x
    BY <1>1, <2>1, <2>2
  <2>4. QED
    BY <1>1, <1>2, <2>2, <2>3 DEF ToSet
<1>5. ASSUME NEW x \in ToSet(st) PROVE x \in ToSet(s) \cup ToSet(t)
  <2>1. PICK i \in 1..(Len(s) + Len(t)) : st[i] = x
    BY <1>1, <1>2 DEF ToSet
  <2>2. CASE i <= Len(s)
    BY <1>1, <1>2, <2>1, <2>2 DEF ToSet
  <2>3. CASE ~(i <= Len(s))
    <3>1. i - Len(s) \in 1..Len(t) /\ t[i - Len(s)] = x
      BY <1>1, <1>2, <2>1, <2>3
    <3>2. QED
      BY <1>2, <3>1 DEF ToSet
  <2>4. QED
    BY <2>2, <2>3
<1>6. QED
  BY <1>1, <1>3, <1>4, <1>5 DEF st

(* Only a call that a person refused or allowed, or that was given up, has an  *)
(* outcome in the history.                                                     *)
OutcomesTrue ==
  /\ history \in Seq(Event)
  /\ pending \subseteq Call
  /\ \A c \in Call : Resolved(c) \in ToSet(history) => status[c] \in {"allowed", "denied"}

\* What StreakCounts counts is counted in a natural number.
StreakInv == ConsentInv /\ OutcomesTrue /\ streak \in Nat /\ StreakCounts /\ OfferedWithinLimit

(* The history after an answer has the outcomes of the calls it settles.       *)
LEMMA SettledHistory ==
  ASSUME history \in Seq(Event), NEW S \in SUBSET Call, IsFiniteSet(S), NEW a,
         NEW before \in Seq(Event), \A c \in Call : Resolved(c) \notin ToSet(before),
         Settle(S, a, before)
  PROVE  /\ history' \in Seq(Event)
         /\ \A c \in Call : Resolved(c) \in ToSet(history') <=> Resolved(c) \in ToSet(history) \/ c \in S
<1>1. PICK es \in Resolutions(S) : history' = history \o (before \o es)
  BY DEF Settle, Emit
<1>2. Cardinality(S) \in Nat /\ es \in [1..Cardinality(S) -> {Resolved(c) : c \in S}]
  BY FS_CardinalityType DEF Resolutions
<1>3. {Resolved(c) : c \in S} \subseteq Event
  BY DEF Event
<1>4. es \in [1..Cardinality(S) -> Event]
  BY <1>2, <1>3
<1>5. es \in Seq(Event)
  BY <1>2, <1>4
<1>6. ToSet(es) = {Resolved(c) : c \in S}
  BY <1>2 DEF Resolutions, ToSet
<1> DEFINE events == before \o es
<1>7. events \in Seq(Event) /\ ToSet(events) = ToSet(before) \cup ToSet(es)
  BY <1>5, ConcatSet
<1> HIDE DEF events
<1>8. /\ history' \in Seq(Event)
      /\ ToSet(history') = ToSet(history) \cup ToSet(events)
  <2>1. history \o events \in Seq(Event) /\ ToSet(history \o events) = ToSet(history) \cup ToSet(events)
    BY <1>7, ConcatSet
  <2>2. history' = history \o events
    BY <1>1 DEF events
  <2>3. QED
    BY <2>1, <2>2
<1>9. \A c, d \in Call : Resolved(c) = Resolved(d) => c = d
  BY DEF Resolved
<1>10. QED
  BY <1>6, <1>7, <1>8, <1>9

(* What a row is made of stands in the history and in the outcomes given       *)
(* there: neither later events nor calls without an outcome change it.         *)
LEMMA RowStays ==
  ASSUME history \in Seq(Event), NEW events \in Seq(Event), history' = history \o events,
         \A c \in Call : Resolved(c) \in ToSet(history) => status'[c] = status[c],
         NEW n \in 0..Len(history)
  PROVE  Row(n)' = Row(n)
<1>1. /\ Len(history) \in Nat /\ DOMAIN history = 1..Len(history)
      /\ \A i \in 1..Len(history) : history'[i] = history[i] /\ history[i] \in Event
  BY ConcatProperties
<1>2. ASSUME NEW i \in 1..n PROVE history'[i] = history[i] /\ InputAllowed(history[i])' = InputAllowed(history[i])
  <2>0. i \in 1..Len(history)
    BY <1>1
  <2>1. history'[i] = history[i] /\ history[i] \in Event /\ history[i] \in ToSet(history)
    BY <1>1, <2>0 DEF ToSet
  <2>2. PICK c \in Call : history[i] = Requested(c) \/ history[i] = Resolved(c)
    BY <2>1 DEF Event
  <2>3. history[i].call = c /\ (history[i].type = "approval-resolved" => history[i] = Resolved(c))
    BY <2>2 DEF Requested, Resolved
  <2>4. QED
    BY <2>1, <2>3 DEF InputAllowed
<1>3. \A i \in 1..n : InputAllowed(history[i])' = InputAllowed(history[i])
  BY <1>2
<1>4. \A i \in 1..n : i..n \subseteq 1..n
  BY <1>1
<1>5. QED
  BY <1>2, <1>3, <1>4 DEF Row

(* A row is a finite set.                                                      *)
LEMMA RowFinite ==
  ASSUME IsFiniteSet(Call), NEW n
  PROVE  IsFiniteSet(Row(n)) /\ Cardinality(Row(n)) \in Nat
BY FS_Subset, FS_CardinalityType DEF Row

(* Where requests are added to the history, and inputs only within the limit,  *)
(* the limit was kept by every request.                                        *)
LEMMA LimitKept ==
  ASSUME OutcomesTrue, OfferedWithinLimit,
         NEW events \in Seq(Event), history' = history \o events,
         \A c \in Call : Resolved(c) \in ToSet(history) => status'[c] = status[c],
         \A k \in 1..Len(events), c \in Call :
           Kind[c] = "input" /\ events[k] = Requested(c)
             => k = 1 /\ Cardinality(Row(Len(history))) < MaxDenials
  PROVE  OfferedWithinLimit'
<1>1. /\ Len(history) \in Nat /\ Len(history') = Len(history) + Len(events) /\ Len(events) \in Nat
      /\ \A i \in 1..Len(history') : history'[i] = IF i <= Len(history) THEN history[i] ELSE events[i - Len(history)]
  BY ConcatProperties DEF OutcomesTrue
<1>2. \A n \in 0..Len(history) : Row(n)' = Row(n)
  BY RowStays DEF OutcomesTrue
<1>3. ASSUME NEW n \in 1..Len(history'), NEW c \in Call, Kind[c] = "input", history'[n] = Requested(c)
      PROVE  Cardinality(Row(n - 1)') < MaxDenials
  <2>1. CASE n <= Len(history)
    <3>1. history[n] = Requested(c) /\ n \in 1..Len(history) /\ n - 1 \in 0..Len(history)
      BY <1>1, <1>3, <2>1
    <3>2. QED
      BY <1>2, <1>3, <3>1 DEF OfferedWithinLimit
  <2>2. CASE ~(n <= Len(history))
    <3> DEFINE k == n - Len(history)
    <3>1. k \in 1..Len(events) /\ events[k] = Requested(c)
      BY <1>1, <1>3, <2>2
    <3>2. k = 1 /\ Cardinality(Row(Len(history))) < MaxDenials
      BY <1>3, <3>1
    <3>3. n - 1 = Len(history) /\ n - 1 \in 0..Len(history)
      BY <1>1, <3>2
    <3>4. Row(n - 1)' = Row(Len(history))
      BY <1>2, <3>3
    <3>5. QED
      BY <3>2, <3>4
  <2>3. QED
    BY <2>1, <2>2
<1>4. QED
  BY <1>3 DEF OfferedWithinLimit

(* After an answer the row is longer by the inputs it refuses, and empty where *)
(* it allows one.                                                              *)
LEMMA SettledRow ==
  ASSUME OutcomesTrue, NEW S \in SUBSET Call, NEW a,
         \A c \in S : status[c] \in {"new", "waiting"},
         \A c \in S : status'[c] = IF a = "no" THEN "denied" ELSE "allowed",
         \A c \in Call \ S : status'[c] = status[c],
         NEW events \in Seq(Event), history' = history \o events,
         \A c \in Call : Resolved(c) \in ToSet(events) <=> c \in S,
         NEW L, L = Len(history), NEW M, M = Len(history')
  PROVE  LET inputs == {c \in S : Kind[c] = "input"}
         IN Row(M)' = IF a = "no" \/ inputs = {} THEN Row(L) \cup inputs ELSE {}
<1> DEFINE inputs == {c \in S : Kind[c] = "input"}
<1>1. /\ L \in Nat /\ M = L + Len(events) /\ Len(events) \in Nat /\ history \in Seq(Event)
      /\ \A i \in 1..M : history'[i] = IF i <= L THEN history[i] ELSE events[i - L]
      /\ DOMAIN events = 1..Len(events) /\ DOMAIN history = 1..L
  BY ConcatProperties DEF OutcomesTrue
<1>0. PICK A : A = {j \in 1..M : /\ history'[j].type = "approval-resolved"
                                /\ Kind[history'[j].call] = "input"
                                /\ status'[history'[j].call] = "allowed"}
  OBVIOUS
<1>a. ASSUME NEW n \in {L, M}, NEW c \in Call
      PROVE  c \in Row(n)' <=> /\ Kind[c] = "input"
                               /\ \E i \in 1..n : history'[i] = Resolved(c) /\ \A j \in i..n : j \notin A
  <2>1. \A i \in 1..n : \A j \in i..n : j \in 1..M
    BY <1>1
  <2>2. c \in Row(n)' <=> /\ Kind[c] = "input"
                         /\ \E i \in 1..n :
                              /\ history'[i] = Resolved(c)
                              /\ \A j \in i..n : ~(/\ history'[j].type = "approval-resolved"
                                                   /\ Kind[history'[j].call] = "input"
                                                   /\ status'[history'[j].call] = "allowed")
    BY DEF Row, InputAllowed
  <2>3. \A j \in 1..M : j \notin A <=> ~(/\ history'[j].type = "approval-resolved"
                                        /\ Kind[history'[j].call] = "input"
                                        /\ status'[history'[j].call] = "allowed")
    BY <1>0
  <2>4. \A i \in 1..n : (\A j \in i..n : j \notin A)
                        <=> \A j \in i..n : ~(/\ history'[j].type = "approval-resolved"
                                             /\ Kind[history'[j].call] = "input"
                                             /\ status'[history'[j].call] = "allowed")
    BY <2>1, <2>3
  <2>5. QED
    BY <2>2, <2>4
<1>2. \A c \in Call : Resolved(c) \in ToSet(history) => status'[c] = status[c] /\ c \notin S
  BY DEF OutcomesTrue
<1>3. Row(L)' = Row(L)
  <2>1. L \in 0..Len(history)
    BY <1>1
  <2>2. QED
    BY <1>1, <1>2, <2>1, RowStays
<1>4. \A j \in 1..Len(events) : history'[L + j] = events[j] /\ L + j \in 1..M
  BY <1>1
<1>5. ASSUME NEW i \in 1..M, NEW c \in Call, history'[i] = Resolved(c)
      PROVE  IF i <= L THEN Resolved(c) \in ToSet(history) ELSE c \in S
  <2>1. CASE i <= L
    BY <1>1, <1>5, <2>1 DEF ToSet
  <2>2. CASE ~(i <= L)
    <3>1. i - L \in 1..Len(events) /\ events[i - L] = Resolved(c)
      BY <1>1, <1>5, <2>2
    <3>2. Resolved(c) \in ToSet(events)
      BY <1>1, <3>1 DEF ToSet
    <3>3. QED
      BY <2>2, <3>2
  <2>3. QED
    BY <2>1, <2>2
<1>6. ASSUME NEW c \in S PROVE \E i \in 1..M : i > L /\ history'[i] = Resolved(c)
  <2>1. PICK j \in 1..Len(events) : events[j] = Resolved(c)
    BY <1>1 DEF ToSet
  <2>2. L + j > L
    BY <1>1
  <2>3. QED
    BY <1>4, <2>1, <2>2
<1>7. \A c \in Call : /\ Resolved(c).call = c /\ Resolved(c).type = "approval-resolved"
                       /\ Requested(c).type # "approval-resolved"
  BY DEF Resolved, Requested
<1>8. ASSUME NEW i \in 1..M, i > L, i \in A
      PROVE  a # "no" /\ inputs # {}
  <2>1. events[i - L] \in Event /\ history'[i] = events[i - L]
    BY <1>1, <1>8
  <2>2. PICK c \in Call : history'[i] = Resolved(c) /\ Kind[c] = "input" /\ status'[c] = "allowed"
    BY <1>0, <1>7, <1>8, <2>1 DEF Event
  <2>3. c \in S
    BY <1>1, <1>5, <1>8, <2>2
  <2>4. QED
    BY <2>2, <2>3
<1>9. CASE a = "no" \/ inputs = {}
  <2>1. \A i \in 1..M : i > L => i \notin A
    BY <1>8, <1>9
  <2>2. ASSUME NEW c \in Row(L) PROVE c \in Row(M)'
    <3>1. c \in Row(L)' /\ c \in Call /\ Kind[c] = "input"
      BY <1>3 DEF Row
    <3>2. PICK i \in 1..L : history'[i] = Resolved(c) /\ \A j \in i..L : j \notin A
      BY <1>a, <3>1
    <3>3. i \in 1..M /\ \A j \in i..M : j \notin A
      BY <1>1, <2>1, <3>2
    <3>4. QED
      BY <1>a, <3>1, <3>3, <3>2
  <2>3. ASSUME NEW c \in inputs PROVE c \in Row(M)'
    <3>1. PICK i \in 1..M : i > L /\ history'[i] = Resolved(c)
      BY <1>6
    <3>2. \A j \in i..M : j \notin A
      BY <1>1, <2>1, <3>1
    <3>3. QED
      BY <1>a, <3>1, <3>2
  <2>4. ASSUME NEW c \in Row(M)' PROVE c \in Row(L) \cup inputs
    <3>1. c \in Call /\ Kind[c] = "input"
      BY <2>4 DEF Row
    <3>2. PICK i \in 1..M : history'[i] = Resolved(c) /\ \A j \in i..M : j \notin A
      BY <1>a, <2>4, <3>1
    <3>3. CASE i <= L
      <4>1. i \in 1..L /\ \A j \in i..L : j \in i..M
        BY <1>1, <3>2, <3>3
      <4>2. c \in Row(L)'
        BY <1>a, <3>1, <3>2, <4>1
      <4>3. QED
        BY <1>3, <4>2
    <3>4. CASE ~(i <= L)
      BY <1>5, <3>1, <3>2, <3>4
    <3>5. QED
      BY <3>3, <3>4
  <2>5. Row(M)' = Row(L) \cup inputs
    BY <2>2, <2>3, <2>4
  <2>6. QED
    BY <1>3, <1>9, <2>5
<1>10. CASE ~(a = "no" \/ inputs = {})
  <2>1. PICK d \in inputs : TRUE
    BY <1>10
  <2>2. PICK l \in 1..M : l > L /\ history'[l] = Resolved(d)
    BY <1>6
  <2>3. l \in A
    BY <1>0, <1>4, <1>7, <1>10, <2>2
  <2>4. ASSUME NEW c \in Row(M)' PROVE FALSE
    <3>1. c \in Call /\ Kind[c] = "input"
      BY <2>4 DEF Row
    <3>2. PICK i \in 1..M : history'[i] = Resolved(c) /\ \A j \in i..M : j \notin A
      BY <1>a, <2>4, <3>1
    <3>3. CASE i <= L
      <4>1. l \in i..M
        BY <1>1, <2>2, <3>2, <3>3
      <4>2. QED
        BY <2>3, <3>2, <4>1
    <3>4. CASE ~(i <= L)
      <4>1. c \in S
        BY <1>5, <3>1, <3>2, <3>4
      <4>2. i \in A /\ i \in i..M
        BY <1>0, <1>1, <1>7, <1>10, <3>1, <3>2, <4>1
      <4>3. QED
        BY <3>2, <4>2
    <3>5. QED
      BY <3>3, <3>4
  <2>5. QED
    BY <1>3, <1>10, <2>4
<1>11. QED
  BY <1>9, <1>10

(* An answer is counted once for every input it refuses, and starts the count  *)
(* anew where it allows one.                                                   *)
LEMMA SettledStreak ==
  ASSUME IsFiniteSet(Call), StreakInv, NEW S \in SUBSET Call, NEW a \in Answer,
         \A c \in S : status[c] \in {"new", "waiting"},
         NEW before \in Seq(Event), \A c \in Call : Resolved(c) \notin ToSet(before),
         \A k \in 1..Len(before), c \in Call :
           Kind[c] = "input" /\ before[k] = Requested(c) => k = 1 /\ streak < MaxDenials,
         Settle(S, a, before), pending' \subseteq Call
  PROVE  OutcomesTrue' /\ streak' \in Nat /\ StreakCounts' /\ OfferedWithinLimit'
<1> DEFINE inputs == {c \in S : Kind[c] = "input"}
<1>0. PICK L, M : L = Len(history) /\ M = Len(history')
  OBVIOUS
<1>1. IsFiniteSet(S) /\ IsFiniteSet(inputs)
  BY FS_Subset
<1>2. Cardinality(inputs) \in Nat /\ Count(S) = Cardinality(inputs)
  BY <1>1, FS_CardinalityType DEF Count
<1>3. /\ history' \in Seq(Event)
      /\ \A c \in Call : Resolved(c) \in ToSet(history') <=> Resolved(c) \in ToSet(history) \/ c \in S
  BY <1>1, SettledHistory DEF StreakInv, OutcomesTrue
<1>4. /\ \A c \in S : status'[c] = IF a = "no" THEN "denied" ELSE "allowed"
      /\ \A c \in Call \ S : status'[c] = status[c]
  BY DEF Settle
<1>5. OutcomesTrue'
  BY <1>3, <1>4 DEF StreakInv, OutcomesTrue
<1>6. streak' \in Nat
  BY <1>2 DEF Settle, StreakAfter, StreakInv
<1>7. PICK es \in Resolutions(S) : history' = history \o (before \o es)
  BY DEF Settle, Emit
<1>8. PICK events : events = before \o es
  OBVIOUS
<1>9. /\ es \in Seq(Event) /\ ToSet(es) = {Resolved(c) : c \in S}
      /\ \A k \in 1..Len(es), c \in Call : es[k] # Requested(c)
  <2>1. Cardinality(S) \in Nat /\ es \in [1..Cardinality(S) -> {Resolved(c) : c \in S}]
    BY <1>1, FS_CardinalityType DEF Resolutions
  <2>2. {Resolved(c) : c \in S} \subseteq Event
    BY DEF Event
  <2>3. es \in Seq(Event)
    BY <2>1, <2>2
  <2>4. ToSet(es) = {Resolved(c) : c \in S}
    BY <2>1 DEF Resolutions, ToSet
  <2>5. \A c, d \in Call : Resolved(c).type # Requested(d).type
    BY DEF Resolved, Requested
  <2>6. QED
    BY <2>1, <2>3, <2>4, <2>5
<1>10. /\ events \in Seq(Event) /\ ToSet(events) = ToSet(before) \cup ToSet(es)
       /\ \A k \in 1..Len(events) : \/ k \in 1..Len(before) /\ events[k] = before[k]
                                    \/ \E l \in 1..Len(es) : events[k] = es[l]
  <2>1. events \in Seq(Event) /\ ToSet(events) = ToSet(before) \cup ToSet(es)
    BY <1>8, <1>9, ConcatSet
  <2>2. Len(events) = Len(before) + Len(es) /\ Len(before) \in Nat /\ Len(es) \in Nat
        /\ \A k \in 1..Len(events) : events[k] = IF k <= Len(before) THEN before[k] ELSE es[k - Len(before)]
    BY <1>8, <1>9, ConcatProperties
  <2>3. ASSUME NEW k \in 1..Len(events), ~(k <= Len(before))
        PROVE  \E l \in 1..Len(es) : events[k] = es[l]
    <3>1. k - Len(before) \in 1..Len(es) /\ events[k] = es[k - Len(before)]
      BY <2>2, <2>3
    <3>2. QED
      BY <3>1
  <2>4. QED
    BY <2>1, <2>2, <2>3
<1>11. history' = history \o events
  BY <1>7, <1>8
<1>12. \A c \in Call : Resolved(c) \in ToSet(events) <=> c \in S
  <2>1. \A c, d \in Call : Resolved(c) = Resolved(d) => c = d
    BY DEF Resolved
  <2>2. QED
    BY <1>9, <1>10, <2>1
<1>13. Row(M)' = IF a = "no" \/ inputs = {} THEN Row(L) \cup inputs ELSE {}
  <2>1. OutcomesTrue /\ S \in SUBSET Call /\ (\A c \in S : status[c] \in {"new", "waiting"})
    BY DEF StreakInv
  <2>2. events \in Seq(Event)
    BY <1>10
  <2>3. QED
    BY ONLY <1>0, <1>4, <1>11, <1>12, <2>1, <2>2, SettledRow
<1>14. streak = Cardinality(Row(L)) /\ IsFiniteSet(Row(L)) /\ Cardinality(Row(L)) \in Nat
  BY <1>0, RowFinite DEF StreakInv, StreakCounts
<1>15. Row(L) \cap inputs = {}
  <2>1. ASSUME NEW c \in Row(L) PROVE Resolved(c) \in ToSet(history) /\ c \in Call
    <3>1. PICK i \in 1..L : history[i] = Resolved(c)
      BY DEF Row
    <3>2. DOMAIN history = 1..L
      BY <1>0 DEF StreakInv, OutcomesTrue
    <3>3. QED
      BY <3>1, <3>2 DEF ToSet, Row
  <2>2. QED
    BY <2>1 DEF StreakInv, OutcomesTrue
<1>16. Cardinality(Row(L) \cup inputs) = streak + Cardinality(inputs)
  <2>1. Cardinality(Row(L) \cup inputs) = Cardinality(Row(L)) + Cardinality(inputs) - Cardinality(Row(L) \cap inputs)
    BY <1>1, <1>14, FS_Union
  <2>2. Cardinality(Row(L) \cap inputs) = 0
    BY <1>15, FS_EmptySet
  <2>3. QED
    BY <1>2, <1>14, <2>1, <2>2
<1>17. StreakCounts'
  <2>1. CASE inputs = {}
    <3>1. Cardinality(inputs) = 0
      BY <2>1, FS_EmptySet
    <3>2. streak' = streak + Cardinality(inputs)
      BY <1>2, <3>1 DEF Settle, StreakAfter, StreakInv
    <3>3. QED
      BY <1>0, <1>13, <1>16, <2>1, <3>2 DEF StreakCounts
  <2>2. CASE a = "no"
    <3>1. streak' = streak + Cardinality(inputs)
      BY <1>2, <2>2 DEF Settle, StreakAfter, StreakInv
    <3>2. QED
      BY <1>0, <1>13, <1>16, <2>2, <3>1 DEF StreakCounts
  <2>3. CASE inputs # {} /\ a # "no"
    <3>1. Cardinality(inputs) # 0
      BY <1>1, <2>3, FS_EmptySet
    <3>2. streak' = 0
      BY <1>2, <2>3, <3>1 DEF Settle, StreakAfter
    <3>3. Row(M)' = {}
      BY <1>13, <2>3
    <3>4. Cardinality(Row(M)') = 0
      BY <3>3, FS_EmptySet
    <3>5. QED
      BY <1>0, <3>2, <3>4 DEF StreakCounts
  <2>4. QED
    BY <2>1, <2>2, <2>3
<1>18. OfferedWithinLimit'
  <2>1. ASSUME NEW k \in 1..Len(events), NEW c \in Call, Kind[c] = "input", events[k] = Requested(c)
        PROVE  k = 1 /\ Cardinality(Row(L)) < MaxDenials
    <3>1. k \in 1..Len(before) /\ before[k] = Requested(c)
      BY <1>9, <1>10, <2>1
    <3>2. QED
      BY <1>14, <2>1, <3>1
  <2>2. \A c \in Call : Resolved(c) \in ToSet(history) => status'[c] = status[c]
    BY <1>4 DEF StreakInv, OutcomesTrue
  <2>3. QED
    BY <1>0, <1>10, <1>11, <2>1, <2>2, LimitKept DEF StreakInv
<1>19. QED
  BY <1>5, <1>6, <1>17, <1>18

(* Nothing is counted where the history stands still.                          *)
LEMMA StreakStays ==
  ASSUME StreakInv, UNCHANGED <<status, history, streak>>, pending' \subseteq Call
  PROVE  OutcomesTrue' /\ streak' \in Nat /\ StreakCounts' /\ OfferedWithinLimit'
BY DEF StreakInv, OutcomesTrue, StreakCounts, OfferedWithinLimit, Row, InputAllowed

LEMMA ResolveStreak ==
  ASSUME IsFiniteSet(Call), StreakInv, NEW c \in Call, NEW a \in Answer, Resolve(c, a)
  PROVE  OutcomesTrue' /\ streak' \in Nat /\ StreakCounts' /\ OfferedWithinLimit'
<1>1. pending' \subseteq Call
  BY DEF Resolve, StreakInv, OutcomesTrue
<1>2. CASE status[c] = "waiting" /\ Settle({c}, a, <<>>)
  <2>1. <<>> \in Seq(Event) /\ ToSet(<<>>) = {} /\ 1..Len(<<>>) = {}
    BY DEF ToSet
  <2>2. {c} \in SUBSET Call /\ \A d \in {c} : status[d] \in {"new", "waiting"}
    BY <1>2
  <2>3. QED
    BY <1>1, <1>2, <2>1, <2>2, SettledStreak
<1>3. CASE UNCHANGED <<status, history, streak>>
  BY <1>1, <1>3, StreakStays
<1>4. QED
  BY <1>2, <1>3 DEF Resolve

LEMMA StreakNext ==
  ASSUME IsFiniteSet(Call), StreakInv, [Next]_vars
  PROVE  StreakInv'
<1> SUFFICES OutcomesTrue' /\ streak' \in Nat /\ StreakCounts' /\ OfferedWithinLimit'
  BY ConsentNext DEF StreakInv
<1>0. <<>> \in Seq(Event) /\ ToSet(<<>>) = {} /\ 1..Len(<<>>) = {}
  BY DEF ToSet
<1>1. ASSUME NEW c \in Call
      PROVE  /\ <<Requested(c)>> \in Seq(Event)
             /\ ToSet(<<Requested(c)>>) = {Requested(c)}
             /\ \A d \in Call : Resolved(d) # Requested(c)
  BY DEF Event, ToSet, Resolved, Requested
<1>2. ASSUME NEW c \in Call, CallTool(c)
      PROVE  OutcomesTrue' /\ streak' \in Nat /\ StreakCounts' /\ OfferedWithinLimit'
  <2>1. /\ status[c] = "new" /\ streak' = streak /\ pending' \subseteq Call
        /\ status' = [status EXCEPT ![c] = Unasked(c)]
    BY <1>2 DEF CallTool, StreakInv, OutcomesTrue
  <2>2. history' = history \/ history' = history \o <<Requested(c)>>
    BY <1>2 DEF CallTool, Emit
  <2>3. /\ history' \in Seq(Event)
        /\ \A d \in Call : Resolved(d) \in ToSet(history') <=> Resolved(d) \in ToSet(history)
    <3> DEFINE asked == <<Requested(c)>>
    <3>1. asked \in Seq(Event) /\ \A d \in Call : Resolved(d) \notin ToSet(asked)
      BY <1>1
    <3> HIDE DEF asked
    <3>2. history \o asked \in Seq(Event) /\ ToSet(history \o asked) = ToSet(history) \cup ToSet(asked)
      BY <3>1, ConcatSet DEF StreakInv, OutcomesTrue
    <3>3. history' = history \/ history' = history \o asked
      BY <2>2 DEF asked
    <3>4. QED
      BY <3>1, <3>2, <3>3 DEF StreakInv, OutcomesTrue
  <2>4. Resolved(c) \notin ToSet(history)
    BY <2>1 DEF StreakInv, OutcomesTrue
  <2>5. /\ status'[c] \in {"waiting", "ruled", "denied"}
        /\ \A d \in Call : d # c => status'[d] = status[d]
    BY <2>1 DEF Unasked, StreakInv, ConsentInv, StatusType
  <2>6. OutcomesTrue'
    BY <2>1, <2>3, <2>4, <2>5 DEF StreakInv, OutcomesTrue
  <2>7. \A d \in Call : Resolved(d) \in ToSet(history) => status'[d] = status[d]
    BY <2>4, <2>5
  <2>8. CASE history' = history
    <3>1. \A n \in 0..Len(history) : Row(n)' = Row(n)
      <4>1. history' = history \o <<>> /\ <<>> \in Seq(Event) /\ history \in Seq(Event)
        BY <2>8, <1>0, ConcatEmptySeq DEF StreakInv, OutcomesTrue
      <4>2. QED
        BY ONLY <2>7, <4>1, RowStays
    <3>2. Len(history) \in 0..Len(history) /\ \A n \in 1..Len(history) : n - 1 \in 0..Len(history)
      BY DEF StreakInv, OutcomesTrue
    <3>3. QED
      <4>1. PICK L : L = Len(history)
        OBVIOUS
      <4>2. StreakCounts'
        BY <2>1, <2>8, <3>1, <3>2, <4>1 DEF StreakInv, StreakCounts
      <4>3. QED
        BY <2>1, <2>6, <2>8, <3>1, <3>2, <4>2 DEF StreakInv, OfferedWithinLimit
  <2>9. CASE history' # history
    <3> DEFINE asked == <<Requested(c)>>
    <3>1. /\ history' = history \o asked /\ asked \in Seq(Event) /\ Len(asked) = 1
          /\ asked[1] = Requested(c) /\ Unasked(c) = "waiting"
      BY <1>1, <1>2, <2>2, <2>9 DEF CallTool
    <3>2. Kind[c] = "input" => streak < MaxDenials
      BY <3>1, ApprovalAssumption DEF Unasked, Refused, StreakInv
    <3>3. ASSUME NEW k \in 1..Len(asked), NEW d \in Call, Kind[d] = "input", asked[k] = Requested(d)
          PROVE  k = 1 /\ Cardinality(Row(Len(history))) < MaxDenials
      <4>1. k = 1 /\ Requested(c) = Requested(d)
        BY <3>1, <3>3
      <4>2. c = d
        BY <4>1 DEF Requested
      <4>3. QED
        BY <3>2, <3>3, <4>1, <4>2 DEF StreakInv, StreakCounts
    <3>4. \A d \in Call : Resolved(d) \in ToSet(asked) <=> d \in {}
      BY <1>1
    <3> HIDE DEF asked
    <3>5. OfferedWithinLimit'
      BY <2>7, <3>1, <3>3, LimitKept DEF StreakInv
    <3>0. PICK L, M : L = Len(history) /\ M = Len(history')
      OBVIOUS
    <3>6. Row(M)' = Row(L)
      <4>1. /\ history \in Seq(Event) /\ DOMAIN asked = 1..1
            /\ M = L + 1 /\ L \in Nat
            /\ \A i \in 1..M : history'[i] = IF i <= L THEN history[i] ELSE asked[i - L]
        <5>1. history \in Seq(Event)
          BY DEF StreakInv, OutcomesTrue
        <5>2. /\ Len(history \o asked) = Len(history) + Len(asked)
              /\ \A i \in 1..(Len(history) + Len(asked)) :
                    (history \o asked)[i] = IF i <= Len(history) THEN history[i] ELSE asked[i - Len(history)]
          BY <3>1, <5>1, ConcatProperties
        <5>3. Len(history) \in Nat
          BY <5>1
        <5>4. QED
          BY <3>0, <3>1, <5>1, <5>2, <5>3
      <4>2. Row(L)' = Row(L)
        <5>1. L \in 0..Len(history)
          BY <3>0, <4>1
        <5>2. QED
          BY <2>7, <3>1, <4>1, <5>1, RowStays
      <4>3. history'[M] = Requested(c)
        <5>1. M \in 1..M /\ ~(M <= L) /\ M - L = 1
          BY <4>1
        <5>2. QED
          BY <3>1, <4>1, <5>1
      <4>4. history'[M].type # "approval-resolved" /\ \A d \in Call : history'[M] # Resolved(d)
        <5>1. Requested(c).type # "approval-resolved"
          BY DEF Requested
        <5>2. QED
          BY <1>1, <4>3, <5>1
      <4>5. /\ \A i \in 1..M : i = M \/ i \in 1..L
            /\ \A i \in 1..L : i \in 1..M
            /\ \A i \in 1..L : \A j \in i..M : j = M \/ j \in i..L
            /\ \A i \in 1..L : \A j \in i..L : j \in i..M
        BY <4>1
      <4>6. ASSUME NEW d \in Call PROVE d \in Row(M)' <=> d \in Row(L)'
        <5> DEFINE in(n) == /\ Kind[d] = "input"
                            /\ \E i \in 1..n :
                                 /\ history'[i] = Resolved(d)
                                 /\ \A j \in i..n : ~(/\ history'[j].type = "approval-resolved"
                                                      /\ Kind[history'[j].call] = "input"
                                                      /\ status'[history'[j].call] = "allowed")
        <5>1. d \in Row(M)' <=> in(M)
          BY DEF Row, InputAllowed
        <5>2. d \in Row(L)' <=> in(L)
          BY DEF Row, InputAllowed
        <5>3. in(M) <=> in(L)
          BY <4>4, <4>5
        <5>4. QED
          BY <5>1, <5>2, <5>3
      <4>7. Row(M)' \subseteq Call /\ Row(L)' \subseteq Call
        BY DEF Row
      <4>8. QED
        BY <4>2, <4>6, <4>7
    <3>7. QED
      BY <2>1, <2>6, <3>0, <3>5, <3>6 DEF StreakInv, StreakCounts
  <2>10. QED
    BY <2>8, <2>9
<1>3. ASSUME NEW c \in Call, CallToolAborted(c)
      PROVE  OutcomesTrue' /\ streak' \in Nat /\ StreakCounts' /\ OfferedWithinLimit'
  <2> DEFINE asked == <<Requested(c)>>
  <2>1. /\ asked \in Seq(Event) /\ \A d \in Call : Resolved(d) \notin ToSet(asked)
        /\ \A k \in 1..Len(asked), d \in Call : asked[k] = Requested(d) => k = 1 /\ d = c
    BY <1>1 DEF Requested
  <2>2. /\ Settle({c}, "no", asked) /\ status[c] = "new" /\ pending' \subseteq Call
        /\ Unasked(c) = "waiting"
    BY <1>3 DEF CallToolAborted, StreakInv, OutcomesTrue
  <2>3. Kind[c] = "input" => streak < MaxDenials
    BY <2>2, ApprovalAssumption DEF Unasked, Refused, StreakInv
  <2> HIDE DEF asked
  <2>4. \A k \in 1..Len(asked), d \in Call :
          Kind[d] = "input" /\ asked[k] = Requested(d) => k = 1 /\ streak < MaxDenials
    BY <2>1, <2>3
  <2>5. {c} \in SUBSET Call /\ (\A d \in {c} : status[d] \in {"new", "waiting"}) /\ "no" \in Answer
    BY <2>2 DEF Answer
  <2>6. QED
    BY <2>1, <2>2, <2>4, <2>5, SettledStreak
<1>4. ASSUME NEW c \in Call, Abort(c)
      PROVE  OutcomesTrue' /\ streak' \in Nat /\ StreakCounts' /\ OfferedWithinLimit'
  <2>1. {c} \in SUBSET Call /\ (\A d \in {c} : status[d] \in {"new", "waiting"}) /\ "no" \in Answer
    BY <1>4 DEF Abort, Answer
  <2>2. Settle({c}, "no", <<>>) /\ pending' \subseteq Call
    BY <1>4 DEF Abort, StreakInv, OutcomesTrue
  <2>3. QED
    BY <1>0, <2>1, <2>2, SettledStreak
<1>5. ASSUME NEW c \in Call, NEW a \in Answer, AnswerInTerminal(c, a)
      PROVE  OutcomesTrue' /\ streak' \in Nat /\ StreakCounts' /\ OfferedWithinLimit'
  BY <1>5, ResolveStreak DEF AnswerInTerminal
<1>6. ASSUME NEW t \in Tab, ServerReceives(t)
      PROVE  OutcomesTrue' /\ streak' \in Nat /\ StreakCounts' /\ OfferedWithinLimit'
  <2>1. Head(toServer[t]) \in Message
    BY <1>6 DEF ServerReceives, StreakInv, ConsentInv
  <2>2. QED
    BY <1>6, <2>1, ResolveStreak DEF ServerReceives, Message
<1>7. CASE Stop
  <2>1. pending \cap Waiting \in SUBSET Call /\ \A c \in pending \cap Waiting : status[c] \in {"new", "waiting"}
    BY DEF Waiting
  <2>2. Settle(pending \cap Waiting, "no", <<>>) /\ pending' \subseteq Call
    BY <1>7 DEF Stop
  <2>3. QED
    BY <1>0, <2>1, <2>2, SettledStreak DEF Answer
<1>8. CASE \/ \E t \in Tab, c \in Call, a \in Answer : AnswerInTab(t, c, a)
           \/ \E t \in Tab : Connect(t) \/ Disconnect(t) \/ TabReceives(t)
           \/ EndRun \/ UNCHANGED vars
  <2>1. UNCHANGED <<status, history, streak, pending>>
    BY <1>8 DEF AnswerInTab, Connect, Disconnect, TabReceives, EndRun, vars, bus
  <2>2. QED
    BY <2>1, StreakStays DEF StreakInv, OutcomesTrue
<1>9. QED
  BY <1>2, <1>3, <1>4, <1>5, <1>6, <1>7, <1>8 DEF Next

LEMMA StreakInit == Init => StreakInv
<1> SUFFICES ASSUME Init PROVE StreakInv
  OBVIOUS
<1>1. ToSet(history) = {} /\ Len(history) = 0 /\ 1..0 = {} /\ history \in Seq(Event)
  BY DEF Init, ToSet
<1>2. Row(Len(history)) = {}
  BY <1>1 DEF Row
<1>3. Cardinality(Row(Len(history))) = 0
  BY <1>2, FS_EmptySet
<1>4. ConsentInv
  BY DEF Init, ConsentInv, StatusType, GivenAnswers
<1>5. QED
  BY <1>1, <1>3, <1>4 DEF Init, StreakInv, OutcomesTrue, StreakCounts, OfferedWithinLimit

(* The streak is the number of desktop inputs refused since the last one that  *)
(* was allowed, for any finite number of calls: a refusal by a person, by a    *)
(* stop and by an abort is counted once, one made without asking is not, and   *)
(* an input allowed starts the count anew (noteDesktopInputDecision).  No      *)
(* desktop input was put before a person while MaxDenials or more in a row     *)
(* stood refused, for any limit (MAX_CONSECUTIVE_INPUT_DENIALS).               *)
THEOREM StreakHolds == ASSUME IsFiniteSet(Call) PROVE Spec => []InputsLimited
<1>1. Init => StreakInv
  BY StreakInit
<1>2. StreakInv /\ [Next]_vars => StreakInv'
  BY StreakNext
<1>3. StreakInv => InputsLimited
  BY DEF StreakInv, InputsLimited
<1>4. QED
  BY <1>1, <1>2, <1>3, PTL DEF Spec

-----------------------------------------------------------------------------
(* Every prompt is in front of a person. *)

\* A sequence of events tells of every request in it that it does not wait for an answer any more.
Told(s, waiting) ==
  \A i \in 1..Len(s) : \A c \in Call :
    s[i] = Requested(c) => c \in waiting \/ \E j \in 1..Len(s) : j > i /\ s[j] = Resolved(c)

Has(s, e) == \E i \in 1..Len(s) : s[i] = e

ViewTypes ==
  /\ view \in [Tab -> SUBSET Call]
  /\ toTab \in [Tab -> Seq(Event)]
  /\ open \subseteq Tab

(* The bus remembers each waiting call's request, and after it the outcome of   *)
(* each that does not wait.                                                    *)
BusTold ==
  /\ Told(history, Waiting)
  /\ \A c \in Waiting : Has(history, Requested(c))

(* What a page is about to be sent does the same, has no outcome that the bus   *)
(* does not know, and takes from the page each prompt that is over.             *)
PageTold(t) ==
  /\ Told(toTab[t], Waiting)
  /\ \A c \in Call : Has(toTab[t], Resolved(c)) => Has(history, Resolved(c))
  /\ \A c \in view[t] : c \in Waiting \/ Has(toTab[t], Resolved(c))
  /\ \A c \in Waiting : \/ c \in view[t] \/ Has(toTab[t], Requested(c))
                        \/ \E i \in 1..Len(toServer[t]) : toServer[t][i].call = c

ViewInv == ViewTypes /\ BusTold /\ terminal = Waiting /\ \A t \in open : PageTold(t)

LEMMA LessIsWellFounded ==
  \E R : IsWellFoundedOn(R, Nat) /\ \A x, y \in Nat : x < y => <<x, y>> \in R
<1>1. IsWellFoundedOn(OpToRel(<, Nat), Nat)
  BY NatLessThanWellFounded
<1>2. \A x, y \in Nat : x < y => <<x, y>> \in OpToRel(<, Nat)
  BY DEF OpToRel
<1>3. QED
  BY <1>1, <1>2, Zenon

LEMMA LeastNat ==
  ASSUME NEW T, T \subseteq Nat, T # {}
  PROVE  \E x \in T : \A y \in T : x <= y
<1>1. PICK R : IsWellFoundedOn(R, Nat) /\ \A x, y \in Nat : x < y => <<x, y>> \in R
  BY LessIsWellFounded
<1>2. \E x \in T : \A y \in T : <<y, x>> \notin R
  <2>1. \A S, Q, U : IsWellFoundedOn(Q, S) /\ U \subseteq S /\ U # {} => \E u \in U : \A y \in U : <<y, u>> \notin Q
    BY WFMin
  <2>2. IsWellFoundedOn(R, Nat)
    BY <1>1
  <2>3. QED
    BY <2>1, <2>2, Zenon
<1>3. PICK x \in T : \A y \in T : <<y, x>> \notin R
  BY <1>2
<1>4. ASSUME NEW y \in T PROVE x <= y
  <2>1. x \in Nat /\ y \in Nat
    OBVIOUS
  <2>2. ~(y < x)
    BY <1>1, <1>3, <2>1, Zenon
  <2>3. QED
    BY <2>1, <2>2
<1>5. QED
  BY <1>4

(* The filter of bus.replay, one event after the other.                        *)
LEMMA KeptIs ==
  ASSUME history \in Seq(Event)
  PROVE  LET kept[n \in 0..Len(history)] ==
               IF n = 0 THEN <<>>
               ELSE IF Replayed(history[n]) THEN Append(kept[n - 1], history[n]) ELSE kept[n - 1]
         IN kept = [n \in 0..Len(history) |-> IF n = 0 THEN <<>>
                                   ELSE IF Replayed(history[n]) THEN Append(kept[n - 1], history[n]) ELSE kept[n - 1]]
<1> DEFINE Is(k, m) == k = [n \in 0..m |-> IF n = 0 THEN <<>>
                                           ELSE IF Replayed(history[n]) THEN Append(k[n - 1], history[n]) ELSE k[n - 1]]
           bad == {m \in 0..Len(history) : ~\E k : Is(k, m)}
<1>0. bad \subseteq 0..Len(history) /\ \A m \in 0..Len(history) : m \notin bad => \E k : Is(k, m)
  OBVIOUS
<1>1. ASSUME NEW m \in 1..Len(history), NEW k, Is(k, m - 1)
      PROVE  \E l : Is(l, m)
  <2> DEFINE l == [n \in 0..m |-> IF n < m THEN k[n]
                                  ELSE IF Replayed(history[n]) THEN Append(k[n - 1], history[n]) ELSE k[n - 1]]
  <2>1. \A n \in 0..(m - 1) : n < m /\ l[n] = k[n]
    OBVIOUS
  <2>2. ASSUME NEW n \in 0..m
        PROVE  l[n] = IF n = 0 THEN <<>>
                      ELSE IF Replayed(history[n]) THEN Append(l[n - 1], history[n]) ELSE l[n - 1]
    <3>1. CASE n = 0
      BY <1>1, <3>1
    <3>2. CASE n # 0
      <4>1. n - 1 \in 0..(m - 1) /\ l[n - 1] = k[n - 1]
        BY <2>1, <3>2
      <4>2. CASE n < m
        <5>1. n \in 0..(m - 1)
          BY <4>2
        <5>2. k[n] = IF Replayed(history[n]) THEN Append(k[n - 1], history[n]) ELSE k[n - 1]
          BY <1>1, <3>2, <5>1
        <5>3. QED
          BY <2>1, <3>2, <4>1, <5>1, <5>2
      <4>3. CASE ~(n < m)
        BY <3>2, <4>1, <4>3
      <4>4. QED
        BY <4>2, <4>3
    <3>3. QED
      BY <3>1, <3>2
  <2>3. l = [n \in 0..m |-> l[n]]
    OBVIOUS
  <2> HIDE DEF l
  <2>4. Is(l, m)
    BY <2>2, <2>3
  <2>5. QED
    BY <2>4
<1>2. \E k : Is(k, 0)
  <2> DEFINE k == [n \in 0..0 |-> <<>>]
  <2>1. Is(k, 0)
    OBVIOUS
  <2>2. QED
    BY <2>1
<1> HIDE DEF Is, bad
<1>3. bad = {}
  <2> SUFFICES ASSUME bad # {} PROVE FALSE
    OBVIOUS
  <2>1. PICK m \in bad : \A x \in bad : m <= x
    <3>1. bad \subseteq Nat
      BY <1>0
    <3>2. QED
      BY <3>1, LeastNat
  <2>2. m \in 0..Len(history) /\ m # 0
    BY <1>0, <1>2, <2>1 DEF bad
  <2>3. m \in 1..Len(history) /\ m - 1 \in 0..Len(history) /\ m - 1 \notin bad
    BY <1>0, <2>1, <2>2
  <2>4. PICK k : Is(k, m - 1)
    BY <1>0, <2>3
  <2>5. QED
    BY <1>1, <2>1, <2>3, <2>4 DEF bad
<1>4. \E k : Is(k, Len(history))
  BY <1>0, <1>3
<1>5. QED
  BY <1>4 DEF Is

(* What is kept is what is to be kept, in its order.                           *)
KeptWell(q, n) ==
  /\ q \in Seq(Event)
  /\ \A i \in 1..n : Replayed(history[i]) => Has(q, history[i])
  /\ \A k \in 1..Len(q) : \E i \in 1..n :
       /\ q[k] = history[i] /\ Replayed(history[i])
       /\ \A j \in 1..n : j > i /\ Replayed(history[j]) => \E l \in 1..Len(q) : l > k /\ q[l] = history[j]

LEMMA KeptAppends ==
  ASSUME history \in Seq(Event), NEW n \in 1..Len(history), NEW q, KeptWell(q, n - 1)
  PROVE  KeptWell(IF Replayed(history[n]) THEN Append(q, history[n]) ELSE q, n)
<1>0. q \in Seq(Event) /\ Len(q) \in Nat /\ history[n] \in Event
  BY DEF KeptWell
<1>1. CASE ~Replayed(history[n])
  <2>1. \A i \in 1..n : Replayed(history[i]) => i \in 1..(n - 1)
    BY <1>1
  <2>2. \A k \in 1..Len(q) : \E i \in 1..n :
          /\ q[k] = history[i] /\ Replayed(history[i])
          /\ \A j \in 1..n : j > i /\ Replayed(history[j]) => \E l \in 1..Len(q) : l > k /\ q[l] = history[j]
    <3> SUFFICES ASSUME NEW k \in 1..Len(q)
                 PROVE  \E i \in 1..n :
                          /\ q[k] = history[i] /\ Replayed(history[i])
                          /\ \A j \in 1..n : j > i /\ Replayed(history[j])
                               => \E l \in 1..Len(q) : l > k /\ q[l] = history[j]
      OBVIOUS
    <3>1. PICK i \in 1..(n - 1) :
            /\ q[k] = history[i] /\ Replayed(history[i])
            /\ \A j \in 1..(n - 1) : j > i /\ Replayed(history[j])
                 => \E l \in 1..Len(q) : l > k /\ q[l] = history[j]
      BY DEF KeptWell
    <3>2. i \in 1..n
      OBVIOUS
    <3>3. QED
      BY <2>1, <3>1, <3>2
  <2>3. \A i \in 1..n : Replayed(history[i]) => Has(q, history[i])
    BY <2>1 DEF KeptWell
  <2>4. QED
    BY <1>0, <1>1, <2>2, <2>3 DEF KeptWell
<1>2. CASE Replayed(history[n])
  <2> DEFINE p == Append(q, history[n])
  <2>1. /\ p \in Seq(Event) /\ Len(p) = Len(q) + 1 /\ p[Len(p)] = history[n]
        /\ \A k \in 1..Len(q) : k \in 1..Len(p) /\ p[k] = q[k]
    BY <1>0
  <2> HIDE DEF p
  <2>2. Len(p) \in 1..Len(p)
    BY <1>0, <2>1
  <2>3. ASSUME NEW i \in 1..n, Replayed(history[i]) PROVE Has(p, history[i])
    <3>1. CASE i = n
      BY <2>1, <2>2, <3>1 DEF Has
    <3>2. CASE i # n
      <4>1. i \in 1..(n - 1)
        BY <3>2
      <4>2. PICK k \in 1..Len(q) : q[k] = history[i]
        BY <2>3, <4>1 DEF KeptWell, Has
      <4>3. QED
        BY <2>1, <4>2 DEF Has
    <3>3. QED
      BY <3>1, <3>2
  <2>4. ASSUME NEW k \in 1..Len(p)
        PROVE  \E i \in 1..n :
                 /\ p[k] = history[i] /\ Replayed(history[i])
                 /\ \A j \in 1..n : j > i /\ Replayed(history[j])
                      => \E l \in 1..Len(p) : l > k /\ p[l] = history[j]
    <3>1. CASE k = Len(p)
      <4>1. p[k] = history[n] /\ n \in 1..n /\ \A j \in 1..n : ~(j > n)
        BY <2>1, <3>1
      <4>2. QED
        BY <1>2, <4>1
    <3>2. CASE k # Len(p)
      <4>1. k \in 1..Len(q) /\ p[k] = q[k] /\ k < Len(p)
        BY <1>0, <2>1, <3>2
      <4>2. PICK i \in 1..(n - 1) :
              /\ q[k] = history[i] /\ Replayed(history[i])
              /\ \A j \in 1..(n - 1) : j > i /\ Replayed(history[j])
                   => \E l \in 1..Len(q) : l > k /\ q[l] = history[j]
        BY <4>1 DEF KeptWell
      <4>3. ASSUME NEW j \in 1..n, j > i, Replayed(history[j])
            PROVE  \E l \in 1..Len(p) : l > k /\ p[l] = history[j]
        <5>1. CASE j = n
          BY <2>1, <2>2, <4>1, <5>1
        <5>2. CASE j # n
          <6>1. j \in 1..(n - 1)
            BY <5>2
          <6>2. PICK l \in 1..Len(q) : l > k /\ q[l] = history[j]
            BY <4>2, <4>3, <6>1
          <6>3. QED
            BY <2>1, <6>2
        <5>3. QED
          BY <5>1, <5>2
      <4>4. i \in 1..n
        OBVIOUS
      <4>5. QED
        BY <4>1, <4>2, <4>3, <4>4
    <3>3. QED
      BY <3>1, <3>2
  <2>5. KeptWell(p, n)
    BY <2>1, <2>3, <2>4 DEF KeptWell
  <2>6. QED
    BY <1>2, <2>5 DEF p
<1>3. QED
  BY <1>1, <1>2

LEMMA ReplayKeeps ==
  ASSUME history \in Seq(Event)
  PROVE  KeptWell(Replay, Len(history))
<1> DEFINE kept[n \in 0..Len(history)] ==
             IF n = 0 THEN <<>>
             ELSE IF Replayed(history[n]) THEN Append(kept[n - 1], history[n]) ELSE kept[n - 1]
           bad == {m \in 0..Len(history) : ~KeptWell(kept[m], m)}
<1>1. kept = [n \in 0..Len(history) |->
                IF n = 0 THEN <<>>
                ELSE IF Replayed(history[n]) THEN Append(kept[n - 1], history[n]) ELSE kept[n - 1]]
  BY KeptIs
<1>2. Replay = kept[Len(history)]
  BY DEF Replay
<1> HIDE DEF kept
<1>3. /\ kept[0] = <<>>
      /\ \A n \in 1..Len(history) :
           kept[n] = IF Replayed(history[n]) THEN Append(kept[n - 1], history[n]) ELSE kept[n - 1]
  <2>1. \A n \in 0..Len(history) :
          kept[n] = IF n = 0 THEN <<>>
                    ELSE IF Replayed(history[n]) THEN Append(kept[n - 1], history[n]) ELSE kept[n - 1]
    BY <1>1, Zenon
  <2>2. 0 \in 0..Len(history) /\ \A n \in 1..Len(history) : n \in 0..Len(history) /\ n # 0
    OBVIOUS
  <2>3. QED
    BY <2>1, <2>2
<1>4. bad = {}
  <2> SUFFICES ASSUME bad # {} PROVE FALSE
    OBVIOUS
  <2>1. bad \subseteq Nat
    OBVIOUS
  <2>2. PICK m \in bad : \A x \in bad : m <= x
    BY <2>1, LeastNat
  <2>3. KeptWell(<<>>, 0)
    BY DEF KeptWell
  <2>4. m \in 1..Len(history)
    BY <1>3, <2>2, <2>3
  <2>5. m - 1 \in 0..Len(history) /\ m - 1 \notin bad
    BY <2>1, <2>2, <2>4
  <2>6. KeptWell(kept[m - 1], m - 1)
    BY <2>5
  <2>7. KeptWell(kept[m], m)
    BY <1>3, <2>4, <2>6, KeptAppends
  <2>8. QED
    BY <2>2, <2>7
<1>5. Len(history) \in 0..Len(history)
  BY LenProperties
<1>6. QED
  BY <1>2, <1>4, <1>5

-----------------------------------------------------------------------------

LEMMA HasIsIn == ASSUME NEW s \in Seq(Event), NEW e PROVE Has(s, e) <=> e \in ToSet(s)
BY DEF Has, ToSet

LEMMA EventsApart ==
  \A c, d \in Call : /\ Requested(c) \in Event /\ Resolved(c) \in Event /\ Requested(c) # Resolved(d)
                     /\ (Requested(c) = Requested(d) \/ Resolved(c) = Resolved(d) => c = d)
BY DEF Requested, Resolved, Event

(* Events that follow tell of what was asked before them.                      *)
LEMMA ToldGrows ==
  ASSUME NEW s \in Seq(Event), NEW es \in Seq(Event), NEW W, NEW W2, Told(s, W), Told(es, W2),
         \A c \in Call : c \in W /\ c \notin W2 => Has(es, Resolved(c))
  PROVE  /\ s \o es \in Seq(Event) /\ Told(s \o es, W2)
         /\ \A e : Has(s \o es, e) <=> Has(s, e) \/ Has(es, e)
<1> DEFINE st == s \o es
<1>1. /\ st \in Seq(Event) /\ Len(st) = Len(s) + Len(es)
      /\ \A i \in 1..(Len(s) + Len(es)) : st[i] = IF i <= Len(s) THEN s[i] ELSE es[i - Len(s)]
  BY ConcatProperties
<1> HIDE DEF st
<1>2. Len(s) \in Nat /\ Len(es) \in Nat
  OBVIOUS
<1>3. ASSUME NEW i \in 1..Len(s) PROVE i \in 1..Len(st) /\ st[i] = s[i]
  BY <1>1, <1>2
<1>4. ASSUME NEW i \in 1..Len(es)
      PROVE  Len(s) + i \in 1..Len(st) /\ st[Len(s) + i] = es[i]
  <2>1. Len(s) + i \in 1..(Len(s) + Len(es)) /\ ~(Len(s) + i <= Len(s)) /\ Len(s) + i - Len(s) = i
    BY <1>2
  <2>2. QED
    BY <1>1, <2>1
<1>5. ASSUME NEW i \in 1..Len(st), ~(i <= Len(s))
      PROVE  i - Len(s) \in 1..Len(es) /\ st[i] = es[i - Len(s)] /\ i = Len(s) + (i - Len(s))
  BY <1>1, <1>2, <1>5
<1>6. \A e : Has(st, e) <=> Has(s, e) \/ Has(es, e)
  <2> SUFFICES ASSUME NEW e PROVE Has(st, e) <=> Has(s, e) \/ Has(es, e)
    OBVIOUS
  <2>1. ASSUME Has(st, e) PROVE Has(s, e) \/ Has(es, e)
    <3>1. PICK i \in 1..Len(st) : st[i] = e
      BY <2>1 DEF Has
    <3>2. CASE i <= Len(s)
      <4>1. i \in 1..Len(s)
        BY <1>2, <3>2
      <4>2. QED
        BY <1>3, <3>1, <4>1 DEF Has
    <3>3. CASE ~(i <= Len(s))
      BY <1>5, <3>1, <3>3 DEF Has
    <3>4. QED
      BY <3>2, <3>3
  <2>2. Has(s, e) => Has(st, e)
    BY <1>3 DEF Has
  <2>3. Has(es, e) => Has(st, e)
    BY <1>4 DEF Has
  <2>4. QED
    BY <2>1, <2>2, <2>3
<1>7. Told(st, W2)
  <2> SUFFICES ASSUME NEW i \in 1..Len(st), NEW c \in Call, st[i] = Requested(c), c \notin W2
               PROVE  \E j \in 1..Len(st) : j > i /\ st[j] = Resolved(c)
    BY DEF Told
  <2>1. CASE i <= Len(s)
    <3>1. i \in 1..Len(s) /\ s[i] = Requested(c)
      BY <1>1, <1>2, <2>1
    <3>2. CASE c \in W
      <4>1. PICK j \in 1..Len(es) : es[j] = Resolved(c)
        BY <3>2 DEF Has
      <4>2. Len(s) + j > i
        BY <1>2, <2>1
      <4>3. QED
        BY <1>4, <4>1, <4>2
    <3>3. CASE c \notin W
      <4>1. PICK j \in 1..Len(s) : j > i /\ s[j] = Resolved(c)
        BY <3>1, <3>3 DEF Told
      <4>2. QED
        BY <1>3, <4>1
    <3>4. QED
      BY <3>2, <3>3
  <2>2. CASE ~(i <= Len(s))
    <3> DEFINE k == i - Len(s)
    <3>1. k \in 1..Len(es) /\ es[k] = Requested(c) /\ i = Len(s) + k
      BY <1>5, <2>2
    <3> HIDE DEF k
    <3>2. PICK j \in 1..Len(es) : j > k /\ es[j] = Resolved(c)
      BY <3>1 DEF Told
    <3>3. Len(s) + j > i
      BY <1>2, <3>1, <3>2
    <3>4. QED
      BY <1>4, <3>2, <3>3
  <2>3. QED
    BY <2>1, <2>2
<1>8. QED
  BY <1>1, <1>6, <1>7 DEF st

(* Events about the calls that begin or cease to wait reach the history, the   *)
(* terminal and every page; an answer leaves a socket when its call is over.    *)
LEMMA EmitViews ==
  ASSUME ViewInv, OutcomesTrue, OutcomesTrue', NEW es \in Seq(Event), Emit(es), Told(es, Waiting'),
         \A c \in Waiting : c \notin Waiting' => Has(es, Resolved(c)),
         \A c \in Waiting' : c \notin Waiting => Has(es, Requested(c)),
         UNCHANGED <<open, view>>,
         \A t \in Tab : \A i \in 1..Len(toServer[t]) : toServer[t][i].call \in Waiting' =>
           \E j \in 1..Len(toServer'[t]) : toServer'[t][j].call = toServer[t][i].call
  PROVE  ViewInv'
<1> USE DEF ViewInv, ViewTypes
<1>1. Waiting \subseteq Call /\ Waiting' \subseteq Call
  BY DEF Waiting
<1>2. history' = history \o es /\ history \in Seq(Event)
  BY DEF Emit, OutcomesTrue
<1>8. Told(history', Waiting') /\ \A e : Has(history', e) <=> Has(history, e) \/ Has(es, e)
  BY <1>1, <1>2, ToldGrows DEF BusTold
<1>9. \A c \in Waiting' : ~Has(es, Resolved(c))
  <2>1. history' \in Seq(Event) /\ \A c \in Waiting' : Resolved(c) \notin ToSet(history')
    BY <1>1 DEF OutcomesTrue, Waiting
  <2>2. QED
    BY <1>8, <2>1, HasIsIn
<1>3. BusTold'
  BY <1>8 DEF BusTold
<1>4. ViewTypes'
  <2>1. \A t \in Tab : toTab[t] \o es \in Seq(Event)
    OBVIOUS
  <2>2. QED
    BY <2>1 DEF Emit
<1>5. terminal' = Waiting'
  <2>1. \A c \in Call : c \in Of(es, "approval-resolved") <=> Has(es, Resolved(c))
    <3>1. \A e \in Event : e.type = "approval-resolved" => e = Resolved(e.call)
      BY DEF Event, Requested, Resolved
    <3>2. \A c \in Call : Resolved(c).type = "approval-resolved" /\ Resolved(c).call = c
      BY DEF Resolved
    <3>3. \A e \in ToSet(es) : e \in Event
      BY DEF ToSet
    <3>4. QED
      BY <3>1, <3>2, <3>3, HasIsIn DEF Of
  <2>2. \A c \in Call : c \in Of(es, "approval-request") <=> Has(es, Requested(c))
    <3>1. \A e \in Event : e.type = "approval-request" => e = Requested(e.call)
      BY DEF Event, Requested, Resolved
    <3>2. \A c \in Call : Requested(c).type = "approval-request" /\ Requested(c).call = c
      BY DEF Requested
    <3>3. \A e \in ToSet(es) : e \in Event
      BY DEF ToSet
    <3>4. QED
      BY <3>1, <3>2, <3>3, HasIsIn DEF Of
  <2>3. Of(es, "approval-request") \subseteq Call
    <3>1. \A e \in Event : e.call \in Call
      BY DEF Event, Requested, Resolved
    <3>2. ToSet(es) \subseteq Event
      BY DEF ToSet
    <3>3. QED
      BY <3>1, <3>2 DEF Of
  <2>4. \A c \in Call : Has(es, Requested(c)) /\ ~Has(es, Resolved(c)) => c \in Waiting'
    BY DEF Told, Has
  <2>5. QED
    BY <1>1, <1>9, <2>1, <2>2, <2>3, <2>4 DEF Emit
<1>6. ASSUME NEW t \in open' PROVE PageTold(t)'
  <2>1. t \in open /\ t \in Tab /\ toTab'[t] = toTab[t] \o es /\ PageTold(t)
    BY <1>6 DEF Emit
  <2>2. Told(toTab'[t], Waiting') /\ \A e : Has(toTab'[t], e) <=> Has(toTab[t], e) \/ Has(es, e)
    <3>1. toTab[t] \in Seq(Event)
      BY <2>1
    <3>2. QED
      BY <1>1, <2>1, <3>1, ToldGrows DEF PageTold
  <2>3. \A c \in Call : Has(toTab'[t], Resolved(c)) => Has(history', Resolved(c))
    BY <1>8, <2>1, <2>2 DEF PageTold
  <2>4. \A c \in view'[t] : c \in Waiting' \/ Has(toTab'[t], Resolved(c))
    BY <2>1, <2>2 DEF PageTold
  <2>5. \A c \in Waiting' : \/ c \in view'[t] \/ Has(toTab'[t], Requested(c))
                            \/ \E i \in 1..Len(toServer'[t]) : toServer'[t][i].call = c
    <3> SUFFICES ASSUME NEW c \in Waiting', c \notin view[t], ~Has(toTab[t], Requested(c)),
                        ~Has(es, Requested(c))
                 PROVE  \E i \in 1..Len(toServer'[t]) : toServer'[t][i].call = c
      BY <2>1, <2>2
    <3>1. c \in Waiting
      OBVIOUS
    <3>2. PICK i \in 1..Len(toServer[t]) : toServer[t][i].call = c
      BY <2>1, <3>1 DEF PageTold
    <3>3. QED
      BY <2>1, <3>2
  <2>6. QED
    BY <2>2, <2>3, <2>4, <2>5 DEF PageTold
<1>7. QED
  BY <1>3, <1>4, <1>5, <1>6

(* So it is where calls are settled, one that was just asked among them.        *)
LEMMA SettleViews ==
  ASSUME ViewInv, OutcomesTrue, OutcomesTrue', NEW S \in SUBSET Call, IsFiniteSet(S), NEW a,
         NEW before \in Seq(Event), Told(before, S), Settle(S, a, before),
         UNCHANGED <<open, view>>,
         \A t \in Tab : \A i \in 1..Len(toServer[t]) : toServer[t][i].call \in Waiting' =>
           \E j \in 1..Len(toServer'[t]) : toServer'[t][j].call = toServer[t][i].call
  PROVE  ViewInv'
<1>1. PICK es \in Resolutions(S) : Emit(before \o es)
  BY DEF Settle
<1>2. Cardinality(S) \in Nat /\ es \in [1..Cardinality(S) -> {Resolved(c) : c \in S}]
  BY FS_CardinalityType DEF Resolutions
<1>3. es \in [1..Cardinality(S) -> Event]
  BY <1>2, EventsApart
<1>4. es \in Seq(Event) /\ Len(es) = Cardinality(S)
  BY <1>2, <1>3
<1>5. \A c \in S : Has(es, Resolved(c))
  BY <1>4, HasIsIn DEF Resolutions
<1>6. Told(es, Waiting')
  <2>1. \A i \in 1..Len(es) : \E c \in S : es[i] = Resolved(c)
    BY <1>2, <1>4
  <2>2. QED
    BY <2>1, EventsApart DEF Told
<1>7. /\ before \o es \in Seq(Event) /\ Told(before \o es, Waiting')
      /\ \A e : Has(before \o es, e) <=> Has(before, e) \/ Has(es, e)
  BY <1>4, <1>5, <1>6, ToldGrows
<1>8. Waiting' = Waiting \ S
  BY DEF Settle, Waiting
<1> DEFINE events == before \o es
<1>9. /\ events \in Seq(Event) /\ Emit(events) /\ Told(events, Waiting')
      /\ \A c \in Waiting : c \notin Waiting' => Has(events, Resolved(c))
  BY <1>1, <1>5, <1>7, <1>8
<1> HIDE DEF events
<1>10. QED
  BY <1>8, <1>9, EmitViews

LEMMA QuietViews ==
  ASSUME ViewInv, UNCHANGED <<history, toTab, terminal, open, view, Waiting>>,
         \A t \in Tab : \A i \in 1..Len(toServer[t]) : toServer[t][i].call \in Waiting' =>
           \E j \in 1..Len(toServer'[t]) : toServer'[t][j].call = toServer[t][i].call
  PROVE  ViewInv'
<1> USE DEF ViewInv
<1>1. BusTold' /\ ViewTypes'
  BY DEF BusTold, ViewTypes
<1>2. ASSUME NEW t \in open PROVE PageTold(t)'
  <2>1. t \in Tab /\ PageTold(t)
    BY DEF ViewTypes
  <2>2. \A c \in Waiting' : \/ c \in view'[t] \/ Has(toTab'[t], Requested(c))
                            \/ \E i \in 1..Len(toServer'[t]) : toServer'[t][i].call = c
    BY <2>1 DEF PageTold
  <2>3. QED
    BY <2>1, <2>2 DEF PageTold
<1>3. QED
  BY <1>1, <1>2

LEMMA EmptyTold == <<>> \in Seq(Event) /\ \A W : Told(<<>>, W)
BY DEF Told

LEMMA RequestTold ==
  ASSUME NEW c \in Call
  PROVE  /\ <<Requested(c)>> \in Seq(Event) /\ Has(<<Requested(c)>>, Requested(c))
         /\ \A W : c \in W => Told(<<Requested(c)>>, W)
BY EventsApart DEF Told, Has

LEMMA ResolveViews ==
  ASSUME ViewInv, WaitingKept, OutcomesTrue, OutcomesTrue', NEW c \in Call, NEW a, Resolve(c, a),
         UNCHANGED <<open, view>>,
         \A t \in Tab : \A i \in 1..Len(toServer[t]) :
           toServer[t][i].call \in Waiting /\ toServer[t][i].call # c =>
             \E j \in 1..Len(toServer'[t]) : toServer'[t][j].call = toServer[t][i].call
  PROVE  ViewInv'
<1>1. CASE c \in Waiting
  <2>1. Settle({c}, a, <<>>)
    BY <1>1 DEF Resolve, WaitingKept, Waiting
  <2>2. Waiting' = Waiting \ {c}
    BY <2>1 DEF Settle, Waiting
  <2>3. {c} \in SUBSET Call /\ IsFiniteSet({c})
    BY FS_Singleton
  <2>4. QED
    BY <2>1, <2>2, <2>3, EmptyTold, SettleViews
<1>2. CASE c \notin Waiting
  <2>1. UNCHANGED <<history, toTab, terminal, Waiting>>
    BY <1>2 DEF Resolve, Waiting
  <2>2. QED
    BY <1>2, <2>1, QuietViews
<1>3. QED
  BY <1>1, <1>2

PromptsInv == StreakInv /\ WaitingKept /\ ViewInv


LEMMA PageSteps ==
  ASSUME PromptsInv, NEW t \in Tab,
         Connect(t) \/ Disconnect(t) \/ TabReceives(t) \/ \E c \in Call, a \in Answer : AnswerInTab(t, c, a)
  PROVE  ViewInv'
<1> USE DEF PromptsInv, ViewInv
<1>1. history' = history /\ terminal' = terminal /\ Waiting' = Waiting /\ Waiting \subseteq Call /\ history \in Seq(Event)
  BY DEF Connect, Disconnect, TabReceives, AnswerInTab, bus, Waiting, StreakInv, OutcomesTrue
<1>2. BusTold' /\ terminal' = Waiting'
  BY <1>1 DEF BusTold
<1>3. ASSUME NEW u \in open, u # t PROVE PageTold(u)'
  <2>1. view'[u] = view[u] /\ toTab'[u] = toTab[u] /\ toServer'[u] = toServer[u] /\ PageTold(u)
    BY <1>3 DEF Connect, Disconnect, TabReceives, AnswerInTab, bus, ViewTypes, StreakInv, ConsentInv
  <2>2. QED
    BY <1>1, <2>1 DEF PageTold
<1>4. CASE Connect(t)
  <2>1. open' = open \cup {t} /\ view' = [view EXCEPT ![t] = {}] /\ toTab' = [toTab EXCEPT ![t] = Replay]
    BY <1>4 DEF Connect
  <2>2. KeptWell(Replay, Len(history))
    BY <1>1, ReplayKeeps
  <2>3. ViewTypes'
    BY <2>1, <2>2 DEF ViewTypes, KeptWell
  <2>4. view'[t] = {} /\ toTab'[t] = Replay
    BY <2>1 DEF ViewTypes
  <2>5. Told(Replay, Waiting)
    <3> SUFFICES ASSUME NEW k \in 1..Len(Replay), NEW c \in Call, Replay[k] = Requested(c), c \notin Waiting
                 PROVE  \E l \in 1..Len(Replay) : l > k /\ Replay[l] = Resolved(c)
      BY DEF Told
    <3>1. PICK i \in 1..Len(history) :
            /\ Replay[k] = history[i]
            /\ \A j \in 1..Len(history) : j > i /\ Replayed(history[j])
                 => \E l \in 1..Len(Replay) : l > k /\ Replay[l] = history[j]
      BY <2>2 DEF KeptWell
    <3>2. PICK j \in 1..Len(history) : j > i /\ history[j] = Resolved(c)
      BY <3>1 DEF BusTold, Told
    <3>3. Replayed(history[j])
      BY <3>2 DEF Replayed, Resolved
    <3>4. QED
      BY <3>1, <3>2, <3>3
  <2>6. \A c \in Call : Has(Replay, Resolved(c)) => Has(history, Resolved(c))
    BY <2>2 DEF KeptWell, Has
  <2>7. \A c \in Waiting : Has(Replay, Requested(c))
    <3> SUFFICES ASSUME NEW c \in Waiting PROVE Has(Replay, Requested(c))
      OBVIOUS
    <3>1. PICK i \in 1..Len(history) : history[i] = Requested(c)
      BY DEF BusTold, Has
    <3>2. Replayed(history[i])
      BY <3>1 DEF Replayed, Requested, WaitingKept
    <3>3. QED
      BY <2>2, <3>1, <3>2 DEF KeptWell
  <2>8. PageTold(t)'
    BY <1>1, <2>4, <2>5, <2>6, <2>7 DEF PageTold
  <2>9. QED
    BY <1>2, <1>3, <2>1, <2>3, <2>8
<1>5. CASE Disconnect(t)
  <2>1. open' = open \ {t} /\ view' = view /\ toTab' = [toTab EXCEPT ![t] = <<>>]
    BY <1>5 DEF Disconnect
  <2>2. ViewTypes'
    BY <2>1, EmptyTold DEF ViewTypes
  <2>3. QED
    BY <1>2, <1>3, <2>1, <2>2
<1>6. CASE TabReceives(t)
  <2> DEFINE e == Head(toTab[t])
  <2>1. /\ toTab[t] # <<>> /\ open' = open /\ toServer' = toServer
        /\ toTab' = [toTab EXCEPT ![t] = Tail(@)] /\ view' = [view EXCEPT ![t] = Shown(@, e)]
    BY <1>6 DEF TabReceives
  <2>2. /\ toTab[t] \in Seq(Event) /\ Len(toTab[t]) \in Nat \ {0} /\ e = toTab[t][1] /\ e \in Event
        /\ toTab'[t] \in Seq(Event) /\ Len(toTab'[t]) = Len(toTab[t]) - 1
        /\ \A i \in 1..Len(toTab'[t]) : i + 1 \in 1..Len(toTab[t]) /\ toTab'[t][i] = toTab[t][i + 1]
    BY <2>1 DEF ViewTypes
  <2>3. \A i \in 2..Len(toTab[t]) : i - 1 \in 1..Len(toTab'[t]) /\ toTab'[t][i - 1] = toTab[t][i]
    BY <2>2
  <2>4. view'[t] = Shown(view[t], e) /\ view[t] \subseteq Call
    BY <2>1 DEF ViewTypes
  <2> HIDE DEF e
  <2>5. PICK c \in Call : e = Requested(c) \/ e = Resolved(c)
    BY <2>2 DEF Event
  <2>6. view'[t] = IF e = Requested(c) THEN view[t] \cup {c} ELSE view[t] \ {c}
    BY <2>4, <2>5 DEF Shown, Requested, Resolved
  <2>7. ViewTypes'
    <3>1. view'[t] \in SUBSET Call
      BY <2>4, <2>6
    <3>2. QED
      BY <2>1, <2>2, <3>1 DEF ViewTypes
  <2>8. \A f : Has(toTab[t], f) => f = e \/ Has(toTab'[t], f)
    <3> SUFFICES ASSUME NEW f, NEW i \in 1..Len(toTab[t]), toTab[t][i] = f, f # e
                 PROVE  \E j \in 1..Len(toTab'[t]) : toTab'[t][j] = f
      BY DEF Has
    <3>1. i \in 2..Len(toTab[t])
      BY <2>2
    <3>2. QED
      BY <2>3, <3>1
  <2>9. \A f : Has(toTab'[t], f) => Has(toTab[t], f)
    BY <2>2 DEF Has
  <2>10. ASSUME t \in open PROVE PageTold(t)'
    <3>1. PageTold(t)
      BY <2>10
    <3>2. Told(toTab'[t], Waiting)
      <4> SUFFICES ASSUME NEW i \in 1..Len(toTab'[t]), NEW d \in Call, toTab'[t][i] = Requested(d), d \notin Waiting
                   PROVE  \E j \in 1..Len(toTab'[t]) : j > i /\ toTab'[t][j] = Resolved(d)
        BY DEF Told
      <4>1. PICK j \in 1..Len(toTab[t]) : j > i + 1 /\ toTab[t][j] = Resolved(d)
        BY <2>2, <3>1 DEF PageTold, Told
      <4>2. j \in 2..Len(toTab[t]) /\ j - 1 > i
        BY <2>2, <4>1
      <4>3. QED
        BY <2>3, <4>1, <4>2
    <3>3. \A d \in Call : Has(toTab'[t], Resolved(d)) => Has(history, Resolved(d))
      BY <2>9, <3>1 DEF PageTold
    <3>4. ASSUME NEW d \in view'[t], d \notin Waiting PROVE Has(toTab'[t], Resolved(d))
      <4>1. CASE e = Requested(c) /\ d = c
        <5>0. 1 \in 1..Len(toTab[t]) /\ toTab[t][1] = Requested(c) /\ c \notin Waiting
          BY <2>2, <3>4, <4>1
        <5>1. PICK j \in 1..Len(toTab[t]) : j > 1 /\ toTab[t][j] = Resolved(c)
          BY <3>1, <5>0 DEF PageTold, Told
        <5>2. j \in 2..Len(toTab[t])
          BY <2>2, <5>1
        <5>3. QED
          BY <2>3, <4>1, <5>1, <5>2 DEF Has
      <4>2. CASE ~(e = Requested(c) /\ d = c)
        <5>1. d \in view[t] /\ d \in Call /\ e # Resolved(d)
          BY <2>4, <2>5, <2>6, <3>4, <4>2, EventsApart
        <5>2. QED
          BY <2>8, <3>1, <3>4, <5>1 DEF PageTold
      <4>3. QED
        BY <4>1, <4>2
    <3>5. ASSUME NEW d \in Waiting
          PROVE  \/ d \in view'[t] \/ Has(toTab'[t], Requested(d))
                 \/ \E i \in 1..Len(toServer[t]) : toServer[t][i].call = d
      <4>1. e # Resolved(d)
        <5>1. ~Has(history, Resolved(d))
          <6>1. Resolved(d) \notin ToSet(history)
            BY <1>1 DEF StreakInv, OutcomesTrue, Waiting
          <6>2. QED
            BY <1>1, <6>1, HasIsIn
        <5>2. Has(toTab[t], e) /\ d \in Call
          BY <1>1, <2>2 DEF Has
        <5>3. QED
          BY <3>1, <5>1, <5>2 DEF PageTold
      <4>2. d \in view[t] => d \in view'[t]
        BY <2>5, <2>6, <4>1
      <4>3. e = Requested(d) => d \in view'[t]
        BY <1>1, <2>5, <2>6, EventsApart
      <4>4. QED
        BY <2>8, <3>1, <4>2, <4>3 DEF PageTold
    <3>6. QED
      BY <1>1, <2>1, <3>2, <3>3, <3>4, <3>5 DEF PageTold
  <2>11. QED
    BY <1>2, <1>3, <2>1, <2>7, <2>10
<1>7. ASSUME NEW c \in Call, NEW a \in Answer, AnswerInTab(t, c, a) PROVE ViewInv'
  <2> DEFINE m == [call |-> c, answer |-> a]
  <2>1. /\ open' = open /\ toTab' = toTab /\ view' = [view EXCEPT ![t] = @ \ {c}]
        /\ toServer' = [toServer EXCEPT ![t] = Append(@, m)] /\ t \in open
    BY <1>7 DEF AnswerInTab
  <2>2. ViewTypes'
    BY <2>1 DEF ViewTypes
  <2>3. m.call = c /\ m \in Message
    BY DEF Message
  <2> HIDE DEF m
  <2>4. /\ Len(toServer'[t]) = Len(toServer[t]) + 1 /\ toServer'[t][Len(toServer[t]) + 1] = m
        /\ \A i \in 1..Len(toServer[t]) : toServer'[t][i] = toServer[t][i]
        /\ Len(toServer[t]) \in Nat
    BY <2>1, <2>3 DEF StreakInv, ConsentInv
  <2>5. \A d \in Waiting : \/ d \in view'[t] \/ Has(toTab'[t], Requested(d))
                           \/ \E i \in 1..Len(toServer'[t]) : toServer'[t][i].call = d
    <3> SUFFICES ASSUME NEW d \in Waiting, d \notin view'[t], ~Has(toTab'[t], Requested(d))
                 PROVE  \E i \in 1..Len(toServer'[t]) : toServer'[t][i].call = d
      OBVIOUS
    <3>1. CASE d = c
      <4>1. Len(toServer[t]) + 1 \in 1..Len(toServer'[t])
        BY <2>4
      <4>2. QED
        BY <2>3, <2>4, <3>1, <4>1
    <3>2. CASE d # c
      <4>1. d \notin view[t] /\ ~Has(toTab[t], Requested(d))
        BY <2>1, <3>2 DEF ViewTypes
      <4>2. PICK i \in 1..Len(toServer[t]) : toServer[t][i].call = d
        BY <2>1, <4>1 DEF PageTold
      <4>3. i \in 1..Len(toServer'[t]) /\ toServer'[t][i] = toServer[t][i]
        BY <2>4
      <4>4. QED
        BY <4>2, <4>3
    <3>3. QED
      BY <3>1, <3>2
  <2>6. view'[t] \subseteq view[t]
    BY <2>1 DEF ViewTypes
  <2>7. PageTold(t)'
    BY <1>1, <2>1, <2>5, <2>6 DEF PageTold
  <2>8. QED
    BY <1>2, <1>3, <2>1, <2>2, <2>7
<1>8. QED
  BY <1>4, <1>5, <1>6, <1>7

LEMMA PromptsNext ==
  ASSUME IsFiniteSet(Call), PromptsInv, [Next]_vars
  PROVE  PromptsInv'
<1>1. StreakInv' /\ WaitingKept'
  BY StreakNext, WaitingNext DEF PromptsInv, StreakInv
<1> SUFFICES ViewInv'
  BY <1>1 DEF PromptsInv
<1>2. ViewInv /\ WaitingKept /\ OutcomesTrue /\ OutcomesTrue' /\ StatusType /\ toServer \in [Tab -> Seq(Message)]
  BY <1>1 DEF PromptsInv, StreakInv, ConsentInv
<1>3. ASSUME NEW c \in Call, CallTool(c) PROVE ViewInv'
  <2>1. /\ status[c] = "new" /\ status' = [status EXCEPT ![c] = Unasked(c)] /\ UNCHANGED <<open, view, toServer>>
    BY <1>3 DEF CallTool
  <2>2. CASE Unasked(c) # "waiting"
    <3>1. Waiting' = Waiting /\ UNCHANGED <<history, toTab, terminal>>
      BY <1>2, <1>3, <2>1, <2>2 DEF CallTool, Waiting, StatusType
    <3>2. QED
      BY <1>2, <2>1, <3>1, QuietViews
  <2>3. CASE Unasked(c) = "waiting"
    <3>1. Waiting' = Waiting \cup {c} /\ Emit(<<Requested(c)>>)
      BY <1>2, <1>3, <2>1, <2>3 DEF CallTool, Waiting, StatusType
    <3> DEFINE es == <<Requested(c)>>
    <3>2. es \in Seq(Event) /\ Has(es, Requested(c)) /\ Told(es, Waiting') /\ Emit(es)
      BY <3>1, RequestTold
    <3> HIDE DEF es
    <3>3. QED
      BY <1>2, <2>1, <3>1, <3>2, EmitViews
  <2>4. QED
    BY <2>2, <2>3
<1>4. ASSUME NEW c \in Call, CallToolAborted(c) PROVE ViewInv'
  <2> DEFINE es == <<Requested(c)>>
  <2>1. Settle({c}, "no", es) /\ UNCHANGED <<open, view, toServer>>
    BY <1>4 DEF CallToolAborted
  <2>2. es \in Seq(Event) /\ Told(es, {c})
    BY RequestTold
  <2>3. {c} \in SUBSET Call /\ IsFiniteSet({c})
    BY FS_Singleton
  <2> HIDE DEF es
  <2>4. QED
    BY <1>2, <2>1, <2>2, <2>3, SettleViews
<1>5. ASSUME NEW c \in Call, Abort(c) PROVE ViewInv'
  <2>1. Settle({c}, "no", <<>>) /\ UNCHANGED <<open, view, toServer>>
    BY <1>5 DEF Abort
  <2>2. {c} \in SUBSET Call /\ IsFiniteSet({c})
    BY FS_Singleton
  <2>3. QED
    BY <1>2, <2>1, <2>2, EmptyTold, SettleViews
<1>6. ASSUME NEW c \in Call, NEW a \in Answer, AnswerInTerminal(c, a) PROVE ViewInv'
  <2>1. Resolve(c, a) /\ UNCHANGED <<open, view, toServer>>
    BY <1>6 DEF AnswerInTerminal
  <2>2. QED
    BY <1>2, <2>1, ResolveViews
<1>7. ASSUME NEW t \in Tab, ServerReceives(t) PROVE ViewInv'
  <2> DEFINE m == Head(toServer[t])
  <2>1. /\ toServer[t] # <<>> /\ toServer' = [toServer EXCEPT ![t] = Tail(@)]
        /\ Resolve(m.call, m.answer) /\ UNCHANGED <<open, view>>
    BY <1>7 DEF ServerReceives
  <2>2. m \in Message /\ m = toServer[t][1] /\ m.call \in Call /\ Len(toServer[t]) \in Nat
    <3>1. toServer[t] \in Seq(Message) /\ toServer[t] # <<>>
      BY <1>2, <2>1
    <3>2. m \in Message /\ m = toServer[t][1] /\ Len(toServer[t]) \in Nat
      BY <3>1
    <3>3. QED
      BY <3>2 DEF Message
  <2> HIDE DEF m
  <2>3. ASSUME NEW u \in Tab, NEW i \in 1..Len(toServer[u]), toServer[u][i].call # m.call
        PROVE  \E j \in 1..Len(toServer'[u]) : toServer'[u][j].call = toServer[u][i].call
    <3>1. CASE u # t
      BY <1>2, <2>1, <3>1
    <3>2. CASE u = t
      <4>1. i # 1
        BY <2>2, <2>3, <3>2
      <4>2. i - 1 \in 1..Len(toServer'[t]) /\ toServer'[t][i - 1] = toServer[t][i]
        BY <1>2, <2>1, <3>2, <4>1
      <4>3. QED
        BY <3>2, <4>2
    <3>3. QED
      BY <3>1, <3>2
  <2>4. QED
    BY <1>2, <2>1, <2>2, <2>3, ResolveViews
<1>8. CASE Stop
  <2>1. Settle(pending \cap Waiting, "no", <<>>) /\ UNCHANGED <<open, view, toServer>>
    BY <1>8 DEF Stop
  <2>2. pending \cap Waiting \in SUBSET Call /\ IsFiniteSet(pending \cap Waiting)
    BY FS_Subset DEF Waiting
  <2>3. QED
    BY <1>2, <2>1, <2>2, EmptyTold, SettleViews
<1>9. CASE EndRun \/ UNCHANGED vars
  <2>1. UNCHANGED <<history, toTab, terminal, open, view, Waiting, toServer>>
    BY <1>9 DEF EndRun, vars, bus, pages, Waiting
  <2>2. QED
    BY <1>2, <2>1, QuietViews
<1>10. QED
  BY <1>3, <1>4, <1>5, <1>6, <1>7, <1>8, <1>9, PageSteps DEF Next

LEMMA PromptsInit == Init => PromptsInv
<1> SUFFICES ASSUME Init PROVE PromptsInv
  OBVIOUS
<1>1. StreakInv /\ WaitingKept
  BY StreakInit DEF Init, WaitingKept, Waiting
<1>2. Waiting = {}
  BY DEF Init, Waiting
<1>3. ViewTypes /\ BusTold /\ open = {}
  BY <1>2, EmptyTold DEF Init, ViewTypes, BusTold
<1>4. QED
  BY <1>1, <1>2, <1>3 DEF Init, PromptsInv, ViewInv

LEMMA PromptsInvariant == ASSUME IsFiniteSet(Call) PROVE Spec => []PromptsInv
<1>1. PromptsInv /\ [Next]_vars => PromptsInv'
  BY PromptsNext
<1>2. QED
  BY <1>1, PromptsInit, PTL DEF Spec

(* A call that waits for a person is in front of one, for any finite number of  *)
(* calls and any tabs: every page connected shows it, is about to be sent it,   *)
(* or has just answered it (replay, emitEvent).                                *)
THEOREM PromptStays == ASSUME IsFiniteSet(Call) PROVE Spec => []PromptNotLost
<1>1. PromptsInv => PromptNotLost
  <2> SUFFICES ASSUME PromptsInv, NEW t \in open, NEW c \in Waiting
               PROVE  \/ c \in view[t] \/ Requested(c) \in ToSet(toTab[t])
                      \/ \E m \in ToSet(toServer[t]) : m.call = c
    BY DEF PromptNotLost
  <2>1. PageTold(t) /\ toTab[t] \in Seq(Event) /\ toServer[t] \in Seq(Message)
    BY DEF PromptsInv, ViewInv, ViewTypes, StreakInv, ConsentInv
  <2>2. \A i \in 1..Len(toServer[t]) : toServer[t][i] \in ToSet(toServer[t])
    BY <2>1 DEF ToSet
  <2>3. QED
    BY <2>1, <2>2, HasIsIn DEF PageTold
<1>2. QED
  BY <1>1, PromptsInvariant, PTL

(* Nobody is asked about a call that was decided: a page with nothing under way  *)
(* shows exactly the calls that wait, and the terminal always does (replay,     *)
(* emitEvent, resolveApproval).                                                *)
THEOREM ViewsAgree == ASSUME IsFiniteSet(Call) PROVE Spec => []QuietViewsAgree
<1>1. PromptsInv => QuietViewsAgree
  <2> SUFFICES ASSUME PromptsInv, NEW t \in open, toTab[t] = <<>>, toServer[t] = <<>>
               PROVE  view[t] = Waiting
    BY DEF PromptsInv, ViewInv, QuietViewsAgree
  <2>1. PageTold(t) /\ Len(toTab[t]) = 0 /\ Len(toServer[t]) = 0
    BY DEF PromptsInv, ViewInv
  <2>2. (\A e : ~Has(toTab[t], e)) /\ \A i \in 1..Len(toServer[t]) : FALSE
    BY <2>1 DEF Has
  <2>3. QED
    BY <2>1, <2>2 DEF PageTold
<1>2. QED
  BY <1>1, PromptsInvariant, PTL

=============================================================================
