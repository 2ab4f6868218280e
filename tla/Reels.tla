------------------------------- MODULE Reels -------------------------------
(***************************************************************************)
(* The ideas the user's reels gave (reel/*.ts): `reel` has a model read a   *)
(* video or a text, another score what was read, judges it by thresholds    *)
(* and remembers it; `ideas decide` and `ideas purge` are the user's.  Each *)
(* is a process of its own on one SQLite table, so that another may run     *)
(* between any two statements and during any await.                        *)
(***************************************************************************)
EXTENDS Integers, FiniteSets

CONSTANTS Command, Decider,   \* the processes of `reel` and of `ideas decide`
          Source,             \* the keys of what they are given: a link's code, a content's hash
          Evaluations         \* what the models may say: [score, cited, words, addressed]

VARIABLES
  step,       \* each `reel`: where it is
  key,        \* the source it works on
  evidence,   \* the commands that have a directory of frames and have yet to remove it
  answer,     \* what it has told the user
  ideas,      \* the table
  lastId,     \* the last id the table gave
  deciding,   \* what each `decide` has read and is about to write: [id, word], or nothing
  decided     \* every decision ever recorded

vars == <<step, key, evidence, answer, ideas, lastId, deciding, decided>>
table == <<ideas, lastId, decided>>

Given == {"link", "link and text", "text", "video"}
Steps == {"free", "probing", "extracting", "reading", "scoring", "over", "dead"}
Row == [id : Nat, source : Source, verdict : {"implement", "ask", "skip", "refuse"},
        decision : {"pending", "yes", "no"}]

TypeOK ==
  /\ step \in [Command -> Steps] /\ key \in [Command -> Source] /\ evidence \subseteq Command
  /\ answer \in [Command -> {"nothing", "failed", "send it", "seen"} \cup {r.verdict : r \in ideas}]
  /\ ideas \subseteq Row /\ lastId \in Nat

-----------------------------------------------------------------------------
(* The verdict (judge.ts). *)

Forged == -1      \* what is not a number, or a negative one
Needed == [value |-> 4, relevance |-> 3, feasibility |-> 3, risk |-> 2]
AskRisk == 3
RiskLimit == 5

\* clamp: what is forged or missing is the worst.
Clamp(n, worst) == IF n = Forged THEN worst ELSE n

\* parseScores and judge: a score without a citation is at most 2; risk needs none.
Counted(e) ==
  [k \in DOMAIN Needed |->
     IF k = "risk" THEN Clamp(e.score[k], RiskLimit)
     ELSE LET n == Clamp(e.score[k], 0) IN IF k \in e.cited \/ n <= 2 THEN n ELSE 2]

Meets(s, k, slack) == IF k = "risk" THEN s[k] <= Needed[k] + slack ELSE s[k] >= Needed[k] - slack

Judge(e) ==
  LET s == Counted(e)
      failing == {k \in DOMAIN Needed : ~Meets(s, k, 0)}
  IN IF e.words = "defended" THEN "ask"         \* an attack tool, in a defensive sense
     ELSE IF e.words = "refused" \/ s["risk"] = RiskLimit THEN "refuse"
     ELSE IF e.addressed THEN IF Meets(s, "value", 0) THEN "ask" ELSE "skip"
     ELSE IF failing = {} THEN "implement"
     ELSE IF /\ Cardinality(failing) <= 2 /\ s["risk"] <= AskRisk
             /\ \A k \in failing : Meets(s, k, 1) THEN "ask" ELSE "skip"

Verdicts == {Judge(e) : e \in Evaluations}

-----------------------------------------------------------------------------
(* agent-loop reel. *)

Init ==
  /\ step = [c \in Command |-> "free"] /\ key \in [Command -> Source] /\ evidence = {}
  /\ answer = [c \in Command |-> "nothing"]
  /\ ideas = {} /\ lastId = 0 /\ decided = {}
  /\ deciding = [d \in Decider |-> {}]

Known(s) == \E r \in ideas : r.source = s
Goes(c, to) == step' = [step EXCEPT ![c] = to] /\ UNCHANGED <<key, answer>>

\* Every path out of the command removes its frames, or tries to, once.
Tells(c, what) ==
  /\ step' = [step EXCEPT ![c] = "over"] /\ answer' = [answer EXCEPT ![c] = what]
  /\ evidence' = evidence \ {c} /\ UNCHANGED key
Fails(c) == Tells(c, "failed")

\* A source that is remembered is told from the table, before a model is asked.
ReadsUnlessKnown(c) == IF Known(key[c]) THEN Tells(c, "seen") ELSE Goes(c, "reading") /\ UNCHANGED evidence

\* A link is never opened: without a text the user is asked for one.
Begin(c, given) ==
  /\ step[c] = "free"
  /\ \/ Fails(c)
     \/ given = "video" /\ Goes(c, "probing") /\ UNCHANGED evidence
     \/ given = "link" /\ Tells(c, IF Known(key[c]) THEN "seen" ELSE "send it")
     \/ given \in {"text", "link and text"} /\ ReadsUnlessKnown(c)
  /\ UNCHANGED <<table, deciding>>

\* ffprobe has answered, or was killed; the frames' directory is made before they are.
Probed(c) ==
  /\ step[c] = "probing"
  /\ Fails(c) \/ (Goes(c, "extracting") /\ evidence' = evidence \cup {c})
  /\ UNCHANGED <<table, deciding>>

Extracted(c) ==
  /\ step[c] = "extracting"
  /\ Fails(c) \/ ReadsUnlessKnown(c)
  /\ UNCHANGED <<table, deciding>>

\* The reader's answer; the frames go before it is looked at.
Read(c) ==
  /\ step[c] = "reading"
  /\ \/ Fails(c)
     \/ Goes(c, "scoring") /\ evidence' = evidence \ {c}
  /\ UNCHANGED <<table, deciding>>

\* AUTOINCREMENT: never the id of a row that was purged.
NextId == lastId + 1

\* add: nothing that is remembered is overwritten.
Add(s, verdict) ==
  IF Known(s) THEN UNCHANGED <<ideas, lastId>>
  ELSE /\ ideas' = ideas \cup {[id |-> NextId, source |-> s, verdict |-> verdict, decision |-> "pending"]}
       /\ lastId' = NextId

\* The scorer's answer, judged and remembered in one turn.
Scored(c) ==
  /\ step[c] = "scoring"
  /\ \/ Fails(c) /\ UNCHANGED <<ideas, lastId>>
     \/ \E v \in Verdicts : Add(key[c], v) /\ Tells(c, v)
  /\ UNCHANGED <<decided, deciding>>

Dies(c) ==
  /\ step[c] \notin {"free", "over", "dead"} /\ Goes(c, "dead")
  /\ UNCHANGED <<evidence, table, deciding>>

-----------------------------------------------------------------------------
(* agent-loop ideas. *)

\* decide looks the row up: what the program refused cannot be approved.
DecideReads(d, word) ==
  /\ deciding[d] = {}
  /\ \E r \in ideas : /\ ~(word = "yes" /\ r.verdict = "refuse")
                      /\ deciding' = [deciding EXCEPT ![d] = {[id |-> r.id, word |-> word]}]
  /\ UNCHANGED <<step, key, evidence, answer, table>>

DecidesOf(d, hit) ==
  /\ ideas' = (ideas \ hit) \cup {[r EXCEPT !.decision = w.word] : r \in hit, w \in deciding[d]}
  /\ decided' = decided \cup {[id |-> r.id, word |-> w.word] : r \in hit, w \in deciding[d]}
  /\ deciding' = [deciding EXCEPT ![d] = {}]
  /\ UNCHANGED <<step, key, evidence, answer, lastId>>

\* mutant: the row was seen to be there, so it is updated
DecideOverwrites(d) == \E w \in deciding[d] : DecidesOf(d, {r \in ideas : r.id = w.id})

\* UPDATE ... WHERE id = ? AND decision = 'pending'
DecideWrites(d) == \E w \in deciding[d] : DecidesOf(d, {r \in ideas : r.id = w.id /\ r.decision = "pending"})

\* Any of the rows may be the old ones.
Purge ==
  /\ \E old \in SUBSET ideas : old # {} /\ ideas' = ideas \ old
  /\ UNCHANGED <<step, key, evidence, answer, lastId, deciding, decided>>

Next ==
  \/ \E c \in Command : \/ (\E given \in Given : Begin(c, given)) \/ Probed(c) \/ Extracted(c)
                        \/ Read(c) \/ Scored(c) \/ Dies(c)
  \/ \E d \in Decider : (\E word \in {"yes", "no"} : DecideReads(d, word)) \/ DecideWrites(d)
  \/ Purge

Spec == Init /\ [][Next]_vars

-----------------------------------------------------------------------------

\* The models' words being the same, no score that is forged, missing, uncited or simply worse
\* gets a better verdict.
Rank == [refuse |-> 0, skip |-> 1, ask |-> 2, implement |-> 3]
Lowered(e, k) ==
  IF k = "risk" THEN [e EXCEPT !.score[k] = IF @ \in 0..4 THEN @ + 1 ELSE @]
                ELSE [e EXCEPT !.score[k] = IF @ \in 1..5 THEN @ - 1 ELSE @]
Worse(e) == UNION {{Lowered(e, k), [e EXCEPT !.score[k] = Forged], [e EXCEPT !.cited = @ \ {k}]} :
                     k \in DOMAIN Needed}
Earned == \A e \in Evaluations : \A f \in Worse(e) : Rank[Judge(f)] <= Rank[Judge(e)]

(* A verdict is earned by its scores, and what the program refused is never     *)
(* approved, though the row may be purged and others made between a decision's   *)
(* look and its write; a decision stands, a source has one row, and a command     *)
(* that ended has removed its frames, or tried to (judge.ts, ideas.ts,           *)
(* ideas-command.ts, reel-command.ts).                                          *)
IdeasKept ==
  /\ (lastId = 0 /\ \A c \in Command : step[c] = "free") => Earned
  /\ \A r \in ideas : /\ r.decision = "yes" => r.verdict # "refuse"
                      /\ r.decision # "pending" => [id |-> r.id, word |-> r.decision] \in decided
  /\ \A d, e \in decided : d.id = e.id => d = e
  /\ \A r, q \in ideas : r.source = q.source \/ r.id = q.id => r = q
  /\ \A c \in evidence : step[c] \notin {"free", "over"}

=============================================================================
