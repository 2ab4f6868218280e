--------------------------- MODULE RecordsProofs ---------------------------
(***************************************************************************)
(* What the program shows and keeps, for any values of the constants.  The *)
(* ideas: a decision stands because ids are given once, and making one     *)
(* score worse makes no verdict better.  The prompts: the one shown is the *)
(* oldest that waits, and a reason is typed for it.  The notices: of each  *)
(* message there is one entry, whose count is how often it happened.  The  *)
(* history: every event is kept or counted.                                *)
(***************************************************************************)
EXTENDS MCRecords, SequencesExt, SequenceTheorems, FiniteSetTheorems, WellFoundedInduction, TLAPS

-----------------------------------------------------------------------------
(* Sequences. *)

(* A sequence without its kth element.                                         *)
LEMMA RemoveAtProperties ==
  ASSUME NEW X, NEW s \in Seq(X), NEW k \in 1..Len(s)
  PROVE  /\ RemoveAt(s, k) \in Seq(X) /\ Len(RemoveAt(s, k)) = Len(s) - 1
         /\ \A i \in 1..(Len(s) - 1) : RemoveAt(s, k)[i] = IF i < k THEN s[i] ELSE s[i + 1]
<1> DEFINE front == SubSeq(s, 1, k - 1)
           back == SubSeq(s, k + 1, Len(s))
           left == front \o back
<1>1. RemoveAt(s, k) = left
  BY DEF RemoveAt
<1>2. /\ front \in Seq(X) /\ Len(front) = k - 1
      /\ \A i \in 1..(k - 1) : front[i] = s[i]
  BY SubSeqProperties
<1>3. /\ back \in Seq(X) /\ Len(back) = Len(s) - k
      /\ \A i \in 1..(Len(s) - k) : back[i] = s[k + i]
  <2>1. \A i \in (k + 1)..Len(s) : s[i] \in X
    OBVIOUS
  <2>2. k + 1 \in Int /\ Len(s) \in Int /\ Len(s) >= k
    OBVIOUS
  <2>3. \A i \in 1..(Len(s) - (k + 1) + 1) : back[i] = s[(k + 1) + i - 1]
    BY <2>1, <2>2, SubSeqProperties
  <2>4. back \in Seq(X) /\ Len(back) = IF k + 1 <= Len(s) THEN Len(s) - (k + 1) + 1 ELSE 0
    BY <2>1, <2>2, SubSeqProperties
  <2> HIDE DEF back
  <2>5. ASSUME NEW i \in 1..(Len(s) - k)
        PROVE  back[i] = s[k + i]
    <3>1. i \in 1..(Len(s) - (k + 1) + 1) /\ (k + 1) + i - 1 = k + i
      BY <2>2
    <3>2. QED
      BY <2>3, <3>1
  <2>6. Len(back) = Len(s) - k
    BY <2>2, <2>4
  <2>7. QED
    BY <2>4, <2>5, <2>6
<1> HIDE DEF front, back
<1>4. /\ left \in Seq(X) /\ Len(left) = Len(front) + Len(back)
      /\ \A i \in 1..(Len(front) + Len(back)) :
           left[i] = IF i <= Len(front) THEN front[i] ELSE back[i - Len(front)]
  BY <1>2, <1>3, ConcatProperties
<1> HIDE DEF left
<1>5. Len(left) = Len(s) - 1
  BY <1>2, <1>3, <1>4
<1>6. ASSUME NEW i \in 1..(Len(s) - 1)
      PROVE  left[i] = IF i < k THEN s[i] ELSE s[i + 1]
  <2>1. left[i] = IF i <= k - 1 THEN front[i] ELSE back[i - (k - 1)]
    BY <1>2, <1>3, <1>4
  <2>2. CASE i < k
    BY <1>2, <2>1, <2>2
  <2>3. CASE ~(i < k)
    <3>1. i - (k - 1) \in 1..(Len(s) - k) /\ k + (i - (k - 1)) = i + 1
      BY <2>3
    <3>2. QED
      BY <1>3, <2>1, <2>3, <3>1
  <2>4. QED
    BY <2>2, <2>3
<1>7. QED
  BY <1>1, <1>4, <1>5, <1>6

-----------------------------------------------------------------------------
(* Naturals. *)

(* A set of naturals has a least element.                                      *)
LEMMA LessIsWellFounded ==
  \E R : IsWellFoundedOn(R, Nat) /\ \A x, y \in Nat : x < y => <<x, y>> \in R
<1>1. IsWellFoundedOn(OpToRel(<, Nat), Nat)
  BY NatLessThanWellFounded
<1>2. \A x, y \in Nat : x < y => <<x, y>> \in OpToRel(<, Nat)
  BY DEF OpToRel
<1>3. QED
  BY <1>1, <1>2, Zenon

LEMMA LeastNat ==
  ASSUME NEW T, T \subseteq Nat, T # {}
  PROVE  \E x \in T : \A y \in T : x <= y
<1>1. PICK R : IsWellFoundedOn(R, Nat) /\ \A x, y \in Nat : x < y => <<x, y>> \in R
  BY LessIsWellFounded
<1>2. \E x \in T : \A y \in T : <<y, x>> \notin R
  <2>1. \A X, Q, U : IsWellFoundedOn(Q, X) /\ U \subseteq X /\ U # {} => \E u \in U : \A y \in U : <<y, u>> \notin Q
    BY WFMin
  <2>2. IsWellFoundedOn(R, Nat)
    BY <1>1
  <2>3. QED
    BY <2>1, <2>2, Zenon
<1>3. PICK x \in T : \A y \in T : <<y, x>> \notin R
  BY <1>2
<1>4. ASSUME NEW y \in T PROVE x <= y
  <2>1. x \in Nat /\ y \in Nat
    OBVIOUS
  <2>2. ~(y < x)
    BY <1>1, <1>3, <2>1, Zenon
  <2>3. QED
    BY <2>1, <2>2
<1>5. QED
  BY <1>4

-----------------------------------------------------------------------------
(* The user's ideas.  A verdict is earned: making one score worse makes none better. *)

Keys == {"value", "relevance", "feasibility", "risk"}
ScoreKind == [Keys -> 0..5]
Failing(s) == {k \in Keys : ~Re!Meets(s, k, 0)}

\* s is nowhere better than t.
NoBetter(s, t) == \A k \in Keys : IF k = "risk" THEN s[k] >= t[k] ELSE s[k] <= t[k]

LEMMA CountedKind ==
  ASSUME NEW e, e.score \in [Keys -> -1..5]
  PROVE  Re!Counted(e) \in ScoreKind
BY DEF Re!Counted, Re!Needed, Re!Clamp, Re!Forged, Re!RiskLimit, Keys, ScoreKind

(* One score lowered, forged or uncited: the scores that count are nowhere     *)
(* better, and nothing else has changed.                                       *)
LEMMA WorseCounts ==
  ASSUME NEW e \in Evaluations, NEW f \in Re!Worse(e)
  PROVE  /\ NoBetter(Re!Counted(f), Re!Counted(e)) /\ f.words = e.words /\ f.addressed = e.addressed
         /\ f.score \in [Keys -> -1..5]
<1> DEFINE E == [score : [Keys -> -1..5], words : {e.words}, addressed : {e.addressed}]
<1>1. /\ e.score \in [Keys -> -1..5]
      /\ e = [score |-> e.score, cited |-> e.cited, words |-> e.words, addressed |-> e.addressed]
  BY ScoresAssumption DEF Keys
<1>2. PICK k \in Keys : \/ f = Re!Lowered(e, k) \/ f = [e EXCEPT !.score[k] = Re!Forged]
                        \/ f = [e EXCEPT !.cited = @ \ {k}]
  <2>1. PICK k \in DOMAIN Re!Needed : f \in {Re!Lowered(e, k), [e EXCEPT !.score[k] = Re!Forged],
                                            [e EXCEPT !.cited = @ \ {k}]}
    BY DEF Re!Worse
  <2>2. k \in Keys
    BY DEF Re!Needed, Keys
  <2>3. QED
    BY <2>1, <2>2
<1>3. CASE f = [e EXCEPT !.cited = @ \ {k}]
  <2>1. f = [score |-> e.score, cited |-> e.cited \ {k}, words |-> e.words, addressed |-> e.addressed]
    BY <1>1, <1>3
  <2>2. QED
    BY <1>1, <2>1 DEF NoBetter, Re!Counted, Re!Needed, Re!Clamp, Re!Forged, Re!RiskLimit, Keys
<1>4. CASE \E v \in -1..5 : /\ f = [e EXCEPT !.score[k] = v]
                            /\ v = -1 \/ (IF k = "risk" THEN v >= e.score[k] /\ e.score[k] # -1
                                                        ELSE v <= e.score[k])
  <2>1. PICK v \in -1..5 : /\ f = [e EXCEPT !.score[k] = v]
                           /\ v = -1 \/ (IF k = "risk" THEN v >= e.score[k] /\ e.score[k] # -1
                                                       ELSE v <= e.score[k])
    BY <1>4
  <2>2. f = [score |-> [e.score EXCEPT ![k] = v], cited |-> e.cited, words |-> e.words,
             addressed |-> e.addressed]
    BY <1>1, <2>1
  <2>3. QED
    BY <1>1, <2>1, <2>2 DEF NoBetter, Re!Counted, Re!Needed, Re!Clamp, Re!Forged, Re!RiskLimit, Keys
<1>5. CASE f = [e EXCEPT !.score[k] = Re!Forged]
  BY <1>4, <1>5 DEF Re!Forged
<1>6. CASE f = Re!Lowered(e, k)
  <2> DEFINE v == IF k = "risk" THEN IF e.score[k] \in 0..4 THEN e.score[k] + 1 ELSE e.score[k]
                                ELSE IF e.score[k] \in 1..5 THEN e.score[k] - 1 ELSE e.score[k]
  <2>1. e.score[k] \in -1..5
    BY <1>1
  <2>2. f = [e EXCEPT !.score[k] = v]
    BY <1>6 DEF Re!Lowered
  <2>3. v \in -1..5 /\ (v = -1 \/ (IF k = "risk" THEN v >= e.score[k] /\ e.score[k] # -1 ELSE v <= e.score[k]))
    BY <2>1
  <2>4. QED
    BY <1>4, <2>2, <2>3
<1>7. QED
  BY <1>2, <1>3, <1>5, <1>6

(* What fails of a better answer fails of a worse one; what it is short of is  *)
(* no more than one point if that is so of the worse.                          *)
LEMMA FailingGrows ==
  ASSUME NEW s \in ScoreKind, NEW t \in ScoreKind, NoBetter(s, t)
  PROVE  /\ Failing(t) \subseteq Failing(s)
         /\ Cardinality(Failing(t)) <= Cardinality(Failing(s))
         /\ Cardinality(Failing(s)) \in Nat /\ Cardinality(Failing(t)) \in Nat
         /\ \A k \in Keys : Re!Meets(s, k, 1) => Re!Meets(t, k, 1)
         /\ s["risk"] >= t["risk"] /\ (Re!Meets(s, "value", 0) => Re!Meets(t, "value", 0))
<1>1. \A k \in Keys, n \in {0, 1} : Re!Meets(s, k, n) => Re!Meets(t, k, n)
  BY DEF Re!Meets, Re!Needed, Keys, NoBetter, ScoreKind
<1>2. Failing(t) \subseteq Failing(s)
  BY <1>1 DEF Failing
<1>3. IsFiniteSet(Keys)
  <2>1. Keys = (({"value"} \cup {"relevance"}) \cup {"feasibility"}) \cup {"risk"}
    BY DEF Keys
  <2>2. QED
    BY <2>1, FS_Singleton, FS_Union
<1>4. IsFiniteSet(Failing(s)) /\ IsFiniteSet(Failing(t))
  BY <1>3, FS_Subset DEF Failing
<1>5. QED
  BY <1>1, <1>2, <1>4, FS_Subset, FS_CardinalityType DEF NoBetter, Keys

Judged(words, addressed, s, failing) ==
  IF words = "defended" THEN "ask"
  ELSE IF words = "refused" \/ s["risk"] = 5 THEN "refuse"
  ELSE IF addressed THEN IF Re!Meets(s, "value", 0) THEN "ask" ELSE "skip"
  ELSE IF failing = {} THEN "implement"
  ELSE IF /\ Cardinality(failing) <= 2 /\ s["risk"] <= 3
          /\ \A k \in failing : Re!Meets(s, k, 1) THEN "ask" ELSE "skip"

\* The library's operators are the same in an instance.
LEMMA SameCardinality == ASSUME NEW S PROVE Re!Cardinality(S) = Cardinality(S)
BY DEF Re!Cardinality, Cardinality

LEMMA JudgedIs ==
  ASSUME NEW e
  PROVE  Re!Judge(e) = Judged(e.words, e.addressed, Re!Counted(e), Failing(Re!Counted(e)))
<1>1. {k \in DOMAIN Re!Needed : ~Re!Meets(Re!Counted(e), k, 0)} = Failing(Re!Counted(e))
  BY DEF Failing, Re!Needed, Keys
<1>2. Re!Judge(e) = Judged(e.words, e.addressed, Re!Counted(e),
                          {k \in DOMAIN Re!Needed : ~Re!Meets(Re!Counted(e), k, 0)})
  BY SameCardinality DEF Re!Judge, Judged, Re!RiskLimit, Re!AskRisk
<1>3. QED
  BY <1>1, <1>2

(* The verdict by its scores, for words and a text that are the same.          *)
LEMMA EarnedHolds == Re!Earned
<1> SUFFICES ASSUME NEW e \in Evaluations, NEW f \in Re!Worse(e)
             PROVE  Re!Rank[Re!Judge(f)] <= Re!Rank[Re!Judge(e)]
  BY DEF Re!Earned
<1> DEFINE s == Re!Counted(f)  t == Re!Counted(e)
<1>1. NoBetter(s, t) /\ f.words = e.words /\ f.addressed = e.addressed /\ s \in ScoreKind
  BY WorseCounts, CountedKind
<1>2. t \in ScoreKind
  BY ScoresAssumption, CountedKind DEF Keys
<1>3. Re!Judge(f) = Judged(e.words, e.addressed, s, Failing(s))
      /\ Re!Judge(e) = Judged(e.words, e.addressed, t, Failing(t))
  BY <1>1, JudgedIs
<1> HIDE DEF s, t
<1>4. s["risk"] \in 0..5 /\ t["risk"] \in 0..5
  BY <1>1, <1>2 DEF ScoreKind, Keys
<1>5. Failing(s) \subseteq Keys /\ Failing(t) \subseteq Keys
  BY DEF Failing
<1>6. QED
  BY <1>1, <1>2, <1>3, <1>4, <1>5, FailingGrows DEF Judged, Re!Rank

RowKind == [id : Nat, source : Source, verdict : Re!Verdicts, decision : {"pending", "yes", "no"}]
WordKind == [id : Nat, word : {"yes", "no"}]

ReelKinds ==
  /\ step \in [Command -> Re!Steps] /\ key \in [Command -> Source] /\ evidence \subseteq Command
  /\ ideas \subseteq RowKind /\ lastId \in Nat /\ decided \subseteq WordKind
  /\ deciding \in [Decider -> SUBSET WordKind]

(* No id was given out twice nor ahead of its turn, to a row, to a decision or  *)
(* to one in the making; a yes in the making is for a row that was not refused, *)
(* if it is there still; and what is pending was never decided.                 *)
IdsGiven == /\ \A r \in ideas : r.id <= lastId
            /\ \A w \in decided : w.id <= lastId
            /\ \A d \in Decider : \A w \in deciding[d] : w.id <= lastId
RowsAlone == \A r, q \in ideas : r.source = q.source \/ r.id = q.id => r = q
YesInTheMaking ==
  \A d \in Decider : \A w \in deciding[d], r \in ideas :
    w.id = r.id /\ w.word = "yes" => r.verdict # "refuse"
PendingOpen == \A r \in ideas : r.decision = "pending" => \A w \in decided : w.id # r.id
Decided ==
  /\ \A r \in ideas : /\ r.decision = "yes" => r.verdict # "refuse"
                      /\ r.decision # "pending" => [id |-> r.id, word |-> r.decision] \in decided
  /\ \A d, e \in decided : d.id = e.id => d = e
FramesGone == \A c \in evidence : step[c] \notin {"free", "over"}
OneAtATime == \A d \in Decider : \A v, w \in deciding[d] : v = w

TableInv == IdsGiven /\ RowsAlone /\ YesInTheMaking /\ PendingOpen /\ Decided /\ OneAtATime
ReelInv == ReelKinds /\ FramesGone /\ TableInv

LEMMA ReelInit == Re!Init => ReelInv
BY DEF Re!Init, ReelInv, ReelKinds, FramesGone, TableInv, IdsGiven, RowsAlone, YesInTheMaking,
       PendingOpen, Decided, OneAtATime, Re!Steps

\* What leaves the table and the decisions alone.
TableStays == UNCHANGED <<ideas, lastId, decided, deciding>>

(* One command goes on: it stays in its steps, and has no frames to remove once it is over. *)
LEMMA CommandGoes ==
  ASSUME ReelKinds, FramesGone, NEW c \in Command, step[c] # "free" \/ c \notin evidence,
         \/ \E to \in Re!Steps \ {"free", "over"} :
              Re!Goes(c, to) /\ (evidence' = evidence \/ evidence' = evidence \cup {c} \/ evidence' = evidence \ {c})
         \/ \E what : Re!Tells(c, what)
  PROVE  /\ step' \in [Command -> Re!Steps] /\ key' = key /\ evidence' \subseteq Command
         /\ FramesGone'
BY DEF ReelKinds, FramesGone, Re!Goes, Re!Tells, Re!Steps

LEMMA CommandKeeps ==
  ASSUME ReelInv, NEW c \in Command,
         \/ \E given \in Re!Given : Re!Begin(c, given)
         \/ Re!Probed(c) \/ Re!Extracted(c) \/ Re!Read(c) \/ Re!Dies(c)
  PROVE  ReelInv'
<1>1. TableStays
  BY DEF Re!Begin, Re!Probed, Re!Extracted, Re!Read, Re!Dies, Re!table, TableStays
<1>2. \/ \E to \in Re!Steps \ {"free", "over"} :
           Re!Goes(c, to) /\ (evidence' = evidence \/ evidence' = evidence \cup {c} \/ evidence' = evidence \ {c})
      \/ \E what : Re!Tells(c, what)
  BY DEF Re!Begin, Re!Probed, Re!Extracted, Re!Read, Re!Dies, Re!Fails, Re!ReadsUnlessKnown, Re!Steps
<1>3. ReelKinds /\ FramesGone /\ (step[c] # "free" \/ c \notin evidence)
  BY DEF ReelInv, FramesGone
<1>4. /\ step' \in [Command -> Re!Steps] /\ key' = key /\ evidence' \subseteq Command /\ FramesGone'
  BY <1>2, <1>3, CommandGoes
<1>5. TableInv'
  BY <1>1 DEF ReelInv, TableInv, TableStays, IdsGiven, RowsAlone, YesInTheMaking, PendingOpen, Decided, OneAtATime
<1>6. ReelKinds'
  BY <1>1, <1>3, <1>4 DEF ReelKinds, TableStays
<1>7. QED
  BY <1>4, <1>5, <1>6 DEF ReelInv

(* A new row has an id nobody has heard of, and its source had none.            *)
LEMMA ScoredKeeps ==
  ASSUME ReelInv, NEW c \in Command, Re!Scored(c)
  PROVE  ReelInv'
<1>1. UNCHANGED <<decided, deciding>> /\ \E what : Re!Tells(c, what)
  BY DEF Re!Scored, Re!Fails
<1>2. step' \in [Command -> Re!Steps] /\ key' = key /\ evidence' \subseteq Command /\ FramesGone'
  BY <1>1, CommandGoes DEF ReelInv, FramesGone
<1>3. CASE UNCHANGED <<ideas, lastId>>
  BY <1>1, <1>2, <1>3 DEF ReelInv, TableInv, ReelKinds, IdsGiven, RowsAlone, YesInTheMaking, PendingOpen, Decided, OneAtATime
<1>4. ASSUME NEW v \in Re!Verdicts, ~Re!Known(key[c]), lastId' = lastId + 1,
             ideas' = ideas \cup {[id |-> lastId + 1, source |-> key[c], verdict |-> v, decision |-> "pending"]}
      PROVE  ReelInv'
  <2> DEFINE new == [id |-> lastId + 1, source |-> key[c], verdict |-> v, decision |-> "pending"]
  <2>1. new \in RowKind /\ \A r \in ideas : r.source # new.source /\ r.id < new.id
    BY <1>4 DEF ReelInv, ReelKinds, RowKind, Re!Known, TableInv, IdsGiven
  <2>2. ReelKinds'
    BY <1>1, <1>2, <1>4, <2>1 DEF ReelInv, ReelKinds
  <2>3. new.id = lastId' /\ new.decision = "pending" /\ new.decision # "yes" /\ ideas' = ideas \cup {new}
    BY <1>4
  <2> HIDE DEF new
  <2> USE DEF ReelInv, TableInv, ReelKinds, RowKind, WordKind
  <2>4. IdsGiven'
    BY <1>1, <1>4, <2>3 DEF IdsGiven
  <2>5. RowsAlone'
    BY <2>1, <2>3, <1>4 DEF RowsAlone
  <2>6. YesInTheMaking'
    BY <1>1, <1>4, <2>3 DEF YesInTheMaking, IdsGiven
  <2>7. PendingOpen'
    BY <1>1, <1>4, <2>3 DEF PendingOpen, IdsGiven
  <2>8. Decided' /\ OneAtATime'
    BY <1>1, <2>3 DEF Decided, OneAtATime
  <2>9. QED
    BY <1>2, <2>2, <2>4, <2>5, <2>6, <2>7, <2>8
<1>5. QED
  BY <1>3, <1>4 DEF Re!Scored, Re!Add, Re!NextId

LEMMA DecideReadsKeeps ==
  ASSUME ReelInv, NEW d \in Decider, NEW word \in {"yes", "no"}, Re!DecideReads(d, word)
  PROVE  ReelInv'
<1>1. PICK r \in ideas : /\ ~(word = "yes" /\ r.verdict = "refuse")
                         /\ deciding' = [deciding EXCEPT ![d] = {[id |-> r.id, word |-> word]}]
  BY DEF Re!DecideReads
<1>2. [id |-> r.id, word |-> word] \in WordKind /\ UNCHANGED <<step, key, evidence, ideas, lastId, decided>>
  BY <1>1 DEF Re!DecideReads, Re!table, ReelInv, ReelKinds, RowKind, WordKind
<1> USE DEF ReelInv, TableInv
<1>3. ReelKinds' /\ FramesGone' /\ RowsAlone' /\ PendingOpen' /\ Decided'
  BY <1>1, <1>2 DEF ReelKinds, FramesGone, RowsAlone, PendingOpen, Decided
<1>4. IdsGiven' /\ OneAtATime'
  BY <1>1, <1>2 DEF ReelKinds, IdsGiven, OneAtATime
<1>5. YesInTheMaking'
  BY <1>1, <1>2 DEF ReelKinds, RowsAlone, YesInTheMaking
<1>6. QED
  BY <1>3, <1>4, <1>5

(* The row that is updated is the one that was read, if it is there: its id is  *)
(* nobody else's.                                                              *)
LEMMA DecideWritesKeeps ==
  ASSUME ReelInv, NEW d \in Decider, Re!DecideWrites(d)
  PROVE  ReelInv'
<1>1. PICK w \in deciding[d] : Re!DecidesOf(d, {r \in ideas : r.id = w.id /\ r.decision = "pending"})
  BY DEF Re!DecideWrites
<1>2. deciding[d] = {w} /\ w \in WordKind
  BY <1>1 DEF ReelInv, TableInv, OneAtATime, ReelKinds
<1>3. deciding' = [deciding EXCEPT ![d] = {}] /\ UNCHANGED <<step, key, evidence, lastId>>
  BY <1>1 DEF Re!DecidesOf
<1> USE DEF ReelInv, TableInv, ReelKinds
<1>4. CASE {r \in ideas : r.id = w.id /\ r.decision = "pending"} = {}
  <2>1. ideas' = ideas /\ decided' = decided
    BY <1>1, <1>4 DEF Re!DecidesOf
  <2>2. QED
    BY <1>3, <2>1 DEF FramesGone, IdsGiven, RowsAlone, YesInTheMaking, PendingOpen, Decided, OneAtATime
<1>5. ASSUME NEW r \in ideas, r.id = w.id, r.decision = "pending"
      PROVE  ReelInv'
  <2> DEFINE new == [r EXCEPT !.decision = w.word]  said == [id |-> r.id, word |-> w.word]
  <2>1. {q \in ideas : q.id = w.id /\ q.decision = "pending"} = {r}
    BY <1>5 DEF RowsAlone
  <2>2. ideas' = (ideas \ {r}) \cup {new} /\ decided' = decided \cup {said}
    BY <1>1, <1>2, <2>1 DEF Re!DecidesOf
  <2>3. new \in RowKind /\ said \in WordKind
    BY <1>2, <1>5 DEF RowKind, WordKind
  <2>4. /\ new.id = r.id /\ new.source = r.source /\ new.verdict = r.verdict /\ new.decision = w.word
        /\ said.id = r.id /\ said = w /\ w.word # "pending" /\ said = [id |-> new.id, word |-> new.decision]
    BY <1>2, <1>5 DEF RowKind, WordKind
  <2> HIDE DEF new, said
  <2>5. ReelKinds' /\ FramesGone' /\ OneAtATime'
    BY <1>3, <2>2, <2>3 DEF FramesGone, OneAtATime
  <2>6. IdsGiven'
    BY <1>3, <2>2, <2>4 DEF IdsGiven
  <2>7. RowsAlone'
    BY <2>2, <2>4 DEF RowsAlone
  <2>8. YesInTheMaking'
    BY <1>3, <2>2, <2>4 DEF YesInTheMaking
  <2>9. PendingOpen'
    BY <2>2, <2>4 DEF PendingOpen, RowsAlone
  <2>10. Decided'
    <3>1. new.decision = "yes" => new.verdict # "refuse"
      BY <1>2, <1>5, <2>4 DEF YesInTheMaking
    <3>2. \A e \in decided : e.id # said.id
      BY <1>5, <2>4 DEF PendingOpen
    <3>3. QED
      BY <2>2, <2>4, <3>1, <3>2 DEF Decided
  <2>11. QED
    BY <2>5, <2>6, <2>7, <2>8, <2>9, <2>10
<1>6. QED
  BY <1>4, <1>5

LEMMA PurgeKeeps == ASSUME ReelInv, Re!Purge PROVE ReelInv'
BY DEF Re!Purge, ReelInv, ReelKinds, TableInv, FramesGone, IdsGiven, RowsAlone, YesInTheMaking,
       PendingOpen, Decided, OneAtATime

LEMMA ReelNext == ReelInv /\ [Re!Next]_(Re!vars) => ReelInv'
<1> SUFFICES ASSUME ReelInv, [Re!Next]_(Re!vars) PROVE ReelInv'
  OBVIOUS
<1>1. CASE UNCHANGED Re!vars
  BY <1>1 DEF Re!vars, ReelInv, ReelKinds, TableInv, FramesGone, IdsGiven, RowsAlone, YesInTheMaking,
              PendingOpen, Decided, OneAtATime
<1>2. QED
  BY <1>1, CommandKeeps, ScoredKeeps, DecideReadsKeeps, DecideWritesKeeps, PurgeKeeps DEF Re!Next

\* The five worlds together leave each to its own specification.
LEMMA ReelsAlone == Spec => Re!Init /\ [][Re!Next]_(Re!vars)
<1>1. Init => Re!Init
  BY DEF Init
<1>2. [Next]_<<world, bus, page, tree, prompts, reels>> => [Re!Next]_(Re!vars)
  BY DEF Next, Re!vars, reels
<1>3. QED
  BY <1>1, <1>2, PTL DEF Spec

(* For any commands, decisions and models' words: what the program refused is   *)
(* never approved, though its row is purged and others made between a decision's *)
(* look and its write; a decision stands; a source has one row; a command that   *)
(* ended has removed its frames, or tried to; and making a score worse makes no  *)
(* verdict better (judge, decide and purge of reel, reelCommand).               *)
THEOREM IdeasStand == Spec => []IdeasKept
<1>1. ReelInv => IdeasKept
  BY EarnedHolds DEF ReelInv, TableInv, RowsAlone, Decided, FramesGone, IdeasKept, Re!IdeasKept
<1>2. QED
  BY <1>1, ReelInit, ReelNext, ReelsAlone, PTL

-----------------------------------------------------------------------------
(* The terminal's prompts. *)

PromptKinds ==
  /\ made \in Nat /\ open \subseteq Prompt /\ heard \subseteq Prompt
  /\ queue \in Seq(Prompt) /\ active \in Prompt \cup {0}
  /\ rejecting \in BOOLEAN /\ typed \in Seq(Prompt)
  /\ \A x \in answers : x.reason \in Seq(Prompt)
  /\ \A r \in Prompt : r \in open \cup heard => r <= made

(* A request is queued once, in its turn; what is shown is the oldest, and what  *)
(* waits is in the queue and nothing that was announced; and a reason is only    *)
(* ever for what is shown.                                                     *)
QueuedOnce == \A i, j \in 1..Len(queue) : queue[i] = queue[j] => i = j
HeardOnce == open \cap heard = {}
OldestShown == active = IF queue = <<>> THEN 0 ELSE queue[1]
QueueWaits == /\ \A r \in open : \E i \in 1..Len(queue) : queue[i] = r
              /\ \A i \in 1..Len(queue) : queue[i] \in open \cup heard
ReasonFor == /\ ~rejecting => typed = <<>>
             /\ rejecting => active # 0 /\ \A i \in 1..Len(typed) : typed[i] = active
Meant == \A x \in answers :
  /\ \A i \in 1..Len(x.reason) : x.reason[i] = x.request
  /\ x.request \in 1..made /\ x.request \notin open
  /\ \A y \in answers : x.request = y.request => x = y
PromptInv == PromptKinds /\ QueuedOnce /\ HeardOnce /\ OldestShown /\ QueueWaits /\ ReasonFor /\ Meant

LEMMA PromptInit == Te!Init => PromptInv
<1> SUFFICES ASSUME Te!Init PROVE PromptInv
  OBVIOUS
<1>1. queue = <<>> /\ typed = <<>> /\ Len(queue) = 0 /\ queue \in Seq(Prompt) /\ typed \in Seq(Prompt)
  BY DEF Te!Init
<1>2. PromptKinds
  BY <1>1 DEF Te!Init, Te!None, PromptKinds
<1>3. QueuedOnce /\ QueueWaits
  BY <1>1 DEF Te!Init, QueuedOnce, QueueWaits
<1>4. QED
  BY <1>1, <1>2, <1>3 DEF Te!Init, Te!None, PromptInv, HeardOnce, OldestShown, ReasonFor, Meant

LEMMA InvMeans == PromptInv => Te!PromptsKept
<1> SUFFICES ASSUME PromptInv PROVE Te!PromptsKept
  OBVIOUS
<1>1. \A q \in Seq(Prompt) : Te!ToSet(q) = {q[i] : i \in 1..Len(q)}
  BY DEF Te!ToSet
<1>2. Te!ReasonsTheirs /\ Te!AnsweredOnce
  <2>1. \A x \in answers : Te!ToSet(x.reason) \subseteq {x.request}
    BY <1>1 DEF PromptInv, PromptKinds, Meant
  <2>2. QED
    BY <2>1 DEF PromptInv, Meant, Te!ReasonsTheirs, Te!AnsweredOnce
<1>3. Te!PromptCurrent
  <2>1. Te!ToSet(queue) = {queue[i] : i \in 1..Len(queue)}
    BY <1>1 DEF PromptInv, PromptKinds
  <2>2. open \subseteq Te!ToSet(queue) /\ Te!ToSet(queue) \subseteq open \cup heard
    BY <2>1 DEF PromptInv, QueueWaits
  <2>3. QED
    BY <2>2 DEF PromptInv, PromptKinds, OldestShown, ReasonFor, Te!PromptCurrent, Te!None
<1>4. QED
  BY <1>2, <1>3 DEF Te!PromptsKept

(* What is shown next.                                                         *)
LEMMA ShowIs ==
  ASSUME NEW q \in Seq(Prompt), NEW a \in Prompt
  PROVE  Te!Show(0, q) = (IF q = <<>> THEN 0 ELSE q[1]) /\ Te!Show(a, q) = a
BY PromptAssumption DEF Te!Show, Te!None

LEMMA AskKeeps ==
  ASSUME PromptInv, Te!Ask
  PROVE  PromptInv'
<1> DEFINE r == made + 1
<1>1. /\ r \in Prompt /\ made' = r /\ open' = open \cup {r} /\ queue' = Append(queue, r)
      /\ active' = Te!Show(active, queue') /\ UNCHANGED <<heard, rejecting, typed, answers>>
  BY DEF Te!Ask
<1>2. /\ queue' \in Seq(Prompt) /\ Len(queue') = Len(queue) + 1 /\ queue'[Len(queue) + 1] = r
      /\ \A i \in 1..Len(queue) : queue'[i] = queue[i]
  BY <1>1 DEF PromptInv, PromptKinds
<1>3. ASSUME NEW i \in 1..Len(queue)
      PROVE  queue[i] \in Prompt /\ queue[i] # r /\ queue[i] <= made
  <2>1. queue[i] \in Prompt /\ queue[i] \in open \cup heard
    BY DEF PromptInv, PromptKinds, QueueWaits
  <2>2. queue[i] <= made /\ queue[i] \in Nat /\ made \in Nat
    BY <2>1, PromptAssumption DEF PromptInv, PromptKinds
  <2>3. QED
    BY <2>1, <2>2
<1>4. active' = IF active = 0 THEN queue'[1] ELSE active
  <2>1. queue' # <<>>
    BY <1>2 DEF PromptInv, PromptKinds
  <2>2. QED
    BY <1>1, <1>2, <2>1, ShowIs DEF PromptInv, PromptKinds
<1> USE DEF PromptInv
<1>5. PromptKinds'
  BY <1>1, <1>2, <1>3, <1>4, PromptAssumption DEF PromptKinds, OldestShown
<1>6. QueuedOnce'
  BY <1>2, <1>3 DEF QueuedOnce, PromptKinds
<1>7. HeardOnce'
  BY <1>1, PromptAssumption DEF HeardOnce, PromptKinds
<1>8. OldestShown' /\ ReasonFor'
  <2>1. CASE queue = <<>>
    BY <1>1, <1>2, <1>4, <2>1 DEF OldestShown, ReasonFor
  <2>2. CASE queue # <<>>
    <3>1. 1 \in 1..Len(queue) /\ queue' # <<>>
      BY <1>2, <2>2 DEF PromptKinds
    <3>2. QED
      BY <1>1, <1>2, <1>3, <1>4, <2>2, <3>1, PromptAssumption DEF OldestShown, ReasonFor
  <2>3. QED
    BY <2>1, <2>2
<1>9. QueueWaits'
  BY <1>1, <1>2 DEF QueueWaits, PromptKinds
<1>10. Meant'
  <2>1. made \in Nat /\ r = made + 1
    BY DEF PromptKinds
  <2>2. \A n \in 1..made : n \in 1..r /\ n # r
    BY <2>1
  <2>3. QED
    BY <1>1, <2>2 DEF Meant
<1>11. QED
  BY <1>5, <1>6, <1>7, <1>8, <1>9, <1>10

LEMMA ElsewhereKeeps ==
  ASSUME PromptInv, NEW r \in Prompt, Te!AnsweredElsewhere(r)
  PROVE  PromptInv'
BY DEF Te!AnsweredElsewhere, PromptInv, PromptKinds, QueuedOnce, HeardOnce, OldestShown, QueueWaits,
       ReasonFor, Meant

(* The head of the queue goes, and the reason with it: the rest is as it was.   *)
LEMMA HeadGoes ==
  ASSUME PromptInv, queue # <<>>, queue' = Tail(queue), active' = Te!Show(0, queue'),
         rejecting' = FALSE, typed' = <<>>
  PROVE  /\ queue' \in Seq(Prompt) /\ active' \in Prompt \cup {0} /\ QueuedOnce' /\ OldestShown' /\ ReasonFor'
         /\ \A i \in 1..Len(queue') : queue'[i] # queue[1] /\ i + 1 \in 1..Len(queue) /\ queue'[i] = queue[i + 1]
         /\ \A i \in 1..Len(queue) : queue[i] # queue[1] => i - 1 \in 1..Len(queue') /\ queue'[i - 1] = queue[i]
<1>1. queue \in Seq(Prompt) /\ QueuedOnce
  BY DEF PromptInv, PromptKinds
<1>2. /\ queue' \in Seq(Prompt) /\ Len(queue') = Len(queue) - 1 /\ Len(queue) \in Nat \ {0}
      /\ \A i \in 1..Len(queue') : queue'[i] = queue[i + 1]
  BY <1>1
<1>3. active' = IF queue' = <<>> THEN 0 ELSE queue'[1]
  BY <1>2, ShowIs, \E x \in Prompt : TRUE
<1>4. queue' # <<>> => queue'[1] \in Prompt
  BY <1>2
<1>5. QED
  BY <1>1, <1>2, <1>3, <1>4 DEF QueuedOnce, OldestShown, ReasonFor

(* An answer takes the prompt away, with the reason that was typed for it.       *)
LEMMA FinishKeeps ==
  ASSUME PromptInv, active # 0, NEW decision, NEW reason \in Seq(Prompt),
         Te!Finish(decision, reason), made' = made,
         \A i \in 1..Len(reason) : reason[i] = active
  PROVE  PromptInv'
<1>1. queue # <<>> /\ active = queue[1] /\ queue' = Tail(queue) /\ active' = Te!Show(0, queue')
      /\ rejecting' = FALSE /\ typed' = <<>>
  BY DEF PromptInv, OldestShown, Te!Finish, Te!None
<1>2. /\ queue' \in Seq(Prompt) /\ active' \in Prompt \cup {0} /\ QueuedOnce' /\ OldestShown' /\ ReasonFor'
      /\ \A i \in 1..Len(queue') : queue'[i] # queue[1] /\ i + 1 \in 1..Len(queue) /\ queue'[i] = queue[i + 1]
      /\ \A i \in 1..Len(queue) : queue[i] # queue[1] => i - 1 \in 1..Len(queue') /\ queue'[i - 1] = queue[i]
  BY <1>1, HeadGoes
<1>6. rejecting' \in BOOLEAN /\ typed' \in Seq(Prompt)
  <2>1. <<>> \in Seq(Prompt)
    OBVIOUS
  <2>2. QED
    BY <1>1, <2>1
<1> DEFINE x0 == [request |-> active, decision |-> decision, reason |-> reason]
<1> USE DEF PromptInv
<1>3. CASE active \in open
  <2>1. open' = open \ {active} /\ heard' = heard \cup {active} /\ answers' = answers \cup {x0}
    BY <1>3 DEF Te!Finish
  <2>2. x0.request = active /\ x0.reason = reason
    OBVIOUS
  <2> HIDE DEF x0
  <2>3. open' \subseteq Prompt /\ heard' \subseteq Prompt /\ HeardOnce' /\ open' \cup heard' = open \cup heard
    BY <1>3, <2>1 DEF PromptKinds, HeardOnce
  <2>4. \A x \in answers' : x.reason \in Seq(Prompt)
    BY <2>1, <2>2 DEF PromptKinds
  <2>5. PromptKinds'
    BY <1>1, <1>2, <1>6, <2>3, <2>4 DEF PromptKinds
  <2>6. QueueWaits'
    <3>1. \A i \in 1..Len(queue') : queue'[i] \in open' \cup heard'
      BY <1>2, <2>3 DEF QueueWaits
    <3>2. \A r \in open' : \E i \in 1..Len(queue') : queue'[i] = r
      <4> SUFFICES ASSUME NEW r \in open' PROVE \E i \in 1..Len(queue') : queue'[i] = r
        OBVIOUS
      <4>1. PICK i \in 1..Len(queue) : queue[i] = r /\ r # queue[1]
        BY <1>1, <2>1 DEF QueueWaits
      <4>2. i - 1 \in 1..Len(queue') /\ queue'[i - 1] = r
        BY <1>2, <4>1
      <4>3. QED
        BY <4>2
    <3>3. QED
      BY <3>1, <3>2 DEF QueueWaits
  <2>7. Meant'
    <3>1. active \in 1..made
      BY <1>3, PromptAssumption DEF PromptKinds
    <3>2. \A x \in answers : x.request # active
      BY <1>3 DEF Meant
    <3>3. made' = made
      OBVIOUS
    <3>4. QED
      BY <2>1, <2>2, <3>1, <3>2, <3>3 DEF Meant
  <2>8. QED
    BY <1>2, <2>3, <2>5, <2>6, <2>7
<1>4. CASE active \notin open
  <2>1. UNCHANGED <<open, heard, answers>>
    BY <1>4 DEF Te!Finish
  <2>2. PromptKinds' /\ HeardOnce' /\ Meant'
    BY <1>1, <1>2, <1>6, <2>1 DEF PromptKinds, HeardOnce, Meant
  <2>3. QueueWaits'
    <3>1. \A i \in 1..Len(queue') : queue'[i] \in open' \cup heard'
      BY <1>2, <2>1 DEF QueueWaits
    <3>2. \A r \in open' : \E i \in 1..Len(queue') : queue'[i] = r
      <4> SUFFICES ASSUME NEW r \in open' PROVE \E i \in 1..Len(queue') : queue'[i] = r
        OBVIOUS
      <4>1. PICK i \in 1..Len(queue) : queue[i] = r /\ r # queue[1]
        BY <1>1, <1>4, <2>1 DEF QueueWaits
      <4>2. i - 1 \in 1..Len(queue') /\ queue'[i - 1] = r
        BY <1>2, <4>1
      <4>3. QED
        BY <4>2
    <3>3. QED
      BY <3>1, <3>2 DEF QueueWaits
  <2>4. QED
    BY <1>2, <2>2, <2>3
<1>5. QED
  BY <1>3, <1>4

\* A key that leaves the queue alone.
LEMMA ReasonKeeps ==
  ASSUME PromptInv, active # 0, UNCHANGED <<made, open, heard, queue, active, answers>>,
         rejecting' \in BOOLEAN, typed' \in Seq(Prompt),
         IF rejecting' THEN \A i \in 1..Len(typed') : typed'[i] = active ELSE typed' = <<>>
  PROVE  PromptInv'
BY DEF PromptInv, PromptKinds, QueuedOnce, HeardOnce, OldestShown, QueueWaits, ReasonFor, Meant

\* Without its last element.
LEMMA FrontIs ==
  ASSUME NEW S, NEW s \in Seq(S), Len(s) >= 1
  PROVE  LET f == SubSeq(s, 1, Len(s) - 1) IN
         f \in Seq(S) /\ Len(f) = Len(s) - 1 /\ \A i \in 1..Len(f) : f[i] = s[i]
<1> DEFINE n == Len(s) - 1
<1>1. n \in Nat /\ n \in Int /\ 1 \in Int /\ \A i \in 1..n : s[i] \in S
  OBVIOUS
<1> HIDE DEF n
<1>2. /\ SubSeq(s, 1, n) \in Seq(S) /\ Len(SubSeq(s, 1, n)) = IF 1 <= n THEN n - 1 + 1 ELSE 0
      /\ \A i \in 1..(n - 1 + 1) : SubSeq(s, 1, n)[i] = s[1 + i - 1]
  BY <1>1, SubSeqProperties
<1>3. n - 1 + 1 = n /\ \A i \in 1..n : 1 + i - 1 = i
  BY <1>1
<1>4. Len(SubSeq(s, 1, n)) = n
  <2>1. CASE n = 0
    BY <1>2, <2>1
  <2>2. CASE n >= 1
    <3>1. Len(SubSeq(s, 1, n)) = n - 1 + 1
      BY <1>2, <2>2
    <3>2. QED
      BY <1>3, <3>1
  <2>3. QED
    BY <1>1, <2>1, <2>2
<1>5. \A i \in 1..n : SubSeq(s, 1, n)[i] = s[i]
  BY <1>2, <1>3, Zenon
<1>6. QED
  BY <1>2, <1>4, <1>5, Zenon DEF n

LEMMA PressKeeps ==
  ASSUME PromptInv, NEW k \in Te!Key, Te!Press(k)
  PROVE  PromptInv'
<1>1. active # 0 /\ made' = made /\ active \in Prompt /\ typed \in Seq(Prompt)
  BY DEF Te!Press, Te!None, PromptInv, PromptKinds
<1>2. CASE rejecting /\ Te!Finish("deny", typed)
  <2>2. \A i \in 1..Len(typed) : typed[i] = active
    BY <1>2 DEF PromptInv, ReasonFor
  <2>3. QED
    BY <1>1, <1>2, <2>2, FinishKeeps
<1>3. CASE k \in {"1", "y"} /\ Te!Finish("allow", <<>>)
  <2>2. <<>> \in Seq(Prompt) /\ \A i \in 1..Len(<<>>) : <<>>[i] = active
    OBVIOUS
  <2>3. QED
    BY <1>1, <1>3, <2>2, FinishKeeps
<1>4. CASE k = "2" /\ active \in Ruled /\ Te!Finish("always", <<>>)
  <2>2. <<>> \in Seq(Prompt) /\ \A i \in 1..Len(<<>>) : <<>>[i] = active
    OBVIOUS
  <2>3. QED
    BY <1>1, <1>4, <2>2, FinishKeeps
<1>5. CASE /\ typed' = <<>> /\ rejecting' \in BOOLEAN /\ UNCHANGED <<open, heard, queue, active, answers>>
  <2>1. typed' \in Seq(Prompt) /\ Len(typed') = 0
    BY <1>5
  <2>2. QED
    BY <1>1, <1>5, <2>1, ReasonKeeps
<1>6. CASE /\ rejecting /\ typed' = (IF typed = <<>> THEN typed ELSE Te!Front(typed))
           /\ UNCHANGED <<open, heard, queue, active, answers, rejecting>>
  <2>1. \A i \in 1..Len(typed) : typed[i] = active
    BY <1>6 DEF PromptInv, ReasonFor
  <2>2. CASE typed # <<>>
    <3>1. typed' = SubSeq(typed, 1, Len(typed) - 1)
      BY <1>6, <2>2 DEF Te!Front
    <3>2. Len(typed) \in Nat /\ Len(typed) >= 1
      BY <1>1, <2>2
    <3>5. typed' \in Seq(Prompt) /\ Len(typed') = Len(typed) - 1 /\ \A i \in 1..Len(typed') : typed'[i] = typed[i]
      BY <1>1, <3>1, <3>2, FrontIs
    <3>3. \A i \in 1..Len(typed') : typed'[i] = active
      BY <1>1, <2>1, <3>2, <3>5
    <3>4. QED
      BY <1>1, <1>6, <3>3, <3>5, ReasonKeeps
  <2>3. QED
    BY <1>1, <1>6, <2>1, <2>2, ReasonKeeps
<1>7. CASE rejecting /\ typed' = Append(typed, active) /\ UNCHANGED <<open, heard, queue, active, answers, rejecting>>
  <2>1. \A i \in 1..Len(typed) : typed[i] = active
    BY <1>7 DEF PromptInv, ReasonFor
  <2>2. typed' \in Seq(Prompt) /\ \A i \in 1..Len(typed') : typed'[i] = active
    BY <1>1, <1>7, <2>1
  <2>3. QED
    BY <1>1, <1>7, <2>2, ReasonKeeps
<1>8. QED
  BY <1>2, <1>3, <1>4, <1>5, <1>6, <1>7 DEF Te!Press, Te!TypesReason, Te!AnswersPrompt

(* What was announced leaves the queue, and the prompt with it if it was shown. *)
LEMMA ResolvedKeeps ==
  ASSUME PromptInv, NEW r \in Prompt, Te!Resolved(r)
  PROVE  PromptInv'
<1>1. r \in heard /\ r \notin open /\ heard' = heard \ {r} /\ Te!Forgets(r) /\ UNCHANGED <<made, open, answers>>
  BY DEF Te!Resolved, PromptInv, HeardOnce
<1>2. queue \in Seq(Prompt) /\ Len(queue) \in Nat /\ QueuedOnce /\ OldestShown /\ QueueWaits /\ active \in Prompt \cup {0}
  BY DEF PromptInv, PromptKinds
<1>3. PromptKinds /\ ReasonFor /\ Meant /\ HeardOnce
  BY DEF PromptInv
<1>4. r # 0
  BY PromptAssumption
<1>5. CASE r \notin Te!ToSet(queue)
  <2>1. queue' = queue /\ \A i \in 1..Len(queue) : queue[i] # r
    BY <1>2, <1>5 DEF Te!Resolved, Te!ToSet
  <2>2. active # r
    BY <1>2, <1>4, <2>1 DEF OldestShown
  <2>3. active' = Te!Show(active, queue) /\ UNCHANGED <<rejecting, typed>>
    BY <1>1, <2>1, <2>2 DEF Te!Forgets
  <2>4. active' = active
    BY <1>2, <1>4, <2>3, ShowIs DEF OldestShown
  <2>5. QED
    BY <1>1, <1>2, <1>3, <2>1, <2>3, <2>4
    DEF PromptInv, PromptKinds, QueuedOnce, HeardOnce, OldestShown, QueueWaits, ReasonFor, Meant
<1>6. CASE r \in Te!ToSet(queue)
  <2> DEFINE k == CHOOSE i \in DOMAIN queue : queue[i] = r
  <2>1. k \in 1..Len(queue) /\ queue[k] = r
    BY <1>2, <1>6 DEF Te!ToSet
  <2>2. queue' = RemoveAt(queue, k)
    BY <1>6 DEF Te!Resolved, Te!RemoveAt, RemoveAt
  <2> HIDE DEF k
  <2>3. /\ queue' \in Seq(Prompt) /\ Len(queue') = Len(queue) - 1
        /\ \A i \in 1..(Len(queue) - 1) : queue'[i] = IF i < k THEN queue[i] ELSE queue[i + 1]
    BY <1>2, <2>1, <2>2, RemoveAtProperties
  <2>4. \A i \in 1..Len(queue') : queue'[i] # r
    BY <1>2, <2>1, <2>3 DEF QueuedOnce
  <2>5. \A i \in 1..Len(queue) : queue[i] # r => \E j \in 1..Len(queue') : queue'[j] = queue[i]
    <3> SUFFICES ASSUME NEW i \in 1..Len(queue), queue[i] # r
                 PROVE  \E j \in 1..Len(queue') : queue'[j] = queue[i]
      OBVIOUS
    <3>1. CASE i < k
      <4>1. i \in 1..Len(queue') /\ queue'[i] = queue[i]
        BY <1>2, <2>1, <2>3, <3>1
      <4>2. QED
        BY <4>1
    <3>2. CASE i > k
      <4>1. i - 1 \in 1..Len(queue') /\ queue'[i - 1] = queue[i]
        BY <1>2, <2>1, <2>3, <3>2
      <4>2. QED
        BY <4>1
    <3>3. QED
      BY <1>2, <2>1, <3>1, <3>2
  <2>6. QueuedOnce'
    BY <1>2, <2>1, <2>3 DEF QueuedOnce
  <2>7. QueueWaits'
    <3>1. \A i \in 1..Len(queue') : \E j \in 1..Len(queue) : queue'[i] = queue[j]
      BY <1>2, <2>1, <2>3
    <3>2. \A i \in 1..Len(queue') : queue'[i] \in open' \cup heard'
      BY <1>1, <1>2, <2>4, <3>1 DEF QueueWaits
    <3>3. \A x \in open' : \E i \in 1..Len(queue') : queue'[i] = x
      <4> SUFFICES ASSUME NEW x \in open' PROVE \E i \in 1..Len(queue') : queue'[i] = x
        OBVIOUS
      <4>1. PICK i \in 1..Len(queue) : queue[i] = x /\ x # r
        BY <1>1, <1>2 DEF QueueWaits
      <4>2. QED
        BY <2>5, <4>1
    <3>4. QED
      BY <3>2, <3>3 DEF QueueWaits
  <2>8. CASE active = r
    <3>1. active' = (IF queue' = <<>> THEN 0 ELSE queue'[1]) /\ rejecting' = FALSE /\ typed' = <<>>
      BY <1>1, <2>3, <2>8, ShowIs DEF Te!Forgets, Te!None
    <3>2. active' \in Prompt \cup {0}
      BY <2>3, <3>1
    <3>3. OldestShown' /\ ReasonFor' /\ typed' \in Seq(Prompt) /\ rejecting' \in BOOLEAN
      <4>1. <<>> \in Seq(Prompt)
        OBVIOUS
      <4>2. QED
        BY <3>1, <4>1 DEF OldestShown, ReasonFor
    <3>4. PromptKinds'
      BY <1>1, <1>3, <2>3, <3>2, <3>3 DEF PromptKinds
    <3>5. HeardOnce' /\ Meant'
      BY <1>1, <1>3 DEF HeardOnce, Meant
    <3>6. QED
      BY <2>6, <2>7, <3>3, <3>4, <3>5 DEF PromptInv
  <2>9. CASE active # r
    <3>1. queue # <<>> /\ active = queue[1] /\ k # 1 /\ active \in Prompt
      BY <1>2, <2>1, <2>9 DEF OldestShown
    <3>2. active' = active /\ UNCHANGED <<rejecting, typed>>
      BY <1>1, <2>3, <2>9, <3>1, ShowIs DEF Te!Forgets
    <3>3. Len(queue') >= 1 /\ queue'[1] = queue[1] /\ queue' # <<>>
      BY <1>2, <2>1, <2>3, <3>1
    <3>4. PromptKinds' /\ HeardOnce' /\ OldestShown' /\ ReasonFor' /\ Meant'
      BY <1>1, <1>3, <2>3, <3>1, <3>2, <3>3 DEF PromptKinds, HeardOnce, OldestShown, ReasonFor, Meant
    <3>5. QED
      BY <2>6, <2>7, <3>4 DEF PromptInv
  <2>10. QED
    BY <2>8, <2>9
<1>7. QED
  BY <1>5, <1>6

LEMMA PromptNext == PromptInv /\ [Te!Next]_(Te!vars) => PromptInv'
<1> SUFFICES ASSUME PromptInv, [Te!Next]_(Te!vars) PROVE PromptInv'
  OBVIOUS
<1>1. CASE UNCHANGED Te!vars
  BY <1>1 DEF Te!vars, PromptInv, PromptKinds, QueuedOnce, HeardOnce, OldestShown, QueueWaits, ReasonFor, Meant
<1>2. QED
  BY <1>1, AskKeeps, ElsewhereKeeps, ResolvedKeeps, PressKeeps DEF Te!Next

LEMMA PromptsAlone == Spec => Te!Init /\ [][Te!Next]_(Te!vars)
<1>1. Init => Te!Init
  BY DEF Init
<1>2. [Next]_<<world, bus, page, tree, prompts, reels>> => [Te!Next]_(Te!vars)
  BY DEF Next, Te!vars, prompts
<1>3. QED
  BY <1>1, <1>2, PTL DEF Spec

(* For any requests, whichever view answers them and however late that is heard: *)
(* a reason goes with no request but the one it was typed for, none is answered   *)
(* twice, and what waits is shown in its turn (onKey, finish and the listeners of *)
(* attachTerminal).                                                            *)
THEOREM PromptsAreKept == Spec => []PromptsKept
<1>1. PromptInv => PromptsKept
  BY InvMeans DEF PromptsKept
<1>2. QED
  BY <1>1, PromptInit, PromptNext, PromptsAlone, PTL

-----------------------------------------------------------------------------
(* The notices. *)

Voices == {<<>>} \cup ((Said \cup {N!LoadEcho}) \X (SUBSET {"page", "context"}) \X BOOLEAN)

NoticeKinds ==
  /\ entries \in Seq(N!Notice)
  /\ seq \in Nat /\ dropped \in Nat /\ busEvents \in Nat /\ activity \in Nat
  /\ voice \in Voices /\ times \in [N!Message -> Nat]

Entry(i) == entries[i].message

\* A message has one entry.
Apart == \A i, j \in 1..Len(entries) : Entry(i) = Entry(j) => i = j

LEMMA MessageKind ==
  ASSUME NEW m \in N!Message
  PROVE  N!Severity[m.kind] \in Nat
<1>1. m.kind \in {"redirect", "http", "blocked", "netfail", "download", "pageerror", "dialog",
                  "consoleError", "consoleWarn", "crash"}
  BY SaidAssumption DEF N!Message
<1> QED BY <1>1 DEF N!Severity

(* There is always one of the entries to drop.                                  *)
LEMMA VictimThere ==
  ASSUME NEW all \in Seq(N!Notice), Len(all) > 0
  PROVE  N!Victim(all) \in 1..Len(all)
<1> DEFINE Worse(i, j) == \/ all[i].delivered /\ ~all[j].delivered
                          \/ all[i].delivered = all[j].delivered
                             /\ N!NoticeRank(all[i]) < N!NoticeRank(all[j])
           worst == {i \in 1..Len(all) : \A j \in 1..Len(all) : ~Worse(j, i)}
           rank(i) == N!NoticeRank(all[i])
           shown == {i \in 1..Len(all) : all[i].delivered}
           among == IF shown = {} THEN 1..Len(all) ELSE shown
           ranks == {rank(i) : i \in among}
<1>1. \A i \in 1..Len(all) : rank(i) \in Nat
  <2> SUFFICES ASSUME NEW i \in 1..Len(all) PROVE rank(i) \in Nat
    OBVIOUS
  <2>1. all[i] \in N!Notice
    OBVIOUS
  <2>2. all[i].message \in N!Message /\ all[i].count \in Nat
    BY <2>1 DEF N!Notice
  <2>3. PICK p \in Nat : p = N!Severity[all[i].message.kind]
    BY <2>2, MessageKind
  <2>4. PICK c \in Nat : c = all[i].count
    BY <2>2
  <2>5. p * 1000 + c \in Nat
    OBVIOUS
  <2> QED BY <2>3, <2>4, <2>5 DEF N!NoticeRank
<1>2. among # {} /\ among \subseteq 1..Len(all)
  OBVIOUS
<1> HIDE DEF rank
<1>3. PICK r \in ranks : \A q \in ranks : r <= q
  <2>1. ranks \subseteq Nat /\ ranks # {}
    BY <1>1, <1>2
  <2> HIDE DEF ranks
  <2> QED BY <2>1, LeastNat
<1>4. PICK i \in among : r = rank(i)
  BY <1>3
<1>5. ASSUME NEW j \in 1..Len(all) PROVE ~Worse(j, i)
  <2>1. i \in 1..Len(all) /\ rank(i) \in Nat /\ rank(j) \in Nat
    BY <1>1, <1>2, <1>4
  <2>2. ~(all[j].delivered /\ ~all[i].delivered)
    BY <1>4
  <2>3. ASSUME all[j].delivered = all[i].delivered PROVE ~(rank(j) < rank(i))
    <3>1. j \in among
      BY <1>4, <2>3
    <3>2. rank(i) <= rank(j)
      BY <1>3, <1>4, <3>1
    <3> QED BY <2>1, <3>2
  <2> QED BY <2>2, <2>3 DEF rank
<1>6. i \in worst
  BY <1>2, <1>4, <1>5
<1>7. worst \subseteq Nat
  OBVIOUS
<1>8. N!Victim(all) = CHOOSE k \in worst : \A j \in worst : k <= j
  BY DEF N!Victim
<1>9. worst \subseteq 1..Len(all)
  OBVIOUS
<1> HIDE DEF worst
<1>10. PICK k \in worst : \A j \in worst : k <= j
  BY <1>6, <1>7, LeastNat
<1>11. N!Victim(all) \in worst
  BY <1>8, <1>10
<1> QED BY <1>9, <1>11

\* What the log has of a message: an entry the model has not been told of.
Fresh(m) == \E i \in 1..Len(entries) : Entry(i) = m /\ ~entries[i].delivered

\* The count of an entry when m has been pushed on top of it, or on top of another.
Counted(i, m) == IF Entry(i) = m THEN entries[i].count + 1 ELSE entries[i].count

LEMMA RepeatKind ==
  ASSUME seq \in Nat, NEW e \in N!Notice
  PROVE  /\ N!Repeat(e) \in N!Notice /\ N!Repeat(e).message = e.message
         /\ N!Repeat(e).count = e.count + 1 /\ ~N!Repeat(e).delivered
<1>1. PICK m \in N!Message, q \in Nat, c \in Nat, d \in BOOLEAN, l \in BOOLEAN :
        e = [message |-> m, seq |-> q, count |-> c, delivered |-> d, listed |-> l]
  <2>1. /\ e.message \in N!Message /\ e.seq \in Nat /\ e.count \in Nat
        /\ e.delivered \in BOOLEAN /\ e.listed \in BOOLEAN
        /\ e = [message |-> e.message, seq |-> e.seq, count |-> e.count,
                delivered |-> e.delivered, listed |-> e.listed]
    BY DEF N!Notice
  <2> QED BY <2>1, Zenon
<1>2. PICK p \in Nat : N!Repeat(e) = [message |-> m, seq |-> p, count |-> c + 1, delivered |-> FALSE, listed |-> l]
  <2>1. CASE d = TRUE
    <3>1. e = [message |-> m, seq |-> q, count |-> c, delivered |-> TRUE, listed |-> l]
      BY <1>1, <2>1
    <3>2. N!Repeat(e) = [message |-> m, seq |-> seq + 1, count |-> c + 1, delivered |-> FALSE, listed |-> l]
      <4>1. N!Repeat([message |-> m, seq |-> q, count |-> c, delivered |-> TRUE, listed |-> l]) = [message |-> m, seq |-> seq + 1, count |-> c + 1, delivered |-> FALSE, listed |-> l]
        BY DEF N!Repeat
      <4> QED BY <3>1, <4>1
    <3>3. seq + 1 \in Nat
      OBVIOUS
    <3> QED BY <3>2, <3>3, Zenon
  <2>2. CASE d = FALSE
    <3>1. e = [message |-> m, seq |-> q, count |-> c, delivered |-> FALSE, listed |-> l]
      BY <1>1, <2>2
    <3>2. N!Repeat(e) = [message |-> m, seq |-> q, count |-> c + 1, delivered |-> FALSE, listed |-> l]
      <4>1. N!Repeat([message |-> m, seq |-> q, count |-> c, delivered |-> FALSE, listed |-> l]) = [message |-> m, seq |-> q, count |-> c + 1, delivered |-> FALSE, listed |-> l]
        BY DEF N!Repeat
      <4> QED BY <3>1, <4>1
    <3> QED BY <3>2, Zenon
  <2> QED BY <2>1, <2>2
<1>3. N!Repeat(e) \in N!Notice
  BY <1>2 DEF N!Notice
<1> QED BY <1>1, <1>2, <1>3

(* A notice is pushed: its message has an entry to tell of, the other messages  *)
(* keep theirs, and a count is one more than it was.                            *)
LEMMA PushIs ==
  ASSUME NoticeKinds, Apart, NEW m \in N!Message, N!Push(m)
  PROVE  /\ entries' \in Seq(N!Notice) /\ Apart'
         /\ seq' \in Nat /\ dropped' \in Nat /\ busEvents' \in Nat /\ activity' \in Nat
         /\ dropped' = 0 => dropped = 0 /\ Fresh(m)'
         /\ dropped' = 0 => \A n \in N!Message :
              /\ Fresh(n) => Fresh(n)'
              /\ n # m /\ (\E i \in 1..Len(entries) : Entry(i) = n)
                   => \E i \in 1..Len(entries') : Entry(i)' = n
         /\ \A j \in 1..Len(entries') :
              \/ Entry(j)' = m /\ entries'[j].count = 1 /\ \A i \in 1..Len(entries) : Entry(i) # m
              \/ \E i \in 1..Len(entries) : /\ Entry(i) = Entry(j)'
                                            /\ entries'[j].count = Counted(i, m)
<1> USE DEF NoticeKinds
<1> DEFINE goal == /\ entries' \in Seq(N!Notice) /\ Apart'
                   /\ dropped' \in Nat
                   /\ dropped' = 0 => dropped = 0 /\ Fresh(m)'
                   /\ dropped' = 0 => \A n \in N!Message :
                        /\ Fresh(n) => Fresh(n)'
                        /\ n # m /\ (\E i \in 1..Len(entries) : Entry(i) = n)
                             => \E i \in 1..Len(entries') : Entry(i)' = n
                   /\ \A j \in 1..Len(entries') :
                        \/ Entry(j)' = m /\ entries'[j].count = 1 /\ \A i \in 1..Len(entries) : Entry(i) # m
                        \/ \E i \in 1..Len(entries) :
                             /\ Entry(i) = Entry(j)'
                             /\ entries'[j].count = Counted(i, m)
<1>1. activity' \in Nat /\ seq' \in Nat /\ busEvents' \in Nat
  BY DEF N!Push, N!Tells
<1>2. ASSUME NEW k \in 1..Len(entries), Entry(k) = m, UNCHANGED dropped,
             entries' = [entries EXCEPT ![k] = N!Repeat(entries[k])]
      PROVE  goal
  <2>1. PICK e \in N!Notice : e = entries[k] /\ e.message = m
    BY <1>2 DEF Entry
  <2> DEFINE f == N!Repeat(e)
  <2>2. f \in N!Notice /\ f.message = m /\ f.count = e.count + 1 /\ ~f.delivered
    BY <2>1, RepeatKind
  <2>0. entries' = [entries EXCEPT ![k] = f]
    BY <1>2, <2>1
  <2> HIDE DEF f
  <2>3. entries' \in Seq(N!Notice) /\ Len(entries') = Len(entries)
    BY <2>0, <2>2
  <2>4. \A j \in 1..Len(entries) : entries'[j] = IF j = k THEN f ELSE entries[j]
    BY <2>0
  <2>5. \A j \in 1..Len(entries) : Entry(j)' = Entry(j)
    BY <2>1, <2>2, <2>4 DEF Entry
  <2>6. Apart'
    BY <2>3, <2>5 DEF Apart
  <2>7. Fresh(m)'
    BY <2>2, <2>3, <2>4, <2>5, <1>2 DEF Fresh
  <2>8. ASSUME NEW n \in N!Message, Fresh(n) PROVE Fresh(n)'
    <3>1. PICK i \in 1..Len(entries) : Entry(i) = n /\ ~entries[i].delivered
      BY <2>8 DEF Fresh
    <3>2. Entry(i)' = n /\ ~entries'[i].delivered
      BY <2>2, <2>4, <2>5, <3>1
    <3> QED BY <2>3, <3>1, <3>2 DEF Fresh
  <2>9. ASSUME NEW j \in 1..Len(entries)
        PROVE  Entry(j) = Entry(j)' /\ entries'[j].count = Counted(j, m)
    <3>1. CASE j = k
      BY <1>2, <2>1, <2>2, <2>4, <2>5, <3>1 DEF Counted
    <3>2. CASE j # k
      <4>1. entries'[j] = entries[j] /\ Entry(j) # m
        BY <1>2, <2>4, <3>2 DEF Apart
      <4> QED BY <2>5, <4>1 DEF Counted
    <3> QED BY <3>1, <3>2
  <2>10. dropped' \in Nat /\ (dropped' = 0 => dropped = 0)
    BY <1>2
  <2> QED BY <2>3, <2>5, <2>6, <2>7, <2>8, <2>9, <2>10
<1>3. ASSUME \A i \in 1..Len(entries) : Entry(i) # m,
             NEW f \in N!Notice, f.message = m, f.count = 1, ~f.delivered,
             \/ entries' = Append(entries, f) /\ UNCHANGED dropped
             \/ entries' = RemoveAt(Append(entries, f), N!Victim(Append(entries, f))) /\ dropped' = dropped + 1
      PROVE  goal
  <2> DEFINE all == Append(entries, f)
             n0 == Len(entries)
  <2>1. /\ all \in Seq(N!Notice) /\ Len(all) = n0 + 1 /\ all[n0 + 1] = f
        /\ \A i \in 1..n0 : all[i] = entries[i]
    OBVIOUS
  <2> HIDE DEF all
  <2>2. ASSUME NEW i \in 1..(n0 + 1), NEW j \in 1..(n0 + 1), all[i].message = all[j].message PROVE i = j
    <3>1. n0 \in Nat
      OBVIOUS
    <3>2. CASE i \in 1..n0 /\ j \in 1..n0
      <4>1. Entry(i) = Entry(j)
        BY <2>1, <2>2, <3>2 DEF Entry
      <4> QED BY <3>2, <4>1 DEF Apart
    <3>3. CASE i = n0 + 1 /\ j \in 1..n0
      BY <1>3, <2>1, <2>2, <3>3 DEF Entry
    <3>4. CASE i \in 1..n0 /\ j = n0 + 1
      BY <1>3, <2>1, <2>2, <3>4 DEF Entry
    <3> QED BY <3>1, <3>2, <3>3, <3>4
  <2>3. ASSUME NEW i \in 1..(n0 + 1)
        PROVE  \/ all[i].message = m /\ all[i].count = 1
               \/ \E h \in 1..n0 : /\ Entry(h) = all[i].message /\ Entry(h) # m
                                   /\ all[i].count = entries[h].count
    <3>1. CASE i = n0 + 1
      BY <1>3, <2>1, <3>1
    <3>2. CASE i # n0 + 1
      <4>1. i \in 1..n0 /\ all[i] = entries[i]
        BY <2>1, <3>2
      <4> QED BY <1>3, <4>1 DEF Entry
    <3> QED BY <3>1, <3>2
  <2>4. CASE entries' = all /\ UNCHANGED dropped
    <3>1. Apart'
      BY <2>1, <2>2, <2>4 DEF Apart, Entry
    <3>2. Fresh(m)'
      BY <1>3, <2>1, <2>4 DEF Fresh, Entry
    <3>3. ASSUME NEW i \in 1..n0 PROVE i \in 1..Len(entries') /\ entries'[i] = entries[i]
      BY <2>1, <2>4
    <3>4. \A n \in N!Message : Fresh(n) => Fresh(n)'
      BY <3>3 DEF Fresh, Entry
    <3>5. \A n \in N!Message : (\E i \in 1..Len(entries) : Entry(i) = n) => \E i \in 1..Len(entries') : Entry(i)' = n
      BY <3>3 DEF Entry
    <3>6. ASSUME NEW j \in 1..Len(entries')
          PROVE  \/ Entry(j)' = m /\ entries'[j].count = 1 /\ \A i \in 1..Len(entries) : Entry(i) # m
                 \/ \E i \in 1..Len(entries) :
                      /\ Entry(i) = Entry(j)'
                      /\ entries'[j].count = Counted(i, m)
      BY <1>3, <2>1, <2>3, <2>4 DEF Entry, Counted
    <3> QED BY <2>1, <2>4, <3>1, <3>2, <3>4, <3>5, <3>6
  <2>5. CASE entries' = RemoveAt(all, N!Victim(all)) /\ dropped' = dropped + 1
    <3>1. PICK k \in 1..(n0 + 1) : k = N!Victim(all)
      BY <2>1, VictimThere
    <3>2. /\ entries' \in Seq(N!Notice) /\ Len(entries') = n0
          /\ \A i \in 1..n0 : entries'[i] = IF i < k THEN all[i] ELSE all[i + 1]
      <4>1. k \in 1..Len(all) /\ Len(all) - 1 = n0
        BY <2>1, <3>1
      <4> QED BY <2>1, <2>5, <3>1, <4>1, RemoveAtProperties
    <3>3. ASSUME NEW i \in 1..n0
          PROVE  \E h \in 1..(n0 + 1) : h = (IF i < k THEN i ELSE i + 1) /\ entries'[i] = all[h]
      BY <3>2
    <3>4. Apart'
      <4> SUFFICES ASSUME NEW i \in 1..n0, NEW j \in 1..n0, entries'[i].message = entries'[j].message PROVE i = j
        BY <3>2 DEF Apart, Entry
      <4>1. PICK h \in 1..(n0 + 1) : h = (IF i < k THEN i ELSE i + 1) /\ entries'[i] = all[h]
        BY <3>3
      <4>2. PICK g \in 1..(n0 + 1) : g = (IF j < k THEN j ELSE j + 1) /\ entries'[j] = all[g]
        BY <3>3
      <4>3. h = g
        BY <2>2, <4>1, <4>2
      <4> QED BY <4>1, <4>2, <4>3
    <3>5. dropped' \in Nat /\ dropped' # 0
      BY <2>5
    <3>6. ASSUME NEW j \in 1..Len(entries')
          PROVE  \/ Entry(j)' = m /\ entries'[j].count = 1 /\ \A i \in 1..Len(entries) : Entry(i) # m
                 \/ \E i \in 1..Len(entries) :
                      /\ Entry(i) = Entry(j)'
                      /\ entries'[j].count = Counted(i, m)
      <4>1. PICK h \in 1..(n0 + 1) : entries'[j] = all[h]
        BY <3>2, <3>3
      <4> QED BY <1>3, <2>3, <4>1 DEF Entry, Counted
    <3> QED BY <3>2, <3>4, <3>5, <3>6
  <2> QED BY <1>3, <2>4, <2>5 DEF all
<1>4. goal
  <2>1. CASE \E i \in N!Of(m) : entries' = [entries EXCEPT ![i] = N!Repeat(entries[i])] /\ UNCHANGED dropped
    BY <1>2, <2>1 DEF N!Of, Entry
  <2>2. CASE /\ N!Of(m) = {}
             /\ LET longer == Append(entries, [message |-> m, seq |-> seq + 1, count |-> 1,
                                                delivered |-> FALSE, listed |-> FALSE])
                IN IF Len(longer) > MaxKept
                   THEN entries' = RemoveAt(longer, N!Victim(longer)) /\ dropped' = dropped + 1
                   ELSE entries' = longer /\ UNCHANGED dropped
    <3> DEFINE f == [message |-> m, seq |-> seq + 1, count |-> 1, delivered |-> FALSE, listed |-> FALSE]
    <3>1. f \in N!Notice /\ f.message = m /\ f.count = 1 /\ ~f.delivered
      BY DEF N!Notice
    <3>2. \/ entries' = Append(entries, f) /\ UNCHANGED dropped
          \/ entries' = RemoveAt(Append(entries, f), N!Victim(Append(entries, f))) /\ dropped' = dropped + 1
      BY <2>2
    <3>3. \A i \in 1..Len(entries) : Entry(i) # m
      BY <2>2 DEF N!Of, Entry
    <3> HIDE DEF f, goal
    <3>4. CASE entries' = Append(entries, f) /\ UNCHANGED dropped
      BY <1>3, <3>1, <3>3, <3>4, ZenonT(60)
    <3>5. CASE entries' = RemoveAt(Append(entries, f), N!Victim(Append(entries, f))) /\ dropped' = dropped + 1
      BY <1>3, <3>1, <3>3, <3>5, ZenonT(60)
    <3> QED BY <3>2, <3>4, <3>5
  <2> HIDE DEF goal
  <2>3. CASE N!Of(m) = {}
    <3>1. LET longer == Append(entries, [message |-> m, seq |-> seq + 1, count |-> 1,
                                          delivered |-> FALSE, listed |-> FALSE])
          IN IF Len(longer) > MaxKept
             THEN entries' = RemoveAt(longer, N!Victim(longer)) /\ dropped' = dropped + 1
             ELSE entries' = longer /\ UNCHANGED dropped
      BY <2>3 DEF N!Push, N!RemoveAt, RemoveAt
    <3> QED BY <2>2, <2>3, <3>1
  <2>4. CASE N!Of(m) # {}
    <3>1. \E i \in N!Of(m) : entries' = [entries EXCEPT ![i] = N!Repeat(entries[i])] /\ UNCHANGED dropped
      BY <2>4 DEF N!Push
    <3> QED BY <2>1, <3>1
  <2> QED BY <2>3, <2>4
<1> QED BY <1>1, <1>4

\* How often a message has come to the log; what is being said is still on its way to it.
Heard(m) == IF m \in N!Unheard \ {N!LoadEcho} THEN times[m] - 1 ELSE times[m]

CountFits(m) ==
  /\ Heard(m) \in Nat
  /\ \A i \in 1..Len(entries) : Entry(i) = m => entries[i].count <= Heard(m)
  /\ dropped = 0 => \A i \in 1..Len(entries) : Entry(i) = m => entries[i].count = Heard(m)
  /\ dropped = 0 => Heard(m) = 0 \/ \E i \in 1..Len(entries) : Entry(i) = m

\* Of a refused page load somebody tells: the gate, the answer, or the tunnel's timer.
LoadsTold ==
  /\ flying \subseteq N!Request /\ noted \subseteq told
  /\ refusedLoads \subseteq seen /\ refusedLoads \subseteq told \cup timers
  /\ \A r \in flying : /\ r.mine => r.place \in seen
                       /\ r.refused => r.mine
                       /\ r.refused /\ r.via = "tunnel" => r.place \in told \cup timers

LogFine ==
  /\ NoticeKinds /\ Apart /\ N!Pending
  /\ \A m \in N!Message : CountFits(m)
  /\ news \subseteq N!Message \ {N!LoadEcho}

NoticeInv == LogFine /\ LoadsTold

LEMMA PushCounts ==
  ASSUME NoticeKinds, Apart, NEW m \in N!Message, N!Push(m), NEW n \in N!Message, CountFits(n),
         Heard(n)' = IF n = m THEN Heard(n) + 1 ELSE Heard(n)
  PROVE  CountFits(n)'
<1>1. PICK h \in Nat : h = Heard(n)
  BY DEF CountFits
<1>2. PICK g \in Nat : g = Heard(n)' /\ g = IF n = m THEN h + 1 ELSE h
  BY <1>1
<1>3. /\ dropped \in Nat /\ dropped' \in Nat /\ (dropped' = 0 => dropped = 0)
      /\ entries \in Seq(N!Notice) /\ entries' \in Seq(N!Notice)
  BY PushIs DEF NoticeKinds
<1>4. ASSUME NEW j \in 1..Len(entries'), Entry(j)' = n
      PROVE  entries'[j].count <= g /\ (dropped' = 0 => entries'[j].count = g)
  <2>1. CASE n = m /\ entries'[j].count = 1 /\ \A i \in 1..Len(entries) : Entry(i) # m
    <3>1. dropped' = 0 => h = 0
      BY <1>1, <1>3, <2>1 DEF CountFits
    <3> QED BY <1>2, <2>1, <3>1
  <2>2. ASSUME NEW i \in 1..Len(entries), Entry(i) = n, entries'[j].count = Counted(i, m)
        PROVE  entries'[j].count <= g /\ (dropped' = 0 => entries'[j].count = g)
    <3>1. entries[i] \in N!Notice
      BY <1>3
    <3>2. PICK c \in Nat : c = entries[i].count
      BY <3>1 DEF N!Notice
    <3>3. c <= h /\ (dropped' = 0 => c = h)
      BY <1>1, <1>3, <2>2, <3>2 DEF CountFits
    <3>4. CASE n = m
      <4>1. entries'[j].count = c + 1 /\ g = h + 1
        BY <1>2, <2>2, <3>2, <3>4 DEF Counted
      <4> QED BY <3>3, <4>1
    <3>5. CASE n # m
      <4>1. entries'[j].count = c /\ g = h
        BY <1>2, <2>2, <3>2, <3>5 DEF Counted
      <4> QED BY <3>3, <4>1
    <3> QED BY <3>4, <3>5
  <2> QED BY <1>4, <2>1, <2>2, PushIs
<1>5. ASSUME dropped' = 0, g # 0 PROVE \E i \in 1..Len(entries') : Entry(i)' = n
  <2>1. CASE n = m
    <3>1. Fresh(m)'
      BY <1>5, PushIs
    <3> QED BY <2>1, <3>1 DEF Fresh
  <2>2. CASE n # m
    <3>1. dropped = 0 /\ h # 0
      BY <1>2, <1>3, <1>5, <2>2
    <3>2. \E i \in 1..Len(entries) : Entry(i) = n
      BY <1>1, <3>1 DEF CountFits
    <3> QED BY <1>5, <2>2, <3>2, PushIs
  <2> QED BY <2>1, <2>2
<1> QED BY <1>2, <1>4, <1>5 DEF CountFits

LEMMA NoticeInit == N!Init => NoticeInv
<1> SUFFICES ASSUME N!Init PROVE NoticeInv
  OBVIOUS
<1> USE DEF N!Init
<1>1. NoticeKinds
  <2>1. <<>> \in Seq(N!Notice)
    OBVIOUS
  <2> QED BY <2>1 DEF NoticeKinds, Voices
<1>2. Apart /\ LoadsTold /\ N!Pending
  BY DEF Apart, LoadsTold, N!Pending
<1>3. ASSUME NEW m \in N!Message PROVE CountFits(m)
  BY DEF CountFits, Heard, N!Unheard
<1> QED BY <1>1, <1>2, <1>3 DEF NoticeInv, LogFine
(* With the log and what is being said left alone, the log stays fine.          *)
LEMMA LogStays ==
  ASSUME LogFine, UNCHANGED <<entries, seq, dropped, busEvents, activity, voice, news, times>>
  PROVE  LogFine'
BY DEF LogFine, NoticeKinds, Voices, Apart, Entry, N!Pending, N!Of, N!Unheard, CountFits, Heard

(* Something happens while nothing is being said: it is counted, and to tell.   *)
LEMMA HappensKeeps ==
  ASSUME LogFine, voice = <<>>, voice' = voice, NEW m \in N!Message, m # N!LoadEcho, N!Happens(m)
  PROVE  LogFine' /\ told \subseteq told' /\ (m.kind = "blocked" => m.text \in told')
<1>1. N!Push(m) /\ news' = news \cup {m} /\ times' = [times EXCEPT ![m] = @ + 1]
  BY DEF N!Happens
<1>2. N!Unheard = {} /\ N!Unheard' = {}
  BY DEF N!Unheard
<1>3. NoticeKinds /\ Apart
  BY DEF LogFine
<1>4. times' \in [N!Message -> Nat] /\ \A n \in N!Message : times'[n] = IF n = m THEN times[n] + 1 ELSE times[n]
  BY <1>1, <1>3 DEF NoticeKinds
<1>5. ASSUME NEW n \in N!Message PROVE CountFits(n)'
  <2>1. Heard(n) = times[n] /\ Heard(n)' = times'[n]
    BY <1>2 DEF Heard
  <2>2. Heard(n)' = IF n = m THEN Heard(n) + 1 ELSE Heard(n)
    BY <1>4, <2>1
  <2>3. CountFits(n)
    BY DEF LogFine
  <2> QED BY <1>1, <1>3, <2>2, <2>3, PushCounts
<1>6. NoticeKinds' /\ Apart'
  BY <1>1, <1>3, <1>4, PushIs DEF NoticeKinds, Voices
<1>7. N!Pending'
  <2> SUFFICES ASSUME NEW n \in news', dropped' = 0 PROVE Fresh(n)'
    BY <1>6 DEF N!Pending, N!Of, Fresh, Entry, NoticeKinds
  <2>1. dropped = 0 /\ Fresh(m)' /\ \A k \in N!Message : Fresh(k) => Fresh(k)'
    BY <1>1, <1>3, PushIs
  <2>2. CASE n = m
    BY <2>1, <2>2
  <2>3. CASE n # m
    <3>1. n \in news /\ n \in N!Message
      BY <1>1, <2>3 DEF LogFine
    <3>2. Fresh(n)
      BY <1>2, <2>1, <3>1 DEF LogFine, N!Pending, N!Of, Fresh, Entry
    <3> QED BY <2>1, <3>1, <3>2
  <2> QED BY <2>2, <2>3
<1>8. news' \subseteq N!Message \ {N!LoadEcho}
  BY <1>1 DEF LogFine
<1>9. told \subseteq told' /\ (m.kind = "blocked" => m.text \in told')
  BY DEF N!Happens
<1> QED BY <1>5, <1>6, <1>7, <1>8, <1>9 DEF LogFine

(* A page starts to speak: that is still on its way to the log.                 *)
LEMMA SpeakKeeps ==
  ASSUME LogFine, voice = <<>>, NEW m \in Said \cup {N!LoadEcho}, N!Speak(m)
  PROVE  LogFine'
<1>1. PICK levels \in SUBSET {"page", "context"} : voice' = <<m, levels, FALSE>>
  BY DEF N!Speak
<1>2. UNCHANGED <<entries, seq, dropped, busEvents, activity>>
  BY DEF N!Speak, N!log
<1>3. N!Unheard = {} /\ N!Unheard' = {m}
  BY <1>1 DEF N!Unheard
<1>4. voice' \in Voices
  BY <1>1 DEF Voices
<1>5. NoticeKinds /\ news \subseteq N!Message \ {N!LoadEcho} /\ Apart /\ N!Pending
  BY DEF LogFine
<1>6. CASE m = N!LoadEcho
  <2>1. UNCHANGED <<news, times>>
    BY <1>6 DEF N!Speak
  <2>2. ASSUME NEW n \in N!Message PROVE CountFits(n)'
    <3>1. Heard(n)' = Heard(n)
      BY <1>3, <1>6, <2>1 DEF Heard
    <3>2. CountFits(n)
      BY DEF LogFine
    <3> QED BY <1>2, <3>1, <3>2 DEF CountFits, Entry
  <2>3. N!Pending'
    BY <1>2, <1>3, <1>5, <2>1 DEF N!Pending, N!Of
  <2> QED BY <1>2, <1>4, <1>5, <2>1, <2>2, <2>3 DEF LogFine, NoticeKinds, Apart, Entry
<1>7. CASE m # N!LoadEcho
  <2>1. m \in N!Message
    BY <1>7 DEF N!Message
  <2>2. news' = news \cup {m} /\ times' = [times EXCEPT ![m] = @ + 1]
    BY <1>7 DEF N!Speak
  <2>3. times' \in [N!Message -> Nat] /\ \A n \in N!Message : times'[n] = IF n = m THEN times[n] + 1 ELSE times[n]
    BY <1>5, <2>1, <2>2 DEF NoticeKinds
  <2>4. ASSUME NEW n \in N!Message PROVE CountFits(n)'
    <3>1. times[n] \in Nat
      BY <1>5 DEF NoticeKinds
    <3>2. Heard(n) = times[n]
      BY <1>3 DEF Heard
    <3>3. Heard(n)' = IF n = m THEN times'[n] - 1 ELSE times'[n]
      BY <1>3, <1>7 DEF Heard
    <3>4. Heard(n)' = Heard(n)
      BY <2>3, <3>1, <3>2, <3>3
    <3>5. CountFits(n)
      BY DEF LogFine
    <3> QED BY <1>2, <3>4, <3>5 DEF CountFits, Entry
  <2>5. N!Pending'
    BY <1>2, <1>3, <1>5, <2>2 DEF N!Pending, N!Of
  <2>6. news' \subseteq N!Message \ {N!LoadEcho}
    BY <1>5, <1>7, <2>1, <2>2
  <2> QED BY <1>2, <1>4, <1>5, <2>3, <2>4, <2>5, <2>6 DEF LogFine, NoticeKinds, Apart, Entry
<1> QED BY <1>6, <1>7

(* A listener hears it: the first to hear it counts it, the next does not.      *)
LEMMA HearKeeps ==
  ASSUME LogFine, NEW level, N!Hear(level)
  PROVE  LogFine'
<1>1. NoticeKinds /\ news \subseteq N!Message \ {N!LoadEcho} /\ Apart /\ N!Pending
  BY DEF LogFine
<1>2. voice # <<>> /\ UNCHANGED <<news, times>>
  BY DEF N!Hear
<1>3. PICK m \in Said \cup {N!LoadEcho}, levels \in SUBSET {"page", "context"}, handled \in BOOLEAN :
        voice = <<m, levels, handled>>
  BY <1>1, <1>2 DEF NoticeKinds, Voices
<1>4. voice' = <<>> \/ voice' = <<m, levels \ {level}, TRUE>>
  BY <1>3 DEF N!Hear
<1>5. voice' \in Voices /\ N!Unheard' = {}
  <2>1. CASE voice' = <<>>
    BY <2>1 DEF Voices, N!Unheard
  <2>2. CASE voice' = <<m, levels \ {level}, TRUE>>
    <3>1. voice'[3] = TRUE
      BY <2>2
    <3>2. levels \ {level} \in SUBSET {"page", "context"}
      OBVIOUS
    <3>3. voice' \in (Said \cup {N!LoadEcho}) \X (SUBSET {"page", "context"}) \X BOOLEAN
      BY <2>2, <3>2
    <3> QED BY <3>1, <3>3 DEF Voices, N!Unheard
  <2> QED BY <1>4, <2>1, <2>2
<1>6. N!Unheard = IF handled THEN {} ELSE {m}
  BY <1>2, <1>3 DEF N!Unheard
<1>7. CASE handled \/ m = N!LoadEcho
  <2>1. UNCHANGED <<entries, seq, dropped, busEvents, activity>>
    BY <1>3, <1>7 DEF N!Hear, N!log
  <2>2. ASSUME NEW n \in N!Message PROVE CountFits(n)'
    <3>1. Heard(n)' = Heard(n)
      BY <1>2, <1>5, <1>6, <1>7 DEF Heard
    <3>2. CountFits(n)
      BY DEF LogFine
    <3> QED BY <2>1, <3>1, <3>2 DEF CountFits, Entry
  <2>3. N!Pending'
    BY <1>1, <1>2, <1>5, <1>6, <1>7, <2>1 DEF N!Pending, N!Of
  <2> QED BY <1>1, <1>2, <1>5, <2>1, <2>2, <2>3 DEF LogFine, NoticeKinds, Apart, Entry
<1>8. CASE ~handled /\ m # N!LoadEcho
  <2>1. N!Push(m) /\ m \in N!Message
    BY <1>3, <1>8 DEF N!Hear, N!Message
  <2>2. ASSUME NEW n \in N!Message PROVE CountFits(n)'
    <3>1. times[n] \in Nat
      BY <1>1 DEF NoticeKinds
    <3>2. Heard(n)' = times[n] /\ Heard(n) = IF n = m THEN times[n] - 1 ELSE times[n]
      BY <1>2, <1>5, <1>6, <1>8 DEF Heard
    <3>3. Heard(n)' = IF n = m THEN Heard(n) + 1 ELSE Heard(n)
      BY <3>1, <3>2
    <3>4. CountFits(n)
      BY DEF LogFine
    <3> QED BY <1>1, <2>1, <3>3, <3>4, PushCounts
  <2>3. NoticeKinds' /\ Apart'
    BY <1>1, <1>2, <1>5, <2>1, PushIs DEF NoticeKinds
  <2>4. N!Pending'
    <3> SUFFICES ASSUME NEW n \in news', dropped' = 0 PROVE Fresh(n)'
      BY <2>3 DEF N!Pending, N!Of, Fresh, Entry, NoticeKinds
    <3>1. dropped = 0 /\ Fresh(m)' /\ \A k \in N!Message : Fresh(k) => Fresh(k)'
      BY <1>1, <2>1, PushIs
    <3>2. CASE n = m
      BY <3>1, <3>2
    <3>3. CASE n # m
      <4>1. n \in news \ N!Unheard /\ n \in N!Message
        BY <1>1, <1>2, <1>6, <3>3
      <4>2. Fresh(n)
        BY <1>1, <3>1, <4>1 DEF N!Pending, N!Of, Fresh, Entry
      <4> QED BY <3>1, <4>1, <4>2
    <3> QED BY <3>2, <3>3
  <2> QED BY <1>1, <1>2, <2>2, <2>3, <2>4 DEF LogFine
<1> QED BY <1>7, <1>8

\* An entry that is shown, delivered or left alone.
ShownAs(e, shown, fresh) == IF shown THEN [e EXCEPT !.delivered = TRUE, !.listed = TRUE]
                            ELSE IF fresh THEN [e EXCEPT !.delivered = TRUE] ELSE e

LEMMA ShownIs ==
  ASSUME NEW e \in N!Notice, NEW shown \in BOOLEAN, NEW fresh \in BOOLEAN
  PROVE  /\ ShownAs(e, shown, fresh) \in N!Notice /\ ShownAs(e, shown, fresh).message = e.message
         /\ ShownAs(e, shown, fresh).count = e.count
         /\ ~shown /\ ~fresh => ShownAs(e, shown, fresh) = e
<1>1. PICK m \in N!Message, q \in Nat, c \in Nat, d \in BOOLEAN, l \in BOOLEAN :
        e = [message |-> m, seq |-> q, count |-> c, delivered |-> d, listed |-> l]
  <2>1. /\ e.message \in N!Message /\ e.seq \in Nat /\ e.count \in Nat
        /\ e.delivered \in BOOLEAN /\ e.listed \in BOOLEAN
        /\ e = [message |-> e.message, seq |-> e.seq, count |-> e.count,
                delivered |-> e.delivered, listed |-> e.listed]
    BY DEF N!Notice
  <2> QED BY <2>1, Zenon
<1> DEFINE lit == [message |-> m, seq |-> q, count |-> c, delivered |-> d, listed |-> l]
<1>2. PICK b \in BOOLEAN, k \in BOOLEAN :
        ShownAs(e, shown, fresh) = [message |-> m, seq |-> q, count |-> c, delivered |-> b, listed |-> k]
  <2>1. CASE shown
    <3>1. ShownAs(lit, shown, fresh) = [message |-> m, seq |-> q, count |-> c, delivered |-> TRUE, listed |-> TRUE]
      BY <2>1 DEF ShownAs
    <3> QED BY <1>1, <3>1, Zenon
  <2>2. CASE ~shown /\ fresh
    <3>1. ShownAs(lit, shown, fresh) = [message |-> m, seq |-> q, count |-> c, delivered |-> TRUE, listed |-> l]
      BY <2>2 DEF ShownAs
    <3> QED BY <1>1, <3>1, Zenon
  <2>3. CASE ~shown /\ ~fresh
    <3>1. ShownAs(e, shown, fresh) = e
      BY <2>3 DEF ShownAs
    <3> QED BY <1>1, <3>1, Zenon
  <2> QED BY <2>1, <2>2, <2>3
<1>3. ShownAs(e, shown, fresh) \in N!Notice
  BY <1>2 DEF N!Notice
<1>4. ~shown /\ ~fresh => ShownAs(e, shown, fresh) = e
  BY DEF ShownAs
<1> QED BY <1>1, <1>2, <1>3, <1>4

(* Entries shown, delivered or left alone are of the same messages and counts.  *)
LEMMA EntriesTold ==
  ASSUME entries \in Seq(N!Notice), NEW A, NEW B,
         entries' = [i \in 1..Len(entries) |-> ShownAs(entries[i], i \in A, i \in B)]
  PROVE  /\ entries' \in Seq(N!Notice) /\ Len(entries') = Len(entries)
         /\ \A i \in 1..Len(entries) : /\ Entry(i)' = Entry(i) /\ entries'[i].count = entries[i].count
                                       /\ i \notin A \cup B => entries'[i] = entries[i]
<1>1. ASSUME NEW i \in 1..Len(entries)
      PROVE  /\ entries'[i] \in N!Notice /\ entries'[i].message = entries[i].message
             /\ entries'[i].count = entries[i].count
             /\ i \notin A \cup B => entries'[i] = entries[i]
  <2>1. entries[i] \in N!Notice
    OBVIOUS
  <2>2. entries'[i] = ShownAs(entries[i], i \in A, i \in B)
    OBVIOUS
  <2>3. PICK a \in BOOLEAN, b \in BOOLEAN : /\ ShownAs(entries[i], i \in A, i \in B) = ShownAs(entries[i], a, b)
                                            /\ i \notin A \cup B => ~a /\ ~b
    <3>1. CASE i \in A
      <4>1. ShownAs(entries[i], i \in A, i \in B) = ShownAs(entries[i], TRUE, TRUE)
        BY <3>1, Zenon DEF ShownAs
      <4> QED BY <3>1, <4>1
    <3>2. CASE i \notin A /\ i \in B
      <4>1. ShownAs(entries[i], i \in A, i \in B) = ShownAs(entries[i], FALSE, TRUE)
        BY <3>2, Zenon DEF ShownAs
      <4> QED BY <3>2, <4>1
    <3>3. CASE i \notin A /\ i \notin B
      <4>1. ShownAs(entries[i], i \in A, i \in B) = ShownAs(entries[i], FALSE, FALSE)
        BY <3>3, Zenon DEF ShownAs
      <4> QED BY <4>1
    <3> QED BY <3>1, <3>2, <3>3, Zenon
  <2>4. entries'[i] = ShownAs(entries[i], a, b)
    BY <2>2, <2>3
  <2> QED BY <2>1, <2>3, <2>4, ShownIs
<1>2. entries' \in Seq(N!Notice) /\ Len(entries') = Len(entries)
  <2>1. Len(entries) \in Nat
    OBVIOUS
  <2>2. DOMAIN entries' = 1..Len(entries) /\ entries' = [i \in 1..Len(entries) |-> entries'[i]]
    OBVIOUS
  <2>3. \A i \in 1..Len(entries) : entries'[i] \in N!Notice
    BY <1>1
  <2> QED BY <2>1, <2>2, <2>3
<1> QED BY <1>1, <1>2 DEF Entry

(* What is told counts as it did, and what was not shown is still to tell.      *)
LEMMA ToldKeeps ==
  ASSUME LogFine, N!Drain \/ N!List(1)
  PROVE  LogFine'
<1>1. NoticeKinds /\ news \subseteq N!Message \ {N!LoadEcho} /\ Apart /\ N!Pending
  BY DEF LogFine
<1>2. UNCHANGED <<seq, dropped, busEvents, activity, voice, times>>
  BY DEF N!Drain, N!List
<1>3. PICK A, B : /\ entries' = [i \in 1..Len(entries) |-> ShownAs(entries[i], i \in A, i \in B)]
                  /\ news' = {} \/ (B = {} /\ news' = news \ {Entry(i) : i \in A})
  <2>1. CASE N!Drain
    <3> DEFINE fresh == {i \in 1..Len(entries) : ~entries[i].delivered}
               shown == IF N!Cardinality(fresh) <= PerResult THEN fresh ELSE N!Top(fresh, PerResult)
    <3>1. entries' = [i \in 1..Len(entries) |->
             IF i \in shown THEN [entries[i] EXCEPT !.delivered = TRUE, !.listed = TRUE]
             ELSE IF i \in fresh THEN [entries[i] EXCEPT !.delivered = TRUE] ELSE entries[i]]
      BY <2>1, Zenon DEF N!Drain
    <3>2. news' = {}
      BY <2>1 DEF N!Drain
    <3>3. PICK A, B : A = shown /\ B = fresh
      OBVIOUS
    <3> HIDE DEF shown, fresh
    <3>4. entries' = [i \in 1..Len(entries) |-> ShownAs(entries[i], i \in A, i \in B)]
      BY <3>1, <3>3, Zenon DEF ShownAs
    <3> QED BY <3>2, <3>4, Zenon
  <2>2. CASE N!List(1)
    <3>1. PICK keep : /\ entries' = [i \in 1..Len(entries) |->
                           IF i \in keep THEN [entries[i] EXCEPT !.delivered = TRUE, !.listed = TRUE]
                           ELSE entries[i]]
                      /\ news' = news \ {Entry(i) : i \in keep}
      BY <2>2, Zenon DEF N!List, Entry
    <3>2. ASSUME NEW i \in 1..Len(entries)
          PROVE  (IF i \in keep THEN [entries[i] EXCEPT !.delivered = TRUE, !.listed = TRUE] ELSE entries[i])
                 = ShownAs(entries[i], i \in keep, i \in {})
      BY DEF ShownAs
    <3>3. entries' = [i \in 1..Len(entries) |-> ShownAs(entries[i], i \in keep, i \in {})]
      BY <3>1, <3>2, Zenon
    <3> QED BY <3>1, <3>3, Zenon
  <2> QED BY <2>1, <2>2
<1>4. /\ entries' \in Seq(N!Notice) /\ Len(entries') = Len(entries)
      /\ \A i \in 1..Len(entries) : /\ Entry(i)' = Entry(i) /\ entries'[i].count = entries[i].count
                                    /\ i \notin A \cup B => entries'[i] = entries[i]
  <2>1. entries \in Seq(N!Notice)
    BY <1>1 DEF NoticeKinds
  <2> QED BY <1>3, <2>1, EntriesTold, Zenon
<1>5. N!Unheard' = N!Unheard
  BY <1>2 DEF N!Unheard
<1>6. ASSUME NEW n \in N!Message PROVE CountFits(n)'
  <2>1. Heard(n)' = Heard(n)
    BY <1>2, <1>5 DEF Heard
  <2>2. CountFits(n)
    BY DEF LogFine
  <2> QED BY <1>2, <1>4, <2>1, <2>2 DEF CountFits
<1>7. N!Pending'
  <2> SUFFICES ASSUME NEW n \in news' \ N!Unheard, dropped = 0 PROVE Fresh(n)'
    BY <1>1, <1>2, <1>5 DEF N!Pending, N!Of, Fresh, Entry, NoticeKinds
  <2>1. news' = news \ {Entry(i) : i \in A} /\ B = {}
    BY <1>3
  <2>2. PICK i \in 1..Len(entries) : Entry(i) = n /\ ~entries[i].delivered
    BY <1>1, <2>1 DEF N!Pending, N!Of, Entry
  <2>3. i \notin A \cup B
    BY <2>1, <2>2
  <2> QED BY <1>4, <2>2, <2>3 DEF Fresh
<1>8. NoticeKinds' /\ Apart'
  BY <1>1, <1>2, <1>4 DEF NoticeKinds, Apart
<1>9. news' \subseteq N!Message \ {N!LoadEcho}
  BY <1>1, <1>3
<1> QED BY <1>6, <1>7, <1>8, <1>9 DEF LogFine

(* A refused page load stays told, or timed, whatever the network does next.    *)
LEMMA NetKeeps ==
  ASSUME NoticeInv, voice = <<>>,
         \/ N!PageOnly
         \/ \E r \in N!Request : N!Send(r)
         \/ \E r \in flying : N!Redirected(r) \/ N!Answered(r) \/ N!Denied(r) \/ N!GateAnswers(r) \/ N!Failed(r)
         \/ \E p \in Place : N!Later(p)
         \/ N!Passes
  PROVE  NoticeInv'
<1> USE DEF NoticeInv
<1>1. ASSUME NEW m, N!Happens(m), m \in N!Message /\ m.kind \in {"redirect", "http", "blocked", "netfail", "download", "crash"},
             voice' = voice
      PROVE  LogFine' /\ told \subseteq told' /\ (m.kind = "blocked" => m.text \in told')
  <2>1. m # N!LoadEcho
    <3>1. N!LoadEcho.kind = "consoleError"
      BY DEF N!LoadEcho
    <3> QED BY <1>1, <3>1
  <2> QED BY <1>1, <2>1, HappensKeeps
<1>2. ASSUME NEW k \in {"redirect", "http", "blocked", "netfail", "download"}, NEW p \in Place
      PROVE  LET m == [kind |-> k, text |-> p]
             IN m \in N!Message /\ m.kind = k /\ m.text = p
  BY DEF N!Message
<1>3. ASSUME N!Quiet, voice' = voice PROVE LogFine' /\ told' = told
  BY <1>3, LogStays DEF N!Quiet, N!log
<1>4. ASSUME NEW k \in {"redirect", "http", "blocked", "netfail", "download"}, NEW p \in Place,
             N!Happens([kind |-> k, text |-> p]), voice' = voice
      PROVE  LogFine' /\ told \subseteq told' /\ (k = "blocked" => p \in told')
  <2> DEFINE m == [kind |-> k, text |-> p]
  <2>1. m \in N!Message /\ m.kind = k /\ m.text = p
    BY <1>2
  <2>2. N!Happens(m)
    BY <1>4
  <2> HIDE DEF m
  <2> QED BY <1>1, <1>4, <2>1, <2>2
<1>5. ASSUME NEW p \in Place, N!Blocked(p), voice' = voice
      PROVE  LogFine' /\ told \subseteq told' /\ p \in told'
  BY <1>4, <1>5 DEF N!Blocked
<1>6. CASE N!PageOnly
  <2>1. voice' = voice /\ UNCHANGED <<flying, noted, seen, timers, refusedLoads>>
    BY <1>6 DEF N!PageOnly, N!net
  <2>2. LogFine' /\ told \subseteq told'
    <3>1. CASE \E p \in Place : N!Happens([kind |-> "download", text |-> p])
      BY <1>4, <2>1, <3>1
    <3>2. CASE N!Happens([kind |-> "crash", text |-> "crash"])
      <4> DEFINE m == [kind |-> "crash", text |-> "crash"]
      <4>1. m \in N!Message /\ m.kind = "crash" /\ N!Happens(m)
        BY <3>2 DEF N!Message
      <4> HIDE DEF m
      <4> QED BY <1>1, <2>1, <4>1
    <3> QED BY <1>6, <3>1, <3>2 DEF N!PageOnly
  <2> QED BY <2>1, <2>2 DEF LoadsTold
<1>7. ASSUME NEW r \in N!Request, N!Send(r) PROVE NoticeInv'
  <2>1. LogFine' /\ told' = told
    BY <1>3, <1>7 DEF N!Send
  <2>2. UNCHANGED <<noted, timers, refusedLoads>> /\ flying' = {r} /\ ~r.refused
        /\ seen' = IF r.mine THEN seen \cup {r.place} ELSE seen
    BY <1>7 DEF N!Send
  <2> QED BY <2>1, <2>2 DEF LoadsTold, N!Request
<1>8. ASSUME NEW r \in flying, r \in N!Request, r.place \in Place,
             N!Redirected(r) \/ N!Answered(r) \/ N!Denied(r) \/ N!GateAnswers(r) \/ N!Failed(r)
      PROVE  NoticeInv'
  <2>1. CASE N!Redirected(r)
    <3>1. LogFine' /\ told \subseteq told'
      BY <1>4, <1>8, <2>1 DEF N!Redirected
    <3>2. UNCHANGED <<flying, noted, seen, timers, refusedLoads>>
      BY <2>1 DEF N!Redirected, N!net
    <3> QED BY <3>1, <3>2 DEF LoadsTold
  <2>2. CASE N!Answered(r)
    <3>1. LogFine' /\ told \subseteq told'
      BY <1>3, <1>4, <1>8, <2>2 DEF N!Answered
    <3>2. UNCHANGED <<noted, seen, timers, refusedLoads>> /\ flying' = flying \ {r}
      BY <2>2 DEF N!Answered, N!Settled
    <3> QED BY <3>1, <3>2 DEF LoadsTold
  <2>3. CASE N!Denied(r)
    <3>1. LogFine' /\ told \subseteq told' /\ (r.via = "page" => r.place \in told')
      BY <1>3, <1>4, <1>8, <2>3 DEF N!Denied
    <3>2. noted' \subseteq noted \cup (IF r.via = "page" THEN {r.place} ELSE {})
      BY <2>3 DEF N!Denied
    <3>3. timers' = IF r.via = "tunnel" THEN timers \cup {r.place} ELSE timers
      BY <2>3 DEF N!Denied
    <3>4. UNCHANGED <<seen, refusedLoads>>
      BY <2>3 DEF N!Denied
    <3>5. ASSUME NEW q \in flying'
          PROVE  /\ q \in N!Request /\ (q.mine => q.place \in seen) /\ (q.refused => q.mine)
                 /\ q.refused /\ q.via = "tunnel" => q.place \in told' \cup timers'
      <4>1. q \in flying \/ (r.mine /\ q = [r EXCEPT !.refused = TRUE])
        BY <2>3 DEF N!Denied
      <4>2. CASE q \in flying
        BY <3>1, <3>3, <4>2 DEF LoadsTold
      <4>3. CASE r.mine /\ q = [r EXCEPT !.refused = TRUE]
        <5>1. q \in N!Request /\ q.place = r.place /\ q.mine = r.mine /\ q.via = r.via
          BY <1>8, <4>3 DEF N!Request
        <5> QED BY <3>3, <4>3, <5>1 DEF LoadsTold
      <4> QED BY <4>1, <4>2, <4>3
    <3> QED BY <3>1, <3>2, <3>3, <3>4, <3>5 DEF LoadsTold
  <2>4. CASE N!GateAnswers(r)
    <3>1. voice' = voice /\ UNCHANGED <<noted, seen, timers>> /\ flying' = flying \ {r} /\ r.refused
          /\ refusedLoads' = IF r.main THEN refusedLoads \cup {r.place} ELSE refusedLoads
      BY <2>4 DEF N!GateAnswers, N!Settled
    <3>2. LogFine' /\ told \subseteq told'
      BY <1>3, <1>5, <1>8, <2>4, <3>1 DEF N!GateAnswers
    <3>3. r.main => r.place \in noted \/ r.place \in told'
      BY <1>5, <1>8, <2>4, <3>1 DEF N!GateAnswers
    <3> QED BY <3>1, <3>2, <3>3 DEF LoadsTold
  <2>5. CASE N!Failed(r)
    <3>1. voice' = voice /\ UNCHANGED <<noted, seen, timers>> /\ flying' = flying \ {r} /\ r.mine
          /\ refusedLoads' = (IF r.refused /\ r.main THEN refusedLoads \cup {r.place} ELSE refusedLoads)
          /\ (r.refused => r.via = "tunnel")
      BY <2>5 DEF N!Failed, N!Settled
    <3>2. LogFine' /\ told \subseteq told'
      BY <1>3, <1>4, <1>5, <1>8, <2>5, <3>1 DEF N!Failed
    <3> QED BY <3>1, <3>2 DEF LoadsTold
  <2> QED BY <1>8, <2>1, <2>2, <2>3, <2>4, <2>5
<1>9. ASSUME NEW p \in Place, N!Later(p) PROVE NoticeInv'
  <2>1. voice' = voice /\ UNCHANGED <<flying, noted, seen, refusedLoads>> /\ timers' = timers \ {p}
    BY <1>9 DEF N!Later
  <2>2. LogFine' /\ told \subseteq told' /\ (p \in seen => p \in told')
    BY <1>3, <1>5, <1>9, <2>1 DEF N!Later
  <2>3. ASSUME NEW r \in flying, r.refused /\ r.via = "tunnel" PROVE r.place \in told' \cup timers'
    BY <2>1, <2>2, <2>3 DEF LoadsTold
  <2> QED BY <2>1, <2>2, <2>3 DEF LoadsTold
<1>10. CASE N!Passes
  <2>1. LogFine' /\ told' = told /\ UNCHANGED <<flying, noted, seen, timers, refusedLoads>>
    BY <1>3, <1>10 DEF N!Passes
  <2> QED BY <2>1 DEF LoadsTold
<1>11. \A r \in flying : r \in N!Request /\ r.place \in Place
  BY DEF LoadsTold, N!Request
<1> HIDE DEF NoticeInv
<1> QED BY <1>6, <1>7, <1>8, <1>9, <1>10, <1>11

LEMMA NoticeNext == NoticeInv /\ [N!Next]_(N!vars) => NoticeInv'
<1> SUFFICES ASSUME NoticeInv, [N!Next]_(N!vars) PROVE NoticeInv'
  OBVIOUS
<1>1. ASSUME LogFine', UNCHANGED <<flying, noted, seen, timers, told, refusedLoads>> PROVE NoticeInv'
  BY <1>1 DEF NoticeInv, LoadsTold
<1>2. LogFine
  BY DEF NoticeInv
<1>3. CASE UNCHANGED N!vars
  <2>1. UNCHANGED <<entries, seq, dropped, busEvents, activity, voice, news, times>>
        /\ UNCHANGED <<flying, noted, seen, timers, told, refusedLoads>>
    BY <1>3 DEF N!vars, N!log, N!net
  <2> QED BY <1>1, <1>2, <2>1, LogStays
<1>4. ASSUME NEW level, N!Hear(level) PROVE NoticeInv'
  <2>1. UNCHANGED <<flying, noted, seen, timers, told, refusedLoads>>
    BY <1>4 DEF N!Hear, N!net
  <2> QED BY <1>1, <1>2, <1>4, <2>1, HearKeeps
<1>5. ASSUME voice = <<>>, NEW m \in Said \cup {N!LoadEcho}, N!Speak(m) PROVE NoticeInv'
  <2>1. UNCHANGED <<flying, noted, seen, timers, told, refusedLoads>>
    BY <1>5 DEF N!Speak, N!net
  <2> QED BY <1>1, <1>2, <1>5, <2>1, SpeakKeeps
<1>6. ASSUME N!Settle \/ N!SettleMore PROVE NoticeInv'
  <2>1. UNCHANGED <<entries, seq, dropped, busEvents, activity, voice, news, times>>
        /\ UNCHANGED <<flying, noted, seen, timers, told, refusedLoads>>
    BY <1>6 DEF N!Settle, N!SettleMore, N!Quiet, N!net, N!log
  <2> QED BY <1>1, <1>2, <2>1, LogStays
<1>7. ASSUME N!Drain \/ N!List(1) PROVE NoticeInv'
  <2>1. UNCHANGED <<flying, noted, seen, timers, told, refusedLoads>>
    BY <1>7 DEF N!Drain, N!List, N!net
  <2> QED BY <1>1, <1>2, <1>7, <2>1, ToldKeeps
<1> QED BY <1>3, <1>4, <1>5, <1>6, <1>7, NetKeeps DEF N!Next

LEMMA NoticeMeans == NoticeInv => N!NewsPending
<1> SUFFICES ASSUME NoticeInv PROVE N!NewsPending
  OBVIOUS
<1>1. N!Pending /\ N!RefusalsTold
  BY DEF NoticeInv, LogFine, LoadsTold, N!RefusalsTold
<1>2. N!CountedOnce
  <2> SUFFICES ASSUME NEW i \in 1..Len(entries), Entry(i) \notin N!Unheard
               PROVE  /\ entries[i].count <= times[Entry(i)]
                      /\ dropped = 0 => entries[i].count = times[Entry(i)]
    BY DEF N!CountedOnce, Entry
  <2>1. entries[i] \in N!Notice
    BY DEF NoticeInv, LogFine, NoticeKinds
  <2>2. Entry(i) \in N!Message
    BY <2>1 DEF Entry, N!Notice
  <2>3. Heard(Entry(i)) = times[Entry(i)] /\ CountFits(Entry(i))
    BY <2>2 DEF Heard, NoticeInv, LogFine
  <2> QED BY <2>3 DEF CountFits
<1> QED BY <1>1, <1>2 DEF N!NewsPending

LEMMA NoticesAlone == Spec => N!Init /\ [][N!Next]_(N!vars)
<1>1. Init => N!Init
  BY DEF Init
<1>2. [Next]_<<world, bus, page, tree, prompts, reels>> => [N!Next]_(N!vars)
  BY DEF Next, N!vars, N!log, N!net, page
<1>3. QED
  BY <1>1, <1>2, PTL DEF Spec

(* For any pages, hosts and words, a log of any length and however the           *)
(* listeners, the gate and its timers interleave: what happened since the model  *)
(* was last told is in an entry its next result carries or counts, unless        *)
(* entries were dropped and the log says so; it is counted once; and of a page   *)
(* load the gate refused somebody tells (pushNotice, watchPage, watchNetwork).   *)
THEOREM NewsIsKept == Spec => []NewsPending
<1>1. NoticeInv => NewsPending
  BY NoticeMeans DEF NewsPending
<1>2. QED
  BY <1>1, NoticeInit, NoticeNext, NoticesAlone, PTL

-----------------------------------------------------------------------------
(* The history. *)

\* What is left of a sequence, and one element more.
Left(left, e, gone) == IF e \in gone THEN left ELSE Append(left, e)

(* The filter that leaves out what is gone, one element after the other.        *)
LEMMA LeftIs ==
  ASSUME NEW s, Len(s) \in Nat, NEW gone
  PROVE  \E k : k = [n \in 0..Len(s) |-> IF n = 0 THEN <<>>
                           ELSE Left(k[n - 1], s[n], gone)]
<1> DEFINE Is(k, m) == k = [n \in 0..m |-> IF n = 0 THEN <<>>
                           ELSE Left(k[n - 1], s[n], gone)]
           bad == {m \in 0..Len(s) : ~\E k : Is(k, m)}
<1>0. bad \subseteq 0..Len(s) /\ \A m \in 0..Len(s) : m \notin bad => \E k : Is(k, m)
  OBVIOUS
<1>1. ASSUME NEW m \in 1..Len(s), NEW k, Is(k, m - 1)
      PROVE  \E l : Is(l, m)
  <2> DEFINE l == [n \in 0..m |-> IF n < m THEN k[n] ELSE Left(k[n - 1], s[n], gone)]
  <2>1. \A n \in 0..(m - 1) : n < m /\ l[n] = k[n]
    OBVIOUS
  <2>2. ASSUME NEW n \in 0..m
        PROVE  l[n] = IF n = 0 THEN <<>>
                           ELSE Left(l[n - 1], s[n], gone)
    <3>1. CASE n = 0
      BY <1>1, <3>1
    <3>2. CASE n # 0
      <4>1. n - 1 \in 0..(m - 1) /\ l[n - 1] = k[n - 1]
        BY <2>1, <3>2
      <4>2. CASE n < m
        <5>1. n \in 0..(m - 1)
          BY <4>2
        <5>2. k[n] = Left(k[n - 1], s[n], gone)
          BY <1>1, <3>2, <5>1
        <5>3. QED
          BY <2>1, <3>2, <4>1, <5>1, <5>2
      <4>3. CASE ~(n < m)
        BY <3>2, <4>1, <4>3
      <4>4. QED
        BY <4>2, <4>3
    <3>3. QED
      BY <3>1, <3>2
  <2>3. l = [n \in 0..m |-> l[n]]
    OBVIOUS
  <2> HIDE DEF l
  <2>4. Is(l, m)
    BY <2>2, <2>3
  <2>5. QED
    BY <2>4
<1>2. \E k : Is(k, 0)
  <2> DEFINE k == [n \in 0..0 |-> <<>>]
  <2>1. Is(k, 0)
    OBVIOUS
  <2>2. QED
    BY <2>1
<1> HIDE DEF Is, bad
<1>3. bad = {}
  <2> SUFFICES ASSUME bad # {} PROVE FALSE
    OBVIOUS
  <2>1. PICK m \in bad : \A x \in bad : m <= x
    <3>1. bad \subseteq Nat
      BY <1>0
    <3>2. QED
      BY <3>1, LeastNat
  <2>2. m \in 0..Len(s) /\ m # 0
    BY <1>0, <1>2, <2>1 DEF bad
  <2>3. m \in 1..Len(s) /\ m - 1 \in 0..Len(s) /\ m - 1 \notin bad
    BY <1>0, <2>1, <2>2
  <2>4. PICK k : Is(k, m - 1)
    BY <1>0, <2>3
  <2>5. QED
    BY <1>1, <2>1, <2>3, <2>4 DEF bad
<1>4. \E k : Is(k, Len(s))
  BY <1>0, <1>3
<1>5. QED
  BY <1>4 DEF Is

(* The loop of trimHistory, one event after the other.                          *)
LEMMA LoopIs ==
  ASSUME NEW h, Len(h) \in Nat, NEW W
  PROVE  \E k : k = [n \in 0..Len(h) |-> IF n = 0 THEN [kept |-> <<>>, drop |-> Len(h) - HistoryLimit]
                           ELSE H!Passed(k[n - 1], h[n], W)]
<1> DEFINE Is(k, m) == k = [n \in 0..m |-> IF n = 0 THEN [kept |-> <<>>, drop |-> Len(h) - HistoryLimit]
                           ELSE H!Passed(k[n - 1], h[n], W)]
           bad == {m \in 0..Len(h) : ~\E k : Is(k, m)}
<1>0. bad \subseteq 0..Len(h) /\ \A m \in 0..Len(h) : m \notin bad => \E k : Is(k, m)
  OBVIOUS
<1>1. ASSUME NEW m \in 1..Len(h), NEW k, Is(k, m - 1)
      PROVE  \E l : Is(l, m)
  <2> DEFINE l == [n \in 0..m |-> IF n < m THEN k[n] ELSE H!Passed(k[n - 1], h[n], W)]
  <2>1. \A n \in 0..(m - 1) : n < m /\ l[n] = k[n]
    OBVIOUS
  <2>2. ASSUME NEW n \in 0..m
        PROVE  l[n] = IF n = 0 THEN [kept |-> <<>>, drop |-> Len(h) - HistoryLimit]
                           ELSE H!Passed(l[n - 1], h[n], W)
    <3>1. CASE n = 0
      BY <1>1, <3>1
    <3>2. CASE n # 0
      <4>1. n - 1 \in 0..(m - 1) /\ l[n - 1] = k[n - 1]
        BY <2>1, <3>2
      <4>2. CASE n < m
        <5>1. n \in 0..(m - 1)
          BY <4>2
        <5>2. k[n] = H!Passed(k[n - 1], h[n], W)
          BY <1>1, <3>2, <5>1
        <5>3. QED
          BY <2>1, <3>2, <4>1, <5>1, <5>2
      <4>3. CASE ~(n < m)
        BY <3>2, <4>1, <4>3
      <4>4. QED
        BY <4>2, <4>3
    <3>3. QED
      BY <3>1, <3>2
  <2>3. l = [n \in 0..m |-> l[n]]
    OBVIOUS
  <2> HIDE DEF l
  <2>4. Is(l, m)
    BY <2>2, <2>3
  <2>5. QED
    BY <2>4
<1>2. \E k : Is(k, 0)
  <2> DEFINE k == [n \in 0..0 |-> [kept |-> <<>>, drop |-> Len(h) - HistoryLimit]]
  <2>1. Is(k, 0)
    OBVIOUS
  <2>2. QED
    BY <2>1
<1> HIDE DEF Is, bad
<1>3. bad = {}
  <2> SUFFICES ASSUME bad # {} PROVE FALSE
    OBVIOUS
  <2>1. PICK m \in bad : \A x \in bad : m <= x
    <3>1. bad \subseteq Nat
      BY <1>0
    <3>2. QED
      BY <3>1, LeastNat
  <2>2. m \in 0..Len(h) /\ m # 0
    BY <1>0, <1>2, <2>1 DEF bad
  <2>3. m \in 1..Len(h) /\ m - 1 \in 0..Len(h) /\ m - 1 \notin bad
    BY <1>0, <2>1, <2>2
  <2>4. PICK k : Is(k, m - 1)
    BY <1>0, <2>3
  <2>5. QED
    BY <1>1, <2>1, <2>3, <2>4 DEF bad
<1>4. \E k : Is(k, Len(h))
  BY <1>0, <1>3
<1>5. QED
  BY <1>4 DEF Is

\* s has the element e.
In(s, e) == \E i \in 1..Len(s) : s[i] = e

LEMMA InIs == ASSUME NEW X, NEW s \in Seq(X) PROVE \A e : e \in H!ToSet(s) <=> In(s, e)
BY DEF In, H!ToSet

LEMMA InAppend ==
  ASSUME NEW X, NEW s \in Seq(X), NEW x \in X
  PROVE  \A e : In(Append(s, x), e) <=> In(s, e) \/ e = x
<1>1. /\ Len(Append(s, x)) = Len(s) + 1 /\ Append(s, x)[Len(s) + 1] = x /\ Len(s) \in Nat
      /\ \A i \in 1..Len(s) : Append(s, x)[i] = s[i]
  OBVIOUS
<1> DEFINE t == Append(s, x)
<1> HIDE DEF t
<1> SUFFICES ASSUME NEW e PROVE In(t, e) <=> In(s, e) \/ e = x
  BY DEF t
<1>2. Len(t) = Len(s) + 1 /\ t[Len(s) + 1] = x /\ \A i \in 1..Len(s) : t[i] = s[i]
  BY <1>1 DEF t
<1>3. In(t, e) => In(s, e) \/ e = x
  BY <1>1, <1>2 DEF In
<1>4. In(s, e) => In(t, e)
  BY <1>1, <1>2 DEF In
<1>5. e = x => In(t, e)
  BY <1>1, <1>2 DEF In
<1> QED BY <1>3, <1>4, <1>5

\* The filter has gone through the first n elements of s, and left this.
LeftWell(X, s, gone, left, n) ==
  /\ left \in Seq(X) /\ Len(left) <= n
  /\ \A e : In(left, e) <=> e \notin gone /\ \E i \in 1..n : s[i] = e
  /\ (\A i \in 1..n : s[i] \notin gone) => Len(left) = n

LEMMA LeftOn ==
  ASSUME NEW X, NEW s \in Seq(X), NEW gone, NEW n \in 1..Len(s), NEW left, LeftWell(X, s, gone, left, n - 1)
  PROVE  LeftWell(X, s, gone, IF s[n] \in gone THEN left ELSE Append(left, s[n]), n)
<1> USE DEF LeftWell
<1>1. s[n] \in X /\ n - 1 \in Nat /\ n = (n - 1) + 1 /\ Len(left) \in Nat
  OBVIOUS
<1>2. \A i : i \in 1..n <=> i \in 1..(n - 1) \/ i = n
  OBVIOUS
<1>3. CASE s[n] \in gone
  <2>1. ASSUME NEW e
        PROVE  (e \notin gone /\ \E i \in 1..n : s[i] = e) <=> (e \notin gone /\ \E i \in 1..(n - 1) : s[i] = e)
    BY <1>2, <1>3
  <2>2. Len(left) <= n /\ ~(\A i \in 1..n : s[i] \notin gone)
    BY <1>1, <1>3
  <2> QED BY <1>3, <2>1, <2>2
<1>4. CASE s[n] \notin gone
  <2>1. Append(left, s[n]) \in Seq(X) /\ Len(Append(left, s[n])) = Len(left) + 1
    BY <1>1
  <2>2. \A e : In(Append(left, s[n]), e) <=> In(left, e) \/ e = s[n]
    BY <1>1, InAppend
  <2>3. \A e : In(Append(left, s[n]), e) <=> e \notin gone /\ \E i \in 1..n : s[i] = e
    BY <1>2, <1>4, <2>2
  <2>4. (\A i \in 1..n : s[i] \notin gone) => Len(left) = n - 1
    BY <1>2
  <2> QED BY <1>1, <1>4, <2>1, <2>3, <2>4
<1> QED BY <1>3, <1>4

(* The filter leaves out what is gone and nothing else.                          *)
LEMMA WithoutWell ==
  ASSUME NEW X, NEW s \in Seq(X), NEW gone
  PROVE  /\ H!Without(s, gone) \in Seq(X) /\ Len(H!Without(s, gone)) <= Len(s)
         /\ \A e : In(H!Without(s, gone), e) <=> In(s, e) /\ e \notin gone
         /\ (\A i \in 1..Len(s) : s[i] \notin gone) => Len(H!Without(s, gone)) = Len(s)
<1> DEFINE loop[n \in 0..Len(s)] ==
             IF n = 0 THEN <<>>
                           ELSE IF s[n] \in gone THEN loop[n - 1] ELSE Append(loop[n - 1], s[n])
           bad == {m \in 0..Len(s) : ~LeftWell(X, s, gone, loop[m], m)}
<1>1. loop = [n \in 0..Len(s) |-> IF n = 0 THEN <<>>
                           ELSE IF s[n] \in gone THEN loop[n - 1] ELSE Append(loop[n - 1], s[n])]
  <2>1. Len(s) \in Nat
    OBVIOUS
  <2>2. \E k : k = [n \in 0..Len(s) |-> IF n = 0 THEN <<>> ELSE Left(k[n - 1], s[n], gone)]
    BY <2>1, LeftIs
  <2> QED BY <2>2 DEF Left
<1>2. H!Without(s, gone) = loop[Len(s)]
  BY DEF H!Without
<1> HIDE DEF loop
<1>3. /\ loop[0] = <<>>
      /\ \A n \in 1..Len(s) : loop[n] = IF s[n] \in gone THEN loop[n - 1] ELSE Append(loop[n - 1], s[n])
  <2>1. \A n \in 0..Len(s) :
          loop[n] = IF n = 0 THEN <<>> ELSE IF s[n] \in gone THEN loop[n - 1] ELSE Append(loop[n - 1], s[n])
    BY <1>1, Zenon
  <2>2. 0 \in 0..Len(s) /\ \A n \in 1..Len(s) : n \in 0..Len(s) /\ n # 0
    OBVIOUS
  <2> QED BY <2>1, <2>2
<1>4. bad = {}
  <2> SUFFICES ASSUME bad # {} PROVE FALSE
    OBVIOUS
  <2>1. bad \subseteq Nat
    OBVIOUS
  <2>2. PICK m \in bad : \A k \in bad : m <= k
    <3> HIDE DEF bad
    <3> QED BY <2>1, LeastNat
  <2>3. LeftWell(X, s, gone, <<>>, 0)
    <3>1. <<>> \in Seq(X) /\ Len(<<>>) = 0
      OBVIOUS
    <3> QED BY <3>1 DEF LeftWell, In
  <2>4. m \in 1..Len(s)
    BY <1>3, <2>2, <2>3
  <2>5. m - 1 \in 0..Len(s) /\ m - 1 \notin bad
    BY <2>1, <2>2, <2>4
  <2>6. LeftWell(X, s, gone, loop[m - 1], m - 1)
    BY <2>5
  <2>7. LeftWell(X, s, gone, IF s[m] \in gone THEN loop[m - 1] ELSE Append(loop[m - 1], s[m]), m)
    BY <2>4, <2>6, LeftOn
  <2> QED BY <1>3, <2>2, <2>4, <2>7
<1>5. LeftWell(X, s, gone, loop[Len(s)], Len(s))
  <2>1. Len(s) \in 0..Len(s)
    BY LenProperties
  <2> QED BY <1>4, <2>1
<1> QED BY <1>2, <1>5 DEF LeftWell, In

\* The loop has gone through the first n events of h.
LoopWell(h, W, at, n) ==
  /\ at.kept \in Seq(H!ToSet(h)) /\ at.drop \in 0..(Len(h) - HistoryLimit)
  /\ Len(at.kept) + (Len(h) - HistoryLimit - at.drop) = n
  /\ \A i \in 1..n : H!Shape(h[i], W) => In(at.kept, h[i])
  /\ at.drop > 0 => \A e : In(at.kept, e) => H!Shape(e, W)

LEMMA LoopOn ==
  ASSUME NEW X, NEW h \in Seq(X), NEW W, NEW n \in 1..Len(h), NEW at, HistoryLimit \in Nat, HistoryLimit < Len(h),
         LoopWell(h, W, at, n - 1)
  PROVE  LoopWell(h, W, H!Passed(at, h[n], W), n)
<1>1. /\ at.kept \in Seq(H!ToSet(h)) /\ at.drop \in 0..(Len(h) - HistoryLimit)
      /\ Len(at.kept) + (Len(h) - HistoryLimit - at.drop) = n - 1
      /\ \A i \in 1..(n - 1) : H!Shape(h[i], W) => In(at.kept, h[i])
      /\ at.drop > 0 => \A e : In(at.kept, e) => H!Shape(e, W)
  BY DEF LoopWell
<1>2. PICK k \in Seq(H!ToSet(h)), d \in 0..(Len(h) - HistoryLimit) : k = at.kept /\ d = at.drop
  BY <1>1
<1>3. \A i : i \in 1..n <=> i \in 1..(n - 1) \/ i = n
  OBVIOUS
<1>4. h[n] \in H!ToSet(h)
  BY DEF H!ToSet
<1>5. PICK l \in Nat, D \in Nat, N0 \in Nat : l = Len(k) /\ D = Len(h) - HistoryLimit /\ N0 = n - 1 /\ l + (D - d) = N0 /\ n = N0 + 1
  BY <1>1, <1>2
<1>6. CASE d > 0 /\ ~H!Shape(h[n], W)
  <2>1. H!Passed(at, h[n], W) = [kept |-> k, drop |-> d - 1]
    BY <1>2, <1>6 DEF H!Passed
  <2>2. d - 1 \in 0..(Len(h) - HistoryLimit) /\ l + (D - (d - 1)) = n
    BY <1>5, <1>6
  <2>3. \A i \in 1..n : H!Shape(h[i], W) => In(k, h[i])
    BY <1>1, <1>2, <1>3, <1>6
  <2> QED BY <1>1, <1>2, <1>5, <1>6, <2>1, <2>2, <2>3 DEF LoopWell
<1>7. CASE ~(d > 0 /\ ~H!Shape(h[n], W))
  <2>1. PICK q : q = Append(k, h[n])
    OBVIOUS
  <2>2. H!Passed(at, h[n], W) = [kept |-> q, drop |-> d]
    BY <1>2, <1>7, <2>1 DEF H!Passed
  <2>3. q \in Seq(H!ToSet(h)) /\ Len(q) = l + 1 /\ \A e : In(q, e) <=> In(k, e) \/ e = h[n]
    BY <1>4, <1>5, <2>1, InAppend
  <2>4. \A i \in 1..n : H!Shape(h[i], W) => In(q, h[i])
    BY <1>1, <1>2, <1>3, <2>3
  <2>5. d > 0 => \A e : In(q, e) => H!Shape(e, W)
    BY <1>1, <1>2, <1>7, <2>3
  <2>6. Len(q) + (Len(h) - HistoryLimit - d) = n
    BY <1>5, <2>3
  <2> QED BY <1>2, <2>2, <2>3, <2>4, <2>5, <2>6 DEF LoopWell
<1> QED BY <1>6, <1>7

(* The loop keeps what has shape, and drops bulk while there is some.            *)
LEMMA KeptWell ==
  ASSUME NEW X, NEW h \in Seq(X), NEW W, HistoryLimit \in Nat, HistoryLimit < Len(h)
  PROVE  LoopWell(h, W, H!Kept(h, W), Len(h))
<1> DEFINE loop[n \in 0..Len(h)] ==
             IF n = 0 THEN [kept |-> <<>>, drop |-> Len(h) - HistoryLimit] ELSE H!Passed(loop[n - 1], h[n], W)
           bad == {m \in 0..Len(h) : ~LoopWell(h, W, loop[m], m)}
<1>1. loop = [n \in 0..Len(h) |-> IF n = 0 THEN [kept |-> <<>>, drop |-> Len(h) - HistoryLimit]
                                  ELSE H!Passed(loop[n - 1], h[n], W)]
  <2>1. Len(h) \in Nat
    OBVIOUS
  <2>2. \E k : k = [n \in 0..Len(h) |-> IF n = 0 THEN [kept |-> <<>>, drop |-> Len(h) - HistoryLimit]
                           ELSE H!Passed(k[n - 1], h[n], W)]
    BY <2>1, LoopIs
  <2> QED BY <2>2
<1>2. H!Kept(h, W) = loop[Len(h)]
  BY DEF H!Kept
<1> HIDE DEF loop
<1>3. /\ loop[0] = [kept |-> <<>>, drop |-> Len(h) - HistoryLimit]
      /\ \A n \in 1..Len(h) : loop[n] = H!Passed(loop[n - 1], h[n], W)
  <2>1. \A n \in 0..Len(h) :
          loop[n] = IF n = 0 THEN [kept |-> <<>>, drop |-> Len(h) - HistoryLimit] ELSE H!Passed(loop[n - 1], h[n], W)
    BY <1>1, Zenon
  <2>2. 0 \in 0..Len(h) /\ \A n \in 1..Len(h) : n \in 0..Len(h) /\ n # 0
    OBVIOUS
  <2> QED BY <2>1, <2>2
<1>4. bad = {}
  <2> SUFFICES ASSUME bad # {} PROVE FALSE
    OBVIOUS
  <2>1. bad \subseteq Nat
    OBVIOUS
  <2>2. PICK m \in bad : \A k \in bad : m <= k
    <3> HIDE DEF bad
    <3> QED BY <2>1, LeastNat
  <2>3. LoopWell(h, W, loop[0], 0)
    <3>1. <<>> \in Seq(H!ToSet(h)) /\ Len(<<>>) = 0 /\ Len(h) - HistoryLimit \in Nat
      OBVIOUS
    <3> QED BY <1>3, <3>1 DEF LoopWell, In
  <2>4. m \in 1..Len(h)
    BY <2>2, <2>3
  <2>5. m - 1 \in 0..Len(h) /\ m - 1 \notin bad
    BY <2>1, <2>2, <2>4
  <2>6. LoopWell(h, W, loop[m - 1], m - 1)
    BY <2>5
  <2>7. LoopWell(h, W, H!Passed(loop[m - 1], h[m], W), m)
    BY <2>4, <2>6, LoopOn
  <2> QED BY <1>3, <2>2, <2>4, <2>7
<1>5. LoopWell(h, W, loop[Len(h)], Len(h))
  <2>1. Len(h) \in 0..Len(h)
    BY LenProperties
  <2> QED BY <1>4, <2>1
<1> QED BY <1>2, <1>5

LEMMA SlackIs == H!Slack \in Nat
<1>1. HistoryLimit \in Nat
  BY HistoryAssumption
<1>2. HistoryLimit \div 4 \in Nat
  BY <1>1
<1> QED BY <1>1, <1>2 DEF H!Slack

(* Trimming loses no event without counting it, keeps within the limit, and      *)
(* unless structure alone fills the history keeps what has shape.              *)
LEMMA TrimWell ==
  ASSUME NEW X, NEW h \in Seq(X), NEW W, NEW T, T = H!Trim(h, W)
  PROVE  /\ T.h \in Seq(X) /\ T.n \in Nat /\ Len(T.h) + T.n = Len(h)
         /\ Len(T.h) <= HistoryLimit + H!Slack /\ T.over \in BOOLEAN
         /\ ~T.over => \A e : In(h, e) /\ H!Shape(e, W) => In(T.h, e)
<1>1. HistoryLimit \in Nat /\ H!Slack \in Nat /\ Len(h) \in Nat
  BY HistoryAssumption, SlackIs
<1>2. CASE Len(h) <= HistoryLimit + H!Slack
  <2>1. T = [h |-> h, n |-> 0, over |-> FALSE]
    BY <1>2 DEF H!Trim
  <2> QED BY <1>1, <1>2, <2>1
<1>3. CASE ~(Len(h) <= HistoryLimit + H!Slack)
  <2> DEFINE loop == H!Kept(h, W)
             whole == H!Whole(loop.kept)
  <2>1. T = [h |-> SubSeq(whole, loop.drop + 1, Len(whole)),
             n |-> (Len(h) - Len(loop.kept)) + (Len(loop.kept) - Len(whole)) + loop.drop,
             over |-> loop.drop > 0]
    BY <1>3 DEF H!Trim
  <2>2. LoopWell(h, W, loop, Len(h))
    <3>1. HistoryLimit < Len(h)
      BY <1>1, <1>3
    <3>2. LoopWell(h, W, H!Kept(h, W), Len(h))
      BY <1>1, <3>1, KeptWell
    <3> QED BY <3>2
  <2> HIDE DEF loop
  <2>3. PICK k \in Seq(X), d \in Nat : k = loop.kept /\ d = loop.drop
    <3>1. H!ToSet(h) \subseteq X
      BY DEF H!ToSet
    <3>2. loop.kept \in Seq(X)
      BY <2>2, <3>1 DEF LoopWell
    <3>3. loop.drop \in Nat
      BY <1>1, <2>2 DEF LoopWell
    <3> QED BY <3>2, <3>3
  <2>4. /\ Len(k) = HistoryLimit + d
        /\ \A i \in 1..Len(h) : H!Shape(h[i], W) => In(k, h[i])
        /\ d > 0 => \A e : In(k, e) => H!Shape(e, W)
    <3>1. /\ Len(k) + (Len(h) - HistoryLimit - d) = Len(h)
          /\ \A i \in 1..Len(h) : H!Shape(h[i], W) => In(k, h[i])
          /\ d > 0 => \A e : In(k, e) => H!Shape(e, W)
      BY <2>2, <2>3 DEF LoopWell
    <3>2. Len(k) \in Nat
      OBVIOUS
    <3> QED BY <1>1, <3>1, <3>2
  <2>5. PICK w : w = H!Without(k, H!Headless(k))
    OBVIOUS
  <2>6. whole = w
    BY <2>3, <2>5 DEF H!Whole
  <2> HIDE DEF whole
  <2>7. /\ w \in Seq(X) /\ Len(w) <= Len(k)
        /\ \A e : In(w, e) <=> In(k, e) /\ e \notin H!Headless(k)
        /\ (\A i \in 1..Len(k) : k[i] \notin H!Headless(k)) => Len(w) = Len(k)
    BY <2>5, WithoutWell
  <2>8. \A e : H!Shape(e, W) => e \notin H!Headless(k)
    BY DEF H!Shape, H!Structural, H!Headless
  <2>9. PICK K \in Nat, L1 \in Nat, D \in Nat : K = Len(k) /\ L1 = Len(w) /\ D = Len(h)
    BY <1>1, <2>7
  <2>10. T = [h |-> SubSeq(w, d + 1, L1), n |-> (D - K) + (K - L1) + d, over |-> d > 0]
    BY <2>1, <2>3, <2>6, <2>9
  <2>11. CASE d = 0
    <3>1. SubSeq(w, 1, L1) = w
      BY <2>7, <2>9
    <3>2. T.h = w /\ T.n = D - L1 /\ T.over = FALSE
      <4>1. d + 1 = 1 /\ (D - K) + (K - L1) + d = D - L1 /\ ~(d > 0)
        BY <2>9, <2>11
      <4>2. T.h = SubSeq(w, d + 1, L1) /\ T.n = (D - K) + (K - L1) + d /\ T.over = (d > 0)
        BY <2>10
      <4>3. T.h = w
        BY <3>1, <4>1, <4>2
      <4>4. T.n = D - L1
        BY <4>1, <4>2
      <4>5. T.over = FALSE
        <5>1. (d > 0) = FALSE
          BY <4>1
        <5> QED BY <4>2, <5>1, Zenon
      <4> QED BY <4>3, <4>4, <4>5
    <3>3. \A e : In(h, e) /\ H!Shape(e, W) => In(w, e)
      BY <2>4, <2>7, <2>8 DEF In
    <3>4. L1 <= HistoryLimit /\ D - L1 \in Nat
      BY <1>1, <1>3, <2>4, <2>7, <2>9, <2>11
    <3>5. T.h \in Seq(X) /\ Len(T.h) = L1 /\ T.over \in BOOLEAN
      BY <2>7, <2>9, <3>2
    <3>6. T.n \in Nat /\ Len(T.h) + T.n = Len(h) /\ Len(T.h) <= HistoryLimit + H!Slack
      BY <1>1, <2>9, <3>2, <3>4, <3>5
    <3>7. \A e : In(h, e) /\ H!Shape(e, W) => In(T.h, e)
      BY <3>2, <3>3
    <3> QED BY <3>5, <3>6, <3>7
  <2>12. CASE d # 0
    <3>1. d > 0
      BY <2>12
    <3>2. \A i \in 1..Len(k) : k[i] \notin H!Headless(k)
      BY <2>4, <2>8, <3>1 DEF In
    <3>3. L1 = HistoryLimit + d
      BY <2>4, <2>7, <2>9, <3>2
    <3>4. SubSeq(w, d + 1, L1) \in Seq(X) /\ Len(SubSeq(w, d + 1, L1)) = HistoryLimit
      <4>1. \A i \in (d + 1)..L1 : w[i] \in X
        BY <2>7, <2>9
      <4>2. d + 1 \in Int /\ L1 \in Int
        OBVIOUS
      <4>3. /\ SubSeq(w, d + 1, L1) \in Seq(X)
            /\ Len(SubSeq(w, d + 1, L1)) = IF d + 1 <= L1 THEN L1 - (d + 1) + 1 ELSE 0
        BY <4>1, <4>2, SubSeqProperties
      <4> QED BY <1>1, <3>3, <4>3
    <3>5. T.over = TRUE /\ T.n = (D - K) + (K - L1) + d /\ T.h = SubSeq(w, d + 1, L1)
      <4>1. T.h = SubSeq(w, d + 1, L1) /\ T.n = (D - K) + (K - L1) + d
        BY <2>10
      <4>2. T.over = (d > 0)
        BY <2>10
      <4>3. T.over = TRUE
        BY <3>1, <4>2
      <4> QED BY <4>1, <4>3
    <3>6. T.n = D - HistoryLimit /\ D - HistoryLimit \in Nat
      BY <1>1, <1>3, <2>9, <3>3, <3>5
    <3>7. Len(T.h) + T.n = Len(h) /\ Len(T.h) <= HistoryLimit + H!Slack /\ T.n \in Nat
      <4>1. Len(T.h) = HistoryLimit
        BY <3>4, <3>5
      <4>2. PICK m \in Nat : m = T.n /\ m = D - HistoryLimit
        BY <3>6
      <4> QED BY <1>1, <2>9, <4>1, <4>2
    <3> QED BY <3>4, <3>5, <3>7
  <2> QED BY <2>11, <2>12
<1> QED BY <1>2, <1>3

Event == {H!Event(kind, id) : kind \in {"run-start", "phase", "resolved", "lineage", "text", "call", "result", "request"},
                              id \in Id \cup {0}}

\* The start and what is asked are there, unless structure has filled the history.
Shown(h, waiting) ==
  In(h, H!Event("run-start", 0)) /\ \A i \in waiting : In(h, H!Event("request", i))

\* Every event is kept or counted.
HistoryInv ==
  /\ history \in Seq(Event) /\ pending \subseteq Id
  /\ trimmed \in Nat /\ emitted = Len(history) + trimmed
  /\ Len(history) <= HistoryLimit + H!Slack
  /\ overfull \in BOOLEAN /\ (overfull \/ Shown(history, pending))

(* An event emitted is kept or counted, and what is still asked stays.           *)
LEMMA EmitWell ==
  ASSUME HistoryInv, NEW e \in Event, NEW W, H!Emit(e, W),
         \A i \in W : i \in pending \/ e = H!Event("request", i)
  PROVE  /\ history' \in Seq(Event) /\ trimmed' \in Nat /\ emitted' = Len(history') + trimmed'
         /\ Len(history') <= HistoryLimit + H!Slack
         /\ overfull' \in BOOLEAN /\ (overfull' \/ Shown(history', W))
<1>1. PICK old : old = IF e.kind = "lineage" THEN H!Without(history, {e}) ELSE history
  OBVIOUS
<1>2. PICK new : new = Append(old, e)
  OBVIOUS
<1>3. PICK T : T = H!Trim(new, W)
  OBVIOUS
<1>4. /\ history' = T.h /\ trimmed' = trimmed + T.n
      /\ emitted' = emitted + 1 - (Len(history) - Len(old)) /\ overfull' = (overfull \/ T.over)
  BY <1>1, <1>2, <1>3 DEF H!Emit
<1>5. history \in Seq(Event) /\ Len(history) \in Nat
  BY DEF HistoryInv
<1>6. /\ old \in Seq(Event) /\ Len(old) \in Nat
      /\ \A x : In(history, x) /\ x.kind # "lineage" => In(old, x)
  <2>1. CASE e.kind = "lineage"
    <3>1. PICK w : w = H!Without(history, {e})
      OBVIOUS
    <3>2. w \in Seq(Event) /\ \A x : In(w, x) <=> In(history, x) /\ x \notin {e}
      BY <1>5, <3>1, WithoutWell
    <3>3. old = w
      BY <1>1, <2>1, <3>1
    <3>4. \A x : x.kind # "lineage" => x \notin {e}
      BY <2>1
    <3> QED BY <3>2, <3>3, <3>4
  <2>2. CASE e.kind # "lineage"
    BY <1>1, <1>5, <2>2
  <2> QED BY <2>1, <2>2
<1>7. new \in Seq(Event) /\ Len(new) = Len(old) + 1 /\ \A x : In(new, x) <=> In(old, x) \/ x = e
  BY <1>2, <1>6, InAppend
<1>8. /\ T.h \in Seq(Event) /\ T.n \in Nat /\ Len(T.h) + T.n = Len(new)
      /\ Len(T.h) <= HistoryLimit + H!Slack /\ T.over \in BOOLEAN
      /\ ~T.over => \A x : In(new, x) /\ H!Shape(x, W) => In(T.h, x)
  BY <1>3, <1>7, TrimWell
<1>9. trimmed' \in Nat /\ emitted' = Len(history') + trimmed'
  <2>1. PICK a \in Nat, b \in Nat, c \in Nat, n \in Nat, k \in Nat :
          a = Len(history) /\ b = Len(old) /\ c = trimmed /\ n = T.n /\ k = Len(T.h)
    <3>1. trimmed \in Nat
      BY DEF HistoryInv
    <3>2. Len(T.h) \in Nat
      BY <1>8
    <3> QED BY <1>5, <1>6, <1>8, <3>1, <3>2
  <2>2. k + n = b + 1 /\ emitted = a + c
    BY <1>7, <1>8, <2>1 DEF HistoryInv
  <2>3. trimmed' = c + n /\ emitted' = (a + c) + 1 - (a - b) /\ Len(history') = k
    BY <1>4, <2>1, <2>2
  <2>4. c + n \in Nat /\ (a + c) + 1 - (a - b) = k + (c + n)
    BY <2>2
  <2> QED BY <2>3, <2>4
<1>10. ASSUME ~overfull, ~T.over
       PROVE  Shown(history', W)
  <2>1. Shown(history, pending)
    BY <1>10 DEF HistoryInv
  <2>2. In(T.h, H!Event("run-start", 0))
    <3>1. In(old, H!Event("run-start", 0))
      BY <1>6, <2>1 DEF Shown, H!Event
    <3>2. H!Shape(H!Event("run-start", 0), W)
      BY DEF H!Shape, H!Structural, H!Event
    <3> QED BY <1>7, <1>8, <1>10, <3>1, <3>2
  <2>3. ASSUME NEW i \in W
        PROVE  In(T.h, H!Event("request", i))
    <3>1. In(new, H!Event("request", i))
      <4>1. CASE i \in pending
        <5>1. In(old, H!Event("request", i))
          BY <1>6, <2>1, <4>1 DEF Shown, H!Event
        <5> QED BY <1>7, <5>1
      <4>2. CASE i \notin pending
        BY <1>7, <4>2
      <4> QED BY <4>1, <4>2
    <3>2. H!Shape(H!Event("request", i), W)
      BY DEF H!Shape, H!Structural, H!Event
    <3> QED BY <1>8, <1>10, <3>1, <3>2
  <2> QED BY <1>4, <2>2, <2>3 DEF Shown
<1>11. overfull' \in BOOLEAN /\ (overfull' \/ Shown(history', W))
  <2>1. CASE overfull
    BY <1>4, <2>1
  <2>2. CASE T.over
    BY <1>4, <2>2
  <2>3. CASE ~overfull /\ ~T.over
    BY <1>4, <1>10, <2>3
  <2> QED BY <2>1, <2>2, <2>3
<1> QED BY <1>4, <1>8, <1>9, <1>11

LEMMA HistoryInit == H!Init => HistoryInv
<1> SUFFICES ASSUME H!Init PROVE HistoryInv
  OBVIOUS
<1>1. history = <<H!Event("run-start", 0)>> /\ pending = {} /\ trimmed = 0 /\ emitted = 1 /\ overfull = FALSE
  BY DEF H!Init
<1>2. PICK e \in Event : e = H!Event("run-start", 0)
  BY DEF Event
<1>3. <<e>> \in Seq(Event) /\ Len(<<e>>) = 1 /\ <<e>>[1] = e
  OBVIOUS
<1>4. H!Slack \in Nat /\ HistoryLimit \in Nat /\ 1 <= HistoryLimit + H!Slack
  <2>1. CASE HistoryLimit < 4
    BY <2>1, HistoryAssumption DEF H!Slack
  <2>2. CASE ~(HistoryLimit < 4)
    BY <2>2, HistoryAssumption, SlackIs
  <2> QED BY <2>1, <2>2, HistoryAssumption, SlackIs
<1>5. Shown(history, pending)
  BY <1>1, <1>2, <1>3 DEF Shown, In
<1>6. history \in Seq(Event) /\ Len(history) = 1
  BY <1>1, <1>2, <1>3
<1>7. emitted = Len(history) + trimmed /\ trimmed \in Nat /\ Len(history) <= HistoryLimit + H!Slack
  BY <1>1, <1>4, <1>6
<1>8. pending \subseteq Id /\ overfull \in BOOLEAN
  BY <1>1
<1> QED BY <1>5, <1>6, <1>7, <1>8 DEF HistoryInv

LEMMA HistoryNext == HistoryInv /\ [H!Next]_(H!vars) => HistoryInv'
<1> SUFFICES ASSUME HistoryInv, [H!Next]_(H!vars) PROVE HistoryInv'
  OBVIOUS
<1>1. CASE H!Says
  <2>1. PICK kind \in {"text", "phase", "lineage"} : H!Emit(H!Event(kind, 0), pending)
    BY <1>1 DEF H!Says
  <2>2. H!Event(kind, 0) \in Event /\ pending' = pending
    BY <1>1 DEF H!Says, Event
  <2> QED BY <2>1, <2>2, EmitWell DEF HistoryInv
<1>2. ASSUME NEW i \in Id, H!Calls(i)
      PROVE  HistoryInv'
  <2>1. H!Event("call", i) \in Event /\ pending' = pending /\ H!Emit(H!Event("call", i), pending)
    BY <1>2 DEF H!Calls, Event
  <2> QED BY <2>1, EmitWell DEF HistoryInv
<1>3. ASSUME NEW i \in Id, H!Returns(i)
      PROVE  HistoryInv'
  <2>1. H!Event("result", i) \in Event /\ pending' = pending /\ H!Emit(H!Event("result", i), pending)
    BY <1>3 DEF H!Returns, Event
  <2> QED BY <2>1, EmitWell DEF HistoryInv
<1>4. ASSUME NEW i \in Id, H!Asks(i)
      PROVE  HistoryInv'
  <2>1. PICK W : W = pending'
    OBVIOUS
  <2>2. H!Event("request", i) \in Event /\ W = pending \cup {i} /\ H!Emit(H!Event("request", i), W)
    BY <1>4, <2>1 DEF H!Asks, Event
  <2>3. W \subseteq Id /\ \A j \in W : j \in pending \/ H!Event("request", i) = H!Event("request", j)
    BY <2>2 DEF HistoryInv
  <2> QED BY <2>1, <2>2, <2>3, EmitWell DEF HistoryInv
<1>5. ASSUME NEW i \in Id, H!Resolves(i)
      PROVE  HistoryInv'
  <2>1. PICK W : W = pending'
    OBVIOUS
  <2>2. H!Event("resolved", i) \in Event /\ W = pending \ {i} /\ H!Emit(H!Event("resolved", i), W)
    BY <1>5, <2>1 DEF H!Resolves, Event
  <2>3. W \subseteq Id /\ \A j \in W : j \in pending
    BY <2>2 DEF HistoryInv
  <2> QED BY <2>1, <2>2, <2>3, EmitWell DEF HistoryInv
<1>6. CASE UNCHANGED H!vars
  BY <1>6 DEF H!vars, HistoryInv
<1> QED BY <1>1, <1>2, <1>3, <1>4, <1>5, <1>6 DEF H!Next

LEMMA HistoryAlone == Spec => H!Init /\ [][H!Next]_(H!vars)
<1>1. Init => H!Init
  BY DEF Init
<1>2. [Next]_<<world, bus, page, tree, prompts, reels>> => [H!Next]_(H!vars)
  BY DEF Next, bus, H!vars
<1> QED BY <1>1, <1>2, PTL DEF Spec

(* What a page is sent holds what the history holds and is still asked.          *)
LEMMA HistoryMeans == HistoryInv => H!ReplayWhole
<1> SUFFICES ASSUME HistoryInv PROVE H!ReplayWhole
  OBVIOUS
<1> DEFINE gone == {e \in H!ToSet(history) : e.kind = "request" /\ e.id \notin pending}
<1>1. PICK w : w = H!Without(history, gone)
  OBVIOUS
<1>2. history \in Seq(Event) /\ Len(history) \in Nat
  BY DEF HistoryInv
<1>3. w \in Seq(Event) /\ \A e : In(w, e) <=> In(history, e) /\ e \notin gone
  <2> HIDE DEF gone
  <2> QED BY <1>1, <1>2, WithoutWell
<1>4. PICK n \in Nat : n = trimmed
  BY DEF HistoryInv
<1>5. emitted = Len(history) + n
  BY <1>4 DEF HistoryInv
<1> DEFINE Y == Event \cup {H!Event("trimmed", n)}
<1>6. PICK note : note = H!TrimNote
  OBVIOUS
<1>7. note = IF n = 0 THEN <<>> ELSE <<H!Event("trimmed", n)>>
  BY <1>4, <1>6 DEF H!TrimNote
<1>8. H!Replay = note \o w
  BY <1>1, <1>6 DEF H!Replay
<1>9. w \in Seq(Y)
  BY <1>3
<1> HIDE DEF Y, gone
<1>10. PICK R : R = H!Replay
  OBVIOUS
<1>11. R \in Seq(Y) /\ (\A e : In(w, e) => In(R, e)) /\ (n # 0 => R[1] = H!Event("trimmed", n))
  <2>1. CASE n = 0
    <3>1. R = w
      BY <1>3, <1>7, <1>8, <1>10, <2>1
    <3> QED BY <1>9, <2>1, <3>1
  <2>2. CASE n # 0
    <3>1. PICK y \in Y : y = H!Event("trimmed", n)
      BY DEF Y
    <3>2. R = <<y>> \o w
      BY <1>7, <1>8, <1>10, <2>2, <3>1
    <3>3. /\ R \in Seq(Y) /\ Len(R) = 1 + Len(w) /\ R[1] = y
          /\ \A i \in 1..Len(w) : i + 1 \in 1..Len(R) /\ R[i + 1] = w[i]
      BY <1>9, <3>2
    <3>4. ASSUME NEW e, In(w, e) PROVE In(R, e)
      BY <3>3, <3>4 DEF In
    <3> QED BY <3>1, <3>3, <3>4
  <2> QED BY <2>1, <2>2
<1>12. Len(history) <= emitted /\ Len(history) <= HistoryLimit + H!Slack
  BY <1>2, <1>5 DEF HistoryInv
<1>13. emitted - Len(history) = n
  BY <1>2, <1>5
<1>14. IF n = 0 THEN H!TrimNote = <<>> ELSE H!Replay[1] = H!Event("trimmed", n)
  BY <1>6, <1>7, <1>10, <1>11
<1>15. ASSUME ~overfull
       PROVE  /\ H!Event("run-start", 0) \in H!ToSet(H!Replay)
              /\ \A i \in pending : H!Event("request", i) \in H!ToSet(H!Replay)
  <2>1. Shown(history, pending)
    BY <1>15 DEF HistoryInv
  <2>2. H!Event("run-start", 0) \notin gone /\ \A i \in pending : H!Event("request", i) \notin gone
    BY DEF gone, H!Event
  <2>3. In(R, H!Event("run-start", 0)) /\ \A i \in pending : In(R, H!Event("request", i))
    BY <1>3, <1>11, <2>1, <2>2 DEF Shown
  <2>4. \A e : e \in H!ToSet(R) <=> In(R, e)
    BY <1>11, InIs
  <2> QED BY <1>10, <2>3, <2>4
<1> QED BY <1>12, <1>13, <1>14, <1>15 DEF H!ReplayWhole

(* For any limit, any calls and requests and a run of any length: a page that    *)
(* connects now is shown how the run started and everything it is still asked,   *)
(* unless structure alone fills the history, and the note at the top says        *)
(* exactly how many events are missing (trimHistory, trimNote, replay).          *)
THEOREM ReplayTellsAll == Spec => []ReplayWhole
<1>1. HistoryInv => ReplayWhole
  BY HistoryMeans DEF ReplayWhole
<1> QED BY <1>1, HistoryInit, HistoryNext, HistoryAlone, PTL
=============================================================================
