----------------------------- MODULE TreeProofs -----------------------------
(***************************************************************************)
(* What the tree of a run's steps tells of the run, for any values of the  *)
(* constants.  The tree is computed again from the events kept, so nothing *)
(* is known of it but what they say; the proofs follow one event at a      *)
(* time.  What an event does to a tree (TreeSound): every dollar, prompt   *)
(* and call is some attempt's or said to be nobody's, an attempt was       *)
(* handed something by an earlier one, and the answers an attempt waits    *)
(* for are for prompts it asked.  What a tree has of its events            *)
(* (TreeTells): each step started is in it unless the tree is full, each   *)
(* file is with the attempt whose call wrote it, each answer with the one  *)
(* that asked.  And the tree shown while the run goes is the one computed  *)
(* from the events shown (Live).                                           *)
(***************************************************************************)
EXTENDS MCRecords, SequencesExt, SequenceTheorems, FiniteSetTheorems, WellFoundedInduction, TLAPS

-----------------------------------------------------------------------------
(* Naturals. *)

(* < is well founded on the naturals.                                          *)
LEMMA LessIsWellFounded ==
  \E R : IsWellFoundedOn(R, Nat) /\ \A x, y \in Nat : x < y => <<x, y>> \in R
<1>1. IsWellFoundedOn(OpToRel(<, Nat), Nat)
  BY NatLessThanWellFounded
<1>2. \A x, y \in Nat : x < y => <<x, y>> \in OpToRel(<, Nat)
  BY DEF OpToRel
<1>3. QED
  BY <1>1, <1>2, Zenon

(* A set of naturals that is not empty has a least element.                    *)
LEMMA LeastNat ==
  ASSUME NEW T, T \subseteq Nat, T # {}
  PROVE  \E x \in T : \A y \in T : x <= y
<1>1. PICK R : IsWellFoundedOn(R, Nat) /\ \A x, y \in Nat : x < y => <<x, y>> \in R
  BY LessIsWellFounded
<1>2. \E x \in T : \A y \in T : <<y, x>> \notin R
  <2>1. \A X, Q, U : IsWellFoundedOn(Q, X) /\ U \subseteq X /\ U # {} => \E u \in U : \A y \in U : <<y, u>> \notin Q
    BY WFMin
  <2>2. IsWellFoundedOn(R, Nat)
    BY <1>1
  <2>3. QED
    BY <2>1, <2>2, Zenon
<1>3. PICK x \in T : \A y \in T : <<y, x>> \notin R
  BY <1>2
<1>4. ASSUME NEW y \in T PROVE x <= y
  <2>1. x \in Nat /\ y \in Nat
    OBVIOUS
  <2>2. ~(y < x)
    BY <1>1, <1>3, <2>1, Zenon
  <2>3. QED
    BY <2>1, <2>2
<1>5. QED
  BY <1>4

-----------------------------------------------------------------------------
(* Sums. *)

Plus(x, y) == x + y

(* The loop of a sum.                                                          *)
LEMMA PlusIs ==
  ASSUME NEW s, Len(s) \in Nat
  PROVE  \E k : k = [n \in 0..Len(s) |-> IF n = 0 THEN 0 ELSE Plus(k[n - 1], s[n])]
<1> DEFINE Is(k, m) == k = [n \in 0..m |-> IF n = 0 THEN 0 ELSE Plus(k[n - 1], s[n])]
           bad == {m \in 0..Len(s) : ~\E k : Is(k, m)}
<1>0. bad \subseteq 0..Len(s) /\ \A m \in 0..Len(s) : m \notin bad => \E k : Is(k, m)
  OBVIOUS
<1>1. ASSUME NEW m \in 1..Len(s), NEW k, Is(k, m - 1)
      PROVE  \E l : Is(l, m)
  <2> DEFINE l == [n \in 0..m |-> IF n < m THEN k[n] ELSE Plus(k[n - 1], s[n])]
  <2>1. \A n \in 0..(m - 1) : n < m /\ l[n] = k[n]
    OBVIOUS
  <2>2. ASSUME NEW n \in 0..m
        PROVE  l[n] = IF n = 0 THEN 0 ELSE Plus(l[n - 1], s[n])
    <3>1. CASE n = 0
      BY <1>1, <3>1
    <3>2. CASE n # 0
      <4>1. n - 1 \in 0..(m - 1) /\ l[n - 1] = k[n - 1]
        BY <2>1, <3>2
      <4>2. CASE n < m
        <5>1. n \in 0..(m - 1)
          BY <4>2
        <5>2. k[n] = Plus(k[n - 1], s[n])
          BY <1>1, <3>2, <5>1
        <5>3. QED
          BY <2>1, <3>2, <4>1, <5>1, <5>2
      <4>3. CASE ~(n < m)
        BY <3>2, <4>1, <4>3
      <4>4. QED
        BY <4>2, <4>3
    <3>3. QED
      BY <3>1, <3>2
  <2>3. l = [n \in 0..m |-> l[n]]
    OBVIOUS
  <2> HIDE DEF l
  <2>4. Is(l, m)
    BY <2>2, <2>3
  <2>5. QED
    BY <2>4
<1>2. \E k : Is(k, 0)
  <2> DEFINE k == [n \in 0..0 |-> 0]
  <2>1. Is(k, 0)
    OBVIOUS
  <2>2. QED
    BY <2>1
<1> HIDE DEF Is, bad
<1>3. bad = {}
  <2> SUFFICES ASSUME bad # {} PROVE FALSE
    OBVIOUS
  <2>1. PICK m \in bad : \A x \in bad : m <= x
    <3>1. bad \subseteq Nat
      BY <1>0
    <3>2. QED
      BY <3>1, LeastNat
  <2>2. m \in 0..Len(s) /\ m # 0
    BY <1>0, <1>2, <2>1 DEF bad
  <2>3. m \in 1..Len(s) /\ m - 1 \in 0..Len(s) /\ m - 1 \notin bad
    BY <1>0, <2>1, <2>2
  <2>4. PICK k : Is(k, m - 1)
    BY <1>0, <2>3
  <2>5. QED
    BY <1>1, <2>1, <2>3, <2>4 DEF bad
<1>4. \E k : Is(k, Len(s))
  BY <1>0, <1>3
<1>5. QED
  BY <1>4 DEF Is

\* The running sums of a sequence of counts.
Runs(s, k) ==
  k[0] = 0 /\ \A n \in 1..Len(s) : k[n - 1] \in Nat /\ k[n] \in Nat /\ k[n] = k[n - 1] + s[n]

(* A sum is the last of the running sums.                                      *)
LEMMA SumRuns ==
  ASSUME NEW s \in Seq(Nat)
  PROVE  \E k : Runs(s, k) /\ L!Sum(s) = k[Len(s)]
<1> DEFINE loop[n \in 0..Len(s)] == IF n = 0 THEN 0 ELSE loop[n - 1] + s[n]
           bad == {m \in 0..Len(s) : loop[m] \notin Nat}
<1>1. loop = [n \in 0..Len(s) |-> IF n = 0 THEN 0 ELSE loop[n - 1] + s[n]]
  <2>1. Len(s) \in Nat
    OBVIOUS
  <2>2. \E k : k = [n \in 0..Len(s) |-> IF n = 0 THEN 0 ELSE Plus(k[n - 1], s[n])]
    BY <2>1, PlusIs
  <2> QED BY <2>2 DEF Plus
<1>2. L!Sum(s) = loop[Len(s)]
  BY DEF L!Sum
<1> HIDE DEF loop
<1>3. loop[0] = 0 /\ \A n \in 1..Len(s) : loop[n] = loop[n - 1] + s[n]
  <2>1. \A n \in 0..Len(s) : loop[n] = IF n = 0 THEN 0 ELSE loop[n - 1] + s[n]
    BY <1>1, Zenon
  <2>2. 0 \in 0..Len(s) /\ \A n \in 1..Len(s) : n \in 0..Len(s) /\ n # 0
    OBVIOUS
  <2> QED BY <2>1, <2>2
<1>4. bad = {}
  <2> SUFFICES ASSUME bad # {} PROVE FALSE
    OBVIOUS
  <2>1. bad \subseteq Nat
    OBVIOUS
  <2>2. PICK m \in bad : \A k \in bad : m <= k
    <3> HIDE DEF bad
    <3> QED BY <2>1, LeastNat
  <2>3. m \in 1..Len(s)
    BY <1>3, <2>2
  <2>4. m - 1 \in 0..Len(s) /\ m - 1 \notin bad
    <3>1. m \in Nat /\ m - 1 \in 0..Len(s) /\ ~(m <= m - 1)
      BY <2>3
    <3> HIDE DEF bad
    <3> QED BY <2>2, <3>1
  <2>5. loop[m - 1] \in Nat /\ s[m] \in Nat
    BY <2>3, <2>4
  <2> QED BY <1>3, <2>2, <2>3, <2>5
<1>5. \A m \in 0..Len(s) : loop[m] \in Nat
  BY <1>4
<1>6. Runs(s, loop)
  <2>1. \A n \in 1..Len(s) : n \in 0..Len(s) /\ n - 1 \in 0..Len(s)
    OBVIOUS
  <2> HIDE DEF bad
  <2> QED BY <1>3, <1>5, <2>1 DEF Runs
<1> QED BY <1>2, <1>6

(* A sum of counts is a count.                                                 *)
LEMMA SumNat == ASSUME NEW s \in Seq(Nat) PROVE L!Sum(s) \in Nat
<1>1. PICK k : Runs(s, k) /\ L!Sum(s) = k[Len(s)]
  BY SumRuns
<1> QED BY <1>1 DEF Runs

(* More at one place: the sum grows by as much.                                *)
LEMMA SumBump ==
  ASSUME NEW f \in Seq(Nat), NEW g \in Seq(Nat), NEW q \in 1..Len(f), NEW d \in Nat,
         Len(g) = Len(f), g[q] = f[q] + d, \A i \in 1..Len(f) : i # q => g[i] = f[i]
  PROVE  L!Sum(g) = L!Sum(f) + d
<1>1. PICK k : Runs(f, k) /\ L!Sum(f) = k[Len(f)]
  BY SumRuns
<1>2. PICK h : Runs(g, h) /\ L!Sum(g) = h[Len(g)]
  BY SumRuns
<1> DEFINE Fits(n) == h[n] = IF n < q THEN k[n] ELSE k[n] + d
           bad == {n \in 0..Len(f) : ~Fits(n)}
<1>3. bad = {}
  <2> SUFFICES ASSUME bad # {} PROVE FALSE
    OBVIOUS
  <2>1. bad \subseteq Nat
    OBVIOUS
  <2>2. PICK m \in bad : \A x \in bad : m <= x
    <3> HIDE DEF bad
    <3> QED BY <2>1, LeastNat
  <2>3. m \in 1..Len(f)
    BY <1>1, <1>2, <2>2 DEF Runs
  <2>4. m - 1 \in 0..Len(f) /\ m - 1 \notin bad
    <3>1. m \in Nat /\ m - 1 \in 0..Len(f) /\ ~(m <= m - 1)
      BY <2>3
    <3> HIDE DEF bad
    <3> QED BY <2>2, <3>1
  <2>5. Fits(m - 1)
    BY <2>4
  <2>6. /\ h[m] = h[m - 1] + g[m] /\ k[m] = k[m - 1] + f[m]
        /\ k[m - 1] \in Nat /\ f[m] \in Nat /\ k[m] \in Nat
    <3>1. k[m] = k[m - 1] + f[m] /\ k[m - 1] \in Nat /\ k[m] \in Nat
      BY <1>1, <2>3 DEF Runs
    <3>2. m \in 1..Len(g)
      BY <2>3
    <3>3. h[m] = h[m - 1] + g[m]
      BY <1>2, <3>2 DEF Runs
    <3>4. f[m] \in Nat
      BY <2>3
    <3> HIDE DEF bad, Fits
    <3> QED BY ONLY <3>1, <3>3, <3>4
  <2>7. Fits(m)
    <3>1. CASE m < q
      BY <2>3, <2>5, <2>6, <3>1
    <3>2. CASE m = q
      <4>1. ~(m < q) /\ m - 1 < q /\ g[m] = f[m] + d
        BY <2>3, <3>2
      <4>2. h[m - 1] = k[m - 1]
        BY <2>5, <4>1
      <4>3. \A x, y \in Nat : x + (y + d) = (x + y) + d
        OBVIOUS
      <4> HIDE DEF bad
      <4>4. k[m - 1] + (f[m] + d) = (k[m - 1] + f[m]) + d
        BY <2>6, <4>3
      <4>5. h[m] = k[m] + d
        BY <2>6, <4>1, <4>2, <4>4
      <4> QED BY <4>1, <4>5
    <3>3. CASE m > q
      <4>1. ~(m < q) /\ ~(m - 1 < q) /\ g[m] = f[m]
        BY <2>3, <3>3
      <4>2. h[m - 1] = k[m - 1] + d
        BY <2>5, <4>1
      <4>3. \A x, y, z \in Nat : (x + d) + y = (x + y) + d
        OBVIOUS
      <4> HIDE DEF bad
      <4>4. k[m - 1] + d + f[m] = k[m - 1] + f[m] + d
        BY <2>6, <4>3
      <4>5. h[m] = k[m] + d
        BY <2>6, <4>1, <4>2, <4>4
      <4> QED BY <4>1, <4>5
    <3> QED BY <2>3, <3>1, <3>2, <3>3
  <2> QED BY <2>2, <2>7
<1>4. Fits(Len(f))
  <2>1. Len(f) \in 0..Len(f)
    OBVIOUS
  <2> QED BY <1>3, <2>1
<1> QED BY <1>1, <1>2, <1>4

(* One more: its count is added.                                               *)
LEMMA SumAppend ==
  ASSUME NEW f \in Seq(Nat), NEW g \in Seq(Nat), Len(g) = Len(f) + 1,
         \A i \in 1..Len(f) : g[i] = f[i]
  PROVE  L!Sum(g) = L!Sum(f) + g[Len(f) + 1]
<1>1. PICK k : Runs(f, k) /\ L!Sum(f) = k[Len(f)]
  BY SumRuns
<1>2. PICK h : Runs(g, h) /\ L!Sum(g) = h[Len(g)]
  BY SumRuns
<1> DEFINE bad == {n \in 0..Len(f) : h[n] # k[n]}
<1>3. bad = {}
  <2> SUFFICES ASSUME bad # {} PROVE FALSE
    OBVIOUS
  <2>1. bad \subseteq Nat
    OBVIOUS
  <2>2. PICK m \in bad : \A x \in bad : m <= x
    <3> HIDE DEF bad
    <3> QED BY <2>1, LeastNat
  <2>3. m \in 1..Len(f)
    BY <1>1, <1>2, <2>2 DEF Runs
  <2>4. m - 1 \in 0..Len(f) /\ m - 1 \notin bad
    <3>1. m \in Nat /\ m - 1 \in 0..Len(f) /\ ~(m <= m - 1)
      BY <2>3
    <3> HIDE DEF bad
    <3> QED BY <2>2, <3>1
  <2>5. h[m - 1] = k[m - 1]
    BY <2>4
  <2>6. h[m] = h[m - 1] + g[m] /\ k[m] = k[m - 1] + f[m]
    <3>1. m \in 1..Len(f) /\ m \in 1..Len(g)
      BY <2>3
    <3> HIDE DEF bad
    <3> QED BY ONLY <1>1, <1>2, <3>1 DEF Runs
  <2> QED BY <2>2, <2>3, <2>5, <2>6
<1>4. h[Len(f)] = k[Len(f)]
  <2>1. Len(f) \in 0..Len(f)
    OBVIOUS
  <2> QED BY <1>3, <2>1
<1>5. Len(f) + 1 \in 1..Len(g) /\ (Len(f) + 1) - 1 = Len(f) /\ Len(g) = Len(f) + 1
  OBVIOUS
<1>6. h[Len(f) + 1] = h[Len(f)] + g[Len(f) + 1]
  BY <1>2, <1>5 DEF Runs
<1> QED BY <1>1, <1>2, <1>4, <1>5, <1>6

(* Nothing adds up to nothing.                                                 *)
LEMMA SumZero ==
  ASSUME NEW f \in Seq(Nat), \A i \in 1..Len(f) : f[i] = 0
  PROVE  L!Sum(f) = 0
<1>1. PICK k : Runs(f, k) /\ L!Sum(f) = k[Len(f)]
  BY SumRuns
<1> DEFINE bad == {n \in 0..Len(f) : k[n] # 0}
<1>3. bad = {}
  <2> SUFFICES ASSUME bad # {} PROVE FALSE
    OBVIOUS
  <2>1. bad \subseteq Nat
    OBVIOUS
  <2>2. PICK m \in bad : \A x \in bad : m <= x
    <3> HIDE DEF bad
    <3> QED BY <2>1, LeastNat
  <2>3. m \in 1..Len(f)
    BY <1>1, <2>2 DEF Runs
  <2>4. m - 1 \in 0..Len(f) /\ m - 1 \notin bad
    <3>1. m \in Nat /\ m - 1 \in 0..Len(f) /\ ~(m <= m - 1)
      BY <2>3
    <3> HIDE DEF bad
    <3> QED BY <2>2, <3>1
  <2>5. k[m - 1] = 0
    BY <2>4
  <2>6. k[m] = k[m - 1] + f[m]
    BY <1>1, <2>3 DEF Runs
  <2> QED BY <2>2, <2>3, <2>5, <2>6
<1>4. k[Len(f)] = 0
  <2>1. Len(f) \in 0..Len(f)
    OBVIOUS
  <2> QED BY <1>3, <2>1
<1> QED BY <1>1, <1>4

(* One that counts nothing: the sum stays.                                     *)
LEMMA SumStays ==
  ASSUME NEW f \in Seq(Nat), NEW g \in Seq(Nat), NEW n, n = Len(f) + 1, Len(g) = n,
         \A i \in 1..Len(f) : g[i] = f[i], g[n] = 0
  PROVE  L!Sum(g) = L!Sum(f)
<1>1. Len(g) = Len(f) + 1 /\ g[Len(f) + 1] = 0
  OBVIOUS
<1>2. L!Sum(g) = L!Sum(f) + g[Len(f) + 1]
  BY <1>1, SumAppend
<1>3. L!Sum(g) = L!Sum(f) + 0 /\ L!Sum(f) \in Nat
  BY <1>1, <1>2, SumNat
<1> QED BY ONLY <1>3

-----------------------------------------------------------------------------
(* The tree of the run's steps. *)

(* The loop of buildLineage, one event after the other.                          *)
LEMMA GrownIs ==
  ASSUME NEW s, Len(s) \in Nat
  PROVE  \E k : k = [n \in 0..Len(s) |-> IF n = 0 THEN L!Empty ELSE L!Apply(k[n - 1], s[n])]
<1> DEFINE Is(k, m) == k = [n \in 0..m |-> IF n = 0 THEN L!Empty ELSE L!Apply(k[n - 1], s[n])]
           bad == {m \in 0..Len(s) : ~\E k : Is(k, m)}
<1>0. bad \subseteq 0..Len(s) /\ \A m \in 0..Len(s) : m \notin bad => \E k : Is(k, m)
  OBVIOUS
<1>1. ASSUME NEW m \in 1..Len(s), NEW k, Is(k, m - 1)
      PROVE  \E l : Is(l, m)
  <2> DEFINE l == [n \in 0..m |-> IF n < m THEN k[n] ELSE L!Apply(k[n - 1], s[n])]
  <2>1. \A n \in 0..(m - 1) : n < m /\ l[n] = k[n]
    OBVIOUS
  <2>2. ASSUME NEW n \in 0..m
        PROVE  l[n] = IF n = 0 THEN L!Empty ELSE L!Apply(l[n - 1], s[n])
    <3>1. CASE n = 0
      BY <1>1, <3>1
    <3>2. CASE n # 0
      <4>1. n - 1 \in 0..(m - 1) /\ l[n - 1] = k[n - 1]
        BY <2>1, <3>2
      <4>2. CASE n < m
        <5>1. n \in 0..(m - 1)
          BY <4>2
        <5>2. k[n] = L!Apply(k[n - 1], s[n])
          BY <1>1, <3>2, <5>1
        <5>3. QED
          BY <2>1, <3>2, <4>1, <5>1, <5>2
      <4>3. CASE ~(n < m)
        BY <3>2, <4>1, <4>3
      <4>4. QED
        BY <4>2, <4>3
    <3>3. QED
      BY <3>1, <3>2
  <2>3. l = [n \in 0..m |-> l[n]]
    OBVIOUS
  <2> HIDE DEF l
  <2>4. Is(l, m)
    BY <2>2, <2>3
  <2>5. QED
    BY <2>4
<1>2. \E k : Is(k, 0)
  <2> DEFINE k == [n \in 0..0 |-> L!Empty]
  <2>1. Is(k, 0)
    OBVIOUS
  <2>2. QED
    BY <2>1
<1> HIDE DEF Is, bad
<1>3. bad = {}
  <2> SUFFICES ASSUME bad # {} PROVE FALSE
    OBVIOUS
  <2>1. PICK m \in bad : \A x \in bad : m <= x
    <3>1. bad \subseteq Nat
      BY <1>0
    <3>2. QED
      BY <3>1, LeastNat
  <2>2. m \in 0..Len(s) /\ m # 0
    BY <1>0, <1>2, <2>1 DEF bad
  <2>3. m \in 1..Len(s) /\ m - 1 \in 0..Len(s) /\ m - 1 \notin bad
    BY <1>0, <2>1, <2>2
  <2>4. PICK k : Is(k, m - 1)
    BY <1>0, <2>3
  <2>5. QED
    BY <1>1, <2>1, <2>3, <2>4 DEF bad
<1>4. \E k : Is(k, Len(s))
  BY <1>0, <1>3
<1>5. QED
  BY <1>4 DEF Is


\* The trees of the first events.
Grows(s, k) == k[0] = L!Empty /\ \A n \in 1..Len(s) : k[n] = L!Apply(k[n - 1], s[n])

(* The tree of a sequence of events grows one event at a time.                 *)
LEMMA TreeGrows ==
  ASSUME NEW s, Len(s) \in Nat
  PROVE  \E k : Grows(s, k) /\ L!Tree(s) = k[Len(s)]
<1> DEFINE loop[n \in 0..Len(s)] == IF n = 0 THEN L!Empty ELSE L!Apply(loop[n - 1], s[n])
<1>1. loop = [n \in 0..Len(s) |-> IF n = 0 THEN L!Empty ELSE L!Apply(loop[n - 1], s[n])]
  <2>2. \E k : k = [n \in 0..Len(s) |-> IF n = 0 THEN L!Empty ELSE L!Apply(k[n - 1], s[n])]
    BY GrownIs
  <2> QED BY <2>2
<1>2. L!Tree(s) = loop[Len(s)]
  BY DEF L!Tree
<1> HIDE DEF loop
<1>3. loop[0] = L!Empty /\ \A n \in 1..Len(s) : loop[n] = L!Apply(loop[n - 1], s[n])
  <2>1. \A n \in 0..Len(s) : loop[n] = IF n = 0 THEN L!Empty ELSE L!Apply(loop[n - 1], s[n])
    BY <1>1, Zenon
  <2>2. 0 \in 0..Len(s) /\ \A n \in 1..Len(s) : n \in 0..Len(s) /\ n # 0
    OBVIOUS
  <2> QED BY <2>1, <2>2
<1>4. Grows(s, loop)
  BY <1>3 DEF Grows
<1> QED BY <1>2, <1>4

(* The tree of no events is the empty one.                                     *)
LEMMA TreeOfNone == L!Tree(<<>>) = L!Empty
<1>1. Len(<<>>) = 0
  OBVIOUS
<1>2. PICK k : Grows(<<>>, k) /\ L!Tree(<<>>) = k[Len(<<>>)]
  BY <1>1, TreeGrows
<1> QED BY <1>1, <1>2 DEF Grows

(* An event more is applied to the tree so far.                                *)
LEMMA TreeOn ==
  ASSUME NEW X, NEW s \in Seq(X), NEW e \in X
  PROVE  L!Tree(Append(s, e)) = L!Apply(L!Tree(s), e)
<1> DEFINE t == Append(s, e)
<1>0. t \in Seq(X) /\ Len(t) = Len(s) + 1 /\ Len(s) \in Nat /\ t[Len(s) + 1] = e
      /\ \A n \in 1..Len(s) : t[n] = s[n]
  OBVIOUS
<1> HIDE DEF t
<1>1. PICK k : Grows(s, k) /\ L!Tree(s) = k[Len(s)]
  BY <1>0, TreeGrows
<1>2. PICK h : Grows(t, h) /\ L!Tree(t) = h[Len(t)]
  <2>1. Len(t) \in Nat
    BY <1>0
  <2> QED BY <2>1, TreeGrows
<1> DEFINE bad == {n \in 0..Len(s) : h[n] # k[n]}
<1>3. bad = {}
  <2> SUFFICES ASSUME bad # {} PROVE FALSE
    OBVIOUS
  <2>1. bad \subseteq Nat
    OBVIOUS
  <2>2. PICK m \in bad : \A x \in bad : m <= x
    <3> HIDE DEF bad
    <3> QED BY <2>1, LeastNat
  <2>3. m \in 1..Len(s) /\ m \in 1..Len(t)
    BY <1>0, <1>1, <1>2, <2>2 DEF Grows
  <2>4. m - 1 \in 0..Len(s) /\ m - 1 \notin bad
    <3>1. m \in Nat /\ m - 1 \in 0..Len(s) /\ ~(m <= m - 1)
      BY <2>3
    <3> HIDE DEF bad
    <3> QED BY <2>2, <3>1
  <2>5. h[m - 1] = k[m - 1]
    BY <2>4
  <2>6. h[m] = L!Apply(h[m - 1], t[m]) /\ k[m] = L!Apply(k[m - 1], s[m])
    BY <1>1, <1>2, <2>3 DEF Grows
  <2> QED BY <1>0, <2>2, <2>3, <2>5, <2>6
<1>4. h[Len(s)] = k[Len(s)]
  <2>1. Len(s) \in 0..Len(s)
    BY <1>0
  <2> QED BY <1>3, <2>1
<1>5. Len(s) + 1 \in 1..Len(t) /\ (Len(s) + 1) - 1 = Len(s) /\ Len(t) = Len(s) + 1
  BY <1>0
<1>6. h[Len(s) + 1] = L!Apply(h[Len(s)], t[Len(s) + 1])
  <2>1. h[Len(s) + 1] = L!Apply(h[(Len(s) + 1) - 1], t[Len(s) + 1])
    BY <1>2, <1>5 DEF Grows
  <2> QED BY <1>5, <2>1
<1>7. L!Tree(t) = L!Apply(L!Tree(s), e)
  BY <1>0, <1>1, <1>2, <1>4, <1>5, <1>6
<1> QED BY <1>7 DEF t

-----------------------------------------------------------------------------
(* The table of agents. *)

\* The first m counts, and those of them that belong to p's step; the sums of these, at the places in D.
FirstFew(f, m) == [i \in 1..Len(f) |-> IF i <= m THEN f[i] ELSE 0]
PartOf(f, st, p, m) == [i \in 1..Len(f) |-> IF st[i] = st[p] /\ i <= m THEN f[i] ELSE 0]
ColumnOf(f, st, D, m) == [p \in 1..Len(f) |-> IF p \in D THEN L!Sum(PartOf(f, st, p, m)) ELSE 0]

(* These are sequences of counts, as long as f.                                *)
LEMMA FewKind ==
  ASSUME NEW f \in Seq(Nat), NEW m \in Nat
  PROVE  FirstFew(f, m) \in Seq(Nat) /\ Len(FirstFew(f, m)) = Len(f)
BY DEF FirstFew

(* The same.                                                                   *)
LEMMA PartKind ==
  ASSUME NEW f \in Seq(Nat), NEW st, NEW p, NEW m \in Nat
  PROVE  PartOf(f, st, p, m) \in Seq(Nat) /\ Len(PartOf(f, st, p, m)) = Len(f)
BY DEF PartOf

(* The same, of the sums at each place.                                        *)
LEMMA ColumnKind ==
  ASSUME NEW f \in Seq(Nat), NEW st, NEW D, NEW m \in Nat
  PROVE  ColumnOf(f, st, D, m) \in Seq(Nat) /\ Len(ColumnOf(f, st, D, m)) = Len(f)
<1>1. \A p : L!Sum(PartOf(f, st, p, m)) \in Nat
  BY PartKind, SumNat
<1> QED BY <1>1 DEF ColumnOf

\* What the rows add up to, of the first m counts, is what these counts add up to.
RowsAgree(f, st, D, m) == L!Sum(ColumnOf(f, st, D, m)) = L!Sum(FirstFew(f, m))
OnlyRow(st, D, q) == \A p \in D : st[p] = st[q] => p = q

(* If they agree on the first counts, they do on one more.                     *)
LEMMA RowsOn ==
  ASSUME NEW f \in Seq(Nat), NEW st, NEW D, D \subseteq 1..Len(f), NEW m \in 1..Len(f),
         NEW q \in D, st[q] = st[m], OnlyRow(st, D, q), NEW k, k = m - 1, RowsAgree(f, st, D, k)
  PROVE  RowsAgree(f, st, D, m)
<1> DEFINE d == f[m]
<1>0. d \in Nat /\ m \in Nat /\ m - 1 \in Nat /\ Len(f) \in Nat /\ ~(m <= m - 1)
      /\ \A i \in 1..Len(f) : f[i] \in Nat /\ (i # m => (i <= m <=> i <= m - 1))
  OBVIOUS
<1> HIDE DEF d
<1>1. PICK F, G : F = FirstFew(f, m - 1) /\ G = FirstFew(f, m)
  OBVIOUS
<1>2. L!Sum(G) = L!Sum(F) + d
  <2>1. /\ F \in Seq(Nat) /\ G \in Seq(Nat) /\ Len(F) = Len(f) /\ Len(G) = Len(f)
    BY <1>0, <1>1, FewKind
  <2>2. F[m] = 0 /\ G[m] = f[m]
    BY <1>0, <1>1 DEF FirstFew
  <2>3. \A i \in 1..Len(f) : i # m => G[i] = F[i]
    BY <1>0, <1>1 DEF FirstFew
  <2>4. G[m] = F[m] + d
    BY <1>0, <2>2 DEF d
  <2>5. m \in 1..Len(F)
    BY <2>1
  <2>6. d \in Nat
    BY <1>0
  <2> QED BY ONLY <2>1, <2>3, <2>4, <2>5, <2>6, SumBump
<1>3. L!Sum(PartOf(f, st, q, m)) = L!Sum(PartOf(f, st, q, m - 1)) + d
  <2>0. PICK P, Q : P = PartOf(f, st, q, m - 1) /\ Q = PartOf(f, st, q, m)
    OBVIOUS
  <2>1. /\ P \in Seq(Nat) /\ Q \in Seq(Nat) /\ Len(P) = Len(f) /\ Len(Q) = Len(f)
    BY <1>0, <2>0, PartKind
  <2>2. P[m] = 0 /\ Q[m] = f[m]
    BY <1>0, <2>0 DEF PartOf
  <2>3. \A i \in 1..Len(f) : i # m => Q[i] = P[i]
    BY <1>0, <2>0 DEF PartOf
  <2>4. Q[m] = P[m] + d
    BY <1>0, <2>2 DEF d
  <2>5. m \in 1..Len(P)
    BY <2>1
  <2>6. d \in Nat
    BY <1>0
  <2>7. L!Sum(Q) = L!Sum(P) + d
    BY ONLY <2>1, <2>3, <2>4, <2>5, <2>6, SumBump
  <2> QED BY <2>0, <2>7
<1>4. ASSUME NEW p \in D, p # q
      PROVE  PartOf(f, st, p, m) = PartOf(f, st, p, m - 1)
  <2>1. st[p] # st[m]
    BY <1>4 DEF OnlyRow
  <2>2. \A i \in 1..Len(f) : (st[i] = st[p] /\ i <= m) <=> (st[i] = st[p] /\ i <= m - 1)
    BY <1>0, <2>1
  <2> QED BY <2>2 DEF PartOf
<1>5. PICK C, E : C = ColumnOf(f, st, D, m - 1) /\ E = ColumnOf(f, st, D, m)
  OBVIOUS
<1>6. /\ C \in Seq(Nat) /\ E \in Seq(Nat) /\ Len(C) = Len(f) /\ Len(E) = Len(f)
  BY <1>0, <1>5, ColumnKind
<1>7. /\ \A p \in 1..Len(f) : C[p] = IF p \in D THEN L!Sum(PartOf(f, st, p, m - 1)) ELSE 0
      /\ \A p \in 1..Len(f) : E[p] = IF p \in D THEN L!Sum(PartOf(f, st, p, m)) ELSE 0
  BY <1>5 DEF ColumnOf
<1>8. E[q] = C[q] + d
  BY <1>3, <1>7
<1>9. \A p \in 1..Len(f) : p # q => E[p] = C[p]
  BY <1>4, <1>7
<1>10. q \in 1..Len(C)
  BY <1>6
<1>11. L!Sum(E) = L!Sum(C) + d
  <2>1. d \in Nat /\ \A p \in 1..Len(C) : p # q => E[p] = C[p]
    BY <1>0, <1>6, <1>9
  <2>2. C \in Seq(Nat) /\ E \in Seq(Nat) /\ Len(E) = Len(C)
    BY <1>6
  <2> QED BY ONLY <1>8, <1>10, <2>1, <2>2, SumBump
<1> QED BY <1>1, <1>2, <1>5, <1>11 DEF RowsAgree

\* At each place in D, what its step's counts add up to.
Gathered(f, st, D) ==
  [p \in 1..Len(f) |-> IF p \in D THEN L!Sum([i \in 1..Len(f) |-> IF st[i] = st[p] THEN f[i] ELSE 0]) ELSE 0]

(* One row for each step: what the rows add up to is the sum.                  *)
LEMMA RowsSum ==
  ASSUME NEW f \in Seq(Nat), NEW st, NEW D, D \subseteq 1..Len(f),
         \A i \in 1..Len(f) : \E q \in D : st[q] = st[i],
         \A p, q \in D : st[p] = st[q] => p = q
  PROVE  L!Sum(Gathered(f, st, D)) = L!Sum(f)
<1> DEFINE bad == {m \in 0..Len(f) : L!Sum(ColumnOf(f, st, D, m)) # L!Sum(FirstFew(f, m))}
<1>1. bad = {}
  <2> SUFFICES ASSUME bad # {} PROVE FALSE
    OBVIOUS
  <2>1. bad \subseteq Nat
    OBVIOUS
  <2>2. PICK m \in bad : \A x \in bad : m <= x
    <3> HIDE DEF bad
    <3> QED BY <2>1, LeastNat
  <2>3. m # 0
    <3>1. L!Sum(FirstFew(f, 0)) = 0
      <4>1. FirstFew(f, 0) \in Seq(Nat) /\ Len(FirstFew(f, 0)) = Len(f)
        BY FewKind
      <4>2. \A i \in 1..Len(f) : FirstFew(f, 0)[i] = 0
        BY DEF FirstFew
      <4> QED BY <4>1, <4>2, SumZero
    <3>2. ASSUME NEW p PROVE L!Sum(PartOf(f, st, p, 0)) = 0
      <4>0. 0 \in Nat
        OBVIOUS
      <4>1. PartOf(f, st, p, 0) \in Seq(Nat) /\ Len(PartOf(f, st, p, 0)) = Len(f)
        BY <4>0, PartKind
      <4>2. \A i \in 1..Len(f) : PartOf(f, st, p, 0)[i] = 0
        BY DEF PartOf
      <4> QED BY <4>1, <4>2, SumZero
    <3>3. L!Sum(ColumnOf(f, st, D, 0)) = 0
      <4>1. ColumnOf(f, st, D, 0) \in Seq(Nat) /\ Len(ColumnOf(f, st, D, 0)) = Len(f)
        BY ColumnKind
      <4>2. \A i \in 1..Len(f) : ColumnOf(f, st, D, 0)[i] = 0
        BY <3>2 DEF ColumnOf
      <4> QED BY <4>1, <4>2, SumZero
    <3> QED BY <2>2, <3>1, <3>3
  <2>4. m \in 1..Len(f)
    BY <2>2, <2>3
  <2>5. m - 1 \in 0..Len(f) /\ m - 1 \notin bad
    <3>1. m \in Nat /\ m - 1 \in 0..Len(f) /\ ~(m <= m - 1)
      BY <2>4
    <3> HIDE DEF bad
    <3> QED BY <2>2, <3>1
  <2>6. PICK k : k = m - 1 /\ RowsAgree(f, st, D, k)
    BY <2>5 DEF RowsAgree
  <2>7. PICK q \in D : st[q] = st[m]
    BY <2>4
  <2>8. OnlyRow(st, D, q)
    BY DEF OnlyRow
  <2> HIDE DEF bad
  <2>9. D \subseteq 1..Len(f) /\ f \in Seq(Nat)
    OBVIOUS
  <2>10. RowsAgree(f, st, D, m)
    BY ONLY <2>4, <2>6, <2>7, <2>8, <2>9, RowsOn
  <2> USE DEF bad
  <2> QED BY <2>2, <2>10 DEF RowsAgree
<1>2. L!Sum(ColumnOf(f, st, D, Len(f))) = L!Sum(FirstFew(f, Len(f)))
  <2>1. Len(f) \in 0..Len(f)
    OBVIOUS
  <2> QED BY <1>1, <2>1
<1>3. FirstFew(f, Len(f)) = f
  <2>1. \A i \in 1..Len(f) : i <= Len(f)
    OBVIOUS
  <2>2. f = [i \in 1..Len(f) |-> f[i]]
    OBVIOUS
  <2> QED BY <2>1, <2>2 DEF FirstFew
<1>4. ASSUME NEW p
      PROVE  PartOf(f, st, p, Len(f)) = [i \in 1..Len(f) |-> IF st[i] = st[p] THEN f[i] ELSE 0]
  <2>1. \A i \in 1..Len(f) : i <= Len(f)
    OBVIOUS
  <2> QED BY <2>1 DEF PartOf
<1>5. ColumnOf(f, st, D, Len(f)) = Gathered(f, st, D)
  BY <1>4 DEF ColumnOf, Gathered
<1> QED BY <1>2, <1>3, <1>5

(* Ones add up to how many they are.                                           *)
LEMMA SumOnes ==
  ASSUME NEW f \in Seq(Nat), \A i \in 1..Len(f) : f[i] = 1
  PROVE  L!Sum(f) = Len(f)
<1>1. PICK k : Runs(f, k) /\ L!Sum(f) = k[Len(f)]
  BY SumRuns
<1> DEFINE bad == {n \in 0..Len(f) : k[n] # n}
<1>3. bad = {}
  <2> SUFFICES ASSUME bad # {} PROVE FALSE
    OBVIOUS
  <2>1. bad \subseteq Nat
    OBVIOUS
  <2>2. PICK m \in bad : \A x \in bad : m <= x
    <3> HIDE DEF bad
    <3> QED BY <2>1, LeastNat
  <2>3. m \in 1..Len(f)
    BY <1>1, <2>2 DEF Runs
  <2>4. m - 1 \in 0..Len(f) /\ m - 1 \notin bad
    <3>1. m \in Nat /\ m - 1 \in 0..Len(f) /\ ~(m <= m - 1)
      BY <2>3
    <3> HIDE DEF bad
    <3> QED BY <2>2, <3>1
  <2>5. k[m - 1] = m - 1
    BY <2>4
  <2>6. k[m] = k[m - 1] + f[m]
    BY <1>1, <2>3 DEF Runs
  <2> QED BY <2>2, <2>3, <2>5, <2>6
<1>4. k[Len(f)] = Len(f)
  <2>1. Len(f) \in 0..Len(f)
    OBVIOUS
  <2> QED BY <1>3, <2>1
<1> QED BY <1>1, <1>4

Origin == {"root", "retry", "repair", "handoff"}
Outcome == {"running", "ended", "incomplete"}
AttemptKind ==
  [step : Step, attempt : Nat, kind : Origin, parent : Nat, outcome : Outcome, cost : Nat, asked : Nat,
   answered : Nat, calls : Nat, files : SUBSET Call, failed : Nat]

(* A step's place is that of its first attempt.                                *)
LEMMA PlaceIs ==
  ASSUME NEW n \in Seq(AttemptKind), NEW i \in 1..Len(n)
  PROVE  /\ L!PlaceOf(n, n[i].step) \in 1..Len(n) /\ n[L!PlaceOf(n, n[i].step)].step = n[i].step
         /\ \A j \in 1..Len(n) : n[j].step = n[i].step => L!PlaceOf(n, n[i].step) <= j
<1> DEFINE mine == {j \in 1..Len(n) : n[j].step = n[i].step}
<1>1. mine \subseteq Nat /\ mine # {}
  OBVIOUS
<1>2. PICK p \in mine : \A j \in mine : p <= j
  <2> HIDE DEF mine
  <2> QED BY <1>1, LeastNat
<1>3. \E q \in 1..Len(n) : n[q].step = n[i].step /\ \A j \in 1..Len(n) : n[j].step = n[i].step => q <= j
  BY <1>2
<1> QED BY <1>3 DEF L!PlaceOf

(* A step's first attempt, and no other, is in the lane that goes forward.      *)
LEMMA LaneIs ==
  ASSUME NEW n \in Seq(AttemptKind), NEW i \in 1..Len(n)
  PROVE  L!Lane(n, i) = 0 <=> \A j \in 1..(i - 1) : n[j].step # n[i].step
<1> DEFINE place(j) == L!PlaceOf(n, n[j].step)
<1>1. \A j \in 1..Len(n) : place(j) \in 1..Len(n) /\ place(j) <= j /\ n[place(j)].step = n[j].step
  <2> TAKE j \in 1..Len(n)
  <2>1. /\ L!PlaceOf(n, n[j].step) \in 1..Len(n) /\ n[L!PlaceOf(n, n[j].step)].step = n[j].step
        /\ \A k \in 1..Len(n) : n[k].step = n[j].step => L!PlaceOf(n, n[j].step) <= k
    BY PlaceIs
  <2> QED BY <2>1
<1>2. L!Lane(n, i) = IF \E j \in 1..(i - 1) : place(i) <= place(j) THEN 1 ELSE 0
  BY DEF L!Lane
<1>3. \A j \in 1..(i - 1) : j \in 1..Len(n) /\ j < i
  OBVIOUS
<1>4. ASSUME NEW j \in 1..(i - 1), n[j].step = n[i].step PROVE place(i) <= place(j)
  BY <1>1, <1>3, <1>4
<1>5. ASSUME NEW j \in 1..(i - 1), place(i) <= place(j) PROVE \E k \in 1..(i - 1) : n[k].step = n[i].step
  <2>1. place(i) \in 1..(i - 1)
    BY <1>1, <1>3, <1>5
  <2> QED BY <1>1, <2>1
<1> HIDE DEF place
<1> QED BY <1>2, <1>4, <1>5

\* The places in the table, the row of each, and a column of it.
Placed(n) == {i \in 1..Len(n) : L!PlaceOf(n, n[i].step) = i}
Share(n, p, f) == L!Sum([i \in 1..Len(n) |-> IF n[i].step = n[p].step THEN f[i] ELSE 0])
Column(n, f) == L!Sum([p \in 1..Len(n) |-> IF p \in Placed(n) THEN Share(n, p, f) ELSE 0])

(* A column of the table adds up to the attempts' counts.                      *)
LEMMA ColumnSum ==
  ASSUME NEW n \in Seq(AttemptKind), NEW f \in Seq(Nat), Len(f) = Len(n)
  PROVE  Column(n, f) = L!Sum(f)
<1>1. PICK st : st = [i \in 1..Len(n) |-> n[i].step]
  OBVIOUS
<1>2. PICK D : D = Placed(n)
  OBVIOUS
<1>3. D \subseteq 1..Len(f)
  BY <1>2 DEF Placed
<1>4. \A i \in 1..Len(f) : \E q \in D : st[q] = st[i]
  <2> TAKE i \in 1..Len(f)
  <2>1. PICK q : q = L!PlaceOf(n, n[i].step)
    OBVIOUS
  <2>2. q \in 1..Len(n) /\ n[q].step = n[i].step
    BY <2>1, PlaceIs
  <2>3. q \in D
    BY <1>2, <2>1, <2>2 DEF Placed
  <2> QED BY <1>1, <2>2, <2>3
<1>5. \A p, q \in D : st[p] = st[q] => p = q
  BY <1>1, <1>2 DEF Placed
<1>6. L!Sum(Gathered(f, st, D)) = L!Sum(f)
  BY ONLY f \in Seq(Nat), <1>3, <1>4, <1>5, RowsSum
<1>7. ASSUME NEW p \in D
      PROVE  [i \in 1..Len(f) |-> IF st[i] = st[p] THEN f[i] ELSE 0]
               = [i \in 1..Len(n) |-> IF n[i].step = n[p].step THEN f[i] ELSE 0]
  BY <1>1, <1>3
<1>8. Gathered(f, st, D) = [p \in 1..Len(n) |-> IF p \in Placed(n) THEN Share(n, p, f) ELSE 0]
  BY <1>2, <1>7 DEF Share, Gathered
<1> QED BY <1>6, <1>8 DEF Column

(* What the attempts spent, called and asked are sequences of counts.          *)
LEMMA PartsKind ==
  ASSUME NEW n \in Seq(AttemptKind)
  PROVE  /\ L!Spent(n) \in Seq(Nat) /\ Len(L!Spent(n)) = Len(n)
         /\ L!Called(n) \in Seq(Nat) /\ Len(L!Called(n)) = Len(n)
         /\ L!Asked(n) \in Seq(Nat) /\ Len(L!Asked(n)) = Len(n)
<1>1. Len(n) \in Nat /\ \A i \in 1..Len(n) : n[i].cost \in Nat /\ n[i].calls \in Nat /\ n[i].asked \in Nat
  <2>1. Len(n) \in Nat /\ \A i \in 1..Len(n) : n[i] \in AttemptKind
    OBVIOUS
  <2> QED BY <2>1 DEF AttemptKind
<1>2. L!Spent(n) \in Seq(Nat) /\ Len(L!Spent(n)) = Len(n)
  BY <1>1 DEF L!Spent
<1>3. L!Called(n) \in Seq(Nat) /\ Len(L!Called(n)) = Len(n)
  BY <1>1 DEF L!Called
<1>4. L!Asked(n) \in Seq(Nat) /\ Len(L!Asked(n)) = Len(n)
  BY <1>1 DEF L!Asked
<1> QED BY <1>2, <1>3, <1>4

\* A row of the table of agents.
RowAt(n, p) == [step |-> n[p].step, attempts |-> Share(n, p, [i \in 1..Len(n) |-> 1]),
                cost |-> Share(n, p, L!Spent(n)), calls |-> Share(n, p, L!Called(n)),
                asked |-> Share(n, p, L!Asked(n)),
                files |-> UNION {n[i].files : i \in {i \in 1..Len(n) : n[i].step = n[p].step}}]

(* The table of agents has a row at the first attempt of each step.            *)
LEMMA AgentsAre ==
  ASSUME NEW n
  PROVE  L!Agents(n) = [p \in Placed(n) |-> RowAt(n, p)]
<1>1. ASSUME NEW p, NEW f
      PROVE  [i \in 1..Len(n) |-> IF i \in {j \in 1..Len(n) : n[j].step = n[p].step} THEN f[i] ELSE 0]
               = [i \in 1..Len(n) |-> IF n[i].step = n[p].step THEN f[i] ELSE 0]
  OBVIOUS
<1>2. ASSUME NEW p, NEW f
      PROVE  L!Sum([i \in 1..Len(n) |-> IF i \in {j \in 1..Len(n) : n[j].step = n[p].step} THEN f[i] ELSE 0])
               = Share(n, p, f)
  BY <1>1 DEF Share
<1> QED BY <1>2 DEF L!Agents, Placed, RowAt

(* The table of agents adds up to the totals, and has a row for each step.       *)
LEMMA TableIs ==
  ASSUME NEW t, NEW n \in Seq(AttemptKind), t.nodes = n, t.cost = t.loose + L!Sum(L!Spent(n)),
         t.asked = L!Sum(L!Asked(n)), t.calls = L!Sum(L!Called(n)),
         \A i \in 1..Len(n) : \E a \in L!Of("phase-start") : log[a].step = n[i].step,
         t.truncated \/ \A a \in L!Of("phase-start") : \E i \in 1..Len(n) : n[i].step = log[a].step
  PROVE  L!TableAgrees(t)
<1>1. PICK rows : rows = L!Agents(n)
  OBVIOUS
<1>2. rows = [p \in Placed(n) |-> RowAt(n, p)]
  BY <1>1, AgentsAre
<1>3. DOMAIN rows = Placed(n) /\ Placed(n) \subseteq 1..Len(n)
  BY <1>2 DEF Placed
<1>4. ASSUME NEW p \in Placed(n)
      PROVE  /\ rows[p].step = n[p].step /\ rows[p].attempts = Share(n, p, [i \in 1..Len(n) |-> 1])
             /\ rows[p].cost = Share(n, p, L!Spent(n)) /\ rows[p].calls = Share(n, p, L!Called(n))
             /\ rows[p].asked = Share(n, p, L!Asked(n))
  BY <1>2 DEF RowAt
<1> DEFINE sum(f) == L!Sum([p \in 1..Len(n) |-> IF p \in DOMAIN rows THEN f[p] ELSE 0])
<1>5. sum([p \in DOMAIN rows |-> rows[p].cost]) = L!Sum(L!Spent(n))
  <2>1. [p \in 1..Len(n) |-> IF p \in DOMAIN rows THEN [q \in DOMAIN rows |-> rows[q].cost][p] ELSE 0]
          = [p \in 1..Len(n) |-> IF p \in Placed(n) THEN Share(n, p, L!Spent(n)) ELSE 0]
    BY <1>3, <1>4
  <2>2. PICK f : f = L!Spent(n)
    OBVIOUS
  <2>3. Column(n, f) = L!Sum(f)
    BY <2>2, PartsKind, ColumnSum
  <2> QED BY <2>1, <2>2, <2>3 DEF Column
<1>6. sum([p \in DOMAIN rows |-> rows[p].asked]) = L!Sum(L!Asked(n))
  <2>1. [p \in 1..Len(n) |-> IF p \in DOMAIN rows THEN [q \in DOMAIN rows |-> rows[q].asked][p] ELSE 0]
          = [p \in 1..Len(n) |-> IF p \in Placed(n) THEN Share(n, p, L!Asked(n)) ELSE 0]
    BY <1>3, <1>4
  <2>2. PICK f : f = L!Asked(n)
    OBVIOUS
  <2>3. Column(n, f) = L!Sum(f)
    BY <2>2, PartsKind, ColumnSum
  <2> QED BY <2>1, <2>2, <2>3 DEF Column
<1>7. sum([p \in DOMAIN rows |-> rows[p].calls]) = L!Sum(L!Called(n))
  <2>1. [p \in 1..Len(n) |-> IF p \in DOMAIN rows THEN [q \in DOMAIN rows |-> rows[q].calls][p] ELSE 0]
          = [p \in 1..Len(n) |-> IF p \in Placed(n) THEN Share(n, p, L!Called(n)) ELSE 0]
    BY <1>3, <1>4
  <2>2. PICK f : f = L!Called(n)
    OBVIOUS
  <2>3. Column(n, f) = L!Sum(f)
    BY <2>2, PartsKind, ColumnSum
  <2> QED BY <2>1, <2>2, <2>3 DEF Column
<1>8. sum([p \in DOMAIN rows |-> rows[p].attempts]) = Len(n)
  <2>0. PICK ones : ones = [i \in 1..Len(n) |-> 1]
    OBVIOUS
  <2>1. [p \in 1..Len(n) |-> IF p \in DOMAIN rows THEN [q \in DOMAIN rows |-> rows[q].attempts][p] ELSE 0]
          = [p \in 1..Len(n) |-> IF p \in Placed(n) THEN Share(n, p, ones) ELSE 0]
    BY <1>3, <1>4, <2>0
  <2>2. ones \in Seq(Nat) /\ Len(ones) = Len(n) /\ \A i \in 1..Len(ones) : ones[i] = 1
    BY <2>0
  <2>3. L!Sum(ones) = Len(n)
    BY <2>2, SumOnes
  <2>4. Column(n, ones) = L!Sum(ones)
    BY <2>2, ColumnSum
  <2> QED BY <2>1, <2>3, <2>4 DEF Column
<1>9. \A p \in DOMAIN rows : \E i \in L!Of("phase-start") : log[i].step = rows[p].step
  BY <1>3, <1>4
<1>10. t.truncated \/ \A i \in L!Of("phase-start") : \E p \in DOMAIN rows : rows[p].step = log[i].step
  <2> SUFFICES ASSUME ~t.truncated, NEW a \in L!Of("phase-start")
               PROVE  \E p \in DOMAIN rows : rows[p].step = log[a].step
    OBVIOUS
  <2>1. PICK i \in 1..Len(n) : n[i].step = log[a].step
    OBVIOUS
  <2>2. PICK p : p = L!PlaceOf(n, n[i].step)
    OBVIOUS
  <2>3. p \in 1..Len(n) /\ n[p].step = n[i].step
    BY <2>2, PlaceIs
  <2>4. p \in Placed(n)
    BY <2>2, <2>3 DEF Placed
  <2> QED BY <1>3, <1>4, <2>1, <2>3, <2>4
<1>11. \A i \in 1..Len(n) : L!Lane(n, i) = 0 <=> \A j \in 1..(i - 1) : n[j].step # n[i].step
  BY LaneIs
<1> QED BY <1>1, <1>5, <1>6, <1>7, <1>8, <1>9, <1>10, <1>11 DEF L!TableAgrees

-----------------------------------------------------------------------------
(* A tree that is sound. *)

TreeKind ==
  [nodes : Seq(AttemptKind), current : Nat, ended : Nat, from : Nat, target : Step \cup {L!None},
   latest : [Step -> Nat], writing : [Call -> Nat], asking : [Call -> Nat], cost : Nat, loose : Nat,
   asked : Nat, calls : Nat, repairs : Nat, done : BOOLEAN, truncated : BOOLEAN]

\* The tree points at its own attempts; each was handed something by an earlier one.
Pointers(t) ==
  /\ t.current <= Len(t.nodes) /\ t.ended <= Len(t.nodes) /\ t.from <= Len(t.nodes)
  /\ \A s \in Step : t.latest[s] <= Len(t.nodes)
  /\ \A c \in Call : t.writing[c] <= Len(t.nodes) /\ t.asking[c] <= Len(t.nodes)
Handed(t) ==
  \A i \in 1..Len(t.nodes) : t.nodes[i].parent < i /\ (t.nodes[i].kind = "root" <=> t.nodes[i].parent = 0)

\* Every dollar, prompt and call is some attempt's or said to be nobody's.
Totals(t) ==
  /\ t.cost = t.loose + L!Sum(L!Spent(t.nodes))
  /\ t.asked = L!Sum(L!Asked(t.nodes))
  /\ t.calls = L!Sum(L!Called(t.nodes))

\* The steps that have an attempt in the tree are those that have a latest one; the tree is cut
\* short when it is full.
Reached(t) ==
  /\ \A s \in Step : t.latest[s] = 0 <=> \A i \in 1..Len(t.nodes) : t.nodes[i].step # s
  /\ t.truncated => Len(t.nodes) >= MaxNodes

\* The prompts of an attempt that wait, and room for their answers.
Waiting(t, i) == {c \in Call : t.asking[c] = i}
AnswersFit(t) ==
  \A i \in 1..Len(t.nodes) : /\ IsFiniteSet(Waiting(t, i))
                             /\ t.nodes[i].answered + Cardinality(Waiting(t, i)) <= t.nodes[i].asked

TreeSound(t) == t \in TreeKind /\ Pointers(t) /\ Handed(t) /\ Totals(t) /\ Reached(t) /\ AnswersFit(t)

\* The attempt at i becomes m, and no other changes.
Put(n, i, m) == [n EXCEPT ![i] = m]
Touched(n, g, i, m) ==
  g \in Seq(AttemptKind) /\ Len(g) = Len(n) /\ g[i] = m /\ \A j \in 1..Len(n) : j # i => g[j] = n[j]

(* An attempt that is counted more.                                            *)
LEMMA TouchCalls ==
  ASSUME NEW n \in Seq(AttemptKind), NEW i \in 1..Len(n), NEW m \in AttemptKind, NEW g,
         g = Put(n, i, m), m.cost = n[i].cost, m.calls = n[i].calls + 1, m.asked = n[i].asked
  PROVE  /\ Touched(n, g, i, m)
         /\ L!Sum(L!Spent(g)) = L!Sum(L!Spent(n))
         /\ L!Sum(L!Called(g)) = L!Sum(L!Called(n)) + 1
         /\ L!Sum(L!Asked(g)) = L!Sum(L!Asked(n))
<1>1. g \in Seq(AttemptKind) /\ Len(g) = Len(n) /\ g[i] = m /\ \A j \in 1..Len(n) : j # i => g[j] = n[j]
  BY DEF Put
<1>2. L!Spent(g) = L!Spent(n)
  BY <1>1 DEF L!Spent
<1>3. L!Sum(L!Called(g)) = L!Sum(L!Called(n)) + 1
  <2>0. PICK x, y : x = L!Called(n) /\ y = L!Called(g)
    OBVIOUS
  <2>1. x \in Seq(Nat) /\ Len(x) = Len(n) /\ y \in Seq(Nat) /\ Len(y) = Len(n)
    BY <1>1, <2>0, PartsKind
  <2>2. \A j \in 1..Len(n) : x[j] = n[j].calls /\ y[j] = g[j].calls
    BY <1>1, <2>0 DEF L!Called
  <2>3. i \in 1..Len(x) /\ y[i] = x[i] + 1 /\ \A j \in 1..Len(x) : j # i => y[j] = x[j]
    <3>1. i \in 1..Len(x)
      BY <2>1
    <3>2. y[i] = g[i].calls /\ x[i] = n[i].calls
      BY <2>2
    <3>3. y[i] = x[i] + 1
      BY <1>1, <3>2
    <3>4. ASSUME NEW j \in 1..Len(x), j # i PROVE y[j] = x[j]
      <4>1. j \in 1..Len(n)
        BY <2>1
      <4>2. g[j] = n[j]
        BY <1>1, <3>4, <4>1
      <4> QED BY ONLY <2>2, <4>1, <4>2
    <3> QED BY <3>1, <3>3, <3>4
  <2>4. 1 \in Nat
    OBVIOUS
  <2>5. L!Sum(y) = L!Sum(x) + 1
    BY ONLY <2>1, <2>3, <2>4, SumBump
  <2> QED BY <2>0, <2>5
<1>4. L!Asked(g) = L!Asked(n)
  BY <1>1 DEF L!Asked
<1> QED BY <1>1, <1>2, <1>3, <1>4 DEF Touched

(* The same, of an attempt that asks once more.                                *)
LEMMA TouchAsked ==
  ASSUME NEW n \in Seq(AttemptKind), NEW i \in 1..Len(n), NEW m \in AttemptKind, NEW g,
         g = Put(n, i, m), m.cost = n[i].cost, m.calls = n[i].calls, m.asked = n[i].asked + 1
  PROVE  /\ Touched(n, g, i, m)
         /\ L!Sum(L!Spent(g)) = L!Sum(L!Spent(n))
         /\ L!Sum(L!Called(g)) = L!Sum(L!Called(n))
         /\ L!Sum(L!Asked(g)) = L!Sum(L!Asked(n)) + 1
<1>1. g \in Seq(AttemptKind) /\ Len(g) = Len(n) /\ g[i] = m /\ \A j \in 1..Len(n) : j # i => g[j] = n[j]
  BY DEF Put
<1>2. L!Spent(g) = L!Spent(n)
  BY <1>1 DEF L!Spent
<1>3. L!Called(g) = L!Called(n)
  BY <1>1 DEF L!Called
<1>4. L!Sum(L!Asked(g)) = L!Sum(L!Asked(n)) + 1
  <2>0. PICK x, y : x = L!Asked(n) /\ y = L!Asked(g)
    OBVIOUS
  <2>1. x \in Seq(Nat) /\ Len(x) = Len(n) /\ y \in Seq(Nat) /\ Len(y) = Len(n)
    BY <1>1, <2>0, PartsKind
  <2>2. \A j \in 1..Len(n) : x[j] = n[j].asked /\ y[j] = g[j].asked
    BY <1>1, <2>0 DEF L!Asked
  <2>3. i \in 1..Len(x) /\ y[i] = x[i] + 1 /\ \A j \in 1..Len(x) : j # i => y[j] = x[j]
    <3>1. i \in 1..Len(x)
      BY <2>1
    <3>2. y[i] = g[i].asked /\ x[i] = n[i].asked
      BY <2>2
    <3>3. y[i] = x[i] + 1
      BY <1>1, <3>2
    <3>4. ASSUME NEW j \in 1..Len(x), j # i PROVE y[j] = x[j]
      <4>1. j \in 1..Len(n)
        BY <2>1
      <4>2. g[j] = n[j]
        BY <1>1, <3>4, <4>1
      <4> QED BY ONLY <2>2, <4>1, <4>2
    <3> QED BY <3>1, <3>3, <3>4
  <2>4. 1 \in Nat
    OBVIOUS
  <2>5. L!Sum(y) = L!Sum(x) + 1
    BY ONLY <2>1, <2>3, <2>4, SumBump
  <2> QED BY <2>0, <2>5
<1> QED BY <1>1, <1>2, <1>3, <1>4 DEF Touched

(* The same, of an attempt that costs more.                                    *)
LEMMA TouchCost ==
  ASSUME NEW n \in Seq(AttemptKind), NEW i \in 1..Len(n), NEW m \in AttemptKind, NEW g,
         g = Put(n, i, m), m.cost = n[i].cost + 1, m.calls = n[i].calls, m.asked = n[i].asked
  PROVE  /\ Touched(n, g, i, m)
         /\ L!Sum(L!Spent(g)) = L!Sum(L!Spent(n)) + 1
         /\ L!Sum(L!Called(g)) = L!Sum(L!Called(n))
         /\ L!Sum(L!Asked(g)) = L!Sum(L!Asked(n))
<1>1. g \in Seq(AttemptKind) /\ Len(g) = Len(n) /\ g[i] = m /\ \A j \in 1..Len(n) : j # i => g[j] = n[j]
  BY DEF Put
<1>2. L!Sum(L!Spent(g)) = L!Sum(L!Spent(n)) + 1
  <2>0. PICK x, y : x = L!Spent(n) /\ y = L!Spent(g)
    OBVIOUS
  <2>1. x \in Seq(Nat) /\ Len(x) = Len(n) /\ y \in Seq(Nat) /\ Len(y) = Len(n)
    BY <1>1, <2>0, PartsKind
  <2>2. \A j \in 1..Len(n) : x[j] = n[j].cost /\ y[j] = g[j].cost
    BY <1>1, <2>0 DEF L!Spent
  <2>3. i \in 1..Len(x) /\ y[i] = x[i] + 1 /\ \A j \in 1..Len(x) : j # i => y[j] = x[j]
    <3>1. i \in 1..Len(x)
      BY <2>1
    <3>2. y[i] = g[i].cost /\ x[i] = n[i].cost
      BY <2>2
    <3>3. y[i] = x[i] + 1
      BY <1>1, <3>2
    <3>4. ASSUME NEW j \in 1..Len(x), j # i PROVE y[j] = x[j]
      <4>1. j \in 1..Len(n)
        BY <2>1
      <4>2. g[j] = n[j]
        BY <1>1, <3>4, <4>1
      <4> QED BY ONLY <2>2, <4>1, <4>2
    <3> QED BY <3>1, <3>3, <3>4
  <2>4. 1 \in Nat
    OBVIOUS
  <2>5. L!Sum(y) = L!Sum(x) + 1
    BY ONLY <2>1, <2>3, <2>4, SumBump
  <2> QED BY <2>0, <2>5
<1>3. L!Called(g) = L!Called(n)
  BY <1>1 DEF L!Called
<1>4. L!Asked(g) = L!Asked(n)
  BY <1>1 DEF L!Asked
<1> QED BY <1>1, <1>2, <1>3, <1>4 DEF Touched

(* An attempt that is told more of, and counted the same: no sum changes.      *)
LEMMA TouchSame ==
  ASSUME NEW n \in Seq(AttemptKind), NEW i \in 1..Len(n), NEW m \in AttemptKind, NEW g,
         g = Put(n, i, m), m.cost = n[i].cost, m.calls = n[i].calls, m.asked = n[i].asked
  PROVE  /\ Touched(n, g, i, m)
         /\ L!Sum(L!Spent(g)) = L!Sum(L!Spent(n))
         /\ L!Sum(L!Called(g)) = L!Sum(L!Called(n))
         /\ L!Sum(L!Asked(g)) = L!Sum(L!Asked(n))
<1>1. g \in Seq(AttemptKind) /\ Len(g) = Len(n) /\ g[i] = m /\ \A j \in 1..Len(n) : j # i => g[j] = n[j]
  BY DEF Put
<1>2. L!Spent(g) = L!Spent(n)
  BY <1>1 DEF L!Spent
<1>3. L!Called(g) = L!Called(n)
  BY <1>1 DEF L!Called
<1>4. L!Asked(g) = L!Asked(n)
  BY <1>1 DEF L!Asked
<1> QED BY <1>1, <1>2, <1>3, <1>4 DEF Touched

\* What no event but the start of an attempt changes: the attempts, and which is a step's latest.
SameAttempts(t, u) ==
  /\ Len(u.nodes) = Len(t.nodes) /\ u.latest = t.latest /\ u.truncated = t.truncated
  /\ \A i \in 1..Len(t.nodes) : /\ u.nodes[i].step = t.nodes[i].step /\ u.nodes[i].kind = t.nodes[i].kind
                                /\ u.nodes[i].parent = t.nodes[i].parent
SameFiles(t, u) == u.writing = t.writing /\ \A i \in 1..Len(t.nodes) : u.nodes[i].files = t.nodes[i].files
SameAnswers(t, u) ==
  u.asking = t.asking /\ \A i \in 1..Len(t.nodes) : /\ u.nodes[i].asked = t.nodes[i].asked
                                                   /\ u.nodes[i].answered = t.nodes[i].answered

(* What the events that start no attempt keep.                                 *)
LEMMA SameKeeps ==
  ASSUME NEW t, NEW u, TreeSound(t), SameAttempts(t, u)
  PROVE  Handed(u) /\ Reached(u) /\ (SameAnswers(t, u) => AnswersFit(u))
<1>1. Handed(u)
  BY DEF TreeSound, SameAttempts, Handed
<1>2. Reached(u)
  BY DEF TreeSound, SameAttempts, Reached
<1>3. SameAnswers(t, u) => AnswersFit(u)
  BY DEF TreeSound, SameAttempts, SameAnswers, AnswersFit, Waiting
<1> QED BY <1>1, <1>2, <1>3

(* A tree has its own attempts, files and answers.                             *)
LEMMA SameSelf ==
  ASSUME NEW t, TreeSound(t)
  PROVE  SameAttempts(t, t) /\ SameFiles(t, t) /\ SameAnswers(t, t)
BY DEF SameAttempts, SameFiles, SameAnswers

(* Decisions: nothing of the attempts changes.                                 *)
LEMMA RepairKeeps ==
  ASSUME NEW t, TreeSound(t), NEW n \in 0..Len(t.nodes), NEW x \in Step, NEW u, u = L!Repair(t, n, x)
  PROVE  TreeSound(u) /\ SameAttempts(t, u) /\ SameFiles(t, u) /\ SameAnswers(t, u) /\ u.cost = t.cost
<1>1. CASE n = 0
  BY <1>1, SameSelf DEF L!Repair
<1>2. CASE n # 0
  <2>1. t \in TreeKind /\ n \in Nat
    BY DEF TreeSound
  <2>2. u = [t EXCEPT !.repairs = @ + 1, !.from = n, !.target = x]
    BY <1>2 DEF L!Repair
  <2>3. u \in TreeKind
    <3>1. PICK y \in Step \cup {L!None} : u.target = y /\ y = u.target
      BY <2>1, <2>2 DEF TreeKind
    <3>2. PICK z \in Nat : z = u.repairs
      BY <2>1, <2>2 DEF TreeKind
    <3>3. PICK w \in Nat : w = u.from
      BY <2>1, <2>2 DEF TreeKind
    <3>4. u = [t EXCEPT !.repairs = z, !.from = w, !.target = y]
      BY <2>1, <2>2, <3>1, <3>2, <3>3 DEF TreeKind
    <3> QED BY ONLY <2>1, <3>4 DEF TreeKind
  <2>4. /\ u.nodes = t.nodes /\ u.latest = t.latest /\ u.truncated = t.truncated /\ u.writing = t.writing
        /\ u.asking = t.asking /\ u.cost = t.cost /\ u.loose = t.loose /\ u.asked = t.asked /\ u.calls = t.calls
        /\ u.current = t.current /\ u.ended = t.ended /\ u.from = n
    BY <2>1, <2>2 DEF TreeKind
  <2>5. SameAttempts(t, u) /\ SameFiles(t, u) /\ SameAnswers(t, u)
    BY <2>4 DEF SameAttempts, SameFiles, SameAnswers
  <2>6. Pointers(u) /\ Totals(u)
    BY <2>4 DEF TreeSound, Pointers, Totals
  <2> QED BY <2>3, <2>4, <2>5, <2>6, SameKeeps DEF TreeSound
<1> QED BY <1>1, <1>2

(* The run goes on after a decision: nothing of the attempts changes.          *)
LEMMA ContinueKeeps ==
  ASSUME NEW t, TreeSound(t), NEW n \in 0..Len(t.nodes), NEW u, u = L!Continue(t, n)
  PROVE  TreeSound(u) /\ SameAttempts(t, u) /\ SameFiles(t, u) /\ SameAnswers(t, u) /\ u.cost = t.cost
<1>1. CASE n = 0
  BY <1>1, SameSelf DEF L!Continue
<1>2. CASE n # 0
  <2>1. t \in TreeKind
    BY DEF TreeSound
  <2>2. u = [t EXCEPT !.from = 0, !.target = L!None]
    BY <1>2 DEF L!Continue
  <2>3. u \in TreeKind
    <3>1. PICK y \in Step \cup {L!None} : y = L!None
      OBVIOUS
    <3>2. PICK w \in Nat : w = 0
      OBVIOUS
    <3>3. u = [t EXCEPT !.from = w, !.target = y]
      BY <2>2, <3>1, <3>2
    <3> QED BY <2>1, <3>3 DEF TreeKind
  <2>4. /\ u.nodes = t.nodes /\ u.latest = t.latest /\ u.truncated = t.truncated /\ u.writing = t.writing
        /\ u.asking = t.asking /\ u.cost = t.cost /\ u.loose = t.loose /\ u.asked = t.asked /\ u.calls = t.calls
        /\ u.current = t.current /\ u.ended = t.ended /\ u.from = 0
    BY <2>1, <2>2 DEF TreeKind
  <2>5. SameAttempts(t, u) /\ SameFiles(t, u) /\ SameAnswers(t, u)
    BY <2>4 DEF SameAttempts, SameFiles, SameAnswers
  <2>6. Pointers(u) /\ Totals(u)
    <3>1. 0 <= Len(t.nodes)
      BY <2>1 DEF TreeKind
    <3> QED BY <2>4, <3>1 DEF TreeSound, Pointers, Totals
  <2> QED BY <2>3, <2>4, <2>5, <2>6, SameKeeps DEF TreeSound
<1> QED BY <1>1, <1>2

(* The end of an attempt.                                                      *)
LEMMA EndsKeeps ==
  ASSUME NEW t, TreeSound(t), NEW s, NEW a, L!NodeFor(t, s) \in 0..Len(t.nodes), NEW u, u = L!Ends(t, s, a)
  PROVE  TreeSound(u) /\ SameAttempts(t, u) /\ SameFiles(t, u) /\ SameAnswers(t, u) /\ u.cost = t.cost
<1>1. PICK i : i = IF L!Named(t, s, a) # {} THEN CHOOSE j \in L!Named(t, s, a) : TRUE ELSE L!NodeFor(t, s)
  OBVIOUS
<1>2. i \in 0..Len(t.nodes)
  <2>1. L!Named(t, s, a) \subseteq 1..Len(t.nodes) /\ 1..Len(t.nodes) \subseteq 0..Len(t.nodes)
    BY DEF L!Named
  <2>2. L!Named(t, s, a) # {} => (CHOOSE j \in L!Named(t, s, a) : TRUE) \in L!Named(t, s, a)
    OBVIOUS
  <2> QED BY <1>1, <2>1, <2>2
<1>3. u = IF i = 0 THEN t
          ELSE [t EXCEPT !.nodes[i].outcome = "ended", !.ended = i, !.current = IF @ = i THEN 0 ELSE @]
  BY <1>1 DEF L!Ends
<1>4. CASE i = 0
  BY <1>3, <1>4, SameSelf
<1>5. CASE i # 0
  <2>1. t \in TreeKind /\ t.nodes \in Seq(AttemptKind) /\ i \in 1..Len(t.nodes) /\ i \in Nat
    BY <1>2, <1>5 DEF TreeSound, TreeKind
  <2>2. PICK m : m = [t.nodes[i] EXCEPT !.outcome = "ended"]
    OBVIOUS
  <2>3. t.nodes[i] \in AttemptKind
    BY <2>1
  <2>4. /\ m \in AttemptKind /\ m.step = t.nodes[i].step /\ m.kind = t.nodes[i].kind
        /\ m.parent = t.nodes[i].parent /\ m.files = t.nodes[i].files /\ m.answered = t.nodes[i].answered
        /\ m.cost = t.nodes[i].cost /\ m.calls = t.nodes[i].calls /\ m.asked = t.nodes[i].asked
    <3>1. PICK o \in Outcome : o = "ended"
      BY DEF Outcome
    <3>2. m = [t.nodes[i] EXCEPT !.outcome = o]
      BY <2>2, <3>1
    <3> QED BY <2>3, <3>2 DEF AttemptKind
  <2>5. PICK g : g = Put(t.nodes, i, m)
    OBVIOUS
  <2>6. /\ g \in Seq(AttemptKind) /\ Len(g) = Len(t.nodes) /\ g[i] = m
        /\ \A j \in 1..Len(t.nodes) : j # i => g[j] = t.nodes[j]
        /\ L!Sum(L!Spent(g)) = L!Sum(L!Spent(t.nodes))
        /\ L!Sum(L!Called(g)) = L!Sum(L!Called(t.nodes))
        /\ L!Sum(L!Asked(g)) = L!Sum(L!Asked(t.nodes))
    <3>1. /\ Touched(t.nodes, g, i, m)
          /\ L!Sum(L!Spent(g)) = L!Sum(L!Spent(t.nodes))
          /\ L!Sum(L!Called(g)) = L!Sum(L!Called(t.nodes))
          /\ L!Sum(L!Asked(g)) = L!Sum(L!Asked(t.nodes))
      BY ONLY <2>1, <2>4, <2>5, TouchSame
    <3> QED BY ONLY <3>1 DEF Touched
  <2>7. PICK c \in Nat : c = (IF t.current = i THEN 0 ELSE t.current) /\ c <= Len(t.nodes)
    BY <2>1 DEF TreeSound, TreeKind, Pointers
  <2>8. u = [t EXCEPT !.nodes = g, !.ended = i, !.current = c]
    BY <1>3, <1>5, <2>1, <2>2, <2>5, <2>7 DEF TreeKind, Put
  <2>9. u \in TreeKind
    <3>1. t \in TreeKind /\ g \in Seq(AttemptKind) /\ i \in Nat /\ c \in Nat
      BY <2>1, <2>6, <2>7
    <3> QED BY ONLY <2>8, <3>1 DEF TreeKind
  <2>10. /\ u.nodes = g /\ u.latest = t.latest /\ u.truncated = t.truncated /\ u.writing = t.writing
         /\ u.asking = t.asking /\ u.cost = t.cost /\ u.loose = t.loose /\ u.asked = t.asked /\ u.calls = t.calls
         /\ u.current = c /\ u.ended = i /\ u.from = t.from
    BY <2>1, <2>8 DEF TreeKind
  <2>11. SameAttempts(t, u) /\ SameFiles(t, u)
    BY <2>4, <2>6, <2>10 DEF SameAttempts, SameFiles
  <2>12. SameAnswers(t, u)
    BY <2>4, <2>6, <2>10 DEF SameAnswers
  <2>13. Pointers(u)
    BY <2>1, <2>6, <2>7, <2>10 DEF TreeSound, Pointers
  <2>14. Totals(u)
    BY <2>6, <2>10 DEF TreeSound, Totals
  <2> QED BY <2>9, <2>10, <2>11, <2>12, <2>13, <2>14, SameKeeps DEF TreeSound
<1> QED BY <1>4, <1>5

(* A call is counted with the attempt that makes it.                           *)
LEMMA WriteKeeps ==
  ASSUME NEW t, TreeSound(t), NEW n \in 0..Len(t.nodes), NEW x \in Call, NEW u, u = L!Write(t, n, x)
  PROVE  /\ TreeSound(u) /\ SameAttempts(t, u) /\ SameAnswers(t, u) /\ u.cost = t.cost
         /\ u.current = t.current
         /\ \A i \in 1..Len(t.nodes) : u.nodes[i].files = t.nodes[i].files
         /\ \A c \in Call : u.writing[c] = IF c = x /\ n # 0 THEN n ELSE t.writing[c]
<1>1. CASE n = 0
  BY <1>1, SameSelf DEF L!Write
<1>2. CASE n # 0
  <2>1. t \in TreeKind /\ t.nodes \in Seq(AttemptKind) /\ n \in 1..Len(t.nodes) /\ n \in Nat
    BY <1>2 DEF TreeSound, TreeKind
  <2>2. PICK m : m = [t.nodes[n] EXCEPT !.calls = @ + 1]
    OBVIOUS
  <2>3. t.nodes[n] \in AttemptKind
    BY <2>1
  <2>4. /\ m \in AttemptKind /\ m.step = t.nodes[n].step /\ m.kind = t.nodes[n].kind
        /\ m.parent = t.nodes[n].parent /\ m.files = t.nodes[n].files /\ m.answered = t.nodes[n].answered
        /\ m.cost = t.nodes[n].cost /\ m.calls = t.nodes[n].calls + 1 /\ m.asked = t.nodes[n].asked
    <3>1. PICK y \in Nat : y = t.nodes[n].calls + 1
      <4>1. t.nodes[n].calls \in Nat
        BY <2>3 DEF AttemptKind
      <4> QED BY <4>1
    <3>2. m = [t.nodes[n] EXCEPT !.calls = y]
      BY <2>2, <2>3, <3>1 DEF AttemptKind
    <3>3. m \in AttemptKind
      BY <2>3, <3>2 DEF AttemptKind
    <3>4. /\ m.step = t.nodes[n].step /\ m.kind = t.nodes[n].kind
          /\ m.parent = t.nodes[n].parent /\ m.files = t.nodes[n].files /\ m.answered = t.nodes[n].answered
          /\ m.cost = t.nodes[n].cost /\ m.calls = y /\ m.asked = t.nodes[n].asked
      BY <2>3, <3>2 DEF AttemptKind
    <3> QED BY <3>1, <3>3, <3>4
  <2>5. PICK g : g = Put(t.nodes, n, m)
    OBVIOUS
  <2>6. /\ g \in Seq(AttemptKind) /\ Len(g) = Len(t.nodes) /\ g[n] = m
        /\ \A j \in 1..Len(t.nodes) : j # n => g[j] = t.nodes[j]
        /\ L!Sum(L!Spent(g)) = L!Sum(L!Spent(t.nodes))
        /\ L!Sum(L!Called(g)) = L!Sum(L!Called(t.nodes)) + 1
        /\ L!Sum(L!Asked(g)) = L!Sum(L!Asked(t.nodes))
    <3>1. /\ Touched(t.nodes, g, n, m)
          /\ L!Sum(L!Spent(g)) = L!Sum(L!Spent(t.nodes))
          /\ L!Sum(L!Called(g)) = L!Sum(L!Called(t.nodes)) + 1
          /\ L!Sum(L!Asked(g)) = L!Sum(L!Asked(t.nodes))
      BY ONLY <2>1, <2>4, <2>5, TouchCalls
    <3> QED BY ONLY <3>1 DEF Touched
  <2>7. PICK k \in Nat : k = t.calls + 1
    BY <2>1 DEF TreeKind
  <2>7a. PICK w \in [Call -> Nat] : w = [t.writing EXCEPT ![x] = n]
    BY <2>1 DEF TreeKind
  <2>8. u = [t EXCEPT !.calls = k, !.nodes = g, !.writing = w]
    BY <1>2, <2>1, <2>2, <2>5, <2>7, <2>7a DEF TreeKind, Put, L!Write
  <2>9. u \in TreeKind
    <3>1. t \in TreeKind /\ g \in Seq(AttemptKind) /\ k \in Nat /\ w \in [Call -> Nat]
      BY <2>1, <2>6, <2>7, <2>7a
    <3> QED BY ONLY <2>8, <3>1 DEF TreeKind
  <2>10. /\ u.nodes = g /\ u.latest = t.latest /\ u.truncated = t.truncated /\ u.writing = w
         /\ u.asking = t.asking /\ u.cost = t.cost /\ u.loose = t.loose /\ u.asked = t.asked /\ u.calls = k
         /\ u.current = t.current /\ u.ended = t.ended /\ u.from = t.from
    BY <2>1, <2>8 DEF TreeKind
  <2>11. SameAttempts(t, u)
    BY <2>4, <2>6, <2>10 DEF SameAttempts
  <2>12. SameAnswers(t, u)
    BY <2>4, <2>6, <2>10 DEF SameAnswers
  <2>13. \A c \in Call : w[c] = IF c = x THEN n ELSE t.writing[c]
    BY <2>1, <2>7a DEF TreeKind
  <2>14. Pointers(u)
    <3>1. n <= Len(t.nodes)
      BY <2>1
    <3>2. \A d \in Call : w[d] <= Len(t.nodes)
      BY <2>13, <3>1 DEF TreeSound, Pointers
    <3> QED BY <2>6, <2>10, <3>2 DEF TreeSound, Pointers
  <2>15. Totals(u)
    BY <2>6, <2>7, <2>10 DEF TreeSound, Totals
  <2>16. \A i \in 1..Len(t.nodes) : u.nodes[i].files = t.nodes[i].files
    BY <2>4, <2>6, <2>10
  <2>17. TreeSound(u)
    BY <2>9, <2>11, <2>12, <2>14, <2>15, SameKeeps DEF TreeSound
  <2> QED BY <1>2, <2>10, <2>11, <2>12, <2>13, <2>16, <2>17
<1> QED BY <1>1, <1>2

\* The attempt that asked for the write has the file.
WrittenTo(t, u, x) ==
  \A i \in 1..Len(t.nodes) :
    u.nodes[i].files = IF i = t.writing[x] THEN t.nodes[i].files \cup {x} ELSE t.nodes[i].files

\* The write is under way no more.
Settled(t, u, x) == \A c \in Call : u.writing[c] = IF c = x THEN 0 ELSE t.writing[c]

(* What a write came to is told of the attempt that asked for it.               *)
LEMMA WrittenKeeps ==
  ASSUME NEW t, TreeSound(t), NEW x \in Call, NEW u, u = L!Written(t, x)
  PROVE  /\ TreeSound(u) /\ SameAttempts(t, u) /\ SameAnswers(t, u) /\ u.cost = t.cost
         /\ WrittenTo(t, u, x)
         /\ Settled(t, u, x)
<1>0. t.writing \in [Call -> Nat]
  BY DEF TreeSound, TreeKind
<1>1. CASE t.writing[x] = 0
  <2>1. u = t
    BY <1>1 DEF L!Written
  <2> QED BY <1>0, <1>1, <2>1, SameSelf DEF WrittenTo, Settled
<1>2. CASE t.writing[x] # 0
  <2>0. PICK n \in Nat : n = t.writing[x] /\ n # 0 /\ n <= Len(t.nodes)
    BY <1>0, <1>2 DEF TreeSound, Pointers
  <2>1. t \in TreeKind /\ t.nodes \in Seq(AttemptKind) /\ n \in 1..Len(t.nodes)
    BY <2>0 DEF TreeSound, TreeKind
  <2>2. PICK m : m = [t.nodes[n] EXCEPT !.files = @ \cup {x}]
    OBVIOUS
  <2>3. t.nodes[n] \in AttemptKind
    BY <2>1
  <2>4. /\ m \in AttemptKind /\ m.step = t.nodes[n].step /\ m.kind = t.nodes[n].kind
        /\ m.parent = t.nodes[n].parent /\ m.files = t.nodes[n].files \cup {x} /\ m.answered = t.nodes[n].answered
        /\ m.cost = t.nodes[n].cost /\ m.calls = t.nodes[n].calls /\ m.asked = t.nodes[n].asked
    BY <2>2, <2>3 DEF AttemptKind
  <2>5. PICK g : g = Put(t.nodes, n, m)
    OBVIOUS
  <2>6. /\ g \in Seq(AttemptKind) /\ Len(g) = Len(t.nodes) /\ g[n] = m
        /\ \A j \in 1..Len(t.nodes) : j # n => g[j] = t.nodes[j]
        /\ L!Sum(L!Spent(g)) = L!Sum(L!Spent(t.nodes))
        /\ L!Sum(L!Called(g)) = L!Sum(L!Called(t.nodes))
        /\ L!Sum(L!Asked(g)) = L!Sum(L!Asked(t.nodes))
    <3>1. /\ Touched(t.nodes, g, n, m)
          /\ L!Sum(L!Spent(g)) = L!Sum(L!Spent(t.nodes))
          /\ L!Sum(L!Called(g)) = L!Sum(L!Called(t.nodes))
          /\ L!Sum(L!Asked(g)) = L!Sum(L!Asked(t.nodes))
      BY ONLY <2>1, <2>4, <2>5, TouchSame
    <3> QED BY ONLY <3>1 DEF Touched
  <2>7. PICK w \in [Call -> Nat] : w = [t.writing EXCEPT ![x] = 0]
    BY <1>0
  <2>8. u = [t EXCEPT !.writing = w, !.nodes = g]
    BY <2>0, <2>1, <2>2, <2>5, <2>7 DEF TreeKind, Put, L!Written
  <2>9. u \in TreeKind
    <3>1. t \in TreeKind /\ g \in Seq(AttemptKind) /\ w \in [Call -> Nat]
      BY <2>1, <2>6, <2>7
    <3> QED BY ONLY <2>8, <3>1 DEF TreeKind
  <2>10. /\ u.nodes = g /\ u.latest = t.latest /\ u.truncated = t.truncated /\ u.writing = w
         /\ u.asking = t.asking /\ u.cost = t.cost /\ u.loose = t.loose /\ u.asked = t.asked
         /\ u.calls = t.calls /\ u.current = t.current /\ u.ended = t.ended /\ u.from = t.from
    BY <2>1, <2>8 DEF TreeKind
  <2>11. SameAttempts(t, u)
    BY <2>4, <2>6, <2>10 DEF SameAttempts
  <2>12. SameAnswers(t, u)
    BY <2>4, <2>6, <2>10 DEF SameAnswers
  <2>13. \A c \in Call : w[c] = IF c = x THEN 0 ELSE t.writing[c]
    BY <1>0, <2>7
  <2>14. Pointers(u)
    <3>1. 0 <= Len(t.nodes)
      BY <2>1
    <3>2. \A d \in Call : w[d] <= Len(t.nodes)
      BY <2>13, <3>1 DEF TreeSound, Pointers
    <3> QED BY <2>6, <2>10, <3>2 DEF TreeSound, Pointers
  <2>15. Totals(u)
    BY <2>6, <2>10 DEF TreeSound, Totals
  <2>16. WrittenTo(t, u, x)
    BY <2>0, <2>4, <2>6, <2>10 DEF WrittenTo
  <2>17. TreeSound(u)
    BY <2>9, <2>11, <2>12, <2>14, <2>15, SameKeeps DEF TreeSound
  <2> QED BY <2>10, <2>11, <2>12, <2>13, <2>16, <2>17 DEF Settled
<1> QED BY <1>1, <1>2

(* A write that failed gives no file.                                          *)
LEMMA FailedKeeps ==
  ASSUME NEW t, TreeSound(t), NEW x \in Call, NEW u, u = L!Failed(t, x)
  PROVE  /\ TreeSound(u) /\ SameAttempts(t, u) /\ SameAnswers(t, u) /\ u.cost = t.cost
         /\ \A i \in 1..Len(t.nodes) : u.nodes[i].files = t.nodes[i].files
         /\ Settled(t, u, x)
<1>0. t.writing \in [Call -> Nat]
  BY DEF TreeSound, TreeKind
<1>1. CASE t.writing[x] = 0
  <2>1. u = t
    BY <1>1 DEF L!Failed
  <2> QED BY <1>0, <1>1, <2>1, SameSelf DEF Settled
<1>2. CASE t.writing[x] # 0
  <2>0. PICK n \in Nat : n = t.writing[x] /\ n # 0 /\ n <= Len(t.nodes)
    BY <1>0, <1>2 DEF TreeSound, Pointers
  <2>1. t \in TreeKind /\ t.nodes \in Seq(AttemptKind) /\ n \in 1..Len(t.nodes)
    BY <2>0 DEF TreeSound, TreeKind
  <2>2. PICK m : m = [t.nodes[n] EXCEPT !.failed = @ + 1]
    OBVIOUS
  <2>3. t.nodes[n] \in AttemptKind
    BY <2>1
  <2>4. /\ m \in AttemptKind /\ m.step = t.nodes[n].step /\ m.kind = t.nodes[n].kind
        /\ m.parent = t.nodes[n].parent /\ m.files = t.nodes[n].files /\ m.answered = t.nodes[n].answered
        /\ m.cost = t.nodes[n].cost /\ m.calls = t.nodes[n].calls /\ m.asked = t.nodes[n].asked
    <3>1. PICK y \in Nat : y = t.nodes[n].failed + 1
      <4>1. t.nodes[n].failed \in Nat
        BY <2>3 DEF AttemptKind
      <4> QED BY <4>1
    <3>2. m = [t.nodes[n] EXCEPT !.failed = y]
      BY <2>2, <2>3, <3>1 DEF AttemptKind
    <3> QED BY <2>3, <3>2 DEF AttemptKind
  <2>5. PICK g : g = Put(t.nodes, n, m)
    OBVIOUS
  <2>6. /\ g \in Seq(AttemptKind) /\ Len(g) = Len(t.nodes) /\ g[n] = m
        /\ \A j \in 1..Len(t.nodes) : j # n => g[j] = t.nodes[j]
        /\ L!Sum(L!Spent(g)) = L!Sum(L!Spent(t.nodes))
        /\ L!Sum(L!Called(g)) = L!Sum(L!Called(t.nodes))
        /\ L!Sum(L!Asked(g)) = L!Sum(L!Asked(t.nodes))
    <3>1. /\ Touched(t.nodes, g, n, m)
          /\ L!Sum(L!Spent(g)) = L!Sum(L!Spent(t.nodes))
          /\ L!Sum(L!Called(g)) = L!Sum(L!Called(t.nodes))
          /\ L!Sum(L!Asked(g)) = L!Sum(L!Asked(t.nodes))
      BY ONLY <2>1, <2>4, <2>5, TouchSame
    <3> QED BY ONLY <3>1 DEF Touched
  <2>7. PICK w \in [Call -> Nat] : w = [t.writing EXCEPT ![x] = 0]
    BY <1>0
  <2>8. u = [t EXCEPT !.writing = w, !.nodes = g]
    BY <2>0, <2>1, <2>2, <2>5, <2>7 DEF TreeKind, Put, L!Failed
  <2>9. u \in TreeKind
    <3>1. t \in TreeKind /\ g \in Seq(AttemptKind) /\ w \in [Call -> Nat]
      BY <2>1, <2>6, <2>7
    <3> QED BY ONLY <2>8, <3>1 DEF TreeKind
  <2>10. /\ u.nodes = g /\ u.latest = t.latest /\ u.truncated = t.truncated /\ u.writing = w
         /\ u.asking = t.asking /\ u.cost = t.cost /\ u.loose = t.loose /\ u.asked = t.asked
         /\ u.calls = t.calls /\ u.current = t.current /\ u.ended = t.ended /\ u.from = t.from
    BY <2>1, <2>8 DEF TreeKind
  <2>11. SameAttempts(t, u)
    BY <2>4, <2>6, <2>10 DEF SameAttempts
  <2>12. SameAnswers(t, u)
    BY <2>4, <2>6, <2>10 DEF SameAnswers
  <2>13. \A c \in Call : w[c] = IF c = x THEN 0 ELSE t.writing[c]
    BY <1>0, <2>7
  <2>14. Pointers(u)
    <3>1. 0 <= Len(t.nodes)
      BY <2>1
    <3>2. \A d \in Call : w[d] <= Len(t.nodes)
      BY <2>13, <3>1 DEF TreeSound, Pointers
    <3> QED BY <2>6, <2>10, <3>2 DEF TreeSound, Pointers
  <2>15. Totals(u)
    BY <2>6, <2>10 DEF TreeSound, Totals
  <2>16. \A i \in 1..Len(t.nodes) : u.nodes[i].files = t.nodes[i].files
    BY <2>4, <2>6, <2>10
  <2>17. TreeSound(u)
    BY <2>9, <2>11, <2>12, <2>14, <2>15, SameKeeps DEF TreeSound
  <2> QED BY <2>10, <2>11, <2>12, <2>13, <2>16, <2>17 DEF Settled
<1> QED BY <1>1, <1>2

(* A prompt waits with the attempt that asks it, if no other prompt has its name. *)
LEMMA AskKeepsTree ==
  ASSUME NEW t, TreeSound(t), NEW n \in 0..Len(t.nodes), NEW x \in Call, t.asking[x] = 0,
         NEW u, u = L!Ask(t, n, x)
  PROVE  /\ TreeSound(u) /\ SameAttempts(t, u) /\ SameFiles(t, u) /\ u.cost = t.cost
         /\ \A c \in Call : u.asking[c] = IF c = x THEN n ELSE t.asking[c]
<1>0. t.asking \in [Call -> Nat]
  BY DEF TreeSound, TreeKind
<1>1. CASE n = 0
  <2>1. u = t
    BY <1>1 DEF L!Ask
  <2> QED BY <1>0, <1>1, <2>1, SameSelf
<1>2. CASE n # 0
  <2>1. t \in TreeKind /\ t.nodes \in Seq(AttemptKind) /\ n \in 1..Len(t.nodes) /\ n \in Nat
    BY <1>2 DEF TreeSound, TreeKind
  <2>2. PICK m : m = [t.nodes[n] EXCEPT !.asked = @ + 1]
    OBVIOUS
  <2>3. t.nodes[n] \in AttemptKind
    BY <2>1
  <2>4. /\ m \in AttemptKind /\ m.step = t.nodes[n].step /\ m.kind = t.nodes[n].kind
        /\ m.parent = t.nodes[n].parent /\ m.files = t.nodes[n].files /\ m.answered = t.nodes[n].answered
        /\ m.cost = t.nodes[n].cost /\ m.calls = t.nodes[n].calls /\ m.asked = t.nodes[n].asked + 1
    <3>1. PICK y \in Nat : y = t.nodes[n].asked + 1
      <4>1. t.nodes[n].asked \in Nat
        BY <2>3 DEF AttemptKind
      <4> QED BY <4>1
    <3>2. m = [t.nodes[n] EXCEPT !.asked = y]
      BY <2>2, <2>3, <3>1 DEF AttemptKind
    <3>3. m \in AttemptKind
      BY <2>3, <3>2 DEF AttemptKind
    <3>4. /\ m.step = t.nodes[n].step /\ m.kind = t.nodes[n].kind
          /\ m.parent = t.nodes[n].parent /\ m.files = t.nodes[n].files /\ m.answered = t.nodes[n].answered
          /\ m.cost = t.nodes[n].cost /\ m.calls = t.nodes[n].calls /\ m.asked = y
      BY <2>3, <3>2 DEF AttemptKind
    <3> QED BY <3>1, <3>3, <3>4
  <2>5. PICK g : g = Put(t.nodes, n, m)
    OBVIOUS
  <2>6. /\ g \in Seq(AttemptKind) /\ Len(g) = Len(t.nodes) /\ g[n] = m
        /\ \A j \in 1..Len(t.nodes) : j # n => g[j] = t.nodes[j]
        /\ L!Sum(L!Spent(g)) = L!Sum(L!Spent(t.nodes))
        /\ L!Sum(L!Called(g)) = L!Sum(L!Called(t.nodes))
        /\ L!Sum(L!Asked(g)) = L!Sum(L!Asked(t.nodes)) + 1
    <3>1. /\ Touched(t.nodes, g, n, m)
          /\ L!Sum(L!Spent(g)) = L!Sum(L!Spent(t.nodes))
          /\ L!Sum(L!Called(g)) = L!Sum(L!Called(t.nodes))
          /\ L!Sum(L!Asked(g)) = L!Sum(L!Asked(t.nodes)) + 1
      BY ONLY <2>1, <2>4, <2>5, TouchAsked
    <3> QED BY ONLY <3>1 DEF Touched
  <2>7. PICK k \in Nat : k = t.asked + 1
    BY <2>1 DEF TreeKind
  <2>7a. PICK w \in [Call -> Nat] : w = [t.asking EXCEPT ![x] = n]
    BY <2>1 DEF TreeKind
  <2>8. u = [t EXCEPT !.asked = k, !.nodes = g, !.asking = w]
    BY <1>2, <2>1, <2>2, <2>5, <2>7, <2>7a DEF TreeKind, Put, L!Ask
  <2>9. u \in TreeKind
    <3>1. t \in TreeKind /\ g \in Seq(AttemptKind) /\ k \in Nat /\ w \in [Call -> Nat]
      BY <2>1, <2>6, <2>7, <2>7a
    <3> QED BY ONLY <2>8, <3>1 DEF TreeKind
  <2>10. /\ u.nodes = g /\ u.latest = t.latest /\ u.truncated = t.truncated /\ u.writing = t.writing
         /\ u.asking = w /\ u.cost = t.cost /\ u.loose = t.loose /\ u.asked = k /\ u.calls = t.calls
         /\ u.current = t.current /\ u.ended = t.ended /\ u.from = t.from
    BY <2>1, <2>8 DEF TreeKind
  <2>11. SameAttempts(t, u) /\ SameFiles(t, u)
    BY <2>4, <2>6, <2>10 DEF SameAttempts, SameFiles
  <2>13. \A c \in Call : w[c] = IF c = x THEN n ELSE t.asking[c]
    BY <1>0, <2>7a
  <2>14. Pointers(u)
    <3>1. n <= Len(t.nodes)
      BY <2>1
    <3>2. \A d \in Call : w[d] <= Len(t.nodes)
      BY <2>13, <3>1 DEF TreeSound, Pointers
    <3> QED BY <2>6, <2>10, <3>2 DEF TreeSound, Pointers
  <2>15. Totals(u)
    BY <2>6, <2>7, <2>10 DEF TreeSound, Totals
  <2>16. AnswersFit(u)
    <3>1. ASSUME NEW i \in 1..Len(t.nodes)
          PROVE  IsFiniteSet(Waiting(u, i)) /\ u.nodes[i].answered + Cardinality(Waiting(u, i)) <= u.nodes[i].asked
      <4>1. IsFiniteSet(Waiting(t, i)) /\ t.nodes[i].answered + Cardinality(Waiting(t, i)) <= t.nodes[i].asked
        BY DEF TreeSound, AnswersFit
      <4>2. CASE i = n
        <5>1. Waiting(u, i) = Waiting(t, i) \cup {x} /\ x \notin Waiting(t, i)
          BY <1>2, <2>10, <2>13, <4>2 DEF Waiting
        <5>2. IsFiniteSet(Waiting(u, i)) /\ Cardinality(Waiting(u, i)) = Cardinality(Waiting(t, i)) + 1
          BY <4>1, <5>1, FS_AddElement
        <5>3. Cardinality(Waiting(t, i)) \in Nat
          BY <4>1, FS_CardinalityType
        <5>4. u.nodes[i].answered = t.nodes[i].answered /\ u.nodes[i].asked = t.nodes[i].asked + 1
          BY <2>4, <2>6, <2>10, <4>2
        <5>5. t.nodes[i].answered \in Nat /\ t.nodes[i].asked \in Nat
          BY <2>3, <4>2 DEF AttemptKind
        <5>6. \A y, z, d \in Nat : y + d <= z => y + (d + 1) <= z + 1
          OBVIOUS
        <5>7. t.nodes[i].answered + (Cardinality(Waiting(t, i)) + 1) <= t.nodes[i].asked + 1
          BY ONLY <4>1, <5>3, <5>5, <5>6
        <5> QED BY ONLY <5>2, <5>4, <5>7
      <4>3. CASE i # n
        <5>1. Waiting(u, i) = Waiting(t, i)
          BY <2>10, <2>13, <4>3 DEF Waiting
        <5>2. u.nodes[i] = t.nodes[i]
          BY <2>6, <2>10, <4>3
        <5> QED BY <4>1, <5>1, <5>2
      <4> QED BY <4>2, <4>3
    <3> QED BY <2>6, <2>10, <3>1 DEF AnswersFit
  <2>17. TreeSound(u)
    BY <2>9, <2>11, <2>14, <2>15, <2>16, SameKeeps DEF TreeSound
  <2> QED BY <2>10, <2>11, <2>13, <2>17
<1> QED BY <1>1, <1>2

(* An answer is counted where its prompt was asked.                            *)
LEMMA AnswerKeepsTree ==
  ASSUME NEW t, TreeSound(t), NEW n, NEW x \in Call, t.asking[x] # 0 \/ n = 0,
         NEW u, u = L!Answer(t, n, x)
  PROVE  /\ TreeSound(u) /\ SameAttempts(t, u) /\ SameFiles(t, u) /\ u.cost = t.cost
         /\ \A c \in Call : u.asking[c] = IF c = x THEN 0 ELSE t.asking[c]
<1>0. t.asking \in [Call -> Nat]
  BY DEF TreeSound, TreeKind
<1>1. CASE t.asking[x] = 0
  <2>1. u = t
    BY <1>1 DEF L!Answer
  <2> QED BY <1>0, <1>1, <2>1, SameSelf
<1>2. CASE t.asking[x] # 0
  <2>0. PICK b \in Nat : b = t.asking[x] /\ b # 0 /\ b <= Len(t.nodes)
    BY <1>0, <1>2 DEF TreeSound, Pointers
  <2>1. t \in TreeKind /\ t.nodes \in Seq(AttemptKind) /\ b \in 1..Len(t.nodes)
    BY <2>0 DEF TreeSound, TreeKind
  <2>2. PICK m : m = [t.nodes[b] EXCEPT !.answered = @ + 1]
    OBVIOUS
  <2>3. t.nodes[b] \in AttemptKind
    BY <2>1
  <2>4. /\ m \in AttemptKind /\ m.step = t.nodes[b].step /\ m.kind = t.nodes[b].kind
        /\ m.parent = t.nodes[b].parent /\ m.files = t.nodes[b].files /\ m.answered = t.nodes[b].answered + 1
        /\ m.cost = t.nodes[b].cost /\ m.calls = t.nodes[b].calls /\ m.asked = t.nodes[b].asked
    <3>1. PICK y \in Nat : y = t.nodes[b].answered + 1
      <4>1. t.nodes[b].answered \in Nat
        BY <2>3 DEF AttemptKind
      <4> QED BY <4>1
    <3>2. m = [t.nodes[b] EXCEPT !.answered = y]
      BY <2>2, <2>3, <3>1 DEF AttemptKind
    <3>3. m \in AttemptKind
      BY <2>3, <3>2 DEF AttemptKind
    <3>4. /\ m.step = t.nodes[b].step /\ m.kind = t.nodes[b].kind
          /\ m.parent = t.nodes[b].parent /\ m.files = t.nodes[b].files /\ m.answered = y
          /\ m.cost = t.nodes[b].cost /\ m.calls = t.nodes[b].calls /\ m.asked = t.nodes[b].asked
      BY <2>3, <3>2 DEF AttemptKind
    <3> QED BY <3>1, <3>3, <3>4
  <2>5. PICK g : g = Put(t.nodes, b, m)
    OBVIOUS
  <2>6. /\ g \in Seq(AttemptKind) /\ Len(g) = Len(t.nodes) /\ g[b] = m
        /\ \A j \in 1..Len(t.nodes) : j # b => g[j] = t.nodes[j]
        /\ L!Sum(L!Spent(g)) = L!Sum(L!Spent(t.nodes))
        /\ L!Sum(L!Called(g)) = L!Sum(L!Called(t.nodes))
        /\ L!Sum(L!Asked(g)) = L!Sum(L!Asked(t.nodes))
    <3>1. /\ Touched(t.nodes, g, b, m)
          /\ L!Sum(L!Spent(g)) = L!Sum(L!Spent(t.nodes))
          /\ L!Sum(L!Called(g)) = L!Sum(L!Called(t.nodes))
          /\ L!Sum(L!Asked(g)) = L!Sum(L!Asked(t.nodes))
      BY ONLY <2>1, <2>4, <2>5, TouchSame
    <3> QED BY ONLY <3>1 DEF Touched
  <2>7. PICK w \in [Call -> Nat] : w = [t.asking EXCEPT ![x] = 0]
    BY <1>0
  <2>8. u = [t EXCEPT !.asking = w, !.nodes = g]
    BY <2>0, <2>1, <2>2, <2>5, <2>7 DEF TreeKind, Put, L!Answer
  <2>9. u \in TreeKind
    <3>1. t \in TreeKind /\ g \in Seq(AttemptKind) /\ w \in [Call -> Nat]
      BY <2>1, <2>6, <2>7
    <3> QED BY ONLY <2>8, <3>1 DEF TreeKind
  <2>10. /\ u.nodes = g /\ u.latest = t.latest /\ u.truncated = t.truncated /\ u.writing = t.writing
         /\ u.asking = w /\ u.cost = t.cost /\ u.loose = t.loose /\ u.asked = t.asked
         /\ u.calls = t.calls /\ u.current = t.current /\ u.ended = t.ended /\ u.from = t.from
    BY <2>1, <2>8 DEF TreeKind
  <2>11. SameAttempts(t, u) /\ SameFiles(t, u)
    BY <2>4, <2>6, <2>10 DEF SameAttempts, SameFiles
  <2>13. \A c \in Call : w[c] = IF c = x THEN 0 ELSE t.asking[c]
    BY <1>0, <2>7
  <2>14. Pointers(u)
    <3>1. 0 <= Len(t.nodes)
      BY <2>1
    <3>2. \A d \in Call : w[d] <= Len(t.nodes)
      BY <2>13, <3>1 DEF TreeSound, Pointers
    <3> QED BY <2>6, <2>10, <3>2 DEF TreeSound, Pointers
  <2>15. Totals(u)
    BY <2>6, <2>10 DEF TreeSound, Totals
  <2>16. AnswersFit(u)
    <3>1. ASSUME NEW i \in 1..Len(t.nodes)
          PROVE  IsFiniteSet(Waiting(u, i)) /\ u.nodes[i].answered + Cardinality(Waiting(u, i)) <= u.nodes[i].asked
      <4>1. IsFiniteSet(Waiting(t, i)) /\ t.nodes[i].answered + Cardinality(Waiting(t, i)) <= t.nodes[i].asked
        BY DEF TreeSound, AnswersFit
      <4>2. CASE i = b
        <5>1. Waiting(u, i) = Waiting(t, i) \ {x} /\ x \in Waiting(t, i)
          BY <2>0, <2>10, <2>13, <4>2 DEF Waiting
        <5>2. IsFiniteSet(Waiting(u, i)) /\ Cardinality(Waiting(u, i)) = Cardinality(Waiting(t, i)) - 1
          BY <4>1, <5>1, FS_RemoveElement
        <5>3. Cardinality(Waiting(t, i)) \in Nat
          BY <4>1, FS_CardinalityType
        <5>4. u.nodes[i].answered = t.nodes[i].answered + 1 /\ u.nodes[i].asked = t.nodes[i].asked
          BY <2>4, <2>6, <2>10, <4>2
        <5>5. t.nodes[i].answered \in Nat /\ t.nodes[i].asked \in Nat
          BY <2>3, <4>2 DEF AttemptKind
        <5>6. \A y, z, d \in Nat : y + d <= z => (y + 1) + (d - 1) <= z
          OBVIOUS
        <5>7. (t.nodes[i].answered + 1) + (Cardinality(Waiting(t, i)) - 1) <= t.nodes[i].asked
          BY ONLY <4>1, <5>3, <5>5, <5>6
        <5> QED BY ONLY <5>2, <5>4, <5>7
      <4>3. CASE i # b
        <5>0. i \in Nat /\ i # 0
          OBVIOUS
        <5>1. Waiting(u, i) = Waiting(t, i)
          BY <2>0, <2>10, <2>13, <4>3, <5>0 DEF Waiting
        <5>2. u.nodes[i] = t.nodes[i]
          BY <2>6, <2>10, <4>3
        <5> QED BY <4>1, <5>1, <5>2
      <4> QED BY <4>2, <4>3
    <3> QED BY <2>6, <2>10, <3>1 DEF AnswersFit
  <2>17. TreeSound(u)
    BY <2>9, <2>11, <2>14, <2>15, <2>16, SameKeeps DEF TreeSound
  <2> QED BY <2>10, <2>11, <2>13, <2>17
<1> QED BY <1>1, <1>2

(* A cost is an attempt's, or nobody's.                                        *)
LEMMA CostKeeps ==
  ASSUME NEW t, TreeSound(t), NEW n \in 0..Len(t.nodes), NEW u, u = L!Cost(t, n)
  PROVE  TreeSound(u) /\ SameAttempts(t, u) /\ SameFiles(t, u) /\ SameAnswers(t, u) /\ u.cost = t.cost + 1
<1>0. t \in TreeKind /\ t.nodes \in Seq(AttemptKind)
  BY DEF TreeSound, TreeKind
<1>1. PICK k \in Nat : k = t.cost + 1
  BY <1>0 DEF TreeKind
<1>2. CASE n = 0
  <2>1. PICK l \in Nat : l = t.loose + 1
    BY <1>0 DEF TreeKind
  <2>2. u = [t EXCEPT !.cost = k, !.loose = l]
    BY <1>0, <1>1, <1>2, <2>1 DEF L!Cost, TreeKind
  <2>3. u \in TreeKind
    BY <1>0, <2>2 DEF TreeKind
  <2>4. /\ u.nodes = t.nodes /\ u.latest = t.latest /\ u.truncated = t.truncated /\ u.writing = t.writing
        /\ u.asking = t.asking /\ u.cost = k /\ u.loose = l /\ u.asked = t.asked /\ u.calls = t.calls
        /\ u.current = t.current /\ u.ended = t.ended /\ u.from = t.from
    BY <1>0, <2>2 DEF TreeKind
  <2>5. SameAttempts(t, u) /\ SameFiles(t, u) /\ SameAnswers(t, u)
    BY <2>4 DEF SameAttempts, SameFiles, SameAnswers
  <2>6. Pointers(u)
    BY <2>4 DEF TreeSound, Pointers
  <2>7. Totals(u)
    <3>1. t.loose \in Nat /\ L!Sum(L!Spent(t.nodes)) \in Nat
      BY <1>0, PartsKind, SumNat DEF TreeKind
    <3> QED BY <1>1, <2>1, <2>4, <3>1 DEF TreeSound, Totals
  <2> QED BY <1>1, <2>3, <2>4, <2>5, <2>6, <2>7, SameKeeps DEF TreeSound
<1>3. CASE n # 0
  <2>1. n \in 1..Len(t.nodes) /\ n \in Nat
    BY <1>0, <1>3
  <2>2. PICK m : m = [t.nodes[n] EXCEPT !.cost = @ + 1]
    OBVIOUS
  <2>3. t.nodes[n] \in AttemptKind
    BY <1>0, <2>1
  <2>4. /\ m \in AttemptKind /\ m.step = t.nodes[n].step /\ m.kind = t.nodes[n].kind
        /\ m.parent = t.nodes[n].parent /\ m.files = t.nodes[n].files /\ m.answered = t.nodes[n].answered
        /\ m.cost = t.nodes[n].cost + 1 /\ m.calls = t.nodes[n].calls /\ m.asked = t.nodes[n].asked
    <3>1. PICK y \in Nat : y = t.nodes[n].cost + 1
      <4>1. t.nodes[n].cost \in Nat
        BY <2>3 DEF AttemptKind
      <4> QED BY <4>1
    <3>2. m = [t.nodes[n] EXCEPT !.cost = y]
      BY <2>2, <2>3, <3>1 DEF AttemptKind
    <3>3. m \in AttemptKind
      BY <2>3, <3>2 DEF AttemptKind
    <3>4. /\ m.step = t.nodes[n].step /\ m.kind = t.nodes[n].kind
          /\ m.parent = t.nodes[n].parent /\ m.files = t.nodes[n].files /\ m.answered = t.nodes[n].answered
          /\ m.cost = y /\ m.calls = t.nodes[n].calls /\ m.asked = t.nodes[n].asked
      BY <2>3, <3>2 DEF AttemptKind
    <3> QED BY <3>1, <3>3, <3>4
  <2>5. PICK g : g = Put(t.nodes, n, m)
    OBVIOUS
  <2>6. /\ g \in Seq(AttemptKind) /\ Len(g) = Len(t.nodes) /\ g[n] = m
        /\ \A j \in 1..Len(t.nodes) : j # n => g[j] = t.nodes[j]
        /\ L!Sum(L!Spent(g)) = L!Sum(L!Spent(t.nodes)) + 1
        /\ L!Sum(L!Called(g)) = L!Sum(L!Called(t.nodes))
        /\ L!Sum(L!Asked(g)) = L!Sum(L!Asked(t.nodes))
    <3>1. /\ Touched(t.nodes, g, n, m)
          /\ L!Sum(L!Spent(g)) = L!Sum(L!Spent(t.nodes)) + 1
          /\ L!Sum(L!Called(g)) = L!Sum(L!Called(t.nodes))
          /\ L!Sum(L!Asked(g)) = L!Sum(L!Asked(t.nodes))
      BY ONLY <1>0, <2>1, <2>4, <2>5, TouchCost
    <3> QED BY ONLY <3>1 DEF Touched
  <2>8. u = [t EXCEPT !.cost = k, !.nodes = g]
    BY <1>0, <1>1, <1>3, <2>1, <2>2, <2>5 DEF TreeKind, Put, L!Cost
  <2>9. u \in TreeKind
    <3>1. t \in TreeKind /\ g \in Seq(AttemptKind) /\ k \in Nat
      BY <1>0, <1>1, <2>6
    <3> QED BY ONLY <2>8, <3>1 DEF TreeKind
  <2>10. /\ u.nodes = g /\ u.latest = t.latest /\ u.truncated = t.truncated /\ u.writing = t.writing
         /\ u.asking = t.asking /\ u.cost = k /\ u.loose = t.loose /\ u.asked = t.asked /\ u.calls = t.calls
         /\ u.current = t.current /\ u.ended = t.ended /\ u.from = t.from
    BY <1>0, <2>8 DEF TreeKind
  <2>11. SameAttempts(t, u) /\ SameFiles(t, u)
    BY <2>4, <2>6, <2>10 DEF SameAttempts, SameFiles
  <2>12. SameAnswers(t, u)
    BY <2>4, <2>6, <2>10 DEF SameAnswers
  <2>14. Pointers(u)
    BY <2>6, <2>10 DEF TreeSound, Pointers
  <2>15. Totals(u)
    <3>1. t.loose \in Nat /\ L!Sum(L!Spent(t.nodes)) \in Nat
      BY <1>0, PartsKind, SumNat DEF TreeKind
    <3>2. \A x, y \in Nat : (x + y) + 1 = x + (y + 1)
      OBVIOUS
    <3>3. /\ t.cost = t.loose + L!Sum(L!Spent(t.nodes)) /\ t.asked = L!Sum(L!Asked(t.nodes))
          /\ t.calls = L!Sum(L!Called(t.nodes))
      BY DEF TreeSound, Totals
    <3>4. k = t.loose + L!Sum(L!Spent(g))
      BY ONLY <1>1, <2>6, <3>1, <3>2, <3>3
    <3> QED BY ONLY <2>6, <2>10, <3>3, <3>4 DEF Totals
  <2> QED BY <1>1, <2>9, <2>10, <2>11, <2>12, <2>14, <2>15, SameKeeps DEF TreeSound
<1> QED BY <1>2, <1>3

(* The end of the run.                                                         *)
LEMMA OverKeeps ==
  ASSUME NEW t, TreeSound(t), NEW u, u = L!Over(t)
  PROVE  TreeSound(u) /\ SameAttempts(t, u) /\ SameFiles(t, u) /\ SameAnswers(t, u) /\ u.cost = t.cost
<1>0. t \in TreeKind /\ t.nodes \in Seq(AttemptKind) /\ Len(t.nodes) \in Nat
  BY DEF TreeSound, TreeKind
<1>1. PICK g : g = [i \in 1..Len(t.nodes) |-> IF t.nodes[i].outcome = "running"
                      THEN [t.nodes[i] EXCEPT !.outcome = "incomplete"] ELSE t.nodes[i]]
  OBVIOUS
<1>2. ASSUME NEW i \in 1..Len(t.nodes)
      PROVE  /\ g[i] \in AttemptKind /\ g[i].step = t.nodes[i].step /\ g[i].kind = t.nodes[i].kind
             /\ g[i].parent = t.nodes[i].parent /\ g[i].files = t.nodes[i].files
             /\ g[i].answered = t.nodes[i].answered /\ g[i].cost = t.nodes[i].cost
             /\ g[i].calls = t.nodes[i].calls /\ g[i].asked = t.nodes[i].asked
  <2>1. t.nodes[i] \in AttemptKind
    BY <1>0
  <2>2. PICK o \in Outcome : o = "incomplete"
    BY DEF Outcome
  <2>3. g[i] = t.nodes[i] \/ g[i] = [t.nodes[i] EXCEPT !.outcome = o]
    BY <1>1, <2>2
  <2>4. CASE g[i] = [t.nodes[i] EXCEPT !.outcome = o]
    BY <2>1, <2>4 DEF AttemptKind
  <2> QED BY <2>1, <2>3, <2>4
<1>3. Len(g) = Len(t.nodes) /\ g \in Seq(AttemptKind)
  <2>1. g = [i \in 1..Len(t.nodes) |-> g[i]]
    BY <1>1
  <2>2. \A i \in 1..Len(t.nodes) : g[i] \in AttemptKind
    BY <1>2
  <2> QED BY ONLY <1>0, <2>1, <2>2
<1>4. L!Spent(g) = L!Spent(t.nodes) /\ L!Called(g) = L!Called(t.nodes) /\ L!Asked(g) = L!Asked(t.nodes)
  BY <1>2, <1>3 DEF L!Spent, L!Called, L!Asked
<1>5. u = [t EXCEPT !.done = TRUE, !.nodes = g]
  BY <1>0, <1>1 DEF L!Over, TreeKind
<1>6. u \in TreeKind
  BY <1>0, <1>3, <1>5 DEF TreeKind
<1>7. /\ u.nodes = g /\ u.latest = t.latest /\ u.truncated = t.truncated /\ u.writing = t.writing
      /\ u.asking = t.asking /\ u.cost = t.cost /\ u.loose = t.loose /\ u.asked = t.asked /\ u.calls = t.calls
      /\ u.current = t.current /\ u.ended = t.ended /\ u.from = t.from
  BY <1>0, <1>5 DEF TreeKind
<1>8. SameAttempts(t, u) /\ SameFiles(t, u) /\ SameAnswers(t, u)
  BY <1>2, <1>3, <1>7 DEF SameAttempts, SameFiles, SameAnswers
<1>9. Pointers(u) /\ Totals(u)
  BY <1>3, <1>4, <1>7 DEF TreeSound, Pointers, Totals
<1> QED BY <1>6, <1>7, <1>8, <1>9, SameKeeps DEF TreeSound

-----------------------------------------------------------------------------
(* The start of an attempt. *)

(* An event is about the step in progress or about a step's latest attempt, if any. *)
LEMMA NodeForIn ==
  ASSUME NEW t, TreeSound(t), NEW s \in Step \cup {L!None}
  PROVE  /\ L!NodeFor(t, s) \in 0..Len(t.nodes)
         /\ s \in Step => (L!NodeFor(t, s) = 0 => t.latest[s] = 0 \/ s = L!None)
<1>1. t.current \in Nat /\ t.latest \in [Step -> Nat] /\ Len(t.nodes) \in Nat
  BY DEF TreeSound, TreeKind
<1>2. t.current <= Len(t.nodes) /\ \A x \in Step : t.latest[x] <= Len(t.nodes)
  BY DEF TreeSound, Pointers
<1>3. CASE s = L!None
  BY <1>1, <1>2, <1>3 DEF L!NodeFor
<1>4. CASE s # L!None
  <2>1. L!NodeFor(t, s) = IF t.current # 0 /\ t.nodes[t.current].step = s THEN t.current ELSE t.latest[s]
    BY <1>4 DEF L!NodeFor
  <2>2. t.latest[s] \in Nat /\ t.latest[s] <= Len(t.nodes)
    BY <1>1, <1>2, <1>4
  <2> QED BY <1>1, <1>2, <2>1, <2>2
<1> QED BY <1>3, <1>4

\* What the start of an attempt of s leaves as it was.
Started(t, u, s) ==
  /\ u.cost = t.cost /\ u.writing = t.writing /\ u.asking = t.asking
  /\ \A i \in 1..Len(t.nodes) : i \in 1..Len(u.nodes) /\ u.nodes[i].files = t.nodes[i].files
  /\ \A i \in 1..Len(u.nodes) : \/ i \in 1..Len(t.nodes) /\ u.nodes[i].step = t.nodes[i].step
                                \/ i \notin 1..Len(t.nodes) /\ u.nodes[i].step = s /\ u.nodes[i].files = {}
  /\ u.latest[s] # 0 \/ u.truncated
  /\ \A x \in Step : t.latest[x] # 0 => u.latest[x] # 0
  /\ t.truncated => u.truncated
  /\ \A x \in Step : t.truncated /\ t.latest[x] = 0 => u.latest[x] = 0

(* The answers that an attempt waits for are not a matter of its place.          *)
LEMMA FitStays ==
  ASSUME NEW t, TreeSound(t), NEW u, u.nodes = t.nodes, u.asking = t.asking
  PROVE  AnswersFit(u)
<1>1. \A i : Waiting(u, i) = Waiting(t, i)
  BY DEF Waiting
<1> QED BY <1>1 DEF TreeSound, AnswersFit

(* The step is in the tree already: its attempt is the current one again.      *)
LEMMA StartAgain ==
  ASSUME NEW t, TreeSound(t), NEW s \in Step, NEW i \in 1..Len(t.nodes), t.nodes[i].step = s,
         NEW u, u = [t EXCEPT !.latest[s] = i, !.current = i]
  PROVE  TreeSound(u) /\ Started(t, u, s)
<1>1. t \in TreeKind /\ t.latest \in [Step -> Nat] /\ i \in Nat /\ i # 0 /\ i <= Len(t.nodes)
  BY DEF TreeSound, TreeKind
<1>2. PICK l \in [Step -> Nat] : l = [t.latest EXCEPT ![s] = i]
  BY <1>1
<1>3. \A x \in Step : l[x] = IF x = s THEN i ELSE t.latest[x]
  BY <1>1, <1>2
<1>4. u = [t EXCEPT !.latest = l, !.current = i]
  BY <1>1, <1>2 DEF TreeKind
<1>5. u \in TreeKind
  BY <1>1, <1>4 DEF TreeKind
<1>6. /\ u.nodes = t.nodes /\ u.latest = l /\ u.truncated = t.truncated /\ u.writing = t.writing
      /\ u.asking = t.asking /\ u.cost = t.cost /\ u.loose = t.loose /\ u.asked = t.asked /\ u.calls = t.calls
      /\ u.current = i /\ u.ended = t.ended /\ u.from = t.from
  BY <1>1, <1>4 DEF TreeKind
<1>7. Pointers(u)
  BY <1>1, <1>3, <1>6 DEF TreeSound, Pointers
<1>8. Handed(u) /\ Totals(u)
  BY <1>6 DEF TreeSound, Handed, Totals
<1>8a. AnswersFit(u)
  BY <1>6, FitStays
<1>9. Reached(u)
  BY <1>1, <1>3, <1>6 DEF TreeSound, Reached
<1>10. Started(t, u, s)
  <2>1. t.latest[s] # 0
    BY DEF TreeSound, Reached
  <2> QED BY <1>1, <1>3, <1>6, <2>1 DEF Started
<1> QED BY <1>5, <1>7, <1>8, <1>8a, <1>9, <1>10 DEF TreeSound

(* The tree is full: it says so.                                               *)
LEMMA StartFull ==
  ASSUME NEW t, TreeSound(t), NEW s \in Step, Len(t.nodes) >= MaxNodes, NEW u, u = [t EXCEPT !.truncated = TRUE]
  PROVE  TreeSound(u) /\ Started(t, u, s)
<1>1. t \in TreeKind
  BY DEF TreeSound, TreeKind
<1>5. u \in TreeKind
  BY <1>1 DEF TreeKind
<1>6. /\ u.nodes = t.nodes /\ u.latest = t.latest /\ u.truncated = TRUE /\ u.writing = t.writing
      /\ u.asking = t.asking /\ u.cost = t.cost /\ u.loose = t.loose /\ u.asked = t.asked /\ u.calls = t.calls
      /\ u.current = t.current /\ u.ended = t.ended /\ u.from = t.from
  BY <1>1 DEF TreeKind
<1>7. Pointers(u)
  BY <1>6 DEF TreeSound, Pointers
<1>8. Handed(u) /\ Totals(u)
  BY <1>6 DEF TreeSound, Handed, Totals
<1>9. AnswersFit(u)
  BY <1>6, FitStays
<1>11. Reached(u)
  BY <1>6 DEF TreeSound, Reached
<1>10. Started(t, u, s)
  BY <1>6 DEF Started
<1> QED BY <1>5, <1>7, <1>8, <1>9, <1>10, <1>11 DEF TreeSound

\* The tree with another attempt of step s, and what that is handed.
WithNode(t, s, m) == [t EXCEPT !.nodes = Append(@, m), !.from = 0, !.target = L!None,
                               !.latest[s] = Len(t.nodes) + 1, !.current = Len(t.nodes) + 1]
HandedOn(t) == IF t.from # 0 THEN t.from ELSE t.ended

(* Another attempt, handed what the last one left.                             *)
LEMMA StartNew ==
  ASSUME NEW t, TreeSound(t), NEW s \in Step, NEW m \in AttemptKind, ~(Len(t.nodes) >= MaxNodes),
         m.step = s, m.parent = HandedOn(t), m.kind = "root" <=> m.parent = 0,
         m.cost = 0, m.asked = 0, m.answered = 0, m.calls = 0, m.files = {}, NEW u, u = WithNode(t, s, m)
  PROVE  TreeSound(u) /\ Started(t, u, s)
<1>1. /\ t \in TreeKind /\ t.latest \in [Step -> Nat] /\ Len(t.nodes) \in Nat /\ t.nodes \in Seq(AttemptKind)
      /\ t.asking \in [Call -> Nat] /\ t.from \in Nat /\ t.ended \in Nat /\ t.writing \in [Call -> Nat]
      /\ t.current \in Nat
  BY DEF TreeSound, TreeKind
<1>0. PICK i \in Nat : i = Len(t.nodes) + 1
  BY <1>1
<1>2. PICK l \in [Step -> Nat] : l = [t.latest EXCEPT ![s] = i]
  BY <1>1
<1>3. \A x \in Step : l[x] = IF x = s THEN i ELSE t.latest[x]
  BY <1>1, <1>2
<1>g. PICK g : g = Append(t.nodes, m)
  OBVIOUS
<1>h. /\ g \in Seq(AttemptKind) /\ Len(g) = Len(t.nodes) + 1 /\ g[i] = m
      /\ \A j \in 1..Len(t.nodes) : g[j] = t.nodes[j]
  BY <1>0, <1>1, <1>g
<1>4. PICK z \in Nat, y \in Step \cup {L!None} : z = 0 /\ y = L!None
  OBVIOUS
<1>a. u = [t EXCEPT !.nodes = g, !.from = z, !.target = y, !.latest = l, !.current = i]
  BY <1>0, <1>1, <1>2, <1>4, <1>g DEF TreeKind, WithNode
<1>5. u \in TreeKind
  <2>1. PICK v : v = [t EXCEPT !.nodes = g, !.from = z, !.target = y]
    OBVIOUS
  <2>2. g \in Seq(AttemptKind) /\ z \in Nat /\ y \in Step \cup {L!None} /\ l \in [Step -> Nat] /\ i \in Nat
    BY <1>h
  <2>3. v \in TreeKind
    BY ONLY <1>1, <2>1, <2>2 DEF TreeKind
  <2>4. u = [v EXCEPT !.latest = l, !.current = i]
    BY ONLY <1>1, <1>a, <2>1 DEF TreeKind
  <2> QED BY ONLY <2>2, <2>3, <2>4 DEF TreeKind
<1>6. /\ u.nodes = g /\ u.latest = l /\ u.truncated = t.truncated /\ u.writing = t.writing
      /\ u.asking = t.asking /\ u.cost = t.cost /\ u.loose = t.loose /\ u.asked = t.asked /\ u.calls = t.calls
      /\ u.current = i /\ u.ended = t.ended /\ u.from = 0
  BY <1>1, <1>4, <1>a DEF TreeKind
<1>k. \A j \in 1..Len(g) : j \in 1..Len(t.nodes) \/ j = i
  BY <1>0, <1>1, <1>h
<1>7. Pointers(u)
  <2>1. t.ended <= Len(t.nodes) /\ \A c \in Call : t.writing[c] <= Len(t.nodes) /\ t.asking[c] <= Len(t.nodes)
    BY DEF TreeSound, Pointers
  <2>2. t.ended <= Len(g) /\ 0 <= Len(g) /\ i <= Len(g)
    BY <1>0, <1>1, <1>h, <2>1
  <2>3. \A c \in Call : t.writing[c] <= Len(g) /\ t.asking[c] <= Len(g)
    BY <1>1, <1>h, <2>1
  <2>4. \A x \in Step : l[x] <= Len(g)
    <3>1. \A x \in Step : t.latest[x] <= Len(t.nodes)
      BY DEF TreeSound, Pointers
    <3>2. ASSUME NEW x \in Step PROVE l[x] <= Len(g)
      <4>1. l[x] = i \/ l[x] = t.latest[x]
        BY <1>3
      <4>2. t.latest[x] \in Nat /\ t.latest[x] <= Len(t.nodes) /\ Len(t.nodes) \in Nat /\ Len(g) = Len(t.nodes) + 1
        BY <1>1, <1>h, <3>1
      <4> QED BY ONLY <2>2, <4>1, <4>2
    <3> QED BY <3>2
  <2> QED BY <1>6, <2>2, <2>3, <2>4 DEF Pointers
<1>8. Handed(u)
  <2>1. m.parent < i
    <3>1. t.ended <= Len(t.nodes) /\ t.from <= Len(t.nodes)
      BY DEF TreeSound, Pointers
    <3> QED BY <1>0, <1>1, <3>1 DEF HandedOn
  <2>2. ASSUME NEW j \in 1..Len(t.nodes)
        PROVE  g[j].parent < j /\ (g[j].kind = "root" <=> g[j].parent = 0)
    BY <1>h DEF TreeSound, Handed
  <2> QED BY <1>6, <1>h, <1>k, <2>1, <2>2 DEF Handed
<1>9. Totals(u)
  <2>1. L!Sum(L!Spent(g)) = L!Sum(L!Spent(t.nodes))
    <3>0. PICK x, w : x = L!Spent(t.nodes) /\ w = L!Spent(g)
      OBVIOUS
    <3>1. x \in Seq(Nat) /\ Len(x) = Len(t.nodes) /\ w \in Seq(Nat) /\ Len(w) = Len(g)
      BY <1>1, <1>h, <3>0, PartsKind
    <3>2. \A j \in 1..Len(g) : w[j] = g[j].cost
      BY <3>0 DEF L!Spent
    <3>3. \A j \in 1..Len(t.nodes) : x[j] = t.nodes[j].cost
      BY <3>0 DEF L!Spent
    <3>4. i = Len(x) + 1 /\ Len(w) = i /\ i \in 1..Len(g)
      BY <1>0, <1>1, <1>h, <3>1
    <3>5. w[i] = 0
      BY <1>h, <3>2, <3>4
    <3>6. ASSUME NEW j \in 1..Len(x) PROVE w[j] = x[j]
      <4>1. j \in 1..Len(g) /\ j \in 1..Len(t.nodes)
        BY <1>1, <1>h, <3>1
      <4> QED BY ONLY <1>h, <3>2, <3>3, <4>1
    <3>7. \A j \in 1..Len(x) : w[j] = x[j]
      BY <3>6
    <3>8. L!Sum(w) = L!Sum(x)
      BY ONLY <3>1, <3>4, <3>5, <3>7, SumStays
    <3> QED BY <3>0, <3>8
  <2>2. L!Sum(L!Asked(g)) = L!Sum(L!Asked(t.nodes))
    <3>0. PICK x, w : x = L!Asked(t.nodes) /\ w = L!Asked(g)
      OBVIOUS
    <3>1. x \in Seq(Nat) /\ Len(x) = Len(t.nodes) /\ w \in Seq(Nat) /\ Len(w) = Len(g)
      BY <1>1, <1>h, <3>0, PartsKind
    <3>2. \A j \in 1..Len(g) : w[j] = g[j].asked
      BY <3>0 DEF L!Asked
    <3>3. \A j \in 1..Len(t.nodes) : x[j] = t.nodes[j].asked
      BY <3>0 DEF L!Asked
    <3>4. i = Len(x) + 1 /\ Len(w) = i /\ i \in 1..Len(g)
      BY <1>0, <1>1, <1>h, <3>1
    <3>5. w[i] = 0
      BY <1>h, <3>2, <3>4
    <3>6. ASSUME NEW j \in 1..Len(x) PROVE w[j] = x[j]
      <4>1. j \in 1..Len(g) /\ j \in 1..Len(t.nodes)
        BY <1>1, <1>h, <3>1
      <4> QED BY ONLY <1>h, <3>2, <3>3, <4>1
    <3>7. \A j \in 1..Len(x) : w[j] = x[j]
      BY <3>6
    <3>8. L!Sum(w) = L!Sum(x)
      BY ONLY <3>1, <3>4, <3>5, <3>7, SumStays
    <3> QED BY <3>0, <3>8
  <2>3. L!Sum(L!Called(g)) = L!Sum(L!Called(t.nodes))
    <3>0. PICK x, w : x = L!Called(t.nodes) /\ w = L!Called(g)
      OBVIOUS
    <3>1. x \in Seq(Nat) /\ Len(x) = Len(t.nodes) /\ w \in Seq(Nat) /\ Len(w) = Len(g)
      BY <1>1, <1>h, <3>0, PartsKind
    <3>2. \A j \in 1..Len(g) : w[j] = g[j].calls
      BY <3>0 DEF L!Called
    <3>3. \A j \in 1..Len(t.nodes) : x[j] = t.nodes[j].calls
      BY <3>0 DEF L!Called
    <3>4. i = Len(x) + 1 /\ Len(w) = i /\ i \in 1..Len(g)
      BY <1>0, <1>1, <1>h, <3>1
    <3>5. w[i] = 0
      BY <1>h, <3>2, <3>4
    <3>6. ASSUME NEW j \in 1..Len(x) PROVE w[j] = x[j]
      <4>1. j \in 1..Len(g) /\ j \in 1..Len(t.nodes)
        BY <1>1, <1>h, <3>1
      <4> QED BY ONLY <1>h, <3>2, <3>3, <4>1
    <3>7. \A j \in 1..Len(x) : w[j] = x[j]
      BY <3>6
    <3>8. L!Sum(w) = L!Sum(x)
      BY ONLY <3>1, <3>4, <3>5, <3>7, SumStays
    <3> QED BY <3>0, <3>8
  <2> QED BY <1>6, <2>1, <2>2, <2>3 DEF TreeSound, Totals
<1>10. ~t.truncated
  BY DEF TreeSound, Reached
<1>11. Reached(u)
  <2>1. i # 0
    BY <1>0, <1>1
  <2>2. \A x \in Step : l[x] = 0 => x # s /\ t.latest[x] = 0
    BY <1>3, <2>1
  <2>3. \A x \in Step : t.latest[x] = 0 => \A j \in 1..Len(t.nodes) : t.nodes[j].step # x
    BY DEF TreeSound, Reached
  <2>4. ASSUME NEW x \in Step, l[x] = 0, NEW j \in 1..Len(g) PROVE g[j].step # x
    BY <1>h, <1>k, <2>2, <2>3, <2>4
  <2>5. ASSUME NEW x \in Step, l[x] # 0 PROVE \E j \in 1..Len(g) : g[j].step = x
    <3>1. CASE x = s
      <4>1. i \in 1..Len(g) /\ g[i].step = x
        BY <1>0, <1>1, <1>h, <3>1
      <4> QED BY <4>1
    <3>2. CASE x # s
      <4>0. t.latest[x] # 0
        BY <1>3, <2>5, <3>2
      <4>1. PICK j \in 1..Len(t.nodes) : t.nodes[j].step = x
        BY <4>0 DEF TreeSound, Reached
      <4>3. j \in 1..Len(g)
        BY <1>1, <1>h
      <4>2. j \in 1..Len(g) /\ g[j].step = x
        BY ONLY <1>h, <4>1, <4>3
      <4> QED BY <4>2
    <3> QED BY <3>1, <3>2
  <2>6. \A x \in Step : l[x] = 0 <=> \A j \in 1..Len(g) : g[j].step # x
    BY <2>4, <2>5
  <2> QED BY ONLY <1>6, <1>10, <2>6 DEF Reached
<1>12. AnswersFit(u)
  <2>1. \A j : Waiting(u, j) = Waiting(t, j)
    BY <1>6 DEF Waiting
  <2>2. ASSUME NEW j \in 1..Len(t.nodes)
        PROVE  IsFiniteSet(Waiting(u, j)) /\ g[j].answered + Cardinality(Waiting(u, j)) <= g[j].asked
    BY <1>h, <2>1 DEF TreeSound, AnswersFit
  <2>3. IsFiniteSet(Waiting(u, i)) /\ m.answered + Cardinality(Waiting(u, i)) <= m.asked
    <3>1. \A c \in Call : t.asking[c] # i
      BY <1>0, <1>1 DEF TreeSound, Pointers
    <3>2. Waiting(u, i) = {}
      BY <2>1, <3>1 DEF Waiting
    <3>3. IsFiniteSet(Waiting(u, i)) /\ Cardinality(Waiting(u, i)) = 0
      BY <3>2, FS_EmptySet
    <3> QED BY <3>3
  <2> QED BY <1>6, <1>h, <1>k, <2>2, <2>3 DEF AnswersFit
<1>13. Started(t, u, s)
  <2>1. i # 0 /\ i \notin 1..Len(t.nodes)
    BY <1>0, <1>1
  <2>2. \A j \in 1..Len(t.nodes) : j \in 1..Len(g) /\ g[j].files = t.nodes[j].files
    BY <1>1, <1>h
  <2>3. \A j \in 1..Len(g) : \/ j \in 1..Len(t.nodes) /\ g[j].step = t.nodes[j].step
                             \/ j \notin 1..Len(t.nodes) /\ g[j].step = s /\ g[j].files = {}
    BY <1>h, <1>k, <2>1
  <2> QED BY <1>3, <1>6, <1>10, <2>1, <2>2, <2>3 DEF Started
<1> QED BY <1>5, <1>7, <1>8, <1>9, <1>11, <1>12, <1>13 DEF TreeSound

(* The start of an attempt.                                                    *)
LEMMA StartKeeps ==
  ASSUME NEW t, TreeSound(t), NEW s \in Step, NEW a \in Nat, NEW u, u = L!Start(t, s, a)
  PROVE  TreeSound(u) /\ Started(t, u, s)
<1> DEFINE known == L!Named(t, s, a)
           kind == IF t.from # 0 THEN (IF t.target = s THEN "repair" ELSE "handoff")
                   ELSE IF t.ended = 0 THEN "root"
                   ELSE IF t.nodes[t.ended].step = s THEN "retry" ELSE "handoff"
           parent == IF t.from # 0 THEN t.from ELSE t.ended
           m == L!Node(s, a, kind, parent)
<1>1. u = IF known # {}
          THEN [t EXCEPT !.latest[s] = CHOOSE i \in known : TRUE, !.current = CHOOSE i \in known : TRUE]
          ELSE IF Len(t.nodes) >= MaxNodes THEN [t EXCEPT !.truncated = TRUE]
          ELSE [[t EXCEPT !.nodes = Append(@, m), !.from = 0, !.target = L!None]
                  EXCEPT !.latest[s] = Len(t.nodes) + 1, !.current = Len(t.nodes) + 1]
  BY DEF L!Start
<1>2. CASE known # {}
  <2>1. PICK i \in known : i = CHOOSE j \in known : TRUE
    BY <1>2
  <2>2. i \in 1..Len(t.nodes) /\ t.nodes[i].step = s
    BY DEF L!Named
  <2>3. u = [t EXCEPT !.latest[s] = i, !.current = i]
    BY <1>1, <1>2, <2>1
  <2> HIDE DEF known
  <2> QED BY <2>2, <2>3, StartAgain
<1>3. CASE known = {} /\ Len(t.nodes) >= MaxNodes
  <2>1. u = [t EXCEPT !.truncated = TRUE]
    BY <1>1, <1>3
  <2> HIDE DEF known
  <2> QED BY <1>3, <2>1, StartFull
<1>4. CASE known = {} /\ ~(Len(t.nodes) >= MaxNodes)
  <2>0. t \in TreeKind /\ t.from \in Nat /\ t.ended \in Nat
    BY DEF TreeSound, TreeKind
  <2>1. PICK k \in Origin : k = kind
    BY DEF Origin
  <2>2. PICK p \in Nat : p = parent
    BY <2>0
  <2>3. k = "root" <=> p = 0
    BY <2>0, <2>1, <2>2
  <2>4. PICK o \in Outcome : o = "running"
    BY DEF Outcome
  <2>5. m = [step |-> s, attempt |-> a, kind |-> k, parent |-> p, outcome |-> o,
             cost |-> 0, asked |-> 0, answered |-> 0, calls |-> 0, files |-> {}, failed |-> 0]
    BY <2>1, <2>2, <2>4 DEF L!Node
  <2>6. u = [[t EXCEPT !.nodes = Append(@, m), !.from = 0, !.target = L!None]
               EXCEPT !.latest[s] = Len(t.nodes) + 1, !.current = Len(t.nodes) + 1]
    BY <1>1, <1>4
  <2>7. p = HandedOn(t)
    BY <2>2 DEF HandedOn
  <2> HIDE DEF m, kind, parent
  <2>8. /\ m \in AttemptKind /\ m.step = s /\ m.parent = p /\ m.kind = k /\ m.cost = 0 /\ m.asked = 0
        /\ m.answered = 0 /\ m.calls = 0 /\ m.files = {}
    BY <2>5 DEF AttemptKind
  <2>9. u = WithNode(t, s, m)
    BY <2>0, <2>6 DEF TreeKind, WithNode
  <2>10. m.parent = HandedOn(t) /\ (m.kind = "root" <=> m.parent = 0)
    BY <2>3, <2>7, <2>8
  <2>11. TreeSound(t) /\ s \in Step /\ ~(Len(t.nodes) >= MaxNodes)
    BY <1>4
  <2> HIDE DEF known
  <2> QED BY ONLY <2>8, <2>9, <2>10, <2>11, StartNew
<1> QED BY <1>2, <1>3, <1>4

-----------------------------------------------------------------------------
(* What the events say of the tree. *)

\* What the run's events say of the tree they give.
At(l, type) == {i \in 1..Len(l) : l[i].type = type}
Returned(l) == At(l, "tool-result") \cup At(l, "tool-error")
EventKind == [type : L!Relevant, step : Step \cup {L!None}, arg : Nat \cup Step \cup Call \cup {L!None}]
LogKind(l) ==
  /\ l \in Seq(EventKind)
  /\ \A i \in 1..Len(l) : l[i].type \in {"phase-start", "tool-call", "request"} => l[i].step \in Step
  /\ \A i \in 1..Len(l) : l[i].type \in {"tool-call", "request"} => l[i].arg \in Call

CostsTold(l, t) == IsFiniteSet(At(l, "usage")) /\ t.cost = Cardinality(At(l, "usage"))

\* A step that was started is in the tree, or the tree says it is cut short.
StartsTold(l, t) ==
  /\ \A a \in At(l, "phase-start") : t.latest[l[a].step] # 0 \/ t.truncated
  /\ \A i \in 1..Len(t.nodes) : \E a \in At(l, "phase-start") : l[a].step = t.nodes[i].step

\* A prompt that waits is an attempt's, or of a step that is not in the tree.
AsksTold(l, t) ==
  /\ \A c \in Call : t.asking[c] # 0 => \E a \in At(l, "request") : l[a].arg = c
  /\ \A a \in At(l, "request") :
       (\A b \in At(l, "resolved") : l[b].arg # l[a].arg) =>
         t.asking[l[a].arg] # 0 \/ (t.latest[l[a].step] = 0 /\ t.truncated)

\* The attempt a call is made by; a write that is not over is its.
Writer(l, a) == L!NodeFor(L!Tree(SubSeq(l, 1, a)), l[a].step)
WritesTold(l, t) ==
  /\ \A c \in Call : (\A a \in At(l, "tool-call") : l[a].arg # c) => t.writing[c] = 0
  /\ \A a, b \in At(l, "tool-call") : l[a].arg = l[b].arg => a = b
  /\ \A a \in At(l, "tool-call") :
       /\ Writer(l, a) \in 0..Len(t.nodes)
       /\ (\A b \in Returned(l) : l[b].arg # l[a].arg) => t.writing[l[a].arg] = Writer(l, a)
Wrote(l, i, c) ==
  \E a, b \in 1..Len(l) : /\ a < b /\ l[a].type = "tool-call" /\ l[a].arg = c
                          /\ l[b] = L!Event("tool-result", l[a].step, c)
                          /\ i = Writer(l, a)
FilesTold(l, t) == \A i \in 1..Len(t.nodes) : t.nodes[i].files = {c \in Call : Wrote(l, i, c)}

TreeTells(l, t) ==
  LogKind(l) /\ CostsTold(l, t) /\ StartsTold(l, t) /\ AsksTold(l, t) /\ WritesTold(l, t) /\ FilesTold(l, t)

(* An event more.                                                              *)
LEMMA LogOn ==
  ASSUME NEW l \in Seq(EventKind), NEW e \in EventKind
  PROVE  /\ Append(l, e) \in Seq(EventKind) /\ Len(Append(l, e)) = Len(l) + 1 /\ Len(l) \in Nat
         /\ Append(l, e)[Len(l) + 1] = e /\ \A i \in 1..Len(l) : Append(l, e)[i] = l[i]
         /\ \A i : i \in 1..Len(Append(l, e)) <=> i \in 1..Len(l) \/ i = Len(l) + 1
  OBVIOUS

(* Where the events of a kind are, after one more.                             *)
LEMMA AtOn ==
  ASSUME NEW l \in Seq(EventKind), NEW e \in EventKind, NEW ty
  PROVE  /\ At(Append(l, e), ty) = IF e.type = ty THEN At(l, ty) \cup {Len(l) + 1} ELSE At(l, ty)
         /\ At(l, ty) \subseteq 1..Len(l) /\ Len(l) + 1 \notin At(l, ty)
BY LogOn DEF At

(* The first events, and who made a call among them, stay as they are.           *)
LEMMA PrefixOn ==
  ASSUME NEW l \in Seq(EventKind), NEW e \in EventKind
  PROVE  /\ \A i \in 1..Len(l) : SubSeq(Append(l, e), 1, i) = SubSeq(l, 1, i)
         /\ SubSeq(Append(l, e), 1, Len(l) + 1) = Append(l, e)
         /\ \A i \in 1..Len(l) : Writer(Append(l, e), i) = Writer(l, i)
<1>0. PICK k : k = Append(l, e)
  OBVIOUS
<1>1. k \in Seq(EventKind) /\ Len(k) = Len(l) + 1 /\ Len(l) \in Nat /\ \A i \in 1..Len(l) : k[i] = l[i]
  BY <1>0
<1>2. ASSUME NEW i \in 1..Len(l) PROVE SubSeq(k, 1, i) = SubSeq(l, 1, i)
  <2>1. \A j \in 1..i : j \in 1..Len(l) /\ k[j] = l[j]
    BY <1>1
  <2>2. SubSeq(k, 1, i) = [j \in 1..i |-> k[j]] /\ SubSeq(l, 1, i) = [j \in 1..i |-> l[j]]
    BY <1>1
  <2> QED BY <2>1, <2>2
<1>3. SubSeq(k, 1, Len(l) + 1) = k
  BY <1>1
<1>4. \A i \in 1..Len(l) : Writer(k, i) = Writer(l, i)
  BY <1>1, <1>2 DEF Writer
<1> QED BY <1>0, <1>2, <1>3, <1>4

(* What wrote c for attempt i, after one more event.                           *)
LEMMA WroteOn ==
  ASSUME NEW l \in Seq(EventKind), NEW e \in EventKind, NEW i, NEW c
  PROVE  Wrote(Append(l, e), i, c) <=>
           \/ Wrote(l, i, c)
           \/ \E a \in 1..Len(l) : /\ l[a].type = "tool-call" /\ l[a].arg = c /\ i = Writer(l, a)
                                   /\ e = L!Event("tool-result", l[a].step, c)
<1> DEFINE new == \E a \in 1..Len(l) : /\ l[a].type = "tool-call" /\ l[a].arg = c /\ i = Writer(l, a)
                                       /\ e = L!Event("tool-result", l[a].step, c)
<1>0. PICK k : k = Append(l, e)
  OBVIOUS
<1>1. /\ Len(l) \in Nat /\ k[Len(l) + 1] = e /\ \A j \in 1..Len(l) : k[j] = l[j]
      /\ \A j : j \in 1..Len(k) <=> j \in 1..Len(l) \/ j = Len(l) + 1
      /\ \A j \in 1..Len(l) : Writer(k, j) = Writer(l, j)
  BY <1>0, LogOn, PrefixOn
<1>2. ASSUME Wrote(k, i, c) PROVE Wrote(l, i, c) \/ new
  <2>1. PICK a, b \in 1..Len(k) : /\ a < b /\ k[a].type = "tool-call" /\ k[a].arg = c
                                  /\ k[b] = L!Event("tool-result", k[a].step, c) /\ i = Writer(k, a)
    BY <1>2 DEF Wrote
  <2>2. a \in 1..Len(l)
    BY <1>1, <2>1
  <2>3. CASE b \in 1..Len(l)
    BY <1>1, <2>1, <2>2, <2>3 DEF Wrote
  <2>4. CASE b = Len(l) + 1
    BY <1>1, <2>1, <2>2, <2>4
  <2> QED BY <1>1, <2>3, <2>4
<1>3. ASSUME Wrote(l, i, c) PROVE Wrote(k, i, c)
  <2>1. PICK a, b \in 1..Len(l) : /\ a < b /\ l[a].type = "tool-call" /\ l[a].arg = c
                                  /\ l[b] = L!Event("tool-result", l[a].step, c) /\ i = Writer(l, a)
    BY <1>3 DEF Wrote
  <2>2. a \in 1..Len(k) /\ b \in 1..Len(k) /\ k[a] = l[a] /\ k[b] = l[b] /\ Writer(k, a) = Writer(l, a)
    BY <1>1
  <2> QED BY <2>1, <2>2 DEF Wrote
<1>4. ASSUME new PROVE Wrote(k, i, c)
  <2>1. PICK a \in 1..Len(l) : /\ l[a].type = "tool-call" /\ l[a].arg = c /\ i = Writer(l, a)
                               /\ e = L!Event("tool-result", l[a].step, c)
    BY <1>4
  <2>2. /\ a \in 1..Len(k) /\ Len(l) + 1 \in 1..Len(k) /\ a < Len(l) + 1
        /\ k[a] = l[a] /\ k[Len(l) + 1] = e /\ Writer(k, a) = Writer(l, a)
    BY <1>1
  <2> QED BY <2>1, <2>2 DEF Wrote
<1> HIDE DEF new
<1>5. Wrote(k, i, c) <=> Wrote(l, i, c) \/ new
  BY <1>2, <1>3, <1>4
<1> QED BY <1>0, <1>5 DEF new

(* What each event does to the tree.                                           *)
LEMMA ApplyIs ==
  ASSUME NEW t, NEW s, NEW a
  PROVE  /\ L!Apply(t, L!Event("phase-start", s, a)) = L!Start(t, s, a)
         /\ L!Apply(t, L!Event("phase-end", s, a)) = L!Ends(t, s, a)
         /\ L!Apply(t, L!Event("repair", s, a)) = L!Repair(t, L!NodeFor(t, s), a)
         /\ L!Apply(t, L!Event("continue", s, a)) = L!Continue(t, L!NodeFor(t, s))
         /\ L!Apply(t, L!Event("tool-call", s, a)) = L!Write(t, L!NodeFor(t, s), a)
         /\ L!Apply(t, L!Event("tool-result", s, a)) = L!Written(t, a)
         /\ L!Apply(t, L!Event("tool-error", s, a)) = L!Failed(t, a)
         /\ L!Apply(t, L!Event("request", s, a)) = L!Ask(t, L!NodeFor(t, s), a)
         /\ L!Apply(t, L!Event("resolved", s, a)) = L!Answer(t, L!NodeFor(t, s), a)
         /\ L!Apply(t, L!Event("usage", s, a)) = L!Cost(t, IF s = L!None THEN 0 ELSE L!NodeFor(t, s))
         /\ L!Apply(t, L!Event("run-end", s, a)) = L!Over(t)
<1>1. \A ty : L!Event(ty, s, a).type = ty /\ L!Event(ty, s, a).step = s /\ L!Event(ty, s, a).arg = a
  BY DEF L!Event
<1>2. L!Apply(t, L!Event("phase-start", s, a)) = L!Start(t, s, a)
  BY <1>1 DEF L!Apply
<1>3. L!Apply(t, L!Event("phase-end", s, a)) = L!Ends(t, s, a)
  BY <1>1 DEF L!Apply
<1>4. L!Apply(t, L!Event("repair", s, a)) = L!Repair(t, L!NodeFor(t, s), a)
  BY <1>1 DEF L!Apply
<1>5. L!Apply(t, L!Event("continue", s, a)) = L!Continue(t, L!NodeFor(t, s))
  BY <1>1 DEF L!Apply
<1>6. L!Apply(t, L!Event("tool-call", s, a)) = L!Write(t, L!NodeFor(t, s), a)
  BY <1>1 DEF L!Apply
<1>7. L!Apply(t, L!Event("tool-result", s, a)) = L!Written(t, a)
  BY <1>1 DEF L!Apply
<1>8. L!Apply(t, L!Event("tool-error", s, a)) = L!Failed(t, a)
  BY <1>1 DEF L!Apply
<1>9. L!Apply(t, L!Event("request", s, a)) = L!Ask(t, L!NodeFor(t, s), a)
  BY <1>1 DEF L!Apply
<1>10. L!Apply(t, L!Event("resolved", s, a)) = L!Answer(t, L!NodeFor(t, s), a)
  BY <1>1 DEF L!Apply
<1>11. L!Apply(t, L!Event("usage", s, a)) = L!Cost(t, IF s = L!None THEN 0 ELSE L!NodeFor(t, s))
  BY <1>1 DEF L!Apply
<1>12. L!Apply(t, L!Event("run-end", s, a)) = L!Over(t)
  BY <1>1 DEF L!Apply
<1> QED BY <1>2, <1>3, <1>4, <1>5, <1>6, <1>7, <1>8, <1>9, <1>10, <1>11, <1>12

-----------------------------------------------------------------------------
(* One event more. *)

(* What an event of another kind leaves as told.                               *)
LEMMA CostsStay ==
  ASSUME NEW l \in Seq(EventKind), NEW e \in EventKind, NEW t, NEW u, TreeSound(t), CostsTold(l, t),
         u.cost = IF e.type = "usage" THEN t.cost + 1 ELSE t.cost
  PROVE  CostsTold(Append(l, e), u)
<1>1. PICK A : A = At(l, "usage")
  OBVIOUS
<1>2. /\ At(Append(l, e), "usage") = IF e.type = "usage" THEN A \cup {Len(l) + 1} ELSE A
      /\ Len(l) + 1 \notin A
  BY <1>1, AtOn
<1>3. IsFiniteSet(A) /\ t.cost = Cardinality(A)
  BY <1>1 DEF CostsTold
<1>4. CASE e.type = "usage"
  <2>1. At(Append(l, e), "usage") = A \cup {Len(l) + 1}
    BY <1>2, <1>4
  <2>2. IsFiniteSet(A \cup {Len(l) + 1}) /\ Cardinality(A \cup {Len(l) + 1}) = Cardinality(A) + 1
    BY <1>2, <1>3, FS_AddElement
  <2> QED BY <1>3, <1>4, <2>1, <2>2 DEF CostsTold
<1>5. CASE e.type # "usage"
  BY <1>2, <1>3, <1>5 DEF CostsTold
<1> QED BY <1>4, <1>5

(* The steps started, of an event that starts none.                            *)
LEMMA StartsStay ==
  ASSUME NEW l \in Seq(EventKind), NEW e \in EventKind, NEW t, NEW u, StartsTold(l, t), SameAttempts(t, u),
         e.type # "phase-start"
  PROVE  StartsTold(Append(l, e), u)
<1>1. PICK k : k = Append(l, e)
  OBVIOUS
<1>2. At(k, "phase-start") = At(l, "phase-start") /\ \A i \in At(l, "phase-start") : k[i] = l[i]
  BY <1>1, AtOn, LogOn
<1>3. StartsTold(k, u)
  BY <1>2 DEF StartsTold, SameAttempts
<1> QED BY <1>1, <1>3

(* The prompts that wait, of an event that asks and answers none.              *)
LEMMA AsksStay ==
  ASSUME NEW l \in Seq(EventKind), NEW e \in EventKind, NEW t, NEW u, LogKind(l), AsksTold(l, t), u.asking = t.asking,
         \A x \in Step : t.truncated /\ t.latest[x] = 0 => u.truncated /\ u.latest[x] = 0,
         e.type # "request", e.type # "resolved"
  PROVE  AsksTold(Append(l, e), u)
<1>1. PICK k : k = Append(l, e)
  OBVIOUS
<1>2. /\ At(k, "request") = At(l, "request") /\ \A i \in At(l, "request") : k[i] = l[i]
      /\ At(k, "resolved") = At(l, "resolved") /\ \A i \in At(l, "resolved") : k[i] = l[i]
  BY <1>1, AtOn, LogOn
<1>3. \A i \in At(l, "request") : l[i].step \in Step
  BY DEF LogKind, At
<1>4. AsksTold(k, u)
  BY <1>2, <1>3 DEF AsksTold
<1> QED BY <1>1, <1>4

(* The writes under way, of an event that is no part of a write.               *)
LEMMA WritesStay ==
  ASSUME NEW l \in Seq(EventKind), NEW e \in EventKind, NEW t, NEW u, WritesTold(l, t), u.writing = t.writing,
         Len(t.nodes) \in Nat, Len(u.nodes) \in Nat, Len(u.nodes) >= Len(t.nodes),
         e.type # "tool-call", e.type # "tool-result", e.type # "tool-error"
  PROVE  WritesTold(Append(l, e), u)
<1>1. PICK k : k = Append(l, e)
  OBVIOUS
<1>2. PICK A, R : A = At(l, "tool-call") /\ R = Returned(l)
  OBVIOUS
<1>3. At(k, "tool-call") = A /\ Returned(k) = R
  BY <1>1, <1>2, AtOn DEF Returned
<1>4. /\ \A i \in A : k[i] = l[i] /\ Writer(k, i) = Writer(l, i)
      /\ \A i \in R : k[i] = l[i]
  BY <1>1, <1>2, AtOn, LogOn, PrefixOn DEF Returned
<1>5. \A i \in 0..Len(t.nodes) : i \in 0..Len(u.nodes)
  OBVIOUS
<1>6. \A c \in Call : (\A a \in A : l[a].arg # c) => t.writing[c] = 0
  BY <1>2 DEF WritesTold
<1>7. \A a, b \in A : l[a].arg = l[b].arg => a = b
  BY <1>2 DEF WritesTold
<1>8. \A a \in A : /\ Writer(l, a) \in 0..Len(t.nodes)
                   /\ (\A b \in R : l[b].arg # l[a].arg) => t.writing[l[a].arg] = Writer(l, a)
  BY <1>2 DEF WritesTold
<1>9. \A c \in Call : (\A a \in A : k[a].arg # c) => u.writing[c] = 0
  BY <1>4, <1>6
<1>10. \A a, b \in A : k[a].arg = k[b].arg => a = b
  BY <1>4, <1>7
<1>11. \A a \in A : /\ Writer(k, a) \in 0..Len(u.nodes)
                    /\ (\A b \in R : k[b].arg # k[a].arg) => u.writing[k[a].arg] = Writer(k, a)
  BY <1>4, <1>5, <1>8
<1> QED BY <1>1, <1>3, <1>9, <1>10, <1>11 DEF WritesTold

(* The files written, of an event that brings none.                            *)
LEMMA FilesStand ==
  ASSUME NEW l \in Seq(EventKind), NEW e \in EventKind, NEW t, NEW u, FilesTold(l, t),
         Len(u.nodes) = Len(t.nodes), \A i \in 1..Len(t.nodes) : u.nodes[i].files = t.nodes[i].files,
         e.type # "tool-result"
  PROVE  FilesTold(Append(l, e), u)
<1>1. \A i, c : Wrote(Append(l, e), i, c) <=> Wrote(l, i, c)
  BY WroteOn DEF L!Event
<1> QED BY <1>1 DEF FilesTold

(* The events stay what events are.                                            *)
LEMMA KindStays ==
  ASSUME NEW l, LogKind(l), NEW e \in EventKind,
         e.type \in {"phase-start", "tool-call", "request"} => e.step \in Step,
         e.type \in {"tool-call", "request"} => e.arg \in Call
  PROVE  LogKind(Append(l, e))
<1>1. PICK k : k = Append(l, e)
  OBVIOUS
<1>2. /\ k \in Seq(EventKind) /\ k[Len(l) + 1] = e /\ \A i \in 1..Len(l) : k[i] = l[i]
      /\ \A i : i \in 1..Len(k) <=> i \in 1..Len(l) \/ i = Len(l) + 1
  BY <1>1, LogOn DEF LogKind
<1>3. LogKind(k)
  BY <1>2 DEF LogKind
<1> QED BY <1>1, <1>3

(* A tree has so many attempts.                                                *)
LEMMA SoundLength == ASSUME NEW t, TreeSound(t) PROVE Len(t.nodes) \in Nat
<1>1. \A v \in TreeKind : v.nodes \in Seq(AttemptKind)
  BY DEF TreeKind
<1>2. \A n \in Seq(AttemptKind) : Len(n) \in Nat
  OBVIOUS
<1> QED BY <1>1, <1>2 DEF TreeSound

(* An attempt starts.                                                          *)
LEMMA StartTells ==
  ASSUME NEW l, NEW t, TreeSound(t), TreeTells(l, t), NEW s \in Step, NEW a \in Nat, NEW e, NEW u,
         e = L!Event("phase-start", s, a), u = L!Apply(t, e)
  PROVE  e \in EventKind /\ TreeSound(u) /\ TreeTells(Append(l, e), u)
<1>1. e.type = "phase-start" /\ e.step = s /\ e \in EventKind
  BY DEF L!Event, EventKind, L!Relevant
<1>2. TreeSound(u) /\ Started(t, u, s)
  BY ApplyIs, StartKeeps
<1>3. l \in Seq(EventKind) /\ LogKind(l)
  BY DEF TreeTells, LogKind
<1>4. LogKind(Append(l, e))
  BY <1>1, <1>3, KindStays
<1>5. CostsTold(Append(l, e), u)
  BY <1>1, <1>2, <1>3, CostsStay DEF TreeTells, Started
<1>6. StartsTold(Append(l, e), u)
  <2>1. PICK k : k = Append(l, e)
    OBVIOUS
  <2>2. PICK A : A = At(l, "phase-start")
    OBVIOUS
  <2>3. /\ At(k, "phase-start") = A \cup {Len(l) + 1} /\ k[Len(l) + 1] = e
        /\ \A i \in A : k[i] = l[i] /\ l[i].step \in Step
    <3>1. \A i \in A : i \in 1..Len(l) /\ l[i].type = "phase-start"
      BY <2>2 DEF At
    <3> QED BY <1>1, <1>3, <2>1, <2>2, <3>1, AtOn, LogOn DEF LogKind
  <2>4. \A i \in A : t.latest[l[i].step] # 0 \/ t.truncated
    BY <2>2 DEF TreeTells, StartsTold
  <2>5. ASSUME NEW i \in At(k, "phase-start") PROVE u.latest[k[i].step] # 0 \/ u.truncated
    <3>1. CASE i \in A
      BY <1>2, <2>3, <2>4, <3>1 DEF Started
    <3>2. CASE i = Len(l) + 1
      BY <1>1, <1>2, <2>3, <3>2 DEF Started
    <3> QED BY <2>3, <3>1, <3>2
  <2>6. ASSUME NEW i \in 1..Len(u.nodes) PROVE \E x \in At(k, "phase-start") : k[x].step = u.nodes[i].step
    <3>1. CASE i \in 1..Len(t.nodes)
      <4>1. u.nodes[i].step = t.nodes[i].step
        BY <1>2, <3>1 DEF Started
      <4>2. PICK x \in A : l[x].step = t.nodes[i].step
        BY <2>2, <3>1 DEF TreeTells, StartsTold
      <4> QED BY <2>3, <4>1, <4>2
    <3>2. CASE i \notin 1..Len(t.nodes)
      <4>1. u.nodes[i].step = s
        BY <1>2, <3>2 DEF Started
      <4> QED BY <1>1, <2>3, <4>1
    <3> QED BY <3>1, <3>2
  <2>7. StartsTold(k, u)
    BY <2>5, <2>6 DEF StartsTold
  <2> QED BY <2>1, <2>7
<1>7. AsksTold(Append(l, e), u)
  <2>1. \A x \in Step : t.truncated /\ t.latest[x] = 0 => u.truncated /\ u.latest[x] = 0
    BY <1>2 DEF Started
  <2>2. e.type # "request" /\ e.type # "resolved" /\ AsksTold(l, t) /\ u.asking = t.asking
    BY <1>1, <1>2 DEF TreeTells, Started
  <2> QED BY ONLY <1>1, <1>3, <2>1, <2>2, AsksStay
<1>8. Len(t.nodes) \in Nat /\ Len(u.nodes) \in Nat /\ Len(u.nodes) >= Len(t.nodes)
  <2>1. Len(t.nodes) \in Nat /\ Len(u.nodes) \in Nat
    BY <1>2, SoundLength
  <2>2. Len(t.nodes) \in 1..Len(t.nodes) => Len(t.nodes) \in 1..Len(u.nodes)
    BY <1>2 DEF Started
  <2> QED BY <2>1, <2>2
<1>9. WritesTold(Append(l, e), u)
  <2>1. WritesTold(l, t) /\ u.writing = t.writing
    BY <1>2 DEF TreeTells, Started
  <2>2. e.type # "tool-call" /\ e.type # "tool-result" /\ e.type # "tool-error"
    BY <1>1
  <2> QED BY <1>1, <1>3, <1>8, <2>1, <2>2, WritesStay
<1>10. FilesTold(Append(l, e), u)
  <2>1. \A i, c : Wrote(Append(l, e), i, c) <=> Wrote(l, i, c)
    BY <1>1, <1>3, WroteOn DEF L!Event
  <2>2. FilesTold(l, t)
    BY DEF TreeTells
  <2>3. ASSUME NEW i \in 1..Len(u.nodes) PROVE u.nodes[i].files = {c \in Call : Wrote(l, i, c)}
    <3>1. CASE i \in 1..Len(t.nodes)
      BY <1>2, <2>2, <3>1 DEF Started, FilesTold
    <3>2. CASE i \notin 1..Len(t.nodes)
      <4>1. u.nodes[i].files = {}
        BY <1>2, <3>2 DEF Started
      <4>2. ASSUME NEW c, Wrote(l, i, c) PROVE FALSE
        <5>1. PICK x \in 1..Len(l) : l[x].type = "tool-call" /\ i = Writer(l, x)
          BY <4>2 DEF Wrote
        <5>2. x \in At(l, "tool-call")
          BY <5>1 DEF At
        <5>3. i \in 0..Len(t.nodes)
          BY <5>1, <5>2 DEF TreeTells, WritesTold
        <5> QED BY <1>8, <3>2, <5>3
      <4> QED BY <4>1, <4>2
    <3> QED BY <3>1, <3>2
  <2> QED BY <2>1, <2>3 DEF FilesTold
<1> QED BY <1>1, <1>2, <1>4, <1>5, <1>6, <1>7, <1>9, <1>10 DEF TreeTells

(* Events that change no attempt's steps, prompts or writes.                   *)
LEMMA QuietTells ==
  ASSUME NEW l, NEW t, TreeSound(t), TreeTells(l, t), NEW e \in EventKind, NEW u, TreeSound(u),
         SameAttempts(t, u), SameFiles(t, u), SameAnswers(t, u),
         u.cost = IF e.type = "usage" THEN t.cost + 1 ELSE t.cost,
         e.type \in {"phase-end", "repair", "continue", "usage", "run-end"}
  PROVE  TreeTells(Append(l, e), u)
<1>1. /\ e.type # "phase-start" /\ e.type # "request" /\ e.type # "resolved"
      /\ e.type # "tool-call" /\ e.type # "tool-result" /\ e.type # "tool-error"
  OBVIOUS
<1>2. l \in Seq(EventKind) /\ LogKind(l)
  BY DEF TreeTells, LogKind
<1>3. LogKind(Append(l, e))
  BY <1>1, <1>2, KindStays
<1>4. CostsTold(Append(l, e), u)
  BY <1>2, CostsStay DEF TreeTells
<1>5. StartsTold(Append(l, e), u)
  BY <1>1, <1>2, StartsStay DEF TreeTells
<1>6. AsksTold(Append(l, e), u)
  <2>1. u.asking = t.asking /\ \A x \in Step : t.truncated /\ t.latest[x] = 0 => u.truncated /\ u.latest[x] = 0
    BY DEF SameAttempts, SameAnswers
  <2>2. AsksTold(l, t) /\ e \in EventKind
    BY DEF TreeTells
  <2> QED BY ONLY <1>1, <1>2, <2>1, <2>2, AsksStay
<1>7. WritesTold(Append(l, e), u)
  <2>1. u.writing = t.writing /\ Len(u.nodes) = Len(t.nodes) /\ WritesTold(l, t) /\ e \in EventKind
    BY DEF SameAttempts, SameFiles, TreeTells
  <2>2. Len(t.nodes) \in Nat
    BY SoundLength
  <2>3. Len(u.nodes) \in Nat /\ Len(u.nodes) >= Len(t.nodes)
    BY <2>1, <2>2
  <2> QED BY ONLY <1>1, <1>2, <2>1, <2>2, <2>3, WritesStay
<1>8. FilesTold(Append(l, e), u)
  BY <1>1, <1>2, FilesStand DEF TreeTells, SameAttempts, SameFiles
<1> QED BY <1>3, <1>4, <1>5, <1>6, <1>7, <1>8 DEF TreeTells

(* The end of a step.                                                          *)
LEMMA EndTells ==
  ASSUME NEW l, NEW t, TreeSound(t), TreeTells(l, t), NEW s \in Step, NEW a \in Nat, NEW e, NEW u,
         e = L!Event("phase-end", s, a), u = L!Apply(t, e)
  PROVE  e \in EventKind /\ TreeSound(u) /\ TreeTells(Append(l, e), u)
<1>1. e.type = "phase-end" /\ e \in EventKind
  BY DEF L!Event, EventKind, L!Relevant
<1>2. L!NodeFor(t, s) \in 0..Len(t.nodes)
  BY NodeForIn
<1>3. TreeSound(u) /\ SameAttempts(t, u) /\ SameFiles(t, u) /\ SameAnswers(t, u) /\ u.cost = t.cost
  BY <1>2, ApplyIs, EndsKeeps
<1> QED BY <1>1, <1>3, QuietTells

(* A decision to go on, or to go back.                                         *)
LEMMA DecisionTells ==
  ASSUME NEW l, NEW t, TreeSound(t), TreeTells(l, t), NEW s \in Step, NEW e, NEW u, u = L!Apply(t, e),
         e = L!Event("continue", s, L!None) \/ \E x \in Step : e = L!Event("repair", s, x)
  PROVE  e \in EventKind /\ TreeSound(u) /\ TreeTells(Append(l, e), u)
<1>2. L!NodeFor(t, s) \in 0..Len(t.nodes)
  BY NodeForIn
<1>3. CASE e = L!Event("continue", s, L!None)
  <2>1. e.type = "continue" /\ e \in EventKind
    BY <1>3 DEF L!Event, EventKind, L!Relevant
  <2>2. TreeSound(u) /\ SameAttempts(t, u) /\ SameFiles(t, u) /\ SameAnswers(t, u) /\ u.cost = t.cost
    BY <1>2, <1>3, ApplyIs, ContinueKeeps
  <2> QED BY <2>1, <2>2, QuietTells
<1>4. CASE \E x \in Step : e = L!Event("repair", s, x)
  <2>0. PICK x \in Step : e = L!Event("repair", s, x)
    BY <1>4
  <2>1. e.type = "repair" /\ e \in EventKind
    BY <2>0 DEF L!Event, EventKind, L!Relevant
  <2>2. TreeSound(u) /\ SameAttempts(t, u) /\ SameFiles(t, u) /\ SameAnswers(t, u) /\ u.cost = t.cost
    BY <1>2, <2>0, ApplyIs, RepairKeeps
  <2> QED BY <2>1, <2>2, QuietTells
<1> QED BY <1>3, <1>4

(* A cost.                                                                     *)
LEMMA CostTells ==
  ASSUME NEW l, NEW t, TreeSound(t), TreeTells(l, t), NEW s \in Step \cup {L!None}, NEW e, NEW u, u = L!Apply(t, e),
         e = L!Event("usage", s, L!None)
  PROVE  e \in EventKind /\ TreeSound(u) /\ TreeTells(Append(l, e), u)
<1>1. e.type = "usage" /\ e \in EventKind
  BY DEF L!Event, EventKind, L!Relevant
<1>2. PICK n : n = IF s = L!None THEN 0 ELSE L!NodeFor(t, s)
  OBVIOUS
<1>3. n \in 0..Len(t.nodes)
  BY <1>2, NodeForIn, SoundLength
<1>4. u = L!Cost(t, n)
  BY <1>2, ApplyIs
<1>5. TreeSound(u) /\ SameAttempts(t, u) /\ SameFiles(t, u) /\ SameAnswers(t, u) /\ u.cost = t.cost + 1
  BY <1>3, <1>4, CostKeeps
<1> QED BY <1>1, <1>5, QuietTells

(* The run is over.                                                            *)
LEMMA OverTells ==
  ASSUME NEW l, NEW t, TreeSound(t), TreeTells(l, t), NEW e, NEW u, u = L!Apply(t, e),
         e = L!Event("run-end", L!None, L!None)
  PROVE  e \in EventKind /\ TreeSound(u) /\ TreeTells(Append(l, e), u)
<1>1. e.type = "run-end" /\ e \in EventKind
  BY DEF L!Event, EventKind, L!Relevant
<1>2. TreeSound(u) /\ SameAttempts(t, u) /\ SameFiles(t, u) /\ SameAnswers(t, u) /\ u.cost = t.cost
  BY ApplyIs, OverKeeps
<1> QED BY <1>1, <1>2, QuietTells

(* A step without an attempt in the tree is nobody's.                           *)
LEMMA NodeForNone ==
  ASSUME NEW t, TreeSound(t), NEW s \in Step, t.latest[s] = 0
  PROVE  L!NodeFor(t, s) = 0
<1>1. s # L!None
  BY NodesAssumption
<1>2. t.current # 0 => t.current \in 1..Len(t.nodes)
  <2>1. t.current \in Nat /\ Len(t.nodes) \in Nat
    BY SoundLength DEF TreeSound, TreeKind
  <2> QED BY <2>1 DEF TreeSound, Pointers
<1>3. \A i \in 1..Len(t.nodes) : t.nodes[i].step # s
  BY DEF TreeSound, Reached
<1> QED BY <1>1, <1>2, <1>3 DEF L!NodeFor

(* A call that writes a file.                                                   *)
LEMMA CallTells ==
  ASSUME NEW l, NEW t, t = L!Tree(l), TreeSound(t), TreeTells(l, t), NEW s \in Step, NEW c \in Call, NEW e, NEW u,
         e = L!Event("tool-call", s, c), u = L!Apply(t, e), \A i \in At(l, "tool-call") : l[i].arg # c
  PROVE  e \in EventKind /\ TreeSound(u) /\ TreeTells(Append(l, e), u)
<1>1. e.type = "tool-call" /\ e.step = s /\ e.arg = c /\ e \in EventKind
  BY DEF L!Event, EventKind, L!Relevant
<1>2. PICK n : n = L!NodeFor(t, s)
  OBVIOUS
<1>3. n \in 0..Len(t.nodes) /\ u = L!Write(t, n, c)
  BY <1>2, NodeForIn, ApplyIs
<1>4. /\ TreeSound(u) /\ SameAttempts(t, u) /\ SameAnswers(t, u) /\ u.cost = t.cost /\ u.current = t.current
      /\ \A i \in 1..Len(t.nodes) : u.nodes[i].files = t.nodes[i].files
      /\ \A x \in Call : u.writing[x] = IF x = c /\ n # 0 THEN n ELSE t.writing[x]
  BY <1>3, WriteKeeps
<1>5. l \in Seq(EventKind) /\ LogKind(l)
  BY DEF TreeTells, LogKind
<1>6. LogKind(Append(l, e))
  BY <1>1, <1>5, KindStays
<1>7. CostsTold(Append(l, e), u)
  BY <1>1, <1>4, <1>5, CostsStay DEF TreeTells
<1>8. StartsTold(Append(l, e), u)
  BY <1>1, <1>4, <1>5, StartsStay DEF TreeTells
<1>9. AsksTold(Append(l, e), u)
  <2>1. u.asking = t.asking /\ \A x \in Step : t.truncated /\ t.latest[x] = 0 => u.truncated /\ u.latest[x] = 0
    BY <1>4 DEF SameAttempts, SameAnswers
  <2>2. AsksTold(l, t) /\ e.type # "request" /\ e.type # "resolved"
    BY <1>1 DEF TreeTells
  <2> QED BY ONLY <1>1, <1>5, <2>1, <2>2, AsksStay
<1>10. FilesTold(Append(l, e), u)
  <2>1. Len(u.nodes) = Len(t.nodes) /\ FilesTold(l, t) /\ e.type # "tool-result"
    BY <1>1, <1>4 DEF SameAttempts, TreeTells
  <2> QED BY ONLY <1>1, <1>4, <1>5, <2>1, FilesStand
<1>11. L!NodeFor(u, s) = n
  <2>1. t.current # 0 => t.current \in 1..Len(t.nodes)
    <3>1. t.current \in Nat /\ Len(t.nodes) \in Nat
      BY SoundLength DEF TreeSound, TreeKind
    <3> QED BY <3>1 DEF TreeSound, Pointers
  <2>2. t.current # 0 => u.nodes[t.current].step = t.nodes[t.current].step
    BY <1>4, <2>1 DEF SameAttempts
  <2>3. u.latest = t.latest /\ u.current = t.current
    BY <1>4 DEF SameAttempts
  <2> QED BY <1>2, <2>2, <2>3 DEF L!NodeFor
<1>12. WritesTold(Append(l, e), u)
  <2>1. PICK k, m : k = Append(l, e) /\ m = Len(l) + 1
    OBVIOUS
  <2>2. PICK A, R : A = At(l, "tool-call") /\ R = Returned(l)
    OBVIOUS
  <2>3. At(k, "tool-call") = A \cup {m} /\ Returned(k) = R
    BY <1>1, <1>5, <2>1, <2>2, AtOn DEF Returned
  <2>4. \A i \in A \cup R : i \in 1..Len(l)
    BY <2>2 DEF At, Returned
  <2>5. /\ \A i \in A : k[i] = l[i] /\ Writer(k, i) = Writer(l, i)
        /\ \A i \in R : k[i] = l[i]
        /\ k[m] = e /\ SubSeq(k, 1, m) = k
    BY <1>1, <1>5, <2>1, <2>4, LogOn, PrefixOn
  <2>6. L!Tree(k) = u
    BY <1>1, <1>5, <2>1, TreeOn
  <2>7. Writer(k, m) = n
    BY <1>1, <1>11, <2>5, <2>6 DEF Writer
  <2>8. /\ \A x \in Call : (\A a \in A : l[a].arg # x) => t.writing[x] = 0
        /\ \A a, b \in A : l[a].arg = l[b].arg => a = b
        /\ \A a \in A : /\ Writer(l, a) \in 0..Len(t.nodes)
                        /\ (\A b \in R : l[b].arg # l[a].arg) => t.writing[l[a].arg] = Writer(l, a)
    BY <2>2 DEF TreeTells, WritesTold
  <2>9. (\A a \in A : l[a].arg # c /\ l[a].arg \in Call) /\ t.writing[c] = 0
    <3>1. \A a \in A : l[a].arg # c
      BY <2>2
    <3>2. \A a \in A : l[a].type = "tool-call"
      BY <2>2 DEF At
    <3> QED BY <1>5, <2>4, <2>8, <3>1, <3>2 DEF LogKind
  <2>10. Len(u.nodes) = Len(t.nodes)
    BY <1>4 DEF SameAttempts
  <2>11. \A x \in Call : (\A a \in A \cup {m} : k[a].arg # x) => u.writing[x] = 0
    BY <1>1, <1>4, <2>5, <2>8
  <2>12. \A a, b \in A \cup {m} : k[a].arg = k[b].arg => a = b
    BY <1>1, <2>5, <2>8, <2>9
  <2>13. ASSUME NEW a \in A \cup {m}
         PROVE  /\ Writer(k, a) \in 0..Len(u.nodes)
                /\ (\A b \in R : k[b].arg # k[a].arg) => u.writing[k[a].arg] = Writer(k, a)
    <3>1. CASE a \in A
      BY <1>4, <2>5, <2>8, <2>9, <2>10, <3>1
    <3>2. CASE a = m
      BY <1>1, <1>3, <1>4, <2>5, <2>7, <2>9, <2>10, <3>2
    <3> QED BY <3>1, <3>2
  <2> QED BY <2>1, <2>3, <2>11, <2>12, <2>13 DEF WritesTold
<1> QED BY <1>1, <1>4, <1>6, <1>7, <1>8, <1>9, <1>10, <1>12 DEF TreeTells

(* A write is over, whichever way.                                               *)
LEMMA ReturnTells ==
  ASSUME NEW l, NEW t, TreeSound(t), TreeTells(l, t), NEW s \in Step, NEW c \in Call, NEW e, NEW u,
         e = L!Event("tool-result", s, c) \/ e = L!Event("tool-error", s, c), u = L!Apply(t, e),
         NEW i \in At(l, "tool-call"), l[i] = L!Event("tool-call", s, c), \A j \in Returned(l) : l[j].arg # c
  PROVE  e \in EventKind /\ TreeSound(u) /\ TreeTells(Append(l, e), u)
<1>1. e.type \in {"tool-result", "tool-error"} /\ e.step = s /\ e.arg = c /\ e \in EventKind
  BY DEF L!Event, EventKind, L!Relevant
<1>2. /\ TreeSound(u) /\ SameAttempts(t, u) /\ SameAnswers(t, u) /\ u.cost = t.cost
      /\ \A j \in 1..Len(t.nodes) :
           u.nodes[j].files = IF e.type = "tool-result" /\ j = t.writing[c] THEN t.nodes[j].files \cup {c}
                                                                          ELSE t.nodes[j].files
      /\ \A x \in Call : u.writing[x] = IF x = c THEN 0 ELSE t.writing[x]
  <2>1. CASE e = L!Event("tool-result", s, c)
    <3>1. u = L!Written(t, c) /\ e.type = "tool-result"
      <4>1. u = L!Apply(t, L!Event("tool-result", s, c))
        BY <2>1
      <4>2. u = L!Written(t, c)
        BY ONLY <4>1, ApplyIs
      <4> QED BY <2>1, <4>2 DEF L!Event
    <3>0. TreeSound(t) /\ c \in Call
      OBVIOUS
    <3>2. /\ TreeSound(u) /\ SameAttempts(t, u) /\ SameAnswers(t, u) /\ u.cost = t.cost
          /\ WrittenTo(t, u, c) /\ Settled(t, u, c)
      BY ONLY <3>0, <3>1, WrittenKeeps
    <3> QED BY <3>1, <3>2 DEF WrittenTo, Settled
  <2>2. CASE e = L!Event("tool-error", s, c)
    <3>1. u = L!Failed(t, c) /\ e.type = "tool-error"
      <4>1. u = L!Apply(t, L!Event("tool-error", s, c))
        BY <2>2
      <4>2. u = L!Failed(t, c)
        BY ONLY <4>1, ApplyIs
      <4> QED BY <2>2, <4>2 DEF L!Event
    <3>0. TreeSound(t) /\ c \in Call
      OBVIOUS
    <3>2. /\ TreeSound(u) /\ SameAttempts(t, u) /\ SameAnswers(t, u) /\ u.cost = t.cost
          /\ (\A j \in 1..Len(t.nodes) : u.nodes[j].files = t.nodes[j].files) /\ Settled(t, u, c)
      BY ONLY <3>0, <3>1, FailedKeeps
    <3> QED BY <3>1, <3>2 DEF Settled
  <2> QED BY <2>1, <2>2
<1>5. l \in Seq(EventKind) /\ LogKind(l)
  BY DEF TreeTells, LogKind
<1>6. LogKind(Append(l, e))
  BY <1>1, <1>5, KindStays
<1>7. CostsTold(Append(l, e), u)
  BY <1>1, <1>2, <1>5, CostsStay DEF TreeTells
<1>8. StartsTold(Append(l, e), u)
  BY <1>1, <1>2, <1>5, StartsStay DEF TreeTells
<1>9. AsksTold(Append(l, e), u)
  <2>1. u.asking = t.asking /\ \A x \in Step : t.truncated /\ t.latest[x] = 0 => u.truncated /\ u.latest[x] = 0
    BY <1>2 DEF SameAttempts, SameAnswers
  <2>2. AsksTold(l, t) /\ e.type # "request" /\ e.type # "resolved"
    BY <1>1 DEF TreeTells
  <2> QED BY ONLY <1>1, <1>5, <2>1, <2>2, AsksStay
<1>a. PICK A, R : A = At(l, "tool-call") /\ R = Returned(l)
  OBVIOUS
<1>b. /\ \A x \in Call : (\A a \in A : l[a].arg # x) => t.writing[x] = 0
      /\ \A a, b \in A : l[a].arg = l[b].arg => a = b
      /\ \A a \in A : /\ Writer(l, a) \in 0..Len(t.nodes)
                      /\ (\A b \in R : l[b].arg # l[a].arg) => t.writing[l[a].arg] = Writer(l, a)
  BY <1>a DEF TreeTells, WritesTold
<1>c. i \in A /\ l[i].arg = c /\ l[i].step = s /\ t.writing[c] = Writer(l, i)
  BY <1>a, <1>b DEF L!Event
<1>10. FilesTold(Append(l, e), u)
  <2>1. Len(u.nodes) = Len(t.nodes)
    BY <1>2 DEF SameAttempts
  <2>2. \A j \in 1..Len(t.nodes) : t.nodes[j].files = {x \in Call : Wrote(l, j, x)}
    BY DEF TreeTells, FilesTold
  <2>3. ASSUME NEW j \in 1..Len(t.nodes), NEW x \in Call
        PROVE  Wrote(Append(l, e), j, x) <=> Wrote(l, j, x) \/ (e.type = "tool-result" /\ x = c /\ j = t.writing[c])
    <3>1. Wrote(Append(l, e), j, x) <=>
            \/ Wrote(l, j, x)
            \/ \E a \in 1..Len(l) : /\ l[a].type = "tool-call" /\ l[a].arg = x /\ j = Writer(l, a)
                                    /\ e = L!Event("tool-result", l[a].step, x)
      BY <1>1, <1>5, WroteOn
    <3>2. ASSUME NEW a \in 1..Len(l), l[a].type = "tool-call", l[a].arg = x, j = Writer(l, a),
                 e = L!Event("tool-result", l[a].step, x)
          PROVE  e.type = "tool-result" /\ x = c /\ j = t.writing[c]
      <4>1. e.type = "tool-result" /\ e.arg = x
        BY <3>2 DEF L!Event
      <4>2. a \in A
        BY <1>a, <3>2 DEF At
      <4>3. a = i
        BY <1>1, <1>b, <1>c, <3>2, <4>1, <4>2
      <4> QED BY <1>1, <1>c, <3>2, <4>1, <4>3
    <3>3. ASSUME e.type = "tool-result", x = c, j = t.writing[c]
          PROVE  \E a \in 1..Len(l) : /\ l[a].type = "tool-call" /\ l[a].arg = x /\ j = Writer(l, a)
                                      /\ e = L!Event("tool-result", l[a].step, x)
      <4>1. e = L!Event("tool-result", s, c)
        BY <3>3 DEF L!Event
      <4>2. i \in 1..Len(l) /\ l[i].type = "tool-call"
        BY DEF At
      <4> QED BY <1>c, <3>3, <4>1, <4>2
    <3> QED BY <3>1, <3>2, <3>3
  <2>4. ASSUME NEW j \in 1..Len(t.nodes) PROVE u.nodes[j].files = {x \in Call : Wrote(Append(l, e), j, x)}
    <3>1. {x \in Call : Wrote(Append(l, e), j, x)}
            = {x \in Call : Wrote(l, j, x) \/ (e.type = "tool-result" /\ x = c /\ j = t.writing[c])}
      BY <2>3
    <3>2. CASE e.type = "tool-result" /\ j = t.writing[c]
      <4>1. {x \in Call : Wrote(Append(l, e), j, x)} = {x \in Call : Wrote(l, j, x)} \cup {c}
        BY <3>1, <3>2
      <4> QED BY <1>2, <2>2, <3>2, <4>1
    <3>3. CASE ~(e.type = "tool-result" /\ j = t.writing[c])
      <4>1. {x \in Call : Wrote(Append(l, e), j, x)} = {x \in Call : Wrote(l, j, x)}
        BY <3>1, <3>3
      <4> QED BY <1>2, <2>2, <3>3, <4>1
    <3> QED BY <3>2, <3>3
  <2> QED BY <2>1, <2>4 DEF FilesTold
<1>12. WritesTold(Append(l, e), u)
  <2>1. PICK k, m : k = Append(l, e) /\ m = Len(l) + 1
    OBVIOUS
  <2>3. At(k, "tool-call") = A /\ Returned(k) = R \cup {m}
    BY <1>1, <1>5, <1>a, <2>1, AtOn DEF Returned
  <2>4. \A a \in A \cup R : a \in 1..Len(l)
    BY <1>a DEF At, Returned
  <2>5. /\ \A a \in A : k[a] = l[a] /\ Writer(k, a) = Writer(l, a)
        /\ \A a \in R : k[a] = l[a]
        /\ k[m] = e
    BY <1>1, <1>5, <2>1, <2>4, LogOn, PrefixOn
  <2>6. Len(u.nodes) = Len(t.nodes)
    BY <1>2 DEF SameAttempts
  <2>7. \A a \in A : l[a].arg \in Call
    <3>1. \A a \in A : l[a].type = "tool-call"
      BY <1>a DEF At
    <3> QED BY <1>5, <2>4, <3>1 DEF LogKind
  <2>11. \A x \in Call : (\A a \in A : k[a].arg # x) => u.writing[x] = 0
    BY <1>2, <1>b, <2>5
  <2>12. \A a, b \in A : k[a].arg = k[b].arg => a = b
    BY <1>b, <2>5
  <2>13. ASSUME NEW a \in A
         PROVE  /\ Writer(k, a) \in 0..Len(u.nodes)
                /\ (\A b \in R \cup {m} : k[b].arg # k[a].arg) => u.writing[k[a].arg] = Writer(k, a)
    <3>1. CASE l[a].arg = c
      BY <1>1, <1>b, <2>5, <2>6, <3>1
    <3>2. CASE l[a].arg # c
      BY <1>2, <1>b, <2>5, <2>6, <2>7, <3>2
    <3> QED BY <3>1, <3>2
  <2> QED BY <2>1, <2>3, <2>11, <2>12, <2>13 DEF WritesTold
<1> QED BY <1>1, <1>2, <1>6, <1>7, <1>8, <1>9, <1>10, <1>12 DEF TreeTells

(* A prompt is asked.                                                           *)
LEMMA AskTells ==
  ASSUME NEW l, NEW t, TreeSound(t), TreeTells(l, t), NEW s \in Step, NEW c \in Call, NEW e, NEW u,
         e = L!Event("request", s, c), u = L!Apply(t, e), \A i \in At(l, "request") : l[i].arg # c,
         \E i \in At(l, "phase-start") : l[i].step = s
  PROVE  e \in EventKind /\ TreeSound(u) /\ TreeTells(Append(l, e), u)
<1>1. e.type = "request" /\ e.step = s /\ e.arg = c /\ e \in EventKind
  BY DEF L!Event, EventKind, L!Relevant
<1>2. PICK n : n = L!NodeFor(t, s)
  OBVIOUS
<1>3. n \in 0..Len(t.nodes) /\ u = L!Ask(t, n, c)
  BY <1>2, NodeForIn, ApplyIs
<1>a. /\ \A x \in Call : t.asking[x] # 0 => \E a \in At(l, "request") : l[a].arg = x
      /\ \A a \in At(l, "request") :
           (\A b \in At(l, "resolved") : l[b].arg # l[a].arg) =>
             t.asking[l[a].arg] # 0 \/ (t.latest[l[a].step] = 0 /\ t.truncated)
  BY DEF TreeTells, AsksTold
<1>b. t.asking[c] = 0
  BY <1>a
<1>4. /\ TreeSound(u) /\ SameAttempts(t, u) /\ SameFiles(t, u) /\ u.cost = t.cost
      /\ \A x \in Call : u.asking[x] = IF x = c THEN n ELSE t.asking[x]
  BY <1>3, <1>b, AskKeepsTree
<1>5. l \in Seq(EventKind) /\ LogKind(l)
  BY DEF TreeTells, LogKind
<1>6. LogKind(Append(l, e))
  BY <1>1, <1>5, KindStays
<1>7. CostsTold(Append(l, e), u)
  BY <1>1, <1>4, <1>5, CostsStay DEF TreeTells
<1>8. StartsTold(Append(l, e), u)
  BY <1>1, <1>4, <1>5, StartsStay DEF TreeTells
<1>9. WritesTold(Append(l, e), u)
  <2>1. u.writing = t.writing /\ Len(u.nodes) = Len(t.nodes) /\ WritesTold(l, t)
    BY <1>4 DEF SameAttempts, SameFiles, TreeTells
  <2>2. Len(t.nodes) \in Nat
    BY SoundLength
  <2>3. Len(u.nodes) \in Nat /\ Len(u.nodes) >= Len(t.nodes)
    BY <2>1, <2>2
  <2>4. e.type # "tool-call" /\ e.type # "tool-result" /\ e.type # "tool-error"
    BY <1>1
  <2> QED BY ONLY <1>1, <1>5, <2>1, <2>2, <2>3, <2>4, WritesStay
<1>10. FilesTold(Append(l, e), u)
  <2>1. /\ Len(u.nodes) = Len(t.nodes) /\ FilesTold(l, t) /\ e.type # "tool-result"
        /\ \A i \in 1..Len(t.nodes) : u.nodes[i].files = t.nodes[i].files
    BY <1>1, <1>4 DEF SameAttempts, SameFiles, TreeTells
  <2> QED BY ONLY <1>1, <1>5, <2>1, FilesStand
<1>11. AsksTold(Append(l, e), u)
  <2>1. PICK k, m : k = Append(l, e) /\ m = Len(l) + 1
    OBVIOUS
  <2>2. PICK Q, R : Q = At(l, "request") /\ R = At(l, "resolved")
    OBVIOUS
  <2>3. At(k, "request") = Q \cup {m} /\ At(k, "resolved") = R
    BY <1>1, <1>5, <2>1, <2>2, AtOn
  <2>4. \A i \in Q \cup R : i \in 1..Len(l)
    BY <2>2 DEF At
  <2>5. (\A i \in Q \cup R : k[i] = l[i]) /\ k[m] = e
    BY <1>1, <1>5, <2>1, <2>4, LogOn
  <2>6. \A i \in Q : l[i].arg \in Call /\ l[i].arg # c
    <3>1. \A i \in Q : l[i].type = "request" /\ l[i].arg # c
      BY <2>2 DEF At
    <3> QED BY <1>5, <2>4, <3>1 DEF LogKind
  <2>7. u.latest = t.latest /\ u.truncated = t.truncated
    BY <1>4 DEF SameAttempts
  <2>8. n = 0 => t.latest[s] = 0 /\ t.truncated
    <3>1. n = 0 => t.latest[s] = 0
      BY <1>2, NodeForIn, NodesAssumption
    <3>2. t.latest[s] # 0 \/ t.truncated
      BY DEF TreeTells, StartsTold
    <3> QED BY <3>1, <3>2
  <2>9. ASSUME NEW x \in Call, u.asking[x] # 0 PROVE \E a \in Q \cup {m} : k[a].arg = x
    BY <1>1, <1>4, <1>a, <2>2, <2>5, <2>9
  <2>10. ASSUME NEW a \in Q \cup {m}, \A b \in R : k[b].arg # k[a].arg
         PROVE  u.asking[k[a].arg] # 0 \/ (u.latest[k[a].step] = 0 /\ u.truncated)
    <3>1. CASE a \in Q
      BY <1>4, <1>a, <2>2, <2>5, <2>6, <2>7, <2>10, <3>1
    <3>2. CASE a = m
      BY <1>1, <1>4, <2>5, <2>7, <2>8, <3>2
    <3> QED BY <3>1, <3>2
  <2>11. AsksTold(k, u)
    <3>1. \A x \in Call : u.asking[x] # 0 => \E a \in At(k, "request") : k[a].arg = x
      BY <2>3, <2>9
    <3>2. \A a \in At(k, "request") :
            (\A b \in At(k, "resolved") : k[b].arg # k[a].arg) =>
              u.asking[k[a].arg] # 0 \/ (u.latest[k[a].step] = 0 /\ u.truncated)
      BY <2>3, <2>10
    <3> QED BY <3>1, <3>2 DEF AsksTold
  <2> QED BY <2>1, <2>11
<1> QED BY <1>1, <1>4, <1>6, <1>7, <1>8, <1>9, <1>10, <1>11 DEF TreeTells

(* A prompt is answered, once.                                                  *)
LEMMA AnswerTells ==
  ASSUME NEW l, NEW t, TreeSound(t), TreeTells(l, t), NEW s \in Step, NEW c \in Call, NEW e, NEW u,
         e = L!Event("resolved", s, c), u = L!Apply(t, e), NEW i \in At(l, "request"),
         l[i] = L!Event("request", s, c), \A j \in At(l, "resolved") : l[j].arg # c
  PROVE  e \in EventKind /\ TreeSound(u) /\ TreeTells(Append(l, e), u)
<1>1. e.type = "resolved" /\ e.step = s /\ e.arg = c /\ e \in EventKind
  BY DEF L!Event, EventKind, L!Relevant
<1>2. PICK n : n = L!NodeFor(t, s)
  OBVIOUS
<1>3. u = L!Answer(t, n, c)
  BY <1>2, ApplyIs
<1>a. /\ \A x \in Call : t.asking[x] # 0 => \E a \in At(l, "request") : l[a].arg = x
      /\ \A a \in At(l, "request") :
           (\A b \in At(l, "resolved") : l[b].arg # l[a].arg) =>
             t.asking[l[a].arg] # 0 \/ (t.latest[l[a].step] = 0 /\ t.truncated)
  BY DEF TreeTells, AsksTold
<1>b. t.asking[c] # 0 \/ n = 0
  <2>1. l[i].arg = c /\ l[i].step = s
    BY DEF L!Event
  <2>2. t.asking[c] # 0 \/ t.latest[s] = 0
    BY <1>a, <2>1
  <2> QED BY <1>2, <2>2, NodeForNone
<1>4. /\ TreeSound(u) /\ SameAttempts(t, u) /\ SameFiles(t, u) /\ u.cost = t.cost
      /\ \A x \in Call : u.asking[x] = IF x = c THEN 0 ELSE t.asking[x]
  BY <1>3, <1>b, AnswerKeepsTree
<1>5. l \in Seq(EventKind) /\ LogKind(l)
  BY DEF TreeTells, LogKind
<1>6. LogKind(Append(l, e))
  BY <1>1, <1>5, KindStays
<1>7. CostsTold(Append(l, e), u)
  BY <1>1, <1>4, <1>5, CostsStay DEF TreeTells
<1>8. StartsTold(Append(l, e), u)
  BY <1>1, <1>4, <1>5, StartsStay DEF TreeTells
<1>9. WritesTold(Append(l, e), u)
  <2>1. u.writing = t.writing /\ Len(u.nodes) = Len(t.nodes) /\ WritesTold(l, t)
    BY <1>4 DEF SameAttempts, SameFiles, TreeTells
  <2>2. Len(t.nodes) \in Nat
    BY SoundLength
  <2>3. Len(u.nodes) \in Nat /\ Len(u.nodes) >= Len(t.nodes)
    BY <2>1, <2>2
  <2>4. e.type # "tool-call" /\ e.type # "tool-result" /\ e.type # "tool-error"
    BY <1>1
  <2> QED BY ONLY <1>1, <1>5, <2>1, <2>2, <2>3, <2>4, WritesStay
<1>10. FilesTold(Append(l, e), u)
  <2>1. /\ Len(u.nodes) = Len(t.nodes) /\ FilesTold(l, t) /\ e.type # "tool-result"
        /\ \A j \in 1..Len(t.nodes) : u.nodes[j].files = t.nodes[j].files
    BY <1>1, <1>4 DEF SameAttempts, SameFiles, TreeTells
  <2> QED BY ONLY <1>1, <1>5, <2>1, FilesStand
<1>11. AsksTold(Append(l, e), u)
  <2>1. PICK k, m : k = Append(l, e) /\ m = Len(l) + 1
    OBVIOUS
  <2>2. PICK Q, R : Q = At(l, "request") /\ R = At(l, "resolved")
    OBVIOUS
  <2>3. At(k, "request") = Q /\ At(k, "resolved") = R \cup {m}
    BY <1>1, <1>5, <2>1, <2>2, AtOn
  <2>4. \A j \in Q \cup R : j \in 1..Len(l)
    BY <2>2 DEF At
  <2>5. (\A j \in Q \cup R : k[j] = l[j]) /\ k[m] = e
    BY <1>1, <1>5, <2>1, <2>4, LogOn
  <2>6. \A j \in Q : l[j].arg \in Call
    <3>1. \A j \in Q : l[j].type = "request"
      BY <2>2 DEF At
    <3> QED BY <1>5, <2>4, <3>1 DEF LogKind
  <2>7. u.latest = t.latest /\ u.truncated = t.truncated
    BY <1>4 DEF SameAttempts
  <2>9. ASSUME NEW x \in Call, u.asking[x] # 0 PROVE \E a \in Q : k[a].arg = x
    BY <1>4, <1>a, <2>2, <2>5, <2>9
  <2>10. ASSUME NEW a \in Q, \A b \in R \cup {m} : k[b].arg # k[a].arg
         PROVE  u.asking[k[a].arg] # 0 \/ (u.latest[k[a].step] = 0 /\ u.truncated)
    <3>1. l[a].arg # c
      BY <1>1, <2>5, <2>10
    <3>2. \A b \in R : l[b].arg # l[a].arg
      BY <2>5, <2>10
    <3> QED BY <1>4, <1>a, <2>2, <2>5, <2>6, <2>7, <3>1, <3>2
  <2>11. AsksTold(k, u)
    <3>1. \A x \in Call : u.asking[x] # 0 => \E a \in At(k, "request") : k[a].arg = x
      BY <2>3, <2>9
    <3>2. \A a \in At(k, "request") :
            (\A b \in At(k, "resolved") : k[b].arg # k[a].arg) =>
              u.asking[k[a].arg] # 0 \/ (u.latest[k[a].step] = 0 /\ u.truncated)
      BY <2>3, <2>10
    <3> QED BY <3>1, <3>2 DEF AsksTold
  <2> QED BY <2>1, <2>11
<1> QED BY <1>1, <1>4, <1>6, <1>7, <1>8, <1>9, <1>10, <1>11 DEF TreeTells

-----------------------------------------------------------------------------
\* What was published was the tree of what the log then held, while the tracker had room.
Live(l) ==
  /\ \A p \in published : /\ p.upto \in 1..Len(l)
                          /\ p.upto > MaxTracked \/ p.tree = L!Tree(SubSeq(l, 1, p.upto))
  /\ At(l, "run-end") = {} /\ Len(l) <= MaxTracked => tracked = l

TreeInv == TreeSound(L!Tree(log)) /\ TreeTells(log, L!Tree(log)) /\ Live(log)

(* The tree of no events is sound, and tells of them.                          *)
LEMMA EmptySound == TreeSound(L!Empty) /\ TreeTells(<<>>, L!Empty)
<1>1. PICK t : t = L!Empty
  OBVIOUS
<1>2. /\ t.nodes = <<>> /\ t.current = 0 /\ t.ended = 0 /\ t.from = 0 /\ t.cost = 0 /\ t.loose = 0 /\ t.asked = 0
      /\ t.calls = 0 /\ t.latest = [s \in Step |-> 0] /\ t.writing = [c \in Call |-> 0]
      /\ t.asking = [c \in Call |-> 0] /\ t.truncated = FALSE
  BY <1>1 DEF L!Empty
<1>3. t \in TreeKind
  <2>a. PICK n \in Seq(AttemptKind) : n = <<>>
    <3>1. <<>> \in Seq(AttemptKind)
      OBVIOUS
    <3> QED BY <3>1
  <2>b. PICK z \in Nat : z = 0
    OBVIOUS
  <2>c. PICK y \in Step \cup {L!None} : y = L!None
    OBVIOUS
  <2>d. PICK g \in [Step -> Nat] : g = [s \in Step |-> 0]
    OBVIOUS
  <2>e. PICK w \in [Call -> Nat] : w = [c \in Call |-> 0]
    OBVIOUS
  <2>2. t = [nodes |-> n, current |-> z, ended |-> z, from |-> z, target |-> y, latest |-> g, writing |-> w,
             asking |-> w, cost |-> z, loose |-> z, asked |-> z, calls |-> z, repairs |-> z,
             done |-> FALSE, truncated |-> FALSE]
    BY <1>1, <2>a, <2>b, <2>c, <2>d, <2>e DEF L!Empty
  <2> QED BY <2>2 DEF TreeKind
<1>4. Len(t.nodes) = 0 /\ \A i \in 1..Len(t.nodes) : FALSE
  BY <1>2
<1>5. Pointers(t) /\ Handed(t) /\ AnswersFit(t)
  BY <1>2, <1>4 DEF Pointers, Handed, AnswersFit
<1>6. Reached(t)
  BY <1>2, <1>4 DEF Reached
<1>7. Totals(t)
  <2>1. L!Spent(t.nodes) = <<>> /\ L!Called(t.nodes) = <<>> /\ L!Asked(t.nodes) = <<>>
    BY <1>2 DEF L!Spent, L!Called, L!Asked
  <2>2. L!Sum(<<>>) = 0
    <3>1. <<>> \in Seq(Nat) /\ \A i \in 1..Len(<<>>) : <<>>[i] = 0
      OBVIOUS
    <3> QED BY <3>1, SumZero
  <2> QED BY <1>2, <2>1, <2>2 DEF Totals
<1>8. TreeSound(t)
  BY <1>3, <1>5, <1>6, <1>7 DEF TreeSound
<1>9. TreeTells(<<>>, t)
  <2>1. Len(<<>>) = 0 /\ <<>> \in Seq(EventKind) /\ \A i \in 1..Len(<<>>) : FALSE
    OBVIOUS
  <2>2. \A ty : At(<<>>, ty) = {}
    BY <2>1 DEF At
  <2>3. LogKind(<<>>)
    BY <2>1 DEF LogKind
  <2>4. CostsTold(<<>>, t)
    BY <1>2, <2>2, FS_EmptySet DEF CostsTold
  <2>5. StartsTold(<<>>, t) /\ AsksTold(<<>>, t) /\ WritesTold(<<>>, t)
    BY <1>2, <1>4, <2>2 DEF StartsTold, AsksTold, WritesTold
  <2>6. FilesTold(<<>>, t)
    BY <1>4 DEF FilesTold
  <2> QED BY <2>3, <2>4, <2>5, <2>6 DEF TreeTells
<1> QED BY <1>1, <1>8, <1>9

(* It holds before the first event.                                            *)
LEMMA TreeInit == L!Init => TreeInv
<1> SUFFICES ASSUME L!Init PROVE TreeInv
  OBVIOUS
<1>1. log = <<>> /\ tracked = <<>> /\ published = {}
  BY DEF L!Init
<1>2. TreeSound(L!Tree(log)) /\ TreeTells(log, L!Tree(log))
  BY <1>1, EmptySound, TreeOfNone
<1> QED BY <1>1, <1>2 DEF TreeInv, Live

(* The tracker hears an event: it keeps what the store keeps while it has room.   *)
LEMMA EventTells ==
  ASSUME TreeInv, NEW e \in EventKind, L!Emit(e), NEW u, u = L!Apply(L!Tree(log), e),
         TreeSound(u), TreeTells(Append(log, e), u), e.type \in L!PublishOn => At(log, "run-end") = {}
  PROVE  TreeInv'
<1>1. /\ log \in Seq(EventKind) /\ MaxTracked \in Nat
  BY NodesAssumption DEF TreeInv, TreeTells, LogKind
<1>2. PICK k : k = Append(log, e)
  OBVIOUS
<1>3. L!Tree(k) = u
  BY <1>1, <1>2, TreeOn
<1>4. /\ k \in Seq(EventKind) /\ Len(k) = Len(log) + 1 /\ Len(log) \in Nat
      /\ \A i \in 1..Len(log) : SubSeq(k, 1, i) = SubSeq(log, 1, i)
      /\ SubSeq(k, 1, Len(k)) = k
  BY <1>1, <1>2, LogOn, PrefixOn
<1>5. PICK kept : kept = IF L!Heard(e) /\ Len(tracked) < MaxTracked THEN Append(tracked, e) ELSE tracked
  OBVIOUS
<1>6. /\ log' = k /\ tracked' = IF e.type = "run-end" THEN <<>> ELSE kept
      /\ published' = IF e.type \in L!PublishOn THEN {[tree |-> L!Tree(kept), upto |-> Len(log) + 1]} ELSE published
  BY <1>2, <1>5 DEF L!Emit
<1>7. At(k, "run-end") = {} => At(log, "run-end") = {} /\ e.type # "run-end"
  BY <1>1, <1>2, AtOn
<1>8. At(log, "run-end") = {} /\ Len(k) <= MaxTracked => kept = k
  <2> SUFFICES ASSUME At(log, "run-end") = {}, Len(k) <= MaxTracked PROVE kept = k
    OBVIOUS
  <2>1. Len(log) < MaxTracked /\ tracked = log
    BY <1>1, <1>4 DEF TreeInv, Live
  <2>2. L!Heard(e)
    BY DEF L!Heard, EventKind
  <2> QED BY <1>2, <1>5, <2>1, <2>2
<1>9. ASSUME At(k, "run-end") = {}, Len(k) <= MaxTracked PROVE tracked' = k
  BY <1>6, <1>7, <1>8, <1>9
<1>10. ASSUME NEW p \in published'
       PROVE  /\ p.upto \in 1..Len(k)
              /\ p.upto > MaxTracked \/ p.tree = L!Tree(SubSeq(k, 1, p.upto))
  <2>1. CASE e.type \in L!PublishOn
    <3>1. p.tree = L!Tree(kept) /\ p.upto = Len(k)
      BY <1>4, <1>6, <2>1
    <3>2. Len(k) \in 1..Len(k) /\ (Len(k) > MaxTracked \/ Len(k) <= MaxTracked)
      BY <1>1, <1>4
    <3>3. Len(k) <= MaxTracked => L!Tree(kept) = L!Tree(SubSeq(k, 1, Len(k)))
      BY <1>4, <1>8, <2>1
    <3> QED BY <3>1, <3>2, <3>3
  <2>2. CASE e.type \notin L!PublishOn
    <3>1. p \in published
      BY <1>6, <2>2
    <3>2. /\ p.upto \in 1..Len(log)
          /\ p.upto > MaxTracked \/ p.tree = L!Tree(SubSeq(log, 1, p.upto))
      BY <3>1 DEF TreeInv, Live
    <3>3. p.upto \in 1..Len(k)
      BY <1>4, <3>2
    <3> QED BY <1>4, <3>2, <3>3
  <2> QED BY <2>1, <2>2
<1>11. TreeSound(L!Tree(k)) /\ TreeTells(k, L!Tree(k))
  BY <1>2, <1>3
<1>12. Live(k)'
  BY <1>6, <1>9, <1>10 DEF Live
<1> QED BY <1>6, <1>11, <1>12 DEF TreeInv

-----------------------------------------------------------------------------
(* The run. *)

\* The library's operators are the same in an instance.
LEMMA SameCount == ASSUME NEW S PROVE L!Cardinality(S) = Cardinality(S)
BY DEF L!Cardinality, Cardinality

(* Where the events of a kind are, by either name.                             *)
LEMMA OfIs == \A ty : L!Of(ty) = At(log, ty)
BY DEF L!Of, At

(* How many attempts a step has had.                                            *)
LEMMA AttemptsAre ==
  ASSUME TreeInv, NEW s \in Step
  PROVE  L!Attempts(s) \in Nat /\ (L!Attempts(s) > 0 => \E i \in At(log, "phase-start") : log[i].step = s)
<1>1. PICK A : A = {i \in At(log, "phase-start") : log[i].step = s}
  OBVIOUS
<1>2. L!Attempts(s) = Cardinality(A)
  BY <1>1, OfIs, SameCount DEF L!Attempts
<1>3. Len(log) \in Nat
  BY DEF TreeInv, TreeTells, LogKind
<1>4. A \subseteq 1..Len(log) /\ IsFiniteSet(1..Len(log))
  BY <1>1, <1>3, FS_Interval DEF At
<1>5. IsFiniteSet(A)
  BY <1>4, FS_Subset
<1>6. Cardinality(A) \in Nat /\ (A = {} => Cardinality(A) = 0)
  BY <1>5, FS_CardinalityType, FS_EmptySet
<1>7. L!Attempts(s) > 0 => A # {}
  BY <1>2, <1>6
<1> QED BY <1>1, <1>2, <1>6, <1>7

(* Every step of the tracker keeps the invariant.                              *)
LEMMA TreeNext == TreeInv /\ [L!Next]_(L!vars) => TreeInv'
<1> SUFFICES ASSUME TreeInv, [L!Next]_(L!vars) PROVE TreeInv'
  OBVIOUS
<1>0. PICK t : t = L!Tree(log)
  OBVIOUS
<1>a. TreeSound(t) /\ TreeTells(log, t)
  BY <1>0 DEF TreeInv
<1>b. L!Done <=> At(log, "run-end") # {}
  BY OfIs DEF L!Done
<1>1. ASSUME NEW s \in Step, L!Starts(s) PROVE TreeInv'
  <2>1. PICK a \in Nat : a = L!Attempts(s) + 1
    BY AttemptsAre
  <2>2. PICK e, u : e = L!Event("phase-start", s, a) /\ u = L!Apply(t, e)
    OBVIOUS
  <2>3. L!Emit(e) /\ At(log, "run-end") = {}
    BY <1>1, <1>b, <2>1, <2>2 DEF L!Starts
  <2>4. e \in EventKind /\ TreeSound(u) /\ TreeTells(Append(log, e), u)
    BY <1>a, <2>2, StartTells
  <2> QED BY <1>0, <2>2, <2>3, <2>4, EventTells
<1>2. ASSUME NEW s \in Step, L!EndsStep(s) PROVE TreeInv'
  <2>1. PICK a \in Nat : a = L!Attempts(s)
    BY AttemptsAre
  <2>2. PICK e, u : e = L!Event("phase-end", s, a) /\ u = L!Apply(t, e)
    OBVIOUS
  <2>3. L!Emit(e) /\ At(log, "run-end") = {}
    BY <1>2, <1>b, <2>1, <2>2 DEF L!EndsStep
  <2>4. e \in EventKind /\ TreeSound(u) /\ TreeTells(Append(log, e), u)
    BY <1>a, <2>2, EndTells
  <2> QED BY <1>0, <2>2, <2>3, <2>4, EventTells
<1>3. ASSUME NEW s \in Step, L!Decides(s) PROVE TreeInv'
  <2>1. PICK e : /\ e = L!Event("continue", s, L!None) \/ \E x \in Step : e = L!Event("repair", s, x)
                 /\ L!Emit(e)
    BY <1>3 DEF L!Decides
  <2>2. PICK u : u = L!Apply(t, e)
    OBVIOUS
  <2>3. At(log, "run-end") = {}
    BY <1>3, <1>b DEF L!Decides
  <2>4. e \in EventKind /\ TreeSound(u) /\ TreeTells(Append(log, e), u)
    BY <1>a, <2>1, <2>2, DecisionTells
  <2> QED BY <1>0, <2>1, <2>2, <2>3, <2>4, EventTells
<1>4. ASSUME NEW s \in Step, NEW c \in Call, L!CallsTool(s, c) PROVE TreeInv'
  <2>2. PICK e, u : e = L!Event("tool-call", s, c) /\ u = L!Apply(t, e)
    OBVIOUS
  <2>3. L!Emit(e) /\ \A i \in At(log, "tool-call") : log[i].arg # c
    BY <1>4, <2>2, OfIs DEF L!CallsTool
  <2>4. e \in EventKind /\ TreeSound(u) /\ TreeTells(Append(log, e), u)
    BY <1>0, <1>a, <2>2, <2>3, CallTells
  <2>5. e.type \notin L!PublishOn
    BY <2>2 DEF L!Event, L!PublishOn
  <2> QED BY <1>0, <2>2, <2>3, <2>4, <2>5, EventTells
<1>5. ASSUME NEW s \in Step, NEW c \in Call, L!Returns(s, c) PROVE TreeInv'
  <2>1. PICK e : (e = L!Event("tool-result", s, c) \/ e = L!Event("tool-error", s, c)) /\ L!Emit(e)
    BY <1>5 DEF L!Returns
  <2>2. PICK u : u = L!Apply(t, e)
    OBVIOUS
  <2>3. PICK i \in At(log, "tool-call") : log[i] = L!Event("tool-call", s, c)
    BY <1>5, OfIs DEF L!Returns
  <2>4. \A j \in Returned(log) : log[j].arg # c
    BY <1>5, OfIs DEF L!Returns, Returned
  <2>5. e \in EventKind /\ TreeSound(u) /\ TreeTells(Append(log, e), u)
    BY <1>a, <2>1, <2>2, <2>3, <2>4, ReturnTells
  <2>6. e.type \notin L!PublishOn
    BY <2>1 DEF L!Event, L!PublishOn
  <2> QED BY <1>0, <2>1, <2>2, <2>5, <2>6, EventTells
<1>6. ASSUME NEW s \in Step, NEW c \in Call, L!Asks(s, c) PROVE TreeInv'
  <2>2. PICK e, u : e = L!Event("request", s, c) /\ u = L!Apply(t, e)
    OBVIOUS
  <2>3. L!Emit(e) /\ \A i \in At(log, "request") : log[i].arg # c
    BY <1>6, <2>2, OfIs DEF L!Asks
  <2>4. \E i \in At(log, "phase-start") : log[i].step = s
    BY <1>6, AttemptsAre DEF L!Asks
  <2>5. e \in EventKind /\ TreeSound(u) /\ TreeTells(Append(log, e), u)
    BY <1>a, <2>2, <2>3, <2>4, AskTells
  <2>6. e.type \notin L!PublishOn
    BY <2>2 DEF L!Event, L!PublishOn
  <2> QED BY <1>0, <2>2, <2>3, <2>5, <2>6, EventTells
<1>7. ASSUME NEW s \in Step, NEW c \in Call, L!Answers(s, c) PROVE TreeInv'
  <2>2. PICK e, u : e = L!Event("resolved", s, c) /\ u = L!Apply(t, e)
    OBVIOUS
  <2>3. PICK i \in At(log, "request") : log[i] = L!Event("request", s, c)
    BY <1>7, OfIs DEF L!Answers
  <2>4. L!Emit(e) /\ \A j \in At(log, "resolved") : log[j].arg # c
    BY <1>7, <2>2, OfIs DEF L!Answers
  <2>5. e \in EventKind /\ TreeSound(u) /\ TreeTells(Append(log, e), u)
    BY <1>a, <2>2, <2>3, <2>4, AnswerTells
  <2>6. e.type \notin L!PublishOn
    BY <2>2 DEF L!Event, L!PublishOn
  <2> QED BY <1>0, <2>2, <2>4, <2>5, <2>6, EventTells
<1>8. ASSUME NEW s \in Step \cup {L!None}, L!Costs(s) PROVE TreeInv'
  <2>2. PICK e, u : e = L!Event("usage", s, L!None) /\ u = L!Apply(t, e)
    OBVIOUS
  <2>3. L!Emit(e)
    BY <1>8, <2>2 DEF L!Costs
  <2>5. e \in EventKind /\ TreeSound(u) /\ TreeTells(Append(log, e), u)
    BY <1>a, <2>2, CostTells
  <2>6. e.type \notin L!PublishOn
    BY <2>2 DEF L!Event, L!PublishOn
  <2> QED BY <1>0, <2>2, <2>3, <2>5, <2>6, EventTells
<1>9. ASSUME L!EndsRun PROVE TreeInv'
  <2>2. PICK e, u : e = L!Event("run-end", L!None, L!None) /\ u = L!Apply(t, e)
    OBVIOUS
  <2>3. L!Emit(e) /\ At(log, "run-end") = {}
    BY <1>9, <1>b, <2>2 DEF L!EndsRun
  <2>5. e \in EventKind /\ TreeSound(u) /\ TreeTells(Append(log, e), u)
    BY <1>a, <2>2, OverTells
  <2> QED BY <1>0, <2>2, <2>3, <2>5, EventTells
<1>10. CASE UNCHANGED L!vars
  <2>1. log' = log /\ tracked' = tracked /\ published' = published
    BY <1>10 DEF L!vars
  <2>2. TreeSound(L!Tree(log)) /\ TreeTells(log, L!Tree(log)) /\ Live(log)
    BY DEF TreeInv
  <2>3. Live(log)'
    BY <2>1, <2>2 DEF Live
  <2> QED BY <2>1, <2>2, <2>3 DEF TreeInv
<1> QED BY <1>1, <1>2, <1>3, <1>4, <1>5, <1>6, <1>7, <1>8, <1>9, <1>10 DEF L!Next

(* The tracker's part of a behaviour is a behaviour of the tracker.            *)
LEMMA TreeAlone == Spec => L!Init /\ [][L!Next]_(L!vars)
<1>1. Init => L!Init
  BY DEF Init
<1>2. [Next]_<<world, bus, page, tree, prompts, reels>> => [L!Next]_(L!vars)
  BY DEF Next, tree, L!vars
<1> QED BY <1>1, <1>2, PTL DEF Spec

(* What the invariant says of the tree shown and of the table.                 *)
LEMMA TreeMeans == TreeInv => L!LiveIsRebuilt /\ L!TreeAddsUp
<1> SUFFICES ASSUME TreeInv PROVE L!LiveIsRebuilt /\ L!TreeAddsUp
  OBVIOUS
<1>0. PICK t, n : t = L!Tree(log) /\ n = t.nodes
  OBVIOUS
<1>1. TreeSound(t) /\ TreeTells(log, t)
  BY <1>0 DEF TreeInv
<1>2. L!LiveIsRebuilt
  BY DEF TreeInv, Live, L!LiveIsRebuilt
<1>3. /\ n \in Seq(AttemptKind) /\ t.cost = t.loose + L!Sum(L!Spent(n)) /\ t.asked = L!Sum(L!Asked(n))
      /\ t.calls = L!Sum(L!Called(n))
  BY <1>0, <1>1 DEF TreeSound, TreeKind, Totals
<1>4. \A i \in 1..Len(n) : \E a \in L!Of("phase-start") : log[a].step = n[i].step
  BY <1>0, <1>1, OfIs DEF TreeTells, StartsTold
<1>5. t.truncated \/ \A a \in L!Of("phase-start") : \E i \in 1..Len(n) : n[i].step = log[a].step
  <2> SUFFICES ASSUME ~t.truncated, NEW a \in At(log, "phase-start")
               PROVE  \E i \in 1..Len(n) : n[i].step = log[a].step
    BY OfIs
  <2>1. t.latest[log[a].step] # 0
    BY <1>1 DEF TreeTells, StartsTold
  <2>2. log[a].step \in Step
    BY <1>1 DEF TreeTells, LogKind, At
  <2> QED BY <1>0, <1>1, <2>1, <2>2 DEF TreeSound, Reached
<1>6. L!TableAgrees(t)
  BY <1>0, <1>3, <1>4, <1>5, TableIs
<1>7. t.cost = L!Cardinality(L!Of("usage"))
  BY <1>1, OfIs, SameCount DEF TreeTells, CostsTold
<1>8. ASSUME NEW i \in 1..Len(n) PROVE n[i].answered <= n[i].asked
  <2>1. IsFiniteSet(Waiting(t, i)) /\ n[i].answered + Cardinality(Waiting(t, i)) <= n[i].asked
    BY <1>0, <1>1 DEF TreeSound, AnswersFit
  <2>2. n[i].answered \in Nat /\ n[i].asked \in Nat
    <3>1. n[i] \in AttemptKind
      BY <1>3
    <3> QED BY <3>1 DEF AttemptKind
  <2>3. Cardinality(Waiting(t, i)) \in Nat
    BY <2>1, FS_CardinalityType
  <2> QED BY <2>1, <2>2, <2>3
<1>9. ASSUME NEW i \in 1..Len(n)
      PROVE  n[i].files = {c \in Call : \E a, b \in 1..Len(log) :
               /\ a < b /\ log[a].type = "tool-call" /\ log[a].arg = c
               /\ log[b] = L!Event("tool-result", log[a].step, c)
               /\ i = L!NodeFor(L!Tree(SubSeq(log, 1, a)), log[a].step)}
  BY <1>0, <1>1 DEF TreeTells, FilesTold, Wrote, Writer
<1>10. \A i \in 1..Len(n) : n[i].parent < i /\ (n[i].kind = "root" <=> n[i].parent = 0)
  BY <1>0, <1>1 DEF TreeSound, Handed
<1> QED BY <1>0, <1>2, <1>3, <1>6, <1>7, <1>8, <1>9, <1>10 DEF L!TreeAddsUp

(* For any plan, any calls, any number of attempts and any limits: while the      *)
(* tracker has room, the tree a page is shown is the one the events then stored   *)
(* give; every dollar, prompt and call is one attempt's or said to be nobody's,    *)
(* every answer and file is with the attempt that asked, however late it comes,    *)
(* and the table of agents and the lanes agree (LineageTracker, buildLineage).     *)
THEOREM TreeTellsTheRun == Spec => []TreeHolds
<1>1. TreeInv => TreeHolds
  BY TreeMeans DEF TreeHolds
<1> QED BY <1>1, TreeInit, TreeNext, TreeAlone, PTL
=============================================================================
