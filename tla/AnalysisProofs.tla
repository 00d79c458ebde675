---------------------------- MODULE AnalysisProofs ----------------------------
(***************************************************************************)
(* What the analyses promise for every set of sessions, links, similarities *)
(* and observations: the linker's strengths and its leading assessment, the *)
(* guarded clustering, and the comparison of two cases.                     *)
(***************************************************************************)
EXTENDS GraphClustering, TraceLinker, CaseSimilarity, FiniteSetTheorems, SequenceTheorems, WellFoundedInduction, TLAPS

------------------------------------------------------------------------------
(* The linker: sums over the families *)

LEMMA FamiliesFinite == IsFiniteSet(Families)
<1>1. IsFiniteSet({"source"})
  BY FS_Singleton
<1>2. IsFiniteSet({"source"} \cup {"infrastructure"})
  BY <1>1, FS_AddElement
<1>3. IsFiniteSet({"source"} \cup {"infrastructure"} \cup {"transport"})
  BY <1>2, FS_AddElement
<1>4. IsFiniteSet({"source"} \cup {"infrastructure"} \cup {"transport"} \cup {"tooling"})
  BY <1>3, FS_AddElement
<1>5. IsFiniteSet({"source"} \cup {"infrastructure"} \cup {"transport"} \cup {"tooling"} \cup {"behavior"})
  BY <1>4, FS_AddElement
<1>6. IsFiniteSet({"source"} \cup {"infrastructure"} \cup {"transport"} \cup {"tooling"} \cup {"behavior"}
                    \cup {"deception"})
  BY <1>5, FS_AddElement
<1>7. Families = {"source"} \cup {"infrastructure"} \cup {"transport"} \cup {"tooling"} \cup {"behavior"}
                   \cup {"deception"}
  BY DEF Families
<1> QED
  BY <1>6, <1>7

Term(v, A, f) == IF f \in A THEN v[f] ELSE 0

LEMMA SumOfTerms ==
  ASSUME NEW v, NEW A
  PROVE  SumOver(v, A) = Term(v, A, "source") + Term(v, A, "infrastructure") + Term(v, A, "transport")
                           + Term(v, A, "tooling") + Term(v, A, "behavior") + Term(v, A, "deception")
BY DEF SumOver, Term

\* A sum whose every term grows, grows.
LEMMA SumGrows ==
  ASSUME NEW v, NEW A, NEW w, NEW B,
         \A f \in Families : Term(v, A, f) \in Nat /\ Term(w, B, f) \in Nat /\ Term(v, A, f) <= Term(w, B, f)
  PROVE  SumOver(v, A) \in Nat /\ SumOver(w, B) \in Nat /\ SumOver(v, A) <= SumOver(w, B)
<1>1. \A f \in {"source", "infrastructure", "transport", "tooling", "behavior", "deception"} :
        Term(v, A, f) \in Nat /\ Term(w, B, f) \in Nat /\ Term(v, A, f) <= Term(w, B, f)
  BY DEF Families
<1>2. PICK a1 \in Nat, a2 \in Nat, a3 \in Nat, a4 \in Nat, a5 \in Nat, a6 \in Nat :
        /\ a1 = Term(v, A, "source") /\ a2 = Term(v, A, "infrastructure") /\ a3 = Term(v, A, "transport")
        /\ a4 = Term(v, A, "tooling") /\ a5 = Term(v, A, "behavior") /\ a6 = Term(v, A, "deception")
  BY <1>1
<1>3. PICK b1 \in Nat, b2 \in Nat, b3 \in Nat, b4 \in Nat, b5 \in Nat, b6 \in Nat :
        /\ b1 = Term(w, B, "source") /\ b2 = Term(w, B, "infrastructure") /\ b3 = Term(w, B, "transport")
        /\ b4 = Term(w, B, "tooling") /\ b5 = Term(w, B, "behavior") /\ b6 = Term(w, B, "deception")
  BY <1>1
<1>4. a1 <= b1 /\ a2 <= b2 /\ a3 <= b3 /\ a4 <= b4 /\ a5 <= b5 /\ a6 <= b6
  BY <1>1, <1>2, <1>3
<1>5. SumOver(v, A) = a1 + a2 + a3 + a4 + a5 + a6 /\ SumOver(w, B) = b1 + b2 + b3 + b4 + b5 + b6
  BY <1>2, <1>3, SumOfTerms
<1> QED
  BY <1>4, <1>5

\* One more family adds its term.
LEMMA SumExtends ==
  ASSUME NEW v, NEW A, NEW w, NEW B, NEW f \in Families,
         \A g \in Families : Term(v, A, g) \in Nat /\ Term(w, B, g) \in Nat,
         \A g \in Families \ {f} : Term(w, B, g) = Term(v, A, g),
         Term(v, A, f) = 0
  PROVE  SumOver(w, B) = SumOver(v, A) + Term(w, B, f)
<1>1. \A g \in {"source", "infrastructure", "transport", "tooling", "behavior", "deception"} :
        /\ Term(v, A, g) \in Nat /\ Term(w, B, g) \in Nat
        /\ g # f => Term(w, B, g) = Term(v, A, g)
  BY DEF Families
<1>2. PICK a1 \in Nat, a2 \in Nat, a3 \in Nat, a4 \in Nat, a5 \in Nat, a6 \in Nat :
        /\ a1 = Term(v, A, "source") /\ a2 = Term(v, A, "infrastructure") /\ a3 = Term(v, A, "transport")
        /\ a4 = Term(v, A, "tooling") /\ a5 = Term(v, A, "behavior") /\ a6 = Term(v, A, "deception")
  BY <1>1
<1>3. PICK b1 \in Nat, b2 \in Nat, b3 \in Nat, b4 \in Nat, b5 \in Nat, b6 \in Nat :
        /\ b1 = Term(w, B, "source") /\ b2 = Term(w, B, "infrastructure") /\ b3 = Term(w, B, "transport")
        /\ b4 = Term(w, B, "tooling") /\ b5 = Term(w, B, "behavior") /\ b6 = Term(w, B, "deception")
  BY <1>1
<1>4. SumOver(v, A) = a1 + a2 + a3 + a4 + a5 + a6 /\ SumOver(w, B) = b1 + b2 + b3 + b4 + b5 + b6
  BY <1>2, <1>3, SumOfTerms
<1>5. f \in {"source", "infrastructure", "transport", "tooling", "behavior", "deception"}
  BY DEF Families
<1> QED
  BY <1>1, <1>2, <1>3, <1>4, <1>5

Overlaps == -1 .. 1000
Profiles == [Families -> Overlaps]

\* Shares of one, in ten-thousandths.
Shares == {n \in Nat : n <= 10000}

LEMMA WeightsArePositive == \A f \in Families : Weight[f] \in Nat /\ Weight[f] > 0
  BY DEF Families, Weight

LEMMA Quotients ==
  ASSUME NEW a \in Nat, NEW w \in Nat, w > 0, a <= 10000 * w
  PROVE  (a \div w) \in Shares /\ (a \div w) * w <= a
  BY DEF Shares

LEMMA QuotientTimes ==
  ASSUME NEW a \in Nat, NEW w \in Nat, w > 0, NEW q \in Nat, q = a \div w
  PROVE  q * w <= a
  OBVIOUS

LEMMA QuotientIsLargest ==
  ASSUME NEW a \in Nat, NEW w \in Nat, w > 0, NEW q \in Nat, q * w <= a
  PROVE  q <= a \div w
  OBVIOUS

\* The two sums of raw_score.
WeightOf(s) == SumOver(Weight, Available(s))
MatchOf(s) == SumOver([f \in Families |-> Weight[f] * s[f]], Available(s))

LEMMA SumsOfProfile ==
  ASSUME NEW s \in Profiles
  PROVE  /\ WeightOf(s) \in Nat /\ MatchOf(s) \in Nat
         /\ MatchOf(s) <= 1000 * WeightOf(s)
         /\ Evidence(s) = IF WeightOf(s) = 0 THEN 0 ELSE (10 * MatchOf(s)) \div WeightOf(s)
<1> DEFINE m == [f \in Families |-> Weight[f] * s[f]]
           A == Available(s)
<1>1. \A f \in Families : s[f] \in -1 .. 1000 /\ (f \in A => s[f] \in 0 .. 1000)
  BY DEF Profiles, Overlaps, Available, Unavailable
<1>2. \A f \in Families : Term(Weight, A, f) \in Nat
  BY WeightsArePositive DEF Term
<1>3. \A f \in Families : Term(m, A, f) \in Nat /\ Term(m, A, f) <= 1000 * Term(Weight, A, f)
  <2> TAKE f \in Families
  <2> HIDE DEF A
  <2>1. CASE f \in A
    <3>a. s[f] \in 0 .. 1000
      BY <1>1, <2>1
    <3>b. Weight[f] \in Nat
      BY WeightsArePositive
    <3>1. PICK x : x = s[f]
      OBVIOUS
    <3>2. PICK y : y = Weight[f]
      OBVIOUS
    <3>c. x \in 0 .. 1000
      BY <3>a, <3>1
    <3>d. y \in Nat
      BY <3>b, <3>2
    <3>3. Term(m, A, f) = y * x /\ Term(Weight, A, f) = y
      BY <2>1, <3>1, <3>2 DEF Term
    <3>4. y * x \in Nat /\ y * x <= 1000 * y
      BY <3>c, <3>d
    <3> QED
      BY <3>3, <3>4
  <2>2. CASE f \notin A
    BY <2>2 DEF Term
  <2> QED
    BY <2>1, <2>2
<1>4. WeightOf(s) = SumOver(Weight, A) /\ MatchOf(s) = SumOver(m, A)
  BY DEF WeightOf, MatchOf
<1> HIDE DEF A, m
<1>5. SumOver(Weight, A) \in Nat
  BY <1>2, SumGrows
<1>6. SumOver(m, A) \in Nat /\ SumOver(m, A) <= 1000 * SumOver(Weight, A)
  <2>1. \A f \in {"source", "infrastructure", "transport", "tooling", "behavior", "deception"} :
          Term(Weight, A, f) \in Nat /\ Term(m, A, f) \in Nat /\ Term(m, A, f) <= 1000 * Term(Weight, A, f)
    BY <1>2, <1>3 DEF Families
  <2>2. PICK a1 \in Nat, a2 \in Nat, a3 \in Nat, a4 \in Nat, a5 \in Nat, a6 \in Nat :
          /\ a1 = Term(m, A, "source") /\ a2 = Term(m, A, "infrastructure") /\ a3 = Term(m, A, "transport")
          /\ a4 = Term(m, A, "tooling") /\ a5 = Term(m, A, "behavior") /\ a6 = Term(m, A, "deception")
    <3>1. \A f \in {"source", "infrastructure", "transport", "tooling", "behavior", "deception"} : Term(m, A, f) \in Nat
      BY <2>1
    <3> QED
      BY <3>1
  <2>3. PICK b1 \in Nat, b2 \in Nat, b3 \in Nat, b4 \in Nat, b5 \in Nat, b6 \in Nat :
          /\ b1 = Term(Weight, A, "source") /\ b2 = Term(Weight, A, "infrastructure")
          /\ b3 = Term(Weight, A, "transport") /\ b4 = Term(Weight, A, "tooling")
          /\ b5 = Term(Weight, A, "behavior") /\ b6 = Term(Weight, A, "deception")
    <3>1. \A f \in {"source", "infrastructure", "transport", "tooling", "behavior", "deception"} : Term(Weight, A, f) \in Nat
      BY <2>1
    <3> QED
      BY <3>1
  <2>4. /\ a1 <= 1000 * b1 /\ a2 <= 1000 * b2 /\ a3 <= 1000 * b3 /\ a4 <= 1000 * b4
        /\ a5 <= 1000 * b5 /\ a6 <= 1000 * b6
    BY <2>1, <2>2, <2>3
  <2>5. SumOver(m, A) = a1 + a2 + a3 + a4 + a5 + a6 /\ SumOver(Weight, A) = b1 + b2 + b3 + b4 + b5 + b6
    BY <2>2, <2>3, SumOfTerms
  <2> QED
    BY <2>4, <2>5
<1> QED
  BY <1>4, <1>5, <1>6 DEF WeightOf, MatchOf, Evidence

LEMMA EvidenceIsBounded == ASSUME NEW s \in Profiles PROVE Evidence(s) \in Shares
<1>1. PICK w \in Nat, m \in Nat : w = WeightOf(s) /\ m = MatchOf(s)
  BY SumsOfProfile
<1>2. m <= 1000 * w /\ Evidence(s) = IF w = 0 THEN 0 ELSE (10 * m) \div w
  BY <1>1, SumsOfProfile
<1>3. 10 * m \in Nat /\ 10 * m <= 10000 * w
  BY <1>2
<1>4. CASE w = 0
  BY <1>2, <1>4 DEF Shares
<1>5. CASE w > 0
  <2>1. PICK q : q = (10 * m) \div w
    OBVIOUS
  <2>2. q \in Shares
    BY <1>3, <1>5, <2>1, Quotients
  <2>3. Evidence(s) = q
    BY <1>2, <1>5, <2>1
  <2> QED
    BY <2>2, <2>3
<1> QED
  BY <1>4, <1>5

LEMMA MatchedIsFinite ==
  ASSUME NEW s \in Profiles
  PROVE  IsFiniteSet(Matched(s)) /\ Cardinality(Matched(s)) \in Nat
BY FamiliesFinite, FS_Subset, FS_CardinalityType DEF Matched

LEMMA BonusType == ASSUME NEW s \in Profiles PROVE DiversityBonus(s) \in 0 .. 1000
<1>1. PICK n : n = Cardinality(Matched(s))
  OBVIOUS
<1>2. n \in Nat
  BY <1>1, MatchedIsFinite
<1> QED
  BY <1>1, <1>2 DEF DiversityBonus

Penalty(s) == SumOver([f \in Families |-> Contradiction(f)], Divergent(s))

LEMMA PenaltyType == ASSUME NEW s \in Profiles PROVE Penalty(s) \in Nat
<1> DEFINE c == [f \in Families |-> Contradiction(f)]
<1>1. \A f \in Families : Term(c, Divergent(s), f) \in Nat
  BY DEF Contradiction, Term
<1>2. SumOver(c, Divergent(s)) \in Nat
  <2> HIDE DEF c
  <2> QED
    BY <1>1, SumGrows
<1> QED
  BY <1>2 DEF Penalty

LEMMA BoundedIsAShare == ASSUME NEW x \in Int PROVE Bounded(x) \in Shares
<1>1. CASE x < 0
  <2>1. Bounded(x) = 0
    BY <1>1 DEF Bounded
  <2> QED
    BY <2>1 DEF Shares
<1>2. CASE x >= 0 /\ x > 10000
  <2>1. ~(x < 0)
    BY <1>2
  <2>2. Bounded(x) = 10000
    BY <1>2, <2>1 DEF Bounded
  <2> QED
    BY <2>2 DEF Shares
<1>3. CASE x >= 0 /\ x <= 10000
  <2>1. ~(x < 0) /\ ~(x > 10000)
    BY <1>3
  <2>2. Bounded(x) = x
    BY <2>1 DEF Bounded
  <2>3. x \in Shares
    BY <1>3 DEF Shares
  <2> QED
    BY <2>2, <2>3
<1> QED
  BY <1>1, <1>2, <1>3

LEMMA RawScoreType == ASSUME NEW s \in Profiles PROVE RawScore(s) \in Shares
<1>1. PICK e, b, p : e = Evidence(s) /\ b = DiversityBonus(s) /\ p = Penalty(s)
  OBVIOUS
<1>2. e \in Shares
  BY <1>1, EvidenceIsBounded
<1>3. b \in 0 .. 1000
  BY <1>1, BonusType
<1>4. p \in Nat
  BY <1>1, PenaltyType
<1>5. PICK x : x = e + b - p
  OBVIOUS
<1>6. x \in Int
  BY <1>2, <1>3, <1>4, <1>5 DEF Shares
<1>7. Bounded(x) \in Shares
  BY <1>6, BoundedIsAShare
<1>8. RawScore(s) = Bounded(x)
  BY <1>1, <1>5 DEF RawScore, Penalty
<1> QED
  BY <1>7, <1>8

------------------------------------------------------------------------------
(* The linker: more agreement *)

\* t differs from s in family f only, and says more of it, as
\* AgreementNeverWeakens has it.
Agrees(s, t, f) ==
  /\ \A g \in Families \ {f} : t[g] = s[g]
  /\ t[f] > s[f]
  /\ s[f] # Unavailable \/ t[f] = 1000

\* Full overlap in a family not compared before cannot lower the quotient.
LEMMA Diluted ==
  ASSUME NEW a \in Nat, NEW w \in Nat, NEW v \in Nat, w > 0, a <= 10000 * w
  PROVE  (a \div w) <= (a + 10000 * v) \div (w + v)
<1>1. PICK q : q = a \div w
  OBVIOUS
<1>2. q \in Shares
  BY <1>1, Quotients
<1>3. q * v <= 10000 * v
  BY <1>2 DEF Shares
<1>4. q * (w + v) = q * w + q * v
  BY <1>2 DEF Shares
<1>5. PICK x \in Nat, y \in Nat : x = q * w /\ y = q * v
  BY <1>2 DEF Shares
<1>6. q * (w + v) <= a + 10000 * v
  <2>1. x <= a
    BY <1>1, <1>2, <1>5, QuotientTimes
  <2>2. q * (w + v) = x + y /\ y <= 10000 * v
    BY <1>3, <1>4, <1>5
  <2> QED
    BY <2>1, <2>2
<1>7. q \in Nat
  BY <1>2 DEF Shares
<1>8. a + 10000 * v \in Nat /\ w + v \in Nat /\ w + v > 0
  OBVIOUS
<1> QED
  BY <1>1, <1>6, <1>7, <1>8, QuotientIsLargest

LEMMA QuotientGrows ==
  ASSUME NEW a \in Nat, NEW b \in Nat, NEW w \in Nat, w > 0, a <= b
  PROVE  (a \div w) <= (b \div w)
  OBVIOUS

LEMMA MoreOverlap ==
  ASSUME NEW x \in -1 .. 1000, NEW z \in -1 .. 1000, x < z, x # -1 \/ z = 1000
  PROVE  z \in 0 .. 1000 /\ z # -1 /\ (x # -1 => x \in 0 .. 1000 /\ x <= z) /\ (x = -1 => z = 1000)
  OBVIOUS

LEMMA EvidenceGrows ==
  ASSUME NEW s \in Profiles, NEW t \in Profiles, NEW f \in Families, Agrees(s, t, f)
  PROVE  Evidence(s) <= Evidence(t)
<1> DEFINE m == [g \in Families |-> Weight[g] * s[g]]
           n == [g \in Families |-> Weight[g] * t[g]]
           A == Available(s)
           B == Available(t)
<1>1. \A g \in Families : s[g] \in -1 .. 1000 /\ t[g] \in -1 .. 1000
  BY DEF Profiles, Overlaps
<1>2. /\ A = {g \in Families : s[g] # -1} /\ B = {g \in Families : t[g] # -1}
      /\ MatchOf(s) = SumOver(m, A) /\ MatchOf(t) = SumOver(n, B)
      /\ WeightOf(s) = SumOver(Weight, A) /\ WeightOf(t) = SumOver(Weight, B)
  BY DEF Available, Unavailable, MatchOf, WeightOf
<1>3. \A g \in Families \ {f} : t[g] = s[g] /\ (g \in A <=> g \in B) /\ m[g] = n[g]
  BY <1>2 DEF Agrees
<1>4. f \in B /\ t[f] \in 0 .. 1000 /\ (f \in A => s[f] \in 0 .. 1000 /\ s[f] <= t[f]) /\ (f \notin A => t[f] = 1000)
  <2>1. s[f] \in -1 .. 1000 /\ t[f] \in -1 .. 1000 /\ s[f] < t[f] /\ (s[f] # -1 \/ t[f] = 1000)
    BY <1>1 DEF Agrees, Unavailable
  <2>2. /\ t[f] \in 0 .. 1000 /\ t[f] # -1 /\ (s[f] # -1 => s[f] \in 0 .. 1000 /\ s[f] <= t[f])
        /\ s[f] = -1 => t[f] = 1000
    <3>1. PICK x, z : x = s[f] /\ z = t[f]
      OBVIOUS
    <3>2. x \in -1 .. 1000 /\ z \in -1 .. 1000
      BY <2>1, <3>1
    <3>3. x < z /\ (x # -1 \/ z = 1000)
      BY <2>1, <3>1
    <3> HIDE DEF A, B, m, n
    <3>4. z \in 0 .. 1000 /\ z # -1 /\ (x # -1 => x \in 0 .. 1000 /\ x <= z) /\ (x = -1 => z = 1000)
      <4>1. x < z
        BY <3>3
      <4>2. x # -1 \/ z = 1000
        BY <3>3
      <4> QED
        BY <3>2, <4>1, <4>2
    <3> QED
      BY <3>1, <3>4
  <2>3. (f \in A <=> s[f] # -1) /\ (f \in B <=> t[f] # -1)
    BY <1>2
  <2> HIDE DEF A, B
  <2>4. f \in B /\ t[f] \in 0 .. 1000
    BY <2>2, <2>3
  <2>5. f \in A => s[f] \in 0 .. 1000 /\ s[f] <= t[f]
    BY <2>2, <2>3
  <2>6. f \notin A => t[f] = 1000
    BY <2>2, <2>3
  <2> QED
    BY <2>4, <2>5, <2>6
<1>5. \A g \in Families : (g \in A => m[g] \in Nat) /\ (g \in B => n[g] \in Nat)
  <2> TAKE g \in Families
  <2>1. PICK y \in Nat : y = Weight[g]
    BY WeightsArePositive
  <2>2. ASSUME NEW x \in 0 .. 1000 PROVE y * x \in Nat
    OBVIOUS
  <2>3. g \in A => s[g] \in 0 .. 1000
    BY <1>1, <1>2
  <2>4. g \in B => t[g] \in 0 .. 1000
    BY <1>1, <1>2
  <2>5. m[g] = y * s[g] /\ n[g] = y * t[g]
    BY <2>1
  <2> HIDE DEF A, B, m, n
  <2>6. ASSUME g \in A PROVE m[g] \in Nat
    <3>1. PICK x \in 0 .. 1000 : x = s[g]
      BY <2>3, <2>6
    <3>2. y * x \in Nat
      BY <2>2
    <3> QED
      BY <2>5, <3>1, <3>2
  <2>7. ASSUME g \in B PROVE n[g] \in Nat
    <3>1. PICK x \in 0 .. 1000 : x = t[g]
      BY <2>4, <2>7
    <3>2. y * x \in Nat
      BY <2>2
    <3> QED
      BY <2>5, <3>1, <3>2
  <2> QED
    BY <2>6, <2>7
<1>6. PICK y \in Nat : y = Weight[f]
  BY WeightsArePositive
<1>7. n[f] = y * t[f] /\ m[f] = y * s[f]
  BY <1>6
<1>8. PICK w \in Nat, mm \in Nat, u \in Nat, nn \in Nat :
         w = WeightOf(s) /\ mm = MatchOf(s) /\ u = WeightOf(t) /\ nn = MatchOf(t)
  BY SumsOfProfile
<1>9. /\ mm <= 1000 * w /\ Evidence(s) = IF w = 0 THEN 0 ELSE (10 * mm) \div w
      /\ nn <= 1000 * u /\ Evidence(t) = IF u = 0 THEN 0 ELSE (10 * nn) \div u
  BY <1>8, SumsOfProfile
<1> HIDE DEF A, B, m, n
<1>10. CASE f \in A
  <2>1. \A g \in Families : Term(Weight, A, g) = Term(Weight, B, g)
    BY <1>3, <1>4, <1>10 DEF Term
  <2>2. u = w
    BY <1>2, <1>8, <2>1, SumOfTerms DEF Families
  <2>3. m[f] <= n[f]
    <3> PICK x \in 0 .. 1000 : x = s[f]
      BY <1>4, <1>10
    <3> PICK z \in 0 .. 1000 : z = t[f]
      BY <1>4
    <3>1. x <= z /\ x = s[f] /\ z = t[f]
      BY <1>4, <1>10
    <3>2. y * x <= y * z
      BY <3>1
    <3> QED
      BY <1>7, <3>1, <3>2
  <2>4. \A g \in Families : Term(m, A, g) \in Nat /\ Term(n, B, g) \in Nat /\ Term(m, A, g) <= Term(n, B, g)
    BY <1>3, <1>4, <1>5, <1>10, <2>3 DEF Term
  <2>5. mm <= nn
    BY <1>2, <1>8, <2>4, SumGrows
  <2>6. w > 0 => ((10 * mm) \div w) <= ((10 * nn) \div w)
    BY <2>5, QuotientGrows
  <2> QED
    BY <1>9, <2>2, <2>6
<1>11. CASE f \notin A
  <2>1. n[f] = 1000 * y
    BY <1>4, <1>7, <1>11
  <2>2. \A g \in Families : Term(Weight, A, g) \in Nat /\ Term(Weight, B, g) \in Nat
    BY WeightsArePositive DEF Term
  <2>3. \A g \in Families : Term(m, A, g) \in Nat /\ Term(n, B, g) \in Nat
    BY <1>5 DEF Term
  <2>4. \A g \in Families \ {f} : Term(Weight, B, g) = Term(Weight, A, g) /\ Term(n, B, g) = Term(m, A, g)
    BY <1>3 DEF Term
  <2>5. /\ Term(Weight, A, f) = 0 /\ Term(m, A, f) = 0
        /\ Term(Weight, B, f) = y /\ Term(n, B, f) = 1000 * y
    BY <1>4, <1>6, <1>11, <2>1 DEF Term
  <2>6. u = w + y
    BY <1>2, <1>8, <2>2, <2>4, <2>5, SumExtends
  <2>7. nn = mm + 1000 * y
    BY <1>2, <1>8, <2>3, <2>4, <2>5, SumExtends
  <2>8. CASE w = 0
    <3>1. Evidence(s) = 0
      BY <1>9, <2>8
    <3>2. PICK e \in Shares : e = Evidence(t)
      BY EvidenceIsBounded
    <3>3. PICK d : d = 0
      OBVIOUS
    <3>4. d <= e
      BY <3>3 DEF Shares
    <3>5. Evidence(s) = d /\ Evidence(t) = e
      BY <3>1, <3>2, <3>3
    <3> QED
      BY <3>4, <3>5
  <2>9. CASE w > 0
    <3>1. 10 * mm \in Nat /\ 10 * mm <= 10000 * w /\ 10 * nn = 10 * mm + 10000 * y
      BY <1>9, <2>7
    <3>2. ((10 * mm) \div w) <= (10 * mm + 10000 * y) \div (w + y)
      BY <2>9, <3>1, Diluted
    <3>3. PICK p, q : p = (10 * mm) \div w /\ q = (10 * nn) \div u
      OBVIOUS
    <3>4. p <= q
      BY <2>6, <3>1, <3>2, <3>3
    <3>5. Evidence(s) = p /\ Evidence(t) = q
      BY <1>9, <2>6, <2>9, <3>3
    <3> QED
      BY <3>4, <3>5
  <2> QED
    BY <2>8, <2>9
<1> QED
  BY <1>10, <1>11

LEMMA CountsGrow ==
  ASSUME NEW s \in Profiles, NEW t \in Profiles, NEW f \in Families, Agrees(s, t, f)
  PROVE  /\ Cardinality(Matched(s)) <= Cardinality(Matched(t))
         /\ DiversityBonus(s) <= DiversityBonus(t)
<1>1. \A g \in Families : s[g] \in -1 .. 1000 /\ t[g] \in -1 .. 1000
  BY DEF Profiles, Overlaps
<1>2. \A g \in Families : s[g] <= t[g]
  <2>1. s[f] <= t[f]
    <3>1. PICK x, z : x = s[f] /\ z = t[f]
      OBVIOUS
    <3>2. x \in -1 .. 1000 /\ z \in -1 .. 1000 /\ x < z
      BY <1>1, <3>1 DEF Agrees
    <3>3. x <= z
      BY <3>2
    <3> QED
      BY <3>1, <3>3
  <2>2. ASSUME NEW g \in Families, g # f PROVE s[g] <= t[g]
    <3>1. PICK x : x = s[g]
      OBVIOUS
    <3>2. x \in -1 .. 1000 /\ t[g] = x
      BY <1>1, <2>2, <3>1 DEF Agrees
    <3>3. x <= x
      BY <3>2
    <3> QED
      BY <3>1, <3>2, <3>3
  <2> QED
    BY <2>1, <2>2
<1>3. Matched(s) \subseteq Matched(t)
  <2> SUFFICES ASSUME NEW g \in Families, s[g] >= 280 PROVE t[g] >= 280
    BY DEF Matched
  <2>1. PICK x, z : x = s[g] /\ z = t[g]
    OBVIOUS
  <2>2. x \in -1 .. 1000 /\ z \in -1 .. 1000 /\ x <= z /\ x >= 280
    BY <1>1, <1>2, <2>1
  <2>3. z >= 280
    BY <2>2
  <2> QED
    BY <2>1, <2>3
<1>4. Cardinality(Matched(s)) <= Cardinality(Matched(t))
  <2>1. IsFiniteSet(Matched(t))
    BY MatchedIsFinite
  <2> QED
    BY <1>3, <2>1, FS_Subset
<1>5. PICK a, b : a = Cardinality(Matched(s)) /\ b = Cardinality(Matched(t))
  OBVIOUS
<1>6. DiversityBonus(s) <= DiversityBonus(t)
  <2>1. a \in Nat /\ b \in Nat
    BY <1>5, MatchedIsFinite
  <2>2. a <= b
    BY <1>4, <1>5
  <2>3. PICK c, d : /\ c = IF a > 5 THEN 1000 ELSE IF a < 1 THEN 0 ELSE 250 * (a - 1)
                    /\ d = IF b > 5 THEN 1000 ELSE IF b < 1 THEN 0 ELSE 250 * (b - 1)
    OBVIOUS
  <2>4. c <= d
    BY <2>1, <2>2, <2>3
  <2>5. DiversityBonus(s) = c /\ DiversityBonus(t) = d
    BY <1>5, <2>3 DEF DiversityBonus
  <2> QED
    BY <2>4, <2>5
<1> QED
  BY <1>4, <1>6

LEMMA PenaltyShrinks ==
  ASSUME NEW s \in Profiles, NEW t \in Profiles, NEW f \in Families, Agrees(s, t, f)
  PROVE  Penalty(t) <= Penalty(s)
<1> DEFINE c == [g \in Families |-> Contradiction(g)]
<1>1. \A g \in Families : c[g] \in Nat
  BY DEF Contradiction
<1>2. t[f] # 0
  <2>1. s[f] \in -1 .. 1000 /\ t[f] \in -1 .. 1000 /\ s[f] < t[f] /\ (s[f] # -1 \/ t[f] = 1000)
    BY DEF Agrees, Profiles, Overlaps, Unavailable
  <2>2. PICK x, z : x = s[f] /\ z = t[f]
    OBVIOUS
  <2>3. x \in -1 .. 1000 /\ z \in -1 .. 1000
    BY <2>1, <2>2
  <2>4. x < z /\ (x # -1 \/ z = 1000)
    BY <2>1, <2>2
  <2> HIDE DEF c
  <2>5. z # 0
    BY <2>3, <2>4
  <2> QED
    BY <2>2, <2>5
<1>3. Divergent(t) \subseteq Divergent(s)
  BY <1>2 DEF Divergent, Agrees
<1> HIDE DEF c
<1>4. \A g \in Families :
        /\ Term(c, Divergent(t), g) \in Nat /\ Term(c, Divergent(s), g) \in Nat
        /\ Term(c, Divergent(t), g) <= Term(c, Divergent(s), g)
  <2> TAKE g \in Families
  <2>1. PICK d \in Nat : d = c[g]
    BY <1>1
  <2> QED
    BY <1>3, <2>1 DEF Term
<1> QED
  BY <1>4, SumGrows DEF c, Penalty

\* The score grows with all that goes into it.
LEMMA RawScoreGrows ==
  ASSUME NEW s \in Profiles, NEW t \in Profiles, NEW f \in Families, Agrees(s, t, f)
  PROVE  RawScore(s) <= RawScore(t)
<1>1. PICK e1, e2 : e1 = Evidence(s) /\ e2 = Evidence(t)
  OBVIOUS
<1>2. PICK b1, b2 : b1 = DiversityBonus(s) /\ b2 = DiversityBonus(t)
  OBVIOUS
<1>3. PICK p1, p2 : p1 = Penalty(s) /\ p2 = Penalty(t)
  OBVIOUS
<1>a. e1 \in Shares /\ e2 \in Shares
  <2>1. e1 \in Shares
    BY <1>1, EvidenceIsBounded
  <2>2. e2 \in Shares
    BY <1>1, EvidenceIsBounded
  <2> QED
    BY <2>1, <2>2
<1>b. b1 \in 0 .. 1000 /\ b2 \in 0 .. 1000
  <2>1. b1 \in 0 .. 1000
    BY <1>2, BonusType
  <2>2. b2 \in 0 .. 1000
    BY <1>2, BonusType
  <2> QED
    BY <2>1, <2>2
<1>c. p1 \in Nat /\ p2 \in Nat
  BY <1>3, PenaltyType
<1>4. e1 <= e2
  BY <1>1, EvidenceGrows
<1>5. b1 <= b2
  BY <1>2, CountsGrow
<1>6. p2 <= p1
  BY <1>3, PenaltyShrinks
<1>7. PICK x, y : x = e1 + b1 - p1 /\ y = e2 + b2 - p2
  OBVIOUS
<1>8. RawScore(s) = Bounded(x) /\ RawScore(t) = Bounded(y)
  BY <1>1, <1>2, <1>3, <1>7 DEF RawScore, Penalty
<1>9. x \in Int /\ y \in Int /\ x <= y
  BY <1>a, <1>b, <1>c, <1>4, <1>5, <1>6, <1>7 DEF Shares
<1>10. Bounded(x) <= Bounded(y)
  BY <1>9 DEF Bounded
<1> QED
  BY <1>8, <1>10

------------------------------------------------------------------------------
(* The linker: strengths *)

\* A link's strength is a threshold of its confidence: the caps and the
\* counted families never contradict it.
LEMMA StrengthByConfidence ==
  ASSUME NEW s \in Profiles
  PROVE  /\ Confidence(s) \in Shares
         /\ Confidence(s) < P50 <=> Strength(s) = "LOW"
         /\ Rank(Strength(s)) = IF Confidence(s) < P50 THEN 0 ELSE IF Confidence(s) < P75 THEN 1 ELSE 2
<1>1. PICK r, n : r = RawScore(s) /\ n = Cardinality(Matched(s))
  OBVIOUS
<1>2. r \in Shares /\ n \in Nat
  BY <1>1, RawScoreType, MatchedIsFinite
<1>3. PICK k : k = IF n < 2 THEN 4943 ELSE IF n < 3 THEN 6143 ELSE 10000
  OBVIOUS
<1>4. k \in Shares /\ (k > 4943 => n >= 2) /\ (k > 6143 => n >= 3)
  BY <1>2, <1>3 DEF Shares
<1>5. Cap(s) = k
  BY <1>1, <1>3 DEF Cap, P49, P69
<1>6. PICK c : c = IF r < k THEN r ELSE k
  OBVIOUS
<1>7. c \in Shares /\ c <= k
  <2>1. r \in Int /\ k \in Int /\ c \in {r, k}
    BY <1>2, <1>4, <1>6 DEF Shares
  <2>2. c <= k
    BY <1>6, <2>1
  <2> QED
    BY <1>2, <1>4, <2>1, <2>2
<1>8. Confidence(s) = c
  BY <1>1, <1>5, <1>6 DEF Confidence
<1>9. (c >= 6569 => n >= 3) /\ (c >= 5000 => n >= 2)
  BY <1>2, <1>4, <1>7 DEF Shares
<1>10. Strength(s) = IF c >= 6569 THEN "HIGH" ELSE IF c >= 5000 THEN "MODERATE" ELSE "LOW"
  BY <1>1, <1>8, <1>9 DEF Strength, P75, P50
<1>11. c < 5000 \/ (~(c < 5000) /\ c >= 5000)
  BY <1>7 DEF Shares
<1>12. c < 6569 \/ (~(c < 6569) /\ c >= 6569)
  BY <1>7 DEF Shares
<1>13. ~(c < 5000 /\ c >= 5000) /\ ~(c < 6569 /\ c >= 6569) /\ ~(c < 5000 /\ c >= 6569)
  BY <1>7 DEF Shares
<1>14. Rank(Strength(s)) = IF c < 5000 THEN 0 ELSE IF c < 6569 THEN 1 ELSE 2
  BY <1>10, <1>11, <1>12, <1>13 DEF Rank
<1>15. c < 5000 <=> Strength(s) = "LOW"
  BY <1>10, <1>11, <1>12, <1>13
<1> QED
  BY <1>7, <1>8, <1>14, <1>15 DEF P75, P50

LEMMA ConfidenceType == ASSUME NEW s \in Profiles PROVE Confidence(s) \in Shares
  BY StrengthByConfidence

LEMMA StrengthGrows ==
  ASSUME NEW s \in Profiles, NEW t \in Profiles, Confidence(s) <= Confidence(t)
  PROVE  Rank(Strength(s)) <= Rank(Strength(t))
<1>1. PICK c, d : c = Confidence(s) /\ d = Confidence(t)
  OBVIOUS
<1>2. c \in Shares /\ d \in Shares /\ c <= d
  <2>1. c \in Shares
    BY <1>1, ConfidenceType
  <2>2. d \in Shares
    BY <1>1, ConfidenceType
  <2> QED
    BY <1>1, <2>1, <2>2
<1>3. /\ Rank(Strength(s)) = IF c < 5000 THEN 0 ELSE IF c < 6569 THEN 1 ELSE 2
      /\ Rank(Strength(t)) = IF d < 5000 THEN 0 ELSE IF d < 6569 THEN 1 ELSE 2
  BY <1>1, StrengthByConfidence DEF P50, P75
<1>4. PICK x, y : /\ x = IF c < 5000 THEN 0 ELSE IF c < 6569 THEN 1 ELSE 2
                  /\ y = IF d < 5000 THEN 0 ELSE IF d < 6569 THEN 1 ELSE 2
  OBVIOUS
<1>5. x <= y
  BY <1>2, <1>4 DEF Shares
<1> QED
  BY <1>3, <1>4, <1>5

LEMMA ConfidenceGrows ==
  ASSUME NEW s \in Profiles, NEW t \in Profiles, NEW f \in Families, Agrees(s, t, f)
  PROVE  Confidence(s) <= Confidence(t)
<1>1. PICK r1, r2 : r1 = RawScore(s) /\ r2 = RawScore(t)
  OBVIOUS
<1>2. r1 \in Shares /\ r2 \in Shares
  <2>1. r1 \in Shares
    BY <1>1, RawScoreType
  <2>2. r2 \in Shares
    BY <1>1, RawScoreType
  <2> QED
    BY <2>1, <2>2
<1>3. r1 <= r2
  BY <1>1, RawScoreGrows
<1>4. PICK n1, n2 : n1 = Cardinality(Matched(s)) /\ n2 = Cardinality(Matched(t))
  OBVIOUS
<1>5. n1 \in Nat /\ n2 \in Nat
  BY <1>4, MatchedIsFinite
<1>6. n1 <= n2
  BY <1>4, CountsGrow
<1>7. PICK k1, k2 : /\ k1 = IF n1 < 2 THEN 4943 ELSE IF n1 < 3 THEN 6143 ELSE 10000
                    /\ k2 = IF n2 < 2 THEN 4943 ELSE IF n2 < 3 THEN 6143 ELSE 10000
  OBVIOUS
<1>8. k1 \in Nat /\ k2 \in Nat /\ k1 <= k2
  BY <1>5, <1>6, <1>7
<1>9. Cap(s) = k1 /\ Cap(t) = k2
  BY <1>4, <1>7 DEF Cap, P49, P69
<1>10. PICK c, d : c = (IF r1 < k1 THEN r1 ELSE k1) /\ d = (IF r2 < k2 THEN r2 ELSE k2)
  OBVIOUS
<1>11. c <= d
  BY <1>2, <1>3, <1>8, <1>10 DEF Shares
<1>12. Confidence(s) = c /\ Confidence(t) = d
  BY <1>1, <1>9, <1>10 DEF Confidence
<1> QED
  BY <1>11, <1>12

------------------------------------------------------------------------------
(* The linker: its specification *)

TraceTypeOK == similarity \in [Links -> Profiles]

LEMMA TraceInitial == TraceInit => TraceTypeOK
  BY DEF TraceInit, TraceTypeOK, NothingShared, Profiles, Overlaps, Unavailable

LEMMA TraceTyped == TraceTypeOK /\ [TraceNext]_similarity => TraceTypeOK'
<1> SUFFICES ASSUME TraceTypeOK, [TraceNext]_similarity PROVE TraceTypeOK'
  OBVIOUS
<1> USE DEF TraceTypeOK
<1>1. ASSUME NEW l \in Links, NEW f \in Observed, NEW s \in Similarities, Observe(l, f, s) PROVE TraceTypeOK'
  <2>1. s \in -1 .. 1000 /\ f \in Families
    BY LinkerAssumption
  <2>2. [similarity[l] EXCEPT ![f] = s] \in Profiles
    <3>1. PICK p : p = similarity[l]
      OBVIOUS
    <3>2. p \in [Families -> Overlaps] /\ s \in Overlaps
      BY <2>1, <3>1 DEF Profiles, Overlaps
    <3>3. [p EXCEPT ![f] = s] \in [Families -> Overlaps]
      BY <3>2
    <3> QED
      BY <3>1, <3>3 DEF Profiles
  <2>3. similarity' = [similarity EXCEPT ![l] = [similarity[l] EXCEPT ![f] = s]]
    BY <1>1 DEF Observe
  <2> QED
    BY <2>2, <2>3
<1>2. CASE Forget
  BY <1>2 DEF Forget, NothingShared, Profiles, Overlaps, Unavailable
<1> QED
  BY <1>1, <1>2 DEF TraceNext

LEMMA TraceInvariant == TraceSpec => []TraceTypeOK
  BY TraceInitial, TraceTyped, PTL DEF TraceSpec

\* The link of the highest confidence is one of the strongest
\* (build_trace_report), for any links, families and overlaps.
THEOREM LeadingIsStrongestAlways == TraceSpec => []LeadingIsStrongest
<1>1. TraceTypeOK => LeadingIsStrongest
  <2> SUFFICES ASSUME TraceTypeOK, NEW l \in Leading, NEW m \in Links
               PROVE  /\ Rank(Strength(similarity[m])) <= Rank(Strength(similarity[l]))
                      /\ ReportStatus(m) = "RELATED_ACTIVITY_SUPPORTED"
                           => ReportStatus(l) = "RELATED_ACTIVITY_SUPPORTED"
    BY DEF LeadingIsStrongest
  <2>1. similarity[l] \in Profiles /\ similarity[m] \in Profiles /\ Confidence(similarity[m]) <= Confidence(similarity[l])
    BY DEF TraceTypeOK, Leading
  <2>2. Rank(Strength(similarity[m])) <= Rank(Strength(similarity[l]))
    BY <2>1, StrengthGrows
  <2>3. PICK c, d : c = Confidence(similarity[m]) /\ d = Confidence(similarity[l])
    OBVIOUS
  <2>4. c \in Shares /\ d \in Shares /\ c <= d
    <3>1. c \in Shares
      BY <2>1, <2>3, ConfidenceType
    <3>2. d \in Shares
      BY <2>1, <2>3, ConfidenceType
    <3>3. c <= d
      BY <2>1, <2>3
    <3> QED
      BY <3>1, <3>2, <3>3
  <2>5. (c < 5000 <=> Strength(similarity[m]) = "LOW") /\ (d < 5000 <=> Strength(similarity[l]) = "LOW")
    BY <2>1, <2>3, StrengthByConfidence DEF P50
  <2>6. ~(c < 5000) => ~(d < 5000)
    BY <2>4 DEF Shares
  <2> QED
    BY <2>2, <2>5, <2>6 DEF ReportStatus
<1> QED
  BY TraceInvariant, <1>1, PTL

\* More agreement in one family never weakens a link (raw_score, compare),
\* for any links, observed families and overlaps.
THEOREM AgreementIsMonotone == TraceSpec => AgreementNeverWeakens
<1> DEFINE Step ==
      \A l \in Links, f \in Observed :
        /\ OnlyChanged(l, f)
        /\ similarity'[l][f] > similarity[l][f]
        /\ similarity[l][f] # Unavailable \/ similarity'[l][f] = 1000
        => Rank(Before(l)) <= Rank(After(l))
<1>1. ASSUME TraceTypeOK, TraceTypeOK' PROVE Step
  <2> SUFFICES ASSUME NEW l \in Links, NEW f \in Observed,
                      OnlyChanged(l, f),
                      similarity'[l][f] > similarity[l][f],
                      similarity[l][f] # Unavailable \/ similarity'[l][f] = 1000
               PROVE  Rank(Before(l)) <= Rank(After(l))
    OBVIOUS
  <2>1. f \in Families
    BY LinkerAssumption
  <2>2. similarity[l] \in Profiles /\ similarity'[l] \in Profiles
    BY <1>1 DEF TraceTypeOK
  <2>3. PICK s \in Profiles, t \in Profiles : s = similarity[l] /\ t = similarity'[l]
    BY <2>2
  <2>4. Agrees(s, t, f)
    BY <2>3 DEF Agrees, OnlyChanged
  <2>5. Confidence(s) <= Confidence(t)
    BY <2>1, <2>4, ConfidenceGrows
  <2>6. Rank(Strength(s)) <= Rank(Strength(t))
    BY <2>5, StrengthGrows
  <2> QED
    BY <2>3, <2>6 DEF Before, After
<1>2. TraceTypeOK /\ TraceTypeOK' => [Step]_similarity
  BY <1>1
<1> QED
  BY TraceInvariant, <1>2, PTL DEF AgreementNeverWeakens, TraceSpec

------------------------------------------------------------------------------
(* The clustering: union-find                                              *)
(* What is above a session is what every set closed under parents has that *)
(* has the session; find's recursion ends there because every group hangs  *)
(* from its root.                                                          *)

Closed(tree, S) == \A x \in S : tree[x] \in S
Above(tree, m) == {x \in Members : \A S \in SUBSET Members : m \in S /\ Closed(tree, S) => x \in S}
PathStep(tree, f) == [m \in Members |-> IF tree[m] = m THEN {m} ELSE {m} \cup f[tree[m]]]

\* The groups divide the sessions, each below its root.
Forest(tree, gs) ==
  /\ tree \in [Members -> Members]
  /\ DOMAIN gs \subseteq Members
  /\ \A r \in DOMAIN gs : r \in gs[r] /\ gs[r] \subseteq Members /\ tree[r] = r /\ Closed(tree, gs[r])
  /\ \A m \in Members : \E r \in DOMAIN gs : m \in gs[r]
  /\ \A r \in DOMAIN gs, q \in DOMAIN gs : r # q => gs[r] \cap gs[q] = {}
  /\ \A r \in DOMAIN gs : \A S \in SUBSET gs[r] : S # {} /\ Closed(tree, S) => r \in S

LEMMA AboveIsClosed ==
  ASSUME NEW tree \in [Members -> Members], NEW m \in Members
  PROVE  m \in Above(tree, m) /\ Closed(tree, Above(tree, m)) /\ Above(tree, m) \subseteq Members
BY DEF Above, Closed

LEMMA AboveIsLeast ==
  ASSUME NEW tree \in [Members -> Members], NEW m \in Members, NEW S \in SUBSET Members, m \in S, Closed(tree, S)
  PROVE  Above(tree, m) \subseteq S
BY DEF Above

LEMMA AboveStep ==
  ASSUME NEW tree \in [Members -> Members], NEW m \in Members
  PROVE  Above(tree, m) = IF tree[m] = m THEN {m} ELSE {m} \cup Above(tree, tree[m])
<1>1. CASE tree[m] = m
  <2>1. Closed(tree, {m})
    BY <1>1 DEF Closed
  <2> QED
    BY <1>1, <2>1, AboveIsClosed, AboveIsLeast
<1>2. CASE tree[m] # m
  <2>1. tree[m] \in Members
    OBVIOUS
  <2>2. Closed(tree, {m} \cup Above(tree, tree[m]))
    BY <2>1, AboveIsClosed DEF Closed
  <2>3. Above(tree, m) \subseteq {m} \cup Above(tree, tree[m])
    BY <2>1, <2>2, AboveIsClosed, AboveIsLeast
  <2>4. tree[m] \in Above(tree, m)
    BY AboveIsClosed DEF Closed
  <2>5. Above(tree, tree[m]) \subseteq Above(tree, m)
    BY <2>1, <2>4, AboveIsClosed, AboveIsLeast
  <2> QED
    BY <1>2, <2>3, <2>5, AboveIsClosed
<1> QED
  BY <1>1, <1>2

\* The recursion of find has a solution.
LEMMA PathUnfolds ==
  ASSUME NEW tree \in [Members -> Members]
  PROVE  Path(tree) = PathStep(tree, Path(tree))
<1> DEFINE above == [m \in Members |-> Above(tree, m)]
<1>1. above = PathStep(tree, above)
  BY AboveStep DEF PathStep
<1> HIDE DEF above
<1>2. Path(tree) = CHOOSE f : f = PathStep(tree, f)
  BY DEF Path, PathStep
<1>3. PICK g : g = CHOOSE f : f = PathStep(tree, f)
  OBVIOUS
<1>4. g = PathStep(tree, g)
  BY <1>1, <1>3
<1> QED
  BY <1>2, <1>3, <1>4

\* In a forest it has no other.
LEMMA PathIsAbove ==
  ASSUME NEW tree, NEW gs, Forest(tree, gs), NEW m \in Members
  PROVE  Path(tree)[m] = Above(tree, m)
<1>1. tree \in [Members -> Members]
  BY DEF Forest
<1>2. \A x \in Members : Path(tree)[x] = IF tree[x] = x THEN {x} ELSE {x} \cup Path(tree)[tree[x]]
  <2> TAKE x \in Members
  <2>1. Path(tree)[x] = PathStep(tree, Path(tree))[x]
    BY <1>1, PathUnfolds
  <2> QED
    BY <2>1 DEF PathStep
<1> DEFINE Odd == {x \in Members : Path(tree)[x] # Above(tree, x)}
<1>3. SUFFICES ASSUME m \in Odd PROVE FALSE
  OBVIOUS
<1>4. \A x \in Odd : tree[x] \in Odd
  <2> TAKE x \in Odd
  <2>1. tree[x] \in Members
    BY <1>1
  <2>2. Above(tree, x) = IF tree[x] = x THEN {x} ELSE {x} \cup Above(tree, tree[x])
    BY <1>1, AboveStep
  <2> QED
    BY <1>2, <2>1, <2>2
<1>5. PICK r \in DOMAIN gs : m \in gs[r]
  BY DEF Forest
<1>6. r \in gs[r] /\ gs[r] \subseteq Members /\ tree[r] = r /\ Closed(tree, gs[r])
  BY DEF Forest
<1>7. Odd \cap gs[r] # {} /\ Closed(tree, Odd \cap gs[r])
  BY <1>3, <1>4, <1>5, <1>6 DEF Closed
<1>8. r \in Odd
  BY <1>7 DEF Forest
<1>9. Above(tree, r) = {r} /\ Path(tree)[r] = {r}
  <2>1. r \in Members /\ tree[r] = r
    BY <1>6
  <2>2. Above(tree, r) = IF tree[r] = r THEN {r} ELSE {r} \cup Above(tree, tree[r])
    BY <1>1, <2>1, AboveStep
  <2> QED
    BY <1>2, <2>1, <2>2
<1> QED
  BY <1>8, <1>9

\* The root of a session is the one its group is kept for.
LEMMA RootOfGroup ==
  ASSUME NEW tree, NEW gs, Forest(tree, gs), NEW r \in DOMAIN gs, NEW m \in gs[r]
  PROVE  /\ Root(tree, m) = r /\ m \in Members
         /\ Path(tree)[m] \subseteq gs[r] /\ Closed(tree, Path(tree)[m])
         /\ \A x \in Path(tree)[m] : tree[x] = x => x = r
<1>1. tree \in [Members -> Members] /\ m \in Members /\ gs[r] \subseteq Members /\ tree[r] = r /\ Closed(tree, gs[r])
  BY DEF Forest
<1>2. Path(tree)[m] = Above(tree, m)
  BY <1>1, PathIsAbove
<1>3. Path(tree)[m] \subseteq gs[r]
  BY <1>1, <1>2, AboveIsLeast
<1>4. Closed(tree, Path(tree)[m]) /\ m \in Path(tree)[m]
  BY <1>1, <1>2, AboveIsClosed
<1>5. r \in Path(tree)[m]
  BY <1>3, <1>4 DEF Forest
<1>6. ASSUME NEW x \in Path(tree)[m], tree[x] = x PROVE x = r
  <2>1. Closed(tree, {x})
    BY <1>6 DEF Closed
  <2>2. {x} \in SUBSET gs[r] /\ {x} # {}
    BY <1>3
  <2> QED
    BY <2>1, <2>2 DEF Forest
<1>7. Root(tree, m) = r
  BY <1>1, <1>5, <1>6 DEF Root
<1> QED
  BY <1>1, <1>3, <1>4, <1>6, <1>7

LEMMA EveryHasGroup ==
  ASSUME NEW tree, NEW gs, Forest(tree, gs), NEW m \in Members
  PROVE  Root(tree, m) \in DOMAIN gs /\ m \in gs[Root(tree, m)]
<1>1. PICK r \in DOMAIN gs : m \in gs[r]
  BY DEF Forest
<1> QED
  BY <1>1, RootOfGroup

\* Looking a session up changes no group.
LEMMA FindKeepsForest ==
  ASSUME NEW tree, NEW gs, Forest(tree, gs), NEW m \in Members
  PROVE  Forest(Find(tree, m), gs)
<1>1. PICK r \in DOMAIN gs : m \in gs[r]
  BY DEF Forest
<1>2. PICK path, t : path = Path(tree)[m] /\ t = Find(tree, m)
  OBVIOUS
<1>3. t = [x \in Members |-> IF x \in path THEN r ELSE tree[x]]
  BY <1>1, <1>2, RootOfGroup DEF Find
<1>4. path \subseteq gs[r] /\ Closed(tree, path) /\ \A x \in path : tree[x] = x => x = r
  BY <1>1, <1>2, RootOfGroup
<1>5. /\ tree \in [Members -> Members] /\ DOMAIN gs \subseteq Members
      /\ \A q \in DOMAIN gs : q \in gs[q] /\ gs[q] \subseteq Members /\ tree[q] = q /\ Closed(tree, gs[q])
      /\ \A x \in Members : \E q \in DOMAIN gs : x \in gs[q]
      /\ \A q \in DOMAIN gs, p \in DOMAIN gs : q # p => gs[q] \cap gs[p] = {}
      /\ \A q \in DOMAIN gs : \A S \in SUBSET gs[q] : S # {} /\ Closed(tree, S) => q \in S
  BY DEF Forest
<1>6. t \in [Members -> Members]
  BY <1>1, <1>3, <1>5
<1>7. \A q \in DOMAIN gs : t[q] = q
  <2> TAKE q \in DOMAIN gs
  <2>1. q \in Members /\ tree[q] = q
    BY <1>5
  <2> QED
    BY <1>3, <1>4, <2>1
<1>8. \A q \in DOMAIN gs : Closed(t, gs[q])
  <2> TAKE q \in DOMAIN gs
  <2>1. ASSUME NEW x \in gs[q] PROVE t[x] \in gs[q]
    <3>1. x \in Members /\ tree[x] \in gs[q]
      BY <1>5 DEF Closed
    <3>2. CASE x \in path
      <4>1. q = r
        BY <1>1, <1>4, <1>5, <3>2
      <4> QED
        BY <1>3, <1>5, <3>1, <3>2, <4>1
    <3>3. CASE x \notin path
      BY <1>3, <3>1, <3>3
    <3> QED
      BY <3>2, <3>3
  <2> QED
    BY <2>1 DEF Closed
<1>9. ASSUME NEW q \in DOMAIN gs, NEW S \in SUBSET gs[q], S # {}, Closed(t, S) PROVE q \in S
  <2>1. S \subseteq Members
    BY <1>5
  <2>2. CASE \E x \in S : x \in path
    <3>1. PICK x \in S : x \in path
      BY <2>2
    <3>2. q = r
      BY <1>1, <1>4, <1>5, <3>1
    <3>3. t[x] = r /\ t[x] \in S
      BY <1>3, <1>9, <2>1, <3>1 DEF Closed
    <3> QED
      BY <3>2, <3>3
  <2>3. CASE \A x \in S : x \notin path
    <3>1. Closed(tree, S)
      BY <1>3, <1>9, <2>1, <2>3 DEF Closed
    <3> QED
      BY <1>5, <1>9, <3>1
  <2> QED
    BY <2>2, <2>3
<1> QED
  BY <1>2, <1>5, <1>6, <1>7, <1>8, <1>9 DEF Forest

\* The groups after a union.
Merged(gs, keep, drop) ==
  [root \in DOMAIN gs \ {drop} |-> IF root = keep THEN gs[keep] \cup gs[drop] ELSE gs[root]]

LEMMA UnionKeepsForest ==
  ASSUME NEW tree, NEW gs, Forest(tree, gs), NEW keep \in DOMAIN gs, NEW drop \in DOMAIN gs, keep # drop
  PROVE  Forest([tree EXCEPT ![drop] = keep], Merged(gs, keep, drop))
<1>1. PICK t, hs : t = [tree EXCEPT ![drop] = keep] /\ hs = Merged(gs, keep, drop)
  OBVIOUS
<1>5. /\ tree \in [Members -> Members] /\ DOMAIN gs \subseteq Members
      /\ \A q \in DOMAIN gs : q \in gs[q] /\ gs[q] \subseteq Members /\ tree[q] = q /\ Closed(tree, gs[q])
      /\ \A x \in Members : \E q \in DOMAIN gs : x \in gs[q]
      /\ \A q \in DOMAIN gs, p \in DOMAIN gs : q # p => gs[q] \cap gs[p] = {}
      /\ \A q \in DOMAIN gs : \A S \in SUBSET gs[q] : S # {} /\ Closed(tree, S) => q \in S
  BY DEF Forest
<1>2. /\ DOMAIN hs = DOMAIN gs \ {drop} /\ hs[keep] = gs[keep] \cup gs[drop]
      /\ \A q \in DOMAIN hs : q # keep => hs[q] = gs[q]
  BY <1>1 DEF Merged
<1>3. keep \in Members /\ drop \in Members /\ t \in [Members -> Members]
  BY <1>1, <1>5
<1>4. t[drop] = keep /\ \A x \in Members : x # drop => t[x] = tree[x]
  BY <1>1, <1>3, <1>5
<1>6. \A q \in DOMAIN hs : q \in hs[q] /\ hs[q] \subseteq Members /\ t[q] = q
  BY <1>2, <1>4, <1>5
<1>7. \A q \in DOMAIN hs : Closed(t, hs[q])
  <2> TAKE q \in DOMAIN hs
  <2>1. ASSUME NEW x \in hs[q] PROVE t[x] \in hs[q]
    <3>1. x \in Members
      BY <1>6
    <3>2. CASE x = drop
      <4>1. drop \in gs[drop] /\ keep \in gs[keep]
        BY <1>5
      <4>2. q = keep
        BY <1>2, <1>5, <2>1, <3>2, <4>1
      <4> QED
        BY <1>2, <1>4, <3>2, <4>1, <4>2
    <3>3. CASE x # drop
      <4>1. t[x] = tree[x]
        BY <1>4, <3>1, <3>3
      <4>2. CASE q = keep
        BY <1>2, <1>5, <2>1, <4>1, <4>2 DEF Closed
      <4>3. CASE q # keep
        BY <1>2, <1>5, <2>1, <4>1, <4>3 DEF Closed
      <4> QED
        BY <4>2, <4>3
    <3> QED
      BY <3>2, <3>3
  <2> QED
    BY <2>1 DEF Closed
<1>8. \A x \in Members : \E q \in DOMAIN hs : x \in hs[q]
  BY <1>2, <1>5
<1>9. \A q \in DOMAIN hs, p \in DOMAIN hs : q # p => hs[q] \cap hs[p] = {}
  <2> TAKE q \in DOMAIN hs, p \in DOMAIN hs
  <2> HAVE q # p
  <2>1. q \in DOMAIN gs /\ p \in DOMAIN gs /\ q # drop /\ p # drop
    BY <1>2
  <2>2. gs[q] \cap gs[p] = {} /\ gs[q] \cap gs[drop] = {} /\ gs[p] \cap gs[drop] = {}
    BY <1>5, <2>1
  <2> QED
    BY <1>2, <2>2
<1>10. ASSUME NEW q \in DOMAIN hs, NEW S \in SUBSET hs[q], S # {}, Closed(t, S) PROVE q \in S
  <2>1. S \subseteq Members
    BY <1>6
  <2>2. CASE S \cap gs[drop] # {} /\ q = keep
    <3>1. Closed(tree, S \cap gs[drop])
      <4>1. ASSUME NEW x \in S, x \in gs[drop] PROVE tree[x] \in S \cap gs[drop]
        <5>1. tree[x] \in gs[drop] /\ t[x] \in S
          BY <1>5, <1>10, <4>1 DEF Closed
        <5>2. CASE x = drop
          BY <1>5, <4>1, <5>2
        <5>3. CASE x # drop
          BY <1>4, <2>1, <5>1, <5>3
        <5> QED
          BY <5>2, <5>3
      <4> QED
        BY <4>1 DEF Closed
    <3>2. drop \in S \cap gs[drop]
      BY <1>5, <2>2, <3>1
    <3> QED
      BY <1>4, <1>10, <2>2, <3>2 DEF Closed
  <2>3. CASE ~(S \cap gs[drop] # {} /\ q = keep)
    <3>1. S \in SUBSET gs[q] /\ drop \notin S /\ q \in DOMAIN gs
      <4>1. q \in DOMAIN gs /\ q # drop /\ drop \in gs[drop] /\ gs[q] \cap gs[drop] = {}
        BY <1>2, <1>5
      <4>2. CASE q = keep
        BY <1>2, <1>10, <2>3, <4>1, <4>2
      <4>3. CASE q # keep
        BY <1>2, <1>10, <4>1, <4>3
      <4> QED
        BY <4>2, <4>3
    <3>2. Closed(tree, S)
      BY <1>4, <1>10, <2>1, <3>1 DEF Closed
    <3> QED
      BY <1>5, <1>10, <3>1, <3>2
  <2> QED
    BY <2>2, <2>3
<1>11. DOMAIN hs \subseteq Members
  BY <1>2, <1>5
<1>12. \A r \in DOMAIN hs : r \in hs[r] /\ hs[r] \subseteq Members /\ t[r] = r /\ Closed(t, hs[r])
  BY <1>6, <1>7
<1>13. \A r \in DOMAIN hs : \A S \in SUBSET hs[r] : S # {} /\ Closed(t, S) => r \in S
  BY <1>10
<1>14. Forest(t, hs)
  BY <1>3, <1>8, <1>9, <1>11, <1>12, <1>13 DEF Forest
<1> QED
  BY <1>1, <1>14

------------------------------------------------------------------------------
(* Sums *)

LEMMA LeastOf == ASSUME NEW S \in SUBSET Nat, S # {} PROVE \E n \in S : \A m \in S : n <= m
<1>1. IsWellFoundedOn(OpToRel(<, Nat), Nat)
  BY NatLessThanWellFounded
<1>2. PICK R : R = OpToRel(<, Nat)
  OBVIOUS
<1>3. \E x \in S : \A y \in S : ~(<<y, x>> \in R)
  BY <1>1, <1>2, WFMin
<1>4. PICK n \in S : \A y \in S : ~(<<y, n>> \in R)
  BY <1>3
<1>5. ASSUME NEW m \in S PROVE n <= m
  <2>1. ~(m < n)
    BY <1>2, <1>4 DEF OpToRel
  <2> QED
    BY <2>1
<1> QED
  BY <1>5

LEMMA GreatestOf ==
  ASSUME NEW S \in SUBSET Nat, S # {}, NEW b \in Nat, \A m \in S : m <= b
  PROVE  \E n \in S : \A m \in S : m <= n
<1> DEFINE U == {k \in Nat : \A m \in S : m <= k}
<1>1. U # {} /\ U \in SUBSET Nat
  OBVIOUS
<1>2. PICK u \in U : \A k \in U : u <= k
  BY <1>1, LeastOf
<1>3. CASE u \in S
  BY <1>2, <1>3
<1>4. CASE u \notin S
  <2>1. \A m \in S : m < u
    BY <1>2, <1>4
  <2>2. u # 0
    <3>1. PICK m \in S : TRUE
      OBVIOUS
    <3>2. m \in Nat /\ m < u
      BY <2>1
    <3> QED
      BY <1>2, <3>2
  <2>3. u - 1 \in Nat /\ \A m \in S : m <= u - 1
    BY <1>2, <2>1, <2>2
  <2>4. u <= u - 1
    BY <1>2, <2>3
  <2> QED
    BY <1>2, <2>4
<1> QED
  BY <1>3, <1>4

LEMMA MaxIs ==
  ASSUME NEW S \in SUBSET Nat, NEW n \in S, \A m \in S : m <= n
  PROVE  Max(S) = n
<1>1. PICK x : x = Max(S)
  OBVIOUS
<1>2. x \in S /\ \A y \in S : x >= y
  BY <1>1 DEF Max
<1> QED
  BY <1>1, <1>2

LEMMA CountTwo ==
  ASSUME NEW X, NEW Y, IsFiniteSet(X), IsFiniteSet(Y), X \cap Y = {}
  PROVE  /\ Cardinality(X) \in Nat /\ Cardinality(Y) \in Nat /\ IsFiniteSet(X \cup Y)
         /\ Cardinality(X \cup Y) = Cardinality(X) + Cardinality(Y)
<1>1. Cardinality(X) \in Nat /\ Cardinality(Y) \in Nat
  BY FS_CardinalityType
<1>2. IsFiniteSet(X \cup Y) /\ Cardinality(X \cup Y) = Cardinality(X) + Cardinality(Y) - Cardinality(X \cap Y)
  BY FS_Union
<1>3. Cardinality(X \cap Y) = 0
  BY FS_EmptySet
<1> QED
  BY <1>1, <1>2, <1>3

\* The points under the graph of f, which are as many as its sum says.
Under(f, S) == {point \in S \X Nat : 1 <= point[2] /\ point[2] <= f[point[1]]}

LEMMA UnderAdds ==
  ASSUME NEW f, NEW S, NEW x, x \notin S, f[x] \in Nat, IsFiniteSet(Under(f, S))
  PROVE  /\ IsFiniteSet(Under(f, S \cup {x}))
         /\ Cardinality(Under(f, S \cup {x})) = f[x] + Cardinality(Under(f, S))
<1>1. PICK n \in Nat : n = f[x]
  OBVIOUS
<1> DEFINE A == Under(f, S)
           B == {x} \X (1 .. n)
<1>2. Under(f, S \cup {x}) = A \cup B /\ A \cap B = {}
  BY <1>1 DEF Under
<1>3. IsFiniteSet(B) /\ Cardinality(B) = n
  <2>1. IsFiniteSet({x}) /\ Cardinality({x}) = 1
    BY FS_Singleton
  <2>2. IsFiniteSet(1 .. n) /\ Cardinality(1 .. n) = n
    <3>1. 1 \in Int /\ n \in Int
      OBVIOUS
    <3>2. IsFiniteSet(1 .. n) /\ Cardinality(1 .. n) = IF 1 > n THEN 0 ELSE n - 1 + 1
      BY <3>1, FS_Interval
    <3> QED
      BY <3>2
  <2>3. IsFiniteSet(B) /\ Cardinality(B) = Cardinality({x}) * Cardinality(1 .. n)
    BY <2>1, <2>2, FS_Product
  <2> QED
    BY <2>1, <2>2, <2>3
<1> HIDE DEF A, B
<1>4. IsFiniteSet(A)
  BY DEF A
<1>5. /\ Cardinality(A) \in Nat /\ IsFiniteSet(A \cup B)
      /\ Cardinality(A \cup B) = Cardinality(A) + Cardinality(B)
  BY <1>2, <1>3, <1>4, CountTwo
<1>6. Cardinality(A \cup B) = n + Cardinality(A)
  BY <1>3, <1>5
<1> QED
  BY <1>1, <1>2, <1>5, <1>6 DEF A

\* What holds of the empty set and passes on to a set with one member more
\* holds of a finite set.
LEMMA SetsUpTo ==
  ASSUME NEW S, IsFiniteSet(S), NEW G, {} \in G,
         \A s \in SUBSET S : \A x \in S \ s : s \in G => s \cup {x} \in G
  PROVE  \A s \in SUBSET S : s \in G
<1> DEFINE Counts == {Cardinality(s) : s \in (SUBSET S) \ G}
<1>0. ASSUME NEW s \in SUBSET S PROVE IsFiniteSet(s) /\ Cardinality(s) \in Nat
  BY FS_Subset, FS_CardinalityType
<1> SUFFICES ASSUME (SUBSET S) \ G # {} PROVE FALSE
  OBVIOUS
<1>1. Counts \in SUBSET Nat /\ Counts # {}
  BY <1>0
<1>2. PICK n \in Counts : \A m \in Counts : n <= m
  BY <1>1, LeastOf
<1>3. PICK s \in SUBSET S : s \notin G /\ n = Cardinality(s)
  BY <1>2
<1>4. PICK x \in s : TRUE
  BY <1>3
<1>5. s \ {x} \in SUBSET S /\ x \in S \ (s \ {x}) /\ (s \ {x}) \cup {x} = s
  BY <1>4
<1>6. s \ {x} \notin G
  BY <1>3, <1>5
<1>7. Cardinality(s \ {x}) = n - 1 /\ n \in Nat
  BY <1>0, <1>3, <1>4, FS_RemoveElement
<1>8. Cardinality(s \ {x}) \in Counts
  BY <1>5, <1>6
<1>9. n <= n - 1
  BY <1>2, <1>7, <1>8
<1> QED
  BY <1>7, <1>9

LEMMA UnderNothing == ASSUME NEW f PROVE IsFiniteSet(Under(f, {})) /\ Cardinality(Under(f, {})) = 0
<1>1. Under(f, {}) = {}
  BY DEF Under
<1> QED
  BY <1>1, FS_EmptySet

LEMMA UnderIsFinite ==
  ASSUME NEW S, IsFiniteSet(S), NEW f, \A x \in S : f[x] \in Nat
  PROVE  \A s \in SUBSET S : IsFiniteSet(Under(f, s)) /\ Cardinality(Under(f, s)) \in Nat
<1> DEFINE G == {s \in SUBSET S : IsFiniteSet(Under(f, s))}
<1>1. {} \in G
  BY UnderNothing
<1>2. ASSUME NEW s \in SUBSET S, NEW x \in S \ s, s \in G PROVE s \cup {x} \in G
  <2>1. IsFiniteSet(Under(f, s)) /\ f[x] \in Nat /\ x \notin s /\ s \cup {x} \in SUBSET S
    BY <1>2
  <2>2. IsFiniteSet(Under(f, s \cup {x}))
    BY <2>1, UnderAdds
  <2> QED
    BY <2>1, <2>2
<1> HIDE DEF G
<1>3. \A s \in SUBSET S : s \in G
  BY <1>1, <1>2, SetsUpTo
<1> QED
  BY <1>3, FS_CardinalityType DEF G

Summing(f, S, h) ==
  [s \in SUBSET S |-> IF s = {} THEN 0 ELSE f[CHOOSE x \in s : TRUE] + h[s \ {CHOOSE x \in s : TRUE}]]

LEMMA SumIsCounted ==
  ASSUME NEW S, IsFiniteSet(S), NEW f, \A x \in S : f[x] \in Nat
  PROVE  SumFunctionOnSet(f, S) = Cardinality(Under(f, S))
<1>1. SumFunctionOnSet(f, S) = (CHOOSE h : h = Summing(f, S, h))[S]
  BY DEF SumFunctionOnSet, FoldFunctionOnSet, MapThenFoldSet, Summing
<1> DEFINE c == [s \in SUBSET S |-> Cardinality(Under(f, s))]
<1>2. ASSUME NEW s \in SUBSET S, s # {}, NEW x, x = CHOOSE y \in s : TRUE
      PROVE  /\ x \in s /\ s \ {x} \in SUBSET S /\ f[x] \in Nat
             /\ c[s] = f[x] + c[s \ {x}]
  <2>1. x \in s /\ s \ {x} \in SUBSET S /\ f[x] \in Nat /\ x \notin s \ {x} /\ (s \ {x}) \cup {x} = s
    BY <1>2
  <2>2. IsFiniteSet(Under(f, s \ {x}))
    BY <2>1, UnderIsFinite
  <2>3. Cardinality(Under(f, (s \ {x}) \cup {x})) = f[x] + Cardinality(Under(f, s \ {x}))
    BY <2>1, <2>2, UnderAdds
  <2> QED
    BY <2>1, <2>3
<1>3. c[{}] = 0
  BY UnderNothing
<1>4. DOMAIN c = SUBSET S /\ c = [s \in SUBSET S |-> c[s]]
  OBVIOUS
<1>5. c[S] = Cardinality(Under(f, S))
  OBVIOUS
<1>6. \A s \in SUBSET S : c[s] \in Nat
  BY UnderIsFinite
<1> HIDE DEF c
<1>7. c = Summing(f, S, c)
  <2>1. ASSUME NEW s \in SUBSET S
        PROVE  c[s] = IF s = {} THEN 0 ELSE f[CHOOSE x \in s : TRUE] + c[s \ {CHOOSE x \in s : TRUE}]
    BY <1>2, <1>3
  <2> QED
    BY <1>4, <2>1 DEF Summing
<1>8. PICK h : h = CHOOSE g : g = Summing(f, S, g)
  OBVIOUS
<1>9. h = Summing(f, S, h)
  BY <1>7, <1>8
<1> DEFINE G == {s \in SUBSET S : h[s] = c[s]}
<1> DEFINE Counts == {Cardinality(s) : s \in (SUBSET S) \ G}
<1>10. ASSUME NEW s \in SUBSET S PROVE s \in G
  <2> SUFFICES ASSUME s \notin G PROVE FALSE
    OBVIOUS
  <2>0. ASSUME NEW t \in SUBSET S PROVE IsFiniteSet(t) /\ Cardinality(t) \in Nat
    BY FS_Subset, FS_CardinalityType
  <2>1. Counts \in SUBSET Nat /\ Counts # {}
    BY <2>0
  <2>2. PICK n \in Counts : \A m \in Counts : n <= m
    BY <2>1, LeastOf
  <2>3. PICK t \in SUBSET S : t \notin G /\ n = Cardinality(t)
    BY <2>2
  <2>4. t # {}
    <3>1. h[{}] = 0
      BY <1>9 DEF Summing
    <3> QED
      BY <1>3, <2>3, <3>1
  <2>5. PICK x : x = CHOOSE y \in t : TRUE
    OBVIOUS
  <2>6. x \in t /\ t \ {x} \in SUBSET S /\ c[t] = f[x] + c[t \ {x}]
    <3>1. t \in SUBSET S /\ t # {} /\ x = CHOOSE y \in t : TRUE
      BY <2>4, <2>5
    <3> HIDE DEF G, Counts
    <3> QED
      BY <1>2, <3>1
  <2>7. h[t] = f[x] + h[t \ {x}]
    BY <1>9, <2>4, <2>5 DEF Summing
  <2>8. t \ {x} \notin G
    BY <2>3, <2>6, <2>7
  <2>9. Cardinality(t \ {x}) = n - 1 /\ n \in Nat
    BY <2>0, <2>3, <2>6, FS_RemoveElement
  <2>10. n <= n - 1
    <3>1. Cardinality(t \ {x}) \in Counts
      BY <2>6, <2>8
    <3> QED
      BY <2>2, <2>9, <3>1
  <2> QED
    BY <2>9, <2>10
<1> QED
  BY <1>1, <1>5, <1>8, <1>10

\* A set of numbered things.
Counted(f, S) == IsFiniteSet(S) /\ \A x \in S : f[x] \in Nat

LEMMA SumType ==
  ASSUME NEW f, NEW S, Counted(f, S)
  PROVE  SumFunctionOnSet(f, S) \in Nat /\ SumFunctionOnSet(f, S) = Cardinality(Under(f, S)) /\ IsFiniteSet(Under(f, S))
<1>1. IsFiniteSet(Under(f, S)) /\ Cardinality(Under(f, S)) \in Nat
  BY UnderIsFinite DEF Counted
<1>2. SumFunctionOnSet(f, S) = Cardinality(Under(f, S))
  BY SumIsCounted DEF Counted
<1> QED
  BY <1>1, <1>2

\* A sum grows with its terms, and stays only if they all do.
LEMMA SumsCompare ==
  ASSUME NEW f, NEW g, NEW S, Counted(f, S), Counted(g, S), \A x \in S : f[x] <= g[x]
  PROVE  /\ SumFunctionOnSet(f, S) <= SumFunctionOnSet(g, S)
         /\ SumFunctionOnSet(f, S) = SumFunctionOnSet(g, S) <=> \A x \in S : f[x] = g[x]
<1> DEFINE A == Under(f, S)
           B == Under(g, S)
<1>1. /\ SumFunctionOnSet(f, S) = Cardinality(A) /\ IsFiniteSet(A)
      /\ SumFunctionOnSet(g, S) = Cardinality(B) /\ IsFiniteSet(B)
  BY SumType
<1>2. A \in SUBSET B
  <2>1. ASSUME NEW x \in S, NEW n \in Nat, n <= f[x] PROVE n <= g[x]
    <3>1. f[x] \in Nat /\ g[x] \in Nat /\ f[x] <= g[x]
      BY DEF Counted
    <3> QED
      BY <2>1, <3>1
  <2> QED
    BY <2>1 DEF Under
<1>3. ASSUME NEW x \in S, f[x] # g[x] PROVE <<x, g[x]>> \in B \ A
  <2>1. f[x] \in Nat /\ g[x] \in Nat /\ f[x] <= g[x]
    BY DEF Counted
  <2>2. ~(g[x] <= f[x]) /\ 1 <= g[x]
    BY <1>3, <2>1
  <2> QED
    BY <2>1, <2>2 DEF Under
<1>4. (\A x \in S : f[x] = g[x]) => A = B
  BY DEF Under
<1> HIDE DEF A, B
<1>5. Cardinality(A) <= Cardinality(B) /\ (Cardinality(B) = Cardinality(A) => A = B)
  BY <1>1, <1>2, FS_Subset
<1> QED
  BY <1>1, <1>3, <1>4, <1>5

LEMMA SumOfConstant ==
  ASSUME NEW f, NEW S, IsFiniteSet(S), NEW k \in Nat, \A x \in S : f[x] = k
  PROVE  SumFunctionOnSet(f, S) = k * Cardinality(S)
<1>1. Counted(f, S)
  BY DEF Counted
<1>2. SumFunctionOnSet(f, S) = Cardinality(Under(f, S))
  BY <1>1, SumType
<1>3. Under(f, S) = S \X (1 .. k)
  BY DEF Under
<1>4. IsFiniteSet(1 .. k) /\ Cardinality(1 .. k) = k
  <2>1. 1 \in Int /\ k \in Int
    OBVIOUS
  <2>2. IsFiniteSet(1 .. k) /\ Cardinality(1 .. k) = IF 1 > k THEN 0 ELSE k - 1 + 1
    BY <2>1, FS_Interval
  <2> QED
    BY <2>2
<1>5. Cardinality(S \X (1 .. k)) = Cardinality(S) * Cardinality(1 .. k)
  BY <1>4, FS_Product
<1>6. Cardinality(S) \in Nat
  BY FS_CardinalityType
<1>7. Cardinality(S) * k = k * Cardinality(S)
  BY <1>6
<1> QED
  BY <1>2, <1>3, <1>4, <1>5, <1>7

LEMMA SumAdds ==
  ASSUME NEW f, NEW S, NEW x, x \notin S, Counted(f, S \cup {x})
  PROVE  Counted(f, S) /\ SumFunctionOnSet(f, S \cup {x}) = f[x] + SumFunctionOnSet(f, S)
<1>1. Counted(f, S) /\ f[x] \in Nat
  <2>1. S \in SUBSET (S \cup {x}) /\ IsFiniteSet(S \cup {x})
    BY DEF Counted
  <2>2. IsFiniteSet(S)
    BY <2>1, FS_Subset
  <2> QED
    BY <2>2 DEF Counted
<1>2. SumFunctionOnSet(f, S) = Cardinality(Under(f, S)) /\ IsFiniteSet(Under(f, S))
  BY <1>1, SumType
<1>3. SumFunctionOnSet(f, S \cup {x}) = Cardinality(Under(f, S \cup {x}))
  BY SumType
<1>4. Cardinality(Under(f, S \cup {x})) = f[x] + Cardinality(Under(f, S))
  BY <1>1, <1>2, UnderAdds
<1> QED
  BY <1>1, <1>2, <1>3, <1>4

LEMMA SumOfNothing == ASSUME NEW f PROVE SumFunctionOnSet(f, {}) = 0
<1>1. Counted(f, {})
  BY FS_EmptySet DEF Counted
<1> QED
  BY <1>1, SumType, UnderNothing

LEMMA SumOfUnion ==
  ASSUME NEW f, NEW S, NEW T, Counted(f, S), Counted(f, T), S \cap T = {}
  PROVE  /\ Counted(f, S \cup T)
         /\ SumFunctionOnSet(f, S \cup T) = SumFunctionOnSet(f, S) + SumFunctionOnSet(f, T)
<1>1. Counted(f, S \cup T)
  BY FS_Union DEF Counted
<1> DEFINE A == Under(f, S)
           B == Under(f, T)
<1>2. /\ SumFunctionOnSet(f, S) = Cardinality(A) /\ IsFiniteSet(A)
      /\ SumFunctionOnSet(f, T) = Cardinality(B) /\ IsFiniteSet(B)
  BY SumType
<1>3. SumFunctionOnSet(f, S \cup T) = Cardinality(Under(f, S \cup T))
  BY <1>1, SumType
<1>4. Under(f, S \cup T) = A \cup B /\ A \cap B = {}
  BY DEF Under
<1> HIDE DEF A, B
<1>5. Cardinality(A \cup B) = Cardinality(A) + Cardinality(B)
  BY <1>2, <1>4, CountTwo
<1>6. SumFunctionOnSet(f, S \cup T) = Cardinality(A \cup B)
  BY <1>3, <1>4
<1> QED
  BY <1>1, <1>2, <1>5, <1>6

\* A sum may be taken part by part.
LEMMA SumOfParts ==
  ASSUME NEW P, IsFiniteSet(P), NEW f, \A c \in P : Counted(f, c), \A c, d \in P : c # d => c \cap d = {},
         NEW g, \A c \in P : g[c] = SumFunctionOnSet(f, c)
  PROVE  Counted(g, P) /\ SumFunctionOnSet(g, P) = SumFunctionOnSet(f, UNION P)
<1>1. \A c \in P : g[c] \in Nat
  BY SumType
<1> DEFINE G == {s \in SUBSET P : Counted(f, UNION s) /\ SumFunctionOnSet(g, s) = SumFunctionOnSet(f, UNION s)}
<1>2. {} \in G
  <2>1. UNION {} = {} /\ Counted(f, {})
    BY FS_EmptySet DEF Counted
  <2> QED
    BY <2>1, SumOfNothing
<1>3. ASSUME NEW s \in SUBSET P, NEW c \in P \ s, s \in G PROVE s \cup {c} \in G
  <2>1. /\ Counted(f, UNION s) /\ SumFunctionOnSet(g, s) = SumFunctionOnSet(f, UNION s)
        /\ Counted(f, c) /\ g[c] = SumFunctionOnSet(f, c)
    BY <1>3
  <2>2. UNION (s \cup {c}) = (UNION s) \cup c /\ (UNION s) \cap c = {}
    OBVIOUS
  <2>3. /\ Counted(f, UNION (s \cup {c}))
        /\ SumFunctionOnSet(f, UNION (s \cup {c})) = SumFunctionOnSet(f, UNION s) + SumFunctionOnSet(f, c)
    BY <2>1, <2>2, SumOfUnion
  <2>4. Counted(g, s \cup {c})
    <3>1. IsFiniteSet(s \cup {c})
      BY FS_Subset
    <3> QED
      BY <1>1, <3>1 DEF Counted
  <2>5. SumFunctionOnSet(g, s \cup {c}) = g[c] + SumFunctionOnSet(g, s)
    BY <2>4, SumAdds
  <2>6. SumFunctionOnSet(f, UNION s) \in Nat /\ SumFunctionOnSet(f, c) \in Nat
    BY <2>1, SumType
  <2>7. SumFunctionOnSet(g, s \cup {c}) = SumFunctionOnSet(f, UNION (s \cup {c}))
    BY <2>1, <2>3, <2>5, <2>6
  <2> QED
    BY <2>3, <2>7
<1> HIDE DEF G
<1>4. P \in G
  BY <1>2, <1>3, SetsUpTo
<1> QED
  BY <1>1, <1>4 DEF G, Counted

LEMMA SumOfMultiples ==
  ASSUME NEW f, NEW g, NEW S, Counted(f, S), NEW k \in Nat, \A x \in S : g[x] = k * f[x]
  PROVE  Counted(g, S) /\ SumFunctionOnSet(g, S) = k * SumFunctionOnSet(f, S)
<1>1. ASSUME NEW a \in Nat PROVE k * a \in Nat
  OBVIOUS
<1>2. \A x \in S : g[x] \in Nat /\ f[x] \in Nat
  BY <1>1 DEF Counted
<1> DEFINE G == {s \in SUBSET S : SumFunctionOnSet(g, s) = k * SumFunctionOnSet(f, s)}
<1>3. {} \in G
  <2>1. SumFunctionOnSet(g, {}) = 0 /\ SumFunctionOnSet(f, {}) = 0
    BY SumOfNothing
  <2> QED
    BY <2>1
<1>4. ASSUME NEW s \in SUBSET S, NEW x \in S \ s, s \in G PROVE s \cup {x} \in G
  <2>1. IsFiniteSet(s \cup {x}) /\ s \cup {x} \in SUBSET S
    BY FS_Subset DEF Counted
  <2>2. Counted(f, s \cup {x}) /\ Counted(g, s \cup {x})
    BY <1>2, <2>1 DEF Counted
  <2>3. /\ Counted(f, s) /\ SumFunctionOnSet(f, s \cup {x}) = f[x] + SumFunctionOnSet(f, s)
        /\ SumFunctionOnSet(g, s \cup {x}) = g[x] + SumFunctionOnSet(g, s)
    BY <2>2, SumAdds
  <2>4. PICK a \in Nat, b \in Nat : a = f[x] /\ b = SumFunctionOnSet(f, s)
    <3>1. f[x] \in Nat
      BY <1>2
    <3>2. SumFunctionOnSet(f, s) \in Nat
      BY <2>3, SumType
    <3> QED
      BY <3>1, <3>2
  <2>5. k * (a + b) = k * a + k * b
    OBVIOUS
  <2>6. SumFunctionOnSet(g, s \cup {x}) = k * SumFunctionOnSet(f, s \cup {x})
    BY <1>4, <2>3, <2>4, <2>5
  <2> QED
    BY <2>1, <2>6
<1> HIDE DEF G
<1>5. S \in G
  BY <1>3, <1>4, SetsUpTo DEF Counted
<1> QED
  BY <1>2, <1>5 DEF G, Counted

------------------------------------------------------------------------------
(* The clustering: counting pairs *)

LEMMA KeysAreFinite == IsFiniteSet(Keys)
<1>1. IsFiniteSet(Members \X Members)
  BY GraphAssumption, FS_Product
<1>2. Keys \in SUBSET (Members \X Members)
  BY DEF Keys
<1> QED
  BY <1>1, <1>2, FS_Subset

LEMMA CountThree ==
  ASSUME NEW X, NEW Y, NEW Z, IsFiniteSet(X), IsFiniteSet(Y), IsFiniteSet(Z),
         X \cap Y = {}, X \cap Z = {}, Y \cap Z = {}
  PROVE  /\ Cardinality(X) \in Nat /\ Cardinality(Y) \in Nat /\ Cardinality(Z) \in Nat
         /\ Cardinality(X \cup Y \cup Z) = Cardinality(X) + Cardinality(Y) + Cardinality(Z)
<1>1. /\ Cardinality(X) \in Nat /\ Cardinality(Y) \in Nat /\ IsFiniteSet(X \cup Y)
      /\ Cardinality(X \cup Y) = Cardinality(X) + Cardinality(Y)
  BY CountTwo
<1>2. (X \cup Y) \cap Z = {}
  OBVIOUS
<1>3. Cardinality(Z) \in Nat /\ Cardinality((X \cup Y) \cup Z) = Cardinality(X \cup Y) + Cardinality(Z)
  BY <1>1, <1>2, CountTwo
<1> QED
  BY <1>1, <1>3

\* What is asked of a set of pairs.
Supported(pairs) ==
  /\ 100 * Cardinality(Supporting(pairs)) >= guard.support * Cardinality(pairs)
  /\ TotalScore(pairs) >= (guard.threshold + 4) * Cardinality(pairs)

SupportedIn(g, w, pairs) ==
  /\ 100 * Cardinality({key \in pairs : g[key].p >= w.threshold}) >= w.support * Cardinality(pairs)
  /\ SumFunction([key \in pairs |-> g[key].p]) >= (w.threshold + 4) * Cardinality(pairs)

LEMMA SupportedIs == ASSUME NEW pairs PROVE Supported(pairs) <=> SupportedIn(graph, guard, pairs)
BY DEF Supported, SupportedIn, Supporting, TotalScore

LEMMA PairsAreFinite ==
  ASSUME NEW pairs \in SUBSET Keys
  PROVE  IsFiniteSet(pairs) /\ IsFiniteSet(Supporting(pairs))
<1>1. IsFiniteSet(pairs)
  BY KeysAreFinite, FS_Subset
<1>2. Supporting(pairs) \in SUBSET pairs
  BY DEF Supporting
<1> QED
  BY <1>1, <1>2, FS_Subset

Scores == [key \in Keys |-> graph[key].p]
Scored == \A key \in Keys : graph[key].p \in Nat

LEMMA TotalIsSum ==
  ASSUME Scored, NEW pairs \in SUBSET Keys
  PROVE  Counted(Scores, pairs) /\ TotalScore(pairs) = SumFunctionOnSet(Scores, pairs)
<1> DEFINE f == [key \in pairs |-> graph[key].p]
<1>1. IsFiniteSet(pairs)
  BY PairsAreFinite
<1>2. \A key \in pairs : f[key] = Scores[key] /\ Scores[key] \in Nat
  BY DEF Scored, Scores
<1>3. TotalScore(pairs) = SumFunctionOnSet(f, pairs)
  BY DEF TotalScore, SumFunction
<1> HIDE DEF f
<1>4. Counted(f, pairs) /\ Counted(Scores, pairs) /\ \A key \in pairs : f[key] <= Scores[key]
  BY <1>1, <1>2 DEF Counted
<1>5. SumFunctionOnSet(f, pairs) = SumFunctionOnSet(Scores, pairs)
  BY <1>2, <1>4, SumsCompare
<1> QED
  BY <1>3, <1>4, <1>5

\* Support of three parts is support of the whole.
LEMMA SupportAdds ==
  ASSUME Scored, NEW P \in SUBSET Keys, NEW Q \in SUBSET Keys, NEW R \in SUBSET Keys,
         P \cap Q = {}, P \cap R = {}, Q \cap R = {},
         guard.support \in Nat, guard.threshold \in Nat,
         Supported(P), Supported(Q), Supported(R)
  PROVE  Supported(P \cup Q \cup R)
<1>1. IsFiniteSet(P) /\ IsFiniteSet(Q) /\ IsFiniteSet(R)
  BY PairsAreFinite
<1>2. IsFiniteSet(Supporting(P)) /\ IsFiniteSet(Supporting(Q)) /\ IsFiniteSet(Supporting(R))
  BY PairsAreFinite
<1>3. /\ Counted(Scores, P) /\ TotalScore(P) = SumFunctionOnSet(Scores, P)
      /\ Counted(Scores, Q) /\ TotalScore(Q) = SumFunctionOnSet(Scores, Q)
      /\ Counted(Scores, R) /\ TotalScore(R) = SumFunctionOnSet(Scores, R)
  BY TotalIsSum
<1>4. PICK n1 \in Nat, n2 \in Nat, n3 \in Nat :
        /\ n1 = Cardinality(P) /\ n2 = Cardinality(Q) /\ n3 = Cardinality(R)
        /\ Cardinality(P \cup Q \cup R) = n1 + n2 + n3
  <2>1. /\ Cardinality(P) \in Nat /\ Cardinality(Q) \in Nat /\ Cardinality(R) \in Nat
        /\ Cardinality(P \cup Q \cup R) = Cardinality(P) + Cardinality(Q) + Cardinality(R)
    <3>1. /\ Cardinality(P) \in Nat /\ Cardinality(Q) \in Nat /\ IsFiniteSet(P \cup Q)
          /\ Cardinality(P \cup Q) = Cardinality(P) + Cardinality(Q)
      BY <1>1, CountTwo
    <3>2. (P \cup Q) \cap R = {}
      OBVIOUS
    <3>3. Cardinality(R) \in Nat /\ Cardinality((P \cup Q) \cup R) = Cardinality(P \cup Q) + Cardinality(R)
      BY <1>1, <3>1, <3>2, CountTwo
    <3> QED
      BY <3>1, <3>3
  <2> QED
    BY <2>1
<1>5. PICK s1 \in Nat, s2 \in Nat, s3 \in Nat :
        /\ s1 = Cardinality(Supporting(P)) /\ s2 = Cardinality(Supporting(Q)) /\ s3 = Cardinality(Supporting(R))
        /\ Cardinality(Supporting(P \cup Q \cup R)) = s1 + s2 + s3
  <2>1. Supporting(P \cup Q \cup R) = Supporting(P) \cup Supporting(Q) \cup Supporting(R)
    BY DEF Supporting
  <2>2. /\ Supporting(P) \cap Supporting(Q) = {} /\ Supporting(P) \cap Supporting(R) = {}
        /\ Supporting(Q) \cap Supporting(R) = {}
    BY DEF Supporting
  <2>3. /\ Cardinality(Supporting(P)) \in Nat /\ Cardinality(Supporting(Q)) \in Nat
        /\ Cardinality(Supporting(R)) \in Nat
        /\ Cardinality(Supporting(P) \cup Supporting(Q) \cup Supporting(R))
             = Cardinality(Supporting(P)) + Cardinality(Supporting(Q)) + Cardinality(Supporting(R))
    BY <1>2, <2>2, CountThree
  <2> QED
    BY <2>1, <2>3
<1>6. PICK t1 \in Nat, t2 \in Nat, t3 \in Nat :
        /\ t1 = TotalScore(P) /\ t2 = TotalScore(Q) /\ t3 = TotalScore(R)
        /\ TotalScore(P \cup Q \cup R) = t1 + t2 + t3
  <2>1. /\ Counted(Scores, P \cup Q)
        /\ SumFunctionOnSet(Scores, P \cup Q) = SumFunctionOnSet(Scores, P) + SumFunctionOnSet(Scores, Q)
    BY <1>3, SumOfUnion
  <2>2. (P \cup Q) \cap R = {}
    OBVIOUS
  <2>3. SumFunctionOnSet(Scores, (P \cup Q) \cup R)
          = SumFunctionOnSet(Scores, P \cup Q) + SumFunctionOnSet(Scores, R)
    BY <1>3, <2>1, <2>2, SumOfUnion
  <2>4. TotalScore(P \cup Q \cup R) = SumFunctionOnSet(Scores, P \cup Q \cup R)
    BY TotalIsSum
  <2>5. TotalScore(P) \in Nat /\ TotalScore(Q) \in Nat /\ TotalScore(R) \in Nat
    BY <1>3, SumType
  <2>6. TotalScore(P \cup Q \cup R) = TotalScore(P) + TotalScore(Q) + TotalScore(R)
    BY <1>3, <2>1, <2>3, <2>4
  <2> QED
    BY <2>5, <2>6
<1>7. PICK k \in Nat, h \in Nat : k = guard.support /\ h = guard.threshold + 4
  OBVIOUS
<1>8. /\ 100 * s1 >= k * n1 /\ 100 * s2 >= k * n2 /\ 100 * s3 >= k * n3
      /\ t1 >= h * n1 /\ t2 >= h * n2 /\ t3 >= h * n3
  BY <1>4, <1>5, <1>6, <1>7 DEF Supported
<1>9. k * (n1 + n2 + n3) = k * n1 + k * n2 + k * n3 /\ h * (n1 + n2 + n3) = h * n1 + h * n2 + h * n3
  OBVIOUS
<1>10. k * n1 \in Nat /\ k * n2 \in Nat /\ k * n3 \in Nat /\ h * n1 \in Nat /\ h * n2 \in Nat /\ h * n3 \in Nat
  OBVIOUS
<1>11. 100 * (s1 + s2 + s3) >= k * (n1 + n2 + n3) /\ t1 + t2 + t3 >= h * (n1 + n2 + n3)
  BY <1>8, <1>9, <1>10
<1> QED
  BY <1>4, <1>5, <1>6, <1>7, <1>11 DEF Supported

\* One pair supports itself from the seed threshold on, which exceeds the
\* association threshold by the margin.
LEMMA SeedSupports ==
  ASSUME NEW key \in Keys, graph[key].p \in 0 .. 100, guard \in Guards, graph[key].p >= guard.seed
  PROVE  Supported({key})
<1>1. PICK p, h, k, s : p = graph[key].p /\ h = guard.threshold /\ k = guard.support /\ s = guard.seed
  OBVIOUS
<1>2. p \in 0 .. 100 /\ h \in 0 .. 68 /\ k \in 1 .. 100 /\ p >= h + 4
  <2>1. h \in 0 .. 68 /\ k \in 1 .. 100 /\ s \in h + 4 .. 100
    BY <1>1, GraphAssumption
  <2>2. p \in 0 .. 100 /\ p >= s
    BY <1>1
  <2> QED
    BY <2>1, <2>2
<1>3. Supporting({key}) = {key}
  <2>1. p >= h
    BY <1>2
  <2> QED
    BY <1>1, <2>1 DEF Supporting
<1>4. Cardinality({key}) = 1 /\ IsFiniteSet({key})
  BY FS_Singleton
<1>5. TotalScore({key}) = p
  <2> DEFINE f == [k0 \in {key} |-> graph[k0].p]
  <2>1. TotalScore({key}) = SumFunctionOnSet(f, {key})
    BY DEF TotalScore, SumFunction
  <2>2. \A x \in {key} : f[x] = p
    BY <1>1
  <2>3. p \in Nat
    BY <1>2
  <2> HIDE DEF f
  <2>4. SumFunctionOnSet(f, {key}) = p * Cardinality({key})
    BY <1>4, <2>2, <2>3, SumOfConstant
  <2> QED
    BY <1>4, <2>1, <2>3, <2>4
<1>6. 100 * 1 >= k * 1 /\ p >= (h + 4) * 1
  BY <1>2
<1> QED
  BY <1>1, <1>3, <1>4, <1>5, <1>6 DEF Supported

LEMMA NoPairsSupported ==
  ASSUME guard.support \in Nat, guard.threshold \in Nat
  PROVE  Supported({})
<1>1. Supporting({}) = {}
  BY DEF Supporting
<1>2. Cardinality({}) = 0
  BY FS_EmptySet
<1>3. TotalScore({}) = 0
  <2>1. TotalScore({}) = SumFunctionOnSet([key \in {} |-> graph[key].p], {})
    BY DEF TotalScore, SumFunction
  <2> QED
    BY <2>1, SumOfNothing
<1>4. Cardinality(Supporting({})) = 0
  BY <1>1, <1>2
<1>5. guard.support * 0 = 0 /\ (guard.threshold + 4) * 0 = 0
  OBVIOUS
<1> QED
  BY <1>2, <1>3, <1>4, <1>5 DEF Supported

\* The pairs of two groups put together are those within and those across.
LEMMA PairsOfUnion ==
  ASSUME NEW A \in SUBSET Members, NEW B \in SUBSET Members, A \cap B = {}
  PROVE  /\ Between(A \cup B, A \cup B) = Between(A, A) \cup Between(B, B) \cup Between(A, B)
         /\ Between(A, A) \cap Between(B, B) = {}
         /\ Between(A, A) \cap Between(A, B) = {} /\ Between(B, B) \cap Between(A, B) = {}
         /\ Between(A, B) \subseteq Keys /\ Between(A, A) \subseteq Keys /\ Between(B, B) \subseteq Keys
BY DEF Between

------------------------------------------------------------------------------
(* The clustering: the state *)

GraphTypeOK ==
  /\ \A key \in Keys : graph[key].p \in 0 .. 100
  /\ \A key \in Bridges : graph[key].bridge /\ graph[key].p >= 68
  /\ guard \in Guards \cup {Unguarded}
  /\ pending \subseteq Keys

\* Every cohort is within the cap, and supported.
CohortsHold ==
  guard # Unguarded =>
    \A r \in DOMAIN groups :
      Cardinality(groups[r]) <= guard.size /\ SupportedIn(graph, guard, Between(groups[r], groups[r]))

\* Pairs of one group each, that leave no group in two parts.
JoinedBy(gs, pairs) ==
  /\ \A key \in pairs : \E r \in DOMAIN gs : key[1] \in gs[r] /\ key[2] \in gs[r]
  /\ \A r \in DOMAIN gs : \A part \in SUBSET gs[r] :
       part # {} /\ part # gs[r] => Between(part, gs[r] \ part) \cap pairs # {}

MergedKeys == {d.key : d \in {e \in decisions : e.merge}}
Merges == {d \in decisions : d.merge}

DecisionsHold ==
  IF guard = Unguarded THEN JoinedBy(groups, Supporting(Keys \ pending))
  ELSE /\ JoinedBy(groups, MergedKeys)
       /\ IsFiniteSet(decisions) /\ \A d \in decisions : d.key \in Keys \ pending
       /\ Cardinality(Merges) + Cardinality(DOMAIN groups) = Cardinality(Members)
       /\ \A key \in Bridges \ pending :
            \/ \E r \in DOMAIN groups : key[1] \in groups[r] /\ key[2] \in groups[r]
            \/ \E d \in BridgeDecisions : d.key = key /\ ~d.merge

GraphInv == GraphTypeOK /\ Forest(parent, groups) /\ CohortsHold /\ DecisionsHold

------------------------------------------------------------------------------
(* The clustering: its initial states *)

LEMMA BridgeIsStrong == BridgeEdge.p \in 68 .. 86 /\ BridgeEdge.bridge
<1>1. PICK a : a = PairThreshold + 12
  OBVIOUS
<1>2. a \in 32 .. 92
  BY <1>1, GraphAssumption
<1>3. Max({68, a}) \in {68, a} /\ Max({68, a}) >= 68 /\ Max({68, a}) >= a
  <2>1. \E x \in {68, a} : \A y \in {68, a} : x >= y
    <3>1. 68 >= a \/ a >= 68
      BY <1>2
    <3>2. 68 >= 68 /\ a >= a
      BY <1>2
    <3> QED
      BY <3>1, <3>2
  <2> QED
    BY <2>1 DEF Max
<1>4. PICK m : m = Max({68, a})
  OBVIOUS
<1>5. m \in 68 .. 92
  BY <1>2, <1>3, <1>4
<1>6. Min({86, m}) \in {86, m} /\ 86 >= Min({86, m})
  <2>1. \E x \in {86, m} : \A y \in {86, m} : y >= x
    <3>1. 86 >= m \/ m >= 86
      BY <1>5
    <3>2. 86 >= 86 /\ m >= m
      BY <1>5
    <3> QED
      BY <3>1, <3>2
  <2> QED
    BY <2>1 DEF Min
<1>7. Min({86, m}) \in 68 .. 86
  BY <1>5, <1>6
<1> QED
  BY <1>1, <1>4, <1>7 DEF BridgeEdge

LEMMA SinglesAreForest ==
  ASSUME NEW tree, NEW gs, tree = [m \in Members |-> m], gs = [m \in Members |-> {m}]
  PROVE  Forest(tree, gs)
<1>1. \A r \in DOMAIN gs : r \in gs[r] /\ gs[r] \subseteq Members /\ tree[r] = r /\ Closed(tree, gs[r])
  BY DEF Closed
<1>2. \A r \in DOMAIN gs : \A S \in SUBSET gs[r] : S # {} /\ Closed(tree, S) => r \in S
  OBVIOUS
<1> QED
  BY <1>1, <1>2 DEF Forest

LEMMA NoPairWithinOne == ASSUME NEW m PROVE Between({m}, {m}) = {}
<1>1. ASSUME NEW key \in Keys, key[1] = m, key[2] = m PROVE FALSE
  <2>1. key[1] \in Nat /\ key[1] < key[2]
    BY GraphAssumption DEF Keys
  <2> QED
    BY <1>1, <2>1
<1> QED
  BY <1>1 DEF Between

LEMMA GuardNumbers ==
  ASSUME guard \in Guards
  PROVE  guard.support \in Nat /\ guard.threshold \in Nat /\ guard.threshold <= 68 /\ guard.size \in Nat /\ guard.size >= 1
<1>1. guard.threshold \in 0 .. 68 /\ guard.support \in 1 .. 100 /\ guard.size \in Nat \ {0}
  BY GraphAssumption
<1> QED
  BY <1>1

LEMMA GraphInitial == GraphInit => GraphInv
<1> SUFFICES ASSUME GraphInit PROVE GraphInv
  OBVIOUS
<1>1. PICK g \in [Keys \ Bridges -> Kinds] : graph = [key \in Keys |-> IF key \in Bridges THEN BridgeEdge ELSE g[key]]
  BY DEF GraphInit
<1>2. GraphTypeOK
  <2>1. \A key \in Keys : graph[key].p \in 0 .. 100
    <3> TAKE key \in Keys
    <3>1. CASE key \in Bridges
      <4>1. BridgeEdge.p \in 0 .. 100
        <5>1. BridgeEdge.p \in 68 .. 86
          BY BridgeIsStrong
        <5> QED
          BY <5>1
      <4> QED
        BY <1>1, <3>1, <4>1
    <3>2. CASE key \notin Bridges
      <4>1. g[key] \in Kinds
        BY <3>2
      <4> QED
        BY <1>1, <3>2, <4>1, GraphAssumption
    <3> QED
      BY <3>1, <3>2
  <2>2. \A key \in Bridges : graph[key].bridge /\ graph[key].p >= 68
    <3> TAKE key \in Bridges
    <3>1. graph[key] = BridgeEdge
      BY <1>1, GraphAssumption
    <3>2. BridgeEdge.p >= 68 /\ BridgeEdge.bridge
      <4>1. BridgeEdge.p \in 68 .. 86 /\ BridgeEdge.bridge
        BY BridgeIsStrong
      <4> QED
        BY <4>1
    <3> QED
      BY <3>1, <3>2
  <2> QED
    BY <2>1, <2>2 DEF GraphInit, GraphTypeOK
<1>3. Forest(parent, groups)
  BY SinglesAreForest DEF GraphInit
<1>4. CohortsHold
  <2> SUFFICES ASSUME guard # Unguarded, NEW r \in DOMAIN groups
               PROVE  Cardinality(groups[r]) <= guard.size /\ Supported(Between(groups[r], groups[r]))
    BY SupportedIs DEF CohortsHold
  <2>1. guard \in Guards
    BY DEF GraphInit
  <2>2. groups[r] = {r}
    BY DEF GraphInit
  <2>3. Cardinality({r}) = 1
    BY FS_Singleton
  <2>4. Supported({})
    BY <2>1, GuardNumbers, NoPairsSupported
  <2> QED
    BY <2>1, <2>2, <2>3, <2>4, GuardNumbers, NoPairWithinOne
<1>5. \A pairs : pairs = {} => JoinedBy(groups, pairs)
  <2> TAKE pairs
  <2> HAVE pairs = {}
  <2>1. \A r \in DOMAIN groups : groups[r] = {r}
    BY DEF GraphInit
  <2> QED
    BY <2>1 DEF JoinedBy
<1>6. DecisionsHold
  <2>1. CASE guard = Unguarded
    <3>1. Supporting(Keys \ pending) = {}
      BY DEF GraphInit, Supporting
    <3> QED
      BY <1>5, <2>1, <3>1 DEF DecisionsHold
  <2>2. CASE guard # Unguarded
    <3>1. MergedKeys = {} /\ Merges = {} /\ decisions = {} /\ pending = Keys /\ DOMAIN groups = Members
      BY DEF GraphInit, MergedKeys, Merges
    <3>2. IsFiniteSet({}) /\ Cardinality({}) = 0
      BY FS_EmptySet
    <3>3. Cardinality(Members) \in Nat
      BY GraphAssumption, FS_CardinalityType
    <3>4. Bridges \ pending = {}
      BY <3>1, GraphAssumption
    <3>5. Cardinality(Merges) + Cardinality(DOMAIN groups) = Cardinality(Members)
      BY <3>1, <3>2, <3>3
    <3> QED
      BY <1>5, <2>2, <3>1, <3>2, <3>4, <3>5 DEF DecisionsHold
  <2> QED
    BY <2>1, <2>2
<1> QED
  BY <1>2, <1>3, <1>4, <1>6 DEF GraphInv

------------------------------------------------------------------------------
(* The clustering: its steps *)

LEMMA BothSidesAreSessions == ASSUME NEW key \in Keys PROVE key[1] \in Members /\ key[2] \in Members
  BY DEF Keys

LEMMA FindBothKeepsForest ==
  ASSUME NEW tree, NEW gs, Forest(tree, gs), NEW key \in Keys
  PROVE  Forest(FindBoth(tree, key), gs)
<1>1. PICK t : t = Find(tree, key[1])
  OBVIOUS
<1>2. Forest(t, gs)
  BY <1>1, BothSidesAreSessions, FindKeepsForest
<1>3. Forest(Find(t, key[2]), gs)
  BY <1>2, BothSidesAreSessions, FindKeepsForest
<1> QED
  BY <1>1, <1>3 DEF FindBoth

\* What Union does: one of two groups goes into the other.
LEMMA UnionMerges ==
  ASSUME Forest(parent, groups), NEW key \in Keys, ~Joined(key), Union(key)
  PROVE  \E keep \in DOMAIN groups, drop \in DOMAIN groups :
           /\ keep # drop /\ groups' = Merged(groups, keep, drop) /\ Forest(parent', groups')
           /\ \/ GroupOf(key[1]) = groups[keep] /\ GroupOf(key[2]) = groups[drop]
              \/ GroupOf(key[1]) = groups[drop] /\ GroupOf(key[2]) = groups[keep]
           /\ \/ key[1] \in groups[keep] /\ key[2] \in groups[drop]
              \/ key[1] \in groups[drop] /\ key[2] \in groups[keep]
<1>1. PICK l, r : l = Root(parent, key[1]) /\ r = Root(parent, key[2])
  OBVIOUS
<1>2. l \in DOMAIN groups /\ key[1] \in groups[l]
  BY <1>1, BothSidesAreSessions, EveryHasGroup
<1>3. r \in DOMAIN groups /\ key[2] \in groups[r]
  BY <1>1, BothSidesAreSessions, EveryHasGroup
<1>4. l # r
  BY <1>1 DEF Joined
<1>5. GroupOf(key[1]) = groups[l] /\ GroupOf(key[2]) = groups[r]
  BY <1>1 DEF GroupOf
<1>6. PICK keep : keep = IF Cardinality(groups[l]) < Cardinality(groups[r]) THEN r ELSE l
  OBVIOUS
<1>7. PICK drop : drop = IF keep = l THEN r ELSE l
  OBVIOUS
<1>8. (keep = l /\ drop = r) \/ (keep = r /\ drop = l)
  BY <1>4, <1>6, <1>7
<1>9. /\ parent' = [FindBoth(parent, key) EXCEPT ![drop] = keep]
      /\ groups' = [root \in DOMAIN groups \ {drop} |->
                      IF root = keep THEN groups[l] \cup groups[r] ELSE groups[root]]
  BY <1>1, <1>6, <1>7 DEF Union
<1>10. groups[l] \cup groups[r] = groups[keep] \cup groups[drop]
  BY <1>8
<1>11. groups' = Merged(groups, keep, drop)
  BY <1>9, <1>10 DEF Merged
<1>12. keep \in DOMAIN groups /\ drop \in DOMAIN groups /\ keep # drop
  BY <1>2, <1>3, <1>4, <1>8
<1>13. PICK t : t = FindBoth(parent, key)
  OBVIOUS
<1>14. Forest(t, groups)
  BY <1>13, FindBothKeepsForest
<1>15. Forest([t EXCEPT ![drop] = keep], Merged(groups, keep, drop))
  BY <1>12, <1>14, UnionKeepsForest
<1>16. Forest(parent', groups')
  BY <1>9, <1>11, <1>13, <1>15
<1>17. \/ GroupOf(key[1]) = groups[keep] /\ GroupOf(key[2]) = groups[drop]
       \/ GroupOf(key[1]) = groups[drop] /\ GroupOf(key[2]) = groups[keep]
  BY <1>5, <1>8
<1>18. \/ key[1] \in groups[keep] /\ key[2] \in groups[drop]
       \/ key[1] \in groups[drop] /\ key[2] \in groups[keep]
  BY <1>2, <1>3, <1>8
<1> QED
  BY <1>11, <1>12, <1>16, <1>17, <1>18

LEMMA MergedGroups ==
  ASSUME NEW tree, NEW gs, Forest(tree, gs), NEW keep \in DOMAIN gs, NEW drop \in DOMAIN gs, keep # drop,
         NEW hs, hs = Merged(gs, keep, drop)
  PROVE  /\ DOMAIN hs = DOMAIN gs \ {drop} /\ keep \in DOMAIN hs
         /\ hs[keep] = gs[keep] \cup gs[drop] /\ gs[keep] \cap gs[drop] = {}
         /\ gs[keep] \in SUBSET Members /\ gs[drop] \in SUBSET Members
         /\ \A q \in DOMAIN hs : q \in DOMAIN gs /\ (q # keep => hs[q] = gs[q])
<1>1. /\ DOMAIN hs = DOMAIN gs \ {drop} /\ hs[keep] = gs[keep] \cup gs[drop] /\ keep \in DOMAIN hs
      /\ \A q \in DOMAIN hs : q \in DOMAIN gs /\ (q # keep => hs[q] = gs[q])
  BY DEF Merged
<1>2. gs[keep] \cap gs[drop] = {} /\ gs[keep] \in SUBSET Members /\ gs[drop] \in SUBSET Members
  BY DEF Forest
<1> QED
  BY <1>1, <1>2

\* More pairs of one group each connect what was connected.
LEMMA JoinedGrows ==
  ASSUME NEW gs, NEW pairs, JoinedBy(gs, pairs), NEW key, NEW r \in DOMAIN gs, key[1] \in gs[r], key[2] \in gs[r]
  PROVE  JoinedBy(gs, pairs \cup {key})
BY DEF JoinedBy

\* A pair across two groups connects the two.
LEMMA JoinedMerges ==
  ASSUME NEW tree, NEW gs, Forest(tree, gs), NEW pairs, JoinedBy(gs, pairs),
         NEW keep \in DOMAIN gs, NEW drop \in DOMAIN gs, keep # drop, NEW key \in Keys,
         \/ key[1] \in gs[keep] /\ key[2] \in gs[drop]
         \/ key[1] \in gs[drop] /\ key[2] \in gs[keep]
  PROVE  JoinedBy(Merged(gs, keep, drop), pairs \cup {key})
<1>1. PICK hs : hs = Merged(gs, keep, drop)
  OBVIOUS
<1>2. PICK A, B : A = gs[keep] /\ B = gs[drop]
  OBVIOUS
<1>3. /\ DOMAIN hs = DOMAIN gs \ {drop} /\ keep \in DOMAIN hs /\ hs[keep] = A \cup B /\ A \cap B = {}
      /\ \A q \in DOMAIN hs : q \in DOMAIN gs /\ (q # keep => hs[q] = gs[q])
  <2>1. /\ DOMAIN hs = DOMAIN gs \ {drop} /\ keep \in DOMAIN hs
        /\ hs[keep] = gs[keep] \cup gs[drop] /\ gs[keep] \cap gs[drop] = {}
        /\ \A q \in DOMAIN hs : q \in DOMAIN gs /\ (q # keep => hs[q] = gs[q])
    BY <1>1, MergedGroups
  <2> QED
    BY <1>2, <2>1
<1>4. ASSUME NEW other \in pairs \cup {key}
      PROVE  \E q \in DOMAIN hs : other[1] \in hs[q] /\ other[2] \in hs[q]
  <2>1. CASE other = key
    BY <1>2, <1>3, <2>1
  <2>2. CASE other \in pairs
    <3>1. PICK q \in DOMAIN gs : other[1] \in gs[q] /\ other[2] \in gs[q]
      BY <2>2 DEF JoinedBy
    <3>2. CASE q = keep \/ q = drop
      BY <1>2, <1>3, <3>1, <3>2
    <3>3. CASE q # keep /\ q # drop
      BY <1>3, <3>1, <3>3
    <3> QED
      BY <3>2, <3>3
  <2> QED
    BY <2>1, <2>2
<1>5. ASSUME NEW q \in DOMAIN hs, NEW part \in SUBSET hs[q], part # {}, part # hs[q]
      PROVE  Between(part, hs[q] \ part) \cap (pairs \cup {key}) # {}
  <2>1. CASE q # keep
    <3>1. hs[q] = gs[q] /\ q \in DOMAIN gs
      BY <1>3, <2>1
    <3> QED
      BY <1>5, <3>1 DEF JoinedBy
  <2>2. CASE q = keep
    <3>1. hs[q] = A \cup B
      BY <1>3, <2>2
    <3>2. CASE part \cap A # {} /\ part \cap A # A
      <4>1. PICK pair \in Between(part \cap A, A \ (part \cap A)) \cap pairs : TRUE
        BY <1>2, <3>2 DEF JoinedBy
      <4>2. pair \in Between(part, hs[q] \ part)
        BY <3>1, <4>1 DEF Between
      <4> QED
        BY <4>1, <4>2
    <3>3. CASE part \cap B # {} /\ part \cap B # B
      <4>1. PICK pair \in Between(part \cap B, B \ (part \cap B)) \cap pairs : TRUE
        BY <1>2, <3>3 DEF JoinedBy
      <4>2. pair \in Between(part, hs[q] \ part)
        BY <3>1, <4>1 DEF Between
      <4> QED
        BY <4>1, <4>2
    <3>4. CASE (part \cap A = {} \/ part \cap A = A) /\ (part \cap B = {} \/ part \cap B = B)
      <4>1. part = A \/ part = B
        BY <1>3, <1>5, <3>1, <3>4
      <4>2. key \in Between(part, hs[q] \ part)
        BY <1>2, <1>3, <3>1, <4>1 DEF Between
      <4> QED
        BY <4>2
    <3> QED
      BY <3>2, <3>3, <3>4
  <2> QED
    BY <2>1, <2>2
<1>6. JoinedBy(hs, pairs \cup {key})
  BY <1>4, <1>5 DEF JoinedBy
<1> QED
  BY <1>1, <1>6

LEMMA PassStep ==
  ASSUME GraphTypeOK, NEW key \in Keys, Due(key), Pass(key)
  PROVE  /\ GraphTypeOK' /\ key \in pending /\ pending' = pending \ {key} /\ graph' = graph /\ guard' = guard
         /\ Supporting(Keys \ pending)' = Supporting(Keys \ pending)
                                            \cup (IF graph[key].p >= guard.threshold THEN {key} ELSE {})
<1>1. key \in pending /\ pending' = pending \ {key} /\ graph' = graph /\ guard' = guard
  BY DEF Due, Pass
<1>2. GraphTypeOK'
  BY <1>1 DEF GraphTypeOK
<1>3. Keys \ pending' = (Keys \ pending) \cup {key}
  BY <1>1
<1>4. Supporting(Keys \ pending)' = {k \in Keys \ pending' : graph[k].p >= guard.threshold}
  BY <1>1 DEF Supporting
<1> QED
  BY <1>1, <1>2, <1>3, <1>4 DEF Supporting

LEMMA DecisionFields ==
  ASSUME NEW key \in Keys
  PROVE  Decision(key).key = key /\ Decision(key).bridge = graph[key].bridge /\ (Decision(key).merge <=> Allowed(key))
BY DEF Decision

LEMMA BelowStep == ASSUME GraphInv, BelowThreshold PROVE GraphInv'
<1>1. PICK key \in Keys : /\ Due(key) /\ Pass(key) /\ graph[key].p < guard.threshold
                          /\ UNCHANGED <<parent, groups, decisions>>
  BY DEF BelowThreshold
<1>2. /\ GraphTypeOK' /\ key \in pending /\ pending' = pending \ {key} /\ graph' = graph /\ guard' = guard
      /\ Supporting(Keys \ pending)' = Supporting(Keys \ pending)
                                         \cup (IF graph[key].p >= guard.threshold THEN {key} ELSE {})
  BY <1>1, PassStep DEF GraphInv
<1>3. PICK p, h : p = graph[key].p /\ h = guard.threshold
  OBVIOUS
<1>4. p \in Nat /\ h \in Nat
  <2>1. p \in 0 .. 100
    BY <1>3 DEF GraphInv, GraphTypeOK
  <2>2. h \in 0 .. 100
    <3>1. CASE guard = Unguarded
      BY <1>3, <3>1, GraphAssumption DEF Unguarded
    <3>2. CASE guard \in Guards
      BY <1>3, <3>2, GuardNumbers
    <3> QED
      BY <3>1, <3>2 DEF GraphInv, GraphTypeOK
  <2> QED
    BY <2>1, <2>2
<1>5. ~(p >= h)
  BY <1>1, <1>3, <1>4
<1>6. Supporting(Keys \ pending)' = Supporting(Keys \ pending)
  BY <1>2, <1>3, <1>5
<1>7. CohortsHold'
  BY <1>1, <1>2 DEF GraphInv, CohortsHold
<1>8. DecisionsHold'
  <2>1. CASE guard = Unguarded
    BY <1>1, <1>2, <1>6, <2>1 DEF GraphInv, DecisionsHold
  <2>2. CASE guard # Unguarded
    <3>1. key \notin Bridges
      <4> SUFFICES ASSUME key \in Bridges PROVE FALSE
        OBVIOUS
      <4>1. p >= 68
        BY <1>3 DEF GraphInv, GraphTypeOK
      <4>2. h <= 68
        BY <1>3, <2>2, GuardNumbers DEF GraphInv, GraphTypeOK
      <4> QED
        BY <1>4, <1>5, <4>1, <4>2
    <3>2. Bridges \ pending' = Bridges \ pending /\ Keys \ pending \subseteq Keys \ pending'
      BY <1>2, <3>1
    <3>3. MergedKeys' = MergedKeys /\ Merges' = Merges /\ BridgeDecisions' = BridgeDecisions
      BY <1>1 DEF MergedKeys, Merges, BridgeDecisions
    <3> QED
      BY <1>1, <1>2, <2>2, <3>2, <3>3 DEF GraphInv, DecisionsHold
  <2> QED
    BY <2>1, <2>2
<1> QED
  BY <1>1, <1>2, <1>7, <1>8 DEF GraphInv

LEMMA AlreadyJoinedStep == ASSUME GraphInv, AlreadyJoined PROVE GraphInv'
<1>1. PICK key \in Keys : /\ Due(key) /\ Pass(key) /\ Joined(key)
                          /\ parent' = FindBoth(parent, key) /\ groups' = groups /\ decisions' = decisions
  BY DEF AlreadyJoined
<1>2. /\ GraphTypeOK' /\ key \in pending /\ pending' = pending \ {key} /\ graph' = graph /\ guard' = guard
      /\ Supporting(Keys \ pending)' = Supporting(Keys \ pending)
                                         \cup (IF graph[key].p >= guard.threshold THEN {key} ELSE {})
  BY <1>1, PassStep DEF GraphInv
<1>3. Forest(parent', groups')
  <2>1. PICK t : t = FindBoth(parent, key)
    OBVIOUS
  <2>2. Forest(t, groups)
    BY <2>1, FindBothKeepsForest DEF GraphInv
  <2> QED
    BY <1>1, <2>1, <2>2
<1>4. PICK r \in DOMAIN groups : key[1] \in groups[r] /\ key[2] \in groups[r]
  <2>1. PICK q : q = Root(parent, key[1])
    OBVIOUS
  <2>2. q \in DOMAIN groups /\ key[1] \in groups[q]
    BY <2>1, BothSidesAreSessions, EveryHasGroup DEF GraphInv
  <2>3. Root(parent, key[2]) \in DOMAIN groups /\ key[2] \in groups[Root(parent, key[2])]
    BY BothSidesAreSessions, EveryHasGroup DEF GraphInv
  <2> QED
    BY <1>1, <2>1, <2>2, <2>3 DEF Joined
<1>5. CohortsHold'
  BY <1>1, <1>2 DEF GraphInv, CohortsHold
<1>6. DecisionsHold'
  <2>1. CASE guard = Unguarded
    <3>1. JoinedBy(groups, Supporting(Keys \ pending))
      BY <2>1 DEF GraphInv, DecisionsHold
    <3>2. JoinedBy(groups, Supporting(Keys \ pending) \cup {key})
      BY <1>4, <3>1, JoinedGrows
    <3>3. JoinedBy(groups, Supporting(Keys \ pending)')
      BY <1>2, <3>1, <3>2
    <3> QED
      BY <1>1, <1>2, <2>1, <3>3 DEF DecisionsHold
  <2>2. CASE guard # Unguarded
    <3>1. MergedKeys' = MergedKeys /\ Merges' = Merges /\ BridgeDecisions' = BridgeDecisions
      BY <1>1 DEF MergedKeys, Merges, BridgeDecisions
    <3>2. Keys \ pending \subseteq Keys \ pending' /\ Bridges \ pending' \subseteq (Bridges \ pending) \cup {key}
      BY <1>2
    <3> QED
      BY <1>1, <1>2, <1>4, <2>2, <3>1, <3>2 DEF GraphInv, DecisionsHold
  <2> QED
    BY <2>1, <2>2
<1> QED
  BY <1>2, <1>3, <1>5, <1>6 DEF GraphInv

LEMMA JoinUnguardedStep == ASSUME GraphInv, JoinUnguarded PROVE GraphInv'
<1>1. PICK key \in Keys : /\ Due(key) /\ Pass(key) /\ guard = Unguarded /\ ~Joined(key) /\ Union(key)
                          /\ graph[key].p >= guard.threshold
  BY DEF JoinUnguarded
<1>2. /\ GraphTypeOK' /\ guard' = guard
      /\ Supporting(Keys \ pending)' = Supporting(Keys \ pending)
                                         \cup (IF graph[key].p >= guard.threshold THEN {key} ELSE {})
  BY <1>1, PassStep DEF GraphInv
<1>3. PICK keep \in DOMAIN groups, drop \in DOMAIN groups :
        /\ keep # drop /\ groups' = Merged(groups, keep, drop) /\ Forest(parent', groups')
        /\ \/ key[1] \in groups[keep] /\ key[2] \in groups[drop]
           \/ key[1] \in groups[drop] /\ key[2] \in groups[keep]
  BY <1>1, UnionMerges DEF GraphInv
<1>4. JoinedBy(groups, Supporting(Keys \ pending))
  BY <1>1 DEF GraphInv, DecisionsHold
<1>5. JoinedBy(Merged(groups, keep, drop), Supporting(Keys \ pending) \cup {key})
  BY <1>3, <1>4, JoinedMerges DEF GraphInv
<1>6. JoinedBy(groups', Supporting(Keys \ pending)')
  BY <1>1, <1>2, <1>3, <1>5
<1>7. DecisionsHold' /\ CohortsHold'
  BY <1>1, <1>2, <1>6 DEF DecisionsHold, CohortsHold, Unguarded
<1> QED
  BY <1>2, <1>3, <1>7 DEF GraphInv

\* What the guard has let through supports the pairs across the two groups.
LEMMA AllowedSupportsCross ==
  ASSUME GraphTypeOK, guard # Unguarded, NEW key \in Keys, Allowed(key), key \in Cross(key), Cross(key) \subseteq Keys
  PROVE  SupportedIn(graph, guard, Cross(key))
<1>1. guard \in Guards
  BY DEF GraphTypeOK
<1>2. CASE Cardinality(Cross(key)) = 1
  <2>1. IsFiniteSet(Cross(key))
    BY PairsAreFinite
  <2>2. \E x : Cross(key) = {x}
    BY <1>2, <2>1, FS_Singleton
  <2>3. Cross(key) = {key}
    BY <2>2
  <2>4. graph[key].p >= guard.seed
    BY <1>2 DEF Allowed
  <2>5. Supported({key})
    BY <1>1, <2>4, SeedSupports DEF GraphTypeOK
  <2> QED
    BY <2>3, <2>5, SupportedIs
<1>3. CASE Cardinality(Cross(key)) # 1
  <2>1. CohortGate(Cross(key))
    BY <1>3 DEF Allowed
  <2>2. Supported(Cross(key))
    BY <2>1 DEF CohortGate, Supported
  <2> QED
    BY <2>2, SupportedIs
<1> QED
  BY <1>2, <1>3

LEMMA MergeKeepsCohorts ==
  ASSUME GraphTypeOK, Forest(parent, groups), CohortsHold, guard # Unguarded, NEW key \in Keys, Allowed(key),
         NEW keep \in DOMAIN groups, NEW drop \in DOMAIN groups, keep # drop,
         \/ GroupOf(key[1]) = groups[keep] /\ GroupOf(key[2]) = groups[drop]
         \/ GroupOf(key[1]) = groups[drop] /\ GroupOf(key[2]) = groups[keep],
         \/ key[1] \in groups[keep] /\ key[2] \in groups[drop]
         \/ key[1] \in groups[drop] /\ key[2] \in groups[keep],
         NEW hs, hs = Merged(groups, keep, drop)
  PROVE  \A q \in DOMAIN hs : Cardinality(hs[q]) <= guard.size /\ SupportedIn(graph, guard, Between(hs[q], hs[q]))
<1>1. /\ DOMAIN hs = DOMAIN groups \ {drop} /\ hs[keep] = groups[keep] \cup groups[drop]
      /\ groups[keep] \cap groups[drop] = {} /\ groups[keep] \in SUBSET Members /\ groups[drop] \in SUBSET Members
      /\ \A q \in DOMAIN hs : q \in DOMAIN groups /\ (q # keep => hs[q] = groups[q])
  <2>1. Forest(parent, groups)
    OBVIOUS
  <2>2. hs = Merged(groups, keep, drop)
    OBVIOUS
  <2> QED
    <3>1. \A q \in DOMAIN hs : q \in DOMAIN groups /\ (q # keep => hs[q] = groups[q])
      BY <2>2 DEF Merged
    <3>2. /\ DOMAIN hs = DOMAIN groups \ {drop} /\ hs[keep] = groups[keep] \cup groups[drop]
          /\ groups[keep] \cap groups[drop] = {} /\ groups[keep] \in SUBSET Members /\ groups[drop] \in SUBSET Members
      BY <2>1, <2>2, MergedGroups
    <3> QED
      BY <3>1, <3>2
<1>2. PICK A, B : A = groups[keep] /\ B = groups[drop]
  OBVIOUS
<1>3. A \in SUBSET Members /\ B \in SUBSET Members /\ A \cap B = {}
  BY <1>1, <1>2
<1>4. Cross(key) = Between(A, B)
  <2>1. Between(A, B) = Between(B, A)
    BY DEF Between
  <2> QED
    BY <1>2, <2>1 DEF Cross
<1>5. key \in Between(A, B)
  BY <1>2 DEF Between
<1>6. Between(A, B) \subseteq Keys
  BY DEF Between
<1>7. guard \in Guards /\ guard.support \in Nat /\ guard.threshold \in Nat
  BY GuardNumbers DEF GraphTypeOK
<1>8. Supported(Between(A, B))
  BY <1>4, <1>5, <1>6, AllowedSupportsCross, SupportedIs
<1>9. Supported(Between(A, A)) /\ Supported(Between(B, B))
  BY <1>2, SupportedIs DEF CohortsHold
<1>10. /\ Between(A \cup B, A \cup B) = Between(A, A) \cup Between(B, B) \cup Between(A, B)
       /\ Between(A, A) \cap Between(B, B) = {}
       /\ Between(A, A) \cap Between(A, B) = {} /\ Between(B, B) \cap Between(A, B) = {}
       /\ Between(A, A) \in SUBSET Keys /\ Between(B, B) \in SUBSET Keys /\ Between(A, B) \in SUBSET Keys
  BY <1>3, PairsOfUnion
<1>11. Supported(Between(A \cup B, A \cup B))
  <2>1. PICK P, Q, R : P = Between(A, A) /\ Q = Between(B, B) /\ R = Between(A, B)
    OBVIOUS
  <2>2. Supported(P) /\ Supported(Q) /\ Supported(R)
    BY <1>8, <1>9, <2>1
  <2>3. /\ P \in SUBSET Keys /\ Q \in SUBSET Keys /\ R \in SUBSET Keys
        /\ P \cap Q = {} /\ P \cap R = {} /\ Q \cap R = {}
    BY <1>10, <2>1
  <2>4. Supported(P \cup Q \cup R)
    <3>1. Scored
      BY DEF GraphTypeOK, Scored
    <3> QED
      BY <1>7, <2>2, <2>3, <3>1, SupportAdds
  <2> QED
    BY <1>10, <2>1, <2>4
<1>12. Cardinality(A \cup B) <= guard.size
  <2>1. IsFiniteSet(A) /\ IsFiniteSet(B)
    BY <1>3, GraphAssumption, FS_Subset
  <2>2. PICK a, b : a = Cardinality(A) /\ b = Cardinality(B)
    OBVIOUS
  <2>3. a \in Nat /\ b \in Nat
    BY <2>1, <2>2, FS_CardinalityType
  <2>4. Cardinality(A \cup B) = a + b
    <3>1. Cardinality(A \cup B) = a + b - Cardinality(A \cap B)
      BY <2>1, <2>2, FS_Union
    <3>2. Cardinality(A \cap B) = 0
      BY <1>3, FS_EmptySet
    <3> QED
      BY <2>3, <3>1, <3>2
  <2>5. ProposedSize(key) = a + b
    <3>1. a + b = b + a
      BY <2>3
    <3> QED
      BY <1>2, <2>2, <3>1 DEF ProposedSize
  <2> QED
    BY <2>4, <2>5 DEF Allowed
<1>13. ASSUME NEW q \in DOMAIN hs
       PROVE  Cardinality(hs[q]) <= guard.size /\ SupportedIn(graph, guard, Between(hs[q], hs[q]))
  <2>1. CASE q = keep
    BY <1>1, <1>2, <1>11, <1>12, <2>1, SupportedIs
  <2>2. CASE q # keep
    BY <1>1, <2>2 DEF CohortsHold
  <2> QED
    BY <2>1, <2>2
<1> QED
  BY <1>13

LEMMA MergeStep == ASSUME GraphInv, Merge PROVE GraphInv'
<1>1. PICK key \in Keys : /\ Due(key) /\ Pass(key) /\ guard # Unguarded /\ ~Joined(key) /\ Allowed(key)
                          /\ Union(key) /\ decisions' = decisions \cup {Decision(key)}
  BY DEF Merge
<1>2. GraphTypeOK' /\ key \in pending /\ pending' = pending \ {key} /\ graph' = graph /\ guard' = guard
  BY <1>1, PassStep DEF GraphInv
<1>3. PICK keep \in DOMAIN groups, drop \in DOMAIN groups :
        /\ keep # drop /\ groups' = Merged(groups, keep, drop) /\ Forest(parent', groups')
        /\ \/ GroupOf(key[1]) = groups[keep] /\ GroupOf(key[2]) = groups[drop]
           \/ GroupOf(key[1]) = groups[drop] /\ GroupOf(key[2]) = groups[keep]
        /\ \/ key[1] \in groups[keep] /\ key[2] \in groups[drop]
           \/ key[1] \in groups[drop] /\ key[2] \in groups[keep]
  BY <1>1, UnionMerges DEF GraphInv
<1>4. PICK hs : hs = groups'
  OBVIOUS
<1>5. hs = Merged(groups, keep, drop)
  BY <1>3, <1>4
<1>6. \A q \in DOMAIN hs : Cardinality(hs[q]) <= guard.size /\ SupportedIn(graph, guard, Between(hs[q], hs[q]))
  BY <1>1, <1>3, <1>5, MergeKeepsCohorts DEF GraphInv
<1>7. CohortsHold'
  BY <1>2, <1>4, <1>6 DEF CohortsHold
<1>8. PICK d : d = Decision(key)
  OBVIOUS
<1>9. d.key = key /\ d.merge /\ d \notin decisions
  <2>1. d.key = key /\ d.merge
    BY <1>1, <1>8, DecisionFields
  <2>2. \A e \in decisions : e.key \notin pending
    BY <1>1 DEF GraphInv, DecisionsHold
  <2> QED
    BY <1>2, <2>1, <2>2
<1>10. MergedKeys' = MergedKeys \cup {key} /\ Merges' = Merges \cup {d} /\ BridgeDecisions \subseteq BridgeDecisions'
  BY <1>1, <1>8, <1>9 DEF MergedKeys, Merges, BridgeDecisions
<1>11. JoinedBy(groups', MergedKeys')
  <2>1. JoinedBy(groups, MergedKeys)
    BY <1>1 DEF GraphInv, DecisionsHold
  <2>2. JoinedBy(Merged(groups, keep, drop), MergedKeys \cup {key})
    BY <1>3, <2>1, JoinedMerges DEF GraphInv
  <2> QED
    BY <1>3, <1>10, <2>2
<1>12. IsFiniteSet(decisions') /\ \A e \in decisions' : e.key \in Keys \ pending'
  <2>1. IsFiniteSet(decisions) /\ \A e \in decisions : e.key \in Keys \ pending
    BY <1>1 DEF GraphInv, DecisionsHold
  <2>2. IsFiniteSet(decisions')
    BY <1>1, <2>1, FS_AddElement
  <2> QED
    BY <1>1, <1>2, <1>8, <1>9, <2>1, <2>2
<1>13. Cardinality(Merges') + Cardinality(DOMAIN groups') = Cardinality(Members)
  <2>1. IsFiniteSet(decisions) /\ Cardinality(Merges) + Cardinality(DOMAIN groups) = Cardinality(Members)
    BY <1>1 DEF GraphInv, DecisionsHold
  <2>2. IsFiniteSet(Merges) /\ d \notin Merges
    <3>1. Merges \in SUBSET decisions
      BY DEF Merges
    <3> QED
      BY <1>9, <2>1, <3>1, FS_Subset
  <2>3. IsFiniteSet(DOMAIN groups)
    <3>1. DOMAIN groups \in SUBSET Members
      BY DEF GraphInv, Forest
    <3> QED
      BY <3>1, GraphAssumption, FS_Subset
  <2>4. PICK m, n : m = Cardinality(Merges) /\ n = Cardinality(DOMAIN groups)
    OBVIOUS
  <2>5. m \in Nat /\ n \in Nat
    BY <2>2, <2>3, <2>4, FS_CardinalityType
  <2>6. Cardinality(Merges \cup {d}) = m + 1
    BY <2>2, <2>4, FS_AddElement
  <2>7. Cardinality(DOMAIN groups \ {drop}) = n - 1
    BY <2>3, <2>4, FS_RemoveElement
  <2>8. DOMAIN groups' = DOMAIN groups \ {drop}
    BY <1>3 DEF Merged
  <2>9. (m + 1) + (n - 1) = m + n
    BY <2>5
  <2> QED
    BY <1>10, <2>1, <2>4, <2>6, <2>7, <2>8, <2>9
<1>14. ASSUME NEW k \in Bridges \ pending'
       PROVE  \/ \E q \in DOMAIN groups' : k[1] \in groups'[q] /\ k[2] \in groups'[q]
              \/ \E e \in BridgeDecisions' : e.key = k /\ ~e.merge
  <2>1. /\ DOMAIN groups' = DOMAIN groups \ {drop} /\ keep \in DOMAIN groups'
        /\ groups'[keep] = groups[keep] \cup groups[drop]
        /\ \A q \in DOMAIN groups' : q # keep => groups'[q] = groups[q]
    BY <1>3 DEF Merged
  <2>2. CASE k = key
    BY <1>3, <2>1, <2>2
  <2>3. CASE k # key
    <3>1. k \in Bridges \ pending
      BY <1>2, <2>3
    <3>2. \/ \E q \in DOMAIN groups : k[1] \in groups[q] /\ k[2] \in groups[q]
          \/ \E e \in BridgeDecisions : e.key = k /\ ~e.merge
      BY <1>1, <3>1 DEF GraphInv, DecisionsHold
    <3>3. CASE \E q \in DOMAIN groups : k[1] \in groups[q] /\ k[2] \in groups[q]
      <4>1. PICK q \in DOMAIN groups : k[1] \in groups[q] /\ k[2] \in groups[q]
        BY <3>3
      <4>2. CASE q \in {keep, drop}
        BY <2>1, <4>1, <4>2
      <4>3. CASE q \notin {keep, drop}
        BY <2>1, <4>1, <4>3
      <4> QED
        BY <4>2, <4>3
    <3> QED
      BY <1>10, <3>2, <3>3
  <2> QED
    BY <2>2, <2>3
<1>15. DecisionsHold'
  BY <1>1, <1>2, <1>11, <1>12, <1>13, <1>14 DEF DecisionsHold
<1> QED
  BY <1>2, <1>3, <1>7, <1>15 DEF GraphInv

LEMMA RejectStep == ASSUME GraphInv, Reject PROVE GraphInv'
<1>1. PICK key \in Keys : /\ Due(key) /\ Pass(key) /\ guard # Unguarded /\ ~Allowed(key)
                          /\ parent' = FindBoth(parent, key) /\ groups' = groups
                          /\ decisions' = IF graph[key].bridge THEN decisions \cup {Decision(key)} ELSE decisions
  BY DEF Reject
<1>2. GraphTypeOK' /\ key \in pending /\ pending' = pending \ {key} /\ graph' = graph /\ guard' = guard
  BY <1>1, PassStep DEF GraphInv
<1>3. Forest(parent', groups')
  <2>1. PICK t : t = FindBoth(parent, key)
    OBVIOUS
  <2>2. Forest(t, groups)
    BY <2>1, FindBothKeepsForest DEF GraphInv
  <2> QED
    BY <1>1, <2>1, <2>2
<1>4. CohortsHold'
  BY <1>1, <1>2 DEF GraphInv, CohortsHold
<1>5. PICK d : d = Decision(key)
  OBVIOUS
<1>6. d.key = key /\ ~d.merge /\ d.bridge = graph[key].bridge
  BY <1>1, <1>5, DecisionFields
<1>7. MergedKeys' = MergedKeys /\ Merges' = Merges /\ BridgeDecisions \subseteq BridgeDecisions'
  BY <1>1, <1>5, <1>6 DEF MergedKeys, Merges, BridgeDecisions
<1>8. key \in Bridges => d \in BridgeDecisions'
  BY <1>1, <1>5, <1>6 DEF GraphInv, GraphTypeOK, BridgeDecisions
<1>9. IsFiniteSet(decisions') /\ \A e \in decisions' : e.key \in Keys \ pending'
  <2>1. IsFiniteSet(decisions) /\ \A e \in decisions : e.key \in Keys \ pending
    BY <1>1 DEF GraphInv, DecisionsHold
  <2>2. IsFiniteSet(decisions \cup {Decision(key)})
    BY <2>1, FS_AddElement
  <2> QED
    BY <1>1, <1>2, <1>5, <1>6, <2>1, <2>2
<1>10. ASSUME NEW k \in Bridges \ pending'
       PROVE  \/ \E q \in DOMAIN groups' : k[1] \in groups'[q] /\ k[2] \in groups'[q]
              \/ \E e \in BridgeDecisions' : e.key = k /\ ~e.merge
  <2>1. CASE k = key
    BY <1>6, <1>8, <2>1
  <2>2. CASE k # key
    <3>1. k \in Bridges \ pending
      BY <1>2, <2>2
    <3> QED
      BY <1>1, <1>7, <3>1 DEF GraphInv, DecisionsHold
  <2> QED
    BY <2>1, <2>2
<1>11. DecisionsHold'
  BY <1>1, <1>2, <1>7, <1>9, <1>10 DEF GraphInv, DecisionsHold
<1> QED
  BY <1>2, <1>3, <1>4, <1>11 DEF GraphInv

LEMMA GraphStutters == ASSUME GraphInv, UNCHANGED graphVars PROVE GraphInv'
<1>1. MergedKeys' = MergedKeys /\ Merges' = Merges /\ BridgeDecisions' = BridgeDecisions
  BY DEF graphVars, MergedKeys, Merges, BridgeDecisions
<1>2. Supporting(Keys \ pending)' = Supporting(Keys \ pending)
  BY DEF graphVars, Supporting
<1> QED
  BY <1>1, <1>2 DEF graphVars, GraphInv, GraphTypeOK, CohortsHold, DecisionsHold

LEMMA GraphInvariant == GraphSpec => []GraphInv
<1>1. GraphInv /\ [GraphNext]_graphVars => GraphInv'
  BY BelowStep, AlreadyJoinedStep, JoinUnguardedStep, MergeStep, RejectStep, GraphStutters DEF GraphNext
<1> QED
  BY GraphInitial, <1>1, PTL DEF GraphSpec

------------------------------------------------------------------------------
(* The clustering: its properties *)

LEMMA ClusterIsGroup ==
  ASSUME Forest(parent, groups), NEW r \in DOMAIN groups, NEW m \in groups[r]
  PROVE  ClusterOf(m) = groups[r]
<1>1. groups[r] \in Clusters
  BY DEF Clusters
<1>2. ASSUME NEW c \in Clusters, m \in c PROVE c = groups[r]
  BY <1>2 DEF Clusters, Forest
<1> QED
  BY <1>1, <1>2 DEF ClusterOf

LEMMA JoinedIsConnected ==
  ASSUME Forest(parent, groups), NEW pairs, JoinedBy(groups, pairs)
  PROVE  ClustersConnectedBy(pairs)
<1>1. \A key \in pairs : ClusterOf(key[1]) = ClusterOf(key[2])
  BY ClusterIsGroup DEF JoinedBy
<1>2. ASSUME NEW c \in Clusters, NEW part \in (SUBSET c) \ {{}, c} PROVE Between(part, c \ part) \cap pairs # {}
  <2>0. part \in SUBSET c /\ part # {} /\ part # c
    OBVIOUS
  <2>1. PICK r \in DOMAIN groups : c = groups[r]
    BY DEF Clusters
  <2>2. part \in SUBSET groups[r] /\ part # {} /\ part # groups[r]
    BY <2>0, <2>1
  <2>3. Between(part, groups[r] \ part) \cap pairs # {}
    BY <2>2 DEF JoinedBy
  <2> QED
    BY <2>1, <2>3
<1> QED
  BY <1>1, <1>2 DEF ClustersConnectedBy

LEMMA ClustersAreCounted ==
  ASSUME Forest(parent, groups)
  PROVE  Cardinality(Clusters) = Cardinality(DOMAIN groups)
<1> DEFINE f == [r \in DOMAIN groups |-> groups[r]]
<1>1. IsFiniteSet(DOMAIN groups)
  <2>1. DOMAIN groups \in SUBSET Members
    BY DEF Forest
  <2> QED
    BY <2>1, GraphAssumption, FS_Subset
<1>2. f \in Surjection(DOMAIN groups, Clusters)
  BY DEF Surjection, Clusters
<1>3. \A q \in DOMAIN groups, r \in DOMAIN groups : groups[q] = groups[r] => q = r
  BY DEF Forest
<1>4. f \in Injection(DOMAIN groups, Clusters)
  BY <1>3 DEF Injection, IsInjective, Clusters
<1> QED
  BY <1>1, <1>2, <1>4, FS_Surjection

\* No chain of merges forms a cohort that does not hold together as a whole
\* (guarded_components), for any sessions, scores, bridges and guards.
THEOREM CohortsAreAlwaysSupported == GraphSpec => []CohortsAreSupported
<1>1. GraphInv => CohortsAreSupported
  <2> SUFFICES ASSUME GraphInv, guard # Unguarded, NEW c \in Clusters
               PROVE  Cardinality(c) <= guard.size /\ Supported(Between(c, c))
    BY DEF CohortsAreSupported, Supported
  <2>1. PICK r \in DOMAIN groups : c = groups[r]
    BY DEF Clusters
  <2> QED
    BY <2>1, SupportedIs DEF GraphInv, CohortsHold
<1> QED
  BY GraphInvariant, <1>1, PTL

\* What was decided explains the clusters at every moment, and no bridge was
\* refused without a record, for any sessions, scores, bridges and guards.
THEOREM DecisionsAlwaysExplain == GraphSpec => []DecisionsExplainClusters
<1>1. GraphInv => DecisionsExplainClusters
  <2> SUFFICES ASSUME GraphInv PROVE DecisionsExplainClusters
    OBVIOUS
  <2>1. CASE guard = Unguarded
    BY <2>1, JoinedIsConnected DEF GraphInv, DecisionsHold, DecisionsExplainClusters
  <2>2. CASE guard # Unguarded
    <3>1. ClustersConnectedBy(MergedKeys)
      BY <2>2, JoinedIsConnected DEF GraphInv, DecisionsHold
    <3>2. Cardinality(Merges) + Cardinality(Clusters) = Cardinality(Members)
      BY <2>2, ClustersAreCounted DEF GraphInv, DecisionsHold
    <3>3. ASSUME NEW key \in Bridges \ pending
          PROVE  ClusterOf(key[1]) = ClusterOf(key[2]) \/ \E d \in BridgeDecisions : d.key = key /\ ~d.merge
      <4>1. CASE \E r \in DOMAIN groups : key[1] \in groups[r] /\ key[2] \in groups[r]
        BY <4>1, ClusterIsGroup DEF GraphInv
      <4> QED
        BY <2>2, <4>1 DEF GraphInv, DecisionsHold
    <3> QED
      BY <2>2, <3>1, <3>2, <3>3 DEF DecisionsExplainClusters, MergedKeys, Merges
  <2> QED
    BY <2>1, <2>2
<1> QED
  BY GraphInvariant, <1>1, PTL

------------------------------------------------------------------------------
(* The clustering: its metrics *)

LEMMA SessionsAreFinite ==
  ASSUME NEW S \in SUBSET Members
  PROVE  IsFiniteSet(S) /\ Cardinality(S) \in Nat /\ (S # {} => Cardinality(S) > 0)
<1>1. IsFiniteSet(S)
  BY GraphAssumption, FS_Subset
<1> QED
  BY <1>1, FS_CardinalityType, FS_EmptySet

\* Where a session is: in one cluster, and in one campaign.
LEMMA WhereSessionsAre ==
  ASSUME Forest(parent, groups), NEW m \in Members
  PROVE  /\ ClusterOf(m) \in Clusters /\ m \in ClusterOf(m) /\ ClusterOf(m) \in SUBSET Members
         /\ TruthOf(m) \in Truths /\ m \in TruthOf(m) /\ TruthOf(m) \in SUBSET Members
         /\ \A x \in ClusterOf(m) : ClusterOf(x) = ClusterOf(m)
         /\ \A x \in TruthOf(m) : TruthOf(x) = TruthOf(m)
<1>1. PICK r \in DOMAIN groups : m \in groups[r]
  BY EveryHasGroup
<1>2. ClusterOf(m) = groups[r] /\ \A x \in groups[r] : ClusterOf(x) = groups[r]
  BY <1>1, ClusterIsGroup
<1>3. groups[r] \in Clusters /\ groups[r] \in SUBSET Members
  BY DEF Clusters, Forest
<1> QED
  BY <1>1, <1>2, <1>3 DEF TruthOf, Truths

LEMMA ClustersPart ==
  ASSUME Forest(parent, groups)
  PROVE  /\ IsFiniteSet(Clusters) /\ UNION Clusters = Members /\ \A c, d \in Clusters : c # d => c \cap d = {}
         /\ \A c \in Clusters : c \in SUBSET Members /\ c # {} /\ \A m \in c : ClusterOf(m) = c
<1>1. \A c \in Clusters : c \in SUBSET Members /\ c # {} /\ \A m \in c : ClusterOf(m) = c
  <2> SUFFICES ASSUME NEW c \in Clusters PROVE c \in SUBSET Members /\ c # {} /\ \A m \in c : ClusterOf(m) = c
    OBVIOUS
  <2>1. PICK r \in DOMAIN groups : c = groups[r]
    BY DEF Clusters
  <2>2. c \in SUBSET Members /\ c # {}
    BY <2>1 DEF Forest
  <2>3. \A m \in c : ClusterOf(m) = c
    BY <2>1, ClusterIsGroup
  <2> QED
    BY <2>2, <2>3
<1>2. \A c, d \in Clusters : c # d => c \cap d = {}
  BY <1>1
<1>3. UNION Clusters = Members
  BY <1>1, WhereSessionsAre
<1>4. IsFiniteSet(Clusters)
  <2>1. IsFiniteSet(SUBSET Members)
    BY GraphAssumption, FS_SUBSET
  <2>2. Clusters \in SUBSET (SUBSET Members)
    BY <1>1
  <2> QED
    BY <2>1, <2>2, FS_Subset
<1> QED
  BY <1>1, <1>2, <1>3, <1>4

\* A part of a whole, in parts of Unit, and when it is all of it.
LEMMA PartsOfUnit ==
  ASSUME NEW a \in Nat, NEW n \in Nat, n > 0, a <= n
  PROVE  /\ (Unit * a) \div n \in Nat /\ (Unit * a) \div n <= Unit
         /\ (Unit * a) \div n = Unit <=> a = n
<1>1. Unit \in Nat /\ Unit > 0
  BY GraphAssumption
<1>2. PICK q : q = (Unit * a) \div n
  OBVIOUS
<1>3. PICK p : p = Unit * a
  OBVIOUS
<1>4. p \in Nat /\ p <= Unit * n
  BY <1>1, <1>3
<1>5. q \in Nat /\ q * n <= p /\ p < (q + 1) * n
  BY <1>2, <1>3, <1>4
<1>6. q <= Unit
  <2> SUFFICES ASSUME q >= Unit + 1 PROVE FALSE
    BY <1>1, <1>5
  <2>1. q * n >= (Unit + 1) * n
    BY <1>1, <1>5
  <2>2. (Unit + 1) * n = Unit * n + n
    BY <1>1
  <2>3. PICK x \in Nat : x = Unit * n
    BY <1>1
  <2> QED
    BY <1>4, <1>5, <2>1, <2>2, <2>3
<1>7. q = Unit => a = n
  <2> SUFFICES ASSUME q = Unit, a <= n - 1 PROVE FALSE
    OBVIOUS
  <2>1. Unit * a < Unit * n
    BY <1>1
  <2> QED
    BY <1>1, <1>3, <1>5, <2>1
<1>8. a = n => q = Unit
  <2> SUFFICES ASSUME a = n, q < Unit PROVE FALSE
    BY <1>1, <1>5, <1>6
  <2>1. q + 1 <= Unit
    BY <1>1, <1>5
  <2>2. (q + 1) * n <= Unit * n
    BY <1>1, <1>5, <2>1
  <2>3. p = Unit * n
    BY <1>3
  <2>4. PICK x \in Int, y \in Int : x = (q + 1) * n /\ y = Unit * n
    BY <1>1, <1>5
  <2> QED
    BY <1>4, <1>5, <2>2, <2>3, <2>4
<1> QED
  BY <1>1, <1>2, <1>5, <1>6, <1>7, <1>8

LEMMA SharedSessions ==
  ASSUME NEW c \in SUBSET Members, NEW t \in SUBSET Members
  PROVE  /\ Cardinality(c \cap t) \in Nat /\ Cardinality(c \cap t) <= Cardinality(c)
         /\ Cardinality(c \cap t) <= Cardinality(t)
         /\ Cardinality(c \cap t) = Cardinality(c) <=> c \subseteq t
         /\ Cardinality(c \cap t) = Cardinality(t) <=> t \subseteq c
<1>1. IsFiniteSet(c) /\ IsFiniteSet(t) /\ Cardinality(c \cap t) \in Nat
  <2>1. c \cap t \in SUBSET Members
    OBVIOUS
  <2> QED
    BY <2>1, SessionsAreFinite
<1>2. c \cap t \in SUBSET c /\ c \cap t \in SUBSET t
  OBVIOUS
<1>3. Cardinality(c \cap t) <= Cardinality(c) /\ (Cardinality(c) = Cardinality(c \cap t) => c = c \cap t)
  BY <1>1, <1>2, FS_Subset
<1>4. Cardinality(c \cap t) <= Cardinality(t) /\ (Cardinality(t) = Cardinality(c \cap t) => t = c \cap t)
  BY <1>1, <1>2, FS_Subset
<1>5. (c \subseteq t => c \cap t = c) /\ (t \subseteq c => c \cap t = t)
  OBVIOUS
<1>6. (c = c \cap t => c \subseteq t) /\ (t = c \cap t => t \subseteq c)
  OBVIOUS
<1> QED
  BY <1>1, <1>3, <1>4, <1>5, <1>6

\* No pair is merged wrongly, and none is missed.
NoneWrong == \A m \in Members : ClusterOf(m) \subseteq TruthOf(m)
NoneMissed == \A m \in Members : TruthOf(m) \subseteq ClusterOf(m)

Precision == [m \in Members |-> (Unit * Cardinality(ClusterOf(m) \cap TruthOf(m))) \div Cardinality(ClusterOf(m))]
Recall == [m \in Members |-> (Unit * Cardinality(ClusterOf(m) \cap TruthOf(m))) \div Cardinality(TruthOf(m))]

LEMMA SharesOfOne ==
  ASSUME Forest(parent, groups), NEW m \in Members
  PROVE  /\ Precision[m] \in Nat /\ Precision[m] <= Unit
         /\ Precision[m] = Unit <=> ClusterOf(m) \subseteq TruthOf(m)
         /\ Recall[m] \in Nat /\ Recall[m] <= Unit
         /\ Recall[m] = Unit <=> TruthOf(m) \subseteq ClusterOf(m)
<1>1. PICK c, t : c = ClusterOf(m) /\ t = TruthOf(m)
  OBVIOUS
<1>2. c \in SUBSET Members /\ t \in SUBSET Members /\ c # {} /\ t # {}
  BY <1>1, WhereSessionsAre
<1>3. PICK a, n, k : a = Cardinality(c \cap t) /\ n = Cardinality(c) /\ k = Cardinality(t)
  OBVIOUS
<1>4. n \in Nat /\ n > 0 /\ k \in Nat /\ k > 0
  BY <1>2, <1>3, SessionsAreFinite
<1>5. a \in Nat /\ a <= n /\ a <= k /\ (a = n <=> c \subseteq t) /\ (a = k <=> t \subseteq c)
  BY <1>2, <1>3, SharedSessions
<1>6. Precision[m] = (Unit * a) \div n /\ Recall[m] = (Unit * a) \div k
  BY <1>1, <1>3 DEF Precision, Recall
<1>7. (Unit * a) \div n \in Nat /\ (Unit * a) \div n <= Unit /\ ((Unit * a) \div n = Unit <=> a = n)
  BY <1>4, <1>5, PartsOfUnit
<1>8. (Unit * a) \div k \in Nat /\ (Unit * a) \div k <= Unit /\ ((Unit * a) \div k = Unit <=> a = k)
  BY <1>4, <1>5, PartsOfUnit
<1> QED
  BY <1>1, <1>5, <1>6, <1>7, <1>8

\* An average of numbers of at most Unit is Unit exactly when all are.
LEMMA PerfectAverage ==
  ASSUME NEW f, \A m \in Members : f[m] \in Nat /\ f[m] <= Unit
  PROVE  Counted(f, Members) /\ (SumFunctionOnSet(f, Members) = Unit * Cardinality(Members) <=> \A m \in Members : f[m] = Unit)
<1> DEFINE one == [m \in Members |-> Unit]
<1>1. Unit \in Nat /\ IsFiniteSet(Members)
  BY GraphAssumption
<1>2. Counted(f, Members) /\ Counted(one, Members)
  BY <1>1 DEF Counted
<1>3. \A m \in Members : one[m] = Unit
  OBVIOUS
<1> HIDE DEF one
<1>4. SumFunctionOnSet(one, Members) = Unit * Cardinality(Members)
  BY <1>1, <1>3, SumOfConstant
<1>5. \A m \in Members : f[m] <= one[m]
  BY <1>3
<1>6. SumFunctionOnSet(f, Members) = SumFunctionOnSet(one, Members) <=> \A m \in Members : f[m] = one[m]
  BY <1>2, <1>5, SumsCompare
<1> QED
  BY <1>2, <1>3, <1>4, <1>6

LEMMA PerfectPrecision ==
  ASSUME Forest(parent, groups)
  PROVE  BCubedPrecision = Unit * Cardinality(Members) <=> NoneWrong
<1>1. BCubedPrecision = SumFunctionOnSet(Precision, Members)
  BY DEF BCubedPrecision, SumFunction, Precision
<1>2. \A m \in Members : Precision[m] \in Nat /\ Precision[m] <= Unit
  BY SharesOfOne
<1>3. SumFunctionOnSet(Precision, Members) = Unit * Cardinality(Members) <=> \A m \in Members : Precision[m] = Unit
  BY <1>2, PerfectAverage
<1>4. (\A m \in Members : Precision[m] = Unit) <=> NoneWrong
  BY SharesOfOne DEF NoneWrong
<1> QED
  BY <1>1, <1>3, <1>4

LEMMA PerfectRecall ==
  ASSUME Forest(parent, groups)
  PROVE  BCubedRecall = Unit * Cardinality(Members) <=> NoneMissed
<1>1. BCubedRecall = SumFunctionOnSet(Recall, Members)
  BY DEF BCubedRecall, SumFunction, Recall
<1>2. \A m \in Members : Recall[m] \in Nat /\ Recall[m] <= Unit
  BY SharesOfOne
<1>3. SumFunctionOnSet(Recall, Members) = Unit * Cardinality(Members) <=> \A m \in Members : Recall[m] = Unit
  BY <1>2, PerfectAverage
<1>4. (\A m \in Members : Recall[m] = Unit) <=> NoneMissed
  BY SharesOfOne DEF NoneMissed
<1> QED
  BY <1>1, <1>3, <1>4

\* Two sessions make one pair.
LEMMA PairOf ==
  ASSUME NEW m \in Members, NEW x \in Members, m # x
  PROVE  \E key \in Keys : (key[1] = m /\ key[2] = x) \/ (key[1] = x /\ key[2] = m)
<1>1. m \in Nat /\ x \in Nat
  BY GraphAssumption
<1>2. CASE m < x
  <2>1. <<m, x>> \in Keys
    BY <1>2 DEF Keys
  <2> QED
    BY <2>1
<1>3. CASE x < m
  <2>1. <<x, m>> \in Keys
    BY <1>3 DEF Keys
  <2> QED
    BY <2>1
<1> QED
  BY <1>1, <1>2, <1>3

LEMMA PairsTogether ==
  ASSUME Forest(parent, groups), NEW key \in Keys
  PROVE  /\ key \in PairsWithin(Clusters) <=> key[2] \in ClusterOf(key[1])
         /\ key \in PairsWithin(Truths) <=> key[2] \in TruthOf(key[1])
         /\ key[1] \in Members /\ key[2] \in Members
<1>1. key[1] \in Members /\ key[2] \in Members
  BY BothSidesAreSessions
<1>2. PICK m, x : m = key[1] /\ x = key[2]
  OBVIOUS
<1>3. key \in PairsWithin(Clusters) <=> \E c \in Clusters : m \in c /\ x \in c
  BY <1>2 DEF PairsWithin, Between
<1>4. key \in PairsWithin(Truths) <=> \E t \in Truths : m \in t /\ x \in t
  BY <1>2 DEF PairsWithin, Between
<1>5. (\E c \in Clusters : m \in c /\ x \in c) <=> x \in ClusterOf(m)
  BY <1>1, <1>2, ClustersPart, WhereSessionsAre
<1>6. (\E t \in Truths : m \in t /\ x \in t) <=> x \in TruthOf(m)
  BY <1>1, <1>2 DEF Truths, TruthOf
<1> QED
  BY <1>1, <1>2, <1>3, <1>4, <1>5, <1>6

LEMMA WrongPairs == ASSUME Forest(parent, groups) PROVE FalsePositives = {} <=> NoneWrong
<1>1. ASSUME NEW m \in Members, NEW x \in ClusterOf(m) \ TruthOf(m) PROVE FalsePositives # {}
  <2>1. x \in Members /\ x # m /\ m \in ClusterOf(x) /\ m \notin TruthOf(x)
    <3>1. x \in Members /\ m \in TruthOf(m) /\ ClusterOf(x) = ClusterOf(m) /\ m \in ClusterOf(m)
      BY WhereSessionsAre
    <3>2. m \notin TruthOf(x)
      BY <3>1, WhereSessionsAre
    <3> QED
      BY <3>1, <3>2
  <2>2. PICK key \in Keys : (key[1] = m /\ key[2] = x) \/ (key[1] = x /\ key[2] = m)
    BY <2>1, PairOf
  <2>3. key[2] \in ClusterOf(key[1]) /\ key[2] \notin TruthOf(key[1])
    BY <2>1, <2>2
  <2> QED
    BY <2>3, PairsTogether DEF FalsePositives
<1>2. ASSUME NEW key \in FalsePositives PROVE ~NoneWrong
  <2>1. key \in Keys /\ key \in PairsWithin(Clusters) /\ key \notin PairsWithin(Truths)
    BY DEF FalsePositives, PairsWithin, Between
  <2>2. key[1] \in Members /\ key[2] \in ClusterOf(key[1]) /\ key[2] \notin TruthOf(key[1])
    BY <2>1, PairsTogether
  <2> QED
    BY <2>2 DEF NoneWrong
<1> QED
  BY <1>1, <1>2 DEF NoneWrong

LEMMA MissedPairs == ASSUME Forest(parent, groups) PROVE FalseNegatives = {} <=> NoneMissed
<1>1. ASSUME NEW m \in Members, NEW x \in TruthOf(m) \ ClusterOf(m) PROVE FalseNegatives # {}
  <2>1. x \in Members /\ x # m /\ m \in TruthOf(x) /\ m \notin ClusterOf(x)
    <3>1. x \in Members /\ m \in TruthOf(m) /\ TruthOf(x) = TruthOf(m) /\ m \in ClusterOf(m)
      BY WhereSessionsAre
    <3>2. m \notin ClusterOf(x)
      BY <3>1, WhereSessionsAre
    <3> QED
      BY <3>1, <3>2
  <2>2. PICK key \in Keys : (key[1] = m /\ key[2] = x) \/ (key[1] = x /\ key[2] = m)
    BY <2>1, PairOf
  <2>3. key[2] \in TruthOf(key[1]) /\ key[2] \notin ClusterOf(key[1])
    BY <2>1, <2>2
  <2> QED
    BY <2>3, PairsTogether DEF FalseNegatives
<1>2. ASSUME NEW key \in FalseNegatives PROVE ~NoneMissed
  <2>1. key \in Keys /\ key \in PairsWithin(Truths) /\ key \notin PairsWithin(Clusters)
    BY DEF FalseNegatives, PairsWithin, Between
  <2>2. key[1] \in Members /\ key[2] \in TruthOf(key[1]) /\ key[2] \notin ClusterOf(key[1])
    BY <2>1, PairsTogether
  <2> QED
    BY <2>2 DEF NoneMissed
<1> QED
  BY <1>1, <1>2 DEF NoneMissed

Best(c) == Max({Cardinality(c \cap t) : t \in Truths})

LEMMA BestOfCluster ==
  ASSUME Forest(parent, groups), NEW c \in Clusters
  PROVE  /\ Best(c) \in Nat /\ Best(c) <= Cardinality(c)
         /\ \A t \in Truths : Cardinality(c \cap t) <= Best(c)
         /\ \E t \in Truths : Cardinality(c \cap t) = Best(c)
<1> DEFINE S == {Cardinality(c \cap t) : t \in Truths}
<1>1. c \in SUBSET Members /\ c # {} /\ Cardinality(c) \in Nat
  BY ClustersPart, SessionsAreFinite
<1>2. \A t \in Truths : t \in SUBSET Members
  BY DEF Truths, TruthOf
<1>3. \A t \in Truths : Cardinality(c \cap t) \in Nat /\ Cardinality(c \cap t) <= Cardinality(c)
  BY <1>1, <1>2, SharedSessions
<1>4. S \in SUBSET Nat /\ \A n \in S : n <= Cardinality(c)
  BY <1>3
<1>5. S # {}
  <2>1. PICK m \in c : m \in Members
    BY <1>1
  <2>2. TruthOf(m) \in Truths
    BY <2>1 DEF Truths
  <2> QED
    BY <2>2
<1>6. \A t \in Truths : Cardinality(c \cap t) \in S
  OBVIOUS
<1>7. \A n \in S : \E t \in Truths : Cardinality(c \cap t) = n
  OBVIOUS
<1>8. Best(c) = Max(S)
  BY DEF Best
<1> HIDE DEF S
<1>9. PICK n \in S : \A k \in S : k <= n
  BY <1>1, <1>4, <1>5, GreatestOf
<1>10. Max(S) = n
  BY <1>4, <1>9, MaxIs
<1> QED
  BY <1>4, <1>6, <1>7, <1>8, <1>9, <1>10

BestOf == [c \in Clusters |-> Max({Cardinality(c \cap t) : t \in Truths})]

LEMMA PurityIs ==
  ASSUME Forest(parent, groups)
  PROVE  /\ Counted(BestOf, Clusters) /\ Purity = SumFunctionOnSet(BestOf, Clusters)
         /\ \A c \in Clusters : BestOf[c] = Best(c)
<1>1. \A c \in Clusters : BestOf[c] = Best(c)
  BY DEF BestOf, Best
<1>2. \A c \in Clusters : Best(c) \in Nat
  BY BestOfCluster
<1>3. IsFiniteSet(Clusters)
  BY ClustersPart
<1>4. Counted(BestOf, Clusters)
  BY <1>1, <1>2, <1>3 DEF Counted
<1>5. Purity = SumFunctionOnSet(BestOf, Clusters)
  BY DEF Purity, SumFunction, BestOf
<1> QED
  BY <1>1, <1>4, <1>5

LEMMA PerfectPurity ==
  ASSUME Forest(parent, groups)
  PROVE  Purity = Cardinality(Members) <=> NoneWrong
<1> DEFINE sizes == [c \in Clusters |-> Cardinality(c)]
           ones == [m \in Members |-> 1]
<1>1. \A c \in Clusters : c \in SUBSET Members /\ IsFiniteSet(c) /\ Cardinality(c) \in Nat
  BY ClustersPart, SessionsAreFinite
<1>2. \A c \in Clusters : sizes[c] = Cardinality(c)
  OBVIOUS
<1>3. \A m \in Members : ones[m] = 1
  OBVIOUS
<1> HIDE DEF sizes, ones
<1>4. ASSUME NEW c \in Clusters PROVE Counted(ones, c) /\ sizes[c] = SumFunctionOnSet(ones, c)
  <2>1. \A m \in c : ones[m] = 1
    BY <1>1, <1>3
  <2>2. IsFiniteSet(c) /\ Cardinality(c) \in Nat
    BY <1>1
  <2>3. SumFunctionOnSet(ones, c) = 1 * Cardinality(c)
    BY <2>1, <2>2, SumOfConstant
  <2>4. Counted(ones, c)
    BY <2>1, <2>2 DEF Counted
  <2> QED
    BY <1>2, <2>2, <2>3, <2>4
<1>5. IsFiniteSet(Clusters) /\ UNION Clusters = Members /\ \A c, d \in Clusters : c # d => c \cap d = {}
  BY ClustersPart
<1>6. Counted(sizes, Clusters) /\ SumFunctionOnSet(sizes, Clusters) = SumFunctionOnSet(ones, UNION Clusters)
  BY <1>4, <1>5, SumOfParts
<1>7. SumFunctionOnSet(sizes, Clusters) = Cardinality(Members)
  <2>1. SumFunctionOnSet(ones, Members) = 1 * Cardinality(Members)
    BY <1>3, GraphAssumption, SumOfConstant
  <2>2. Cardinality(Members) \in Nat
    BY SessionsAreFinite
  <2>3. SumFunctionOnSet(ones, Members) = Cardinality(Members)
    BY <2>1, <2>2
  <2> QED
    BY <1>5, <1>6, <2>3
<1>8. \A c \in Clusters : BestOf[c] <= sizes[c]
  BY <1>2, PurityIs, BestOfCluster
<1>9. Purity = Cardinality(Members) <=> \A c \in Clusters : BestOf[c] = sizes[c]
  BY <1>6, <1>7, <1>8, PurityIs, SumsCompare
<1>10. ASSUME NEW c \in Clusters PROVE BestOf[c] = sizes[c] <=> \E t \in Truths : c \subseteq t
  <2>1. BestOf[c] = Best(c) /\ sizes[c] = Cardinality(c)
    BY <1>2, PurityIs
  <2>2. ASSUME NEW t \in Truths
        PROVE  /\ Cardinality(c \cap t) \in Nat /\ Cardinality(c \cap t) <= Cardinality(c)
               /\ Cardinality(c \cap t) = Cardinality(c) <=> c \subseteq t
    <3>1. t \in SUBSET Members
      BY DEF Truths, TruthOf
    <3> QED
      BY <1>1, <3>1, SharedSessions
  <2>3. ASSUME BestOf[c] = sizes[c] PROVE \E t \in Truths : c \subseteq t
    <3>1. PICK t \in Truths : Cardinality(c \cap t) = Best(c)
      BY BestOfCluster
    <3> QED
      BY <2>1, <2>2, <2>3, <3>1
  <2>4. ASSUME NEW t \in Truths, c \subseteq t PROVE BestOf[c] = sizes[c]
    <3>1. Cardinality(c \cap t) = Cardinality(c)
      BY <2>2, <2>4
    <3>2. Best(c) \in Nat /\ Best(c) <= Cardinality(c) /\ Cardinality(c \cap t) <= Best(c) /\ Cardinality(c) \in Nat
      BY <1>1, BestOfCluster
    <3> QED
      BY <2>1, <3>1, <3>2
  <2> QED
    BY <2>3, <2>4
<1>11. (\A c \in Clusters : \E t \in Truths : c \subseteq t) <=> NoneWrong
  <2>1. ASSUME NEW m \in Members, NEW t \in Truths, ClusterOf(m) \subseteq t PROVE ClusterOf(m) \subseteq TruthOf(m)
    <3>1. m \in t
      BY <2>1, WhereSessionsAre
    <3>2. t = TruthOf(m)
      BY <3>1 DEF Truths, TruthOf
    <3> QED
      BY <2>1, <3>2
  <2>2. ASSUME NEW c \in Clusters, NoneWrong PROVE \E t \in Truths : c \subseteq t
    <3>1. PICK m \in c : m \in Members /\ ClusterOf(m) = c
      BY ClustersPart
    <3>2. TruthOf(m) \in Truths
      BY <3>1 DEF Truths
    <3> QED
      BY <2>2, <3>1, <3>2 DEF NoneWrong
  <2> QED
    BY <2>1, <2>2, WhereSessionsAre DEF NoneWrong
<1> QED
  BY <1>9, <1>10, <1>11

\* Within a cluster, precision averages at most the share of its largest
\* campaign.
LEMMA PrecisionWithin ==
  ASSUME Forest(parent, groups), NEW c \in Clusters
  PROVE  Counted(Precision, c) /\ SumFunctionOnSet(Precision, c) <= Unit * Best(c)
<1>1. c \in SUBSET Members /\ c # {} /\ \A m \in c : ClusterOf(m) = c
  BY ClustersPart
<1>2. IsFiniteSet(c) /\ Cardinality(c) \in Nat /\ Cardinality(c) > 0
  BY <1>1, SessionsAreFinite
<1>3. Counted(Precision, c)
  <2>1. \A m \in c : Precision[m] \in Nat
    BY <1>1, SharesOfOne
  <2> QED
    BY <1>2, <2>1 DEF Counted
<1>4. PICK n, b : n = Cardinality(c) /\ b = Best(c)
  OBVIOUS
<1>5. n \in Nat /\ n > 0 /\ b \in Nat /\ Unit \in Nat
  BY <1>2, <1>4, BestOfCluster, GraphAssumption
<1>6. PICK w : w = Unit * b
  OBVIOUS
<1>7. w \in Nat
  BY <1>5, <1>6
<1>8. PICK q : q = w \div n
  OBVIOUS
<1>9. q \in Nat /\ q * n <= w
  BY <1>5, <1>7, <1>8
<1>10. ASSUME NEW m \in c PROVE Precision[m] <= q
  <2>1. PICK a : a = Cardinality(c \cap TruthOf(m))
    OBVIOUS
  <2>2. a \in Nat /\ a <= b
    <3>1. TruthOf(m) \in Truths /\ TruthOf(m) \in SUBSET Members
      BY <1>1, WhereSessionsAre
    <3>2. a \in Nat
      BY <1>1, <2>1, <3>1, SharedSessions
    <3>3. a <= b
      BY <1>4, <2>1, <3>1, BestOfCluster
    <3> QED
      BY <3>2, <3>3
  <2>3. Precision[m] = (Unit * a) \div n
    BY <1>1, <1>4, <2>1 DEF Precision
  <2>4. PICK v : v = Unit * a
    OBVIOUS
  <2>5. v \in Nat /\ v <= w
    BY <1>5, <1>6, <2>2, <2>4
  <2>6. v \div n <= w \div n
    BY <1>5, <1>7, <2>5, QuotientGrows
  <2> QED
    BY <1>8, <2>3, <2>4, <2>6
<1> DEFINE same == [m \in c |-> q]
<1>11. \A m \in c : same[m] = q
  OBVIOUS
<1> HIDE DEF same
<1>12. SumFunctionOnSet(same, c) = q * n
  BY <1>2, <1>4, <1>9, <1>11, SumOfConstant
<1>13. Counted(same, c)
  BY <1>2, <1>9, <1>11 DEF Counted
<1>14. SumFunctionOnSet(Precision, c) <= SumFunctionOnSet(same, c)
  BY <1>3, <1>10, <1>11, <1>13, SumsCompare
<1>15. SumFunctionOnSet(Precision, c) \in Nat
  BY <1>3, SumType
<1>16. PICK x : x = q * n
  OBVIOUS
<1>17. x \in Nat /\ x <= w
  BY <1>5, <1>9, <1>16
<1>18. SumFunctionOnSet(Precision, c) <= w
  BY <1>12, <1>14, <1>15, <1>7, <1>16, <1>17
<1> QED
  BY <1>3, <1>4, <1>6, <1>18

LEMMA PrecisionBelowPurity ==
  ASSUME Forest(parent, groups)
  PROVE  BCubedPrecision <= Unit * Purity
<1> DEFINE within == [c \in Clusters |-> SumFunctionOnSet(Precision, c)]
           most == [c \in Clusters |-> Unit * BestOf[c]]
<1>1. \A c \in Clusters : within[c] = SumFunctionOnSet(Precision, c)
  OBVIOUS
<1>2. \A c \in Clusters : most[c] = Unit * BestOf[c]
  OBVIOUS
<1> HIDE DEF within, most
<1>3. IsFiniteSet(Clusters) /\ UNION Clusters = Members /\ \A c, d \in Clusters : c # d => c \cap d = {}
  BY ClustersPart
<1>4. \A c \in Clusters : Counted(Precision, c)
  BY PrecisionWithin
<1>5. Counted(within, Clusters) /\ SumFunctionOnSet(within, Clusters) = SumFunctionOnSet(Precision, UNION Clusters)
  BY <1>1, <1>3, <1>4, SumOfParts
<1>6. Counted(BestOf, Clusters) /\ Unit \in Nat
  BY PurityIs, GraphAssumption
<1>7. Counted(most, Clusters) /\ SumFunctionOnSet(most, Clusters) = Unit * SumFunctionOnSet(BestOf, Clusters)
  BY <1>2, <1>6, SumOfMultiples
<1>8. \A c \in Clusters : within[c] <= most[c]
  <2> TAKE c \in Clusters
  <2>1. SumFunctionOnSet(Precision, c) <= Unit * Best(c)
    BY PrecisionWithin
  <2>2. BestOf[c] = Best(c)
    BY PurityIs
  <2> QED
    BY <1>1, <1>2, <2>1, <2>2
<1>9. SumFunctionOnSet(within, Clusters) <= SumFunctionOnSet(most, Clusters)
  BY <1>5, <1>7, <1>8, SumsCompare
<1>10. BCubedPrecision = SumFunctionOnSet(Precision, Members)
  BY DEF BCubedPrecision, SumFunction, Precision
<1>11. Purity = SumFunctionOnSet(BestOf, Clusters)
  BY PurityIs
<1> QED
  BY <1>3, <1>5, <1>7, <1>9, <1>10, <1>11

LEMMA SplitsAreMissed == ASSUME Forest(parent, groups) PROVE SplitCampaigns = {} <=> NoneMissed
<1>1. ASSUME NEW t \in Truths
      PROVE  Cardinality({ClusterOf(m) : m \in t}) > 1 <=> \E m, x \in t : ClusterOf(m) # ClusterOf(x)
  <2>1. t \in SUBSET Members /\ t # {}
    BY WhereSessionsAre DEF Truths
  <2>2. PICK D : D = {ClusterOf(m) : m \in t}
    OBVIOUS
  <2>3. D \in SUBSET Clusters
    BY <2>1, <2>2, WhereSessionsAre
  <2>4. IsFiniteSet(D)
    BY <2>3, ClustersPart, FS_Subset
  <2>5. Cardinality(D) \in Nat /\ Cardinality(D) # 0
    BY <2>1, <2>2, <2>4, FS_CardinalityType, FS_EmptySet
  <2>6. Cardinality(D) = 1 <=> \E c : D = {c}
    BY <2>4, FS_Singleton
  <2>7. (\E c : D = {c}) <=> ~(\E m, x \in t : ClusterOf(m) # ClusterOf(x))
    <3>1. PICK m \in t : ClusterOf(m) \in D
      BY <2>1, <2>2
    <3>2. ASSUME \A y, x \in t : ClusterOf(y) = ClusterOf(x) PROVE D = {ClusterOf(m)}
      BY <2>2, <3>1, <3>2
    <3>3. ASSUME NEW c, D = {c}, NEW y \in t PROVE ClusterOf(y) = c
      BY <2>2, <3>3
    <3> QED
      BY <3>2, <3>3
  <2>8. Cardinality(D) > 1 <=> Cardinality(D) # 1
    BY <2>5
  <2> QED
    BY <2>2, <2>6, <2>7, <2>8
<1>2. SplitCampaigns = {} <=> \A t \in Truths : \A m, x \in t : ClusterOf(m) = ClusterOf(x)
  <2>1. SplitCampaigns = {} <=> \A t \in Truths : ~(Cardinality({ClusterOf(m) : m \in t}) > 1)
    BY DEF SplitCampaigns
  <2> QED
    BY <1>1, <2>1
<1>3. ASSUME NoneMissed, NEW t \in Truths, NEW m \in t, NEW x \in t PROVE ClusterOf(m) = ClusterOf(x)
  <2>1. m \in Members /\ x \in TruthOf(m)
    BY DEF Truths, TruthOf
  <2> QED
    BY <1>3, <2>1, WhereSessionsAre DEF NoneMissed
<1>4. ASSUME \A t \in Truths : \A m, x \in t : ClusterOf(m) = ClusterOf(x), NEW m \in Members
      PROVE  TruthOf(m) \subseteq ClusterOf(m)
  <2>1. TruthOf(m) \in Truths /\ m \in TruthOf(m) /\ TruthOf(m) \in SUBSET Members
    BY WhereSessionsAre
  <2>2. \A x \in TruthOf(m) : ClusterOf(x) = ClusterOf(m) /\ x \in ClusterOf(x)
    BY <1>4, <2>1, WhereSessionsAre
  <2> QED
    BY <2>2
<1> QED
  BY <1>2, <1>3, <1>4 DEF NoneMissed

LEMMA TruePairsAreCounted ==
  Cardinality(TruePositives) + Cardinality(FalseNegatives) = Cardinality(PairsWithin(Truths))
<1>1. PairsWithin(Truths) \in SUBSET Keys /\ PairsWithin(Clusters) \in SUBSET Keys
  BY DEF PairsWithin, Between
<1>2. PICK A, B : A = TruePositives /\ B = FalseNegatives
  OBVIOUS
<1>3. A \cup B = PairsWithin(Truths) /\ A \cap B = {} /\ A \in SUBSET Keys /\ B \in SUBSET Keys
  BY <1>1, <1>2 DEF TruePositives, FalseNegatives
<1>4. IsFiniteSet(A) /\ IsFiniteSet(B)
  BY <1>3, KeysAreFinite, FS_Subset
<1>5. Cardinality(A \cup B) = Cardinality(A) + Cardinality(B)
  BY <1>3, <1>4, CountTwo
<1> QED
  BY <1>2, <1>3, <1>5

\* The metrics of a clustering never contradict each other, for any sessions,
\* campaigns, scores, bridges and guards, in whatever parts the averages are
\* counted (clustering_metrics).
THEOREM MetricsAlwaysAgree == GraphSpec => []MetricsAgree
<1>1. GraphInv => MetricsAgree
  <2> SUFFICES ASSUME Forest(parent, groups) PROVE MetricsAgree
    BY DEF GraphInv
  <2>1. BCubedPrecision <= Unit * Purity
    BY PrecisionBelowPurity
  <2>2. BCubedPrecision = Unit * Cardinality(Members) <=> FalsePositives = {}
    BY PerfectPrecision, WrongPairs
  <2>3. Purity = Cardinality(Members) <=> FalsePositives = {}
    BY PerfectPurity, WrongPairs
  <2>4. BCubedRecall = Unit * Cardinality(Members) <=> FalseNegatives = {}
    BY PerfectRecall, MissedPairs
  <2>5. SplitCampaigns = {} <=> FalseNegatives = {}
    BY SplitsAreMissed, MissedPairs
  <2> QED
    BY <2>1, <2>2, <2>3, <2>4, <2>5, TruePairsAreCounted DEF MetricsAgree
<1> QED
  BY GraphInvariant, <1>1, PTL

------------------------------------------------------------------------------
(* The comparison of cases: the table of the longest common subsequences *)

\* What holds at 0 and passes from n to n + 1 holds up to N.
LEMMA UpToN ==
  ASSUME NEW N \in Nat, NEW G, 0 \in G, \A n \in 0 .. N : n # N /\ n \in G => n + 1 \in G
  PROVE  \A n \in 0 .. N : n \in G
<1> DEFINE Outside == {n \in 0 .. N : n \notin G}
<1> SUFFICES ASSUME Outside # {} PROVE FALSE
  OBVIOUS
<1>1. Outside \in SUBSET Nat
  OBVIOUS
<1>2. PICK n \in Outside : \A m \in Outside : n <= m
  BY <1>1, LeastOf
<1>3. n \in 0 .. N /\ n \notin G /\ n # 0
  BY <1>2
<1>4. n - 1 \in 0 .. N /\ n - 1 # N /\ (n - 1) + 1 = n /\ ~(n <= n - 1)
  BY <1>3
<1>5. n - 1 \in G
  BY <1>2, <1>4
<1> QED
  BY <1>3, <1>4, <1>5

Cells(l, r) == (0 .. Len(l)) \X (0 .. Len(r))

Table(l, r, f) ==
  [at \in Cells(l, r) |->
     IF at[1] = 0 \/ at[2] = 0 THEN 0
     ELSE IF l[at[1]] = r[at[2]] THEN f[<<at[1] - 1, at[2] - 1>>] + 1
     ELSE Max({f[<<at[1] - 1, at[2]>>], f[<<at[1], at[2] - 1>>]})]

\* There is one table at most: a cell where two differ has an earlier one.
LEMMA OneTable ==
  ASSUME NEW S, NEW l \in Seq(S), NEW r \in Seq(S), NEW f, NEW g, f = Table(l, r, f), g = Table(l, r, g)
  PROVE  f = g
<1>1. Len(l) \in Nat /\ Len(r) \in Nat
  BY LenProperties
<1>2. DOMAIN f = Cells(l, r) /\ DOMAIN g = Cells(l, r)
  BY DEF Table
<1>3. ASSUME NEW i \in 0 .. Len(l), NEW j \in 0 .. Len(r), i = 0 \/ j = 0
      PROVE  f[<<i, j>>] = 0 /\ g[<<i, j>>] = 0
  BY <1>3 DEF Table, Cells
<1>4. ASSUME NEW i \in 1 .. Len(l), NEW j \in 1 .. Len(r)
      PROVE  /\ f[<<i, j>>] = IF l[i] = r[j] THEN f[<<i - 1, j - 1>>] + 1
                              ELSE Max({f[<<i - 1, j>>], f[<<i, j - 1>>]})
             /\ g[<<i, j>>] = IF l[i] = r[j] THEN g[<<i - 1, j - 1>>] + 1
                              ELSE Max({g[<<i - 1, j>>], g[<<i, j - 1>>]})
  <2>1. i \in 0 .. Len(l) /\ j \in 0 .. Len(r) /\ i # 0 /\ j # 0
    BY <1>1, <1>4
  <2> QED
    BY <2>1 DEF Table, Cells
<1> DEFINE Odd == {n \in Nat : \E i \in 0 .. Len(l), j \in 0 .. Len(r) : n = i + j /\ f[<<i, j>>] # g[<<i, j>>]}
<1>5. ASSUME Odd # {} PROVE FALSE
  <2>1. PICK n \in Odd : \A m \in Odd : n <= m
    BY <1>5, LeastOf
  <2>2. PICK i \in 0 .. Len(l), j \in 0 .. Len(r) : n = i + j /\ f[<<i, j>>] # g[<<i, j>>]
    BY <2>1
  <2>3. i # 0 /\ j # 0
    BY <1>3, <2>2
  <2>4. i \in 1 .. Len(l) /\ j \in 1 .. Len(r) /\ i - 1 \in 0 .. Len(l) /\ j - 1 \in 0 .. Len(r)
    BY <1>1, <2>3
  <2>5. ASSUME NEW a \in 0 .. Len(l), NEW b \in 0 .. Len(r), a + b < n PROVE f[<<a, b>>] = g[<<a, b>>]
    <3>1. a + b \in Nat /\ ~(n <= a + b)
      BY <1>1, <2>1, <2>5
    <3>2. a + b \notin Odd
      BY <2>1, <3>1
    <3> QED
      BY <3>1, <3>2
  <2>6. (i - 1) + (j - 1) < n /\ (i - 1) + j < n /\ i + (j - 1) < n
    BY <1>1, <2>2, <2>4
  <2>7. f[<<i - 1, j - 1>>] = g[<<i - 1, j - 1>>]
    BY <2>4, <2>5, <2>6
  <2>8. f[<<i - 1, j>>] = g[<<i - 1, j>>]
    BY <2>4, <2>5, <2>6
  <2>9. f[<<i, j - 1>>] = g[<<i, j - 1>>]
    BY <2>4, <2>5, <2>6
  <2>10. CASE l[i] = r[j]
    <3>1. f[<<i, j>>] = f[<<i - 1, j - 1>>] + 1
      BY <1>4, <2>4, <2>10
    <3>2. g[<<i, j>>] = g[<<i - 1, j - 1>>] + 1
      BY <1>4, <2>4, <2>10
    <3> QED
      BY <2>2, <2>7, <3>1, <3>2
  <2>11. CASE l[i] # r[j]
    <3>1. f[<<i, j>>] = Max({f[<<i - 1, j>>], f[<<i, j - 1>>]})
      BY <1>4, <2>4, <2>11
    <3>2. g[<<i, j>>] = Max({g[<<i - 1, j>>], g[<<i, j - 1>>]})
      BY <1>4, <2>4, <2>11
    <3> QED
      BY <2>2, <2>8, <2>9, <3>1, <3>2
  <2> QED
    BY <2>10, <2>11
<1>6. ASSUME NEW at \in Cells(l, r) PROVE f[at] = g[at]
  <2>1. PICK i \in 0 .. Len(l), j \in 0 .. Len(r) : at = <<i, j>>
    <3>1. at[1] \in 0 .. Len(l) /\ at[2] \in 0 .. Len(r) /\ at = <<at[1], at[2]>>
      BY DEF Cells
    <3> QED
      BY <3>1
  <2>2. i + j \in Nat
    BY <1>1
  <2>3. i + j \notin Odd
    BY <1>5
  <2>4. f[<<i, j>>] = g[<<i, j>>]
    BY <2>2, <2>3
  <2> QED
    BY <2>1, <2>4
<1>7. f = [at \in Cells(l, r) |-> f[at]] /\ g = [at \in Cells(l, r) |-> g[at]]
  BY DEF Table
<1> QED
  BY <1>6, <1>7

LEMMA TheTable ==
  ASSUME NEW S, NEW l \in Seq(S), NEW r \in Seq(S), NEW f, f = Table(l, r, f)
  PROVE  LongestCommon(l, r) = f[<<Len(l), Len(r)>>]
<1>1. PICK g : g = CHOOSE h : h = Table(l, r, h)
  OBVIOUS
<1>2. g = Table(l, r, g)
  BY <1>1
<1>3. LongestCommon(l, r) = g[<<Len(l), Len(r)>>]
  BY <1>1 DEF LongestCommon, Table, Cells
<1>4. f = g
  BY <1>2, OneTable
<1> QED
  BY <1>3, <1>4

\* The subsequences of the first n items, for every n.
UpTo(seq, f) ==
  [n \in 0 .. Len(seq) |-> IF n = 0 THEN {<< >>} ELSE f[n - 1] \cup {Append(s, seq[n]) : s \in f[n - 1]}]

LEMMA PrefixesExist ==
  ASSUME NEW S, NEW seq \in Seq(S)
  PROVE  \E f : f = UpTo(seq, f)
<1> DEFINE N == Len(seq)
           Until(n, f) == /\ f[0] = {<< >>}
                          /\ \A m \in 1 .. n : f[m] = f[m - 1] \cup {Append(s, seq[m]) : s \in f[m - 1]}
           G == {n \in Nat : \E f : Until(n, f)}
<1>1. N \in Nat
  BY LenProperties
<1>2. 0 \in G
  <2>1. Until(0, [m \in {0} |-> {<< >>}])
    OBVIOUS
  <2> QED
    BY <2>1
<1>3. ASSUME NEW n \in 0 .. N, n # N /\ n \in G PROVE n + 1 \in G
  <2>1. PICK f : Until(n, f)
    BY <1>3
  <2>2. PICK g : g = [m \in 0 .. n + 1 |->
                        IF m = n + 1 THEN f[n] \cup {Append(s, seq[n + 1]) : s \in f[n]} ELSE f[m]]
    OBVIOUS
  <2>3. g[0] = {<< >>}
    BY <1>1, <2>1, <2>2
  <2>4. ASSUME NEW m \in 1 .. n + 1 PROVE g[m] = g[m - 1] \cup {Append(s, seq[m]) : s \in g[m - 1]}
    <3>1. CASE m = n + 1
      <4>1. g[m - 1] = f[n] /\ g[m] = f[n] \cup {Append(s, seq[n + 1]) : s \in f[n]}
        BY <1>1, <2>2, <3>1
      <4> QED
        BY <3>1, <4>1
    <3>2. CASE m \in 1 .. n
      <4>1. g[m] = f[m] /\ g[m - 1] = f[m - 1]
        BY <1>1, <2>2, <3>2
      <4>2. f[m] = f[m - 1] \cup {Append(s, seq[m]) : s \in f[m - 1]}
        BY <2>1, <3>2
      <4> QED
        BY <4>1, <4>2
    <3> QED
      BY <1>1, <3>1, <3>2
  <2>5. Until(n + 1, g)
    BY <2>3, <2>4
  <2>6. n + 1 \in Nat
    BY <1>1
  <2> HIDE DEF Until
  <2> QED
    BY <2>5, <2>6
<1>4. N \in 0 .. N
  BY <1>1
<1> HIDE DEF N, G
<1>5. N \in G
  BY <1>1, <1>2, <1>3, <1>4, UpToN
<1> USE DEF N, G
<1>6. PICK f : Until(N, f)
  BY <1>5
<1>7. PICK g : g = [n \in 0 .. N |-> f[n]]
  OBVIOUS
<1>8. ASSUME NEW n \in 0 .. N
      PROVE  g[n] = IF n = 0 THEN {<< >>} ELSE g[n - 1] \cup {Append(s, seq[n]) : s \in g[n - 1]}
  <2>1. CASE n = 0
    BY <1>1, <1>6, <1>7, <2>1
  <2>2. CASE n # 0
    <3>1. n \in 1 .. N /\ n - 1 \in 0 .. N
      BY <1>1, <2>2
    <3>2. g[n] = f[n] /\ g[n - 1] = f[n - 1]
      BY <1>7, <3>1
    <3>3. f[n] = f[n - 1] \cup {Append(s, seq[n]) : s \in f[n - 1]}
      BY <1>6, <3>1
    <3> QED
      BY <2>2, <3>2, <3>3
  <2> QED
    BY <2>1, <2>2
<1>9. UpTo(seq, g) = [n \in 0 .. N |-> g[n]]
  BY <1>8 DEF UpTo
<1>10. g = [n \in 0 .. N |-> g[n]]
  BY <1>7
<1> QED
  BY <1>9, <1>10

\* What the prefixes of a sequence hold: the empty one, what shorter prefixes
\* hold, and of every subsequence all but its last item.
PrefixTable(S, seq, f) ==
  /\ f[0] = {<< >>}
  /\ \A n \in 1 .. Len(seq) : f[n] = f[n - 1] \cup {Append(s, seq[n]) : s \in f[n - 1]}
  /\ \A n \in 0 .. Len(seq) : << >> \in f[n] /\ \A s \in f[n] : s \in Seq(S) /\ Len(s) <= n
  /\ \A n \in 1 .. Len(seq) : \A s \in f[n] : s # << >> => \E t \in f[n - 1], e \in S : s = Append(t, e)

LEMMA LongerByTheNext ==
  ASSUME NEW S, NEW seq, NEW f, PrefixTable(S, seq, f), NEW i \in 1 .. Len(seq), NEW s \in f[i - 1]
  PROVE  Append(s, seq[i]) \in f[i]
<1>1. f[i] = f[i - 1] \cup {Append(r, seq[i]) : r \in f[i - 1]}
  BY DEF PrefixTable
<1> QED
  BY <1>1


LEMMA PrefixFacts ==
  ASSUME NEW S, NEW seq \in Seq(S), NEW f, f = UpTo(seq, f)
  PROVE  PrefixTable(S, seq, f)
<1>1. Len(seq) \in Nat
  BY LenProperties
<1>2. f[0] = {<< >>}
  BY <1>1 DEF UpTo
<1>3. ASSUME NEW n \in 1 .. Len(seq) PROVE f[n] = f[n - 1] \cup {Append(s, seq[n]) : s \in f[n - 1]}
  <2>1. n \in 0 .. Len(seq) /\ n # 0
    BY <1>1
  <2> QED
    BY <2>1 DEF UpTo
<1>4. ASSUME NEW n \in 1 .. Len(seq) PROVE seq[n] \in S
  BY ElementOfSeq
<1> DEFINE G == {n \in Nat : << >> \in f[n] /\ \A s \in f[n] : s \in Seq(S) /\ Len(s) <= n}
<1>5. 0 \in G
  <2>1. << >> \in Seq(S) /\ Len(<< >>) <= 0
    BY EmptySeq
  <2>2. << >> \in f[0] /\ \A s \in f[0] : s \in Seq(S) /\ Len(s) <= 0
    BY <1>2, <2>1
  <2> QED
    BY <2>2
<1>6. ASSUME NEW n \in 0 .. Len(seq), n # Len(seq) /\ n \in G PROVE n + 1 \in G
  <2>1. n + 1 \in 1 .. Len(seq) /\ (n + 1) - 1 = n /\ n \in Nat
    BY <1>1, <1>6
  <2>2. f[n + 1] = f[n] \cup {Append(s, seq[n + 1]) : s \in f[n]}
    BY <1>3, <2>1
  <2>3. seq[n + 1] \in S
    BY <1>4, <2>1
  <2>4. << >> \in f[n + 1]
    BY <1>6, <2>2
  <2>5. ASSUME NEW s \in f[n + 1] PROVE s \in Seq(S) /\ Len(s) <= n + 1
    <3>1. CASE s \in f[n]
      <4>1. s \in Seq(S) /\ Len(s) <= n
        BY <1>6, <3>1
      <4>2. Len(s) \in Nat
        BY <4>1, LenProperties
      <4> QED
        BY <2>1, <4>1, <4>2
    <3>2. CASE \E t \in f[n] : s = Append(t, seq[n + 1])
      <4>1. PICK t \in f[n] : s = Append(t, seq[n + 1])
        BY <3>2
      <4>2. t \in Seq(S) /\ Len(t) <= n
        BY <1>6, <4>1
      <4>3. s \in Seq(S) /\ Len(s) = Len(t) + 1
        BY <2>3, <4>1, <4>2, AppendProperties
      <4>4. Len(t) \in Nat
        BY <4>2, LenProperties
      <4> QED
        BY <2>1, <4>2, <4>3, <4>4
    <3> QED
      BY <2>2, <2>5, <3>1, <3>2
  <2> QED
    BY <2>1, <2>4, <2>5
<1>7. \A n \in 0 .. Len(seq) : n \in G
  <2> HIDE DEF G
  <2> QED
    BY <1>1, <1>5, <1>6, UpToN
<1> DEFINE F == {n \in Nat : n = 0 \/ \A s \in f[n] :
                               s # << >> => \E t \in f[n - 1], e \in S : s = Append(t, e)}
<1>8. 0 \in F
  OBVIOUS
<1>9. ASSUME NEW n \in 0 .. Len(seq), n # Len(seq) /\ n \in F PROVE n + 1 \in F
  <2>1. n + 1 \in 1 .. Len(seq) /\ (n + 1) - 1 = n /\ n \in Nat
    BY <1>1, <1>9
  <2>2. f[n + 1] = f[n] \cup {Append(s, seq[n + 1]) : s \in f[n]}
    BY <1>3, <2>1
  <2>3. ASSUME NEW s \in f[n + 1], s # << >> PROVE \E t \in f[n], e \in S : s = Append(t, e)
    <3>1. CASE s \in f[n]
      <4>1. n # 0
        BY <1>2, <2>3, <3>1
      <4>2. PICK t \in f[n - 1], e \in S : s = Append(t, e)
        BY <1>9, <2>3, <3>1, <4>1
      <4>3. n \in 1 .. Len(seq)
        BY <1>1, <4>1
      <4>4. t \in f[n]
        BY <1>3, <4>3
      <4> QED
        BY <4>2, <4>4
    <3>2. CASE \E t \in f[n] : s = Append(t, seq[n + 1])
      <4>1. seq[n + 1] \in S
        BY <1>4, <2>1
      <4> QED
        BY <3>2, <4>1
    <3> QED
      BY <2>2, <2>3, <3>1, <3>2
  <2>4. \A s \in f[n + 1] : s # << >> => \E t \in f[(n + 1) - 1], e \in S : s = Append(t, e)
    BY <2>1, <2>3
  <2> QED
    BY <2>1, <2>4
<1>10. \A n \in 0 .. Len(seq) : n \in F
  <2> HIDE DEF F
  <2> QED
    BY <1>1, <1>8, <1>9, UpToN
<1>11. ASSUME NEW n \in 1 .. Len(seq), NEW s \in f[n], s # << >>
       PROVE  \E t \in f[n - 1], e \in S : s = Append(t, e)
  <2>1. n \in 0 .. Len(seq) /\ n # 0
    BY <1>1
  <2>2. n \in F
    BY <1>10, <2>1
  <2> QED
    BY <1>11, <2>1, <2>2
<1> QED
  BY <1>2, <1>3, <1>7, <1>11 DEF PrefixTable

LEMMA AppendDetermines ==
  ASSUME NEW S, NEW t \in Seq(S), NEW u \in Seq(S), NEW d \in S, NEW e \in S, Append(t, d) = Append(u, e)
  PROVE  t = u /\ d = e
<1>1. /\ Len(Append(t, d)) = Len(t) + 1
      /\ \A i \in 1 .. Len(t) : Append(t, d)[i] = t[i]
      /\ Append(t, d)[Len(t) + 1] = d
  BY AppendProperties
<1>2. /\ Len(Append(u, e)) = Len(u) + 1
      /\ \A i \in 1 .. Len(u) : Append(u, e)[i] = u[i]
      /\ Append(u, e)[Len(u) + 1] = e
  BY AppendProperties
<1>3. Len(t) \in Nat
  BY LenProperties
<1>4. Len(u) \in Nat
  BY LenProperties
<1>5. Len(t) = Len(u)
  BY <1>1, <1>2, <1>3, <1>4
<1>6. d = e
  BY <1>1, <1>2, <1>5
<1>7. \A i \in 1 .. Len(t) : t[i] = u[i]
  BY <1>1, <1>2, <1>5
<1> QED
  BY <1>5, <1>6, <1>7, SeqEqual

Lengths(set) == {Len(s) : s \in set}

LEMMA GreatestCommon ==
  ASSUME NEW S, NEW A, NEW B, NEW n \in Nat, << >> \in A, << >> \in B,
         \A s \in A : s \in Seq(S) /\ Len(s) <= n
  PROVE  /\ Max(Lengths(A \cap B)) \in Nat
         /\ \A s \in A \cap B : Len(s) <= Max(Lengths(A \cap B))
         /\ \E s \in A \cap B : Len(s) = Max(Lengths(A \cap B))
<1> DEFINE L == Lengths(A \cap B)
<1>1. ASSUME NEW s \in A \cap B PROVE Len(s) \in Nat /\ Len(s) <= n
  <2>1. s \in Seq(S) /\ Len(s) <= n
    OBVIOUS
  <2> QED
    BY <2>1, LenProperties
<1>2. L \in SUBSET Nat /\ \A k \in L : k <= n
  BY <1>1 DEF Lengths
<1>3. L # {}
  <2>1. Len(<< >>) \in L
    BY DEF Lengths
  <2> QED
    BY <2>1
<1>4. PICK k \in L : \A m \in L : m <= k
  <2> HIDE DEF L
  <2> QED
    BY <1>2, <1>3, GreatestOf
<1>5. Max(L) = k
  <2> HIDE DEF L
  <2> QED
    BY <1>2, <1>4, MaxIs
<1>6. PICK s \in A \cap B : k = Len(s)
  BY <1>4 DEF Lengths
<1>7. \A t \in A \cap B : Len(t) <= k
  BY <1>4 DEF Lengths
<1> HIDE DEF L
<1>8. k \in Nat
  BY <1>2, <1>4
<1> QED
  BY <1>5, <1>6, <1>7, <1>8 DEF L, PrefixTable

\* The lengths of the longest common subsequences of all prefixes satisfy the
\* rule of the table, and so they are the table.
LEMMA LongestCommonIsRight ==
  ASSUME NEW S, NEW l \in Seq(S), NEW r \in Seq(S)
  PROVE  LongestCommon(l, r) = Max(Lengths(Subsequences(l) \cap Subsequences(r)))
<1>1. Len(l) \in Nat /\ Len(r) \in Nat
  BY LenProperties
<1>2. PICK a : a = CHOOSE f : f = UpTo(l, f)
  OBVIOUS
<1>3. a = UpTo(l, a)
  BY <1>2, PrefixesExist
<1>4. PICK b : b = CHOOSE f : f = UpTo(r, f)
  OBVIOUS
<1>5. b = UpTo(r, b)
  BY <1>4, PrefixesExist
<1>6. Subsequences(l) = a[Len(l)]
  BY <1>2 DEF Subsequences, UpTo
<1>7. Subsequences(r) = b[Len(r)]
  BY <1>4 DEF Subsequences, UpTo
<1>8. PrefixTable(S, l, a)
  BY <1>3, PrefixFacts
<1>9. PrefixTable(S, r, b)
  BY <1>5, PrefixFacts
<1> DEFINE M(i, j) == Max(Lengths(a[i] \cap b[j]))
           best == [at \in Cells(l, r) |-> M(at[1], at[2])]
<1>10. ASSUME NEW i \in 0 .. Len(l), NEW j \in 0 .. Len(r)
       PROVE  /\ M(i, j) \in Nat
              /\ \A s \in a[i] \cap b[j] : Len(s) <= M(i, j)
              /\ \E s \in a[i] \cap b[j] : Len(s) = M(i, j)
  <2>1. i \in Nat /\ << >> \in a[i] /\ << >> \in b[j] /\ \A s \in a[i] : s \in Seq(S) /\ Len(s) <= i
    BY <1>1, <1>8, <1>9 DEF PrefixTable
  <2> QED
    BY <2>1, GreatestCommon
<1> HIDE DEF M
<1>11. ASSUME NEW i \in 0 .. Len(l), NEW j \in 0 .. Len(r), i = 0 \/ j = 0 PROVE M(i, j) = 0
  <2>1. PICK s \in a[i] \cap b[j] : Len(s) = M(i, j)
    BY <1>10
  <2>2. s = << >>
    BY <1>8, <1>9, <1>11 DEF PrefixTable
  <2>3. Len(<< >>) = 0
    BY EmptySeq
  <2> QED
    BY <2>1, <2>2, <2>3
<1>12. ASSUME NEW i \in 1 .. Len(l), NEW j \in 1 .. Len(r), l[i] = r[j] PROVE M(i, j) = M(i - 1, j - 1) + 1
  <2>1. i \in 0 .. Len(l) /\ j \in 0 .. Len(r) /\ i - 1 \in 0 .. Len(l) /\ j - 1 \in 0 .. Len(r)
    BY <1>1
  <2>2. M(i, j) \in Nat /\ M(i - 1, j - 1) \in Nat
    <3>1. M(i, j) \in Nat
      BY <1>10, <2>1
    <3>2. M(i - 1, j - 1) \in Nat
      BY <1>10, <2>1
    <3> QED
      BY <3>1, <3>2
  <2>3. M(i - 1, j - 1) + 1 <= M(i, j)
    <3>1. PICK s \in a[i - 1] \cap b[j - 1] : Len(s) = M(i - 1, j - 1)
      BY <1>10, <2>1
    <3>2. Append(s, l[i]) \in a[i]
      BY <1>8, <3>1, LongerByTheNext
    <3>3. Append(s, l[i]) \in b[j]
      <4>1. Append(s, r[j]) \in b[j]
        BY <1>9, <3>1, LongerByTheNext
      <4> QED
        BY <1>12, <4>1
    <3>4. Len(Append(s, l[i])) <= M(i, j)
      BY <1>10, <2>1, <3>2, <3>3
    <3>5. s \in Seq(S) /\ l[i] \in S
      BY <1>8, <2>1, <3>1, ElementOfSeq DEF PrefixTable
    <3>6. Len(Append(s, l[i])) = Len(s) + 1
      BY <3>5, AppendProperties
    <3> QED
      BY <3>1, <3>4, <3>6
  <2>4. M(i, j) <= M(i - 1, j - 1) + 1
    <3>1. PICK s \in a[i] \cap b[j] : Len(s) = M(i, j)
      BY <1>10, <2>1
    <3>2. CASE s = << >>
      <4>1. Len(<< >>) = 0
        BY EmptySeq
      <4> QED
        BY <2>2, <3>1, <3>2, <4>1
    <3>3. CASE s # << >>
      <4>1. PICK t \in a[i - 1], e \in S : s = Append(t, e)
        BY <1>8, <3>1, <3>3 DEF PrefixTable
      <4>2. PICK u \in b[j - 1], d \in S : s = Append(u, d)
        BY <1>9, <3>1, <3>3 DEF PrefixTable
      <4>3. t \in Seq(S)
        BY <1>8, <2>1 DEF PrefixTable
      <4>4. u \in Seq(S)
        BY <1>9, <2>1 DEF PrefixTable
      <4>5. t = u
        BY <4>1, <4>2, <4>3, <4>4, AppendDetermines
      <4>6. Len(t) <= M(i - 1, j - 1)
        BY <1>10, <2>1, <4>5
      <4>7. Len(s) = Len(t) + 1
        BY <4>1, <4>3, AppendProperties
      <4>8. Len(t) \in Nat
        BY <4>3, LenProperties
      <4> QED
        BY <2>2, <3>1, <4>6, <4>7, <4>8
    <3> QED
      BY <3>2, <3>3
  <2> QED
    BY <2>2, <2>3, <2>4
<1>13. ASSUME NEW i \in 1 .. Len(l), NEW j \in 1 .. Len(r), l[i] # r[j]
       PROVE  M(i, j) = Max({M(i - 1, j), M(i, j - 1)})
  <2>1. i \in 0 .. Len(l) /\ j \in 0 .. Len(r) /\ i - 1 \in 0 .. Len(l) /\ j - 1 \in 0 .. Len(r)
    BY <1>1
  <2>2. M(i, j) \in Nat
    BY <1>10, <2>1
  <2>3. M(i - 1, j) \in Nat
    BY <1>10, <2>1
  <2>4. M(i, j - 1) \in Nat
    BY <1>10, <2>1
  <2>5. a[i - 1] \subseteq a[i] /\ b[j - 1] \subseteq b[j]
    BY <1>8, <1>9 DEF PrefixTable
  <2>6. M(i - 1, j) <= M(i, j)
    <3>1. PICK s \in a[i - 1] \cap b[j] : Len(s) = M(i - 1, j)
      BY <1>10, <2>1
    <3>2. s \in a[i] \cap b[j]
      BY <2>5
    <3> QED
      BY <1>10, <2>1, <3>1, <3>2
  <2>7. M(i, j - 1) <= M(i, j)
    <3>1. PICK s \in a[i] \cap b[j - 1] : Len(s) = M(i, j - 1)
      BY <1>10, <2>1
    <3>2. s \in a[i] \cap b[j]
      BY <2>5
    <3> QED
      BY <1>10, <2>1, <3>1, <3>2
  <2>8. M(i, j) <= M(i - 1, j) \/ M(i, j) <= M(i, j - 1)
    <3>1. PICK s \in a[i] \cap b[j] : Len(s) = M(i, j)
      BY <1>10, <2>1
    <3>2. CASE s \in a[i - 1]
      <4>1. s \in a[i - 1] \cap b[j]
        BY <3>1, <3>2
      <4> QED
        BY <1>10, <2>1, <3>1, <4>1
    <3>3. CASE s \in b[j - 1]
      <4>1. s \in a[i] \cap b[j - 1]
        BY <3>1, <3>3
      <4> QED
        BY <1>10, <2>1, <3>1, <4>1
    <3>4. CASE s \notin a[i - 1] /\ s \notin b[j - 1]
      <4>1. PICK t \in a[i - 1] : s = Append(t, l[i])
        <5>1. a[i] = a[i - 1] \cup {Append(q, l[i]) : q \in a[i - 1]}
          BY <1>8 DEF PrefixTable
        <5> QED
          BY <3>1, <3>4, <5>1
      <4>2. PICK u \in b[j - 1] : s = Append(u, r[j])
        <5>1. b[j] = b[j - 1] \cup {Append(q, r[j]) : q \in b[j - 1]}
          BY <1>9 DEF PrefixTable
        <5> QED
          BY <3>1, <3>4, <5>1
      <4>3. t \in Seq(S) /\ l[i] \in S
        BY <1>8, <2>1, ElementOfSeq DEF PrefixTable
      <4>4. u \in Seq(S) /\ r[j] \in S
        BY <1>9, <2>1, ElementOfSeq DEF PrefixTable
      <4>5. PICK d, e : d = l[i] /\ e = r[j]
        OBVIOUS
      <4>6. d \in S /\ e \in S /\ Append(t, d) = Append(u, e)
        BY <4>1, <4>2, <4>3, <4>4, <4>5
      <4>7. d = e
        BY <4>3, <4>4, <4>6, AppendDetermines
      <4> QED
        BY <1>13, <4>5, <4>7
    <3> QED
      BY <3>2, <3>3, <3>4
  <2>9. PICK x, y, z : x = M(i, j) /\ y = M(i - 1, j) /\ z = M(i, j - 1)
    OBVIOUS
  <2>10. x \in Nat
    BY <2>2, <2>9
  <2>11. y \in Nat
    BY <2>3, <2>9
  <2>12. z \in Nat
    BY <2>4, <2>9
  <2>13. y <= x /\ z <= x /\ (x <= y \/ x <= z)
    BY <2>6, <2>7, <2>8, <2>9
  <2>14. x \in {y, z} /\ \A w \in {y, z} : w <= x
    BY <2>10, <2>11, <2>12, <2>13
  <2>15. {y, z} \in SUBSET Nat
    BY <2>11, <2>12
  <2>16. Max({y, z}) = x
    BY <2>14, <2>15, MaxIs
  <2> QED
    BY <2>9, <2>16
<1>14. ASSUME NEW at \in Cells(l, r) PROVE Table(l, r, best)[at] = best[at]
  <2>1. PICK i, j : i = at[1] /\ j = at[2]
    OBVIOUS
  <2>2. i \in 0 .. Len(l) /\ j \in 0 .. Len(r) /\ at = <<i, j>>
    BY <2>1 DEF Cells
  <2>3. best[at] = M(i, j)
    BY <2>1
  <2>4. CASE i = 0 \/ j = 0
    <3>1. Table(l, r, best)[at] = 0
      BY <2>1, <2>4 DEF Table
    <3> QED
      BY <1>11, <2>2, <2>3, <2>4, <3>1
  <2>5. CASE ~(i = 0 \/ j = 0)
    <3>1. i \in 1 .. Len(l) /\ j \in 1 .. Len(r) /\ i - 1 \in 0 .. Len(l) /\ j - 1 \in 0 .. Len(r)
      BY <1>1, <2>2, <2>5
    <3>2. best[<<i - 1, j - 1>>] = M(i - 1, j - 1)
      BY <3>1 DEF Cells
    <3>3. best[<<i - 1, j>>] = M(i - 1, j) /\ best[<<i, j - 1>>] = M(i, j - 1)
      BY <2>2, <3>1 DEF Cells
    <3> HIDE DEF best
    <3>4. Table(l, r, best)[at] =
            IF l[i] = r[j] THEN best[<<i - 1, j - 1>>] + 1 ELSE Max({best[<<i - 1, j>>], best[<<i, j - 1>>]})
      BY <2>1, <2>5 DEF Table
    <3>5. CASE l[i] = r[j]
      BY <1>12, <2>3, <3>1, <3>2, <3>4, <3>5
    <3>6. CASE l[i] # r[j]
      BY <1>13, <2>3, <3>1, <3>3, <3>4, <3>6
    <3> QED
      BY <3>5, <3>6
  <2> QED
    BY <2>4, <2>5
<1>15. Table(l, r, best) = [at \in Cells(l, r) |-> Table(l, r, best)[at]]
  BY DEF Table
<1>16. [at \in Cells(l, r) |-> Table(l, r, best)[at]] = best
  BY <1>14
<1>17. best = Table(l, r, best)
  BY <1>15, <1>16
<1>18. <<Len(l), Len(r)>> \in Cells(l, r)
  BY <1>1 DEF Cells
<1>19. best[<<Len(l), Len(r)>>] = M(Len(l), Len(r))
  BY <1>18
<1> HIDE DEF best
<1>20. LongestCommon(l, r) = best[<<Len(l), Len(r)>>]
  BY <1>17, TheTable
<1> QED
  BY <1>6, <1>7, <1>19, <1>20 DEF M

\* A table without a match holds zeros.
LEMMA NothingInCommon ==
  ASSUME NEW S, NEW l \in Seq(S), NEW r \in Seq(S),
         \A i \in 1 .. Len(l), j \in 1 .. Len(r) : l[i] # r[j]
  PROVE  LongestCommon(l, r) = 0
<1> DEFINE zeros == [at \in Cells(l, r) |-> 0]
<1>1. Len(l) \in Nat /\ Len(r) \in Nat
  BY LenProperties
<1>2. ASSUME NEW at \in Cells(l, r) PROVE Table(l, r, zeros)[at] = 0
  <2>1. CASE at[1] = 0 \/ at[2] = 0
    BY <2>1 DEF Table
  <2>2. CASE ~(at[1] = 0 \/ at[2] = 0)
    <3>1. /\ at[1] \in 1 .. Len(l) /\ at[2] \in 1 .. Len(r)
          /\ <<at[1] - 1, at[2]>> \in Cells(l, r) /\ <<at[1], at[2] - 1>> \in Cells(l, r)
      BY <1>1, <2>2 DEF Cells
    <3>2. zeros[<<at[1] - 1, at[2]>>] = 0 /\ zeros[<<at[1], at[2] - 1>>] = 0
      BY <3>1
    <3>3. l[at[1]] # r[at[2]]
      BY <3>1
    <3> HIDE DEF zeros
    <3>4. Table(l, r, zeros)[at] = Max({zeros[<<at[1] - 1, at[2]>>], zeros[<<at[1], at[2] - 1>>]})
      BY <2>2, <3>3 DEF Table
    <3>5. Max({0, 0}) = 0
      BY MaxIs
    <3> QED
      BY <3>2, <3>4, <3>5
  <2> QED
    BY <2>1, <2>2
<1>3. Table(l, r, zeros) = [at \in Cells(l, r) |-> Table(l, r, zeros)[at]]
  BY DEF Table
<1>4. [at \in Cells(l, r) |-> Table(l, r, zeros)[at]] = zeros
  BY <1>2
<1>5. zeros = Table(l, r, zeros)
  BY <1>3, <1>4
<1>6. zeros[<<Len(l), Len(r)>>] = 0
  BY <1>1 DEF Cells
<1> HIDE DEF zeros
<1>7. LongestCommon(l, r) = zeros[<<Len(l), Len(r)>>]
  BY <1>5, TheTable
<1> QED
  BY <1>6, <1>7

------------------------------------------------------------------------------
(* The comparison of cases: shares of finite sets, and the reported campaign *)

Seen == Observations \cup UNION {ToSet(Script[c]) : c \in Cases}

\* Along the scripts a case holds at least what bootstrap applies, and starts
\* with its script.
FollowsScripts ==
  scripted => \A c \in Cases :
    /\ Boot[c] <= Len(observed[c])
    /\ \A i \in 1 .. Len(observed[c]) : i <= Len(Script[c]) => observed[c][i] = Script[c][i]

SimilarityInv == observed \in [Cases -> Seq(Seen)] /\ FollowsScripts

LEMMA ImagesAreFinite ==
  ASSUME NEW S, NEW seq \in Seq(S)
  PROVE  /\ IsFiniteSet({o.type : o \in ToSet(seq)})
         /\ IsFiniteSet({o.family : o \in ToSet(seq)})
         /\ IsFiniteSet({o.fingerprint : o \in ToSet(seq)})
<1>1. Len(seq) \in Nat /\ DOMAIN seq = 1 .. Len(seq)
  BY LenProperties
<1>2. IsFiniteSet(DOMAIN seq)
  BY <1>1, FS_Interval
<1> DEFINE T == {o.type : o \in ToSet(seq)}
           F == {o.family : o \in ToSet(seq)}
           P == {o.fingerprint : o \in ToSet(seq)}
<1>3. IsFiniteSet(T)
  <2>1. [i \in DOMAIN seq |-> seq[i].type] \in Surjection(DOMAIN seq, T)
    BY DEF Surjection, ToSet
  <2> QED
    BY <1>2, <2>1, FS_Surjection
<1>4. IsFiniteSet(F)
  <2>1. [i \in DOMAIN seq |-> seq[i].family] \in Surjection(DOMAIN seq, F)
    BY DEF Surjection, ToSet
  <2> QED
    BY <1>2, <2>1, FS_Surjection
<1>5. IsFiniteSet(P)
  <2>1. [i \in DOMAIN seq |-> seq[i].fingerprint] \in Surjection(DOMAIN seq, P)
    BY DEF Surjection, ToSet
  <2> QED
    BY <1>2, <2>1, FS_Surjection
<1> QED
  BY <1>3, <1>4, <1>5

LEMMA JaccardIsAShare ==
  ASSUME NEW A, NEW B, IsFiniteSet(A), IsFiniteSet(B)
  PROVE  Jaccard(A, B) \in Shares /\ (A \cap B = {} => Jaccard(A, B) = 0)
<1>1. CASE A \cup B = {}
  BY <1>1 DEF Jaccard, Shares
<1>2. CASE A \cup B # {}
  <2>1. IsFiniteSet(A \cup B)
    BY FS_Union
  <2>2. PICK w : w = Cardinality(A \cup B)
    OBVIOUS
  <2>3. w \in Nat
    BY <2>1, <2>2, FS_CardinalityType
  <2>4. w # 0
    BY <1>2, <2>1, <2>2, FS_EmptySet
  <2>5. PICK a : a = Cardinality(A \cap B)
    OBVIOUS
  <2>6. IsFiniteSet(A \cap B)
    BY FS_Intersection
  <2>7. a \in Nat
    BY <2>5, <2>6, FS_CardinalityType
  <2>8. A \cap B \in SUBSET (A \cup B)
    OBVIOUS
  <2>9. a <= w
    BY <2>1, <2>2, <2>5, <2>8, FS_Subset
  <2>10. PICK n : n = 10000 * a
    OBVIOUS
  <2>11. Jaccard(A, B) = n \div w
    BY <1>2, <2>2, <2>5, <2>10 DEF Jaccard
  <2>12. n \in Nat /\ w > 0 /\ n <= 10000 * w
    BY <2>3, <2>4, <2>7, <2>9, <2>10
  <2>13. (n \div w) \in Shares
    BY <2>3, <2>12, Quotients
  <2>14. Jaccard(A, B) \in Shares
    BY <2>11, <2>13, Zenon
  <2>15. ASSUME A \cap B = {} PROVE Jaccard(A, B) = 0
    <3>1. a = 0
      BY <2>5, <2>15, FS_EmptySet
    <3>2. 0 \div w = 0
      BY <2>3, <2>4
    <3>3. n = 0
      BY <2>10, <3>1
    <3> QED
      BY <2>11, <3>2, <3>3
  <2> QED
    BY <2>14, <2>15, Zenon
<1> QED
  BY <1>1, <1>2

LEMMA LargerOfTwo ==
  ASSUME NEW x \in Nat, NEW y \in Nat
  PROVE  Max({x, y}) \in {x, y}
<1>1. \E z \in {x, y} : \A w \in {x, y} : z >= w
  <2>1. CASE x >= y
    BY <2>1
  <2>2. CASE y >= x
    BY <2>2
  <2> QED
    BY <2>1, <2>2
<1>2. Max({x, y}) = CHOOSE z \in {x, y} : \A w \in {x, y} : z >= w
  BY DEF Max
<1> QED
  BY <1>1, <1>2, Zenon

LEMMA TypesOfSequence ==
  ASSUME observed \in [Cases -> Seq(Seen)], NEW c \in Cases, NEW S, Types(c) \subseteq S
  PROVE  /\ TypesInOrder(c) \in Seq(S)
         /\ \A i \in 1 .. Len(TypesInOrder(c)) : TypesInOrder(c)[i] \in Types(c)
<1>1. observed[c] \in Seq(Seen)
  OBVIOUS
<1>2. Len(observed[c]) \in Nat /\ DOMAIN observed[c] = 1 .. Len(observed[c])
  BY <1>1, LenProperties
<1>3. ASSUME NEW i \in 1 .. Len(observed[c]) PROVE observed[c][i].type \in Types(c)
  BY <1>2, <1>3 DEF Types, ToSet
<1>4. TypesInOrder(c) \in [1 .. Len(observed[c]) -> S]
  BY <1>3 DEF TypesInOrder
<1>5. TypesInOrder(c) \in Seq(S)
  BY <1>2, <1>4
<1>6. Len(TypesInOrder(c)) = Len(observed[c])
  BY <1>2, <1>4, <1>5, LenProperties
<1>7. ASSUME NEW i \in 1 .. Len(observed[c]) PROVE TypesInOrder(c)[i] \in Types(c)
  BY <1>3 DEF TypesInOrder
<1> QED
  BY <1>5, <1>6, <1>7

\* Without a common type neither the sets nor the sequences of types agree,
\* and what is left of the confidence is 15 + 15 of 100.
LEMMA LowWithoutCommonType ==
  ASSUME observed \in [Cases -> Seq(Seen)], NEW c \in Cases, NEW d \in Cases, Types(c) \cap Types(d) = {}
  PROVE  CaseStrength(c, d) = "low"
<1>1. observed[c] \in Seq(Seen) /\ observed[d] \in Seq(Seen)
  OBVIOUS
<1>2. /\ IsFiniteSet(Types(c)) /\ IsFiniteSet(TargetFamilies(c))
      /\ IsFiniteSet({o.fingerprint : o \in ToSet(observed[c])})
  BY <1>1, ImagesAreFinite DEF Types, TargetFamilies
<1>3. /\ IsFiniteSet(Types(d)) /\ IsFiniteSet(TargetFamilies(d))
      /\ IsFiniteSet({o.fingerprint : o \in ToSet(observed[d])})
  BY <1>1, ImagesAreFinite DEF Types, TargetFamilies
<1>4. Jaccard(Types(c), Types(d)) = 0
  BY <1>2, <1>3, JaccardIsAShare
<1>5. Jaccard(TargetFamilies(c), TargetFamilies(d)) \in Shares
  BY <1>2, <1>3, JaccardIsAShare, Zenon
<1>6. Jaccard(Fingerprints(c), Fingerprints(d)) \in Shares
  <2>1. Fingerprints(c) \in SUBSET {o.fingerprint : o \in ToSet(observed[c])}
    BY DEF Fingerprints
  <2>2. IsFiniteSet(Fingerprints(c))
    BY <1>2, <2>1, FS_Subset
  <2>3. Fingerprints(d) \in SUBSET {o.fingerprint : o \in ToSet(observed[d])}
    BY DEF Fingerprints
  <2>4. IsFiniteSet(Fingerprints(d))
    BY <1>3, <2>3, FS_Subset
  <2> QED
    BY <2>2, <2>4, JaccardIsAShare, Zenon
<1>7. SequenceSimilarity(TypesInOrder(c), TypesInOrder(d)) = 0
  <2> DEFINE S == Types(c) \cup Types(d)
             l == TypesInOrder(c)
             r == TypesInOrder(d)
  <2>1. l \in Seq(S) /\ \A i \in 1 .. Len(l) : l[i] \in Types(c)
    BY TypesOfSequence
  <2>2. r \in Seq(S) /\ \A i \in 1 .. Len(r) : r[i] \in Types(d)
    BY TypesOfSequence
  <2>3. \A i \in 1 .. Len(l), j \in 1 .. Len(r) : l[i] # r[j]
    BY <2>1, <2>2
  <2> HIDE DEF l, r
  <2>4. LongestCommon(l, r) = 0
    BY <2>1, <2>2, <2>3, NothingInCommon
  <2>5. CASE l = << >> \/ r = << >>
    BY <2>5 DEF SequenceSimilarity, l, r
  <2>6. CASE ~(l = << >> \/ r = << >>)
    <3>1. Len(l) \in Nat \ {0} /\ Len(r) \in Nat \ {0}
      BY <2>1, <2>2, <2>6, EmptySeq
    <3>2. PICK m : m = Max({Len(l), Len(r)})
      OBVIOUS
    <3>3. m \in Nat \ {0}
      BY <3>1, <3>2, LargerOfTwo
    <3>4. SequenceSimilarity(l, r) = (10000 * 0) \div m
      BY <2>4, <2>6, <3>2 DEF SequenceSimilarity
    <3>5. (10000 * 0) \div m = 0
      BY <3>3
    <3> QED
      BY <3>4, <3>5 DEF l, r
  <2> QED
    BY <2>5, <2>6
<1>8. CaseConfidence(c, d) =
        (45 * 0 + 25 * 0 + 15 * Jaccard(TargetFamilies(c), TargetFamilies(d))
         + 15 * Jaccard(Fingerprints(c), Fingerprints(d))) \div 100
  BY <1>4, <1>7 DEF CaseConfidence
<1>9. PICK a, b : a = Jaccard(TargetFamilies(c), TargetFamilies(d)) /\ b = Jaccard(Fingerprints(c), Fingerprints(d))
  OBVIOUS
<1>10. a \in Nat /\ a <= 10000
  <2>1. a \in Shares
    BY <1>5, <1>9
  <2> QED
    BY <2>1 DEF Shares
<1>11. b \in Nat /\ b <= 10000
  <2>1. b \in Shares
    BY <1>6, <1>9
  <2> QED
    BY <2>1 DEF Shares
<1>12. PICK n : n = 45 * 0 + 25 * 0 + 15 * a + 15 * b
  OBVIOUS
<1>13. n \in Nat /\ n <= 300000
  BY <1>10, <1>11, <1>12
<1>14. CaseConfidence(c, d) = n \div 100
  BY <1>8, <1>9, <1>12
<1>15. PICK q \in Nat : q = n \div 100 /\ q <= 3000
  <2>1. (n \div 100) \in Nat /\ n \div 100 <= 3000
    BY <1>13
  <2> QED
    BY <2>1
<1>16. ~(q >= 7200)
  BY <1>15
<1>17. ASSUME q \in 4800 .. 7199 PROVE FALSE
  <2>1. q >= 4800
    BY <1>17
  <2> QED
    BY <1>15, <2>1
<1>18. CaseConfidence(c, d) = q
  BY <1>14, <1>15
<1>19. CaseStrength(c, d) = CASE q >= 7200 -> "high" [] q \in 4800 .. 7199 -> "moderate" [] OTHER -> "low"
  BY <1>18 DEF CaseStrength
<1> QED
  BY <1>16, <1>17, <1>19

LEMMA ScriptsAreSeen ==
  ASSUME NEW c \in Cases
  PROVE  /\ Len(Script[c]) \in Nat \ {0} /\ Boot[c] \in Nat /\ Boot[c] <= Len(Script[c])
         /\ \A i \in 1 .. Len(Script[c]) : Script[c][i] \in Seen
<1>1. Script[c] # << >> /\ Boot[c] \in Nat /\ Boot[c] <= Len(Script[c])
  BY SimilarityAssumption
<1>2. PICK S : S = {Script[c][i] : i \in DOMAIN Script[c]}
  OBVIOUS
<1>3. Script[c] \in Seq(S)
  BY <1>2, SimilarityAssumption
<1>4. Len(Script[c]) \in Nat /\ DOMAIN Script[c] = 1 .. Len(Script[c])
  BY <1>3, LenProperties
<1>5. Len(Script[c]) # 0
  BY <1>1, <1>3, EmptySeq
<1>6. ASSUME NEW i \in 1 .. Len(Script[c]) PROVE Script[c][i] \in Seen
  <2>1. Script[c][i] \in ToSet(Script[c])
    BY <1>4 DEF ToSet
  <2> QED
    BY <2>1 DEF Seen
<1> QED
  BY <1>1, <1>4, <1>5, <1>6

LEMMA SimilarityInitial == SimilarityInit => SimilarityInv
<1> SUFFICES ASSUME SimilarityInit PROVE SimilarityInv
  OBVIOUS
<1>1. ASSUME NEW c \in Cases
      PROVE  /\ observed[c] \in Seq(Seen)
             /\ scripted => /\ Boot[c] <= Len(observed[c])
                            /\ \A i \in 1 .. Len(observed[c]) : i <= Len(Script[c]) => observed[c][i] = Script[c][i]
  <2>1. CASE scripted
    <3>1. observed[c] = SubSeq(Script[c], 1, Boot[c])
      BY <2>1 DEF SimilarityInit
    <3>2. \A i \in 1 .. Boot[c] : i \in 1 .. Len(Script[c])
      BY ScriptsAreSeen
    <3>3. \A i \in 1 .. Boot[c] : Script[c][i] \in Seen
      BY <3>2, ScriptsAreSeen
    <3>4. Boot[c] \in Nat
      BY ScriptsAreSeen
    <3>5. /\ SubSeq(Script[c], 1, Boot[c]) \in Seq(Seen)
          /\ Len(SubSeq(Script[c], 1, Boot[c])) = IF 1 <= Boot[c] THEN Boot[c] - 1 + 1 ELSE 0
          /\ \A i \in 1 .. Boot[c] - 1 + 1 : SubSeq(Script[c], 1, Boot[c])[i] = Script[c][1 + i - 1]
      BY <3>3, <3>4, SubSeqProperties
    <3>6. Len(observed[c]) = Boot[c]
      BY <3>1, <3>4, <3>5
    <3>7. ASSUME NEW i \in 1 .. Len(observed[c]) PROVE observed[c][i] = Script[c][i]
      <4>1. i \in 1 .. Boot[c] - 1 + 1 /\ 1 + i - 1 = i
        BY <3>4, <3>6
      <4> QED
        BY <3>1, <3>5, <4>1
    <3> QED
      BY <3>1, <3>4, <3>5, <3>6, <3>7
  <2>2. CASE ~scripted
    <3>1. observed[c] = << >>
      BY <2>2 DEF SimilarityInit
    <3> QED
      BY <2>2, <3>1, EmptySeq
  <2> QED
    BY <2>1, <2>2
<1>2. observed = [c \in Cases |-> observed[c]]
  BY DEF SimilarityInit
<1>3. observed \in [Cases -> Seq(Seen)]
  BY <1>1, <1>2
<1> QED
  BY <1>1, <1>3 DEF SimilarityInv, FollowsScripts

LEMMA WithinOneRound == ASSUME NEW n \in Nat, NEW m \in Nat, n < m PROVE n % m = n
OBVIOUS

\* One more observation, which on a script is the one that follows.
LEMMA ObserveStep ==
  ASSUME SimilarityInv, NEW c \in Cases, NEW o \in Seen, ObserveEvent(c, o),
         scripted => o = Script[c][(Len(observed[c]) % Len(Script[c])) + 1]
  PROVE  SimilarityInv'
<1>1. observed[c] \in Seq(Seen)
  BY DEF SimilarityInv
<1>2. /\ Append(observed[c], o) \in Seq(Seen)
      /\ Len(Append(observed[c], o)) = Len(observed[c]) + 1
      /\ \A i \in 1 .. Len(observed[c]) : Append(observed[c], o)[i] = observed[c][i]
      /\ Append(observed[c], o)[Len(observed[c]) + 1] = o
  BY <1>1, AppendProperties
<1>3. scripted' = scripted /\ observed' = [observed EXCEPT ![c] = Append(observed[c], o)]
  BY DEF ObserveEvent
<1>4. observed' \in [Cases -> Seq(Seen)]
  BY <1>2, <1>3 DEF SimilarityInv
<1>5. ASSUME scripted, NEW d \in Cases
      PROVE  /\ Boot[d] <= Len(observed'[d])
             /\ \A i \in 1 .. Len(observed'[d]) : i <= Len(Script[d]) => observed'[d][i] = Script[d][i]
  <2>1. CASE d # c
    <3>1. observed'[d] = observed[d]
      BY <1>3, <2>1 DEF SimilarityInv
    <3> QED
      BY <1>5, <3>1 DEF SimilarityInv, FollowsScripts
  <2>2. CASE d = c
    <3>1. observed'[c] = Append(observed[c], o)
      BY <1>3 DEF SimilarityInv
    <3>2. PICK n : n = Len(observed[c])
      OBVIOUS
    <3>3. n \in Nat
      BY <1>1, <3>2, LenProperties
    <3>4. Len(observed'[c]) = n + 1
      BY <1>2, <3>1, <3>2
    <3>5. Boot[c] <= n /\ \A i \in 1 .. n : i <= Len(Script[c]) => observed[c][i] = Script[c][i]
      BY <1>5, <3>2 DEF SimilarityInv, FollowsScripts
    <3>6. Boot[c] <= n + 1
      BY <3>3, <3>5, ScriptsAreSeen
    <3>7. ASSUME NEW i \in 1 .. n + 1, i <= Len(Script[c]) PROVE observed'[c][i] = Script[c][i]
      <4>1. CASE i \in 1 .. n
        BY <1>2, <3>1, <3>2, <3>5, <3>7, <4>1
      <4>2. CASE i = n + 1
        <5>1. observed'[c][n + 1] = o
          BY <1>2, <3>1, <3>2
        <5>2. PICK m : m = Len(Script[c])
          OBVIOUS
        <5>3. m \in Nat \ {0}
          BY <5>2, ScriptsAreSeen
        <5>4. n < m
          BY <3>3, <3>7, <4>2, <5>2, <5>3
        <5>5. n % m = n
          BY <3>3, <5>3, <5>4, WithinOneRound
        <5>6. o = Script[c][n + 1]
          BY <1>5, <3>2, <5>2, <5>5
        <5> QED
          BY <4>2, <5>1, <5>6
      <4> QED
        BY <3>3, <3>7, <4>1, <4>2
    <3> QED
      BY <2>2, <3>4, <3>6, <3>7
  <2> QED
    BY <2>1, <2>2
<1> QED
  BY <1>3, <1>4, <1>5 DEF SimilarityInv, FollowsScripts

LEMMA SimilarityStep == SimilarityInv /\ [SimilarityNext]_<<observed, scripted>> => SimilarityInv'
<1> SUFFICES ASSUME SimilarityInv, [SimilarityNext]_<<observed, scripted>> PROVE SimilarityInv'
  OBVIOUS
<1>1. CASE \E c \in Cases : scripted /\ Simulate(c)
  <2>1. PICK c \in Cases : scripted /\ Simulate(c)
    BY <1>1
  <2>2. PICK n : n = Len(observed[c])
    OBVIOUS
  <2>3. observed[c] \in Seq(Seen)
    BY DEF SimilarityInv
  <2>4. n \in Nat
    BY <2>2, <2>3, LenProperties
  <2>5. PICK m : m = Len(Script[c])
    OBVIOUS
  <2>6. m \in Nat \ {0}
    BY <2>5, ScriptsAreSeen
  <2>7. (n % m) + 1 \in 1 .. m
    BY <2>4, <2>6
  <2>8. PICK o : o = Script[c][(n % m) + 1]
    OBVIOUS
  <2>9. o \in Seen
    BY <2>5, <2>7, <2>8, ScriptsAreSeen
  <2>10. ObserveEvent(c, o)
    BY <2>1, <2>2, <2>5, <2>8 DEF Simulate
  <2>11. o = Script[c][(Len(observed[c]) % Len(Script[c])) + 1]
    BY <2>2, <2>5, <2>8
  <2> QED
    BY <2>9, <2>10, <2>11, ObserveStep
<1>2. CASE \E c \in Cases, o \in Observations : ~scripted /\ ObserveEvent(c, o)
  <2>1. PICK c \in Cases, o \in Observations : ~scripted /\ ObserveEvent(c, o)
    BY <1>2
  <2>2. o \in Seen
    BY <2>1 DEF Seen
  <2> QED
    BY <2>1, <2>2, ObserveStep
<1>3. CASE UNCHANGED <<observed, scripted>>
  BY <1>3 DEF SimilarityInv, FollowsScripts
<1> QED
  BY <1>1, <1>2, <1>3 DEF SimilarityNext

LEMMA SimilarityInvariant == SimilaritySpec => []SimilarityInv
<1>1. SimilarityInit => SimilarityInv
  BY SimilarityInitial
<1>2. SimilarityInv /\ [SimilarityNext]_<<observed, scripted>> => SimilarityInv'
  BY SimilarityStep
<1> QED
  BY <1>1, <1>2, PTL DEF SimilaritySpec

LEMMA OfOneObservation ==
  ASSUME observed \in [Cases -> Seq(Seen)], NEW c \in Cases, NEW i \in 1 .. Len(observed[c])
  PROVE  /\ observed[c][i].type \in Types(c)
         /\ observed[c][i].fingerprint # None => observed[c][i].fingerprint \in Fingerprints(c)
<1>1. observed[c] \in Seq(Seen)
  OBVIOUS
<1>2. DOMAIN observed[c] = 1 .. Len(observed[c])
  BY <1>1, LenProperties
<1>3. observed[c][i] \in ToSet(observed[c])
  BY <1>2 DEF ToSet
<1> QED
  BY <1>3 DEF Types, Fingerprints

\* A case that has the first n observations of its script shows what they show.
LEMMA ScriptIsShown ==
  ASSUME SimilarityInv, scripted, NEW c \in Cases, NEW n \in Nat, n <= Len(observed[c]), n <= Len(Script[c]),
         NEW i \in 1 .. n
  PROVE  /\ Script[c][i].type \in Types(c)
         /\ Script[c][i].fingerprint # None => Script[c][i].fingerprint \in Fingerprints(c)
<1>1. observed[c] \in Seq(Seen)
  BY DEF SimilarityInv
<1>2. Len(observed[c]) \in Nat
  BY <1>1, LenProperties
<1>3. i \in 1 .. Len(observed[c]) /\ i <= Len(Script[c])
  BY <1>2, ScriptsAreSeen
<1>4. observed[c][i] = Script[c][i]
  BY <1>3 DEF SimilarityInv, FollowsScripts
<1> QED
  BY <1>3, <1>4, OfOneObservation DEF SimilarityInv

\* Whatever two cases show, a link the service reports as more than low rests
\* on an event type of both (compare_cases): without one, the two overlaps left
\* cannot carry the confidence past 3000 of 10000. And the narrative of the
\* campaign (campaigns) holds on the scripts from the third primary event on,
\* in whatever order the two cases are advanced and however far.
THEOREM CampaignsRestOnEvidence == SimilaritySpec => []CampaignRestsOnEvidence
<1>1. ASSUME SimilarityInv PROVE CampaignRestsOnEvidence
  <2>1. observed \in [Cases -> Seq(Seen)] /\ "primary" \in Cases /\ "secondary" \in Cases
    BY <1>1 DEF SimilarityInv, Cases
  <2>2. ASSUME Campaign.strength # "low" PROVE Types("primary") \cap Types("secondary") # {}
    <3>1. CaseStrength("primary", "secondary") # "low"
      BY <2>2 DEF Campaign
    <3> QED
      BY <2>1, <3>1, LowWithoutCommonType
  <2>3. ASSUME scripted, Len(observed["primary"]) >= 3 PROVE NarrativeIsSupported
    <3>1. Len(Script["primary"]) >= 3
      BY NarrativeAssumption
    <3>2. \A i \in 1 .. 3 :
            /\ Script["primary"][i].type \in Types("primary")
            /\ Script["primary"][i].fingerprint # None => Script["primary"][i].fingerprint \in Fingerprints("primary")
      <4>1. 3 <= Len(observed["primary"]) /\ 3 <= Len(Script["primary"]) /\ 3 \in Nat
        <5>1. observed["primary"] \in Seq(Seen)
          BY <2>1
        <5>2. Len(observed["primary"]) \in Nat
          BY <5>1, LenProperties
        <5>3. Len(Script["primary"]) \in Nat
          BY <2>1, ScriptsAreSeen
        <5> QED
          BY <2>3, <3>1, <5>2, <5>3
      <4> QED
        BY <1>1, <2>1, <2>3, <4>1, ScriptIsShown
    <3>3. \A i \in 1 .. Boot["secondary"] :
            /\ Script["secondary"][i].type \in Types("secondary")
            /\ Script["secondary"][i].fingerprint # None => Script["secondary"][i].fingerprint \in Fingerprints("secondary")
      <4>1. Boot["secondary"] <= Len(observed["secondary"])
        BY <1>1, <2>1, <2>3 DEF SimilarityInv, FollowsScripts
      <4>2. Boot["secondary"] \in Nat /\ Boot["secondary"] <= Len(Script["secondary"])
        BY <2>1, ScriptsAreSeen
      <4> QED
        BY <1>1, <2>1, <2>3, <4>1, <4>2, ScriptIsShown
    <3> DEFINE first == {Script["primary"][i] : i \in DOMAIN Script["primary"] \cap 1 .. 3}
               booted == {Script["secondary"][i] : i \in DOMAIN Script["secondary"] \cap 1 .. Boot["secondary"]}
    <3>4. \A o \in first : o.type \in Types("primary") /\ (o.fingerprint # None => o.fingerprint \in Fingerprints("primary"))
      BY <3>2
    <3>5. \A o \in booted :
             o.type \in Types("secondary") /\ (o.fingerprint # None => o.fingerprint \in Fingerprints("secondary"))
      BY <3>3
    <3>6. /\ \A type \in {"network_scan", "admin_route_probe"} :
               (\E o \in first : o.type = type) /\ (\E o \in booted : o.type = type)
          /\ \E o \in first, p \in booted : o.fingerprint = p.fingerprint /\ o.fingerprint # None
      BY NarrativeAssumption
    <3> HIDE DEF first, booted
    <3>7. \A type \in {"network_scan", "admin_route_probe"} : type \in Types("primary") \cap Types("secondary")
      BY <3>4, <3>5, <3>6
    <3>8. Fingerprints("primary") \cap Fingerprints("secondary") # {}
      <4>1. PICK o \in first, p \in booted : o.fingerprint = p.fingerprint /\ o.fingerprint # None
        BY <3>6
      <4>2. o.fingerprint \in Fingerprints("primary")
        BY <3>4, <4>1
      <4>3. p.fingerprint \in Fingerprints("secondary")
        BY <3>5, <4>1
      <4> QED
        BY <4>1, <4>2, <4>3
    <3> QED
      BY <3>7, <3>8 DEF NarrativeIsSupported
  <2> QED
    BY <2>2, <2>3 DEF CampaignRestsOnEvidence
<1>2. SimilaritySpec => []SimilarityInv
  BY SimilarityInvariant
<1> QED
  BY <1>1, <1>2, PTL

\* The table both comparisons fill (_sequence_similarity) holds the length of a
\* longest common subsequence of the types of the two cases, in either order.
THEOREM TheTableIsRight == SimilaritySpec => []SequenceTableIsRight
<1>1. ASSUME SimilarityInv PROVE SequenceTableIsRight
  <2>1. observed \in [Cases -> Seq(Seen)] /\ "primary" \in Cases /\ "secondary" \in Cases
    BY <1>1 DEF SimilarityInv, Cases
  <2> DEFINE l == TypesInOrder("primary")
             r == TypesInOrder("secondary")
             S == Types("primary") \cup Types("secondary")
  <2>2. l \in Seq(S)
    BY <2>1, TypesOfSequence
  <2>3. r \in Seq(S)
    BY <2>1, TypesOfSequence
  <2> HIDE DEF l, r, S
  <2>4. LongestCommon(l, r) = Max(Lengths(Subsequences(l) \cap Subsequences(r)))
    BY <2>2, <2>3, LongestCommonIsRight
  <2>5. LongestCommon(r, l) = Max(Lengths(Subsequences(r) \cap Subsequences(l)))
    BY <2>2, <2>3, LongestCommonIsRight
  <2>6. Subsequences(r) \cap Subsequences(l) = Subsequences(l) \cap Subsequences(r)
    OBVIOUS
  <2>7. /\ LongestCommon(l, r) = Max({Len(s) : s \in Subsequences(l) \cap Subsequences(r)})
        /\ LongestCommon(r, l) = LongestCommon(l, r)
    BY <2>4, <2>5, <2>6 DEF Lengths
  <2> QED
    BY <2>7 DEF SequenceTableIsRight, l, r
<1>2. SimilaritySpec => []SimilarityInv
  BY SimilarityInvariant
<1> QED
  BY <1>1, <1>2, PTL

==============================================================================
