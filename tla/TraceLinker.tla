----------------------------- MODULE TraceLinker -----------------------------
(***************************************************************************)
(* The evidence-diversity linker of aegis/trace.py and the leading         *)
(* assessment of its report. What two sessions have in common is, family   *)
(* by family, a similarity or nothing to compare; it changes with every    *)
(* observation. Scores are exact integers: a similarity is in thousandths, *)
(* a score in ten-thousandths. An observation that bears on several        *)
(* families is several steps.                                              *)
(***************************************************************************)
EXTENDS Integers, FiniteSets

CONSTANTS
  Links,         \* the pairs of sessions of a report
  Observed,      \* the signal families that are observed
  Similarities   \* the overlaps two sessions may have in a family

Families == {"source", "infrastructure", "transport", "tooling", "behavior", "deception"}

ASSUME LinkerAssumption == Observed \subseteq Families /\ Similarities \subseteq 0..1000

VARIABLE similarity   \* of each link in each family

Unavailable == -1

------------------------------------------------------------------------------
(* raw_score *)

\* effective_weight, in hundred-thousandths.
Weight == [source |-> 1647, infrastructure |-> 5353, transport |-> 12948,
           tooling |-> 8901, behavior |-> 13824, deception |-> 16740]

\* Variant: a family without overlap does not count.
Overlapping(s) == {f \in Families : s[f] > 0}

Available(s) == {f \in Families : s[f] # Unavailable}
Matched(s)   == {f \in Families : s[f] >= 280}
Divergent(s) == {f \in Families : s[f] = 0}

\* Over some of the six families.
SumOver(v, families) ==
  LET term(f) == IF f \in families THEN v[f] ELSE 0
  IN  term("source") + term("infrastructure") + term("transport") + term("tooling") + term("behavior") + term("deception")

Evidence(s) ==
  LET weight == SumOver(Weight, Available(s))
      match  == SumOver([f \in Families |-> Weight[f] * s[f]], Available(s))
  IN  IF weight = 0 THEN 0 ELSE (10 * match) \div weight

DiversityBonus(s) ==
  LET agreeing == Cardinality(Matched(s)) IN
  IF agreeing > 5 THEN 1000 ELSE IF agreeing < 1 THEN 0 ELSE 250 * (agreeing - 1)

Contradiction(f) == IF f = "source" THEN 120 ELSE 400

Bounded(score) == IF score < 0 THEN 0 ELSE IF score > 10000 THEN 10000 ELSE score

RawScore(s) ==
  Bounded(Evidence(s) + DiversityBonus(s)
            - SumOver([f \in Families |-> Contradiction(f)], Divergent(s)))

------------------------------------------------------------------------------
(* compare. The logistic curve is increasing: a probability is given by the *)
(* score it belongs to, of which 0.49, 0.50, 0.69 and 0.75 have these.      *)

P49 == 4943
P50 == 5000
P69 == 6143
P75 == 6569

\* Variant: the second cap is missing.
OneCap(s) == IF Cardinality(Matched(s)) < 2 THEN P49 ELSE 10000

Cap(s) ==
  IF Cardinality(Matched(s)) < 2 THEN P49
  ELSE IF Cardinality(Matched(s)) < 3 THEN P69 ELSE 10000

Confidence(s) == IF RawScore(s) < Cap(s) THEN RawScore(s) ELSE Cap(s)

Strength(s) ==
  LET matched == Cardinality(Matched(s)) IN
  IF Confidence(s) >= P75 /\ matched >= 3 THEN "HIGH"
  ELSE IF Confidence(s) >= P50 /\ matched >= 2 THEN "MODERATE" ELSE "LOW"

\* build_trace_report: the links are sorted by confidence and the first is
\* the leading one; of equals it may be any.
Leading == {l \in Links : \A m \in Links : Confidence(similarity[m]) <= Confidence(similarity[l])}
ReportStatus(l) == IF Strength(similarity[l]) # "LOW" THEN "RELATED_ACTIVITY_SUPPORTED" ELSE "INSUFFICIENT_EVIDENCE"

------------------------------------------------------------------------------

NothingShared == [f \in Families |-> Unavailable]

TraceInit == similarity = [l \in Links |-> NothingShared]

\* An event of one of the two sessions.
Observe(l, f, s) == similarity' = [similarity EXCEPT ![l][f] = s]

\* The cases are reset.
Forget == similarity' = [l \in Links |-> NothingShared]

TraceNext ==
  \/ \E l \in Links, f \in Observed, s \in Similarities : Observe(l, f, s)
  \/ Forget

TraceSpec == TraceInit /\ [][TraceNext]_similarity

------------------------------------------------------------------------------

Rank(strength) == CASE strength = "LOW" -> 0 [] strength = "MODERATE" -> 1 [] OTHER -> 2

Before(l) == Strength(similarity[l])
After(l)  == Strength(similarity'[l])
OnlyChanged(l, f) == \A g \in Families \ {f} : similarity'[l][g] = similarity[l][g]

\* More overlap in a family both sessions have, or full overlap in one they
\* had nothing to compare in, never weakens a link, although bonus, penalty,
\* the caps and the weights all depend on it (EvidenceDiversityLinker).
AgreementNeverWeakens ==
  [][\A l \in Links, f \in Observed :
       /\ OnlyChanged(l, f)
       /\ similarity'[l][f] > similarity[l][f]
       /\ similarity[l][f] # Unavailable \/ similarity'[l][f] = 1000
       => Rank(Before(l)) <= Rank(After(l))]_similarity

\* The link with the highest confidence is also one of the strongest, so the
\* leading assessment never hides a related activity behind a capped link.
LeadingIsStrongest ==
  \A l \in Leading, m \in Links :
    /\ Rank(Strength(similarity[m])) <= Rank(Strength(similarity[l]))
    /\ ReportStatus(m) = "RELATED_ACTIVITY_SUPPORTED" => ReportStatus(l) = "RELATED_ACTIVITY_SUPPORTED"

==============================================================================
