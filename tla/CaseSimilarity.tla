---------------------------- MODULE CaseSimilarity ----------------------------
(***************************************************************************)
(* The comparison of two cases in aegis/investigation.py and the campaign  *)
(* aegis/service.py reports from it. An observation is what the comparison *)
(* reads of an event; every event type has a technique of its own, so that *)
(* techniques are given by their types. Overlaps and confidences are in    *)
(* ten-thousandths.                                                        *)
(***************************************************************************)
EXTENDS Naturals, Sequences, SequencesExt, FiniteSets, FiniteSetsExt

CONSTANTS
  Observations,  \* [type, family, fingerprint] of any events there might be
  Script,        \* Script[c]: the scripted observations of case c
  Boot,          \* Boot[c]: how many of them bootstrap applies
  MaxScripted,   \* bounds on the events of a case, along the script
  MaxAny         \* and otherwise

Cases == {"primary", "secondary"}
None == "none"

ASSUME SimilarityAssumption ==
  /\ DOMAIN Script = Cases
  /\ \A c \in Cases : Script[c] # << >> /\ Script[c] \in Seq({Script[c][i] : i \in DOMAIN Script[c]})
  /\ Boot \in [Cases -> Nat] /\ \A c \in Cases : Boot[c] <= Len(Script[c])
  /\ MaxScripted \in Nat /\ MaxAny \in Nat

\* The scripts show what the narrative says: the primary one in its first three
\* observations, the secondary one in what bootstrap applies.
ASSUME NarrativeAssumption ==
  LET first == {Script["primary"][i] : i \in DOMAIN Script["primary"] \cap 1 .. 3}
      booted == {Script["secondary"][i] : i \in DOMAIN Script["secondary"] \cap 1 .. Boot["secondary"]}
  IN  /\ Len(Script["primary"]) >= 3
      /\ \A type \in {"network_scan", "admin_route_probe"} :
           (\E o \in first : o.type = type) /\ (\E o \in booted : o.type = type)
      /\ \E o \in first, p \in booted : o.fingerprint = p.fingerprint /\ o.fingerprint # None

VARIABLES
  observed,  \* the observations of each case, in their order
  scripted   \* whether they follow the service's scripts

------------------------------------------------------------------------------
(* compare_cases *)

Types(c)        == {o.type : o \in ToSet(observed[c])}
TargetFamilies(c) == {o.family : o \in ToSet(observed[c])}
Fingerprints(c) == {o.fingerprint : o \in ToSet(observed[c])} \ {None}
TypesInOrder(c) == [i \in 1 .. Len(observed[c]) |-> observed[c][i].type]

\* Two cases without any fingerprint share none.
Jaccard(A, B) ==
  IF A \cup B = {} THEN 0 ELSE (10000 * Cardinality(A \cap B)) \div Cardinality(A \cup B)

\* Variant: equal items count wherever they are.
CommonItems(l, r) ==
  Cardinality({i \in 1 .. Len(l) : \E j \in 1 .. Len(r) : l[i] = r[j]})

\* The table both modules fill, row by row.
LongestCommon(l, r) ==
  LET cell[at \in (0 .. Len(l)) \X (0 .. Len(r))] ==
        LET i == at[1]
            j == at[2]
        IN  IF i = 0 \/ j = 0 THEN 0
            ELSE IF l[i] = r[j] THEN cell[<<i - 1, j - 1>>] + 1
            ELSE Max({cell[<<i - 1, j>>], cell[<<i, j - 1>>]})
  IN  cell[<<Len(l), Len(r)>>]

SequenceSimilarity(l, r) ==
  IF l = << >> \/ r = << >> THEN 0
  ELSE (10000 * LongestCommon(l, r)) \div Max({Len(l), Len(r)})

\* Variant: what is watched decides as much as how.
EvenCaseConfidence(c, d) ==
  (25 * Jaccard(Types(c), Types(d))
   + 25 * SequenceSimilarity(TypesInOrder(c), TypesInOrder(d))
   + 25 * Jaccard(TargetFamilies(c), TargetFamilies(d))
   + 25 * Jaccard(Fingerprints(c), Fingerprints(d))) \div 100

CaseConfidence(c, d) ==
  (45 * Jaccard(Types(c), Types(d))
   + 25 * SequenceSimilarity(TypesInOrder(c), TypesInOrder(d))
   + 15 * Jaccard(TargetFamilies(c), TargetFamilies(d))
   + 15 * Jaccard(Fingerprints(c), Fingerprints(d))) \div 100

CaseStrength(c, d) ==
  CASE CaseConfidence(c, d) >= 7200 -> "high"
    [] CaseConfidence(c, d) \in 4800 .. 7199 -> "moderate"
    [] OTHER -> "low"

\* campaigns: the one link of the two cases is reported whatever its strength.
Campaign == [linked_cases |-> Cases, strength |-> CaseStrength("primary", "secondary")]

------------------------------------------------------------------------------

\* What the service does, bootstrap and then simulate along the script, or
\* any observation in any case.
SimilarityInit ==
  /\ scripted \in BOOLEAN
  /\ observed = [c \in Cases |-> IF scripted THEN SubSeq(Script[c], 1, Boot[c]) ELSE << >>]

ObserveEvent(c, o) ==
  /\ Len(observed[c]) < (IF scripted THEN MaxScripted ELSE MaxAny)
  /\ observed' = [observed EXCEPT ![c] = Append(@, o)]
  /\ UNCHANGED scripted

Simulate(c) == ObserveEvent(c, Script[c][(Len(observed[c]) % Len(Script[c])) + 1])

SimilarityNext ==
  \/ scripted /\ \E c \in Cases : Simulate(c)
  \/ ~scripted /\ \E c \in Cases, o \in Observations : ObserveEvent(c, o)

SimilaritySpec == SimilarityInit /\ [][SimilarityNext]_<<observed, scripted>>

------------------------------------------------------------------------------

\* Item by item, a subsequence leaves the next one out or ends with it.
Subsequences(seq) ==
  LET upTo[n \in 0 .. Len(seq)] ==
        IF n = 0 THEN {<< >>} ELSE upTo[n - 1] \cup {Append(s, seq[n]) : s \in upTo[n - 1]}
  IN  upTo[Len(seq)]

\* The table of _sequence_similarity computes what its name says: the length
\* of a longest common subsequence, whichever case comes first.
SequenceTableIsRight ==
  LET l == TypesInOrder("primary")
      r == TypesInOrder("secondary")
  IN  /\ LongestCommon(l, r) = Max({Len(s) : s \in Subsequences(l) \cap Subsequences(r)})
      /\ LongestCommon(r, l) = LongestCommon(l, r)

\* What the narrative of the reported campaign says: the sessions share
\* discovery choices, privileged-route interest and a client fingerprint.
NarrativeIsSupported ==
  /\ {"network_scan", "admin_route_probe"} \subseteq Types("primary") \cap Types("secondary")
  /\ Fingerprints("primary") \cap Fingerprints("secondary") # {}

\* What campaigns reports rests on what the cases show: a link that is not low
\* on a technique of both, which supporting_evidence names, a common client and
\* common targets are not enough; and the narrative, on the service's scripts
\* however the cases are advanced, from the primary case's third event on.
CampaignRestsOnEvidence ==
  /\ Campaign.strength # "low" => Types("primary") \cap Types("secondary") # {}
  /\ scripted /\ Len(observed["primary"]) >= 3 => NarrativeIsSupported

==============================================================================
