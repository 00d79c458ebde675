---------------------------- MODULE GraphClustering ----------------------------
(***************************************************************************)
(* Campaign clustering of aegis/trace_graph_research.py: a union-find fed   *)
(* with scored edges from the strongest to the weakest, by the ordinary     *)
(* components and by the guarded ones, the record kept of the guard's       *)
(* decisions, and the metrics the clusters are judged by. Probabilities     *)
(* are percentages; the sessions and their scores are chosen in Init.       *)
(***************************************************************************)
EXTENDS Naturals, FiniteSets, FiniteSetsExt

CONSTANTS
  Members,         \* the sessions, numbers in the order of their names
  CampaignOf,      \* the campaign of each
  Bridges,         \* pairs of sessions between which an edge is injected
  Kinds,           \* the edges a pair may have, [p, diverse, bridge]
  PairThreshold,   \* the threshold of the pair model
  Guards,          \* [threshold, seed, support, size] of guarded_components: association
                   \* and seed threshold, least cross support, size cap
  Unit             \* the parts of one in which the averages of the metrics are counted

Keys == {pair \in Members \X Members : pair[1] < pair[2]}

ASSUME GraphAssumption ==
  /\ Members \subseteq Nat /\ IsFiniteSet(Members) /\ Bridges \subseteq Keys
  /\ \A k \in Kinds : k.p \in 0 .. 100
  /\ PairThreshold \in 20 .. 80 /\ Unit \in Nat \ {0}
  /\ \A g \in Guards :
       /\ g.threshold \in 0 .. 68 /\ g.seed \in g.threshold + 4 .. 100
       /\ g.support \in 1 .. 100 /\ g.size \in Nat \ {0}

VARIABLES
  graph,      \* the edge of every pair, bridges injected
  guard,      \* the parameters of guarded_components, or Unguarded
  parent,     \* _UnionFind.parent
  groups,     \* _UnionFind.groups, kept for the roots
  pending,    \* the pairs the loop has not come to
  decisions   \* the guard's records

graphVars == <<graph, guard, parent, groups, pending, decisions>>

Unguarded == [threshold |-> PairThreshold, seed |-> 0, support |-> 0, size |-> 0]
BridgeEdge == [p |-> Min({86, Max({68, PairThreshold + 12})}), diverse |-> TRUE, bridge |-> TRUE]

------------------------------------------------------------------------------
(* Union-find *)

Path(tree) == LET path[m \in Members] == IF tree[m] = m THEN {m} ELSE {m} \cup path[tree[m]] IN path
Root(tree, m) == CHOOSE root \in Path(tree)[m] : tree[root] = root

\* find also hangs what it passes below the root.
Find(tree, m) == [x \in Members |-> IF x \in Path(tree)[m] THEN Root(tree, m) ELSE tree[x]]
FindBoth(tree, key) == Find(Find(tree, key[1]), key[2])

GroupOf(m) == groups[Root(parent, m)]
Joined(key) == Root(parent, key[1]) = Root(parent, key[2])

Union(key) ==
  LET left  == Root(parent, key[1])
      right == Root(parent, key[2])
      keep  == IF Cardinality(groups[left]) < Cardinality(groups[right]) THEN right ELSE left
      drop  == IF keep = left THEN right ELSE left
  IN  /\ parent' = [FindBoth(parent, key) EXCEPT ![drop] = keep]
      /\ groups' = [root \in DOMAIN groups \ {drop} |->
                      IF root = keep THEN groups[left] \cup groups[right] ELSE groups[root]]

Clusters == {groups[root] : root \in DOMAIN groups}

------------------------------------------------------------------------------
(* The guard *)

\* All pairs across two groups, and the scores of a set of pairs.
Between(A, B) == {key \in Keys : (key[1] \in A /\ key[2] \in B) \/ (key[1] \in B /\ key[2] \in A)}
Supporting(pairs) == {key \in pairs : graph[key].p >= guard.threshold}

TotalScore(pairs) == SumFunction([key \in pairs |-> graph[key].p])

\* The k-th smallest score, and twice the median.
Ranked(pairs, k) ==
  CHOOSE p \in {graph[key].p : key \in pairs} :
    /\ Cardinality({key \in pairs : graph[key].p < p}) < k
    /\ k <= Cardinality({key \in pairs : graph[key].p <= p})
TwiceMedian(pairs) ==
  LET n == Cardinality(pairs) IN Ranked(pairs, (n + 1) \div 2) + Ranked(pairs, n \div 2 + 1)

CohortGate(pairs) ==
  LET n == Cardinality(pairs)
  IN  /\ 100 * Cardinality(Supporting(pairs)) >= guard.support * n
      /\ TotalScore(pairs) >= (guard.threshold + 4) * n
      /\ TwiceMedian(pairs) >= 2 * guard.threshold

Cross(key) == Between(GroupOf(key[1]), GroupOf(key[2]))
ProposedSize(key) == Cardinality(GroupOf(key[1])) + Cardinality(GroupOf(key[2]))

\* Variant: the edge alone decides for cohorts as it does for single sessions.
AllowedByEdge(key) ==
  /\ ProposedSize(key) <= guard.size
  /\ graph[key].diverse
  /\ graph[key].p >= guard.seed

Allowed(key) ==
  /\ ProposedSize(key) <= guard.size
  /\ graph[key].diverse
  /\ IF Cardinality(Cross(key)) = 1 THEN graph[key].p >= guard.seed ELSE CohortGate(Cross(key))

Reason(key) ==
  IF Allowed(key) THEN "MERGED_COHORT_SUPPORT"
  ELSE IF ProposedSize(key) > guard.size THEN "REJECT_MAX_CLUSTER"
  ELSE IF ~graph[key].diverse THEN "REJECT_EVIDENCE_DIVERSITY"
  ELSE "REJECT_TRANSITIVE_BRIDGE"

Decision(key) ==
  [key |-> key, bridge |-> graph[key].bridge, merge |-> Allowed(key), reason |-> Reason(key),
   size |-> ProposedSize(key)]

------------------------------------------------------------------------------
(* The loop over the edges, from the strongest to the weakest *)

GraphInit ==
  /\ graph \in {[key \in Keys |-> IF key \in Bridges THEN BridgeEdge ELSE g[key]] : g \in [Keys \ Bridges -> Kinds]}
  /\ guard \in Guards \cup {Unguarded}
  /\ parent = [m \in Members |-> m]
  /\ groups = [m \in Members |-> {m}]
  /\ pending = Keys
  /\ decisions = {}

KeyBefore(key, other) == key[1] < other[1] \/ (key[1] = other[1] /\ key[2] < other[2])

Due(key) ==
  /\ key \in pending
  /\ \A other \in pending \ {key} :
       \/ graph[key].p > graph[other].p
       \/ graph[key].p = graph[other].p /\ KeyBefore(key, other)

Pass(key) == pending' = pending \ {key} /\ UNCHANGED <<graph, guard>>

BelowThreshold == \E key \in Keys :
  /\ Due(key) /\ Pass(key)
  /\ graph[key].p < guard.threshold
  /\ UNCHANGED <<parent, groups, decisions>>

\* Both look the two sessions up and find them one group: nothing is recorded,
\* of a bridge either.
AlreadyJoined == \E key \in Keys :
  /\ Due(key) /\ Pass(key)
  /\ graph[key].p >= guard.threshold /\ Joined(key)
  /\ parent' = FindBoth(parent, key)
  /\ UNCHANGED <<groups, decisions>>

JoinUnguarded == \E key \in Keys :
  /\ Due(key) /\ Pass(key)
  /\ guard = Unguarded /\ graph[key].p >= guard.threshold /\ ~Joined(key)
  /\ Union(key)
  /\ UNCHANGED decisions

\* Variant: only merges over an injected edge are recorded.
MergeRecordsBridges == \E key \in Keys :
  /\ Due(key) /\ Pass(key)
  /\ guard # Unguarded /\ graph[key].p >= guard.threshold /\ ~Joined(key) /\ Allowed(key)
  /\ Union(key)
  /\ decisions' = IF graph[key].bridge THEN decisions \cup {Decision(key)} ELSE decisions

Merge == \E key \in Keys :
  /\ Due(key) /\ Pass(key)
  /\ guard # Unguarded /\ graph[key].p >= guard.threshold /\ ~Joined(key) /\ Allowed(key)
  /\ Union(key)
  /\ decisions' = decisions \cup {Decision(key)}

\* A refusal is recorded for an injected edge only.
Reject == \E key \in Keys :
  /\ Due(key) /\ Pass(key)
  /\ guard # Unguarded /\ graph[key].p >= guard.threshold /\ ~Joined(key) /\ ~Allowed(key)
  /\ parent' = FindBoth(parent, key)
  /\ decisions' = IF graph[key].bridge THEN decisions \cup {Decision(key)} ELSE decisions
  /\ UNCHANGED groups

GraphNext == BelowThreshold \/ AlreadyJoined \/ JoinUnguarded \/ Merge \/ Reject

GraphSpec == GraphInit /\ [][GraphNext]_graphVars

Done == pending = {}

------------------------------------------------------------------------------
(* What the experiment reports *)

TruthOf(m) == {x \in Members : CampaignOf[x] = CampaignOf[m]}
Truths == {TruthOf(m) : m \in Members}
ClusterOf(m) == CHOOSE c \in Clusters : m \in c

\* The B-cubed averages, times the number of sessions and in parts of Unit.
BCubedPrecision ==
  SumFunction([m \in Members |->
    (Unit * Cardinality(ClusterOf(m) \cap TruthOf(m))) \div Cardinality(ClusterOf(m))])
BCubedRecall ==
  SumFunction([m \in Members |->
    (Unit * Cardinality(ClusterOf(m) \cap TruthOf(m))) \div Cardinality(TruthOf(m))])

PairsWithin(partition) == UNION {Between(c, c) : c \in partition}
TruePositives  == PairsWithin(Clusters) \cap PairsWithin(Truths)
FalsePositives == PairsWithin(Clusters) \ PairsWithin(Truths)
FalseNegatives == PairsWithin(Truths) \ PairsWithin(Clusters)

\* Variant: the rarest campaign of a cluster is counted.
PuritySmallest ==
  SumFunction([c \in Clusters |-> Min({Cardinality(c \cap t) : t \in {u \in Truths : u \cap c # {}}})])

\* Purity, times the number of sessions.
Purity == SumFunction([c \in Clusters |-> Max({Cardinality(c \cap t) : t \in Truths})])

SplitCampaigns == {t \in Truths : Cardinality({ClusterOf(m) : m \in t}) > 1}

BridgeDecisions == {d \in decisions : d.bridge}
------------------------------------------------------------------------------

\* The clusters are the components of the graph of some pairs: none of them
\* crosses two clusters, and no cluster falls apart without one.
ClustersConnectedBy(pairs) ==
  /\ \A key \in pairs : ClusterOf(key[1]) = ClusterOf(key[2])
  /\ \A c \in Clusters : \A part \in (SUBSET c) \ {{}, c} : Between(part, c \ part) \cap pairs # {}

\* A cohort the guard has formed holds together as a whole: within the size
\* cap, enough of all its pairs reach the threshold and their mean exceeds
\* it, however many merges one of which may be a bridge made it up
\* (guarded_components: no edge gains the power of transitive closure).
CohortsAreSupported ==
  guard # Unguarded =>
    \A c \in Clusters : LET pairs == Between(c, c) IN
      /\ Cardinality(c) <= guard.size
      /\ 100 * Cardinality(Supporting(pairs)) >= guard.support * Cardinality(pairs)
      /\ TotalScore(pairs) >= (guard.threshold + 4) * Cardinality(pairs)

\* What was decided explains the clusters at every moment. Ordinary components
\* are connectivity over the edges passed, whatever their order was; guarded
\* ones are made by the recorded merges and no others, and the sessions of a
\* bridge passed are in one cluster or its refusal is on record. This is less
\* than docs/ARCHITECTURE.md:255 and docs/GRAPH_RESEARCH_GUIDE.md:72 say, a record
\* of every bridge: one that comes when its sessions are one group already gets
\* none (AlreadyJoined, trace_graph_research.py:212).
DecisionsExplainClusters ==
  IF guard = Unguarded THEN ClustersConnectedBy(Supporting(Keys \ pending))
  ELSE /\ ClustersConnectedBy({d.key : d \in {e \in decisions : e.merge}})
       /\ Cardinality({d \in decisions : d.merge}) + Cardinality(Clusters) = Cardinality(Members)
       /\ \A key \in Bridges \ pending :
            ClusterOf(key[1]) = ClusterOf(key[2]) \/ \E d \in BridgeDecisions : d.key = key /\ ~d.merge

\* The metrics of clustering_metrics do not contradict each other: purity is
\* never below B-cubed precision, either is perfect exactly when no pair is
\* merged wrongly, and recall is perfect exactly when no campaign is split.
MetricsAgree ==
  Done =>
    /\ BCubedPrecision <= Unit * Purity
    /\ BCubedPrecision = Unit * Cardinality(Members) <=> FalsePositives = {}
    /\ Purity = Cardinality(Members) <=> FalsePositives = {}
    /\ BCubedRecall = Unit * Cardinality(Members) <=> FalseNegatives = {}
    /\ SplitCampaigns = {} <=> FalseNegatives = {}
    /\ Cardinality(TruePositives) + Cardinality(FalseNegatives) = Cardinality(PairsWithin(Truths))

==============================================================================
