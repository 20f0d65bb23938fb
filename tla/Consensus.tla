----------------------------- MODULE Consensus -----------------------------
(***************************************************************************)
(* Consensus scoring of one geocoding (run_consensus, and the choice of    *)
(* the member that becomes official): a greedy single pass over the        *)
(* candidates in order of weight, in which each joins the nearest cluster  *)
(* or seeds one.                                                           *)
(*                                                                         *)
(* The city is a plane: positions are pairs of integers, and a centroid is *)
(* kept as the sum of weight * position of its members beside the sum of   *)
(* their weights, so that comparisons of distances are exact.              *)
(***************************************************************************)
EXTENDS Integers, Sequences, FiniteSetsExt

CONSTANTS
  Points,        \* positions a provider may answer
  Weights,       \* trust weights, as multiples of a common unit
  MaxCandidates, \* candidates of one geocoding
  Reach,         \* 100 m: a candidate joins a cluster no farther away
  Stray          \* 1 km: a candidate farther from the winner is an outlier

ASSUME PointsArePairs     == Points \subseteq Int \X Int
ASSUME WeightsArePositive == Weights \subseteq Nat \ {0}
ASSUME LimitsAreOrdered   == Reach \in Nat /\ Stray \in Nat /\ Reach <= Stray
ASSUME BoundIsNat         == MaxCandidates \in Nat
(* A centroid moves by at most 50 m with each candidate: enough for twenty *)
(* of them.  A cache hit has the most, which are the rows of six           *)
(* providers, of three fuzzy names, of an admin and of a GIS import, and   *)
(* the fresh answers of four local providers.                              *)
ASSUME DriftIsBounded     == MaxCandidates * Reach <= 2 * Stray

VARIABLES
  valid,    \* candidates with coordinates and confidence > 0, as sorted so far
  clusters, \* in the order of their seeds
  phase,    \* "cluster", "scored" or "elected"
  winner,   \* index of the winning cluster; 0 before it is known
  outliers, \* indices of the candidates flagged is_outlier
  elected   \* index of the candidate that becomes official; 0 before

vars == <<valid, clusters, phase, winner, outliers, elected>>

Candidate == [at : Points, weight : Weights]
Cluster   == [members : SUBSET (1 .. MaxCandidates),
              weight : Nat \ {0}, x : Int, y : Int]

TypeOK ==
  /\ valid    \in Seq(Candidate)
  /\ Len(valid) <= MaxCandidates
  /\ clusters \in Seq(Cluster)
  /\ \A i \in DOMAIN clusters : clusters[i].members \subseteq DOMAIN valid
  /\ phase    \in {"cluster", "scored", "elected"}
  /\ winner   \in {0} \cup DOMAIN clusters
  /\ outliers \subseteq DOMAIN valid
  /\ elected  \in {0} \cup DOMAIN valid

Init ==
  /\ valid    = <<>>
  /\ clusters = <<>>
  /\ phase    = "cluster"
  /\ winner   = 0
  /\ outliers = {}
  /\ elected  = 0

-----------------------------------------------------------------------------
Square(n) == n * n

(* The square of: distance of c from the centroid of k, times k's weight. *)
Gap(c, k) == Square(c.at[1] * k.weight - k.x) + Square(c.at[2] * k.weight - k.y)

(* Mutant: a strict limit. *)
StrictlyWithin(c, k, limit) == Gap(c, k) < Square(limit * k.weight)

Within(c, k, limit) == Gap(c, k) <= Square(limit * k.weight)

Nearer(c, k, l) == Gap(c, k) * Square(l.weight) < Gap(c, l) * Square(k.weight)

(* The cluster that c joins if it is close enough: the first of the nearest. *)
IsNearest(c, i) ==
  \A j \in DOMAIN clusters :
    IF j < i THEN Nearer(c, clusters[i], clusters[j])
             ELSE ~Nearer(c, clusters[j], clusters[i])

(* Mutants: the seed does not count; the limit is not asked for. *)
Weightless(n, c) == [members |-> {n}, weight |-> 0, x |-> 0, y |-> 0]
JoinsNearest(c, i) == i \in DOMAIN clusters /\ IsNearest(c, i)

FromSeed(n, c) == [members |-> {n}, weight |-> c.weight,
                   x |-> c.weight * c.at[1], y |-> c.weight * c.at[2]]

Add(k, n, c) == [members |-> k.members \cup {n}, weight |-> k.weight + c.weight,
                 x |-> k.x + c.weight * c.at[1], y |-> k.y + c.weight * c.at[2]]

Joins(c, i) ==
  i \in DOMAIN clusters /\ IsNearest(c, i) /\ Within(c, clusters[i], Reach)

(* The next candidate in order of descending weight. *)
Take(c) ==
  /\ phase = "cluster"
  /\ Len(valid) < MaxCandidates
  /\ valid # <<>> => c.weight <= valid[Len(valid)].weight
  /\ valid' = Append(valid, c)
  /\ UNCHANGED <<phase, winner, outliers, elected>>

Join(c) ==
  /\ Take(c)
  /\ \E i \in DOMAIN clusters :
       /\ Joins(c, i)
       /\ clusters' = [clusters EXCEPT ![i] = Add(@, Len(valid) + 1, c)]

Seed(c) ==
  /\ Take(c)
  /\ \A i \in DOMAIN clusters : ~Joins(c, i)
  /\ clusters' = Append(clusters, FromSeed(Len(valid) + 1, c))

(* Mutant: the cluster with most members. *)
WinsByHeads(i) ==
  \A j \in DOMAIN clusters :
    Cardinality(clusters[j].members) <= Cardinality(clusters[i].members)

(* max() keeps the first of the heaviest clusters. *)
Wins(i) ==
  \A j \in DOMAIN clusters :
    IF j < i THEN clusters[j].weight < clusters[i].weight
             ELSE clusters[j].weight <= clusters[i].weight

Score ==
  /\ phase = "cluster" /\ valid # <<>>
  /\ phase' = "scored"
  /\ \E i \in DOMAIN clusters :
       /\ Wins(i)
       /\ winner' = i
       /\ outliers' = {n \in DOMAIN valid : ~Within(valid[n], clusters[i], Stray)}
  /\ UNCHANGED <<valid, clusters, elected>>

(* Mutant: the member of most weight. *)
ElectHeaviest ==
  /\ phase = "scored"
  /\ phase' = "elected"
  /\ elected' = CHOOSE n \in clusters[winner].members :
                  \A m \in clusters[winner].members : n <= m
  /\ UNCHANGED <<valid, clusters, winner, outliers>>

(* min() keeps the first of the members closest to the centroid. *)
IsBest(n) ==
  LET k == clusters[winner] IN
    /\ n \in k.members
    /\ \A m \in k.members :
         IF m < n THEN Gap(valid[n], k) < Gap(valid[m], k)
                  ELSE Gap(valid[n], k) <= Gap(valid[m], k)

Elect ==
  /\ phase = "scored"
  /\ phase' = "elected"
  /\ \E n \in DOMAIN valid : IsBest(n) /\ elected' = n
  /\ UNCHANGED <<valid, clusters, winner, outliers>>

Next == (\E c \in Candidate : Join(c) \/ Seed(c)) \/ Score \/ Elect

Spec == Init /\ [][Next]_vars

-----------------------------------------------------------------------------
(* The official position is within 100 m of the centroid that won, however *)
(* far the centroid has drifted from the candidates that formed it, and    *)
(* the candidate is not at the same time reported as an outlier            *)
(* (best_candidate, is_outlier).                                           *)
ElectedIsNear ==
  phase = "elected" =>
    /\ elected \in clusters[winner].members \ outliers
    /\ Within(valid[elected], clusters[winner], Reach)

(* No candidate that voted for the winner is reported as an outlier: the   *)
(* drift of a centroid while the candidates of one geocoding join it stays *)
(* far below 1 km (run_consensus, outlier flagging).                       *)
VotersAreNoOutliers ==
  phase # "cluster" => clusters[winner].members \cap outliers = {}

Distance2(m, n) == Square(valid[m].at[1] - valid[n].at[1])
                 + Square(valid[m].at[2] - valid[n].at[2])

(* The candidates in G agree, and with nobody else. *)
Agree(G) ==
  /\ G # {}
  /\ \A m, n \in G : Distance2(m, n) <= Square(Reach)
  /\ \A m \in G, n \in DOMAIN valid \ G : Distance2(m, n) > Square(2 * Reach)

(* Candidates that agree are one cluster, whatever the order in which they *)
(* and the others came and wherever the centroid went meanwhile.           *)
AgreementIsKept ==
  \A G \in SUBSET DOMAIN valid :
    Agree(G) => \E i \in DOMAIN clusters : clusters[i].members = G

Trust(G) == MapThenSumSet(LAMBDA n : valid[n].weight, G)

Groups == {G \in SUBSET DOMAIN valid : Agree(G)}
Loners == DOMAIN valid \ UNION Groups

(* Candidates that agree decide if they have more trust than any others    *)
(* that agree and than all those who agree with nobody: the position is    *)
(* one of theirs, however the rest clustered, in whatever order providers  *)
(* of equal weight were sorted, and however many the others are            *)
(* (test_cascade.py, test_higher_weight_cluster_wins_over_more_members).   *)
HeaviestGroupDecides ==
  phase = "elected" =>
    \A G \in Groups :
      Trust(Loners) < Trust(G) /\ (\A H \in Groups \ {G} : Trust(H) < Trust(G))
        => elected \in G
=============================================================================
