-------------------------- MODULE ConsensusProofs --------------------------
(***************************************************************************)
(* Proofs about Consensus, for any candidates in any order: the arithmetic *)
(* of weighted means and sums, where clusters and their members are, and   *)
(* who is elected.                                                         *)
(***************************************************************************)
EXTENDS Consensus, FiniteSetTheorems, TLAPS

(* A cluster never loses every member near its centroid: the one that      *)
(* joined last was near the centroid before, and moves it towards itself.  *)
HasCore(k) == \E n \in k.members : Within(valid[n], k, Reach)

EveryClusterHasCore == \A i \in DOMAIN clusters : HasCore(clusters[i])

OutliersAreFar ==
  phase # "cluster" =>
    outliers = {n \in DOMAIN valid : ~Within(valid[n], clusters[winner], Stray)}

PhaseInv ==
  /\ phase # "cluster" => winner \in DOMAIN clusters
  /\ phase = "elected" => elected \in DOMAIN valid /\ IsBest(elected)

Apart(c, d) == Square(c.at[1] - d.at[1]) + Square(c.at[2] - d.at[2])

IInv == TypeOK /\ EveryClusterHasCore /\ OutliersAreFar /\ PhaseInv

TrustOf(v, G) == MapThenSumSet(LAMBDA n : v[n].weight, G)

(* Every candidate is in at most one cluster. *)
ClustersAreDisjoint ==
  \A i, j \in DOMAIN clusters :
    i # j => clusters[i].members \cap clusters[j].members = {}

(* A position within 100 m of all members of a cluster is within 100 m of  *)
(* its centroid: what a weighted mean satisfies, without a sum.            *)
CentroidsAreAmongMembers ==
  \A i \in DOMAIN clusters, p \in Candidate :
    (\A m \in clusters[i].members : Apart(p, valid[m]) <= Square(Reach)) =>
      Within(p, clusters[i], Reach)

(* Twice the distance of c from the centroid of k is at most d. *)
TwiceWithin(c, k, d) == 4 * Gap(c, k) <= Square(d * k.weight)

(* A centroid drifts by at most 50 m with each candidate. *)
MembersStayNear ==
  \A i \in DOMAIN clusters : \A m \in clusters[i].members :
    TwiceWithin(valid[m], clusters[i], Reach * Len(valid))

(* The heavier a candidate, the sooner it came. *)
CandidatesAreSorted ==
  \A m, n \in DOMAIN valid : m <= n => valid[n].weight <= valid[m].weight

WeightsAreTrust ==
  \A i \in DOMAIN clusters :
    clusters[i].weight = TrustOf(valid, clusters[i].members)

WinnerWins == phase # "cluster" => Wins(winner)

ClusterInv ==
  /\ ClustersAreDisjoint
  /\ CentroidsAreAmongMembers
  /\ CandidatesAreSorted
  /\ MembersStayNear
  /\ WeightsAreTrust
  /\ WinnerWins
  /\ AgreementIsKept

-----------------------------------------------------------------------------
(* Arithmetic of one coordinate. *)

LEMMA SquareOfInt == \A n \in Int : Square(n) \in Nat
  BY SMT DEF Square

LEMMA SquareIsPositive ==
  ASSUME NEW w \in Nat \ {0}
  PROVE  Square(w) \in Nat \ {0}
  BY SMT DEF Square

LEMMA SquareOrder ==
  ASSUME NEW a \in Int, NEW b \in Nat, Square(a) <= Square(b)
  PROVE  a <= b
<1>1. SUFFICES ASSUME b < a PROVE FALSE
  OBVIOUS
<1>2. b * b <= a * b /\ a * b < a * a
  BY <1>1, SMT
<1>. QED
  BY <1>2, SMT DEF Square

LEMMA SquareGrows ==
  ASSUME NEW a \in Nat, NEW b \in Nat, a <= b
  PROVE  Square(a) <= Square(b)
<1>1. a * a <= a * b
  BY SMT
<1>2. a * b <= b * b
  BY SMT
<1>. QED
  BY <1>1, <1>2, SMT DEF Square

LEMMA ProductGrows ==
  ASSUME NEW a \in Nat, NEW b \in Nat, NEW c \in Nat, NEW d \in Nat, a <= c, b <= d
  PROVE  a * b <= c * d
<1>1. a * b <= c * b
  BY SMT
<1>2. c * b <= c * d
  BY SMT
<1>3. a * b \in Int /\ c * b \in Int /\ c * d \in Int
  BY SMT
<1>. QED
  BY <1>1, <1>2, <1>3, SMT

LEMMA Cancel ==
  ASSUME NEW a \in Int, NEW b \in Int, NEW w \in Nat \ {0}, a * w <= b * w
  PROVE  a <= b
<1>. SUFFICES ASSUME b + 1 <= a
              PROVE  FALSE
  BY SMT
<1>1. (b + 1) * w <= a * w
  BY SMT
<1>2. (b + 1) * w = b * w + w
  BY SMT
<1>3. a * w \in Int /\ b * w \in Int
  BY SMT
<1>. QED
  BY <1>1, <1>2, <1>3, SMT

LEMMA CancelStrictly ==
  ASSUME NEW a \in Int, NEW b \in Int, NEW w \in Nat \ {0}, a * w < b * w
  PROVE  a < b
<1>. SUFFICES ASSUME b <= a
              PROVE  FALSE
  BY SMT
<1>1. b * w <= a * w
  BY SMT
<1>2. a * w \in Int /\ b * w \in Int
  BY SMT
<1>. QED
  BY <1>1, <1>2, SMT

(* Lagrange *)
LEMMA Lagrange ==
  ASSUME NEW a \in Int, NEW b \in Int, NEW c \in Int, NEW d \in Int
  PROVE  Square(a * c + b * d) + Square(a * d - b * c)
           = (Square(a) + Square(b)) * (Square(c) + Square(d))
  BY SMT DEF Square

LEMMA CauchySchwarz ==
  ASSUME NEW a \in Int, NEW b \in Int, NEW c \in Int, NEW d \in Int,
         NEW r \in Nat, NEW s \in Nat,
         Square(a) + Square(b) <= Square(r), Square(c) + Square(d) <= Square(s)
  PROVE  a * c + b * d <= r * s
<1>. DEFINE p == a * c + b * d   q == a * d - b * c
            u == Square(a) + Square(b)   v == Square(c) + Square(d)
<1>1. p \in Int /\ q \in Int /\ r * s \in Nat
  BY SMT
<1>2. u \in Nat /\ v \in Nat /\ Square(r) \in Nat /\ Square(s) \in Nat
  BY SquareOfInt, SMT
<1>3. Square(p) + Square(q) = u * v
  BY Lagrange
<1>4. u * v <= Square(r) * Square(s)
  <2>. HIDE DEF u, v
  <2>. QED BY <1>2, ProductGrows DEF u, v
<1>5. Square(r) * Square(s) = Square(r * s)
  BY SMT DEF Square
<1>6. Square(p) \in Nat /\ Square(q) \in Nat /\ u * v \in Int /\ Square(r * s) \in Nat
  <2>. HIDE DEF u, v, p, q
  <2>. QED BY <1>1, <1>2, SquareOfInt, SMT
<1>. HIDE DEF u, v, p, q
<1>7. Square(p) <= Square(r * s)
  BY <1>3, <1>4, <1>5, <1>6, SMT
<1>8. p <= r * s
  BY <1>1, <1>7, SquareOrder
<1>. QED
  BY <1>8 DEF p

(* Triangle inequality *)
LEMMA Triangle ==
  ASSUME NEW a \in Int, NEW b \in Int, NEW c \in Int, NEW d \in Int,
         NEW r \in Nat, NEW s \in Nat,
         Square(a) + Square(b) <= Square(r), Square(c) + Square(d) <= Square(s)
  PROVE  Square(a + c) + Square(b + d) <= Square(r + s)
<1>1. a * c + b * d <= r * s
  BY CauchySchwarz
<1>2. Square(a + c) + Square(b + d)
        = (Square(a) + Square(b)) + (Square(c) + Square(d)) + 2 * (a * c + b * d)
  BY SMT DEF Square
<1>3. Square(r + s) = Square(r) + Square(s) + 2 * (r * s)
  BY SMT DEF Square
<1>. DEFINE u == Square(a) + Square(b)   v == Square(c) + Square(d) p == a * c + b * d
  rs == r * s
<1>4. u \in Int /\ v \in Int /\ p \in Int /\ rs \in Int /\ Square(r) \in Int /\ Square(s) \in Int
  BY SquareOfInt, SMT
<1>5. u <= Square(r) /\ v <= Square(s) /\ p <= rs
  BY <1>1
<1>6. Square(a + c) + Square(b + d) = u + v + 2 * p /\ Square(r + s) = Square(r) + Square(s) + 2 * rs
  BY <1>2, <1>3
<1>. HIDE DEF u, v, p, rs
<1>. QED
  BY <1>4, <1>5, <1>6, SMT

LEMMA Scaled ==
  ASSUME NEW a \in Int, NEW b \in Int, NEW r \in Int, NEW t \in Nat,
         Square(a) + Square(b) <= Square(r)
  PROVE  Square(t * a) + Square(t * b) <= Square(t * r)
<1>1. /\ Square(t * a) + Square(t * b) = (Square(a) + Square(b)) * Square(t)
      /\ Square(t * r) = Square(r) * Square(t)
  BY SMT DEF Square
<1>2. Square(a) \in Nat /\ Square(b) \in Nat /\ Square(r) \in Nat /\ Square(t) \in Nat
  BY SquareOfInt
<1>3. Square(a) + Square(b) \in Nat
  BY <1>2
<1>4. (Square(a) + Square(b)) * Square(t) <= Square(r) * Square(t)
  BY <1>2, <1>3, ProductGrows
<1>. QED
  BY <1>1, <1>4

LEMMA Unscaled ==
  ASSUME NEW a \in Int, NEW b \in Int, NEW r \in Int, NEW t \in Nat \ {0},
         Square(t * a) + Square(t * b) <= Square(t * r)
  PROVE  Square(a) + Square(b) <= Square(r)
<1>1. /\ Square(t * a) + Square(t * b) = (Square(a) + Square(b)) * Square(t)
      /\ Square(t * r) = Square(r) * Square(t)
  BY SMT DEF Square
<1>2. Square(a) \in Nat /\ Square(b) \in Nat /\ Square(r) \in Nat
  BY SquareOfInt
<1>3. Square(a) + Square(b) \in Nat /\ Square(t) \in Nat \ {0}
  BY <1>2, SquareIsPositive
<1>. QED
  BY <1>1, <1>2, <1>3, Cancel

(* a/b <= c/d <= e/f *)
LEMMA FractionsAreOrdered ==
  ASSUME NEW a \in Nat, NEW b \in Nat \ {0}, NEW c \in Nat, NEW d \in Nat \ {0},
         NEW e \in Nat, NEW f \in Nat \ {0}, a * d <= c * b, c * f <= e * d
  PROVE  /\ a * f <= e * b
         /\ a * d < c * b \/ c * f < e * d => a * f < e * b
<1>. DEFINE p == (a * d) * f   q == (c * b) * f   r == (e * d) * b
            x == a * f   y == e * b
            s == a * d   t == c * b   u == c * f   v == e * d
<1>1. p \in Int /\ q \in Int /\ r \in Int /\ x \in Int /\ y \in Int
      /\ s \in Int /\ t \in Int /\ u \in Int /\ v \in Int
  BY SMT
<1>2. p = x * d /\ r = y * d /\ q = u * b
  BY SMT
<1>3. p = s * f /\ q = t * f /\ r = v * b
  OBVIOUS
<1>4. s <= t /\ u <= v
  OBVIOUS
<1>. HIDE DEF p, q, r, s, t, u, v, x, y
<1>5. p <= q /\ (s < t => p < q)
  BY <1>1, <1>3, <1>4, SMT
<1>6. q <= r /\ (u < v => q < r)
  BY <1>1, <1>2, <1>3, <1>4, SMT
<1>7. x * d <= y * d /\ (s < t \/ u < v => x * d < y * d)
  BY <1>1, <1>2, <1>5, <1>6, SMT
<1>8. x <= y /\ (s < t \/ u < v => x < y)
  BY <1>1, <1>7, Cancel, CancelStrictly
<1>. QED
  BY <1>8 DEF s, t, u, v, x, y

-----------------------------------------------------------------------------
(***************************************************************************)
(* Sums over sets.  MapThenSumSet adds a chosen element to the sum of the  *)
(* rest; these lemmas show, from the least set of which they would be      *)
(* wrong, that the recursion defines a sum and that the choice is of no    *)
(* consequence.                                                            *)
(***************************************************************************)
Pick(S) == CHOOSE x \in S : TRUE
Rest(S) == S \ {Pick(S)}

IsSum(f, v, G) ==
  f = [S \in SUBSET G |-> IF S = {} THEN 0 ELSE v[Pick(S)].weight + f[Rest(S)]]

LEMMA MinimalSet ==
  ASSUME NEW G, IsFiniteSet(G), NEW T, T \subseteq SUBSET G, T # {}
  PROVE  \E S \in T : \A R \in T : R \subseteq S => R = S
<1>1. IsWellFoundedOn(StrictSubsetOrdering(G), SUBSET G)
  BY FS_StrictSubsetOrderingWellFounded, FS_FiniteSubsetsOfFinite
<1>2. \E S \in T : \A R \in T : ~ (<<R, S>> \in StrictSubsetOrdering(G))
  BY <1>1, WFMin, Zenon
<1>. QED
  BY <1>2 DEF StrictSubsetOrdering

LEMMA PickIsMember == \A S : S # {} => Pick(S) \in S
  BY DEF Pick

LEMMA SumsAgree ==
  ASSUME NEW v, NEW A, NEW B, IsFiniteSet(A), NEW f, NEW g,
         IsSum(f, v, A), IsSum(g, v, B), NEW C, C \subseteq A, C \subseteq B
  PROVE  f[C] = g[C]
<1>. DEFINE T == {S \in SUBSET A : S \subseteq B /\ f[S] # g[S]}
<1>1. SUFFICES ASSUME T # {} PROVE FALSE
  OBVIOUS
<1>2. PICK S \in T : \A R \in T : R \subseteq S => R = S
  <2>1. T \subseteq SUBSET A
    OBVIOUS
  <2>. HIDE DEF T
  <2>. QED
    BY <1>1, <2>1, MinimalSet
<1>3. S # {}
  BY <1>2 DEF IsSum
<1>4. Pick(S) \in S /\ Rest(S) \subseteq S /\ Rest(S) # S
  BY <1>3, PickIsMember DEF Rest
<1>5. f[Rest(S)] = g[Rest(S)]
  BY <1>2, <1>4
<1>6. /\ f[S] = v[Pick(S)].weight + f[Rest(S)]
      /\ g[S] = v[Pick(S)].weight + g[Rest(S)]
  BY <1>2, <1>3 DEF IsSum
<1>. QED
  BY <1>2, <1>5, <1>6

LEMMA SumExists ==
  ASSUME NEW v, NEW G, IsFiniteSet(G)
  PROVE  \E f : IsSum(f, v, G)
<1>. DEFINE T == {S \in SUBSET G : ~ \E f : IsSum(f, v, S)}
<1>1. SUFFICES ASSUME T # {} PROVE FALSE
  OBVIOUS
<1>2. PICK S \in T : \A R \in T : R \subseteq S => R = S
  <2>1. T \subseteq SUBSET G
    OBVIOUS
  <2>. HIDE DEF T
  <2>. QED
    BY <1>1, <2>1, MinimalSet
<1>. DEFINE F(R) == CHOOSE f : IsSum(f, v, R)
            g == [R \in SUBSET S |-> IF R = {} THEN 0
                                     ELSE v[Pick(R)].weight + F(Rest(R))[Rest(R)]]
<1>3. \A R : R \subseteq S /\ R # S => IsSum(F(R), v, R)
  BY <1>2
<1>4. \A R \in SUBSET S : R # {} =>
        Rest(R) \subseteq R /\ Rest(R) # S /\ Rest(R) \in SUBSET S
  BY PickIsMember DEF Rest
<1>5. \A R \in SUBSET S : R # S => g[R] = F(R)[R]
  <2>. SUFFICES ASSUME NEW R \in SUBSET S, R # S
                PROVE  g[R] = F(R)[R]
    OBVIOUS
  <2>1. IsSum(F(R), v, R)
    BY <1>3
  <2>2. CASE R = {}
    <3>1. F(R)[R] = 0
      BY <2>1, <2>2 DEF IsSum
    <3>. QED
      BY <2>2, <3>1
  <2>3. CASE R # {}
    <3>1. Rest(R) \subseteq R /\ Rest(R) # S /\ Rest(R) \in SUBSET S
      BY <2>3, <1>4
    <3>2. F(R)[R] = v[Pick(R)].weight + F(R)[Rest(R)]
      <4>. HIDE DEF F
      <4>. QED BY <2>1, <2>3 DEF IsSum
    <3>3. F(R)[Rest(R)] = F(Rest(R))[Rest(R)]
      <4>1. IsSum(F(Rest(R)), v, Rest(R))
        BY <3>1, <1>3
      <4>2. IsFiniteSet(R)
        BY FS_Subset, <1>2
      <4>. HIDE DEF F
      <4>. QED
        BY <2>1, <3>1, <4>1, <4>2, SumsAgree
    <3>4. g[R] = v[Pick(R)].weight + F(Rest(R))[Rest(R)]
      <4>. HIDE DEF F
      <4>. QED BY <2>3
    <3>. QED
      BY <3>2, <3>3, <3>4
  <2>. QED
    BY <2>2, <2>3
<1>6. IsSum(g, v, S)
  <2>1. \A R \in SUBSET S : R # {} => F(Rest(R))[Rest(R)] = g[Rest(R)]
    <3>. HIDE DEF F, g
    <3>. QED BY <1>4, <1>5
  <2>. DEFINE h == [R \in SUBSET S |-> IF R = {} THEN 0 ELSE v[Pick(R)].weight + g[Rest(R)]]
  <2>2. \A R \in SUBSET S : g[R] = h[R]
    <3>. SUFFICES ASSUME NEW R \in SUBSET S PROVE g[R] = h[R]
      OBVIOUS
    <3>1. R # {} => F(Rest(R))[Rest(R)] = g[Rest(R)]
      BY <2>1
    <3>2. h[R] = IF R = {} THEN 0 ELSE v[Pick(R)].weight + g[Rest(R)]
      <4>. HIDE DEF g
      <4>. QED OBVIOUS
    <3>3. g[R] = IF R = {} THEN 0 ELSE v[Pick(R)].weight + F(Rest(R))[Rest(R)]
      <4>. HIDE DEF F
      <4>. QED OBVIOUS
    <3>. QED
      <4>. HIDE DEF F, g, h
      <4>. QED BY <3>1, <3>2, <3>3
  <2>3. g = h
    <3>1. g = [R \in SUBSET S |-> g[R]] /\ h = [R \in SUBSET S |-> h[R]]
      <4>1. g = [R \in SUBSET S |-> g[R]]
        <5>. HIDE DEF F
        <5>. QED OBVIOUS
      <4>2. h = [R \in SUBSET S |-> h[R]]
        <5>. HIDE DEF g
        <5>. QED OBVIOUS
      <4>. QED BY <4>1, <4>2
    <3>. HIDE DEF g, h
    <3>. QED BY <2>2, <3>1
  <2>. QED
    <3>1. g = [R \in SUBSET S |-> IF R = {} THEN 0 ELSE v[Pick(R)].weight + g[Rest(R)]]
      <4>. HIDE DEF g
      <4>. QED BY <2>3 DEF h
    <3>. HIDE DEF g
    <3>. QED BY <3>1 DEF IsSum
<1>. QED
  BY <1>2, <1>6

LEMMA TrustIsLast ==
  ASSUME NEW v, NEW G, IsFiniteSet(G), NEW f, IsSum(f, v, G), NEW S \in SUBSET G
  PROVE  TrustOf(v, S) = f[S]
<1>1. IsFiniteSet(S)
  BY FS_Subset
<1>. DEFINE g == CHOOSE h : IsSum(h, v, S)
<1>2. TrustOf(v, S) = g[S]
  BY DEF TrustOf, MapThenSumSet, MapThenFoldSet, IsSum, Pick, Rest
<1>3. IsSum(g, v, S)
  BY <1>1, SumExists
<1>. HIDE DEF g
<1>. QED
  BY <1>1, <1>2, <1>3, SumsAgree

LEMMA TrustOfNone == \A v : TrustOf(v, {}) = 0
<1>. SUFFICES ASSUME NEW v PROVE TrustOf(v, {}) = 0
  OBVIOUS
<1>1. IsFiniteSet({})
  BY FS_EmptySet
<1>2. PICK f : IsSum(f, v, {})
  BY <1>1, SumExists
<1>3. TrustOf(v, {}) = f[{}]
  BY <1>1, <1>2, TrustIsLast
<1>4. f[{}] = 0
  BY <1>2 DEF IsSum
<1>. QED
  BY <1>3, <1>4

LEMMA TrustOfPick ==
  ASSUME NEW v, NEW G, IsFiniteSet(G), G # {}
  PROVE  TrustOf(v, G) = v[Pick(G)].weight + TrustOf(v, Rest(G))
<1>1. PICK f : IsSum(f, v, G)
  BY SumExists
<1>2. f[G] = v[Pick(G)].weight + f[Rest(G)]
  BY <1>1 DEF IsSum
<1>3. TrustOf(v, G) = f[G] /\ TrustOf(v, Rest(G)) = f[Rest(G)]
  BY <1>1, TrustIsLast DEF Rest
<1>. QED
  BY <1>2, <1>3
LEMMA TrustIsNat ==
  ASSUME NEW v, NEW G, IsFiniteSet(G), \A n \in G : v[n].weight \in Nat
  PROVE  TrustOf(v, G) \in Nat
<1>. DEFINE T == {S \in SUBSET G : TrustOf(v, S) \notin Nat}
<1>1. SUFFICES ASSUME T # {} PROVE FALSE
  OBVIOUS
<1>2. PICK S \in T : \A R \in T : R \subseteq S => R = S
  <2>1. T \subseteq SUBSET G
    OBVIOUS
  <2>. HIDE DEF T
  <2>. QED
    BY <1>1, <2>1, MinimalSet
<1>3. S # {}
  <2>1. TrustOf(v, S) \notin Nat /\ TrustOf(v, {}) \in Nat
    BY <1>2, TrustOfNone
  <2>. QED
    BY <2>1
<1>4. Pick(S) \in S /\ Rest(S) \subseteq S /\ Rest(S) # S /\ IsFiniteSet(S)
  BY <1>2, <1>3, PickIsMember, FS_Subset DEF Rest
<1>5. TrustOf(v, Rest(S)) \in Nat
  BY <1>2, <1>4
<1>6. v[Pick(S)].weight \in Nat
  BY <1>2, <1>4
<1>7. TrustOf(v, S) = v[Pick(S)].weight + TrustOf(v, Rest(S))
  BY <1>3, <1>4, TrustOfPick
<1>. QED
  BY <1>2, <1>5, <1>6, <1>7

(* Whichever element is taken first. *)
LEMMA TrustOfMember ==
  ASSUME NEW v, NEW G, IsFiniteSet(G), \A n \in G : v[n].weight \in Nat, NEW x \in G
  PROVE  TrustOf(v, G) = v[x].weight + TrustOf(v, G \ {x})
<1>. DEFINE T == {S \in SUBSET G : \E y \in S :
                    TrustOf(v, S) # v[y].weight + TrustOf(v, S \ {y})}
<1>1. SUFFICES ASSUME T # {} PROVE FALSE
  OBVIOUS
<1>2. PICK S \in T : \A R \in T : R \subseteq S => R = S
  <2>1. T \subseteq SUBSET G
    OBVIOUS
  <2>. HIDE DEF T
  <2>. QED
    BY <1>1, <2>1, MinimalSet
<1>3. PICK y \in S : TrustOf(v, S) # v[y].weight + TrustOf(v, S \ {y})
  BY <1>2
<1>. DEFINE p == Pick(S)
<1>4. p \in S /\ S # {} /\ S \subseteq G
  BY <1>2, <1>3, PickIsMember
<1>5. IsFiniteSet(S) /\ IsFiniteSet(S \ {p, y})
  BY <1>4, FS_Subset
<1>6. TrustOf(v, S) = v[p].weight + TrustOf(v, S \ {p})
  BY <1>4, <1>5, TrustOfPick DEF Rest
<1>7. p # y
  BY <1>3, <1>6
<1>. HIDE DEF p
<1>8. /\ TrustOf(v, S \ {p}) = v[y].weight + TrustOf(v, (S \ {p}) \ {y})
      /\ TrustOf(v, S \ {y}) = v[p].weight + TrustOf(v, (S \ {y}) \ {p})
  <2>1. \A z \in S : S \ {z} \notin T
    BY <1>2
  <2>2. \A z \in S : S \ {z} \in SUBSET G
    BY <1>4
  <2>3. y \in S \ {p} /\ p \in S \ {y}
    BY <1>4, <1>7
  <2>. QED
    BY <1>4, <2>1, <2>2, <2>3
<1>9. (S \ {p}) \ {y} = S \ {p, y} /\ (S \ {y}) \ {p} = S \ {p, y}
  OBVIOUS
<1>10. v[p].weight \in Nat /\ v[y].weight \in Nat /\ TrustOf(v, S \ {p, y}) \in Nat
  BY <1>4, <1>5, TrustIsNat
<1>11. /\ TrustOf(v, S \ {p}) = v[y].weight + TrustOf(v, S \ {p, y})
       /\ TrustOf(v, S \ {y}) = v[p].weight + TrustOf(v, S \ {p, y})
  BY <1>8, <1>9
<1>. HIDE DEF T
<1>. QED
  BY <1>3, <1>6, <1>10, <1>11

LEMMA TrustOfUnion ==
  ASSUME NEW v, NEW A, NEW B, IsFiniteSet(A), IsFiniteSet(B), A \cap B = {},
         \A n \in A \cup B : v[n].weight \in Nat
  PROVE  TrustOf(v, A \cup B) = TrustOf(v, A) + TrustOf(v, B)
<1>. DEFINE T == {S \in SUBSET A : TrustOf(v, S \cup B) # TrustOf(v, S) + TrustOf(v, B)}
<1>1. SUFFICES ASSUME T # {} PROVE FALSE
  OBVIOUS
<1>2. PICK S \in T : \A R \in T : R \subseteq S => R = S
  <2>1. T \subseteq SUBSET A
    OBVIOUS
  <2>. HIDE DEF T
  <2>. QED
    BY <1>1, <2>1, MinimalSet
<1>3. TrustOf(v, B) \in Nat
  BY TrustIsNat
<1>4. S # {}
  <2>. SUFFICES ASSUME S = {} PROVE FALSE
    OBVIOUS
  <2>1. S \cup B = B /\ TrustOf(v, S) = 0
    BY TrustOfNone
  <2>. QED
    BY <1>2, <1>3, <2>1
<1>5. PICK x \in S : TRUE
  BY <1>4
<1>6. /\ IsFiniteSet(S) /\ IsFiniteSet(S \ {x}) /\ IsFiniteSet(S \cup B)
      /\ x \in S \cup B /\ (S \cup B) \ {x} = (S \ {x}) \cup B
  BY <1>2, <1>5, FS_Subset, FS_Union
<1>7. TrustOf(v, S \cup B) = v[x].weight + TrustOf(v, (S \ {x}) \cup B)
  BY <1>2, <1>6, TrustOfMember
<1>8. TrustOf(v, S) = v[x].weight + TrustOf(v, S \ {x})
  BY <1>2, <1>5, <1>6, TrustOfMember
<1>9. TrustOf(v, (S \ {x}) \cup B) = TrustOf(v, S \ {x}) + TrustOf(v, B)
  BY <1>2, <1>5
<1>10. v[x].weight \in Nat /\ TrustOf(v, S \ {x}) \in Nat
  BY <1>2, <1>5, <1>6, TrustIsNat
<1>. QED
  BY <1>2, <1>3, <1>7, <1>8, <1>9, <1>10

LEMMA TrustIsLocal ==
  ASSUME NEW v, NEW u, NEW G, IsFiniteSet(G), \A n \in G : v[n] = u[n]
  PROVE  TrustOf(v, G) = TrustOf(u, G)
<1>. DEFINE T == {S \in SUBSET G : TrustOf(v, S) # TrustOf(u, S)}
<1>1. SUFFICES ASSUME T # {} PROVE FALSE
  OBVIOUS
<1>2. PICK S \in T : \A R \in T : R \subseteq S => R = S
  <2>1. T \subseteq SUBSET G
    OBVIOUS
  <2>. HIDE DEF T
  <2>. QED
    BY <1>1, <2>1, MinimalSet
<1>3. S # {}
  BY <1>2, TrustOfNone
<1>4. Pick(S) \in S /\ Rest(S) \subseteq S /\ Rest(S) # S /\ IsFiniteSet(S)
  BY <1>2, <1>3, PickIsMember, FS_Subset DEF Rest
<1>5. TrustOf(v, Rest(S)) = TrustOf(u, Rest(S))
  BY <1>2, <1>4
<1>6. v[Pick(S)] = u[Pick(S)]
  BY <1>2, <1>4
<1>7. /\ TrustOf(v, S) = v[Pick(S)].weight + TrustOf(v, Rest(S))
      /\ TrustOf(u, S) = u[Pick(S)].weight + TrustOf(u, Rest(S))
  BY <1>3, <1>4, TrustOfPick
<1>. QED
  BY <1>2, <1>5, <1>6, <1>7

-----------------------------------------------------------------------------
(* Candidates and clusters. *)

(* Adding w at position p moves the centroid, but not the weighted gap     *)
(* between p and it.                                                       *)
LEMMA GapIsKept ==
  ASSUME NEW p \in Int, NEW w \in Nat, NEW v \in Nat, NEW x \in Int
  PROVE  p * (v + w) - (x + w * p) = p * v - x
  BY SMT

LEMMA LimitGrows ==
  ASSUME NEW a \in Nat, NEW b \in Nat, NEW l \in Nat, a <= b
  PROVE  Square(l * a) <= Square(l * b)
<1>1. l * a \in Nat /\ l * b \in Nat /\ l * a <= l * b
  BY SMT
<1>. QED
  BY <1>1, SquareGrows

LEMMA GapIsNat ==
  ASSUME NEW c \in Candidate, NEW k \in Cluster
  PROVE  Gap(c, k) \in Nat
<1>1. c.at[1] \in Int /\ c.at[2] \in Int
  BY PointsArePairs DEF Candidate
<1>2. k.weight \in Nat /\ k.x \in Int /\ k.y \in Int
  BY DEF Cluster
<1>3. c.at[1] * k.weight - k.x \in Int /\ c.at[2] * k.weight - k.y \in Int
  BY <1>1, <1>2, SMT
<1>. QED
  BY <1>3, SquareOfInt, SMT DEF Gap

(* A candidate within reach of a cluster is within reach of what the       *)
(* cluster becomes when it joins.                                          *)
LEMMA JoinerIsNear ==
  ASSUME NEW c \in Candidate, NEW k \in Cluster, NEW n, Within(c, k, Reach)
  PROVE  Within(c, Add(k, n, c), Reach)
<1>. DEFINE l == Add(k, n, c)
<1>1. c.at[1] \in Int /\ c.at[2] \in Int /\ c.weight \in Nat
  BY PointsArePairs, WeightsArePositive DEF Candidate
<1>2. k.weight \in Nat /\ k.x \in Int /\ k.y \in Int
  BY DEF Cluster
<1>3. /\ l.weight = k.weight + c.weight
      /\ l.x = k.x + c.weight * c.at[1] /\ l.y = k.y + c.weight * c.at[2]
  BY DEF Add
<1>4. c.at[1] * l.weight - l.x = c.at[1] * k.weight - k.x
  BY <1>1, <1>2, <1>3, GapIsKept
<1>5. c.at[2] * l.weight - l.y = c.at[2] * k.weight - k.y
  BY <1>1, <1>2, <1>3, GapIsKept
<1>6. Gap(c, l) = Gap(c, k)
  BY <1>4, <1>5, Zenon DEF Gap
<1>7. l.weight \in Nat /\ k.weight <= l.weight
  BY <1>1, <1>2, <1>3
<1>8. Square(Reach * k.weight) <= Square(Reach * l.weight)
  BY <1>2, <1>7, LimitGrows, LimitsAreOrdered
<1>9. /\ Gap(c, k) \in Nat
      /\ Square(Reach * k.weight) \in Nat /\ Square(Reach * l.weight) \in Nat
  <2>1. Reach * k.weight \in Int /\ Reach * l.weight \in Int
    BY <1>2, <1>7, LimitsAreOrdered, SMT
  <2>. QED
    BY <2>1, GapIsNat, SquareOfInt
<1>. HIDE DEF l
<1>10. Within(c, l, Reach)
  BY <1>6, <1>8, <1>9, SMT DEF Within
<1>. QED
  BY <1>10 DEF l

LEMMA AddIsCluster ==
  ASSUME NEW c \in Candidate, NEW k \in Cluster, NEW n \in 1 .. MaxCandidates
  PROVE  Add(k, n, c) \in Cluster
<1>1. c.at[1] \in Int /\ c.at[2] \in Int /\ c.weight \in Nat \ {0}
  BY PointsArePairs, WeightsArePositive DEF Candidate
<1>2. /\ k.members \in SUBSET (1 .. MaxCandidates)
      /\ k.weight \in Nat \ {0} /\ k.x \in Int /\ k.y \in Int
  BY DEF Cluster
<1>3. c.weight * c.at[1] \in Int /\ c.weight * c.at[2] \in Int
  BY <1>1, SMT
<1>. QED
  BY <1>1, <1>2, <1>3 DEF Add, Cluster

LEMMA SeedIsCluster ==
  ASSUME NEW c \in Candidate, NEW n \in 1 .. MaxCandidates
  PROVE  FromSeed(n, c) \in Cluster /\ Within(c, FromSeed(n, c), Reach)
<1>. DEFINE k == FromSeed(n, c)
<1>1. c.at[1] \in Int /\ c.at[2] \in Int /\ c.weight \in Nat \ {0}
  BY PointsArePairs, WeightsArePositive DEF Candidate
<1>2. c.weight * c.at[1] \in Int /\ c.weight * c.at[2] \in Int
  BY <1>1, SMT
<1>3. k \in Cluster
  BY <1>1, <1>2 DEF FromSeed, Cluster
<1>4. /\ c.at[1] * k.weight - k.x = 0
      /\ c.at[2] * k.weight - k.y = 0
  <2>1. /\ k.weight = c.weight
        /\ k.x = c.weight * c.at[1] /\ k.y = c.weight * c.at[2]
    BY DEF FromSeed
  <2>. HIDE DEF k
  <2>. QED
    BY <2>1, <1>1, SMT
<1>5. Gap(c, k) = 0
  BY <1>4, SMT DEF Gap, Square
<1>6. Square(Reach * k.weight) \in Nat
  <2>1. Reach * k.weight \in Int
    BY <1>3, LimitsAreOrdered, SMT DEF Cluster
  <2>. QED
    BY <2>1, SquareOfInt
<1>7. Within(c, k, Reach)
  <2>. HIDE DEF k
  <2>. QED
    BY <1>5, <1>6, SMT DEF Within
<1>. QED
  BY <1>3, <1>7

(* What the positions of two candidates are apart, squared. *)
LEMMA ApartIsNat ==
  ASSUME NEW c \in Candidate, NEW d \in Candidate
  PROVE  Apart(c, d) \in Nat /\ Apart(c, d) = Apart(d, c)
<1>1. /\ c.at[1] \in Int /\ c.at[2] \in Int
      /\ d.at[1] \in Int /\ d.at[2] \in Int
  BY PointsArePairs DEF Candidate
<1>2. /\ Square(c.at[1] - d.at[1]) = Square(d.at[1] - c.at[1])
      /\ Square(c.at[2] - d.at[2]) = Square(d.at[2] - c.at[2])
  BY <1>1, SMT DEF Square
<1>3. Square(c.at[1] - d.at[1]) \in Nat /\ Square(c.at[2] - d.at[2]) \in Nat
  <2>1. c.at[1] - d.at[1] \in Int /\ c.at[2] - d.at[2] \in Int
    BY <1>1
  <2>. QED
    BY <2>1, SquareOfInt
<1>. QED
  BY <1>2, <1>3 DEF Apart

(* Limits of twice a distance. *)
LEMMA TwiceWithinGrows ==
  ASSUME NEW c \in Candidate, NEW k \in Cluster, NEW l \in Nat, NEW r \in Nat,
         l <= r, TwiceWithin(c, k, l)
  PROVE  TwiceWithin(c, k, r)
<1>1. k.weight \in Nat
  BY DEF Cluster
<1>2. l * k.weight \in Nat /\ r * k.weight \in Nat /\ l * k.weight <= r * k.weight
  BY <1>1, SMT
<1>3. /\ Square(l * k.weight) <= Square(r * k.weight)
      /\ Square(l * k.weight) \in Nat /\ Square(r * k.weight) \in Nat
  BY <1>2, SquareGrows, SquareOfInt
<1>. QED
  BY <1>3, GapIsNat, SMT DEF TwiceWithin

LEMMA TwiceIsTwice ==
  ASSUME NEW c \in Candidate, NEW k \in Cluster, NEW l \in Nat
  PROVE  TwiceWithin(c, k, 2 * l) <=> Within(c, k, l)
<1>1. k.weight \in Nat /\ Gap(c, k) \in Nat
  BY GapIsNat DEF Cluster
<1>2. Square(2 * l * k.weight) = 4 * Square(l * k.weight)
  BY <1>1, SMT DEF Square
<1>3. Square(l * k.weight) \in Nat
  <2>1. l * k.weight \in Int
    BY <1>1, SMT
  <2>. QED
    BY <2>1, SquareOfInt
<1>. QED
  BY <1>1, <1>2, <1>3 DEF TwiceWithin, Within

LEMMA SeedIsCentroid ==
  ASSUME NEW c \in Candidate, NEW n \in 1 .. MaxCandidates, NEW l \in Nat
  PROVE  TwiceWithin(c, FromSeed(n, c), l)
<1>. DEFINE k == FromSeed(n, c)
<1>1. c.at[1] \in Int /\ c.at[2] \in Int /\ c.weight \in Nat
  BY PointsArePairs, WeightsArePositive DEF Candidate
<1>2. /\ c.at[1] * k.weight - k.x = 0 /\ c.at[2] * k.weight - k.y = 0
      /\ k.weight \in Nat
  BY <1>1, SMT DEF FromSeed
<1>3. l * k.weight \in Int
  BY <1>2, SMT
<1>4. Gap(c, k) = 0 /\ Square(l * k.weight) \in Nat
  BY <1>2, <1>3, SquareOfInt, SMT DEF Gap, Square
<1>. QED
  BY <1>4 DEF TwiceWithin

(* Two candidates are no farther apart than one centroid is from both. *)
LEMMA NeighboursAreClose ==
  ASSUME NEW c \in Candidate, NEW d \in Candidate, NEW k \in Cluster,
         NEW l \in Nat, NEW r \in Nat, Within(c, k, l), Within(d, k, r)
  PROVE  Apart(c, d) <= Square(l + r)
<1>. DEFINE W == k.weight
            a == c.at[1] * W - k.x   b == c.at[2] * W - k.y
            e == d.at[1] * W - k.x   f == d.at[2] * W - k.y
            g == c.at[1] - d.at[1]   h == c.at[2] - d.at[2]
<1>1. /\ c.at[1] \in Int /\ c.at[2] \in Int
      /\ d.at[1] \in Int /\ d.at[2] \in Int
  BY PointsArePairs DEF Candidate
<1>2. W \in Nat \ {0} /\ k.x \in Int /\ k.y \in Int
  BY DEF Cluster
<1>3. /\ a \in Int /\ b \in Int /\ e \in Int /\ f \in Int /\ g \in Int /\ h \in Int
      /\ l * W \in Nat /\ r * W \in Nat
  BY <1>1, <1>2, SMT
<1>4. /\ Square(a) + Square(b) <= Square(l * W)
      /\ Square(e) + Square(f) <= Square(r * W)
  BY DEF Within, Gap
<1>5. a + (-e) = W * g /\ b + (-f) = W * h
  BY <1>1, <1>2, SMT
<1>6. l * W + r * W = W * (l + r)
  BY <1>2, SMT
<1>7. Apart(c, d) = Square(g) + Square(h)
  BY DEF Apart
<1>. HIDE DEF W, a, b, e, f, g, h
<1>8. Square(-e) + Square(-f) <= Square(r * W)
  BY <1>3, <1>4, SMT DEF Square
<1>9. -e \in Int /\ -f \in Int
  BY <1>3
<1>10. Square(a + (-e)) + Square(b + (-f)) <= Square(l * W + r * W)
  BY <1>3, <1>4, <1>8, <1>9, Triangle
<1>11. Square(W * g) + Square(W * h) <= Square(W * (l + r))
  BY <1>5, <1>6, <1>10
<1>12. l + r \in Int
  OBVIOUS
<1>. QED
  BY <1>2, <1>3, <1>7, <1>11, <1>12, Unscaled

LEMMA PointsAreClose ==
  ASSUME NEW c \in Candidate, NEW d \in Candidate, NEW e \in Candidate,
         Apart(c, d) <= Square(Reach), Apart(c, e) <= Square(Reach)
  PROVE  Apart(d, e) <= Square(2 * Reach)
<1>. DEFINE a == d.at[1] - c.at[1]   b == d.at[2] - c.at[2]
            g == c.at[1] - e.at[1]   h == c.at[2] - e.at[2]
<1>1. /\ c.at[1] \in Int /\ c.at[2] \in Int /\ d.at[1] \in Int
      /\ d.at[2] \in Int /\ e.at[1] \in Int /\ e.at[2] \in Int
  BY PointsArePairs DEF Candidate
<1>2. /\ a \in Int /\ b \in Int /\ g \in Int /\ h \in Int
      /\ d.at[1] - e.at[1] = a + g /\ d.at[2] - e.at[2] = b + h
  BY <1>1
<1>3. Apart(d, c) <= Square(Reach)
  BY ApartIsNat
<1>4. /\ Square(a) + Square(b) <= Square(Reach)
      /\ Square(g) + Square(h) <= Square(Reach)
  BY <1>3 DEF Apart
<1>5. Apart(d, e) = Square(a + g) + Square(b + h)
  BY <1>2, Zenon DEF Apart
<1>. HIDE DEF a, b, g, h
<1>6. Square(a + g) + Square(b + h) <= Square(Reach + Reach)
  BY <1>2, <1>4, Triangle, LimitsAreOrdered
<1>7. Reach + Reach = 2 * Reach
  BY LimitsAreOrdered
<1>. QED
  BY <1>5, <1>6, <1>7

(* A disc that covers the members of a cluster covers its centroid. *)
LEMMA HullOfSeed ==
  ASSUME NEW p \in Candidate, NEW c \in Candidate, NEW n,
         Apart(p, c) <= Square(Reach)
  PROVE  Within(p, FromSeed(n, c), Reach)
<1>. DEFINE w == c.weight
            g == p.at[1] - c.at[1]   h == p.at[2] - c.at[2]
<1>1. /\ c.at[1] \in Int /\ c.at[2] \in Int /\ p.at[1] \in Int /\ p.at[2] \in Int
      /\ w \in Nat
  BY PointsArePairs, WeightsArePositive DEF Candidate
<1>2. g \in Int /\ h \in Int /\ Reach \in Int /\ Reach * w = w * Reach
  BY <1>1, LimitsAreOrdered, SMT
<1>3. /\ p.at[1] * w - w * c.at[1] = w * g
      /\ p.at[2] * w - w * c.at[2] = w * h
  BY <1>1, SMT
<1>4. Square(g) + Square(h) <= Square(Reach)
  BY DEF Apart
<1>5. Gap(p, FromSeed(n, c)) = Square(w * g) + Square(w * h)
  <2>1. Gap(p, FromSeed(n, c)) =
          Square(p.at[1] * w - w * c.at[1]) + Square(p.at[2] * w - w * c.at[2])
    BY DEF Gap, FromSeed
  <2>. QED
    BY <1>3, <2>1, Zenon
<1>. HIDE DEF w, g, h
<1>6. Square(w * g) + Square(w * h) <= Square(w * Reach)
  BY <1>1, <1>2, <1>4, Scaled
<1>7. FromSeed(n, c).weight = w
  BY DEF FromSeed, w
<1>. QED
  BY <1>2, <1>5, <1>6, <1>7 DEF Within

LEMMA HullOfJoined ==
  ASSUME NEW p \in Candidate, NEW c \in Candidate, NEW k \in Cluster, NEW n,
         Within(p, k, Reach), Apart(p, c) <= Square(Reach)
  PROVE  Within(p, Add(k, n, c), Reach)
<1>. DEFINE W == k.weight   w == c.weight
            a == p.at[1] * W - k.x   b == p.at[2] * W - k.y
            g == p.at[1] - c.at[1]   h == p.at[2] - c.at[2]
<1>1. /\ c.at[1] \in Int /\ c.at[2] \in Int /\ p.at[1] \in Int /\ p.at[2] \in Int
      /\ w \in Nat
  BY PointsArePairs, WeightsArePositive DEF Candidate
<1>2. W \in Nat \ {0} /\ k.x \in Int /\ k.y \in Int
  BY DEF Cluster
<1>3. /\ a \in Int /\ b \in Int /\ g \in Int /\ h \in Int
      /\ w * g \in Int /\ w * h \in Int
      /\ Reach * W \in Nat /\ w * Reach \in Nat /\ Reach \in Int
  BY <1>1, <1>2, LimitsAreOrdered, SMT
<1>4. /\ p.at[1] * (W + w) - (k.x + w * c.at[1]) = a + w * g
      /\ p.at[2] * (W + w) - (k.y + w * c.at[2]) = b + w * h
  BY <1>1, <1>2, SMT
<1>5. Gap(p, Add(k, n, c)) = Square(a + w * g) + Square(b + w * h)
  <2>1. Gap(p, Add(k, n, c)) =
          Square(p.at[1] * (W + w) - (k.x + w * c.at[1]))
            + Square(p.at[2] * (W + w) - (k.y + w * c.at[2]))
    BY DEF Gap, Add
  <2>. QED
    BY <1>4, <2>1, Zenon
<1>6. Square(a) + Square(b) <= Square(Reach * W)
  BY DEF Within, Gap
<1>7. Square(g) + Square(h) <= Square(Reach)
  BY DEF Apart
<1>8. Add(k, n, c).weight = W + w
  BY DEF Add
<1>9. Reach * W + w * Reach = Reach * (W + w)
  BY <1>1, <1>2, LimitsAreOrdered, SMT
<1>. HIDE DEF W, w, a, b, g, h
<1>10. Square(w * g) + Square(w * h) <= Square(w * Reach)
  BY <1>1, <1>3, <1>7, Scaled
<1>11. Square(a + w * g) + Square(b + w * h) <= Square(Reach * W + w * Reach)
  BY <1>3, <1>6, <1>10, Triangle
<1>. QED
  BY <1>5, <1>8, <1>9, <1>11 DEF Within

(* A candidate that joins and weighs no more than the cluster moves the    *)
(* centroid by at most 50 m, half of its distance.                         *)
LEMMA DriftOfJoined ==
  ASSUME NEW m \in Candidate, NEW c \in Candidate, NEW k \in Cluster, NEW n,
         NEW l \in Nat, TwiceWithin(m, k, l), Within(c, k, Reach),
         c.weight <= k.weight
  PROVE  TwiceWithin(m, Add(k, n, c), l + Reach)
<1>. DEFINE W == k.weight   V == W + c.weight   w == 2 * c.weight
            a == 2 * (m.at[1] * W - k.x)   b == 2 * (m.at[2] * W - k.y)
            e == c.at[1] * W - k.x   f == c.at[2] * W - k.y
            g == m.at[1] * V - (k.x + c.weight * c.at[1])
            h == m.at[2] * V - (k.y + c.weight * c.at[2])
            A == 2 * g   B == 2 * h
<1>1. /\ c.at[1] \in Int /\ c.at[2] \in Int /\ m.at[1] \in Int /\ m.at[2] \in Int
      /\ c.weight \in Nat /\ w \in Nat
  <2>1. /\ c.at[1] \in Int /\ c.at[2] \in Int /\ m.at[1] \in Int
        /\ m.at[2] \in Int /\ c.weight \in Nat
    BY PointsArePairs, WeightsArePositive DEF Candidate
  <2>. QED
    BY <2>1
<1>2. W \in Nat \ {0} /\ k.x \in Int /\ k.y \in Int
  BY DEF Cluster
<1>3. /\ a \in Int /\ b \in Int /\ -e \in Int /\ -f \in Int /\ e \in Int /\ f \in Int
      /\ A \in Int /\ B \in Int /\ V \in Nat /\ w <= V
      /\ l * W \in Nat /\ Reach * W \in Nat /\ g \in Int /\ h \in Int
  BY <1>1, <1>2, LimitsAreOrdered, SMT
<1>4. V * a + w * (-e) = W * A /\ V * b + w * (-f) = W * B
  <2>. DEFINE p == m.at[1] * W - k.x   q == m.at[2] * W - k.y   u == c.weight
  <2>1. V * p + u * (-e) = W * g /\ V * q + u * (-f) = W * h
    BY <1>1, <1>2, SMT
  <2>2. p \in Int /\ q \in Int /\ u \in Nat
    BY <1>1, <1>2, SMT
  <2>. HIDE DEF p, q, u, e, f, g, h, V, W
  <2>3. /\ V * (2 * p) + (2 * u) * (-e) = W * (2 * g)
        /\ V * (2 * q) + (2 * u) * (-f) = W * (2 * h)
    BY <1>2, <1>3, <2>1, <2>2, SMT
  <2>. QED
    BY <2>3 DEF p, q, u
<1>5. 4 * Gap(m, Add(k, n, c)) = Square(A) + Square(B)
  <2>1. Gap(m, Add(k, n, c)) = Square(g) + Square(h)
    BY DEF Gap, Add
  <2>2. 4 * (Square(g) + Square(h)) = Square(2 * g) + Square(2 * h)
    <3>. HIDE DEF g, h
    <3>. QED
      BY <1>3, SMT DEF Square
  <2>. QED
    BY <2>1, <2>2
<1>6. /\ Square(a) + Square(b) <= Square(l * W)
      /\ Square(e) + Square(f) <= Square(Reach * W)
  <2>. DEFINE p == m.at[1] * W - k.x   q == m.at[2] * W - k.y
  <2>1. Gap(m, k) = Square(p) + Square(q) /\ p \in Int /\ q \in Int
    BY <1>1, <1>2, SMT DEF Gap
  <2>2. 4 * (Square(p) + Square(q)) = Square(2 * p) + Square(2 * q)
    <3>. HIDE DEF p, q
    <3>. QED
      BY <2>1, SMT DEF Square
  <2>. QED
    BY <2>1, <2>2 DEF TwiceWithin, Within, Gap
<1>7. Add(k, n, c).weight = V
  BY DEF Add
<1>. HIDE DEF W, w, V, a, b, e, f, g, h, A, B
<1>8. Square(-e) + Square(-f) <= Square(Reach * W)
  BY <1>3, <1>6, SMT DEF Square
<1>9. /\ Square(V * a) + Square(V * b) <= Square(V * (l * W))
      /\ Square(w * (-e)) + Square(w * (-f)) <= Square(w * (Reach * W))
  <2>1. l * W \in Int /\ Reach * W \in Int
    BY <1>3
  <2>2. Square(V * a) + Square(V * b) <= Square(V * (l * W))
    BY <2>1, <1>3, <1>6, Scaled
  <2>3. Square(w * (-e)) + Square(w * (-f)) <= Square(w * (Reach * W))
    BY <2>1, <1>1, <1>3, <1>8, Scaled
  <2>. QED
    BY <2>2, <2>3
<1>10. /\ V * a \in Int /\ V * b \in Int /\ w * (-e) \in Int /\ w * (-f) \in Int
       /\ V * (l * W) \in Nat /\ w * (Reach * W) \in Nat
  BY <1>1, <1>3, SMT
<1>11. Square(V * a + w * (-e)) + Square(V * b + w * (-f))
         <= Square(V * (l * W) + w * (Reach * W))
  BY <1>9, <1>10, Triangle
<1>12. V * (l * W) + w * (Reach * W) <= W * ((l + Reach) * V)
  <2>1. w * (Reach * W) <= V * (Reach * W)
    BY <1>1, <1>3, SMT
  <2>2. V * (l * W) + V * (Reach * W) = W * ((l + Reach) * V)
    BY <1>2, <1>3, LimitsAreOrdered, SMT
  <2>3. V * (Reach * W) \in Nat
    BY <1>3, SMT
  <2>. QED
    BY <1>10, <2>1, <2>2, <2>3
<1>13. /\ V * (l * W) + w * (Reach * W) \in Nat
       /\ W * ((l + Reach) * V) \in Nat /\ (l + Reach) * V \in Int
  BY <1>2, <1>3, <1>10, LimitsAreOrdered, SMT
<1>14. Square(V * (l * W) + w * (Reach * W)) <= Square(W * ((l + Reach) * V))
  BY <1>12, <1>13, SquareGrows
<1>15. Square(W * A) + Square(W * B) <= Square(W * ((l + Reach) * V))
  <2>1. Square(W * A) \in Int /\ Square(W * B) \in Int
        /\ Square(V * (l * W) + w * (Reach * W)) \in Int
        /\ Square(W * ((l + Reach) * V)) \in Int
    <3>1. W * A \in Int /\ W * B \in Int
      BY <1>2, <1>3, SMT
    <3>. QED
      BY <3>1, <1>13, SquareOfInt
  <2>2. Square(W * A) + Square(W * B) <= Square(V * (l * W) + w * (Reach * W))
    BY <1>4, <1>11
  <2>. QED
    BY <1>14, <2>1, <2>2
<1>16. Square(A) + Square(B) <= Square((l + Reach) * V)
  BY <1>2, <1>3, <1>13, <1>15, Unscaled
<1>. QED
  BY <1>5, <1>7, <1>16 DEF TwiceWithin

(* Within 100 m is within 1 km. *)
LEMMA NearIsNotStray ==
  ASSUME NEW c \in Candidate, NEW k \in Cluster, Within(c, k, Reach)
  PROVE  Within(c, k, Stray)
<1>1. k.weight \in Nat
  BY DEF Cluster
<1>2. Reach * k.weight \in Nat /\ Stray * k.weight \in Nat
      /\ Reach * k.weight <= Stray * k.weight
  BY <1>1, LimitsAreOrdered, SMT
<1>3. Square(Reach * k.weight) <= Square(Stray * k.weight)
  BY <1>2, SquareGrows
<1>4. Square(Reach * k.weight) \in Nat /\ Square(Stray * k.weight) \in Nat
  BY <1>2, SquareOfInt
<1>. QED
  BY <1>3, <1>4, GapIsNat, SMT DEF Within

-----------------------------------------------------------------------------
(* The steps. *)

LEMMA InitHolds == Init => IInv
  BY LimitsAreOrdered, BoundIsNat
     DEF Init, IInv, TypeOK, EveryClusterHasCore, OutliersAreFar, PhaseInv

(* What drawing a candidate leaves as it was. *)
LEMMA TakeKeeps ==
  ASSUME TypeOK, NEW c \in Candidate, Take(c)
  PROVE  /\ Len(valid) + 1 \in 1 .. MaxCandidates
         /\ valid' \in Seq(Candidate) /\ Len(valid') = Len(valid) + 1
         /\ DOMAIN valid' = DOMAIN valid \cup {Len(valid) + 1}
         /\ \A n \in DOMAIN valid : valid'[n] = valid[n]
         /\ valid'[Len(valid) + 1] = c
<1>1. valid \in Seq(Candidate) /\ Len(valid) < MaxCandidates
  BY DEF TypeOK, Take
<1>2. valid' = Append(valid, c)
  BY DEF Take
<1>3. Len(valid) \in Nat /\ DOMAIN valid = 1 .. Len(valid)
  BY <1>1
<1>4. valid' \in Seq(Candidate) /\ Len(valid') = Len(valid) + 1
  BY <1>1, <1>2
<1>5. DOMAIN valid' = 1 .. (Len(valid) + 1)
  BY <1>4
<1>. QED
  BY <1>1, <1>2, <1>3, <1>4, <1>5, BoundIsNat

(* A core survives when candidates are drawn. *)
LEMMA CoreIsKept ==
  ASSUME TypeOK, NEW c \in Candidate, Take(c),
         NEW i \in DOMAIN clusters, HasCore(clusters[i])
  PROVE  \E n \in clusters[i].members : Within(valid'[n], clusters[i], Reach)
<1>1. PICK n \in clusters[i].members : Within(valid[n], clusters[i], Reach)
  BY DEF HasCore
<1>2. n \in DOMAIN valid
  BY DEF TypeOK
<1>3. valid'[n] = valid[n]
  BY <1>2, TakeKeeps
<1>. QED
  BY <1>1, <1>3

LEMMA JoinStep ==
  ASSUME IInv, NEW c \in Candidate, Join(c)
  PROVE  IInv'
<1>. DEFINE n == Len(valid) + 1
<1>1. TypeOK /\ Take(c)
  BY DEF IInv, Join
<1>2. PICK i \in DOMAIN clusters :
        /\ Joins(c, i)
        /\ clusters' = [clusters EXCEPT ![i] = Add(@, n, c)]
  BY DEF Join
<1>3. clusters \in Seq(Cluster) /\ clusters[i] \in Cluster
  BY <1>1 DEF TypeOK
<1>4. n \in 1 .. MaxCandidates
  BY <1>1, TakeKeeps
<1>5. Add(clusters[i], n, c) \in Cluster
  BY <1>3, <1>4, AddIsCluster
<1>6. clusters' \in Seq(Cluster) /\ DOMAIN clusters' = DOMAIN clusters
  BY <1>2, <1>3, <1>5
<1>7. /\ clusters'[i] = Add(clusters[i], n, c)
      /\ \A j \in DOMAIN clusters \ {i} : clusters'[j] = clusters[j]
  BY <1>2, <1>3
<1>8. phase = "cluster" /\ UNCHANGED <<phase, winner, outliers, elected>>
  BY <1>1 DEF Take
<1>9. TypeOK'
  <2>1. \A j \in DOMAIN clusters' : clusters'[j].members \subseteq DOMAIN valid'
    <3>. SUFFICES ASSUME NEW j \in DOMAIN clusters'
                  PROVE  clusters'[j].members \subseteq DOMAIN valid'
      OBVIOUS
    <3>1. DOMAIN valid' = DOMAIN valid \cup {n}
      BY <1>1, TakeKeeps
    <3>2. clusters[j].members \subseteq DOMAIN valid
      BY <1>1, <1>6 DEF TypeOK
    <3>3. clusters'[j].members \subseteq clusters[j].members \cup {n}
      BY <1>6, <1>7 DEF Add
    <3>. QED
      BY <3>1, <3>2, <3>3
  <2>2. valid' \in Seq(Candidate) /\ Len(valid') <= MaxCandidates
    BY <1>1, <1>4, TakeKeeps
  <2>3. winner' \in {0} \cup DOMAIN clusters'
    BY <1>1, <1>6, <1>8 DEF TypeOK
  <2>4. outliers' \subseteq DOMAIN valid' /\ elected' \in {0} \cup DOMAIN valid'
    BY <1>1, <1>8, TakeKeeps DEF TypeOK
  <2>. QED
    BY <2>1, <2>2, <2>3, <2>4, <1>6, <1>8 DEF TypeOK
<1>10. EveryClusterHasCore'
  <2>. SUFFICES ASSUME NEW j \in DOMAIN clusters'
                PROVE  \E m \in clusters'[j].members :
                         Within(valid'[m], clusters'[j], Reach)
    BY DEF EveryClusterHasCore, HasCore, Within, Gap
  <2>1. CASE j = i
    <3>1. Within(c, Add(clusters[i], n, c), Reach)
      BY <1>2, <1>3, JoinerIsNear DEF Joins
    <3>2. n \in clusters'[j].members /\ valid'[n] = c
      BY <1>1, <1>7, <2>1, TakeKeeps DEF Add
    <3>. QED
      BY <3>1, <3>2, <2>1, <1>7
  <2>2. CASE j # i
    <3>1. j \in DOMAIN clusters /\ clusters'[j] = clusters[j]
      BY <1>6, <1>7, <2>2
    <3>2. HasCore(clusters[j])
      BY <3>1 DEF IInv, EveryClusterHasCore
    <3>. QED
      BY <3>1, <3>2, <1>1, CoreIsKept
  <2>. QED
    BY <2>1, <2>2
<1>. QED
  BY <1>8, <1>9, <1>10 DEF IInv, OutliersAreFar, PhaseInv

LEMMA SeedStep ==
  ASSUME IInv, NEW c \in Candidate, Seed(c)
  PROVE  IInv'
<1>. DEFINE n == Len(valid) + 1
            k == FromSeed(n, c)
<1>1. TypeOK /\ Take(c)
  BY DEF IInv, Seed
<1>2. clusters \in Seq(Cluster) /\ clusters' = Append(clusters, k)
  BY <1>1 DEF Seed, TypeOK
<1>3. n \in 1 .. MaxCandidates
  BY <1>1, TakeKeeps
<1>4. k \in Cluster /\ Within(c, k, Reach) /\ k.members = {n}
  BY <1>3, SeedIsCluster DEF FromSeed
<1>. HIDE DEF k
<1>5. clusters' \in Seq(Cluster) /\ DOMAIN clusters \subseteq DOMAIN clusters'
  BY <1>2, <1>4
<1>6. \A j \in DOMAIN clusters' :
        \/ j \in DOMAIN clusters /\ clusters'[j] = clusters[j]
        \/ clusters'[j] = k
  BY <1>2, <1>4
<1>7. phase = "cluster" /\ UNCHANGED <<phase, winner, outliers, elected>>
  BY <1>1 DEF Take
<1>8. TypeOK'
  <2>1. \A j \in DOMAIN clusters' : clusters'[j].members \subseteq DOMAIN valid'
    BY <1>1, <1>4, <1>6, TakeKeeps DEF TypeOK
  <2>2. valid' \in Seq(Candidate) /\ Len(valid') <= MaxCandidates
    BY <1>1, <1>3, TakeKeeps
  <2>3. winner' \in {0} \cup DOMAIN clusters'
    BY <1>1, <1>5, <1>7 DEF TypeOK
  <2>4. outliers' \subseteq DOMAIN valid' /\ elected' \in {0} \cup DOMAIN valid'
    BY <1>1, <1>7, TakeKeeps DEF TypeOK
  <2>. QED
    BY <2>1, <2>2, <2>3, <2>4, <1>5, <1>7 DEF TypeOK
<1>9. EveryClusterHasCore'
  <2>. SUFFICES ASSUME NEW j \in DOMAIN clusters'
                PROVE  \E m \in clusters'[j].members :
                         Within(valid'[m], clusters'[j], Reach)
    BY DEF EveryClusterHasCore, HasCore, Within, Gap
  <2>1. CASE j \in DOMAIN clusters /\ clusters'[j] = clusters[j]
    <3>1. HasCore(clusters[j])
      BY <2>1 DEF IInv, EveryClusterHasCore
    <3>. QED
      BY <3>1, <2>1, <1>1, CoreIsKept
  <2>2. CASE clusters'[j] = k
    BY <2>2, <1>1, <1>4, TakeKeeps
  <2>. QED
    BY <2>1, <2>2, <1>6
<1>. QED
  BY <1>7, <1>8, <1>9 DEF IInv, OutliersAreFar, PhaseInv

LEMMA ScoreStep == IInv /\ Score => IInv'
<1>. SUFFICES ASSUME IInv, Score
              PROVE  IInv'
  OBVIOUS
<1>1. PICK i \in DOMAIN clusters :
        /\ winner' = i
        /\ outliers' = {n \in DOMAIN valid : ~Within(valid[n], clusters[i], Stray)}
  BY DEF Score
<1>2. phase' = "scored" /\ UNCHANGED <<valid, clusters, elected>>
  BY DEF Score
<1>3. TypeOK'
  BY <1>1, <1>2 DEF IInv, TypeOK
<1>4. EveryClusterHasCore'
  BY <1>2 DEF IInv, EveryClusterHasCore, HasCore, Within, Gap
<1>5. OutliersAreFar' /\ PhaseInv'
  BY <1>1, <1>2 DEF OutliersAreFar, PhaseInv, Within, Gap
<1>. QED
  BY <1>3, <1>4, <1>5 DEF IInv

LEMMA ElectStep == IInv /\ Elect => IInv'
<1>. SUFFICES ASSUME IInv, Elect
              PROVE  IInv'
  OBVIOUS
<1>1. PICK n \in DOMAIN valid : IsBest(n) /\ elected' = n
  BY DEF Elect
<1>2. /\ phase = "scored" /\ phase' = "elected"
      /\ UNCHANGED <<valid, clusters, winner, outliers>>
  BY DEF Elect
<1>3. TypeOK'
  BY <1>1, <1>2 DEF IInv, TypeOK
<1>4. EveryClusterHasCore' /\ OutliersAreFar'
  BY <1>2 DEF IInv, EveryClusterHasCore, OutliersAreFar, HasCore, Within, Gap
<1>5. PhaseInv'
  BY <1>1, <1>2 DEF IInv, PhaseInv, IsBest, Gap
<1>. QED
  BY <1>3, <1>4, <1>5 DEF IInv

LEMMA StutterStep == IInv /\ UNCHANGED vars => IInv'
  BY DEF vars, IInv, TypeOK, EveryClusterHasCore, OutliersAreFar, PhaseInv,
         HasCore, Within, Gap, IsBest

LEMMA IInvHolds == Spec => []IInv
<1>1. IInv /\ [Next]_vars => IInv'
  BY JoinStep, SeedStep, ScoreStep, ElectStep, StutterStep DEF Next
<1>. QED
  BY InitHolds, <1>1, PTL DEF Spec

-----------------------------------------------------------------------------
(* The nearest cluster.                                                    *)

(* Whether cluster i is met before j in order of distance from c. *)
Ahead(c, i, j) ==
  IF j < i THEN Nearer(c, clusters[i], clusters[j])
           ELSE ~Nearer(c, clusters[j], clusters[i])

LEMMA GapsAreNat ==
  ASSUME TypeOK, NEW c \in Candidate, NEW i \in DOMAIN clusters
  PROVE  /\ clusters[i] \in Cluster /\ i \in Nat
         /\ Gap(c, clusters[i]) \in Nat
         /\ Square(clusters[i].weight) \in Nat \ {0}
<1>1. clusters[i] \in Cluster /\ i \in Nat
  BY DEF TypeOK
<1>2. clusters[i].weight \in Nat \ {0}
  BY <1>1 DEF Cluster
<1>. QED
  BY <1>1, <1>2, GapIsNat, SquareIsPositive

LEMMA AheadIsTotal ==
  ASSUME TypeOK, NEW c \in Candidate,
         NEW i \in DOMAIN clusters, NEW j \in DOMAIN clusters
  PROVE  Ahead(c, i, j) \/ Ahead(c, j, i)
<1>. DEFINE g(a) == Gap(c, clusters[a])   w(a) == Square(clusters[a].weight)
<1>1. /\ g(i) \in Nat /\ g(j) \in Nat /\ w(i) \in Nat /\ w(j) \in Nat
      /\ i \in Nat /\ j \in Nat
  BY GapsAreNat
<1>2. /\ Nearer(c, clusters[i], clusters[j]) <=> g(i) * w(j) < g(j) * w(i)
      /\ Nearer(c, clusters[j], clusters[i]) <=> g(j) * w(i) < g(i) * w(j)
  BY DEF Nearer
<1>3. g(i) * w(j) \in Int /\ g(j) * w(i) \in Int
  <2>. HIDE DEF g, w
  <2>. QED
    BY <1>1, SMT
<1>. HIDE DEF g, w
<1>. QED
  BY <1>1, <1>2, <1>3 DEF Ahead

LEMMA AheadIsTransitive ==
  ASSUME TypeOK, NEW c \in Candidate, NEW i \in DOMAIN clusters,
         NEW j \in DOMAIN clusters, NEW k \in DOMAIN clusters,
         Ahead(c, i, j), Ahead(c, j, k)
  PROVE  Ahead(c, i, k)
<1>. DEFINE g(a) == Gap(c, clusters[a])   w(a) == Square(clusters[a].weight)
<1>1. /\ g(i) \in Nat /\ g(j) \in Nat /\ g(k) \in Nat
      /\ w(i) \in Nat \ {0} /\ w(j) \in Nat \ {0} /\ w(k) \in Nat \ {0}
      /\ i \in Nat /\ j \in Nat /\ k \in Nat
  BY GapsAreNat
<1>2. /\ Ahead(c, i, j) <=> IF j < i THEN g(i) * w(j) < g(j) * w(i)
                                     ELSE ~(g(j) * w(i) < g(i) * w(j))
      /\ Ahead(c, j, k) <=> IF k < j THEN g(j) * w(k) < g(k) * w(j)
                                     ELSE ~(g(k) * w(j) < g(j) * w(k))
      /\ Ahead(c, i, k) <=> IF k < i THEN g(i) * w(k) < g(k) * w(i)
                                     ELSE ~(g(k) * w(i) < g(i) * w(k))
  BY DEF Ahead, Nearer
<1>. HIDE DEF g, w
<1>3. /\ g(i) * w(j) \in Int /\ g(j) * w(i) \in Int /\ g(j) * w(k) \in Int
      /\ g(k) * w(j) \in Int /\ g(i) * w(k) \in Int /\ g(k) * w(i) \in Int
  BY <1>1, SMT
<1>4. g(i) * w(j) <= g(j) * w(i) /\ g(j) * w(k) <= g(k) * w(j)
  BY <1>1, <1>2, <1>3
<1>5. /\ g(i) * w(k) <= g(k) * w(i)
      /\ \/ g(i) * w(j) < g(j) * w(i)
         \/ g(j) * w(k) < g(k) * w(j)
         => g(i) * w(k) < g(k) * w(i)
  BY <1>1, <1>4, FractionsAreOrdered
<1>. QED
  BY <1>1, <1>2, <1>3, <1>5

(* There is a first nearest cluster if there is a cluster at all. *)
LEMMA SomeClusterIsNearest ==
  ASSUME TypeOK, NEW c \in Candidate, DOMAIN clusters # {}
  PROVE  \E i \in DOMAIN clusters : IsNearest(c, i)
<1>. DEFINE D == DOMAIN clusters
            T == {S \in SUBSET D : S # {} /\ ~ \E i \in S : \A j \in S : Ahead(c, i, j)}
<1>1. IsFiniteSet(D)
  <2>1. Len(clusters) \in Nat /\ D = 1 .. Len(clusters)
    BY DEF TypeOK
  <2>. QED
    BY <2>1, FS_Interval
<1>2. T = {}
  <2>. SUFFICES ASSUME T # {} PROVE FALSE
    OBVIOUS
  <2>1. PICK S \in T : \A R \in T : R \subseteq S => R = S
    <3>1. T \subseteq SUBSET D
      OBVIOUS
    <3>. HIDE DEF T
    <3>. QED
      BY <1>1, <3>1, MinimalSet
  <2>2. PICK a \in S : TRUE
    BY <2>1
  <2>3. S \ {a} \notin T
    BY <2>1, <2>2
  <2>4. S \subseteq D
    BY <2>1
  <2>5. CASE S \ {a} = {}
    <3>1. \A j \in S : j = a
      BY <2>5
    <3>2. Ahead(c, a, a)
      BY <2>2, <2>4, AheadIsTotal
    <3>. QED
      BY <2>1, <2>2, <3>1, <3>2
  <2>6. CASE S \ {a} # {}
    <3>1. PICK b \in S \ {a} : \A j \in S \ {a} : Ahead(c, b, j)
      BY <2>3, <2>4, <2>6
    <3>2. CASE Ahead(c, b, a)
      <4>1. \A j \in S : Ahead(c, b, j)
        BY <3>1, <3>2
      <4>. QED
        BY <2>1, <3>1, <4>1
    <3>3. CASE Ahead(c, a, b)
      <4>1. \A j \in S \ {a} : Ahead(c, a, j)
        BY <2>2, <2>4, <3>1, <3>3, AheadIsTransitive
      <4>2. Ahead(c, a, a)
        BY <2>2, <2>4, AheadIsTotal
      <4>. QED
        BY <2>1, <2>2, <4>1, <4>2
    <3>. QED
      BY <2>2, <2>4, <3>1, <3>2, <3>3, AheadIsTotal
  <2>. QED
    BY <2>5, <2>6
<1>3. D \notin T
  BY <1>2
<1>4. PICK i \in D : \A j \in D : Ahead(c, i, j)
  BY <1>3
<1>5. IsNearest(c, i)
  BY <1>4 DEF IsNearest, Ahead
<1>. QED
  BY <1>4, <1>5

(* A candidate within 100 m of some centroid joins a cluster. *)
LEMMA NearCandidateJoins ==
  ASSUME TypeOK, NEW c \in Candidate, NEW i \in DOMAIN clusters,
         Within(c, clusters[i], Reach)
  PROVE  \E j \in DOMAIN clusters : Joins(c, j)
<1>1. PICK j \in DOMAIN clusters : IsNearest(c, j)
  BY SomeClusterIsNearest
<1>. DEFINE g == Gap(c, clusters[i])   w == Square(clusters[i].weight)
            h == Gap(c, clusters[j])   v == Square(clusters[j].weight)
            R == Square(Reach)
<1>2. /\ g \in Nat /\ h \in Nat /\ w \in Nat \ {0} /\ v \in Nat \ {0}
      /\ i \in Nat /\ j \in Nat
  BY GapsAreNat
<1>3. R \in Nat
  BY LimitsAreOrdered, SquareOfInt
<1>4. \/ i < j /\ h * w < g * v
      \/ ~(g * v < h * w)
  BY <1>1, <1>2 DEF IsNearest, Nearer
<1>5. \A l \in DOMAIN clusters :
        Square(Reach * clusters[l].weight) = R * Square(clusters[l].weight)
  <2>. SUFFICES ASSUME NEW l \in DOMAIN clusters
                PROVE  Square(Reach * clusters[l].weight) = R * Square(clusters[l].weight)
    OBVIOUS
  <2>1. clusters[l].weight \in Nat
    BY GapsAreNat DEF Cluster
  <2>. DEFINE W == clusters[l].weight
  <2>. HIDE DEF W
  <2>2. W \in Nat => Square(Reach * W) = Square(Reach) * Square(W)
    BY LimitsAreOrdered, SMT DEF Square
  <2>. QED
    BY <2>1, <2>2 DEF W
<1>6. g <= R * w
  BY <1>5 DEF Within
<1>7. Within(c, clusters[j], Reach) <=> h <= R * v
  BY <1>5 DEF Within
<1>. HIDE DEF g, w, h, v, R
<1>8. g * v \in Nat /\ h * w \in Nat /\ (R * w) * v \in Nat
  BY <1>2, <1>3, SMT
<1>9. g * v <= (R * w) * v
  <2>1. R * w \in Nat
    BY <1>2, <1>3, SMT
  <2>. QED
    BY <1>2, <1>6, <2>1, ProductGrows
<1>10. h * w <= (R * w) * v
  BY <1>4, <1>8, <1>9
<1>11. (R * w) * v = (R * v) * w /\ R * v \in Int
  BY <1>2, <1>3, SMT
<1>12. h <= R * v
  BY <1>2, <1>10, <1>11, Cancel
<1>. QED
  BY <1>1, <1>7, <1>12 DEF Joins

-----------------------------------------------------------------------------
(* The clusters after a step. *)

(* One cluster, an old one or a new one, takes the next candidate. *)
Grows(c, i) ==
  /\ DOMAIN clusters' = DOMAIN clusters \cup {i}
  /\ \A j \in DOMAIN clusters \ {i} : clusters'[j] = clusters[j]
  /\ \/ /\ i \in DOMAIN clusters /\ Joins(c, i)
        /\ clusters'[i] = Add(clusters[i], Len(valid) + 1, c)
     \/ /\ i \notin DOMAIN clusters /\ \A j \in DOMAIN clusters : ~Joins(c, j)
        /\ clusters'[i] = FromSeed(Len(valid) + 1, c)

LEMMA StepGrows ==
  ASSUME TypeOK, NEW c \in Candidate, Join(c) \/ Seed(c)
  PROVE  Take(c) /\ \E i : Grows(c, i)
<1>1. clusters \in Seq(Cluster)
  BY DEF TypeOK
<1>2. CASE Join(c)
  <2>1. PICK i \in DOMAIN clusters :
          /\ Joins(c, i)
          /\ clusters' = [clusters EXCEPT ![i] = Add(@, Len(valid) + 1, c)]
    BY <1>2 DEF Join
  <2>2. Grows(c, i)
    BY <1>1, <2>1 DEF Grows
  <2>. QED
    BY <1>2, <2>2 DEF Join
<1>3. CASE Seed(c)
  <2>. DEFINE k == FromSeed(Len(valid) + 1, c)
              i == Len(clusters) + 1
  <2>1. clusters' = Append(clusters, k) /\ \A j \in DOMAIN clusters : ~Joins(c, j)
    BY <1>3 DEF Seed
  <2>. HIDE DEF k
  <2>2. /\ DOMAIN clusters = 1 .. Len(clusters) /\ Len(clusters) \in Nat
        /\ DOMAIN clusters' = 1 .. i /\ clusters'[i] = k
        /\ \A j \in DOMAIN clusters : clusters'[j] = clusters[j]
    BY <1>1, <2>1
  <2>3. i \notin DOMAIN clusters /\ DOMAIN clusters' = DOMAIN clusters \cup {i}
    BY <2>2
  <2>. HIDE DEF i
  <2>4. Grows(c, i)
    BY <2>1, <2>2, <2>3 DEF Grows, k
  <2>. QED
    BY <1>3, <2>4 DEF Seed
<1>. QED
  BY <1>2, <1>3

(* The members of the clusters after a step. *)
LEMMA MembersAfter ==
  ASSUME TypeOK, NEW c \in Candidate, Take(c), NEW i, Grows(c, i)
  PROVE  LET n == Len(valid) + 1 IN
         /\ valid'[n] = c /\ n \notin DOMAIN valid /\ n \in DOMAIN valid'
         /\ DOMAIN valid' = DOMAIN valid \cup {n}
         /\ \A m \in DOMAIN valid : valid'[m] = valid[m] /\ valid[m] \in Candidate
         /\ i \in DOMAIN clusters' /\ n \in clusters'[i].members
         /\ \A j \in DOMAIN clusters : clusters[j].members \subseteq DOMAIN valid
         /\ \A j \in DOMAIN clusters' :
              j # i => j \in DOMAIN clusters /\ clusters'[j] = clusters[j]
         /\ i \in DOMAIN clusters =>
              clusters'[i].members = clusters[i].members \cup {n}
         /\ i \notin DOMAIN clusters => clusters'[i].members = {n}
<1>. DEFINE n == Len(valid) + 1
<1>1. valid \in Seq(Candidate) /\ n \notin DOMAIN valid
  BY DEF TypeOK
<1>2. /\ DOMAIN valid' = DOMAIN valid \cup {n} /\ valid'[n] = c
      /\ \A m \in DOMAIN valid : valid'[m] = valid[m]
  BY TakeKeeps
<1>3. \A m \in DOMAIN valid : valid[m] \in Candidate
  BY <1>1
<1>4. /\ i \in DOMAIN clusters'
      /\ \A j \in DOMAIN clusters' :
           j # i => j \in DOMAIN clusters /\ clusters'[j] = clusters[j]
  BY DEF Grows
<1>5. /\ i \in DOMAIN clusters =>
           clusters'[i].members = clusters[i].members \cup {n}
      /\ i \notin DOMAIN clusters => clusters'[i].members = {n}
  BY DEF Grows, Add, FromSeed
<1>6. \A j \in DOMAIN clusters : clusters[j].members \subseteq DOMAIN valid
  BY DEF TypeOK
<1>. QED
  BY <1>1, <1>2, <1>3, <1>4, <1>5, <1>6

LEMMA DisjointAfter ==
  ASSUME TypeOK, NEW c \in Candidate, Take(c), NEW i, Grows(c, i),
         ClustersAreDisjoint
  PROVE  ClustersAreDisjoint'
<1>. SUFFICES ASSUME NEW j \in DOMAIN clusters', NEW k \in DOMAIN clusters', j # k
              PROVE  clusters'[j].members \cap clusters'[k].members = {}
  BY DEF ClustersAreDisjoint
<1>1. \A l \in DOMAIN clusters, m \in DOMAIN clusters :
        l # m => clusters[l].members \cap clusters[m].members = {}
  BY DEF ClustersAreDisjoint
<1>2. \A l \in DOMAIN clusters : Len(valid) + 1 \notin clusters[l].members
  BY MembersAfter
<1>3. CASE j # i /\ k # i
  BY <1>1, <1>3, MembersAfter
<1>4. CASE j = i
  <2>1. k \in DOMAIN clusters /\ clusters'[k] = clusters[k]
    BY <1>4, MembersAfter
  <2>. QED
    BY <1>1, <1>2, <1>4, <2>1, MembersAfter
<1>5. CASE k = i
  <2>1. j \in DOMAIN clusters /\ clusters'[j] = clusters[j]
    BY <1>5, MembersAfter
  <2>. QED
    BY <1>1, <1>2, <1>5, <2>1, MembersAfter
<1>. QED
  BY <1>3, <1>4, <1>5

LEMMA HullAfter ==
  ASSUME TypeOK, NEW c \in Candidate, Take(c), NEW i, Grows(c, i),
         CentroidsAreAmongMembers
  PROVE  CentroidsAreAmongMembers'
<1>. DEFINE n == Len(valid) + 1
<1>. SUFFICES ASSUME NEW j \in DOMAIN clusters', NEW p \in Candidate,
                     \A m \in clusters'[j].members :
                       Apart(p, valid'[m]) <= Square(Reach)
              PROVE  Within(p, clusters'[j], Reach)
  BY DEF CentroidsAreAmongMembers, Within, Gap, Apart
<1>1. \A k \in DOMAIN clusters :
        (\A m \in clusters[k].members : Apart(p, valid[m]) <= Square(Reach)) =>
          Within(p, clusters[k], Reach)
  BY DEF CentroidsAreAmongMembers
<1>2. \A k \in DOMAIN clusters : \A m \in clusters[k].members : valid'[m] = valid[m]
  BY MembersAfter
<1>3. CASE j # i
  <2>1. j \in DOMAIN clusters /\ clusters'[j] = clusters[j]
    BY <1>3, MembersAfter
  <2>2. \A m \in clusters[j].members : Apart(p, valid[m]) <= Square(Reach)
    BY <1>2, <2>1
  <2>. QED
    BY <1>1, <2>1, <2>2
<1>4. CASE j = i /\ i \in DOMAIN clusters
  <2>1. clusters'[j] = Add(clusters[i], n, c)
    BY <1>4 DEF Grows
  <2>2. clusters'[j].members = clusters[i].members \cup {n} /\ valid'[n] = c
    BY <1>4, MembersAfter
  <2>3. \A m \in clusters[i].members : Apart(p, valid[m]) <= Square(Reach)
    BY <1>2, <1>4, <2>2
  <2>4. Within(p, clusters[i], Reach) /\ Apart(p, c) <= Square(Reach)
    BY <1>1, <1>4, <2>2, <2>3
  <2>. QED
    BY <1>4, <2>1, <2>4, HullOfJoined, GapsAreNat
<1>5. CASE j = i /\ i \notin DOMAIN clusters
  <2>1. clusters'[j] = FromSeed(n, c)
    BY <1>5 DEF Grows
  <2>2. n \in clusters'[j].members /\ valid'[n] = c
    BY <1>5, MembersAfter
  <2>. QED
    BY <2>1, <2>2, HullOfSeed
<1>. QED
  BY <1>3, <1>4, <1>5

(* A set of candidates has the trust it had before a step. *)
LEMMA TrustIsKept ==
  ASSUME TypeOK, NEW G, G \subseteq DOMAIN valid
  PROVE  /\ IsFiniteSet(G) /\ TrustOf(valid, G) \in Nat
         /\ \A n \in G : valid[n].weight \in Nat
         /\ (\A n \in G : valid'[n] = valid[n]) => TrustOf(valid', G) = TrustOf(valid, G)
<1>1. Len(valid) \in Nat /\ DOMAIN valid = 1 .. Len(valid)
  BY DEF TypeOK
<1>2. IsFiniteSet(G)
  <2>1. IsFiniteSet(DOMAIN valid)
    BY <1>1, FS_Interval
  <2>. QED
    BY <2>1, FS_Subset
<1>3. \A n \in G : valid[n].weight \in Nat
  <2>. SUFFICES ASSUME NEW n \in G
                PROVE  valid[n].weight \in Nat
    OBVIOUS
  <2>1. valid[n] \in Candidate
    BY DEF TypeOK
  <2>. QED
    BY <2>1, WeightsArePositive DEF Candidate
<1>4. (\A n \in G : valid'[n] = valid[n]) => TrustOf(valid', G) = TrustOf(valid, G)
  BY <1>2, TrustIsLocal
<1>. QED
  BY <1>2, <1>3, <1>4, TrustIsNat

LEMMA SortedAfter ==
  ASSUME TypeOK, NEW c \in Candidate, Take(c), CandidatesAreSorted
  PROVE  CandidatesAreSorted'
<1>. DEFINE l == Len(valid)
<1>. SUFFICES ASSUME NEW m \in DOMAIN valid', NEW n \in DOMAIN valid', m <= n
              PROVE  valid'[n].weight <= valid'[m].weight
  BY DEF CandidatesAreSorted
<1>1. /\ l \in Nat /\ DOMAIN valid = 1 .. l /\ DOMAIN valid' = 1 .. (l + 1)
      /\ valid'[l + 1] = c /\ \A o \in 1 .. l : valid'[o] = valid[o]
  BY TakeKeeps DEF TypeOK
<1>2. /\ c.weight \in Nat
      /\ \A o \in 1 .. l : valid[o].weight \in Nat
  <2>1. c.weight \in Nat
    BY WeightsArePositive DEF Candidate
  <2>2. \A o \in DOMAIN valid : valid[o] \in Candidate
    BY DEF TypeOK
  <2>3. \A o \in DOMAIN valid : valid[o].weight \in Nat
    BY <2>2, WeightsArePositive DEF Candidate
  <2>. QED
    BY <1>1, <2>1, <2>3
<1>3. \A o \in 1 .. l : c.weight <= valid[o].weight
  <2>. SUFFICES ASSUME NEW o \in 1 .. l PROVE c.weight <= valid[o].weight
    OBVIOUS
  <2>1. l \in 1 .. l /\ o <= l /\ valid # <<>>
    BY <1>1
  <2>2. c.weight <= valid[l].weight
    BY <2>1 DEF Take
  <2>3. valid[l].weight <= valid[o].weight
    BY <1>1, <2>1 DEF CandidatesAreSorted
  <2>. QED
    BY <1>2, <2>1, <2>2, <2>3
<1>4. CASE n \in 1 .. l
  BY <1>1, <1>4 DEF CandidatesAreSorted
<1>5. CASE n = l + 1
  BY <1>1, <1>2, <1>3, <1>5
<1>. QED
  BY <1>1, <1>4, <1>5

(* A candidate weighs no more than any cluster before it. *)
LEMMA JoinerIsLight ==
  ASSUME TypeOK, NEW c \in Candidate, Take(c), CandidatesAreSorted,
         WeightsAreTrust, EveryClusterHasCore, NEW i \in DOMAIN clusters
  PROVE  c.weight <= clusters[i].weight
<1>. DEFINE G == clusters[i].members
<1>1. PICK m \in G : TRUE
  BY DEF EveryClusterHasCore, HasCore
<1>2. G \subseteq DOMAIN valid
  BY DEF TypeOK
<1>3. /\ TrustOf(valid, G) = valid[m].weight + TrustOf(valid, G \ {m})
      /\ TrustOf(valid, G \ {m}) \in Nat /\ valid[m].weight \in Nat
  <2>. HIDE DEF G
  <2>1. G \ {m} \subseteq DOMAIN valid
    BY <1>2
  <2>2. IsFiniteSet(G) /\ \A o \in G : valid[o].weight \in Nat
    BY <1>2, TrustIsKept
  <2>3. TrustOf(valid, G) = valid[m].weight + TrustOf(valid, G \ {m})
    BY <1>1, <2>2, TrustOfMember
  <2>4. TrustOf(valid, G \ {m}) \in Nat
    BY <2>1, TrustIsKept
  <2>. QED
    BY <1>1, <2>2, <2>3, <2>4
<1>4. valid'[m] = valid[m] /\ m \in DOMAIN valid' /\ Len(valid) + 1 \in DOMAIN valid'
      /\ m <= Len(valid) + 1 /\ valid'[Len(valid) + 1] = c
  BY <1>1, <1>2, TakeKeeps DEF TypeOK
<1>5. c.weight <= valid[m].weight
  BY <1>4, SortedAfter DEF CandidatesAreSorted
<1>6. c.weight \in Nat
  BY WeightsArePositive DEF Candidate
<1>. QED
  BY <1>3, <1>5, <1>6 DEF WeightsAreTrust

LEMMA DriftAfter ==
  ASSUME TypeOK, NEW c \in Candidate, Take(c), NEW i, Grows(c, i),
         MembersStayNear, CandidatesAreSorted, WeightsAreTrust, EveryClusterHasCore
  PROVE  MembersStayNear'
<1>. DEFINE n == Len(valid) + 1
            l == Reach * Len(valid)
<1>1. /\ Len(valid') = n /\ l \in Nat /\ l + Reach = Reach * n
      /\ Reach * n \in Nat /\ l <= Reach * n /\ Reach <= Reach * n
  <2>1. Len(valid) \in Nat /\ Len(valid') = n
    BY TakeKeeps DEF TypeOK
  <2>. DEFINE v == Len(valid)
  <2>2. v \in Nat => /\ Reach * v \in Nat /\ Reach * v + Reach = Reach * (v + 1)
                     /\ Reach * (v + 1) \in Nat
    <3>. HIDE DEF v
    <3>. QED
      BY LimitsAreOrdered, SMT
  <2>. QED
    BY <2>1, <2>2, LimitsAreOrdered
<1>. HIDE DEF l
<1>. SUFFICES ASSUME NEW j \in DOMAIN clusters', NEW m \in clusters'[j].members
              PROVE  TwiceWithin(valid'[m], clusters'[j], Reach * n)
  BY <1>1 DEF MembersStayNear, TwiceWithin, Gap
<1>2. \A k \in DOMAIN clusters :
        \A o \in clusters[k].members :
          /\ valid'[o] = valid[o] /\ valid[o] \in Candidate
          /\ clusters[k] \in Cluster
          /\ TwiceWithin(valid[o], clusters[k], l)
  BY MembersAfter, GapsAreNat DEF MembersStayNear, l
<1>3. CASE j # i
  <2>1. j \in DOMAIN clusters /\ clusters'[j] = clusters[j]
    BY <1>3, MembersAfter
  <2>2. /\ valid'[m] = valid[m] /\ valid[m] \in Candidate
        /\ clusters[j] \in Cluster /\ TwiceWithin(valid[m], clusters[j], l)
    BY <1>2, <2>1
  <2>. QED
    BY <1>1, <2>1, <2>2, TwiceWithinGrows
<1>4. CASE j = i /\ i \in DOMAIN clusters
  <2>1. /\ clusters'[j] = Add(clusters[i], n, c)
        /\ Within(c, clusters[i], Reach)
    BY <1>4 DEF Grows, Joins
  <2>2. clusters[i] \in Cluster /\ c.weight <= clusters[i].weight
    BY <1>4, GapsAreNat, JoinerIsLight
  <2>3. CASE m = n
    <3>1. Within(c, Add(clusters[i], n, c), Reach)
      BY <2>1, <2>2, JoinerIsNear
    <3>2. Add(clusters[i], n, c) \in Cluster
      BY <2>2, AddIsCluster, TakeKeeps
    <3>3. valid'[m] = c
      BY <2>3, MembersAfter
    <3>4. 2 * Reach \in Nat /\ 2 * Reach <= Reach * n
      <4>1. clusters[i].members # {} /\ clusters[i].members \subseteq DOMAIN valid
        BY <1>4 DEF TypeOK, EveryClusterHasCore, HasCore
      <4>2. n \in Nat /\ 2 <= n
        BY <4>1 DEF TypeOK
      <4>. HIDE DEF n
      <4>. QED
        BY <4>2, LimitsAreOrdered, SMT
    <3>5. TwiceWithin(c, Add(clusters[i], n, c), 2 * Reach)
      BY <3>1, <3>2, TwiceIsTwice, LimitsAreOrdered
    <3>. QED
      BY <1>1, <2>1, <3>2, <3>3, <3>4, <3>5, TwiceWithinGrows
  <2>4. CASE m # n
    <3>1. m \in clusters[i].members
      BY <1>4, <2>4, MembersAfter
    <3>2. /\ valid'[m] = valid[m] /\ valid[m] \in Candidate
          /\ TwiceWithin(valid[m], clusters[i], l)
      BY <1>2, <1>4, <3>1
    <3>3. TwiceWithin(valid[m], Add(clusters[i], n, c), l + Reach)
      BY <1>1, <2>1, <2>2, <3>2, DriftOfJoined
    <3>. QED
      BY <1>1, <2>1, <3>2, <3>3
  <2>. QED
    BY <2>3, <2>4
<1>5. CASE j = i /\ i \notin DOMAIN clusters
  <2>1. clusters'[j] = FromSeed(n, c) /\ m = n /\ valid'[m] = c
    BY <1>5, MembersAfter DEF Grows
  <2>. QED
    BY <1>1, <2>1, SeedIsCentroid, TakeKeeps
<1>. QED
  BY <1>3, <1>4, <1>5

LEMMA TrustAfter ==
  ASSUME TypeOK, NEW c \in Candidate, Take(c), NEW i, Grows(c, i),
         WeightsAreTrust
  PROVE  WeightsAreTrust'
<1>. DEFINE n == Len(valid) + 1
<1>. SUFFICES ASSUME NEW j \in DOMAIN clusters'
              PROVE  clusters'[j].weight = TrustOf(valid', clusters'[j].members)
  BY DEF WeightsAreTrust
<1>1. \A k \in DOMAIN clusters :
        /\ IsFiniteSet(clusters[k].members)
        /\ TrustOf(valid', clusters[k].members) = clusters[k].weight
        /\ \A m \in clusters[k].members : valid'[m].weight \in Nat
        /\ clusters[k].weight \in Nat /\ n \notin clusters[k].members
  <2>. SUFFICES ASSUME NEW k \in DOMAIN clusters
                PROVE  /\ IsFiniteSet(clusters[k].members)
                       /\ TrustOf(valid', clusters[k].members) = clusters[k].weight
                       /\ \A m \in clusters[k].members : valid'[m].weight \in Nat
                       /\ clusters[k].weight \in Nat /\ n \notin clusters[k].members
    OBVIOUS
  <2>1. clusters[k].members \subseteq DOMAIN valid /\ n \notin DOMAIN valid
    BY MembersAfter
  <2>2. \A m \in clusters[k].members : valid'[m] = valid[m]
    BY <2>1, MembersAfter
  <2>3. clusters[k].weight = TrustOf(valid, clusters[k].members)
    BY DEF WeightsAreTrust
  <2>. HIDE DEF n
  <2>. QED
    BY <2>1, <2>2, <2>3, TrustIsKept
<1>2. c.weight \in Nat /\ valid'[n] = c
  BY MembersAfter, WeightsArePositive DEF Candidate
<1>3. IsFiniteSet({n}) /\ TrustOf(valid', {n}) = c.weight
  <2>1. IsFiniteSet({n})
    BY FS_Singleton
  <2>2. \A m \in {n} : valid'[m].weight \in Nat
    BY <1>2
  <2>3. TrustOf(valid', {n}) = valid'[n].weight + TrustOf(valid', {n} \ {n})
    BY <2>1, <2>2, TrustOfMember
  <2>4. {n} \ {n} = {}
    OBVIOUS
  <2>. HIDE DEF n
  <2>. QED
    BY <1>2, <2>1, <2>3, <2>4, TrustOfNone
<1>4. CASE j # i
  BY <1>1, <1>4, MembersAfter
<1>5. CASE j = i /\ i \in DOMAIN clusters
  <2>. DEFINE M == clusters[i].members
  <2>1. clusters'[j].members = M \cup {n} /\ clusters'[j].weight = clusters[i].weight + c.weight
    BY <1>5 DEF Grows, Add
  <2>2. /\ IsFiniteSet(M) /\ M \cap {n} = {}
        /\ TrustOf(valid', M) = clusters[i].weight
        /\ \A m \in M \cup {n} : valid'[m].weight \in Nat
    BY <1>1, <1>2, <1>5
  <2>. HIDE DEF M, n
  <2>3. TrustOf(valid', M \cup {n}) = TrustOf(valid', M) + TrustOf(valid', {n})
    BY <1>3, <2>2, TrustOfUnion
  <2>. QED
    BY <1>3, <2>1, <2>2, <2>3
<1>6. CASE j = i /\ i \notin DOMAIN clusters
  <2>1. clusters'[j] = FromSeed(n, c)
    BY <1>6 DEF Grows
  <2>2. clusters'[j].members = {n} /\ clusters'[j].weight = c.weight
    BY <2>1 DEF FromSeed
  <2>. HIDE DEF n
  <2>. QED
    BY <1>3, <2>2
<1>. QED
  BY <1>4, <1>5, <1>6

(* Agreement, of the candidates in v. *)
AgreeIn(v, G) ==
  /\ G # {}
  /\ \A m, n \in G : Apart(v[m], v[n]) <= Square(Reach)
  /\ \A m \in G, n \in DOMAIN v \ G : Apart(v[m], v[n]) > Square(2 * Reach)

(* The new candidate meets no cluster whose members are all far from it. *)
LEMMA FarCandidateMisses ==
  ASSUME TypeOK, EveryClusterHasCore, NEW c \in Candidate,
         NEW j \in DOMAIN clusters, Within(c, clusters[j], Reach)
  PROVE  \E m \in clusters[j].members :
           m \in DOMAIN valid /\ Apart(c, valid[m]) <= Square(2 * Reach)
<1>1. PICK m \in clusters[j].members : Within(valid[m], clusters[j], Reach)
  BY DEF EveryClusterHasCore, HasCore
<1>2. m \in DOMAIN valid /\ valid[m] \in Candidate /\ clusters[j] \in Cluster
  BY GapsAreNat DEF TypeOK
<1>3. Apart(c, valid[m]) <= Square(2 * Reach)
  BY <1>1, <1>2, NeighboursAreClose, LimitsAreOrdered
<1>. QED
  BY <1>2, <1>3

LEMMA AgreementAfter ==
  ASSUME TypeOK, EveryClusterHasCore, ClustersAreDisjoint,
         CentroidsAreAmongMembers, AgreementIsKept,
         NEW c \in Candidate, Take(c), NEW i, Grows(c, i)
  PROVE  AgreementIsKept'
<1>. DEFINE n == Len(valid) + 1
<1>. SUFFICES ASSUME NEW G \in SUBSET DOMAIN valid', AgreeIn(valid', G)
              PROVE  \E j \in DOMAIN clusters' : clusters'[j].members = G
  BY DEF AgreementIsKept, Agree, AgreeIn, Distance2, Apart
<1>1. /\ DOMAIN valid' = DOMAIN valid \cup {n} /\ n \notin DOMAIN valid
      /\ valid'[n] = c
      /\ \A m \in DOMAIN valid : valid'[m] = valid[m] /\ valid[m] \in Candidate
      /\ i \in DOMAIN clusters'
  BY MembersAfter
<1>2. \A H \in SUBSET DOMAIN valid :
        AgreeIn(valid, H) => \E j \in DOMAIN clusters : clusters[j].members = H
  BY DEF AgreementIsKept, Agree, AgreeIn, Distance2, Apart
<1>3. \A m \in DOMAIN valid : Apart(c, valid[m]) = Apart(valid[m], c)
                              /\ Apart(c, valid[m]) \in Nat
  BY <1>1, ApartIsNat
<1>4. Square(2 * Reach) \in Nat
  <2>1. 2 * Reach \in Int
    BY LimitsAreOrdered
  <2>. QED
    BY <2>1, SquareOfInt
<1>5. AgreeIn(valid, G \ {n}) \/ G \ {n} = {}
  BY <1>1 DEF AgreeIn
<1>. HIDE DEF n
<1>6. CASE n \notin G
  <2>1. G \in SUBSET DOMAIN valid /\ G \ {n} = G /\ G # {}
    BY <1>1, <1>6 DEF AgreeIn
  <2>2. PICK j \in DOMAIN clusters : clusters[j].members = G
    BY <1>2, <1>5, <2>1
  <2>3. j # i
    <3>. SUFFICES ASSUME j = i PROVE FALSE
      OBVIOUS
    <3>1. Within(c, clusters[j], Reach)
      BY <2>2 DEF Grows, Joins
    <3>2. PICK m \in G : m \in DOMAIN valid /\ Apart(c, valid[m]) <= Square(2 * Reach)
      BY <2>2, <3>1, FarCandidateMisses
    <3>3. Apart(valid[m], c) > Square(2 * Reach)
      BY <1>1, <1>6, <3>2 DEF AgreeIn
    <3>. QED
      BY <1>3, <1>4, <3>2, <3>3
  <2>4. j \in DOMAIN clusters' /\ clusters'[j] = clusters[j]
    BY <2>2, <2>3 DEF Grows
  <2>. QED
    BY <2>2, <2>4
<1>7. CASE n \in G
  <2>1. \A m \in G \ {n} : m \in DOMAIN valid /\ Apart(c, valid[m]) <= Square(Reach)
    BY <1>1, <1>7 DEF AgreeIn
  <2>2. \A m \in DOMAIN valid \ G : Apart(c, valid[m]) > Square(2 * Reach)
    BY <1>1, <1>7 DEF AgreeIn
  (* Whatever cluster the candidate could join has a member in G. *)
  <2>3. \A j \in DOMAIN clusters :
          Within(c, clusters[j], Reach) => clusters[j].members \cap (G \ {n}) # {}
    <3>. SUFFICES ASSUME NEW j \in DOMAIN clusters, Within(c, clusters[j], Reach)
                  PROVE  clusters[j].members \cap (G \ {n}) # {}
      OBVIOUS
    <3>1. PICK m \in clusters[j].members :
            m \in DOMAIN valid /\ Apart(c, valid[m]) <= Square(2 * Reach)
      BY FarCandidateMisses
    <3>2. m \in G /\ m # n
      BY <1>1, <1>3, <1>4, <2>2, <3>1
    <3>. QED
      BY <3>1, <3>2
  <2>4. CASE G \ {n} = {}
    <3>1. i \notin DOMAIN clusters
      BY <2>3, <2>4 DEF Grows, Joins
    <3>2. clusters'[i].members = {n} /\ G = {n}
      BY <1>7, <2>4, <3>1, MembersAfter DEF n
    <3>. QED
      BY <1>1, <3>2
  <2>5. CASE G \ {n} # {}
    <3>1. PICK j \in DOMAIN clusters : clusters[j].members = G \ {n}
      BY <1>1, <1>2, <1>5, <2>5
    <3>2. Within(c, clusters[j], Reach)
      <4>1. \A m \in clusters[j].members : Apart(c, valid[m]) <= Square(Reach)
        BY <2>1, <3>1
      <4>. QED
        BY <4>1 DEF CentroidsAreAmongMembers
    <3>3. i \in DOMAIN clusters /\ Within(c, clusters[i], Reach)
      <4>1. \E k \in DOMAIN clusters : Joins(c, k)
        BY <3>2, NearCandidateJoins
      <4>. QED
        BY <4>1 DEF Grows, Joins
    <3>4. i = j
      <4>1. clusters[i].members \cap clusters[j].members # {}
        BY <2>3, <3>1, <3>3
      <4>. QED
        BY <4>1, <3>3 DEF ClustersAreDisjoint
    <3>5. clusters'[i].members = (G \ {n}) \cup {n}
      BY <3>1, <3>3, <3>4, MembersAfter DEF n
    <3>. QED
      BY <1>1, <1>7, <3>5
  <2>. QED
    BY <2>4, <2>5
<1>. QED
  BY <1>6, <1>7

-----------------------------------------------------------------------------
LEMMA ClustersStartEmpty == Init => ClusterInv
<1>. SUFFICES ASSUME Init PROVE ClusterInv
  OBVIOUS
<1>1. DOMAIN clusters = {} /\ DOMAIN valid = {} /\ phase = "cluster"
  BY DEF Init
<1>. QED
  BY <1>1 DEF ClusterInv, ClustersAreDisjoint, CentroidsAreAmongMembers,
              CandidatesAreSorted, MembersStayNear, WeightsAreTrust, WinnerWins,
              AgreementIsKept, Agree

LEMMA ClustersStayApart == IInv /\ ClusterInv /\ [Next]_vars => ClusterInv'
<1>. SUFFICES ASSUME IInv, ClusterInv, [Next]_vars
              PROVE  ClusterInv'
  OBVIOUS
<1>1. TypeOK /\ EveryClusterHasCore
  BY DEF IInv
<1>2. ASSUME NEW c \in Candidate, Join(c) \/ Seed(c)
      PROVE  ClusterInv'
  <2>1. Take(c) /\ \E i : Grows(c, i)
    BY <1>1, <1>2, StepGrows
  <2>2. PICK i : Grows(c, i)
    BY <2>1
  <2>3. WinnerWins'
    BY <2>1 DEF Take, WinnerWins
  <2>4. ClustersAreDisjoint' /\ CentroidsAreAmongMembers' /\ MembersStayNear'
    BY <1>1, <2>1, <2>2, DisjointAfter, HullAfter, DriftAfter DEF ClusterInv
  <2>5. WeightsAreTrust' /\ AgreementIsKept'
    BY <1>1, <2>1, <2>2, TrustAfter, AgreementAfter DEF ClusterInv
  <2>6. CandidatesAreSorted'
    BY <1>1, <2>1, SortedAfter DEF ClusterInv
  <2>. QED
    BY <2>3, <2>4, <2>5, <2>6 DEF ClusterInv
<1>3. ASSUME UNCHANGED <<valid, clusters>>, WinnerWins'
      PROVE  ClusterInv'
  BY <1>3 DEF ClusterInv, ClustersAreDisjoint, CentroidsAreAmongMembers,
       CandidatesAreSorted, MembersStayNear, WeightsAreTrust, AgreementIsKept,
       Agree, Distance2, TwiceWithin, Within, Gap
<1>4. CASE Score
  <2>1. WinnerWins' /\ UNCHANGED <<valid, clusters>>
    BY <1>4 DEF Score, WinnerWins, Wins
  <2>. QED
    BY <1>3, <2>1
<1>5. CASE Elect
  <2>1. WinnerWins' /\ UNCHANGED <<valid, clusters>>
    BY <1>5 DEF Elect, ClusterInv, WinnerWins, Wins
  <2>. QED
    BY <1>3, <2>1
<1>6. CASE UNCHANGED vars
  <2>1. WinnerWins' /\ UNCHANGED <<valid, clusters>>
    BY <1>6 DEF vars, ClusterInv, WinnerWins, Wins
  <2>. QED
    BY <1>3, <2>1
<1>. QED
  BY <1>2, <1>4, <1>5, <1>6 DEF Next

LEMMA ClusterInvHolds == Spec => []ClusterInv
  BY IInvHolds, ClustersStartEmpty, ClustersStayApart, PTL DEF Spec

(* The drift of a whole geocoding is below 1 km. *)
LEMMA DriftIsNotStray == IInv /\ ClusterInv => VotersAreNoOutliers
<1>. SUFFICES ASSUME IInv, ClusterInv, phase # "cluster",
                     NEW m \in clusters[winner].members
              PROVE  m \notin outliers
  BY DEF VotersAreNoOutliers
<1>1. winner \in DOMAIN clusters /\ TypeOK
  BY DEF IInv, PhaseInv
<1>2. TwiceWithin(valid[m], clusters[winner], Reach * Len(valid))
  BY <1>1 DEF ClusterInv, MembersStayNear
<1>3. m \in DOMAIN valid /\ valid[m] \in Candidate /\ clusters[winner] \in Cluster
  BY <1>1 DEF TypeOK
<1>4. Reach * Len(valid) \in Nat /\ Reach * Len(valid) <= 2 * Stray
  <2>1. Len(valid) \in Nat /\ Len(valid) <= MaxCandidates
    BY <1>1 DEF TypeOK
  <2>. DEFINE l == Len(valid)
  <2>. HIDE DEF l
  <2>2. l \in Nat /\ l <= MaxCandidates => Reach * l \in Nat /\ Reach * l <= MaxCandidates * Reach
    BY LimitsAreOrdered, BoundIsNat, SMT
  <2>3. MaxCandidates * Reach \in Int
    BY LimitsAreOrdered, BoundIsNat, SMT
  <2>4. Reach * l \in Nat /\ Reach * l <= 2 * Stray
    BY <2>1, <2>2, <2>3, DriftIsBounded, LimitsAreOrdered DEF l
  <2>. QED
    BY <2>4 DEF l
<1>5. TwiceWithin(valid[m], clusters[winner], 2 * Stray)
  BY <1>2, <1>3, <1>4, TwiceWithinGrows, LimitsAreOrdered
<1>6. Within(valid[m], clusters[winner], Stray)
  BY <1>3, <1>5, TwiceIsTwice, LimitsAreOrdered
<1>. QED
  BY <1>6 DEF IInv, OutliersAreFar

(* More candidates have no less trust. *)
LEMMA TrustGrows ==
  ASSUME TypeOK, NEW G, NEW H, G \subseteq H, H \subseteq DOMAIN valid
  PROVE  TrustOf(valid, G) <= TrustOf(valid, H)
<1>1. /\ IsFiniteSet(G) /\ IsFiniteSet(H \ G)
      /\ TrustOf(valid, G) \in Nat /\ TrustOf(valid, H \ G) \in Nat
      /\ \A n \in H : valid[n].weight \in Nat
  <2>1. G \subseteq DOMAIN valid /\ H \ G \subseteq DOMAIN valid
    OBVIOUS
  <2>. QED
    BY <2>1, TrustIsKept
<1>2. G \cup (H \ G) = H /\ G \cap (H \ G) = {}
  OBVIOUS
<1>3. TrustOf(valid, H) = TrustOf(valid, G) + TrustOf(valid, H \ G)
  BY <1>1, <1>2, TrustOfUnion
<1>. QED
  BY <1>1, <1>3

(* The winner is a group that agrees, or one of loners only.               *)
LEMMA HeaviestGroupWins == IInv /\ ClusterInv => HeaviestGroupDecides
<1>. SUFFICES ASSUME IInv, ClusterInv, phase = "elected", NEW G \in Groups,
                     Trust(Loners) < Trust(G),
                     \A H \in Groups \ {G} : Trust(H) < Trust(G)
              PROVE  elected \in G
  BY DEF HeaviestGroupDecides
<1>. DEFINE M == clusters[winner].members
<1>1. /\ TypeOK /\ winner \in DOMAIN clusters /\ Wins(winner)
      /\ elected \in M /\ M \subseteq DOMAIN valid
  BY DEF IInv, TypeOK, PhaseInv, IsBest, ClusterInv, WinnerWins
<1>2. Trust(G) <= Trust(M)
  <2>1. PICK i \in DOMAIN clusters : clusters[i].members = G
    BY DEF ClusterInv, AgreementIsKept, Groups
  <2>2. /\ Trust(G) = clusters[i].weight /\ Trust(M) = clusters[winner].weight
        /\ Trust(G) \in Nat /\ Trust(M) \in Nat
    BY <1>1, <2>1, TrustIsKept DEF ClusterInv, WeightsAreTrust, Trust, TrustOf, Groups
  <2>3. \/ clusters[i].weight < clusters[winner].weight
        \/ clusters[i].weight <= clusters[winner].weight
    BY <1>1, <2>1 DEF Wins
  <2>. QED
    BY <2>2, <2>3
<1>3. Trust(G) \in Nat /\ Trust(M) \in Nat
  BY <1>1, TrustIsKept DEF Trust, TrustOf, Groups
<1>4. CASE M \in Groups
  <2>1. Trust(M) \in Nat /\ (M # G => Trust(M) < Trust(G))
    BY <1>3, <1>4
  <2>. QED
    BY <1>1, <1>2, <1>3, <2>1
<1>5. CASE M \notin Groups
  <2>1. M \subseteq Loners
    <3>. SUFFICES ASSUME NEW H \in Groups, NEW m \in M, m \in H PROVE FALSE
      BY <1>1 DEF Loners
    <3>1. PICK j \in DOMAIN clusters : clusters[j].members = H
      BY DEF ClusterInv, AgreementIsKept, Groups
    <3>. QED
      BY <1>1, <1>5, <3>1 DEF ClusterInv, ClustersAreDisjoint
  <2>2. Loners \subseteq DOMAIN valid
    BY DEF Loners
  <2>3. Trust(M) <= Trust(Loners) /\ Trust(Loners) \in Nat
    BY <1>1, <2>1, <2>2, TrustGrows, TrustIsKept DEF Trust, TrustOf
  <2>. QED
    BY <1>2, <1>3, <2>3
<1>. QED
  BY <1>4, <1>5

-----------------------------------------------------------------------------
(* The elected member is at least as near as the core of its cluster. *)
LEMMA BestIsNear == IInv => ElectedIsNear
<1>. SUFFICES ASSUME IInv, phase = "elected"
              PROVE  /\ elected \in clusters[winner].members \ outliers
                     /\ Within(valid[elected], clusters[winner], Reach)
  BY DEF ElectedIsNear
<1>. DEFINE k == clusters[winner]
<1>1. winner \in DOMAIN clusters /\ elected \in DOMAIN valid /\ IsBest(elected)
  BY DEF IInv, PhaseInv
<1>2. k \in Cluster /\ k.members \subseteq DOMAIN valid
  BY <1>1 DEF IInv, TypeOK
<1>3. PICK m \in k.members : Within(valid[m], k, Reach)
  BY <1>1 DEF IInv, EveryClusterHasCore, HasCore
<1>4. valid[m] \in Candidate /\ valid[elected] \in Candidate
  BY <1>1, <1>2 DEF IInv, TypeOK
<1>5. elected \in k.members
  BY <1>1 DEF IsBest
<1>6. Gap(valid[elected], k) \in Nat /\ Gap(valid[m], k) \in Nat
  BY <1>2, <1>4, GapIsNat
<1>7. \/ Gap(valid[elected], k) < Gap(valid[m], k)
      \/ Gap(valid[elected], k) <= Gap(valid[m], k)
  BY <1>1 DEF IsBest
<1>8. Square(Reach * k.weight) \in Nat
  <2>1. Reach * k.weight \in Int
    BY <1>2, LimitsAreOrdered, SMT DEF Cluster
  <2>. QED
    BY <2>1, SquareOfInt
<1>. HIDE DEF k
<1>9. Within(valid[elected], k, Reach)
  BY <1>3, <1>6, <1>7, <1>8, SMT DEF Within
<1>10. Within(valid[elected], k, Stray)
  BY <1>2, <1>4, <1>9, NearIsNotStray
<1>11. elected \notin outliers
  BY <1>10 DEF IInv, OutliersAreFar, k
<1>. QED
  BY <1>5, <1>9, <1>11 DEF k

-----------------------------------------------------------------------------
(* What Cascade takes a geocoding to be: candidates are at one place, or    *)
(* farther from each other than an outlier is.                              *)
PlacesAreApart ==
  \A m, n \in DOMAIN valid : \/ Distance2(m, n) <= Square(Reach)
                             \/ Distance2(m, n) > Square(Reach + Stray)

Place(n) == {m \in DOMAIN valid : Distance2(m, n) <= Square(Reach)}

(* MayWin and OutliersOf of Cascade. *)
PlacesDecide ==
  phase = "elected" /\ PlacesAreApart =>
    /\ \A n \in DOMAIN valid : Trust(Place(n)) <= Trust(Place(elected))
    /\ outliers = DOMAIN valid \ Place(elected)

LEMMA DistancesAreNat ==
  ASSUME TypeOK, NEW m \in DOMAIN valid, NEW n \in DOMAIN valid
  PROVE  /\ Distance2(m, n) = Apart(valid[m], valid[n])
         /\ Distance2(m, n) \in Nat /\ Distance2(m, n) = Distance2(n, m)
         /\ Distance2(n, n) = 0
<1>1. valid[m] \in Candidate /\ valid[n] \in Candidate
  BY DEF TypeOK
<1>2. Apart(valid[n], valid[n]) = 0
  <2>1. valid[n].at[1] \in Int /\ valid[n].at[2] \in Int
    BY <1>1, PointsArePairs DEF Candidate
  <2>. QED
    BY <2>1, SMT DEF Apart, Square
<1>. QED
  BY <1>1, <1>2, ApartIsNat DEF Distance2, Apart

LEMMA PlaceAgrees ==
  ASSUME TypeOK, PlacesAreApart, NEW n \in DOMAIN valid
  PROVE  Place(n) \in SUBSET DOMAIN valid /\ n \in Place(n) /\ Agree(Place(n))
<1>1. /\ Reach \in Nat /\ Square(Reach) \in Nat
      /\ Square(2 * Reach) \in Nat /\ Square(Reach + Stray) \in Nat
      /\ Square(2 * Reach) <= Square(Reach + Stray)
      /\ Square(Reach) <= Square(2 * Reach)
  BY LimitsAreOrdered, SquareOfInt, SquareGrows
<1>2. n \in Place(n)
  BY <1>1, DistancesAreNat DEF Place
<1>3. ASSUME NEW m \in Place(n), NEW o \in DOMAIN valid,
             Distance2(m, o) <= Square(2 * Reach)
      PROVE  o \in Place(n) /\ Distance2(m, o) <= Square(Reach)
  <2>1. Distance2(m, o) <= Square(Reach)
    <3>1. Distance2(m, o) \in Nat
      BY DistancesAreNat DEF Place
    <3>. QED
      BY <1>1, <1>3, <3>1 DEF PlacesAreApart, Place
  <2>2. Distance2(n, o) <= Square(2 * Reach)
    <3>1. /\ Apart(valid[m], valid[n]) <= Square(Reach)
          /\ Apart(valid[m], valid[o]) <= Square(Reach)
      BY <2>1, DistancesAreNat DEF Place
    <3>2. Apart(valid[n], valid[o]) <= Square(2 * Reach)
      BY <3>1, PointsAreClose DEF TypeOK, Place
    <3>. QED
      BY <3>2, DistancesAreNat
  <2>3. Distance2(o, n) <= Square(Reach)
    <3>1. Distance2(o, n) \in Nat /\ Distance2(o, n) = Distance2(n, o)
      BY DistancesAreNat
    <3>. QED
      BY <1>1, <2>2, <3>1 DEF PlacesAreApart
  <2>. QED
    BY <2>1, <2>3 DEF Place
<1>4. ASSUME NEW m \in Place(n), NEW o \in Place(n)
      PROVE  Distance2(m, o) <= Square(Reach)
  <2>1. /\ Apart(valid[n], valid[m]) <= Square(Reach)
        /\ Apart(valid[n], valid[o]) <= Square(Reach)
    BY DistancesAreNat DEF Place
  <2>2. Distance2(m, o) <= Square(2 * Reach)
    BY <2>1, PointsAreClose, DistancesAreNat DEF TypeOK, Place
  <2>. QED
    BY <1>3, <2>2 DEF Place
<1>5. ASSUME NEW m \in Place(n), NEW o \in DOMAIN valid \ Place(n)
      PROVE  Distance2(m, o) > Square(2 * Reach)
  <2>1. Distance2(m, o) \in Nat
    BY DistancesAreNat DEF Place
  <2>. QED
    BY <1>1, <1>3, <2>1
<1>. QED
  BY <1>2, <1>4, <1>5 DEF Agree, Place

(* The winning cluster is the place of the elected candidate. *)
LEMMA PlacesWin == IInv /\ ClusterInv => PlacesDecide
<1>. SUFFICES ASSUME IInv, ClusterInv, phase = "elected", PlacesAreApart
              PROVE  /\ \A n \in DOMAIN valid :
                          Trust(Place(n)) <= Trust(Place(elected))
                     /\ outliers = DOMAIN valid \ Place(elected)
  BY DEF PlacesDecide
<1>. DEFINE k == clusters[winner]
<1>1. /\ TypeOK /\ winner \in DOMAIN clusters /\ Wins(winner) /\ k \in Cluster
      /\ elected \in k.members /\ elected \in DOMAIN valid
  BY DEF IInv, TypeOK, PhaseInv, IsBest, ClusterInv, WinnerWins
<1>2. \A n \in DOMAIN valid : \E i \in DOMAIN clusters : clusters[i].members = Place(n)
  BY <1>1, PlaceAgrees DEF ClusterInv, AgreementIsKept
<1>3. k.members = Place(elected)
  BY <1>1, <1>2, PlaceAgrees DEF ClusterInv, ClustersAreDisjoint
<1>4. ASSUME NEW n \in DOMAIN valid
      PROVE  Trust(Place(n)) <= Trust(Place(elected))
  <2>1. PICK i \in DOMAIN clusters : clusters[i].members = Place(n)
    BY <1>2
  <2>2. /\ Trust(Place(n)) = clusters[i].weight /\ Trust(Place(elected)) = k.weight
        /\ Trust(Place(n)) \in Nat /\ Trust(Place(elected)) \in Nat
    BY <1>1, <1>3, <2>1, TrustIsKept, PlaceAgrees
    DEF ClusterInv, WeightsAreTrust, Trust, TrustOf
  <2>3. clusters[i].weight < k.weight \/ clusters[i].weight <= k.weight
    BY <1>1, <2>1 DEF Wins
  <2>. QED
    BY <2>2, <2>3
<1>5. ASSUME NEW m \in DOMAIN valid
      PROVE  Within(valid[m], k, Stray) <=> m \in Place(elected)
  <2>1. valid[m] \in Candidate /\ valid[elected] \in Candidate
    BY <1>1 DEF TypeOK
  <2>2. CASE m \in Place(elected)
    <3>1. \A o \in k.members : Apart(valid[m], valid[o]) <= Square(Reach)
      BY <1>1, <1>3, <2>2, PlaceAgrees, DistancesAreNat DEF Agree, Place
    <3>2. Within(valid[m], k, Reach)
      BY <1>1, <2>1, <3>1 DEF ClusterInv, CentroidsAreAmongMembers
    <3>. QED
      BY <1>1, <2>1, <2>2, <3>2, NearIsNotStray
  <2>3. CASE m \notin Place(elected)
    <3>. SUFFICES ASSUME Within(valid[m], k, Stray) PROVE FALSE
      BY <2>3
    <3>1. Within(valid[elected], k, Reach)
      BY <1>1, BestIsNear DEF ElectedIsNear
    <3>2. Apart(valid[m], valid[elected]) <= Square(Stray + Reach)
      BY <1>1, <2>1, <3>1, NeighboursAreClose, LimitsAreOrdered
    <3>3. Distance2(m, elected) <= Square(Reach + Stray)
      <4>1. Stray + Reach = Reach + Stray
        BY LimitsAreOrdered
      <4>. QED
        BY <1>1, <3>2, <4>1, DistancesAreNat
    <3>4. /\ Distance2(m, elected) \in Nat
          /\ ~(Distance2(m, elected) <= Square(Reach))
          /\ Square(Reach + Stray) \in Nat
      BY <1>1, <2>3, DistancesAreNat, LimitsAreOrdered, SquareOfInt DEF Place
    <3>. QED
      BY <1>1, <3>3, <3>4 DEF PlacesAreApart
  <2>. QED
    BY <2>2, <2>3
<1>6. outliers = DOMAIN valid \ Place(elected)
  BY <1>5 DEF IInv, OutliersAreFar
<1>. QED
  BY <1>4, <1>6

-----------------------------------------------------------------------------
(* Positions, clusters and indices keep their types. *)
THEOREM ConsensusTypesHold == Spec => []TypeOK
<1>1. IInv => TypeOK
  BY DEF IInv
<1>. QED
  BY IInvHolds, <1>1, PTL

(* For any candidates, weights and limits, the elected candidate is within *)
(* 100 m of the winning centroid and is not an outlier (best_candidate).   *)
THEOREM ElectedIsNearHolds == Spec => []ElectedIsNear
  BY IInvHolds, BestIsNear, PTL

(* For any candidates, the drift of a centroid makes no voter an outlier,  *)
(* as long as Stray is half of Reach for every one (run_consensus).        *)
THEOREM VotersAreNoOutliersHolds == Spec => []VotersAreNoOutliers
  BY IInvHolds, ClusterInvHolds, DriftIsNotStray, PTL

(* For any candidates in any order, those that agree with each other and   *)
(* with nobody else are one cluster (run_consensus).                       *)
THEOREM AgreementIsKeptHolds == Spec => []AgreementIsKept
<1>1. ClusterInv => AgreementIsKept
  BY DEF ClusterInv
<1>. QED
  BY ClusterInvHolds, <1>1, PTL

(* For any candidates and weights, those that agree and have more trust    *)
(* than others that agree and than the loners decide (run_consensus,       *)
(* best_candidate).                                                        *)
THEOREM HeaviestGroupDecidesHolds == Spec => []HeaviestGroupDecides
  BY IInvHolds, ClusterInvHolds, HeaviestGroupWins, PTL

(* What Cascade makes of a geocoding, that places are clusters and the one  *)
(* of most trust wins, is what run_consensus does, in any order.            *)
THEOREM PlacesDecideHolds == Spec => []PlacesDecide
  BY IInvHolds, ClusterInvHolds, PlacesWin, PTL
=============================================================================
