-------------------------- MODULE ErrorTreeProofs --------------------------
(* What the package asks of an error tree, for trees of any size and shape.  *)
EXTENDS ErrorTree, WellFoundedInduction, SequenceTheorems, TLAPS

-----------------------------------------------------------------------------
(* Induction and recursion over a set whose elements have a rank *)

\* Induction over the naturals, for sets.
LEMMA SetInduction ==
    ASSUME NEW S, 0 \in S, \A n \in Nat : n \in S => n + 1 \in S
    PROVE  Nat \subseteq S
<1> DEFINE T == Nat \ S
           R == OpToRel(<, Nat)
<1> SUFFICES ASSUME T # {} PROVE FALSE
    OBVIOUS
<1>1. IsWellFoundedOn(R, Nat)
    BY NatLessThanWellFounded
<1>2. \A m, n \in Nat : m < n => <<m, n>> \in R
    BY DEF OpToRel
<1> HIDE DEF R
<1>3. PICK n \in T : \A m \in T : ~(<<m, n>> \in R)
    <2> T \subseteq Nat
        OBVIOUS
    <2> HIDE DEF T
    <2> QED
        BY <1>1, WFMin
<1>4. n # 0
    OBVIOUS
<1>5. n - 1 \in Nat /\ n - 1 \in S
    <2>1. n - 1 \in Nat /\ n \in Nat /\ n - 1 < n
        BY <1>4
    <2>2. <<n - 1, n>> \in R
        BY <1>2, <2>1
    <2>3. n - 1 \notin T
        BY <1>3, <2>2
    <2> QED
        BY <2>1, <2>3
<1> QED
    BY <1>5

\* Induction over the elements of S: below[x] are of a lower rank than x.
LEMMA RankInduction ==
    ASSUME NEW S, NEW rank \in [S -> Nat], NEW below \in [S -> SUBSET S],
           \A x \in S : \A y \in below[x] : rank[y] < rank[x],
           NEW T, \A x \in S : below[x] \subseteq T => x \in T
    PROVE  S \subseteq T
<1> DEFINE M == {m \in Nat : \A x \in S : rank[x] < m => x \in T}
<1>1. 0 \in M
    OBVIOUS
<1>2. ASSUME NEW m \in Nat, m \in M PROVE m + 1 \in M
    <2> SUFFICES ASSUME NEW x \in S, rank[x] < m + 1 PROVE x \in T
        OBVIOUS
    <2>1. ASSUME NEW y \in below[x] PROVE y \in T
        <3>1. y \in S /\ rank[y] < rank[x] /\ rank[y] \in Nat /\ rank[x] \in Nat
            OBVIOUS
        <3>2. rank[y] < m
            BY <3>1
        <3> QED
            BY <1>2, <3>1, <3>2
    <2> QED
        BY <2>1
<1> HIDE DEF M
<1>3. Nat \subseteq M
    BY <1>1, <1>2, SetInduction
<1>4. ASSUME NEW x \in S PROVE x \in T
    <2>1. rank[x] + 1 \in M /\ rank[x] < rank[x] + 1
        BY <1>3
    <2> QED
        BY <2>1 DEF M
<1> QED
    BY <1>4

\* Every element of S has a rank less than K, and the elements below it a lower one.
Ranked(S, below, K, rank) ==
    /\ K \in Nat /\ rank \in [S -> Nat] /\ below \in [S -> SUBSET S]
    /\ \A x \in S : rank[x] < K
    /\ \A x \in S : \A y \in below[x] : rank[y] < rank[x]

\* B says what f is at x, looking at f only below x.
LooksBelow(S, below, V, B) ==
    /\ B \in [[S -> V] \X S -> V]
    /\ \A f, g \in [S -> V] : \A x \in S :
           (\A y \in below[x] : f[y] = g[y]) => B[<<f, x>>] = B[<<g, x>>]

\* A definition by recursion has a value.
LEMMA Recursion ==
    ASSUME NEW S, NEW below, NEW K, NEW rank, NEW V, NEW B, NEW v \in V,
           Ranked(S, below, K, rank), LooksBelow(S, below, V, B)
    PROVE  \E f \in [S -> V] : \A x \in S : f[x] = B[<<f, x>>]
<1> USE DEF Ranked, LooksBelow
<1> DEFINE UpTo(m) == \E f \in [S -> V] : \A x \in S : rank[x] < m => f[x] = B[<<f, x>>]
           M == {m \in Nat : UpTo(m)}
<1>1. 0 \in M
    <2>1. [x \in S |-> v] \in [S -> V]
        OBVIOUS
    <2>2. \A x \in S : ~(rank[x] < 0)
        OBVIOUS
    <2>3. UpTo(0)
        BY <2>1, <2>2
    <2> QED
        BY <2>3
<1>2. ASSUME NEW m \in Nat, m \in M PROVE m + 1 \in M
    <2>1. PICK f \in [S -> V] : \A x \in S : rank[x] < m => f[x] = B[<<f, x>>]
        BY <1>2
    <2> DEFINE g == [x \in S |-> B[<<f, x>>]]
    <2>2. g \in [S -> V]
        OBVIOUS
    <2>3. \A x \in S : g[x] = B[<<f, x>>]
        OBVIOUS
    <2> HIDE DEF g
    <2>4. ASSUME NEW x \in S, rank[x] < m + 1 PROVE g[x] = B[<<g, x>>]
        <3>1. ASSUME NEW y \in below[x] PROVE f[y] = g[y]
            <4>1. y \in S /\ rank[y] < rank[x] /\ rank[y] \in Nat /\ rank[x] \in Nat
                OBVIOUS
            <4>2. rank[y] < m
                BY <2>4, <4>1
            <4> QED
                BY <2>1, <2>3, <4>1, <4>2
        <3>2. B[<<f, x>>] = B[<<g, x>>]
            BY <2>2, <3>1
        <3> QED
            BY <2>3, <3>2
    <2> QED
        BY <2>2, <2>4
<1> HIDE DEF M
<1>3. K \in M
    BY <1>1, <1>2, SetInduction
<1> QED
    BY <1>3 DEF M

-----------------------------------------------------------------------------
(* The first hit of a walk *)

\* A set of naturals has a least element.
LEMMA LeastElement ==
    ASSUME NEW T \in SUBSET Nat, T # {}
    PROVE  Min(T) \in T /\ \A y \in T : Min(T) <= y
<1> DEFINE R == OpToRel(<, Nat)
<1>1. IsWellFoundedOn(R, Nat)
    BY NatLessThanWellFounded
<1>2. \A m, n \in Nat : m < n => <<m, n>> \in R
    BY DEF OpToRel
<1> HIDE DEF R
<1>3. PICK n \in T : \A m \in T : ~(<<m, n>> \in R)
    BY <1>1, WFMin
<1>4. ASSUME NEW m \in T PROVE n <= m
    <2>1. m \in Nat /\ n \in Nat
        OBVIOUS
    <2>2. ~(m < n)
        BY <1>2, <1>3, <2>1
    <2> QED
        BY <2>1, <2>2
<1> QED
    BY <1>4 DEF Min

IsFirstHit(h, m, miss) ==
    \/ firstHit(h, miss) = miss /\ \A i \in 1..m : h[i] = miss
    \/ \E i \in 1..m : /\ firstHit(h, miss) = h[i] /\ h[i] # miss
                       /\ \A j \in 1..m : j < i => h[j] = miss

\* firstHit stops at the first member that is no miss.
LEMMA FirstHit ==
    ASSUME NEW V, NEW m \in Nat, NEW h \in [1..m -> V], NEW miss \in V
    PROVE  firstHit(h, miss) \in V /\ IsFirstHit(h, m, miss)
<1> USE DEF IsFirstHit
<1> DEFINE found == {i \in DOMAIN h : h[i] # miss}
<1>1. CASE found = {}
    <2>1. firstHit(h, miss) = miss
        BY <1>1, Zenon DEF firstHit
    <2>2. \A i \in 1..m : h[i] = miss
        BY <1>1
    <2> QED
        BY <2>1, <2>2
<1>2. CASE found # {}
    <2>0. found \in SUBSET Nat
        OBVIOUS
    <2>1. Min(found) \in found /\ \A y \in found : Min(found) <= y
        <3> HIDE DEF found
        <3> QED
            BY <1>2, <2>0, LeastElement
    <2> DEFINE i == Min(found)
    <2>2. firstHit(h, miss) = h[i]
        BY <1>2 DEF firstHit
    <2> HIDE DEF i
    <2>3. i \in 1..m /\ h[i] # miss /\ \A j \in 1..m : j < i => h[j] = miss
        BY <2>1 DEF i
    <2> QED
        BY <2>2, <2>3
<1> QED
    BY <1>1, <1>2

-----------------------------------------------------------------------------
(* Trees *)

Types == {"plain", "herr", "nil", "wrapped", "joined", "status"}

\* What is wrapped exists; only wrappers, aggregates and herr errors hold others.
TypeOK ==
    /\ node \in Seq([type : Types, code : Codes \cup {internalCode, None},
                     kids : Seq(Nat), origin : Nat \cup {None}])
    /\ \A n \in Nodes :
        /\ node[n].kids \in Seq(Nodes)
        /\ node[n].type \in {"plain", "nil", "status"} => node[n].kids = <<>>
        /\ node[n].type \in {"wrapped", "joined"} => node[n].kids # <<>>
        /\ node[n].type = "status" => node[n].origin \in Nodes

below == [n \in Nodes |-> {node[n].kids[i] : i \in DOMAIN node[n].kids}]

\* No error wraps itself, directly or not: there is a rank that goes down from
\* every error to the errors that it wraps.
Acyclic == \E K, rank : Ranked(Nodes, below, K, rank)

Good == TypeOK /\ Acyclic

\* What TypeOK says of the members of an error.
LEMMA Kids ==
    ASSUME TypeOK
    PROVE  /\ Len(node) \in Nat /\ Nodes \subseteq Nat
           /\ below \in [Nodes -> SUBSET Nodes]
           /\ \A n \in Nodes : /\ Len(node[n].kids) \in Nat
                               /\ DOMAIN node[n].kids = 1..Len(node[n].kids)
                               /\ \A i \in 1..Len(node[n].kids) : node[n].kids[i] \in Nodes
                                                                /\ node[n].kids[i] \in below[n]
<1>1. Len(node) \in Nat /\ Nodes \subseteq Nat
    BY DEF TypeOK, Nodes
<1>2. ASSUME NEW n \in Nodes
      PROVE  /\ Len(node[n].kids) \in Nat
             /\ DOMAIN node[n].kids = 1..Len(node[n].kids)
             /\ \A i \in 1..Len(node[n].kids) : node[n].kids[i] \in Nodes
    BY DEF TypeOK
<1> QED
    BY <1>1, <1>2 DEF below

\* A property that goes up from what is wrapped holds of every error.
LEMMA TreeInduction ==
    ASSUME Good, NEW T, \A n \in Nodes : below[n] \subseteq T => n \in T
    PROVE  Nodes \subseteq T
<1>1. PICK K, rank : Ranked(Nodes, below, K, rank)
    BY DEF Good, Acyclic
<1>2. \A n \in Nodes : \A k \in below[n] : rank[k] < rank[n]
    BY <1>1 DEF Ranked
<1> QED
    BY <1>1, <1>2, RankInduction DEF Ranked

-----------------------------------------------------------------------------
(* Walks: local[n] is what a walk finds at n itself, miss when it goes on *)

Hits(f, n) == [i \in 1..Len(node[n].kids) |-> f[node[n].kids[i]]]
IsWalk(f, local, miss) ==
    \A n \in Nodes : f[n] = IF local[n] # miss THEN local[n] ELSE firstHit(Hits(f, n), miss)

Walk(V, f, local, miss) == miss \in V /\ local \in [Nodes -> V] /\ IsWalk(f, local, miss)

\* A walk ends.
LEMMA WalkExists ==
    ASSUME Good, NEW V, NEW miss \in V, NEW local \in [Nodes -> V]
    PROVE  \E f \in [Nodes -> V] : IsWalk(f, local, miss)
<1> DEFINE body(f, n) == IF local[n] # miss THEN local[n] ELSE firstHit(Hits(f, n), miss)
           B == [p \in [Nodes -> V] \X Nodes |-> body(p[1], p[2])]
<1>1. PICK K, rank : Ranked(Nodes, below, K, rank)
    BY DEF Good, Acyclic
<1>2. ASSUME NEW f \in [Nodes -> V], NEW n \in Nodes PROVE body(f, n) \in V
    <2>1. Hits(f, n) \in [1..Len(node[n].kids) -> V] /\ Len(node[n].kids) \in Nat
        BY Kids DEF Good, Hits
    <2> QED
        BY <2>1, FirstHit
<1>3. ASSUME NEW f \in [Nodes -> V], NEW g \in [Nodes -> V], NEW n \in Nodes,
             \A k \in below[n] : f[k] = g[k]
      PROVE  body(f, n) = body(g, n)
    <2>1. Hits(f, n) = Hits(g, n)
        BY <1>3, Kids DEF Good, Hits
    <2> QED
        BY <2>1
<1> HIDE DEF body
<1>4. B \in [[Nodes -> V] \X Nodes -> V]
    BY <1>2
<1>5. \A f, g \in [Nodes -> V] : \A n \in Nodes :
          (\A k \in below[n] : f[k] = g[k]) => B[<<f, n>>] = B[<<g, n>>]
    BY <1>3
<1>6. \A f \in [Nodes -> V], n \in Nodes : B[<<f, n>>] = body(f, n)
    OBVIOUS
<1> HIDE DEF B
<1>7. LooksBelow(Nodes, below, V, B)
    BY <1>4, <1>5 DEF LooksBelow
<1>8. \E f \in [Nodes -> V] : \A n \in Nodes : f[n] = B[<<f, n>>]
    BY <1>1, <1>7, Recursion
<1> QED
    BY <1>6, <1>8 DEF IsWalk, body

StepsAt(n, f, local, miss) ==
    /\ local[n] # miss => f[n] = local[n]
    /\ local[n] = miss =>
         \/ /\ f[n] = miss
            /\ \A i \in 1..Len(node[n].kids) : f[node[n].kids[i]] = miss
         \/ \E i \in 1..Len(node[n].kids) :
               /\ f[n] = f[node[n].kids[i]] /\ f[n] # miss
               /\ \A j \in 1..Len(node[n].kids) : j < i => f[node[n].kids[j]] = miss

\* A walk takes what it finds at n itself, else at the first member of n in
\* which there is something to find.
LEMMA WalkStep ==
    ASSUME Good, NEW V, NEW f, NEW local, NEW miss, Walk(V, f, local, miss)
    PROVE  \A n \in Nodes : f[n] \in V /\ StepsAt(n, f, local, miss)
<1> USE DEF Walk
<1> DEFINE T == {n \in Nodes : f[n] \in V}
<1>1. ASSUME NEW n \in Nodes, below[n] \subseteq T PROVE n \in T
    <2>1. Hits(f, n) \in [1..Len(node[n].kids) -> V] /\ Len(node[n].kids) \in Nat
        BY <1>1, Kids DEF Good, Hits
    <2>2. firstHit(Hits(f, n), miss) \in V
        BY <2>1, FirstHit
    <2> QED
        BY <2>2 DEF IsWalk
<1> HIDE DEF T
<1>2. Nodes \subseteq T
    BY <1>1, TreeInduction
<1>3. \A n \in Nodes : f[n] \in V
    BY <1>2 DEF T
<1> SUFFICES ASSUME NEW n \in Nodes, local[n] = miss PROVE StepsAt(n, f, local, miss)
    BY <1>3 DEF IsWalk, StepsAt
<1> DEFINE h == Hits(f, n)
           m == Len(node[n].kids)
<1>4. h \in [1..m -> V] /\ m \in Nat
    BY <1>3, Kids DEF Good, Hits
<1>5. f[n] = firstHit(h, miss)
    BY DEF IsWalk
<1>6. \A i \in 1..m : h[i] = f[node[n].kids[i]]
    BY DEF Hits
<1> HIDE DEF h, m
<1>7. IsFirstHit(h, m, miss)
    BY <1>4, FirstHit
<1> QED
    BY <1>5, <1>6, <1>7 DEF m, IsFirstHit, StepsAt

-----------------------------------------------------------------------------
(* What can be reached from an error *)

\* reach follows the members.
LEMMA ReachIs ==
    ASSUME Good
    PROVE  /\ reach \in [Nodes -> SUBSET Nodes]
           /\ \A n \in Nodes : reach[n] = {n} \cup UNION {reach[k] : k \in below[n]}
<1> DEFINE V == SUBSET Nodes
           members(n) == {node[n].kids[i] : i \in DOMAIN node[n].kids}
           body(f, n) == {n} \cup UNION {f[k] : k \in members(n)}
           B == [p \in [Nodes -> V] \X Nodes |-> body(p[1], p[2])]
<1>1. PICK K, rank : Ranked(Nodes, below, K, rank)
    BY DEF Good, Acyclic
<1>2. \A n \in Nodes : members(n) = below[n] /\ members(n) \subseteq Nodes
    BY Kids DEF below, Good
<1> HIDE DEF members
<1>3. ASSUME NEW f \in [Nodes -> V], NEW n \in Nodes PROVE body(f, n) \in V
    BY <1>2
<1>4. ASSUME NEW f \in [Nodes -> V], NEW g \in [Nodes -> V], NEW n \in Nodes,
             \A k \in below[n] : f[k] = g[k]
      PROVE  body(f, n) = body(g, n)
    BY <1>2, <1>4
<1> HIDE DEF body, V
<1>5. B \in [[Nodes -> V] \X Nodes -> V]
    BY <1>3
<1>6. \A f, g \in [Nodes -> V] : \A n \in Nodes :
          (\A k \in below[n] : f[k] = g[k]) => B[<<f, n>>] = B[<<g, n>>]
    BY <1>4
<1>7. \A f \in [Nodes -> V], n \in Nodes : B[<<f, n>>] = body(f, n)
    OBVIOUS
<1> HIDE DEF B
<1>8. LooksBelow(Nodes, below, V, B)
    BY <1>5, <1>6 DEF LooksBelow
<1>9. {} \in V
    BY DEF V
<1>10. \E f \in [Nodes -> V] : \A n \in Nodes : f[n] = B[<<f, n>>]
    BY <1>1, <1>8, <1>9, Recursion
<1>11. PICK f \in [Nodes -> V] : f = [n \in Nodes |-> body(f, n)]
    BY <1>7, <1>10
<1>12. reach = [n \in Nodes |-> body(reach, n)]
    BY <1>11, Zenon DEF reach, body, members
<1>13. \A n \in Nodes : reach[n] = body(reach, n)
    BY <1>12
<1>14. \A n \in Nodes : reach[n] = {n} \cup UNION {reach[k] : k \in below[n]}
    BY <1>2, <1>13 DEF body
<1> DEFINE T == {n \in Nodes : reach[n] \in V}
<1>15. ASSUME NEW n \in Nodes, below[n] \subseteq T PROVE n \in T
    BY <1>14, <1>15 DEF V
<1> HIDE DEF T
<1>16. Nodes \subseteq T
    BY <1>15, TreeInduction
<1>17. \A n \in Nodes : reach[n] \in V
    BY <1>16 DEF T
<1> QED
    BY <1>12, <1>14, <1>17 DEF V

\* Reaching is reflexive and transitive.
LEMMA ReachCloses ==
    ASSUME Good
    PROVE  /\ reach \in [Nodes -> SUBSET Nodes]
           /\ \A n \in Nodes : n \in reach[n]
           /\ \A n \in Nodes : \A k \in below[n] : k \in Nodes /\ reach[k] \subseteq reach[n]
           /\ \A n \in Nodes : \A m \in reach[n] : reach[m] \subseteq reach[n]
<1>1. below \in [Nodes -> SUBSET Nodes]
    BY Kids DEF Good
<1>2. \A n \in Nodes : \A k \in below[n] : k \in Nodes /\ reach[k] \subseteq reach[n]
    BY <1>1, ReachIs
<1> DEFINE T == {n \in Nodes : \A m \in reach[n] : reach[m] \subseteq reach[n]}
<1>3. ASSUME NEW n \in Nodes, below[n] \subseteq T PROVE n \in T
    <2> SUFFICES ASSUME NEW m \in reach[n] PROVE reach[m] \subseteq reach[n]
        OBVIOUS
    <2>1. CASE m = n
        BY <2>1
    <2>2. ASSUME NEW k \in below[n], m \in reach[k] PROVE reach[m] \subseteq reach[n]
        BY <1>2, <1>3, <2>2
    <2> QED
        BY <2>1, <2>2, ReachIs
<1> HIDE DEF T
<1>4. Nodes \subseteq T
    BY <1>3, TreeInduction
<1> QED
    BY <1>2, <1>4, ReachIs DEF T

FindsAt(n, f, local, miss) ==
    /\ f[n] = miss => \A m \in reach[n] : local[m] = miss
    /\ f[n] # miss => \E m \in reach[n] : local[m] = f[n]

\* A walk that misses looked at everything in reach; a hit is something there.
LEMMA WalkFinds ==
    ASSUME Good, NEW V, NEW f, NEW local, NEW miss, Walk(V, f, local, miss)
    PROVE  \A n \in Nodes : FindsAt(n, f, local, miss)
<1> DEFINE Finds(n) == FindsAt(n, f, local, miss)
           T == {n \in Nodes : Finds(n)}
<1>1. ASSUME NEW n \in Nodes, below[n] \subseteq T PROVE Finds(n)
    <2>0. StepsAt(n, f, local, miss)
        BY WalkStep
    <2> USE DEF FindsAt
    <2>1. CASE local[n] # miss
        BY <2>0, <2>1, ReachCloses DEF StepsAt
    <2>2. CASE local[n] = miss /\ f[n] = miss
        <3>1. \A k \in below[n] : f[k] = miss
            BY <2>0, <2>2, Kids DEF Good, below, StepsAt
        <3> QED
            BY <1>1, <2>2, <3>1, ReachIs
    <2>3. CASE local[n] = miss /\ f[n] # miss
        <3>1. PICK i \in 1..Len(node[n].kids) : f[n] = f[node[n].kids[i]]
            BY <2>0, <2>3 DEF StepsAt
        <3>2. node[n].kids[i] \in below[n]
            BY Kids DEF Good
        <3> QED
            BY <1>1, <2>3, <3>1, <3>2, ReachCloses
    <2> QED
        BY <2>1, <2>2, <2>3
<1> HIDE DEF Finds
<1>2. Nodes \subseteq T
    <2> HIDE DEF T
    <2>1. ASSUME NEW n \in Nodes, below[n] \subseteq T PROVE n \in T
        BY <1>1, <2>1 DEF T
    <2> QED
        BY <2>1, TreeInduction
<1> QED
    BY <1>2 DEF Finds

-----------------------------------------------------------------------------
(* errors.As, errors.Is and Error() *)

herrAt == [n \in Nodes |-> IF IsHerr(n) THEN n ELSE None]

\* errors.As is a walk that finds the herr errors.
LEMMA AsIsWalk ==
    ASSUME Good
    PROVE  Walk(Nodes \cup {None}, as, herrAt, None) /\ as = [n \in Nodes |-> as[n]]
<1> DEFINE V == Nodes \cup {None}
           body(f, n) == IF IsHerr(n) THEN n
                         ELSE firstHit([i \in DOMAIN node[n].kids |-> f[node[n].kids[i]]], None)
<1>1. herrAt \in [Nodes -> V] /\ None \in V
    BY DEF herrAt
<1>2. \A f : \A n \in Nodes :
          [i \in DOMAIN node[n].kids |-> f[node[n].kids[i]]] = Hits(f, n)
    BY Kids DEF Good, Hits
<1>3. \A n \in Nodes : n # None /\ (herrAt[n] # None <=> IsHerr(n)) /\ (IsHerr(n) => herrAt[n] = n)
    BY NoneAssumption, Kids DEF Good, herrAt
<1>4. \A f : IsWalk(f, herrAt, None) <=> \A n \in Nodes : f[n] = body(f, n)
    BY <1>2, <1>3 DEF IsWalk
<1>5. PICK f \in [Nodes -> V] : IsWalk(f, herrAt, None)
    <2> HIDE DEF V
    <2> QED
        BY <1>1, WalkExists
<1>6. f = [n \in Nodes |-> body(f, n)]
    <2> HIDE DEF body
    <2> QED
        BY <1>4, <1>5
<1>7. as = [n \in Nodes |-> body(as, n)]
    BY <1>6, Zenon DEF as
<1> HIDE DEF body
<1>8. as = [n \in Nodes |-> as[n]] /\ \A n \in Nodes : as[n] = body(as, n)
    BY <1>7
<1> QED
    BY <1>1, <1>4, <1>8 DEF Walk

\* errors.As returns a herr error in reach, a typed nil perhaps, unless there is none.
LEMMA AsFinds ==
    ASSUME Good
    PROVE  /\ as \in [Nodes -> Nodes \cup {None}]
           /\ \A n \in Nodes :
                /\ as[n] = None <=> \A m \in reach[n] : ~IsHerr(m)
                /\ as[n] # None => as[n] \in reach[n] /\ as[n] \in Nodes /\ IsHerr(as[n])
                /\ IsHerr(n) => as[n] = n
<1> DEFINE V == Nodes \cup {None}
<1>1. Walk(V, as, herrAt, None) /\ as = [n \in Nodes |-> as[n]]
    BY AsIsWalk
<1>2. \A n \in Nodes : as[n] \in V /\ StepsAt(n, as, herrAt, None)
    BY <1>1, WalkStep
<1>3. \A n \in Nodes : as[n] \in V /\ (herrAt[n] # None => as[n] = herrAt[n])
    BY <1>2 DEF StepsAt
<1>4. \A n \in Nodes : FindsAt(n, as, herrAt, None)
    BY <1>1, WalkFinds
<1>5. \A n \in Nodes : n # None /\ (herrAt[n] # None <=> IsHerr(n)) /\ (IsHerr(n) => herrAt[n] = n)
    BY NoneAssumption, Kids DEF Good, herrAt
<1>6. as \in [Nodes -> V]
    BY <1>1, <1>3
<1> SUFFICES ASSUME NEW n \in Nodes
             PROVE  /\ as[n] = None <=> \A m \in reach[n] : ~IsHerr(m)
                    /\ as[n] # None => as[n] \in reach[n] /\ as[n] \in Nodes /\ IsHerr(as[n])
                    /\ IsHerr(n) => as[n] = n
    BY <1>6
<1>7. reach[n] \subseteq Nodes
    BY ReachCloses
<1>8. CASE as[n] = None
    BY <1>3, <1>4, <1>5, <1>7, <1>8 DEF FindsAt
<1>9. CASE as[n] # None
    <2>1. PICK m \in reach[n] : herrAt[m] = as[n]
        BY <1>4, <1>9 DEF FindsAt
    <2>2. m \in Nodes /\ IsHerr(m) /\ as[n] = m
        BY <1>5, <1>7, <1>9, <2>1
    <2> QED
        BY <1>3, <1>5, <1>9, <2>1, <2>2
<1> QED
    BY <1>8, <1>9

Answers == {"yes", "no", "panic"}
hereAt(t) == [n \in Nodes |-> isHere(n, t)]

\* errors.Is is a walk that finds matches, or panics.
LEMMA IsIsWalk ==
    ASSUME Good, NEW t \in Nodes
    PROVE  Walk(Answers, is(t), hereAt(t), "no")
<1> DEFINE body(f, n) == IF isHere(n, t) # "no" THEN isHere(n, t)
                         ELSE firstHit([i \in DOMAIN node[n].kids |-> f[node[n].kids[i]]], "no")
<1>1. \A n \in Nodes : isHere(n, t) \in Answers
    BY DEF isHere, methodIs, Answers
<1>2. hereAt(t) \in [Nodes -> Answers] /\ "no" \in Answers
    BY <1>1 DEF hereAt, Answers
<1>3. \A f : \A n \in Nodes :
          [i \in DOMAIN node[n].kids |-> f[node[n].kids[i]]] = Hits(f, n)
    BY Kids DEF Good, Hits
<1>4. \A f : IsWalk(f, hereAt(t), "no") <=> \A n \in Nodes : f[n] = body(f, n)
    <2>1. \A n \in Nodes : hereAt(t)[n] = isHere(n, t)
        BY DEF hereAt
    <2> QED
        BY <1>3, <2>1 DEF IsWalk
<1>5. PICK f \in [Nodes -> Answers] : IsWalk(f, hereAt(t), "no")
    BY <1>2, WalkExists
<1>6. f = [n \in Nodes |-> body(f, n)]
    <2> HIDE DEF body
    <2> QED
        BY <1>4, <1>5
<1>7. is(t) = [n \in Nodes |-> body(is(t), n)]
    BY <1>6, Zenon DEF is
<1> HIDE DEF body
<1>8. \A n \in Nodes : is(t)[n] = body(is(t), n)
    BY <1>7
<1> QED
    BY <1>2, <1>4, <1>8 DEF Walk

\* Error() panics only where there is a typed nil, at n or in a member of n in
\* which Error() panics.
LEMMA ErrorPanicsIs ==
    ASSUME Good, NEW n \in Nodes, errorPanics[n]
    PROVE  node[n].type = "nil" \/ \E k \in below[n] : errorPanics[k]
<1> DEFINE V == BOOLEAN
           body(f, x) == \/ node[x].type = "nil"
                         \/ /\ node[x].type \in {"herr", "joined"}
                            /\ \E i \in DOMAIN node[x].kids : f[node[x].kids[i]]
           B == [p \in [Nodes -> V] \X Nodes |-> body(p[1], p[2])]
<1>1. PICK K, rank : Ranked(Nodes, below, K, rank)
    BY DEF Good, Acyclic
<1>2. B \in [[Nodes -> V] \X Nodes -> V]
    OBVIOUS
<1>3. ASSUME NEW f \in [Nodes -> V], NEW g \in [Nodes -> V], NEW x \in Nodes,
             \A k \in below[x] : f[k] = g[k]
      PROVE  body(f, x) = body(g, x)
    BY <1>3, Kids, Zenon DEF Good
<1>0. PICK v : v \in V
    OBVIOUS
<1> HIDE DEF body, V
<1>4. \A f \in [Nodes -> V], x \in Nodes : B[<<f, x>>] = body(f, x)
    OBVIOUS
<1>5. \A f, g \in [Nodes -> V] : \A x \in Nodes :
          (\A k \in below[x] : f[k] = g[k]) => B[<<f, x>>] = B[<<g, x>>]
    BY <1>3
<1> HIDE DEF B
<1>6. LooksBelow(Nodes, below, V, B)
    BY <1>2, <1>5 DEF LooksBelow
<1>7. \E f \in [Nodes -> V] : \A x \in Nodes : f[x] = B[<<f, x>>]
    BY <1>0, <1>1, <1>6, Recursion
<1>8. PICK f \in [Nodes -> V] : f = [x \in Nodes |-> body(f, x)]
    BY <1>4, <1>7
<1>9. errorPanics = [x \in Nodes |-> body(errorPanics, x)]
    BY <1>8, Zenon DEF errorPanics, body
<1>10. errorPanics[n] = body(errorPanics, n)
    BY <1>9
<1> QED
    BY <1>10, Kids DEF Good, below, body

-----------------------------------------------------------------------------
(* The steps keep trees trees *)

Record == [type : Types, code : Codes \cup {internalCode, None},
           kids : Seq(Nat), origin : Nat \cup {None}]

\* A new error holds only errors that are there.
Fits(r) ==
    /\ r \in Record /\ r.kids \in Seq(Nodes)
    /\ r.type \in {"plain", "nil", "status"} => r.kids = <<>>
    /\ r.type \in {"wrapped", "joined"} => r.kids # <<>>
    /\ r.type = "status" => r.origin \in Nodes

\* It gets the highest rank.
LEMMA GrowKeepsGood ==
    ASSUME Good, NEW r, Fits(r), node' = Append(node, r)
    PROVE  Good'
<1> USE DEF Fits
<1>1. /\ node \in Seq(Record) /\ Len(node) \in Nat
      /\ node' \in Seq(Record) /\ Len(node') = Len(node) + 1
      /\ \A n \in Nodes : node'[n] = node[n]
      /\ node'[Len(node) + 1] = r
    <2>1. node \in Seq(Record)
        BY DEF Good, TypeOK, Record
    <2> QED
        BY <2>1, AppendProperties, LenProperties DEF Nodes
<1>2. Nodes' = Nodes \cup {Len(node) + 1} /\ Len(node) + 1 \notin Nodes
    BY <1>1 DEF Nodes
<1>3. TypeOK'
    <2>1. ASSUME NEW n \in Nodes'
          PROVE  /\ node'[n].kids \in Seq(Nodes')
                 /\ node'[n].type \in {"plain", "nil", "status"} => node'[n].kids = <<>>
                 /\ node'[n].type \in {"wrapped", "joined"} => node'[n].kids # <<>>
                 /\ node'[n].type = "status" => node'[n].origin \in Nodes'
        <3>1. Seq(Nodes) \subseteq Seq(Nodes')
            BY <1>2
        <3>2. CASE n \in Nodes
            BY <1>1, <1>2, <3>1, <3>2 DEF Good, TypeOK
        <3>3. CASE n = Len(node) + 1
            BY <1>1, <1>2, <3>1, <3>3
        <3> QED
            BY <1>2, <3>2, <3>3
    <2> QED
        BY <1>1, <2>1 DEF TypeOK, Record
<1>4. PICK K, rank : Ranked(Nodes, below, K, rank)
    BY DEF Good, Acyclic
<1> DEFINE rank1 == [n \in Nodes' |-> IF n \in Nodes THEN rank[n] ELSE K]
<1>5. below' \in [Nodes' -> SUBSET Nodes']
    <2>1. ASSUME NEW n \in Nodes', NEW i \in DOMAIN node'[n].kids
          PROVE  node'[n].kids[i] \in Nodes'
        <3>1. node'[n].kids \in Seq(Nodes')
            BY <1>3 DEF TypeOK
        <3> QED
            BY <3>1, ElementOfSeq, LenProperties
    <2> DEFINE members(n) == {node'[n].kids[i] : i \in DOMAIN node'[n].kids}
    <2>2. below' = [n \in Nodes' |-> members(n)]
        BY DEF below
    <2>3. \A n \in Nodes' : members(n) \subseteq Nodes'
        BY <2>1
    <2> HIDE DEF members
    <2> QED
        BY <2>2, <2>3
<1>6. ASSUME NEW n \in Nodes', NEW k \in below'[n]
      PROVE  k \in Nodes /\ (n \in Nodes => k \in below[n])
    <2>1. PICK i \in DOMAIN node'[n].kids : k = node'[n].kids[i]
        BY DEF below
    <2>2. CASE n \in Nodes
        BY <1>1, <2>1, <2>2, Kids DEF Good, below
    <2>3. CASE n = Len(node) + 1
        BY <1>1, <1>2, <2>1, <2>3
    <2> QED
        BY <1>2, <2>2, <2>3
<1>7. Ranked(Nodes', below', K + 1, rank1)
    BY <1>2, <1>4, <1>5, <1>6 DEF Ranked
<1> QED
    BY <1>3, <1>7 DEF Good, Acyclic

\* New causes for herr error e: the ranks of all that reach e go up, by more
\* than any rank, so that e comes to be above its new cause.
LEMMA CauseKeepsGood ==
    ASSUME Good, NEW e \in Nodes, node[e].type = "herr", NEW cause \in Seq(Nodes),
           \A i \in DOMAIN cause : e \notin reach[cause[i]],
           node' = [node EXCEPT ![e].kids = cause]
    PROVE  Good'
<1>1. node \in Seq(Record) /\ Len(node) \in Nat /\ cause \in Seq(Nat)
    BY DEF Good, TypeOK, Record, Nodes
<1>2. /\ node' \in Seq(Record) /\ Len(node') = Len(node)
      /\ \A n \in Nodes : n # e => node'[n] = node[n]
      /\ node'[e] = [node[e] EXCEPT !.kids = cause]
    <2>1. node[e] \in Record
        BY <1>1 DEF Nodes
    <2>2. [node[e] EXCEPT !.kids = cause] \in Record
        BY <1>1, <2>1 DEF Record
    <2> QED
        BY <1>1, <2>2 DEF Nodes
<1>3. Nodes' = Nodes
    BY <1>2 DEF Nodes
<1>4. TypeOK'
    <2>1. ASSUME NEW n \in Nodes
          PROVE  /\ node'[n].kids \in Seq(Nodes)
                 /\ node'[n].type \in {"plain", "nil", "status"} => node'[n].kids = <<>>
                 /\ node'[n].type \in {"wrapped", "joined"} => node'[n].kids # <<>>
                 /\ node'[n].type = "status" => node'[n].origin \in Nodes
        <3>1. CASE n = e
            BY <1>1, <1>2, <3>1 DEF Nodes, Record
        <3>2. CASE n # e
            BY <1>2, <3>2 DEF Good, TypeOK
        <3> QED
            BY <3>1, <3>2
    <2> QED
        BY <1>2, <1>3, <2>1 DEF TypeOK, Record
<1>5. PICK K, rank : Ranked(Nodes, below, K, rank)
    BY DEF Good, Acyclic
<1> DEFINE rank1 == [n \in Nodes |-> IF e \in reach[n] THEN rank[n] + K ELSE rank[n]]
<1>6. below' \in [Nodes -> SUBSET Nodes]
    <2>1. ASSUME NEW n \in Nodes, NEW i \in DOMAIN node'[n].kids
          PROVE  node'[n].kids[i] \in Nodes
        <3>1. node'[n].kids \in Seq(Nodes)
            BY <1>3, <1>4 DEF TypeOK
        <3> QED
            BY <3>1
    <2> QED
        BY <1>3, <2>1 DEF below
<1>7. ASSUME NEW n \in Nodes, NEW k \in below'[n]
      PROVE  rank1[k] < rank1[n]
    <2>1. PICK i \in DOMAIN node'[n].kids : k = node'[n].kids[i]
        BY <1>3 DEF below
    <2>2. k \in Nodes /\ rank[k] \in Nat /\ rank[n] \in Nat /\ rank[k] < K /\ K \in Nat
        BY <1>5, <1>6 DEF Ranked
    <2>3. CASE n = e
        <3>1. e \notin reach[k] /\ e \in reach[n]
            BY <1>1, <1>2, <2>1, <2>3, ReachCloses DEF Nodes, Record
        <3> QED
            BY <2>2, <3>1
    <2>4. CASE n # e
        <3>1. k \in below[n]
            BY <1>2, <2>1, <2>4 DEF below
        <3>2. rank[k] < rank[n] /\ (e \in reach[k] => e \in reach[n])
            BY <1>5, <3>1, ReachCloses DEF Ranked
        <3> QED
            BY <2>2, <3>2
    <2> QED
        BY <2>3, <2>4
<1>8. Ranked(Nodes', below', K + K, rank1)
    <2>1. rank1 \in [Nodes -> Nat] /\ \A n \in Nodes : rank1[n] < K + K
        BY <1>5 DEF Ranked
    <2> HIDE DEF rank1
    <2> QED
        BY <1>3, <1>5, <1>6, <1>7, <2>1 DEF Ranked
<1> QED
    BY <1>4, <1>8 DEF Good, Acyclic

\* What no step changes of an error, and what a status error starts with.
StepKeeps ==
    /\ Nodes \subseteq Nodes'
    /\ \A n \in Nodes : /\ node'[n].type = node[n].type /\ node'[n].code = node[n].code
                        /\ node'[n].origin = node[n].origin
                        /\ node[n].type # "herr" => node'[n].kids = node[n].kids
    /\ \A n \in Nodes' \ Nodes :
           node'[n].type = "status" => /\ node'[n].origin \in Nodes
                                       /\ node'[n].code = Status(node'[n].origin)

\* The code of a status is one that an error can have.
LEMMA StatusIsACode ==
    ASSUME Good, NEW n \in Nodes
    PROVE  Status(n) \in Codes \cup {internalCode, None}
<1>1. CASE as[n] = None \/ node[as[n]].type = "nil"
    BY <1>1 DEF Status, wire
<1>2. CASE ~(as[n] = None \/ node[as[n]].type = "nil")
    <2>1. as[n] \in Nodes
        BY <1>2, AsFinds
    <2>2. \A m \in Nodes : node[m] \in Record
        <3>1. node \in Seq(Record)
            BY DEF Good, TypeOK, Record
        <3> QED
            BY <3>1, ElementOfSeq DEF Nodes
    <2>3. \A r \in Record : r.code \in Codes \cup {internalCode, None}
        BY DEF Record
    <2> QED
        BY <1>2, <2>1, <2>2, <2>3 DEF Status, wire
<1> QED
    BY <1>1, <1>2

\* Every step.
LEMMA StepKeepsTrees == Good /\ [Next]_vars => Good' /\ StepKeeps
<1> SUFFICES ASSUME Good, [Next]_vars PROVE Good' /\ StepKeeps
    OBVIOUS
<1>1. node \in Seq(Record) /\ Len(node) \in Nat
    BY DEF Good, TypeOK, Record
<1>2. ASSUME NEW r, Fits(r), node' = Append(node, r),
             r.type = "status" => r.code = Status(r.origin)
      PROVE  Good' /\ StepKeeps
    <2>1. r \in Record /\ (r.type = "status" => r.origin \in Nodes)
        BY <1>2 DEF Fits
    <2>2. /\ Len(node') = Len(node) + 1 /\ node'[Len(node) + 1] = r
          /\ \A n \in Nodes : node'[n] = node[n]
        BY <1>1, <1>2, <2>1, AppendProperties DEF Nodes
    <2>3. Nodes' = Nodes \cup {Len(node) + 1}
        BY <1>1, <2>2 DEF Nodes
    <2>4. StepKeeps
        BY <1>2, <2>1, <2>2, <2>3 DEF StepKeeps
    <2> QED
        BY <1>2, <2>4, GrowKeepsGood
<1>3. ASSUME NEW e \in Nodes, NEW cause \in Seq(Nodes), node[e].type = "herr",
             \A i \in DOMAIN cause : e \notin reach[cause[i]],
             node' = [node EXCEPT ![e].kids = cause]
      PROVE  Good' /\ StepKeeps
    <2>1. Good'
        BY <1>3, CauseKeepsGood
    <2>2. Nodes' = Nodes
        BY <1>1, <1>3 DEF Nodes
    <2>3. StepKeeps
        BY <1>1, <1>3, <2>2 DEF StepKeeps, Nodes, Record
    <2> QED
        BY <2>1, <2>3
<1> DEFINE new(type, code, kids) == [type |-> type, code |-> code, kids |-> kids, origin |-> None]
<1>4. CASE NewPlain
    <2>1. Fits(new("plain", None, <<>>)) /\ node' = Append(node, new("plain", None, <<>>))
        BY <1>4 DEF NewPlain, Grow, Fits, Record, Types
    <2> QED
        BY <1>2, <2>1
<1>5. CASE TypedNil
    <2>1. Fits(new("nil", None, <<>>)) /\ node' = Append(node, new("nil", None, <<>>))
        BY <1>5 DEF TypedNil, Grow, Fits, Record, Types
    <2> QED
        BY <1>2, <2>1
<1>6. ASSUME NEW c \in Codes, New(c) PROVE Good' /\ StepKeeps
    <2>1. Fits(new("herr", c, <<>>)) /\ node' = Append(node, new("herr", c, <<>>))
        BY <1>6 DEF New, Grow, Fits, Record, Types
    <2> QED
        BY <1>2, <2>1
<1>7. ASSUME NEW k \in Nodes, Wrapf(k) PROVE Good' /\ StepKeeps
    <2>1. Fits(new("wrapped", None, <<k>>)) /\ node' = Append(node, new("wrapped", None, <<k>>))
        BY <1>7 DEF Wrapf, Grow, Fits, Record, Types, Nodes
    <2> QED
        BY <1>2, <2>1
<1>8. ASSUME NEW k \in Nodes, NEW l \in Nodes, Join(k, l) PROVE Good' /\ StepKeeps
    <2>1. Fits(new("joined", None, <<k, l>>)) /\ node' = Append(node, new("joined", None, <<k, l>>))
        BY <1>8 DEF Join, Grow, Fits, Record, Types, Nodes
    <2> QED
        BY <1>2, <2>1
<1>9. ASSUME NEW e \in Nodes, NEW c \in Nodes, Wrap(e, c) PROVE Good' /\ StepKeeps
    <2> DEFINE cause == <<c>>
    <2>1. /\ cause \in Seq(Nodes) /\ \A i \in DOMAIN cause : e \notin reach[cause[i]]
          /\ node' = [node EXCEPT ![e].kids = cause] /\ node[e].type = "herr"
        BY <1>9 DEF Wrap
    <2> HIDE DEF cause
    <2> QED
        BY <1>3, <2>1
<1>10. ASSUME NEW e \in Nodes, WrapNil(e) PROVE Good' /\ StepKeeps
    <2> DEFINE cause == <<>>
    <2>1. /\ cause \in Seq(Nodes) /\ \A i \in DOMAIN cause : e \notin reach[cause[i]]
          /\ node' = [node EXCEPT ![e].kids = cause] /\ node[e].type = "herr"
        BY <1>10 DEF WrapNil
    <2> HIDE DEF cause
    <2> QED
        BY <1>3, <2>1
<1>11. ASSUME NEW n \in Nodes, Intercept(n) PROVE Good' /\ StepKeeps
    <2> DEFINE r == [type |-> "status", code |-> Status(n), kids |-> <<>>, origin |-> n]
    <2>1. Fits(r) /\ node' = Append(node, r) /\ r.code = Status(r.origin)
        BY <1>11, StatusIsACode DEF Record, Types, Intercept, Nodes, Fits
    <2> HIDE DEF r
    <2> QED
        BY <1>2, <2>1
<1>12. CASE UNCHANGED vars
    <2>1. node' = node
        BY <1>12 DEF vars
    <2>2. Nodes' = Nodes /\ below' = below
        BY <2>1 DEF Nodes, below
    <2> QED
        BY <2>1, <2>2 DEF Good, TypeOK, Acyclic, StepKeeps
<1> QED
    BY <1>4, <1>5, <1>6, <1>7, <1>8, <1>9, <1>10, <1>11, <1>12 DEF Next

-----------------------------------------------------------------------------
(* What errors.As returns stays *)

AsWalks == IsWalk(as, herrAt, None)

\* In every state.
LEMMA AsWalksAlways == Good => AsWalks
BY AsIsWalk DEF AsWalks, Walk

\* Wrap and WrapNil change what herr errors hold, and errors.As stops at the
\* first herr error: what it returns for an error never changes.
LEMMA AsStays ==
    ASSUME Good, Good', StepKeeps
    PROVE  \A n \in Nodes : as'[n] = as[n]
<1>1. AsWalks /\ AsWalks'
    BY AsWalksAlways, PTL
<1> DEFINE T == {n \in Nodes : as'[n] = as[n]}
<1>2. ASSUME NEW n \in Nodes, below[n] \subseteq T PROVE as'[n] = as[n]
    <2>1. n \in Nodes' /\ node'[n].type = node[n].type
        BY Z3 DEF StepKeeps
    <2>2. n # None
        BY NoneAssumption, Kids DEF Good
    <2>3. herrAt[n] = (IF IsHerr(n) THEN n ELSE None) /\ herrAt'[n] = herrAt[n]
        BY <2>1 DEF herrAt, IsHerr
    <2>4. as[n] = IF herrAt[n] # None THEN herrAt[n] ELSE firstHit(Hits(as, n), None)
        BY <1>1 DEF AsWalks, IsWalk
    <2>5. as'[n] = IF herrAt'[n] # None THEN herrAt'[n] ELSE firstHit(Hits(as, n)', None)
        BY <1>1, <2>1 DEF AsWalks, IsWalk
    <2>6. CASE IsHerr(n)
        BY <2>2, <2>3, <2>4, <2>5, <2>6
    <2>7. CASE ~IsHerr(n)
        <3>1. node'[n].kids = node[n].kids
            BY <2>7 DEF StepKeeps, IsHerr
        <3>2. \A i \in 1..Len(node[n].kids) : node[n].kids[i] \in T
            BY <1>2, Kids DEF Good
        <3>3. Hits(as, n)' = Hits(as, n)
            BY <3>1, <3>2 DEF Hits
        <3> QED
            BY <2>3, <2>4, <2>5, <2>7, <3>3
    <2> QED
        BY <2>6, <2>7
<1>3. \A n \in Nodes : below[n] \subseteq T => n \in T
    BY <1>2
<1> HIDE DEF T
<1>4. Nodes \subseteq T
    BY <1>3, TreeInduction
<1> QED
    BY <1>4 DEF T

-----------------------------------------------------------------------------
(* The inductive invariant *)

\* A status error is the status of the error that was intercepted, also after
\* any later Wrap inside that one.
StatusesStay ==
    \A n, o \in Nodes :
        node[n].type = "status" /\ node[n].origin = o => node[n].code = Status(o)

IInv == Good /\ StatusesStay

\* The trees stay trees and the statuses stay what they are.
THEOREM TreesStayTrees == Spec => []IInv
<1>1. Init => IInv
    <2> SUFFICES ASSUME Init PROVE IInv
        OBVIOUS
    <2>1. node = <<>> /\ Nodes = {}
        BY DEF Init, Nodes
    <2>2. Ranked(Nodes, below, 0, [n \in Nodes |-> 0])
        BY <2>1 DEF Ranked, below
    <2> QED
        BY <2>1, <2>2 DEF IInv, Good, TypeOK, Acyclic, StatusesStay
<1>2. IInv /\ [Next]_vars => IInv'
    <2> SUFFICES ASSUME IInv, [Next]_vars PROVE IInv'
        OBVIOUS
    <2>1. Good /\ Good' /\ StepKeeps
        BY StepKeepsTrees DEF IInv
    <2>2. \A n \in Nodes : as'[n] = as[n] /\ as[n] \in Nodes \cup {None}
        BY <2>1, AsStays, AsFinds
    <2>3. ASSUME NEW n \in Nodes PROVE Status(n)' = Status(n)
        <3>1. CASE as[n] = None
            BY <2>2, <3>1 DEF Status, wire
        <3>2. CASE as[n] # None
            <4>1. as[n] \in Nodes
                BY <2>2, <3>2
            <4>2. \A m \in Nodes : node'[m].type = node[m].type /\ node'[m].code = node[m].code
                BY <2>1 DEF StepKeeps
            <4> QED
                BY <2>2, <4>1, <4>2 DEF Status, wire
        <3> QED
            BY <3>1, <3>2
    <2>4. ASSUME NEW n \in Nodes', NEW o \in Nodes', node'[n].type = "status",
                 node'[n].origin = o
          PROVE  node'[n].code = Status(o)'
        <3>1. CASE n \in Nodes
            <4>1. node[n].type = "status" /\ node'[n].code = node[n].code /\ node[n].origin = o
                BY <2>1, <2>4, <3>1 DEF StepKeeps
            <4>2. o \in Nodes
                BY <2>1, <3>1, <4>1 DEF Good, TypeOK
            <4> QED
                BY <2>3, <3>1, <4>1, <4>2 DEF IInv, StatusesStay
        <3>2. CASE n \notin Nodes
            <4>1. o \in Nodes /\ node'[n].code = Status(o)
                BY <2>1, <2>4, <3>2 DEF StepKeeps
            <4> QED
                BY <2>3, <4>1
        <3> QED
            BY <3>1, <3>2
    <2>5. StatusesStay'
        BY <2>4 DEF StatusesStay
    <2> QED
        BY <2>1, <2>5 DEF IInv
<1> QED
    BY <1>1, <1>2, PTL DEF Spec

-----------------------------------------------------------------------------
(* The safety properties: each holds in every state that satisfies IInv. *)

\* Where Error() panics there is a typed nil in reach.
LEMMA ErrorPanicsOnNil ==
    ASSUME Good
    PROVE  \A n \in Nodes : errorPanics[n] => HasNil(n)
<1> DEFINE T == {n \in Nodes : errorPanics[n] => HasNil(n)}
<1>1. ASSUME NEW n \in Nodes, below[n] \subseteq T, errorPanics[n] PROVE HasNil(n)
    <2>1. CASE node[n].type = "nil"
        BY <2>1, ReachCloses DEF HasNil
    <2>2. ASSUME NEW k \in below[n], errorPanics[k] PROVE HasNil(n)
        <3>1. HasNil(k)
            BY <1>1, <2>2
        <3> QED
            BY <3>1, ReachCloses DEF HasNil
    <2> QED
        BY <1>1, <2>1, <2>2, ErrorPanicsIs
<1>2. \A n \in Nodes : below[n] \subseteq T => n \in T
    BY <1>1
<1> HIDE DEF T
<1>3. Nodes \subseteq T
    BY <1>2, TreeInduction
<1> QED
    BY <1>3 DEF T

\* A typed nil in reach of what n reaches is in reach of n.
LEMMA HasNilGoesUp ==
    ASSUME Good, NEW n \in Nodes, NEW m \in reach[n], HasNil(m)
    PROVE  HasNil(n)
BY ReachCloses DEF HasNil

\* Members are in reach.
LEMMA KidsInReach ==
    ASSUME Good, NEW n \in Nodes, NEW i \in DOMAIN node[n].kids
    PROVE  node[n].kids[i] \in Nodes /\ node[n].kids[i] \in reach[n]
<1>1. node[n].kids[i] \in Nodes /\ node[n].kids[i] \in below[n]
    BY Kids DEF Good
<1> QED
    BY <1>1, ReachCloses

\* A log record panics, or prints a panic, only on a typed nil in reach.
LEMMA LogPanicsOnNil ==
    ASSUME Good, NEW n \in Nodes, LogFieldsPanics(n)
    PROVE  HasNil(n)
<1>1. CASE LogRecord(n).panics
    <2>1. as[n] # None /\ node[as[n]].type = "nil"
        BY <1>1 DEF LogRecord
    <2> QED
        BY <2>1, AsFinds DEF HasNil
<1>2. CASE LogRecord(n).cause # None /\ errorPanics[LogRecord(n).cause]
    <2> DEFINE e == as[n]
    <2>1. CASE e = None
        <3>1. LogRecord(n).cause = n
            BY <2>1 DEF LogRecord
        <3> QED
            BY <1>2, <3>1, ErrorPanicsOnNil
    <2>2. CASE e # None
        <3>1. e \in Nodes /\ e \in reach[n]
            BY <2>2, AsFinds
        <3>2. node[e].kids # <<>> /\ LogRecord(n).cause = node[e].kids[1]
            BY <1>2, <2>2 DEF LogRecord
        <3> HIDE DEF e
        <3>3. 1 \in DOMAIN node[e].kids
            BY <3>1, <3>2, Kids DEF Good, TypeOK
        <3>4. node[e].kids[1] \in Nodes /\ node[e].kids[1] \in reach[e]
            BY <3>1, <3>3, KidsInReach
        <3>5. HasNil(node[e].kids[1])
            BY <1>2, <3>2, <3>4, ErrorPanicsOnNil
        <3>6. HasNil(e)
            BY <3>1, <3>4, <3>5, HasNilGoesUp
        <3> QED
            BY <3>1, <3>6, HasNilGoesUp
    <2> QED
        BY <2>1, <2>2
<1> QED
    BY <1>1, <1>2 DEF LogFieldsPanics

\* A rendering panics only on a typed nil among the promoted members.
LEMMA WirePanicsOnNil ==
    ASSUME Good, NEW n \in Nodes, wire(n).panics
    PROVE  HasNil(n)
<1> DEFINE e == as[n]
<1>1. e # None /\ \E i \in DOMAIN aggregateChildren(e) :
                       LET m == as[aggregateChildren(e)[i]]
                       IN  m # None /\ node[m].type = "nil"
    BY DEF wire
<1>2. e \in Nodes /\ e \in reach[n]
    BY <1>1, AsFinds
<1> HIDE DEF e
<1> DEFINE j == node[e].kids[1]
<1>3. PICK i \in DOMAIN aggregateChildren(e) :
          LET m == as[aggregateChildren(e)[i]] IN m # None /\ node[m].type = "nil"
    BY <1>1
<1>4. node[e].kids # <<>> /\ node[j].type = "joined" /\ aggregateChildren(e) = node[j].kids
    <2>1. CASE node[e].kids # <<>> /\ node[j].type = "joined"
        BY <2>1 DEF aggregateChildren
    <2>2. CASE ~(node[e].kids # <<>> /\ node[j].type = "joined")
        <3>1. aggregateChildren(e) = <<>>
            BY <2>2 DEF aggregateChildren
        <3>2. i \in DOMAIN <<>>
            BY <1>3, <3>1
        <3> QED
            BY <3>2
    <2> QED
        BY <2>1, <2>2
<1>5. 1 \in DOMAIN node[e].kids
    BY <1>2, <1>4, Kids DEF Good, TypeOK
<1>6. j \in Nodes /\ j \in reach[e]
    BY <1>2, <1>5, KidsInReach
<1> HIDE DEF j
<1> DEFINE c == node[j].kids[i]
<1>7. c \in Nodes /\ c \in reach[j] /\ as[c] # None /\ node[as[c]].type = "nil"
    BY <1>3, <1>4, <1>6, KidsInReach
<1> HIDE DEF c
<1>8. HasNil(c)
    BY <1>7, AsFinds DEF HasNil
<1>9. HasNil(j)
    BY <1>6, <1>7, <1>8, HasNilGoesUp
<1>10. HasNil(e)
    BY <1>2, <1>6, <1>9, HasNilGoesUp
<1> QED
    BY <1>2, <1>10, HasNilGoesUp

\* Nothing that is asked of an error panics without a typed nil in its tree, or
\* in the target: for trees of any size, whatever was wrapped into what.
THEOREM PanicsAreTypedNils == Spec => []PanicsOnlyOnTypedNil
<1>1. Good => PanicsOnlyOnTypedNil
    <2> SUFFICES ASSUME Good, NEW n \in Nodes
                 PROVE  /\ LogFieldsPanics(n) \/ wire(n).panics
                              \/ (\E c \in Codes : classIs(c, n) = "panic") => HasNil(n)
                        /\ \A t \in Nodes : is(t)[n] = "panic" => HasNil(n) \/ HasNil(t)
        BY DEF PanicsOnlyOnTypedNil
    <2>1. ASSUME NEW c \in Codes, classIs(c, n) = "panic" PROVE HasNil(n)
        <3>1. as[n] # None /\ node[as[n]].type = "nil"
            BY <2>1 DEF classIs
        <3> QED
            BY <3>1, AsFinds DEF HasNil
    <2>2. ASSUME NEW t \in Nodes, is(t)[n] = "panic" PROVE HasNil(n) \/ HasNil(t)
        <3>1. FindsAt(n, is(t), hereAt(t), "no")
            BY IsIsWalk, WalkFinds
        <3>2. PICK m \in reach[n] : hereAt(t)[m] = "panic"
            BY <2>2, <3>1 DEF FindsAt
        <3>3. m \in Nodes /\ isHere(m, t) = "panic"
            BY <3>2, ReachCloses DEF hereAt
        <3>4. CASE node[m].type = "nil"
            BY <3>2, <3>4 DEF HasNil
        <3>5. CASE node[m].type # "nil"
            <4>1. methodIs(m, t) = "panic"
                BY <3>3, <3>5 DEF isHere
            <4>2. as[t] # None /\ node[as[t]].type = "nil"
                BY <4>1 DEF methodIs
            <4> QED
                BY <4>2, AsFinds DEF HasNil
        <3> QED
            BY <3>4, <3>5
    <2> QED
        BY <2>1, <2>2, LogPanicsOnNil, WirePanicsOnNil
<1> QED
    BY <1>1, TreesStayTrees, PTL DEF IInv

\* errors.Is with a herr error as its target says yes where the first herr
\* error has the code of the target, and no where there is none.
LEMMA IsFollowsAs ==
    ASSUME Good, NEW t \in Nodes, node[t].type = "herr"
    PROVE  \A n \in Nodes :
              /\ as[n] = None => is(t)[n] = "no"
              /\ as[n] # None /\ node[as[n]].type = "herr" /\ node[as[n]].code = node[t].code
                   => is(t)[n] = "yes"
<1> DEFINE Matches(n) == as[n] # None /\ node[as[n]].type = "herr"
                           /\ node[as[n]].code = node[t].code
           Follows(n) == (as[n] = None => is(t)[n] = "no") /\ (Matches(n) => is(t)[n] = "yes")
           T == {n \in Nodes : Follows(n)}
<1>1. Walk(Answers, is(t), hereAt(t), "no")
    BY IsIsWalk
<1>2. Walk(Nodes \cup {None}, as, herrAt, None)
    BY AsIsWalk
<1>3. ASSUME NEW n \in Nodes, below[n] \subseteq T PROVE Follows(n)
    <2>1. StepsAt(n, is(t), hereAt(t), "no")
        BY <1>1, WalkStep
    <2>2. StepsAt(n, as, herrAt, None)
        BY <1>2, WalkStep
    <2>3. hereAt(t)[n] = isHere(n, t) /\ herrAt[n] = (IF IsHerr(n) THEN n ELSE None)
        BY DEF hereAt, herrAt
    <2>4. n # None /\ as[t] = t /\ t # None
        BY NoneAssumption, Kids, AsFinds DEF Good, IsHerr
    <2>5. \A i \in 1..Len(node[n].kids) : Follows(node[n].kids[i])
        BY <1>3, Kids DEF Good
    <2>6. Len(node[n].kids) \in Nat
        BY Kids DEF Good
    <2>7. CASE IsHerr(n)
        <3>1. as[n] = n
            BY <2>7, AsFinds
        <3>2. Matches(n) => isHere(n, t) = "yes"
            BY <2>4, <3>1 DEF isHere, methodIs
        <3> QED
            BY <2>1, <2>3, <2>4, <3>1, <3>2 DEF StepsAt
    <2>8. CASE ~IsHerr(n)
        <3>1. isHere(n, t) = "no"
            BY <2>8 DEF IsHerr, isHere, same
        <3> DEFINE m == Len(node[n].kids)
                   a(i) == as[node[n].kids[i]]
                   s(i) == is(t)[node[n].kids[i]]
        <3>2. \/ as[n] = None /\ \A i \in 1..m : a(i) = None
              \/ \E i \in 1..m : /\ as[n] = a(i) /\ as[n] # None
                                 /\ \A j \in 1..m : j < i => a(j) = None
            BY <2>2, <2>3, <2>8 DEF StepsAt
        <3>3. \/ is(t)[n] = "no" /\ \A i \in 1..m : s(i) = "no"
              \/ \E i \in 1..m : /\ is(t)[n] = s(i) /\ is(t)[n] # "no"
                                 /\ \A j \in 1..m : j < i => s(j) = "no"
            BY <2>1, <2>3, <3>1 DEF StepsAt
        <3>4. \A i \in 1..m : /\ a(i) = None => s(i) = "no"
                              /\ a(i) = as[n] /\ Matches(n) => s(i) = "yes"
            BY <2>5
        <3> HIDE DEF m, a, s, Matches
        <3>5. CASE as[n] = None
            <4>1. \A i \in 1..m : s(i) = "no"
                BY <3>2, <3>4, <3>5
            <4> QED
                BY <3>3, <3>5, <4>1 DEF Matches
        <3>6. CASE Matches(n)
            <4>1. PICK i \in 1..m : /\ as[n] = a(i)
                                    /\ \A j \in 1..m : j < i => a(j) = None
                BY <3>2, <3>6 DEF Matches
            <4>2. s(i) = "yes" /\ \A j \in 1..m : j < i => s(j) = "no"
                BY <3>4, <3>6, <4>1
            <4>3. PICK j \in 1..m : /\ is(t)[n] = s(j) /\ s(j) # "no"
                                    /\ \A l \in 1..m : l < j => s(l) = "no"
                BY <3>3, <4>2
            <4>4. i = j
                BY <2>6, <4>2, <4>3 DEF m
            <4> QED
                BY <3>6, <4>2, <4>3, <4>4 DEF Matches
        <3> QED
            BY <3>5, <3>6
    <2> QED
        BY <2>7, <2>8
<1>4. \A n \in Nodes : below[n] \subseteq T => n \in T
    BY <1>3
<1> HIDE DEF T
<1>5. Nodes \subseteq T
    BY <1>4, TreeInduction
<1> QED
    BY <1>5 DEF T

\* A match of Class.Is is a match of errors.Is on the whole tree, and on a herr
\* error that is really there.
THEOREM ClassMatchesAreMatches == Spec => []ClassIsIsSound
<1>1. Good => ClassIsIsSound
    <2> SUFFICES ASSUME Good, NEW n \in Nodes, NEW t \in Nodes,
                        node[t].type = "herr", classIs(node[t].code, n) = "yes"
                 PROVE  /\ is(t)[n] = "yes"
                        /\ \E m \in reach[n] : node[m].type = "herr" /\ node[m].code = node[t].code
        BY DEF ClassIsIsSound
    <2>1. as[n] # None /\ node[as[n]].type # "nil" /\ node[as[n]].code = node[t].code
        BY DEF classIs
    <2>2. as[n] \in reach[n] /\ node[as[n]].type = "herr"
        BY <2>1, AsFinds DEF IsHerr
    <2> QED
        BY <2>1, <2>2, IsFollowsAs
<1> QED
    BY <1>1, TreesStayTrees, PTL DEF IInv

\* Of an aggregate, errors.As finds what it finds in the last member when there is
\* no herr error in the others.
LEMMA AsOfLast ==
    ASSUME Good, NEW n \in Nodes, ~IsHerr(n), node[n].kids # <<>>,
           \A i \in 1..Len(node[n].kids) - 1 : \A m \in reach[node[n].kids[i]] : ~IsHerr(m)
    PROVE  /\ node[n].kids[Len(node[n].kids)] \in Nodes
           /\ as[n] = as[node[n].kids[Len(node[n].kids)]]
<1> DEFINE l == Len(node[n].kids)
           a(i) == as[node[n].kids[i]]
<1>1. l \in Nat /\ l # 0 /\ \A i \in 1..l : node[n].kids[i] \in Nodes
    <2>1. node[n].kids \in Seq(Nodes)
        BY DEF Good, TypeOK
    <2> QED
        BY <2>1, EmptySeq, Kids DEF Good
<1>2. StepsAt(n, as, herrAt, None)
    BY AsIsWalk, WalkStep
<1>3. herrAt[n] = None
    BY DEF herrAt
<1>4. \A i \in 1..l - 1 : a(i) = None
    <2> SUFFICES ASSUME NEW i \in 1..l - 1 PROVE a(i) = None
        OBVIOUS
    <2>1. i \in 1..l /\ node[n].kids[i] \in Nodes
        BY <1>1
    <2> QED
        BY <2>1, AsFinds
<1>5. \/ as[n] = None /\ \A i \in 1..l : a(i) = None
      \/ \E i \in 1..l : /\ as[n] = a(i) /\ as[n] # None
                         /\ \A j \in 1..l : j < i => a(j) = None
    BY <1>2, <1>3 DEF StepsAt
<1>6. as[n] = a(l)
    <2>1. l \in Nat \ {0} /\ l \in 1..l
        BY <1>1
    <2> HIDE DEF l, a
    <2>2. CASE as[n] = None
        BY <1>5, <2>1, <2>2
    <2>3. CASE as[n] # None
        <3>1. PICK i \in 1..l : as[n] = a(i)
            BY <1>5, <2>3
        <3>2. i \notin 1..l - 1
            BY <1>4, <2>3, <3>1
        <3>3. i = l
            BY <2>1, <3>2
        <3> QED
            BY <3>1, <3>3
    <2> QED
        BY <2>2, <2>3
<1> QED
    BY <1>1, <1>6

\* Foreign wrappers, and errors that are joined in front and are not herr errors,
\* change neither a match nor the log record.
THEOREM WrappersChangeNothing == Spec => []WrappersAreTransparent
<1>1. Good => WrappersAreTransparent
    <2> SUFFICES ASSUME Good, NEW n \in Nodes, node[n].type \in {"wrapped", "joined"},
                        \A i \in 1..Len(node[n].kids) - 1 :
                            \A m \in reach[node[n].kids[i]] : ~IsHerr(m)
                 PROVE  LET k == node[n].kids[Len(node[n].kids)]
                        IN  /\ \A c \in Codes : classIs(c, n) = classIs(c, k)
                            /\ LogRecord(n).panics = LogRecord(k).panics
                            /\ ~LogRecord(n).panics => LogRecord(n).code = LogRecord(k).code
        BY Zenon DEF WrappersAreTransparent
    <2> DEFINE k == node[n].kids[Len(node[n].kids)]
    <2>1. as[n] = as[k]
        BY AsOfLast DEF Good, TypeOK, IsHerr
    <2> HIDE DEF k
    <2>2. \A c \in Codes : classIs(c, n) = classIs(c, k)
        BY <2>1 DEF classIs
    <2>3. LogRecord(n).panics = LogRecord(k).panics /\ LogRecord(n).code = LogRecord(k).code
        BY <2>1 DEF LogRecord
    <2> QED
        BY <2>2, <2>3 DEF k
<1> QED
    BY <1>1, TreesStayTrees, PTL DEF IInv

\* The client is shown the code that the log carries, also through gRPC and after
\* any later Wrap inside what went out.
THEOREM ClientsAndLogsAgree == Spec => []StatusMatchesTheLog
<1>1. IInv => StatusMatchesTheLog
    <2> SUFFICES ASSUME IInv, NEW n \in Nodes
                 PROVE  /\ ~LogRecord(n).panics /\ ~wire(n).panics => LogRecord(n).code = wire(n).code
                        /\ node[n].type = "status" =>
                             LET o == node[n].origin
                             IN  /\ ~LogRecord(o).panics => node[n].code = LogRecord(o).code
                                 /\ (\A m \in reach[o] : node[m].type # "herr") =>
                                        node[n].code = internalCode
        BY DEF StatusMatchesTheLog
    <2>1. ASSUME NEW m \in Nodes, ~LogRecord(m).panics
          PROVE  LogRecord(m).code = wire(m).code
        BY <2>1 DEF LogRecord, wire
    <2>2. ASSUME NEW o \in Nodes, \A m \in reach[o] : node[m].type # "herr"
          PROVE  wire(o).code = internalCode
        <3>1. as[o] = None \/ node[as[o]].type = "nil"
            BY <2>2, AsFinds DEF IInv, IsHerr
        <3> QED
            BY <3>1 DEF wire
    <2>3. ASSUME node[n].type = "status"
          PROVE  node[n].origin \in Nodes /\ node[n].code = wire(node[n].origin).code
        BY <2>3 DEF IInv, StatusesStay, Good, TypeOK, Status
    <2> QED
        BY <2>1, <2>2, <2>3
<1> QED
    BY <1>1, TreesStayTrees, PTL
=============================================================================
