----------------------------- MODULE CookieProofs ----------------------------
(***************************************************************************)
(* For any cookie files, cookies, containers and commits of the browser:   *)
(* what an import returns, and what it leaves.                             *)
(***************************************************************************)
EXTENDS CookieImport, FiniteSetTheorems, WellFoundedInduction, TLAPS

-----------------------------------------------------------------------------
(* Loops.                                                                  *)

(* A set of numbers has a least one.                                       *)
LEMMA LeastNumber ==
    ASSUME NEW S \in SUBSET Nat, S # {}
    PROVE  \E m \in S : \A n \in S : m <= n
<1> DEFINE R == OpToRel(<, Nat)
<1>1. IsWellFoundedOn(R, Nat)
    BY NatLessThanWellFounded
<1>2. \A x, y \in Nat : x < y => <<x, y>> \in R
    BY DEF OpToRel
<1> HIDE DEF R
<1>3. PICK x \in S : \A y \in S : ~(<<y, x>> \in R)
    BY <1>1, WFMin
<1>4. \A y \in S : ~(y < x)
    BY <1>2, <1>3
<1> QED BY <1>4

(* What the loop of KeptBy has after its first k steps.                    *)
Kept(better, order, best, k) ==
    best = [i \in 1..k |->
               IF i > 1 /\ <<order[i], best[i - 1]>> \notin better THEN best[i - 1] ELSE order[i]]

(* The loop has a result for every number of steps.                        *)
LEMMA KeptExists ==
    ASSUME NEW better, NEW order, NEW k \in Nat
    PROVE  \E best : Kept(better, order, best, k)
<1> SUFFICES ASSUME ~(\E best : Kept(better, order, best, k)) PROVE FALSE
    OBVIOUS
<1> DEFINE None == {m \in Nat : ~(\E best : Kept(better, order, best, m))}
<1>1. PICK m \in None : \A n \in None : m <= n
    BY LeastNumber
<1>2. m \in Nat /\ ~(\E best : Kept(better, order, best, m))
    OBVIOUS
<1>3. \A n \in Nat : n < m => \E best : Kept(better, order, best, n)
    BY <1>1
<1> HIDE DEF None
<1>4. CASE m = 0
  <2>1. 1..m = {}
      BY <1>4
  <2>2. Kept(better, order, [i \in 1..m |-> order[i]], m)
      BY <2>1 DEF Kept
  <2> QED BY <2>2, <1>2
<1>5. CASE m > 0
  <2>1. m - 1 \in Nat /\ m - 1 < m
      BY <1>2, <1>5
  <2>2. PICK f : Kept(better, order, f, m - 1)
      BY <2>1, <1>3
  <2> DEFINE next(e, i) == IF i > 1 /\ <<order[i], e[i - 1]>> \notin better THEN e[i - 1] ELSE order[i]
             g == [i \in 1..m |-> IF i = m THEN next(f, m) ELSE f[i]]
  <2>3. \A i \in 1..(m - 1) : f[i] = next(f, i)
      BY <2>2 DEF Kept
  <2>4. \A i \in 1..m : i > 1 => g[i - 1] = f[i - 1]
      BY <1>2
  <2>5. \A i \in 1..m : g[i] = next(f, i)
      BY <2>3, <1>2
  <2>6. \A i \in 1..m : next(g, i) = next(f, i)
      BY <2>4
  <2>7. g = [i \in 1..m |-> next(g, i)]
    <3> HIDE DEF next
    <3>1. \A i \in 1..m : g[i] = next(g, i)
        BY <2>5, <2>6
    <3> DEFINE h == [i \in 1..m |-> next(g, i)]
    <3>2. \A i \in 1..m : g[i] = h[i]
        BY <3>1
    <3>3. DOMAIN g = 1..m /\ DOMAIN h = 1..m
        OBVIOUS
    <3>4. g = [i \in DOMAIN g |-> g[i]] /\ h = [i \in DOMAIN h |-> h[i]]
        OBVIOUS
    <3> HIDE DEF g, h
    <3>5. g = h
        BY <3>2, <3>3, <3>4
    <3> QED BY <3>5 DEF h
  <2>8. Kept(better, order, g, m)
      BY <2>7 DEF Kept
  <2> HIDE DEF g
  <2> QED BY <2>8, <1>2
<1> QED BY <1>2, <1>4, <1>5

(* KeptBy is what the loop has at the end.                                 *)
LEMMA KeptIsLoop ==
    ASSUME NEW better, NEW S, NEW n \in Nat, NEW order \in [1..n -> S]
    PROVE  \E best : Kept(better, order, best, n) /\ KeptBy(better, order) = best[n]
<1>1. Len(order) = n
    OBVIOUS
<1>2. PICK f : Kept(better, order, f, n)
    BY KeptExists
<1> DEFINE b == CHOOSE best : Kept(better, order, best, n)
<1>3. Kept(better, order, b, n)
    BY <1>2
<1>4. KeptBy(better, order) = b[n]
    BY <1>1 DEF KeptBy, Kept
<1> QED BY <1>3, <1>4

(* What holds of every two and of every three elements.                    *)
StrictOrder(better, S) ==
    /\ \A x, y \in S : x = y \/ <<x, y>> \in better \/ <<y, x>> \in better
    /\ \A x, y, z \in S :
          <<x, y>> \in better /\ <<y, z>> \in better => <<x, z>> \in better

(* In an order without ties and cycles the loop keeps the best.            *)
LEMMA KeptIsBest ==
    ASSUME NEW better, NEW S, NEW n \in Nat \ {0}, NEW order \in [1..n -> S],
           StrictOrder(better, S)
    PROVE  /\ \E i \in 1..n : KeptBy(better, order) = order[i]
           /\ \A j \in 1..n : \/ KeptBy(better, order) = order[j]
                             \/ <<KeptBy(better, order), order[j]>> \in better
<1>1. PICK f : Kept(better, order, f, n) /\ KeptBy(better, order) = f[n]
    BY KeptIsLoop
<1> DEFINE Holds(k) == /\ \E i \in 1..k : f[k] = order[i]
                       /\ \A j \in 1..k : f[k] = order[j] \/ <<f[k], order[j]>> \in better
           Bad == {k \in 1..n : ~Holds(k)}
<1>2. \A k \in 1..n : /\ k = 1 => f[k] = order[k]
                      /\ k > 1 /\ <<order[k], f[k - 1]>> \notin better => f[k] = f[k - 1]
                      /\ <<order[k], f[k - 1]>> \in better => f[k] = order[k]
    BY <1>1 DEF Kept
<1>3. SUFFICES ASSUME Bad # {} PROVE FALSE
  <2>1. SUFFICES Holds(n)
      BY <1>1
  <2> QED BY <1>3
<1>4. PICK k \in Bad : \A m \in Bad : k <= m
  <2>1. Bad \in SUBSET Nat
      OBVIOUS
  <2> HIDE DEF Bad
  <2> QED BY <2>1, <1>3, LeastNumber
<1>5. k \in 1..n /\ ~Holds(k)
    OBVIOUS
<1>6. \A m \in 1..n : m < k => Holds(m)
    BY <1>4
<1> HIDE DEF Bad
<1>7. k # 1
  <2> SUFFICES ASSUME k = 1 PROVE FALSE
      OBVIOUS
  <2>1. f[k] = order[k]
      BY <1>2, <1>5
  <2>2. Holds(k)
      BY <2>1
  <2> QED BY <1>5, <2>2
<1>8. k - 1 \in 1..n /\ k > 1 /\ k - 1 < k
    BY <1>5, <1>7
<1>9. Holds(k - 1)
    BY <1>6, <1>8
<1>10. order[k] \in S /\ \A i \in 1..k : order[i] \in S
    BY <1>5
<1>11. f[k - 1] \in S
    BY <1>8, <1>9, <1>10
<1>12. CASE <<order[k], f[k - 1]>> \in better
  <2>1. f[k] = order[k]
      BY <1>2, <1>5, <1>12
  <2>2. \A j \in 1..(k - 1) : <<order[k], order[j]>> \in better
    <3> SUFFICES ASSUME NEW j \in 1..(k - 1) PROVE <<order[k], order[j]>> \in better
        OBVIOUS
    <3>1. f[k - 1] = order[j] \/ <<f[k - 1], order[j]>> \in better
        BY <1>9
    <3>2. order[j] \in S
        BY <1>5
    <3> QED BY <3>1, <3>2, <1>10, <1>11, <1>12 DEF StrictOrder
  <2>3. \A j \in 1..k : f[k] = order[j] \/ <<f[k], order[j]>> \in better
      BY <2>1, <2>2, <1>5
  <2> QED BY <2>1, <2>3, <1>5
<1>13. CASE <<order[k], f[k - 1]>> \notin better
  <2>1. f[k] = f[k - 1]
      BY <1>2, <1>5, <1>8, <1>13
  <2>2. f[k - 1] = order[k] \/ <<f[k - 1], order[k]>> \in better
      BY <1>10, <1>11, <1>13 DEF StrictOrder
  <2>3. \A j \in 1..k : f[k] = order[j] \/ <<f[k], order[j]>> \in better
      BY <2>1, <2>2, <1>9, <1>5
  <2> QED BY <2>1, <2>3, <1>9, <1>5
<1> QED BY <1>12, <1>13

(* A finite set of numbers can be put in order.                            *)
LEMMA OrderExists ==
    ASSUME NEW S \in SUBSET Nat, IsFiniteSet(S)
    PROVE  \E o \in Orders(S) : \A i, j \in DOMAIN o : i < j => o[i] < o[j]
<1> DEFINE Ordered(T, o) == o \in Orders(T) /\ \A i, j \in DOMAIN o : i < j => o[i] < o[j]
           Holds(n) == \A T \in SUBSET Nat :
                          IsFiniteSet(T) /\ Cardinality(T) = n => \E o : Ordered(T, o)
           Bad == {n \in Nat : ~Holds(n)}
<1>1. Cardinality(S) \in Nat
    BY FS_CardinalityType
<1>2. SUFFICES ASSUME Bad # {} PROVE FALSE
  <2>1. SUFFICES Holds(Cardinality(S))
      OBVIOUS
  <2> QED BY <1>1, <1>2
<1>3. PICK n \in Bad : \A m \in Bad : n <= m
    BY <1>2, LeastNumber
<1>4. n \in Nat /\ ~Holds(n) /\ \A m \in Nat : m < n => Holds(m)
    BY <1>3
<1>5. PICK T \in SUBSET Nat : IsFiniteSet(T) /\ Cardinality(T) = n /\ ~(\E o : Ordered(T, o))
    BY <1>4
<1> HIDE DEF Bad
<1>6. T # {}
  <2> SUFFICES ASSUME T = {} PROVE FALSE
      OBVIOUS
  <2>1. Cardinality(T) = 0 /\ 1..0 = {}
      BY FS_EmptySet
  <2>2. [i \in {} |-> i] \in [{} -> {}]
      OBVIOUS
  <2>3. [i \in {} |-> i] \in Orders({})
      BY <2>1, <2>2 DEF Orders, Bijection, Injection, Surjection, IsInjective
  <2>4. Ordered(T, [i \in {} |-> i])
      BY <2>3
  <2> QED BY <2>4, <1>5
<1>7. PICK m \in T : \A x \in T : m <= x
    BY <1>6, LeastNumber
<1> DEFINE U == T \ {m}
<1>8. IsFiniteSet(U) /\ Cardinality(U) = n - 1 /\ n > 0 /\ U \subseteq Nat
    BY <1>4, <1>5, <1>6, FS_RemoveElement, FS_EmptySet, FS_CardinalityType
<1>9. PICK p : Ordered(U, p)
    BY <1>4, <1>8
<1> DEFINE q == [i \in 1..n |-> IF i = 1 THEN m ELSE p[i - 1]]
<1>10. p \in [1..(n - 1) -> U] /\ \A x \in U : \E i \in 1..(n - 1) : p[i] = x
    BY <1>8, <1>9 DEF Orders, Bijection, Surjection
<1>11. \A i, j \in 1..(n - 1) : i < j => p[i] < p[j]
    BY <1>9, <1>10
<1>12. \A i \in 1..n : i # 1 => i - 1 \in 1..(n - 1)
    BY <1>4
<1>13. q \in [1..n -> T]
    BY <1>10, <1>12
<1>14. \A i, j \in 1..n : i < j => q[i] < q[j]
  <2> SUFFICES ASSUME NEW i \in 1..n, NEW j \in 1..n, i < j PROVE q[i] < q[j]
      OBVIOUS
  <2>1. j # 1 /\ j - 1 \in 1..(n - 1) /\ q[j] = p[j - 1] /\ p[j - 1] \in U
      BY <1>4, <1>10
  <2>2. CASE i = 1
    <3>1. p[j - 1] \in T /\ p[j - 1] # m /\ p[j - 1] \in Nat /\ m \in Nat
        BY <2>1
    <3>2. m < p[j - 1]
        BY <3>1, <1>7
    <3> QED BY <2>1, <2>2, <3>2
  <2>3. CASE i # 1
    <3>1. i - 1 \in 1..(n - 1) /\ q[i] = p[i - 1] /\ i - 1 < j - 1
        BY <2>3, <1>12
    <3> QED BY <2>1, <3>1, <1>11
  <2> QED BY <2>2, <2>3
<1>15. \A x \in T : \E i \in 1..n : q[i] = x
  <2> SUFFICES ASSUME NEW x \in T PROVE \E i \in 1..n : q[i] = x
      OBVIOUS
  <2>1. CASE x = m
      BY <2>1, <1>4, <1>8
  <2>2. CASE x # m
    <3>1. PICK i \in 1..(n - 1) : p[i] = x
        BY <2>2, <1>10
    <3>2. i + 1 \in 1..n /\ q[i + 1] = x
        BY <3>1, <1>4
    <3> QED BY <3>2
  <2> QED BY <2>1, <2>2
<1> HIDE DEF q, U
<1>16. \A i, j \in 1..n : q[i] = q[j] => i = j
  <2> SUFFICES ASSUME NEW i \in 1..n, NEW j \in 1..n, q[i] = q[j] PROVE i = j
      OBVIOUS
  <2>1. q[i] \in Nat /\ q[j] \in Nat
      BY <1>13
  <2> QED BY <1>14, <2>1
<1>17. q \in Orders(T)
    BY <1>5, <1>13, <1>15, <1>16 DEF Orders, Bijection, Injection, Surjection, IsInjective
<1>18. Ordered(T, q)
    BY <1>13, <1>14, <1>17
<1> QED BY <1>5, <1>18

(* InOrder is such an order.                                               *)
LEMMA InOrderIsOrder ==
    ASSUME NEW S \in SUBSET Nat, IsFiniteSet(S)
    PROVE  InOrder(S) \in Orders(S)
BY OrderExists DEF InOrder

(* An order visits every element.                                          *)
LEMMA OrderVisitsAll ==
    ASSUME NEW S, IsFiniteSet(S), S # {}, NEW o \in Orders(S)
    PROVE  /\ Cardinality(S) \in Nat \ {0}
           /\ o \in [1..Cardinality(S) -> S]
           /\ \A x \in S : \E i \in 1..Cardinality(S) : o[i] = x
<1>1. Cardinality(S) \in Nat \ {0}
    BY FS_CardinalityType, FS_EmptySet
<1> QED BY <1>1 DEF Orders, Bijection, Surjection

-----------------------------------------------------------------------------
(* Scores.                                                                 *)

(* What a score can be.                                                    *)
Scores == [session : Nat, token : Nat, total : Nat]

(* Exceeds compares any two scores, and is an order.                       *)
LEMMA ExceedsOrder ==
    ASSUME NEW s \in Scores, NEW t \in Scores, NEW u \in Scores
    PROVE  /\ s = t \/ Exceeds(s, t) \/ Exceeds(t, s)
           /\ ~Exceeds(s, s)
           /\ ~(Exceeds(s, t) /\ Exceeds(t, s))
           /\ Exceeds(s, t) /\ Exceeds(t, u) => Exceeds(s, u)
BY DEF Exceeds, Scores

(* A score of cookies.                                                     *)
LEMMA ScoreType ==
    ASSUME NEW cookies \in SUBSET Cookie
    PROVE  /\ ScoreOf(cookies) \in Scores
           /\ cookies # {} => ScoreOf(cookies).total > 0
           /\ IsFiniteSet(cookies)
<1> DEFINE of(class) == {c \in cookies : c.class = class}
<1>1. IsFiniteSet(cookies)
    BY CookieImportAssumption, FS_Subset
<1>2. IsFiniteSet(of("session")) /\ IsFiniteSet(of("token"))
    BY <1>1, FS_Subset
<1>3. /\ Cardinality(of("session")) \in Nat /\ Cardinality(of("token")) \in Nat
      /\ Cardinality(cookies) \in Nat
    BY <1>1, <1>2, FS_CardinalityType
<1>4. cookies # {} => Cardinality(cookies) # 0
    BY <1>1, FS_EmptySet
<1> QED BY <1>1, <1>3, <1>4 DEF ScoreOf, Scores

(* Every score of a cookie exceeds none.                                   *)
LEMMA NoScoreType == NoScore \in Scores /\ \A s \in Scores : s.total > 0 => Exceeds(s, NoScore)
<1>1. NoScore = [session |-> 0, token |-> 0, total |-> 0]
  <2>1. {c \in {} : c.class = "session"} = {} /\ {c \in {} : c.class = "token"} = {}
      OBVIOUS
  <2> QED BY <2>1, FS_EmptySet DEF NoScore, ScoreOf
<1> QED BY <1>1 DEF Scores, Exceeds

(* The groups of cookies: one for each container, none of them empty.      *)
LEMMA GroupsType ==
    ASSUME NEW cookies \in SUBSET Cookie
    PROVE  /\ Groups(cookies) \in [{c.container : c \in cookies} -> Scores]
           /\ DOMAIN Groups(cookies) \in SUBSET Nat /\ IsFiniteSet(DOMAIN Groups(cookies))
           /\ \A n \in DOMAIN Groups(cookies) : Groups(cookies)[n].total > 0
<1> DEFINE D == {c.container : c \in cookies}
           of(n) == {c \in cookies : c.container = n}
<1>1. \A n \in D : of(n) \in SUBSET Cookie /\ of(n) # {}
    OBVIOUS
<1>2. \A n \in D : ScoreOf(of(n)) \in Scores /\ ScoreOf(of(n)).total > 0
    BY <1>1, ScoreType
<1>3. Groups(cookies) = [n \in D |-> ScoreOf(of(n))]
    BY DEF Groups
<1>4. D \in SUBSET Nat
    BY CookieImportAssumption
<1>5. IsFiniteSet(D)
  <2> DEFINE f == [c \in cookies |-> c.container]
  <2>1. f \in Surjection(cookies, D)
      BY DEF Surjection
  <2>2. IsFiniteSet(cookies)
      BY ScoreType
  <2> HIDE DEF f, D
  <2> QED BY <2>1, <2>2, FS_Surjection
<1> HIDE DEF D, of
<1>6. DOMAIN Groups(cookies) = D /\ Groups(cookies) \in [D -> Scores]
      /\ \A n \in D : Groups(cookies)[n].total > 0
    BY <1>2, <1>3
<1> QED BY <1>4, <1>5, <1>6 DEF D

-----------------------------------------------------------------------------
(* The best group and the strongest file.                                  *)

(* The best group is better than every other group.                        *)
LEMMA BestIsBest ==
    ASSUME NEW g, DOMAIN g \in SUBSET Nat, IsFiniteSet(DOMAIN g), DOMAIN g # {},
           \A n \in DOMAIN g : g[n] \in Scores, NEW b \in Best(g)
    PROVE  /\ b.container \in DOMAIN g
           /\ b = [container |-> b.container, score |-> g[b.container]]
           /\ \A n \in DOMAIN g : n = b.container \/ BetterGroup(g, b.container, n)
<1> DEFINE D == DOMAIN g
           better == {d \in D \X D : BetterGroup(g, d[1], d[2])}
<1>1. PICK o \in Orders(D) : b = [container |-> BestIn(g, o), score |-> g[BestIn(g, o)]]
    BY DEF Best
<1>2. \A m, n \in D : <<m, n>> \in better <=> BetterGroup(g, m, n)
    OBVIOUS
<1>3. StrictOrder(better, D)
  <2>1. ASSUME NEW m \in D, NEW n \in D, m # n PROVE BetterGroup(g, m, n) \/ BetterGroup(g, n, m)
    <3>1. m \in Nat /\ n \in Nat /\ (m < n \/ n < m)
        BY <2>1
    <3>2. g[m] = g[n] \/ Exceeds(g[m], g[n]) \/ Exceeds(g[n], g[m])
        BY ExceedsOrder
    <3> QED BY <3>1, <3>2 DEF BetterGroup
  <2>2. ASSUME NEW m \in D, NEW n \in D, NEW k \in D, BetterGroup(g, m, n), BetterGroup(g, n, k)
        PROVE  BetterGroup(g, m, k)
    <3>1. m < n /\ n < k => m < k
        OBVIOUS
    <3>2. Exceeds(g[m], g[n]) /\ Exceeds(g[n], g[k]) => Exceeds(g[m], g[k])
        BY ExceedsOrder
    <3> QED BY <2>2, <3>1, <3>2 DEF BetterGroup
  <2> HIDE DEF better, D
  <2> QED BY <1>2, <2>1, <2>2 DEF StrictOrder
<1>4. BestIn(g, o) = KeptBy(better, o)
    BY DEF BestIn
<1> HIDE DEF better, D
<1>5. IsFiniteSet(D) /\ D # {}
    BY DEF D
<1>6. /\ Cardinality(D) \in Nat \ {0}
      /\ o \in [1..Cardinality(D) -> D]
      /\ \A x \in D : \E i \in 1..Cardinality(D) : o[i] = x
    BY <1>5, OrderVisitsAll
<1>7. /\ \E i \in 1..Cardinality(D) : BestIn(g, o) = o[i]
      /\ \A j \in 1..Cardinality(D) :
            BestIn(g, o) = o[j] \/ <<BestIn(g, o), o[j]>> \in better
    BY <1>3, <1>4, <1>6, KeptIsBest
<1>8. BestIn(g, o) \in D /\ \A x \in D : BestIn(g, o) = x \/ BetterGroup(g, BestIn(g, o), x)
    BY <1>2, <1>6, <1>7
<1> QED BY <1>1, <1>8 DEF D

(* In whatever order the groups of a map are visited, best answers the     *)
(* same ("the result is always the same for the same input", score.go).    *)
THEOREM BestIsOne ==
    ASSUME NEW cookies \in SUBSET Cookie,
           NEW a \in Best(Groups(cookies)), NEW b \in Best(Groups(cookies))
    PROVE  a = b
<1> DEFINE g == Groups(cookies)
<1>1. CASE DOMAIN g = {}
    BY <1>1 DEF Best
<1>2. CASE DOMAIN g # {}
  <2>1. DOMAIN g \in SUBSET Nat /\ IsFiniteSet(DOMAIN g) /\ \A n \in DOMAIN g : g[n] \in Scores
      BY GroupsType
  <2> HIDE DEF g
  <2>2. /\ a.container \in DOMAIN g /\ b.container \in DOMAIN g
        /\ a = [container |-> a.container, score |-> g[a.container]]
        /\ b = [container |-> b.container, score |-> g[b.container]]
        /\ b.container = a.container \/ BetterGroup(g, a.container, b.container)
        /\ a.container = b.container \/ BetterGroup(g, b.container, a.container)
      BY <1>2, <2>1, BestIsBest DEF g
  <2>3. g[a.container] \in Scores /\ g[b.container] \in Scores
        /\ a.container \in Nat /\ b.container \in Nat
      BY <2>1, <2>2
  <2>4. a.container = b.container
      BY <2>2, <2>3, ExceedsOrder DEF BetterGroup
  <2> QED BY <2>2, <2>4
<1> QED BY <1>1, <1>2

(* What a scan can find in a file.                                         *)
Evidence == [container : Nat, score : Scores, modified : 0..2]

(* BetterEvidence compares any two files, and is an order.                 *)
LEMMA EvidenceOrder ==
    ASSUME NEW ev, NEW p \in Paths, NEW q \in Paths, NEW r \in Paths,
           ev[p] \in Evidence, ev[q] \in Evidence, ev[r] \in Evidence
    PROVE  /\ p = q \/ BetterEvidence(ev, p, q) \/ BetterEvidence(ev, q, p)
           /\ BetterEvidence(ev, p, q) /\ BetterEvidence(ev, q, r) => BetterEvidence(ev, p, r)
<1>1. /\ p \in Nat /\ q \in Nat /\ r \in Nat
      /\ IsDefault[p] \in BOOLEAN /\ IsDefault[q] \in BOOLEAN /\ IsDefault[r] \in BOOLEAN
    BY CookieChoiceAssumption
<1>2. /\ ev[p].score \in Scores /\ ev[q].score \in Scores /\ ev[r].score \in Scores
      /\ ev[p].modified \in Nat /\ ev[q].modified \in Nat /\ ev[r].modified \in Nat
    BY DEF Evidence
<1>3. ASSUME ev[p].score = ev[q].score
      PROVE  p = q \/ BetterEvidence(ev, p, q) \/ BetterEvidence(ev, q, p)
    BY <1>1, <1>2, <1>3 DEF BetterEvidence
<1>4. ASSUME ev[p].score = ev[q].score, ev[q].score = ev[r].score,
             BetterEvidence(ev, p, q), BetterEvidence(ev, q, r)
      PROVE  BetterEvidence(ev, p, r)
    BY <1>1, <1>2, <1>4, ExceedsOrder DEF BetterEvidence
<1>5. /\ ev[p].score = ev[q].score \/ Exceeds(ev[p].score, ev[q].score) \/ Exceeds(ev[q].score, ev[p].score)
      /\ Exceeds(ev[p].score, ev[q].score) /\ Exceeds(ev[q].score, ev[r].score)
            => Exceeds(ev[p].score, ev[r].score)
    BY <1>2, ExceedsOrder
<1>6. /\ \A a, b : BetterEvidence(ev, a, b) =>
            Exceeds(ev[a].score, ev[b].score) \/ ev[a].score = ev[b].score
      /\ \A a, b : Exceeds(ev[a].score, ev[b].score) => BetterEvidence(ev, a, b)
    BY DEF BetterEvidence
<1> QED BY <1>3, <1>4, <1>5, <1>6

(* The strongest file has better evidence than every other.                *)
LEMMA StrongestIsBest ==
    ASSUME NEW ev, DOMAIN ev \in SUBSET Paths, IsFiniteSet(DOMAIN ev), DOMAIN ev # {},
           \A p \in DOMAIN ev : ev[p] \in Evidence
    PROVE  /\ Strongest(ev) \in DOMAIN ev
           /\ \A p \in DOMAIN ev : p = Strongest(ev) \/ BetterEvidence(ev, Strongest(ev), p)
<1> DEFINE D == DOMAIN ev
           better == {d \in D \X D : BetterEvidence(ev, d[1], d[2])}
           o == InOrder(D)
<1>1. \A p, q \in D : <<p, q>> \in better <=> BetterEvidence(ev, p, q)
    OBVIOUS
<1>2. D \in SUBSET Paths /\ D \in SUBSET Nat /\ IsFiniteSet(D) /\ D # {}
    BY CookieChoiceAssumption
<1>3. Strongest(ev) = KeptBy(better, o)
    BY DEF Strongest
<1> HIDE DEF better
<1>4. StrictOrder(better, D)
  <2>1. \A p, q \in D : p = q \/ BetterEvidence(ev, p, q) \/ BetterEvidence(ev, q, p)
      BY EvidenceOrder
  <2>2. \A p, q, r \in D :
           BetterEvidence(ev, p, q) /\ BetterEvidence(ev, q, r) => BetterEvidence(ev, p, r)
      BY EvidenceOrder
  <2> HIDE DEF D
  <2> QED BY <1>1, <2>1, <2>2 DEF StrictOrder
<1> HIDE DEF D
<1>5. o \in Orders(D)
    BY <1>2, InOrderIsOrder
<1> HIDE DEF o
<1>6. /\ Cardinality(D) \in Nat \ {0}
      /\ o \in [1..Cardinality(D) -> D]
      /\ \A x \in D : \E i \in 1..Cardinality(D) : o[i] = x
    BY <1>2, <1>5, OrderVisitsAll
<1>7. /\ \E i \in 1..Cardinality(D) : Strongest(ev) = o[i]
      /\ \A j \in 1..Cardinality(D) :
            Strongest(ev) = o[j] \/ <<Strongest(ev), o[j]>> \in better
    BY <1>3, <1>4, <1>6, KeptIsBest
<1>8. Strongest(ev) \in D /\ \A x \in D : Strongest(ev) = x \/ BetterEvidence(ev, Strongest(ev), x)
    BY <1>1, <1>6, <1>7
<1> QED BY <1>8 DEF D

-----------------------------------------------------------------------------
(* The inductive invariant.                                                *)

(* A copy belongs to the scan or to the import, and an answer is given     *)
(* once, when there is none.                                               *)
CopyFits ==
    /\ copy # NoCopy => importer = IF copy.for = "scan" THEN "scan" ELSE "import"
    /\ importer = "import" => copy # NoCopy
    /\ importer = "scan" => Candidates(found) # {}
    /\ importer # "answered" => session = NoSession /\ "import" \notin strays

(* The evidence is a finite map of what may be found in a file.            *)
EvidenceFits ==
    /\ IsFiniteSet(DOMAIN evidence)
    /\ \A p \in DOMAIN evidence : evidence[p] \in Evidence

(* What is copied of the chosen file was there at some moment since.       *)
CopyIsSaved ==
    /\ copy # NoCopy => (copy.at \in {"main", "log"} => copy.log = NoLog)
    /\ copy # NoCopy /\ copy.for = "import" =>
          /\ mainFile[copy.file] \in saved /\ View(copy.file) \in saved
          /\ copy.at \in {"log", "recover"} => copy.main \in saved
          /\ copy.log = NoLog \/ copy.log \in saved
          /\ copy.at = "read" => mixed \/ copy.main \in saved

(* The evidence of a file that does not change.                            *)
Seen(p) ==
    {[container |-> b.container, score |-> b.score, modified |-> modified[p]] :
        b \in Best(Groups(mainFile[p]))}

(* A copy that nothing disturbs is of the file as it is.                   *)
CopyIsFile ==
    /\ copy.logs /\ ~copy.disturbed /\ copy.log = NoLog
    /\ copy.stamp = modified[copy.file]
    /\ copy.at # "main" => copy.main = mainFile[copy.file]
    /\ copy.for = "import" => copy.file = Strongest(evidence)

(* The answer when the file p was chosen.                                  *)
AnswerIsOf(p) ==
    /\ mainFile[p] = {} => session = NoSession
    /\ mainFile[p] # {} =>
          \E b \in Best(Groups(mainFile[p])) : session = SessionOf(p, b.container, mainFile[p])

(* How far an import is that nothing disturbs.                             *)
Still ==
    /\ \A p \in DOMAIN evidence : evidence[p] \in Seen(p)
    /\ copy # NoCopy => CopyIsFile
    /\ importer = "import" => DOMAIN evidence = Candidates(found) /\ DOMAIN evidence # {}
    /\ importer = "answered" =>
          \/ Candidates(found) = {} /\ session = NoSession
          \/ /\ DOMAIN evidence = Candidates(found) /\ DOMAIN evidence # {}
             /\ AnswerIsOf(Strongest(evidence))

(* Before the first commit no file has a log.                              *)
StillInv ==
    /\ commits = 0 => \A p \in Paths : wal[p] = NoLog
    /\ Undisturbed => Still

(* The properties themselves are a part: they speak of the answer, which no *)
(* later step changes.                                                     *)
CookieInv ==
    /\ CookieTypeOK /\ CopyFits /\ EvidenceFits /\ CopyIsSaved
    /\ JarIsOneSession /\ SessionLeavesNoCopy

(* At first nothing was scanned or copied.                                 *)
LEMMA CookieInvInit == CookieInit => CookieInv
<1> SUFFICES ASSUME CookieInit PROVE CookieInv
    OBVIOUS
<1>1. /\ DOMAIN evidence = {} /\ copy = NoCopy /\ session = NoSession /\ importer = "start"
      /\ strays = {} /\ commits = 0 /\ mishaps = 0 /\ found \subseteq Paths
    BY DEF CookieInit
<1>2. mainFile \in [Paths -> SUBSET Cookie] /\ wal = [p \in Paths |-> NoLog]
      /\ modified \in [Paths -> {0, 1}]
    BY CookieImportAssumption DEF CookieInit
<1>3. CookieTypeOK
    BY <1>1, <1>2, CookieImportAssumption DEF CookieTypeOK
<1>4. CopyFits /\ CopyIsSaved /\ JarIsOneSession /\ SessionLeavesNoCopy
    BY <1>1 DEF CopyFits, CopyIsSaved, JarIsOneSession, SessionLeavesNoCopy
<1>5. EvidenceFits
    BY <1>1, FS_EmptySet DEF EvidenceFits
<1> QED BY <1>3, <1>4, <1>5 DEF CookieInv

(* At first nothing disturbed the import.                                  *)
LEMMA StillInit == CookieInit => StillInv
<1> SUFFICES ASSUME CookieInit PROVE StillInv
    OBVIOUS
<1>1. DOMAIN evidence = {} /\ copy = NoCopy /\ importer = "start" /\ wal = [p \in Paths |-> NoLog]
    BY DEF CookieInit
<1> QED BY <1>1 DEF StillInv, Still

(* Nothing happens any more when the answer is given.                      *)
LEMMA NotAnswered ==
    ASSUME CookieInv, CookieNext
    PROVE  importer # "answered" /\ session = NoSession /\ "import" \notin strays
<1>1. CopyFits /\ SessionLeavesNoCopy
    BY DEF CookieInv
<1>2. importer = "answered" => copy = NoCopy
    BY <1>1 DEF SessionLeavesNoCopy
<1>3. importer # "answered"
    BY <1>2 DEF CookieNext, Commit, Checkpoint, Collect, LiveRead, ScanSnapshot, Scanning, Choose,
                CopyMain, CopyLog, Recover, CopyMainAlone, CopyFails, InspectSnapshot, Import, CopyAt
<1> QED BY <1>1, <1>3 DEF CopyFits

(* Candidates are among the files that were found.                         *)
LEMMA CandidatesType == Candidates(found) \subseteq found
BY DEF Candidates, Preferred

(* The best group of some cookies is one of their containers.              *)
LEMMA BestType ==
    ASSUME NEW cookies \in SUBSET Cookie, NEW b \in Best(Groups(cookies))
    PROVE  /\ b.container \in Nat /\ b.score \in Scores
           /\ cookies # {} => b.container \in {c.container : c \in cookies}
<1> DEFINE g == Groups(cookies)
<1>1. /\ DOMAIN g = {c.container : c \in cookies} /\ DOMAIN g \in SUBSET Nat
      /\ IsFiniteSet(DOMAIN g) /\ \A n \in DOMAIN g : g[n] \in Scores
    BY GroupsType
<1> HIDE DEF g
<1>2. CASE DOMAIN g = {}
  <2>1. b = [container |-> NoContainer, score |-> NoScore]
      BY <1>2 DEF Best, g
  <2> QED BY <1>1, <1>2, <2>1, NoScoreType DEF NoContainer
<1>3. CASE DOMAIN g # {}
  <2>1. b.container \in DOMAIN g /\ b = [container |-> b.container, score |-> g[b.container]]
      BY <1>1, <1>3, BestIsBest DEF g
  <2>2. b.score = g[b.container]
      BY <2>1
  <2> QED BY <1>1, <2>1, <2>2
<1> QED BY <1>2, <1>3

(* What a scanned file adds to the evidence.                               *)
LEMMA ScannedType ==
    ASSUME NEW p, NEW stamp \in 0..2, NEW cookies \in SUBSET Cookie, Scanned(p, stamp, cookies),
           EvidenceFits
    PROVE  /\ EvidenceFits'
           /\ DOMAIN evidence' = DOMAIN evidence \cup {p}
           /\ \A q \in DOMAIN evidence : q # p => evidence'[q] = evidence[q]
           /\ \E b \in Best(Groups(cookies)) :
                 evidence'[p] = [container |-> b.container, score |-> b.score, modified |-> stamp]
<1>1. PICK b \in Best(Groups(cookies)) :
         evidence' = [q \in (DOMAIN evidence) \cup {p} |->
                         IF q = p THEN [container |-> b.container, score |-> b.score,
                                        modified |-> stamp]
                         ELSE evidence[q]]
    BY DEF Scanned
<1> DEFINE r == [container |-> b.container, score |-> b.score, modified |-> stamp]
<1>2. r \in Evidence
    BY BestType DEF Evidence
<1>3. evidence' = [q \in (DOMAIN evidence) \cup {p} |-> IF q = p THEN r ELSE evidence[q]]
    BY <1>1
<1> HIDE DEF r
<1>4. /\ DOMAIN evidence' = DOMAIN evidence \cup {p}
      /\ \A q \in DOMAIN evidence : q # p => evidence'[q] = evidence[q]
      /\ evidence'[p] = r
    BY <1>3
<1>5. IsFiniteSet(DOMAIN evidence')
    BY <1>4, FS_AddElement DEF EvidenceFits
<1>6. EvidenceFits'
    BY <1>2, <1>4, <1>5 DEF EvidenceFits
<1> QED BY <1>4, <1>6 DEF r

(* Without a session there is nothing to say of one.                       *)
LEMMA NoSessionYet ==
    ASSUME session' = NoSession, importer' = "answered" => copy' = NoCopy
    PROVE  JarIsOneSession' /\ SessionLeavesNoCopy'
BY DEF JarIsOneSession, SessionLeavesNoCopy

(* The invariant in the form in which the steps use it.                    *)
LEMMA CopyType ==
    ASSUME CookieInv, copy # NoCopy
    PROVE  /\ copy \in Copies /\ copy.file \in Candidates(found) /\ copy.file \in Paths
           /\ copy.file \in found
           /\ copy.for \in {"scan", "import"} /\ copy.at \in {"main", "log", "recover", "read"}
           /\ copy.logs \in BOOLEAN /\ copy.disturbed \in BOOLEAN /\ copy.stamp \in 0..2
           /\ copy.main \in SUBSET Cookie /\ copy.log \in {NoLog} \cup SUBSET Cookie
<1>1. copy \in Copies /\ copy.file \in Candidates(found)
    BY DEF CookieInv, CookieTypeOK
<1>2. copy.file \in found /\ found \subseteq Paths
    BY <1>1, CandidatesType DEF CookieInv, CookieTypeOK
<1> QED BY <1>1, <1>2 DEF Copies

(* What a reader of a file sees are cookies of it.                         *)
LEMMA ViewType ==
    ASSUME CookieInv, NEW p \in Paths
    PROVE  /\ mainFile[p] \in SUBSET Cookie /\ View(p) \in SUBSET Cookie
           /\ wal[p] \in {NoLog} \cup SUBSET Cookie /\ modified[p] \in 0..2
BY DEF CookieInv, CookieTypeOK, View

(* The browser commits.                                                    *)
LEMMA CommitKeeps ==
    ASSUME CookieInv, CookieNext, NEW p \in Paths, Commit(p)
    PROVE  CookieInv'
<1>1. PICK c \in Cookie :
         LET new == IF c \in View(p) THEN View(p) \ {c} ELSE View(p) \cup {c}
         IN  /\ wal' = [wal EXCEPT ![p] = new]
             /\ saved' = IF Importing(p) THEN saved \cup {new} ELSE saved
    BY DEF Commit
<1> DEFINE new == IF c \in View(p) THEN View(p) \ {c} ELSE View(p) \cup {c}
<1>2. /\ wal' = [wal EXCEPT ![p] = new]
      /\ saved' = IF Importing(p) THEN saved \cup {new} ELSE saved
    BY <1>1
<1>3. new \in SUBSET Cookie
    BY ViewType
<1> HIDE DEF new
<1>4. /\ commits < MaxCommits /\ commits' = commits + 1
      /\ UNCHANGED <<mainFile, modified, found, container, importer, evidence, copy, session,
                     strays, mishaps, mixed>>
    BY DEF Commit
<1>5. CookieTypeOK'
    BY <1>2, <1>3, <1>4, CookieImportAssumption DEF CookieInv, CookieTypeOK, Candidates, Preferred
<1>6. CopyFits' /\ EvidenceFits'
    BY <1>4 DEF CookieInv, CopyFits, EvidenceFits
<1>7. CopyIsSaved'
  <2>1. saved \subseteq saved'
      BY <1>2
  <2>2. ASSUME copy # NoCopy, copy.for = "import" PROVE View(copy.file)' \in saved'
    <3>1. copy.file \in Paths /\ View(copy.file) \in saved /\ mainFile[copy.file] \in saved
        BY <2>2, CopyType DEF CookieInv, CopyIsSaved
    <3>2. CASE copy.file = p
      <4>1. wal'[p] = new /\ new \in saved'
          BY <1>2, <2>2, <3>2 DEF Importing, CookieInv, CookieTypeOK
      <4> QED BY <1>4, <2>1, <3>1, <3>2, <4>1 DEF View
    <3>3. CASE copy.file # p
      <4>1. wal'[copy.file] = wal[copy.file]
          BY <1>2, <3>1, <3>3 DEF CookieInv, CookieTypeOK
      <4> QED BY <1>4, <2>1, <3>1, <4>1 DEF View
    <3> QED BY <3>2, <3>3
  <2> QED BY <1>4, <2>1, <2>2 DEF CookieInv, CopyIsSaved
<1>8. JarIsOneSession' /\ SessionLeavesNoCopy'
    BY <1>4, NotAnswered, NoSessionYet
<1> QED BY <1>5, <1>6, <1>7, <1>8 DEF CookieInv

(* The browser folds its log.                                              *)
LEMMA CheckpointKeeps ==
    ASSUME CookieInv, CookieNext, NEW p \in Paths, Checkpoint(p)
    PROVE  CookieInv'
<1>1. /\ wal[p] # NoLog
      /\ mainFile' = [mainFile EXCEPT ![p] = wal[p]]
      /\ wal' = [wal EXCEPT ![p] = NoLog]
      /\ modified' = [modified EXCEPT ![p] = 2]
      /\ copy' = IF Copying(p) THEN [copy EXCEPT !.disturbed = TRUE] ELSE copy
      /\ UNCHANGED <<commits, found, container, importer, evidence, session, strays, mishaps,
                     saved, mixed>>
    BY DEF Checkpoint
<1>2. /\ wal[p] \in SUBSET Cookie /\ View(p) = wal[p]
      /\ mainFile'[p] = wal[p] /\ wal'[p] = NoLog
      /\ \A q \in Paths \ {p} : mainFile'[q] = mainFile[q] /\ wal'[q] = wal[q]
    BY <1>1 DEF CookieInv, CookieTypeOK, View
<1>3. copy' # NoCopy =>
        /\ copy # NoCopy /\ copy' \in Copies /\ copy'.file = copy.file /\ copy'.for = copy.for
        /\ copy'.at = copy.at /\ copy'.main = copy.main /\ copy'.log = copy.log
  <2>1. CASE Copying(p)
    <3>1. copy # NoCopy /\ copy \in Copies /\ copy' = [copy EXCEPT !.disturbed = TRUE]
        BY <1>1, <2>1, CopyType DEF Copying
    <3> QED BY <3>1 DEF Copies
  <2>2. CASE ~Copying(p)
      BY <1>1, <2>2, CopyType
  <2> QED BY <2>1, <2>2
<1>4. copy # NoCopy <=> copy' # NoCopy
  <2>1. CASE Copying(p)
    <3>1. copy # NoCopy /\ copy \in Copies /\ copy' = [copy EXCEPT !.disturbed = TRUE]
        BY <1>1, <2>1, CopyType DEF Copying
    <3>2. copy' \in Copies
        BY <3>1 DEF Copies
    <3> QED BY <3>1, <3>2, CookieImportAssumption
  <2>2. CASE ~Copying(p)
      BY <1>1, <2>2
  <2> QED BY <2>1, <2>2
<1>5. CookieTypeOK'
    BY <1>1, <1>2, <1>3, <1>4 DEF CookieInv, CookieTypeOK, Candidates, Preferred
<1>6. CopyFits' /\ EvidenceFits'
    BY <1>1, <1>3, <1>4 DEF CookieInv, CopyFits, EvidenceFits
<1>7. CopyIsSaved'
  <2>1. ASSUME NEW q \in Paths, View(q) \in saved, mainFile[q] \in saved
        PROVE  mainFile'[q] \in saved /\ View(q)' \in saved
    <3>1. CASE q = p
        BY <1>2, <2>1, <3>1 DEF View
    <3>2. CASE q # p
        BY <1>2, <2>1, <3>2 DEF View
    <3> QED BY <3>1, <3>2
  <2>2. ASSUME copy' # NoCopy, copy'.for = "import"
        PROVE  mainFile'[copy'.file] \in saved' /\ View(copy.file)' \in saved'
    <3>1. PICK q : q = copy.file
        OBVIOUS
    <3>2. q \in Paths /\ View(q) \in saved /\ mainFile[q] \in saved /\ q = copy'.file
        BY <1>3, <2>2, <3>1, CopyType DEF CookieInv, CopyIsSaved
    <3>3. mainFile'[q] \in saved' /\ View(q)' \in saved'
        BY <1>1, <2>1, <3>2
    <3> QED BY <3>2, <3>3 DEF View
  <2>3. ASSUME copy' # NoCopy PROVE copy'.at \in {"main", "log"} => copy'.log = NoLog
      BY <1>3, <2>3 DEF CookieInv, CopyIsSaved
  <2>4. ASSUME copy' # NoCopy, copy'.for = "import"
        PROVE  /\ copy'.at \in {"log", "recover"} => copy'.main \in saved'
               /\ copy'.log = NoLog \/ copy'.log \in saved'
               /\ copy'.at = "read" => mixed' \/ copy'.main \in saved'
      BY <1>1, <1>3, <2>4 DEF CookieInv, CopyIsSaved
  <2> QED BY <1>3, <2>2, <2>3, <2>4 DEF CopyIsSaved, View
<1>8. JarIsOneSession' /\ SessionLeavesNoCopy'
    BY <1>1, NotAnswered, NoSessionYet
<1> QED BY <1>5, <1>6, <1>7, <1>8 DEF CookieInv

(* The candidates are collected.                                           *)
LEMMA CollectKeeps ==
    ASSUME CookieInv, CookieNext, Collect
    PROVE  CookieInv'
<1>1. /\ importer = "start" /\ importer' \in {"scan", "answered"}
      /\ importer' = "scan" => Candidates(found) # {}
      /\ UNCHANGED <<mainFile, wal, modified, commits, found, container, evidence, copy, session,
                     strays, mishaps, saved, mixed>>
    BY DEF Collect, browserVars
<1>2. copy = NoCopy
    BY <1>1 DEF CookieInv, CopyFits
<1>3. CookieTypeOK'
    BY <1>1 DEF CookieInv, CookieTypeOK, Candidates, Preferred
<1>4. CopyFits' /\ EvidenceFits' /\ CopyIsSaved'
    BY <1>1, <1>2 DEF CookieInv, CopyFits, EvidenceFits, CopyIsSaved, Candidates, Preferred
<1>5. JarIsOneSession' /\ SessionLeavesNoCopy'
    BY <1>1, <1>2, NotAnswered, NoSessionYet
<1> QED BY <1>3, <1>4, <1>5 DEF CookieInv

(* The next file to scan is one of the candidates.                         *)
LEMMA NextFileType ==
    ASSUME CookieInv, Unscanned # {}
    PROVE  NextFile \in Candidates(found) /\ NextFile \notin DOMAIN evidence /\ NextFile \in Paths
<1>1. Unscanned \subseteq Candidates(found) /\ Unscanned \subseteq Paths
    BY CandidatesType DEF Unscanned, CookieInv, CookieTypeOK
<1>2. \E p \in Unscanned : \A q \in Unscanned : p <= q
    BY <1>1, CookieChoiceAssumption, LeastNumber
<1>3. NextFile \in Unscanned
    BY <1>2 DEF NextFile, Min
<1> QED BY <1>1, <1>3 DEF Unscanned

(* A candidate is scored in place.                                         *)
LEMMA LiveReadKeeps ==
    ASSUME CookieInv, CookieNext, LiveRead
    PROVE  CookieInv'
<1>1. PICK p : p = NextFile
    OBVIOUS
<1>2. /\ importer = "scan" /\ copy = NoCopy /\ Unscanned # {}
      /\ Scanned(p, modified[p], mainFile[p])
      /\ UNCHANGED <<mainFile, wal, modified, commits, found, container, importer, copy, session,
                     strays, mishaps, saved, mixed>>
    BY <1>1 DEF LiveRead, Scanning, browserVars
<1>3. p \in Candidates(found) /\ p \in Paths
    BY <1>1, <1>2, NextFileType
<1>4. EvidenceFits' /\ DOMAIN evidence' = DOMAIN evidence \cup {p}
    BY <1>2, <1>3, ViewType, ScannedType DEF CookieInv
<1>5. CookieTypeOK'
    BY <1>2, <1>3, <1>4 DEF CookieInv, CookieTypeOK, Candidates, Preferred
<1>6. CopyFits' /\ CopyIsSaved'
    BY <1>2 DEF CookieInv, CopyFits, CopyIsSaved
<1>7. JarIsOneSession' /\ SessionLeavesNoCopy'
    BY <1>2, NotAnswered, NoSessionYet
<1> QED BY <1>4, <1>5, <1>6, <1>7 DEF CookieInv

(* A copy begins.                                                          *)
LEMMA StartCopyType ==
    ASSUME CookieInv, NEW purpose \in {"scan", "import"}, NEW p \in Paths, StartCopy(purpose, p)
    PROVE  /\ copy' \in Copies /\ copy' # NoCopy
           /\ copy'.for = purpose /\ copy'.file = p /\ copy'.at = "main" /\ copy'.logs
           /\ copy'.log = NoLog /\ ~copy'.disturbed /\ copy'.stamp = modified[p]
<1>1. modified[p] \in 0..2
    BY ViewType
<1>2. copy' = [for |-> purpose, file |-> p, at |-> "main", logs |-> TRUE, main |-> {},
               log |-> NoLog, disturbed |-> FALSE, stamp |-> modified[p]]
    BY DEF StartCopy
<1>3. copy' \in Copies
    BY <1>1, <1>2 DEF Copies
<1> QED BY <1>2, <1>3, CookieImportAssumption

(* A candidate is copied to be scored.                                     *)
LEMMA ScanSnapshotKeeps ==
    ASSUME CookieInv, CookieNext, ScanSnapshot
    PROVE  CookieInv'
<1>1. PICK p : p = NextFile
    OBVIOUS
<1>2. /\ importer = "scan" /\ copy = NoCopy /\ Unscanned # {}
      /\ StartCopy("scan", p)
      /\ UNCHANGED <<mainFile, wal, modified, commits, found, container, importer, evidence, session,
                     strays, saved, mixed>>
    BY <1>1 DEF ScanSnapshot, Scanning, browserVars
<1>3. mishaps' \in 0..MaxMishaps
    BY CookieImportAssumption DEF ScanSnapshot, Mishap, CookieInv, CookieTypeOK
<1>4. p \in Candidates(found) /\ p \in Paths
    BY <1>1, <1>2, NextFileType
<1>5. copy' \in Copies /\ copy'.for = "scan" /\ copy'.file = p /\ copy'.log = NoLog /\ copy' # NoCopy
    BY <1>2, <1>4, StartCopyType
<1>6. CookieTypeOK'
    BY <1>2, <1>3, <1>4, <1>5 DEF CookieInv, CookieTypeOK, Candidates, Preferred
<1>7. CopyFits' /\ EvidenceFits' /\ CopyIsSaved'
    BY <1>2, <1>5 DEF CookieInv, CopyFits, EvidenceFits, CopyIsSaved
<1>8. JarIsOneSession' /\ SessionLeavesNoCopy'
    BY <1>2, NotAnswered, NoSessionYet
<1> QED BY <1>6, <1>7, <1>8 DEF CookieInv

(* When every candidate was scanned there is a strongest one.              *)
LEMMA StrongestType ==
    ASSUME CookieInv, importer = "scan", Unscanned = {}
    PROVE  /\ DOMAIN evidence = Candidates(found) /\ DOMAIN evidence # {}
           /\ Strongest(evidence) \in Candidates(found) /\ Strongest(evidence) \in Paths
<1>1. DOMAIN evidence = Candidates(found) /\ DOMAIN evidence # {}
    BY DEF CookieInv, CopyFits, CookieTypeOK, Unscanned
<1>2. Candidates(found) \subseteq Paths
    BY CandidatesType DEF CookieInv, CookieTypeOK
<1>3. Strongest(evidence) \in DOMAIN evidence
    BY <1>1, <1>2, StrongestIsBest DEF CookieInv, EvidenceFits
<1> QED BY <1>1, <1>2, <1>3

(* A file is chosen and copied to be imported.                             *)
LEMMA ChooseKeeps ==
    ASSUME CookieInv, CookieNext, Choose
    PROVE  CookieInv'
<1>1. PICK p : p = Strongest(evidence)
    OBVIOUS
<1>2. /\ importer = "scan" /\ copy = NoCopy /\ Unscanned = {} /\ importer' = "import"
      /\ StartCopy("import", p) /\ saved' = {mainFile[p], View(p)}
      /\ UNCHANGED <<mainFile, wal, modified, commits, found, container, evidence, session, strays,
                     mishaps, mixed>>
    BY <1>1 DEF Choose, browserVars
<1>3. p \in Candidates(found) /\ p \in Paths
    BY <1>1, <1>2, StrongestType
<1>4. /\ copy' \in Copies /\ copy' # NoCopy /\ copy'.for = "import" /\ copy'.file = p
      /\ copy'.at = "main" /\ copy'.log = NoLog
    BY <1>2, <1>3, StartCopyType
<1>5. CookieTypeOK'
    BY <1>2, <1>3, <1>4 DEF CookieInv, CookieTypeOK, Candidates, Preferred
<1>6. CopyFits' /\ EvidenceFits'
    BY <1>2, <1>4 DEF CookieInv, CopyFits, EvidenceFits
<1>7. CopyIsSaved'
    BY <1>2, <1>4 DEF CopyIsSaved, View
<1>8. JarIsOneSession' /\ SessionLeavesNoCopy'
    BY <1>2, NotAnswered, NoSessionYet
<1> QED BY <1>5, <1>6, <1>7, <1>8 DEF CookieInv

(* The main file is copied.                                                *)
LEMMA CopyMainKeeps ==
    ASSUME CookieInv, CookieNext, CopyMain
    PROVE  CookieInv'
<1>1. /\ copy # NoCopy /\ copy.at = "main"
      /\ copy' = [copy EXCEPT !.main = mainFile[copy.file],
                              !.at = IF copy.logs THEN "log" ELSE "recover"]
      /\ UNCHANGED <<mainFile, wal, modified, commits, found, container, importer, evidence, session,
                     strays, mishaps, saved, mixed>>
    BY DEF CopyMain, CopyAt, browserVars
<1>2. mainFile[copy.file] \in SUBSET Cookie /\ copy \in Copies /\ copy.file \in Candidates(found)
    BY <1>1, CopyType, ViewType
<1>3. /\ copy' \in Copies /\ copy'.for = copy.for /\ copy'.file = copy.file
      /\ copy'.at \in {"log", "recover"} /\ copy'.main = mainFile[copy.file] /\ copy'.log = copy.log
    BY <1>1, <1>2 DEF Copies
<1>4. copy' # NoCopy
    BY <1>3, CookieImportAssumption
<1>5. CookieTypeOK'
    BY <1>1, <1>2, <1>3, <1>4 DEF CookieInv, CookieTypeOK, Candidates, Preferred
<1>6. CopyFits' /\ EvidenceFits'
    BY <1>1, <1>3, <1>4 DEF CookieInv, CopyFits, EvidenceFits, Candidates, Preferred
<1>7. CopyIsSaved'
    BY <1>1, <1>3, <1>4 DEF CookieInv, CopyIsSaved, View
<1>8. JarIsOneSession' /\ SessionLeavesNoCopy'
    BY <1>1, <1>4, NotAnswered, NoSessionYet
<1> QED BY <1>5, <1>6, <1>7, <1>8 DEF CookieInv

(* The log is copied after it.                                             *)
LEMMA CopyLogKeeps ==
    ASSUME CookieInv, CookieNext, CopyLog
    PROVE  CookieInv'
<1>1. /\ copy # NoCopy /\ copy.at = "log"
      /\ copy' = [copy EXCEPT !.log = wal[copy.file], !.at = "recover"]
      /\ UNCHANGED <<mainFile, wal, modified, commits, found, container, importer, evidence, session,
                     strays, mishaps, saved, mixed>>
    BY DEF CopyLog, CopyAt, browserVars
<1>2. /\ wal[copy.file] \in {NoLog} \cup SUBSET Cookie /\ copy \in Copies
      /\ copy.file \in Candidates(found)
    BY <1>1, CopyType, ViewType
<1>3. /\ copy' \in Copies /\ copy'.for = copy.for /\ copy'.file = copy.file
      /\ copy'.at = "recover" /\ copy'.main = copy.main /\ copy'.log = wal[copy.file]
    BY <1>1, <1>2 DEF Copies
<1>4. copy' # NoCopy
    BY <1>3, CookieImportAssumption
<1>5. CookieTypeOK'
    BY <1>1, <1>2, <1>3, <1>4 DEF CookieInv, CookieTypeOK, Candidates, Preferred
<1>6. CopyFits' /\ EvidenceFits'
    BY <1>1, <1>3, <1>4 DEF CookieInv, CopyFits, EvidenceFits, Candidates, Preferred
<1>7. CopyIsSaved'
    BY <1>1, <1>3, <1>4 DEF CookieInv, CopyIsSaved, View
<1>8. JarIsOneSession' /\ SessionLeavesNoCopy'
    BY <1>1, <1>4, NotAnswered, NoSessionYet
<1> QED BY <1>5, <1>6, <1>7, <1>8 DEF CookieInv

(* The copy is opened, and the log applied or refused.                     *)
LEMMA RecoverKeeps ==
    ASSUME CookieInv, CookieNext, Recover
    PROVE  CookieInv'
<1>1. /\ copy # NoCopy /\ copy.at = "recover"
      /\ UNCHANGED <<mainFile, wal, modified, commits, found, container, importer, evidence, session,
                     strays, mishaps, saved>>
    BY DEF Recover, CopyAt, browserVars
<1>2. copy \in Copies /\ copy.main \in SUBSET Cookie /\ Recovered \in SUBSET Cookie
      /\ copy.file \in Candidates(found)
    BY <1>1, CopyType DEF Recovered
<1>3. PICK cookies \in SUBSET Cookie :
         /\ copy' = [copy EXCEPT !.main = cookies, !.at = "read"]
         /\ \/ cookies = Recovered /\ mixed' = mixed
            \/ mixed' = (mixed \/ copy.for = "import")
  <2>1. CASE ~copy.disturbed
      BY <1>2, <2>1 DEF Recover
  <2>2. CASE copy.disturbed
    <3>1. PICK mix \in SUBSET (copy.main \cup Recovered) :
             copy' = [copy EXCEPT !.main = mix, !.at = "read"]
        BY <2>2 DEF Recover
    <3>2. mixed' = (mixed \/ copy.for = "import")
        BY <2>2 DEF Recover
    <3> QED BY <1>2, <3>1, <3>2
  <2> QED BY <2>1, <2>2
<1>4. /\ copy' \in Copies /\ copy'.for = copy.for /\ copy'.file = copy.file
      /\ copy'.at = "read" /\ copy'.main = cookies /\ copy'.log = copy.log
    BY <1>2, <1>3 DEF Copies
<1>5. copy' # NoCopy
    BY <1>4, CookieImportAssumption
<1>6. CookieTypeOK'
    BY <1>1, <1>2, <1>4, <1>5 DEF CookieInv, CookieTypeOK, Candidates, Preferred
<1>7. CopyFits' /\ EvidenceFits'
    BY <1>1, <1>4, <1>5 DEF CookieInv, CopyFits, EvidenceFits, Candidates, Preferred
<1>8. CopyIsSaved'
  <2>1. ASSUME copy.for = "import" PROVE Recovered \in saved
      BY <1>1, <2>1 DEF CookieInv, CopyIsSaved, Recovered
  <2>2. ASSUME copy.for = "import" PROVE mixed' \/ cookies \in saved
      BY <1>3, <2>1, <2>2
  <2> QED BY <1>1, <1>4, <1>5, <2>2 DEF CookieInv, CopyIsSaved, View
<1>9. JarIsOneSession' /\ SessionLeavesNoCopy'
    BY <1>1, <1>5, NotAnswered, NoSessionYet
<1> QED BY <1>6, <1>7, <1>8, <1>9 DEF CookieInv

(* A copy is made again, without the log.                                  *)
LEMMA CopyMainAloneKeeps ==
    ASSUME CookieInv, CookieNext, CopyMainAlone
    PROVE  CookieInv'
<1>1. /\ copy # NoCopy
      /\ copy' = [copy EXCEPT !.logs = FALSE, !.at = "main", !.main = {}, !.log = NoLog,
                              !.disturbed = FALSE]
      /\ UNCHANGED <<mainFile, wal, modified, commits, found, container, importer, evidence, session,
                     strays, saved, mixed>>
    BY DEF CopyMainAlone, browserVars
<1>2. copy \in Copies /\ copy.file \in Candidates(found) /\ mishaps' \in 0..MaxMishaps
    BY <1>1, CopyType, CookieImportAssumption DEF CopyMainAlone, Mishap, CookieInv, CookieTypeOK
<1>3. /\ copy' \in Copies /\ copy'.for = copy.for /\ copy'.file = copy.file
      /\ copy'.at = "main" /\ copy'.log = NoLog
    BY <1>1, <1>2 DEF Copies
<1>4. copy' # NoCopy
    BY <1>3, CookieImportAssumption
<1>5. CookieTypeOK'
    BY <1>1, <1>2, <1>3, <1>4 DEF CookieInv, CookieTypeOK, Candidates, Preferred
<1>6. CopyFits' /\ EvidenceFits'
    BY <1>1, <1>3, <1>4 DEF CookieInv, CopyFits, EvidenceFits, Candidates, Preferred
<1>7. CopyIsSaved'
    BY <1>1, <1>3, <1>4 DEF CookieInv, CopyIsSaved, View
<1>8. JarIsOneSession' /\ SessionLeavesNoCopy'
    BY <1>1, <1>4, NotAnswered, NoSessionYet
<1> QED BY <1>5, <1>6, <1>7, <1>8 DEF CookieInv

(* A copy fails.                                                           *)
LEMMA CopyFailsKeeps ==
    ASSUME CookieInv, CookieNext, CopyFails
    PROVE  CookieInv'
<1>1. /\ copy # NoCopy /\ copy' = NoCopy
      /\ strays' = strays \/ strays' = strays \cup {copy.for}
      /\ UNCHANGED <<mainFile, wal, modified, commits, found, container, session, saved, mixed>>
    BY DEF CopyFails, RemoveCopy, LeaveCopy, browserVars
<1>2. copy.for \in {"scan", "import"} /\ copy.file \in Candidates(found) /\ copy.stamp \in 0..2
      /\ mishaps' \in 0..MaxMishaps
    BY <1>1, CopyType, CookieImportAssumption DEF CopyFails, Mishap, CookieInv, CookieTypeOK
<1>3. CASE copy.for = "scan"
  <2>1. PICK p : p = copy.file
      OBVIOUS
  <2>2. PICK stamp : stamp = copy.stamp
      OBVIOUS
  <2>3. Scanned(p, stamp, {}) /\ UNCHANGED importer
      BY <1>3, <2>1, <2>2 DEF CopyFails
  <2>4. EvidenceFits' /\ DOMAIN evidence' = DOMAIN evidence \cup {p}
    <3>1. {} \in SUBSET Cookie /\ stamp \in 0..2 /\ EvidenceFits
        BY <1>2, <2>2 DEF CookieInv
    <3> QED BY <2>3, <3>1, ScannedType
  <2>5. strays' \subseteq {"scan", "import"} /\ ("import" \in strays' => "import" \in strays)
      BY <1>1, <1>3 DEF CookieInv, CookieTypeOK
  <2>6. CookieTypeOK'
      BY <1>1, <1>2, <2>1, <2>3, <2>4, <2>5 DEF CookieInv, CookieTypeOK, Candidates, Preferred
  <2>7. importer = "scan" /\ importer' = "scan"
      BY <1>1, <1>3, <2>3 DEF CookieInv, CopyFits
  <2>8. CopyFits' /\ CopyIsSaved'
      BY <1>1, <2>5, <2>7 DEF CookieInv, CopyFits, CopyIsSaved, Candidates, Preferred
  <2>9. JarIsOneSession' /\ SessionLeavesNoCopy'
      BY <1>1, NotAnswered, NoSessionYet
  <2> QED BY <2>4, <2>6, <2>8, <2>9 DEF CookieInv
<1>4. CASE copy.for # "scan"
  <2>1. importer' = "answered" /\ UNCHANGED evidence
      BY <1>4 DEF CopyFails
  <2>2. strays' \subseteq {"scan", "import"}
      BY <1>1, <1>2 DEF CookieInv, CookieTypeOK
  <2>3. CookieTypeOK'
      BY <1>1, <1>2, <2>1, <2>2 DEF CookieInv, CookieTypeOK, Candidates, Preferred
  <2>4. CopyFits' /\ CopyIsSaved' /\ EvidenceFits'
      BY <1>1, <2>1 DEF CookieInv, CopyFits, CopyIsSaved, EvidenceFits
  <2>5. JarIsOneSession' /\ SessionLeavesNoCopy'
      BY <1>1, NotAnswered, NoSessionYet
  <2> QED BY <2>3, <2>4, <2>5 DEF CookieInv
<1> QED BY <1>3, <1>4

(* The copy is scored and removed, or left.                                *)
LEMMA InspectSnapshotKeeps ==
    ASSUME CookieInv, CookieNext, InspectSnapshot
    PROVE  CookieInv'
<1>1. PICK p : p = copy.file
    OBVIOUS
<1>2. PICK stamp : stamp = copy.stamp
    OBVIOUS
<1>3. PICK cookies : cookies = copy.main
    OBVIOUS
<1>4. /\ copy # NoCopy /\ copy' = NoCopy /\ copy.for = "scan"
      /\ strays' = strays \/ strays' = strays \cup {copy.for}
      /\ Scanned(p, stamp, cookies)
      /\ UNCHANGED <<mainFile, wal, modified, commits, found, container, importer, session, mishaps,
                     saved, mixed>>
    BY <1>1, <1>2, <1>3 DEF InspectSnapshot, CopyAt, RemoveCopy, LeaveCopy, browserVars
<1>5. p \in Candidates(found) /\ stamp \in 0..2 /\ cookies \in SUBSET Cookie
    BY <1>1, <1>2, <1>3, <1>4, CopyType
<1>6. EvidenceFits' /\ DOMAIN evidence' = DOMAIN evidence \cup {p}
    BY <1>4, <1>5, ScannedType DEF CookieInv
<1>7. strays' \subseteq {"scan", "import"} /\ ("import" \in strays' => "import" \in strays)
    BY <1>4 DEF CookieInv, CookieTypeOK
<1>8. CookieTypeOK'
    BY <1>4, <1>5, <1>6, <1>7 DEF CookieInv, CookieTypeOK, Candidates, Preferred
<1>9. importer = "scan"
    BY <1>4 DEF CookieInv, CopyFits
<1>10. CopyFits' /\ CopyIsSaved'
    BY <1>4, <1>7, <1>9 DEF CookieInv, CopyFits, CopyIsSaved, Candidates, Preferred
<1>11. JarIsOneSession' /\ SessionLeavesNoCopy'
    BY <1>4, NotAnswered, NoSessionYet
<1> QED BY <1>6, <1>8, <1>10, <1>11 DEF CookieInv

(* What the import answers.                                                *)
LEMMA ImportAnswers ==
    ASSUME CookieInv, Import
    PROVE  /\ copy # NoCopy /\ copy.for = "import" /\ copy.at = "read" /\ copy' = NoCopy
           /\ importer' = "answered"
           /\ UNCHANGED <<browserVars, found, container, evidence, mishaps, saved, mixed>>
           /\ \/ strays' = strays
              \/ strays' = strays \cup {"import"} /\ session' = session
           /\ strays' = strays =>
                 \/ session' = session
                 \/ Importable(copy.main) = {} /\ session' = NoSession
                 \/ /\ Importable(copy.main) # {}
                    /\ \E b \in Best(Groups(Importable(copy.main))) :
                          session' = SessionOf(copy.file, b.container, Importable(copy.main))
<1>1. /\ copy # NoCopy /\ copy.for = "import" /\ copy.at = "read" /\ importer' = "answered"
      /\ UNCHANGED <<browserVars, found, container, evidence, mishaps, saved, mixed>>
    BY DEF Import, CopyAt
<1>2. CASE Importable(copy.main) = {}
    BY <1>1, <1>2 DEF Import, Answer, RemoveCopy, LeaveCopy
<1>3. CASE Importable(copy.main) # {}
  <2>1. PICK b \in Best(Groups(Importable(copy.main))) :
           Answer(SessionOf(copy.file, b.container, Importable(copy.main)))
      BY <1>3 DEF Import
  <2> QED BY <1>1, <1>3, <2>1 DEF Answer, RemoveCopy, LeaveCopy
<1> QED BY <1>2, <1>3

(* The copy is read, removed, and the import answered.                     *)
LEMMA ImportKeeps ==
    ASSUME CookieInv, CookieNext, Import
    PROVE  CookieInv'
<1>1. session = NoSession /\ "import" \notin strays
    BY NotAnswered
<1>2. PICK p : p = copy.file
    OBVIOUS
<1>3. PICK cookies : cookies = Importable(copy.main)
    OBVIOUS
<1>4. /\ copy # NoCopy /\ copy.for = "import" /\ copy.at = "read" /\ copy' = NoCopy
      /\ importer' = "answered"
      /\ UNCHANGED <<mainFile, wal, modified, commits, found, container, evidence, mishaps, saved, mixed>>
      /\ strays' = strays \/ strays' = strays \cup {"import"}
    BY ImportAnswers DEF browserVars
<1>5. p \in Paths /\ copy.main \in SUBSET Cookie /\ cookies \in SUBSET Cookie
    BY <1>2, <1>3, <1>4, CopyType DEF Importable
<1>6. \/ session' = NoSession
      \/ /\ cookies # {} /\ strays' = strays
         /\ \E b \in Best(Groups(cookies)) : session' = SessionOf(p, b.container, cookies)
    BY <1>1, <1>2, <1>3, ImportAnswers
<1>7. session' \in {NoSession} \cup Sessions
  <2>1. CASE session' = NoSession
      BY <2>1
  <2>2. ASSUME NEW b \in Best(Groups(cookies)), session' = SessionOf(p, b.container, cookies)
        PROVE  session' \in Sessions
    <3>1. b.container \in Nat
        BY <1>5, BestType
    <3> QED BY <1>5, <2>2, <3>1 DEF SessionOf, Sessions
  <2> QED BY <1>6, <2>1, <2>2
<1>8. strays' \subseteq {"scan", "import"}
    BY <1>4 DEF CookieInv, CookieTypeOK
<1>9. CookieTypeOK'
    BY <1>4, <1>7, <1>8 DEF CookieInv, CookieTypeOK, Candidates, Preferred
<1>10. CopyFits' /\ CopyIsSaved' /\ EvidenceFits'
    BY <1>4 DEF CookieInv, CopyFits, CopyIsSaved, EvidenceFits
<1>11. SessionLeavesNoCopy'
    BY <1>1, <1>4, <1>6 DEF SessionLeavesNoCopy
<1>12. JarIsOneSession'
  <2> SUFFICES ASSUME session' # NoSession, ~mixed' PROVE JarIsOneSession'
      BY DEF JarIsOneSession
  <2>1. PICK b \in Best(Groups(cookies)) : session' = SessionOf(p, b.container, cookies)
      BY <1>6
  <2>2. /\ session'.container = b.container
        /\ session'.jar = {c \in cookies : c.container = b.container}
      BY <2>1 DEF SessionOf
  <2>3. b.container \in {c.container : c \in cookies}
      BY <1>5, <1>6, <2>1, BestType
  <2>4. session'.jar # {}
      BY <2>2, <2>3
  <2>5. copy.main \in saved
      BY <1>4 DEF CookieInv, CopyIsSaved
  <2>6. PICK main : main = copy.main /\ main \in saved'
      BY <1>4, <2>5
  <2>7. cookies = Importable(main)'
      BY <1>3, <1>4, <2>6 DEF Importable
  <2> QED BY <2>2, <2>4, <2>6, <2>7 DEF JarIsOneSession
<1> QED BY <1>9, <1>10, <1>11, <1>12 DEF CookieInv

(* Every step keeps the invariant.                                         *)
LEMMA CookieInvNext ==
    ASSUME CookieInv, [CookieNext]_cookieVars
    PROVE  CookieInv'
<1>1. CASE UNCHANGED cookieVars
  <2>1. UNCHANGED <<mainFile, wal, modified, commits, found, container, importer, evidence, copy,
                   session, strays, mishaps, saved, mixed>>
      BY <1>1 DEF cookieVars, browserVars, importVars
  <2>2. CookieTypeOK' /\ CopyFits' /\ EvidenceFits'
      BY <2>1 DEF CookieInv, CookieTypeOK, CopyFits, EvidenceFits, Candidates, Preferred
  <2>3. CopyIsSaved' /\ JarIsOneSession' /\ SessionLeavesNoCopy'
      BY <2>1 DEF CookieInv, CopyIsSaved, JarIsOneSession, SessionLeavesNoCopy, View, Importable
  <2> QED BY <2>2, <2>3 DEF CookieInv
<1>2. CASE CookieNext
    BY <1>2, CommitKeeps, CheckpointKeeps, CollectKeeps, LiveReadKeeps, ScanSnapshotKeeps,
       ChooseKeeps, CopyMainKeeps, CopyLogKeeps, RecoverKeeps, CopyMainAloneKeeps, CopyFailsKeeps,
       InspectSnapshotKeeps, ImportKeeps DEF CookieNext
<1> QED BY <1>1, <1>2

(* The type invariant of the import, for any files, cookies and commits.   *)
THEOREM CookieTypesKept == CookieSpec => []CookieTypeOK
<1>1. CookieInv => CookieTypeOK
    BY DEF CookieInv
<1> QED BY CookieInvInit, CookieInvNext, <1>1, PTL DEF CookieSpec

(* The cookie jar is filled from one container of one state of one cookie  *)
(* file, although main file and log are copied one after the other while   *)
(* the browser writes and folds its log.                                   *)
THEOREM TheJarIsOneSession == CookieSpec => []JarIsOneSession
<1>1. CookieInv => JarIsOneSession
    BY DEF CookieInv
<1> QED BY CookieInvInit, CookieInvNext, <1>1, PTL DEF CookieSpec

(* A Session is returned only when no copy of the cookies is left of the   *)
(* import, whatever fails on the way.                                      *)
THEOREM NoCopyIsLeft == CookieSpec => []SessionLeavesNoCopy
<1>1. CookieInv => SessionLeavesNoCopy
    BY DEF CookieInv
<1> QED BY CookieInvInit, CookieInvNext, <1>1, PTL DEF CookieSpec

-----------------------------------------------------------------------------
(* An import that nothing disturbs.                                        *)

(* A step after which nothing was disturbed disturbs nothing.              *)
LEMMA UndisturbedStep ==
    ASSUME CookieInv, StillInv, CookieNext, commits' = 0
    PROVE  /\ commits = 0 /\ \A p \in Paths : wal[p] = NoLog
           /\ UNCHANGED <<mainFile, wal, modified, commits, found, container>>
           /\ Undisturbed' => Undisturbed /\ Still /\ mishaps' = mishaps /\ strays' = strays
<1>1. commits \in Nat /\ mishaps \in Nat
    BY CookieImportAssumption DEF CookieInv, CookieTypeOK
<1>2. ~(\E p \in Paths : Commit(p))
    BY <1>1 DEF Commit
<1>3. commits = 0
    BY <1>1, <1>2 DEF CookieNext, Checkpoint, Collect, LiveRead, ScanSnapshot, Choose, CopyMain,
                      CopyLog, Recover, CopyMainAlone, CopyFails, InspectSnapshot, Import, browserVars
<1>4. \A p \in Paths : wal[p] = NoLog
    BY <1>3 DEF StillInv
<1>5. ~(\E p \in Paths : Checkpoint(p))
    BY <1>4 DEF Checkpoint
<1>6. UNCHANGED <<mainFile, wal, modified, commits, found, container>>
    BY <1>2, <1>5 DEF CookieNext, Collect, LiveRead, ScanSnapshot, Choose, CopyMain,
                      CopyLog, Recover, CopyMainAlone, CopyFails, InspectSnapshot, Import, browserVars
<1>7. mishaps' = mishaps \/ mishaps' = mishaps + 1
    BY <1>2, <1>5 DEF CookieNext, Collect, LiveRead, ScanSnapshot, Choose, CopyMain, CopyLog, Recover,
                      CopyMainAlone, CopyFails, InspectSnapshot, Import, Mishap
<1>8. strays \subseteq strays'
    BY <1>2, <1>5 DEF CookieNext, Collect, LiveRead, ScanSnapshot, Choose, CopyMain, CopyLog, Recover,
                      CopyMainAlone, CopyFails, InspectSnapshot, Import, RemoveCopy, LeaveCopy, Answer
<1>9. ASSUME Undisturbed' PROVE Undisturbed /\ mishaps' = mishaps /\ strays' = strays
  <2>1. mishaps' = 0 /\ strays' = {}
      BY <1>9 DEF Undisturbed
  <2>2. mishaps = 0 /\ strays = {}
      BY <2>1, <1>1, <1>7, <1>8
  <2> QED BY <1>3, <1>6, <1>9, <2>1, <2>2 DEF Undisturbed
<1> QED BY <1>3, <1>4, <1>6, <1>9 DEF StillInv

(* The files and their evidence stay what they are.                        *)
LEMMA SeenKept ==
    ASSUME UNCHANGED <<mainFile, modified>>, NEW p
    PROVE  Seen(p)' = Seen(p)
BY DEF Seen

(* The candidates stay the same.                                           *)
LEMMA CandidatesKept ==
    ASSUME UNCHANGED found
    PROVE  Candidates(found)' = Candidates(found)
BY DEF Candidates, Preferred

(* A scan that finds what the file holds.                                  *)
LEMMA ScannedIsSeen ==
    ASSUME NEW p \in Paths, NEW stamp \in 0..2, NEW cookies \in SUBSET Cookie,
           Scanned(p, stamp, cookies), EvidenceFits, stamp = modified[p], cookies = mainFile[p],
           \A q \in DOMAIN evidence : evidence[q] \in Seen(q), UNCHANGED <<mainFile, modified>>
    PROVE  \A q \in DOMAIN evidence' : evidence'[q] \in Seen(q)'
<1>1. /\ DOMAIN evidence' = DOMAIN evidence \cup {p}
      /\ \A q \in DOMAIN evidence : q # p => evidence'[q] = evidence[q]
      /\ \E b \in Best(Groups(cookies)) :
            evidence'[p] = [container |-> b.container, score |-> b.score, modified |-> stamp]
    BY ScannedType
<1>2. evidence'[p] \in Seen(p)
    BY <1>1 DEF Seen
<1> QED BY <1>1, <1>2, SeenKept

(* The undisturbed scan.                                                   *)
LEMMA ScanStill ==
    ASSUME CookieInv, StillInv, CookieNext, Undisturbed', Collect \/ LiveRead \/ ScanSnapshot \/ Choose
    PROVE  Still'
<1>1. /\ \A p \in Paths : wal[p] = NoLog
      /\ UNCHANGED <<mainFile, wal, modified, found>> /\ Still
    BY UndisturbedStep DEF Undisturbed
<1>2. Candidates(found)' = Candidates(found)
    BY <1>1, CandidatesKept
<1>3. CASE Collect
  <2>1. /\ importer = "start" /\ importer' = IF Candidates(found) = {} THEN "answered" ELSE "scan"
        /\ UNCHANGED <<evidence, copy, session>>
      BY <1>3 DEF Collect
  <2>2. copy = NoCopy /\ session = NoSession
      BY <2>1 DEF CookieInv, CopyFits
  <2>3. \A p \in DOMAIN evidence' : evidence'[p] \in Seen(p)'
      BY <1>1, <2>1, SeenKept DEF Still
  <2> QED BY <1>2, <2>1, <2>2, <2>3 DEF Still
<1>4. CASE LiveRead
  <2>1. PICK p : p = NextFile
      OBVIOUS
  <2>2. PICK stamp : stamp = modified[p]
      OBVIOUS
  <2>3. PICK cookies : cookies = mainFile[p]
      OBVIOUS
  <2>4. /\ importer = "scan" /\ copy = NoCopy /\ Unscanned # {} /\ UNCHANGED <<importer, copy>>
        /\ Scanned(p, stamp, cookies)
      BY <1>4, <2>1, <2>2, <2>3 DEF LiveRead, Scanning
  <2>5. p \in Paths /\ stamp \in 0..2 /\ cookies \in SUBSET Cookie
      BY <2>1, <2>2, <2>3, <2>4, NextFileType, ViewType
  <2>6. \A q \in DOMAIN evidence' : evidence'[q] \in Seen(q)'
      BY <1>1, <2>2, <2>3, <2>4, <2>5, ScannedIsSeen DEF Still, CookieInv
  <2> QED BY <2>4, <2>6 DEF Still
<1>5. CASE ScanSnapshot
  <2>1. PICK p : p = NextFile
      OBVIOUS
  <2>2. importer = "scan" /\ Unscanned # {} /\ StartCopy("scan", p) /\ UNCHANGED <<importer, evidence>>
      BY <1>5, <2>1 DEF ScanSnapshot, Scanning
  <2>3. p \in Paths
      BY <2>1, <2>2, NextFileType
  <2>4. /\ copy'.for = "scan" /\ copy'.file = p /\ copy'.at = "main" /\ copy'.logs
        /\ copy'.log = NoLog /\ ~copy'.disturbed /\ copy'.stamp = modified[p]
      BY <2>2, <2>3, StartCopyType
  <2>5. CopyIsFile'
      BY <1>1, <2>4 DEF CopyIsFile
  <2>6. \A q \in DOMAIN evidence' : evidence'[q] \in Seen(q)'
      BY <1>1, <2>2, SeenKept DEF Still
  <2> QED BY <2>2, <2>5, <2>6 DEF Still
<1>6. CASE Choose
  <2>1. PICK p : p = Strongest(evidence)
      OBVIOUS
  <2>2. importer = "scan" /\ Unscanned = {} /\ importer' = "import" /\ StartCopy("import", p)
        /\ UNCHANGED evidence
      BY <1>6, <2>1 DEF Choose
  <2>3. DOMAIN evidence = Candidates(found) /\ DOMAIN evidence # {} /\ p \in Paths
      BY <2>1, <2>2, StrongestType
  <2>4. /\ copy'.for = "import" /\ copy'.file = p /\ copy'.at = "main" /\ copy'.logs
        /\ copy'.log = NoLog /\ ~copy'.disturbed /\ copy'.stamp = modified[p]
      BY <2>2, <2>3, StartCopyType
  <2>5. p = Strongest(evidence')
      BY <2>1, <2>2
  <2>6. CopyIsFile'
      BY <1>1, <2>4, <2>5 DEF CopyIsFile
  <2>7. \A q \in DOMAIN evidence' : evidence'[q] \in Seen(q)'
      BY <1>1, <2>2, SeenKept DEF Still
  <2> QED BY <1>2, <2>2, <2>3, <2>6, <2>7 DEF Still
<1> QED BY <1>3, <1>4, <1>5, <1>6

(* The undisturbed copy.                                                   *)
LEMMA CopyStill ==
    ASSUME CookieInv, StillInv, CookieNext, Undisturbed',
           CopyMain \/ CopyLog \/ Recover \/ CopyMainAlone \/ CopyFails \/ InspectSnapshot
    PROVE  Still'
<1>1. /\ \A p \in Paths : wal[p] = NoLog
      /\ UNCHANGED <<mainFile, wal, modified, found>> /\ Still
      /\ mishaps' = mishaps /\ strays' = strays /\ strays = {}
    BY UndisturbedStep DEF Undisturbed
<1>2. Candidates(found)' = Candidates(found)
    BY <1>1, CandidatesKept
<1>3. mishaps \in Nat
    BY CookieImportAssumption DEF CookieInv, CookieTypeOK
<1>4. copy # NoCopy
    BY DEF CopyMain, CopyLog, Recover, CopyMainAlone, CopyFails, InspectSnapshot, CopyAt
<1>5. CopyIsFile /\ copy \in Copies /\ copy.file \in Paths
    BY <1>1, <1>4, CopyType DEF Still
<1>6. ~CopyMainAlone /\ ~CopyFails
    BY <1>1, <1>3, <1>5 DEF CopyMainAlone, CopyFails, Mishap, CopyIsFile
<1>7. ASSUME UNCHANGED <<importer, evidence, session>>, CopyIsFile'
      PROVE  Still'
  <2>1. \A q \in DOMAIN evidence' : evidence'[q] \in Seen(q)'
      BY <1>1, <1>7, SeenKept DEF Still
  <2>2. importer # "answered"
      BY <1>4 DEF CookieInv, SessionLeavesNoCopy
  <2> QED BY <1>1, <1>2, <1>7, <2>1, <2>2 DEF Still
<1>8. CASE CopyMain
  <2>1. copy' = [copy EXCEPT !.main = mainFile[copy.file],
                             !.at = IF copy.logs THEN "log" ELSE "recover"]
        /\ UNCHANGED <<importer, evidence, session>>
      BY <1>8 DEF CopyMain
  <2>2. /\ copy'.logs = copy.logs /\ copy'.disturbed = copy.disturbed /\ copy'.log = copy.log
        /\ copy'.stamp = copy.stamp /\ copy'.file = copy.file /\ copy'.for = copy.for
        /\ copy'.main = mainFile[copy.file]
      BY <1>5, <2>1 DEF Copies
  <2>3. CopyIsFile'
      BY <1>1, <1>5, <2>1, <2>2 DEF CopyIsFile
  <2> QED BY <1>7, <2>1, <2>3
<1>9. CASE CopyLog
  <2>1. copy' = [copy EXCEPT !.log = wal[copy.file], !.at = "recover"] /\ copy.at = "log"
        /\ UNCHANGED <<importer, evidence, session>>
      BY <1>9 DEF CopyLog, CopyAt
  <2>2. /\ copy'.logs = copy.logs /\ copy'.disturbed = copy.disturbed /\ copy'.log = NoLog
        /\ copy'.stamp = copy.stamp /\ copy'.file = copy.file /\ copy'.for = copy.for
        /\ copy'.main = copy.main
      BY <1>1, <1>5, <2>1 DEF Copies
  <2>3. CopyIsFile'
      BY <1>1, <1>5, <2>1, <2>2 DEF CopyIsFile
  <2> QED BY <1>7, <2>1, <2>3
<1>10. CASE Recover
  <2>1. copy' = [copy EXCEPT !.main = Recovered, !.at = "read"] /\ copy.at = "recover"
        /\ UNCHANGED <<importer, evidence, session>>
      BY <1>5, <1>10 DEF Recover, CopyAt, CopyIsFile
  <2>2. Recovered = copy.main
      BY <1>5 DEF Recovered, CopyIsFile
  <2>3. /\ copy'.logs = copy.logs /\ copy'.disturbed = copy.disturbed /\ copy'.log = copy.log
        /\ copy'.stamp = copy.stamp /\ copy'.file = copy.file /\ copy'.for = copy.for
        /\ copy'.main = copy.main
      BY <1>5, <2>1, <2>2 DEF Copies
  <2>4. CopyIsFile'
      BY <1>1, <1>5, <2>1, <2>3 DEF CopyIsFile
  <2> QED BY <1>7, <2>1, <2>4
<1>11. CASE InspectSnapshot
  <2>1. PICK p : p = copy.file
      OBVIOUS
  <2>2. PICK stamp : stamp = copy.stamp
      OBVIOUS
  <2>3. PICK cookies : cookies = copy.main
      OBVIOUS
  <2>4. /\ copy.at = "read" /\ copy.for = "scan" /\ Scanned(p, stamp, cookies)
        /\ copy' = NoCopy /\ UNCHANGED importer
      BY <1>11, <2>1, <2>2, <2>3 DEF InspectSnapshot, CopyAt, RemoveCopy, LeaveCopy
  <2>5. /\ p \in Paths /\ stamp \in 0..2 /\ cookies \in SUBSET Cookie
        /\ stamp = modified[p] /\ cookies = mainFile[p]
      BY <1>4, <1>5, <2>1, <2>2, <2>3, <2>4, CopyType DEF CopyIsFile
  <2>6. \A q \in DOMAIN evidence' : evidence'[q] \in Seen(q)'
      BY <1>1, <2>4, <2>5, ScannedIsSeen DEF Still, CookieInv
  <2>7. importer = "scan"
      BY <1>4, <2>4 DEF CookieInv, CopyFits
  <2> QED BY <2>4, <2>6, <2>7 DEF Still
<1> QED BY <1>6, <1>8, <1>9, <1>10, <1>11

(* The undisturbed import.                                                 *)
LEMMA ImportStill ==
    ASSUME CookieInv, StillInv, CookieNext, Undisturbed', Import
    PROVE  Still'
<1>1. /\ UNCHANGED <<mainFile, wal, modified, found>> /\ Still /\ Undisturbed
      /\ strays' = strays /\ strays = {}
    BY UndisturbedStep DEF Undisturbed
<1>2. Candidates(found)' = Candidates(found)
    BY <1>1, CandidatesKept
<1>3. PICK p : p = copy.file
    OBVIOUS
<1>4. session = NoSession
    BY NotAnswered
<1>5. /\ copy # NoCopy /\ copy.for = "import" /\ copy.at = "read" /\ copy' = NoCopy
      /\ importer' = "answered" /\ UNCHANGED evidence
    BY ImportAnswers
<1>6. copy.main = mainFile[p] /\ p = Strongest(evidence) /\ p \in Paths
    BY <1>1, <1>3, <1>5, CopyType DEF Still, CopyIsFile
<1>7. importer = "import"
    BY <1>5 DEF CookieInv, CopyFits
<1>8. DOMAIN evidence = Candidates(found) /\ DOMAIN evidence # {}
    BY <1>1, <1>7 DEF Still
<1>9. Importable(mainFile[p]) = mainFile[p]
  <2>1. mainFile[p] \in SUBSET Cookie
      BY <1>6, ViewType
  <2>2. container = AnyContainer /\ \A c \in mainFile[p] : ~c.partitioned
      BY <1>1, <1>6, <2>1 DEF Undisturbed
  <2> QED BY <2>2 DEF Importable
<1>10. PICK cookies : cookies = mainFile[p]
    OBVIOUS
<1>11. \/ cookies = {} /\ session' = NoSession
       \/ /\ cookies # {}
          /\ \E b \in Best(Groups(cookies)) : session' = SessionOf(p, b.container, cookies)
  <2>1. \/ Importable(copy.main) = {} /\ session' = NoSession
        \/ /\ Importable(copy.main) # {}
           /\ \E b \in Best(Groups(Importable(copy.main))) :
                 session' = SessionOf(copy.file, b.container, Importable(copy.main))
    <3>1. CASE Importable(copy.main) = {}
      <4>1. Answer(NoSession)
          BY <3>1 DEF Import
      <4> QED BY <1>4, <3>1, <4>1 DEF Answer
    <3>2. CASE Importable(copy.main) # {}
      <4>1. PICK b \in Best(Groups(Importable(copy.main))) :
               Answer(SessionOf(copy.file, b.container, Importable(copy.main)))
          BY <3>2 DEF Import
      <4>2. ~LeaveCopy
          BY <1>1 DEF LeaveCopy
      <4> QED BY <3>2, <4>1, <4>2 DEF Answer
    <3> QED BY <3>1, <3>2
  <2>2. Importable(copy.main) = cookies /\ copy.file = p
      BY <1>3, <1>6, <1>9, <1>10
  <2> QED BY <2>1, <2>2
<1>12. AnswerIsOf(p)'
    BY <1>1, <1>10, <1>11 DEF AnswerIsOf, SessionOf
<1>13. AnswerIsOf(Strongest(evidence))'
    BY <1>5, <1>6, <1>12 DEF AnswerIsOf
<1>14. \A q \in DOMAIN evidence' : evidence'[q] \in Seen(q)'
    BY <1>1, <1>5, SeenKept DEF Still
<1> QED BY <1>2, <1>5, <1>8, <1>13, <1>14 DEF Still

(* Every step keeps what an undisturbed import relies on.                  *)
LEMMA StillNext ==
    ASSUME CookieInv, StillInv, [CookieNext]_cookieVars
    PROVE  StillInv'
<1>1. CASE UNCHANGED cookieVars
  <2>1. UNCHANGED <<mainFile, wal, modified, commits, found, container, importer, evidence, copy,
                   session, strays, mishaps, saved, mixed>>
      BY <1>1 DEF cookieVars, browserVars, importVars
  <2>2. Still' <=> Still
      BY <2>1, CandidatesKept DEF Still, Seen, CopyIsFile, AnswerIsOf
  <2> QED BY <2>1, <2>2 DEF StillInv, Undisturbed
<1>2. CASE CookieNext
  <2>1. commits' = 0 => \A p \in Paths : wal'[p] = NoLog
      BY <1>2, UndisturbedStep
  <2>2. ASSUME Undisturbed' PROVE Still'
    <3>1. commits' = 0
        BY <2>2 DEF Undisturbed
    <3>2. /\ ~(\E p \in Paths : Commit(p))
          /\ ~(\E p \in Paths : Checkpoint(p))
      <4>1. commits = 0 /\ \A p \in Paths : wal[p] = NoLog
          BY <1>2, <3>1, UndisturbedStep
      <4> QED BY <3>1, <4>1 DEF Commit, Checkpoint
    <3> QED BY <1>2, <2>2, <3>2, ScanStill, CopyStill, ImportStill DEF CookieNext
  <2> QED BY <2>1, <2>2 DEF StillInv
<1> QED BY <1>1, <1>2

-----------------------------------------------------------------------------
(* The order of all containers of all candidates.                          *)

(* When the first places are equal, the next one decides.                  *)
LEMMA AboveIfAbove ==
    ASSUME NEW a1, NEW a2, NEW a3, NEW a4, NEW a5, NEW a6, NEW a7, NEW a8,
           NEW b1, NEW b2, NEW b3, NEW b4, NEW b5, NEW b6, NEW b7, NEW b8,
           \/ a1 > b1
           \/ a1 = b1 /\ a2 > b2
           \/ a1 = b1 /\ a2 = b2 /\ a3 > b3
           \/ a1 = b1 /\ a2 = b2 /\ a3 = b3 /\ a4 > b4
           \/ a1 = b1 /\ a2 = b2 /\ a3 = b3 /\ a4 = b4 /\ a5 > b5
           \/ a1 = b1 /\ a2 = b2 /\ a3 = b3 /\ a4 = b4 /\ a5 = b5 /\ a6 > b6
           \/ a1 = b1 /\ a2 = b2 /\ a3 = b3 /\ a4 = b4 /\ a5 = b5 /\ a6 = b6 /\ a7 > b7
           \/ a1 = b1 /\ a2 = b2 /\ a3 = b3 /\ a4 = b4 /\ a5 = b5 /\ a6 = b6 /\ a7 = b7 /\ a8 > b8
    PROVE  Above(<<a1, a2, a3, a4, a5, a6, a7, a8>>,
                 <<b1, b2, b3, b4, b5, b6, b7, b8>>)
<1> DEFINE r == <<a1, a2, a3, a4, a5, a6, a7, a8>>
           s == <<b1, b2, b3, b4, b5, b6, b7, b8>>
<1>1. DOMAIN r = 1..8
    OBVIOUS
<1>2. ASSUME a1 > b1 PROVE Above(r, s)
    <2>1. 1 \in DOMAIN r /\ r[1] > s[1] /\ \A j \in 1..(1 - 1) : r[j] = s[j]
        BY <1>2
    <2> HIDE DEF r, s
    <2> QED BY <2>1 DEF Above
<1>3. ASSUME a1 = b1 /\ a2 > b2 PROVE Above(r, s)
    <2>1. 2 \in DOMAIN r /\ r[2] > s[2] /\ \A j \in 1..(2 - 1) : r[j] = s[j]
        BY <1>3
    <2> HIDE DEF r, s
    <2> QED BY <2>1 DEF Above
<1>4. ASSUME a1 = b1 /\ a2 = b2 /\ a3 > b3 PROVE Above(r, s)
    <2>1. 3 \in DOMAIN r /\ r[3] > s[3] /\ \A j \in 1..(3 - 1) : r[j] = s[j]
        BY <1>4
    <2> HIDE DEF r, s
    <2> QED BY <2>1 DEF Above
<1>5. ASSUME a1 = b1 /\ a2 = b2 /\ a3 = b3 /\ a4 > b4 PROVE Above(r, s)
    <2>1. 4 \in DOMAIN r /\ r[4] > s[4] /\ \A j \in 1..(4 - 1) : r[j] = s[j]
        BY <1>5
    <2> HIDE DEF r, s
    <2> QED BY <2>1 DEF Above
<1>6. ASSUME a1 = b1 /\ a2 = b2 /\ a3 = b3 /\ a4 = b4 /\ a5 > b5 PROVE Above(r, s)
    <2>1. 5 \in DOMAIN r /\ r[5] > s[5] /\ \A j \in 1..(5 - 1) : r[j] = s[j]
        BY <1>6
    <2> HIDE DEF r, s
    <2> QED BY <2>1 DEF Above
<1>7. ASSUME a1 = b1 /\ a2 = b2 /\ a3 = b3 /\ a4 = b4 /\ a5 = b5 /\ a6 > b6 PROVE Above(r, s)
    <2>1. 6 \in DOMAIN r /\ r[6] > s[6] /\ \A j \in 1..(6 - 1) : r[j] = s[j]
        BY <1>7
    <2> HIDE DEF r, s
    <2> QED BY <2>1 DEF Above
<1>8. ASSUME a1 = b1 /\ a2 = b2 /\ a3 = b3 /\ a4 = b4 /\ a5 = b5 /\ a6 = b6 /\ a7 > b7 PROVE Above(r, s)
    <2>1. 7 \in DOMAIN r /\ r[7] > s[7] /\ \A j \in 1..(7 - 1) : r[j] = s[j]
        BY <1>8
    <2> HIDE DEF r, s
    <2> QED BY <2>1 DEF Above
<1>9. ASSUME a1 = b1 /\ a2 = b2 /\ a3 = b3 /\ a4 = b4 /\ a5 = b5 /\ a6 = b6 /\ a7 = b7 /\ a8 > b8
      PROVE  Above(r, s)
    <2>1. 8 \in DOMAIN r /\ r[8] > s[8] /\ \A j \in 1..(8 - 1) : r[j] = s[j]
        BY <1>9
    <2> HIDE DEF r, s
    <2> QED BY <2>1 DEF Above
<1> QED BY <1>2, <1>3, <1>4, <1>5, <1>6, <1>7, <1>8, <1>9

(* What is known of the container n of a file that was scanned.            *)
LEMMA OfferType ==
    ASSUME CookieInv, NEW q \in Paths, evidence[q] \in Seen(q), NEW c \in mainFile[q]
    PROVE  /\ c.container \in Nat
           /\ Groups(mainFile[q])[c.container] \in Scores
           /\ evidence[q].container \in {d.container : d \in mainFile[q]}
           /\ evidence[q].score \in Scores /\ evidence[q].score.total > 0
           /\ evidence[q].modified = modified[q]
           /\ evidence[q].score = Groups(mainFile[q])[evidence[q].container]
           /\ \/ Exceeds(evidence[q].score, Groups(mainFile[q])[c.container])
              \/ /\ evidence[q].score = Groups(mainFile[q])[c.container]
                 /\ evidence[q].container <= c.container
<1> DEFINE g == Groups(mainFile[q])
<1>1. mainFile[q] \in SUBSET Cookie
    BY ViewType
<1>2. /\ DOMAIN g = {d.container : d \in mainFile[q]} /\ DOMAIN g \in SUBSET Nat
      /\ IsFiniteSet(DOMAIN g)
      /\ \A n \in DOMAIN g : g[n] \in Scores /\ g[n].total > 0
    BY <1>1, GroupsType
<1>3. c.container \in DOMAIN g
    BY <1>2
<1>4. PICK b \in Best(g) :
         evidence[q] = [container |-> b.container, score |-> b.score, modified |-> modified[q]]
    BY DEF Seen
<1> HIDE DEF g
<1>5. /\ b.container \in DOMAIN g /\ b.score = g[b.container]
      /\ c.container = b.container \/ BetterGroup(g, b.container, c.container)
  <2>1. /\ b.container \in DOMAIN g /\ b = [container |-> b.container, score |-> g[b.container]]
        /\ \A n \in DOMAIN g : n = b.container \/ BetterGroup(g, b.container, n)
      BY <1>2, <1>3, BestIsBest
  <2> QED BY <1>3, <2>1
<1>6. /\ evidence[q].container = b.container /\ evidence[q].score = b.score
      /\ evidence[q].modified = modified[q]
    BY <1>4
<1>7. c.container \in Nat /\ b.container \in Nat
    BY <1>2, <1>3, <1>5
<1>8. \/ Exceeds(b.score, g[c.container])
      \/ b.score = g[c.container] /\ b.container <= c.container
    BY <1>5, <1>7 DEF BetterGroup
<1> QED BY <1>2, <1>3, <1>5, <1>6, <1>7, <1>8 DEF g

(* A file that holds nothing is the strongest only when none holds any.    *)
LEMMA NothingOffered ==
    ASSUME CookieInv, NEW p \in Paths, evidence[p] \in Seen(p), mainFile[p] = {},
           \A q \in Candidates(found) : evidence[q] \in Seen(q),
           \A q \in Candidates(found) : q = p \/ BetterEvidence(evidence, p, q)
    PROVE  Offered = {}
<1> SUFFICES ASSUME NEW q \in Candidates(found), NEW c \in mainFile[q] PROVE FALSE
    BY DEF Offered
<1>1. q \in Paths
    BY CandidatesType DEF CookieInv, CookieTypeOK
<1>2. evidence[q].score \in Scores /\ evidence[q].score.total > 0
    BY <1>1, OfferType
<1>3. Exceeds(evidence[q].score, NoScore) /\ NoScore \in Scores
    BY <1>2, NoScoreType
<1>4. evidence[p].score = NoScore
  <2>1. PICK b \in Best(Groups(mainFile[p])) :
           evidence[p] = [container |-> b.container, score |-> b.score, modified |-> modified[p]]
      BY DEF Seen
  <2>2. DOMAIN Groups(mainFile[p]) = {}
      BY DEF Groups
  <2>3. b.score = NoScore
      BY <2>1, <2>2 DEF Best
  <2> QED BY <2>1, <2>3
<1>5. BetterEvidence(evidence, p, q)
    OBVIOUS
<1>6. Exceeds(NoScore, evidence[q].score) \/ NoScore = evidence[q].score
    BY <1>4, <1>5 DEF BetterEvidence
<1> QED BY <1>2, <1>3, <1>6, ExceedsOrder

(* The chosen container stands above every other that is offered.          *)
LEMMA ChosenIsAbove ==
    ASSUME CookieInv, NEW p \in Paths, evidence[p] \in Seen(p), mainFile[p] # {},
           NEW q \in Paths, evidence[q] \in Seen(q), NEW c \in mainFile[q],
           q = p \/ BetterEvidence(evidence, p, q)
    PROVE  \/ q = p /\ c.container = evidence[p].container
           \/ Above(Rank(p, evidence[p].container), Rank(q, c.container))
<1> DEFINE m == evidence[p].container
           n == c.container
           s == evidence[p].score
           t == Groups(mainFile[q])[n]
<1>1. /\ n \in Nat /\ t \in Scores /\ evidence[q].score \in Scores
      /\ evidence[q].score.total > 0 /\ evidence[q].modified = modified[q]
      /\ evidence[q].container \in Nat
      /\ \/ Exceeds(evidence[q].score, t)
         \/ evidence[q].score = t /\ evidence[q].container <= n
  <2>1. {d.container : d \in mainFile[q]} \subseteq Nat
      BY ViewType, CookieImportAssumption
  <2> QED BY <2>1, OfferType
<1>2. /\ m \in Nat /\ s \in Scores /\ s.total > 0 /\ evidence[p].modified = modified[p]
      /\ s = Groups(mainFile[p])[m]
  <2>1. PICK d \in mainFile[p] : TRUE
      OBVIOUS
  <2>2. {e.container : e \in mainFile[p]} \subseteq Nat
      BY ViewType, CookieImportAssumption
  <2> QED BY <2>1, <2>2, OfferType
<1>3. /\ Rank(p, m) = <<s.session, s.token, s.total, modified[p], IF m = 0 THEN 1 ELSE 0,
                         IF IsDefault[p] THEN 1 ELSE 0, -p, -m>>
      /\ Rank(q, n) = <<t.session, t.token, t.total, modified[q], IF n = 0 THEN 1 ELSE 0,
                         IF IsDefault[q] THEN 1 ELSE 0, -q, -n>>
    BY <1>2 DEF Rank, NoContainer
<1>4. /\ p \in Nat /\ q \in Nat /\ modified[p] \in Nat /\ modified[q] \in Nat
      /\ IsDefault[p] \in BOOLEAN /\ IsDefault[q] \in BOOLEAN
    BY ViewType, CookieChoiceAssumption
<1> DEFINE u == evidence[q].score
           k == evidence[q].container
<1>5. \/ q = p
      \/ Exceeds(s, u)
      \/ /\ s = u
         /\ \/ modified[p] > modified[q]
            \/ modified[p] = modified[q] /\ m = 0 /\ k # 0
            \/ /\ modified[p] = modified[q] /\ (m = 0 <=> k = 0)
               /\ \/ IsDefault[p] /\ ~IsDefault[q]
                  \/ IsDefault[p] = IsDefault[q] /\ p < q
  <2>1. s # NoScore
      BY <1>2, NoScoreType, ExceedsOrder
  <2>2. ASSUME BetterEvidence(evidence, p, q), ~Exceeds(s, u)
        PROVE  /\ s = u
               /\ \/ modified[p] > modified[q]
                  \/ modified[p] = modified[q] /\ m = 0 /\ k # 0
                  \/ /\ modified[p] = modified[q] /\ (m = 0 <=> k = 0)
                     /\ \/ IsDefault[p] /\ ~IsDefault[q]
                        \/ IsDefault[p] = IsDefault[q] /\ p < q
      BY <1>1, <1>2, <1>4, <2>1, <2>2 DEF BetterEvidence, NoContainer
  <2> QED BY <2>2
<1> HIDE DEF m, n, s, t, u, k
<1>6. /\ t \in Scores /\ s \in Scores /\ u \in Scores /\ m \in Nat /\ n \in Nat /\ k \in Nat
      /\ Exceeds(u, t) \/ (u = t /\ k <= n)
      /\ q = p => u = s /\ k = m
    BY <1>1, <1>2 DEF m, n, s, t, u, k
<1>7. CASE Exceeds(s, t)
  <2>1. \/ s.session > t.session
        \/ s.session = t.session /\ s.token > t.token
        \/ s.session = t.session /\ s.token = t.token /\ s.total > t.total
      BY <1>7 DEF Exceeds
  <2>2. Above(Rank(p, m), Rank(q, n))
      BY <1>3, <2>1, AboveIfAbove
  <2> QED BY <2>2 DEF m, n
<1>8. CASE ~Exceeds(s, t)
  <2>1. s = t /\ u = t /\ k <= n
      BY <1>5, <1>6, <1>8, ExceedsOrder
  <2>2. CASE q = p
    <3>1. m = n \/ m < n
        BY <1>6, <2>1, <2>2
    <3>2. ASSUME m < n PROVE Above(Rank(p, m), Rank(q, n))
      <4>1. CASE m = 0
        <5>1. (IF m = 0 THEN 1 ELSE 0) > (IF n = 0 THEN 1 ELSE 0)
            BY <1>6, <3>2, <4>1
        <5> QED BY <1>3, <2>1, <2>2, <5>1, AboveIfAbove
      <4>2. CASE m # 0
        <5>1. -m > -n /\ (IF m = 0 THEN 1 ELSE 0) = (IF n = 0 THEN 1 ELSE 0)
            BY <1>6, <3>2, <4>2
        <5> QED BY <1>3, <2>1, <2>2, <5>1, AboveIfAbove
      <4> QED BY <4>1, <4>2
    <3> QED BY <2>2, <3>1, <3>2 DEF m, n
  <2>3. CASE q # p
    <3>1. ~Exceeds(s, u)
        BY <1>6, <1>8, <2>1
    <3>2. CASE modified[p] > modified[q]
      <4>1. Above(Rank(p, m), Rank(q, n))
          BY <1>3, <2>1, <3>2, AboveIfAbove
      <4> QED BY <4>1 DEF m, n
    <3>3. CASE modified[p] = modified[q] /\ m = 0 /\ n # 0
      <4>1. (IF m = 0 THEN 1 ELSE 0) > (IF n = 0 THEN 1 ELSE 0)
          BY <3>3
      <4>2. Above(Rank(p, m), Rank(q, n))
          BY <1>3, <2>1, <3>3, <4>1, AboveIfAbove
      <4> QED BY <4>2 DEF m, n
    <3>4. CASE /\ modified[p] = modified[q] /\ (m = 0 <=> n = 0)
               /\ \/ IsDefault[p] /\ ~IsDefault[q]
                  \/ IsDefault[p] = IsDefault[q] /\ p < q
      <4>1. (IF m = 0 THEN 1 ELSE 0) = (IF n = 0 THEN 1 ELSE 0)
          BY <3>4
      <4>2. CASE IsDefault[p] /\ ~IsDefault[q]
        <5>1. (IF IsDefault[p] THEN 1 ELSE 0) > (IF IsDefault[q] THEN 1 ELSE 0)
            BY <4>2
        <5>2. Above(Rank(p, m), Rank(q, n))
            BY <1>3, <2>1, <3>4, <4>1, <5>1, AboveIfAbove
        <5> QED BY <5>2 DEF m, n
      <4>3. CASE IsDefault[p] = IsDefault[q] /\ p < q
        <5>1. -p > -q /\ (IF IsDefault[p] THEN 1 ELSE 0) = (IF IsDefault[q] THEN 1 ELSE 0)
            BY <1>4, <4>3
        <5>2. Above(Rank(p, m), Rank(q, n))
            BY <1>3, <2>1, <3>4, <4>1, <5>1, AboveIfAbove
        <5> QED BY <5>2 DEF m, n
      <4> QED BY <3>4, <4>2, <4>3
    <3>5. \/ modified[p] > modified[q]
          \/ modified[p] = modified[q] /\ m = 0 /\ n # 0
          \/ /\ modified[p] = modified[q] /\ (m = 0 <=> n = 0)
             /\ \/ IsDefault[p] /\ ~IsDefault[q]
                \/ IsDefault[p] = IsDefault[q] /\ p < q
        BY <1>5, <1>6, <2>1, <2>3, <3>1
    <3> QED BY <3>2, <3>3, <3>4, <3>5
  <2> QED BY <2>2, <2>3
<1> QED BY <1>7, <1>8

(* The answer of an undisturbed import is the first of what is offered.    *)
LEMMA StillChoosesBest == CookieInv /\ StillInv => StrongestProfileWins
<1> SUFFICES ASSUME CookieInv, StillInv, importer = "answered", Undisturbed
             PROVE  /\ session = NoSession <=> Offered = {}
                    /\ session # NoSession =>
                          /\ <<session.file, session.container>> \in Offered
                          /\ \A o \in Offered :
                                o = <<session.file, session.container>>
                                    \/ Above(Rank(session.file, session.container), Rank(o[1], o[2]))
    BY DEF StrongestProfileWins
<1>1. Still
    BY DEF StillInv
<1>2. CASE Candidates(found) = {} /\ session = NoSession
    BY <1>2 DEF Offered
<1>3. CASE /\ DOMAIN evidence = Candidates(found) /\ DOMAIN evidence # {}
           /\ AnswerIsOf(Strongest(evidence))
  <2>1. PICK p : p = Strongest(evidence)
      OBVIOUS
  <2>2. Candidates(found) \subseteq Paths
      BY CandidatesType DEF CookieInv, CookieTypeOK
  <2>3. /\ p \in Candidates(found)
        /\ \A q \in Candidates(found) : q = p \/ BetterEvidence(evidence, p, q)
      BY <1>3, <2>1, <2>2, StrongestIsBest DEF CookieInv, EvidenceFits
  <2>4. \A q \in Candidates(found) : evidence[q] \in Seen(q)
      BY <1>1, <1>3 DEF Still
  <2>5. p \in Paths /\ evidence[p] \in Seen(p) /\ mainFile[p] \in SUBSET Cookie
      BY <2>2, <2>3, <2>4, ViewType
  <2>6. CASE mainFile[p] = {}
    <3>1. session = NoSession
        BY <1>3, <2>1, <2>6 DEF AnswerIsOf
    <3>2. Offered = {}
        BY <2>3, <2>4, <2>5, <2>6, NothingOffered
    <3> QED BY <3>1, <3>2
  <2>7. CASE mainFile[p] # {}
    <3>1. PICK b \in Best(Groups(mainFile[p])) : session = SessionOf(p, b.container, mainFile[p])
        BY <1>3, <2>1, <2>7 DEF AnswerIsOf
    <3>2. b.container \in Nat /\ b.container \in {c.container : c \in mainFile[p]}
        BY <2>5, <2>7, BestType
    <3>3. session \in Sessions /\ session.file = p /\ session.container = b.container
        BY <2>5, <3>1, <3>2 DEF SessionOf, Sessions
    <3>4. session # NoSession
        BY <3>3, CookieImportAssumption
    <3>5. <<p, b.container>> \in Offered
        BY <2>3, <3>2 DEF Offered
    <3>6. evidence[p].container = b.container
      <4>1. PICK d \in Best(Groups(mainFile[p])) :
               evidence[p] = [container |-> d.container, score |-> d.score, modified |-> modified[p]]
          BY <2>5 DEF Seen
      <4>2. d = b
          BY <2>5, <4>1, BestIsOne
      <4> QED BY <4>1, <4>2
    <3>7. ASSUME NEW o \in Offered
          PROVE  o = <<p, b.container>> \/ Above(Rank(p, b.container), Rank(o[1], o[2]))
      <4>1. PICK q \in Candidates(found) : \E c \in mainFile[q] : o = <<q, c.container>>
          BY <3>7 DEF Offered
      <4>2. PICK c \in mainFile[q] : o = <<q, c.container>>
          BY <4>1
      <4>3. q \in Paths /\ evidence[q] \in Seen(q) /\ (q = p \/ BetterEvidence(evidence, p, q))
          BY <2>2, <2>3, <2>4
      <4>4. \/ q = p /\ c.container = evidence[p].container
            \/ Above(Rank(p, evidence[p].container), Rank(q, c.container))
          BY <2>5, <2>7, <4>3, ChosenIsAbove
      <4> QED BY <3>6, <4>2, <4>4
    <3> QED BY <3>3, <3>4, <3>5, <3>7
  <2> QED BY <2>6, <2>7
<1> QED BY <1>1, <1>2, <1>3 DEF Still

(* While the browser writes nothing and nothing fails, the choice, made in *)
(* two stages and over maps without order, is the first of all containers  *)
(* of all candidates in one order, and there is a session whenever a       *)
(* candidate has a cookie.                                                 *)
THEOREM TheStrongestProfileWins == CookieSpec => []StrongestProfileWins
<1>1. CookieInv /\ StillInv /\ [CookieNext]_cookieVars => (CookieInv /\ StillInv)'
    BY CookieInvNext, StillNext
<1> QED BY CookieInvInit, StillInit, StillChoosesBest, <1>1, PTL DEF CookieSpec

=============================================================================
