-------------------------- MODULE PublicationsProofs --------------------------
(***************************************************************************)
(* Proofs about Publications and KpiHours, for any catalogue of results,   *)
(* any works, people, lists of authors and requests.                       *)
(*                                                                         *)
(* That the owner is on the list is not inductive: Alone and OwnerComes    *)
(* follow whoever sends a list until it is saved in full. What the rows    *)
(* are worth holds of any rows of their types (RowsTyped): of the sums of  *)
(* the hours, that they may be taken in any order and compared term by     *)
(* term is proved first.                                                   *)
(***************************************************************************)
EXTENDS Publications, FiniteSetTheorems, WellFoundedInduction, TLAPS

----------------------------------------------------------------------------
(* Induction, for sets of numbers and of parts, and sums.                  *)

\* A set of numbers that is not empty has a least one.
LEMMA LeastOfNats ==
  ASSUME NEW S \in SUBSET Nat, S # {}
  PROVE  \E x \in S : \A y \in S : x <= y
<1>1. PICK x \in S : \A y \in S : ~ (<<y, x>> \in OpToRel(<, Nat))
  BY WFMin, NatLessThanWellFounded
<1>2. \A y \in S : ~(y < x)
  BY <1>1 DEF OpToRel
<1> QED
  BY <1>2

\* Induction over the numbers, for a set of them.
LEMMA AllNats ==
  ASSUME NEW G, 0 \in G, \A n \in Nat : n \in G => n + 1 \in G
  PROVE  Nat \subseteq G
<1> SUFFICES ASSUME Nat \ G # {} PROVE FALSE
  OBVIOUS
<1>1. PICK n \in Nat \ G : \A m \in Nat \ G : n <= m
  BY LeastOfNats
<1>2. n # 0 /\ n - 1 \in Nat /\ n - 1 \in G
  BY <1>1
<1> QED
  BY <1>1, <1>2

\* Induction over the parts of a finite set, for a set of them.
LEMMA AllParts ==
  ASSUME NEW S, IsFiniteSet(S), NEW G, {} \in G,
         \A T \in SUBSET S, x \in S : T \in G /\ x \notin T => T \cup {x} \in G
  PROVE  SUBSET S \subseteq G
<1>1. ASSUME NEW n \in Nat, \A T \in SUBSET S : Cardinality(T) = n => T \in G,
             NEW T \in SUBSET S, Cardinality(T) = n + 1
      PROVE  T \in G
  <2>1. IsFiniteSet(T)
    BY FS_Subset
  <2>2. T # {}
    <3>1. Cardinality({}) = 0 /\ n + 1 # 0
      BY FS_EmptySet
    <3> QED
      BY <1>1, <3>1
  <2>3. PICK x \in T : TRUE
    BY <2>2
  <2>4. Cardinality(T \ {x}) = Cardinality(T) - 1
    BY <2>1, <2>3, FS_RemoveElement
  <2>5. T \ {x} \in G
    BY <1>1, <2>4
  <2>6. (T \ {x}) \cup {x} = T /\ x \in S /\ T \ {x} \in SUBSET S /\ x \notin T \ {x}
    BY <2>3
  <2> QED
    BY <2>5, <2>6
<1> DEFINE Good == {n \in Nat : \A T \in SUBSET S : Cardinality(T) = n => T \in G}
<1>2. 0 \in Good
  BY FS_Subset, FS_EmptySet
<1>3. \A n \in Nat : n \in Good => n + 1 \in Good
  BY <1>1
<1>4. Nat \subseteq Good
  <2> HIDE DEF Good
  <2> QED
    BY <1>2, <1>3, AllNats
<1>5. \A T \in SUBSET S : Cardinality(T) \in Nat
  BY FS_Subset, FS_CardinalityType
<1> QED
  BY <1>4, <1>5

\* g gives the sum of f over every part of S.
IsSum(g, f, S) ==
    /\ g \in [SUBSET S -> Int] /\ g[{}] = 0
    /\ \A T \in SUBSET S, x \in S : x \notin T => g[T \cup {x}] = f[x] + g[T]

\* The sum as the community modules define it: one element after the other.
Someone(s) == CHOOSE x \in s : TRUE
Onward(g, f, parts) ==
    g = [s \in parts |-> IF s = {} THEN 0 ELSE f[Someone(s)] + g[s \ {Someone(s)}]]

\* The operator is the function that goes on to the next element.
LEMMA SumIsOver ==
  ASSUME NEW f
  PROVE  SumFunction(f) = (CHOOSE g : Onward(g, f, SUBSET (DOMAIN f)))[DOMAIN f]
BY DEF SumFunction, SumFunctionOnSet, FoldFunctionOnSet, MapThenFoldSet, Onward, Someone

\* Whom a set gives is in it.
LEMMA SomeoneIsIn == \A s : s # {} => Someone(s) \in s
BY DEF Someone

\* There is such a function, for more and more elements.
LEMMA SumsExist ==
  ASSUME NEW S, IsFiniteSet(S), NEW f \in [S -> Int]
  PROVE  \E g : Onward(g, f, SUBSET S)
<1> DEFINE upto(n) == {s \in SUBSET S : Cardinality(s) <= n}
           Good == {n \in Nat : \E g : Onward(g, f, upto(n))}
<1>0. \A s \in SUBSET S : IsFiniteSet(s) /\ Cardinality(s) \in Nat
  BY FS_Subset, FS_CardinalityType
<1>1. 0 \in Good
  <2>1. \A s \in upto(0) : s = {}
    BY <1>0, FS_EmptySet
  <2> DEFINE g == [s \in upto(0) |-> 0]
  <2>2. g = [s \in upto(0) |-> IF s = {} THEN 0 ELSE f[Someone(s)] + g[s \ {Someone(s)}]]
    BY <2>1
  <2> QED
    BY <2>2 DEF Onward
<1>2. \A n \in Nat : n \in Good => n + 1 \in Good
  <2> SUFFICES ASSUME NEW n \in Nat, n \in Good PROVE n + 1 \in Good
    OBVIOUS
  <2>1. PICK g : Onward(g, f, upto(n))
    OBVIOUS
  <2> DEFINE h == [s \in upto(n + 1) |->
                      IF s = {} THEN 0 ELSE f[Someone(s)] + g[s \ {Someone(s)}]]
  <2>2. \A s \in upto(n) : h[s] = g[s]
    <3>1. upto(n) \subseteq upto(n + 1)
      BY <1>0
    <3> HIDE DEF upto
    <3> QED
      BY <2>1, <3>1 DEF Onward
  <2>3. \A s \in upto(n + 1) : s # {} => s \ {Someone(s)} \in upto(n)
    <3> SUFFICES ASSUME NEW s \in upto(n + 1), s # {}
                 PROVE  s \ {Someone(s)} \in upto(n)
      OBVIOUS
    <3>1. Cardinality(s \ {Someone(s)}) = Cardinality(s) - 1
      BY <1>0, SomeoneIsIn, FS_RemoveElement
    <3> QED
      BY <1>0, <3>1
  <2>4. h = [s \in upto(n + 1) |-> IF s = {} THEN 0 ELSE f[Someone(s)] + h[s \ {Someone(s)}]]
    <3>1. \A s \in upto(n + 1) : s # {} => h[s \ {Someone(s)}] = g[s \ {Someone(s)}]
      BY <2>2, <2>3
    <3> HIDE DEF upto
    <3> QED
      BY <3>1
  <2>5. \E k : Onward(k, f, upto(n + 1))
    <3> HIDE DEF h, upto
    <3> QED
      BY <2>4 DEF Onward
  <2> HIDE DEF h, upto
  <2> QED
    BY <2>5
<1>3. Nat \subseteq Good
  <2> HIDE DEF Good
  <2> QED
    BY <1>1, <1>2, AllNats
<1>4. Cardinality(S) \in Nat /\ upto(Cardinality(S)) = SUBSET S
  BY FS_Subset, FS_CardinalityType
<1> QED
  BY <1>3, <1>4

\* What is summed one after the other may be summed in any order.
LEMMA OnwardIsSum ==
  ASSUME NEW S, IsFiniteSet(S), NEW f \in [S -> Int], NEW g, Onward(g, f, SUBSET S)
  PROVE  IsSum(g, f, S)
<1> DEFINE Good == {n \in Nat : \A s \in SUBSET S : Cardinality(s) <= n =>
                        /\ g[s] \in Int
                        /\ \A x \in s : g[s] = f[x] + g[s \ {x}]}
<1>0. \A s \in SUBSET S : IsFiniteSet(s) /\ Cardinality(s) \in Nat
  BY FS_Subset, FS_CardinalityType
<1>1. g[{}] = 0
  BY DEF Onward
<1>2. \A s \in SUBSET S : s # {} =>
         Someone(s) \in s /\ g[s] = f[Someone(s)] + g[s \ {Someone(s)}]
  BY SomeoneIsIn DEF Onward
<1>3. 0 \in Good
  BY <1>0, <1>1, FS_EmptySet
<1>4. ASSUME NEW n \in Nat,
             \A s \in SUBSET S : Cardinality(s) <= n =>
                /\ g[s] \in Int
                /\ \A x \in s : g[s] = f[x] + g[s \ {x}],
             NEW s \in SUBSET S, Cardinality(s) <= n + 1, s # {}
      PROVE  /\ g[s] \in Int
             /\ \A x \in s : g[s] = f[x] + g[s \ {x}]
  <2>2. \A x \in s : Cardinality(s \ {x}) <= n /\ s \ {x} \in SUBSET S
    BY <1>0, <1>4, FS_RemoveElement
  <2>3. \A x \in s : /\ g[s \ {x}] \in Int
                     /\ \A z \in s \ {x} : g[s \ {x}] = f[z] + g[(s \ {x}) \ {z}]
    BY <1>4, <2>2
  <2> DEFINE y == Someone(s)
  <2>4. y \in s /\ g[s] = f[y] + g[s \ {y}]
    BY <1>2, <1>4
  <2> HIDE DEF y
  <2>5. g[s] \in Int
    <3>1. f[y] \in Int /\ g[s \ {y}] \in Int
      BY <2>3, <2>4
    <3> QED
      BY <2>4, <3>1
  <2>6. ASSUME NEW x \in s, x # y PROVE g[s] = f[x] + g[s \ {x}]
    <3>1. (s \ {x}) \ {y} = (s \ {y}) \ {x}
      OBVIOUS
    <3>2. g[s \ {y}] = f[x] + g[(s \ {y}) \ {x}]
      BY <2>3, <2>4, <2>6
    <3>3. g[s \ {x}] = f[y] + g[(s \ {y}) \ {x}]
      BY <2>3, <2>4, <2>6, <3>1
    <3>4. g[(s \ {y}) \ {x}] \in Int
      <4>1. Cardinality((s \ {y}) \ {x}) <= Cardinality(s \ {y})
        BY <1>0, FS_Subset
      <4>2. Cardinality((s \ {y}) \ {x}) <= n
        BY <1>0, <2>2, <2>4, <4>1
      <4> QED
        BY <1>4, <4>2
    <3> QED
      BY <2>4, <3>2, <3>3, <3>4
  <2> QED
    BY <2>4, <2>5, <2>6
<1>5. ASSUME NEW n \in Nat, n \in Good PROVE n + 1 \in Good
  <2>1. \A t \in SUBSET S : Cardinality(t) <= n =>
           /\ g[t] \in Int
           /\ \A x \in t : g[t] = f[x] + g[t \ {x}]
    BY <1>5
  <2>2. ASSUME NEW s \in SUBSET S, Cardinality(s) <= n + 1
        PROVE  /\ g[s] \in Int
               /\ \A x \in s : g[s] = f[x] + g[s \ {x}]
    <3>1. CASE s = {}
      BY <1>1, <3>1
    <3>2. CASE s # {}
      BY <1>4, <2>1, <2>2, <3>2
    <3> QED
      BY <3>1, <3>2
  <2> QED
    BY <2>2
<1>6. Nat \subseteq Good
  <2> HIDE DEF Good
  <2> QED
    BY <1>3, <1>5, AllNats
<1>7. \A s \in SUBSET S : g[s] \in Int /\ \A x \in s : g[s] = f[x] + g[s \ {x}]
  BY <1>0, <1>6
<1>8. g \in [SUBSET S -> Int]
  BY <1>7 DEF Onward
<1>9. ASSUME NEW T \in SUBSET S, NEW x \in S, x \notin T
      PROVE  g[T \cup {x}] = f[x] + g[T]
  <2>1. T \cup {x} \in SUBSET S /\ (T \cup {x}) \ {x} = T
    BY <1>9
  <2> QED
    BY <1>7, <2>1
<1> QED
  BY <1>1, <1>8, <1>9 DEF IsSum

\* There is a sum, and the community modules' operator is its value for the whole.
LEMMA SumOfAll ==
  ASSUME NEW S, IsFiniteSet(S), NEW f \in [S -> Int]
  PROVE  \E g : IsSum(g, f, S) /\ SumFunction(f) = g[S]
<1> DEFINE g == CHOOSE g : Onward(g, f, SUBSET S)
<1>1. Onward(g, f, SUBSET S)
  BY SumsExist
<1>2. SumFunction(f) = g[S]
  BY SumIsOver
<1> HIDE DEF g
<1> QED
  BY <1>1, <1>2, OnwardIsSum

\* Of numbers that are not negative, some sum to no more than all.
LEMMA PartsSumToLess ==
  ASSUME NEW S, IsFiniteSet(S), NEW f \in [S -> Nat], NEW g, IsSum(g, f, S),
         NEW T \in SUBSET S
  PROVE  g[T] <= g[S]
<1>0. f \in [S -> Int]
  OBVIOUS
<1>1. g[{}] = 0
  BY DEF IsSum
<1>2. ASSUME NEW U \in SUBSET S, NEW x \in S, x \notin U,
             \A t \in SUBSET U : g[t] <= g[U],
             NEW t \in SUBSET (U \cup {x})
      PROVE  g[t] <= g[U \cup {x}]
  <2>1. g[U] \in Int /\ g[U \cup {x}] = f[x] + g[U] /\ f[x] \in Nat
    BY <1>2 DEF IsSum
  <2>2. CASE x \in t
    <3>1. t \ {x} \in SUBSET U /\ (t \ {x}) \cup {x} = t /\ t \ {x} \in SUBSET S
      BY <2>2
    <3>2. g[t \ {x}] <= g[U]
      BY <1>2, <3>1
    <3>3. g[t] = f[x] + g[t \ {x}] /\ g[t \ {x}] \in Int
      <4> DEFINE r == t \ {x}
      <4>1. x \notin r
        OBVIOUS
      <4> HIDE DEF r
      <4> QED
        BY <3>1, <4>1 DEF r, IsSum
    <3> QED
      BY <2>1, <3>2, <3>3
  <2>3. CASE x \notin t
    <3>1. t \in SUBSET U /\ g[t] <= g[U] /\ g[t] \in Int
      BY <1>2, <2>3 DEF IsSum
    <3> QED
      BY <2>1, <3>1
  <2> QED
    BY <2>2, <2>3
<1> DEFINE Good == {U \in SUBSET S : \A t \in SUBSET U : g[t] <= g[U]}
<1>3. /\ {} \in Good
      /\ \A U \in SUBSET S, x \in S : U \in Good /\ x \notin U => U \cup {x} \in Good
  BY <1>1, <1>2
<1>4. SUBSET S \subseteq Good
  <2> HIDE DEF Good
  <2> QED
    BY <1>3, AllParts
<1> QED
  BY <1>4

\* A multiple of each sums to the multiple of the sum.
LEMMA SumOfMultiples ==
  ASSUME NEW S, IsFiniteSet(S), NEW f \in [S -> Int], NEW g, IsSum(g, f, S),
         NEW c \in Int, NEW h \in [S -> Int], \A x \in S : h[x] = c * f[x],
         NEW k, IsSum(k, h, S)
  PROVE  k[S] = c * g[S]
<1>1. k[{}] = c * g[{}]
  BY DEF IsSum
<1>2. ASSUME NEW T \in SUBSET S, NEW x \in S, k[T] = c * g[T], x \notin T
      PROVE  k[T \cup {x}] = c * g[T \cup {x}]
  <2>1. /\ g[T \cup {x}] = f[x] + g[T] /\ k[T \cup {x}] = h[x] + k[T]
        /\ g[T] \in Int /\ f[x] \in Int
    BY <1>2 DEF IsSum
  <2>2. k[T \cup {x}] = c * f[x] + c * g[T]
    BY <1>2, <2>1
  <2> QED
    BY <2>1, <2>2
<1> DEFINE Good == {T \in SUBSET S : k[T] = c * g[T]}
<1>3. /\ {} \in Good
      /\ \A T \in SUBSET S, x \in S : T \in Good /\ x \notin T => T \cup {x} \in Good
  BY <1>1, <1>2
<1>4. SUBSET S \subseteq Good
  <2> HIDE DEF Good
  <2> QED
    BY <1>3, AllParts
<1> QED
  BY <1>4

\* f has one value in M and another outside.
IsTwoFold(f, S, M, a, b) ==
    /\ f \in [S -> Int] /\ a \in Int /\ b \in Int
    /\ \A x \in S : (x \in M => f[x] = a) /\ (x \notin M => f[x] = b)

\* One number for those in M and another for the rest.
LEMMA SumOfTwo ==
  ASSUME NEW S, IsFiniteSet(S), NEW M, NEW a, NEW b, NEW f, IsTwoFold(f, S, M, a, b),
         NEW g, IsSum(g, f, S)
  PROVE  g[S] = a * Cardinality(S \cap M) + b * Cardinality(S \ M)
<1>0. /\ f \in [S -> Int] /\ a \in Int /\ b \in Int
      /\ \A x \in S : (x \in M => f[x] = a) /\ (x \notin M => f[x] = b)
  BY DEF IsTwoFold
<1>1. g[{}] = a * Cardinality({} \cap M) + b * Cardinality({} \ M)
  <2>1. {} \cap M = {} /\ {} \ M = {}
    OBVIOUS
  <2>2. a * 0 = 0 /\ b * 0 = 0
    BY <1>0
  <2> QED
    BY <2>1, <2>2, FS_EmptySet DEF IsSum
<1>2. ASSUME NEW T \in SUBSET S, NEW x \in S, x \notin T,
             g[T] = a * Cardinality(T \cap M) + b * Cardinality(T \ M)
      PROVE  g[T \cup {x}] = a * Cardinality((T \cup {x}) \cap M)
                               + b * Cardinality((T \cup {x}) \ M)
  <2> DEFINE m == Cardinality(T \cap M)
             r == Cardinality(T \ M)
  <2>1. IsFiniteSet(T \cap M) /\ IsFiniteSet(T \ M) /\ m \in Nat /\ r \in Nat
    BY FS_Subset, FS_CardinalityType
  <2>2. g[T \cup {x}] = f[x] + (a * m + b * r)
    BY <1>0, <1>2 DEF IsSum
  <2>3. a * m \in Int /\ b * r \in Int
    BY <1>0, <2>1
  <2>4. CASE x \in M
    <3>1. (T \cup {x}) \cap M = (T \cap M) \cup {x} /\ (T \cup {x}) \ M = T \ M
      BY <2>4
    <3>2. Cardinality((T \cup {x}) \cap M) = m + 1
      BY <1>2, <2>1, <3>1, FS_AddElement
    <3>3. a * (m + 1) = a * m + a /\ f[x] = a
      BY <1>0, <2>1, <2>4
    <3>4. g[T \cup {x}] = a * (m + 1) + b * r
      <4> HIDE DEF m, r
      <4> QED
        BY <1>0, <2>3, <2>2, <3>3
    <3> QED
      BY <3>1, <3>2, <3>4
  <2>5. CASE x \notin M
    <3>1. (T \cup {x}) \ M = (T \ M) \cup {x} /\ (T \cup {x}) \cap M = T \cap M
      BY <2>5
    <3>2. Cardinality((T \cup {x}) \ M) = r + 1
      BY <1>2, <2>1, <3>1, FS_AddElement
    <3>3. b * (r + 1) = b * r + b /\ f[x] = b
      BY <1>0, <2>1, <2>5
    <3>4. g[T \cup {x}] = a * m + b * (r + 1)
      <4> HIDE DEF m, r
      <4> QED
        BY <1>0, <2>3, <2>2, <3>3
    <3> QED
      BY <3>1, <3>2, <3>4
  <2> QED
    BY <2>4, <2>5
<1> DEFINE Good == {T \in SUBSET S :
                       g[T] = a * Cardinality(T \cap M) + b * Cardinality(T \ M)}
<1>3. /\ {} \in Good
      /\ \A T \in SUBSET S, x \in S : T \in Good /\ x \notin T => T \cup {x} \in Good
  BY <1>1, <1>2
<1>4. SUBSET S \subseteq Good
  <2> HIDE DEF Good
  <2> QED
    BY <1>3, AllParts
<1> QED
  BY <1>4

\* When each of P has no more than some number of R, and a constant, then so have
\* all of P together.
LEMMA SumsCompare ==
  ASSUME NEW P, IsFiniteSet(P), NEW R, IsFiniteSet(R), NEW to \in [P -> R],
         \A v, x \in P : to[v] = to[x] => v = x,
         NEW f \in [P -> Int], NEW fs, IsSum(fs, f, P),
         NEW u \in [R -> Nat], NEW us, IsSum(us, u, R),
         NEW d \in Int, NEW k \in Int,
         \A v \in P : d * f[v] <= 6 * u[to[v]] + k
  PROVE  d * fs[P] <= 6 * us[R] + k * Cardinality(P)
<1> DEFINE img(T) == {to[v] : v \in T}
<1>1. d * fs[{}] <= 6 * us[img({})] + k * Cardinality({})
  <2>1. img({}) = {}
    OBVIOUS
  <2>2. fs[{}] = 0 /\ us[{}] = 0 /\ Cardinality({}) = 0
    BY FS_EmptySet DEF IsSum
  <2>3. d * 0 = 0 /\ k * 0 = 0
    OBVIOUS
  <2> HIDE DEF img
  <2>4. d * fs[{}] = 0 /\ k * Cardinality({}) = 0 /\ us[img({})] = 0
    BY <2>1, <2>2, <2>3
  <2> QED
    BY <2>4
<1>2. ASSUME NEW T \in SUBSET P, NEW x \in P, x \notin T,
             d * fs[T] <= 6 * us[img(T)] + k * Cardinality(T)
      PROVE  d * fs[T \cup {x}] <= 6 * us[img(T \cup {x})] + k * Cardinality(T \cup {x})
  <2>1. img(T) \in SUBSET R /\ to[x] \in R /\ to[x] \notin img(T)
    BY <1>2
  <2>2. img(T \cup {x}) = img(T) \cup {to[x]}
    OBVIOUS
  <2> DEFINE n == Cardinality(T)
  <2>3. n \in Nat /\ Cardinality(T \cup {x}) = n + 1
    BY <1>2, FS_Subset, FS_CardinalityType, FS_AddElement
  <2>4. d * fs[T] <= 6 * us[img(T)] + k * n
    BY <1>2
  <2> HIDE DEF img, n
  <2>5. fs[T] \in Int /\ fs[T \cup {x}] = f[x] + fs[T] /\ f[x] \in Int
    BY <1>2 DEF IsSum
  <2>6. us[img(T)] \in Int /\ us[img(T) \cup {to[x]}] = u[to[x]] + us[img(T)] /\ u[to[x]] \in Int
    BY <2>1 DEF IsSum
  <2>7. d * fs[T \cup {x}] = d * f[x] + d * fs[T] /\ d * fs[T] \in Int /\ d * f[x] \in Int
    BY <2>5
  <2>8. k * (n + 1) = k * n + k /\ k * n \in Int
    BY <2>3
  <2>9. d * f[x] <= 6 * u[to[x]] + k
    OBVIOUS
  <2> DEFINE df == d * f[x]
             ds == d * fs[T]
             kn == k * n
             uT == us[img(T)]
             ux == u[to[x]]
  <2>10. /\ df <= 6 * ux + k /\ ds <= 6 * uT + kn
        /\ d * fs[T \cup {x}] = df + ds /\ k * (n + 1) = kn + k
        /\ us[img(T \cup {x})] = ux + uT
        /\ df \in Int /\ ds \in Int /\ kn \in Int /\ uT \in Int /\ ux \in Int
    BY <2>9, <2>2, <2>4, <2>6, <2>7, <2>8
  <2>11. d * fs[T \cup {x}] <= 6 * us[img(T \cup {x})] + k * (n + 1)
    <3> HIDE DEF df, ds, kn, uT, ux
    <3>1. df + ds <= 6 * (ux + uT) + (kn + k)
      BY <2>10
    <3> QED
      BY <2>10, <3>1
  <2> QED
    BY <2>3, <2>11 DEF n, img
<1> DEFINE Good == {T \in SUBSET P : d * fs[T] <= 6 * us[img(T)] + k * Cardinality(T)}
<1>3. /\ {} \in Good
      /\ \A T \in SUBSET P, x \in P : T \in Good /\ x \notin T => T \cup {x} \in Good
  <2> HIDE DEF img
  <2> QED
    BY <1>1, <1>2
<1>4. SUBSET P \subseteq Good
  <2> HIDE DEF Good
  <2> QED
    BY <1>3, AllParts
<1>5. d * fs[P] <= 6 * us[img(P)] + k * Cardinality(P)
  BY <1>4
<1>6. img(P) \in SUBSET R
  OBVIOUS
<1> HIDE DEF img
<1>7. us[img(P)] <= us[R]
  BY <1>6, PartsSumToLess
<1>8. us[img(P)] \in Int /\ us[R] \in Int /\ fs[P] \in Int /\ Cardinality(P) \in Nat
  BY <1>6, FS_CardinalityType DEF IsSum
<1> DEFINE x == d * fs[P]
           y == k * Cardinality(P)
<1>9. x \in Int /\ y \in Int
  BY <1>8
<1> HIDE DEF x, y
<1>10. x <= 6 * us[R] + y
  BY <1>5, <1>7, <1>8, <1>9 DEF x, y
<1> QED
  BY <1>10 DEF x, y

\* Max is the greatest of a finite set.
LEMMA MaxIsIn ==
  ASSUME NEW S \in SUBSET Int, IsFiniteSet(S), S # {}
  PROVE  Max(S) \in S
<1> DEFINE Good == {T \in SUBSET S : T # {} => \E x \in T : \A y \in T : x >= y}
<1>1. {} \in Good
  OBVIOUS
<1>2. ASSUME NEW T \in SUBSET S, NEW x \in S, T \in Good, x \notin T
      PROVE  T \cup {x} \in Good
  <2>1. CASE T = {}
    BY <2>1
  <2>2. CASE T # {}
    <3>1. PICK m \in T : \A y \in T : m >= y
      BY <1>2, <2>2
    <3>2. CASE m >= x
      BY <3>1, <3>2
    <3>3. CASE ~(m >= x)
      BY <3>1, <3>3
    <3> QED
      BY <3>2, <3>3
  <2> QED
    BY <2>1, <2>2
<1>3. SUBSET S \subseteq Good
  <2> HIDE DEF Good
  <2> QED
    BY <1>1, <1>2, AllParts
<1> QED
  BY <1>3 DEF Max

----------------------------------------------------------------------------
(* The hours: rounding, and the three places that show them.               *)

\* A rounded quotient lies half a unit around the exact one.
LEMMA RoundDivBounds ==
  ASSUME NEW num \in Int, NEW den \in Nat \ {0}
  PROVE  /\ RoundDiv(num, den) \in Int
         /\ 2 * (den * RoundDiv(num, den)) <= 2 * num + den
         /\ 2 * num + den < 2 * (den * RoundDiv(num, den)) + 2 * den
<1> DEFINE n == 2 * num + den
           d == 2 * den
<1>1. n \in Int /\ d \in Nat \ {0}
  OBVIOUS
<1> HIDE DEF n, d
<1>2. n \div d \in Int /\ d * (n \div d) <= n /\ n < d * (n \div d) + d
  BY <1>1
<1>3. d * (n \div d) = 2 * (den * (n \div d))
  BY <1>2 DEF d
<1> QED
  BY <1>2, <1>3 DEF RoundDiv, n, d

\* Nothing, divided, is rounded to nothing.
LEMMA RoundDivOfNothing == ASSUME NEW den \in Nat \ {0} PROVE RoundDiv(0, den) = 0
<1>1. /\ RoundDiv(0, den) \in Int
      /\ 2 * (den * RoundDiv(0, den)) <= den
      /\ den < 2 * (den * RoundDiv(0, den)) + 2 * den
  BY RoundDivBounds
<1> DEFINE q == RoundDiv(0, den)
<1> HIDE DEF q
<1>2. ASSUME q >= 1 PROVE FALSE
  <2>1. den * q >= den
    BY <1>1, <1>2 DEF q
  <2> QED
    BY <1>1, <2>1 DEF q
<1>3. ASSUME q <= -1 PROVE FALSE
  <2>1. den * q <= -den
    BY <1>1, <1>3 DEF q
  <2> QED
    BY <1>1, <2>1 DEF q
<1> QED
  BY <1>1, <1>2, <1>3 DEF q

\* The page rounds a share, its half and the fifth more; the engine rounds once.
LEMMA PageNearGiven ==
  ASSUME NEW num \in Int, NEW den \in Nat \ {0}, NEW mixed \in BOOLEAN, NEW more \in BOOLEAN
  PROVE  LET whole == RoundDiv(num, 2 * den)
             half  == IF mixed THEN RoundDiv(whole, 2) ELSE whole
             page  == IF more THEN RoundDiv(half * 6, 5) ELSE half
             given == RoundDiv(num * (IF more THEN 6 ELSE 5),
                               den * 2 * (IF mixed THEN 2 ELSE 1) * 5)
         IN  page - given \in -1..1
<1> DEFINE d == 2 * den
           m == IF mixed THEN 2 ELSE 1
           f == IF more THEN 6 ELSE 5
           W == RoundDiv(num, d)
           H == IF mixed THEN RoundDiv(W, 2) ELSE W
           P == IF more THEN RoundDiv(H * 6, 5) ELSE H
           G == RoundDiv(num * f, d * m * 5)
<1>1. d \in Nat /\ d >= 2 /\ m \in {1, 2} /\ f \in {5, 6} /\ num * f \in Int
      /\ d * m * 5 \in Nat \ {0}
  OBVIOUS
<1> HIDE DEF d
<1>2. /\ W \in Int /\ 2 * (d * W) <= 2 * num + d /\ 2 * num + d < 2 * (d * W) + 2 * d
  BY <1>1, RoundDivBounds
<1>3. /\ G \in Int /\ 2 * (d * m * 5 * G) <= 2 * (num * f) + d * m * 5
      /\ 2 * (num * f) + d * m * 5 < 2 * (d * m * 5 * G) + 2 * (d * m * 5)
  <2> HIDE DEF m, f
  <2> QED
    BY <1>1, RoundDivBounds
<1> HIDE DEF W
<1>4. /\ H \in Int /\ 2 * (m * H) <= 2 * W + m /\ 2 * W + m <= 2 * (m * H) + 2 * m
      /\ m = 1 => H = W
  <2>1. /\ RoundDiv(W, 2) \in Int /\ 2 * (2 * RoundDiv(W, 2)) <= 2 * W + 2
        /\ 2 * W + 2 < 2 * (2 * RoundDiv(W, 2)) + 2 * 2
    BY <1>2, RoundDivBounds
  <2>2. CASE mixed
    BY <1>2, <2>1, <2>2
  <2>3. CASE ~mixed
    BY <1>2, <2>3
  <2> QED
    BY <2>2, <2>3
<1> HIDE DEF H
<1>5. P \in Int /\ 2 * (5 * P) <= 2 * (H * f) + 5 /\ 2 * (H * f) + 5 <= 2 * (5 * P) + 10
  <2>1. /\ RoundDiv(H * 6, 5) \in Int /\ 2 * (5 * RoundDiv(H * 6, 5)) <= 2 * (H * 6) + 5
        /\ 2 * (H * 6) + 5 < 2 * (5 * RoundDiv(H * 6, 5)) + 2 * 5
    <3>1. H * 6 \in Int /\ 5 \in Nat \ {0}
      BY <1>4
    <3> QED
      BY <3>1, RoundDivBounds
  <2>2. CASE more
    BY <1>4, <2>1, <2>2
  <2>3. CASE ~more
    BY <1>4, <2>3
  <2> QED
    BY <2>2, <2>3
<1> HIDE DEF P, G
<1> DEFINE dW == d * W
           dH == d * H
           dP == d * P
           dG == d * G
<1>6. dW \in Int /\ dH \in Int /\ dP \in Int /\ dG \in Int
  BY <1>1, <1>2, <1>3, <1>4, <1>5
<1>7. /\ 2 * (m * dH) <= 2 * dW + m * d
      /\ 2 * dW + m * d <= 2 * (m * dH) + 2 * (m * d)
      /\ m = 1 => dH = dW
  <2>1. \A x, y \in Int : x <= y => d * x <= d * y
    BY <1>1
  <2>2. CASE m = 1
    BY <1>1, <1>2, <1>4, <2>1, <2>2
  <2>3. CASE m = 2
    BY <1>1, <1>2, <1>4, <2>1, <2>3
  <2> QED
    BY <1>1, <2>2, <2>3
<1>8. /\ 10 * dP <= 2 * (f * dH) + 5 * d
      /\ 2 * (f * dH) + 5 * d <= 10 * dP + 10 * d
  <2>1. \A x, y \in Int : x <= y => d * x <= d * y
    BY <1>1
  <2>2. CASE f = 5
    BY <1>1, <1>4, <1>5, <2>1, <2>2
  <2>3. CASE f = 6
    BY <1>1, <1>4, <1>5, <2>1, <2>3
  <2> QED
    BY <1>1, <2>2, <2>3
<1>9. /\ 10 * (m * dG) <= 2 * (f * num) + 5 * (m * d)
      /\ 2 * (f * num) + 5 * (m * d) < 10 * (m * dG) + 10 * (m * d)
  BY <1>1, <1>3
<1> HIDE DEF dW, dH, m, f
<1>10. dP - dG < 2 * d /\ dG - dP < 2 * d
  <2>1. CASE m = 1 /\ f = 5
    BY <1>1, <1>2, <1>6, <1>7, <1>8, <1>9, <2>1 DEF dW
  <2>2. CASE m = 1 /\ f = 6
    BY <1>1, <1>2, <1>6, <1>7, <1>8, <1>9, <2>2 DEF dW
  <2>3. CASE m = 2 /\ f = 5
    BY <1>1, <1>2, <1>6, <1>7, <1>8, <1>9, <2>3 DEF dW
  <2>4. CASE m = 2 /\ f = 6
    BY <1>1, <1>2, <1>6, <1>7, <1>8, <1>9, <2>4 DEF dW
  <2> QED
    BY <1>1, <2>1, <2>2, <2>3, <2>4
<1>11. P - G \in -1..1
  <2>1. ASSUME P - G >= 2 PROVE FALSE
    <3>1. d * (P - G) >= 2 * d /\ d * (P - G) = dP - dG
      BY <1>1, <1>3, <1>5, <2>1
    <3> QED
      BY <1>1, <1>6, <1>10, <3>1
  <2>2. ASSUME G - P >= 2 PROVE FALSE
    <3>1. d * (G - P) >= 2 * d /\ d * (G - P) = dG - dP
      BY <1>1, <1>3, <1>5, <2>2
    <3> QED
      BY <1>1, <1>6, <1>10, <3>1
  <2> QED
    BY <1>3, <1>5, <2>1, <2>2
<1> QED
  <2>1. den * 2 * m * 5 = d * m * 5
    <3>1. CASE m = 1
      BY <3>1 DEF d
    <3>2. CASE m = 2
      BY <3>2 DEF d
    <3> QED
      BY <1>1, <3>1, <3>2
  <2> QED
    BY <1>11, <2>1 DEF P, H, W, G, d, f, m

\* Whether a work is divided by percentages does not depend on the cache.
LEMMA CacheDecidesNothing ==
  ASSUME NEW w \in Works, NEW rows, NEW who, NEW v
  PROVE  /\ ByPercentage(w, FALSE) <=> ByPercentage(w, TRUE)
         /\ MainCount(w, rows, FALSE) = MainCount(w, rows, TRUE)
         /\ Counted(w, rows, FALSE) <=> Counted(w, rows, TRUE)
         /\ EngineHours(w, who, rows, v, FALSE) = EngineHours(w, who, rows, v, TRUE)
<1>1. ByPercentage(w, FALSE) <=> ByPercentage(w, TRUE)
  BY KpiAssumption, PublicationsAssumption DEF ByPercentage
<1>2. MainCount(w, rows, FALSE) = MainCount(w, rows, TRUE)
  BY <1>1 DEF MainCount
<1>3. Counted(w, rows, FALSE) <=> Counted(w, rows, TRUE)
  BY <1>2 DEF Counted
<1>4. \A r : RowHours(w, rows, r, v, FALSE) = RowHours(w, rows, r, v, TRUE)
  BY <1>1, <1>2 DEF RowHours
<1> QED
  BY <1>1, <1>2, <1>3, <1>4 DEF EngineHours

\* The hours of a work are whole hundredths.
LEMMA HoursOfWork ==
  ASSUME NEW w \in Works, NEW rows
  PROVE  BaseHours(w) \in Int /\ TwiceB(w, rows) \in Int
<1> DEFINE rule == Rule[w.type]
<1>1. /\ w.score \in Int /\ rule.hours \in Int /\ rule.bonus \in Int
      /\ \A g \in {"EXCELLENT", "PASS_ON_TIME", "PASS_LATE"} : rule.c[g] \in Int
  BY KpiAssumption, PublicationsAssumption
<1>2. FactorC(rule, w.grade) \in Int
  <2>1. DOMAIN DefaultC = {"EXCELLENT", "PASS_ON_TIME", "PASS_LATE"}
        /\ \A g \in DOMAIN DefaultC : DefaultC[g] \in Int
    BY DEF DefaultC
  <2> HIDE DEF rule
  <2>2. CASE w.grade \notin DOMAIN DefaultC
    BY <2>2 DEF FactorC
  <2>3. CASE w.grade \in DOMAIN DefaultC
    <3>1. rule.c[w.grade] \in Int /\ DefaultC[w.grade] \in Int
      BY <1>1, <2>1, <2>3
    <3> QED
      BY <2>3, <3>1 DEF FactorC
  <2> QED
    BY <2>2, <2>3
<1>3. RoundDiv(rule.hours * FactorC(rule, w.grade), 100) \in Int
  <2>1. rule.hours * FactorC(rule, w.grade) \in Int /\ 100 \in Nat \ {0}
    BY <1>1, <1>2
  <2> QED
    BY <2>1, RoundDivBounds
<1>4. BaseHours(w) \in Int
  BY <1>1, <1>3 DEF BaseHours
<1>5. FactorA(w, rows) \in Int
  BY DEF FactorA
<1> QED
  BY <1>4, <1>5 DEF TwiceB

\* The main authors can be counted.
LEMMA MainCountIsNat ==
  ASSUME IsFiniteSet(authors), NEW w, NEW known
  PROVE  MainCount(w, authors, known) \in Nat
<1>1. IsFiniteSet({r \in authors : Main(r)})
  BY FS_Subset
<1> QED
  BY <1>1, FS_CardinalityType DEF MainCount

\* The share of a row is a fraction of the hours, and nothing of nothing.
LEMMA ShareOfRow ==
  ASSUME IsFiniteSet(authors), NEW row \in authors, row.pct \in Nat,
         NEW B \in Int, NEW n \in Nat \ {0}, NEW percent \in BOOLEAN
  PROVE  LET share == IF percent THEN PercentShare(B, authors, row)
                                 ELSE RoleShare(B, n, authors, row)
         IN  /\ share[1] \in Int /\ share[2] \in Nat \ {0}
             /\ B = 0 => share[1] = 0
<1>1. Cardinality(authors) \in Nat \ {0}
  BY FS_CardinalityType, FS_EmptySet
<1> DEFINE p == Cardinality(authors)
<1> HIDE DEF p
<1>2. \A x, y \in Nat \ {0} : 3 * x * y \in Nat \ {0}
  <2> SUFFICES ASSUME NEW x \in Nat \ {0}, NEW y \in Nat \ {0} PROVE 3 * x * y \in Nat \ {0}
    OBVIOUS
  <2>1. x * y \in Nat \ {0}
    OBVIOUS
  <2>2. 3 * x * y = 3 * (x * y)
    OBVIOUS
  <2> QED
    BY <2>1, <2>2
<1>3. p \in Nat \ {0} /\ B * (p + 2 * n) \in Int /\ 3 * n * p \in Nat \ {0}
      /\ B * row.pct \in Int /\ 2 * B \in Int /\ 3 * p \in Nat \ {0}
  BY <1>1, <1>2 DEF p
<1>4. B = 0 => B * (p + 2 * n) = 0 /\ B * row.pct = 0 /\ 2 * B = 0
  BY <1>1 DEF p
<1> QED
  BY <1>1, <1>3, <1>4 DEF p, PercentShare, RoleShare

\* Who is related to the publication has a row the hours can be told from.
LEMMA RelatedAreTold ==
  ASSUME authors # {}, NEW v \in Related(owner, authors)
  PROVE  Candidates(owner, authors, v) # {}
<1>1. v # owner => \E r \in authors : r.profile = v
  BY DEF Related
<1> QED
  BY <1>1 DEF Candidates

\* The page shows a related viewer what is given for a row, up to its roundings.
LEMMA PageOfRelated ==
  ASSUME IsFiniteSet(authors), NEW w \in Works, NEW v \in Related(owner, authors),
         NEW row \in authors, row.pct \in Nat, row.profile \in Profiles
  PROVE  LET given == IF Counted(w, authors, TRUE)
                      THEN RowHours(w, authors, row, row.profile, TRUE) ELSE 0
         IN  PageHours(w, owner, authors, row, v) - given \in -1..1
<1>0. Candidates(owner, authors, v) # {}
  BY RelatedAreTold
<1>1. Counted(w, authors, FALSE) <=> Counted(w, authors, TRUE)
  BY CacheDecidesNothing
<1>2. MainCount(w, authors, FALSE) = MainCount(w, authors, TRUE)
      /\ MainCount(w, authors, TRUE) \in Nat /\ TwiceB(w, authors) \in Int
  BY CacheDecidesNothing, MainCountIsNat, HoursOfWork
<1> DEFINE told    == Counted(w, authors, TRUE)
           percent == ByPercentage(w, TRUE)
           B       == IF told THEN TwiceB(w, authors) ELSE 0
           n       == IF told THEN MainCount(w, authors, TRUE) ELSE 1
           share   == IF percent THEN PercentShare(B, authors, row)
                                 ELSE RoleShare(B, n, authors, row)
           mixed   == row.aff = "MIXED"
           more    == row.profile \in Female
           whole   == RoundDiv(share[1], 2 * share[2])
           half    == IF mixed THEN RoundDiv(whole, 2) ELSE whole
           page    == IF more THEN RoundDiv(half * 6, 5) ELSE half
           given   == RoundDiv(share[1] * (IF more THEN 6 ELSE 5),
                               share[2] * 2 * (IF mixed THEN 2 ELSE 1) * 5)
<1>3. B \in Int /\ n \in Nat \ {0} /\ percent \in BOOLEAN
  <2>2. told => MainCount(w, authors, TRUE) > 0
    BY DEF Counted
  <2> HIDE DEF told
  <2>1. B \in Int
    <3>1. TwiceB(w, authors) \in Int /\ 0 \in Int
      BY <1>2
    <3> QED
      BY <3>1, Zenon
  <2>3. n \in Nat \ {0}
    <3> DEFINE k == MainCount(w, authors, TRUE)
    <3>1. CASE told
      <4>1. k \in Nat /\ k > 0
        BY <1>2, <2>2, <3>1
      <4> HIDE DEF k
      <4>2. k \in Nat \ {0}
        BY <4>1
      <4> QED
        BY <3>1, <4>2, Zenon DEF k
    <3>2. CASE ~told
      BY <3>2
    <3> QED
      BY <3>1, <3>2
  <2>4. percent \in BOOLEAN
    BY DEF ByPercentage
  <2> QED
    BY <2>1, <2>3, <2>4
<1>4. PageHours(w, owner, authors, row, v) = page
  BY <1>0, <1>1, <1>2 DEF PageHours
<1>5. told => RowHours(w, authors, row, row.profile, TRUE) = given
  BY DEF RowHours
<1> HIDE DEF B, n, percent, told
<1>6. share[1] \in Int /\ share[2] \in Nat \ {0} /\ (B = 0 => share[1] = 0)
  BY <1>3, ShareOfRow
<1> HIDE DEF share
<1>7. page - given \in -1..1
  BY <1>6, PageNearGiven
<1>8. ~told => given = 0
  <2>1. ~told => share[1] = 0
    BY <1>6 DEF B
  <2>2. \A x \in Nat \ {0}, m \in {1, 2} : x * 2 * m * 5 \in Nat \ {0}
    OBVIOUS
  <2> QED
    BY <1>6, <2>1, <2>2, RoundDivOfNothing
<1> QED
  BY <1>4, <1>5, <1>7, <1>8 DEF told

----------------------------------------------------------------------------
(* Lists: what is prepared and saved is a list again.                      *)

\* Min is the least of a set of numbers.
LEMMA MinOfNats ==
  ASSUME NEW S \in SUBSET Nat, S # {}
  PROVE  Min(S) \in S /\ \A y \in S : Min(S) <= y
BY LeastOfNats DEF Min

\* A finite set of places can be gone through from the first to the last.
LEMMA PlacesInOrder ==
  ASSUME NEW n \in Nat, NEW T \in SUBSET (1..n)
  PROVE  \E f \in [1..Cardinality(T) -> T] : \A j, k \in DOMAIN f : j < k => f[j] < f[k]
<1> DEFINE Listed(U) == \E f \in [1..Cardinality(U) -> U] :
                           \A j, k \in DOMAIN f : j < k => f[j] < f[k]
           Bad == {m \in Nat : \E U \in SUBSET (1..m) : ~Listed(U)}
<1>1. SUFFICES ASSUME Bad # {} PROVE FALSE
  OBVIOUS
<1>2. PICK m \in Bad : \A y \in Bad : m <= y
  BY <1>1, LeastOfNats
<1>3. PICK U \in SUBSET (1..m) : ~Listed(U)
  BY <1>2
<1>4. m \in Nat /\ (m > 0 => \A V \in SUBSET (1..m - 1) : Listed(V))
  <2> HIDE DEF Listed
  <2>1. m \in Nat
    OBVIOUS
  <2>2. ASSUME m > 0 PROVE m - 1 \in Nat /\ m - 1 \notin Bad
    <3>1. m - 1 \in Nat /\ ~(m <= m - 1)
      BY <2>1, <2>2
    <3> HIDE DEF Bad
    <3> QED
      BY <1>2, <3>1
  <2> QED
    BY <2>1, <2>2
<1>5. CASE m = 0
  <2>1. U = {} /\ Cardinality(U) = 0
    <3>1. U = {}
      BY <1>5
    <3> QED
      BY <3>1, FS_EmptySet
  <2>2. <<>> \in [1..Cardinality(U) -> U]
    BY <2>1
  <2> QED
    BY <1>3, <2>1, <2>2
<1>6. CASE m > 0
  <2> DEFINE V == U \ {m}
  <2>1. V \in SUBSET (1..m - 1) /\ Listed(V)
    <3> HIDE DEF Listed
    <3>1. V \in SUBSET (1..m - 1)
      BY <1>4
    <3> HIDE DEF V
    <3> QED
      BY <1>4, <1>6, <3>1
  <2>2. PICK f \in [1..Cardinality(V) -> V] : \A j, k \in DOMAIN f : j < k => f[j] < f[k]
    BY <2>1
  <2>3. CASE m \notin U
    BY <1>3, <2>1, <2>3
  <2>4. CASE m \in U
    <3> DEFINE c == Cardinality(V)
               g == [j \in 1..c + 1 |-> IF j <= c THEN f[j] ELSE m]
    <3>1. IsFiniteSet(V) /\ c \in Nat
      <4>1. 1 \in Int /\ m - 1 \in Int
        BY <1>4
      <4> HIDE DEF V
      <4> QED
        BY <2>1, <4>1, FS_Interval, FS_Subset, FS_CardinalityType
    <3>2. Cardinality(U) = c + 1
      <4>1. U = V \cup {m} /\ m \notin V
        BY <2>4
      <4> HIDE DEF V
      <4> QED
        BY <3>1, <4>1, FS_AddElement
    <3>3. \A j \in 1..c : f[j] \in V /\ f[j] \in 1..m - 1
      BY <2>1, <2>2
    <3>6. m \in U /\ \A j \in 1..c : f[j] \in U
      BY <2>4, <3>3
    <3> HIDE DEF V, c
    <3>4. g \in [1..c + 1 -> U]
      BY <3>1, <3>6
    <3>5. \A j, k \in 1..c + 1 : j < k => g[j] < g[k]
      BY <1>4, <2>2, <3>1, <3>3 DEF c
    <3> QED
      BY <1>3, <3>2, <3>4, <3>5
  <2> QED
    BY <2>3, <2>4
<1> QED
  BY <1>4, <1>5, <1>6

\* A list without some of its entries is a list.
LEMMA WithoutIsList ==
  ASSUME NEW S, NEW list \in Seq(S), NEW places
  PROVE  Without(list, places) \in Seq(S)
<1> DEFINE kept == DOMAIN list \ places
           at   == CHOOSE f \in [1..Cardinality(kept) -> kept] :
                       \A j, k \in DOMAIN f : j < k => f[j] < f[k]
<1>1. Len(list) \in Nat /\ kept \in SUBSET (1..Len(list)) /\ \A k \in kept : list[k] \in S
  OBVIOUS
<1>2. Cardinality(kept) \in Nat
  <2> HIDE DEF kept
  <2>1. 1 \in Int /\ Len(list) \in Int
    BY <1>1
  <2> QED
    BY <1>1, <2>1, FS_Interval, FS_Subset, FS_CardinalityType
<1>3. \E f \in [1..Cardinality(kept) -> kept] : \A j, k \in DOMAIN f : j < k => f[j] < f[k]
  <2> HIDE DEF kept
  <2> QED
    BY <1>1, PlacesInOrder
<1>4. at \in [1..Cardinality(kept) -> kept]
  <2> HIDE DEF kept
  <2> QED
    BY <1>3
<1>5. Without(list, places) = [k \in DOMAIN at |-> list[at[k]]]
  BY DEF Without
<1> HIDE DEF kept, at
<1>6. DOMAIN at = 1..Cardinality(kept) /\ \A k \in DOMAIN at : list[at[k]] \in S
  BY <1>1, <1>4
<1> QED
  BY <1>2, <1>5, <1>6

\* The entry that is kept is one of the owner's.
LEMMA KeeperIsOwn ==
  ASSUME NEW list \in Seq(Entries), NEW v, Own(list, v) # {}
  PROVE  Keeper(list, v) \in Own(list, v)
<1> DEFINE own  == Own(list, v)
           rank(k) == Rank(list[k], v)
           best == {k \in own : \A j \in own : rank(j) <= rank(k)}
<1>1. own \subseteq DOMAIN list /\ \A k \in own : rank(k) \in 0..3 /\ list[k].order \in Nat
  <2>1. own \subseteq DOMAIN list
    BY DEF Own
  <2>2. \A k \in own : rank(k) \in 0..3
    BY DEF Rank
  <2>3. \A k \in own : list[k] \in Entries
    BY <2>1
  <2> QED
    BY <2>1, <2>2, <2>3 DEF Entries
<1> HIDE DEF own, rank
<1>2. best # {}
  <2> SUFFICES ASSUME best = {} PROVE FALSE
    OBVIOUS
  <2> DEFINE below == {3 - rank(k) : k \in own}
  <2>1. below \in SUBSET Nat /\ below # {}
    <3>1. own # {}
      BY DEF own
    <3>2. ASSUME NEW k \in own PROVE 3 - rank(k) \in Nat
      <4>1. rank(k) \in 0..3
        BY <1>1
      <4> QED
        BY <4>1
    <3> QED
      BY <3>1, <3>2
  <2>2. PICK x \in below : \A y \in below : x <= y
    BY <2>1, LeastOfNats
  <2>3. PICK k \in own : x = 3 - rank(k)
    BY <2>2
  <2>4. ASSUME NEW j \in own PROVE rank(j) <= rank(k)
    <3>1. 3 - rank(k) <= 3 - rank(j)
      BY <2>2, <2>3
    <3>2. rank(j) \in 0..3 /\ rank(k) \in 0..3
      BY <1>1
    <3> QED
      BY <3>1, <3>2
  <2> QED
    BY <2>3, <2>4
<1>3. PICK k \in best : \A j \in best : list[k].order <= list[j].order
  <2> DEFINE orders == {list[k].order : k \in best}
  <2>1. orders \in SUBSET Nat /\ orders # {}
    BY <1>1, <1>2
  <2>2. PICK x \in orders : \A y \in orders : x <= y
    BY <2>1, LeastOfNats
  <2> QED
    BY <2>2
<1>4. k \in own /\ \A j \in own :
         \/ rank(k) > rank(j)
         \/ rank(k) = rank(j) /\ list[k].order <= list[j].order
  <2> SUFFICES ASSUME NEW j \in own PROVE \/ rank(k) > rank(j)
                                          \/ rank(k) = rank(j) /\ list[k].order <= list[j].order
    OBVIOUS
  <2>1. rank(j) <= rank(k) /\ rank(j) \in 0..3 /\ rank(k) \in 0..3
    BY <1>1, <1>3
  <2>2. CASE rank(j) = rank(k)
    <3>1. j \in best
      BY <2>2
    <3> QED
      BY <1>3, <2>2, <3>1
  <2> QED
    BY <2>1, <2>2
<1> QED
  BY <1>4 DEF Keeper, own, rank

\* What is prepared of a list is a list.
LEMMA PreparedIsList ==
  ASSUME NEW list \in Seq(Entries), NEW by \in Profiles \cup {Office}
  PROVE  Prepared(list, by) \in Seq(Entries)
<1>1. CASE by = Office
  BY <1>1 DEF Prepared
<1>2. CASE by # Office
  <2>1. Dedupe(list, by) \in Seq(Entries)
    <3>1. CASE Own(list, by) = {}
      BY <3>1 DEF Dedupe
    <3>2. CASE Own(list, by) # {}
      <4> DEFINE own  == Own(list, by)
                 keep == Keeper(list, by)
                 first == Min({list[k].order : k \in own})
                 one  == [list[keep] EXCEPT !.profile = by,
                                            !.top   = \E k \in own : list[k].top,
                                            !.corr  = \E k \in own : list[k].corr,
                                            !.order = first]
      <4>1. keep \in DOMAIN list /\ list[keep] \in Entries
        BY <3>2, KeeperIsOwn DEF Own
      <4>2. first \in Nat
        <5>1. own \subseteq DOMAIN list
          BY DEF Own
        <5>2. \A k \in own : list[k] \in Entries
          BY <5>1
        <5>3. \A k \in own : list[k].order \in Nat
          BY <5>2 DEF Entries
        <5> DEFINE orders == {list[k].order : k \in own}
        <5>4. orders \in SUBSET Nat /\ orders # {}
          BY <3>2, <5>3
        <5>5. Min(orders) \in orders
          <6> HIDE DEF orders
          <6> QED
            BY <5>4, MinOfNats
        <5> QED
          BY <5>4, <5>5
      <4>3. (\E k \in own : list[k].top) \in BOOLEAN /\ (\E k \in own : list[k].corr) \in BOOLEAN
        OBVIOUS
      <4> HIDE DEF own, keep, first
      <4>4. one \in Entries
        <5> DEFINE e == list[keep]
                   top == \E k \in own : list[k].top
                   corr == \E k \in own : list[k].corr
        <5>1. e \in Entries /\ top \in BOOLEAN /\ corr \in BOOLEAN
          BY <4>1, <4>3
        <5> HIDE DEF e, top, corr
        <5>2. [e EXCEPT !.profile = by, !.top = top, !.corr = corr, !.order = first] \in Entries
          BY <1>2, <4>2, <5>1 DEF Entries
        <5> QED
          BY <5>2 DEF e, top, corr
      <4> HIDE DEF one
      <4>5. [list EXCEPT ![keep] = one] \in Seq(Entries)
        BY <4>1, <4>4
      <4>6. Without([list EXCEPT ![keep] = one], own \ {keep}) \in Seq(Entries)
        BY <4>5, WithoutIsList
      <4> QED
        BY <3>2, <4>6 DEF Dedupe, own, keep, one, first
    <3> QED
      BY <3>1, <3>2
  <2>2. \A l \in Seq(Entries) : Ensure(l, by) \in Seq(Entries)
    <3> SUFFICES ASSUME NEW l \in Seq(Entries), Len(l) = 1
                 PROVE  <<[l[1] EXCEPT !.profile = by]>> \in Seq(Entries)
      BY DEF Ensure
    <3>1. l[1] \in Entries
      OBVIOUS
    <3>2. [l[1] EXCEPT !.profile = by] \in Entries
      BY <1>2, <3>1 DEF Entries
    <3> QED
      BY <3>2
  <2> QED
    BY <1>2, <2>1, <2>2 DEF Prepared
<1> QED
  BY <1>1, <1>2

\* A list that names rows is a list.
LEMMA WithIdsAreLists ==
  ASSUME TypeOK, NEW list \in Seq(Entries), NEW given \in WithIds(list)
  PROVE  given \in Seq(Entries)
<1>1. RowIds \cup {0} \subseteq Ids \cup {0}
  BY DEF TypeOK, RowIds, Entries
<1>2. CASE given = list
  BY <1>2
<1>3. ASSUME NEW f \in [DOMAIN list -> RowIds \cup {0}],
             given = [k \in DOMAIN list |-> [list[k] EXCEPT !.id = f[k]]]
      PROVE  given \in Seq(Entries)
  <2>1. \A k \in DOMAIN list : list[k] \in Entries /\ f[k] \in Ids \cup {0}
    BY <1>1
  <2>2. \A k \in DOMAIN list : [list[k] EXCEPT !.id = f[k]] \in Entries
    BY <2>1 DEF Entries
  <2>3. Len(list) \in Nat /\ DOMAIN list = 1..Len(list)
    OBVIOUS
  <2> QED
    BY <1>3, <2>2, <2>3
<1> QED
  BY <1>2, <1>3 DEF WithIds

----------------------------------------------------------------------------
(* The rows: types, and no two with the same id.                           *)

IdsDiffer == \A r, s \in authors : r.id = s.id => r = s
RowsTyped == TypeOK /\ IsFiniteSet(authors) /\ IdsDiffer

\* What is saved of an entry is a row, with the entry's id or a new one, and the
\* sender's row stays the sender's.
LEMMA SavedIsRow ==
  ASSUME RowsTyped, NEW e \in Entries, NEW by, e.id \in RowIds \/ Ids \ UsedIds # {}
  PROVE  LET row == Saved(e, by)
         IN  /\ row \in Entries /\ row.id # 0
             /\ row.id \in RowIds => row.id = e.id
             /\ by # Office /\ e.profile = by => row.profile = by
             /\ \A r \in authors : by # Office /\ r.profile = by /\ r.id = row.id => row.profile = by
<1> DEFINE old == {r \in authors : r.id = e.id}
<1>1. CASE old = {}
  <2> DEFINE new == Min(Ids \ UsedIds)
             row == [e EXCEPT !.id = new]
  <2>1. Saved(e, by) = row
    BY <1>1 DEF Saved
  <2>2. e.id \notin RowIds
    BY <1>1 DEF RowIds
  <2>3. new \in Ids \ UsedIds
    <3>1. Ids \ UsedIds # {}
      BY <2>2
    <3>2. Ids \ UsedIds \in SUBSET Nat
      BY PublicationsAssumption DEF Ids
    <3> QED
      BY <3>1, <3>2, MinOfNats
  <2>4. new \in Ids /\ new # 0 /\ new \notin RowIds
    BY <2>3, PublicationsAssumption DEF UsedIds, Ids
  <2> HIDE DEF new
  <2>5. row \in Entries /\ row.id = new /\ row.profile = e.profile
    BY <2>4 DEF Entries
  <2> HIDE DEF row
  <2> QED
    BY <2>1, <2>4, <2>5 DEF RowIds
<1>2. CASE old # {}
  <2> DEFINE r0 == CHOOSE r \in old : TRUE
             row == IF by # Office /\ r0.profile = by
                    THEN [r0 EXCEPT !.top = e.top, !.corr = e.corr, !.pct = e.pct] ELSE e
  <2>1. Saved(e, by) = row
    BY <1>2 DEF Saved
  <2>2. r0 \in authors /\ r0.id = e.id
    BY <1>2
  <2>3. r0 \in Entries /\ r0.id # 0
    BY <2>2 DEF RowsTyped, TypeOK
  <2> HIDE DEF r0
  <2>4. row \in Entries /\ row.id = e.id /\ row.id # 0
    BY <2>2, <2>3 DEF Entries
  <2>5. by # Office /\ (e.profile = by \/ r0.profile = by) => row.profile = by
    BY <2>3 DEF Entries
  <2>6. \A r \in authors : r.id = e.id => r = r0
    BY <2>2 DEF RowsTyped, IdsDiffer
  <2> HIDE DEF row
  <2> QED
    BY <2>1, <2>4, <2>5, <2>6
<1> QED
  BY <1>1, <1>2

\* What a request does to the row of its first entry.
LEMMA SaveRowSteps ==
  ASSUME RowsTyped, NEW q \in Requests, SaveRow(q)
  PROVE  LET e    == Head(req[q].left)
             row  == Saved(e, req[q].by)
             rest == {r \in authors : r.id # row.id}
         IN  /\ req[q].left \in Seq(Entries) /\ req[q].left # <<>>
             /\ e \in Entries
             /\ e.id \in RowIds \/ Ids \ UsedIds # {}
             /\ \/ authors' = authors /\ req' = [req EXCEPT ![q] = Idle]
                \/ /\ authors' = rest \cup {row}
                   /\ req' = [req EXCEPT ![q].left = Tail(@)]
<1>1. req[q].left \in Seq(Entries) /\ req[q].left # <<>>
  BY DEF SaveRow, RowsTyped, TypeOK
<1>2. Head(req[q].left) \in Entries
  BY <1>1
<1> QED
  BY <1>1, <1>2 DEF SaveRow

\* What a request begins with has its type.
LEMMA BeginTyped ==
  ASSUME RowsTyped, NEW q \in Requests, NEW by \in Profiles \cup {Office},
         NEW list \in Lists, NEW given \in WithIds(list), sent < MaxSent, Begin(q, by, given)
  PROVE  /\ Prepared(given, by) \in Seq(Entries)
         /\ RowsTyped'
<1>1. Prepared(given, by) \in Seq(Entries)
  BY WithIdsAreLists, PreparedIsList, PublicationsAssumption DEF RowsTyped
<1>2. RowIds \subseteq Ids
  BY DEF RowsTyped, TypeOK, RowIds, Entries
<1>3. req' \in [Requests -> [by : Profiles \cup {NoOne, Office}, gone : SUBSET Ids,
                             left : Seq(Entries), solo : BOOLEAN]]
  <2> DEFINE list2 == Prepared(given, by)
             named == {list2[k].id : k \in DOMAIN list2}
             alone == \A p \in Requests : req[p] = Idle
             new   == [by |-> by, gone |-> RowIds \ named, left |-> list2, solo |-> alone]
             Rs    == [by : Profiles \cup {NoOne, Office}, gone : SUBSET Ids,
                       left : Seq(Entries), solo : BOOLEAN]
  <2>1. alone \in BOOLEAN
    OBVIOUS
  <2>2. RowIds \ named \in SUBSET Ids
    BY <1>2
  <2> HIDE DEF list2, named, alone
  <2>3. new \in Rs
    BY <1>1, <2>1, <2>2 DEF list2
  <2>4. \A p \in Requests : [req[p] EXCEPT !.solo = FALSE] \in Rs
    BY DEF RowsTyped, TypeOK
  <2>5. req' = [p \in Requests |-> IF p = q THEN new ELSE [req[p] EXCEPT !.solo = FALSE]]
    BY DEF Begin, list2, named, alone
  <2> HIDE DEF new
  <2> QED
    BY <2>3, <2>4, <2>5
<1> QED
  <2>1. sent' \in 0..MaxSent
    BY PublicationsAssumption DEF Begin, RowsTyped, TypeOK
  <2>2. settled' = FALSE /\ UNCHANGED <<declared, owner, authors>>
    BY DEF Begin
  <2> QED
    BY <1>1, <1>3, <2>1, <2>2 DEF RowsTyped, TypeOK, IdsDiffer

\* Saving a row keeps the types, and ids that differ.
LEMMA SaveRowTyped ==
  ASSUME RowsTyped, NEW q \in Requests, SaveRow(q)
  PROVE  RowsTyped'
<1> DEFINE e    == Head(req[q].left)
           row  == Saved(e, req[q].by)
           rest == {r \in authors : r.id # row.id}
<1>1. /\ req[q].left \in Seq(Entries) /\ req[q].left # <<>>
      /\ e \in Entries /\ (e.id \in RowIds \/ Ids \ UsedIds # {})
      /\ \/ authors' = authors /\ req' = [req EXCEPT ![q] = Idle]
         \/ authors' = rest \cup {row} /\ req' = [req EXCEPT ![q].left = Tail(@)]
  BY SaveRowSteps DEF SaveRow
<1>2. row \in Entries /\ row.id # 0
  BY <1>1, SavedIsRow
<1>3. Tail(req[q].left) \in Seq(Entries)
  BY <1>1
<1>4. Idle \in [by : Profiles \cup {NoOne, Office}, gone : SUBSET Ids,
                left : Seq(Entries), solo : BOOLEAN]
  BY DEF Idle
<1> HIDE DEF row, e
<1>5. /\ authors' \subseteq Entries /\ \A r \in authors' : r.id # 0
      /\ \A r, s \in authors' : r.id = s.id => r = s
  BY <1>1, <1>2 DEF RowsTyped, TypeOK, IdsDiffer
<1>6. IsFiniteSet(authors')
  <2>1. IsFiniteSet(rest \cup {row})
    BY FS_Subset, FS_AddElement DEF RowsTyped
  <2> QED
    BY <1>1, <2>1 DEF RowsTyped
<1>7. req' \in [Requests -> [by : Profiles \cup {NoOne, Office}, gone : SUBSET Ids,
                             left : Seq(Entries), solo : BOOLEAN]]
  BY <1>1, <1>3, <1>4 DEF RowsTyped, TypeOK
<1> QED
  BY <1>5, <1>6, <1>7 DEF SaveRow, RowsTyped, TypeOK, IdsDiffer

\* Every step does.
LEMMA StepKeepsRows == RowsTyped /\ [Next]_vars => RowsTyped'
<1> SUFFICES ASSUME RowsTyped, [Next]_vars PROVE RowsTyped'
  OBVIOUS
<1> DEFINE Rs == [by : Profiles \cup {NoOne, Office}, gone : SUBSET Ids,
                  left : Seq(Entries), solo : BOOLEAN]
<1>0. Idle \in Rs /\ IsFiniteSet({})
  BY FS_EmptySet DEF Idle
<1>1. CASE UNCHANGED vars
  BY <1>1 DEF vars, RowsTyped, TypeOK, IdsDiffer
<1>2. ASSUME NEW v \in Profiles \cup {NoOne}, Declare(v) PROVE RowsTyped'
  BY <1>0, <1>2 DEF Declare, RowsTyped, TypeOK, IdsDiffer
<1>3. ASSUME NEW v \in Profiles, GiveTo(v) PROVE RowsTyped'
  BY <1>3 DEF GiveTo, RowsTyped, TypeOK, IdsDiffer
<1>4. CASE Destroy
  <2>1. req' \in [Requests -> Rs]
    BY <1>0, <1>4 DEF Destroy
  <2> QED
    BY <1>0, <1>4, <2>1 DEF Destroy, RowsTyped, TypeOK, IdsDiffer
<1>5. ASSUME NEW q \in Requests, Finish(q) \/ Stop(q) PROVE RowsTyped'
  <2>1. req' \in [Requests -> Rs] /\ settled' \in BOOLEAN
    BY <1>0, <1>5 DEF Finish, Stop, RowsTyped, TypeOK
  <2> QED
    BY <1>5, <2>1 DEF Finish, Stop, RowsTyped, TypeOK, IdsDiffer
<1>6. ASSUME NEW q \in Requests, NEW id \in Ids, Delete(q, id) PROVE RowsTyped'
  <2>1. req[q] \in Rs
    BY DEF RowsTyped, TypeOK
  <2>2. [req[q] EXCEPT !.gone = @ \ {id}] \in Rs
    BY <2>1
  <2>3. req' \in [Requests -> Rs]
    BY <1>6, <2>2 DEF Delete, RowsTyped, TypeOK
  <2>4. IsFiniteSet(authors')
    BY <1>6, FS_Subset DEF Delete, RowsTyped
  <2> QED
    BY <1>6, <2>3, <2>4 DEF Delete, RowsTyped, TypeOK, IdsDiffer
<1> QED
  BY <1>1, <1>2, <1>3, <1>4, <1>5, <1>6, BeginTyped, SaveRowTyped DEF Next

----------------------------------------------------------------------------
(* The owner's share.                                                      *)

\* A list being saved alone is the only one. Nothing is being saved of a
\* publication that is gone or whose list is settled.
Alone ==
    /\ \A q \in Requests : req[q].solo => \A p \in Requests \ {q} : req[p] = Idle
    /\ settled \/ ~declared => \A q \in Requests : req[q] = Idle
\* Whoever sends a list alone as the owner is an entry still to be saved or,
\* once nothing is left to be deleted, a row.
SenderStays(q) ==
    \/ \E k \in DOMAIN req[q].left : req[q].left[k].profile = req[q].by
    \/ req[q].gone = {} /\ \E r \in authors : r.profile = req[q].by
OwnerComes ==
    /\ \A q \in Requests : req[q].solo /\ req[q].by # Office => SenderStays(q)
    /\ settled => \E r \in authors : r.profile = owner
OwnerInv == RowsTyped /\ Alone /\ OwnerComes

\* Nothing that is saved takes the sender's row.
LEMMA SaveRowKeepsSender ==
  ASSUME OwnerInv, NEW q \in Requests, SaveRow(q), req[q].by # Office,
         SenderStays(q), req'[q] # Idle
  PROVE  SenderStays(q)'
<1> DEFINE left == req[q].left
           by   == req[q].by
           e    == Head(left)
           row  == Saved(e, by)
           rest == {r \in authors : r.id # row.id}
<1>1. /\ left \in Seq(Entries) /\ left # <<>> /\ e \in Entries
      /\ e.id \in RowIds \/ Ids \ UsedIds # {}
      /\ req[q] \in [by : Profiles \cup {NoOne, Office}, gone : SUBSET Ids,
                     left : Seq(Entries), solo : BOOLEAN]
      /\ req[q].gone = {}
  BY SaveRowSteps DEF OwnerInv, SaveRow, RowsTyped, TypeOK
<1>2. authors' = rest \cup {row} /\ req' = [req EXCEPT ![q].left = Tail(@)]
  <2>1. req' # [req EXCEPT ![q] = Idle]
    BY DEF OwnerInv, RowsTyped, TypeOK
  <2> QED
    BY <2>1, SaveRowSteps DEF OwnerInv
<1>3. req'[q].left = Tail(left) /\ req'[q].by = by /\ req'[q].gone = {}
  BY <1>1, <1>2 DEF OwnerInv, RowsTyped, TypeOK
<1>4. /\ e.profile = by => row.profile = by
      /\ \A r \in authors : r.profile = by /\ r.id = row.id => row.profile = by
  BY <1>1, SavedIsRow DEF OwnerInv
<1>5. CASE \E k \in DOMAIN left : left[k].profile = by
  <2>1. PICK k \in DOMAIN left : left[k].profile = by
    BY <1>5
  <2>2. CASE k = 1
    <3>1. row.profile = by
      BY <1>1, <1>4, <2>1, <2>2
    <3> HIDE DEF row
    <3> QED
      BY <1>2, <1>3, <3>1 DEF SenderStays
  <2>3. CASE k # 1
    <3>1. k - 1 \in DOMAIN Tail(left) /\ Tail(left)[k - 1] = left[k]
      BY <1>1, <2>1, <2>3
    <3> QED
      BY <1>3, <2>1, <3>1 DEF SenderStays
  <2> QED
    BY <2>2, <2>3
<1>6. CASE \E r \in authors : r.profile = by
  <2>1. PICK r \in authors : r.profile = by
    BY <1>6
  <2>2. r \in rest \/ row.profile = by
    BY <1>4, <2>1
  <2> HIDE DEF row
  <2> QED
    BY <1>2, <1>3, <2>1, <2>2 DEF SenderStays
<1> QED
  BY <1>5, <1>6 DEF SenderStays

\* A list that is accepted has its sender on it.
LEMMA BeginKeepsOwner ==
  ASSUME OwnerInv, NEW q \in Requests, NEW by \in Profiles \cup {Office},
         NEW list \in Lists, NEW given \in WithIds(list), sent < MaxSent, Begin(q, by, given)
  PROVE  (Alone /\ OwnerComes)'
<1> DEFINE ready == Prepared(given, by)
           named == {ready[k].id : k \in DOMAIN ready}
           alone == \A p \in Requests : req[p] = Idle
           new   == [by |-> by, gone |-> RowIds \ named, left |-> ready, solo |-> alone]
<1>1. /\ req' = [p \in Requests |-> IF p = q THEN new ELSE [req[p] EXCEPT !.solo = FALSE]]
      /\ declared /\ settled' = FALSE /\ UNCHANGED <<declared, owner, authors>>
      /\ Valid(ready, by) /\ req[q] = Idle
  BY DEF Begin
<1>2. by # Office => \E k \in DOMAIN ready : ready[k].profile = by
  BY <1>1 DEF Valid, LinkedTo
<1>3. new.by = by /\ new.left = ready /\ new.solo = alone
  OBVIOUS
<1> HIDE DEF ready, named, alone, new
<1>4. req'[q] = new /\ \A p \in Requests \ {q} : req'[p] = [req[p] EXCEPT !.solo = FALSE]
  BY <1>1
<1>5. \A p \in Requests \ {q} : ~req'[p].solo
  <2>1. \A p \in Requests : [req[p] EXCEPT !.solo = FALSE].solo = FALSE
    BY DEF OwnerInv, RowsTyped, TypeOK
  <2> QED
    BY <1>4, <2>1
<1>6. alone => \A p \in Requests \ {q} : req'[p] = Idle
  <2>1. [Idle EXCEPT !.solo = FALSE] = Idle
    <3> DEFINE Rs == [by : Profiles \cup {NoOne, Office}, gone : SUBSET Ids,
                      left : Seq(Entries), solo : BOOLEAN]
    <3>1. Idle \in Rs /\ Idle.solo = FALSE
      BY DEF Idle
    <3>2. \A r \in Rs : r.solo = FALSE => [r EXCEPT !.solo = FALSE] = r
      OBVIOUS
    <3> HIDE DEF Rs
    <3> QED
      BY <3>1, <3>2
  <2> QED
    BY <1>4, <2>1 DEF alone
<1>7. Alone'
  BY <1>1, <1>3, <1>4, <1>5, <1>6 DEF Alone
<1>8. by # Office => SenderStays(q)'
  BY <1>2, <1>3, <1>4 DEF SenderStays
<1> QED
  BY <1>1, <1>3, <1>4, <1>5, <1>7, <1>8 DEF OwnerComes

\* A request that ends takes nothing from the others.
LEMMA EndKeepsOwner ==
  ASSUME OwnerInv, NEW q \in Requests, req' = [req EXCEPT ![q] = Idle], req[q] # Idle,
         UNCHANGED <<declared, owner, authors>>,
         settled' => \/ settled
                     \/ req[q].solo /\ req[q].by = owner /\ req[q].left = <<>>
  PROVE  (Alone /\ OwnerComes)'
<1>1. /\ req'[q] = Idle /\ ~Idle.solo
      /\ \A p \in Requests \ {q} : req'[p] = req[p]
  BY DEF OwnerInv, RowsTyped, TypeOK, Idle
<1>2. ~settled /\ declared
  BY DEF OwnerInv, Alone
<1>3. settled' => /\ \A p \in Requests : req'[p] = Idle
                  /\ \E r \in authors : r.profile = owner
  <2> SUFFICES ASSUME req[q].solo, req[q].by = owner, req[q].left = <<>>
               PROVE  /\ \A p \in Requests : req'[p] = Idle
                      /\ \E r \in authors : r.profile = owner
    BY <1>2
  <2>1. owner # Office
    BY PublicationsAssumption DEF OwnerInv, RowsTyped, TypeOK
  <2>2. SenderStays(q)
    BY <2>1 DEF OwnerInv, OwnerComes
  <2> QED
    BY <1>1, <2>2 DEF SenderStays, OwnerInv, Alone
<1>4. Alone'
  BY <1>1, <1>2, <1>3 DEF OwnerInv, Alone
<1>5. ASSUME NEW p \in Requests, req'[p].solo, req'[p].by # Office PROVE SenderStays(p)'
  BY <1>1, <1>5 DEF OwnerInv, OwnerComes, SenderStays
<1> QED
  BY <1>3, <1>4, <1>5 DEF OwnerComes

\* Saving a row keeps the sender and the settled owner.
LEMMA SaveRowKeepsOwner ==
  ASSUME OwnerInv, NEW q \in Requests, SaveRow(q)
  PROVE  (Alone /\ OwnerComes)'
<1>1. req[q] # Idle /\ UNCHANGED <<declared, owner, settled, sent>>
  BY DEF SaveRow
<1>2. ~settled /\ declared
  BY <1>1 DEF OwnerInv, Alone
<1>3. CASE authors' = authors /\ req' = [req EXCEPT ![q] = Idle]
  BY <1>1, <1>3, EndKeepsOwner
<1>4. CASE req' = [req EXCEPT ![q].left = Tail(@)]
  <2>1. /\ req'[q].by = req[q].by /\ req'[q].solo = req[q].solo
        /\ \A p \in Requests \ {q} : req'[p] = req[p]
    BY <1>4 DEF OwnerInv, RowsTyped, TypeOK
  <2>2. \A p \in Requests \ {q} : ~req[p].solo
    BY <1>1 DEF OwnerInv, Alone
  <2>3. req[q].solo /\ req[q].by # Office => SenderStays(q)'
    <3> SUFFICES ASSUME req[q].solo, req[q].by # Office PROVE SenderStays(q)'
      OBVIOUS
    <3>1. SenderStays(q)
      BY DEF OwnerInv, OwnerComes
    <3>2. req'[q] # Idle
      <4>1. Idle.solo = FALSE
        BY DEF Idle
      <4> QED
        BY <2>1, <4>1
    <3> QED
      BY <3>1, <3>2, SaveRowKeepsSender
  <2>4. Alone'
    BY <1>1, <1>2, <2>1, <2>2 DEF OwnerInv, Alone
  <2> QED
    BY <1>1, <1>2, <2>1, <2>2, <2>3, <2>4 DEF OwnerComes
<1> QED
  BY <1>3, <1>4, SaveRowSteps DEF OwnerInv

\* No row deleted is the sender's only one.
LEMMA DeleteKeepsOwner ==
  ASSUME OwnerInv, NEW q \in Requests, NEW id \in Ids, Delete(q, id)
  PROVE  (Alone /\ OwnerComes)'
<1>1. /\ req' = [req EXCEPT ![q].gone = @ \ {id}] /\ id \in req[q].gone
      /\ UNCHANGED <<declared, owner, settled>>
  BY DEF Delete
<1>2. /\ req'[q].by = req[q].by /\ req'[q].solo = req[q].solo /\ req'[q].left = req[q].left
      /\ \A p \in Requests \ {q} : req'[p] = req[p]
      /\ req[q] # Idle
  BY <1>1 DEF OwnerInv, RowsTyped, TypeOK, Idle
<1>3. ~settled /\ declared /\ \A p \in Requests \ {q} : ~req[p].solo
  BY <1>2 DEF OwnerInv, Alone
<1>4. req[q].solo /\ req[q].by # Office => SenderStays(q)'
  BY <1>1, <1>2 DEF OwnerInv, OwnerComes, SenderStays
<1>5. Alone'
  BY <1>1, <1>2, <1>3 DEF OwnerInv, Alone
<1> QED
  BY <1>1, <1>2, <1>3, <1>4, <1>5 DEF OwnerComes

\* Every step keeps what the share of the owner rests on.
LEMMA StepKeepsOwner == OwnerInv /\ [Next]_vars => (Alone /\ OwnerComes)'
<1> SUFFICES ASSUME OwnerInv, [Next]_vars PROVE (Alone /\ OwnerComes)'
  OBVIOUS
<1>1. CASE UNCHANGED vars
  BY <1>1 DEF vars, OwnerInv, Alone, OwnerComes, SenderStays
<1>2. ASSUME NEW v \in Profiles \cup {NoOne}, Declare(v) PROVE (Alone /\ OwnerComes)'
  BY <1>2 DEF Declare, OwnerInv, Alone, OwnerComes, Idle
<1>3. ASSUME NEW v \in Profiles, GiveTo(v) PROVE (Alone /\ OwnerComes)'
  BY <1>3 DEF GiveTo, OwnerInv, Alone, OwnerComes, SenderStays
<1>4. CASE Destroy
  BY <1>4 DEF Destroy, Alone, OwnerComes, Idle
<1>5. ASSUME NEW q \in Requests, Finish(q) PROVE (Alone /\ OwnerComes)'
  BY <1>5, EndKeepsOwner DEF Finish
<1>6. ASSUME NEW q \in Requests, Stop(q) PROVE (Alone /\ OwnerComes)'
  BY <1>6, EndKeepsOwner DEF Stop
<1> QED
  BY <1>1, <1>2, <1>3, <1>4, <1>5, <1>6, BeginKeepsOwner, SaveRowKeepsOwner,
     DeleteKeepsOwner DEF Next

----------------------------------------------------------------------------
(* The theorems.                                                           *)

\* It holds before there is a publication.
LEMMA InitOwner == Init => OwnerInv
<1> SUFFICES ASSUME Init PROVE OwnerInv
  OBVIOUS
<1>1. IsFiniteSet(authors) /\ IdsDiffer
  BY FS_EmptySet DEF Init, IdsDiffer
<1>2. req \in [Requests -> [by : Profiles \cup {NoOne, Office}, gone : SUBSET Ids,
                            left : Seq(Entries), solo : BOOLEAN]]
  BY DEF Init, Idle
<1>3. TypeOK
  <2>1. MaxSent \in Nat
    BY PublicationsAssumption
  <2>2. declared = FALSE /\ owner = NoOne /\ authors = {} /\ sent = 0 /\ settled = FALSE
    BY DEF Init
  <2> QED
    <3>1. sent \in 0..MaxSent /\ owner \in Profiles \cup {NoOne}
      BY <2>1, <2>2
    <3>2. authors \subseteq Entries /\ \A r \in authors : r.id # 0
      BY <2>2
    <3>3. declared \in BOOLEAN /\ settled \in BOOLEAN
      BY <2>2
    <3> QED
      BY <1>2, <3>1, <3>2, <3>3, Zenon DEF TypeOK
<1>4. \A q \in Requests : req[q] = Idle /\ ~Idle.solo
  BY DEF Init, Idle
<1>5. Alone /\ OwnerComes
  BY <1>4 DEF Init, Alone, OwnerComes
<1> QED
  BY <1>1, <1>3, <1>5 DEF OwnerInv, RowsTyped

\* RowsTyped always holds.
LEMMA RowsStayTyped == Spec => []RowsTyped
<1>1. Init => RowsTyped
  BY InitOwner DEF OwnerInv
<1> QED
  BY <1>1, StepKeepsRows, PTL DEF Spec

\* Every row and every entry of a list being saved has its type, whatever lists
\* are sent and however often.
THEOREM PublicationsTypeCorrect == Spec => []TypeOK
<1>1. RowsTyped => TypeOK
  BY DEF RowsTyped
<1> QED
  BY <1>1, RowsStayTyped, PTL

\* The owner who has saved a list in full, and alone, is on it.
THEOREM OwnersHaveTheirShare == Spec => []OwnerHasOwnShare
<1>1. OwnerInv /\ [Next]_vars => OwnerInv'
  BY StepKeepsRows, StepKeepsOwner DEF OwnerInv
<1>2. OwnerInv => OwnerHasOwnShare
  BY DEF OwnerInv, OwnerComes, OwnerHasOwnShare
<1> QED
  BY <1>1, <1>2, InitOwner, PTL DEF Spec

\* All three places show the same hours, up to the roundings of one of them, for
\* any catalogue of results, any people and any list of authors.
THEOREM AllPagesAgree == Spec => []PagesAgree
<1>1. RowsTyped => PagesAgree
  <2> SUFFICES ASSUME RowsTyped, NEW w \in Works, NEW v \in Related(owner, authors)
               PROVE  /\ TeacherHours(w, owner, authors, v) = ReportHours(w, owner, authors, v)
                      /\ \A r \in authors : r.profile \in Profiles =>
                            LET given == IF Counted(w, authors, TRUE)
                                         THEN RowHours(w, authors, r, r.profile, TRUE) ELSE 0
                            IN  PageHours(w, owner, authors, r, v) - given \in -1..1
    BY DEF PagesAgree
  <2>1. EngineHours(w, owner, authors, v, FALSE) = EngineHours(w, owner, authors, v, TRUE)
    BY CacheDecidesNothing
  <2>2. TeacherHours(w, owner, authors, v) = ReportHours(w, owner, authors, v)
    BY <2>1 DEF TeacherHours, ReportHours, Related
  <2>3. \A r \in authors : r.pct \in Nat
    BY DEF RowsTyped, TypeOK, Entries
  <2> QED
    BY <2>2, <2>3, PageOfRelated DEF RowsTyped
<1> QED
  BY <1>1, RowsStayTyped, PTL

----------------------------------------------------------------------------
(* The hours of all together.                                              *)

\* What one person gets for a share, weighed: the share, and half a hundredth for
\* the rounding.
LEMMA WeighedHours ==
  ASSUME NEW num \in Nat, NEW den \in Nat \ {0}, NEW more \in BOOLEAN, NEW mixed \in BOOLEAN
  PROVE  LET h == RoundDiv(num * (IF more THEN 6 ELSE 5),
                           den * 2 * (IF mixed THEN 2 ELSE 1) * 5)
         IN  /\ h \in Int
             /\ 2 * (den * ((IF more THEN 5 ELSE 6) * h)) <= 6 * num + 6 * den
<1> DEFINE m == IF mixed THEN 2 ELSE 1
           f == IF more THEN 6 ELSE 5
           D == den * 2 * m * 5
           h == RoundDiv(num * f, D)
           x == den * h
<1>1. D \in Nat \ {0} /\ num * f \in Int /\ D = 10 * (den * m)
  OBVIOUS
<1>2. h \in Int /\ 2 * (D * h) <= 2 * (num * f) + D
  <2> DEFINE N == num * f
  <2>1. N \in Int /\ D \in Nat \ {0}
    BY <1>1
  <2> HIDE DEF N, D
  <2> QED
    BY <2>1, RoundDivBounds DEF N
<1> HIDE DEF h
<1>3. x \in Int /\ D * h = (IF mixed THEN 20 ELSE 10) * x
  BY <1>2
<1>4. 2 * ((IF mixed THEN 20 ELSE 10) * x) <= 2 * (num * f) + (IF mixed THEN 20 ELSE 10) * den
  BY <1>1, <1>2, <1>3
<1>5. den * ((IF more THEN 5 ELSE 6) * h) = (IF more THEN 5 ELSE 6) * x
  BY <1>2
<1>6. 2 * ((IF more THEN 5 ELSE 6) * x) <= 6 * num + 6 * den
  <2> HIDE DEF x
  <2> QED
    BY <1>3, <1>4
<1> QED
  BY <1>2, <1>5, <1>6 DEF h

\* The share of a row as the engine counts it, before it is weighed.
ShareOf(w, r) ==
    IF ByPercentage(w, TRUE) THEN PercentShare(TwiceB(w, authors), authors, r)
    ELSE RoleShare(TwiceB(w, authors), MainCount(w, authors, TRUE), authors, r)

\* A counted work has hours, and somebody who has done it.
LEMMA CountedHours ==
  ASSUME NEW w \in Works, IsFiniteSet(authors), Counted(w, authors, TRUE)
  PROVE  /\ TwiceB(w, authors) \in Nat \ {0}
         /\ MainCount(w, authors, TRUE) \in Nat \ {0}
         /\ Cardinality(authors) \in Nat \ {0}
<1>1. BaseHours(w) \in Int /\ BaseHours(w) > 0 /\ MainCount(w, authors, TRUE) > 0
  BY HoursOfWork DEF Counted
<1>2. FactorA(w, authors) \in {2, 3, 4}
  BY DEF FactorA
<1>3. TwiceB(w, authors) \in Nat \ {0}
  BY <1>1, <1>2 DEF TwiceB
<1>4. Cardinality(authors) \in Nat \ {0}
  BY FS_CardinalityType, FS_EmptySet DEF Counted
<1> DEFINE n == MainCount(w, authors, TRUE)
<1>5. n \in Nat
  BY MainCountIsNat
<1>6. n > 0
  BY <1>1
<1> HIDE DEF n
<1>7. n \in Nat \ {0}
  BY <1>5, <1>6
<1> QED
  BY <1>3, <1>4, <1>7 DEF n

\* The rows' shares have a common denominator d, over which they come to the whole.
IsDivision(w, d, u, us) ==
    /\ d \in Nat \ {0} /\ u \in [authors -> Nat] /\ IsSum(us, u, authors)
    /\ us[authors] = d * TwiceB(w, authors)
    /\ \A r \in authors :
          /\ ShareOf(w, r)[1] \in Nat /\ ShareOf(w, r)[2] \in Nat \ {0}
          /\ \E c \in Nat \ {0} : /\ d = c * ShareOf(w, r)[2]
                                  /\ u[r] = c * ShareOf(w, r)[1]

\* So have shares by percentage, when nobody is unpaid.
LEMMA DividedByPercentage ==
  ASSUME NEW w \in Works, IsFiniteSet(authors), \A r \in authors : r.pct \in Nat,
         Counted(w, authors, TRUE), ~Unpaid, ByPercentage(w, TRUE)
  PROVE  \E d, u, us : IsDivision(w, d, u, us)
<1> DEFINE B == TwiceB(w, authors)
           p == Cardinality(authors)
<1>1. B \in Nat \ {0} /\ p \in Nat \ {0}
  BY CountedHours
<1>2. CASE AllPercent(authors) = 100
  <2> DEFINE pct == [r \in authors |-> r.pct]
             u == [r \in authors |-> B * r.pct]
  <2>1. \A r \in authors : r.pct > 0
    BY <1>2 DEF Unpaid
  <2> HIDE DEF B
  <2>2. pct \in [authors -> Int] /\ u \in [authors -> Nat] /\ u \in [authors -> Int]
    BY <1>1
  <2>3. PICK ps : IsSum(ps, pct, authors) /\ AllPercent(authors) = ps[authors]
    <3>1. AllPercent(authors) = SumFunction(pct)
      BY DEF AllPercent
    <3> HIDE DEF pct
    <3> QED
      BY <2>2, <3>1, SumOfAll
  <2>4. PICK us : IsSum(us, u, authors)
    <3> HIDE DEF u
    <3> QED
      BY <2>2, SumOfAll
  <2>5. us[authors] = B * ps[authors]
    <3>1. \A r \in authors : u[r] = B * pct[r]
      OBVIOUS
    <3> HIDE DEF u, pct
    <3> QED
      BY <1>1, <2>2, <2>3, <2>4, <3>1, SumOfMultiples
  <2>6. us[authors] = 100 * B
    BY <1>1, <1>2, <2>3, <2>5
  <2>7. ASSUME NEW r \in authors
        PROVE  /\ ShareOf(w, r)[1] = B * r.pct /\ ShareOf(w, r)[2] = 100
               /\ B * r.pct \in Nat
    BY <1>1, <1>2, <2>1, <2>7 DEF ShareOf, PercentShare, B
  <2>8. \A r \in authors :
          /\ ShareOf(w, r)[1] \in Nat /\ ShareOf(w, r)[2] \in Nat \ {0}
          /\ \E c \in Nat \ {0} : /\ 100 = c * ShareOf(w, r)[2]
                                  /\ u[r] = c * ShareOf(w, r)[1]
    <3> SUFFICES ASSUME NEW r \in authors
                 PROVE  /\ ShareOf(w, r)[1] \in Nat /\ ShareOf(w, r)[2] \in Nat \ {0}
                        /\ 100 = 1 * ShareOf(w, r)[2] /\ u[r] = 1 * ShareOf(w, r)[1]
      OBVIOUS
    <3> DEFINE x == B * r.pct
    <3>1. x \in Nat /\ ShareOf(w, r)[1] = x /\ ShareOf(w, r)[2] = 100 /\ u[r] = x
      BY <2>7
    <3> HIDE DEF x, u
    <3> QED
      BY <3>1
  <2>9. IsDivision(w, 100, u, us)
    <3> HIDE DEF u
    <3> QED
      BY <2>2, <2>4, <2>6, <2>8 DEF IsDivision, B
  <2> QED
    BY <2>9
<1>3. CASE AllPercent(authors) # 100
  <2> DEFINE u == [r \in authors |-> B]
  <2> HIDE DEF B, p
  <2>1. u \in [authors -> Nat] /\ u \in [authors -> Int]
    BY <1>1
  <2>2. PICK us : IsSum(us, u, authors)
    <3> HIDE DEF u
    <3> QED
      BY <2>1, SumOfAll
  <2>3. us[authors] = B * Cardinality(authors \cap authors) + B * Cardinality(authors \ authors)
    <3>1. IsTwoFold(u, authors, authors, B, B)
      BY <1>1, <2>1 DEF IsTwoFold
    <3> HIDE DEF u
    <3> QED
      BY <2>2, <3>1, SumOfTwo
  <2>4. us[authors] = p * B
    <3>1. authors \cap authors = authors /\ authors \ authors = {} /\ Cardinality({}) = 0
      BY FS_EmptySet
    <3>2. us[authors] = B * p + B * 0
      BY <2>3, <3>1 DEF p
    <3> QED
      BY <1>1, <3>2
  <2>5. \A r \in authors : ShareOf(w, r)[1] = B /\ ShareOf(w, r)[2] = p
    BY <1>3 DEF ShareOf, PercentShare, B, p
  <2>6. \A r \in authors :
          /\ ShareOf(w, r)[1] \in Nat /\ ShareOf(w, r)[2] \in Nat \ {0}
          /\ \E c \in Nat \ {0} : /\ p = c * ShareOf(w, r)[2]
                                  /\ u[r] = c * ShareOf(w, r)[1]
    <3>1. p = 1 * p /\ B = 1 * B
      BY <1>1
    <3> QED
      BY <1>1, <2>5, <3>1
  <2>7. IsDivision(w, p, u, us)
    <3> HIDE DEF u
    <3> QED
      BY <1>1, <2>1, <2>2, <2>4, <2>6 DEF IsDivision, B
  <2> QED
    BY <2>7
<1> QED
  BY <1>2, <1>3

\* And shares by role.
LEMMA DividedByRole ==
  ASSUME NEW w \in Works, IsFiniteSet(authors), Counted(w, authors, TRUE), ~ByPercentage(w, TRUE)
  PROVE  \E d, u, us : IsDivision(w, d, u, us)
<1> DEFINE B == TwiceB(w, authors)
           p == Cardinality(authors)
           n == MainCount(w, authors, TRUE)
           M == {r \in authors : Main(r) \/ p = 1}
           d == 3 * n * p
           a == B * (p + 2 * n)
           b == n * (2 * B)
           u == [r \in authors |-> IF r \in M THEN a ELSE b]
<1>1. B \in Nat \ {0} /\ p \in Nat \ {0} /\ n \in Nat \ {0}
  BY CountedHours
<1>2. n = Cardinality(M)
  <2> DEFINE k == Cardinality({r \in authors : Main(r)})
  <2>1. n = IF k = 0 /\ p = 1 THEN 1 ELSE k
    BY DEF MainCount
  <2>2. IsFiniteSet({r \in authors : Main(r)}) /\ k \in Nat /\ k <= p
    BY FS_Subset, FS_CardinalityType
  <2>3. CASE p = 1
    <3>1. M = authors
      BY <2>3
    <3>2. n = 1
      <4> HIDE DEF n, k, p
      <4>1. k = 0 \/ k = 1
        BY <2>2, <2>3
      <4> QED
        BY <2>1, <2>3, <4>1
    <3> QED
      BY <2>3, <3>1, <3>2
  <2>4. CASE p # 1
    <3>1. M = {r \in authors : Main(r)}
      BY <2>4
    <3> QED
      BY <2>1, <2>4, <3>1
  <2> QED
    BY <2>3, <2>4
<1>3. IsFiniteSet(M) /\ authors \cap M = M /\ Cardinality(authors \ M) = p - n
  <2>1. IsFiniteSet(M) /\ authors \cap M = M
    BY FS_Subset
  <2>2. Cardinality(authors \ M) = p - Cardinality(authors \cap M)
    BY FS_Difference
  <2> QED
    BY <1>2, <2>1, <2>2
<1>4. ASSUME NEW r \in authors, r \in M
      PROVE  ShareOf(w, r)[1] = a /\ ShareOf(w, r)[2] = d
  BY <1>4 DEF ShareOf, RoleShare
<1>5. ASSUME NEW r \in authors, r \notin M
      PROVE  ShareOf(w, r)[1] = 2 * B /\ ShareOf(w, r)[2] = 3 * p
  BY <1>5 DEF ShareOf, RoleShare
<1> HIDE DEF B, p, n, M
<1>6. a \in Nat /\ b \in Nat /\ d \in Nat \ {0} /\ d = n * (3 * p)
  <2>1. n * p \in Nat \ {0} /\ B * n \in Nat /\ B * p \in Nat
    BY <1>1
  <2>2. a = B * p + 2 * (B * n) /\ b = 2 * (B * n) /\ d = 3 * (n * p) /\ d = n * (3 * p)
    BY <1>1
  <2> QED
    BY <2>1, <2>2
<1>7. a * n + b * (p - n) = d * B
  BY <1>1
<1> HIDE DEF a, b, d
<1>8. u \in [authors -> Nat] /\ u \in [authors -> Int]
  BY <1>6
<1>9. PICK us : IsSum(us, u, authors)
  <2> HIDE DEF u
  <2> QED
    BY <1>8, SumOfAll
<1>10. us[authors] = d * B
  <2>1. IsTwoFold(u, authors, M, a, b)
    BY <1>6, <1>8 DEF IsTwoFold
  <2> HIDE DEF u
  <2>3. us[authors] = a * Cardinality(authors \cap M) + b * Cardinality(authors \ M)
    BY <1>9, <2>1, SumOfTwo
  <2> QED
    BY <1>2, <1>3, <1>7, <2>3
<1>11. \A r \in authors :
          /\ ShareOf(w, r)[1] \in Nat /\ ShareOf(w, r)[2] \in Nat \ {0}
          /\ \E c \in Nat \ {0} : /\ d = c * ShareOf(w, r)[2]
                                  /\ u[r] = c * ShareOf(w, r)[1]
  <2>1. ASSUME NEW r \in authors, r \in M
        PROVE  /\ ShareOf(w, r)[1] \in Nat /\ ShareOf(w, r)[2] \in Nat \ {0}
               /\ d = 1 * ShareOf(w, r)[2] /\ u[r] = 1 * ShareOf(w, r)[1]
    BY <1>4, <1>6, <2>1
  <2>2. ASSUME NEW r \in authors, r \notin M
        PROVE  /\ ShareOf(w, r)[1] \in Nat /\ ShareOf(w, r)[2] \in Nat \ {0}
               /\ d = n * ShareOf(w, r)[2] /\ u[r] = n * ShareOf(w, r)[1]
    <3>1. 2 * B \in Nat /\ 3 * p \in Nat \ {0} /\ u[r] = n * (2 * B)
      BY <1>1, <2>2 DEF b
    <3>2. ShareOf(w, r)[1] = 2 * B /\ ShareOf(w, r)[2] = 3 * p
      BY <1>5, <2>2
    <3> QED
      BY <1>6, <3>1, <3>2
  <2> HIDE DEF u
  <2> QED
    BY <1>1, <2>1, <2>2
<1>12. IsDivision(w, d, u, us)
  <2> HIDE DEF u
  <2> QED
    BY <1>6, <1>8, <1>9, <1>10, <1>11 DEF IsDivision, B
<1> QED
  BY <1>12

\* The row a person's hours come from is nobody else's.
TheirRow(w, v) == CHOOSE r \in Candidates(owner, authors, v) :
                      Max(ReportHours(w, owner, authors, v)) = RowHours(w, authors, r, v, TRUE)

\* The hours of a row are its share, weighed and rounded.
LEMMA RowHoursOfShare ==
  ASSUME NEW w, NEW r, NEW v
  PROVE  RowHours(w, authors, r, v, TRUE) =
            RoundDiv(ShareOf(w, r)[1] * (IF v \in Female THEN 6 ELSE 5),
                     ShareOf(w, r)[2] * 2 * (IF r.aff = "MIXED" THEN 2 ELSE 1) * 5)
BY DEF RowHours, ShareOf

\* There is such a row, and it gives the person's hours.
LEMMA HoursComeFromRow ==
  ASSUME NEW w \in Works, IsFiniteSet(authors), authors # {}, w.inPeriod,
         Counted(w, authors, TRUE), NEW v \in Related(owner, authors),
         \A r \in authors : RowHours(w, authors, r, v, TRUE) \in Int
  PROVE  /\ TheirRow(w, v) \in Candidates(owner, authors, v)
         /\ TheirRow(w, v) \in authors
         /\ Max(ReportHours(w, owner, authors, v)) = RowHours(w, authors, TheirRow(w, v), v, TRUE)
<1> DEFINE mine == Candidates(owner, authors, v)
           hours == {RowHours(w, authors, r, v, TRUE) : r \in mine}
<1>1. mine # {} /\ mine \in SUBSET authors
  <2>1. mine # {}
    BY RelatedAreTold
  <2>2. mine \in SUBSET authors
    BY DEF Candidates
  <2> QED
    BY <2>1, <2>2
<1>2. ReportHours(w, owner, authors, v) = hours
  BY <1>1 DEF ReportHours, EngineHours
<1>3. hours \in SUBSET Int /\ hours # {}
  BY <1>1
<1>4. IsFiniteSet(hours)
  <2>1. IsFiniteSet(mine)
    BY <1>1, FS_Subset
  <2> DEFINE to == [r \in mine |-> RowHours(w, authors, r, v, TRUE)]
  <2>2. to \in Surjection(mine, hours)
    BY DEF Surjection
  <2> HIDE DEF to, mine, hours
  <2> QED
    BY <2>1, <2>2, FS_Surjection
<1>5. Max(hours) \in hours
  <2> HIDE DEF hours
  <2> QED
    BY <1>3, <1>4, MaxIsIn
<1>6. \E r \in mine : Max(hours) = RowHours(w, authors, r, v, TRUE)
  BY <1>5
<1> QED
  BY <1>1, <1>2, <1>6 DEF TheirRow

\* No two people have it in common.
LEMMA RowsAreTheirs ==
  ASSUME ~Borrowed, NEW v \in Related(owner, authors), NEW x \in Related(owner, authors),
         NEW r \in Candidates(owner, authors, v), r \in Candidates(owner, authors, x)
  PROVE  v = x
<1>1. ASSUME NEW y \in Related(owner, authors), r \in Candidates(owner, authors, y)
      PROVE  r.profile = y \/ (y = owner /\ r.profile \in {owner, NoOne})
  <2>1. CASE \E s \in authors : s.profile = y
    BY <1>1, <2>1 DEF Candidates
  <2>2. CASE ~ \E s \in authors : s.profile = y
    <3>1. y = owner
      BY <1>1, <2>2 DEF Candidates
    <3> QED
      BY <1>1, <3>1 DEF Borrowed
  <2> QED
    BY <2>1, <2>2
<1>2. v \in Profiles /\ x \in Profiles /\ NoOne \notin Profiles
  BY KpiAssumption DEF Related
<1> QED
  BY <1>1, <1>2

\* As many people as rows, and the owner.
LEMMA PeopleAreFinite ==
  ASSUME IsFiniteSet(authors)
  PROVE  IsFiniteSet(Related(owner, authors))
<1> DEFINE linked == {r.profile : r \in authors}
           to == [r \in authors |-> r.profile]
<1>1. to \in Surjection(authors, linked)
  BY DEF Surjection
<1>2. IsFiniteSet(linked)
  <2> HIDE DEF to, linked
  <2> QED
    BY <1>1, FS_Surjection
<1>3. IsFiniteSet(linked \cup {owner})
  <2> HIDE DEF linked
  <2> QED
    BY <1>2, FS_AddElement
<1>4. Related(owner, authors) \in SUBSET (linked \cup {owner})
  BY DEF Related
<1> QED
  BY <1>3, <1>4, FS_Subset

\* The people on a publication get no more than its hours, whichever requests
\* were saving whatever lists when, for any catalogue and any people.
THEOREM HoursDivided == Spec => []HoursAreShared
<1>1. ASSUME RowsTyped, authors # {}, ~Borrowed, ~Unpaid, NEW w \in Works
      PROVE  LET people == Related(owner, authors)
                 weighed(v) == (IF v \in Female THEN 5 ELSE 6)
                                   * Max(ReportHours(w, owner, authors, v))
                 shared     == IF Counted(w, authors, TRUE) THEN TwiceB(w, authors) ELSE 0
             IN  2 * SumFunction([v \in people |-> weighed(v)])
                     <= 6 * shared + 6 * Cardinality(people)
  <2> DEFINE people == Related(owner, authors)
             hours(v) == Max(ReportHours(w, owner, authors, v))
             weighed(v) == (IF v \in Female THEN 5 ELSE 6) * hours(v)
             B == TwiceB(w, authors)
             f == [v \in people |-> weighed(v)]
  <2>1. IsFiniteSet(authors) /\ \A r \in authors : r.pct \in Nat
    BY <1>1 DEF RowsTyped, TypeOK, Entries
  <2>2. IsFiniteSet(people) /\ Cardinality(people) \in Nat
    BY <2>1, PeopleAreFinite, FS_CardinalityType
  <2>3. CASE ~(w.inPeriod /\ Counted(w, authors, TRUE))
    <3>1. \A v \in people : hours(v) = 0
      <4>1. \A v \in people : ReportHours(w, owner, authors, v) = {0}
        BY <2>3 DEF ReportHours, EngineHours
      <4>2. Max({0}) = 0
        BY DEF Max
      <4> QED
        BY <4>1, <4>2
    <3>2. \A v \in people : f[v] = 0
      BY <3>1
    <3>3. f \in [people -> Int]
      BY <3>2
    <3> HIDE DEF f, people
    <3>4. PICK fs : IsSum(fs, f, people) /\ SumFunction(f) = fs[people]
      BY <2>2, <3>3, SumOfAll
    <3>5. fs[people] = 0 * Cardinality(people \cap {}) + 0 * Cardinality(people \ {})
      <4>1. IsTwoFold(f, people, {}, 0, 0)
        BY <3>2, <3>3 DEF IsTwoFold
      <4> QED
        BY <2>2, <3>4, <4>1, SumOfTwo
    <3>6. SumFunction(f) = 0
      <4>1. people \cap {} = {} /\ people \ {} = people /\ Cardinality({}) = 0
        BY FS_EmptySet
      <4> QED
        BY <2>2, <3>4, <3>5, <4>1
    <3>7. (IF Counted(w, authors, TRUE) THEN B ELSE 0) \in Nat
      <4>1. Counted(w, authors, TRUE) => B \in Nat
        BY <2>1, CountedHours
      <4> HIDE DEF B
      <4> QED
        BY <4>1
    <3>8. 2 * SumFunction(f) <= 6 * (IF Counted(w, authors, TRUE) THEN B ELSE 0)
                                  + 6 * Cardinality(people)
      <4> DEFINE s == IF Counted(w, authors, TRUE) THEN B ELSE 0
                 c == Cardinality(people)
      <4>1. s \in Nat /\ c \in Nat
        BY <2>2, <3>7
      <4> HIDE DEF s, c
      <4>2. 2 * 0 <= 6 * s + 6 * c
        BY <4>1
      <4> QED
        BY <3>6, <4>2 DEF s, c
    <3> QED
      BY <3>8 DEF f, people
  <2>4. CASE w.inPeriod /\ Counted(w, authors, TRUE)
    <3>1. B \in Nat \ {0}
      BY <2>1, <2>4, CountedHours
    <3>2. PICK d, u, us : IsDivision(w, d, u, us)
      BY <1>1, <2>1, <2>4, DividedByPercentage, DividedByRole
    <3>3. /\ d \in Nat \ {0} /\ u \in [authors -> Nat] /\ IsSum(us, u, authors)
          /\ us[authors] = d * B
      BY <3>2 DEF IsDivision
    <3>4. ASSUME NEW v \in people, NEW r \in authors
          PROVE  LET h == RowHours(w, authors, r, v, TRUE)
                 IN  /\ h \in Int
                     /\ 2 * (d * ((IF v \in Female THEN 5 ELSE 6) * h)) <= 6 * u[r] + 6 * d
      <4> DEFINE h == RowHours(w, authors, r, v, TRUE)
                 num == ShareOf(w, r)[1]
                 den == ShareOf(w, r)[2]
                 more == v \in Female
                 mixed == r.aff = "MIXED"
      <4>1. num \in Nat /\ den \in Nat \ {0}
        BY <3>2 DEF IsDivision
      <4>2. PICK c \in Nat \ {0} : d = c * den /\ u[r] = c * num
        BY <3>2 DEF IsDivision
      <4>3. h = RoundDiv(num * (IF more THEN 6 ELSE 5), den * 2 * (IF mixed THEN 2 ELSE 1) * 5)
        BY RowHoursOfShare
      <4>4. more \in BOOLEAN /\ mixed \in BOOLEAN
        OBVIOUS
      <4> DEFINE wh == (IF more THEN 5 ELSE 6) * h
      <4> HIDE DEF num, den, more, mixed
      <4>5. h \in Int /\ 2 * (den * wh) <= 6 * num + 6 * den
        BY <4>1, <4>3, <4>4, WeighedHours
      <4> HIDE DEF h
      <4>6. wh \in Int
        BY <4>5
      <4> HIDE DEF wh
      <4>7. 2 * (d * wh) <= 6 * u[r] + 6 * d
        <5> DEFINE y == den * wh
        <5>1. y \in Int /\ d * wh = c * y
          BY <4>1, <4>2, <4>6
        <5>2. 2 * y <= 6 * num + 6 * den
          BY <4>5
        <5> HIDE DEF y
        <5>3. c * (2 * y) <= c * (6 * num + 6 * den)
          <6> DEFINE l == 2 * y
                     g == 6 * num + 6 * den
          <6>1. l \in Int /\ g \in Int /\ l <= g
            BY <4>1, <5>1, <5>2
          <6> HIDE DEF l, g
          <6>2. c * l <= c * g
            BY <6>1
          <6> QED
            BY <6>2 DEF l, g
        <5>4. c * (2 * y) = 2 * (c * y) /\ c * (6 * num + 6 * den) = 6 * (c * num) + 6 * (c * den)
          BY <4>1, <5>1
        <5> QED
          BY <4>2, <5>1, <5>3, <5>4
      <4> QED
        BY <4>5, <4>7 DEF h, wh, more
    <3> DEFINE to == [v \in people |-> TheirRow(w, v)]
    <3>5. ASSUME NEW v \in people
          PROVE  /\ TheirRow(w, v) \in Candidates(owner, authors, v)
                 /\ TheirRow(w, v) \in authors
                 /\ hours(v) = RowHours(w, authors, TheirRow(w, v), v, TRUE)
      <4>1. \A r \in authors : RowHours(w, authors, r, v, TRUE) \in Int
        BY <3>4
      <4> QED
        BY <1>1, <2>1, <2>4, <4>1, HoursComeFromRow
    <3>6. to \in [people -> authors] /\ \A v, x \in people : to[v] = to[x] => v = x
      BY <1>1, <3>5, RowsAreTheirs
    <3>7. ASSUME NEW v \in people
          PROVE  f[v] \in Int /\ (2 * d) * f[v] <= 6 * u[to[v]] + 6 * d
      <4> DEFINE r == TheirRow(w, v)
                 h == RowHours(w, authors, r, v, TRUE)
                 wh == (IF v \in Female THEN 5 ELSE 6) * h
      <4>1. r \in authors /\ f[v] = wh /\ to[v] = r
        BY <3>5
      <4> HIDE DEF r, f, to
      <4>2. h \in Int /\ 2 * (d * wh) <= 6 * u[r] + 6 * d
        BY <3>4, <4>1
      <4> HIDE DEF h
      <4>3. wh \in Int /\ (2 * d) * wh = 2 * (d * wh)
        BY <3>3, <4>2
      <4> HIDE DEF wh
      <4> QED
        BY <4>1, <4>2, <4>3
    <3>8. f \in [people -> Int]
      BY <3>7
    <3> HIDE DEF to, f, people, B
    <3>9. PICK fs : IsSum(fs, f, people) /\ SumFunction(f) = fs[people]
      BY <2>2, <3>8, SumOfAll
    <3>10. (2 * d) * fs[people] <= 6 * us[authors] + (6 * d) * Cardinality(people)
      <4>1. 2 * d \in Int /\ 6 * d \in Int
        BY <3>3
      <4>2. \A v \in people : (2 * d) * f[v] <= 6 * u[to[v]] + 6 * d
        BY <3>7
      <4> DEFINE dd == 2 * d
                 kk == 6 * d
      <4>3. dd \in Int /\ kk \in Int /\ \A v \in people : dd * f[v] <= 6 * u[to[v]] + kk
        BY <4>1, <4>2
      <4> HIDE DEF dd, kk
      <4>4. dd * fs[people] <= 6 * us[authors] + kk * Cardinality(people)
        BY <2>1, <2>2, <3>3, <3>6, <3>8, <3>9, <4>3, SumsCompare
      <4> QED
        BY <4>4 DEF dd, kk
    <3>11. 2 * fs[people] <= 6 * B + 6 * Cardinality(people)
      <4> DEFINE s == fs[people]
                 c == Cardinality(people)
                 l == 2 * s
                 g == 6 * B + 6 * c
      <4>1. s \in Int /\ c \in Nat
        BY <2>2, <3>9 DEF IsSum
      <4>2. (2 * d) * s <= 6 * (d * B) + (6 * d) * c
        BY <3>3, <3>10
      <4> HIDE DEF s, c
      <4>3. (2 * d) * s = d * l /\ 6 * (d * B) + (6 * d) * c = d * g /\ l \in Int /\ g \in Int
        BY <3>1, <3>3, <4>1
      <4>4. d * l <= d * g
        BY <4>2, <4>3
      <4> HIDE DEF l, g
      <4>5. l <= g
        BY <3>3, <4>3, <4>4
      <4> QED
        BY <4>5 DEF l, g, s, c
    <3> QED
      BY <2>4, <3>9, <3>11 DEF f, people, B
  <2> QED
    BY <2>3, <2>4
<1>2. RowsTyped => HoursAreShared
  BY <1>1 DEF HoursAreShared
<1> QED
  BY <1>2, RowsStayTyped, PTL
=============================================================================
