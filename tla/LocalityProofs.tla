--------------------------- MODULE LocalityProofs ---------------------------
(***************************************************************************)
(* For every machine, every set of units the process may use, every number *)
(* of threads and of partitions: each worker can bind itself, every task   *)
(* is recommended to a worker of the node of its memory, and COMPACT and   *)
(* SCATTER share the units evenly.  An available node has a unit, so the   *)
(* places the two mappings go through are well-defined; the rest is        *)
(* induction on the workers.                                               *)
(***************************************************************************)
EXTENDS Locality, FiniteSetTheorems, SequenceTheorems, TLAPS

-----------------------------------------------------------------------------
(* Natural numbers.                                                        *)

\* A set of natural numbers has a least element.
LEMMA NatMin ==
  ASSUME NEW T, T \subseteq Nat, T # {}
  PROVE  \E m \in T : \A n \in T : m <= n
<1>1. PICK R : R = OpToRel(<, Nat)
  OBVIOUS
<1>2. \A x, y \in Nat : x < y => <<x, y>> \in R
  BY <1>1 DEF OpToRel
<1>3. IsWellFoundedOn(R, Nat)
  BY <1>1, NatLessThanWellFounded
<1>4. PICK x \in T : \A y \in T : ~(<<y, x>> \in R)
  BY <1>3, WFMin
<1>5. ASSUME NEW y \in T PROVE x <= y
  <2>1. x \in Nat /\ y \in Nat
    OBVIOUS
  <2>2. ~(y < x)
    BY <1>2, <1>4, <2>1
  <2> QED BY <2>1, <2>2
<1> QED
  BY <1>5

\* Induction on the natural numbers, for the set of those with a property.
LEMMA NatInduct ==
  ASSUME NEW T, 0 \in T, \A n \in Nat : n \in T => n + 1 \in T
  PROVE  Nat \subseteq T
  <1> DEFINE U == Nat \ T
  <1>1. SUFFICES ASSUME U # {} PROVE FALSE
    OBVIOUS
  <1>2. PICK m \in U : \A n \in U : m <= n
    BY <1>1, NatMin
  <1>3. m # 0 /\ m \in Nat
    OBVIOUS
  <1>4. m - 1 \in Nat /\ ~(m <= m - 1)
    BY <1>3
  <1>5. m - 1 \in T
    BY <1>2, <1>4
  <1>6. (m - 1) + 1 \in T
    BY <1>4, <1>5
  <1>7. (m - 1) + 1 = m
    BY <1>3
  <1> QED BY <1>6, <1>7

\* A set of numbers up to k has a greatest one.
LEMMA MaxIs ==
  ASSUME NEW k \in Nat, NEW r \in SUBSET (1 .. k), r # {}
  PROVE  Max(r) \in r /\ \A y \in r : Max(r) >= y
  <1> DEFINE T == {k - x : x \in r}
  <1>1. T \subseteq Nat /\ T # {}
    <2>1. \A x \in r : x \in 1 .. k /\ k - x \in Nat
      OBVIOUS
    <2> QED BY <2>1
  <1>2. PICK m \in T : \A n \in T : m <= n
    BY <1>1, NatMin
  <1>3. PICK x \in r : m = k - x
    OBVIOUS
  <1>4. ASSUME NEW y \in r PROVE x >= y
    <2>1. k - y \in T /\ x \in 1 .. k /\ y \in 1 .. k
      OBVIOUS
    <2>2. k - x <= k - y
      BY <1>2, <1>3, <2>1
    <2> QED BY <2>1, <2>2
  <1>5. \E z \in r : \A y \in r : z >= y
    BY <1>4
  <1> QED BY <1>5 DEF Max

-----------------------------------------------------------------------------
(* The nodes in increasing order.                                          *)

Ordered(S, n, s) ==
  /\ s \in [1 .. n -> S] /\ Range(s) = S
  /\ \A i, j \in 1 .. n : i < j => s[i] < s[j]

\* A finite set of numbers can be put in order, from the least one on.
LEMMA OrderExists ==
  ASSUME NEW S, S \subseteq Nat, IsFiniteSet(S)
  PROVE  \E s : Ordered(S, Cardinality(S), s)
  <1> DEFINE T == {n \in Nat : \A R \in SUBSET Nat :
                     IsFiniteSet(R) /\ Cardinality(R) = n => \E s : Ordered(R, n, s)}
  <1>1. 0 \in T
    <2> SUFFICES ASSUME NEW R \in SUBSET Nat, IsFiniteSet(R), Cardinality(R) = 0
                 PROVE  \E s : Ordered(R, 0, s)
      OBVIOUS
    <2>1. R = {}
      BY FS_EmptySet
    <2> DEFINE s == [i \in 1 .. 0 |-> 0]
    <2>2. Ordered(R, 0, s)
      BY <2>1 DEF Ordered, Range
    <2> QED BY <2>2
  <1>2. ASSUME NEW n \in Nat, n \in T PROVE n + 1 \in T
    <2> SUFFICES ASSUME NEW R \in SUBSET Nat, IsFiniteSet(R), Cardinality(R) = n + 1
                 PROVE  \E s : Ordered(R, n + 1, s)
      OBVIOUS
    <2>1. R # {}
      BY FS_EmptySet
    <2>2. PICK m \in R : \A x \in R : m <= x
      BY <2>1, NatMin
    <2> DEFINE Q == R \ {m}
    <2>3. IsFiniteSet(Q) /\ Cardinality(Q) = n /\ Q \in SUBSET Nat
      BY FS_RemoveElement
    <2>4. PICK s : Ordered(Q, n, s)
      BY <1>2, <2>3
    <2> DEFINE u == [i \in 1 .. n + 1 |-> IF i = 1 THEN m ELSE s[i - 1]]
    <2>5. s \in [1 .. n -> Q] /\ Range(s) = Q /\ \A i, j \in 1 .. n : i < j => s[i] < s[j]
      BY <2>4 DEF Ordered
    <2>6. ASSUME NEW i \in 1 .. n + 1, i # 1 PROVE i - 1 \in 1 .. n /\ u[i] = s[i - 1] /\ u[i] \in Q
      BY <2>5, <2>6
    <2>7. u[1] = m /\ 1 \in 1 .. n + 1
      OBVIOUS
    <2>8. u \in [1 .. n + 1 -> R]
      BY <2>6, <2>7
    <2>9. ASSUME NEW x \in R PROVE \E i \in 1 .. n + 1 : u[i] = x
      <3>1. CASE x = m
        BY <2>7, <3>1
      <3>2. CASE x # m
        <4>1. PICK j \in 1 .. n : s[j] = x
          BY <2>5, <3>2 DEF Range
        <4>2. j + 1 \in 1 .. n + 1 /\ j + 1 # 1 /\ (j + 1) - 1 = j
          OBVIOUS
        <4> QED BY <2>6, <4>1, <4>2
      <3> QED BY <3>1, <3>2
    <2>10. Range(u) = R
      <3> HIDE DEF u
      <3>1. DOMAIN u = 1 .. n + 1
        BY <2>8
      <3> QED BY <2>8, <2>9, <3>1 DEF Range
    <2>11. ASSUME NEW i \in 1 .. n + 1, NEW j \in 1 .. n + 1, i < j PROVE u[i] < u[j]
      <3>1. j # 1 /\ j - 1 \in 1 .. n /\ u[j] = s[j - 1] /\ u[j] \in Q
        BY <2>6, <2>11
      <3>2. CASE i = 1
        <4>1. u[j] \in R /\ u[j] # m /\ m <= u[j] /\ u[j] \in Nat /\ m \in Nat
          BY <2>2, <3>1
        <4> HIDE DEF u
        <4> QED BY <2>7, <3>2, <4>1
      <3>3. CASE i # 1
        <4>1. i - 1 \in 1 .. n /\ u[i] = s[i - 1] /\ i - 1 < j - 1
          BY <2>6, <2>11, <3>3
        <4> HIDE DEF u
        <4> QED BY <2>5, <3>1, <4>1
      <3> QED BY <3>2, <3>3
    <2> HIDE DEF u
    <2>12. Ordered(R, n + 1, u)
      BY <2>8, <2>10, <2>11 DEF Ordered
    <2> QED BY <2>12
  <1>3. Nat \subseteq T
    <2> HIDE DEF T
    <2> QED BY <1>1, <1>2, NatInduct
  <1>4. Cardinality(S) \in Nat
    BY FS_CardinalityType
  <1> QED BY <1>3, <1>4

\* AvailableNodes is in increasing order, and every available node is in it.
LEMMA IncreasingIs ==
  ASSUME NEW S, S \subseteq Nat, IsFiniteSet(S)
  PROVE  Ordered(S, Cardinality(S), Increasing(S))
  <1> DEFINE n == Cardinality(S)
             P(s) == Range(s) = S /\ \A i, j \in DOMAIN s : i < j => s[i] < s[j]
  <1>1. PICK s : Ordered(S, n, s)
    BY OrderExists
  <1>2. s \in [1 .. n -> S] /\ P(s)
    BY <1>1 DEF Ordered
  <1>3. Increasing(S) = CHOOSE t \in [1 .. n -> S] : P(t)
    BY DEF Increasing
  <1> DEFINE u == Increasing(S)
  <1> HIDE DEF n
  <1>4. u \in [1 .. n -> S] /\ P(u)
    <2> HIDE DEF P, u
    <2>1. u = CHOOSE t \in [1 .. n -> S] : P(t)
      BY <1>3 DEF u
    <2> QED BY <1>2, <2>1
  <1>5. Ordered(S, n, u)
    <2> HIDE DEF u
    <2> QED BY <1>4 DEF Ordered
  <1> QED BY <1>5 DEF n

-----------------------------------------------------------------------------
(* The sum that SCATTER starts anew from.                                  *)

\* The fold of a sequence, by the sets of positions it has taken.
Sums(f, D, it) == it = [r \in D |-> IF r = {} THEN 0 ELSE it[r \ {Max(r)}] + f[Max(r)]]

\* The function that folds a sequence is well-defined for every length.
LEMMA SumsExist ==
  ASSUME NEW n \in Nat, NEW f
  PROVE  \E it : Sums(f, SUBSET (1 .. n), it)
  <1> DEFINE T == {k \in Nat : \E it : Sums(f, SUBSET (1 .. k), it)}
  <1>1. 0 \in T
    <2> DEFINE it == [r \in SUBSET (1 .. 0) |-> 0]
    <2>1. \A r \in SUBSET (1 .. 0) : r = {}
      OBVIOUS
    <2>2. Sums(f, SUBSET (1 .. 0), it)
      BY <2>1 DEF Sums
    <2> QED BY <2>2
  <1>2. ASSUME NEW k \in Nat, k \in T PROVE k + 1 \in T
    <2>1. PICK it : Sums(f, SUBSET (1 .. k), it)
      BY <1>2
    <2> DEFINE D == SUBSET (1 .. k + 1)
               new == [r \in D |-> IF r = {} THEN 0 ELSE it[r \ {Max(r)}] + f[Max(r)]]
    <2>2. SUBSET (1 .. k) \subseteq D
      OBVIOUS
    <2>3. \A r \in SUBSET (1 .. k) : new[r] = it[r]
      BY <2>1, <2>2 DEF Sums
    <2>4. ASSUME NEW r \in D, r # {} PROVE r \ {Max(r)} \in SUBSET (1 .. k)
      <3>1. k + 1 \in Nat
        OBVIOUS
      <3>2. Max(r) \in r /\ \A y \in r : Max(r) >= y
        BY <2>4, <3>1, MaxIs
      <3>3. ASSUME NEW y \in r, y # Max(r) PROVE y \in 1 .. k
        <4>1. y \in 1 .. k + 1 /\ Max(r) \in 1 .. k + 1
          BY <3>2
        <4>2. Max(r) >= y
          BY <3>2
        <4> QED BY <3>3, <4>1, <4>2
      <3> QED BY <3>3
    <2>5. Sums(f, D, new)
      <3>1. \A r \in D : r # {} => new[r \ {Max(r)}] = it[r \ {Max(r)}]
        BY <2>3, <2>4
      <3> HIDE DEF D
      <3> QED BY <3>1 DEF Sums
    <2>6. \E x : Sums(f, D, x)
      <3> HIDE DEF new
      <3> QED BY <2>5
    <2> QED BY <2>6
  <1>3. n \in T
    <2> HIDE DEF T
    <2> QED BY <1>1, <1>2, NatInduct
  <1> QED BY <1>3

\* h[i] is the sum of the first i values.
Partial(f, n, h) == h[0] = 0 /\ \A i \in 1 .. n : h[i] = h[i - 1] + f[i - 1]

SumOfSeq(vs) == FoldLeft(+, 0, vs)

\* The fold of a sequence goes through the sums of its first elements.
LEMMA SeqTable ==
  ASSUME NEW n \in Nat, NEW vs, DOMAIN vs = 1 .. n
  PROVE  \E h : /\ h[0] = 0 /\ \A i \in 1 .. n : h[i] = h[i - 1] + vs[i]
                /\ SumOfSeq(vs) = h[n]
  <1>1. SumOfSeq(vs) =
          LET iter[r \in SUBSET (1 .. n)] ==
                IF r = {} THEN 0 ELSE LET x == Max(r) IN iter[r \ {x}] + vs[x]
          IN  iter[1 .. n]
    BY DEF SumOfSeq, FoldLeft, MapThenFoldSet
  <1> DEFINE it == CHOOSE it : Sums(vs, SUBSET (1 .. n), it)
             h == [i \in 0 .. n |-> it[1 .. i]]
  <1>2. Sums(vs, SUBSET (1 .. n), it)
    BY SumsExist
  <1>3. SumOfSeq(vs) = it[1 .. n]
    BY <1>1 DEF Sums
  <1> HIDE DEF it
  <1>4. it[1 .. 0] = 0
    BY <1>2 DEF Sums
  <1>5. ASSUME NEW i \in 1 .. n PROVE it[1 .. i] = it[1 .. i - 1] + vs[i]
    <2>1. 1 .. i \in SUBSET (1 .. n) /\ 1 .. i # {}
      OBVIOUS
    <2>2. Max(1 .. i) \in 1 .. i /\ \A y \in 1 .. i : Max(1 .. i) >= y
      BY <2>1, MaxIs
    <2>3. Max(1 .. i) = i
      BY <2>2
    <2>4. (1 .. i) \ {i} = 1 .. i - 1
      OBVIOUS
    <2> QED BY <1>2, <2>1, <2>3, <2>4 DEF Sums
  <1>6. h[0] = 0 /\ h[n] = it[1 .. n] /\ \A i \in 1 .. n : h[i] = h[i - 1] + vs[i]
    <2>1. 0 \in 0 .. n /\ n \in 0 .. n
      OBVIOUS
    <2>2. ASSUME NEW i \in 1 .. n PROVE h[i] = h[i - 1] + vs[i]
      <3>1. i \in 0 .. n /\ i - 1 \in 0 .. n
        OBVIOUS
      <3> QED BY <1>5, <3>1
    <2> QED BY <1>4, <2>1, <2>2
  <1> HIDE DEF h
  <1> QED BY <1>3, <1>6

\* SumOver is the last of the partial sums.
LEMMA SumTable ==
  ASSUME NEW n \in Nat, NEW f, DOMAIN f = 0 .. n - 1
  PROVE  \E h : Partial(f, n, h) /\ SumOver(f) = h[n]
  <1>1. Cardinality(0 .. n - 1) = n
    <2>1. n - 1 \in Int /\ 0 \in Int
      OBVIOUS
    <2>2. Cardinality(0 .. n - 1) = IF 0 > n - 1 THEN 0 ELSE n - 1 - 0 + 1
      BY <2>1, FS_Interval
    <2> QED BY <2>2
  <1> DEFINE vs == [i \in 1 .. n |-> f[i - 1]]
  <1>2. SumOver(f) = SumOfSeq(vs)
    BY <1>1 DEF SumOver, SumOfSeq
  <1>3. DOMAIN vs = 1 .. n /\ \A i \in 1 .. n : vs[i] = f[i - 1]
    OBVIOUS
  <1> HIDE DEF vs
  <1>4. PICK h : /\ h[0] = 0 /\ \A i \in 1 .. n : h[i] = h[i - 1] + vs[i]
                 /\ SumOfSeq(vs) = h[n]
    BY <1>3, SeqTable
  <1>5. Partial(f, n, h)
    BY <1>3, <1>4 DEF Partial
  <1> QED BY <1>2, <1>4, <1>5

\* g has 1 less than f at k.
OneLess(n, f, k, g) ==
  /\ f \in [0 .. n - 1 -> Nat] /\ k \in 0 .. n - 1 /\ f[k] > 0
  /\ g = [f EXCEPT ![k] = @ - 1]

\* There is something to take.
LEMMA LessIs ==
  ASSUME NEW n, NEW f, NEW k, NEW g, OneLess(n, f, k, g)
  PROVE  g \in [0 .. n - 1 -> Nat]
  <1>1. /\ f \in [0 .. n - 1 -> Nat] /\ k \in 0 .. n - 1 /\ f[k] > 0
        /\ g = [f EXCEPT ![k] = f[k] - 1]
    BY DEF OneLess
  <1>2. f[k] - 1 \in Nat
    BY <1>1
  <1> QED BY <1>1, <1>2

\* Of two tables, the one with 1 less at k is 1 less from there on.
LEMMA TableLess ==
  ASSUME NEW n \in Nat, NEW f, NEW k, NEW g, OneLess(n, f, k, g),
         NEW h, Partial(f, n, h), NEW e, Partial(g, n, e)
  PROVE  h[n] \in Nat /\ h[n] >= 1 /\ e[n] = h[n] - 1
  <1> DEFINE T == {i \in Nat : i <= n => /\ h[i] \in Nat
                                         /\ e[i] = IF i <= k THEN h[i] ELSE h[i] - 1
                                         /\ i > k => h[i] >= 1}
  <1>0. f \in [0 .. n - 1 -> Nat] /\ k \in 0 .. n - 1 /\ f[k] > 0 /\ g = [f EXCEPT ![k] = @ - 1]
    BY DEF OneLess
  <1>1. 0 \in T
    BY <1>0 DEF Partial
  <1>2. ASSUME NEW i \in Nat, i \in T PROVE i + 1 \in T
    <2> SUFFICES ASSUME i + 1 <= n
                 PROVE  /\ h[i + 1] \in Nat
                        /\ e[i + 1] = IF i + 1 <= k THEN h[i + 1] ELSE h[i + 1] - 1
                        /\ i + 1 > k => h[i + 1] >= 1
      OBVIOUS
    <2>1. i + 1 \in 1 .. n /\ (i + 1) - 1 = i /\ i <= n /\ i \in 0 .. n - 1
      OBVIOUS
    <2>2. h[i + 1] = h[i] + f[i] /\ e[i + 1] = e[i] + g[i]
      BY <2>1 DEF Partial
    <2>3. f[i] \in Nat /\ g[i] = IF i = k THEN f[i] - 1 ELSE f[i]
      BY <1>0, <2>1
    <2>4. /\ h[i] \in Nat /\ e[i] = IF i <= k THEN h[i] ELSE h[i] - 1
          /\ i > k => h[i] >= 1
      BY <1>2, <2>1
    <2>5. i = k => f[i] > 0
      BY <1>0
    <2>6. k \in Nat
      BY <1>0
    <2>7. CASE i < k
      <3>1. g[i] = f[i] /\ e[i] = h[i] /\ i + 1 <= k
        BY <2>3, <2>4, <2>6, <2>7
      <3> QED BY <2>2, <2>3, <2>4, <2>6, <3>1
    <2>8. CASE i = k
      <3>1. g[i] = f[i] - 1 /\ e[i] = h[i] /\ ~(i + 1 <= k) /\ f[i] >= 1
        BY <2>3, <2>4, <2>5, <2>6, <2>8
      <3> QED BY <2>2, <2>3, <2>4, <2>6, <3>1
    <2>9. CASE i > k
      <3>1. g[i] = f[i] /\ e[i] = h[i] - 1 /\ ~(i + 1 <= k) /\ h[i] >= 1
        BY <2>3, <2>4, <2>6, <2>9
      <3> QED BY <2>2, <2>3, <2>4, <2>6, <3>1
    <2> QED BY <2>6, <2>7, <2>8, <2>9
  <1>3. n \in T
    <2> HIDE DEF T
    <2> QED BY <1>1, <1>2, NatInduct
  <1> QED BY <1>0, <1>3

\* The table of a function on natural numbers that is somewhere positive, or not.
LEMMA TableZero ==
  ASSUME NEW n \in Nat, NEW f \in [0 .. n - 1 -> Nat], \A k \in 0 .. n - 1 : f[k] = 0,
         NEW h, Partial(f, n, h)
  PROVE  h[n] = 0
  <1> DEFINE T == {i \in Nat : i <= n => h[i] = 0}
  <1>1. 0 \in T
    BY DEF Partial
  <1>2. ASSUME NEW i \in Nat, i \in T PROVE i + 1 \in T
    <2> SUFFICES ASSUME i + 1 <= n PROVE h[i + 1] = 0
      OBVIOUS
    <2>1. i + 1 \in 1 .. n /\ (i + 1) - 1 = i /\ i <= n /\ i \in 0 .. n - 1
      OBVIOUS
    <2>2. h[i + 1] = h[i] + f[i]
      BY <2>1 DEF Partial
    <2> QED BY <1>2, <2>1, <2>2
  <1>3. n \in T
    <2> HIDE DEF T
    <2> QED BY <1>1, <1>2, NatInduct
  <1> QED BY <1>3

\* A worker that is put on a node leaves one unit less to deal out.
LEMMA SumLess ==
  ASSUME NEW n \in Nat, NEW f, NEW k, NEW g, OneLess(n, f, k, g)
  PROVE  SumOver(f) \in Nat /\ SumOver(f) >= 1 /\ SumOver(g) = SumOver(f) - 1
  <1>1. f \in [0 .. n - 1 -> Nat] /\ g = [f EXCEPT ![k] = @ - 1]
    BY DEF OneLess
  <1>2. DOMAIN f = 0 .. n - 1 /\ DOMAIN g = 0 .. n - 1
    BY <1>1
  <1>3. PICK h : Partial(f, n, h) /\ SumOver(f) = h[n]
    BY <1>2, SumTable
  <1>4. PICK e : Partial(g, n, e) /\ SumOver(g) = e[n]
    BY <1>2, SumTable
  <1>5. h[n] \in Nat /\ h[n] >= 1 /\ e[n] = h[n] - 1
    BY <1>3, <1>4, TableLess
  <1> QED BY <1>3, <1>4, <1>5

\* A sum is positive when one of its values is.
LEMMA SumAtLeast ==
  ASSUME NEW n \in Nat, NEW f \in [0 .. n - 1 -> Nat], NEW k \in 0 .. n - 1, f[k] > 0
  PROVE  SumOver(f) \in Nat /\ SumOver(f) # 0
  <1> DEFINE g == [f EXCEPT ![k] = @ - 1]
  <1>1. OneLess(n, f, k, g)
    BY DEF OneLess
  <1> HIDE DEF g
  <1>2. SumOver(f) \in Nat /\ SumOver(f) >= 1
    BY <1>1, SumLess
  <1> QED BY <1>2

\* A sum that is not zero has a value that is not.
LEMMA SumPositive ==
  ASSUME NEW n \in Nat, NEW f \in [0 .. n - 1 -> Nat], SumOver(f) # 0
  PROVE  \E k \in 0 .. n - 1 : f[k] > 0
  <1> SUFFICES ASSUME \A k \in 0 .. n - 1 : ~(f[k] > 0) PROVE FALSE
    OBVIOUS
  <1>1. PICK h : Partial(f, n, h) /\ SumOver(f) = h[n]
    BY SumTable
  <1>2. \A k \in 0 .. n - 1 : f[k] = 0
    OBVIOUS
  <1> QED BY <1>1, <1>2, TableZero

-----------------------------------------------------------------------------
(* Counting in a circle.                                                   *)

\* A remainder is less than the divisor.
LEMMA ModRange ==
  ASSUME NEW n \in Nat, n # 0, NEW a \in Nat
  PROVE  a % n \in 0 .. n - 1
  OBVIOUS

\* Quotient and remainder are known by what they make together.
LEMMA ModUnique ==
  ASSUME NEW n \in Nat, n # 0, NEW q \in Nat, NEW r \in 0 .. n - 1, NEW a, a = q * n + r
  PROVE  a % n = r /\ a \div n = q
  OBVIOUS

\* Once around, at most: the remainder of a number below twice the divisor.
LEMMA ModCircle ==
  ASSUME NEW n \in Nat, n # 0, NEW a \in Nat
  PROVE  /\ a < n => a % n = a
         /\ n <= a /\ a < 2 * n => a % n = a - n
  <1>1. a < n => a % n = a
    OBVIOUS
  <1>2. n <= a /\ a < 2 * n => a % n = a - n
    OBVIOUS
  <1> QED BY <1>1, <1>2

\* The same in one formula.
LEMMA ModTwice ==
  ASSUME NEW n \in Nat, n # 0, NEW a \in Nat, a < 2 * n
  PROVE  a % n = IF a < n THEN a ELSE a - n
  <1>1. CASE a < n
    <2>1. a % n = a
      BY ONLY <1>1, n \in Nat, n # 0, a \in Nat, ModCircle
    <2> QED BY <1>1, <2>1
  <1>2. CASE ~(a < n)
    <2>1. n <= a
      BY <1>2
    <2>2. a % n = a - n
      BY ONLY <2>1, a < 2 * n, n \in Nat, n # 0, a \in Nat, ModCircle
    <2> QED BY <1>2, <2>2
  <1> QED BY <1>1, <1>2

-----------------------------------------------------------------------------
(* The first node that has some left.                                      *)

\* FirstFrom counts the nodes by the domain of what is left.
LEMMA CountOf ==
  ASSUME NEW n \in Nat, NEW f, DOMAIN f = 0 .. n - 1
  PROVE  Cardinality(DOMAIN f) = n
  <1>1. n - 1 \in Int /\ 0 \in Int
    OBVIOUS
  <1>2. Cardinality(0 .. n - 1) = IF 0 > n - 1 THEN 0 ELSE n - 1 - 0 + 1
    BY <1>1, FS_Interval
  <1> QED BY <1>2

\* The condition by which FirstFrom chooses its number of steps.
StepsTo(node, left, n, k) ==
  /\ left[(node + k) % n] > 0
  /\ \A l \in 0 .. k - 1 : left[(node + l) % n] = 0

\* FirstFrom takes a number of steps that meets its condition, if there is one.
LEMMA FirstFromIs ==
  ASSUME NEW n \in Nat, NEW left, DOMAIN left = 0 .. n - 1, NEW x,
         NEW k \in 0 .. n, StepsTo(x, left, n, k)
  PROVE  \E s \in 0 .. n : StepsTo(x, left, n, s) /\ FirstFrom(x, left) = (x + s) % n
  <1>1. Cardinality(DOMAIN left) = n
    BY CountOf
  <1> DEFINE s == CHOOSE s \in 0 .. n : StepsTo(x, left, n, s)
  <1>2. s \in 0 .. n /\ StepsTo(x, left, n, s)
    <2> HIDE DEF StepsTo
    <2> QED OBVIOUS
  <1>3. FirstFrom(x, left) = (x + s) % n
    BY <1>1 DEF FirstFrom, StepsTo
  <1> HIDE DEF s
  <1> QED BY <1>2, <1>3

\* A node that has something left is the first one from itself on.
LEMMA FirstHere ==
  ASSUME NEW n \in Nat, NEW left, DOMAIN left = 0 .. n - 1,
         NEW x \in 0 .. n - 1, left[x] > 0
  PROVE  FirstFrom(x, left) = x
  <1>1. n # 0 /\ x \in Nat /\ x + 0 = x
    OBVIOUS
  <1>2. (x + 0) % n = x
    <2>1. x < n
      OBVIOUS
    <2>2. x % n = x
      BY ONLY <1>1, <2>1, n \in Nat, ModCircle
    <2> QED BY ONLY <1>1, <2>2
  <1>3. StepsTo(x, left, n, 0) /\ 0 \in 0 .. n
    BY <1>2 DEF StepsTo
  <1>4. PICK s \in 0 .. n : StepsTo(x, left, n, s) /\ FirstFrom(x, left) = (x + s) % n
    BY <1>3, FirstFromIs
  <1>5. s = 0
    <2> SUFFICES ASSUME s # 0 PROVE FALSE
      OBVIOUS
    <2>1. 0 \in 0 .. s - 1
      OBVIOUS
    <2>2. left[(x + 0) % n] = 0
      BY <1>4, <2>1 DEF StepsTo
    <2> QED BY <1>2, <2>2
  <1> QED BY <1>2, <1>4, <1>5

\* The nodes from x to y in the circle, but y itself, have nothing left.
Skipped(n, left, x, y) ==
  /\ x <= y => \A z \in x .. y - 1 : left[z] = 0
  /\ y < x => \A z \in (x .. n - 1) \cup (0 .. y - 1) : left[z] = 0

\* When some node has something left, the first such node is found.
LEMMA FirstIs ==
  ASSUME NEW n \in Nat, NEW left \in [0 .. n - 1 -> Nat], NEW x \in 0 .. n - 1,
         NEW y \in 0 .. n - 1, left[y] > 0
  PROVE  /\ FirstFrom(x, left) \in 0 .. n - 1 /\ left[FirstFrom(x, left)] > 0
         /\ Skipped(n, left, x, FirstFrom(x, left))
  <1>1. n # 0 /\ x \in Nat /\ y \in Nat
    OBVIOUS
  <1> DEFINE t == IF x <= y THEN y - x ELSE y - x + n
             T == {s \in 0 .. n : left[(x + s) % n] > 0}
  <1>2. t \in 0 .. n /\ (x + t) % n = y
    <2>1. t \in 0 .. n /\ x + t \in Nat /\ x + t = (IF x <= y THEN y ELSE y + n)
      OBVIOUS
    <2> HIDE DEF t
    <2>2. y % n = y /\ (y + n) % n = y
      <3>1. y + n \in Nat /\ n <= y + n /\ y + n < 2 * n /\ y < n
        OBVIOUS
      <3>2. y % n = y
        BY ONLY <1>1, <3>1, n \in Nat, ModCircle
      <3>3. (y + n) % n = y
        <4> DEFINE a == y + n
        <4>1. a \in Nat /\ n <= a /\ a < 2 * n /\ a - n = y
          BY <3>1
        <4> HIDE DEF a
        <4>2. a % n = a - n
          BY ONLY <1>1, <4>1, n \in Nat, ModCircle
        <4> QED BY <4>1, <4>2 DEF a
      <3> QED BY <3>2, <3>3
    <2> QED BY <2>1, <2>2
  <1>3. T # {} /\ T \subseteq Nat
    <2>1. t \in T
      BY <1>2
    <2>2. T \subseteq Nat
      OBVIOUS
    <2> HIDE DEF t, T
    <2> QED BY <2>1, <2>2
  <1>4. PICK s \in T : \A l \in T : s <= l
    BY <1>3, NatMin
  <1>5. StepsTo(x, left, n, s)
    <2>1. ASSUME NEW l \in 0 .. s - 1 PROVE left[(x + l) % n] = 0
      <3>1. l \in 0 .. n /\ ~(s <= l) /\ x + l \in Nat
        OBVIOUS
      <3>2. (x + l) % n \in 0 .. n - 1
        BY <1>1, <3>1, ModRange
      <3>3. left[(x + l) % n] \in Nat
        BY <3>2
      <3>4. ~(left[(x + l) % n] > 0)
        BY <1>4, <3>1
      <3> QED BY <3>3, <3>4
    <2> QED BY <2>1 DEF StepsTo
  <1>6. PICK e \in 0 .. n : StepsTo(x, left, n, e) /\ FirstFrom(x, left) = (x + e) % n
    BY <1>5, FirstFromIs
  <1>7. x + e \in Nat
    OBVIOUS
  <1> DEFINE d == (x + e) % n
  <1>8. d \in 0 .. n - 1
    BY <1>1, <1>7, ModRange
  <1>9. left[d] > 0 /\ \A l \in 0 .. e - 1 : left[(x + l) % n] = 0
    BY <1>6 DEF StepsTo
  <1>12. e < n
    <2> SUFFICES ASSUME e = n PROVE FALSE
      OBVIOUS
    <2>1. x + n \in Nat /\ n <= x + n /\ x + n < 2 * n /\ x + n - n = x
      BY <1>1
    <2>2. d = x
      <3> HIDE DEF d
      <3>1. d = (x + n) % n
        BY DEF d
      <3> DEFINE a == x + n
      <3>2. a % n = a - n
        <4>1. a \in Nat /\ n <= a /\ a < 2 * n
          BY <2>1
        <4> HIDE DEF a
        <4> QED BY ONLY <1>1, <4>1, n \in Nat, ModCircle
      <3> QED BY <2>1, <3>1, <3>2
    <2>3. (x + 0) % n = x
      <3>1. x % n = x
        BY ONLY <1>1, x < n, n \in Nat, ModCircle
      <3> QED BY <3>1
    <2>4. 0 \in 0 .. e - 1
      BY <1>1
    <2>5. left[(x + 0) % n] = 0
      BY <1>9, <2>4
    <2> HIDE DEF d
    <2> QED BY <1>9, <2>2, <2>3, <2>5
  <1>13. d = IF x + e < n THEN x + e ELSE x + e - n
    <2> DEFINE a == x + e
    <2>1. a \in Nat /\ a < 2 * n
      BY <1>1, <1>12
    <2>2. d = a % n
      OBVIOUS
    <2> HIDE DEF a, d
    <2>3. d = IF a < n THEN a ELSE a - n
      <3>1. a % n = IF a < n THEN a ELSE a - n
        BY ONLY <1>1, <2>1, n \in Nat, ModTwice
      <3> QED BY <2>2, <3>1
    <2> QED BY <2>3 DEF a
  <1>14. ASSUME NEW l \in 0 .. e - 1
         PROVE  left[IF x + l < n THEN x + l ELSE x + l - n] = 0
    <2> DEFINE a == x + l
    <2>1. a \in Nat /\ a < 2 * n
      BY <1>1, <1>12
    <2>2. left[a % n] = 0
      BY <1>9
    <2> HIDE DEF a, d
    <2>3. a % n = IF a < n THEN a ELSE a - n
      BY ONLY <1>1, <2>1, n \in Nat, ModTwice
    <2>4. left[IF a < n THEN a ELSE a - n] = 0
      BY <2>2, <2>3
    <2> QED BY <2>4 DEF a
  <1> HIDE DEF d, t, T
  <1>15. ASSUME x <= d, NEW z \in x .. d - 1 PROVE left[z] = 0
    <2> DEFINE l == z - x
    <2>1. l \in 0 .. e - 1 /\ x + l = z /\ z < n
      BY <1>1, <1>8, <1>12, <1>13, <1>15
    <2> HIDE DEF l
    <2> QED BY <1>14, <2>1
  <1>16. ASSUME d < x, NEW z \in x .. n - 1 PROVE left[z] = 0
    <2> DEFINE l == z - x
    <2>1. l \in 0 .. e - 1 /\ x + l = z /\ z < n
      BY <1>1, <1>8, <1>12, <1>13, <1>16
    <2> HIDE DEF l
    <2> QED BY <1>14, <2>1
  <1>17. ASSUME d < x, NEW z \in 0 .. d - 1 PROVE left[z] = 0
    <2> DEFINE l == z - x + n
    <2>1. l \in 0 .. e - 1 /\ ~(x + l < n) /\ x + l - n = z
      BY <1>1, <1>8, <1>12, <1>13, <1>17
    <2> HIDE DEF l
    <2> QED BY <1>14, <2>1
  <1>18. Skipped(n, left, x, d)
    BY <1>15, <1>16, <1>17 DEF Skipped
  <1>19. FirstFrom(x, left) = d
    BY <1>6 DEF d
  <1> QED BY <1>8, <1>9, <1>18, <1>19

-----------------------------------------------------------------------------
(* What Topology finds.                                                    *)

\* There are finitely many available nodes.
LEMMA NodesFinite ==
  ASSUME NEW m \in Machines
  PROVE  IsFiniteSet({n \in {m.parent[u] : u \in DOMAIN m.parent} \ {NoNode} :
                        CanBind(m, UnitsOf(m, n))})
  <1> DEFINE D == DOMAIN m.parent
             P == {m.parent[u] : u \in D}
             f == [u \in D |-> m.parent[u]]
             S == {n \in P \ {NoNode} : CanBind(m, UnitsOf(m, n))}
  <1>1. IsFiniteSet(D)
    BY LocalityAssumption
  <1>2. f \in Surjection(D, P)
    BY DEF Surjection
  <1>3. S \subseteq P
    OBVIOUS
  <1>4. IsFiniteSet(P)
    <2> HIDE DEF D, f, P
    <2> QED BY <1>1, <1>2, FS_Surjection
  <1>5. IsFiniteSet(S)
    <2> HIDE DEF S, P
    <2> QED BY <1>3, <1>4, FS_Subset
  <1> QED BY <1>5

\* There is an available node, and each of several has a unit one may bind to.
LEMMA NodesAre ==
  ASSUME NEW m \in Machines
  PROVE  /\ Len(AvailableNodes(m)) \in Nat \ {0}
         /\ Len(AvailableNodes(m)) # 1 =>
              \A n \in 0 .. Len(AvailableNodes(m)) - 1 :
                CanBind(m, UnitsOf(m, AvailableNodes(m)[n + 1]))
  <1>1. CASE ~m.numa
    <2>1. AvailableNodes(m) = <<0>>
      BY <1>1 DEF AvailableNodes
    <2>2. Len(AvailableNodes(m)) = 1
      BY <2>1
    <2> QED BY <2>2
  <1>2. CASE m.numa
    <2> DEFINE P == {m.parent[u] : u \in DOMAIN m.parent}
               S == {n \in P \ {NoNode} : CanBind(m, UnitsOf(m, n))}
               A == Increasing(S)
               c == Cardinality(S)
    <2>1. AvailableNodes(m) = A
      BY <1>2 DEF AvailableNodes
    <2>2. S \subseteq Nat
      BY LocalityAssumption
    <2>3. IsFiniteSet(S)
      BY NodesFinite
    <2>4. S # {}
      <3>1. PICK u \in m.usable : m.parent[u] # NoNode
        BY <1>2, LocalityAssumption
      <3>2. u \in DOMAIN m.parent
        BY LocalityAssumption
      <3>3. u \in UnitsOf(m, m.parent[u])
        BY <3>2 DEF UnitsOf
      <3>4. m.parent[u] \in S
        BY <3>1, <3>2, <3>3 DEF CanBind
      <3> QED BY <3>4
    <2>5. \A n \in S : CanBind(m, UnitsOf(m, n))
      OBVIOUS
    <2> HIDE DEF S
    <2>6. c \in Nat \ {0}
      BY <2>3, <2>4, FS_CardinalityType, FS_EmptySet
    <2>7. Ordered(S, c, A)
      BY <2>2, <2>3, IncreasingIs
    <2> HIDE DEF A, c
    <2>8. A \in [1 .. c -> S]
      BY <2>7 DEF Ordered
    <2>9. A \in Seq(S) /\ Len(A) = c
      BY <2>6, <2>8
    <2>10. ASSUME NEW n \in 0 .. c - 1 PROVE CanBind(m, UnitsOf(m, A[n + 1]))
      <3>1. n + 1 \in 1 .. c
        BY <2>6
      <3>2. A[n + 1] \in S
        BY <2>8, <3>1
      <3> QED BY <2>5, <3>2
    <2> QED BY <2>1, <2>6, <2>9, <2>10
  <1> QED BY <1>1, <1>2

\* There is a unit one may bind to.
LEMMA UnitCountIs ==
  ASSUME NEW m \in Machines
  PROVE  /\ IsFiniteSet(AvailableUnits(m)) /\ AvailableUnits(m) # {}
         /\ Cardinality(AvailableUnits(m)) \in Nat /\ Cardinality(AvailableUnits(m)) # 0
  <1>1. IsFiniteSet(AvailableUnits(m))
    <2>1. IsFiniteSet(DOMAIN m.parent) /\ AvailableUnits(m) \subseteq DOMAIN m.parent
      BY LocalityAssumption DEF AvailableUnits
    <2> QED BY <2>1, FS_Subset
  <1>2. AvailableUnits(m) # {}
    <2>1. PICK u \in m.usable : u \in DOMAIN m.parent
      BY LocalityAssumption
    <2>2. u \in AvailableUnits(m)
      BY <2>1 DEF AvailableUnits, CanBind
    <2> QED BY <2>2
  <1> QED BY <1>1, <1>2, FS_CardinalityType, FS_EmptySet

\* Every available node has a processing unit.
LEMMA UnitsAre ==
  ASSUME NEW m \in Machines
  PROVE  /\ UnitsPerNode(m) \in [NodeIds(m) -> Nat]
         /\ \A n \in NodeIds(m) : UnitsPerNode(m)[n] > 0
  <1>1. IsFiniteSet(AvailableUnits(m))
    BY UnitCountIs
  <1>2. ASSUME NEW n \in NodeIds(m)
        PROVE  Cardinality(UnitsUnder(m, n)) \in Nat /\ Cardinality(UnitsUnder(m, n)) > 0
    <2>1. UnitsUnder(m, n) \subseteq AvailableUnits(m)
      BY DEF UnitsUnder
    <2>2. UnitsUnder(m, n) # {}
      <3>1. CASE Len(AvailableNodes(m)) = 1
        BY <3>1, UnitCountIs DEF UnitsUnder
      <3>2. CASE Len(AvailableNodes(m)) # 1
        <4>1. CanBind(m, UnitsOf(m, AvailableNodes(m)[n + 1]))
          BY <3>2, NodesAre DEF NodeIds
        <4>2. PICK u \in m.usable : u \in UnitsOf(m, AvailableNodes(m)[n + 1])
          BY <4>1 DEF CanBind
        <4>3. u \in AvailableUnits(m) /\ m.parent[u] = AvailableNodes(m)[n + 1]
          BY <4>2 DEF UnitsOf, AvailableUnits, CanBind
        <4> QED BY <3>2, <4>3 DEF UnitsUnder
      <3> QED BY <3>1, <3>2
    <2>3. IsFiniteSet(UnitsUnder(m, n))
      BY <1>1, <2>1, FS_Subset
    <2>4. Cardinality(UnitsUnder(m, n)) \in Nat /\ Cardinality(UnitsUnder(m, n)) # 0
      BY <2>2, <2>3, FS_CardinalityType, FS_EmptySet
    <2> QED BY <2>4
  <1> QED BY <1>2 DEF UnitsPerNode

-----------------------------------------------------------------------------
(* The mapping of COMPACT.                                                 *)

CompactAt(units, k, at) ==
  at = [i \in 0 .. k - 1 |->
          CompactFrom(units, IF i = 0 THEN [node |-> 0, j |-> 0]
                                ELSE [at[i - 1] EXCEPT !.j = @ + 1])]

\* The places of COMPACT are well-defined for every number of workers.
LEMMA CompactExists ==
  ASSUME NEW k \in Nat, NEW units
  PROVE  \E at : CompactAt(units, k, at)
  <1> DEFINE T == {i \in Nat : \E at : CompactAt(units, i, at)}
  <1>1. 0 \in T
    <2> DEFINE at == [i \in 0 .. 0 - 1 |-> 0]
    <2>1. 0 .. 0 - 1 = {}
      OBVIOUS
    <2>2. CompactAt(units, 0, at)
      BY <2>1 DEF CompactAt
    <2> QED BY <2>2
  <1>2. ASSUME NEW i \in Nat, i \in T PROVE i + 1 \in T
    <2>1. PICK at : CompactAt(units, i, at)
      BY <1>2
    <2> DEFINE new == [l \in 0 .. (i + 1) - 1 |->
                         CompactFrom(units, IF l = 0 THEN [node |-> 0, j |-> 0]
                                               ELSE [at[l - 1] EXCEPT !.j = @ + 1])]
    <2>2. ASSUME NEW l \in 0 .. i - 1 PROVE new[l] = at[l]
      <3>1. l \in 0 .. (i + 1) - 1
        OBVIOUS
      <3> QED BY <2>1, <3>1 DEF CompactAt
    <2>3. ASSUME NEW l \in 0 .. (i + 1) - 1, l # 0 PROVE new[l - 1] = at[l - 1]
      <3>1. l - 1 \in 0 .. i - 1
        BY <2>3
      <3> QED BY <2>2, <3>1
    <2>4. CompactAt(units, i + 1, new)
      <3>1. new = [l \in 0 .. (i + 1) - 1 |->
                     CompactFrom(units, IF l = 0 THEN [node |-> 0, j |-> 0]
                                           ELSE [new[l - 1] EXCEPT !.j = @ + 1])]
        BY <2>3
      <3> HIDE DEF new
      <3> QED BY <3>1 DEF CompactAt
    <2> HIDE DEF new
    <2> QED BY <2>4
  <1>3. k \in T
    <2> HIDE DEF T
    <2> QED BY <1>1, <1>2, NatInduct
  <1> QED BY <1>3

\* The places in turn: the next unit of the node, or the first one of the next node.
CompactPlaces(units, n, k, at) ==
  /\ at[0] = [node |-> 0, j |-> 0]
  /\ \A i \in 0 .. k - 1 :
       /\ at[i] \in [node : 0 .. n - 1, j : Nat]
       /\ at[i].j < units[at[i].node]
  /\ \A i \in 1 .. k - 1 :
       at[i] = IF at[i - 1].j + 1 < units[at[i - 1].node]
                 THEN [node |-> at[i - 1].node, j |-> at[i - 1].j + 1]
                 ELSE [node |-> (at[i - 1].node + 1) % n, j |-> 0]

Load(n, units) ==
  /\ n \in Nat \ {0}
  /\ units \in [0 .. n - 1 -> Nat]
  /\ \A x \in 0 .. n - 1 : units[x] > 0

\* The next node is never one without units, so FirstFrom stays there.
LEMMA CompactStep ==
  ASSUME NEW n, NEW units, Load(n, units), NEW p \in 0 .. n - 1, NEW j \in Nat, j < units[p],
         NEW last, last = [node |-> p, j |-> j + 1]
  PROVE  /\ CompactFrom(units, last) =
              IF j + 1 < units[p] THEN last ELSE [node |-> (p + 1) % n, j |-> 0]
         /\ (p + 1) % n \in 0 .. n - 1
  <1>1. n \in Nat /\ n # 0 /\ p + 1 \in Nat /\ DOMAIN units = 0 .. n - 1 /\ units[p] \in Nat
    BY DEF Load
  <1>2. (p + 1) % n \in 0 .. n - 1
    BY <1>1, ModRange
  <1>3. units[(p + 1) % n] > 0
    BY <1>2 DEF Load
  <1>4. FirstFrom((p + 1) % n, units) = (p + 1) % n
    BY <1>1, <1>2, <1>3, FirstHere
  <1>5. Cardinality(DOMAIN units) = n
    BY <1>1, CountOf
  <1> QED BY <1>1, <1>2, <1>4, <1>5 DEF CompactFrom

\* COMPACT goes from unit to unit, and after the last one of a node to the next.
LEMMA CompactIs ==
  ASSUME NEW n, NEW units, Load(n, units), NEW k \in Nat \ {0}
  PROVE  \E at : /\ CompactPlaces(units, n, k, at)
                 /\ CompactMapping(units, k) = [i \in 0 .. k - 1 |-> at[i].node]
  <1>0. n \in Nat /\ n # 0 /\ 0 \in 0 .. n - 1 /\ DOMAIN units = 0 .. n - 1
    BY DEF Load
  <1> DEFINE at == CHOOSE at : CompactAt(units, k, at)
  <1>2. CompactAt(units, k, at)
    BY CompactExists
  <1>3. CompactMapping(units, k) = [i \in 0 .. k - 1 |-> at[i].node]
    BY DEF CompactMapping, CompactAt
  <1> HIDE DEF at
  <1>4. at[0] = [node |-> 0, j |-> 0]
    <2>1. 0 \in 0 .. k - 1
      OBVIOUS
    <2>2. at[0] = CompactFrom(units, [node |-> 0, j |-> 0])
      BY <1>2, <2>1 DEF CompactAt
    <2>3. units[0] > 0
      BY <1>0 DEF Load
    <2> QED BY <2>2, <2>3 DEF CompactFrom
  <1>5. \A i \in 1 .. k - 1 : at[i] = CompactFrom(units, [at[i - 1] EXCEPT !.j = @ + 1])
    <2> SUFFICES ASSUME NEW i \in 1 .. k - 1
                 PROVE  at[i] = CompactFrom(units, [at[i - 1] EXCEPT !.j = @ + 1])
      OBVIOUS
    <2>1. i \in 0 .. k - 1 /\ i # 0
      OBVIOUS
    <2> QED BY <1>2, <2>1 DEF CompactAt
  <1> DEFINE Placed(x) == x \in [node : 0 .. n - 1, j : Nat] /\ x.j < units[x.node]
             After(x) == IF x.j + 1 < units[x.node] THEN [node |-> x.node, j |-> x.j + 1]
                         ELSE [node |-> (x.node + 1) % n, j |-> 0]
  <1>6. ASSUME NEW x, Placed(x)
        PROVE  CompactFrom(units, [x EXCEPT !.j = @ + 1]) = After(x) /\ Placed(After(x))
    <2>1. x.node \in 0 .. n - 1 /\ x.j \in Nat /\ x.j < units[x.node]
      BY <1>6
    <2>2. [x EXCEPT !.j = @ + 1] = [node |-> x.node, j |-> x.j + 1]
      BY <1>6
    <2> DEFINE last == [node |-> x.node, j |-> x.j + 1]
    <2>3. /\ CompactFrom(units, last) = After(x)
          /\ (x.node + 1) % n \in 0 .. n - 1
      BY <2>1, CompactStep
    <2>4. units[(x.node + 1) % n] > 0
      BY <2>3 DEF Load
    <2>5. Placed(After(x))
      BY <2>1, <2>3, <2>4
    <2> QED BY <2>2, <2>3, <2>5
  <1> DEFINE T == {i \in Nat : i < k => Placed(at[i])}
  <1>7. 0 \in T
    <2>1. units[0] > 0
      BY <1>0 DEF Load
    <2> QED BY <1>0, <1>4, <2>1
  <1>8. ASSUME NEW i \in Nat, i \in T PROVE i + 1 \in T
    <2> SUFFICES ASSUME i + 1 < k PROVE Placed(at[i + 1])
      OBVIOUS
    <2>1. i + 1 \in 1 .. k - 1 /\ (i + 1) - 1 = i /\ i < k
      OBVIOUS
    <2>2. Placed(at[i])
      BY <1>8, <2>1
    <2> HIDE DEF Placed, After
    <2> QED BY <1>5, <1>6, <2>1, <2>2
  <1>9. Nat \subseteq T
    <2> HIDE DEF T
    <2> QED BY <1>7, <1>8, NatInduct
  <1>10. \A i \in 0 .. k - 1 : Placed(at[i])
    BY <1>9
  <1>11. \A i \in 1 .. k - 1 : at[i] = After(at[i - 1])
    <2> SUFFICES ASSUME NEW i \in 1 .. k - 1 PROVE at[i] = After(at[i - 1])
      OBVIOUS
    <2>1. i - 1 \in 0 .. k - 1
      OBVIOUS
    <2> HIDE DEF Placed, After
    <2> QED BY <1>5, <1>6, <1>10, <2>1
  <1>12. CompactPlaces(units, n, k, at)
    BY <1>4, <1>10, <1>11 DEF CompactPlaces
  <1> QED BY <1>3, <1>12

-----------------------------------------------------------------------------
(* The mapping of SCATTER.                                                 *)

\* Counting on in a round.
LEMMA ModNext ==
  ASSUME NEW s \in Nat, s # 0, NEW i \in Nat
  PROVE  (i + 1) % s = IF i % s = s - 1 THEN 0 ELSE (i % s) + 1
  <1> DEFINE q == i \div s
             r == i % s
  <1>1. q \in Nat /\ r \in 0 .. s - 1 /\ i = q * s + r
    OBVIOUS
  <1> HIDE DEF q, r
  <1>2. CASE r = s - 1
    <2>1. i + 1 = (q + 1) * s + 0 /\ q + 1 \in Nat /\ 0 \in 0 .. s - 1
      BY <1>1, <1>2
    <2> DEFINE e == q + 1
               a == i + 1
    <2>2. e \in Nat /\ a = e * s + 0
      BY <2>1
    <2> HIDE DEF e, a
    <2>3. a % s = 0
      BY <2>1, <2>2, ModUnique
    <2> QED BY <1>2, <2>3 DEF a, r
  <1>3. CASE r # s - 1
    <2> DEFINE e == r + 1
               a == i + 1
    <2>1. e \in 0 .. s - 1 /\ a = q * s + e
      BY <1>1, <1>3
    <2> HIDE DEF e, a
    <2>2. a % s = e
      BY <1>1, <2>1, ModUnique
    <2> QED BY <1>3, <2>2 DEF a, e, r
  <1> QED BY <1>2, <1>3

ScatterAt(units, k, at) == at = [i \in 0 .. k - 1 |-> ScatterFrom(units, i, at[i - 1])]

\* What the first worker of a round is given does not depend on a place before it.
LEMMA ScatterAnew ==
  ASSUME NEW units, NEW x, NEW y, NEW i, i % SumOver(units) = 0
  PROVE  ScatterFrom(units, i, x) = ScatterFrom(units, i, y)
  BY DEF ScatterFrom

\* The places of SCATTER are well-defined for every number of workers.
LEMMA ScatterExists ==
  ASSUME NEW k \in Nat, NEW units, 0 % SumOver(units) = 0
  PROVE  \E at : ScatterAt(units, k, at)
  <1> DEFINE T == {i \in Nat : \E at : ScatterAt(units, i, at)}
  <1>1. 0 \in T
    <2> DEFINE at == [i \in 0 .. 0 - 1 |-> 0]
    <2>1. 0 .. 0 - 1 = {}
      OBVIOUS
    <2>2. ScatterAt(units, 0, at)
      BY <2>1 DEF ScatterAt
    <2> QED BY <2>2
  <1>2. ASSUME NEW i \in Nat, i \in T PROVE i + 1 \in T
    <2>1. PICK at : ScatterAt(units, i, at)
      BY <1>2
    <2> DEFINE new == [l \in 0 .. (i + 1) - 1 |-> ScatterFrom(units, l, at[l - 1])]
    <2>2. ASSUME NEW l \in 0 .. i - 1 PROVE new[l] = at[l]
      <3>1. l \in 0 .. (i + 1) - 1
        OBVIOUS
      <3> QED BY <2>1, <3>1 DEF ScatterAt
    <2>3. ASSUME NEW l \in 0 .. (i + 1) - 1
          PROVE  ScatterFrom(units, l, new[l - 1]) = ScatterFrom(units, l, at[l - 1])
      <3>1. CASE l = 0
        <4> HIDE DEF new
        <4> QED BY <3>1, ScatterAnew
      <3>2. CASE l # 0
        <4>1. l - 1 \in 0 .. i - 1
          BY <3>2
        <4>2. new[l - 1] = at[l - 1]
          BY <2>2, <4>1
        <4> HIDE DEF new
        <4> QED BY <4>2
      <3> QED BY <3>1, <3>2
    <2>4. ScatterAt(units, i + 1, new)
      <3>1. new = [l \in 0 .. (i + 1) - 1 |-> ScatterFrom(units, l, new[l - 1])]
        BY <2>3
      <3> HIDE DEF new
      <3> QED BY <3>1 DEF ScatterAt
    <2> HIDE DEF new
    <2> QED BY <2>4
  <1>3. k \in T
    <2> HIDE DEF T
    <2> QED BY <1>1, <1>2, NatInduct
  <1> QED BY <1>3

\* A worker is put where something is left, and what is left adds up.
Dealt(units, n, i, x) ==
  /\ x.remains \in [0 .. n - 1 -> Nat] /\ x.node \in 0 .. n - 1 /\ x.remains[x.node] > 0
  /\ SumOver(x.remains) = SumOver(units) - (i % SumOver(units))

ScatterPlaces(units, n, k, at) ==
  /\ at[0] = [node |-> 0, remains |-> units]
  /\ \A i \in 0 .. k - 1 : Dealt(units, n, i, at[i])
  /\ \A i \in 1 .. k - 1 : at[i] = ScatterFrom(units, i, at[i - 1])

\* What the next worker finds left.
LEMMA ScatterStep ==
  ASSUME NEW n, NEW units, Load(n, units), NEW i \in Nat, NEW x, Dealt(units, n, i, x)
  PROVE  Dealt(units, n, i + 1, ScatterFrom(units, i + 1, x))
  <1>0. n \in Nat /\ n # 0 /\ 0 \in 0 .. n - 1 /\ units \in [0 .. n - 1 -> Nat] /\ units[0] > 0
    BY DEF Load
  <1>1. SumOver(units) \in Nat /\ SumOver(units) # 0
    BY <1>0, SumAtLeast
  <1>2. Cardinality(DOMAIN units) = n
    BY <1>0, CountOf
  <1> DEFINE S == SumOver(units)
             anew == (i + 1) % S = 0
             left == IF anew THEN units ELSE [x.remains EXCEPT ![x.node] = @ - 1]
             start == IF anew THEN 0 ELSE (x.node + 1) % n
  <1>3. ScatterFrom(units, i + 1, x) = [node |-> FirstFrom(start, left), remains |-> left]
    BY <1>2 DEF ScatterFrom
  <1>4. x.remains \in [0 .. n - 1 -> Nat] /\ x.node \in 0 .. n - 1 /\ x.remains[x.node] > 0
        /\ SumOver(x.remains) = S - (i % S)
    BY DEF Dealt
  <1>5. left \in [0 .. n - 1 -> Nat]
    <2> DEFINE less == [x.remains EXCEPT ![x.node] = @ - 1]
    <2>1. OneLess(n, x.remains, x.node, less)
      BY <1>4 DEF OneLess
    <2> HIDE DEF less
    <2>2. left = units \/ left = less
      BY DEF less
    <2>3. less \in [0 .. n - 1 -> Nat]
      BY ONLY <2>1, LessIs
    <2> QED BY <1>0, <2>2, <2>3
  <1>6. start \in 0 .. n - 1
    <2>1. x.node + 1 \in Nat
      BY <1>4
    <2>2. (x.node + 1) % n \in 0 .. n - 1
      BY <1>0, <2>1, ModRange
    <2> QED BY <1>0, <2>2
  <1>7. SumOver(left) = S - ((i + 1) % S) /\ (i + 1) % S \in 0 .. S - 1
    <2>1. (i + 1) % S = IF i % S = S - 1 THEN 0 ELSE (i % S) + 1
      <3> HIDE DEF S
      <3> QED BY <1>1, ModNext DEF S
    <2>2. i % S \in 0 .. S - 1
      <3> HIDE DEF S
      <3> QED BY <1>1, ModRange DEF S
    <2>3. CASE anew
      BY <1>1, <2>3
    <2>4. CASE ~anew
      <3>1. OneLess(n, x.remains, x.node, left)
        BY <1>4, <2>4 DEF OneLess
      <3>2. SumOver(left) = SumOver(x.remains) - 1
        BY ONLY <1>0, <3>1, SumLess
      <3>3. (i + 1) % S = (i % S) + 1
        BY <2>1, <2>4
      <3>4. i % S # S - 1
        BY <2>1, <2>4
      <3>5. SumOver(x.remains) = S - (i % S) /\ S \in Nat
        BY <1>1, <1>4
      <3> DEFINE a == i % S
                 b == (i + 1) % S
      <3>6. /\ a \in 0 .. S - 1 /\ a # S - 1 /\ b = a + 1 /\ S \in Nat
            /\ SumOver(left) = SumOver(x.remains) - 1 /\ SumOver(x.remains) = S - a
        BY <2>2, <3>2, <3>3, <3>4, <3>5
      <3> HIDE DEF left, S, a, b
      <3>7. SumOver(left) = S - b /\ b \in 0 .. S - 1
        BY ONLY <3>6
      <3> QED BY <3>7 DEF b
    <2> HIDE DEF left, anew, S
    <2> QED BY <2>3, <2>4
  <1> HIDE DEF left, start
  <1>8. \E y \in 0 .. n - 1 : left[y] > 0
    <2>1. SumOver(left) # 0
      BY <1>1, <1>7
    <2> QED BY <1>0, <1>5, <2>1, SumPositive
  <1>9. FirstFrom(start, left) \in 0 .. n - 1 /\ left[FirstFrom(start, left)] > 0
    BY <1>0, <1>5, <1>6, <1>8, FirstIs
  <1> DEFINE new == [node |-> FirstFrom(start, left), remains |-> left]
  <1>10. new.node = FirstFrom(start, left) /\ new.remains = left
    OBVIOUS
  <1> HIDE DEF new
  <1>11. Dealt(units, n, i + 1, new)
    BY <1>5, <1>7, <1>9, <1>10 DEF Dealt
  <1> QED BY <1>3, <1>11 DEF new

\* SCATTER always finds a node that has some left.
LEMMA ScatterIs ==
  ASSUME NEW n, NEW units, Load(n, units), NEW k \in Nat \ {0}
  PROVE  \E at : /\ ScatterPlaces(units, n, k, at)
                 /\ ScatterMapping(units, k) = [i \in 0 .. k - 1 |-> at[i].node]
  <1>0. n \in Nat /\ n # 0 /\ 0 \in 0 .. n - 1 /\ units \in [0 .. n - 1 -> Nat] /\ units[0] > 0
    BY DEF Load
  <1>1. SumOver(units) \in Nat /\ SumOver(units) # 0
    BY <1>0, SumAtLeast
  <1>2. 0 % SumOver(units) = 0
    <2> DEFINE s == SumOver(units)
    <2>1. s \in Nat /\ 0 < s
      BY <1>1
    <2> HIDE DEF s
    <2>2. 0 % s = 0
      BY <2>1
    <2> QED BY <2>2 DEF s
  <1> DEFINE at == CHOOSE at : ScatterAt(units, k, at)
  <1>3. ScatterAt(units, k, at)
    BY <1>2, ScatterExists
  <1>4. ScatterMapping(units, k) = [i \in 0 .. k - 1 |-> at[i].node]
    BY DEF ScatterMapping, ScatterAt
  <1> HIDE DEF at
  <1>5. \A i \in 0 .. k - 1 : at[i] = ScatterFrom(units, i, at[i - 1])
    BY <1>3 DEF ScatterAt
  <1>6. at[0] = [node |-> 0, remains |-> units]
    <2>1. 0 \in 0 .. k - 1
      OBVIOUS
    <2>2. FirstFrom(0, units) = 0
      BY <1>0, FirstHere
    <2> QED BY <1>2, <1>5, <2>1, <2>2 DEF ScatterFrom
  <1> DEFINE T == {i \in Nat : i < k => Dealt(units, n, i, at[i])}
  <1>7. 0 \in T
    BY <1>0, <1>1, <1>2, <1>6 DEF Dealt
  <1>8. ASSUME NEW i \in Nat, i \in T PROVE i + 1 \in T
    <2> SUFFICES ASSUME i + 1 < k PROVE Dealt(units, n, i + 1, at[i + 1])
      OBVIOUS
    <2>1. i + 1 \in 0 .. k - 1 /\ (i + 1) - 1 = i /\ i < k
      OBVIOUS
    <2>2. Dealt(units, n, i, at[i])
      BY <1>8, <2>1
    <2>3. at[i + 1] = ScatterFrom(units, i + 1, at[i])
      BY <1>5, <2>1
    <2> QED BY <2>2, <2>3, ScatterStep
  <1>9. Nat \subseteq T
    <2> HIDE DEF T
    <2> QED BY <1>7, <1>8, NatInduct
  <1>10. \A i \in 0 .. k - 1 : Dealt(units, n, i, at[i])
    BY <1>9
  <1>11. \A i \in 1 .. k - 1 : at[i] = ScatterFrom(units, i, at[i - 1])
    <2>1. \A i \in 1 .. k - 1 : i \in 0 .. k - 1
      OBVIOUS
    <2> QED BY <1>5, <2>1
  <1>12. ScatterPlaces(units, n, k, at)
    BY <1>6, <1>10, <1>11 DEF ScatterPlaces
  <1> QED BY <1>4, <1>12

-----------------------------------------------------------------------------
(* The manager of an execution.                                            *)

IsConfig(c) ==
  c \in [max_concurrency : Nat \ {0}, partition_count : Nat, affinity : Affinities]

\* The units per node are what the mappings expect.
LEMMA LoadIs ==
  ASSUME NEW m \in Machines
  PROVE  Load(Len(AvailableNodes(m)), UnitsPerNode(m))
  <1> DEFINE N == Len(AvailableNodes(m))
             units == UnitsPerNode(m)
  <1>1. N \in Nat \ {0} /\ NodeIds(m) = 0 .. N - 1
    BY NodesAre DEF NodeIds
  <1>2. units \in [NodeIds(m) -> Nat] /\ \A n \in NodeIds(m) : units[n] > 0
    BY UnitsAre
  <1> HIDE DEF N, units
  <1>3. Load(N, units)
    BY <1>1, <1>2 DEF Load
  <1> QED BY <1>3 DEF N, units

\* Under an affinity each worker has an available node, and the first one node 0.
LEMMA ThreadsAre ==
  ASSUME NEW m \in Machines, NEW c, IsConfig(c), c.affinity # "NONE"
  PROVE  /\ LocalityManager(m, c).thread_mapping \in [0 .. c.max_concurrency - 1 -> NodeIds(m)]
         /\ LocalityManager(m, c).thread_mapping[0] = 0
  <1> DEFINE units == UnitsPerNode(m)
             n == Len(AvailableNodes(m))
             k == c.max_concurrency
             threads == LocalityManager(m, c).thread_mapping
  <1>1. k \in Nat \ {0} /\ c.affinity \in {"COMPACT", "SCATTER"}
    BY DEF IsConfig, Affinities
  <1>2. Load(n, units) /\ NodeIds(m) = 0 .. n - 1 /\ 0 \in 0 .. k - 1
    BY <1>1, LoadIs DEF NodeIds
  <1>3. c.affinity = "COMPACT" => threads = CompactMapping(units, k)
    BY DEF LocalityManager
  <1>4. c.affinity = "SCATTER" => threads = ScatterMapping(units, k)
    BY DEF LocalityManager
  <1> HIDE DEF units, n, k, threads
  <1>5. CASE c.affinity = "COMPACT"
    <2>1. PICK at : /\ CompactPlaces(units, n, k, at)
                    /\ CompactMapping(units, k) = [i \in 0 .. k - 1 |-> at[i].node]
      BY <1>1, <1>2, CompactIs
    <2>2. at[0].node = 0 /\ \A i \in 0 .. k - 1 : at[i].node \in 0 .. n - 1
      BY <2>1 DEF CompactPlaces
    <2>3. threads \in [0 .. k - 1 -> 0 .. n - 1] /\ threads[0] = 0
      BY <1>2, <1>3, <1>5, <2>1, <2>2
    <2> QED BY <1>2, <2>3 DEF threads, k
  <1>6. CASE c.affinity = "SCATTER"
    <2>1. PICK at : /\ ScatterPlaces(units, n, k, at)
                    /\ ScatterMapping(units, k) = [i \in 0 .. k - 1 |-> at[i].node]
      BY <1>1, <1>2, ScatterIs
    <2>2. at[0].node = 0 /\ \A i \in 0 .. k - 1 : at[i].node \in 0 .. n - 1
      BY <2>1 DEF ScatterPlaces, Dealt
    <2>3. threads \in [0 .. k - 1 -> 0 .. n - 1] /\ threads[0] = 0
      BY <1>2, <1>4, <1>6, <2>1, <2>2
    <2> QED BY <1>2, <2>3 DEF threads, k
  <1> QED BY <1>1, <1>5, <1>6

\* What a thread of an available node is bound to has a unit one may bind to.
LEMMA NodeBinds ==
  ASSUME NEW m \in Machines, NEW n \in NodeIds(m)
  PROVE  CanBind(m, CpuSet(m, n))
  <1>1. CASE Len(AvailableNodes(m)) = 1
    BY <1>1, LocalityAssumption DEF CanBind, CpuSet
  <1>2. CASE Len(AvailableNodes(m)) # 1
    BY <1>2, NodesAre DEF CpuSet, NodeIds
  <1> QED BY <1>1, <1>2

\* Every memory's node is the node of some worker.
LEMMA LocalityHasWorker ==
  ASSUME NEW m \in Machines, NEW c, IsConfig(c), c.affinity # "NONE",
         NEW mgr, mgr = LocalityManager(m, c)
  PROVE  /\ mgr.thread_mapping # <<>> /\ mgr.affinity = c.affinity
         /\ WorkersOf(mgr) = DOMAIN mgr.thread_mapping
         /\ 0 .. mgr.node_count - 1 = NodeIds(m)
         /\ \A w \in WorkersOf(mgr) : mgr.thread_mapping[w] \in NodeIds(m)
         /\ \E w \in WorkersOf(mgr) : mgr.thread_mapping[w] = 0
         /\ \A p \in DOMAIN mgr.partition_mapping :
              \E w \in WorkersOf(mgr) : PartitionMapping(mgr, p) = mgr.thread_mapping[w]
  <1> DEFINE k == c.max_concurrency
             t == mgr.thread_mapping
  <1>1. k \in Nat /\ k # 0
    BY DEF IsConfig
  <1>2. /\ mgr.max_concurrency = k /\ mgr.affinity = c.affinity
        /\ mgr.node_count = Len(AvailableNodes(m))
        /\ mgr.partition_mapping = PartitionNodes(m, c, t)
    <2> DEFINE x == CASE c.affinity = "NONE"    -> <<>>
                      [] c.affinity = "COMPACT" ->
                           CompactMapping(UnitsPerNode(m), c.max_concurrency)
                      [] c.affinity = "SCATTER" ->
                           ScatterMapping(UnitsPerNode(m), c.max_concurrency)
               p == PartitionNodes(m, c, x)
    <2>1. mgr = [max_concurrency |-> k, affinity |-> c.affinity, node_count |-> NodeCount(m, c),
                 thread_mapping |-> x, partition_mapping |-> p]
      BY DEF LocalityManager
    <2> HIDE DEF x, p
    <2>2. t = x /\ mgr.partition_mapping = p
      BY <2>1
    <2> QED BY <2>1, <2>2 DEF NodeCount, p
  <1>3. t \in [0 .. k - 1 -> NodeIds(m)] /\ t[0] = 0
    BY ThreadsAre
  <1>4. 0 \in 0 .. k - 1 /\ WorkersOf(mgr) = 0 .. k - 1 /\ DOMAIN t = 0 .. k - 1
    BY <1>1, <1>2, <1>3 DEF WorkersOf
  <1>5. t # <<>>
    <2>1. DOMAIN <<>> = {}
      OBVIOUS
    <2> HIDE DEF t, k
    <2> QED BY <1>4, <2>1
  <1>6. ASSUME NEW p \in DOMAIN mgr.partition_mapping
        PROVE  \E w \in 0 .. k - 1 : PartitionMapping(mgr, p) = t[w]
    <2>1. p \in 0 .. c.partition_count - 1 /\ mgr.partition_mapping[p] = t[p % k]
      BY <1>2 DEF PartitionNodes
    <2>2. p \in Nat /\ mgr.partition_mapping # <<>>
      BY <2>1 DEF IsConfig
    <2>3. p % k \in 0 .. k - 1
      <3> HIDE DEF k
      <3> QED BY <1>1, <2>2, ModRange
    <2> QED BY <2>1, <2>2, <2>3 DEF PartitionMapping
  <1>7. 0 .. mgr.node_count - 1 = NodeIds(m)
    BY <1>2 DEF NodeIds
  <1> QED BY <1>2, <1>3, <1>4, <1>5, <1>6, <1>7

-----------------------------------------------------------------------------
(* Invariants.                                                             *)

\* The manager is made of the machine and of the configuration, which does not
\* change under it; a worker that has bound itself is where the mapping puts it.
LocalityInv ==
  /\ machine \in Machines /\ IsConfig(config)
  /\ manager = None => binded_node = <<>> /\ hint = None
  /\ manager # None =>
       /\ manager = LocalityManager(machine, config)
       /\ \A w \in DOMAIN binded_node :
            w \in WorkersOf(manager) /\ binded_node[w] = ThreadMapping(manager, w)
  /\ BindingSucceeds
  /\ RecommendedIsLocal

\* Before the first execution there is no manager, and nobody has bound itself.
LEMMA InitInv == Init => LocalityInv
  <1> SUFFICES ASSUME Init PROVE LocalityInv
    OBVIOUS
  <1>1. Cardinality(AvailableUnits(machine)) \in Nat /\ Cardinality(AvailableUnits(machine)) # 0
    BY UnitCountIs DEF Init
  <1>2. IsConfig(config)
    BY <1>1 DEF Init, IsConfig, Affinities
  <1> QED BY <1>2 DEF Init, LocalityInv, BindingSucceeds, RecommendedIsLocal

\* Every step preserves the invariant.
LEMMA StepInv == LocalityInv /\ [Next]_vars => LocalityInv'
  <1> SUFFICES ASSUME LocalityInv, [Next]_vars PROVE LocalityInv'
    OBVIOUS
  <1>1. CASE SetConfiguration
    <2>1. IsConfig(config)'
      BY <1>1, LocalityAssumption DEF SetConfiguration, LocalityInv, IsConfig
    <2> QED BY <1>1, <2>1 DEF SetConfiguration, LocalityInv, BindingSucceeds, RecommendedIsLocal
  <1>2. CASE StartExecution
    BY <1>2 DEF StartExecution, LocalityInv, BindingSucceeds, RecommendedIsLocal
  <1>3. ASSUME NEW w \in WorkersOf(manager), manager # None, SetThreadCpubind(w)
        PROVE  LocalityInv'
    <2>1. machine \in Machines /\ IsConfig(config) /\ manager = LocalityManager(machine, config)
      BY <1>3 DEF LocalityInv
    <2>2. manager.thread_mapping = <<>>
            \/ CanBind(machine, CpuSet(machine, ThreadMapping(manager, w)))
      <3>1. CASE config.affinity = "NONE"
        BY <2>1, <3>1 DEF LocalityManager
      <3>2. CASE config.affinity # "NONE"
        <4>1. manager.thread_mapping # <<>> /\ manager.thread_mapping[w] \in NodeIds(machine)
          BY <2>1, <3>2, LocalityHasWorker
        <4>2. ThreadMapping(manager, w) \in NodeIds(machine)
          BY <4>1 DEF ThreadMapping
        <4> QED BY <2>1, <4>2, NodeBinds
      <3> QED BY <3>1, <3>2
    <2>3. /\ binded_node' = [v \in DOMAIN binded_node \cup {w} |->
                               IF v = w THEN ThreadMapping(manager, w) ELSE binded_node[v]]
          /\ UNCHANGED <<machine, config, manager, hint, terminated>>
      BY <1>3, <2>2 DEF SetThreadCpubind
    <2>4. ASSUME NEW v \in DOMAIN binded_node'
          PROVE  v \in WorkersOf(manager) /\ binded_node'[v] = ThreadMapping(manager, v)
      BY <1>3, <2>3 DEF LocalityInv
    <2>5. UNCHANGED RecommendedIsLocal
      BY <2>3 DEF RecommendedIsLocal, WorkersOf, ThreadMapping
    <2> QED BY <1>3, <2>3, <2>4, <2>5 DEF LocalityInv, BindingSucceeds, WorkersOf, ThreadMapping
  <1>4. CASE manager # None /\ Recommend
    <2>1. machine \in Machines /\ IsConfig(config) /\ manager = LocalityManager(machine, config)
      BY <1>4 DEF LocalityInv
    <2>2. UNCHANGED <<machine, config, manager, binded_node, terminated>>
      BY <1>4 DEF Recommend
    <2>3. PICK n \in MemoryLocalities :
            \E w \in RandomWorkerFromNode(manager, n) : hint' = [node |-> n, worker |-> w]
      BY <1>4 DEF Recommend
    <2>4. PICK w \in RandomWorkerFromNode(manager, n) : hint' = [node |-> n, worker |-> w]
      BY <2>3
    <2>5. \A v \in DOMAIN binded_node :
            v \in WorkersOf(manager) /\ binded_node[v] = ThreadMapping(manager, v)
      BY <1>4 DEF LocalityInv
    <2>6. /\ w \in WorkersOf(manager)
          /\ n \in 0 .. manager.node_count - 1
          /\ manager.affinity # "NONE" => ThreadMapping(manager, w) = n
      <3>1. CASE config.affinity = "NONE"
        <4>1. /\ manager.thread_mapping = <<>> /\ manager.partition_mapping = <<>>
              /\ manager.node_count = 1 /\ manager.affinity = "NONE"
          BY <2>1, <3>1 DEF LocalityManager, NodeCount
        <4>2. n = 0
          BY <2>5, <4>1 DEF MemoryLocalities, ThreadMapping
        <4> QED BY <4>1, <4>2 DEF RandomWorkerFromNode
      <3>2. CASE config.affinity # "NONE"
        <4>1. /\ manager.thread_mapping # <<>> /\ manager.affinity = config.affinity
              /\ WorkersOf(manager) = DOMAIN manager.thread_mapping
              /\ 0 .. manager.node_count - 1 = NodeIds(machine)
              /\ \A v \in WorkersOf(manager) : manager.thread_mapping[v] \in NodeIds(machine)
              /\ \E v \in WorkersOf(manager) : manager.thread_mapping[v] = 0
              /\ \A p \in DOMAIN manager.partition_mapping :
                   \E v \in WorkersOf(manager) :
                     PartitionMapping(manager, p) = manager.thread_mapping[v]
          BY <2>1, <3>2, LocalityHasWorker
        <4>2. \E v \in WorkersOf(manager) : manager.thread_mapping[v] = n
          BY <2>5, <4>1 DEF MemoryLocalities, ThreadMapping
        <4>3. w \in DOMAIN manager.thread_mapping /\ manager.thread_mapping[w] = n
          BY <3>2, <4>1, <4>2 DEF RandomWorkerFromNode, NodeToWorker
        <4> QED BY <4>1, <4>3 DEF ThreadMapping
      <3> QED BY <3>1, <3>2
    <2>7. RecommendedIsLocal'
      BY <2>2, <2>4, <2>6 DEF RecommendedIsLocal, WorkersOf, ThreadMapping
    <2> QED BY <1>4, <2>2, <2>5, <2>7 DEF LocalityInv, BindingSucceeds, WorkersOf, ThreadMapping
  <1>5. CASE EndExecution
    BY <1>5 DEF EndExecution, LocalityInv, BindingSucceeds, RecommendedIsLocal
  <1>6. CASE UNCHANGED vars
    BY <1>6 DEF vars, LocalityInv, BindingSucceeds, RecommendedIsLocal, WorkersOf, ThreadMapping
  <1> QED BY <1>1, <1>2, <1>3, <1>4, <1>5, <1>6 DEF Next

\* The invariant holds at any time.
LEMMA InvHolds == Spec => []LocalityInv
  BY InitInv, StepInv, PTL DEF Spec

\* Whatever the machine, whatever of it the process may use, and for every number of
\* threads, every worker of every execution succeeds in binding itself.
THEOREM EveryBindSucceeds == Spec => []BindingSucceeds
  <1>1. LocalityInv => BindingSucceeds
    BY DEF LocalityInv
  <1> QED BY <1>1, InvHolds, PTL

\* Every recommendation names a worker of the node of the memory a task reads.
THEOREM EveryHintIsLocal == Spec => []RecommendedIsLocal
  <1>1. LocalityInv => RecommendedIsLocal
    BY DEF LocalityInv
  <1> QED BY <1>1, InvHolds, PTL

-----------------------------------------------------------------------------
(* The sum of the units.                                                   *)

\* No unit counts for two nodes, and each for one.
LEMMA UnitsApart ==
  ASSUME NEW m \in Machines
  PROVE  /\ \A n, l \in NodeIds(m) : n # l => UnitsUnder(m, n) \cap UnitsUnder(m, l) = {}
         /\ \A u \in AvailableUnits(m) : \E n \in NodeIds(m) : u \in UnitsUnder(m, n)
         /\ \A n \in NodeIds(m) : UnitsUnder(m, n) \subseteq AvailableUnits(m)
  <1> DEFINE N == Len(AvailableNodes(m))
  <1>0. NodeIds(m) = 0 .. N - 1 /\ N \in Nat \ {0}
    BY NodesAre DEF NodeIds
  <1>1. CASE N = 1
    <2>1. NodeIds(m) = {0} /\ \A n \in NodeIds(m) : UnitsUnder(m, n) = AvailableUnits(m)
      BY <1>0, <1>1 DEF UnitsUnder
    <2> QED BY <2>1
  <1>2. CASE N # 1
    <2> DEFINE P == {m.parent[u] : u \in DOMAIN m.parent}
               S == {n \in P \ {NoNode} : CanBind(m, UnitsOf(m, n))}
               A == AvailableNodes(m)
    <2>1. m.numa
      <3> SUFFICES ASSUME ~m.numa PROVE FALSE
        OBVIOUS
      <3>1. A = <<0>>
        BY DEF AvailableNodes
      <3> QED BY <1>2, <3>1
    <2>2. A = Increasing(S)
      BY <2>1 DEF AvailableNodes
    <2>3. S \subseteq Nat /\ NoNode \notin S
      BY LocalityAssumption
    <2>4. IsFiniteSet(S)
      BY NodesFinite
    <2>5. Cardinality(S) \in Nat
      <3> HIDE DEF S
      <3> QED BY <2>4, FS_CardinalityType
    <2>6. Ordered(S, Cardinality(S), A)
      <3> HIDE DEF S
      <3> QED BY <2>2, <2>3, <2>4, IncreasingIs
    <2>7. A \in [1 .. Cardinality(S) -> S] /\ Range(A) = S
          /\ \A i, j \in 1 .. Cardinality(S) : i < j => A[i] < A[j]
      <3> HIDE DEF S, A
      <3> QED BY <2>6 DEF Ordered
    <2>8. N = Cardinality(S)
      <3> HIDE DEF S
      <3> QED BY <2>5, <2>7
    <2>9. ASSUME NEW u \in AvailableUnits(m)
          PROVE  m.parent[u] = NoNode \/ m.parent[u] \in S
      <3>1. u \in m.usable /\ u \in DOMAIN m.parent
        BY <2>9 DEF AvailableUnits, CanBind
      <3>2. CanBind(m, UnitsOf(m, m.parent[u]))
        BY <3>1 DEF CanBind, UnitsOf
      <3> QED BY <3>1, <3>2
    <2> HIDE DEF S, A
    <2>10. \A n \in 0 .. N - 1 : n + 1 \in 1 .. N /\ A[n + 1] \in S
      <3> SUFFICES ASSUME NEW n \in 0 .. N - 1 PROVE n + 1 \in 1 .. N /\ A[n + 1] \in S
        OBVIOUS
      <3>1. n + 1 \in 1 .. N
        BY <1>0
      <3> QED BY <2>7, <2>8, <3>1
    <2>11. \A n, l \in 0 .. N - 1 : n # l => A[n + 1] # A[l + 1]
      <3> SUFFICES ASSUME NEW n \in 0 .. N - 1, NEW l \in 0 .. N - 1, n # l
                   PROVE  A[n + 1] # A[l + 1]
        OBVIOUS
      <3>1. n + 1 < l + 1 \/ l + 1 < n + 1
        BY <1>0
      <3>2. A[n + 1] \in Nat /\ A[l + 1] \in Nat
        BY <2>3, <2>10
      <3>3. A[n + 1] < A[l + 1] \/ A[l + 1] < A[n + 1]
        BY <2>7, <2>8, <2>10, <3>1
      <3> QED BY <3>2, <3>3
    <2>12. \A n \in 0 .. N - 1 :
             UnitsUnder(m, n) = {u \in AvailableUnits(m) : \/ m.parent[u] = A[n + 1]
                                                           \/ n = 0 /\ m.parent[u] = NoNode}
      BY <1>2 DEF UnitsUnder, A
    <2> HIDE DEF N
    <2>13. ASSUME NEW n \in 0 .. N - 1, NEW l \in 0 .. N - 1, n # l,
                  NEW u \in UnitsUnder(m, n) \cap UnitsUnder(m, l)
           PROVE  FALSE
      <3>1. A[n + 1] # A[l + 1] /\ A[n + 1] # NoNode /\ A[l + 1] # NoNode
        BY <2>3, <2>10, <2>11, <2>13
      <3>2. \/ m.parent[u] = A[n + 1]
            \/ n = 0 /\ m.parent[u] = NoNode
        BY <2>12
      <3>3. \/ m.parent[u] = A[l + 1]
            \/ l = 0 /\ m.parent[u] = NoNode
        BY <2>12
      <3> QED BY <2>13, <3>1, <3>2, <3>3
    <2>14. ASSUME NEW u \in AvailableUnits(m)
           PROVE  \E n \in 0 .. N - 1 : u \in UnitsUnder(m, n)
      <3>1. CASE m.parent[u] = NoNode
        <4>1. 0 \in 0 .. N - 1
          BY <1>0
        <4> QED BY <2>12, <3>1, <4>1
      <3>2. CASE m.parent[u] \in S
        <4>1. PICK i \in 1 .. N : A[i] = m.parent[u]
          BY <2>7, <2>8, <3>2 DEF Range
        <4>2. i - 1 \in 0 .. N - 1 /\ (i - 1) + 1 = i
          BY <1>0
        <4> QED BY <2>12, <4>1, <4>2
      <3> QED BY <2>9, <3>1, <3>2
    <2> QED BY <1>0, <2>12, <2>13, <2>14
  <1> QED BY <1>1, <1>2

\* The units per node add up to the available ones.
LEMMA UnitsSum ==
  ASSUME NEW m \in Machines
  PROVE  SumOver(UnitsPerNode(m)) = Cardinality(AvailableUnits(m))
  <1> DEFINE N == Len(AvailableNodes(m))
             f == UnitsPerNode(m)
             U == AvailableUnits(m)
  <1>0. NodeIds(m) = 0 .. N - 1 /\ N \in Nat
    BY NodesAre DEF NodeIds
  <1>1. DOMAIN f = 0 .. N - 1 /\ \A n \in 0 .. N - 1 : f[n] = Cardinality(UnitsUnder(m, n))
    BY <1>0 DEF UnitsPerNode
  <1>2. IsFiniteSet(U)
    BY UnitCountIs
  <1> HIDE DEF f, N
  <1>3. PICK h : Partial(f, N, h) /\ SumOver(f) = h[N]
    BY <1>0, <1>1, SumTable
  <1> DEFINE Below(i) == {u \in U : \E n \in 0 .. i - 1 : u \in UnitsUnder(m, n)}
             T == {i \in Nat : i <= N => h[i] = Cardinality(Below(i))}
  <1>4. 0 \in T
    <2>1. Below(0) = {}
      <3>1. 0 .. 0 - 1 = {}
        OBVIOUS
      <3> QED BY <3>1
    <2>2. Cardinality({}) = 0
      BY FS_EmptySet
    <2> QED BY <1>3, <2>1, <2>2 DEF Partial
  <1>5. ASSUME NEW i \in Nat, i \in T PROVE i + 1 \in T
    <2> SUFFICES ASSUME i + 1 <= N PROVE h[i + 1] = Cardinality(Below(i + 1))
      OBVIOUS
    <2>1. i + 1 \in 1 .. N /\ (i + 1) - 1 = i /\ i <= N /\ i \in 0 .. N - 1
      BY <1>0
    <2>2. h[i + 1] = h[i] + f[i] /\ f[i] = Cardinality(UnitsUnder(m, i))
      BY <1>1, <1>3, <2>1 DEF Partial
    <2>3. h[i] = Cardinality(Below(i))
      BY <1>5, <2>1
    <2>4. 0 .. (i + 1) - 1 = (0 .. i - 1) \cup {i} /\ i \notin 0 .. i - 1
          /\ 0 .. i - 1 \subseteq 0 .. N - 1
      BY <1>0, <2>1
    <2> DEFINE B == Below(i)
               V == UnitsUnder(m, i)
    <2>5. V \subseteq U
      BY <1>0, <2>1, UnitsApart
    <2>6. Below(i + 1) = B \cup V
      BY <2>4, <2>5
    <2>7. B \cap V = {}
      BY <1>0, <2>1, <2>4, UnitsApart
    <2>8. B \subseteq U
      OBVIOUS
    <2> HIDE DEF Below, B, V
    <2>9. IsFiniteSet(B) /\ IsFiniteSet(V)
      BY <1>2, <2>5, <2>8, FS_Subset
    <2>10. /\ Cardinality(B) \in Nat /\ Cardinality(V) \in Nat
           /\ Cardinality(B \cup V) = Cardinality(B) + Cardinality(V) - Cardinality(B \cap V)
      BY <2>9, FS_Union, FS_CardinalityType
    <2>11. Cardinality(B \cap V) = 0
      BY <2>7, FS_EmptySet
    <2>12. h[i] = Cardinality(B) /\ f[i] = Cardinality(V)
      BY <2>2, <2>3 DEF B, V
    <2>13. h[i + 1] = Cardinality(B \cup V)
      BY <2>2, <2>10, <2>11, <2>12
    <2> QED BY <2>6, <2>13
  <1>6. N \in T
    <2> HIDE DEF T
    <2> QED BY <1>0, <1>4, <1>5, NatInduct
  <1>7. Below(N) = U
    BY <1>0, UnitsApart
  <1>8. h[N] = Cardinality(U)
    <2>1. h[N] = Cardinality(Below(N))
      BY <1>6
    <2> HIDE DEF Below, U
    <2> QED BY <1>7, <2>1
  <1> QED BY <1>3, <1>8 DEF f

-----------------------------------------------------------------------------
(* How many workers a node is given.                                       *)

\* How many of the first k workers are on node x.
Put(t, k, x) == Cardinality({w \in 0 .. k - 1 : t[w] = x})

\* No worker is on a node before the first one.
LEMMA PutNone == ASSUME NEW t, NEW x PROVE Put(t, 0, x) = 0
  <1>1. {w \in 0 .. 0 - 1 : t[w] = x} = {}
    <2>1. 0 .. 0 - 1 = {}
      OBVIOUS
    <2> QED BY <2>1
  <1> QED BY <1>1, FS_EmptySet DEF Put

\* One worker more is on one node more.
LEMMA PutNext ==
  ASSUME NEW t, NEW x, NEW k \in Nat
  PROVE  /\ Put(t, k, x) \in Nat
         /\ Put(t, k + 1, x) = Put(t, k, x) + (IF t[k] = x THEN 1 ELSE 0)
  <1> DEFINE A(i) == {w \in 0 .. i - 1 : t[w] = x}
  <1>1. IsFiniteSet(A(k))
    <2>1. IsFiniteSet(0 .. k - 1)
      BY FS_Interval
    <2>2. A(k) \subseteq 0 .. k - 1
      OBVIOUS
    <2> HIDE DEF A
    <2> QED BY <2>1, <2>2, FS_Subset
  <1>2. 0 .. (k + 1) - 1 = (0 .. k - 1) \cup {k} /\ k \notin 0 .. k - 1
    OBVIOUS
  <1>3. A(k + 1) = IF t[k] = x THEN A(k) \cup {k} ELSE A(k)
    BY <1>2
  <1>4. k \notin A(k)
    BY <1>2
  <1>5. Put(t, k, x) = Cardinality(A(k)) /\ Put(t, k + 1, x) = Cardinality(A(k + 1))
    BY DEF Put
  <1> HIDE DEF A
  <1>6. Cardinality(A(k)) \in Nat /\ Cardinality(A(k) \cup {k}) = Cardinality(A(k)) + 1
    BY <1>1, <1>4, FS_AddElement, FS_CardinalityType
  <1> QED BY <1>3, <1>5, <1>6

-----------------------------------------------------------------------------
(* COMPACT.                                                                *)

\* The sums of the units of the first nodes grow to the sum of all.
LEMMA TableUp ==
  ASSUME NEW n, NEW f, Load(n, f), NEW h, Partial(f, n, h)
  PROVE  /\ \A i \in 0 .. n : h[i] \in Nat
         /\ \A i \in 0 .. n - 1 : h[i + 1] = h[i] + f[i] /\ f[i] \in Nat /\ f[i] > 0 /\ h[i] < h[n]
  <1>0. n \in Nat /\ n # 0
    BY DEF Load
  <1>1. ASSUME NEW i \in Nat, i < n
        PROVE  h[i + 1] = h[i] + f[i] /\ f[i] \in Nat /\ f[i] > 0
    <2>1. i + 1 \in 1 .. n /\ (i + 1) - 1 = i /\ i \in 0 .. n - 1
      BY <1>0, <1>1
    <2> QED BY <2>1 DEF Load, Partial
  <1> DEFINE T == {i \in Nat : i <= n => h[i] \in Nat}
             R == {i \in Nat : i < n => h[n - 1 - i] < h[n]}
  <1>2. 0 \in T
    BY DEF Partial
  <1>3. ASSUME NEW i \in Nat, i \in T PROVE i + 1 \in T
    <2> SUFFICES ASSUME i + 1 <= n PROVE h[i + 1] \in Nat
      OBVIOUS
    <2>1. i < n /\ i <= n
      BY <1>0
    <2> QED BY <1>1, <1>3, <2>1
  <1>4. Nat \subseteq T
    <2> HIDE DEF T
    <2> QED BY <1>2, <1>3, NatInduct
  <1>5. \A i \in 0 .. n : h[i] \in Nat
    BY <1>0, <1>4
  <1>6. 0 \in R
    <2>1. n - 1 \in Nat /\ n - 1 < n /\ (n - 1) + 1 = n /\ n - 1 - 0 = n - 1 /\ n - 1 \in 0 .. n
      BY <1>0
    <2>2. h[n] = h[n - 1] + f[n - 1] /\ f[n - 1] \in Nat /\ f[n - 1] > 0
      BY <1>1, <2>1
    <2> QED BY <1>5, <2>1, <2>2
  <1>7. ASSUME NEW i \in Nat, i \in R PROVE i + 1 \in R
    <2> SUFFICES ASSUME i + 1 < n PROVE h[n - 1 - (i + 1)] < h[n]
      OBVIOUS
    <2> DEFINE a == n - 1 - (i + 1)
    <2>1. a \in Nat /\ a < n /\ a + 1 = n - 1 - i /\ i < n /\ n \in 0 .. n /\ a \in 0 .. n
          /\ a + 1 \in 0 .. n
      BY <1>0
    <2>2. h[a + 1] < h[n]
      BY <1>7, <2>1
    <2> HIDE DEF a
    <2>3. h[a + 1] = h[a] + f[a] /\ f[a] \in Nat /\ f[a] > 0
      BY <1>1, <2>1
    <2>4. h[a] < h[n]
      BY <1>5, <2>1, <2>2, <2>3
    <2> QED BY <2>4 DEF a
  <1>8. Nat \subseteq R
    <2> HIDE DEF R
    <2> QED BY <1>6, <1>7, NatInduct
  <1>9. ASSUME NEW i \in 0 .. n - 1 PROVE h[i] < h[n]
    <2>1. n - 1 - i \in Nat /\ n - 1 - i < n /\ n - 1 - (n - 1 - i) = i
      BY <1>0
    <2>2. n - 1 - i \in R
      BY <1>8, <2>1
    <2> QED BY <2>1, <2>2
  <1>10. \A i \in 0 .. n - 1 : i \in Nat /\ i < n
    BY <1>0
  <1> QED BY <1>1, <1>5, <1>9, <1>10

\* What node x has of a round of which place [p, j] is the last one.
Share(units, p, j, x) == IF x < p THEN units[x] ELSE IF x = p THEN j + 1 ELSE 0

\* After worker i, r rounds are complete and the last one has come to its place.
Filled(units, n, h, t, i, place) ==
  \E r \in Nat :
    /\ i = r * h[n] + h[place.node] + place.j
    /\ \A x \in 0 .. n - 1 :
         Put(t, i + 1, x) = r * units[x] + Share(units, place.node, place.j, x)

\* COMPACT fills the nodes in order, round after round.
LEMMA FilledHolds ==
  ASSUME NEW n, NEW units, Load(n, units), NEW k \in Nat \ {0},
         NEW h, Partial(units, n, h),
         NEW at, CompactPlaces(units, n, k, at),
         NEW t, \A i \in 0 .. k - 1 : t[i] = at[i].node
  PROVE  \A i \in 0 .. k - 1 : Filled(units, n, h, t, i, at[i])
  <1>0. n \in Nat /\ n # 0 /\ 0 \in 0 .. n - 1 /\ h[0] = 0
    BY DEF Load, Partial
  <1>h. /\ \A i \in 0 .. n : h[i] \in Nat
        /\ \A i \in 0 .. n - 1 : /\ h[i + 1] = h[i] + units[i] /\ units[i] \in Nat
                                 /\ units[i] > 0 /\ h[i] < h[n]
    BY TableUp
  <1> DEFINE T == {i \in Nat : i < k => Filled(units, n, h, t, i, at[i])}
  <1>1. 0 \in T
    <2>1. at[0] = [node |-> 0, j |-> 0] /\ 0 \in 0 .. k - 1
      BY DEF CompactPlaces
    <2>2. at[0].node = 0 /\ at[0].j = 0 /\ t[0] = 0
      BY <2>1
    <2>3. ASSUME NEW x \in 0 .. n - 1
          PROVE  Put(t, 0 + 1, x) = 0 * units[x] + Share(units, 0, 0, x)
      <3>1. Put(t, 0 + 1, x) = Put(t, 0, x) + (IF t[0] = x THEN 1 ELSE 0)
        BY PutNext
      <3>2. Put(t, 0, x) = 0
        BY PutNone
      <3>3. Share(units, 0, 0, x) = IF t[0] = x THEN 1 ELSE 0
        BY <2>2 DEF Share
      <3>4. units[x] \in Nat
        BY <1>h
      <3> QED BY <3>1, <3>2, <3>3, <3>4
    <2>4. 0 = 0 * h[n] + h[0] + 0
      BY <1>0, <1>h
    <2>5. Filled(units, n, h, t, 0, at[0])
      BY <2>2, <2>3, <2>4 DEF Filled
    <2> QED BY <2>5
  <1>2. ASSUME NEW i \in Nat, i \in T PROVE i + 1 \in T
    <2> SUFFICES ASSUME i + 1 < k PROVE Filled(units, n, h, t, i + 1, at[i + 1])
      OBVIOUS
    <2>1. i \in 0 .. k - 1 /\ i + 1 \in 1 .. k - 1 /\ i + 1 \in 0 .. k - 1 /\ (i + 1) - 1 = i
      OBVIOUS
    <2> DEFINE p == at[i].node
               j == at[i].j
    <2>2. p \in 0 .. n - 1 /\ j \in Nat /\ j < units[p]
      BY <2>1 DEF CompactPlaces
    <2>3. at[i + 1] = IF j + 1 < units[p] THEN [node |-> p, j |-> j + 1]
                      ELSE [node |-> (p + 1) % n, j |-> 0]
      BY <2>1 DEF CompactPlaces
    <2>4. t[i + 1] = at[i + 1].node
      BY <2>1
    <2>5. Filled(units, n, h, t, i, at[i])
      BY <1>2, <2>1
    <2>6. PICK r \in Nat : /\ i = r * h[n] + h[p] + j
                           /\ \A x \in 0 .. n - 1 :
                                Put(t, i + 1, x) = r * units[x] + Share(units, p, j, x)
      BY <2>5 DEF Filled
    <2> HIDE DEF p, j
    <2>7. \A x \in 0 .. n - 1 :
            Put(t, (i + 1) + 1, x) = Put(t, i + 1, x) + (IF t[i + 1] = x THEN 1 ELSE 0)
      <3>1. i + 1 \in Nat
        OBVIOUS
      <3> QED BY <3>1, PutNext
    <2>8. h[p] \in Nat /\ h[n] \in Nat /\ h[p + 1] = h[p] + units[p] /\ units[p] \in Nat
          /\ r * h[n] \in Nat
      <3>1. p \in 0 .. n /\ n \in 0 .. n
        BY <1>0, <2>2
      <3> QED BY <1>h, <2>2, <3>1
    <2>9. CASE j + 1 < units[p]
      <3>1. at[i + 1].node = p /\ at[i + 1].j = j + 1 /\ t[i + 1] = p
        BY <2>3, <2>4, <2>9
      <3>2. i + 1 = r * h[n] + h[p] + (j + 1)
        BY <2>2, <2>6, <2>8
      <3>3. ASSUME NEW x \in 0 .. n - 1
            PROVE  Put(t, (i + 1) + 1, x) = r * units[x] + Share(units, p, j + 1, x)
        <4>1. Share(units, p, j + 1, x) = Share(units, p, j, x) + (IF t[i + 1] = x THEN 1 ELSE 0)
              /\ Share(units, p, j, x) \in Nat /\ units[x] \in Nat
          BY <1>0, <1>h, <2>2, <3>1 DEF Share
        <4>2. r * units[x] \in Nat
          BY <4>1
        <4> QED BY <2>6, <2>7, <4>1, <4>2
      <3> QED BY <3>1, <3>2, <3>3 DEF Filled
    <2>10. CASE ~(j + 1 < units[p]) /\ p + 1 < n
      <3>1. p + 1 \in Nat /\ p + 1 \in 0 .. n - 1
        BY <1>0, <2>2, <2>10
      <3>2. (p + 1) % n = p + 1
        <4> DEFINE a == p + 1
        <4>1. a \in Nat /\ a < n
          BY <2>10, <3>1
        <4> HIDE DEF a
        <4>2. a % n = a
          BY ONLY <1>0, <4>1, ModCircle
        <4> QED BY <4>2 DEF a
      <3>3. at[i + 1].node = p + 1 /\ at[i + 1].j = 0 /\ t[i + 1] = p + 1
        BY <2>3, <2>4, <2>10, <3>2
      <3>4. j + 1 = units[p]
        BY <2>2, <2>8, <2>10
      <3>5. i + 1 = r * h[n] + h[p + 1] + 0
        BY <2>2, <2>6, <2>8, <3>4
      <3>6. ASSUME NEW x \in 0 .. n - 1
            PROVE  Put(t, (i + 1) + 1, x) = r * units[x] + Share(units, p + 1, 0, x)
        <4>1. Share(units, p + 1, 0, x) = Share(units, p, j, x) + (IF t[i + 1] = x THEN 1 ELSE 0)
              /\ Share(units, p, j, x) \in Nat /\ units[x] \in Nat
          BY <1>0, <1>h, <2>2, <3>3, <3>4 DEF Share
        <4>2. r * units[x] \in Nat
          BY <4>1
        <4> QED BY <2>6, <2>7, <4>1, <4>2
      <3> QED BY <3>3, <3>5, <3>6 DEF Filled
    <2>11. CASE ~(j + 1 < units[p]) /\ ~(p + 1 < n)
      <3>1. p + 1 = n
        BY <1>0, <2>2, <2>11
      <3>2. (p + 1) % n = 0
        <4>1. n % n = n - n
          BY ONLY <1>0, n <= n, n < 2 * n, ModCircle
        <4> QED BY <1>0, <3>1, <4>1
      <3>3. at[i + 1].node = 0 /\ at[i + 1].j = 0 /\ t[i + 1] = 0
        BY <2>3, <2>4, <2>11, <3>2
      <3>4. j + 1 = units[p]
        BY <2>2, <2>8, <2>11
      <3>5. i + 1 = (r + 1) * h[n] + h[0] + 0
        <4>1. i + 1 = r * h[n] + h[n]
          BY <2>2, <2>6, <2>8, <3>1, <3>4
        <4>2. (r + 1) * h[n] = r * h[n] + h[n]
          BY <2>8
        <4> QED BY <1>0, <2>8, <4>1, <4>2
      <3>6. ASSUME NEW x \in 0 .. n - 1
            PROVE  Put(t, (i + 1) + 1, x) = (r + 1) * units[x] + Share(units, 0, 0, x)
        <4>1. Share(units, p, j, x) = units[x] /\ units[x] \in Nat
              /\ Share(units, 0, 0, x) = IF t[i + 1] = x THEN 1 ELSE 0
          BY <1>0, <1>h, <2>2, <3>1, <3>3, <3>4 DEF Share
        <4>2. r * units[x] \in Nat /\ (r + 1) * units[x] = r * units[x] + units[x]
          BY <4>1
        <4> QED BY <2>6, <2>7, <4>1, <4>2
      <3>7. r + 1 \in Nat
        OBVIOUS
      <3> QED BY <3>3, <3>5, <3>6, <3>7 DEF Filled
    <2> QED BY <2>9, <2>10, <2>11
  <1>3. Nat \subseteq T
    <2> HIDE DEF T
    <2> QED BY <1>1, <1>2, NatInduct
  <1> QED BY <1>3

\* The part of a node's workers beyond the complete rounds.
Over(units, t, k, x) == Put(t, k, x) - (k \div SumOver(units)) * units[x]

\* COMPACT leaves one node at most partly used.
LEMMA CompactFair ==
  ASSUME NEW n, NEW units, Load(n, units), NEW k \in Nat \ {0},
         NEW t, t = CompactMapping(units, k)
  PROVE  \E p \in 0 .. n - 1 :
           \A x \in 0 .. n - 1 : /\ Over(units, t, k, x) \in 0 .. units[x]
                                 /\ x # p => Over(units, t, k, x) \in {0, units[x]}
  <1>0. n \in Nat /\ n # 0 /\ DOMAIN units = 0 .. n - 1
    BY DEF Load
  <1>1. PICK at : /\ CompactPlaces(units, n, k, at)
                  /\ t = [i \in 0 .. k - 1 |-> at[i].node]
    BY CompactIs
  <1>2. PICK h : Partial(units, n, h) /\ SumOver(units) = h[n]
    BY <1>0, SumTable
  <1>h. /\ \A i \in 0 .. n : h[i] \in Nat
        /\ \A i \in 0 .. n - 1 : /\ h[i + 1] = h[i] + units[i] /\ units[i] \in Nat
                                 /\ units[i] > 0 /\ h[i] < h[n]
    BY <1>2, TableUp
  <1>3. \A i \in 0 .. k - 1 : t[i] = at[i].node
    BY <1>1
  <1>4. k - 1 \in 0 .. k - 1 /\ (k - 1) + 1 = k
    OBVIOUS
  <1>5. \A i \in 0 .. k - 1 : Filled(units, n, h, t, i, at[i])
    BY <1>1, <1>2, <1>3, FilledHolds
  <1> DEFINE p == at[k - 1].node
             j == at[k - 1].j
  <1>6. p \in 0 .. n - 1 /\ j \in Nat /\ j < units[p]
    BY <1>1, <1>4 DEF CompactPlaces
  <1>7. PICK r \in Nat : /\ k - 1 = r * h[n] + h[p] + j
                         /\ \A x \in 0 .. n - 1 :
                              Put(t, k, x) = r * units[x] + Share(units, p, j, x)
    BY <1>4, <1>5 DEF Filled
  <1> HIDE DEF p, j
  <1> DEFINE q == h[p] + j + 1
  <1>8. h[p] \in Nat /\ h[n] \in Nat /\ units[p] \in Nat /\ h[n] # 0 /\ r * h[n] \in Nat
    <2>1. p \in 0 .. n /\ n \in 0 .. n
      BY <1>0, <1>6
    <2> QED BY <1>h, <1>6, <2>1
  <1>9. q \in Nat /\ k = r * h[n] + q
    BY <1>6, <1>7, <1>8
  <1>10. q <= h[n] /\ (q = h[n] => p + 1 = n /\ j + 1 = units[p])
    <2>1. h[p + 1] = h[p] + units[p]
      BY <1>h, <1>6
    <2>2. CASE p + 1 = n
      <3>1. h[n] = h[p] + units[p]
        BY <2>1, <2>2
      <3> QED BY <1>6, <1>8, <2>2, <3>1
    <2>3. CASE p + 1 # n
      <3>1. p + 1 \in 0 .. n - 1 /\ p + 1 \in 0 .. n
        BY <1>0, <1>6, <2>3
      <3>2. h[p + 1] < h[n] /\ h[p + 1] \in Nat
        BY <1>h, <3>1
      <3>3. q <= h[p + 1]
        BY <1>6, <1>8, <2>1
      <3> HIDE DEF q
      <3> QED BY <1>8, <1>9, <3>2, <3>3
    <2> QED BY <2>2, <2>3
  <1>11. ASSUME NEW x \in 0 .. n - 1
         PROVE  /\ units[x] \in Nat /\ r * units[x] \in Nat
                /\ (r + 1) * units[x] = r * units[x] + units[x]
                /\ Share(units, p, j, x) \in 0 .. units[x]
                /\ x # p => Share(units, p, j, x) \in {0, units[x]}
    <2>1. units[x] \in Nat
      BY <1>h
    <2>2. r * units[x] \in Nat /\ (r + 1) * units[x] = r * units[x] + units[x]
      BY <2>1
    <2> QED BY <1>6, <2>1, <2>2 DEF Share
  <1> HIDE DEF q
  <1>12. CASE q < h[n]
    <2>1. q \in 0 .. h[n] - 1
      BY <1>8, <1>9, <1>12
    <2>2. k \div h[n] = r
      BY ONLY <1>8, <1>9, <2>1, r \in Nat, ModUnique
    <2>3. ASSUME NEW x \in 0 .. n - 1 PROVE Over(units, t, k, x) = Share(units, p, j, x)
      <3>1. Over(units, t, k, x) = Put(t, k, x) - r * units[x]
        BY <1>2, <2>2 DEF Over
      <3> QED BY <1>7, <1>11, <3>1
    <2> QED BY <1>6, <1>11, <2>3
  <1>13. CASE q = h[n]
    <2>1. k = (r + 1) * h[n] + 0 /\ r + 1 \in Nat /\ 0 \in 0 .. h[n] - 1
      <3>1. (r + 1) * h[n] = r * h[n] + h[n]
        BY <1>8
      <3> QED BY <1>8, <1>9, <1>13, <3>1
    <2> DEFINE e == r + 1
    <2>2. e \in Nat /\ k = e * h[n] + 0
      BY <2>1
    <2> HIDE DEF e
    <2>3. k \div h[n] = e
      BY ONLY <1>8, <2>1, <2>2, ModUnique
    <2>4. ASSUME NEW x \in 0 .. n - 1 PROVE Over(units, t, k, x) = 0
      <3>1. Over(units, t, k, x) = Put(t, k, x) - (r + 1) * units[x]
        BY <1>2, <2>3 DEF Over, e
      <3>2. Share(units, p, j, x) = units[x]
        BY <1>0, <1>6, <1>10, <1>13 DEF Share
      <3> QED BY <1>7, <1>11, <3>1, <3>2
    <2> QED BY <1>6, <1>11, <2>4
  <1> QED BY <1>8, <1>9, <1>10, <1>12, <1>13

-----------------------------------------------------------------------------
(* SCATTER.                                                                *)

\* Counting the rounds.
LEMMA DivNext ==
  ASSUME NEW s \in Nat, s # 0, NEW i \in Nat
  PROVE  (i + 1) \div s = IF i % s = s - 1 THEN (i \div s) + 1 ELSE i \div s
  <1> DEFINE q == i \div s
             r == i % s
  <1>1. q \in Nat /\ r \in 0 .. s - 1 /\ i = q * s + r
    OBVIOUS
  <1> HIDE DEF q, r
  <1>2. CASE r = s - 1
    <2>1. i + 1 = (q + 1) * s + 0 /\ q + 1 \in Nat /\ 0 \in 0 .. s - 1
      BY <1>1, <1>2
    <2> DEFINE e == q + 1
               a == i + 1
    <2>2. e \in Nat /\ a = e * s + 0
      BY <2>1
    <2> HIDE DEF e, a
    <2>3. a \div s = e
      BY <2>1, <2>2, ModUnique
    <2> QED BY <1>2, <2>3 DEF a, e, r, q
  <1>3. CASE r # s - 1
    <2> DEFINE e == r + 1
               a == i + 1
    <2>1. e \in 0 .. s - 1 /\ a = q * s + e
      BY <1>1, <1>3
    <2> HIDE DEF e, a
    <2>2. a \div s = q
      BY <1>1, <2>1, ModUnique
    <2> QED BY <1>3, <2>2 DEF a, q, r
  <1> QED BY <1>2, <1>3

\* When nothing is left in all, nothing is left on any node.
LEMMA SumZero ==
  ASSUME NEW n \in Nat, NEW f \in [0 .. n - 1 -> Nat], SumOver(f) = 0
  PROVE  \A x \in 0 .. n - 1 : f[x] = 0
  <1> SUFFICES ASSUME NEW x \in 0 .. n - 1, f[x] # 0 PROVE FALSE
    OBVIOUS
  <1>1. f[x] > 0
    OBVIOUS
  <1>2. SumOver(f) # 0
    BY <1>1, SumAtLeast
  <1> QED BY <1>2

\* How often the deal has come to node x when it goes on from `start'.
Turns(q, start, x) == IF x < start THEN q + 1 ELSE q

\* A node has had a unit taken at each of its turns, or has none left.
EvenBy(units, n, start, left, q) ==
  \A x \in 0 .. n - 1 :
    /\ left[x] <= units[x]
    /\ \/ units[x] - left[x] = Turns(q, start, x)
       \/ left[x] = 0 /\ units[x] - left[x] < Turns(q, start, x)

Even(units, n, start, left) == \E q \in Nat : EvenBy(units, n, start, left, q)

\* A worker on the first node that has some left, and the deal goes on after it.
LEMMA EvenStep ==
  ASSUME NEW n, NEW units, Load(n, units), NEW start \in 0 .. n - 1, NEW left, NEW y,
         NEW new, OneLess(n, left, y, new), Skipped(n, left, start, y),
         Even(units, n, start, left)
  PROVE  (y + 1) % n \in 0 .. n - 1 /\ Even(units, n, (y + 1) % n, new)
  <1>0. n \in Nat /\ n # 0 /\ \A x \in 0 .. n - 1 : units[x] \in Nat
    BY DEF Load
  <1>1. /\ left \in [0 .. n - 1 -> Nat] /\ y \in 0 .. n - 1 /\ left[y] > 0
        /\ \A x \in 0 .. n - 1 : new[x] = IF x = y THEN left[x] - 1 ELSE left[x]
    BY DEF OneLess
  <1>2. PICK q \in Nat : EvenBy(units, n, start, left, q)
    BY DEF Even
  <1>3. (y + 1) % n = IF y + 1 < n THEN y + 1 ELSE 0
    <2> DEFINE a == y + 1
    <2>1. a \in Nat /\ a < 2 * n /\ (~(a < n) => a - n = 0)
      BY <1>0, <1>1
    <2> HIDE DEF a
    <2>2. a % n = IF a < n THEN a ELSE a - n
      BY ONLY <1>0, <2>1, ModTwice
    <2> QED BY <2>1, <2>2 DEF a
  <1> DEFINE next == IF y + 1 < n THEN y + 1 ELSE 0
             p == IF start <= y /\ y + 1 < n THEN q ELSE q + 1
  <1>4. next \in 0 .. n - 1 /\ p \in Nat
    BY <1>0, <1>1
  <1>5. ASSUME NEW x \in 0 .. n - 1
        PROVE  /\ new[x] <= units[x]
               /\ \/ units[x] - new[x] = Turns(p, next, x)
                  \/ new[x] = 0 /\ units[x] - new[x] < Turns(p, next, x)
    <2>1. /\ left[x] <= units[x] /\ left[x] \in Nat /\ units[x] \in Nat
          /\ \/ units[x] - left[x] = Turns(q, start, x)
             \/ left[x] = 0 /\ units[x] - left[x] < Turns(q, start, x)
      BY <1>0, <1>1, <1>2 DEF EvenBy
    <2>2. new[x] = IF x = y THEN left[x] - 1 ELSE left[x]
      BY <1>1
    <2>3. x = y => left[x] > 0
      BY <1>1
    <2>4. start <= y /\ start <= x /\ x < y => left[x] = 0
      <3> SUFFICES ASSUME start <= y /\ start <= x /\ x < y PROVE left[x] = 0
        OBVIOUS
      <3>1. x \in start .. y - 1
        BY <1>0, <1>1
      <3> QED BY <3>1 DEF Skipped
    <2>5. y < start /\ (start <= x \/ x < y) => left[x] = 0
      <3> SUFFICES ASSUME y < start /\ (start <= x \/ x < y) PROVE left[x] = 0
        OBVIOUS
      <3>1. x \in (start .. n - 1) \cup (0 .. y - 1)
        BY <1>0, <1>1
      <3> QED BY <3>1 DEF Skipped
    <2>6. /\ x \in Nat /\ x < n /\ y \in Nat /\ y < n
          /\ start \in Nat /\ start < n /\ n \in Nat /\ q \in Nat
      BY <1>0, <1>1
    <2>7. CASE start <= y /\ y + 1 < n
      BY <2>1, <2>2, <2>3, <2>4, <2>6, <2>7 DEF Turns
    <2>8. CASE start <= y /\ ~(y + 1 < n)
      BY <2>1, <2>2, <2>3, <2>4, <2>6, <2>8 DEF Turns
    <2>9. CASE y < start
      BY <2>1, <2>2, <2>3, <2>5, <2>6, <2>9 DEF Turns
    <2> QED BY <2>6, <2>7, <2>8, <2>9
  <1> HIDE DEF p, next
  <1>6. Even(units, n, next, new)
    BY <1>4, <1>5 DEF Even, EvenBy
  <1> QED BY <1>3, <1>4, <1>6 DEF next

\* What worker i finds: the nodes have had their units in complete rounds, and
\* evenly in the last one.
Found(units, n, t, i, start, left) ==
  /\ left \in [0 .. n - 1 -> Nat] /\ start \in 0 .. n - 1
  /\ SumOver(left) = SumOver(units) - (i % SumOver(units))
  /\ Even(units, n, start, left)
  /\ \A x \in 0 .. n - 1 :
       Put(t, i, x) = (i \div SumOver(units)) * units[x] + (units[x] - left[x])

Place(start, left) == [node |-> FirstFrom(start, left), remains |-> left]

\* At the beginning of a round every node has all its units left.
LEMMA FoundFirst ==
  ASSUME NEW n, NEW units, Load(n, units), NEW t, NEW i \in Nat,
         i % SumOver(units) = 0,
         \A x \in 0 .. n - 1 : Put(t, i, x) = (i \div SumOver(units)) * units[x]
  PROVE  Found(units, n, t, i, 0, units)
  <1>1. units \in [0 .. n - 1 -> Nat] /\ 0 \in 0 .. n - 1 /\ n \in Nat /\ units[0] > 0
    BY DEF Load
  <1>2. SumOver(units) \in Nat
    BY <1>1, SumAtLeast
  <1>3. SumOver(units) = SumOver(units) - (i % SumOver(units))
    BY <1>2
  <1>4. EvenBy(units, n, 0, units, 0)
    <2> SUFFICES ASSUME NEW x \in 0 .. n - 1
                 PROVE  units[x] <= units[x] /\ units[x] - units[x] = Turns(0, 0, x)
      BY DEF EvenBy
    <2>1. units[x] \in Nat /\ ~(x < 0)
      BY <1>1
    <2> QED BY <2>1 DEF Turns
  <1>5. Even(units, n, 0, units)
    BY <1>4 DEF Even
  <1>6. ASSUME NEW x \in 0 .. n - 1
        PROVE  Put(t, i, x) = (i \div SumOver(units)) * units[x] + (units[x] - units[x])
    <2>1. units[x] \in Nat
      BY <1>1
    <2>2. (i \div SumOver(units)) * units[x] = Put(t, i, x)
      OBVIOUS
    <2>3. Put(t, i, x) \in Nat
      BY PutNext
    <2> QED BY <2>1, <2>2, <2>3
  <1> QED BY <1>1, <1>3, <1>5, <1>6 DEF Found

\* From worker to worker: within a round, and on to the next one.
LEMMA FoundNext ==
  ASSUME NEW n, NEW units, Load(n, units), NEW t, NEW i \in Nat,
         NEW start, NEW left, Found(units, n, t, i, start, left),
         NEW x, x = Place(start, left), t[i] = x.node
  PROVE  \E s, l : Found(units, n, t, i + 1, s, l) /\ ScatterFrom(units, i + 1, x) = Place(s, l)
  <1>0. n \in Nat /\ n # 0 /\ 0 \in 0 .. n - 1 /\ units \in [0 .. n - 1 -> Nat] /\ units[0] > 0
    BY DEF Load
  <1> DEFINE S == SumOver(units)
             y == FirstFrom(start, left)
             new == [left EXCEPT ![y] = @ - 1]
             r == i \div S
  <1>1. S \in Nat /\ S # 0
    BY <1>0, SumAtLeast
  <1>2. Cardinality(DOMAIN units) = n
    BY <1>0, CountOf
  <1>3. /\ left \in [0 .. n - 1 -> Nat] /\ start \in 0 .. n - 1
        /\ SumOver(left) = S - (i % S) /\ Even(units, n, start, left)
        /\ \A z \in 0 .. n - 1 : Put(t, i, z) = r * units[z] + (units[z] - left[z])
    BY DEF Found
  <1>4. x.node = y /\ x.remains = left
    BY DEF Place
  <1> HIDE DEF S, r
  <1>5. i % S \in 0 .. S - 1 /\ r \in Nat
    <2>1. r \in Nat
      BY <1>1 DEF r
    <2> QED BY <1>1, <2>1, ModRange
  <1>6. PICK z \in 0 .. n - 1 : left[z] > 0
    <2>1. SumOver(left) # 0
      BY <1>1, <1>3, <1>5
    <2> QED BY <1>0, <1>3, <2>1, SumPositive
  <1>7. y \in 0 .. n - 1 /\ left[y] > 0 /\ Skipped(n, left, start, y)
    BY <1>0, <1>3, <1>6, FirstIs
  <1> HIDE DEF y
  <1>8. OneLess(n, left, y, new)
    BY <1>3, <1>7 DEF OneLess
  <1>9. \A v \in 0 .. n - 1 : new[v] = IF v = y THEN left[v] - 1 ELSE left[v]
    BY <1>3
  <1>10. new \in [0 .. n - 1 -> Nat]
    BY <1>3, <1>7
  <1> HIDE DEF new
  <1>11. SumOver(new) = S - (i % S) - 1
    BY <1>0, <1>3, <1>8, SumLess
  <1>12. (y + 1) % n \in 0 .. n - 1 /\ Even(units, n, (y + 1) % n, new)
    BY <1>3, <1>7, <1>8, EvenStep
  <1>13. \A v \in 0 .. n - 1 :
           /\ Put(t, i + 1, v) = Put(t, i, v) + (IF y = v THEN 1 ELSE 0)
           /\ units[v] \in Nat /\ left[v] \in Nat
    <2> SUFFICES ASSUME NEW v \in 0 .. n - 1
                 PROVE  /\ Put(t, i + 1, v) = Put(t, i, v) + (IF y = v THEN 1 ELSE 0)
                        /\ units[v] \in Nat /\ left[v] \in Nat
      OBVIOUS
    <2>1. t[i] = y
      BY <1>4
    <2>2. Put(t, i + 1, v) = Put(t, i, v) + (IF t[i] = v THEN 1 ELSE 0)
      BY PutNext
    <2>3. units[v] \in Nat /\ left[v] \in Nat
      BY <1>0, <1>3
    <2> QED BY <2>1, <2>2, <2>3
  <1>14. CASE i % S = S - 1
    <2>1. (i + 1) % S = 0 /\ (i + 1) \div S = r + 1
      BY <1>1, <1>14, ModNext, DivNext DEF r
    <2>2. SumOver(new) = 0
      BY <1>1, <1>11, <1>14
    <2>3. \A v \in 0 .. n - 1 : new[v] = 0
      BY <1>0, <1>10, <2>2, SumZero
    <2>4. ASSUME NEW v \in 0 .. n - 1 PROVE Put(t, i + 1, v) = (r + 1) * units[v]
      <3>1. Put(t, i + 1, v) = r * units[v] + (units[v] - left[v]) + (IF y = v THEN 1 ELSE 0)
        BY <1>3, <1>13
      <3>2. left[v] = IF y = v THEN 1 ELSE 0
        BY <1>9, <1>13, <2>3
      <3>3. units[v] \in Nat
        BY <1>13
      <3>4. r * units[v] \in Nat /\ (r + 1) * units[v] = r * units[v] + units[v]
        BY <1>5, <3>3
      <3> QED BY <3>1, <3>2, <3>3, <3>4
    <2>5. i + 1 \in Nat
      OBVIOUS
    <2>6. Found(units, n, t, i + 1, 0, units)
      BY <2>1, <2>4, <2>5, FoundFirst DEF S
    <2>7. ScatterFrom(units, i + 1, x) = Place(0, units)
      BY <2>1 DEF ScatterFrom, Place, S
    <2> QED BY <2>6, <2>7
  <1>15. CASE i % S # S - 1
    <2>1. (i + 1) % S = (i % S) + 1 /\ (i + 1) \div S = r
      BY <1>1, <1>15, ModNext, DivNext DEF r
    <2>2. (i + 1) % S # 0
      BY <1>5, <2>1
    <2>3. ASSUME NEW v \in 0 .. n - 1
          PROVE  Put(t, i + 1, v) = r * units[v] + (units[v] - new[v])
      <3>1. Put(t, i + 1, v) = r * units[v] + (units[v] - left[v]) + (IF y = v THEN 1 ELSE 0)
        BY <1>3, <1>13
      <3>2. new[v] = IF v = y THEN left[v] - 1 ELSE left[v]
        BY <1>9
      <3>3. units[v] \in Nat /\ left[v] \in Nat
        BY <1>13
      <3>4. r * units[v] \in Nat
        BY <1>5, <3>3
      <3> QED BY <3>1, <3>2, <3>3, <3>4
    <2>4. SumOver(new) = S - ((i + 1) % S)
      BY <1>1, <1>5, <1>11, <2>1
    <2>5. Found(units, n, t, i + 1, (y + 1) % n, new)
      BY <1>10, <1>12, <2>1, <2>3, <2>4 DEF Found, S
    <2>6. ScatterFrom(units, i + 1, x) = Place((y + 1) % n, new)
      BY <1>2, <1>4, <2>2 DEF ScatterFrom, Place, S, new
    <2> QED BY <2>5, <2>6
  <1> QED BY <1>14, <1>15

\* What UnitsShared says of SCATTER.
DealtEvenly(units, n, t, k) ==
  /\ \A x \in 0 .. n - 1 : Over(units, t, k, x) \in 0 .. units[x]
  /\ \A x, l \in 0 .. n - 1 :
       Over(units, t, k, l) >= Over(units, t, k, x) + 2 => Over(units, t, k, x) = units[x]

\* SCATTER gives a node two workers more than another only if that one is full.
LEMMA ScatterFair ==
  ASSUME NEW n, NEW units, Load(n, units), NEW k \in Nat \ {0},
         NEW t, t = ScatterMapping(units, k)
  PROVE  DealtEvenly(units, n, t, k)
  <1>0. n \in Nat /\ n # 0 /\ units \in [0 .. n - 1 -> Nat] /\ 0 \in 0 .. n - 1 /\ units[0] > 0
    BY DEF Load
  <1>s. SumOver(units) \in Nat /\ SumOver(units) # 0
    BY <1>0, SumAtLeast
  <1>1. PICK at : /\ ScatterPlaces(units, n, k, at)
                  /\ t = [i \in 0 .. k - 1 |-> at[i].node]
    BY ScatterIs
  <1> DEFINE R(i) == \E start, left : /\ Found(units, n, t, i, start, left)
                                      /\ i < k => at[i] = Place(start, left)
             T == {i \in Nat : i <= k => R(i)}
  <1>2. 0 \in T
    <2> DEFINE s == SumOver(units)
    <2>1. s \in Nat /\ 0 < s /\ 0 = 0 * s + 0 /\ 0 \in 0 .. s - 1 /\ s # 0
      BY <1>s
    <2> HIDE DEF s
    <2>2. 0 % s = 0 /\ 0 \div s = 0
      BY <2>1
    <2>3. \A x \in 0 .. n - 1 : Put(t, 0, x) = (0 \div s) * units[x]
      <3> SUFFICES ASSUME NEW x \in 0 .. n - 1 PROVE Put(t, 0, x) = 0 * units[x]
        BY <2>2
      <3>1. Put(t, 0, x) = 0
        BY PutNone
      <3>2. units[x] \in Nat
        BY <1>0
      <3> QED BY <3>1, <3>2
    <2>4. Found(units, n, t, 0, 0, units)
      BY <2>2, <2>3, FoundFirst DEF s
    <2>5. FirstFrom(0, units) = 0
      BY <1>0, FirstHere
    <2>6. at[0] = Place(0, units)
      BY <1>1, <2>5 DEF ScatterPlaces, Place
    <2> QED BY <2>4, <2>6
  <1>3. ASSUME NEW i \in Nat, i \in T PROVE i + 1 \in T
    <2> SUFFICES ASSUME i + 1 <= k PROVE R(i + 1)
      OBVIOUS
    <2>1. i < k /\ i <= k /\ i \in 0 .. k - 1
      OBVIOUS
    <2>2. PICK start, left : Found(units, n, t, i, start, left) /\ at[i] = Place(start, left)
      BY <1>3, <2>1
    <2>3. t[i] = at[i].node
      BY <1>1, <2>1
    <2>4. PICK s, l : /\ Found(units, n, t, i + 1, s, l)
                      /\ ScatterFrom(units, i + 1, at[i]) = Place(s, l)
      BY <2>2, <2>3, FoundNext
    <2>5. i + 1 < k => at[i + 1] = ScatterFrom(units, i + 1, at[i])
      <3> SUFFICES ASSUME i + 1 < k PROVE at[i + 1] = ScatterFrom(units, i + 1, at[i])
        OBVIOUS
      <3>1. i + 1 \in 1 .. k - 1 /\ (i + 1) - 1 = i
        OBVIOUS
      <3> QED BY <1>1, <3>1 DEF ScatterPlaces
    <2> QED BY <2>4, <2>5
  <1>4. R(k)
    <2>1. k \in Nat /\ k <= k
      OBVIOUS
    <2>2. Nat \subseteq T
      <3> HIDE DEF T
      <3> QED BY <1>2, <1>3, NatInduct
    <2> QED BY <2>1, <2>2
  <1>5. PICK start, left : Found(units, n, t, k, start, left)
    BY <1>4
  <1>6. start \in 0 .. n - 1 /\ left \in [0 .. n - 1 -> Nat]
    BY <1>5 DEF Found
  <1>7. PICK q \in Nat : EvenBy(units, n, start, left, q)
    BY <1>5 DEF Found, Even
  <1>8. ASSUME NEW x \in 0 .. n - 1
        PROVE  /\ Over(units, t, k, x) = units[x] - left[x]
               /\ left[x] \in 0 .. units[x] /\ units[x] \in Nat
               /\ Over(units, t, k, x) <= q + 1
               /\ Over(units, t, k, x) < q => left[x] = 0
    <2>1. units[x] \in Nat /\ left[x] \in Nat
      BY <1>0, <1>6
    <2> DEFINE c == (k \div SumOver(units)) * units[x]
    <2>2. c \in Nat
      <3>1. k \div SumOver(units) \in Nat
        BY <1>s
      <3> QED BY <2>1, <3>1
    <2>3. Put(t, k, x) = c + (units[x] - left[x]) /\ Over(units, t, k, x) = Put(t, k, x) - c
      BY <1>5 DEF Found, Over
    <2> HIDE DEF c
    <2>4. Over(units, t, k, x) = units[x] - left[x]
      BY <2>1, <2>2, <2>3
    <2>5. /\ left[x] <= units[x]
          /\ \/ units[x] - left[x] = Turns(q, start, x)
             \/ left[x] = 0 /\ units[x] - left[x] < Turns(q, start, x)
      BY <1>7 DEF EvenBy
    <2>6. Turns(q, start, x) \in {q, q + 1}
      BY DEF Turns
    <2> QED BY <2>1, <2>4, <2>5, <2>6
  <1>9. \A x \in 0 .. n - 1 : Over(units, t, k, x) \in 0 .. units[x]
    BY <1>8
  <1>10. ASSUME NEW x \in 0 .. n - 1, NEW l \in 0 .. n - 1,
                Over(units, t, k, l) >= Over(units, t, k, x) + 2
         PROVE  Over(units, t, k, x) = units[x]
    <2>1. /\ Over(units, t, k, l) <= q + 1
          /\ Over(units, t, k, l) \in 0 .. units[l] /\ units[l] \in Nat
      BY <1>8
    <2>2. Over(units, t, k, x) = units[x] - left[x] /\ units[x] \in Nat /\ left[x] \in 0 .. units[x]
          /\ (Over(units, t, k, x) < q => left[x] = 0)
      BY <1>8
    <2> QED BY <1>10, <2>1, <2>2
  <1> QED BY <1>9, <1>10 DEF DealtEvenly

\* What UnitsShared says of the manager of a configuration.
LEMMA UnitsAreShared ==
  ASSUME LocalityInv PROVE UnitsShared
  <1> SUFFICES ASSUME manager # None, manager.affinity # "NONE" PROVE UnitsShared
    BY DEF UnitsShared
  <1> DEFINE units == UnitsPerNode(machine)
             n == Len(AvailableNodes(machine))
             k == config.max_concurrency
             t == manager.thread_mapping
             rounds == manager.max_concurrency \div SumOver(units)
             rest == [x \in NodeIds(machine) |->
                        Cardinality(NodeToWorker(manager, x)) - rounds * units[x]]
  <1>1. machine \in Machines /\ IsConfig(config) /\ manager = LocalityManager(machine, config)
    BY DEF LocalityInv
  <1>2. manager.affinity = config.affinity /\ manager.max_concurrency = k
    BY <1>1 DEF LocalityManager
  <1>3. SumOver(units) = Cardinality(AvailableUnits(machine))
    BY <1>1, UnitsSum
  <1>4. Load(n, units) /\ NodeIds(machine) = 0 .. n - 1 /\ k \in Nat \ {0}
    BY <1>1, LoadIs DEF NodeIds, IsConfig
  <1>5. t \in [0 .. k - 1 -> NodeIds(machine)]
    BY <1>1, <1>2, ThreadsAre
  <1>6. ASSUME NEW x \in 0 .. n - 1 PROVE rest[x] = Over(units, t, k, x)
    <2>1. NodeToWorker(manager, x) = {w \in 0 .. k - 1 : t[w] = x}
      BY <1>5 DEF NodeToWorker
    <2>2. rest[x] = Cardinality(NodeToWorker(manager, x)) - rounds * units[x]
      BY <1>4
    <2>3. Over(units, t, k, x) = Cardinality({w \in 0 .. k - 1 : t[w] = x}) - rounds * units[x]
      BY <1>2 DEF Over, Put
    <2> QED BY <2>1, <2>2, <2>3
  <1> HIDE DEF n, k, t, rounds, rest, units
  <1>7. CASE config.affinity = "COMPACT"
    <2>1. t = CompactMapping(units, k)
      BY <1>1, <1>7 DEF LocalityManager, t, k, units
    <2>2. PICK p \in 0 .. n - 1 :
            \A x \in 0 .. n - 1 : /\ Over(units, t, k, x) \in 0 .. units[x]
                                  /\ x # p => Over(units, t, k, x) \in {0, units[x]}
      BY ONLY <1>4, <2>1, CompactFair
    <2> DEFINE P == {x \in 0 .. n - 1 : rest[x] \notin {0, units[x]}}
    <2>3. P \subseteq {p}
      BY <1>6, <2>2
    <2> HIDE DEF P
    <2>4. Cardinality(P) <= 1
      <3>1. IsFiniteSet({p}) /\ Cardinality({p}) = 1
        BY FS_Singleton
      <3>2. Cardinality(P) <= Cardinality({p})
        BY <2>3, <3>1, FS_Subset
      <3> QED BY <3>1, <3>2
    <2>5. \A x \in NodeIds(machine) : rest[x] \in 0 .. units[x]
      BY <1>4, <1>6, <2>2
    <2>6. Cardinality({x \in NodeIds(machine) : rest[x] \notin {0, units[x]}}) <= 1
      BY <1>4, <2>4 DEF P
    <2>7. manager.affinity # "SCATTER"
      BY <1>2, <1>7
    <2> QED BY <1>3, <2>5, <2>6, <2>7 DEF UnitsShared, rest, rounds, units
  <1>8. CASE config.affinity = "SCATTER"
    <2>1. t = ScatterMapping(units, k)
      BY <1>1, <1>8 DEF LocalityManager, t, k, units
    <2>2. /\ \A x \in 0 .. n - 1 : Over(units, t, k, x) \in 0 .. units[x]
          /\ \A x, l \in 0 .. n - 1 :
               Over(units, t, k, l) >= Over(units, t, k, x) + 2 => Over(units, t, k, x) = units[x]
      <3>1. DealtEvenly(units, n, t, k)
        BY ONLY <1>4, <2>1, ScatterFair
      <3> QED BY ONLY <3>1 DEF DealtEvenly
    <2>3. \A x \in NodeIds(machine) : rest[x] \in 0 .. units[x]
      BY <1>4, <1>6, <2>2
    <2>4. \A x, l \in NodeIds(machine) : rest[l] >= rest[x] + 2 => rest[x] = units[x]
      BY <1>4, <1>6, <2>2
    <2>5. manager.affinity # "COMPACT"
      BY <1>2, <1>8
    <2> QED BY <1>3, <2>3, <2>4, <2>5 DEF UnitsShared, rest, rounds, units
  <1>9. config.affinity \in {"COMPACT", "SCATTER"}
    BY <1>1, <1>2 DEF IsConfig, Affinities
  <1> QED BY <1>7, <1>8, <1>9

\* Under an affinity the workers share the available units evenly, for every number of
\* workers, nodes and units.
THEOREM UnitsAreAlwaysShared == Spec => []UnitsShared
  BY InvHolds, UnitsAreShared, PTL
=============================================================================
