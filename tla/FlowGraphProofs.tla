-------------------------- MODULE FlowGraphProofs --------------------------
(***************************************************************************)
(* Theorems about FlowGraph: its search for a cycle is right about every   *)
(* graph that the calls of the user can build, and an accepted graph       *)
(* meets the preconditions of the LogicalGraphBuilder.                     *)
(*                                                                         *)
(* The recursion and the loops are functions; that they exist, and what    *)
(* they compute, is shown by inductions on the natural numbers, with the   *)
(* set of the numbers that have a property in place of the property.       *)
(***************************************************************************)
EXTENDS FlowGraph, FiniteSetTheorems, SequenceTheorems, TLAPS

-----------------------------------------------------------------------------
(* Natural numbers.                                                        *)

\* A set of natural numbers has a least element.
LEMMA NatMin ==
  ASSUME NEW T, T \subseteq Nat, T # {}
  PROVE  \E m \in T : \A n \in T : m <= n
<1>1. PICK R : R = OpToRel(<, Nat)
  OBVIOUS
<1>2. \A x, y \in Nat : x < y => <<x, y>> \in R
  BY <1>1 DEF OpToRel
<1>3. IsWellFoundedOn(R, Nat)
  BY <1>1, NatLessThanWellFounded
<1>4. PICK x \in T : \A y \in T : ~(<<y, x>> \in R)
  BY <1>3, WFMin
<1>5. ASSUME NEW y \in T PROVE x <= y
  <2>1. x \in Nat /\ y \in Nat
    OBVIOUS
  <2>2. ~(y < x)
    BY <1>2, <1>4, <2>1
  <2> QED BY <2>1, <2>2
<1> QED
  BY <1>5

\* Induction on the natural numbers, for the set of those with a property.
LEMMA NatInduct ==
  ASSUME NEW T, 0 \in T, \A n \in Nat : n \in T => n + 1 \in T
  PROVE  Nat \subseteq T
  <1> DEFINE U == Nat \ T
  <1>1. SUFFICES ASSUME U # {} PROVE FALSE
    OBVIOUS
  <1>2. PICK m \in U : \A n \in U : m <= n
    BY <1>1, NatMin
  <1>3. m # 0 /\ m \in Nat
    OBVIOUS
  <1>4. m - 1 \in Nat /\ ~(m <= m - 1)
    BY <1>3
  <1>5. m - 1 \in T
    BY <1>2, <1>4
  <1>6. (m - 1) + 1 \in T
    BY <1>4, <1>5
  <1>7. (m - 1) + 1 = m
    BY <1>3
  <1> QED BY <1>6, <1>7

\* A set of numbers up to k has a greatest one.
LEMMA MaxIs ==
  ASSUME NEW k \in Nat, NEW r \in SUBSET (1 .. k), r # {}
  PROVE  Max(r) \in r /\ \A y \in r : Max(r) >= y
  <1> DEFINE T == {k - x : x \in r}
  <1>1. T \subseteq Nat /\ T # {}
    <2>1. \A x \in r : x \in 1 .. k /\ k - x \in Nat
      OBVIOUS
    <2> QED BY <2>1
  <1>2. PICK m \in T : \A n \in T : m <= n
    BY <1>1, NatMin
  <1>3. PICK x \in r : m = k - x
    OBVIOUS
  <1>4. ASSUME NEW y \in r PROVE x >= y
    <2>1. k - y \in T /\ x \in 1 .. k /\ y \in 1 .. k
      OBVIOUS
    <2>2. k - x <= k - y
      BY <1>2, <1>3, <2>1
    <2> QED BY <2>1, <2>2
  <1>5. \E z \in r : \A y \in r : z >= y
    BY <1>4
  <1> QED BY <1>5 DEF Max

-----------------------------------------------------------------------------
(* The loops.                                                              *)

\* it folds the first elements of vs: the sets of their positions in D.
Iterates(recur, s, vs, D, it) ==
  it = [r \in D |-> IF r = {} THEN s ELSE recur[vs[Max(r)]][it[r \ {Max(r)}]]]

\* The function that folds a sequence is well-defined for every length.
LEMMA IteratesExist ==
  ASSUME NEW n \in Nat, NEW vs, NEW recur, NEW s
  PROVE  \E it : Iterates(recur, s, vs, SUBSET (1 .. n), it)
  <1> DEFINE T == {k \in Nat : \E it : Iterates(recur, s, vs, SUBSET (1 .. k), it)}
  <1>1. 0 \in T
    <2> DEFINE it == [r \in SUBSET (1 .. 0) |-> s]
    <2>1. \A r \in SUBSET (1 .. 0) : r = {}
      OBVIOUS
    <2>2. Iterates(recur, s, vs, SUBSET (1 .. 0), it)
      BY <2>1 DEF Iterates
    <2> QED BY <2>2
  <1>2. ASSUME NEW k \in Nat, k \in T PROVE k + 1 \in T
    <2>1. PICK it : Iterates(recur, s, vs, SUBSET (1 .. k), it)
      BY <1>2
    <2> DEFINE D == SUBSET (1 .. k + 1)
               new == [r \in D |-> IF r = {} THEN s ELSE recur[vs[Max(r)]][it[r \ {Max(r)}]]]
    <2>2. SUBSET (1 .. k) \subseteq D
      OBVIOUS
    <2>3. \A r \in SUBSET (1 .. k) : new[r] = it[r]
      BY <2>1, <2>2 DEF Iterates
    <2>4. ASSUME NEW r \in D, r # {} PROVE r \ {Max(r)} \in SUBSET (1 .. k)
      <3>1. k + 1 \in Nat
        OBVIOUS
      <3>2. Max(r) \in r /\ \A y \in r : Max(r) >= y
        BY <2>4, <3>1, MaxIs
      <3>3. ASSUME NEW y \in r, y # Max(r) PROVE y \in 1 .. k
        <4>1. y \in 1 .. k + 1 /\ Max(r) \in 1 .. k + 1
          BY <3>2
        <4>2. Max(r) >= y
          BY <3>2
        <4> QED BY <3>3, <4>1, <4>2
      <3> QED BY <3>3
    <2>5. Iterates(recur, s, vs, D, new)
      <3>1. \A r \in D : r # {} => new[r \ {Max(r)}] = it[r \ {Max(r)}]
        BY <2>3, <2>4
      <3> HIDE DEF D
      <3> QED BY <3>1 DEF Iterates
    <2>6. \E x : Iterates(recur, s, vs, D, x)
      <3> HIDE DEF new
      <3> QED BY <2>5
    <2> QED BY <2>6
  <1>3. n \in T
    <2> HIDE DEF T
    <2> QED BY <1>1, <1>2, NatInduct
  <1> QED BY <1>3

\* h is the state of the search after each vertex of vs.
Visited(recur, s, vs, n, h) ==
  h[0] = s /\ \A i \in 1 .. n : h[i] = recur[vs[i]][h[i - 1]]

\* Visit goes through a table of the searches after each vertex.
LEMMA VisitTable ==
  ASSUME NEW n \in Nat, NEW vs, DOMAIN vs = 1 .. n, NEW recur, NEW s
  PROVE  \E h : Visited(recur, s, vs, n, h) /\ Visit(recur, s, vs) = h[n]
  <1>1. Visit(recur, s, vs) =
          LET iter[r \in SUBSET (1 .. n)] ==
                IF r = {} THEN s ELSE LET x == Max(r) IN recur[vs[x]][iter[r \ {x}]]
          IN  iter[1 .. n]
    BY DEF Visit, FoldLeft, MapThenFoldSet
  <1> DEFINE it == CHOOSE it : Iterates(recur, s, vs, SUBSET (1 .. n), it)
             h == [i \in 0 .. n |-> it[1 .. i]]
  <1>2. Iterates(recur, s, vs, SUBSET (1 .. n), it)
    BY IteratesExist
  <1>3. Visit(recur, s, vs) = it[1 .. n]
    BY <1>1 DEF Iterates
  <1> HIDE DEF it
  <1>4. it[1 .. 0] = s
    BY <1>2 DEF Iterates
  <1>5. ASSUME NEW i \in 1 .. n PROVE it[1 .. i] = recur[vs[i]][it[1 .. i - 1]]
    <2>1. 1 .. i \in SUBSET (1 .. n) /\ 1 .. i # {}
      OBVIOUS
    <2>2. Max(1 .. i) \in 1 .. i /\ \A y \in 1 .. i : Max(1 .. i) >= y
      BY <2>1, MaxIs
    <2>3. Max(1 .. i) = i
      BY <2>2
    <2>4. (1 .. i) \ {i} = 1 .. i - 1
      OBVIOUS
    <2> QED BY <1>2, <2>1, <2>3, <2>4 DEF Iterates
  <1>6. h[n] = it[1 .. n] /\ Visited(recur, s, vs, n, h)
    BY <1>4, <1>5 DEF Visited
  <1> HIDE DEF h
  <1> QED BY <1>3, <1>6

-----------------------------------------------------------------------------
(* The recursion.                                                          *)

\* The graphs that can be built: what has_cycle looks at.
IsGraph(g) ==
  /\ Len(g) \in Nat /\ DOMAIN g = 1 .. Len(g)
  /\ \A u \in DOMAIN g :
       /\ Len(Producers(g, u)) \in Nat /\ DOMAIN Producers(g, u) = 1 .. Len(Producers(g, u))
       /\ \A i \in 1 .. Len(Producers(g, u)) : Producers(g, u)[i] \in DOMAIN g

\* A search from u, where recur is used for the vertices behind u.
Enter(s, u) == [s EXCEPT !.done = @ \cup {u}, !.in_stack = @ \cup {u}]

Leave(t, u) == IF t.found THEN t ELSE [t EXCEPT !.in_stack = @ \ {u}]

Body(g, recur, u, s) ==
  IF s.found THEN s
  ELSE IF u \in s.in_stack THEN [s EXCEPT !.found = TRUE]
  ELSE IF u \in s.done THEN s
  ELSE Leave(Visit(recur, Enter(s, u), Producers(g, u)), u)

\* recur is has_cycle_recur for the searches E.
Recurs(g, E, recur) == recur = [u \in DOMAIN g |-> [s \in E |-> Body(g, recur, u, s)]]

\* The searches with at most n vertices left.
LeftIn(g, n) == {s \in Searches(g) : Cardinality(DOMAIN g \ s.done) <= n}

\* A graph has finitely many vertices.
LEMMA SetsOfVertices ==
  ASSUME NEW g, IsGraph(g), NEW r \in SUBSET DOMAIN g
  PROVE  IsFiniteSet(r) /\ Cardinality(r) \in Nat
  <1>1. PICK n \in Nat : DOMAIN g = 1 .. n
    BY DEF IsGraph
  <1>2. IsFiniteSet(1 .. n)
    BY FS_Interval
  <1> QED BY <1>1, <1>2, FS_Subset, FS_CardinalityType

\* Entering a vertex leaves one less; more vertices done leave no more.
LEMMA LeftFacts ==
  ASSUME NEW g, IsGraph(g), NEW s \in Searches(g)
  PROVE  /\ Cardinality(DOMAIN g \ s.done) \in Nat
         /\ \A n \in Nat, u \in DOMAIN g : u \notin s.done /\ s \in LeftIn(g, n + 1) =>
              Enter(s, u) \in LeftIn(g, n)
         /\ \A n \in Nat, t \in Searches(g) : s \in LeftIn(g, n) /\ s.done \subseteq t.done => t \in LeftIn(g, n)
  <1>1. \A r \in SUBSET DOMAIN g : IsFiniteSet(r) /\ Cardinality(r) \in Nat
    BY SetsOfVertices
  <1>2. Cardinality(DOMAIN g \ s.done) \in Nat
    BY <1>1
  <1>3. ASSUME NEW n \in Nat, NEW u \in DOMAIN g, u \notin s.done, s \in LeftIn(g, n + 1)
        PROVE  Enter(s, u) \in LeftIn(g, n)
    <2>1. Enter(s, u) \in Searches(g) /\ Enter(s, u).done = s.done \cup {u}
      BY DEF Enter, Searches
    <2>2. DOMAIN g \ (s.done \cup {u}) = (DOMAIN g \ s.done) \ {u}
      OBVIOUS
    <2>3. Cardinality((DOMAIN g \ s.done) \ {u}) = Cardinality(DOMAIN g \ s.done) - 1
      BY <1>1, <1>3, FS_RemoveElement
    <2>4. Cardinality(DOMAIN g \ s.done) <= n + 1
      BY <1>3 DEF LeftIn
    <2> DEFINE c == Cardinality(DOMAIN g \ s.done)
    <2>5. c \in Nat /\ c <= n + 1
      BY <1>2, <2>4
    <2> HIDE DEF c
    <2>6. c - 1 <= n
      BY <2>5
    <2>7. Cardinality(DOMAIN g \ Enter(s, u).done) <= n
      BY <2>1, <2>2, <2>3, <2>6 DEF c
    <2> QED BY <2>1, <2>7 DEF LeftIn
  <1>4. ASSUME NEW n \in Nat, NEW t \in Searches(g), s \in LeftIn(g, n), s.done \subseteq t.done
        PROVE  t \in LeftIn(g, n)
    <2>1. DOMAIN g \ t.done \subseteq DOMAIN g \ s.done
      BY <1>4
    <2>2. Cardinality(DOMAIN g \ t.done) <= Cardinality(DOMAIN g \ s.done)
      BY <1>1, <2>1, FS_Subset
    <2>3. Cardinality(DOMAIN g \ t.done) \in Nat
      BY <1>1
    <2> QED BY <1>2, <1>4, <2>2, <2>3 DEF LeftIn
  <1> QED BY <1>2, <1>3, <1>4

\* recur is a search that forgets nothing.
Grows(g, E, recur) ==
  \A u \in DOMAIN g, s \in E : recur[u][s] \in Searches(g) /\ s.done \subseteq recur[u][s].done

\* The loops stay where recur is defined, and grow as it does.
LEMMA VisitGrows ==
  ASSUME NEW g, IsGraph(g), NEW n \in Nat, NEW recur, Grows(g, LeftIn(g, n), recur),
         NEW s \in LeftIn(g, n), NEW k \in Nat, NEW vs, \A i \in 1 .. k : vs[i] \in DOMAIN g,
         NEW h, Visited(recur, s, vs, k, h)
  PROVE  \A i \in 0 .. k : h[i] \in LeftIn(g, n) /\ s.done \subseteq h[i].done
  <1> DEFINE T == {i \in Nat : i <= k => h[i] \in LeftIn(g, n) /\ s.done \subseteq h[i].done}
  <1>1. 0 \in T
    BY DEF Visited
  <1>2. ASSUME NEW i \in Nat, i \in T PROVE i + 1 \in T
    <2> SUFFICES ASSUME i + 1 <= k
                 PROVE  h[i + 1] \in LeftIn(g, n) /\ s.done \subseteq h[i + 1].done
      OBVIOUS
    <2>1. h[i] \in LeftIn(g, n) /\ s.done \subseteq h[i].done
      BY <1>2
    <2>2. i + 1 \in 1 .. k /\ (i + 1) - 1 = i
      OBVIOUS
    <2>3. h[i + 1] = recur[vs[i + 1]][h[i]] /\ vs[i + 1] \in DOMAIN g
      BY <2>2 DEF Visited
    <2>4. h[i + 1] \in Searches(g) /\ h[i].done \subseteq h[i + 1].done
      BY <2>1, <2>3 DEF Grows
    <2>5. h[i] \in Searches(g)
      BY <2>1 DEF LeftIn
    <2>6. h[i + 1] \in LeftIn(g, n)
      BY <2>1, <2>4, <2>5, LeftFacts
    <2> QED BY <2>1, <2>4, <2>6
  <1>3. Nat \subseteq T
    <2> HIDE DEF T
    <2> QED BY <1>1, <1>2, NatInduct
  <1> QED BY <1>3

\* Functions that agree where the loops lead give the same loops.
LEMMA VisitAgrees ==
  ASSUME NEW g, IsGraph(g), NEW n \in Nat, NEW recur, Grows(g, LeftIn(g, n), recur),
         NEW s \in LeftIn(g, n), NEW u \in DOMAIN g,
         NEW other, \A v \in DOMAIN g, t \in LeftIn(g, n) : other[v][t] = recur[v][t]
  PROVE  Visit(other, s, Producers(g, u)) = Visit(recur, s, Producers(g, u))
  <1> DEFINE vs == Producers(g, u)
  <1>1. PICK k \in Nat : DOMAIN vs = 1 .. k /\ \A i \in 1 .. k : vs[i] \in DOMAIN g
    BY DEF IsGraph
  <1> HIDE DEF vs
  <1>2. PICK h : Visited(recur, s, vs, k, h) /\ Visit(recur, s, vs) = h[k]
    BY <1>1, VisitTable
  <1>3. PICK o : Visited(other, s, vs, k, o) /\ Visit(other, s, vs) = o[k]
    BY <1>1, VisitTable
  <1>4. \A i \in 0 .. k : h[i] \in LeftIn(g, n)
    BY <1>1, <1>2, VisitGrows
  <1> DEFINE T == {i \in Nat : i <= k => o[i] = h[i]}
  <1>5. 0 \in T
    BY <1>2, <1>3 DEF Visited
  <1>6. ASSUME NEW i \in Nat, i \in T PROVE i + 1 \in T
    <2> SUFFICES ASSUME i + 1 <= k PROVE o[i + 1] = h[i + 1]
      OBVIOUS
    <2>1. i + 1 \in 1 .. k /\ (i + 1) - 1 = i /\ i \in 0 .. k /\ o[i] = h[i]
      BY <1>6
    <2>2. h[i + 1] = recur[vs[i + 1]][h[i]] /\ o[i + 1] = other[vs[i + 1]][o[i]]
      BY <1>2, <1>3, <2>1 DEF Visited
    <2> QED BY <1>1, <1>4, <2>1, <2>2
  <1>7. Nat \subseteq T
    <2> HIDE DEF T
    <2> QED BY <1>5, <1>6, NatInduct
  <1> QED BY <1>2, <1>3, <1>7 DEF vs

\* One call of has_cycle_recur forgets nothing if the calls from its loops do not.
LEMMA BodyGrows ==
  ASSUME NEW g, IsGraph(g), NEW n \in Nat, NEW recur, Grows(g, LeftIn(g, n), recur),
         NEW u \in DOMAIN g, NEW s \in LeftIn(g, n + 1)
  PROVE  Body(g, recur, u, s) \in Searches(g) /\ s.done \subseteq Body(g, recur, u, s).done
  <1>1. s \in Searches(g)
    BY DEF LeftIn
  <1>2. CASE s.found \/ u \in s.in_stack \/ u \in s.done
    BY <1>1, <1>2 DEF Body, Searches
  <1>3. CASE ~s.found /\ u \notin s.in_stack /\ u \notin s.done
    <2> DEFINE vs == Producers(g, u)
               t == Visit(recur, Enter(s, u), vs)
    <2>1. PICK k \in Nat : DOMAIN vs = 1 .. k /\ \A i \in 1 .. k : vs[i] \in DOMAIN g
      BY DEF IsGraph
    <2>2. Enter(s, u) \in LeftIn(g, n) /\ s.done \subseteq Enter(s, u).done
      BY <1>1, <1>3, LeftFacts DEF Enter, Searches
    <2> HIDE DEF vs
    <2>3. PICK h : Visited(recur, Enter(s, u), vs, k, h) /\ t = h[k]
      BY <2>1, VisitTable
    <2>4. t \in LeftIn(g, n) /\ Enter(s, u).done \subseteq t.done
      BY <2>1, <2>2, <2>3, VisitGrows
    <2>5. Body(g, recur, u, s) = Leave(t, u)
      BY <1>3 DEF Body, vs
    <2> HIDE DEF t
    <2>6. Leave(t, u) \in Searches(g) /\ Leave(t, u).done = t.done
      BY <2>4 DEF Leave, LeftIn, Searches
    <2> QED BY <2>2, <2>4, <2>5, <2>6
  <1> QED BY <1>2, <1>3

\* With no vertex left, all are done.
LEMMA NoneLeft ==
  ASSUME NEW g, IsGraph(g), NEW s \in LeftIn(g, 0)
  PROVE  DOMAIN g \subseteq s.done
  <1>1. s \in Searches(g) /\ Cardinality(DOMAIN g \ s.done) <= 0
    BY DEF LeftIn
  <1>2. IsFiniteSet(DOMAIN g \ s.done) /\ Cardinality(DOMAIN g \ s.done) \in Nat
    BY <1>1, SetsOfVertices
  <1>3. Cardinality(DOMAIN g \ s.done) = 0
    BY <1>1, <1>2
  <1>4. DOMAIN g \ s.done = {}
    BY <1>2, <1>3, FS_EmptySet
  <1> QED BY <1>4

\* Every search has at most as many vertices left as there are.
LEMMA AllLeft ==
  ASSUME NEW g, IsGraph(g)
  PROVE  \E n \in Nat : LeftIn(g, n) = Searches(g)
  <1>1. IsFiniteSet(DOMAIN g) /\ Cardinality(DOMAIN g) \in Nat
    BY SetsOfVertices
  <1>2. ASSUME NEW s \in Searches(g) PROVE Cardinality(DOMAIN g \ s.done) <= Cardinality(DOMAIN g)
    <2>1. DOMAIN g \ s.done \subseteq DOMAIN g
      OBVIOUS
    <2> QED BY <1>1, <2>1, FS_Subset
  <1> QED BY <1>1, <1>2 DEF LeftIn

\* The recursion ends: every call from its loops has one vertex less to enter.
LEMMA RecursExists ==
  ASSUME NEW g, IsGraph(g)
  PROVE  \E recur : Recurs(g, Searches(g), recur) /\ Grows(g, Searches(g), recur)
  <1> DEFINE Good(n, recur) == Recurs(g, LeftIn(g, n), recur) /\ Grows(g, LeftIn(g, n), recur)
             T == {n \in Nat : \E recur : Good(n, recur)}
  <1>1. 0 \in T
    <2> DEFINE recur == [u \in DOMAIN g |-> [s \in LeftIn(g, 0) |->
                           IF s.found THEN s ELSE IF u \in s.in_stack THEN [s EXCEPT !.found = TRUE] ELSE s]]
    <2>1. ASSUME NEW u \in DOMAIN g, NEW s \in LeftIn(g, 0) PROVE u \in s.done
      BY NoneLeft
    <2>2. Recurs(g, LeftIn(g, 0), recur)
      BY <2>1 DEF Recurs, Body
    <2>3. Grows(g, LeftIn(g, 0), recur)
      BY DEF Grows, LeftIn, Searches
    <2> HIDE DEF recur
    <2> QED BY <2>2, <2>3
  <1>2. ASSUME NEW n \in Nat, n \in T PROVE n + 1 \in T
    <2>1. PICK recur : Good(n, recur)
      BY <1>2
    <2> DEFINE next == [u \in DOMAIN g |-> [s \in LeftIn(g, n + 1) |-> Body(g, recur, u, s)]]
    <2>2. LeftIn(g, n) \subseteq LeftIn(g, n + 1)
      <3> SUFFICES ASSUME NEW s \in LeftIn(g, n) PROVE s \in LeftIn(g, n + 1)
        OBVIOUS
      <3>1. s \in Searches(g) /\ Cardinality(DOMAIN g \ s.done) <= n
        BY DEF LeftIn
      <3>2. Cardinality(DOMAIN g \ s.done) \in Nat
        BY <3>1, LeftFacts
      <3> QED BY <3>1, <3>2 DEF LeftIn
    <2>3. \A u \in DOMAIN g, s \in LeftIn(g, n) : next[u][s] = recur[u][s]
      BY <2>1, <2>2 DEF Recurs
    <2>4. \A u \in DOMAIN g, s \in LeftIn(g, n + 1) : Body(g, next, u, s) = Body(g, recur, u, s)
      <3> SUFFICES ASSUME NEW u \in DOMAIN g, NEW s \in LeftIn(g, n + 1)
                   PROVE  Body(g, next, u, s) = Body(g, recur, u, s)
        OBVIOUS
      <3> HIDE DEF next
      <3>1. CASE u \in s.done \/ s.found \/ u \in s.in_stack
        BY <3>1 DEF Body
      <3>2. CASE u \notin s.done
        <4>1. s \in Searches(g)
          BY DEF LeftIn
        <4>2. Enter(s, u) \in LeftIn(g, n)
          BY <3>2, <4>1, LeftFacts
        <4>3. Visit(next, Enter(s, u), Producers(g, u)) = Visit(recur, Enter(s, u), Producers(g, u))
          BY <2>1, <2>3, <4>2, VisitAgrees
        <4> QED BY <4>3 DEF Body
      <3> QED BY <3>1, <3>2
    <2>5. Recurs(g, LeftIn(g, n + 1), next)
      BY <2>4 DEF Recurs
    <2>6. Grows(g, LeftIn(g, n + 1), next)
      BY <2>1, BodyGrows DEF Grows
    <2> HIDE DEF next
    <2> QED BY <2>5, <2>6
  <1>3. \A n \in Nat : n \in T
    <2> HIDE DEF T
    <2> QED BY <1>1, <1>2, NatInduct
  <1>4. PICK n \in Nat : LeftIn(g, n) = Searches(g)
    BY AllLeft
  <1> QED BY <1>3, <1>4

\* Every function that solves the equations of the recursion grows.
LEMMA RecursGrows ==
  ASSUME NEW g, IsGraph(g), NEW recur, Recurs(g, Searches(g), recur)
  PROVE  Grows(g, Searches(g), recur)
  <1> DEFINE T == {n \in Nat : Grows(g, LeftIn(g, n), recur)}
  <1>0. \A u \in DOMAIN g, s \in Searches(g) : recur[u][s] = Body(g, recur, u, s)
    BY DEF Recurs
  <1>1. 0 \in T
    <2>1. ASSUME NEW u \in DOMAIN g, NEW s \in LeftIn(g, 0)
          PROVE  recur[u][s] \in Searches(g) /\ s.done \subseteq recur[u][s].done
      <3>1. s \in Searches(g) /\ u \in s.done
        BY NoneLeft DEF LeftIn
      <3>2. Body(g, recur, u, s) \in {s, [s EXCEPT !.found = TRUE]}
        BY <3>1 DEF Body
      <3> QED BY <1>0, <3>1, <3>2 DEF Searches
    <2> QED BY <2>1 DEF Grows
  <1>2. ASSUME NEW n \in Nat, n \in T PROVE n + 1 \in T
    <2>1. ASSUME NEW u \in DOMAIN g, NEW s \in LeftIn(g, n + 1)
          PROVE  recur[u][s] \in Searches(g) /\ s.done \subseteq recur[u][s].done
      <3>1. Body(g, recur, u, s) \in Searches(g) /\ s.done \subseteq Body(g, recur, u, s).done
        BY <1>2, BodyGrows
      <3>2. s \in Searches(g)
        BY DEF LeftIn
      <3> QED BY <1>0, <3>1, <3>2
    <2> QED BY <2>1 DEF Grows
  <1>3. Nat \subseteq T
    <2> HIDE DEF T
    <2> QED BY <1>1, <1>2, NatInduct
  <1>4. PICK n \in Nat : LeftIn(g, n) = Searches(g)
    BY AllLeft
  <1> QED BY <1>3, <1>4

\* HasCycleRecur is a solution of its equations, and forgets nothing.
LEMMA HasCycleRecurs ==
  ASSUME NEW g, IsGraph(g)
  PROVE  Recurs(g, Searches(g), HasCycleRecur(g)) /\ Grows(g, Searches(g), HasCycleRecur(g))
  <1>1. HasCycleRecur(g) = CHOOSE recur : Recurs(g, Searches(g), recur)
    BY DEF HasCycleRecur, Recurs, Body, Enter, Leave
  <1>2. Recurs(g, Searches(g), HasCycleRecur(g))
    BY <1>1, RecursExists
  <1> QED BY <1>2, RecursGrows

-----------------------------------------------------------------------------
(* The search is right.                                                    *)

\* u is a source of v, as the loops see it.
Leads(g, v, u) == \E i \in 1 .. Len(Producers(g, v)) : Producers(g, v)[i] = u

Fed(g, S) == \A v \in S : \E u \in S : Leads(g, v, u)

\* The vertices that the search has left.
Black(s) == s.done \ s.in_stack

\* Nothing was found: all that leads to a vertex left was left, without a cycle.
Clean(g, s) ==
  /\ ~s.found /\ s.in_stack \subseteq s.done
  /\ \A v \in Black(s), u \in DOMAIN g : Leads(g, v, u) => u \in Black(s)
  /\ \A S \in SUBSET Black(s) : S # {} => ~Fed(g, S)

\* The vertices entered lead from one to the next, and the last of them to u.
OnPath(g, s, u) ==
  \A w \in s.in_stack : \E x \in s.in_stack \cup {u} : Leads(g, w, x)

HasFed(g) == \E S \in SUBSET DOMAIN g : S # {} /\ Fed(g, S)

\* The search r after s has left the vertices U.
After(g, s, U, r) ==
  IF r.found THEN HasFed(g)
  ELSE Clean(g, r) /\ r.in_stack = s.in_stack /\ s.done \subseteq r.done /\ U \subseteq Black(r)

Sound(g, E, recur) ==
  \A u \in DOMAIN g, s \in E : Clean(g, s) /\ OnPath(g, s, u) => After(g, s, {u}, recur[u][s])

\* A search that has found a cycle looks no further.
Stops(g, E, recur) == \A u \in DOMAIN g, s \in E : s.found => recur[u][s] = s

Firsts(vs, k) == {vs[i] : i \in 1 .. k}

\* The loops are right if the calls they make are.
LEMMA VisitSound ==
  ASSUME NEW g, IsGraph(g), NEW n \in Nat, NEW recur, Grows(g, LeftIn(g, n), recur),
         Sound(g, LeftIn(g, n), recur), Stops(g, LeftIn(g, n), recur),
         NEW s \in LeftIn(g, n), Clean(g, s), NEW k \in Nat, NEW vs,
         \A i \in 1 .. k : vs[i] \in DOMAIN g /\ OnPath(g, s, vs[i]),
         NEW h, Visited(recur, s, vs, k, h)
  PROVE  After(g, s, Firsts(vs, k), h[k])
  <1> DEFINE U(i) == Firsts(vs, i)
             T == {i \in Nat : i <= k => After(g, s, U(i), h[i])}
  <1>1. 0 \in T
    <2>1. U(0) = {} /\ h[0] = s /\ ~s.found
      BY DEF Visited, Clean, Firsts
    <2> QED BY <2>1 DEF After
  <1>2. ASSUME NEW i \in Nat, i \in T PROVE i + 1 \in T
    <2> SUFFICES ASSUME i + 1 <= k PROVE After(g, s, U(i + 1), h[i + 1])
      OBVIOUS
    <2>1. i + 1 \in 1 .. k /\ (i + 1) - 1 = i /\ i \in 0 .. k /\ After(g, s, U(i), h[i])
      BY <1>2
    <2>2. h[i + 1] = recur[vs[i + 1]][h[i]] /\ vs[i + 1] \in DOMAIN g /\ h[i] \in LeftIn(g, n)
      <3>1. h[i] \in LeftIn(g, n)
        BY <2>1, VisitGrows
      <3> QED BY <2>1, <3>1 DEF Visited
    <2>3. CASE h[i].found
      <3>1. h[i + 1] = h[i]
        BY <2>2, <2>3 DEF Stops
      <3> QED BY <2>1, <2>3, <3>1 DEF After
    <2>4. CASE ~h[i].found
      <3>1. Clean(g, h[i]) /\ h[i].in_stack = s.in_stack /\ s.done \subseteq h[i].done /\ U(i) \subseteq Black(h[i])
        BY <2>1, <2>4 DEF After
      <3>2. OnPath(g, h[i], vs[i + 1])
        BY <2>1, <3>1 DEF OnPath
      <3>3. After(g, h[i], {vs[i + 1]}, h[i + 1])
        BY <2>2, <3>1, <3>2 DEF Sound
      <3>4. U(i + 1) = U(i) \cup {vs[i + 1]}
        <4>1. 1 .. i + 1 = 1 .. i \cup {i + 1}
          OBVIOUS
        <4> QED BY <4>1 DEF Firsts
      <3> HIDE DEF U
      <3>5. CASE h[i + 1].found
        BY <3>3, <3>5 DEF After
      <3>6. CASE ~h[i + 1].found
        BY <3>1, <3>3, <3>4, <3>6 DEF After, Black
      <3> QED BY <3>5, <3>6
    <2> QED BY <2>3, <2>4
  <1>3. Nat \subseteq T
    <2> HIDE DEF T
    <2> QED BY <1>1, <1>2, NatInduct
  <1> QED BY <1>3

\* One call of has_cycle_recur is right if the calls from its loops are.
LEMMA BodySound ==
  ASSUME NEW g, IsGraph(g), NEW recur, NEW u \in DOMAIN g, NEW s \in Searches(g),
         Clean(g, s), OnPath(g, s, u), NEW n \in Nat,
         \/ u \in s.done
         \/ /\ Grows(g, LeftIn(g, n), recur) /\ Sound(g, LeftIn(g, n), recur)
            /\ Stops(g, LeftIn(g, n), recur) /\ s \in LeftIn(g, n + 1)
  PROVE  After(g, s, {u}, Body(g, recur, u, s))
  <1>0. ~s.found /\ s.in_stack \subseteq s.done /\ s.done \subseteq DOMAIN g
    BY DEF Clean, Searches
  <1>1. CASE u \in s.in_stack
    <2>1. Fed(g, s.in_stack) /\ s.in_stack # {} /\ s.in_stack \in SUBSET DOMAIN g
      BY <1>0, <1>1 DEF Fed, OnPath
    <2>2. HasFed(g)
      BY <2>1 DEF HasFed
    <2>3. Body(g, recur, u, s).found = TRUE
      BY <1>0, <1>1 DEF Body, Searches
    <2> QED BY <2>2, <2>3 DEF After
  <1>2. CASE u \notin s.in_stack /\ u \in s.done
    <2>1. Body(g, recur, u, s) = s
      BY <1>0, <1>2 DEF Body
    <2> QED BY <1>0, <1>2, <2>1 DEF After, Black
  <1>3. CASE u \notin s.in_stack /\ u \notin s.done
    <2> DEFINE vs == Producers(g, u)
               e == Enter(s, u)
               t == Visit(recur, e, vs)
               r == Leave(t, u)
    <2>1. Body(g, recur, u, s) = r
      BY <1>0, <1>3 DEF Body
    <2>2. e \in LeftIn(g, n)
      BY <1>3, LeftFacts
    <2>3. e \in Searches(g) /\ ~e.found /\ e.done = s.done \cup {u} /\ e.in_stack = s.in_stack \cup {u}
      BY <1>0 DEF Enter, Searches
    <2>4. Black(e) = Black(s)
      BY <1>3, <2>3 DEF Black
    <2>5. Clean(g, e)
      BY <1>0, <2>3, <2>4 DEF Clean
    <2>6. PICK k \in Nat : k = Len(vs) /\ DOMAIN vs = 1 .. k /\ \A i \in 1 .. k : vs[i] \in DOMAIN g
      BY DEF IsGraph
    <2>7. \A x : Leads(g, u, x) <=> \E i \in 1 .. k : vs[i] = x
      BY <2>6 DEF Leads
    <2>8. \A i \in 1 .. k : OnPath(g, e, vs[i])
      <3> SUFFICES ASSUME NEW i \in 1 .. k, NEW w \in e.in_stack
                   PROVE  \E x \in e.in_stack \cup {vs[i]} : Leads(g, w, x)
        BY DEF OnPath
      <3>1. CASE w \in s.in_stack
        BY <2>3, <3>1 DEF OnPath
      <3>2. CASE w = u
        BY <2>7, <3>2
      <3> QED BY <2>3, <3>1, <3>2
    <2> HIDE DEF vs, e
    <2>9. PICK h : Visited(recur, e, vs, k, h) /\ t = h[k]
      BY <2>6, VisitTable
    <2> HIDE DEF t
    <2>10. After(g, e, Firsts(vs, k), t)
      BY <1>3, <2>2, <2>5, <2>6, <2>8, <2>9, VisitSound
    <2>11. CASE t.found
      BY <2>1, <2>10, <2>11 DEF After, Leave
    <2>12. CASE ~t.found
      <3>1. Clean(g, t) /\ t.in_stack = e.in_stack /\ e.done \subseteq t.done /\ \A i \in 1 .. k : vs[i] \in Black(t)
        BY <2>10, <2>12 DEF After, Firsts
      <3>2. t \in Searches(g)
        <4>1. t \in LeftIn(g, n)
          BY <1>3, <2>2, <2>6, <2>9, VisitGrows
        <4> QED BY <4>1 DEF LeftIn
      <3>3. r \in Searches(g) /\ ~r.found /\ r.done = t.done /\ r.in_stack = s.in_stack
        BY <1>3, <2>3, <2>12, <3>1, <3>2 DEF Leave, Searches
      <3>4. Black(r) = Black(t) \cup {u} /\ u \notin Black(t)
        BY <1>3, <2>3, <3>1, <3>3 DEF Black
      <3> HIDE DEF r
      <3>5. \A x : Leads(g, u, x) => x \in Black(t)
        BY <2>7, <3>1
      <3>6. \A v \in Black(r), x \in DOMAIN g : Leads(g, v, x) => x \in Black(t)
        BY <3>1, <3>4, <3>5 DEF Clean
      <3>7. ASSUME NEW S \in SUBSET Black(r), S # {}, Fed(g, S) PROVE FALSE
        <4>1. \A v \in S : \E x \in S \ {u} : Leads(g, v, x)
          <5> SUFFICES ASSUME NEW v \in S PROVE \E x \in S \ {u} : Leads(g, v, x)
            OBVIOUS
          <5>1. PICK x \in S : Leads(g, v, x)
            BY <3>7 DEF Fed
          <5>2. x \in DOMAIN g
            BY <3>3 DEF Black, Searches
          <5> QED BY <3>4, <3>6, <5>1, <5>2
        <4>2. S \ {u} # {} /\ S \ {u} \in SUBSET Black(t) /\ Fed(g, S \ {u})
          BY <3>4, <3>7, <4>1 DEF Fed
        <4> QED BY <3>1, <4>2 DEF Clean
      <3>8. Clean(g, r)
        BY <2>3, <3>1, <3>3, <3>4, <3>6, <3>7 DEF Clean
      <3> QED BY <2>1, <2>3, <3>1, <3>3, <3>4, <3>8 DEF After
    <2> QED BY <2>11, <2>12
  <1> QED BY <1>1, <1>2, <1>3

\* has_cycle_recur is right about every vertex, in every search that found nothing.
LEMMA RecursSound ==
  ASSUME NEW g, IsGraph(g), NEW recur, Recurs(g, Searches(g), recur)
  PROVE  Sound(g, Searches(g), recur)
  <1> DEFINE T == {n \in Nat : Sound(g, LeftIn(g, n), recur)}
  <1>0. \A u \in DOMAIN g, s \in Searches(g) : recur[u][s] = Body(g, recur, u, s)
    BY DEF Recurs
  <1>1. Grows(g, Searches(g), recur) /\ Stops(g, Searches(g), recur)
    BY <1>0, RecursGrows DEF Stops, Body
  <1>2. \A n \in Nat : Grows(g, LeftIn(g, n), recur) /\ Stops(g, LeftIn(g, n), recur)
    BY <1>1 DEF LeftIn, Grows, Stops
  <1>3. 0 \in T
    <2>1. ASSUME NEW u \in DOMAIN g, NEW s \in LeftIn(g, 0), Clean(g, s), OnPath(g, s, u)
          PROVE  After(g, s, {u}, recur[u][s])
      <3>1. s \in Searches(g) /\ u \in s.done
        BY NoneLeft DEF LeftIn
      <3>2. After(g, s, {u}, Body(g, recur, u, s))
        BY <2>1, <3>1, BodySound
      <3> QED BY <1>0, <3>1, <3>2
    <2> QED BY <2>1 DEF Sound
  <1>4. ASSUME NEW n \in Nat, n \in T PROVE n + 1 \in T
    <2>1. ASSUME NEW u \in DOMAIN g, NEW s \in LeftIn(g, n + 1), Clean(g, s), OnPath(g, s, u)
          PROVE  After(g, s, {u}, recur[u][s])
      <3>1. s \in Searches(g)
        BY DEF LeftIn
      <3>2. After(g, s, {u}, Body(g, recur, u, s))
        BY <1>2, <1>4, <2>1, <3>1, BodySound
      <3> QED BY <1>0, <3>1, <3>2
    <2>2. Sound(g, LeftIn(g, n + 1), recur)
      BY <2>1 DEF Sound
    <2> QED BY <2>2
  <1>5. Nat \subseteq T
    <2> HIDE DEF T
    <2> QED BY <1>3, <1>4, NatInduct
  <1>6. PICK n \in Nat : LeftIn(g, n) = Searches(g)
    BY AllLeft
  <1> QED BY <1>5, <1>6

\* has_cycle answers whether some set of vertices is fed from within itself.
LEMMA HasCycleIsExact ==
  ASSUME NEW g, IsGraph(g)
  PROVE  HasCycle(g) <=> HasFed(g)
  <1> DEFINE s == [done |-> {}, in_stack |-> {}, found |-> FALSE]
             vs == [u \in DOMAIN g |-> u]
             recur == HasCycleRecur(g)
  <1>1. Recurs(g, Searches(g), recur)
    BY HasCycleRecurs
  <1>2. Grows(g, Searches(g), recur) /\ Sound(g, Searches(g), recur) /\ Stops(g, Searches(g), recur)
    <2>1. Grows(g, Searches(g), recur) /\ Sound(g, Searches(g), recur)
      BY <1>1, RecursGrows, RecursSound
    <2>2. \A u \in DOMAIN g, z \in Searches(g) : recur[u][z] = Body(g, recur, u, z)
      BY <1>1 DEF Recurs
    <2> HIDE DEF recur
    <2> QED BY <2>1, <2>2 DEF Stops, Body
  <1> HIDE DEF recur
  <1>3. PICK n \in Nat : LeftIn(g, n) = Searches(g)
    BY AllLeft
  <1>4. PICK k \in Nat : DOMAIN g = 1 .. k
    BY DEF IsGraph
  <1>5. s \in Searches(g) /\ Clean(g, s)
    BY DEF Searches, Clean, Black
  <1>6. DOMAIN vs = 1 .. k /\ \A i \in 1 .. k : vs[i] = i /\ vs[i] \in DOMAIN g /\ OnPath(g, s, vs[i])
    BY <1>4 DEF OnPath
  <1>7. HasCycle(g) = Visit(recur, s, vs).found
    BY DEF HasCycle, recur
  <1> HIDE DEF s, vs
  <1>8. PICK h : Visited(recur, s, vs, k, h) /\ Visit(recur, s, vs) = h[k]
    BY <1>6, VisitTable
  <1>9. After(g, s, Firsts(vs, k), h[k])
    BY <1>2, <1>3, <1>5, <1>6, <1>8, VisitSound
  <1>10. h[k] \in Searches(g)
    BY <1>2, <1>3, <1>5, <1>6, <1>8, VisitGrows
  <1>11. CASE h[k].found
    BY <1>7, <1>8, <1>9, <1>11 DEF After
  <1>12. CASE ~h[k].found
    <2>1. Clean(g, h[k]) /\ \A i \in 1 .. k : vs[i] \in Black(h[k])
      BY <1>9, <1>12 DEF After, Firsts
    <2>2. DOMAIN g \subseteq Black(h[k])
      BY <1>4, <1>6, <2>1
    <2>3. ~HasFed(g)
      BY <2>1, <2>2 DEF Clean, HasFed
    <2> QED BY <1>7, <1>8, <1>12, <2>3
  <1> QED BY <1>11, <1>12

-----------------------------------------------------------------------------
(* The sources of a vertex, one port after the other.                      *)

Has(q, x) == \E k \in 1 .. Len(q) : q[k] = x

\* What is in a concatenation is in one of its parts.
LEMMA HasConcat ==
  ASSUME NEW D, NEW a \in Seq(D), NEW b \in Seq(D)
  PROVE  a \o b \in Seq(D) /\ \A x : Has(a \o b, x) <=> Has(a, x) \/ Has(b, x)
  <1> DEFINE c == a \o b
  <1>1. /\ c \in Seq(D) /\ Len(c) = Len(a) + Len(b) /\ Len(a) \in Nat /\ Len(b) \in Nat
        /\ \A i \in 1 .. Len(a) + Len(b) : c[i] = IF i <= Len(a) THEN a[i] ELSE b[i - Len(a)]
    BY ConcatProperties, LenProperties
  <1> HIDE DEF c
  <1>2. ASSUME NEW x, Has(c, x) PROVE Has(a, x) \/ Has(b, x)
    <2>1. PICK k \in 1 .. Len(c) : c[k] = x
      BY <1>2 DEF Has
    <2>2. CASE k <= Len(a)
      <3>1. k \in 1 .. Len(a) /\ c[k] = a[k]
        BY <1>1, <2>1, <2>2
      <3> QED BY <2>1, <3>1 DEF Has
    <2>3. CASE ~(k <= Len(a))
      <3>1. k - Len(a) \in 1 .. Len(b) /\ c[k] = b[k - Len(a)]
        BY <1>1, <2>1, <2>3
      <3> QED BY <2>1, <3>1 DEF Has
    <2> QED BY <2>2, <2>3
  <1>3. ASSUME NEW x, Has(a, x) PROVE Has(c, x)
    <2>1. PICK k \in 1 .. Len(a) : a[k] = x
      BY <1>3 DEF Has
    <2>2. k \in 1 .. Len(c) /\ c[k] = a[k]
      BY <1>1
    <2> QED BY <2>1, <2>2 DEF Has
  <1>4. ASSUME NEW x, Has(b, x) PROVE Has(c, x)
    <2>1. PICK k \in 1 .. Len(b) : b[k] = x
      BY <1>4 DEF Has
    <2>2. k + Len(a) \in 1 .. Len(c) /\ ~(k + Len(a) <= Len(a)) /\ (k + Len(a)) - Len(a) = k
      BY <1>1
    <2>3. c[k + Len(a)] = b[k]
      BY <1>1, <2>2
    <2> QED BY <2>1, <2>2, <2>3 DEF Has
  <1> QED BY <1>1, <1>2, <1>3, <1>4 DEF c

\* f joins the first sequences.
Joins(seqs, n, f) == f = [i \in 1 .. n |-> IF i = 1 THEN seqs[i] ELSE f[i - 1] \o seqs[i]]

\* The function that FlattenSeq defines is well-defined for every length.
LEMMA JoinsExist ==
  ASSUME NEW seqs, NEW n \in Nat
  PROVE  \E f : Joins(seqs, n, f)
  <1> DEFINE T == {m \in Nat : \E f : Joins(seqs, m, f)}
  <1>1. 0 \in T
    <2> DEFINE f == [i \in 1 .. 0 |-> i]
    <2>1. Joins(seqs, 0, f)
      BY DEF Joins
    <2> QED BY <2>1
  <1>2. ASSUME NEW m \in Nat, m \in T PROVE m + 1 \in T
    <2>1. PICK f : Joins(seqs, m, f)
      BY <1>2
    <2> DEFINE new == [i \in 1 .. m + 1 |-> IF i = 1 THEN seqs[i] ELSE f[i - 1] \o seqs[i]]
    <2>2. ASSUME NEW i \in 1 .. m PROVE new[i] = f[i]
      <3>1. i \in 1 .. m + 1
        OBVIOUS
      <3> QED BY <2>1, <3>1 DEF Joins
    <2>3. ASSUME NEW i \in 1 .. m + 1, i # 1 PROVE new[i - 1] = f[i - 1]
      <3>1. i - 1 \in 1 .. m
        BY <2>3
      <3> HIDE DEF new
      <3> QED BY <2>2, <3>1
    <2>4. Joins(seqs, m + 1, new)
      BY <2>3 DEF Joins
    <2> HIDE DEF new
    <2> QED BY <2>4
  <1>3. Nat \subseteq T
    <2> HIDE DEF T
    <2> QED BY <1>1, <1>2, NatInduct
  <1> QED BY <1>3

\* What is in a flattened sequence is in one of the sequences.
LEMMA FlattenHas ==
  ASSUME NEW D, NEW seqs \in Seq(Seq(D))
  PROVE  /\ FlattenSeq(seqs) \in Seq(D)
         /\ \A x : Has(FlattenSeq(seqs), x) <=> \E j \in DOMAIN seqs : Has(seqs[j], x)
  <1>1. PICK n \in Nat : n = Len(seqs) /\ DOMAIN seqs = 1 .. n /\ \A j \in 1 .. n : seqs[j] \in Seq(D)
    BY LenProperties
  <1>2. CASE n = 0
    <2>1. FlattenSeq(seqs) = seqs /\ Len(seqs) = 0
      BY <1>1, <1>2 DEF FlattenSeq
    <2>2. seqs = << >>
      BY <1>1, <1>2
    <2> QED BY <1>1, <1>2, <2>1, <2>2 DEF Has
  <1>3. CASE n # 0
    <2> DEFINE f == CHOOSE f : Joins(seqs, n, f)
    <2>1. Joins(seqs, n, f)
      BY JoinsExist
    <2>2. FlattenSeq(seqs) = f[n]
      BY <1>1, <1>3 DEF FlattenSeq, Joins
    <2> HIDE DEF f
    <2> DEFINE Good(i) == /\ f[i] \in Seq(D)
                          /\ \A x : Has(f[i], x) <=> \E j \in 1 .. i : Has(seqs[j], x)
               T == {m \in Nat : m + 1 <= n => Good(m + 1)}
    <2>3. 0 \in T
      <3>1. 1 \in 1 .. n
        BY <1>3
      <3>2. f[1] = seqs[1] /\ seqs[1] \in Seq(D)
        BY <1>1, <2>1, <3>1 DEF Joins
      <3>3. \A j : j \in 1 .. 1 <=> j = 1
        OBVIOUS
      <3>4. Good(1)
        BY <3>2, <3>3
      <3> HIDE DEF Good
      <3> QED BY <3>4
    <2>4. ASSUME NEW m \in Nat, m \in T PROVE m + 1 \in T
      <3> SUFFICES ASSUME m + 2 <= n PROVE Good(m + 2)
        <4>1. (m + 1) + 1 = m + 2
          OBVIOUS
        <4> HIDE DEF Good
        <4> QED BY <4>1
      <3>1. m + 2 \in 1 .. n /\ m + 2 # 1 /\ (m + 2) - 1 = m + 1 /\ m + 1 <= n
        OBVIOUS
      <3>2. Good(m + 1)
        <4> HIDE DEF Good
        <4> QED BY <2>4, <3>1
      <3>3. f[m + 2] = f[m + 1] \o seqs[m + 2] /\ seqs[m + 2] \in Seq(D)
        BY <1>1, <2>1, <3>1 DEF Joins
      <3>4. f[m + 2] \in Seq(D) /\ \A x : Has(f[m + 2], x) <=> Has(f[m + 1], x) \/ Has(seqs[m + 2], x)
        BY <3>2, <3>3, HasConcat
      <3>5. \A j : j \in 1 .. m + 2 <=> j \in 1 .. m + 1 \/ j = m + 2
        OBVIOUS
      <3> QED BY <3>2, <3>4, <3>5
    <2>5. Nat \subseteq T
      <3> HIDE DEF T
      <3> QED BY <2>3, <2>4, NatInduct
    <2>6. Good(n)
      <3>1. n - 1 \in T /\ (n - 1) + 1 = n /\ n <= n
        <4>1. n - 1 \in Nat /\ (n - 1) + 1 = n /\ n <= n
          BY <1>3
        <4> HIDE DEF T
        <4> QED BY <2>5, <4>1
      <3> HIDE DEF Good
      <3> QED BY <3>1
    <2> QED BY <1>1, <2>2, <2>6
  <1> QED BY <1>2, <1>3

-----------------------------------------------------------------------------
(* The graphs that the calls build.                                        *)

Vertices == [processor : Processors, sources : Seq(Seq(Descriptors))]

\* What add_edge checks of a source d of port i of vertex v.
SourceOK(g, v, i, d) ==
  /\ IsValidOutput(g, d)
  /\ g[v].processor.inputs[i] = "scatter_gather" => g[d[1]].processor.outputs[d[2]]

VertexOK(g, v) ==
  /\ WellDefined(g[v].processor)
  /\ DOMAIN g[v].sources = DOMAIN g[v].processor.inputs
  /\ \A i \in DOMAIN g[v].processor.inputs : \A d :
       Has(g[v].sources[i], d) => d \in Descriptors /\ SourceOK(g, v, i, d)

WellFormed(g) == g \in Seq(Vertices) /\ \A v \in DOMAIN g : VertexOK(g, v)

\* The types of a vertex.
LEMMA VertexFacts ==
  ASSUME NEW g \in Seq(Vertices), NEW v \in DOMAIN g
  PROVE  /\ g[v].processor \in Processors /\ g[v].sources \in Seq(Seq(Descriptors))
         /\ \A i \in DOMAIN g[v].sources : g[v].sources[i] \in Seq(Descriptors)
  <1>1. g[v] \in Vertices
    BY LenProperties
  <1>2. g[v].processor \in Processors /\ g[v].sources \in Seq(Seq(Descriptors))
    BY <1>1 DEF Vertices
  <1> QED BY <1>2, LenProperties

\* The loops of has_cycle_recur go through the sources of all ports.
LEMMA LeadsFeeds ==
  ASSUME NEW g, WellFormed(g)
  PROVE  IsGraph(g) /\ \A v \in DOMAIN g : \A u : Leads(g, v, u) <=> Feeds(g, u, v)
  <1>1. g \in Seq(Vertices) /\ Len(g) \in Nat /\ DOMAIN g = 1 .. Len(g)
    BY LenProperties DEF WellFormed
  <1>2. ASSUME NEW v \in DOMAIN g
        PROVE  /\ Len(Producers(g, v)) \in Nat /\ DOMAIN Producers(g, v) = 1 .. Len(Producers(g, v))
               /\ \A i \in 1 .. Len(Producers(g, v)) : Producers(g, v)[i] \in DOMAIN g
               /\ \A u : Leads(g, v, u) <=> Feeds(g, u, v)
    <2> DEFINE seqs == g[v].sources
               q == FlattenSeq(seqs)
               p == Producers(g, v)
    <2>1. /\ seqs \in Seq(Seq(Descriptors))
          /\ \A i \in DOMAIN seqs : seqs[i] \in Seq(Descriptors)
      BY <1>1, VertexFacts
    <2>2. q \in Seq(Descriptors) /\ \A x : Has(q, x) <=> \E j \in DOMAIN seqs : Has(seqs[j], x)
      BY <2>1, FlattenHas
    <2>3. PICK n \in Nat : n = Len(q) /\ DOMAIN q = 1 .. n /\ \A i \in 1 .. n : q[i] \in Descriptors
      BY <2>2, LenProperties
    <2>4. p = [i \in DOMAIN q |-> q[i][1]]
      BY DEF Producers
    <2>5. VertexOK(g, v)
      BY DEF WellFormed
    <2>6. \A j \in DOMAIN seqs : \A x : Has(seqs[j], x) => x[1] \in DOMAIN g
      BY <2>5 DEF VertexOK, SourceOK, IsValidOutput
    <2>7. \A j \in DOMAIN seqs : \A x : x \in Range(seqs[j]) <=> Has(seqs[j], x)
      <3> SUFFICES ASSUME NEW j \in DOMAIN seqs, NEW x PROVE x \in Range(seqs[j]) <=> Has(seqs[j], x)
        OBVIOUS
      <3>1. DOMAIN seqs[j] = 1 .. Len(seqs[j])
        BY <2>1, LenProperties
      <3> QED BY <3>1 DEF Range, Has
    <2> HIDE DEF seqs, q, p
    <2>8. \A i \in 1 .. n : p[i] = q[i][1] /\ Has(q, q[i])
      BY <2>3, <2>4 DEF Has
    <2>9. \A i \in 1 .. n : p[i] \in DOMAIN g
      BY <2>2, <2>6, <2>8
    <2>10. p \in Seq(DOMAIN g) /\ Len(p) = n /\ DOMAIN p = 1 .. n
      <3>1. p \in [1 .. n -> DOMAIN g]
        BY <2>3, <2>4, <2>9
      <3>2. p \in Seq(DOMAIN g)
        BY <3>1, SeqDef
      <3>3. DOMAIN p = 1 .. n /\ DOMAIN p = 1 .. Len(p) /\ Len(p) \in Nat
        BY <3>1, <3>2, LenProperties
      <3>4. Len(p) = n
        BY <3>3
      <3> QED BY <3>2, <3>3, <3>4
    <2>11. ASSUME NEW u PROVE Leads(g, v, u) <=> Feeds(g, u, v)
      <3>1. Leads(g, v, u) <=> \E i \in 1 .. n : p[i] = u
        BY <2>10 DEF Leads, p
      <3>2. Feeds(g, u, v) <=> \E j \in DOMAIN seqs : \E d : Has(seqs[j], d) /\ d[1] = u
        BY <2>7 DEF Feeds, seqs
      <3>3. ASSUME NEW i \in 1 .. n, p[i] = u
            PROVE  \E j \in DOMAIN seqs : \E d : Has(seqs[j], d) /\ d[1] = u
        BY <2>2, <2>8, <3>3
      <3>4. ASSUME NEW j \in DOMAIN seqs, NEW d, Has(seqs[j], d), d[1] = u
            PROVE  \E i \in 1 .. n : p[i] = u
        <4>1. Has(q, d)
          BY <2>2, <3>4
        <4>2. PICK i \in 1 .. n : q[i] = d
          BY <2>3, <4>1 DEF Has
        <4> QED BY <2>8, <3>4, <4>2
      <3> QED BY <3>1, <3>2, <3>3, <3>4
    <2> QED BY <2>9, <2>10, <2>11 DEF p
  <1> QED BY <1>1, <1>2 DEF IsGraph

\* The search for a cycle answers for every graph that can be built.
LEMMA CycleIsFound ==
  ASSUME NEW g, WellFormed(g)
  PROVE  HasCycle(g) <=> Cyclic(g)
  <1>1. IsGraph(g) /\ \A v \in DOMAIN g : \A u : Leads(g, v, u) <=> Feeds(g, u, v)
    BY LeadsFeeds
  <1>2. HasCycle(g) <=> HasFed(g)
    BY <1>1, HasCycleIsExact
  <1>3. \A S \in SUBSET DOMAIN g : Fed(g, S) <=> \A v \in S : \E u \in S : Feeds(g, u, v)
    BY <1>1 DEF Fed
  <1> QED BY <1>2, <1>3 DEF HasFed, Cyclic

-----------------------------------------------------------------------------
(* The calls.                                                              *)

\* A graph that has the vertices of g, and perhaps more, has its ports.
SamePorts(g, more) ==
  DOMAIN g \subseteq DOMAIN more /\ \A v \in DOMAIN g : more[v].processor = g[v].processor

\* A source that was accepted stays an output port, with its key, as the graph grows.
LEMMA PortsStay ==
  ASSUME NEW g, NEW more, SamePorts(g, more), NEW v \in DOMAIN g, NEW i, NEW d, SourceOK(g, v, i, d)
  PROVE  SourceOK(more, v, i, d)
  BY DEF SourceOK, IsValidOutput, SamePorts

\* The first graphs are empty.
LEMMA InitWellFormed == Init => WellFormed(graph) /\ WellFormed(accepted) /\ ~Cyclic(accepted)
  <1> SUFFICES ASSUME Init PROVE WellFormed(graph) /\ WellFormed(accepted) /\ ~Cyclic(accepted)
    OBVIOUS
  <1>1. graph = << >> /\ accepted = << >> /\ DOMAIN << >> = {}
    BY DEF Init
  <1>2. << >> \in Seq(Vertices)
    BY EmptySeq
  <1> QED BY <1>1, <1>2 DEF WellFormed, Cyclic

\* add_vertex checks the ports of the processor.
LEMMA AddVertexWellFormed ==
  ASSUME WellFormed(graph), NEW p \in Processors, AddVertex(p)
  PROVE  WellFormed(graph')
  <1> DEFINE n == Len(graph)
             new == Append(graph, Vertex(p))
  <1>1. graph' = new /\ WellDefined(p)
    BY DEF AddVertex
  <1>2. graph \in Seq(Vertices) /\ n \in Nat /\ DOMAIN graph = 1 .. n
    BY LenProperties DEF WellFormed
  <1>3. /\ Vertex(p) \in Vertices /\ Vertex(p).processor = p
        /\ DOMAIN Vertex(p).sources = DOMAIN p.inputs
        /\ \A i \in DOMAIN p.inputs : Vertex(p).sources[i] = << >>
    <2>1. p.inputs \in Seq(Movements)
      BY FlowGraphAssumption
    <2>2. PICK k \in Nat : DOMAIN p.inputs = 1 .. k
      BY <2>1, LenProperties
    <2> DEFINE s == [i \in DOMAIN p.inputs |-> << >>]
    <2>3. << >> \in Seq(Descriptors)
      BY EmptySeq
    <2>4. s \in [1 .. k -> Seq(Descriptors)]
      BY <2>2, <2>3
    <2>5. s \in Seq(Seq(Descriptors))
      BY <2>4, SeqDef
    <2>6. \A i \in DOMAIN p.inputs : s[i] = << >>
      OBVIOUS
    <2>7. DOMAIN s = DOMAIN p.inputs
      OBVIOUS
    <2>8. Vertex(p) = [processor |-> p, sources |-> s]
      BY DEF Vertex
    <2> HIDE DEF s
    <2> QED BY <2>5, <2>6, <2>7, <2>8 DEF Vertices
  <1>4. /\ new \in Seq(Vertices) /\ DOMAIN new = 1 .. n + 1
        /\ \A v \in 1 .. n : new[v] = graph[v]
        /\ new[n + 1] = Vertex(p)
    BY <1>2, <1>3, AppendProperties, LenProperties
  <1> HIDE DEF n, new
  <1>5. SamePorts(graph, new)
    BY <1>2, <1>4 DEF SamePorts
  <1>6. ASSUME NEW v \in DOMAIN new PROVE VertexOK(new, v)
    <2>1. CASE v \in 1 .. n
      <3>1. VertexOK(graph, v) /\ v \in DOMAIN graph /\ new[v] = graph[v]
        BY <1>2, <1>4, <2>1 DEF WellFormed
      <3> QED BY <1>5, <3>1, PortsStay DEF VertexOK
    <2>2. CASE v = n + 1
      <3>1. new[v] = Vertex(p)
        BY <1>4, <2>2
      <3>2. \A d : ~Has(<< >>, d)
        BY EmptySeq DEF Has
      <3> QED BY <1>1, <1>3, <3>1, <3>2 DEF VertexOK
    <2>3. v \in 1 .. n \/ v = n + 1
      BY <1>2, <1>4
    <2> QED BY <2>1, <2>2, <2>3
  <1> QED BY <1>1, <1>4, <1>6 DEF WellFormed

\* add_edge checks both ends of the edge.
LEMMA AddEdgeWellFormed ==
  ASSUME WellFormed(graph), NEW producer \in Descriptors, NEW consumer \in Descriptors,
         AddEdge(producer, consumer)
  PROVE  WellFormed(graph')
  <1> DEFINE n == Len(graph)
             c == consumer[1]
             port == consumer[2]
             seqs == graph[c].sources
             more == [seqs EXCEPT ![port] = Append(@, producer)]
             new == [graph EXCEPT ![c] = [@ EXCEPT !.sources = more]]
  <1>1. graph \in Seq(Vertices) /\ n \in Nat /\ DOMAIN graph = 1 .. n
    BY LenProperties DEF WellFormed
  <1>2. c \in DOMAIN graph /\ port \in DOMAIN graph[c].processor.inputs
    BY DEF AddEdge, IsValidInput
  <1>3. graph' = new
    BY DEF AddEdge
  <1>4. VertexOK(graph, c) /\ port \in DOMAIN seqs /\ SourceOK(graph, c, port, producer)
    <2>1. VertexOK(graph, c)
      BY <1>2 DEF WellFormed
    <2>2. SourceOK(graph, c, port, producer)
      BY DEF AddEdge, SourceOK
    <2> QED BY <1>2, <2>1, <2>2 DEF VertexOK
  <1>5. graph[c] \in Vertices /\ seqs \in Seq(Seq(Descriptors)) /\ seqs[port] \in Seq(Descriptors)
    <2>1. graph[c] \in Vertices
      BY <1>1, <1>2, LenProperties
    <2> QED BY <1>1, <1>2, <1>4, <2>1, VertexFacts
  <1>6. /\ Append(seqs[port], producer) \in Seq(Descriptors)
        /\ \A d : Has(Append(seqs[port], producer), d) => Has(seqs[port], d) \/ d = producer
    <2> DEFINE q == seqs[port]
               r == Append(q, producer)
    <2>0. q \in Seq(Descriptors)
      BY <1>5
    <2> HIDE DEF q
    <2>1. /\ r \in Seq(Descriptors) /\ Len(q) \in Nat /\ Len(r) = Len(q) + 1
          /\ \A k \in 1 .. Len(q) : r[k] = q[k]
          /\ r[Len(q) + 1] = producer
      BY <2>0, AppendProperties, LenProperties
    <2> HIDE DEF r
    <2>2. ASSUME NEW d, Has(r, d) PROVE Has(q, d) \/ d = producer
      <3>1. PICK k \in 1 .. Len(r) : r[k] = d
        BY <2>2 DEF Has
      <3>2. CASE k \in 1 .. Len(q)
        BY <2>1, <3>1, <3>2 DEF Has
      <3>3. CASE k = Len(q) + 1
        BY <2>1, <3>1, <3>3
      <3> QED BY <2>1, <3>2, <3>3
    <2> QED BY <2>1, <2>2 DEF q, r
  <1>7. /\ more \in Seq(Seq(Descriptors)) /\ DOMAIN more = DOMAIN seqs
        /\ \A i \in DOMAIN seqs : more[i] = IF i = port THEN Append(seqs[port], producer) ELSE seqs[i]
    <2>1. PICK k \in Nat : DOMAIN seqs = 1 .. k /\ k = Len(seqs) /\ seqs \in [1 .. k -> Seq(Descriptors)]
      BY <1>5, LenProperties
    <2>2. more \in [1 .. k -> Seq(Descriptors)]
      BY <1>4, <1>6, <2>1
    <2>3. more \in Seq(Seq(Descriptors))
      <3> HIDE DEF more
      <3> QED BY <2>2, SeqDef
    <2> QED BY <1>4, <2>1, <2>3
  <1> HIDE DEF more
  <1>8. /\ [graph[c] EXCEPT !.sources = more] \in Vertices
        /\ [graph[c] EXCEPT !.sources = more].sources = more
        /\ [graph[c] EXCEPT !.sources = more].processor = graph[c].processor
    BY <1>5, <1>7 DEF Vertices
  <1> DEFINE x == [graph[c] EXCEPT !.sources = more]
  <1>9. /\ new \in Seq(Vertices) /\ DOMAIN new = DOMAIN graph /\ new[c] = x
        /\ \A v \in DOMAIN graph : v # c => new[v] = graph[v]
    <2>1. graph \in [1 .. n -> Vertices]
      BY <1>1, LenProperties
    <2>2. new = [graph EXCEPT ![c] = x]
      OBVIOUS
    <2>3. x \in Vertices
      BY <1>8
    <2> HIDE DEF x, new
    <2>4. new \in [1 .. n -> Vertices]
      BY <1>1, <1>2, <2>1, <2>2, <2>3
    <2>5. new \in Seq(Vertices)
      BY <1>1, <2>4, SeqDef
    <2> QED BY <1>1, <1>2, <2>1, <2>2, <2>5
  <1>10. x.sources = more /\ x.processor = graph[c].processor
    BY <1>8
  <1> HIDE DEF x, new
  <1>11. SamePorts(graph, new)
    BY <1>2, <1>9, <1>10 DEF SamePorts
  <1>12. ASSUME NEW v \in DOMAIN graph PROVE VertexOK(new, v)
    <2>1. VertexOK(graph, v)
      BY DEF WellFormed
    <2>2. CASE v # c
      <3>1. new[v] = graph[v]
        BY <1>9, <2>2
      <3> QED BY <1>11, <2>1, <3>1, PortsStay DEF VertexOK
    <2>3. CASE v = c
      <3>1. new[v].sources = more /\ new[v].processor = graph[v].processor
        BY <1>9, <1>10, <2>3
      <3>2. WellDefined(new[v].processor) /\ DOMAIN more = DOMAIN graph[v].processor.inputs
        BY <1>7, <2>1, <2>3, <3>1 DEF VertexOK
      <3>3. ASSUME NEW i \in DOMAIN graph[v].processor.inputs, NEW d, Has(more[i], d)
            PROVE  d \in Descriptors /\ SourceOK(graph, v, i, d)
        <4>1. i \in DOMAIN seqs
          BY <1>7, <3>2
        <4>2. CASE Has(seqs[i], d)
          BY <2>1, <2>3, <4>2 DEF VertexOK
        <4>3. CASE i = port /\ d = producer
          BY <1>4, <2>3, <4>3
        <4> QED BY <1>6, <1>7, <3>3, <4>1, <4>2, <4>3
      <3>4. \A i \in DOMAIN graph[v].processor.inputs : \A d :
              Has(more[i], d) => d \in Descriptors /\ SourceOK(new, v, i, d)
        BY <1>11, <3>3, PortsStay
      <3> QED BY <3>1, <3>2, <3>4 DEF VertexOK
    <2> QED BY <2>2, <2>3
  <1> QED BY <1>3, <1>9, <1>12 DEF WellFormed

-----------------------------------------------------------------------------
\* The user's graph and the accepted one are as the checks of add_vertex and
\* add_edge leave them, and the accepted one has no cycle.
GraphsOK == WellFormed(graph) /\ WellFormed(accepted) /\ ~Cyclic(accepted)

\* Every call leaves both graphs well-formed; set_flow_graph refuses a cycle, and
\* no call on the user's graph reaches the accepted copy.
THEOREM GraphInvariant == Spec => []GraphsOK
  <1>1. Init => GraphsOK
    BY InitWellFormed DEF GraphsOK
  <1>2. GraphsOK /\ [Next]_vars => GraphsOK'
    <2> SUFFICES ASSUME GraphsOK, [Next]_vars PROVE GraphsOK'
      OBVIOUS
    <2>1. ASSUME accepted' = accepted PROVE WellFormed(accepted') /\ ~Cyclic(accepted')
      BY <2>1 DEF GraphsOK
    <2>2. ASSUME NEW p \in Processors, AddVertex(p) PROVE GraphsOK'
      BY <2>1, <2>2, AddVertexWellFormed DEF GraphsOK, AddVertex
    <2>3. ASSUME NEW producer \in Descriptors, NEW consumer \in Descriptors, AddEdge(producer, consumer)
          PROVE  GraphsOK'
      BY <2>1, <2>3, AddEdgeWellFormed DEF GraphsOK, AddEdge
    <2>4. CASE SetFlowGraph
      <3>1. graph' = graph /\ accepted' = IF HasCycle(graph) THEN accepted ELSE graph
        BY <2>4 DEF SetFlowGraph
      <3>2. HasCycle(graph) <=> Cyclic(graph)
        BY CycleIsFound DEF GraphsOK
      <3>3. CASE HasCycle(graph)
        BY <3>1, <3>3 DEF GraphsOK
      <3>4. CASE ~HasCycle(graph)
        BY <3>1, <3>2, <3>4 DEF GraphsOK
      <3> QED BY <3>3, <3>4
    <2>5. CASE UNCHANGED vars
      BY <2>5 DEF vars, GraphsOK
    <2> QED BY <2>2, <2>3, <2>4, <2>5 DEF Next
  <1> QED BY <1>1, <1>2, PTL DEF Spec

\* has_cycle is right about every graph that the user can build.
THEOREM CyclesAreFound == Spec => []HasCycleExact
  <1>1. GraphsOK => HasCycleExact
    BY CycleIsFound DEF GraphsOK, HasCycleExact
  <1> QED BY <1>1, GraphInvariant, PTL

\* The LogicalGraphBuilder can rely on what it takes for granted.
THEOREM BuilderCanRely == Spec => []BuilderPreconditions
  <1>1. ASSUME GraphsOK PROVE BuilderPreconditions
    <2>1. ASSUME NEW v \in DOMAIN accepted
          PROVE  LET inputs == accepted[v].processor.inputs IN
                 /\ ~({"one_to_one", "scatter_gather"} \subseteq Range(inputs))
                 /\ \A i \in DOMAIN inputs : \A d \in Range(accepted[v].sources[i]) :
                      /\ IsValidOutput(accepted, d)
                      /\ inputs[i] = "scatter_gather" => accepted[d[1]].processor.outputs[d[2]]
      <3> DEFINE inputs == accepted[v].processor.inputs
      <3>1. VertexOK(accepted, v) /\ accepted \in Seq(Vertices)
        BY <1>1 DEF GraphsOK, WellFormed
      <3>2. ~({"one_to_one", "scatter_gather"} \subseteq Range(inputs))
        BY <3>1 DEF VertexOK, WellDefined, Range
      <3>3. ASSUME NEW i \in DOMAIN inputs, NEW d \in Range(accepted[v].sources[i])
            PROVE  SourceOK(accepted, v, i, d)
        <4> DEFINE q == accepted[v].sources[i]
        <4>1. q \in Seq(Descriptors)
          BY <3>1, VertexFacts DEF VertexOK
        <4>2. DOMAIN q = 1 .. Len(q)
          BY <4>1, LenProperties
        <4>3. Has(q, d)
          BY <4>2 DEF Range, Has
        <4> QED BY <3>1, <4>3 DEF VertexOK
      <3> QED BY <3>2, <3>3 DEF SourceOK
    <2> QED BY <1>1, <2>1 DEF GraphsOK, BuilderPreconditions
  <1> QED BY <1>1, GraphInvariant, PTL
=============================================================================
