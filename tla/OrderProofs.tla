---- MODULE OrderProofs ----
(***************************************************************************)
(* What the helpers of ReportRules compute, for all their arguments: the   *)
(* loop After, the sorts Ordered and SortBy, and FlattenSeq.               *)
(***************************************************************************)
EXTENDS ReportRules, FiniteSetTheorems, FunctionTheorems, SequenceTheorems,
        WellFoundedInduction, TLAPS

\* A non-empty set of numbers has a smallest one.
LEMMA SmallestOf ==
    ASSUME NEW S \in SUBSET Nat, S # {}
    PROVE  \E m \in S : \A n \in S : m <= n
<1>1. PICK m \in S : \A n \in S : <<n, m>> \notin OpToRel(<, Nat)
  BY NatLessThanWellFounded, WFMin
<1>2. \A n \in S : ~(n < m)
  BY <1>1 DEF OpToRel
<1> QED
  BY <1>2

----
(***************************************************************************)
(* Loops                                                                   *)
(***************************************************************************)
\* The first n turns of a loop, as a function; two such functions agree.
Turns(step, x, n, f) ==
    f[0] = x /\ \A k \in 1..n : f[k] = step[f[k - 1]]

\* Two accounts of the same loop agree, turn by turn.
LEMMA TurnsAgree ==
    ASSUME NEW step, NEW x, NEW n \in Nat, NEW f, NEW g,
           Turns(step, x, n, f), Turns(step, x, n, g), NEW k \in 0..n
    PROVE  f[k] = g[k]
<1> DEFINE bad == {i \in 0..n : f[i] # g[i]}
<1> SUFFICES ASSUME bad # {} PROVE FALSE
  OBVIOUS
<1>1. PICK m \in bad : \A i \in bad : m <= i
  <2>1. bad \in SUBSET Nat
    OBVIOUS
  <2> HIDE DEF bad
  <2> QED
    BY <2>1, SmallestOf
<1>2. m # 0
  BY DEF Turns
<1>3. m \in 1..n /\ m - 1 \in 0..n /\ m - 1 \notin bad
  BY <1>1, <1>2
<1> QED
  BY <1>1, <1>3 DEF Turns

\* Every number of turns of a loop that stays in S has an account.
LEMMA TurnsExist ==
    ASSUME NEW S, NEW step, \A s \in S : step[s] \in S, NEW x \in S, NEW n \in Nat
    PROVE  \E f \in [Nat -> S] : Turns(step, x, n, f)
<1> DEFINE bad == {i \in Nat : ~ \E f \in [Nat -> S] : Turns(step, x, i, f)}
<1> SUFFICES ASSUME bad # {} PROVE FALSE
  OBVIOUS
<1>1. PICK m \in bad : \A i \in bad : m <= i
  BY SmallestOf
<1>2. m # 0
  <2>1. [i \in Nat |-> x] \in [Nat -> S] /\ Turns(step, x, 0, [i \in Nat |-> x])
    BY DEF Turns
  <2> QED
    BY <2>1
<1>3. PICK f \in [Nat -> S] : Turns(step, x, m - 1, f)
  <2>1. m - 1 \in Nat /\ m - 1 \notin bad
    BY <1>1, <1>2
  <2> QED
    BY <2>1
<1> DEFINE g == [f EXCEPT ![m] = step[f[m - 1]]]
<1>4. g \in [Nat -> S]
  BY <1>2
<1>5. Turns(step, x, m, g)
  <2>1. g[0] = x
    BY <1>2, <1>3 DEF Turns
  <2>2. ASSUME NEW k \in 1..m PROVE g[k] = step[g[k - 1]]
    <3>1. k - 1 # m /\ g[k - 1] = f[k - 1]
      BY <1>2
    <3>2. CASE k = m
      BY <3>1, <3>2
    <3>3. CASE k # m
      BY <1>3, <3>1, <3>3 DEF Turns
    <3> QED
      BY <3>2, <3>3
  <2> QED
    BY <2>1, <2>2 DEF Turns
<1> QED
  BY <1>1, <1>4, <1>5

\* A loop whose turns stay in a set S starts at x and goes on by turns.
LEMMA AfterTurns ==
    ASSUME NEW S, NEW step, \A s \in S : step[s] \in S, NEW x \in S
    PROVE  /\ After(step, x, 0) = x
           /\ \A n \in Nat : After(step, x, n + 1) = step[After(step, x, n)]
<1> DEFINE F(n) == CHOOSE f \in [Nat -> S] : Turns(step, x, n, f)
           state == [n \in Nat |-> F(n)[n]]
           Body(f) == [k \in Nat |-> IF k = 0 THEN x ELSE step[f[k - 1]]]
<1>1. \A n \in Nat : F(n) \in [Nat -> S] /\ Turns(step, x, n, F(n))
  BY TurnsExist
<1>2. ASSUME NEW n \in Nat PROVE state[n + 1] = step[state[n]]
  <2>1. n + 1 \in Nat /\ 1..n \subseteq 1..(n + 1) /\ n + 1 \in 1..(n + 1) /\ (n + 1) - 1 = n
    OBVIOUS
  <2>2. /\ F(n + 1)[0] = x
        /\ \A k \in 1..(n + 1) : F(n + 1)[k] = step[F(n + 1)[k - 1]]
    <3> HIDE DEF F
    <3> QED
      BY <1>1, <2>1 DEF Turns
  <2>3. Turns(step, x, n, F(n + 1))
    <3> HIDE DEF F
    <3> QED
      BY <2>1, <2>2 DEF Turns
  <2>4. F(n + 1)[n] = F(n)[n]
    <3> HIDE DEF F
    <3> QED
      BY <1>1, <2>3, TurnsAgree
  <2>5. F(n + 1)[n + 1] = step[F(n + 1)[n]]
    <3> HIDE DEF F
    <3> QED
      BY <2>1, <2>2
  <2> QED
    BY <2>4, <2>5
<1>3. state[0] = x
  BY <1>1 DEF Turns
<1>4. state = Body(state)
  <2>1. ASSUME NEW k \in Nat PROVE state[k] = IF k = 0 THEN x ELSE step[state[k - 1]]
    <3>1. CASE k = 0
      BY <1>3, <3>1
    <3>2. CASE k # 0
      <4>1. k - 1 \in Nat /\ (k - 1) + 1 = k
        BY <3>2
      <4> HIDE DEF state
      <4>2. state[(k - 1) + 1] = step[state[k - 1]]
        BY <1>2, <4>1
      <4> QED
        BY <3>2, <4>1, <4>2
    <3> QED
      BY <3>1, <3>2
  <2> QED
    BY <2>1
<1> HIDE DEF state
<1> DEFINE loop == CHOOSE f : f = [k \in Nat |-> IF k = 0 THEN x ELSE step[f[k - 1]]]
<1>5. loop = [k \in Nat |-> IF k = 0 THEN x ELSE step[loop[k - 1]]]
  BY <1>4
<1>6. \A n : After(step, x, n) = loop[n]
  BY DEF After
<1> HIDE DEF loop
<1>7. loop[0] = x
  BY <1>5
<1>8. ASSUME NEW n \in Nat PROVE loop[n + 1] = step[loop[n]]
  <2>1. loop[n + 1] = IF n + 1 = 0 THEN x ELSE step[loop[(n + 1) - 1]]
    BY <1>5
  <2>2. n + 1 # 0 /\ (n + 1) - 1 = n
    OBVIOUS
  <2> QED
    BY <2>1, <2>2
<1> QED
  BY <1>6, <1>7, <1>8

\* What every turn keeps, the loop keeps: an invariant is a set of states.
LEMMA AfterInvariant ==
    ASSUME NEW I, NEW step, \A s \in I : step[s] \in I, NEW x \in I, NEW n \in Nat
    PROVE  After(step, x, n) \in I
<1> DEFINE bad == {i \in Nat : After(step, x, i) \notin I}
<1> SUFFICES ASSUME bad # {} PROVE FALSE
  OBVIOUS
<1>1. PICK m \in bad : \A i \in bad : m <= i
  BY SmallestOf
<1>2. m # 0
  BY AfterTurns
<1>3. m - 1 \in Nat /\ m - 1 \notin bad /\ (m - 1) + 1 = m
  BY <1>1, <1>2
<1>4. After(step, x, (m - 1) + 1) = step[After(step, x, m - 1)]
  BY <1>3, AfterTurns
<1> QED
  BY <1>1, <1>3, <1>4

----
(***************************************************************************)
(* Sorts                                                                   *)
(***************************************************************************)
Less(a, b) == a[1] < b[1] \/ (a[1] = b[1] /\ a[2] < b[2])

\* Keys of two numbers are compared one after the other: a strict total order.
LEMMA LessIsAnOrder ==
    ASSUME NEW a \in Nat \X Nat, NEW b \in Nat \X Nat
    PROVE  /\ ~Less(a, a)
           /\ ~(Less(a, b) /\ Less(b, a))
           /\ a # b => Less(a, b) \/ Less(b, a)
<1>1. PICK a1 \in Nat, a2 \in Nat : a = <<a1, a2>>
  OBVIOUS
<1>2. PICK b1 \in Nat, b2 \in Nat : b = <<b1, b2>>
  OBVIOUS
<1>3. a[1] = a1 /\ a[2] = a2 /\ b[1] = b1 /\ b[2] = b2
  BY <1>1, <1>2
<1>4. a # b => a1 # b1 \/ a2 # b2
  BY <1>1, <1>2
<1> QED
  BY <1>3, <1>4 DEF Less

\* Of two positions, the one that precedes has no greater key.
LEMMA PrecedesIsNotLater ==
    ASSUME NEW key, NEW i, NEW j, key[i] \in Nat \X Nat, key[j] \in Nat \X Nat,
           Precedes(key, i, j)
    PROVE  ~Less(key[j], key[i])
<1>1. Less(key[i], key[j]) \/ key[i] = key[j]
  BY DEF Precedes, Less
<1> QED
  BY <1>1, LessIsAnOrder

\* Precedes is a strict total order on positions.
LEMMA PrecedesIsAnOrder ==
    ASSUME NEW P \in SUBSET Nat, NEW key, \A i \in P : key[i] \in Nat \X Nat
    PROVE  /\ \A i \in P : ~Precedes(key, i, i)
           /\ \A i, j, k \in P : Precedes(key, i, j) /\ Precedes(key, j, k) => Precedes(key, i, k)
           /\ \A i, j \in P : i # j => Precedes(key, i, j) \/ Precedes(key, j, i)
           /\ \A i, j \in P : Precedes(key, i, j) => ~Precedes(key, j, i)
<1>1. \A i \in P : key[i] = <<key[i][1], key[i][2]>> /\ key[i][1] \in Nat /\ key[i][2] \in Nat
  OBVIOUS
<1>2. \A i, j \in P : key[i][1] = key[j][1] /\ key[i][2] = key[j][2] => key[i] = key[j]
  BY <1>1
<1>3. \A i \in P : ~Precedes(key, i, i)
  BY <1>1 DEF Precedes
<1>4. \A i, j, k \in P : Precedes(key, i, j) /\ Precedes(key, j, k) => Precedes(key, i, k)
  BY <1>1 DEF Precedes
<1>5. \A i, j \in P : i # j => Precedes(key, i, j) \/ Precedes(key, j, i)
  <2> TAKE i, j \in P
  <2>1. /\ i \in Nat /\ j \in Nat /\ key[i][1] \in Nat /\ key[i][2] \in Nat
        /\ key[j][1] \in Nat /\ key[j][2] \in Nat
        /\ key[i][1] = key[j][1] /\ key[i][2] = key[j][2] => key[i] = key[j]
    BY <1>1, <1>2
  <2> QED
    BY <2>1 DEF Precedes
<1>6. \A i, j \in P : Precedes(key, i, j) => ~Precedes(key, j, i)
  BY <1>3, <1>4
<1> QED
  BY <1>3, <1>4, <1>5, <1>6

\* Ordered lists every position of the set once, each before those it precedes.
LEMMA OrderedLists ==
    ASSUME NEW P \in SUBSET Nat, IsFiniteSet(P), NEW key, \A i \in P : key[i] \in Nat \X Nat
    PROVE  /\ Ordered(P, key) \in Bijection(1..Cardinality(P), P)
           /\ \A k, l \in 1..Cardinality(P) :
                k < l => Precedes(key, Ordered(P, key)[k], Ordered(P, key)[l])
<1> DEFINE n == Cardinality(P)
           before(i) == {j \in P : Precedes(key, j, i)}
           rank == [i \in P |-> Cardinality(before(i)) + 1]
           o == Ordered(P, key)
<1>1. n \in Nat
  BY FS_CardinalityType
<1>2. ASSUME NEW i \in P
      PROVE  IsFiniteSet(before(i)) /\ Cardinality(before(i)) \in Nat /\ Cardinality(before(i)) < n
  <2>1. IsFiniteSet(before(i)) /\ Cardinality(before(i)) <= n /\ (n = Cardinality(before(i)) => P = before(i))
    BY FS_Subset
  <2>2. i \notin before(i)
    BY PrecedesIsAnOrder
  <2>3. Cardinality(before(i)) \in Nat
    BY <2>1, FS_CardinalityType
  <2> QED
    BY <1>1, <2>1, <2>2, <2>3
<1>3. ASSUME NEW i \in P, NEW j \in P, Precedes(key, i, j)
      PROVE  Cardinality(before(i)) < Cardinality(before(j))
  <2>1. before(i) \in SUBSET before(j)
    BY <1>3, PrecedesIsAnOrder
  <2>2. i \in before(j) /\ i \notin before(i)
    BY <1>3, PrecedesIsAnOrder
  <2>3. Cardinality(before(i)) <= Cardinality(before(j))
        /\ Cardinality(before(j)) # Cardinality(before(i))
    BY <1>2, <2>1, <2>2, FS_Subset
  <2> QED
    BY <1>2, <2>3
<1> DEFINE size == [i \in P |-> Cardinality(before(i))]
<1>4. /\ size \in [P -> 0..(n - 1)]
      /\ \A i, j \in P : Precedes(key, i, j) => size[i] < size[j]
      /\ \A i \in P : rank[i] = size[i] + 1
      /\ \A k \in 1..n : o[k] = CHOOSE i \in P : size[i] = k - 1
  <2>1. \A i \in P : size[i] \in 0..(n - 1)
    BY <1>1, <1>2
  <2>2. \A i, j \in P : Precedes(key, i, j) => size[i] < size[j]
    BY <1>3
  <2>3. ASSUME NEW k \in 1..n PROVE o[k] = CHOOSE i \in P : size[i] = k - 1
    <3>1. o[k] = CHOOSE i \in P : Cardinality(before(i)) = k - 1
      BY DEF Ordered
    <3>2. \A i : i \in P /\ Cardinality(before(i)) = k - 1 <=> i \in P /\ size[i] = k - 1
      OBVIOUS
    <3> QED
      BY <3>1, <3>2
  <2> QED
    BY <2>1, <2>2, <2>3
<1>4a. rank \in [P -> 1..n]
  <2> HIDE DEF size
  <2>1. \A i \in P : size[i] + 1 \in 1..n
    BY <1>1, <1>4
  <2> QED
    BY <1>4, <2>1
<1> HIDE DEF size, before, rank
<1>5. ASSUME NEW i \in P, NEW j \in P, rank[i] = rank[j] PROVE i = j
  <2>1. ~(size[i] < size[j]) /\ ~(size[j] < size[i])
    BY <1>1, <1>4, <1>5
  <2> QED
    BY <1>4, <2>1, PrecedesIsAnOrder
<1>6. \A k \in 1..n : \E i \in P : rank[i] = k
  <2>1. rank \in Injection(P, 1..n)
    BY <1>4a, <1>5, Fun_IsInj
  <2>2. IsFiniteSet(1..n) /\ Cardinality(1..n) = n
    BY <1>1, FS_Interval
  <2>3. rank \in Surjection(P, 1..n)
    BY <2>1, <2>2, FS_Injection
  <2> QED
    BY <2>3 DEF Surjection
<1>7. ASSUME NEW k \in 1..n PROVE o[k] \in P /\ rank[o[k]] = k
  <2>1. PICK i \in P : rank[i] = k
    BY <1>6
  <2>2. size[i] = k - 1
    BY <1>1, <1>4, <2>1
  <2>3. o[k] \in P /\ size[o[k]] = k - 1
    BY <1>4, <2>2
  <2>4. rank[o[k]] = size[o[k]] + 1
    BY <1>4, <2>3
  <2> HIDE DEF o
  <2> QED
    BY <1>1, <2>3, <2>4
<1>8. o \in [1..n -> P]
  BY <1>7 DEF Ordered
<1>9. \A k, l \in 1..n : o[k] = o[l] => k = l
  BY <1>7
<1>10. \A i \in P : o[rank[i]] = i
  BY <1>4a, <1>5, <1>7
<1>11. o \in Bijection(1..n, P)
  <2> HIDE DEF o, n
  <2>1. \A i \in P : rank[i] \in 1..n
    BY <1>4a
  <2> QED
    BY <1>8, <1>9, <1>10, <2>1, Fun_IsBij
<1>12. ASSUME NEW k \in 1..n, NEW l \in 1..n, k < l PROVE Precedes(key, o[k], o[l])
  <2>1. o[k] # o[l]
    BY <1>9, <1>12
  <2>2. ~Precedes(key, o[l], o[k])
    <3> SUFFICES ASSUME Precedes(key, o[l], o[k]) PROVE FALSE
      OBVIOUS
    <3>1. size[o[l]] < size[o[k]]
      BY <1>4, <1>7
    <3>2. l = size[o[l]] + 1 /\ k = size[o[k]] + 1
      BY <1>4, <1>7
    <3>3. size[o[l]] \in Int /\ size[o[k]] \in Int
      BY <1>4, <1>7
    <3> HIDE DEF o
    <3> QED
      BY <1>12, <3>1, <3>2, <3>3
  <2> QED
    BY <1>7, <2>1, <2>2, PrecedesIsAnOrder
<1> QED
  BY <1>11, <1>12

\* A sort moves the elements of a sequence into the order of their keys.
LEMMA SortByMoves ==
    ASSUME NEW S, NEW s \in Seq(S), NEW key, \A i \in DOMAIN s : key[i] \in Nat \X Nat
    PROVE  \E p \in Bijection(DOMAIN s, DOMAIN s) :
             /\ SortBy(s, key) = [k \in DOMAIN s |-> s[p[k]]]
             /\ \A k, l \in DOMAIN s : k < l => Precedes(key, p[k], p[l])
<1> DEFINE n == Len(s)
           rising == \A i \in 1..(n - 1) : Precedes(key, i, i + 1)
<1>1. n \in Nat /\ DOMAIN s = 1..n /\ 1..n \in SUBSET Nat
  OBVIOUS
<1>2. CASE rising
  <2> DEFINE p == [k \in 1..n |-> k]
             bad == {l \in 1..n : \E k \in 1..n : k < l /\ ~Precedes(key, k, l)}
  <2>1. p \in Bijection(1..n, 1..n)
    <3>1. p \in [1..n -> 1..n] /\ (\A a, b \in 1..n : p[a] = p[b] => a = b) /\ (\A t \in 1..n : p[t] = t)
      OBVIOUS
    <3> HIDE DEF p, n
    <3>2. \A t \in 1..n : \E a \in 1..n : p[a] = t
      BY <3>1
    <3> QED
      BY <3>1, <3>2, Fun_IsBij
  <2>2. bad = {}
    <3> SUFFICES ASSUME bad # {} PROVE FALSE
      OBVIOUS
    <3>1. PICK m \in bad : \A i \in bad : m <= i
      <4>1. bad \in SUBSET Nat
        OBVIOUS
      <4> HIDE DEF bad
      <4> QED
        BY <4>1, SmallestOf
    <3>2. PICK k \in 1..n : k < m /\ ~Precedes(key, k, m)
      OBVIOUS
    <3>3. m - 1 \in 1..(n - 1) /\ m - 1 \in 1..n /\ (m - 1) + 1 = m /\ m \in 1..n
      BY <1>1, <3>2
    <3>4. Precedes(key, m - 1, m)
      BY <1>2, <3>3
    <3>5. k < m - 1
      BY <3>2, <3>3, <3>4
    <3>6. Precedes(key, k, m - 1)
      BY <3>1, <3>3, <3>5
    <3>7. \A a, b, c \in 1..n : Precedes(key, a, b) /\ Precedes(key, b, c) => Precedes(key, a, c)
      <4> HIDE DEF n
      <4> QED
        BY <1>1, PrecedesIsAnOrder
    <3> HIDE DEF n, bad
    <3> QED
      BY <3>2, <3>3, <3>4, <3>6, <3>7
  <2>3. s = [k \in 1..n |-> s[p[k]]]
    BY <1>1
  <2>4. SortBy(s, key) = s
    BY <1>2 DEF SortBy
  <2>5. \A k, l \in 1..n : k < l => Precedes(key, p[k], p[l])
    BY <2>2
  <2> HIDE DEF p, n
  <2> QED
    BY <1>1, <2>1, <2>3, <2>4, <2>5
<1>3. CASE ~rising
  <2> DEFINE o == Ordered(1..n, key)
  <2>1. IsFiniteSet(1..n) /\ Cardinality(1..n) = n
    BY <1>1, FS_Interval
  <2>2. /\ o \in Bijection(1..n, 1..n)
        /\ \A k, l \in 1..n : k < l => Precedes(key, o[k], o[l])
    BY <1>1, <2>1, OrderedLists
  <2>3. DOMAIN o = 1..n
    BY <2>1 DEF Ordered
  <2>4. SortBy(s, key) = [k \in DOMAIN o |-> s[o[k]]]
    BY <1>1, <1>3 DEF SortBy, Taken
  <2> QED
    BY <1>1, <2>2, <2>3, <2>4
<1> QED
  BY <1>2, <1>3

\* How often x occurs in s.
Where(s, x) == {i \in DOMAIN s : s[i] = x}
Count(s, x) == Cardinality(Where(s, x))
SameCounts(s, t) == \A x : Count(s, x) = Count(t, x)

\* Moving the elements of a sequence changes no count.
LEMMA CountMoved ==
    ASSUME NEW S, NEW s \in Seq(S), NEW p \in Bijection(DOMAIN s, DOMAIN s), NEW x
    PROVE  Count([k \in DOMAIN s |-> s[p[k]]], x) = Count(s, x)
<1> DEFINE D == DOMAIN s
           A == {k \in D : s[p[k]] = x}
           B == {i \in D : s[i] = x}
           f == [k \in A |-> p[k]]
<1>1. /\ p \in [D -> D] /\ (\A a, b \in D : p[a] = p[b] => a = b)
      /\ (\A t \in D : \E a \in D : p[a] = t)
  BY DEF Bijection, Injection, Surjection, IsInjective
<1>2. f \in [A -> B] /\ (\A a, b \in A : f[a] = f[b] => a = b) /\ (\A t \in B : \E a \in A : f[a] = t)
  BY <1>1
<1>3. f \in Bijection(A, B)
  <2> HIDE DEF f, A, B
  <2> QED
    BY <1>2, Fun_IsBij
<1>4. IsFiniteSet(A)
  <2>1. Len(s) \in Nat /\ D = 1..Len(s)
    OBVIOUS
  <2>2. IsFiniteSet(D)
    BY <2>1, FS_Interval
  <2> QED
    BY <2>2, FS_Subset
<1>5. Cardinality(A) = Cardinality(B)
  <2> HIDE DEF f, A, B
  <2>1. ExistsBijection(A, B)
    BY <1>3, Fun_ExistsBij
  <2> QED
    BY <1>4, <2>1, FS_Bijection
<1>6. {i \in DOMAIN [k \in DOMAIN s |-> s[p[k]]] : [k \in DOMAIN s |-> s[p[k]]][i] = x} = A
  OBVIOUS
<1> QED
  BY <1>5, <1>6 DEF Count, Where

\* Keys are computed from the values: K gives each value its key.
KeyOf(s, K) == [i \in DOMAIN s |-> K[s[i]]]
InKeyOrder(s, K) == \A i, j \in DOMAIN s : i < j => ~Less(K[s[j]], K[s[i]])
OneToOne(K, S) == \A x, y \in S : K[x] = K[y] => x = y

\* A sort keeps the elements and their number, and brings them into key order.
LEMMA SortByFacts ==
    ASSUME NEW S, NEW s \in Seq(S), NEW K \in [S -> Nat \X Nat]
    PROVE  LET t == SortBy(s, KeyOf(s, K))
           IN  /\ t \in Seq(S) /\ Len(t) = Len(s) /\ DOMAIN t = DOMAIN s
               /\ ToSet(t) = ToSet(s)
               /\ InKeyOrder(t, K)
               /\ SameCounts(t, s)
<1> DEFINE key == KeyOf(s, K)
           D == DOMAIN s
<1>1. /\ \A i \in D : key[i] = K[s[i]] /\ key[i] \in Nat \X Nat
      /\ D \in SUBSET Nat
  BY DEF KeyOf
<1>2. PICK p \in Bijection(D, D) :
        /\ SortBy(s, key) = [k \in D |-> s[p[k]]]
        /\ \A k, l \in D : k < l => Precedes(key, p[k], p[l])
  <2> HIDE DEF key
  <2> QED
    BY <1>1, SortByMoves
<1>3. p \in [D -> D] /\ (\A a \in D : \E b \in D : p[b] = a)
  BY DEF Bijection, Injection, Surjection
<1> DEFINE t == [k \in D |-> s[p[k]]]
<1>4. D = 1..Len(s) /\ Len(s) \in Nat /\ \A i \in D : s[i] \in S
  OBVIOUS
<1>5. t \in Seq(S) /\ Len(t) = Len(s) /\ DOMAIN t = D
  <2>1. t \in [1..Len(s) -> S]
    BY <1>3, <1>4
  <2> QED
    BY <1>4, <2>1
<1>6. ToSet(t) = ToSet(s)
  BY <1>3 DEF ToSet
<1>7. InKeyOrder(t, K)
  <2> SUFFICES ASSUME NEW k \in D, NEW l \in D, k < l PROVE ~Less(K[t[l]], K[t[k]])
    BY DEF InKeyOrder
  <2>1. Precedes(key, p[k], p[l]) /\ p[k] \in D /\ p[l] \in D
    BY <1>2, <1>3
  <2>2. /\ key[p[k]] = K[t[k]] /\ key[p[l]] = K[t[l]]
        /\ key[p[k]] \in Nat \X Nat /\ key[p[l]] \in Nat \X Nat
    BY <1>1, <2>1
  <2> HIDE DEF key, t
  <2> QED
    BY <2>1, <2>2, PrecedesIsNotLater
<1>8. SameCounts(t, s)
  BY CountMoved DEF SameCounts
<1> QED
  BY <1>2, <1>5, <1>6, <1>7, <1>8

\* An element is counted as often as it is found, and the others are counted zero times.
LEMMA CountFacts ==
    ASSUME NEW S, NEW s \in Seq(S), NEW x
    PROVE  /\ IsFiniteSet(Where(s, x))
           /\ Count(s, x) \in Nat
           /\ Count(s, x) = 0 <=> x \notin ToSet(s)
<1>1. IsFiniteSet(Where(s, x))
  <2>1. Len(s) \in Nat /\ DOMAIN s = 1..Len(s)
    OBVIOUS
  <2>2. IsFiniteSet(DOMAIN s)
    BY <2>1, FS_Interval
  <2> QED
    BY <2>2, FS_Subset DEF Where
<1>2. Count(s, x) \in Nat /\ (Count(s, x) = 0 <=> Where(s, x) = {})
  BY <1>1, FS_CardinalityType, FS_EmptySet DEF Count
<1> QED
  BY <1>1, <1>2 DEF ToSet, Where

\* Sequences with equal counts hold the same elements.
LEMMA SameCountsFacts ==
    ASSUME NEW S, NEW s \in Seq(S), NEW t \in Seq(S), SameCounts(s, t)
    PROVE  SameCounts(t, s) /\ ToSet(s) = ToSet(t)
<1>1. \A x : x \in ToSet(t) <=> x \in ToSet(s)
  BY CountFacts DEF SameCounts
<1> QED
  BY <1>1 DEF SameCounts

\* Two sequences in key order with the same elements, each as often, do not part ways
\* at position m in favour of s.
AgreeBefore(m, s, t) == \A i \in DOMAIN s : i < m => i \in DOMAIN t /\ s[i] = t[i]

\* Two ordered sequences with equal counts do not part at an element that is
\* smaller in one of them.
LEMMA NoSmallerElement ==
    ASSUME NEW S, NEW s \in Seq(S), NEW t \in Seq(S), NEW K \in [S -> Nat \X Nat],
           InKeyOrder(s, K), InKeyOrder(t, K), SameCounts(s, t),
           NEW m \in DOMAIN s, AgreeBefore(m, s, t),
           m \in DOMAIN t => Less(K[s[m]], K[t[m]])
    PROVE  FALSE
<1> DEFINE x == s[m]
           P == Where(s, x)
           Q == Where(t, x)
<1>1. /\ DOMAIN s = 1..Len(s) /\ DOMAIN t = 1..Len(t) /\ Len(s) \in Nat /\ Len(t) \in Nat
      /\ m \in Nat /\ x \in S
  OBVIOUS
<1>2. ASSUME NEW j \in Q PROVE j \in P /\ j # m
  <2>1. j < m
    <3>0. j \in Nat /\ j \in DOMAIN t
      BY <1>1 DEF Where
    <3> SUFFICES ASSUME m <= j PROVE FALSE
      BY <1>1, <3>0
    <3>1. m \in DOMAIN t
      BY <1>1, <3>0
    <3>2. Less(K[x], K[t[m]]) /\ K[t[j]] = K[x] /\ m # j
      <4>1. Less(K[x], K[t[m]]) /\ K[t[j]] = K[x]
        BY <3>1 DEF Where
      <4>2. K[x] \in Nat \X Nat
        BY <1>1
      <4>3. ~Less(K[x], K[x])
        BY <4>2 DEF Less
      <4> QED
        BY <4>1, <4>3
    <3>3. j \in DOMAIN t /\ m < j
      BY <1>1, <3>2 DEF Where
    <3>4. ~Less(K[t[j]], K[t[m]])
      BY <3>1, <3>3 DEF InKeyOrder
    <3> QED
      BY <3>2, <3>4
  <2>2. j \in DOMAIN t /\ t[j] = x
    BY DEF Where
  <2> HIDE DEF x
  <2>3. j \in DOMAIN s
    BY <1>1, <2>1, <2>2
  <2>4. s[j] = t[j]
    BY <2>1, <2>3 DEF AgreeBefore
  <2> QED
    BY <1>1, <2>1, <2>2, <2>3, <2>4 DEF Where
<1>3. Q \in SUBSET P /\ m \in P /\ m \notin Q
  BY <1>2 DEF Where
<1>4. IsFiniteSet(P) /\ Cardinality(P) = Cardinality(Q) /\ Cardinality(P) \in Nat
  <2>1. Count(s, x) = Count(t, x)
    BY DEF SameCounts
  <2>2. IsFiniteSet(P) /\ Count(s, x) \in Nat
    BY CountFacts
  <2> QED
    BY <2>1, <2>2 DEF Count
<1> QED
  BY <1>3, <1>4, FS_Subset

\* One set of elements, each as often, has one sequence in key order.
LEMMA OneOrder ==
    ASSUME NEW S, NEW s \in Seq(S), NEW t \in Seq(S), NEW K \in [S -> Nat \X Nat],
           InKeyOrder(s, K), InKeyOrder(t, K), SameCounts(s, t),
           OneToOne(K, ToSet(s))
    PROVE  s = t
<1> DEFINE bad == {i \in DOMAIN s \cup DOMAIN t : ~(i \in DOMAIN s /\ i \in DOMAIN t /\ s[i] = t[i])}
<1>1. DOMAIN s = 1..Len(s) /\ DOMAIN t = 1..Len(t) /\ Len(s) \in Nat /\ Len(t) \in Nat
  OBVIOUS
<1>2. SameCounts(t, s) /\ ToSet(s) = ToSet(t)
  BY SameCountsFacts
<1>3. ASSUME bad # {} PROVE FALSE
  <2>1. PICK m \in bad : \A i \in bad : m <= i
    <3>1. bad \in SUBSET Nat
      BY <1>1
    <3> HIDE DEF bad
    <3> QED
      BY <1>3, <3>1, SmallestOf
  <2>2. AgreeBefore(m, s, t) /\ AgreeBefore(m, t, s)
    <3>1. ASSUME NEW i \in DOMAIN s \cup DOMAIN t, i < m
          PROVE  i \in DOMAIN s /\ i \in DOMAIN t /\ s[i] = t[i]
      <4>1. i \in Nat /\ m \in Nat /\ ~(m <= i)
        BY <1>1, <3>1
      <4>2. i \notin bad
        BY <2>1, <4>1
      <4> QED
        BY <4>2
    <3> QED
      BY <3>1 DEF AgreeBefore
  <2>3. CASE m \in DOMAIN s /\ m \in DOMAIN t
    <3>1. s[m] # t[m] /\ s[m] \in ToSet(s) /\ t[m] \in ToSet(s)
      BY <1>2, <2>1, <2>3 DEF ToSet
    <3>2. K[s[m]] # K[t[m]]
      BY <3>1 DEF OneToOne
    <3>3. K[s[m]] \in Nat \X Nat /\ K[t[m]] \in Nat \X Nat
      BY <2>3
    <3>4. Less(K[s[m]], K[t[m]]) \/ Less(K[t[m]], K[s[m]])
      BY <3>2, <3>3, LessIsAnOrder
    <3>5. CASE Less(K[s[m]], K[t[m]])
      BY <2>2, <2>3, <3>5, NoSmallerElement
    <3>6. CASE Less(K[t[m]], K[s[m]])
      BY <1>2, <2>2, <2>3, <3>6, NoSmallerElement
    <3> QED
      BY <3>4, <3>5, <3>6
  <2>4. CASE m \in DOMAIN s /\ m \notin DOMAIN t
    BY <2>2, <2>4, NoSmallerElement
  <2>5. CASE m \notin DOMAIN s
    <3>1. m \in DOMAIN t
      BY <2>1, <2>5
    <3> QED
      BY <1>2, <2>2, <2>5, <3>1, NoSmallerElement
  <2> QED
    BY <2>3, <2>4, <2>5
<1>4. DOMAIN s = DOMAIN t /\ \A i \in DOMAIN s : s[i] = t[i]
  BY <1>3
<1>5. s = [i \in DOMAIN s |-> s[i]] /\ t = [i \in DOMAIN t |-> t[i]]
  OBVIOUS
<1> QED
  BY <1>4, <1>5

\* Sequences with the same elements, each as often, are sorted alike when their keys
\* tell the elements apart (the sorts of canonicalize.go and of Evaluate).
THEOREM SortBySame ==
    ASSUME NEW S, NEW s \in Seq(S), NEW t \in Seq(S), NEW K \in [S -> Nat \X Nat],
           SameCounts(s, t), OneToOne(K, ToSet(s))
    PROVE  SortBy(s, KeyOf(s, K)) = SortBy(t, KeyOf(t, K))
<1> DEFINE a == SortBy(s, KeyOf(s, K))
           b == SortBy(t, KeyOf(t, K))
<1>1. a \in Seq(S) /\ InKeyOrder(a, K) /\ ToSet(a) = ToSet(s) /\ SameCounts(a, s)
  BY SortByFacts
<1>2. b \in Seq(S) /\ InKeyOrder(b, K) /\ SameCounts(b, t)
  BY SortByFacts
<1>3. SameCounts(a, b)
  BY <1>1, <1>2 DEF SameCounts
<1>4. a = b
  <2> HIDE DEF a, b
  <2> QED
    BY <1>1, <1>2, <1>3, OneOrder
<1> QED
  BY <1>4

\* What is in key order stays as it is.
LEMMA SortByIdle ==
    ASSUME NEW S, NEW s \in Seq(S), NEW K \in [S -> Nat \X Nat], InKeyOrder(s, K), OneToOne(K, ToSet(s))
    PROVE  SortBy(s, KeyOf(s, K)) = s
<1> DEFINE a == SortBy(s, KeyOf(s, K))
<1>1. a \in Seq(S) /\ InKeyOrder(a, K) /\ ToSet(a) = ToSet(s) /\ SameCounts(a, s)
  BY SortByFacts
<1>2. a = s
  <2> HIDE DEF a
  <2> QED
    BY <1>1, OneOrder
<1> QED
  BY <1>2

----
(***************************************************************************)
(* Concatenation                                                           *)
(***************************************************************************)
\* Induction: a set of numbers that holds 0 and every successor holds them all.
LEMMA EveryNumber ==
    ASSUME NEW I \in SUBSET Nat, 0 \in I, \A n \in I : n + 1 \in I
    PROVE  \A n \in Nat : n \in I
<1> DEFINE bad == {n \in Nat : n \notin I}
<1> SUFFICES ASSUME bad # {} PROVE FALSE
  OBVIOUS
<1>1. PICK m \in bad : \A i \in bad : m <= i
  <2>1. bad \in SUBSET Nat
    OBVIOUS
  <2> HIDE DEF bad
  <2> QED
    BY <2>1, SmallestOf
<1>2. m # 0 /\ m \in Nat
  OBVIOUS
<1>3. m - 1 \in Nat /\ (m - 1) + 1 = m /\ ~(m <= m - 1)
  BY <1>2
<1>4. m - 1 \in I
  BY <1>1, <1>3
<1>5. m \in I
  BY <1>3, <1>4
<1> QED
  BY <1>5

\* f lists the concatenations of the first sequences.
Joins(seqs, n, f) ==
    f[0] = <<>> /\ \A i \in 1..n : f[i] = f[i - 1] \o seqs[i]

\* Two accounts of joining the parts one after the other agree.
LEMMA JoinsAgree ==
    ASSUME NEW seqs, NEW n \in Nat, NEW f, NEW g, Joins(seqs, n, f), Joins(seqs, n, g),
           NEW k \in 0..n
    PROVE  f[k] = g[k]
<1> DEFINE I == {i \in Nat : i \in 0..n => f[i] = g[i]}
<1>1. 0 \in I
  BY DEF Joins
<1>2. ASSUME NEW i \in I PROVE i + 1 \in I
  <2> SUFFICES ASSUME i + 1 \in 0..n PROVE f[i + 1] = g[i + 1]
    OBVIOUS
  <2>1. i \in 0..n /\ i + 1 \in 1..n /\ (i + 1) - 1 = i /\ f[i] = g[i]
    <3>1. i \in Nat /\ (i \in 0..n => f[i] = g[i])
      OBVIOUS
    <3> HIDE DEF I
    <3> QED
      BY <3>1
  <2> HIDE DEF I
  <2>2. f[i + 1] = f[(i + 1) - 1] \o seqs[i + 1] /\ g[i + 1] = g[(i + 1) - 1] \o seqs[i + 1]
    BY <2>1 DEF Joins
  <2> QED
    BY <2>1, <2>2
<1>3. k \in I
  <2>1. I \in SUBSET Nat
    OBVIOUS
  <2> HIDE DEF I
  <2> QED
    BY <1>1, <1>2, <2>1, EveryNumber
<1> QED
  BY <1>3

\* The parts of a sequence of sequences can be joined up to each of them.
LEMMA JoinsExist ==
    ASSUME NEW S, NEW seqs \in Seq(Seq(S)), NEW n \in Nat, n <= Len(seqs)
    PROVE  \E f \in [Nat -> Seq(S)] : Joins(seqs, n, f)
<1> DEFINE I == {i \in Nat : i <= Len(seqs) => \E f \in [Nat -> Seq(S)] : Joins(seqs, i, f)}
<1>1. 0 \in I
  <2>1. [k \in Nat |-> <<>>] \in [Nat -> Seq(S)] /\ Joins(seqs, 0, [k \in Nat |-> <<>>])
    BY DEF Joins
  <2> QED
    BY <2>1
<1>2. ASSUME NEW i \in I PROVE i + 1 \in I
  <2> SUFFICES ASSUME i + 1 <= Len(seqs)
               PROVE  \E f \in [Nat -> Seq(S)] : Joins(seqs, i + 1, f)
    OBVIOUS
  <2>1. PICK f \in [Nat -> Seq(S)] : Joins(seqs, i, f)
    OBVIOUS
  <2> DEFINE g == [f EXCEPT ![i + 1] = f[i] \o seqs[i + 1]]
  <2>2a. i \in Nat
    OBVIOUS
  <2> HIDE DEF I
  <2>2b. i + 1 \in Nat /\ i + 1 \in DOMAIN seqs
    BY <2>2a
  <2>2. i \in Nat /\ i + 1 \in Nat /\ i + 1 \in DOMAIN seqs /\ seqs[i + 1] \in Seq(S) /\ f[i] \in Seq(S)
    BY <2>2a, <2>2b
  <2>3. f[i] \o seqs[i + 1] \in Seq(S)
    BY <2>2
  <2>4. g \in [Nat -> Seq(S)] /\ g[0] = <<>> /\ g[i + 1] = f[i] \o seqs[i + 1]
    <3>1. f[0] = <<>> /\ 0 # i + 1
      BY <2>1, <2>2a DEF Joins
    <3> QED
      BY <2>2, <2>3, <3>1
  <2>5. ASSUME NEW k \in 1..(i + 1) PROVE g[k] = g[k - 1] \o seqs[k]
    <3>1. k - 1 \in Nat /\ k - 1 # i + 1 /\ k \in Nat
      BY <2>2
    <3>2. g[k - 1] = f[k - 1]
      BY <3>1
    <3>3. CASE k = i + 1
      <4>1. k - 1 = i
        BY <2>2, <3>3
      <4> HIDE DEF g
      <4> QED
        BY <2>4, <3>2, <3>3, <4>1
    <3>4. CASE k # i + 1
      <4>1. k \in 1..i /\ g[k] = f[k]
        BY <2>2, <3>1, <3>4
      <4> HIDE DEF g
      <4> QED
        BY <2>1, <3>2, <4>1 DEF Joins
    <3> QED
      BY <3>3, <3>4
  <2> HIDE DEF g
  <2> QED
    BY <2>4, <2>5 DEF Joins
<1>3. n \in I
  <2>1. I \in SUBSET Nat
    OBVIOUS
  <2> HIDE DEF I
  <2> QED
    BY <1>1, <1>2, <2>1, EveryNumber
<1> QED
  BY <1>3

\* The concatenation of the first n of the sequences.
Part(seqs, n) == FlattenSeq([k \in 1..n |-> seqs[k]])

\* What FlattenSeq gives of the first parts is what joining them gives.
LEMMA FlattenJoins ==
    ASSUME NEW S, NEW seqs \in Seq(Seq(S)), NEW n \in Nat, n <= Len(seqs),
           NEW f \in [Nat -> Seq(S)], Joins(seqs, n, f)
    PROVE  Part(seqs, n) = f[n]
<1> DEFINE q == [k \in 1..n |-> seqs[k]]
<1>1. /\ q \in Seq(Seq(S)) /\ Len(q) = n
      /\ \A i \in 1..n : q[i] = seqs[i] /\ seqs[i] \in Seq(S)
  <2>1. \A i \in 1..n : seqs[i] \in Seq(S)
    OBVIOUS
  <2>2. q \in [1..n -> Seq(S)]
    BY <2>1
  <2> QED
    BY <2>1, <2>2
<1>2. CASE n = 0
  <2>1. q = <<>>
    BY <1>1, <1>2
  <2>2. FlattenSeq(q) = q
    BY <1>1, <1>2 DEF FlattenSeq
  <2> QED
    BY <1>2, <2>1, <2>2 DEF Part, Joins
<1>3. CASE n # 0
  <2> DEFINE flatten == CHOOSE h : h = [i \in 1..Len(q) |-> IF i = 1 THEN q[i] ELSE h[i - 1] \o q[i]]
             g == [i \in 1..n |-> f[i]]
             h0 == [i \in Nat |-> IF i = 0 THEN <<>> ELSE flatten[i]]
  <2>1. FlattenSeq(q) = flatten[n]
    BY <1>1, <1>3 DEF FlattenSeq
  <2>2. ASSUME NEW i \in 1..n PROVE g[i] = IF i = 1 THEN q[i] ELSE g[i - 1] \o q[i]
    <3>1. f[i] = f[i - 1] \o seqs[i] /\ f[0] = <<>> /\ q[i] = seqs[i] /\ seqs[i] \in Seq(S)
      BY <1>1 DEF Joins
    <3>2. CASE i = 1
      <4>0. g[i] = f[i]
        OBVIOUS
      <4>1. i - 1 = 0
        BY <3>2
      <4>2. <<>> \o seqs[i] = seqs[i]
        BY <3>1
      <4> HIDE DEF g, q
      <4> QED
        BY <3>1, <3>2, <4>0, <4>1, <4>2
    <3>3. CASE i # 1
      <4>1. i - 1 \in 1..n /\ g[i - 1] = f[i - 1] /\ g[i] = f[i]
        BY <3>3
      <4> HIDE DEF g, q
      <4> QED
        BY <3>1, <3>3, <4>1
    <3> QED
      BY <3>2, <3>3
  <2>3. g = [i \in 1..Len(q) |-> IF i = 1 THEN q[i] ELSE g[i - 1] \o q[i]]
    <3> HIDE DEF q
    <3> QED
      BY <1>1, <2>2
  <2>4. flatten = [i \in 1..Len(q) |-> IF i = 1 THEN q[i] ELSE flatten[i - 1] \o q[i]]
    <3> HIDE DEF g, q
    <3> QED
      BY <2>3
  <2> HIDE DEF flatten
  <2>5. \A i \in 1..n : flatten[i] = IF i = 1 THEN q[i] ELSE flatten[i - 1] \o q[i]
    <3> HIDE DEF q
    <3> QED
      BY <1>1, <2>4
  <2>6. Joins(seqs, n, h0)
    <3>1. ASSUME NEW i \in 1..n PROVE h0[i] = h0[i - 1] \o seqs[i]
      <4>0. i \in Nat /\ i # 0
        OBVIOUS
      <4>1. h0[i] = flatten[i] /\ q[i] = seqs[i] /\ seqs[i] \in Seq(S)
        <5>1. h0[i] = flatten[i]
          BY <4>0
        <5> QED
          BY <1>1, <5>1
      <4>2. CASE i = 1
        <5>1. h0[i - 1] = <<>> /\ flatten[i] = q[i]
          BY <2>5, <4>2
        <5>2. <<>> \o seqs[i] = seqs[i]
          BY <4>1
        <5> HIDE DEF h0, q
        <5> QED
          BY <4>1, <5>1, <5>2
      <4>3. CASE i # 1
        <5>1. i - 1 \in 1..n /\ h0[i - 1] = flatten[i - 1]
          BY <4>3
        <5>2. flatten[i] = flatten[i - 1] \o q[i]
          BY <2>5, <4>3
        <5> HIDE DEF h0, q
        <5> QED
          BY <4>1, <5>1, <5>2
      <4> QED
        BY <4>2, <4>3
    <3>2. h0[0] = <<>>
      OBVIOUS
    <3> HIDE DEF h0
    <3> QED
      BY <3>1, <3>2 DEF Joins
  <2>7. h0[n] = f[n]
    <3> HIDE DEF h0
    <3> QED
      BY <2>6, JoinsAgree
  <2> QED
    BY <1>3, <2>1, <2>7 DEF Part
<1> QED
  BY <1>2, <1>3

\* The parts of a concatenation: each adds one of the sequences.
LEMMA FlattenParts ==
    ASSUME NEW S, NEW seqs \in Seq(Seq(S))
    PROVE  /\ \A n \in 0..Len(seqs) : Part(seqs, n) \in Seq(S)
           /\ Part(seqs, 0) = <<>>
           /\ \A n \in 1..Len(seqs) : Part(seqs, n) = Part(seqs, n - 1) \o seqs[n]
           /\ Part(seqs, Len(seqs)) = FlattenSeq(seqs)
<1>0. Len(seqs) \in Nat /\ \A n \in 0..Len(seqs) : n \in Nat /\ n <= Len(seqs)
  OBVIOUS
<1>1. PICK f \in [Nat -> Seq(S)] : Joins(seqs, Len(seqs), f)
  <2> DEFINE n == Len(seqs)
  <2>1. n \in Nat /\ n <= Len(seqs)
    BY <1>0
  <2> HIDE DEF n
  <2>2. \E f \in [Nat -> Seq(S)] : Joins(seqs, n, f)
    BY <2>1, JoinsExist
  <2> QED
    BY <2>2 DEF n
<1>2. ASSUME NEW n \in 0..Len(seqs) PROVE Part(seqs, n) = f[n] /\ f[n] \in Seq(S)
  <2>0. n \in Nat /\ n <= Len(seqs) /\ 1..n \subseteq 1..Len(seqs)
    BY <1>0
  <2>1. Joins(seqs, n, f)
    BY <2>0, <1>1 DEF Joins
  <2>2. Part(seqs, n) = f[n]
    BY <2>0, <2>1, FlattenJoins
  <2> QED
    BY <2>0, <2>2
<1>3. Part(seqs, 0) = <<>>
  BY <1>0, <1>1, <1>2 DEF Joins
<1>4. ASSUME NEW n \in 1..Len(seqs) PROVE Part(seqs, n) = Part(seqs, n - 1) \o seqs[n]
  <2>1. n \in 0..Len(seqs) /\ n - 1 \in 0..Len(seqs)
    BY <1>0
  <2> QED
    BY <1>1, <1>2, <2>1 DEF Joins
<1>5. seqs = [k \in 1..Len(seqs) |-> seqs[k]]
  OBVIOUS
<1> QED
  BY <1>2, <1>3, <1>4, <1>5 DEF Part

At(seqs, k, j) == Len(Part(seqs, k - 1)) + j

\* Where the elements of the sequences are in the concatenation of the first n.
LEMMA PartPositions ==
    ASSUME NEW S, NEW seqs \in Seq(Seq(S)), NEW n \in 0..Len(seqs)
    PROVE  /\ \A k \in 1..n : \A j \in DOMAIN seqs[k] :
                At(seqs, k, j) \in DOMAIN Part(seqs, n) /\ Part(seqs, n)[At(seqs, k, j)] = seqs[k][j]
           /\ \A p \in DOMAIN Part(seqs, n) : \E k \in 1..n : \E j \in DOMAIN seqs[k] :
                p = At(seqs, k, j)
           /\ \A k \in 0..n : Len(Part(seqs, k)) <= Len(Part(seqs, n))
<1> DEFINE Holds(i) ==
             /\ \A k \in 1..i : \A j \in DOMAIN seqs[k] :
                  At(seqs, k, j) \in DOMAIN Part(seqs, i) /\ Part(seqs, i)[At(seqs, k, j)] = seqs[k][j]
             /\ \A p \in DOMAIN Part(seqs, i) : \E k \in 1..i : \E j \in DOMAIN seqs[k] :
                  p = At(seqs, k, j)
             /\ \A k \in 0..i : Len(Part(seqs, k)) <= Len(Part(seqs, i))
           I == {i \in Nat : i <= Len(seqs) => Holds(i)}
<1>0. Len(seqs) \in Nat /\ \A k \in 1..Len(seqs) : seqs[k] \in Seq(S)
  OBVIOUS
<1>1. 0 \in I
  <2>0. Part(seqs, 0) = <<>>
    BY FlattenParts
  <2>1. Len(Part(seqs, 0)) = 0 /\ DOMAIN Part(seqs, 0) = {}
    BY <2>0
  <2>2. Holds(0)
    BY <2>1
  <2> QED
    BY <2>2
<1>2. ASSUME NEW i \in Nat, i + 1 <= Len(seqs), Holds(i) PROVE Holds(i + 1)
  <2> DEFINE a == Part(seqs, i)
             b == seqs[i + 1]
             c == Part(seqs, i + 1)
  <2>1. i \in 0..Len(seqs) /\ i + 1 \in 1..Len(seqs) /\ (i + 1) - 1 = i
    BY <1>0, <1>2
  <2>2. a \in Seq(S) /\ b \in Seq(S) /\ c = a \o b
    BY <1>0, <2>1, FlattenParts
  <2>3. Len(a) \in Nat /\ Len(b) \in Nat /\ DOMAIN a = 1..Len(a) /\ DOMAIN b = 1..Len(b)
    BY <2>2
  <2>4. /\ Len(c) = Len(a) + Len(b) /\ DOMAIN c = 1..(Len(a) + Len(b))
        /\ \A p \in 1..Len(a) : c[p] = a[p]
        /\ \A j \in 1..Len(b) : c[Len(a) + j] = b[j]
    <3> HIDE DEF a, b, c
    <3> QED
      BY <2>2, <2>3
  <2>5. \A j : At(seqs, i + 1, j) = Len(a) + j
    BY <2>1 DEF At
  <2>6. ASSUME NEW k \in 1..(i + 1), NEW j \in DOMAIN seqs[k]
        PROVE  At(seqs, k, j) \in DOMAIN c /\ c[At(seqs, k, j)] = seqs[k][j]
    <3>1. CASE k = i + 1
      <4>1. j \in 1..Len(b)
        BY <2>3, <3>1
      <4>2. Len(a) + j \in 1..(Len(a) + Len(b))
        BY <2>3, <4>1
      <4> HIDE DEF a, c
      <4> QED
        BY <2>4, <2>5, <3>1, <4>1, <4>2
    <3>2. CASE k # i + 1
      <4>1. k \in 1..i
        BY <3>2
      <4>2. At(seqs, k, j) \in 1..Len(a) /\ a[At(seqs, k, j)] = seqs[k][j]
        BY <1>2, <2>3, <4>1
      <4>3. At(seqs, k, j) \in 1..(Len(a) + Len(b))
        BY <2>3, <4>2
      <4> HIDE DEF a, c
      <4> QED
        BY <2>4, <4>2, <4>3
    <3> QED
      BY <3>1, <3>2
  <2>7. ASSUME NEW p \in DOMAIN c
        PROVE  \E k \in 1..(i + 1) : \E j \in DOMAIN seqs[k] : p = At(seqs, k, j)
    <3>1. p \in 1..(Len(a) + Len(b))
      BY <2>4
    <3>2. CASE p \in DOMAIN a
      <4>1. PICK k \in 1..i : \E j \in DOMAIN seqs[k] : p = At(seqs, k, j)
        BY <1>2, <3>2
      <4>2. k \in 1..(i + 1)
        BY <1>2
      <4> QED
        BY <4>1, <4>2
    <3>3. CASE p \notin DOMAIN a
      <4>1. p - Len(a) \in 1..Len(b) /\ Len(a) + (p - Len(a)) = p
        BY <2>3, <3>1, <3>3
      <4>2. p - Len(a) \in DOMAIN seqs[i + 1] /\ p = At(seqs, i + 1, p - Len(a)) /\ i + 1 \in 1..(i + 1)
        BY <2>3, <2>5, <4>1
      <4> QED
        BY <4>2
    <3> QED
      BY <3>2, <3>3
  <2>8. ASSUME NEW k \in 0..(i + 1) PROVE Len(Part(seqs, k)) <= Len(c)
    <3>1. CASE k = i + 1
      BY <2>3, <2>4, <3>1
    <3>2. CASE k # i + 1
      <4>1. k \in 0..i /\ k \in 0..Len(seqs)
        BY <2>1, <3>2
      <4>2. Len(Part(seqs, k)) <= Len(a)
        BY <1>2, <4>1
      <4>3. Part(seqs, k) \in Seq(S)
        BY <4>1, FlattenParts
      <4>4. Len(Part(seqs, k)) \in Nat
        BY <4>3
      <4> HIDE DEF a, c
      <4> QED
        BY <2>3, <2>4, <4>2, <4>4
    <3> QED
      BY <3>1, <3>2
  <2> QED
    BY <2>6, <2>7, <2>8
<1>3. ASSUME NEW i \in I PROVE i + 1 \in I
  <2>1. i \in Nat /\ (i <= Len(seqs) => Holds(i))
    OBVIOUS
  <2>2. i + 1 <= Len(seqs) => Holds(i + 1)
    <3> HIDE DEF Holds, I
    <3> QED
      BY <1>0, <1>2, <2>1
  <2> QED
    BY <2>1, <2>2
<1>4. n \in I
  <2>1. I \in SUBSET Nat /\ n \in Nat
    BY <1>0
  <2> HIDE DEF I
  <2> QED
    BY <1>1, <1>3, <2>1, EveryNumber
<1>5. Holds(n)
  <2>1. n <= Len(seqs) /\ (n <= Len(seqs) => Holds(n))
    BY <1>0, <1>4
  <2> QED
    BY <2>1
<1> QED
  BY <1>5

\* Every element of a concatenation has one place in one of the sequences.
LEMMA FlattenPositions ==
    ASSUME NEW S, NEW seqs \in Seq(Seq(S))
    PROVE  /\ FlattenSeq(seqs) \in Seq(S)
           /\ \A k \in DOMAIN seqs : \A j \in DOMAIN seqs[k] :
                At(seqs, k, j) \in DOMAIN FlattenSeq(seqs) /\ FlattenSeq(seqs)[At(seqs, k, j)] = seqs[k][j]
           /\ \A p \in DOMAIN FlattenSeq(seqs) : \E k \in DOMAIN seqs : \E j \in DOMAIN seqs[k] :
                p = At(seqs, k, j)
           /\ \A k, l \in DOMAIN seqs : \A i \in DOMAIN seqs[k], j \in DOMAIN seqs[l] :
                At(seqs, k, i) = At(seqs, l, j) => k = l /\ i = j
<1> DEFINE n == Len(seqs)
<1>0. n \in Nat /\ DOMAIN seqs = 1..n /\ n \in 0..n /\ \A k \in 1..n : seqs[k] \in Seq(S)
  OBVIOUS
<1>1. /\ FlattenSeq(seqs) = Part(seqs, n) /\ FlattenSeq(seqs) \in Seq(S)
      /\ \A k \in 0..n : Part(seqs, k) \in Seq(S)
      /\ \A k \in 1..n : Part(seqs, k) = Part(seqs, k - 1) \o seqs[k]
  BY <1>0, FlattenParts
<1>2. /\ \A k \in 1..n : \A j \in DOMAIN seqs[k] :
           At(seqs, k, j) \in DOMAIN Part(seqs, n) /\ Part(seqs, n)[At(seqs, k, j)] = seqs[k][j]
      /\ \A p \in DOMAIN Part(seqs, n) : \E k \in 1..n : \E j \in DOMAIN seqs[k] :
           p = At(seqs, k, j)
  BY <1>0, PartPositions
<1>3. ASSUME NEW k \in 1..n, NEW l \in 1..n, k < l, NEW i \in DOMAIN seqs[k], NEW j \in DOMAIN seqs[l]
      PROVE  At(seqs, k, i) < At(seqs, l, j)
  <2>1. l - 1 \in 0..n /\ k \in 0..(l - 1) /\ k - 1 \in 0..n /\ k \in 0..n
    BY <1>0, <1>3
  <2>2. Len(Part(seqs, k)) <= Len(Part(seqs, l - 1))
    BY <2>1, PartPositions
  <2>3. /\ Part(seqs, k - 1) \in Seq(S) /\ Part(seqs, l - 1) \in Seq(S) /\ seqs[k] \in Seq(S) /\ seqs[l] \in Seq(S)
        /\ Part(seqs, k) = Part(seqs, k - 1) \o seqs[k]
    BY <1>0, <1>1, <2>1
  <2>4. /\ Len(Part(seqs, k)) = Len(Part(seqs, k - 1)) + Len(seqs[k])
        /\ Len(Part(seqs, k - 1)) \in Nat /\ Len(Part(seqs, l - 1)) \in Nat /\ Len(seqs[k]) \in Nat
        /\ i \in 1..Len(seqs[k]) /\ j \in Nat /\ j >= 1
    <3> DEFINE a == Part(seqs, k - 1)
               b == seqs[k]
               c == Part(seqs, l - 1)
               d == seqs[l]
    <3>1. a \in Seq(S) /\ b \in Seq(S) /\ c \in Seq(S) /\ d \in Seq(S) /\ Part(seqs, k) = a \o b
          /\ i \in DOMAIN b /\ j \in DOMAIN d
      BY <2>3
    <3> HIDE DEF a, b, c, d
    <3>2a. Len(a \o b) = Len(a) + Len(b)
      BY <3>1
    <3>2b. Len(a) \in Nat /\ Len(b) \in Nat /\ Len(c) \in Nat /\ Len(d) \in Nat
          /\ DOMAIN b = 1..Len(b) /\ DOMAIN d = 1..Len(d)
      BY <3>1
    <3>2. Len(a \o b) = Len(a) + Len(b) /\ Len(a) \in Nat /\ Len(b) \in Nat /\ Len(c) \in Nat
          /\ i \in 1..Len(b) /\ j \in Nat /\ j >= 1
      BY <3>1, <3>2a, <3>2b
    <3> QED
      BY <3>1, <3>2 DEF a, b, c
  <2> DEFINE x == Len(Part(seqs, k - 1))
             y == Len(Part(seqs, l - 1))
             z == Len(seqs[k])
  <2>5. x + z <= y /\ x \in Nat /\ y \in Nat /\ z \in Nat /\ i \in 1..z /\ j \in Nat /\ j >= 1
    BY <2>2, <2>4
  <2> HIDE DEF x, y, z, n
  <2>6. x + i < y + j
    BY <2>5
  <2> QED
    BY <2>6 DEF At, x, y
<1>4. ASSUME NEW k \in 1..n, NEW l \in 1..n, NEW i \in DOMAIN seqs[k], NEW j \in DOMAIN seqs[l],
             At(seqs, k, i) = At(seqs, l, j)
      PROVE  k = l /\ i = j
  <2>1. k - 1 \in 0..n /\ l - 1 \in 0..n
    BY <1>0
  <2>2. Len(Part(seqs, k - 1)) \in Nat /\ Len(Part(seqs, l - 1)) \in Nat /\ i \in Nat /\ j \in Nat
    <3>1. Part(seqs, k - 1) \in Seq(S) /\ Part(seqs, l - 1) \in Seq(S) /\ seqs[k] \in Seq(S) /\ seqs[l] \in Seq(S)
      BY <1>0, <1>1, <2>1
    <3> QED
      BY <3>1
  <2> HIDE DEF n
  <2>3. At(seqs, k, i) \in Nat /\ At(seqs, l, j) \in Nat
    <3> DEFINE x == Len(Part(seqs, k - 1))
               y == Len(Part(seqs, l - 1))
    <3>1. x \in Nat /\ y \in Nat /\ i \in Nat /\ j \in Nat
      BY <2>2
    <3> HIDE DEF x, y
    <3>2. x + i \in Nat /\ y + j \in Nat
      BY <3>1
    <3> QED
      BY <3>2 DEF At, x, y
  <2>4. k = l
    <3>1. ~(k < l) /\ ~(l < k)
      BY <1>3, <1>4, <2>3
    <3> QED
      BY <1>0, <3>1
  <2> QED
    BY <1>4, <2>2, <2>4 DEF At
<1> QED
  BY <1>0, <1>1, <1>2, <1>4
====
