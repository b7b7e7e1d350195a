---- MODULE ReportRulesProofs ----
(***************************************************************************)
(* What the operators of ReportRules guarantee: rows with distinct IDs,    *)
(* the visits of NoCycle, the rounds of canonicalBranches, and the sorted  *)
(* rows of a run.                                                          *)
(***************************************************************************)
EXTENDS OrderProofs

----
(***************************************************************************)
(* Rows with IDs                                                           *)
(***************************************************************************)
HasIds(S) == \A x \in S : x.id \in Nat
DistinctIn(s) == \A i, j \in DOMAIN s : s[i].id = s[j].id => i = j

\* A sequence whose elements lie in S is a sequence over S.
LEMMA SeqInto ==
    ASSUME NEW T, NEW S, NEW s \in Seq(T), \A k \in DOMAIN s : s[k] \in S
    PROVE  s \in Seq(S)
<1>1. s \in [1..Len(s) -> S] /\ Len(s) \in Nat
  OBVIOUS
<1> QED
  BY <1>1

\* An element of a sequence over S lies in S.
LEMMA ElementOf ==
    ASSUME NEW S, NEW s \in Seq(S), NEW i \in DOMAIN s
    PROVE  s[i] \in S
OBVIOUS

\* A joined sequence holds the elements of both.
LEMMA ConcatSet ==
    ASSUME NEW S, NEW s \in Seq(S), NEW t \in Seq(S)
    PROVE  ToSet(s \o t) = ToSet(s) \cup ToSet(t)
<1>1. /\ Len(s) \in Nat /\ DOMAIN s = 1..Len(s) /\ Len(t) \in Nat /\ DOMAIN t = 1..Len(t)
      /\ s \o t \in Seq(S) /\ DOMAIN (s \o t) = 1..(Len(s) + Len(t))
      /\ \A i \in 1..(Len(s) + Len(t)) : (s \o t)[i] = IF i <= Len(s) THEN s[i] ELSE t[i - Len(s)]
  OBVIOUS
<1>2. ASSUME NEW i \in DOMAIN (s \o t)
      PROVE  (s \o t)[i] \in ToSet(s) \cup ToSet(t)
  <2>1. i \in 1..(Len(s) + Len(t)) /\ i \in Nat
    BY <1>1
  <2>2. CASE i <= Len(s)
    BY <1>1, <2>1, <2>2 DEF ToSet
  <2>3. CASE ~(i <= Len(s))
    <3>1. i - Len(s) \in DOMAIN t
      BY <1>1, <2>1, <2>3
    <3> QED
      BY <1>1, <2>1, <2>3, <3>1 DEF ToSet
  <2> QED
    BY <2>2, <2>3
<1>3. ASSUME NEW i \in DOMAIN s PROVE s[i] \in ToSet(s \o t)
  <2>1. i \in 1..(Len(s) + Len(t)) /\ i <= Len(s)
    BY <1>1
  <2>2. (s \o t)[i] = s[i] /\ i \in DOMAIN (s \o t)
    BY <1>1, <2>1
  <2> HIDE <1>1
  <2> QED
    BY <2>2 DEF ToSet
<1>4. ASSUME NEW i \in DOMAIN t PROVE t[i] \in ToSet(s \o t)
  <2>1. i + Len(s) \in 1..(Len(s) + Len(t)) /\ ~(i + Len(s) <= Len(s)) /\ (i + Len(s)) - Len(s) = i
    BY <1>1
  <2>2. (s \o t)[i + Len(s)] = t[i] /\ i + Len(s) \in DOMAIN (s \o t)
    BY <1>1, <2>1
  <2> HIDE <1>1
  <2> QED
    BY <2>2 DEF ToSet
<1> QED
  BY <1>2, <1>3, <1>4 DEF ToSet

\* Rows have distinct IDs exactly when no two positions share one.
LEMMA DistinctIds ==
    ASSUME NEW S, NEW s \in Seq(S)
    PROVE  /\ Distinct(s) <=> DistinctIn(s)
           /\ IsFiniteSet(Ids(s)) /\ Cardinality(Ids(s)) <= Len(s)
           /\ Cardinality(Ids(s)) \in Nat /\ Len(s) \in Nat
<1> DEFINE D == DOMAIN s
           f == [i \in D |-> s[i].id]
<1>1. Len(s) \in Nat /\ D = 1..Len(s) /\ IsFiniteSet(D) /\ Cardinality(D) = Len(s)
  <2>1. Len(s) \in Nat /\ D = 1..Len(s)
    OBVIOUS
  <2> QED
    BY <2>1, FS_Interval
<1>2. f \in Surjection(D, Ids(s))
  BY DEF Surjection, Ids
<1>3. /\ IsFiniteSet(Ids(s)) /\ Cardinality(Ids(s)) <= Cardinality(D)
      /\ Cardinality(Ids(s)) = Cardinality(D) <=> f \in Injection(D, Ids(s))
  <2> HIDE DEF f, D
  <2> QED
    BY <1>1, <1>2, FS_Surjection
<1>4. f \in Injection(D, Ids(s)) <=> DistinctIn(s)
  BY <1>2 DEF Injection, Surjection, IsInjective, DistinctIn
<1> QED
  BY <1>1, <1>3, <1>4, FS_CardinalityType DEF Distinct

\* The index of rows finds a row of each ID, and every row when the IDs are distinct.
LEMMA ByIdFacts ==
    ASSUME NEW S, NEW s \in Seq(S)
    PROVE  /\ DOMAIN ById(s) = Ids(s)
           /\ \A id \in Ids(s) : ById(s)[id] \in S /\ ById(s)[id] \in ToSet(s) /\ ById(s)[id].id = id
           /\ \A x \in ToSet(s) : x.id \in Ids(s)
           /\ Distinct(s) => \A x \in ToSet(s) : ById(s)[x.id] = x
<1>1. DOMAIN ById(s) = Ids(s)
  BY DEF ById
<1>2. ASSUME NEW id \in Ids(s)
      PROVE  \E i \in DOMAIN s : s[i].id = id /\ ById(s)[id] = s[i]
  <2>1. \E i \in DOMAIN s : s[i].id = id
    BY DEF Ids
  <2> QED
    BY <2>1 DEF ById
<1>3. \A i \in DOMAIN s : s[i] \in S /\ s[i] \in ToSet(s) /\ s[i].id \in Ids(s)
  BY DEF ToSet, Ids
<1>4. ASSUME Distinct(s), NEW x \in ToSet(s) PROVE ById(s)[x.id] = x
  <2>1. PICK j \in DOMAIN s : x = s[j]
    BY DEF ToSet
  <2>2. PICK i \in DOMAIN s : s[i].id = x.id /\ ById(s)[x.id] = s[i]
    BY <1>2, <1>3, <2>1
  <2>3. i = j
    BY <1>4, <2>1, <2>2, DistinctIds DEF DistinctIn
  <2> QED
    BY <2>1, <2>2, <2>3
<1> QED
  BY <1>1, <1>2, <1>3, <1>4 DEF ToSet

\* Two sequences without repetitions and with the same elements.
LEMMA OnceEach ==
    ASSUME NEW S, NEW s \in Seq(S), NEW t \in Seq(S), ToSet(s) = ToSet(t),
           \A i, j \in DOMAIN s : s[i] = s[j] => i = j,
           \A i, j \in DOMAIN t : t[i] = t[j] => i = j
    PROVE  SameCounts(s, t)
<1> SUFFICES ASSUME NEW x PROVE Count(s, x) = Count(t, x)
  BY DEF SameCounts
<1>1. CASE x \in ToSet(s)
  <2>1. PICK i \in DOMAIN s : x = s[i]
    BY <1>1 DEF ToSet
  <2>2. PICK j \in DOMAIN t : x = t[j]
    BY <1>1 DEF ToSet
  <2>3. Where(s, x) = {i} /\ Where(t, x) = {j}
    BY <2>1, <2>2 DEF Where
  <2> QED
    BY <2>3, FS_Singleton DEF Count
<1>2. CASE x \notin ToSet(s)
  BY <1>2, CountFacts
<1> QED
  BY <1>1, <1>2

\* Rows of distinct IDs in another order have the same counts, IDs and index.
LEMMA SameRows ==
    ASSUME NEW S, NEW s \in Seq(S), NEW t \in Seq(S), Distinct(s), Distinct(t), ToSet(s) = ToSet(t)
    PROVE  SameCounts(s, t) /\ Ids(s) = Ids(t) /\ ById(s) = ById(t) /\ Len(s) = Len(t)
<1>1. DistinctIn(s) /\ DistinctIn(t)
  BY DistinctIds
<1>2. (\A i, j \in DOMAIN s : s[i] = s[j] => i = j) /\ (\A i, j \in DOMAIN t : t[i] = t[j] => i = j)
  BY <1>1 DEF DistinctIn
<1>3. SameCounts(s, t)
  BY <1>2, OnceEach
<1>4. Ids(s) = {x.id : x \in ToSet(s)} /\ Ids(t) = {x.id : x \in ToSet(t)}
  BY DEF Ids, ToSet
<1>5. Ids(s) = Ids(t)
  BY <1>4
<1>6. ASSUME NEW id \in Ids(s) PROVE ById(s)[id] = ById(t)[id]
  <2>1. ById(s)[id] \in ToSet(t) /\ ById(s)[id].id = id
    BY ByIdFacts
  <2> QED
    BY <2>1, ByIdFacts
<1>7. ById(s) = ById(t)
  <2>1. ById(s) = [id \in Ids(s) |-> ById(s)[id]] /\ ById(t) = [id \in Ids(t) |-> ById(t)[id]]
    BY DEF ById
  <2> QED
    BY <1>5, <1>6, <2>1
<1> QED
  BY <1>3, <1>5, <1>7 DEF Distinct

----
(***************************************************************************)
(* Graphs                                                                  *)
(***************************************************************************)
\* A graph whose visits find no cycle is well-founded, in validateCheckDAG and in
\* claimGraphHasCycle: the done nodes always are, and they lead to done nodes only.
THEOREM NoCycleFound ==
    ASSUME NEW next, IsFiniteSet(DOMAIN next), \A n \in DOMAIN next : next[n] \subseteq DOMAIN next,
           NoCycle(next), NEW S \in SUBSET DOMAIN next, S # {}
    PROVE  \E n \in S : next[n] \cap S = {}
<1> DEFINE nodes == DOMAIN next
           State == [open : Seq(nodes), done : SUBSET nodes]
           Good(done) ==
             /\ \A n \in done : next[n] \subseteq done
             /\ \A T \in SUBSET done : T # {} => \E n \in T : next[n] \cap T = {}
           I == {s \in State : Good(s.done)}
           x == [open |-> <<>>, done |-> {}]
           step == Visit(next)
<1>1. step = [s \in State |-> step[s]]
  BY DEF Visit
<1>2. x \in I
  <2>1. x \in State
    OBVIOUS
  <2> QED
    BY <2>1
<1>3. ASSUME NEW s \in State PROVE step[s] \in State /\ (Good(s.done) => Good(step[s].done))
  <2> DEFINE n == Last(s.open)
             left == next[n] \ s.done
             m == CHOOSE m \in left : TRUE
  <2>1. step[s] = IF s.open = <<>>
                  THEN IF s.done = nodes THEN s
                       ELSE [s EXCEPT !.open = <<CHOOSE n1 \in nodes \ s.done : TRUE>>]
                  ELSE IF left = {} THEN [open |-> Front(s.open), done |-> s.done \cup {n}]
                       ELSE IF m \in ToSet(s.open) THEN s
                       ELSE [s EXCEPT !.open = Append(@, m)]
    BY DEF Visit
  <2>2. CASE s.open = <<>>
    <3>1. CASE s.done = nodes
      BY <2>1, <2>2, <3>1
    <3>2. CASE s.done # nodes
      <4> DEFINE c == CHOOSE n1 \in nodes \ s.done : TRUE
      <4>1. c \in nodes
        BY <3>2
      <4>2. step[s] = [s EXCEPT !.open = <<c>>]
        BY <2>1, <2>2, <3>2
      <4> HIDE DEF c
      <4>3. <<c>> \in Seq(nodes)
        BY <4>1
      <4> HIDE DEF step, Good
      <4> QED
        BY <4>2, <4>3
    <3> QED
      BY <3>1, <3>2
  <2>3. CASE s.open # <<>>
    <3>1. s.open \in Seq(nodes) /\ Len(s.open) \in Nat /\ Len(s.open) # 0
      BY <2>3
    <3>2. n \in nodes
      BY <3>1 DEF Last
    <3>3. CASE left = {}
      <4>1. step[s] = [open |-> Front(s.open), done |-> s.done \cup {n}]
        BY <2>1, <2>3, <3>3
      <4>2. Front(s.open) \in Seq(nodes)
        BY <3>1 DEF Front
      <4>3. s.done \cup {n} \in SUBSET nodes
        BY <3>2
      <4>4. next[n] \subseteq s.done
        BY <3>3
      <4>5. ASSUME Good(s.done) PROVE Good(s.done \cup {n})
        <5> DEFINE old == s.done
        <5>0. /\ \A k \in old : next[k] \subseteq old
              /\ \A T \in SUBSET old : T # {} => \E k \in T : next[k] \cap T = {}
          BY <4>5
        <5>0a. next[n] \subseteq old
          BY <4>4
        <5> HIDE DEF old, n, left, m, step
        <5>1. \A k \in old \cup {n} : next[k] \subseteq old \cup {n}
          BY <5>0, <5>0a
        <5>2. ASSUME NEW T \in SUBSET (old \cup {n}), T # {}
              PROVE  \E k \in T : next[k] \cap T = {}
          <6>1. CASE T \subseteq old
            BY <5>0, <5>2, <6>1
          <6>2. CASE n \in T /\ n \notin old /\ T \ {n} # {}
            <7>1. PICK k \in T \ {n} : next[k] \cap (T \ {n}) = {}
              BY <5>0, <6>2
            <7>2. n \notin next[k]
              BY <5>0, <6>2, <7>1
            <7> QED
              BY <7>1, <7>2
          <6>3. CASE n \in T /\ n \notin old /\ T \ {n} = {}
            BY <5>0a, <6>3
          <6> QED
            BY <6>1, <6>2, <6>3
        <5> QED
          BY <5>1, <5>2 DEF old
      <4> HIDE DEF step, Good, n, left, m
      <4> QED
        BY <4>1, <4>2, <4>3, <4>5
    <3>4. CASE left # {}
      <4>1. m \in left
        BY <3>4
      <4>2. m \in nodes
        BY <3>2, <4>1
      <4>3. CASE m \in ToSet(s.open)
        <5>1. step[s] = s
          BY <2>1, <2>3, <3>4, <4>3
        <5> HIDE DEF step, Good
        <5> QED
          BY <5>1
      <4>4. CASE m \notin ToSet(s.open)
        <5>1. step[s] = [s EXCEPT !.open = Append(@, m)]
          BY <2>1, <2>3, <3>4, <4>4
        <5>2. Append(s.open, m) \in Seq(nodes)
          <6> HIDE DEF m
          <6> QED
            BY <3>1, <4>2
        <5> HIDE DEF step, Good, m
        <5> QED
          BY <5>1, <5>2
      <4> QED
        BY <4>3, <4>4
    <3> QED
      BY <3>3, <3>4
  <2> QED
    BY <2>2, <2>3
<1>4. step \in [State -> State] /\ I \in SUBSET State /\ \A s \in I : step[s] \in I
  <2>1. \A s \in State : step[s] \in State
    BY <1>3
  <2>2. step \in [State -> State]
    <3> HIDE DEF step, State
    <3> QED
      BY <1>1, <2>1
  <2>3. \A s \in I : step[s] \in I
    <3> HIDE DEF step, State, Good
    <3> QED
      BY <1>3
  <2> QED
    BY <2>2, <2>3
<1>5. 2 * Cardinality(nodes) \in Nat
  BY FS_CardinalityType
<1>6. After(step, x, 2 * Cardinality(nodes)) \in I
  <2> DEFINE turns == 2 * Cardinality(nodes)
  <2>1. turns \in Nat
    BY <1>5
  <2> HIDE DEF step, State, I, x, turns
  <2>2. After(step, x, turns) \in I
    BY <1>2, <1>4, <2>1, AfterInvariant
  <2> QED
    BY <2>2 DEF turns
<1>7. After(step, x, 2 * Cardinality(nodes)).done = nodes
  BY DEF NoCycle
<1>8. Good(nodes)
  <2> HIDE DEF step, x, Good
  <2> QED
    BY <1>6, <1>7
<1> QED
  BY <1>8

----
(***************************************************************************)
(* Branches                                                                *)
(***************************************************************************)
ById0(S) == [x \in S |-> <<0, x.id>>]    \* the key of a row

\* Rows are sorted by their IDs, which tell rows of distinct IDs apart.
LEMMA IdKeys ==
    ASSUME NEW S, HasIds(S), NEW s \in Seq(S)
    PROVE  /\ ById0(S) \in [S -> Nat \X Nat]
           /\ IdKey(s) = KeyOf(s, ById0(S))
           /\ \A i \in DOMAIN s : IdKey(s)[i] \in Nat \X Nat /\ IdKey(s)[i] = <<0, s[i].id>>
           /\ Distinct(s) => OneToOne(ById0(S), ToSet(s))
<1>1. \A x \in S : <<0, x.id>> \in Nat \X Nat
  BY DEF HasIds
<1>2. ById0(S) \in [S -> Nat \X Nat]
  BY <1>1 DEF ById0
<1>3. \A i \in DOMAIN s : s[i] \in S
  OBVIOUS
<1>4. IdKey(s) = KeyOf(s, ById0(S))
  BY <1>3 DEF IdKey, KeyOf, ById0
<1>5. \A i \in DOMAIN s : IdKey(s)[i] \in Nat \X Nat /\ IdKey(s)[i] = <<0, s[i].id>>
  BY <1>1, <1>3 DEF IdKey
<1>6. ASSUME Distinct(s) PROVE OneToOne(ById0(S), ToSet(s))
  <2> SUFFICES ASSUME NEW i \in DOMAIN s, NEW j \in DOMAIN s, ById0(S)[s[i]] = ById0(S)[s[j]]
               PROVE  s[i] = s[j]
    BY DEF OneToOne, ToSet
  <2>1. s[i].id = s[j].id
    BY <1>3 DEF ById0
  <2> QED
    BY <1>6, <2>1, DistinctIds DEF DistinctIn
<1> QED
  BY <1>2, <1>4, <1>5, <1>6

\* What one round appends: the ready branches, each once, in ID order.
LEMMA RoundAdds ==
    ASSUME NEW S, HasIds(S), NEW in \in Seq(S), Distinct(in), NEW out \in Seq(ToSet(in))
    PROVE  LET new == Taken(in, Ordered(Ready(in, out), IdKey(in)))
           IN  /\ new \in Seq(ToSet(in)) /\ Distinct(new)
               /\ ToSet(new) = {in[i] : i \in Ready(in, out)}
               /\ InKeyOrder(new, ById0(S))
<1> DEFINE P == Ready(in, out)
           key == IdKey(in)
           o == Ordered(P, key)
           n == Cardinality(P)
           new == Taken(in, o)
<1>1. P \in SUBSET DOMAIN in /\ DOMAIN in \in SUBSET Nat /\ IsFiniteSet(P) /\ n \in Nat
  <2>1. Len(in) \in Nat /\ DOMAIN in = 1..Len(in)
    OBVIOUS
  <2>2. P \in SUBSET DOMAIN in
    BY DEF Ready
  <2> HIDE DEF P
  <2>3. IsFiniteSet(DOMAIN in)
    BY <2>1, FS_Interval
  <2>4. IsFiniteSet(P)
    BY <2>2, <2>3, FS_Subset
  <2> QED
    BY <2>1, <2>2, <2>4, FS_CardinalityType
<1>2. \A i \in DOMAIN in : key[i] \in Nat \X Nat /\ key[i] = <<0, in[i].id>>
  BY IdKeys
<1> HIDE DEF P, key
<1>3. o \in Bijection(1..n, P) /\ \A k, l \in 1..n : k < l => Precedes(key, o[k], o[l])
  BY <1>1, <1>2, OrderedLists
<1>4. /\ o \in [1..n -> P] /\ (\A k, l \in 1..n : o[k] = o[l] => k = l)
      /\ (\A i \in P : \E k \in 1..n : o[k] = i)
  BY <1>3 DEF Bijection, Injection, Surjection, IsInjective
<1> HIDE DEF o
<1>5. new = [k \in 1..n |-> in[o[k]]]
  BY <1>4 DEF Taken
<1>6. \A k \in 1..n : o[k] \in DOMAIN in /\ in[o[k]] \in ToSet(in) /\ in[o[k]] \in S
  BY <1>1, <1>4 DEF ToSet
<1>7. new \in Seq(ToSet(in)) /\ DOMAIN new = 1..n /\ \A k \in 1..n : new[k] = in[o[k]]
  <2>1. new \in [1..n -> ToSet(in)]
    BY <1>5, <1>6
  <2> HIDE DEF new, n
  <2> QED
    BY <1>1, <1>5, <2>1
<1> HIDE DEF new, n
<1>8. Distinct(new)
  <2>1. DistinctIn(in)
    BY DistinctIds
  <2>2. DistinctIn(new)
    BY <1>4, <1>6, <1>7, <2>1 DEF DistinctIn
  <2> QED
    BY <1>7, <2>2, DistinctIds
<1>9. ToSet(new) = {in[i] : i \in P}
  <2>1. ToSet(new) = {in[o[k]] : k \in 1..n}
    BY <1>7 DEF ToSet
  <2>2. \A k \in 1..n : o[k] \in P
    BY <1>4
  <2>3. {in[o[k]] : k \in 1..n} = {in[i] : i \in P}
    BY <1>4, <2>2
  <2> QED
    BY <2>1, <2>3
<1>10. InKeyOrder(new, ById0(S))
  <2> SUFFICES ASSUME NEW k \in 1..n, NEW l \in 1..n, k < l
               PROVE  ~Less(ById0(S)[new[l]], ById0(S)[new[k]])
    BY <1>7 DEF InKeyOrder
  <2>1. ~Less(key[o[l]], key[o[k]])
    BY <1>2, <1>3, <1>6, PrecedesIsNotLater
  <2>2. ById0(S)[new[k]] = key[o[k]] /\ ById0(S)[new[l]] = key[o[l]]
    BY <1>2, <1>6, <1>7 DEF ById0
  <2> QED
    BY <2>1, <2>2
<1> QED
  BY <1>7, <1>8, <1>9, <1>10 DEF new, o, key, P

\* The rounds depend on the branches, not on their order.
LEMMA RoundSame ==
    ASSUME NEW S, HasIds(S), NEW s \in Seq(S), NEW t \in Seq(S), Distinct(s), Distinct(t),
           ToSet(s) = ToSet(t)
    PROVE  Round(s) = Round(t)
<1>1. ASSUME NEW out \in Seq(ToSet(s))
      PROVE  Taken(s, Ordered(Ready(s, out), IdKey(s))) = Taken(t, Ordered(Ready(t, out), IdKey(t)))
  <2> DEFINE a == Taken(s, Ordered(Ready(s, out), IdKey(s)))
             b == Taken(t, Ordered(Ready(t, out), IdKey(t)))
             T == ToSet(s)
  <2>1. /\ a \in Seq(T) /\ Distinct(a) /\ ToSet(a) = {s[i] : i \in Ready(s, out)}
        /\ InKeyOrder(a, ById0(S))
    BY RoundAdds
  <2>2. /\ b \in Seq(T) /\ Distinct(b) /\ ToSet(b) = {t[i] : i \in Ready(t, out)}
        /\ InKeyOrder(b, ById0(S))
    BY RoundAdds
  <2>3. T \subseteq S
    BY DEF ToSet
  <2>4. a \in Seq(S) /\ b \in Seq(S)
    <3> HIDE DEF a, b, T
    <3>1. \A k \in DOMAIN a : a[k] \in S
      BY <2>1, <2>3
    <3>2. \A k \in DOMAIN b : b[k] \in S
      BY <2>2, <2>3
    <3> QED
      BY <2>1, <2>2, <3>1, <3>2, SeqInto
  <2>5. ToSet(a) = ToSet(b)
    <3>1. {s[i] : i \in Ready(s, out)}
            = {x \in ToSet(s) : x.id \notin Ids(out) /\ x.parent \in Ids(out) \cup {0}}
      BY DEF Ready, ToSet
    <3>2. {t[i] : i \in Ready(t, out)}
            = {x \in ToSet(t) : x.id \notin Ids(out) /\ x.parent \in Ids(out) \cup {0}}
      BY DEF Ready, ToSet
    <3> HIDE DEF a, b
    <3> QED
      BY <2>1, <2>2, <3>1, <3>2
  <2>6. SameCounts(a, b)
    <3> HIDE DEF a, b
    <3> QED
      BY <2>1, <2>2, <2>4, <2>5, SameRows
  <2>7. ById0(S) \in [S -> Nat \X Nat] /\ OneToOne(ById0(S), ToSet(a))
    <3> HIDE DEF a, b
    <3> QED
      BY <2>1, <2>4, IdKeys
  <2>8. a = b
    <3> HIDE DEF a, b
    <3> QED
      BY <2>1, <2>2, <2>4, <2>6, <2>7, OneOrder
  <2> QED
    BY <2>8
<1> QED
  BY <1>1 DEF Round

\* The branch forest is put in the same order from any order of its rows.
LEMMA CanonicalBranchesSame ==
    ASSUME NEW S, HasIds(S), NEW s \in Seq(S), NEW t \in Seq(S), Distinct(s), Distinct(t),
           ToSet(s) = ToSet(t)
    PROVE  /\ CanonicalBranches(s).ok = CanonicalBranches(t).ok
           /\ CanonicalBranches(s).ok => CanonicalBranches(s) = CanonicalBranches(t)
<1>1. Round(s) = Round(t) /\ Len(s) = Len(t)
  BY RoundSame, SameRows
<1> DEFINE out == After(Round(s), <<>>, Len(s))
<1>2. out = After(Round(t), <<>>, Len(t))
  BY <1>1
<1>3. CanonicalBranches(s) = IF Len(out) >= Len(s) THEN [ok |-> TRUE, branches |-> out]
                                                  ELSE [ok |-> FALSE, branches |-> s]
  BY DEF CanonicalBranches
<1>4. CanonicalBranches(t) = IF Len(out) >= Len(s) THEN [ok |-> TRUE, branches |-> out]
                                                  ELSE [ok |-> FALSE, branches |-> t]
  BY <1>1, <1>2 DEF CanonicalBranches
<1> HIDE DEF out
<1> QED
  BY <1>3, <1>4

\* Parents come first.
ParentsFirst(out) ==
    \A i \in DOMAIN out : out[i].parent = 0 \/ \E j \in DOMAIN out : j < i /\ out[j].id = out[i].parent

\* When the branches have roots, all of them are placed, each after its parent.
LEMMA CanonicalBranchesPlaced ==
    ASSUME NEW S, HasIds(S), NEW in \in Seq(S), Distinct(in), CanonicalBranches(in).ok
    PROVE  LET out == CanonicalBranches(in).branches
           IN  out \in Seq(S) /\ Distinct(out) /\ ToSet(out) = ToSet(in) /\ ParentsFirst(out)
<1> DEFINE T == ToSet(in)
           I == {out \in Seq(T) : Distinct(out) /\ ParentsFirst(out)}
           step == Round(in)
           new(out) == Taken(in, Ordered(Ready(in, out), IdKey(in)))
<1>1. <<>> \in I
  <2>1. <<>> \in Seq(T) /\ DOMAIN <<>> = {}
    OBVIOUS
  <2>2. DistinctIn(<<>>) /\ ParentsFirst(<<>>)
    BY <2>1 DEF DistinctIn, ParentsFirst
  <2> QED
    BY <2>1, <2>2, DistinctIds
<1>2. ASSUME NEW out \in Seq(T)
      PROVE  step[out] \in Seq(T) /\ (out \in I => step[out] \in I)
  <2> DEFINE b == new(out)
             c == out \o b
  <2>1. b \in Seq(T) /\ Distinct(b) /\ ToSet(b) = {in[i] : i \in Ready(in, out)}
    BY RoundAdds
  <2>2. step[out] = c
    BY DEF Round
  <2>3. \A k \in DOMAIN b : b[k].id \notin Ids(out) /\ b[k].parent \in Ids(out) \cup {0}
    BY <2>1 DEF ToSet, Ready
  <2> HIDE DEF new, b
  <2>4. /\ c \in Seq(T) /\ Len(out) \in Nat /\ Len(b) \in Nat
        /\ DOMAIN out = 1..Len(out) /\ DOMAIN b = 1..Len(b) /\ DOMAIN c = 1..(Len(out) + Len(b))
        /\ \A k \in 1..Len(out) : c[k] = out[k]
        /\ \A k \in 1..Len(b) : c[Len(out) + k] = b[k]
    BY <2>1
  <2>5. ASSUME NEW k \in DOMAIN c
        PROVE  \/ k \in DOMAIN out /\ c[k] = out[k]
               \/ \E l \in DOMAIN b : k = Len(out) + l /\ c[k] = b[l]
    <3>1. CASE k <= Len(out)
      BY <2>4, <3>1
    <3>2. CASE ~(k <= Len(out))
      <4>1. k - Len(out) \in 1..Len(b) /\ Len(out) + (k - Len(out)) = k
        BY <2>4, <3>2
      <4> HIDE DEF c
      <4> QED
        BY <2>4, <4>1
    <3> QED
      BY <3>1, <3>2
  <2> HIDE DEF c
  <2>6. ASSUME out \in I PROVE Distinct(c)
    <3>1. DistinctIn(out) /\ DistinctIn(b)
      BY <2>1, <2>6, DistinctIds
    <3>2. \A k \in DOMAIN out : out[k].id \in Ids(out)
      BY DEF Ids
    <3> SUFFICES ASSUME NEW k \in DOMAIN c, NEW l \in DOMAIN c, c[k].id = c[l].id PROVE k = l
      BY <2>4, DistinctIds DEF DistinctIn
    <3>3. CASE k \in DOMAIN out /\ c[k] = out[k] /\ l \in DOMAIN out /\ c[l] = out[l]
      BY <3>1, <3>3 DEF DistinctIn
    <3>4. ASSUME NEW k1 \in DOMAIN b, NEW l1 \in DOMAIN b,
                 k = Len(out) + k1, c[k] = b[k1], l = Len(out) + l1, c[l] = b[l1]
          PROVE  k = l
      BY <3>1, <3>4 DEF DistinctIn
    <3> QED
      BY <2>3, <2>5, <3>2, <3>3, <3>4
  <2>7. ASSUME out \in I PROVE ParentsFirst(c)
    <3>1. \A k \in DOMAIN out : k \in DOMAIN c /\ c[k] = out[k]
      BY <2>4
    <3>2. ParentsFirst(out)
      BY <2>7
    <3> SUFFICES ASSUME NEW k \in DOMAIN c, c[k].parent # 0
                 PROVE  \E j \in DOMAIN c : j < k /\ c[j].id = c[k].parent
      BY DEF ParentsFirst
    <3>3. CASE k \in DOMAIN out /\ c[k] = out[k]
      BY <3>1, <3>2, <3>3 DEF ParentsFirst
    <3>4. ASSUME NEW l \in DOMAIN b, k = Len(out) + l, c[k] = b[l]
          PROVE  \E j \in DOMAIN c : j < k /\ c[j].id = c[k].parent
      <4>1. c[k].parent \in Ids(out)
        BY <2>3, <3>4
      <4>2. PICK j \in DOMAIN out : out[j].id = c[k].parent
        BY <4>1 DEF Ids
      <4>3. j < k
        BY <2>4, <3>4
      <4> QED
        BY <3>1, <4>2, <4>3
    <3> QED
      BY <2>5, <3>3, <3>4
  <2> QED
    BY <2>2, <2>4, <2>6, <2>7
<1>3. step \in [Seq(T) -> Seq(T)] /\ I \in SUBSET Seq(T) /\ \A s \in I : step[s] \in I
  <2>1. step = [s \in Seq(T) |-> step[s]]
    BY DEF Round
  <2>2. \A s \in Seq(T) : step[s] \in Seq(T)
    BY <1>2
  <2>3. \A s \in I : step[s] \in I
    <3> HIDE DEF step
    <3> QED
      BY <1>2
  <2> HIDE DEF step
  <2> QED
    BY <2>1, <2>2, <2>3
<1> DEFINE out == After(step, <<>>, Len(in))
<1>4. out \in I
  <2>1. Len(in) \in Nat
    OBVIOUS
  <2> HIDE DEF step, I
  <2> QED
    BY <1>1, <1>3, <2>1, AfterInvariant
<1>5. Len(out) >= Len(in) /\ CanonicalBranches(in).branches = out
  BY DEF CanonicalBranches
<1> HIDE DEF step, out
<1>6. T \subseteq S /\ out \in Seq(T) /\ Distinct(out) /\ ParentsFirst(out)
  BY <1>4 DEF ToSet
<1>7. out \in Seq(S)
  <2>1. out \in [1..Len(out) -> S] /\ Len(out) \in Nat
    BY <1>6
  <2> QED
    BY <2>1
<1>8. ToSet(out) = T
  <2>1. ToSet(out) \subseteq T
    BY <1>6 DEF ToSet
  <2>2. Ids(out) \in SUBSET Ids(in)
    <3>1. \A x \in T : x.id \in Ids(in)
      BY ByIdFacts
    <3>2. \A k \in DOMAIN out : out[k] \in T
      BY <1>6
    <3> QED
      BY <3>1, <3>2 DEF Ids
  <2>3. Cardinality(Ids(out)) = Len(out) /\ Cardinality(Ids(in)) = Len(in)
    BY <1>6 DEF Distinct
  <2>4. Ids(out) = Ids(in)
    <3>1. IsFiniteSet(Ids(in)) /\ Cardinality(Ids(in)) \in Nat /\ Len(in) \in Nat /\ Len(out) \in Nat
      BY <1>6, DistinctIds
    <3>2. Cardinality(Ids(out)) <= Cardinality(Ids(in))
      BY <2>2, <3>1, FS_Subset
    <3>3. Cardinality(Ids(out)) = Cardinality(Ids(in))
      BY <1>5, <2>3, <3>1, <3>2
    <3> QED
      BY <2>2, <3>1, <3>3, FS_Subset
  <2>5. ASSUME NEW x \in T PROVE x \in ToSet(out)
    <3>1. x.id \in Ids(out)
      BY <2>4, ByIdFacts
    <3>2. PICK k \in DOMAIN out : out[k].id = x.id
      BY <3>1 DEF Ids
    <3>3. out[k] \in T /\ out[k] \in ToSet(out)
      BY <1>6 DEF ToSet
    <3>4. ById(in)[x.id] = x /\ ById(in)[out[k].id] = out[k]
      BY <3>3, ByIdFacts
    <3> QED
      BY <3>2, <3>3, <3>4
  <2> QED
    BY <2>1, <2>5
<1> QED
  BY <1>5, <1>6, <1>7, <1>8

----
(***************************************************************************)
(* Sorted collections and lists                                            *)
(***************************************************************************)
\* Sorting by ID.
LEMMA SortedByIdFacts ==
    ASSUME NEW S, HasIds(S), NEW s \in Seq(S)
    PROVE  /\ SortedById(s) \in Seq(S) /\ Len(SortedById(s)) = Len(s) /\ DOMAIN SortedById(s) = DOMAIN s
           /\ ToSet(SortedById(s)) = ToSet(s)
           /\ InKeyOrder(SortedById(s), ById0(S))
           /\ Distinct(s) => Distinct(SortedById(s))
<1>1. SortedById(s) = SortBy(s, KeyOf(s, ById0(S))) /\ ById0(S) \in [S -> Nat \X Nat]
  BY IdKeys DEF SortedById
<1>2. /\ SortedById(s) \in Seq(S) /\ Len(SortedById(s)) = Len(s) /\ DOMAIN SortedById(s) = DOMAIN s
      /\ ToSet(SortedById(s)) = ToSet(s) /\ InKeyOrder(SortedById(s), ById0(S))
  BY <1>1, SortByFacts
<1>3. Ids(SortedById(s)) = Ids(s)
  <2>1. \A t : Ids(t) = {x.id : x \in ToSet(t)}
    BY DEF Ids, ToSet
  <2> QED
    BY <1>2, <2>1
<1> QED
  BY <1>2, <1>3 DEF Distinct

\* Rows of distinct IDs are sorted alike from any order.
LEMMA SortedByIdSame ==
    ASSUME NEW S, HasIds(S), NEW s \in Seq(S), NEW t \in Seq(S), Distinct(s), Distinct(t),
           ToSet(s) = ToSet(t)
    PROVE  SortedById(s) = SortedById(t)
<1>1. /\ SortedById(s) = SortBy(s, KeyOf(s, ById0(S))) /\ SortedById(t) = SortBy(t, KeyOf(t, ById0(S)))
      /\ ById0(S) \in [S -> Nat \X Nat] /\ OneToOne(ById0(S), ToSet(s))
  BY IdKeys DEF SortedById
<1>2. SameCounts(s, t)
  BY SameRows
<1> QED
  BY <1>1, <1>2, SortBySame

\* Sorting numbers, and sorting references.
AsNumber == [n \in Nat |-> <<0, n>>]
AsRef == [ref \in Ref |-> ref]

\* Sorting IDs orders them and loses none.
LEMMA NumberKeys ==
    ASSUME NEW s \in Seq(Nat)
    PROVE  /\ AsNumber \in [Nat -> Nat \X Nat] /\ OneToOne(AsNumber, ToSet(s))
           /\ Sorted(s) = SortBy(s, KeyOf(s, AsNumber))
           /\ Sorted(s) \in Seq(Nat) /\ ToSet(Sorted(s)) = ToSet(s) /\ InKeyOrder(Sorted(s), AsNumber)
<1>1. AsNumber \in [Nat -> Nat \X Nat]
  BY DEF AsNumber
<1>2. ToSet(s) \subseteq Nat /\ \A i \in DOMAIN s : s[i] \in Nat
  BY DEF ToSet
<1>3. OneToOne(AsNumber, ToSet(s))
  BY <1>2 DEF OneToOne, AsNumber
<1>4. NumberKey(s) = KeyOf(s, AsNumber)
  BY <1>2 DEF NumberKey, KeyOf, AsNumber
<1>5. Sorted(s) = SortBy(s, KeyOf(s, AsNumber))
  BY <1>4 DEF Sorted
<1> DEFINE S == Nat
<1>6. s \in Seq(S) /\ AsNumber \in [S -> Nat \X Nat]
  BY <1>1
<1> HIDE DEF S
<1>7. /\ Sorted(s) \in Seq(S) /\ ToSet(Sorted(s)) = ToSet(s) /\ InKeyOrder(Sorted(s), AsNumber)
  BY <1>5, <1>6, SortByFacts
<1> QED
  BY <1>1, <1>3, <1>5, <1>7 DEF S

\* Sorting references orders them by kind and ID and loses none.
LEMMA RefKeys ==
    ASSUME NEW s \in Seq(Ref)
    PROVE  /\ AsRef \in [Ref -> Nat \X Nat] /\ OneToOne(AsRef, ToSet(s))
           /\ SortedRefs(s) = SortBy(s, KeyOf(s, AsRef))
           /\ SortedRefs(s) \in Seq(Ref) /\ ToSet(SortedRefs(s)) = ToSet(s) /\ InKeyOrder(SortedRefs(s), AsRef)
<1>1. Ref \subseteq Nat \X Nat
  BY DEF Ref, Obs, Asn
<1>2. AsRef \in [Ref -> Nat \X Nat]
  BY <1>1 DEF AsRef
<1>3. ToSet(s) \subseteq Ref /\ \A i \in DOMAIN s : s[i] \in Ref
  BY DEF ToSet
<1>4. OneToOne(AsRef, ToSet(s))
  BY <1>3 DEF OneToOne, AsRef
<1>5. s = [i \in DOMAIN s |-> s[i]]
  OBVIOUS
<1>6. \A i \in DOMAIN s : AsRef[s[i]] = s[i]
  BY <1>3 DEF AsRef
<1>7. KeyOf(s, AsRef) = s
  BY <1>5, <1>6 DEF KeyOf
<1> QED
  BY <1>2, <1>4, <1>7, SortByFacts DEF SortedRefs

\* What one sequence holds, one with the same elements holds somewhere.
LEMMA SameSet ==
    ASSUME NEW u, NEW v, ToSet(u) = ToSet(v)
    PROVE  \A i \in DOMAIN u : \E j \in DOMAIN v : u[i] = v[j]
<1>1. \A i \in DOMAIN u : u[i] \in ToSet(u)
  BY DEF ToSet
<1>2. \A x \in ToSet(v) : \E j \in DOMAIN v : x = v[j]
  BY DEF ToSet
<1> QED
  BY <1>1, <1>2

\* Sequences that find each other's elements hold the same ones.
LEMMA SetsEqual ==
    ASSUME NEW u, NEW v, \A i \in DOMAIN u : \E j \in DOMAIN v : u[i] = v[j],
           \A j \in DOMAIN v : \E i \in DOMAIN u : u[i] = v[j]
    PROVE  ToSet(u) = ToSet(v)
BY DEF ToSet

\* Rows in ID order are known by their IDs: collections that agree up to the lists in
\* their rows agree row by row.
LEMMA RowsMatch ==
    ASSUME NEW S, HasIds(S), NEW s \in Seq(S), NEW t \in Seq(S), Distinct(s), Distinct(t),
           InKeyOrder(s, ById0(S)), InKeyOrder(t, ById0(S)),
           NEW u, NEW v, DOMAIN u = DOMAIN s, DOMAIN v = DOMAIN t,
           \A i \in DOMAIN s : u[i].id = s[i].id, \A i \in DOMAIN t : v[i].id = t[i].id,
           ToSet(u) = ToSet(v)
    PROVE  DOMAIN s = DOMAIN t /\ \A i \in DOMAIN s : s[i].id = t[i].id /\ u[i] = v[i]
<1> DEFINE a == [i \in DOMAIN s |-> s[i].id]
           b == [i \in DOMAIN t |-> t[i].id]
<1>1. (\A i \in DOMAIN s : s[i] \in S /\ s[i].id \in Nat) /\ (\A i \in DOMAIN t : t[i] \in S /\ t[i].id \in Nat)
  BY DEF HasIds
<1>2. DistinctIn(s) /\ DistinctIn(t)
  BY DistinctIds
<1>3. /\ a \in Seq(Nat) /\ DOMAIN a = DOMAIN s /\ (\A i \in DOMAIN a : a[i] = s[i].id)
      /\ b \in Seq(Nat) /\ DOMAIN b = DOMAIN t /\ (\A i \in DOMAIN b : b[i] = t[i].id)
  <2>1. Len(s) \in Nat /\ DOMAIN s = 1..Len(s) /\ Len(t) \in Nat /\ DOMAIN t = 1..Len(t)
    OBVIOUS
  <2>2. a \in [1..Len(s) -> Nat] /\ b \in [1..Len(t) -> Nat]
    BY <1>1, <2>1
  <2> QED
    BY <2>1, <2>2
<1> HIDE DEF a, b
<1>4. (\A i, j \in DOMAIN a : a[i] = a[j] => i = j) /\ (\A i, j \in DOMAIN b : b[i] = b[j] => i = j)
  BY <1>2, <1>3 DEF DistinctIn
<1>5. ToSet(a) = ToSet(b)
  <2>1. ASSUME NEW i \in DOMAIN s PROVE \E j \in DOMAIN t : a[i] = b[j]
    <3>1. PICK j \in DOMAIN v : u[i] = v[j]
      BY SameSet
    <3> QED
      BY <1>3, <3>1
  <2>2. ASSUME NEW j \in DOMAIN t PROVE \E i \in DOMAIN s : a[i] = b[j]
    <3>1. PICK i \in DOMAIN u : v[j] = u[i]
      BY SameSet
    <3> QED
      BY <1>3, <3>1
  <2>3. \A i \in DOMAIN a : \E j \in DOMAIN b : a[i] = b[j]
    BY <1>3, <2>1
  <2>4. \A j \in DOMAIN b : \E i \in DOMAIN a : a[i] = b[j]
    BY <1>3, <2>2
  <2> QED
    BY <2>3, <2>4, SetsEqual, Zenon
<1>6. SameCounts(a, b)
  <2> DEFINE N == Nat
  <2>1. a \in Seq(N) /\ b \in Seq(N)
    BY <1>3
  <2> HIDE DEF N
  <2> QED
    BY <1>4, <1>5, <2>1, OnceEach
<1>7. InKeyOrder(a, AsNumber) /\ InKeyOrder(b, AsNumber)
  <2>1. \A i \in DOMAIN s : AsNumber[a[i]] = ById0(S)[s[i]]
    BY <1>1, <1>3 DEF AsNumber, ById0
  <2>2. \A i \in DOMAIN t : AsNumber[b[i]] = ById0(S)[t[i]]
    BY <1>1, <1>3 DEF AsNumber, ById0
  <2> QED
    BY <1>3, <2>1, <2>2 DEF InKeyOrder
<1>8. a = b
  BY <1>3, <1>6, <1>7, NumberKeys, OneOrder
<1>9. DOMAIN s = DOMAIN t /\ \A i \in DOMAIN s : s[i].id = t[i].id
  BY <1>3, <1>8
<1>10. ASSUME NEW i \in DOMAIN s PROVE u[i] = v[i]
  <2>1. PICK j \in DOMAIN v : u[i] = v[j]
    BY DEF ToSet
  <2>2. j \in DOMAIN t /\ t[j].id = s[i].id /\ t[i].id = s[i].id /\ i \in DOMAIN t
    BY <1>9, <2>1
  <2>3. i = j
    BY <1>2, <2>2 DEF DistinctIn
  <2> QED
    BY <2>1, <2>3
<1> QED
  BY <1>9, <1>10

----
(***************************************************************************)
(* Canonical runs                                                          *)
(***************************************************************************)
RunNames == {"version", "port", "window", "rules", "entities", "vantages", "assertions", "edges",
             "branches", "checks", "executions", "observations", "visibility", "claims", "findings"}

\* The fields of a run are sequences of their rows.
LEMMA RunFields ==
    ASSUME NEW r \in Run
    PROVE  /\ DOMAIN r = RunNames
           /\ r.rules \in Seq(Nat)
           /\ r.entities \in Seq(Rows.entities) /\ r.vantages \in Seq(Rows.vantages)
           /\ r.assertions \in Seq(Rows.assertions) /\ r.edges \in Seq(Rows.edges)
           /\ r.branches \in Seq(Rows.branches) /\ r.checks \in Seq(Rows.checks)
           /\ r.executions \in Seq(Rows.executions) /\ r.observations \in Seq(Rows.observations)
           /\ r.visibility \in Seq(Rows.visibility) /\ r.claims \in Seq(Rows.claims)
           /\ r.findings \in Seq(Rows.findings)
BY DEF Run, RunNames

\* The rows of every collection have number IDs.
LEMMA RowsHaveIds ==
    /\ HasIds(Rows.entities) /\ HasIds(Rows.vantages) /\ HasIds(Rows.assertions) /\ HasIds(Rows.edges)
    /\ HasIds(Rows.branches) /\ HasIds(Rows.checks) /\ HasIds(Rows.executions)
    /\ HasIds(Rows.observations) /\ HasIds(Rows.visibility) /\ HasIds(Rows.claims) /\ HasIds(Rows.findings)
<1>1. Id \subseteq Nat
  BY DEF Id
<1> QED
  BY <1>1 DEF Rows, HasIds

\* What c and e hold when c is the canonical form of r, and e that of its evidence.
Shaped(c, e, r) ==
    /\ DOMAIN c = DOMAIN r
    /\ c.version = r.version /\ c.port = r.port /\ c.window = r.window /\ c.rules = r.rules
    /\ c.entities = SortedById(r.entities)
    /\ c.vantages = SortedById(r.vantages)
    /\ c.assertions = SortedById(r.assertions)
    /\ c.edges = [i \in DOMAIN SortedById(r.edges) |->
         [SortedById(r.edges)[i] EXCEPT !.refs = SortedRefs(@)]]
    /\ c.branches = CanonicalBranches(r.branches).branches /\ e.branches = c.branches
    /\ c.checks = [i \in DOMAIN SortedById(r.checks) |->
         [SortedById(r.checks)[i] EXCEPT !.deps = Sorted(@)]]
    /\ c.executions = [i \in DOMAIN SortedById(r.executions) |->
         [SortedById(r.executions)[i] EXCEPT !.observations = Sorted(@), !.visibility = Sorted(@)]]
    /\ c.observations = SortedById(r.observations)
    /\ c.visibility = [i \in DOMAIN SortedById(r.visibility) |->
         [SortedById(r.visibility)[i] EXCEPT !.basis = Sorted(@)]]
    /\ c.claims = [i \in DOMAIN SortedById(r.claims) |-> CanonicalClaim(SortedById(r.claims)[i])]
    /\ c.findings = [i \in DOMAIN SortedById(r.findings) |->
         CanonicalFinding(e, SortedById(r.findings)[i])]

\* Canonical gives each collection its own order, and leaves the rest alone.
LEMMA CanonicalFields ==
    ASSUME NEW r, DOMAIN r = RunNames
    PROVE  /\ Shaped(Canonical(r), CanonicalEvidence(r), r)
           /\ Canonical(r) = [x \in DOMAIN Canonical(r) |-> Canonical(r)[x]]
<1>1. Shaped(Canonical(r), CanonicalEvidence(r), r)
  BY DEF Shaped, Canonical, CanonicalEvidence, Each, RunNames
<1>2. Canonical(r) = [x \in DOMAIN Canonical(r) |-> Canonical(r)[x]]
  BY DEF Canonical
<1> QED
  BY <1>1, <1>2

\* The order of the branches of a finding.
BranchKey(e) == [b \in Nat |-> <<0, BranchIndex(e, b)>>]
PositionKey(e) == [p \in Nat \X Nat |-> <<0, BranchIndex(e, p[1])>>]

\* Every branch of the run has an index among the branches.
LEMMA BranchIndexes ==
    ASSUME NEW S, NEW e, e.branches \in Seq(S), NEW b
    PROVE  /\ BranchIndex(e, b) \in Nat
           /\ b \in Ids(e.branches) =>
                BranchIndex(e, b) \in DOMAIN e.branches /\ e.branches[BranchIndex(e, b)].id = b
<1> DEFINE s == e.branches
<1>1. Len(s) \in Nat /\ DOMAIN s = 1..Len(s)
  OBVIOUS
<1>2. CASE b \notin Ids(s)
  BY <1>1, <1>2 DEF BranchIndex
<1>3. CASE b \in Ids(s)
  <2> DEFINE P == {i \in DOMAIN s : s[i].id = b}
  <2>1. P # {} /\ P \in SUBSET Nat
    BY <1>1, <1>3 DEF Ids
  <2>2. PICK m \in P : \A i \in P : m <= i
    <3> HIDE DEF P
    <3> QED
      BY <2>1, SmallestOf
  <2>3. m \in DOMAIN s /\ s[m].id = b /\ \A j \in 1..(m - 1) : s[j].id # b
    <3>1. m \in DOMAIN s /\ s[m].id = b /\ m \in Nat
      BY <1>1
    <3>2. ASSUME NEW j \in 1..(m - 1) PROVE s[j].id # b
      <4>1. j \in DOMAIN s /\ ~(m <= j)
        BY <1>1, <3>1
      <4> QED
        BY <2>2, <4>1
    <3> QED
      BY <3>1, <3>2
  <2> DEFINE First(i) == s[i].id = b /\ \A j \in 1..(i - 1) : s[j].id # b
  <2>4. BranchIndex(e, b) = CHOOSE i \in DOMAIN s : First(i)
    BY <1>3 DEF BranchIndex
  <2>5. \E i \in DOMAIN s : First(i)
    BY <2>3
  <2>6. \A i : First(i) => s[i].id = b
    OBVIOUS
  <2> HIDE DEF First
  <2>7. BranchIndex(e, b) \in DOMAIN s /\ First(BranchIndex(e, b))
    BY <2>4, <2>5
  <2> QED
    BY <1>1, <2>6, <2>7
<1> QED
  BY <1>2, <1>3

\* Branch lists and positions of a finding are ordered by the index of the branch.
LEMMA BranchKeys ==
    ASSUME NEW S, NEW e, e.branches \in Seq(S)
    PROVE  /\ BranchKey(e) \in [Nat -> Nat \X Nat]
           /\ PositionKey(e) \in [Nat \X Nat -> Nat \X Nat]
           /\ OneToOne(BranchKey(e), Ids(e.branches) \cap Nat)
           /\ \A s \in Seq(Nat) : [i \in DOMAIN s |-> <<0, BranchIndex(e, s[i])>>] = KeyOf(s, BranchKey(e))
           /\ \A s \in Seq(Nat \X Nat) :
                [i \in DOMAIN s |-> <<0, BranchIndex(e, s[i][1])>>] = KeyOf(s, PositionKey(e))
<1>1. \A b : BranchIndex(e, b) \in Nat
  BY BranchIndexes
<1>2. BranchKey(e) \in [Nat -> Nat \X Nat] /\ PositionKey(e) \in [Nat \X Nat -> Nat \X Nat]
  BY <1>1 DEF BranchKey, PositionKey
<1>3. OneToOne(BranchKey(e), Ids(e.branches) \cap Nat)
  <2> SUFFICES ASSUME NEW a \in Ids(e.branches) \cap Nat, NEW b \in Ids(e.branches) \cap Nat,
                      BranchKey(e)[a] = BranchKey(e)[b]
               PROVE  a = b
    BY DEF OneToOne
  <2>1. BranchIndex(e, a) = BranchIndex(e, b)
    BY DEF BranchKey
  <2> QED
    BY <2>1, BranchIndexes
<1>4. ASSUME NEW s \in Seq(Nat)
      PROVE  [i \in DOMAIN s |-> <<0, BranchIndex(e, s[i])>>] = KeyOf(s, BranchKey(e))
  <2>1. \A i \in DOMAIN s : s[i] \in Nat
    OBVIOUS
  <2> QED
    BY <2>1 DEF KeyOf, BranchKey
<1>5. ASSUME NEW s \in Seq(Nat \X Nat)
      PROVE  [i \in DOMAIN s |-> <<0, BranchIndex(e, s[i][1])>>] = KeyOf(s, PositionKey(e))
  <2>1. \A i \in DOMAIN s : s[i] \in Nat \X Nat
    OBVIOUS
  <2> QED
    BY <2>1 DEF KeyOf, PositionKey
<1> QED
  BY <1>2, <1>3, <1>4, <1>5

\* A function made for each element of a sequence is a sequence.
LEMMA SequenceOf ==
    ASSUME NEW S, NEW T, NEW q \in Seq(S), NEW s, s = [i \in DOMAIN q |-> s[i]],
           \A i \in DOMAIN q : s[i] \in T
    PROVE  s \in Seq(T)
<1>1. s \in [1..Len(q) -> T] /\ Len(q) \in Nat
  OBVIOUS
<1> QED
  BY <1>1

\* A claim in canonical form is the claim with its three lists sorted.
LEMMA CanonicalClaimType ==
    ASSUME NEW c \in Rows.claims
    PROVE  /\ CanonicalClaim(c) \in Rows.claims /\ CanonicalClaim(c).id = c.id
           /\ CanonicalClaim(c).support = SortedRefs(c.support)
           /\ CanonicalClaim(c).contra = SortedRefs(c.contra)
           /\ CanonicalClaim(c).missing = Sorted(c.missing)
<1>1. c.support \in Seq(Ref) /\ c.contra \in Seq(Ref) /\ c.missing \in Seq(Nat)
  BY DEF Rows
<1>2. SortedRefs(c.support) \in Seq(Ref) /\ SortedRefs(c.contra) \in Seq(Ref) /\ Sorted(c.missing) \in Seq(Nat)
  BY <1>1, RefKeys, NumberKeys
<1> QED
  BY <1>2 DEF CanonicalClaim, Rows

\* A finding in canonical form is the finding with its three lists sorted.
LEMMA CanonicalFindingType ==
    ASSUME NEW S, NEW e, e.branches \in Seq(S), NEW f \in Rows.findings
    PROVE  LET g == CanonicalFinding(e, f)
           IN  /\ g \in Rows.findings /\ g.id = f.id
               /\ g.branches = SortBy(f.branches, KeyOf(f.branches, BranchKey(e)))
               /\ g.positions = SortBy(f.positions, KeyOf(f.positions, PositionKey(e)))
               /\ g.claims = Sorted(f.claims)
               /\ ToSet(g.branches) = ToSet(f.branches) /\ ToSet(g.claims) = ToSet(f.claims)
               /\ InKeyOrder(g.branches, BranchKey(e)) /\ InKeyOrder(g.positions, PositionKey(e))
               /\ InKeyOrder(g.claims, AsNumber)
<1> DEFINE b == SortBy(f.branches, [i \in DOMAIN f.branches |-> <<0, BranchIndex(e, f.branches[i])>>])
           p == SortBy(f.positions, [i \in DOMAIN f.positions |-> <<0, BranchIndex(e, f.positions[i][1])>>])
           g == CanonicalFinding(e, f)
<1>1. f.branches \in Seq(Nat) /\ f.positions \in Seq(Nat \X Nat) /\ f.claims \in Seq(Nat)
  BY DEF Rows
<1>2. /\ b = SortBy(f.branches, KeyOf(f.branches, BranchKey(e)))
      /\ p = SortBy(f.positions, KeyOf(f.positions, PositionKey(e)))
      /\ BranchKey(e) \in [Nat -> Nat \X Nat] /\ PositionKey(e) \in [Nat \X Nat -> Nat \X Nat]
  BY <1>1, BranchKeys
<1> HIDE DEF b, p
<1>3. b \in Seq(Nat) /\ ToSet(b) = ToSet(f.branches) /\ InKeyOrder(b, BranchKey(e))
  <2> DEFINE N == Nat
  <2>1. f.branches \in Seq(N) /\ BranchKey(e) \in [N -> Nat \X Nat]
    BY <1>1, <1>2
  <2> HIDE DEF N
  <2>2. b \in Seq(N) /\ ToSet(b) = ToSet(f.branches) /\ InKeyOrder(b, BranchKey(e))
    BY <1>2, <2>1, SortByFacts
  <2> QED
    BY <2>2 DEF N
<1>4. p \in Seq(Nat \X Nat) /\ InKeyOrder(p, PositionKey(e))
  <2> DEFINE N == Nat \X Nat
  <2>1. f.positions \in Seq(N) /\ PositionKey(e) \in [N -> Nat \X Nat]
    BY <1>1, <1>2
  <2> HIDE DEF N
  <2>2. p \in Seq(N) /\ InKeyOrder(p, PositionKey(e))
    BY <1>2, <2>1, SortByFacts
  <2> QED
    BY <2>2 DEF N
<1>5. Sorted(f.claims) \in Seq(Nat) /\ ToSet(Sorted(f.claims)) = ToSet(f.claims)
      /\ InKeyOrder(Sorted(f.claims), AsNumber)
  BY <1>1, NumberKeys
<1>6. g = [f EXCEPT !.branches = b, !.positions = p, !.claims = Sorted(f.claims)]
  BY DEF CanonicalFinding, b, p
<1>7. g \in Rows.findings /\ g.id = f.id /\ g.branches = b /\ g.positions = p /\ g.claims = Sorted(f.claims)
  <2> HIDE DEF g
  <2> QED
    BY <1>3, <1>4, <1>5, <1>6 DEF Rows
<1> HIDE DEF g
<1> QED
  BY <1>2, <1>3, <1>4, <1>5, <1>7 DEF g

\* The canonical form of a run is a run.
LEMMA CanonicalRun ==
    ASSUME NEW r \in Run, Distinct(r.branches)
    PROVE  Canonical(r) \in Run
<1> DEFINE c == Canonical(r)
           e == CanonicalEvidence(r)
<1>1. DOMAIN r = RunNames
  BY RunFields
<1>2. /\ c.entities = SortedById(r.entities) /\ c.vantages = SortedById(r.vantages)
      /\ c.assertions = SortedById(r.assertions)
      /\ c.observations = SortedById(r.observations)
      /\ c.branches = CanonicalBranches(r.branches).branches /\ e.branches = c.branches
  BY <1>1, CanonicalFields DEF Shaped
<1>3. /\ SortedById(r.entities) \in Seq(Rows.entities) /\ SortedById(r.vantages) \in Seq(Rows.vantages)
      /\ SortedById(r.assertions) \in Seq(Rows.assertions)
      /\ SortedById(r.observations) \in Seq(Rows.observations)
  BY RunFields, RowsHaveIds, SortedByIdFacts
<1>4. CanonicalBranches(r.branches).branches \in Seq(Rows.branches)
  <2>1. CASE CanonicalBranches(r.branches).ok
    BY <2>1, RunFields, RowsHaveIds, CanonicalBranchesPlaced
  <2>2. CASE ~CanonicalBranches(r.branches).ok
    BY <2>2, RunFields DEF CanonicalBranches
  <2> QED
    BY <2>1, <2>2
<1>5. [i \in DOMAIN SortedById(r.edges) |-> [SortedById(r.edges)[i] EXCEPT !.refs = SortedRefs(@)]]
        \in Seq(Rows.edges)
  <2> DEFINE q == SortedById(r.edges)
             s == [i \in DOMAIN q |-> [q[i] EXCEPT !.refs = SortedRefs(@)]]
  <2>1. q \in Seq(Rows.edges)
    BY RunFields, RowsHaveIds, SortedByIdFacts
  <2> HIDE DEF q
  <2>2. ASSUME NEW i \in DOMAIN q PROVE s[i] \in Rows.edges
    <3>1. q[i] \in Rows.edges
      BY <2>1
    <3>2. SortedRefs(q[i].refs) \in Seq(Ref)
      BY <3>1, RefKeys DEF Rows
    <3> QED
      BY <3>1, <3>2 DEF Rows
  <2>3. s = [i \in DOMAIN q |-> s[i]]
    OBVIOUS
  <2>4. s \in Seq(Rows.edges)
    <3> HIDE DEF s
    <3> QED
      BY <2>1, <2>2, <2>3, SequenceOf
  <2> QED
    BY <2>4 DEF q
<1>6. [i \in DOMAIN SortedById(r.checks) |-> [SortedById(r.checks)[i] EXCEPT !.deps = Sorted(@)]]
        \in Seq(Rows.checks)
  <2> DEFINE q == SortedById(r.checks)
             s == [i \in DOMAIN q |-> [q[i] EXCEPT !.deps = Sorted(@)]]
  <2>1. q \in Seq(Rows.checks)
    BY RunFields, RowsHaveIds, SortedByIdFacts
  <2> HIDE DEF q
  <2>2. ASSUME NEW i \in DOMAIN q PROVE s[i] \in Rows.checks
    <3>1. q[i] \in Rows.checks
      BY <2>1
    <3>2. Sorted(q[i].deps) \in Seq(Nat)
      BY <3>1, NumberKeys DEF Rows
    <3> QED
      BY <3>1, <3>2 DEF Rows
  <2>3. s = [i \in DOMAIN q |-> s[i]]
    OBVIOUS
  <2>4. s \in Seq(Rows.checks)
    <3> HIDE DEF s
    <3> QED
      BY <2>1, <2>2, <2>3, SequenceOf
  <2> QED
    BY <2>4 DEF q
<1>7. [i \in DOMAIN SortedById(r.executions) |->
        [SortedById(r.executions)[i] EXCEPT !.observations = Sorted(@), !.visibility = Sorted(@)]]
        \in Seq(Rows.executions)
  <2> DEFINE q == SortedById(r.executions)
             s == [i \in DOMAIN q |-> [q[i] EXCEPT !.observations = Sorted(@), !.visibility = Sorted(@)]]
  <2>1. q \in Seq(Rows.executions)
    BY RunFields, RowsHaveIds, SortedByIdFacts
  <2> HIDE DEF q
  <2>2. ASSUME NEW i \in DOMAIN q PROVE s[i] \in Rows.executions
    <3>1. q[i] \in Rows.executions
      BY <2>1
    <3>2. Sorted(q[i].observations) \in Seq(Nat) /\ Sorted(q[i].visibility) \in Seq(Nat)
      BY <3>1, NumberKeys DEF Rows
    <3> QED
      BY <3>1, <3>2 DEF Rows
  <2>3. s = [i \in DOMAIN q |-> s[i]]
    OBVIOUS
  <2>4. s \in Seq(Rows.executions)
    <3> HIDE DEF s
    <3> QED
      BY <2>1, <2>2, <2>3, SequenceOf
  <2> QED
    BY <2>4 DEF q
<1>8. [i \in DOMAIN SortedById(r.visibility) |-> [SortedById(r.visibility)[i] EXCEPT !.basis = Sorted(@)]]
        \in Seq(Rows.visibility)
  <2> DEFINE q == SortedById(r.visibility)
             s == [i \in DOMAIN q |-> [q[i] EXCEPT !.basis = Sorted(@)]]
  <2>1. q \in Seq(Rows.visibility)
    BY RunFields, RowsHaveIds, SortedByIdFacts
  <2> HIDE DEF q
  <2>2. ASSUME NEW i \in DOMAIN q PROVE s[i] \in Rows.visibility
    <3>1. q[i] \in Rows.visibility
      BY <2>1
    <3>2. Sorted(q[i].basis) \in Seq(Nat)
      BY <3>1, NumberKeys DEF Rows
    <3> QED
      BY <3>1, <3>2 DEF Rows
  <2>3. s = [i \in DOMAIN q |-> s[i]]
    OBVIOUS
  <2>4. s \in Seq(Rows.visibility)
    <3> HIDE DEF s
    <3> QED
      BY <2>1, <2>2, <2>3, SequenceOf
  <2> QED
    BY <2>4 DEF q
<1>9. [i \in DOMAIN SortedById(r.claims) |-> CanonicalClaim(SortedById(r.claims)[i])] \in Seq(Rows.claims)
  <2> DEFINE q == SortedById(r.claims)
             s == [i \in DOMAIN q |-> CanonicalClaim(q[i])]
  <2>1. q \in Seq(Rows.claims)
    BY RunFields, RowsHaveIds, SortedByIdFacts
  <2> HIDE DEF q
  <2>2. \A i \in DOMAIN q : s[i] \in Rows.claims
    <3>1. \A i \in DOMAIN q : q[i] \in Rows.claims
      BY <2>1
    <3> QED
      BY <3>1, CanonicalClaimType
  <2>3. s = [i \in DOMAIN q |-> s[i]]
    OBVIOUS
  <2>4. s \in Seq(Rows.claims)
    <3> HIDE DEF s
    <3> QED
      BY <2>1, <2>2, <2>3, SequenceOf
  <2> QED
    BY <2>4 DEF q
<1>10. [i \in DOMAIN SortedById(r.findings) |-> CanonicalFinding(e, SortedById(r.findings)[i])]
         \in Seq(Rows.findings)
  <2> DEFINE q == SortedById(r.findings)
             s == [i \in DOMAIN q |-> CanonicalFinding(e, q[i])]
  <2>1. q \in Seq(Rows.findings)
    BY RunFields, RowsHaveIds, SortedByIdFacts
  <2>1a. e.branches \in Seq(Rows.branches)
    BY <1>2, <1>4
  <2> HIDE DEF q, e
  <2>2. \A i \in DOMAIN q : s[i] \in Rows.findings
    <3>1. \A i \in DOMAIN q : q[i] \in Rows.findings
      BY <2>1
    <3> QED
      BY <2>1a, <3>1, CanonicalFindingType
  <2>3. s = [i \in DOMAIN q |-> s[i]]
    OBVIOUS
  <2>4. s \in Seq(Rows.findings)
    <3> HIDE DEF s
    <3> QED
      BY <2>1, <2>2, <2>3, SequenceOf
  <2> QED
    BY <2>4 DEF q
<1>11. Shaped(c, e, r) /\ c = [x \in DOMAIN c |-> c[x]]
  BY <1>1, CanonicalFields
<1> HIDE DEF c, e
<1> QED
  <2>1. /\ DOMAIN c = DOMAIN r
        /\ c.version = r.version /\ c.port = r.port /\ c.window = r.window /\ c.rules = r.rules
        /\ c.edges \in Seq(Rows.edges) /\ c.checks \in Seq(Rows.checks)
        /\ c.executions \in Seq(Rows.executions) /\ c.visibility \in Seq(Rows.visibility)
        /\ c.claims \in Seq(Rows.claims) /\ c.findings \in Seq(Rows.findings)
    BY <1>11, <1>5, <1>6, <1>7, <1>8, <1>9, <1>10 DEF Shaped
  <2>2. /\ c.entities \in Seq(Rows.entities) /\ c.vantages \in Seq(Rows.vantages)
        /\ c.assertions \in Seq(Rows.assertions) /\ c.observations \in Seq(Rows.observations)
        /\ c.branches \in Seq(Rows.branches)
    BY <1>2, <1>3, <1>4
  <2>4. r.version \in Nat \X Nat \X Nat /\ r.port \in Nat /\ r.window \in Int /\ r.rules \in Seq(Nat)
    BY DEF Run
  <2>5. DOMAIN c = RunNames
    BY <1>1, <2>1
  <2>6. c \in Run
    BY <2>5, <2>1, <2>2, <1>11, <2>4 DEF Run, RunNames
  <2> QED
    BY <2>6 DEF c

----
(***************************************************************************)
(* Runs in canonical order                                                 *)
(***************************************************************************)
RowsInOrder(r) ==
    /\ InKeyOrder(r.entities, ById0(Rows.entities)) /\ InKeyOrder(r.vantages, ById0(Rows.vantages))
    /\ InKeyOrder(r.assertions, ById0(Rows.assertions)) /\ InKeyOrder(r.edges, ById0(Rows.edges))
    /\ InKeyOrder(r.checks, ById0(Rows.checks)) /\ InKeyOrder(r.executions, ById0(Rows.executions))
    /\ InKeyOrder(r.observations, ById0(Rows.observations))
    /\ InKeyOrder(r.visibility, ById0(Rows.visibility))
    /\ InKeyOrder(r.claims, ById0(Rows.claims)) /\ InKeyOrder(r.findings, ById0(Rows.findings))

ListsInOrder(r) ==
    /\ \A i \in DOMAIN r.edges : InKeyOrder(r.edges[i].refs, AsRef)
    /\ \A i \in DOMAIN r.checks : InKeyOrder(r.checks[i].deps, AsNumber)
    /\ \A i \in DOMAIN r.executions :
         InKeyOrder(r.executions[i].observations, AsNumber) /\ InKeyOrder(r.executions[i].visibility, AsNumber)
    /\ \A i \in DOMAIN r.visibility : InKeyOrder(r.visibility[i].basis, AsNumber)
    /\ \A i \in DOMAIN r.claims :
         /\ InKeyOrder(r.claims[i].support, AsRef) /\ InKeyOrder(r.claims[i].contra, AsRef)
         /\ InKeyOrder(r.claims[i].missing, AsNumber)
    /\ \A i \in DOMAIN r.findings :
         /\ InKeyOrder(r.findings[i].branches, BranchKey(r))
         /\ InKeyOrder(r.findings[i].positions, PositionKey(r))
         /\ InKeyOrder(r.findings[i].claims, AsNumber)

\* Rows that keep the IDs of sorted rows are in order.
LEMMA SameIdsInOrder ==
    ASSUME NEW S, HasIds(S), NEW s \in Seq(S), DOMAIN s = DOMAIN SortedById(s),
           \A i \in DOMAIN s : s[i].id = SortedById(s)[i].id
    PROVE  InKeyOrder(s, ById0(S))
<1>1. SortedById(s) \in Seq(S) /\ InKeyOrder(SortedById(s), ById0(S))
  BY SortedByIdFacts
<1>2. ASSUME NEW i \in DOMAIN s PROVE ById0(S)[s[i]] = ById0(S)[SortedById(s)[i]]
  <2>1. s[i] \in S /\ SortedById(s)[i] \in S
    BY <1>1
  <2> QED
    BY <2>1 DEF ById0
<1> QED
  BY <1>1, <1>2 DEF InKeyOrder

\* Canonical edges are in order, and so are their references.
LEMMA EdgesInOrder ==
    ASSUME NEW s \in Seq(Rows.edges),
           s = [i \in DOMAIN SortedById(s) |-> [SortedById(s)[i] EXCEPT !.refs = SortedRefs(@)]]
    PROVE  /\ InKeyOrder(s, ById0(Rows.edges))
           /\ \A i \in DOMAIN s : InKeyOrder(s[i].refs, AsRef)
<1> DEFINE q == SortedById(s)
<1>1. q \in Seq(Rows.edges)
  BY RowsHaveIds, SortedByIdFacts
<1>2. s = [i \in DOMAIN q |-> [q[i] EXCEPT !.refs = SortedRefs(@)]]
  OBVIOUS
<1> HIDE DEF q
<1>3. DOMAIN s = DOMAIN q
  BY <1>2
<1>4. ASSUME NEW i \in DOMAIN s PROVE s[i].id = q[i].id /\ InKeyOrder(s[i].refs, AsRef)
  <2>0. q[i] \in Rows.edges
    BY <1>1, <1>3
  <2>1. q[i].refs \in Seq(Ref)
    BY <2>0 DEF Rows
  <2>2. s[i] = [q[i] EXCEPT !.refs = SortedRefs(q[i].refs)]
    BY <1>2, <1>3
  <2>3. s[i].id = q[i].id /\ s[i].refs = SortedRefs(q[i].refs)
    BY <2>0, <2>1, <2>2 DEF Rows
  <2> QED
    BY <2>1, <2>3, RefKeys
<1> QED
  BY <1>3, <1>4, RowsHaveIds, SameIdsInOrder DEF q

\* Canonical checks are in order, and so are their dependencies.
LEMMA ChecksInOrder ==
    ASSUME NEW s \in Seq(Rows.checks),
           s = [i \in DOMAIN SortedById(s) |-> [SortedById(s)[i] EXCEPT !.deps = Sorted(@)]]
    PROVE  /\ InKeyOrder(s, ById0(Rows.checks))
           /\ \A i \in DOMAIN s : InKeyOrder(s[i].deps, AsNumber)
<1> DEFINE q == SortedById(s)
<1>1. q \in Seq(Rows.checks)
  BY RowsHaveIds, SortedByIdFacts
<1>2. s = [i \in DOMAIN q |-> [q[i] EXCEPT !.deps = Sorted(@)]]
  OBVIOUS
<1> HIDE DEF q
<1>3. DOMAIN s = DOMAIN q
  BY <1>2
<1>4. ASSUME NEW i \in DOMAIN s PROVE s[i].id = q[i].id /\ InKeyOrder(s[i].deps, AsNumber)
  <2>0. q[i] \in Rows.checks
    BY <1>1, <1>3
  <2>1. q[i].deps \in Seq(Nat)
    BY <2>0 DEF Rows
  <2>2. s[i] = [q[i] EXCEPT !.deps = Sorted(q[i].deps)]
    BY <1>2, <1>3
  <2>3. s[i].id = q[i].id /\ s[i].deps = Sorted(q[i].deps)
    BY <2>0, <2>1, <2>2 DEF Rows
  <2> QED
    BY <2>1, <2>3, NumberKeys
<1> QED
  BY <1>3, <1>4, RowsHaveIds, SameIdsInOrder DEF q

\* Canonical executions are in order, and so are both their lists.
LEMMA ExecutionsInOrder ==
    ASSUME NEW s \in Seq(Rows.executions),
           s = [i \in DOMAIN SortedById(s) |->
                 [SortedById(s)[i] EXCEPT !.observations = Sorted(@), !.visibility = Sorted(@)]]
    PROVE  /\ InKeyOrder(s, ById0(Rows.executions))
           /\ \A i \in DOMAIN s : InKeyOrder(s[i].observations, AsNumber) /\ InKeyOrder(s[i].visibility, AsNumber)
<1> DEFINE q == SortedById(s)
<1>1. q \in Seq(Rows.executions)
  BY RowsHaveIds, SortedByIdFacts
<1>2. s = [i \in DOMAIN q |-> [q[i] EXCEPT !.observations = Sorted(@), !.visibility = Sorted(@)]]
  OBVIOUS
<1> HIDE DEF q
<1>3. DOMAIN s = DOMAIN q
  BY <1>2
<1>4. ASSUME NEW i \in DOMAIN s
      PROVE  /\ s[i].id = q[i].id
             /\ InKeyOrder(s[i].observations, AsNumber) /\ InKeyOrder(s[i].visibility, AsNumber)
  <2>0. q[i] \in Rows.executions
    BY <1>1, <1>3, ElementOf
  <2>1. q[i].observations \in Seq(Nat) /\ q[i].visibility \in Seq(Nat)
    BY <2>0 DEF Rows
  <2>2. s[i] = [q[i] EXCEPT !.observations = Sorted(q[i].observations), !.visibility = Sorted(q[i].visibility)]
    BY <1>2, <1>3
  <2>3. /\ s[i].id = q[i].id
        /\ s[i].observations = Sorted(q[i].observations) /\ s[i].visibility = Sorted(q[i].visibility)
    BY <2>0, <2>1, <2>2 DEF Rows
  <2> QED
    BY <2>1, <2>3, NumberKeys
<1> QED
  BY <1>3, <1>4, RowsHaveIds, SameIdsInOrder DEF q

\* Canonical visibility rows are in order, and so is their basis.
LEMMA VisibilityInOrder ==
    ASSUME NEW s \in Seq(Rows.visibility),
           s = [i \in DOMAIN SortedById(s) |-> [SortedById(s)[i] EXCEPT !.basis = Sorted(@)]]
    PROVE  /\ InKeyOrder(s, ById0(Rows.visibility))
           /\ \A i \in DOMAIN s : InKeyOrder(s[i].basis, AsNumber)
<1> DEFINE q == SortedById(s)
<1>1. q \in Seq(Rows.visibility)
  BY RowsHaveIds, SortedByIdFacts
<1>2. s = [i \in DOMAIN q |-> [q[i] EXCEPT !.basis = Sorted(@)]]
  OBVIOUS
<1> HIDE DEF q
<1>3. DOMAIN s = DOMAIN q
  BY <1>2
<1>4. ASSUME NEW i \in DOMAIN s PROVE s[i].id = q[i].id /\ InKeyOrder(s[i].basis, AsNumber)
  <2>0. q[i] \in Rows.visibility
    BY <1>1, <1>3
  <2>1. q[i].basis \in Seq(Nat)
    BY <2>0 DEF Rows
  <2>2. s[i] = [q[i] EXCEPT !.basis = Sorted(q[i].basis)]
    BY <1>2, <1>3
  <2>3. s[i].id = q[i].id /\ s[i].basis = Sorted(q[i].basis)
    BY <2>0, <2>1, <2>2 DEF Rows
  <2> QED
    BY <2>1, <2>3, NumberKeys
<1> QED
  BY <1>3, <1>4, RowsHaveIds, SameIdsInOrder DEF q

\* Canonical claims are in order, and so are their three lists.
LEMMA ClaimsInOrder ==
    ASSUME NEW s \in Seq(Rows.claims),
           s = [i \in DOMAIN SortedById(s) |-> CanonicalClaim(SortedById(s)[i])]
    PROVE  /\ InKeyOrder(s, ById0(Rows.claims))
           /\ \A i \in DOMAIN s :
                /\ InKeyOrder(s[i].support, AsRef) /\ InKeyOrder(s[i].contra, AsRef)
                /\ InKeyOrder(s[i].missing, AsNumber)
<1> DEFINE q == SortedById(s)
<1>1. q \in Seq(Rows.claims)
  BY RowsHaveIds, SortedByIdFacts
<1>2. s = [i \in DOMAIN q |-> CanonicalClaim(q[i])]
  OBVIOUS
<1> HIDE DEF q
<1>3. DOMAIN s = DOMAIN q /\ \A i \in DOMAIN s : s[i] = CanonicalClaim(q[i])
  BY <1>2
<1>4. ASSUME NEW i \in DOMAIN s
      PROVE  /\ s[i].id = q[i].id
             /\ InKeyOrder(s[i].support, AsRef) /\ InKeyOrder(s[i].contra, AsRef)
             /\ InKeyOrder(s[i].missing, AsNumber)
  <2>1. q[i] \in Rows.claims
    BY <1>1, <1>3
  <2>2. q[i].support \in Seq(Ref) /\ q[i].contra \in Seq(Ref) /\ q[i].missing \in Seq(Nat)
    BY <2>1 DEF Rows
  <2>3. /\ s[i].id = q[i].id
        /\ s[i].support = SortedRefs(q[i].support) /\ s[i].contra = SortedRefs(q[i].contra)
        /\ s[i].missing = Sorted(q[i].missing)
    BY <1>3, <2>1, CanonicalClaimType
  <2>4. InKeyOrder(SortedRefs(q[i].support), AsRef) /\ InKeyOrder(SortedRefs(q[i].contra), AsRef)
    BY <2>2, RefKeys
  <2>5. InKeyOrder(Sorted(q[i].missing), AsNumber)
    BY <2>2, NumberKeys
  <2> QED
    BY <2>3, <2>4, <2>5
<1> QED
  BY <1>3, <1>4, RowsHaveIds, SameIdsInOrder DEF q

\* Canonical findings are in order, and so are their three lists.
LEMMA FindingsInOrder ==
    ASSUME NEW S, NEW e, e.branches \in Seq(S), NEW s \in Seq(Rows.findings),
           s = [i \in DOMAIN SortedById(s) |-> CanonicalFinding(e, SortedById(s)[i])]
    PROVE  /\ InKeyOrder(s, ById0(Rows.findings))
           /\ \A i \in DOMAIN s :
                /\ InKeyOrder(s[i].branches, BranchKey(e)) /\ InKeyOrder(s[i].positions, PositionKey(e))
                /\ InKeyOrder(s[i].claims, AsNumber)
<1> DEFINE q == SortedById(s)
<1>1. q \in Seq(Rows.findings)
  BY RowsHaveIds, SortedByIdFacts
<1>2. s = [i \in DOMAIN q |-> CanonicalFinding(e, q[i])]
  OBVIOUS
<1> HIDE DEF q
<1>3. DOMAIN s = DOMAIN q /\ \A i \in DOMAIN s : s[i] = CanonicalFinding(e, q[i])
  BY <1>2
<1>4. ASSUME NEW i \in DOMAIN s
      PROVE  /\ s[i].id = q[i].id
             /\ InKeyOrder(s[i].branches, BranchKey(e)) /\ InKeyOrder(s[i].positions, PositionKey(e))
             /\ InKeyOrder(s[i].claims, AsNumber)
  <2>1. q[i] \in Rows.findings
    BY <1>1, <1>3
  <2> DEFINE x == q[i]
             g == CanonicalFinding(e, x)
  <2>2. s[i] = g
    BY <1>3
  <2> HIDE DEF x
  <2>3. x \in Rows.findings
    BY <2>1 DEF x
  <2>4. /\ g.id = x.id
        /\ InKeyOrder(g.branches, BranchKey(e)) /\ InKeyOrder(g.positions, PositionKey(e))
        /\ InKeyOrder(g.claims, AsNumber)
    BY <2>3, CanonicalFindingType
  <2> HIDE DEF g
  <2> QED
    BY <2>2, <2>4 DEF x
<1> QED
  BY <1>3, <1>4, RowsHaveIds, SameIdsInOrder DEF q

\* A run that is its own canonical form: every collection and every list in order.
LEMMA InOrderFacts ==
    ASSUME NEW r \in Run, InOrder(r)
    PROVE  /\ RowsInOrder(r) /\ ListsInOrder(r)
           /\ CanonicalBranches(r.branches).ok /\ CanonicalBranches(r.branches).branches = r.branches
<1> DEFINE e == CanonicalEvidence(r)
<1>1. CanonicalBranches(r.branches).ok /\ Shaped(r, e, r)
  BY RunFields, CanonicalFields DEF InOrder
<1> HIDE DEF e
<1>2. e.branches = r.branches /\ CanonicalBranches(r.branches).branches = r.branches
  BY <1>1 DEF Shaped
<1>3. BranchKey(e) = BranchKey(r) /\ PositionKey(e) = PositionKey(r)
  BY <1>2 DEF BranchKey, PositionKey, BranchIndex
<1>4. /\ InKeyOrder(r.entities, ById0(Rows.entities)) /\ InKeyOrder(r.vantages, ById0(Rows.vantages))
      /\ InKeyOrder(r.assertions, ById0(Rows.assertions))
      /\ InKeyOrder(r.observations, ById0(Rows.observations))
  <2>1. /\ r.entities = SortedById(r.entities) /\ r.vantages = SortedById(r.vantages)
        /\ r.assertions = SortedById(r.assertions) /\ r.observations = SortedById(r.observations)
    BY <1>1 DEF Shaped
  <2> QED
    BY <2>1, RunFields, RowsHaveIds, SortedByIdFacts
<1>5. /\ r.edges = [i \in DOMAIN SortedById(r.edges) |->
                [SortedById(r.edges)[i] EXCEPT !.refs = SortedRefs(@)]]
      /\ r.checks = [i \in DOMAIN SortedById(r.checks) |-> [SortedById(r.checks)[i] EXCEPT !.deps = Sorted(@)]]
      /\ r.executions = [i \in DOMAIN SortedById(r.executions) |->
                [SortedById(r.executions)[i] EXCEPT !.observations = Sorted(@), !.visibility = Sorted(@)]]
      /\ r.visibility = [i \in DOMAIN SortedById(r.visibility) |->
                [SortedById(r.visibility)[i] EXCEPT !.basis = Sorted(@)]]
      /\ r.claims = [i \in DOMAIN SortedById(r.claims) |-> CanonicalClaim(SortedById(r.claims)[i])]
      /\ r.findings = [i \in DOMAIN SortedById(r.findings) |-> CanonicalFinding(e, SortedById(r.findings)[i])]
  BY <1>1 DEF Shaped
<1>6. /\ r.edges \in Seq(Rows.edges) /\ r.checks \in Seq(Rows.checks)
      /\ r.executions \in Seq(Rows.executions) /\ r.visibility \in Seq(Rows.visibility)
      /\ r.claims \in Seq(Rows.claims) /\ r.findings \in Seq(Rows.findings)
      /\ e.branches \in Seq(Rows.branches)
  BY <1>2, RunFields
<1>7. /\ InKeyOrder(r.edges, ById0(Rows.edges))
      /\ \A i \in DOMAIN r.edges : InKeyOrder(r.edges[i].refs, AsRef)
  BY <1>5, <1>6, EdgesInOrder
<1>8. /\ InKeyOrder(r.checks, ById0(Rows.checks))
      /\ \A i \in DOMAIN r.checks : InKeyOrder(r.checks[i].deps, AsNumber)
  BY <1>5, <1>6, ChecksInOrder
<1>9. /\ InKeyOrder(r.executions, ById0(Rows.executions))
      /\ \A i \in DOMAIN r.executions :
           /\ InKeyOrder(r.executions[i].observations, AsNumber)
           /\ InKeyOrder(r.executions[i].visibility, AsNumber)
  BY <1>5, <1>6, ExecutionsInOrder
<1>10. /\ InKeyOrder(r.visibility, ById0(Rows.visibility))
       /\ \A i \in DOMAIN r.visibility : InKeyOrder(r.visibility[i].basis, AsNumber)
  BY <1>5, <1>6, VisibilityInOrder
<1>11. /\ InKeyOrder(r.claims, ById0(Rows.claims))
       /\ \A i \in DOMAIN r.claims :
            /\ InKeyOrder(r.claims[i].support, AsRef) /\ InKeyOrder(r.claims[i].contra, AsRef)
            /\ InKeyOrder(r.claims[i].missing, AsNumber)
  BY <1>5, <1>6, ClaimsInOrder
<1>12. /\ InKeyOrder(r.findings, ById0(Rows.findings))
       /\ \A i \in DOMAIN r.findings :
            /\ InKeyOrder(r.findings[i].branches, BranchKey(e))
            /\ InKeyOrder(r.findings[i].positions, PositionKey(e))
            /\ InKeyOrder(r.findings[i].claims, AsNumber)
  <2> DEFINE B == Rows.branches
             f == r.findings
  <2>1. e.branches \in Seq(B) /\ f \in Seq(Rows.findings)
        /\ f = [i \in DOMAIN SortedById(f) |-> CanonicalFinding(e, SortedById(f)[i])]
    BY <1>5, <1>6
  <2> HIDE DEF B, f
  <2>2. /\ InKeyOrder(f, ById0(Rows.findings))
        /\ \A i \in DOMAIN f :
             /\ InKeyOrder(f[i].branches, BranchKey(e)) /\ InKeyOrder(f[i].positions, PositionKey(e))
             /\ InKeyOrder(f[i].claims, AsNumber)
    BY <2>1, FindingsInOrder
  <2> QED
    BY <2>2 DEF f
<1>13. ListsInOrder(r)
  BY <1>3, <1>7, <1>8, <1>9, <1>10, <1>11, <1>12 DEF ListsInOrder
<1> QED
  BY <1>1, <1>2, <1>4, <1>7, <1>8, <1>9, <1>10, <1>11, <1>12, <1>13 DEF RowsInOrder
====
