------------------------------- MODULE SetFacts -------------------------------
(***************************************************************************)
(* Facts about SumFunctionOnSet, the sum of the values of a function at the  *)
(* members of a finite set.  The library defines it by a recursion that      *)
(* chooses the members one by one; what the proofs about totals need is that *)
(* the order makes no difference.                                            *)
(***************************************************************************)
EXTENDS FiniteSetsExt, FiniteSetTheorems, TLAPS

\* Induction over the subsets of a finite set, for a set Good of subsets: what
\* is not in Good has a minimal member.
LEMMA SubsetInduction ==
    ASSUME NEW S, IsFiniteSet(S), NEW Good,
           \A T \in SUBSET S : (\A U \in SUBSET T : U # T => U \in Good) => T \in Good
    PROVE  S \in Good
<1> DEFINE Bad == (SUBSET S) \ Good
           R == StrictSubsetOrdering(S)
<1> SUFFICES ASSUME S \notin Good PROVE FALSE
  OBVIOUS
<1>1. Bad \subseteq FiniteSubsetsOf(S) /\ Bad # {}
  BY FS_FiniteSubsetsOfFinite
<1>2. IsWellFoundedOn(R, FiniteSubsetsOf(S))
  BY FS_StrictSubsetOrderingWellFounded
<1>3. \E T \in Bad : \A U \in Bad : ~(<<U, T>> \in R)
  <2> HIDE DEF Bad, R
  <2> QED
    BY <1>1, <1>2, WFMin
<1>4. PICK T \in Bad : \A U \in Bad : ~(<<U, T>> \in R)
  BY <1>3
<1>5. \A U \in SUBSET T : U # T => U \in Good
  BY <1>4 DEF StrictSubsetOrdering
<1> QED
  BY <1>4, <1>5

-----------------------------------------------------------------------------
\* The equation that the function of partial sums, chosen in the definition of
\* SumFunctionOnSet(f, S), is meant to satisfy.
Member(s) == CHOOSE x \in s : TRUE

IsSumming(g, f, S) ==
    g = [s \in SUBSET S |->
            IF s = {} THEN 0 ELSE f[Member(s)] + g[s \ {Member(s)}]]

LEMMA SumIsChosen ==
    ASSUME NEW f, NEW S
    PROVE  SumFunctionOnSet(f, S) = (CHOOSE g : IsSumming(g, f, S))[S]
BY DEF SumFunctionOnSet, FoldFunctionOnSet, MapThenFoldSet, IsSumming, Member

LEMMA MemberIsOne == ASSUME NEW S, S # {} PROVE Member(S) \in S
BY DEF Member

\* Two such functions agree on a set that both are defined on.
LEMMA SummingUnique ==
    ASSUME NEW f, NEW S, NEW T, NEW g, NEW h, IsFiniteSet(S), S \subseteq T,
           IsSumming(g, f, S), IsSumming(h, f, T)
    PROVE  g[S] = h[S]
<1> DEFINE Good == {s \in SUBSET S : g[s] = h[s]}
<1>1. ASSUME NEW s \in SUBSET S, \A u \in SUBSET s : u # s => u \in Good
      PROVE  s \in Good
  <2>1. g[s] = IF s = {} THEN 0 ELSE f[Member(s)] + g[s \ {Member(s)}]
    BY DEF IsSumming
  <2>2. h[s] = IF s = {} THEN 0 ELSE f[Member(s)] + h[s \ {Member(s)}]
    BY DEF IsSumming
  <2>3. s # {} => g[s \ {Member(s)}] = h[s \ {Member(s)}]
    BY <1>1, MemberIsOne
  <2> QED
    BY <2>1, <2>2, <2>3
<1> HIDE DEF Good
<1>2. S \in Good
  BY <1>1, SubsetInduction
<1> QED
  BY <1>2 DEF Good

\* There is one for every finite set.
LEMMA SummingExists ==
    ASSUME NEW f, NEW S, IsFiniteSet(S)
    PROVE  \E g : IsSumming(g, f, S)
<1> DEFINE Good == {s \in SUBSET S : \E g : IsSumming(g, f, s)}
<1>1. ASSUME NEW T \in SUBSET S, \A u \in SUBSET T : u # T => u \in Good
      PROVE  T \in Good
  <2> DEFINE Sum(u) == (CHOOSE h : IsSumming(h, f, u))[u]
             g == [s \in SUBSET T |->
                     IF s = {} THEN 0 ELSE f[Member(s)] + Sum(s \ {Member(s)})]
  <2>1. ASSUME NEW u \in SUBSET T, u # T
        PROVE  Sum(u) = g[u]
    <3> DEFINE h == CHOOSE h : IsSumming(h, f, u)
    <3>1. IsSumming(h, f, u)
      BY <1>1, <2>1
    <3>2. CASE u = {}
      <4>1. h[u] = 0
        BY <3>1, <3>2 DEF IsSumming
      <4> QED
        BY <4>1, <3>2
    <3>3. CASE u # {}
      <4> DEFINE v == u \ {Member(u)}
                 k == CHOOSE k : IsSumming(k, f, v)
      <4>1. v \in SUBSET u /\ v # u /\ v \in SUBSET T /\ v # T
        BY <3>3, <2>1, MemberIsOne
      <4>2. IsSumming(k, f, v)
        BY <1>1, <4>1
      <4>3. IsFiniteSet(v)
        BY <4>1, FS_Subset
      <4>4. k[v] = h[v]
        <5> HIDE DEF v, k, h
        <5> QED
          BY <3>1, <4>1, <4>2, <4>3, SummingUnique
      <4>5. h[u] = f[Member(u)] + h[v]
        <5> HIDE DEF h
        <5> QED
          BY <3>1, <3>3 DEF IsSumming
      <4>6. g[u] = f[Member(u)] + k[v]
        BY <3>3
      <4>7. h[u] = g[u]
        <5> HIDE DEF v, k, h, g
        <5> QED
          BY <4>4, <4>5, <4>6
      <4> QED
        BY <4>7
    <3> QED
      BY <3>2, <3>3
  <2>2. ASSUME NEW s \in SUBSET T, s # {}
        PROVE  Sum(s \ {Member(s)}) = g[s \ {Member(s)}]
    <3>1. s \ {Member(s)} \in SUBSET T /\ s \ {Member(s)} # T
      BY <2>2, MemberIsOne
    <3> HIDE DEF Sum, g
    <3> QED
      BY <3>1, <2>1
  <2> HIDE DEF Sum
  <2>3. IsSumming(g, f, T)
    <3>1. \A s \in SUBSET T : g[s] = IF s = {} THEN 0 ELSE f[Member(s)] + g[s \ {Member(s)}]
      BY <2>2
    <3>2. g = [s \in SUBSET T |-> g[s]]
      OBVIOUS
    <3> HIDE DEF g
    <3> QED
      BY <3>1, <3>2 DEF IsSumming
  <2> QED
    BY <2>3
<1> HIDE DEF Good
<1>2. S \in Good
  BY <1>1, SubsetInduction
<1> QED
  BY <1>2 DEF Good

-----------------------------------------------------------------------------
LEMMA SumEmpty == ASSUME NEW f PROVE SumFunctionOnSet(f, {}) = 0
<1> DEFINE g == CHOOSE g : IsSumming(g, f, {})
<1>1. IsSumming(g, f, {})
  BY FS_EmptySet, SummingExists
<1>2. g[{}] = 0
  <2> HIDE DEF g
  <2> QED
    BY <1>1 DEF IsSumming
<1> QED
  BY <1>2, SumIsChosen

\* The sum, without the member the definition happens to choose.
LEMMA SumRecursion ==
    ASSUME NEW f, NEW S, IsFiniteSet(S), S # {}
    PROVE  SumFunctionOnSet(f, S) =
              f[Member(S)] + SumFunctionOnSet(f, S \ {Member(S)})
<1> DEFINE T == S \ {Member(S)}
           g == CHOOSE g : IsSumming(g, f, S)
           h == CHOOSE h : IsSumming(h, f, T)
<1>1. IsFiniteSet(T) /\ T \subseteq S
  BY FS_Subset
<1>2. IsSumming(g, f, S) /\ IsSumming(h, f, T)
  BY <1>1, SummingExists
<1>3. h[T] = g[T]
  <2> HIDE DEF T, g, h
  <2> QED
    BY <1>1, <1>2, SummingUnique
<1>4. g[S] = f[Member(S)] + g[T]
  <2> HIDE DEF g
  <2> QED
    BY <1>2 DEF IsSumming
<1>5. SumFunctionOnSet(f, S) = g[S] /\ SumFunctionOnSet(f, T) = h[T]
  BY SumIsChosen
<1> HIDE DEF g, h
<1> QED
  BY <1>3, <1>4, <1>5

LEMMA SumType ==
    ASSUME NEW f, NEW S, IsFiniteSet(S), \A x \in S : f[x] \in Int
    PROVE  SumFunctionOnSet(f, S) \in Int
<1> DEFINE Good == {T \in SUBSET S : SumFunctionOnSet(f, T) \in Int}
<1>1. ASSUME NEW T \in SUBSET S, \A U \in SUBSET T : U # T => U \in Good
      PROVE  T \in Good
  <2>1. CASE T = {}
    BY <2>1, SumEmpty
  <2>2. CASE T # {}
    <3>1. IsFiniteSet(T) /\ Member(T) \in T
      BY <2>2, FS_Subset, MemberIsOne
    <3>2. SumFunctionOnSet(f, T \ {Member(T)}) \in Int
      BY <1>1, <3>1
    <3>3. f[Member(T)] \in Int
      BY <3>1
    <3> QED
      BY <2>2, <3>1, <3>2, <3>3, SumRecursion
  <2> QED
    BY <2>1, <2>2
<1> HIDE DEF Good
<1>2. S \in Good
  BY <1>1, SubsetInduction
<1> QED
  BY <1>2 DEF Good

\* Any member may be taken out.
LEMMA SumRemove ==
    ASSUME NEW f, NEW S, IsFiniteSet(S), \A x \in S : f[x] \in Int, NEW x \in S
    PROVE  SumFunctionOnSet(f, S) = f[x] + SumFunctionOnSet(f, S \ {x})
<1> DEFINE Total(T) == SumFunctionOnSet(f, T)
           Good == {T \in SUBSET S : \A y \in T : Total(T) = f[y] + Total(T \ {y})}
<1>1. ASSUME NEW T \in SUBSET S, \A U \in SUBSET T : U # T => U \in Good
      PROVE  T \in Good
  <2> SUFFICES ASSUME NEW y \in T PROVE Total(T) = f[y] + Total(T \ {y})
    OBVIOUS
  <2> DEFINE c == Member(T)
             V == (T \ {c}) \ {y}
  <2>1. IsFiniteSet(T) /\ c \in T
    BY FS_Subset, MemberIsOne
  <2>2. Total(T) = f[c] + Total(T \ {c})
    BY <2>1, SumRecursion
  <2>3. CASE y = c
    BY <2>2, <2>3
  <2>4. CASE y # c
    <3>1. T \ {c} \in Good /\ T \ {y} \in Good
      BY <1>1, <2>1
    <3>2. Total(T \ {c}) = f[y] + Total(V)
      BY <3>1, <2>4
    <3>3. Total(T \ {y}) = f[c] + Total((T \ {y}) \ {c})
      BY <3>1, <2>1, <2>4
    <3>4. Total(T \ {y}) = f[c] + Total(V)
      <4>1. (T \ {y}) \ {c} = V
        OBVIOUS
      <4> QED
        BY <3>3, <4>1
    <3>5. f[c] \in Int /\ f[y] \in Int
      BY <2>1
    <3>6. Total(V) \in Int
      <4>1. IsFiniteSet(V) /\ \A z \in V : f[z] \in Int
        BY <2>1, FS_Subset
      <4> QED
        BY <4>1, SumType
    <3> DEFINE t == Total(T)
               tc == Total(T \ {c})
               ty == Total(T \ {y})
               v == Total(V)
    <3>7. t = f[c] + tc /\ tc = f[y] + v /\ ty = f[c] + v /\ v \in Int
      BY <2>2, <3>2, <3>4, <3>6
    <3> HIDE DEF t, tc, ty, v
    <3>8. t = f[y] + ty
      BY <3>5, <3>7
    <3> QED
      BY <3>8 DEF t, ty
  <2> QED
    BY <2>3, <2>4
<1> HIDE DEF Good
<1>2. S \in Good
  BY <1>1, SubsetInduction
<1> QED
  BY <1>2 DEF Good

\* The sum depends on the values at the members only.
LEMMA SumSameValues ==
    ASSUME NEW f, NEW g, NEW S, IsFiniteSet(S), \A x \in S : f[x] = g[x]
    PROVE  SumFunctionOnSet(f, S) = SumFunctionOnSet(g, S)
<1> DEFINE Good == {T \in SUBSET S : SumFunctionOnSet(f, T) = SumFunctionOnSet(g, T)}
<1>1. ASSUME NEW T \in SUBSET S, \A U \in SUBSET T : U # T => U \in Good
      PROVE  T \in Good
  <2>1. CASE T = {}
    BY <2>1, SumEmpty
  <2>2. CASE T # {}
    <3>1. IsFiniteSet(T) /\ Member(T) \in T
      BY <2>2, FS_Subset, MemberIsOne
    <3>2. T \ {Member(T)} \in Good
      BY <1>1, <3>1
    <3> QED
      BY <2>2, <3>1, <3>2, SumRecursion
  <2> QED
    BY <2>1, <2>2
<1> HIDE DEF Good
<1>2. S \in Good
  BY <1>1, SubsetInduction
<1> QED
  BY <1>2 DEF Good

LEMMA SumDisjointUnion ==
    ASSUME NEW f, NEW S, NEW T, IsFiniteSet(S), IsFiniteSet(T), S \cap T = {},
           \A x \in S \cup T : f[x] \in Int
    PROVE  SumFunctionOnSet(f, S \cup T) = SumFunctionOnSet(f, S) + SumFunctionOnSet(f, T)
<1> DEFINE Total(U) == SumFunctionOnSet(f, U)
           Good == {U \in SUBSET T : Total(S \cup U) = Total(S) + Total(U)}
<1>0. Total(S) \in Int
  BY SumType
<1>1. ASSUME NEW U \in SUBSET T, \A V \in SUBSET U : V # U => V \in Good
      PROVE  U \in Good
  <2>1. CASE U = {}
    <3>1. Total(U) = 0 /\ Total(S \cup U) = Total(S)
      <4>1. S \cup U = S
        BY <2>1
      <4> QED
        BY <2>1, <4>1, SumEmpty
    <3>2. Total(S \cup U) = Total(S) + Total(U)
      BY <1>0, <3>1
    <3> QED
      BY <3>2
  <2>2. CASE U # {}
    <3>1. PICK x \in U : TRUE
      BY <2>2
    <3>2. /\ IsFiniteSet(U) /\ IsFiniteSet(U \ {x}) /\ IsFiniteSet(S \cup U)
          /\ \A y \in S \cup U : f[y] \in Int
      BY FS_Subset, FS_Union
    <3>3. Total(S \cup U) = f[x] + Total((S \cup U) \ {x}) /\ Total(U) = f[x] + Total(U \ {x})
      BY <3>1, <3>2, SumRemove
    <3>4. (S \cup U) \ {x} = S \cup (U \ {x})
      BY <3>1
    <3>5. Total(S \cup (U \ {x})) = Total(S) + Total(U \ {x})
      BY <1>1, <3>1
    <3>6. Total(U \ {x}) \in Int /\ f[x] \in Int
      BY <3>2, SumType
    <3>7. Total(S \cup U) = Total(S) + Total(U)
      <4> DEFINE a == Total(S)
                 b == Total(U)
                 c == Total(U \ {x})
                 d == Total(S \cup U)
                 e == Total(S \cup (U \ {x}))
      <4>1. d = f[x] + e /\ b = f[x] + c /\ e = a + c
        BY <3>3, <3>4, <3>5
      <4>2. a \in Int /\ c \in Int /\ f[x] \in Int
        BY <1>0, <3>6
      <4> HIDE DEF a, b, c, d, e
      <4>3. d = a + b
        BY <4>1, <4>2
      <4> QED
        BY <4>3 DEF a, b, d
    <3> QED
      BY <3>7
  <2> QED
    BY <2>1, <2>2
<1> HIDE DEF Good
<1>2. T \in Good
  BY <1>1, SubsetInduction
<1> QED
  BY <1>2 DEF Good

WithKey(k, key, S) == {x \in S : key[x] = k}

\* Summing by groups: the sums of the members that share a key, over all keys,
\* add up to the sum of the members.
LEMMA SumByKey ==
    ASSUME NEW f, NEW S, IsFiniteSet(S), \A x \in S : f[x] \in Int,
           NEW K, IsFiniteSet(K), NEW key, \A x \in S : key[x] \in K,
           NEW g, \A k \in K : g[k] = SumFunctionOnSet(f, WithKey(k, key, S))
    PROVE  SumFunctionOnSet(g, K) = SumFunctionOnSet(f, S)
<1> DEFINE Total(T) == SumFunctionOnSet(f, T)
           Of(L) == {x \in S : key[x] \in L}
           Group(k) == WithKey(k, key, S)
           Good == {L \in SUBSET K : SumFunctionOnSet(g, L) = Total(Of(L))}
<1>0. \A k \in K : g[k] \in Int /\ IsFiniteSet(Group(k))
  <2> SUFFICES ASSUME NEW k \in K PROVE g[k] \in Int /\ IsFiniteSet(Group(k))
    OBVIOUS
  <2>1. IsFiniteSet(Group(k)) /\ \A x \in Group(k) : f[x] \in Int
    BY FS_Subset DEF WithKey
  <2>2. Total(Group(k)) \in Int
    BY <2>1, SumType
  <2> QED
    BY <2>1, <2>2
<1>1. ASSUME NEW L \in SUBSET K, \A M \in SUBSET L : M # L => M \in Good
      PROVE  L \in Good
  <2>1. CASE L = {}
    <3>1. Of(L) = {}
      BY <2>1
    <3> QED
      BY <2>1, <3>1, SumEmpty
  <2>2. CASE L # {}
    <3>1. PICK k \in L : TRUE
      BY <2>2
    <3>2. IsFiniteSet(L) /\ \A l \in L : g[l] \in Int
      BY <1>0, FS_Subset
    <3>3. SumFunctionOnSet(g, L) = g[k] + SumFunctionOnSet(g, L \ {k})
      BY <3>1, <3>2, SumRemove
    <3>4. SumFunctionOnSet(g, L \ {k}) = Total(Of(L \ {k}))
      BY <1>1, <3>1
    <3>5. /\ Of(L) = Group(k) \cup Of(L \ {k}) /\ Group(k) \cap Of(L \ {k}) = {}
          /\ Of(L \ {k}) \in SUBSET S
      BY <3>1 DEF WithKey
    <3>6. IsFiniteSet(Group(k)) /\ IsFiniteSet(Of(L \ {k}))
      BY <1>0, <3>1, <3>5, FS_Subset
    <3>7. Total(Of(L)) = Total(Group(k)) + Total(Of(L \ {k}))
      <4>1. \A x \in Group(k) \cup Of(L \ {k}) : f[x] \in Int
        BY DEF WithKey
      <4> QED
        BY <3>5, <3>6, <4>1, SumDisjointUnion
    <3>8. g[k] = Total(Group(k))
      BY <3>1
    <3>9. SumFunctionOnSet(g, L) = Total(Of(L))
      <4> QED
        BY <3>3, <3>4, <3>7, <3>8
    <3> QED
      BY <3>9
  <2> QED
    BY <2>1, <2>2
<1> HIDE DEF Good
<1>2. K \in Good
  BY <1>1, SubsetInduction
<1>3. Of(K) = S
  OBVIOUS
<1> QED
  BY <1>2, <1>3 DEF Good

-----------------------------------------------------------------------------
LEMMA ImageFinite ==
    ASSUME NEW S, IsFiniteSet(S), NEW f
    PROVE  IsFiniteSet({f[x] : x \in S})
<1> DEFINE g == [x \in S |-> f[x]]
           T == {f[x] : x \in S}
<1>1. g \in Surjection(S, T)
  BY DEF Surjection
<1> HIDE DEF g, T
<1>2. IsFiniteSet(T)
  BY <1>1, FS_Surjection
<1> QED
  BY <1>2 DEF T

LEMMA MinIsLeast ==
    ASSUME NEW S \in SUBSET Int, IsFiniteSet(S), S # {}
    PROVE  Min(S) \in S /\ \A y \in S : Min(S) <= y
<1> DEFINE Good == {T \in SUBSET S : T = {} \/ \E x \in T : \A y \in T : x <= y}
<1>1. ASSUME NEW T \in SUBSET S, \A U \in SUBSET T : U # T => U \in Good
      PROVE  T \in Good
  <2>1. CASE \E x \in T : T # {x}
    <3>1. PICK x \in T : T # {x}
      BY <2>1
    <3>2. T \ {x} \in Good /\ T \ {x} # {}
      <4>1. T \ {x} \in SUBSET T /\ T \ {x} # T /\ T \ {x} # {}
        BY <3>1
      <4> HIDE DEF Good
      <4> QED
        BY <1>1, <4>1
    <3>3. PICK z \in T \ {x} : \A y \in T \ {x} : z <= y
      BY <3>2
    <3>4. CASE x <= z
      <4>1. \A y \in T : x <= y
        BY <3>3, <3>4
      <4> QED
        BY <4>1
    <3>5. CASE ~(x <= z)
      <4>1. \A y \in T : z <= y
        BY <3>3, <3>5
      <4> QED
        BY <4>1
    <3> QED
      BY <3>4, <3>5
  <2>2. CASE ~\E x \in T : T # {x}
    BY <2>2
  <2> QED
    BY <2>1, <2>2
<1> HIDE DEF Good
<1>2. S \in Good
  BY <1>1, SubsetInduction
<1>3. \E x \in S : \A y \in S : x <= y
  BY <1>2 DEF Good
<1> QED
  BY <1>3 DEF Min

-----------------------------------------------------------------------------
\* The place, from 1, of a member of a finite set in a strict total order R.
IsRanking(R, S) ==
    /\ \A x \in S : <<x, x>> \notin R
    /\ \A x, y, z \in S : <<x, y>> \in R /\ <<y, z>> \in R => <<x, z>> \in R
    /\ \A x, y \in S : x = y \/ <<x, y>> \in R \/ <<y, x>> \in R

Before(x, R, S) == {y \in S : <<y, x>> \in R}

Rank(x, R, S) == 1 + Cardinality(Before(x, R, S))

LEMMA RankType ==
    ASSUME NEW S, IsFiniteSet(S), NEW R, IsRanking(R, S), NEW x \in S
    PROVE  Rank(x, R, S) \in 1..Cardinality(S)
<1>1. Before(x, R, S) \in SUBSET S /\ Before(x, R, S) # S
  BY DEF Before, IsRanking
<1>2. Cardinality(Before(x, R, S)) < Cardinality(S)
  BY <1>1, FS_Subset, FS_CardinalityType
<1>3. Cardinality(Before(x, R, S)) \in Nat /\ Cardinality(S) \in Nat
  BY <1>1, FS_Subset, FS_CardinalityType
<1> QED
  BY <1>2, <1>3 DEF Rank

LEMMA RankOrdered ==
    ASSUME NEW S, IsFiniteSet(S), NEW R, IsRanking(R, S), NEW x \in S, NEW y \in S,
           <<x, y>> \in R
    PROVE  Rank(x, R, S) < Rank(y, R, S)
<1>1. IsFiniteSet(Before(y, R, S)) /\ IsFiniteSet(Before(x, R, S))
  BY FS_Subset DEF Before
<1>2. Before(x, R, S) \in SUBSET Before(y, R, S) /\ Before(x, R, S) # Before(y, R, S)
  BY DEF Before, IsRanking
<1>3. Cardinality(Before(x, R, S)) < Cardinality(Before(y, R, S))
  BY <1>1, <1>2, FS_Subset, FS_CardinalityType
<1>4. Cardinality(Before(x, R, S)) \in Nat /\ Cardinality(Before(y, R, S)) \in Nat
  BY <1>1, FS_CardinalityType
<1> QED
  BY <1>3, <1>4 DEF Rank

\* Every place is taken.
LEMMA RankOnto ==
    ASSUME NEW S, IsFiniteSet(S), NEW R, IsRanking(R, S), NEW k \in 1..Cardinality(S)
    PROVE  \E x \in S : Rank(x, R, S) = k
<1> DEFINE n == Cardinality(S)
           rank == [x \in S |-> Rank(x, R, S)]
<1>1. n \in Nat /\ IsFiniteSet(1..n) /\ Cardinality(1..n) = n
  BY FS_CardinalityType, FS_Interval
<1>2. rank \in [S -> 1..n]
  BY RankType
<1>3. ASSUME NEW x \in S, NEW y \in S, rank[x] = rank[y] PROVE x = y
  <2>1. rank[x] \in Int /\ rank[y] \in Int
    BY <1>2, <1>1
  <2>2. <<x, y>> \in R => rank[x] < rank[y]
    BY RankOrdered
  <2>3. <<y, x>> \in R => rank[y] < rank[x]
    BY RankOrdered
  <2> HIDE DEF rank
  <2>4. <<x, y>> \notin R /\ <<y, x>> \notin R
    BY <1>3, <2>1, <2>2, <2>3
  <2> QED
    BY <2>4 DEF IsRanking
<1>4. rank \in Injection(S, 1..n)
  <2> HIDE DEF rank, n
  <2> QED
    BY <1>2, <1>3 DEF Injection, IsInjective
<1>5. rank \in Surjection(S, 1..n)
  <2> HIDE DEF rank
  <2> QED
    BY <1>1, <1>4, FS_Injection
<1> QED
  BY <1>5 DEF Surjection

-----------------------------------------------------------------------------
\* Powers of two count subsets.
LEMMA PowerIsSubsets ==
    ASSUME NEW n \in Nat
    PROVE  2^n = Cardinality(SUBSET (1..n)) /\ 2^n \in Nat
<1>1. IsFiniteSet(1..n) /\ Cardinality(1..n) = n
  BY FS_Interval
<1>2. IsFiniteSet(SUBSET (1..n)) /\ Cardinality(SUBSET (1..n)) = 2^n
  BY <1>1, FS_SUBSET
<1> QED
  BY <1>2, FS_CardinalityType

LEMMA PowerOfZero == 2^0 = 1
<1>1. SUBSET (1..0) = {{}}
  OBVIOUS
<1> QED
  BY <1>1, PowerIsSubsets, FS_Singleton

LEMMA PowerDoubles ==
    ASSUME NEW n \in Nat
    PROVE  2^(n + 1) = 2 * 2^n
<1> DEFINE A == SUBSET (1..n)
           B == {s \in SUBSET (1..(n + 1)) : n + 1 \in s}
           f == [s \in A |-> s \cup {n + 1}]
<1>1. IsFiniteSet(A)
  <2>1. IsFiniteSet(1..n)
    BY FS_Interval
  <2> QED
    BY <2>1, FS_SUBSET
<1>2. f \in Bijection(A, B)
  <2>1. f \in [A -> B]
    OBVIOUS
  <2>2. \A s, t \in A : f[s] = f[t] => s = t
    <3> SUFFICES ASSUME NEW s \in A, NEW t \in A, s \cup {n + 1} = t \cup {n + 1} PROVE s = t
      OBVIOUS
    <3>1. n + 1 \notin s /\ n + 1 \notin t
      OBVIOUS
    <3> QED
      BY <3>1
  <2>3. \A u \in B : \E s \in A : f[s] = u
    <3> SUFFICES ASSUME NEW u \in B PROVE \E s \in A : f[s] = u
      OBVIOUS
    <3>1. u \ {n + 1} \in A
      OBVIOUS
    <3>2. f[u \ {n + 1}] = u
      BY <3>1
    <3> QED
      BY <3>1, <3>2
  <2> HIDE DEF A, B, f
  <2> QED
    BY <2>1, <2>2, <2>3 DEF Bijection, Injection, Surjection, IsInjective
<1>3. IsFiniteSet(B) /\ Cardinality(B) = Cardinality(A)
  <2> HIDE DEF A, B, f
  <2> QED
    BY <1>1, <1>2, FS_Bijection DEF ExistsBijection
<1>4. A \cap B = {} /\ A \cup B = SUBSET (1..(n + 1))
  OBVIOUS
<1>5. Cardinality(A \cup B) = Cardinality(A) + Cardinality(B) - Cardinality({})
  <2> HIDE DEF A, B
  <2> QED
    BY <1>1, <1>3, <1>4, FS_Union
<1>6. Cardinality(A) = 2^n /\ Cardinality(A \cup B) = 2^(n + 1) /\ 2^n \in Nat
  BY <1>4, PowerIsSubsets
<1> HIDE DEF A, B
<1> QED
  BY <1>3, <1>5, <1>6, FS_EmptySet
=============================================================================
