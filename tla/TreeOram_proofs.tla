-------------------------- MODULE TreeOram_proofs ---------------------------
(***************************************************************************)
(* The tree ORAM, for every size: its two trees stay search trees whose    *)
(* parent pointers lead back, every index is in one place, the pools stay  *)
(* bounded, and where the real query is always among the queries made, the *)
(* two trees are an array.                                                 *)
(*                                                                         *)
(* The sets of nodes below a node are not computed from the pointers but   *)
(* carried along: a tree is a root, three pointer functions, the set S of  *)
(* its nodes and a function D that has for each node what is below it, and *)
(* a change of pointers comes with a change of D.                          *)
(***************************************************************************)
EXTENDS TreeOram, Recursion, FiniteSetTheorems

-----------------------------------------------------------------------------
(* Search trees with parent pointers, and the removal of a node that has   *)
(* one child at most.                                                      *)

\* The root is above all others and has no parent.
Rooted(r, P, S, D) ==
    IF r = Nil THEN S = {}
    ELSE r \in S /\ P[r] = Nil /\ \A m \in S : m \in D[r]

\* To the left of a node are those below it that are less.
LeftBelow(L, P, S, D) ==
    \A n \in S : /\ L[n] = Nil => \A m \in D[n] : m >= n
                 /\ L[n] # Nil => /\ L[n] \in S /\ P[L[n]] = n
                                  /\ \A m \in Index : m \in D[L[n]] <=> m \in D[n] /\ m < n

\* To the right of a node are those below it that are greater.
RightBelow(R, P, S, D) ==
    \A n \in S : /\ R[n] = Nil => \A m \in D[n] : m <= n
                 /\ R[n] # Nil => /\ R[n] \in S /\ P[R[n]] = n
                                  /\ \A m \in Index : m \in D[R[n]] <=> m \in D[n] /\ m > n

\* Every node but the root is a child of its parent.
ParentAbove(r, L, R, P, S) ==
    \A n \in S : n # r => P[n] \in S /\ (L[P[n]] = n \/ R[P[n]] = n)

\* What is below a node that is below another is below the other.
Nested(P, S, D) ==
    \A n \in S : /\ n \in D[n]
                 /\ \A m \in D[n] : /\ m \in S
                                    /\ \A k \in D[m] : k \in D[n]
                                    /\ m # n => P[m] \in D[n]

\* The nodes of S, linked by L, R and P below the root r, are a search tree in
\* which D has for each node the nodes below it, itself included.
Tree(r, L, R, P, S, D) ==
    /\ S \subseteq Index
    /\ Rooted(r, P, S, D)
    /\ LeftBelow(L, P, S, D)
    /\ RightBelow(R, P, S, D)
    /\ ParentAbove(r, L, R, P, S)
    /\ Nested(P, S, D)

\* The pointers of one kind, one for each node.
Links == [Index -> Link]

\* Indices are numbers, and none of them stands for no node.
LEMMA IndexIsInt == Index \subseteq Int /\ Nil \notin Index /\ Nil \in Link
BY SizeAssumption DEF Index, Nil, Link

\* Of two nodes below each other, there is one.
LEMMA NotBoth ==
    ASSUME NEW r, NEW L, NEW R, NEW P, NEW S, NEW D, Tree(r, L, R, P, S, D),
           NEW n \in S, NEW m \in D[n], n \in D[m]
    PROVE  m = n
<1>0. n \in Int /\ m \in Int /\ m \in S /\ n \in Index /\ m \in Index
  BY IndexIsInt DEF Tree, Nested
<1>1. CASE m < n
  <2>1. L[n] # Nil /\ m \in D[L[n]] /\ L[n] \in S
    BY <1>0, <1>1 DEF Tree, LeftBelow
  <2>2. n \in D[L[n]]
    BY <2>1 DEF Tree, Nested
  <2> QED BY <1>0, <2>1, <2>2 DEF Tree, LeftBelow
<1>2. CASE m > n
  <2>1. R[n] # Nil /\ m \in D[R[n]] /\ R[n] \in S
    BY <1>0, <1>2 DEF Tree, RightBelow
  <2>2. n \in D[R[n]]
    BY <2>1 DEF Tree, Nested
  <2> QED BY <1>0, <2>1, <2>2 DEF Tree, RightBelow
<1> QED BY <1>0, <1>1, <1>2

\* The only child x of c takes its place.
Spliced(r, L, R, P, c, x, r2, L2, R2, P2) ==
    /\ r2 = IF P[c] = Nil THEN x ELSE r
    /\ \A n \in Index : /\ L2[n] = IF P[c] # Nil /\ n = P[c] /\ L[n] = c THEN x ELSE L[n]
                        /\ R2[n] = IF P[c] # Nil /\ n = P[c] /\ R[n] = c THEN x ELSE R[n]
                        /\ P2[n] = IF n = x THEN P[c] ELSE P[n]

\* A node with at most one child is taken out.
LEMMA SpliceTree ==
    ASSUME NEW r \in Link, NEW L \in Links, NEW R \in Links, NEW P \in Links, NEW S, NEW D, Tree(r, L, R, P, S, D),
           NEW c \in S, NEW x \in Link,
           \/ L[c] = Nil /\ x = R[c]
           \/ R[c] = Nil /\ x = L[c],
           NEW r2, NEW L2, NEW R2, NEW P2, Spliced(r, L, R, P, c, x, r2, L2, R2, P2)
    PROVE  Tree(r2, L2, R2, P2, S \ {c}, [n \in Index |-> D[n] \ {c}])
<1> DEFINE T == S \ {c}  E == [n \in Index |-> D[n] \ {c}]
<1>h. /\ r2 = IF P[c] = Nil THEN x ELSE r
      /\ \A n \in Index : /\ L2[n] = IF P[c] # Nil /\ n = P[c] /\ L[n] = c THEN x ELSE L[n]
                          /\ R2[n] = IF P[c] # Nil /\ n = P[c] /\ R[n] = c THEN x ELSE R[n]
                          /\ P2[n] = IF n = x THEN P[c] ELSE P[n]
  BY DEF Spliced
<1> USE <1>h
<1>0. S \subseteq Index /\ Index \subseteq Int /\ Nil \notin Index /\ c \in Index /\ c \in Int
  BY IndexIsInt DEF Tree
<1>e. \A n \in Index : \A m : m \in E[n] <=> m \in D[n] /\ m # c
  OBVIOUS
<1> HIDE DEF E
<1>r. Rooted(r, P, S, D) /\ LeftBelow(L, P, S, D) /\ RightBelow(R, P, S, D) /\ ParentAbove(r, L, R, P, S) /\ Nested(P, S, D)
  BY DEF Tree
<1>c. c = r <=> P[c] = Nil
  BY <1>r, <1>0 DEF Rooted, ParentAbove
<1>d. \A n \in S : n \in D[n] /\ \A m \in D[n] : m \in S /\ m \in Index /\ m \in Int
  BY <1>r, <1>0 DEF Nested
<1>x. /\ x = Nil => \A m \in D[c] : m = c
      /\ x # Nil => /\ x \in S /\ x # c /\ P[x] = c
                    /\ \A m \in Index : m \in D[x] <=> m \in D[c] /\ m # c
  <2>1. ASSUME L[c] = Nil, x = R[c]
        PROVE  /\ x = Nil => \A m \in D[c] : m = c
               /\ x # Nil => /\ x \in S /\ x # c /\ P[x] = c
                             /\ \A m \in Index : m \in D[x] <=> m \in D[c] /\ m # c
    <3>1. \A m \in D[c] : m >= c
      BY <2>1, <1>r DEF LeftBelow
    <3>2. ASSUME x = Nil, NEW m \in D[c] PROVE m = c
      <4>1. m <= c
        BY <2>1, <3>2, <1>r DEF RightBelow
      <4>2. m >= c /\ m \in Int
        BY <3>1, <1>d
      <4> QED BY <4>1, <4>2, <1>0
    <3>3. x # Nil => x \in S /\ P[x] = c /\ \A m \in Index : m \in D[x] <=> m \in D[c] /\ m > c
      BY <2>1, <1>r DEF RightBelow
    <3>4. \A m \in D[c] : m > c <=> m # c
      BY <3>1, <1>d, <1>0
    <3>5. x # Nil => x # c
      BY <3>3, <3>4, <1>d, <1>0
    <3> QED BY <3>2, <3>3, <3>4, <3>5
  <2>2. ASSUME R[c] = Nil, x = L[c]
        PROVE  /\ x = Nil => \A m \in D[c] : m = c
               /\ x # Nil => /\ x \in S /\ x # c /\ P[x] = c
                             /\ \A m \in Index : m \in D[x] <=> m \in D[c] /\ m # c
    <3>1. \A m \in D[c] : m <= c
      BY <2>2, <1>r DEF RightBelow
    <3>2. ASSUME x = Nil, NEW m \in D[c] PROVE m = c
      <4>1. m >= c
        BY <2>2, <3>2, <1>r DEF LeftBelow
      <4>2. m <= c /\ m \in Int
        BY <3>1, <1>d
      <4> QED BY <4>1, <4>2, <1>0
    <3>3. x # Nil => x \in S /\ P[x] = c /\ \A m \in Index : m \in D[x] <=> m \in D[c] /\ m < c
      BY <2>2, <1>r DEF LeftBelow
    <3>4. \A m \in D[c] : m < c <=> m # c
      BY <3>1, <1>d, <1>0
    <3>5. x # Nil => x # c
      BY <3>3, <3>4, <1>d, <1>0
    <3> QED BY <3>2, <3>3, <3>4, <3>5
  <2> QED BY <2>1, <2>2
\* Where c is below n, and where it is the child of n.
<1>p. P[c] # Nil => P[c] \in S /\ P[c] # c /\ (L[P[c]] = c \/ R[P[c]] = c)
  <2>1. ASSUME P[c] # Nil PROVE P[c] \in S /\ (L[P[c]] = c \/ R[P[c]] = c)
    BY <2>1, <1>c, <1>r DEF ParentAbove
  <2>2. ASSUME P[c] # Nil, P[c] = c PROVE FALSE
    <3>1. L[c] = c \/ R[c] = c
      BY <2>1, <2>2
    <3> QED BY <3>1, <1>r, <1>0, <1>d DEF LeftBelow, RightBelow
  <2> QED BY <2>1, <2>2
<1>l. ASSUME NEW n \in S, L[n] = c PROVE n = P[c] /\ P[c] # Nil
  BY <1>l, <1>0, <1>r DEF LeftBelow
<1>g. ASSUME NEW n \in S, R[n] = c PROVE n = P[c] /\ P[c] # Nil
  BY <1>g, <1>0, <1>r DEF RightBelow
\* Below another node than c, x is where c was.
<1>n. ASSUME NEW n \in S, c \in D[n] PROVE x = Nil \/ x \in D[n]
  BY <1>n, <1>x, <1>d, <1>0, <1>r DEF Nested
<1>1. Rooted(r2, P2, T, E)
  <2>1. CASE P[c] # Nil
    <3>1. r # Nil /\ r2 = r /\ r # c
      BY <2>1, <1>r, <1>c DEF Rooted
    <3>2. x # r
      BY <1>x, <1>0, <1>r, <3>1 DEF Rooted
    <3> QED BY <3>1, <3>2, <1>0, <1>r, <1>e DEF Rooted
  <2>2. CASE P[c] = Nil /\ x = Nil
    BY <1>0, <1>r, <1>c, <1>x, <2>2 DEF Rooted
  <2>3. CASE P[c] = Nil /\ x # Nil
    <3>1. r = c /\ r2 = x /\ P2[x] = Nil /\ x \in T
      BY <2>3, <1>x, <1>c, <1>0
    <3>2. ASSUME NEW m \in T PROVE m \in E[x]
      BY <3>1, <3>2, <1>x, <1>e, <1>0, <1>r, <2>3 DEF Rooted
    <3> QED BY <3>1, <3>2, <2>3 DEF Rooted
  <2> QED BY <2>1, <2>2, <2>3
<1>2. LeftBelow(L2, P2, T, E)
  <2> SUFFICES ASSUME NEW n \in T
               PROVE  /\ L2[n] = Nil => \A m \in E[n] : m >= n
                      /\ L2[n] # Nil => /\ L2[n] \in T /\ P2[L2[n]] = n
                                        /\ \A m \in Index : m \in E[L2[n]] <=> m \in E[n] /\ m < n
    BY DEF LeftBelow
  <2>0. n \in S /\ n # c /\ n \in Index
    BY <1>0
  <2>1. CASE L[n] = c
    <3>1. n = P[c] /\ L2[n] = x /\ \A m \in Index : m \in D[c] <=> m \in D[n] /\ m < n
      BY <2>1, <2>0, <1>l, <1>0, <1>r DEF LeftBelow
    <3>2. CASE x = Nil
      BY <3>1, <3>2, <2>0, <1>x, <1>e, <1>d, <1>0
    <3>3. CASE x # Nil
      <4>1. L2[n] \in T /\ P2[L2[n]] = n
        BY <3>1, <3>3, <1>x, <1>0
      <4>2. x \in Index /\ \A m : (m \in E[x] <=> m \in D[x] /\ m # c) /\ (m \in E[n] <=> m \in D[n] /\ m # c)
        BY <3>3, <2>0, <1>x, <1>0, <1>e
      <4>3. \A m \in Index : m \in D[x] <=> m \in D[n] /\ m < n /\ m # c
        BY <3>1, <3>3, <1>x
      <4>4. \A m \in Index : m \in E[x] <=> m \in E[n] /\ m < n
        BY <4>2, <4>3
      <4> QED BY <4>1, <4>4, <3>1, <3>3
    <3> QED BY <3>2, <3>3
  <2>2. CASE L[n] # c
    <3>1. L2[n] = L[n]
      BY <2>0, <2>2
    <3>2. CASE L[n] = Nil
      BY <3>1, <3>2, <2>0, <1>e, <1>r DEF LeftBelow
    <3>3. CASE L[n] # Nil
      <4>1. L[n] \in S /\ P[L[n]] = n /\ \A m \in Index : m \in D[L[n]] <=> m \in D[n] /\ m < n
        BY <3>3, <2>0, <1>r DEF LeftBelow
      <4>2. L[n] # x
        BY <4>1, <1>x, <2>0, <3>3
      <4> QED BY <3>1, <4>1, <4>2, <2>0, <2>2, <1>e, <1>0
    <3> QED BY <3>2, <3>3
  <2> QED BY <2>1, <2>2
<1>3. RightBelow(R2, P2, T, E)
  <2> SUFFICES ASSUME NEW n \in T
               PROVE  /\ R2[n] = Nil => \A m \in E[n] : m <= n
                      /\ R2[n] # Nil => /\ R2[n] \in T /\ P2[R2[n]] = n
                                        /\ \A m \in Index : m \in E[R2[n]] <=> m \in E[n] /\ m > n
    BY DEF RightBelow
  <2>0. n \in S /\ n # c /\ n \in Index
    BY <1>0
  <2>1. CASE R[n] = c
    <3>1. n = P[c] /\ R2[n] = x /\ \A m \in Index : m \in D[c] <=> m \in D[n] /\ m > n
      BY <2>1, <2>0, <1>g, <1>0, <1>r DEF RightBelow
    <3>2. CASE x = Nil
      BY <3>1, <3>2, <2>0, <1>x, <1>e, <1>d, <1>0
    <3>3. CASE x # Nil
      <4>1. R2[n] \in T /\ P2[R2[n]] = n
        BY <3>1, <3>3, <1>x, <1>0
      <4>2. x \in Index /\ \A m : (m \in E[x] <=> m \in D[x] /\ m # c) /\ (m \in E[n] <=> m \in D[n] /\ m # c)
        BY <3>3, <2>0, <1>x, <1>0, <1>e
      <4>3. \A m \in Index : m \in D[x] <=> m \in D[n] /\ m > n /\ m # c
        BY <3>1, <3>3, <1>x
      <4>4. \A m \in Index : m \in E[x] <=> m \in E[n] /\ m > n
        BY <4>2, <4>3
      <4> QED BY <4>1, <4>4, <3>1, <3>3
    <3> QED BY <3>2, <3>3
  <2>2. CASE R[n] # c
    <3>1. R2[n] = R[n]
      BY <2>0, <2>2
    <3>2. CASE R[n] = Nil
      BY <3>1, <3>2, <2>0, <1>e, <1>r DEF RightBelow
    <3>3. CASE R[n] # Nil
      <4>1. R[n] \in S /\ P[R[n]] = n /\ \A m \in Index : m \in D[R[n]] <=> m \in D[n] /\ m > n
        BY <3>3, <2>0, <1>r DEF RightBelow
      <4>2. R[n] # x
        BY <4>1, <1>x, <2>0, <3>3
      <4> QED BY <3>1, <4>1, <4>2, <2>0, <2>2, <1>e, <1>0
    <3> QED BY <3>2, <3>3
  <2> QED BY <2>1, <2>2
<1>4. ParentAbove(r2, L2, R2, P2, T)
  <2> SUFFICES ASSUME NEW n \in T, n # r2
               PROVE  P2[n] \in T /\ (L2[P2[n]] = n \/ R2[P2[n]] = n)
    BY DEF ParentAbove
  <2>0. n \in S /\ n # c /\ n \in Index
    BY <1>0
  <2>1. CASE n = x
    <3>1. P[c] # Nil /\ P2[n] = P[c]
      BY <2>0, <2>1
    <3> QED BY <3>1, <2>1, <1>p, <1>0
  <2>2. CASE n # x
    <3>1. n # r
      BY <2>0, <2>2, <1>c
    <3>2. P2[n] = P[n] /\ P[n] \in S /\ (L[P[n]] = n \/ R[P[n]] = n)
      BY <2>0, <2>2, <3>1, <1>r DEF ParentAbove
    <3>3. P[n] # c
      <4>1. SUFFICES ASSUME P[n] = c PROVE FALSE
        OBVIOUS
      <4>2. n \in D[c]
        BY <3>2, <4>1, <2>0, <1>r, <1>0, <1>d DEF LeftBelow, RightBelow
      <4>3. x # Nil /\ n \in D[x] /\ P[n] \in D[x]
        BY <4>2, <2>0, <2>2, <1>x, <1>r DEF Nested
      <4> QED BY <4>1, <4>3, <1>x, <1>0
    <3> QED BY <3>2, <3>3, <2>0, <1>0
  <2> QED BY <2>1, <2>2
<1>5. Nested(P2, T, E)
  <2> SUFFICES ASSUME NEW n \in T
               PROVE  /\ n \in E[n]
                      /\ \A m \in E[n] : /\ m \in T
                                         /\ \A k \in E[m] : k \in E[n]
                                         /\ m # n => P2[m] \in E[n]
    BY DEF Nested
  <2>0. n \in S /\ n # c /\ n \in Index /\ n \in E[n]
    BY <1>0, <1>d, <1>e
  <2>1. ASSUME NEW m \in E[n]
        PROVE  m \in T /\ (\A k \in E[m] : k \in E[n]) /\ (m # n => P2[m] \in E[n])
    <3>1. m \in D[n] /\ m # c /\ m \in S /\ m \in Index
      BY <2>0, <2>1, <1>d, <1>e
    <3>2. ASSUME NEW k \in E[m] PROVE k \in E[n]
      BY <3>1, <3>2, <2>0, <1>e, <1>r DEF Nested
    <3>3. ASSUME m # n PROVE P2[m] \in E[n]
      <4>1. P[m] \in D[n]
        BY <3>1, <3>3, <2>0, <1>r DEF Nested
      <4>2. CASE m = x
        <5>1. c \in D[n] /\ P2[m] = P[c]
          BY <4>1, <4>2, <3>1, <1>x, <1>0
        <5>2. P[c] \in D[n]
          BY <5>1, <2>0, <1>r DEF Nested
        <5>3. P[c] # c
          BY <5>2, <1>p, <1>d, <2>0, <1>0
        <5> QED BY <5>1, <5>2, <5>3, <2>0, <1>e
      <4>3. CASE m # x
        <5>1. P2[m] = P[m]
          BY <3>1, <4>3
        <5>2. P[m] # c
          <6>1. SUFFICES ASSUME P[m] = c PROVE FALSE
            OBVIOUS
          <6>2. m # r
            BY <6>1, <1>r, <1>0, <3>1 DEF Rooted
          <6>3. L[c] = m \/ R[c] = m
            BY <6>1, <6>2, <3>1, <1>r DEF ParentAbove
          <6>4. m \in D[c]
            BY <6>3, <3>1, <1>r, <1>0, <1>d DEF LeftBelow, RightBelow
          <6>5. x # Nil /\ m \in D[x] /\ P[m] \in D[x]
            BY <6>4, <3>1, <4>3, <1>x, <1>r DEF Nested
          <6> QED BY <6>1, <6>5, <1>x, <1>0
        <5> QED BY <4>1, <5>1, <5>2, <2>0, <1>e
      <4> QED BY <4>2, <4>3
    <3> QED BY <3>1, <3>2, <3>3
  <2> QED BY <2>0, <2>1
<1> QED BY <1>0, <1>1, <1>2, <1>3, <1>4, <1>5 DEF Tree, E

-----------------------------------------------------------------------------
(* The removal of a node that has two children.                            *)

\* What is below a node is finite, at most everything.
LEMMA BelowFinite ==
    ASSUME NEW r, NEW L, NEW R, NEW P, NEW S, NEW D \in [Index -> SUBSET Index], Tree(r, L, R, P, S, D),
           NEW n \in S
    PROVE  IsFiniteSet(D[n]) /\ Cardinality(D[n]) \in 1 .. Size
<1>1. IsFiniteSet(Index) /\ Cardinality(Index) = Size
  <2>1. 0 \in Int /\ Size - 1 \in Int /\ ~(0 > Size - 1) /\ (Size - 1) - 0 + 1 = Size
    BY SizeAssumption
  <2> QED BY <2>1, FS_Interval DEF Index
<1>2. D[n] \in SUBSET Index /\ n \in D[n]
  BY DEF Tree, Nested
<1>3. IsFiniteSet(D[n]) /\ Cardinality(D[n]) <= Size
  BY <1>1, <1>2, FS_Subset
<1>4. Cardinality(D[n]) \in Nat
  BY <1>3, FS_CardinalityType
<1>5. Cardinality(D[n]) # 0
  BY <1>2, <1>3, FS_EmptySet
<1> QED BY <1>3, <1>4, <1>5, SizeAssumption

\* There are fewer nodes below a node that is below another.
LEMMA BelowFewer ==
    ASSUME NEW r, NEW L, NEW R, NEW P, NEW S, NEW D \in [Index -> SUBSET Index], Tree(r, L, R, P, S, D),
           NEW n \in S, NEW m \in D[n], m # n
    PROVE  m \in S /\ Cardinality(D[m]) < Cardinality(D[n])
<1>1. m \in S /\ n \in D[n] /\ D[m] \subseteq D[n]
  BY DEF Tree, Nested
<1>2. n \notin D[m]
  BY NotBoth
<1>3. IsFiniteSet(D[n]) /\ Cardinality(D[n]) \in 1 .. Size /\ Cardinality(D[m]) \in 1 .. Size
  BY <1>1, BelowFinite
<1>4. D[m] \in SUBSET D[n] /\ D[m] # D[n]
  BY <1>1, <1>2
<1>5. Cardinality(D[m]) <= Cardinality(D[n]) /\ (Cardinality(D[n]) = Cardinality(D[m]) => D[n] = D[m])
  BY <1>3, <1>4, FS_Subset
<1> QED BY <1>1, <1>3, <1>4, <1>5

\* Of two nodes with a node below both, one is below the other.
LEMMA OneBelow ==
    ASSUME NEW r, NEW L, NEW R, NEW P, NEW S, NEW D \in [Index -> SUBSET Index], Tree(r, L, R, P, S, D),
           NEW n \in S, NEW c \in S, NEW m \in D[n], m \in D[c]
    PROVE  n \in D[c] \/ c \in D[n]
<1> DEFINE Bad == {b \in S : m \in D[b] /\ b \notin D[c] /\ c \notin D[b]}
           K == {Size - Cardinality(D[b]) : b \in Bad}
<1>1. SUFFICES ASSUME Bad # {} PROVE FALSE
  OBVIOUS
<1>2. K # {} /\ K \in SUBSET Nat
  <2>1. \A b \in S : Size - Cardinality(D[b]) \in Nat
    BY BelowFinite, SizeAssumption
  <2> QED BY <1>1, <2>1
<1>3. PICK k \in K : \A i \in K : k <= i
  BY <1>2, LeastOf
<1>4. PICK b \in Bad : k = Size - Cardinality(D[b])
  OBVIOUS
<1> DEFINE q == P[b]
<1>t. Rooted(r, P, S, D) /\ LeftBelow(L, P, S, D) /\ RightBelow(R, P, S, D) /\ ParentAbove(r, L, R, P, S) /\ Nested(P, S, D)
      /\ S \subseteq Index
  BY DEF Tree
<1>5. b # r
  BY <1>4, <1>t, IndexIsInt DEF Rooted
<1>6. q \in S /\ (L[q] = b \/ R[q] = b)
  BY <1>4, <1>5, <1>t DEF ParentAbove
<1>7. b \in Index /\ q \in Index /\ c \in Index /\ m \in Index /\ b # Nil /\ m \in S /\ b \in S
      /\ b \in Int /\ q \in Int /\ c \in Int /\ m \in Int
  BY <1>4, <1>6, <1>t, IndexIsInt DEF Nested
<1>8. b \in D[q] /\ m \in D[q] /\ b # q
  <2>1. b \in D[b]
    BY <1>7, <1>t DEF Nested
  <2>2. b \in D[q] /\ b # q
    BY <1>6, <1>7, <1>t, <2>1 DEF LeftBelow, RightBelow
  <2> QED BY <2>2, <1>4, <1>6, <1>t DEF Nested
<1>9. q \notin D[c]
  BY <1>4, <1>8, <1>t DEF Nested
<1>10. c \notin D[q]
  <2>1. SUFFICES ASSUME c \in D[q] PROVE FALSE
    OBVIOUS
  <2>2. c # q /\ m \in D[b] /\ m \in D[c] /\ c \notin D[b]
    BY <1>4, <1>9, <1>t DEF Nested
  <2>3. CASE L[q] = b
    <3>1. m < q /\ ~(c < q)
      BY <2>1, <2>2, <2>3, <1>6, <1>7, <1>t DEF LeftBelow
    <3>2. R[q] # Nil /\ c \in D[R[q]] /\ R[q] \in S
      BY <3>1, <2>1, <2>2, <1>6, <1>7, <1>t DEF RightBelow
    <3>3. m \in D[R[q]]
      BY <3>2, <2>2, <1>t DEF Nested
    <3> QED BY <3>1, <3>2, <3>3, <1>6, <1>7, <1>t DEF RightBelow
  <2>4. CASE R[q] = b
    <3>1. m > q /\ ~(c > q)
      BY <2>1, <2>2, <2>4, <1>6, <1>7, <1>t DEF RightBelow
    <3>2. L[q] # Nil /\ c \in D[L[q]] /\ L[q] \in S
      BY <3>1, <2>1, <2>2, <1>6, <1>7, <1>t DEF LeftBelow
    <3>3. m \in D[L[q]]
      BY <3>2, <2>2, <1>t DEF Nested
    <3> QED BY <3>1, <3>2, <3>3, <1>6, <1>7, <1>t DEF LeftBelow
  <2> QED BY <2>3, <2>4, <1>6
<1>11. q \in Bad
  BY <1>6, <1>8, <1>9, <1>10
<1>12. Cardinality(D[b]) < Cardinality(D[q])
  BY <1>6, <1>8, BelowFewer
<1>13. Cardinality(D[b]) \in Int /\ Cardinality(D[q]) \in Int /\ Size \in Int
  BY <1>6, <1>7, BelowFinite, SizeAssumption
<1>14. k <= Size - Cardinality(D[q])
  BY <1>3, <1>11
<1> QED BY <1>4, <1>12, <1>13, <1>14

\* Where the least node m to the right of a node c with two children is.
LEMMA Successor ==
    ASSUME NEW r \in Link, NEW L \in Links, NEW R \in Links, NEW P \in Links, NEW S,
           NEW D \in [Index -> SUBSET Index], Tree(r, L, R, P, S, D),
           NEW c \in S, L[c] # Nil, R[c] # Nil,
           NEW m \in D[R[c]], L[m] = Nil, \A k \in D[R[c]] : m <= k,
           NEW lc, lc = L[c], NEW rc, rc = R[c], NEW mr, mr = R[m], NEW mp, mp = P[m], NEW p, p = P[c]
    PROVE  /\ lc \in S /\ P[lc] = c /\ rc \in S /\ P[rc] = c /\ lc < c /\ rc > c
           /\ \A k \in Index : k \in D[lc] <=> k \in D[c] /\ k < c
           /\ \A k \in Index : k \in D[rc] <=> k \in D[c] /\ k > c
           /\ m \in S /\ m \in Index /\ m \in Int /\ m > c /\ m \in D[c] /\ m # lc
           /\ lc # rc /\ lc # c /\ rc # c /\ lc \in D[c] /\ rc \in D[c]
           /\ \A k \in D[c] : k # c => ((k < m <=> k < c) /\ (k > m <=> (k > c /\ k # m)))
           /\ mr = Nil => \A k \in D[m] : k = m
           /\ mr # Nil => /\ mr \in S /\ P[mr] = m /\ mr # m /\ mr \in D[m] /\ mr \in D[c]
                          /\ \A k \in Index : k \in D[mr] <=> k \in D[m] /\ k # m
           /\ mr # Nil => mr # lc /\ mr # rc
           /\ \A n \in D[c] : n # c => c \notin D[n]
           /\ mp \in D[c] /\ mp \in S /\ mp # m /\ (rc = m => mp = c)
           /\ rc # m => mp \in D[rc] /\ mp # c /\ L[mp] = m
           /\ c = r <=> p = Nil
           /\ p # Nil => p \in S /\ p # c /\ p \notin D[c] /\ c \in D[p] /\ (L[p] = c \/ R[p] = c)
           /\ \A n \in S : L[n] = c => n = p /\ p # Nil /\ R[n] # c
           /\ \A n \in S : R[n] = c => n = p /\ p # Nil
<1>r. Rooted(r, P, S, D) /\ LeftBelow(L, P, S, D) /\ RightBelow(R, P, S, D) /\ ParentAbove(r, L, R, P, S) /\ Nested(P, S, D)
  BY DEF Tree
<1>0. S \subseteq Index /\ Nil \notin Index /\ c \in Index /\ c \in Int /\ \A n \in S : n \in Index /\ n \in Int /\ n # Nil
  BY IndexIsInt DEF Tree
<1>d. \A n \in S : n \in D[n] /\ \A k \in D[n] : k \in S /\ k \in Index /\ k \in Int
  BY <1>r, <1>0 DEF Nested
<1>1. lc \in S /\ P[lc] = c /\ rc \in S /\ P[rc] = c /\ lc < c /\ rc > c
      /\ (\A k \in Index : k \in D[lc] <=> k \in D[c] /\ k < c)
      /\ (\A k \in Index : k \in D[rc] <=> k \in D[c] /\ k > c)
  BY <1>r, <1>0, <1>d DEF LeftBelow, RightBelow
<1>2. m \in S /\ m \in Index /\ m \in Int /\ m > c /\ m \in D[c] /\ m # lc /\ lc # rc /\ lc # c /\ rc # c /\ lc \in D[c] /\ rc \in D[c]
  <2>1. m \in S /\ m \in Index /\ m \in Int /\ m \in D[rc] /\ lc \in D[lc] /\ rc \in D[rc] /\ lc \in Index /\ rc \in Index /\ lc \in Int /\ rc \in Int
    BY <1>0, <1>1, <1>d
  <2>2. m > c /\ m \in D[c] /\ lc \in D[c] /\ rc \in D[c]
    BY <2>1, <1>1
  <2> QED BY <2>1, <2>2, <1>0, <1>1
<1>3. \A k \in D[c] : k # c => ((k < m <=> k < c) /\ (k > m <=> (k > c /\ k # m)))
  BY <1>0, <1>1, <1>2, <1>d
<1>4. (mr = Nil => \A k \in D[m] : k = m)
      /\ (mr # Nil => mr \in S /\ P[mr] = m /\ mr # m /\ mr \in D[m] /\ mr \in D[c] /\ \A k \in Index : k \in D[mr] <=> k \in D[m] /\ k # m)
  <2>1. \A k \in D[m] : k >= m
    BY <1>2, <1>r DEF LeftBelow
  <2>2. ASSUME mr = Nil, NEW k \in D[m] PROVE k = m
    <3>1. k <= m
      BY <2>2, <1>2, <1>r DEF RightBelow
    <3>2. k >= m /\ k \in Int
      BY <2>1, <1>d, <1>2
    <3> QED BY <3>1, <3>2, <1>2
  <2>3. mr # Nil => mr \in S /\ P[mr] = m /\ \A k \in Index : k \in D[mr] <=> k \in D[m] /\ k > m
    BY <1>2, <1>r DEF RightBelow
  <2>4. \A k \in D[m] : k > m <=> k # m
    BY <2>1, <1>d, <1>2
  <2>5. mr # Nil => mr # m /\ mr \in D[m] /\ mr \in D[c]
    BY <2>3, <2>4, <1>d, <1>2, <1>0, <1>r DEF Nested
  <2> QED BY <2>2, <2>3, <2>4, <2>5
<1>5. \A n \in D[c] : n # c => c \notin D[n]
  BY NotBoth
<1>6. mp \in D[c] /\ mp \in S /\ mp # m /\ (rc = m => mp = c) /\ (rc # m => mp \in D[rc] /\ mp # c /\ L[mp] = m)
  <2>1. mp \in D[c] /\ mp \in S
    BY <1>2, <1>d, <1>r, <1>0 DEF Nested
  <2>2. m # r
    BY <2>1, <1>r, <1>2, <1>0 DEF Rooted
  <2>3. L[mp] = m \/ R[mp] = m
    BY <2>2, <1>2, <1>r DEF ParentAbove
  <2>4. mp # m
    BY <2>3, <1>4, <1>2, <1>0
  <2>5. ASSUME rc # m PROVE mp \in D[rc] /\ mp # c /\ L[mp] = m
    <3>1. mp \in D[rc] /\ mp # c
      <4>1. mp \in D[rc] /\ mp \in Index
        BY <2>5, <2>1, <1>1, <1>0, <1>r DEF Nested
      <4>2. mp > c
        BY <4>1, <1>1
      <4> QED BY <4>1, <4>2, <1>0
    <3>2. m < mp
      <4>1. m <= mp /\ mp \in Int
        BY <3>1, <2>1, <1>0
      <4> QED BY <4>1, <2>4, <1>2
    <3>3. R[mp] # m
      <4>1. SUFFICES ASSUME R[mp] = m PROVE FALSE
        OBVIOUS
      <4>2. \A k \in Index : k \in D[m] <=> k \in D[mp] /\ k > mp
        BY <4>1, <2>1, <1>0, <1>2, <1>r DEF RightBelow
      <4>3. m > mp /\ mp \in Int
        BY <4>2, <1>2, <1>d, <2>1, <1>0
      <4> QED BY <4>3, <3>2, <1>2
    <3> QED BY <3>1, <3>3, <2>3
  <2> QED BY <2>1, <2>4, <2>5, <1>1
<1>c. c = r <=> p = Nil
  BY <1>r, <1>0 DEF Rooted, ParentAbove
<1>p. p # Nil => p \in S /\ p # c /\ p \notin D[c] /\ c \in D[p] /\ (L[p] = c \/ R[p] = c)
  <2>1. SUFFICES ASSUME p # Nil PROVE p \in S /\ p # c /\ p \notin D[c] /\ c \in D[p] /\ (L[p] = c \/ R[p] = c)
    OBVIOUS
  <2>2. p \in S /\ (L[p] = c \/ R[p] = c)
    BY <2>1, <1>c, <1>r DEF ParentAbove
  <2>3. c \in D[p] /\ p # c
    <3>1. c \in D[c] /\ p \in Int
      BY <2>2, <1>d, <1>0
    <3>2. CASE L[p] = c
      <4>1. c \in D[p] /\ c < p
        BY <3>1, <3>2, <2>2, <1>0, <1>r DEF LeftBelow
      <4> QED BY <4>1, <3>1, <1>0
    <3>3. CASE R[p] = c
      <4>1. c \in D[p] /\ c > p
        BY <3>1, <3>3, <2>2, <1>0, <1>r DEF RightBelow
      <4> QED BY <4>1, <3>1, <1>0
    <3> QED BY <2>2, <3>2, <3>3
  <2>4. p \notin D[c]
    BY <2>2, <2>3, <1>5
  <2> QED BY <2>2, <2>3, <2>4
<1>l. ASSUME NEW n \in S, L[n] = c PROVE n = p /\ p # Nil
  BY <1>l, <1>0, <1>r DEF LeftBelow
<1>g. ASSUME NEW n \in S, R[n] = c PROVE n = p /\ p # Nil
  BY <1>g, <1>0, <1>r DEF RightBelow
<1>b. ASSUME NEW n \in S, L[n] = c, R[n] = c PROVE FALSE
  <2>1. c \in D[c] /\ n \in Int
    BY <1>d, <1>0
  <2>2. c < n
    BY <2>1, <1>b, <1>0, <1>r DEF LeftBelow
  <2>3. c > n
    BY <2>1, <1>b, <1>0, <1>r DEF RightBelow
  <2> QED BY <2>1, <2>2, <2>3, <1>0
<1>m. mr # Nil => mr # lc /\ mr # rc
  <2>1. SUFFICES ASSUME mr # Nil PROVE mr # lc /\ mr # rc
    OBVIOUS
  <2>2. mr \in D[m] /\ mr # m /\ m \in D[rc] /\ mr \in Index
    BY <2>1, <1>4, <1>0
  <2>3. mr \in D[rc]
    BY <2>2, <1>1, <1>r DEF Nested
  <2>4. mr > c
    BY <2>2, <2>3, <1>1
  <2>5. mr # rc
    BY <2>2, <1>1, NotBoth
  <2>6. mr # lc
    BY <2>2, <2>4, <1>1, <1>0
  <2> QED BY <2>5, <2>6
<1>12. (\A n \in S : L[n] = c => n = p /\ p # Nil /\ R[n] # c) /\ (\A n \in S : R[n] = c => n = p /\ p # Nil)
  BY <1>l, <1>g, <1>b
<1>13. mr = Nil => \A k \in D[m] : k = m
  BY <1>4
<1>14. mr # Nil => /\ mr \in S /\ P[mr] = m /\ mr # m /\ mr \in D[m] /\ mr \in D[c]
                   /\ \A k \in Index : k \in D[mr] <=> k \in D[m] /\ k # m
  BY <1>4
<1> QED BY <1>1, <1>2, <1>3, <1>13, <1>14, <1>5, <1>6, <1>c, <1>p, <1>12, <1>m, Zenon

\* The node m takes the place of c, and the right child of m the place of m.
Succeeded(r, L, R, P, S, c, m, r2, L2, R2, P2) ==
    /\ r2 = IF P[c] = Nil THEN m ELSE r
    /\ \A n \in S : n # c =>
          /\ L2[n] = IF n = m THEN L[c]
                     ELSE IF n = P[m] THEN R[m]
                     ELSE IF L[n] = c THEN m ELSE L[n]
          /\ R2[n] = IF n = m THEN (IF R[c] = m THEN R[m] ELSE R[c])
                     ELSE IF R[n] = c THEN m ELSE R[n]
          /\ P2[n] = IF n = m THEN P[c]
                     ELSE IF n = L[c] \/ n = R[c] THEN m
                     ELSE IF n = R[m] /\ R[c] # m THEN P[m] ELSE P[n]

\* The node c with two children gives its place to the least node m to its right.
LEMMA SucceedTree ==
    ASSUME NEW r \in Link, NEW L \in Links, NEW R \in Links, NEW P \in Links, NEW S,
           NEW D \in [Index -> SUBSET Index], Tree(r, L, R, P, S, D),
           NEW c \in S, L[c] # Nil, R[c] # Nil,
           NEW m \in D[R[c]], L[m] = Nil, \A k \in D[R[c]] : m <= k,
           NEW r2, NEW L2, NEW R2, NEW P2, Succeeded(r, L, R, P, S, c, m, r2, L2, R2, P2)
    PROVE  \E E \in [Index -> SUBSET Index] : Tree(r2, L2, R2, P2, S \ {c}, E)
<1> DEFINE T == S \ {c}
           E == [n \in Index |-> IF n = m THEN D[c] \ {c}
                                 ELSE IF n \in D[c] THEN D[n] \ {m} ELSE D[n] \ {c}]
           lc == L[c]  rc == R[c]  mr == R[m]  mp == P[m]  p == P[c]
<1>h. /\ r2 = IF P[c] = Nil THEN m ELSE r
      /\ \A n \in S : n # c =>
            /\ L2[n] = IF n = m THEN L[c]
                       ELSE IF n = P[m] THEN R[m]
                       ELSE IF L[n] = c THEN m ELSE L[n]
            /\ R2[n] = IF n = m THEN (IF R[c] = m THEN R[m] ELSE R[c])
                       ELSE IF R[n] = c THEN m ELSE R[n]
            /\ P2[n] = IF n = m THEN P[c]
                       ELSE IF n = L[c] \/ n = R[c] THEN m
                       ELSE IF n = R[m] /\ R[c] # m THEN P[m] ELSE P[n]
  BY DEF Succeeded
<1> USE <1>h
<1>E. E \in [Index -> SUBSET Index]
  BY DEF Tree
<1>r. Rooted(r, P, S, D) /\ LeftBelow(L, P, S, D) /\ RightBelow(R, P, S, D) /\ ParentAbove(r, L, R, P, S) /\ Nested(P, S, D)
  BY DEF Tree
<1>0. S \subseteq Index /\ Nil \notin Index /\ c \in Index /\ c \in Int /\ \A n \in S : n \in Index /\ n \in Int /\ n # Nil
  BY IndexIsInt DEF Tree
<1>e. \A n \in Index : n # m => (n \in D[c] => \A k : k \in E[n] <=> k \in D[n] /\ k # m)
                             /\ (n \notin D[c] => \A k : k \in E[n] <=> k \in D[n] /\ k # c)
  OBVIOUS
<1>f. m \in Index => \A k : k \in E[m] <=> k \in D[c] /\ k # c
  OBVIOUS
<1> HIDE DEF E
<1>d. \A n \in S : n \in D[n] /\ \A k \in D[n] : k \in S /\ k \in Index /\ k \in Int
  BY <1>r, <1>0 DEF Nested
<1>1. lc \in S /\ P[lc] = c /\ rc \in S /\ P[rc] = c /\ lc < c /\ rc > c
      /\ (\A k \in Index : k \in D[lc] <=> k \in D[c] /\ k < c)
      /\ (\A k \in Index : k \in D[rc] <=> k \in D[c] /\ k > c)
  BY Successor
<1>2. m \in S /\ m \in Index /\ m \in Int /\ m > c /\ m \in D[c] /\ m # lc /\ lc # rc /\ lc # c /\ rc # c /\ lc \in D[c] /\ rc \in D[c]
  BY Successor
<1>3. \A k \in D[c] : k # c => ((k < m <=> k < c) /\ (k > m <=> (k > c /\ k # m)))
  BY Successor
<1>4. (mr = Nil => \A k \in D[m] : k = m)
      /\ (mr # Nil => mr \in S /\ P[mr] = m /\ mr # m /\ mr \in D[m] /\ mr \in D[c] /\ \A k \in Index : k \in D[mr] <=> k \in D[m] /\ k # m)
  BY Successor
<1>5. \A n \in D[c] : n # c => c \notin D[n]
  BY NotBoth
<1>6. mp \in D[c] /\ mp \in S /\ mp # m /\ (rc = m => mp = c) /\ (rc # m => mp \in D[rc] /\ mp # c /\ L[mp] = m)
  BY Successor
<1>7. \A n \in S : n \notin D[c] /\ m \in D[n] => c \in D[n]
  BY OneBelow, <1>2
<1>c. c = r <=> p = Nil
  BY Successor
<1>p. p # Nil => p \in S /\ p # c /\ p \notin D[c] /\ c \in D[p] /\ (L[p] = c \/ R[p] = c)
  BY Successor
<1>l. \A n \in S : L[n] = c => n = p /\ p # Nil
  BY Successor
<1>g. \A n \in S : R[n] = c => n = p /\ p # Nil
  BY Successor
<1>11. Rooted(r2, P2, T, E)
  <2>1. CASE p # Nil
    <3>1. r # Nil /\ r2 = r /\ r # c /\ r \in S /\ P[r] = Nil /\ \A k \in S : k \in D[r]
      BY <2>1, <1>r, <1>c, <1>0 DEF Rooted
    <3>2. r \notin D[c]
      BY <3>1, <1>5, <1>0, <1>r DEF Nested
    <3>3. r # m /\ r # lc /\ r # rc /\ r # mr
      BY <3>2, <1>2, <1>4, <3>1
    <3>4. P2[r] = Nil
      BY <3>1, <3>3
    <3> QED BY <3>1, <3>2, <3>3, <3>4, <1>0, <1>e DEF Rooted
  <2>2. CASE p = Nil
    <3>1. r = c /\ r2 = m /\ P2[m] = Nil /\ m \in T /\ m # Nil
      BY <2>2, <1>2, <1>c, <1>0
    <3>2. ASSUME NEW k \in T PROVE k \in E[m]
      BY <3>1, <3>2, <1>f, <1>2, <1>0, <1>r DEF Rooted
    <3> QED BY <3>1, <3>2 DEF Rooted
  <2> QED BY <2>1, <2>2
<1>12. LeftBelow(L2, P2, T, E)
  <2> SUFFICES ASSUME NEW n \in T
               PROVE  /\ L2[n] = Nil => \A k \in E[n] : k >= n
                      /\ L2[n] # Nil => /\ L2[n] \in T /\ P2[L2[n]] = n
                                        /\ \A k \in Index : k \in E[L2[n]] <=> k \in E[n] /\ k < n
    BY DEF LeftBelow
  <2>0. n \in S /\ n # c /\ n \in Index /\ n \in Int
    BY <1>0
  <2>1. CASE n = m
    <3>1. L2[n] = lc /\ lc # Nil /\ lc \in T /\ P2[lc] = n
      BY <2>1, <2>0, <1>1, <1>2, <1>0
    <3>2. ASSUME NEW k \in Index PROVE k \in E[lc] <=> k \in E[n] /\ k < n
      <4>1. k \in E[lc] <=> k \in D[c] /\ k < c /\ k # m
        <5>1. lc \in Index /\ lc # m /\ lc \in D[c]
          BY <1>1, <1>2, <1>0
        <5>2. k \in E[lc] <=> k \in D[lc] /\ k # m
          BY <5>1, <1>e
        <5>3. k \in D[lc] <=> k \in D[c] /\ k < c
          BY <1>1
        <5> QED BY <5>2, <5>3
      <4>2. k \in E[n] <=> k \in D[c] /\ k # c
        BY <1>f, <1>2, <2>1
      <4>3. k \in D[c] /\ k # c => (k < m <=> k < c) /\ k \in Int
        BY <1>3, <1>d
      <4>4. k \in D[c] /\ k < c => k # m /\ k # c
        BY <1>d, <1>0, <1>2
      <4> QED BY <4>1, <4>2, <4>3, <4>4, <2>1
    <3> QED BY <3>1, <3>2
  <2>2. CASE n = mp /\ n # m
    <3>1. L2[n] = mr /\ rc # m /\ L[n] = m
      BY <2>2, <2>0, <1>6
    <3>2. \A k \in Index : k \in D[m] <=> k \in D[n] /\ k < n
      BY <3>1, <2>0, <1>2, <1>0, <1>r DEF LeftBelow
    <3>3. \A k : k \in E[n] <=> k \in D[n] /\ k # m
      BY <1>e, <2>0, <2>2, <1>6
    <3>4. CASE mr = Nil
      <4>1. ASSUME NEW k \in E[n] PROVE k >= n
        <5>1. k \in D[n] /\ k # m /\ k \in Index /\ k \in Int
          BY <3>3, <4>1, <1>d, <2>0
        <5>2. ~(k < n)
          BY <5>1, <3>2, <3>4, <1>4
        <5> QED BY <5>1, <5>2, <2>0
      <4> QED BY <4>1, <3>1, <3>4
    <3>5. CASE mr # Nil
      <4>1. mr \in T /\ mr # m /\ mr # lc /\ mr # rc
        BY <3>5, <1>4, <1>5, <1>1, <1>2, <1>0, <1>6, <3>1
      <4>2. P2[mr] = n
        BY <4>1, <3>1, <2>2
      <4>3. \A k \in Index : k \in E[mr] <=> k \in D[mr] /\ k # m
        BY <1>e, <1>4, <3>5, <4>1, <1>0
      <4> QED BY <4>1, <4>2, <4>3, <3>1, <3>2, <3>3, <3>5, <1>4
    <3> QED BY <3>4, <3>5
  <2>3. CASE L[n] = c /\ n # m /\ n # mp
    <3>1. n = p /\ L2[n] = m /\ m \in T /\ P2[m] = n /\ n \notin D[c]
      BY <2>3, <2>0, <1>l, <1>p, <1>2
    <3>2. \A k \in Index : k \in D[c] <=> k \in D[n] /\ k < n
      BY <2>3, <2>0, <1>0, <1>r DEF LeftBelow
    <3>3. \A k : k \in E[n] <=> k \in D[n] /\ k # c
      BY <1>e, <2>0, <2>3, <3>1
    <3> QED BY <3>1, <3>2, <3>3, <1>f, <1>2, <1>0
  <2>4. CASE L[n] # c /\ n # m /\ n # mp
    <3>1. L2[n] = L[n]
      BY <2>4, <2>0
    <3>2. \A k \in E[n] : k \in D[n]
      BY <1>e, <2>0, <2>4
    <3>3. CASE L[n] = Nil
      BY <3>1, <3>2, <3>3, <2>0, <1>r DEF LeftBelow
    <3>4. CASE L[n] # Nil
      <4> DEFINE l == L[n]
      <4>1. l \in S /\ P[l] = n /\ \A k \in Index : k \in D[l] <=> k \in D[n] /\ k < n
        BY <3>4, <2>0, <1>r DEF LeftBelow
      <4>2. l # m /\ l # lc /\ l # rc /\ l # c /\ l \in Index
        BY <4>1, <2>0, <2>4, <1>1, <1>0
      <4>3. l # mr
        BY <4>1, <2>4, <1>4, <3>4
      <4>4. P2[l] = n /\ l \in T
        BY <4>1, <4>2, <4>3
      <4>5. l \in D[n] /\ l # n
        <5>1. l \in D[l] /\ l \in Int
          BY <4>1, <1>d, <1>0
        <5>2. l \in D[n] /\ l < n
          BY <4>1, <4>2, <5>1
        <5> QED BY <5>1, <5>2, <2>0
      <4>6. n \in D[c] <=> l \in D[c]
        BY <4>1, <4>2, <4>5, <2>0, <1>r DEF Nested
      <4>7. \A k \in Index : k \in E[l] <=> k \in E[n] /\ k < n
        <5>1. CASE n \in D[c]
          BY <5>1, <4>6, <4>1, <4>2, <1>e, <2>0, <2>4
        <5>2. CASE n \notin D[c]
          BY <5>2, <4>6, <4>1, <4>2, <1>e, <2>0, <2>4
        <5> QED BY <5>1, <5>2
      <4> QED BY <3>1, <3>4, <4>4, <4>7
    <3> QED BY <3>3, <3>4
  <2> QED BY <2>1, <2>2, <2>3, <2>4
<1>13. RightBelow(R2, P2, T, E)
  <2> SUFFICES ASSUME NEW n \in T
               PROVE  /\ R2[n] = Nil => \A k \in E[n] : k <= n
                      /\ R2[n] # Nil => /\ R2[n] \in T /\ P2[R2[n]] = n
                                        /\ \A k \in Index : k \in E[R2[n]] <=> k \in E[n] /\ k > n
    BY DEF RightBelow
  <2>0. n \in S /\ n # c /\ n \in Index /\ n \in Int
    BY <1>0
  <2>1. CASE n = m /\ rc = m
    <3>1. R2[n] = mr
      BY <2>1, <2>0
    <3>2. \A k : k \in E[n] <=> k \in D[c] /\ k # c
      BY <1>f, <1>2, <2>1
    <3>3. \A k \in Index : k \in D[m] <=> k \in D[c] /\ k > c
      BY <2>1, <1>1
    <3>4. CASE mr = Nil
      <4>1. ASSUME NEW k \in E[n] PROVE k <= n
        <5>1. k \in D[c] /\ k # c /\ k \in Index /\ k \in Int
          BY <3>2, <4>1, <1>d
        <5>2. k > m => k > c /\ k # m
          BY <5>1, <1>3
        <5>3. k > c => k = m
          BY <5>1, <3>3, <1>4, <3>4
        <5> QED BY <5>1, <5>2, <5>3, <2>1, <2>0
      <4> QED BY <4>1, <3>1, <3>4
    <3>5. CASE mr # Nil
      <4>1. mr \in T /\ mr # m /\ mr # lc /\ mr # rc /\ P[mr] = m /\ mr \in Index
        BY <3>5, <1>4, <1>5, <1>1, <1>2, <1>0, <1>6, <2>1
      <4>2. P2[mr] = n
        BY <4>1, <2>1
      <4>3. \A k \in Index : k \in E[mr] <=> k \in D[m] /\ k # m
        BY <1>e, <1>4, <3>5, <4>1, <1>0
      <4>4. ASSUME NEW k \in Index PROVE k \in E[mr] <=> k \in E[n] /\ k > n
        <5>1. k \in D[c] /\ k # c => (k > m <=> k > c /\ k # m)
          BY <1>3
        <5>2. k \in E[mr] <=> k \in D[c] /\ k > c /\ k # m
          BY <4>3, <3>3
        <5>3. k \in D[c] /\ k > c => k # c
          BY <1>0
        <5> QED BY <5>1, <5>2, <5>3, <3>2, <2>1
      <4> QED BY <4>1, <4>2, <4>4, <3>1, <3>5
    <3> QED BY <3>4, <3>5
  <2>2. CASE n = m /\ rc # m
    <3>1. R2[n] = rc /\ rc # Nil /\ rc \in T /\ P2[rc] = n
      BY <2>2, <2>0, <1>1, <1>2, <1>0
    <3>2. ASSUME NEW k \in Index PROVE k \in E[rc] <=> k \in E[n] /\ k > n
      <4>1. k \in E[rc] <=> k \in D[c] /\ k > c /\ k # m
        <5>1. rc \in Index /\ rc # m /\ rc \in D[c]
          BY <1>1, <1>2, <1>0, <2>2
        <5>2. k \in E[rc] <=> k \in D[rc] /\ k # m
          BY <5>1, <1>e
        <5>3. k \in D[rc] <=> k \in D[c] /\ k > c
          BY <1>1
        <5> QED BY <5>2, <5>3
      <4>2. k \in E[n] <=> k \in D[c] /\ k # c
        BY <1>f, <1>2, <2>2
      <4>3. k \in D[c] /\ k # c => (k > m <=> k > c /\ k # m)
        BY <1>3
      <4>4. k \in D[c] /\ k > c => k # c
        BY <1>0
      <4> QED BY <4>1, <4>2, <4>3, <4>4, <2>2
    <3> QED BY <3>1, <3>2
  <2>3. CASE R[n] = c /\ n # m
    <3>1. n = p /\ R2[n] = m /\ m \in T /\ P2[m] = n /\ n \notin D[c]
      BY <2>3, <2>0, <1>g, <1>p, <1>2
    <3>2. \A k \in Index : k \in D[c] <=> k \in D[n] /\ k > n
      BY <2>3, <2>0, <1>0, <1>r DEF RightBelow
    <3>3. \A k : k \in E[n] <=> k \in D[n] /\ k # c
      BY <1>e, <2>0, <2>3, <3>1
    <3> QED BY <3>1, <3>2, <3>3, <1>f, <1>2, <1>0
  <2>4. CASE R[n] # c /\ n # m
    <3>1. R2[n] = R[n]
      BY <2>4, <2>0
    <3>2. \A k \in E[n] : k \in D[n]
      BY <1>e, <2>0, <2>4
    <3>3. CASE R[n] = Nil
      BY <3>1, <3>2, <3>3, <2>0, <1>r DEF RightBelow
    <3>4. CASE R[n] # Nil
      <4> DEFINE l == R[n]
      <4>1. l \in S /\ P[l] = n /\ \A k \in Index : k \in D[l] <=> k \in D[n] /\ k > n
        BY <3>4, <2>0, <1>r DEF RightBelow
      <4>2. l # lc /\ l # rc /\ l # c /\ l \in Index /\ l \in Int
        BY <4>1, <2>0, <2>4, <1>1, <1>0
      <4>3. l # mr
        BY <4>1, <2>4, <1>4, <3>4
      <4>5. l \in D[n] /\ l # n /\ l > n
        BY <4>1, <4>2, <1>d, <2>0
      <4>8. l # m
        <5>1. SUFFICES ASSUME l = m PROVE FALSE
          OBVIOUS
        <5>2. mp = n /\ rc # m
          BY <5>1, <4>1, <1>6, <2>0
        <5>3. L[n] = m /\ L[n] # Nil
          BY <5>2, <1>6, <1>0, <1>2
        <5>4. m < n
          BY <5>3, <2>0, <1>d, <1>2, <1>r DEF LeftBelow
        <5> QED BY <5>1, <5>4, <4>5, <2>0, <4>2
      <4>4. P2[l] = n /\ l \in T
        BY <4>1, <4>2, <4>3, <4>8
      <4>6. n \in D[c] <=> l \in D[c]
        BY <4>1, <4>2, <4>5, <2>0, <1>r DEF Nested
      <4>7. \A k \in Index : k \in E[l] <=> k \in E[n] /\ k > n
        <5>1. CASE n \in D[c]
          BY <5>1, <4>6, <4>8, <4>1, <4>2, <1>e, <2>0, <2>4
        <5>2. CASE n \notin D[c]
          BY <5>2, <4>6, <4>8, <4>1, <4>2, <1>e, <2>0, <2>4
        <5> QED BY <5>1, <5>2
      <4> QED BY <3>1, <3>4, <4>4, <4>7
    <3> QED BY <3>3, <3>4
  <2> QED BY <2>1, <2>2, <2>3, <2>4
<1>14. ParentAbove(r2, L2, R2, P2, T)
  <2> SUFFICES ASSUME NEW n \in T, n # r2
               PROVE  P2[n] \in T /\ (L2[P2[n]] = n \/ R2[P2[n]] = n)
    BY DEF ParentAbove
  <2>0. n \in S /\ n # c /\ n \in Index
    BY <1>0
  <2>1. CASE n = m
    <3>1. p # Nil /\ P2[n] = p
      BY <2>0, <2>1
    <3>2. p # m /\ p # mp /\ p \in T
      BY <3>1, <1>p, <1>2, <1>6
    <3> QED BY <3>1, <3>2, <2>1, <1>p
  <2>2. CASE n = lc
    BY <2>2, <2>0, <1>2
  <2>3. CASE n = rc /\ n # m
    BY <2>3, <2>0, <1>2
  <2>4. CASE n = mr /\ n # m /\ n # lc /\ n # rc /\ rc # m
    <3>1. P2[n] = mp /\ mp \in T /\ mp # m
      BY <2>4, <2>0, <1>6
    <3> QED BY <3>1, <2>4, <2>0
  <2>5. CASE n = mr /\ n # m /\ n # lc /\ n # rc /\ rc = m
    <3>1. P2[n] = m
      BY <2>5, <2>0, <1>4, <1>0
    <3> QED BY <3>1, <2>5, <2>0, <1>2
  <2>6. CASE n # m /\ n # lc /\ n # rc /\ n # mr
    <3>1. n # r
      BY <2>0, <2>6, <1>c
    <3>2. P2[n] = P[n] /\ P[n] \in S /\ (L[P[n]] = n \/ R[P[n]] = n)
      BY <2>0, <2>6, <3>1, <1>r DEF ParentAbove
    <3>3. P[n] # c /\ P[n] # m
      BY <3>2, <2>6, <1>0, <2>0
    <3>4. ASSUME L[P[n]] = n PROVE L2[P[n]] = n
      <4>1. P[n] # mp
        BY <3>4, <1>6, <2>6, <3>3
      <4> QED BY <4>1, <3>2, <3>3, <3>4, <2>0
    <3>5. ASSUME R[P[n]] = n PROVE R2[P[n]] = n
      BY <3>2, <3>3, <3>5, <2>0
    <3> QED BY <3>2, <3>3, <3>4, <3>5
  <2> QED BY <2>1, <2>2, <2>3, <2>4, <2>5, <2>6
<1>15. Nested(P2, T, E)
  <2> SUFFICES ASSUME NEW n \in T
               PROVE  /\ n \in E[n]
                      /\ \A k \in E[n] : /\ k \in T
                                         /\ \A i \in E[k] : i \in E[n]
                                         /\ k # n => P2[k] \in E[n]
    BY DEF Nested
  <2>0. n \in S /\ n # c /\ n \in Index
    BY <1>0
  <2>1. n \in E[n]
    <3>1. CASE n = m
      BY <3>1, <1>f, <1>2, <2>0
    <3>2. CASE n # m
      BY <3>2, <1>e, <1>d, <2>0
    <3> QED BY <3>1, <3>2
  <2>2. ASSUME NEW k \in E[n]
        PROVE  k \in T /\ (\A i \in E[k] : i \in E[n]) /\ (k # n => P2[k] \in E[n])
    <3>1. CASE n = m
      <4>1. k \in D[c] /\ k # c /\ k \in S /\ k \in Index
        BY <2>2, <3>1, <1>f, <1>2, <1>d
      <4>2. ASSUME NEW i \in E[k] PROVE i \in E[n]
        <5>1. CASE k = m
          BY <5>1, <4>2, <3>1
        <5>2. CASE k # m
          <6>1. i \in D[k]
            BY <5>2, <4>1, <4>2, <1>e
          <6>2. i \in D[c] /\ i # c
            BY <6>1, <4>1, <1>5, <1>r DEF Nested
          <6> QED BY <6>2, <3>1, <1>f, <1>2
        <5> QED BY <5>1, <5>2
      <4>3. ASSUME k # n PROVE P2[k] \in E[n]
        <5>1. CASE k = lc \/ k = rc
          <6>1. P2[k] = m
            BY <5>1, <4>1, <4>3, <3>1
          <6> QED BY <6>1, <3>1, <1>f, <1>2
        <5>2. CASE k # lc /\ k # rc /\ k = mr /\ rc # m
          <6>1. P2[k] = mp
            BY <5>2, <4>1, <4>3, <3>1
          <6> QED BY <6>1, <5>2, <3>1, <1>f, <1>2, <1>6
        <5>3. CASE k # lc /\ k # rc /\ ~(k = mr /\ rc # m)
          <6>1. P2[k] = P[k]
            BY <5>3, <4>1, <4>3, <3>1
          <6>2. P[k] \in D[c]
            BY <4>1, <1>r DEF Nested
          <6>3. k # r
            BY <4>1, <1>r, <1>5, <1>0 DEF Rooted
          <6>4. P[k] # c
            BY <6>3, <4>1, <5>3, <1>r DEF ParentAbove
          <6> QED BY <6>1, <6>2, <6>4, <3>1, <1>f, <1>2
        <5> QED BY <5>1, <5>2, <5>3
      <4> QED BY <4>1, <4>2, <4>3
    <3>2. CASE n # m /\ n \in D[c]
      <4>1. k \in D[n] /\ k # m /\ k \in S /\ k \in Index /\ k \in D[c] /\ k # c /\ c \notin D[n]
        BY <2>2, <3>2, <2>0, <1>e, <1>d, <1>5, <1>r DEF Nested
      <4>2. ASSUME NEW i \in E[k] PROVE i \in E[n]
        <5>1. i \in D[k] /\ i # m
          BY <4>1, <4>2, <1>e
        <5> QED BY <5>1, <4>1, <3>2, <2>0, <1>e, <1>r DEF Nested
      <4>3. ASSUME k # n PROVE P2[k] \in E[n]
        <5>1. P[k] \in D[n] /\ P[k] # c
          BY <4>1, <4>3, <2>0, <1>r DEF Nested
        <5>2. k # lc /\ k # rc
          BY <5>1, <1>1
        <5>3. CASE k = mr
          <6>1. m \in D[n]
            BY <5>1, <5>3, <1>4, <4>1, <1>0
          <6>2. mp \in D[n] /\ mp # m
            BY <6>1, <3>2, <2>0, <1>6, <1>r DEF Nested
          <6>3. rc # m
            BY <6>2, <1>6, <4>1
          <6>4. P2[k] = mp
            BY <4>1, <5>2, <5>3, <6>3
          <6> QED BY <6>2, <6>4, <3>2, <2>0, <1>e
        <5>4. CASE k # mr
          <6>1. P2[k] = P[k]
            BY <4>1, <5>2, <5>4
          <6>2. k # r
            BY <4>1, <1>r, <1>5, <1>0 DEF Rooted
          <6>3. P[k] # m
            BY <6>2, <4>1, <5>4, <1>0, <1>r DEF ParentAbove
          <6> QED BY <6>1, <6>3, <5>1, <3>2, <2>0, <1>e
        <5> QED BY <5>3, <5>4
      <4> QED BY <4>1, <4>2, <4>3
    <3>3. CASE n # m /\ n \notin D[c]
      <4>0. \A i : i \in E[n] <=> i \in D[n] /\ i # c
        BY <3>3, <2>0, <1>e
      <4>1. k \in D[n] /\ k # c /\ k \in S /\ k \in Index
        BY <2>2, <4>0, <2>0, <1>d
      <4>c. c \in D[n] => /\ (\A i \in D[c] : i \in D[n]) /\ p \in D[n] /\ p # c
        <5>1. c \in D[n] => (\A i \in D[c] : i \in D[n]) /\ p \in D[n]
          BY <2>0, <1>r DEF Nested
        <5>2. p \in D[n] => p # Nil
          BY <1>d, <1>0, <2>0
        <5> QED BY <5>1, <5>2, <1>p
      <4>2. ASSUME NEW i \in E[k] PROVE i \in E[n]
        <5>1. CASE k = m
          <6>1. c \in D[n] /\ i \in D[c] /\ i # c
            BY <5>1, <4>1, <4>2, <3>3, <2>0, <1>7, <1>f
          <6> QED BY <6>1, <4>c, <4>0
        <5>2. CASE k # m
          <6>1. i \in D[k]
            BY <5>2, <4>1, <4>2, <1>e
          <6>2. i # c
            BY <5>2, <4>1, <4>2, <1>e, <1>5
          <6> QED BY <6>1, <6>2, <4>0, <4>1, <2>0, <1>r DEF Nested
        <5> QED BY <5>1, <5>2
      <4>3. ASSUME k # n PROVE P2[k] \in E[n]
        <5>1. P[k] \in D[n]
          BY <4>1, <4>3, <2>0, <1>r DEF Nested
        <5>2. CASE k = m
          <6>1. c \in D[n]
            BY <5>2, <4>1, <3>3, <2>0, <1>7
          <6>2. P2[k] = p
            BY <5>2, <4>1
          <6> QED BY <6>1, <6>2, <4>c, <4>0
        <5>3. CASE k # m /\ (k = lc \/ k = rc)
          <6>1. c \in D[n] /\ P2[k] = m
            BY <5>1, <5>3, <1>1, <4>1
          <6> QED BY <6>1, <4>c, <4>0, <1>2, <1>0
        <5>4. CASE k # m /\ k # lc /\ k # rc /\ k = mr /\ rc # m
          <6>1. P2[k] = mp
            BY <5>4, <4>1
          <6>2. m \in D[n]
            BY <5>1, <5>4, <1>4, <4>1, <1>0
          <6>3. c \in D[n]
            BY <6>2, <1>7, <3>3, <2>0
          <6> QED BY <6>1, <6>3, <4>c, <4>0, <1>6, <5>4
        <5>5. CASE k # m /\ k # lc /\ k # rc /\ ~(k = mr /\ rc # m)
          <6>1. P2[k] = P[k]
            BY <5>5, <4>1
          <6>2. k # r
            <7>1. SUFFICES ASSUME k = r PROVE FALSE
              OBVIOUS
            <7>2. n \in D[k]
              BY <7>1, <4>1, <2>0, <1>0, <1>r DEF Rooted
            <7> QED BY <7>2, <4>1, <4>3, <2>0, NotBoth
          <6>3. P[k] # c
            BY <6>2, <4>1, <5>5, <1>r DEF ParentAbove
          <6> QED BY <6>1, <6>3, <5>1, <4>0
        <5> QED BY <5>2, <5>3, <5>4, <5>5
      <4> QED BY <4>1, <4>2, <4>3
    <3> QED BY <3>1, <3>2, <3>3
  <2> QED BY <2>1, <2>2
<1>16. Tree(r2, L2, R2, P2, T, E)
  BY <1>0, <1>11, <1>12, <1>13, <1>14, <1>15 DEF Tree
<1> QED BY <1>E, <1>16

-----------------------------------------------------------------------------
(* A node is added.                                                        *)

\* A tree is a tree whatever happens to the other nodes.
LEMMA SameTree ==
    ASSUME NEW r, NEW L, NEW R, NEW P, NEW S, NEW D, Tree(r, L, R, P, S, D),
           NEW L2, NEW R2, NEW P2,
           \A n \in S : L2[n] = L[n] /\ R2[n] = R[n] /\ P2[n] = P[n]
    PROVE  Tree(r, L2, R2, P2, S, D)
<1>r. Rooted(r, P, S, D) /\ LeftBelow(L, P, S, D) /\ RightBelow(R, P, S, D) /\ ParentAbove(r, L, R, P, S) /\ Nested(P, S, D) /\ S \subseteq Index
  BY DEF Tree
<1>1. Rooted(r, P2, S, D)
  BY <1>r DEF Rooted
<1>2. LeftBelow(L2, P2, S, D)
  BY <1>r DEF LeftBelow
<1>3. RightBelow(R2, P2, S, D)
  BY <1>r DEF RightBelow
<1>4. ParentAbove(r, L2, R2, P2, S)
  BY <1>r DEF ParentAbove
<1>5. Nested(P2, S, D)
  BY <1>r DEF Nested
<1> QED BY <1>r, <1>1, <1>2, <1>3, <1>4, <1>5 DEF Tree

\* The first node of a tree is its root.
LEMMA FirstTree ==
    ASSUME NEW i \in Index, NEW L, NEW R, NEW P, L[i] = Nil, R[i] = Nil, P[i] = Nil
    PROVE  \E E \in [Index -> SUBSET Index] : Tree(i, L, R, P, {i}, E)
<1> DEFINE E == [n \in Index |-> {n}]
<1>1. i # Nil /\ i \in Int
  BY IndexIsInt
<1>2. Tree(i, L, R, P, {i}, E)
  BY <1>1 DEF Tree, Rooted, LeftBelow, RightBelow, ParentAbove, Nested
<1>3. E \in [Index -> SUBSET Index]
  OBVIOUS
<1> QED BY <1>2, <1>3

\* The new node i becomes a leaf below q.
Leafed(L, R, P, S, q, i, L2, R2, P2) ==
    \A n \in S \cup {i} : /\ L2[n] = IF n = q /\ i < q THEN i ELSE L[n]
                          /\ R2[n] = IF n = q /\ i > q THEN i ELSE R[n]
                          /\ P2[n] = IF n = i THEN q ELSE P[n]

\* A new node becomes a leaf on its side of all that are above it.
LEMMA LeafTree ==
    ASSUME NEW r, NEW L, NEW R, NEW P, NEW S, NEW D \in [Index -> SUBSET Index], Tree(r, L, R, P, S, D),
           NEW q \in S, NEW i \in Index, i \notin S, L[i] = Nil, R[i] = Nil,
           i < q => L[q] = Nil, i > q => R[q] = Nil,
           \A n \in S : q \in D[n] /\ n # q => (i < n <=> q < n),
           NEW L2, NEW R2, NEW P2, Leafed(L, R, P, S, q, i, L2, R2, P2)
    PROVE  \E E \in [Index -> SUBSET Index] : Tree(r, L2, R2, P2, S \cup {i}, E)
<1> DEFINE T == S \cup {i}
           E == [n \in Index |-> IF n = i THEN {i} ELSE IF q \in D[n] THEN D[n] \cup {i} ELSE D[n]]
<1>E. E \in [Index -> SUBSET Index]
  OBVIOUS
<1>h. \A n \in S \cup {i} :
         /\ L2[n] = IF n = q /\ i < q THEN i ELSE L[n]
         /\ R2[n] = IF n = q /\ i > q THEN i ELSE R[n]
         /\ P2[n] = IF n = i THEN q ELSE P[n]
  BY DEF Leafed
<1> USE <1>h
<1>r. Rooted(r, P, S, D) /\ LeftBelow(L, P, S, D) /\ RightBelow(R, P, S, D) /\ ParentAbove(r, L, R, P, S) /\ Nested(P, S, D)
  BY DEF Tree
<1>0. S \subseteq Index /\ Nil \notin Index /\ i \in Int /\ i # Nil /\ \A n \in S : n \in Index /\ n \in Int /\ n # Nil /\ n # i
  BY IndexIsInt DEF Tree
<1>e. \A n \in Index : n # i => \A k : k \in E[n] <=> k \in D[n] \/ (k = i /\ q \in D[n])
  OBVIOUS
<1>f. \A k : k \in E[i] <=> k = i
  OBVIOUS
<1> HIDE DEF E
<1>d. \A n \in S : n \in D[n] /\ \A k \in D[n] : k \in S /\ k \in Index /\ k \in Int /\ k # i
  BY <1>r, <1>0 DEF Nested
<1>q. q \in Index /\ q \in Int /\ q # i /\ (i < q \/ i > q) /\ ~(i < q /\ i > q)
  BY <1>0
<1>1. Rooted(r, P2, T, E)
  <2>1. r # Nil /\ r \in S /\ P[r] = Nil /\ \A k \in S : k \in D[r]
    BY <1>r DEF Rooted
  <2>2. r \in Index /\ r # i
    BY <2>1, <1>0
  <2> QED BY <2>1, <2>2, <1>e DEF Rooted
<1>2. LeftBelow(L2, P2, T, E)
  <2> SUFFICES ASSUME NEW n \in T
               PROVE  /\ L2[n] = Nil => \A k \in E[n] : k >= n
                      /\ L2[n] # Nil => /\ L2[n] \in T /\ P2[L2[n]] = n
                                        /\ \A k \in Index : k \in E[L2[n]] <=> k \in E[n] /\ k < n
    BY DEF LeftBelow
  <2>1. CASE n = i
    BY <2>1, <1>f, <1>q, <1>0
  <2>2. CASE n = q /\ i < q
    <3>1. L2[n] = i /\ i # Nil /\ i \in T /\ P2[i] = n
      BY <2>2, <1>0
    <3>2. \A k \in D[n] : k >= n /\ k \in Int
      BY <2>2, <1>d, <1>r DEF LeftBelow
    <3>3. ASSUME NEW k \in Index PROVE k \in E[i] <=> k \in E[n] /\ k < n
      <4>1. k \in E[n] <=> k \in D[n] \/ k = i
        BY <2>2, <1>e, <1>q, <1>d
      <4>2. k \in D[n] => ~(k < n)
        BY <3>2, <2>2, <1>q
      <4>3. k = i => k < n
        BY <2>2
      <4> QED BY <4>1, <4>2, <4>3, <1>f
    <3> QED BY <3>1, <3>3
  <2>3. CASE n # i /\ ~(n = q /\ i < q)
    <3>0. n \in S /\ n \in Index /\ n \in Int /\ L2[n] = L[n]
      BY <2>3, <1>0
    <3>s. q \in D[n] => (i < n <=> q < n)
      <4>1. CASE n = q
        BY <4>1, <2>3, <1>q
      <4>2. CASE n # q
        BY <4>2, <3>0
      <4> QED BY <4>1, <4>2
    <3>1. CASE L[n] = Nil
      <4>1. \A k \in D[n] : k >= n
        BY <3>0, <3>1, <1>r DEF LeftBelow
      <4>2. q \in D[n] => i >= n
        BY <4>1, <3>s, <3>0, <1>q, <1>0
      <4> QED BY <4>1, <4>2, <3>0, <3>1, <2>3, <1>e
    <3>2. CASE L[n] # Nil
      <4> DEFINE l == L[n]
      <4>1. l \in S /\ P[l] = n /\ \A k \in Index : k \in D[l] <=> k \in D[n] /\ k < n
        BY <3>2, <3>0, <1>r DEF LeftBelow
      <4>2. l \in Index /\ l # i /\ P2[l] = n
        BY <4>1, <1>0
      <4> HIDE DEF l
      <4>3. ASSUME NEW k \in Index PROVE k \in E[l] <=> k \in E[n] /\ k < n
        <5>1. k \in E[l] <=> k \in D[l] \/ (k = i /\ q \in D[l])
          BY <4>2, <1>e
        <5>2. k \in E[n] <=> k \in D[n] \/ (k = i /\ q \in D[n])
          BY <3>0, <2>3, <1>e
        <5>3. q \in D[l] <=> q \in D[n] /\ q < n
          BY <4>1, <1>q
        <5> QED BY <5>1, <5>2, <5>3, <4>1, <3>s
      <4> QED BY <4>1, <4>2, <4>3, <3>0, <3>2 DEF l
    <3> QED BY <3>1, <3>2
  <2> QED BY <2>1, <2>2, <2>3
<1>3. RightBelow(R2, P2, T, E)
  <2> SUFFICES ASSUME NEW n \in T
               PROVE  /\ R2[n] = Nil => \A k \in E[n] : k <= n
                      /\ R2[n] # Nil => /\ R2[n] \in T /\ P2[R2[n]] = n
                                        /\ \A k \in Index : k \in E[R2[n]] <=> k \in E[n] /\ k > n
    BY DEF RightBelow
  <2>1. CASE n = i
    BY <2>1, <1>f, <1>q, <1>0
  <2>2. CASE n = q /\ i > q
    <3>1. R2[n] = i /\ i # Nil /\ i \in T /\ P2[i] = n
      BY <2>2, <1>0
    <3>2. \A k \in D[n] : k <= n /\ k \in Int
      BY <2>2, <1>d, <1>r DEF RightBelow
    <3>3. ASSUME NEW k \in Index PROVE k \in E[i] <=> k \in E[n] /\ k > n
      <4>1. k \in E[n] <=> k \in D[n] \/ k = i
        BY <2>2, <1>e, <1>q, <1>d
      <4>2. k \in D[n] => ~(k > n)
        BY <3>2, <2>2, <1>q
      <4>3. k = i => k > n
        BY <2>2
      <4> QED BY <4>1, <4>2, <4>3, <1>f
    <3> QED BY <3>1, <3>3
  <2>3. CASE n # i /\ ~(n = q /\ i > q)
    <3>0. n \in S /\ n \in Index /\ n \in Int /\ R2[n] = R[n]
      BY <2>3, <1>0
    <3>s. q \in D[n] => (i > n <=> q > n)
      <4>1. CASE n = q
        BY <4>1, <2>3, <1>q
      <4>2. CASE n # q
        <5>1. q \in D[n] => (i < n <=> q < n)
          BY <4>2, <3>0
        <5> QED BY <5>1, <4>2, <3>0, <2>3, <1>q, <1>0
      <4> QED BY <4>1, <4>2
    <3>1. CASE R[n] = Nil
      <4>1. \A k \in D[n] : k <= n
        BY <3>0, <3>1, <1>r DEF RightBelow
      <4>2. q \in D[n] => i <= n
        BY <4>1, <3>s, <3>0, <1>q, <1>0
      <4> QED BY <4>1, <4>2, <3>0, <3>1, <2>3, <1>e
    <3>2. CASE R[n] # Nil
      <4> DEFINE l == R[n]
      <4>1. l \in S /\ P[l] = n /\ \A k \in Index : k \in D[l] <=> k \in D[n] /\ k > n
        BY <3>2, <3>0, <1>r DEF RightBelow
      <4>2. l \in Index /\ l # i /\ P2[l] = n
        BY <4>1, <1>0
      <4> HIDE DEF l
      <4>3. ASSUME NEW k \in Index PROVE k \in E[l] <=> k \in E[n] /\ k > n
        <5>1. k \in E[l] <=> k \in D[l] \/ (k = i /\ q \in D[l])
          BY <4>2, <1>e
        <5>2. k \in E[n] <=> k \in D[n] \/ (k = i /\ q \in D[n])
          BY <3>0, <2>3, <1>e
        <5>3. q \in D[l] <=> q \in D[n] /\ q > n
          BY <4>1, <1>q
        <5> QED BY <5>1, <5>2, <5>3, <4>1, <3>s
      <4> QED BY <4>1, <4>2, <4>3, <3>0, <3>2 DEF l
    <3> QED BY <3>1, <3>2
  <2> QED BY <2>1, <2>2, <2>3
<1>4. ParentAbove(r, L2, R2, P2, T)
  <2> SUFFICES ASSUME NEW n \in T, n # r
               PROVE  P2[n] \in T /\ (L2[P2[n]] = n \/ R2[P2[n]] = n)
    BY DEF ParentAbove
  <2>1. CASE n = i
    BY <2>1, <1>q
  <2>2. CASE n # i
    <3>1. n \in S /\ P2[n] = P[n] /\ P[n] \in S /\ (L[P[n]] = n \/ R[P[n]] = n) /\ n # Nil
      BY <2>2, <1>r, <1>0 DEF ParentAbove
    <3> QED BY <3>1, <1>q
  <2> QED BY <2>1, <2>2
<1>5. Nested(P2, T, E)
  <2> SUFFICES ASSUME NEW n \in T
               PROVE  /\ n \in E[n]
                      /\ \A k \in E[n] : /\ k \in T
                                         /\ \A j2 \in E[k] : j2 \in E[n]
                                         /\ k # n => P2[k] \in E[n]
    BY DEF Nested
  <2>1. CASE n = i
    BY <2>1, <1>f
  <2>2. CASE n # i
    <3>0. n \in S /\ n \in Index /\ n \in D[n] /\ \A k : k \in E[n] <=> k \in D[n] \/ (k = i /\ q \in D[n])
      BY <2>2, <1>0, <1>d, <1>e
    <3>1. ASSUME NEW k \in E[n]
          PROVE  k \in T /\ (\A j2 \in E[k] : j2 \in E[n]) /\ (k # n => P2[k] \in E[n])
      <4>1. CASE k = i
        <5>1. q \in D[n]
          BY <4>1, <3>0, <3>1, <1>d
        <5> QED BY <4>1, <5>1, <3>0, <3>1, <1>f
      <4>2. CASE k # i
        <5>1. k \in D[n] /\ k \in S /\ k \in Index /\ P2[k] = P[k]
          BY <4>2, <3>0, <3>1, <1>d
        <5>2. k # n => P[k] \in D[n]
          BY <5>1, <3>0, <1>r DEF Nested
        <5>3. ASSUME NEW j2 \in E[k] PROVE j2 \in E[n]
          <6>1. j2 \in D[k] \/ (j2 = i /\ q \in D[k])
            BY <5>1, <5>3, <4>2, <1>e
          <6>2. \A b \in D[k] : b \in D[n]
            BY <5>1, <3>0, <1>r DEF Nested
          <6> QED BY <6>1, <6>2, <3>0
        <5> QED BY <5>1, <5>2, <5>3, <3>0
      <4> QED BY <4>1, <4>2
    <3> QED BY <3>0, <3>1
  <2> QED BY <2>1, <2>2
<1>6. Tree(r, L2, R2, P2, T, E)
  BY <1>0, <1>1, <1>2, <1>3, <1>4, <1>5 DEF Tree
<1> QED BY <1>E, <1>6

-----------------------------------------------------------------------------
(* Descents.                                                               *)

\* p is a descent of d nodes of C that starts at n, goes on by next, and ends
\* where next has no node.
Descends(p, d, n, next, C) ==
    /\ d \in 1 .. Size
    /\ p \in [1 .. d -> C]
    /\ p[1] = n
    /\ \A k \in 1 .. d - 1 : p[k + 1] = next[p[k]]
    /\ next[p[d]] = Nil

\* A descent is what Path makes of the nodes after each other.
LEMMA PathSteps ==
    ASSUME NEW n \in Link, NEW next \in Links
    PROVE  \E at \in [0 .. Size -> Link] :
              /\ at[0] = n
              /\ \A k \in 0 .. Size - 1 : at[k + 1] = IF at[k] = Nil THEN Nil ELSE next[at[k]]
              /\ Path(n, next) = LET d == CHOOSE d \in 0 .. Size : at[d] = Nil /\ \A k \in 0 .. d - 1 : at[k] # Nil
                                 IN [k \in 1 .. d |-> at[k - 1]]
<1> DEFINE step == [x \in Nat \X Link |-> IF x[2] = Nil THEN Nil ELSE next[x[2]]]
           body(g, k) == IF k = 0 THEN n ELSE LET m == g[k - 1] IN IF m = Nil THEN Nil ELSE next[m]
<1>0. Size \in Nat /\ Nil \in Link /\ \A m \in Link : m # Nil => m \in Index
  BY SizeAssumption, IndexIsInt DEF Link
<1>1. step \in [Nat \X Link -> Link]
  <2>1. ASSUME NEW x \in Nat \X Link PROVE (IF x[2] = Nil THEN Nil ELSE next[x[2]]) \in Link
    <3>1. x[2] \in Link
      OBVIOUS
    <3> QED BY <3>1, <1>0 DEF Links
  <2> QED BY <2>1
<1>2. PICK g \in [0 .. Size -> Link] : Begins(g, Size, n, step)
  <2> HIDE DEF step
  <2> QED BY <1>0, <1>1, BeginsExist
<1>3. g[0] = n /\ \A k \in 0 .. Size - 1 : g[k + 1] = IF g[k] = Nil THEN Nil ELSE next[g[k]]
  <2>1. ASSUME NEW k \in 0 .. Size - 1 PROVE g[k + 1] = IF g[k] = Nil THEN Nil ELSE next[g[k]]
    <3>1. <<k, g[k]>> \in Nat \X Link
      BY <1>0
    <3>2. step[<<k, g[k]>>] = IF g[k] = Nil THEN Nil ELSE next[g[k]]
      BY <3>1
    <3>3. g[k + 1] = step[<<k, g[k]>>]
      BY <1>2 DEF Begins
    <3> QED BY <3>2, <3>3
  <2> QED BY <1>2, <2>1 DEF Begins
<1>4. g = [k \in 0 .. Size |-> body(g, k)]
  <2>1. ASSUME NEW k \in 0 .. Size PROVE g[k] = body(g, k)
    <3>1. CASE k = 0
      BY <1>3, <3>1
    <3>2. CASE k # 0
      <4>1. k - 1 \in 0 .. Size - 1 /\ (k - 1) + 1 = k
        BY <3>2, <1>0
      <4>2. g[(k - 1) + 1] = IF g[k - 1] = Nil THEN Nil ELSE next[g[k - 1]]
        BY <1>3, <4>1
      <4> QED BY <3>2, <4>1, <4>2
    <3> QED BY <3>1, <3>2
  <2> HIDE DEF body
  <2> QED BY <2>1
<1> DEFINE at == CHOOSE f : f = [k \in 0 .. Size |-> body(f, k)]
           d == CHOOSE d \in 0 .. Size : at[d] = Nil /\ \A k \in 0 .. d - 1 : at[k] # Nil
<1>5. Path(n, next) = [k \in 1 .. d |-> at[k - 1]]
  BY DEF Path
<1>6. at = [k \in 0 .. Size |-> body(at, k)]
  <2> HIDE DEF body
  <2> QED BY <1>4
<1> HIDE DEF at
<1>7. \A k \in 0 .. Size : at[k] = body(at, k)
  <2> HIDE DEF body
  <2> QED BY <1>6
<1>8. at[0] = n
  BY <1>7, <1>0
<1>9. ASSUME NEW k \in 0 .. Size - 1 PROVE at[k + 1] = IF at[k] = Nil THEN Nil ELSE next[at[k]]
  <2>1. k + 1 \in 0 .. Size /\ k + 1 # 0 /\ (k + 1) - 1 = k
    BY <1>0
  <2>2. at[k + 1] = body(at, k + 1)
    BY <1>7, <2>1
  <2> QED BY <2>1, <2>2
<1>10. at \in [0 .. Size -> Link]
  <2> DEFINE K == {k \in Nat : k <= Size => at[k] \in Link}
  <2>1. 0 \in K
    BY <1>8
  <2>2. ASSUME NEW k \in Nat, k \in K PROVE k + 1 \in K
    <3>1. SUFFICES ASSUME k + 1 <= Size PROVE at[k + 1] \in Link
      OBVIOUS
    <3>2. k \in 0 .. Size - 1 /\ at[k] \in Link
      BY <2>2, <3>1, <1>0
    <3> QED BY <3>2, <1>9, <1>0 DEF Links
  <2> HIDE DEF K
  <2>3. Nat \subseteq K
    BY <2>1, <2>2, NatInductive
  <2>4. \A k \in 0 .. Size : at[k] \in Link
    BY <2>3 DEF K
  <2>5. at = [k \in 0 .. Size |-> at[k]]
    <3> HIDE DEF body
    <3> QED BY <1>6
  <2> QED BY <2>4, <2>5
<1> QED BY <1>5, <1>8, <1>9, <1>10

\* There is no node on the way from no node.
LEMMA PathOfNil ==
    ASSUME NEW next \in Links
    PROVE  ToSet(Path(Nil, next)) = {}
<1>0. Nil \in Link /\ Size \in Nat
  BY IndexIsInt, SizeAssumption
<1>1. PICK at \in [0 .. Size -> Link] :
              /\ at[0] = Nil
              /\ \A k \in 0 .. Size - 1 : at[k + 1] = IF at[k] = Nil THEN Nil ELSE next[at[k]]
              /\ Path(Nil, next) = LET d == CHOOSE d \in 0 .. Size : at[d] = Nil /\ \A k \in 0 .. d - 1 : at[k] # Nil
                                 IN [k \in 1 .. d |-> at[k - 1]]
  BY <1>0, PathSteps
<1> DEFINE d == CHOOSE d \in 0 .. Size : at[d] = Nil /\ \A k \in 0 .. d - 1 : at[k] # Nil
<1>2. 0 \in 0 .. Size /\ at[0] = Nil /\ \A k \in 0 .. 0 - 1 : at[k] # Nil
  BY <1>0, <1>1
<1>3. d \in 0 .. Size /\ \A k \in 0 .. d - 1 : at[k] # Nil
  BY <1>2
<1>4. Path(Nil, next) = [k \in 1 .. d |-> at[k - 1]]
  BY <1>1
<1> HIDE DEF d
<1>5. d = 0
  <2>1. d # 0 => 0 \in 0 .. d - 1
    BY <1>3
  <2> QED BY <2>1, <1>1, <1>3
<1> QED BY <1>4, <1>5 DEF ToSet

\* A descent that stays among C, and goes down a rank with each step, ends.
LEMMA PathEnds ==
    ASSUME NEW next \in Links, NEW C \in SUBSET Index, NEW n \in C, NEW rank,
           \A m \in C : /\ rank[m] \in 1 .. Size
                        /\ next[m] # Nil => next[m] \in C /\ rank[next[m]] < rank[m]
    PROVE  \E d \in 1 .. Size : Descends(Path(n, next), d, n, next, C)
<1>0. n \in Link /\ Size \in Nat /\ Nil \notin C /\ n # Nil
  BY IndexIsInt, SizeAssumption DEF Link
<1>1. PICK at \in [0 .. Size -> Link] :
              /\ at[0] = n
              /\ \A k \in 0 .. Size - 1 : at[k + 1] = IF at[k] = Nil THEN Nil ELSE next[at[k]]
              /\ Path(n, next) = LET d == CHOOSE d \in 0 .. Size : at[d] = Nil /\ \A k \in 0 .. d - 1 : at[k] # Nil
                                 IN [k \in 1 .. d |-> at[k - 1]]
  BY <1>0, PathSteps
<1> DEFINE d == CHOOSE d \in 0 .. Size : at[d] = Nil /\ \A k \in 0 .. d - 1 : at[k] # Nil
           K == {k \in Nat : k <= Size => at[k] = Nil \/ (at[k] \in C /\ rank[at[k]] <= Size - k)}
<1>4. Path(n, next) = [k \in 1 .. d |-> at[k - 1]]
  BY <1>1
<1>5. Nat \subseteq K
  <2>1. 0 \in K
    BY <1>0, <1>1
  <2>2. ASSUME NEW k \in Nat, k \in K PROVE k + 1 \in K
    <3>1. SUFFICES ASSUME k + 1 <= Size, at[k + 1] # Nil
                   PROVE  at[k + 1] \in C /\ rank[at[k + 1]] <= Size - (k + 1)
      OBVIOUS
    <3>2. k \in 0 .. Size - 1
      BY <3>1, <1>0
    <3>3. at[k] # Nil /\ at[k + 1] = next[at[k]]
      BY <3>1, <3>2, <1>1
    <3>4. at[k] \in C /\ rank[at[k]] <= Size - k
      BY <2>2, <3>2, <3>3, <1>0
    <3>5. at[k + 1] \in C /\ rank[at[k + 1]] < rank[at[k]] /\ rank[at[k]] \in Int /\ rank[at[k + 1]] \in Int
      BY <3>1, <3>3, <3>4
    <3> QED BY <3>4, <3>5, <1>0
  <2> HIDE DEF K
  <2> QED BY <2>1, <2>2, NatInductive
<1>6. at[Size] = Nil
  <2>1. SUFFICES ASSUME at[Size] # Nil PROVE FALSE
    OBVIOUS
  <2>2. at[Size] \in C /\ rank[at[Size]] <= Size - Size
    BY <1>0, <1>5, <2>1
  <2>3. rank[at[Size]] \in 1 .. Size
    BY <2>2
  <2> QED BY <2>2, <2>3, <1>0
<1>7. d \in 0 .. Size /\ at[d] = Nil /\ \A k \in 0 .. d - 1 : at[k] # Nil
  <2> DEFINE Ends == {k \in Nat : k <= Size /\ at[k] = Nil}
  <2>1. Ends # {} /\ Ends \in SUBSET Nat
    BY <1>0, <1>6
  <2>2. PICK e \in Ends : \A k \in Ends : e <= k
    BY <2>1, LeastOf
  <2>3. e \in 0 .. Size /\ at[e] = Nil
    BY <2>2, <1>0
  <2>4. ASSUME NEW k \in 0 .. e - 1 PROVE at[k] # Nil
    BY <2>2, <2>3, <1>0
  <2> QED BY <2>3, <2>4
<1> HIDE DEF d
<1>8. d # 0
  BY <1>0, <1>1, <1>7
<1>9. d \in 1 .. Size
  BY <1>7, <1>8, <1>0
<1> DEFINE p == Path(n, next)
<1>10. ASSUME NEW k \in 1 .. d PROVE at[k - 1] \in C /\ p[k] = at[k - 1]
  <2>1. k - 1 \in Nat /\ k - 1 <= Size /\ k - 1 \in 0 .. d - 1
    BY <1>9, <1>0
  <2>2. at[k - 1] # Nil
    BY <2>1, <1>7
  <2> QED BY <2>1, <2>2, <1>5, <1>4
<1>11. p \in [1 .. d -> C]
  BY <1>4, <1>10
<1>12. p[1] = n
  <2>1. 1 \in 1 .. d /\ 1 - 1 = 0
    BY <1>9
  <2> QED BY <2>1, <1>10, <1>1
<1>13. ASSUME NEW k \in 1 .. d - 1 PROVE p[k + 1] = next[p[k]]
  <2>1. k \in 1 .. d /\ k + 1 \in 1 .. d /\ (k + 1) - 1 = k /\ k \in 0 .. Size - 1 /\ k - 1 \in 0 .. Size - 1 /\ (k - 1) + 1 = k
    BY <1>9, <1>0
  <2>2. at[(k - 1) + 1] = next[at[k - 1]]
    BY <2>1, <1>1, <1>10, <1>0
  <2>3. p[k + 1] = at[(k + 1) - 1] /\ p[k] = at[k - 1]
    BY <2>1, <1>10
  <2> QED BY <2>1, <2>2, <2>3
<1>14. next[p[d]] = Nil
  <2>1. d \in 1 .. d /\ d - 1 \in 0 .. Size - 1 /\ (d - 1) + 1 = d
    BY <1>9, <1>0
  <2>2. at[(d - 1) + 1] = next[at[d - 1]] /\ p[d] = at[d - 1]
    BY <2>1, <1>1, <1>10, <1>0
  <2> QED BY <2>1, <2>2, <1>7
<1> HIDE DEF p
<1>15. Descends(p, d, n, next, C)
  BY <1>9, <1>11, <1>12, <1>13, <1>14 DEF Descends
<1> QED BY <1>9, <1>15 DEF p

\* The last node of a descent.
LEMMA DescentLast ==
    ASSUME NEW p, NEW d, NEW n, NEW next, NEW C, Descends(p, d, n, next, C)
    PROVE  Last(p) \in C /\ next[Last(p)] = Nil
<1>1. p \in Seq(C) /\ Len(p) = d /\ d \in 1 .. d
  BY SizeAssumption DEF Descends
<1> QED BY <1>1 DEF Descends, Last

-----------------------------------------------------------------------------
(* Heaps of nodes, and where the descents in them lead.                    *)

\* The links of a heap.
Heaps == [root : [Trees -> Link], left : Links, right : Links, parent : Links]

\* Tree t of the heap h holds the nodes of S.
Grows(h, t, S, D) ==
    D \in [Index -> SUBSET Index] /\ Tree(h.root[t], h.left, h.right, h.parent, S, D)

\* Tree t of the heap h is a search tree of the nodes of S.
Grown(h, t, S) == \E D : Grows(h, t, S, D)

\* A descent goes on to a child, or to no node.
LEMMA TowardTyped ==
    ASSUME NEW h \in Heaps, NEW i \in Index, NEW coin \in BOOLEAN
    PROVE  /\ Toward(h, i, coin) \in Links
           /\ \A m \in Index : Toward(h, i, coin)[m] = IF i > m \/ (i = m /\ coin) THEN h.right[m] ELSE h.left[m]
<1>1. \A m \in Index : h.left[m] \in Link /\ h.right[m] \in Link
  BY DEF Heaps, Links
<1> QED BY <1>1 DEF Toward, Links

\* A child is below its parent, with fewer below it.
LEMMA ChildBelow ==
    ASSUME NEW r, NEW L, NEW R, NEW P, NEW S, NEW D \in [Index -> SUBSET Index], Tree(r, L, R, P, S, D),
           NEW n \in S, NEW m, m = L[n] \/ m = R[n], m # Nil
    PROVE  m \in S /\ m \in D[n] /\ m # n /\ P[m] = n /\ Cardinality(D[m]) < Cardinality(D[n])
<1>0. S \subseteq Index /\ LeftBelow(L, P, S, D) /\ RightBelow(R, P, S, D) /\ Nested(P, S, D)
  BY DEF Tree
<1>1. m \in S /\ P[m] = n
  BY <1>0 DEF LeftBelow, RightBelow
<1>2. m \in Index /\ m \in Int /\ n \in Int /\ m \in D[m]
  BY <1>0, <1>1, IndexIsInt DEF Nested
<1>3. m \in D[n] /\ m # n
  <2>1. CASE m = L[n]
    <3>1. m \in D[n] /\ m < n
      BY <2>1, <1>0, <1>2 DEF LeftBelow
    <3> QED BY <3>1, <1>2
  <2>2. CASE m = R[n]
    <3>1. m \in D[n] /\ m > n
      BY <2>2, <1>0, <1>2 DEF RightBelow
    <3> QED BY <3>1, <1>2
  <2> QED BY <2>1, <2>2
<1> QED BY <1>1, <1>3, BelowFewer

\* A walk for i meets nodes of the tree, and i if the tree has it.
LEMMA WalkMeets ==
    ASSUME NEW h \in Heaps, NEW t \in Trees, NEW S, NEW D, Grows(h, t, S, D),
           NEW i \in Index, NEW coin \in BOOLEAN
    PROVE  /\ Walk(h, h.root[t], i, coin) \in Seq(S)
           /\ i \in ToSet(Walk(h, h.root[t], i, coin)) <=> i \in S
<1> DEFINE r == h.root[t]  L == h.left  R == h.right  P == h.parent
           next == Toward(h, i, coin)  w == Walk(h, r, i, coin)
<1>0. Tree(r, L, R, P, S, D) /\ D \in [Index -> SUBSET Index] /\ S \in SUBSET Index /\ next \in Links
      /\ w = Path(r, next)
      /\ \A m \in Index : next[m] = IF i > m \/ (i = m /\ coin) THEN R[m] ELSE L[m]
  BY TowardTyped DEF Grows, Tree, Walk
<1>t. Rooted(r, P, S, D) /\ LeftBelow(L, P, S, D) /\ RightBelow(R, P, S, D) /\ Nested(P, S, D)
  BY <1>0 DEF Tree
<1>i. i \in Int /\ \A m \in S : m \in Index /\ m \in Int
  BY <1>0, IndexIsInt
<1> HIDE DEF r, L, R, P, next, w
<1>1. CASE r = Nil
  <2>1. S = {}
    BY <1>1, <1>t DEF Rooted
  <2>2. ToSet(w) = {}
    BY <1>0, <1>1, PathOfNil
  <2>3. w \in Seq(S)
    <3>1. PICK at \in [0 .. Size -> Link] :
              /\ at[0] = r
              /\ \A k \in 0 .. Size - 1 : at[k + 1] = IF at[k] = Nil THEN Nil ELSE next[at[k]]
              /\ Path(r, next) = LET d == CHOOSE d \in 0 .. Size : at[d] = Nil /\ \A k \in 0 .. d - 1 : at[k] # Nil
                                 IN [k \in 1 .. d |-> at[k - 1]]
      BY <1>0, <1>1, IndexIsInt, PathSteps
    <3> DEFINE d == CHOOSE d \in 0 .. Size : at[d] = Nil /\ \A k \in 0 .. d - 1 : at[k] # Nil
    <3>2. d \in 0 .. Size
      <4>1. 0 \in 0 .. Size /\ at[0] = Nil /\ \A k \in 0 .. 0 - 1 : at[k] # Nil
        BY <3>1, <1>1, SizeAssumption
      <4> QED BY <4>1
    <3>3. w = [k \in 1 .. d |-> at[k - 1]]
      BY <1>0, <3>1
    <3> HIDE DEF d
    <3>4. d = 0
      <4>1. ASSUME d # 0 PROVE FALSE
        <5>1. 1 \in DOMAIN w
          BY <3>2, <3>3, <4>1, SizeAssumption
        <5> QED BY <5>1, <2>2 DEF ToSet
      <4> QED BY <4>1
    <3>5. w = <<>>
      BY <3>3, <3>4
    <3> QED BY <3>5
  <2> QED BY <2>1, <2>2, <2>3, <1>0 DEF r, w
<1>2. CASE r # Nil
  <2> DEFINE rank == [m \in S |-> Cardinality(D[m])]
  <2>1. r \in S /\ \A m \in S : m \in D[r]
    BY <1>2, <1>t DEF Rooted
  <2>2. \A m \in S : /\ rank[m] \in 1 .. Size
                     /\ next[m] # Nil => next[m] \in S /\ rank[next[m]] < rank[m]
    <3>1. ASSUME NEW m \in S PROVE rank[m] \in 1 .. Size
      BY <1>0, BelowFinite
    <3>2. ASSUME NEW m \in S, next[m] # Nil PROVE next[m] \in S /\ rank[next[m]] < rank[m]
      <4>1. next[m] = L[m] \/ next[m] = R[m]
        BY <1>0, <1>i
      <4>2. next[m] \in S /\ Cardinality(D[next[m]]) < Cardinality(D[m])
        BY <3>2, <4>1, <1>0, ChildBelow
      <4> QED BY <4>2
    <3> QED BY <3>1, <3>2
  <2> HIDE DEF rank
  <2>3. PICK d \in 1 .. Size : Descends(w, d, r, next, S)
    BY <2>1, <2>2, <1>0, PathEnds
  <2>4. w \in [1 .. d -> S] /\ w[1] = r /\ (\A k \in 1 .. d - 1 : w[k + 1] = next[w[k]]) /\ next[w[d]] = Nil
    BY <2>3 DEF Descends
  <2>5. w \in Seq(S) /\ DOMAIN w = 1 .. d
    BY <2>4
  <2>6. i \in ToSet(w) => i \in S
    BY <2>4, <2>5 DEF ToSet
  <2>7. ASSUME i \in S, i \notin ToSet(w) PROVE FALSE
    <3> DEFINE K == {k \in Nat : k \in 1 .. d => i \in D[w[k]]}
    <3>0. \A k \in 1 .. d : w[k] # i /\ w[k] \in S /\ w[k] \in Index /\ w[k] \in Int
      BY <2>4, <2>5, <2>7, <1>i DEF ToSet
    <3>s. ASSUME NEW k \in 1 .. d, i \in D[w[k]] PROVE next[w[k]] # Nil /\ i \in D[next[w[k]]]
      <4> DEFINE m == w[k]
      <4>1. m # i /\ m \in S /\ m \in Index /\ m \in Int /\ i \in D[m]
        BY <3>0, <3>s
      <4> HIDE DEF m
      <4>2. CASE i > m
        <5>1. next[m] = R[m]
          BY <4>1, <4>2, <1>0
        <5> QED BY <5>1, <4>1, <4>2, <1>t, <1>i DEF RightBelow, m
      <4>3. CASE i < m
        <5>1. next[m] = L[m]
          BY <4>1, <4>3, <1>0, <1>i
        <5> QED BY <5>1, <4>1, <4>3, <1>t, <1>i DEF LeftBelow, m
      <4> QED BY <4>1, <4>2, <4>3, <1>i
    <3>1. 0 \in K
      OBVIOUS
    <3>2. ASSUME NEW k \in Nat, k \in K PROVE k + 1 \in K
      <4>1. SUFFICES ASSUME k + 1 \in 1 .. d PROVE i \in D[w[k + 1]]
        OBVIOUS
      <4>2. CASE k = 0
        BY <4>2, <2>1, <2>4, <2>7
      <4>3. CASE k # 0
        <5>1. k \in 1 .. d /\ k \in 1 .. d - 1 /\ i \in D[w[k]]
          BY <3>2, <4>1, <4>3
        <5> QED BY <5>1, <3>s, <2>4
      <4> QED BY <4>2, <4>3
    <3> HIDE DEF K
    <3>3. Nat \subseteq K
      BY <3>1, <3>2, NatInductive
    <3>4. d \in 1 .. d /\ i \in D[w[d]]
      BY <3>3 DEF K
    <3> QED BY <3>4, <3>s, <2>4
  <2> QED BY <2>5, <2>6, <2>7 DEF r, w
<1> QED BY <1>1, <1>2

\* The least node of the right subtree.
LEMMA MinLeast ==
    ASSUME NEW h \in Heaps, NEW t \in Trees, NEW S, NEW D, Grows(h, t, S, D), NEW b \in S
    PROVE  /\ minNode(h, b) \in D[b] /\ h.left[minNode(h, b)] = Nil
           /\ \A k \in D[b] : minNode(h, b) <= k
<1> DEFINE r == h.root[t]  L == h.left  R == h.right  P == h.parent
           C == {n \in D[b] : \A k \in D[b] : k < n => k \in D[n]}
           rank == [m \in S |-> Cardinality(D[m])]
<1>0. Tree(r, L, R, P, S, D) /\ D \in [Index -> SUBSET Index] /\ S \in SUBSET Index /\ L \in Links
      /\ minNode(h, b) = Last(Path(b, L))
  BY DEF Grows, Tree, minNode, Heaps
<1>t. LeftBelow(L, P, S, D) /\ Nested(P, S, D)
  BY <1>0 DEF Tree
<1>i. \A m \in S : m \in Index /\ m \in Int
  BY <1>0, IndexIsInt
<1> HIDE DEF r, L, R, P
<1>1. b \in C /\ \A m \in C : m \in S /\ m \in D[b]
  BY <1>t DEF Nested
<1>2. \A m \in C : /\ rank[m] \in 1 .. Size
                   /\ L[m] # Nil => L[m] \in C /\ rank[L[m]] < rank[m]
  <2>1. ASSUME NEW m \in C PROVE rank[m] \in 1 .. Size
    BY <1>0, <1>1, BelowFinite
  <2>2. ASSUME NEW m \in C, L[m] # Nil PROVE L[m] \in C /\ rank[L[m]] < rank[m]
    <3>0. m \in S /\ m \in D[b] /\ m \in Int
      BY <1>1, <1>i
    <3>1. L[m] \in S /\ L[m] \in D[m] /\ Cardinality(D[L[m]]) < Cardinality(D[m])
      BY <2>2, <3>0, <1>0, ChildBelow
    <3>2. L[m] \in D[b]
      BY <3>0, <3>1, <1>t DEF Nested
    <3>3. L[m] < m
      BY <3>0, <3>1, <2>2, <1>t, <1>i DEF LeftBelow, Nested
    <3>4. ASSUME NEW k \in D[b], k < L[m] PROVE k \in D[L[m]]
      <4>1. k \in S /\ k \in Int /\ k \in Index /\ L[m] \in Int
        BY <3>1, <1>t, <1>i DEF Nested
      <4>2. k < m
        BY <4>1, <3>0, <3>3, <3>4
      <4>3. k \in D[m]
        BY <4>2
      <4> QED BY <4>1, <4>2, <4>3, <3>0, <2>2, <1>t DEF LeftBelow
    <3> QED BY <3>1, <3>2, <3>4, <3>0
  <2> QED BY <2>1, <2>2
<1>3. C \in SUBSET Index
  BY <1>1, <1>i
<1> HIDE DEF rank, C
<1>4. PICK d \in 1 .. Size : Descends(Path(b, L), d, b, L, C)
  BY <1>0, <1>1, <1>2, <1>3, PathEnds
<1> DEFINE m == minNode(h, b)
<1>5. m \in C /\ L[m] = Nil
  BY <1>0, <1>4, DescentLast
<1> HIDE DEF m
<1>6. ASSUME NEW k \in D[b] PROVE m <= k
  <2>1. m \in S /\ m \in Int /\ k \in Int
    BY <1>1, <1>5, <1>t, <1>i DEF Nested
  <2>2. ~(k < m)
    <3>1. SUFFICES ASSUME k < m PROVE FALSE
      OBVIOUS
    <3>2. k \in D[m]
      BY <3>1, <1>5 DEF C
    <3>3. k >= m
      BY <3>2, <2>1, <1>5, <1>t DEF LeftBelow
    <3> QED BY <3>1, <3>3, <2>1
  <2> QED BY <2>1, <2>2
<1> QED BY <1>1, <1>5, <1>6 DEF m, L

-----------------------------------------------------------------------------
(* A node is put into a tree.                                              *)

\* From h to g, only the nodes of S and the root of t may have changed.
Within(h, g, t, S) ==
    /\ \A u \in Trees : u # t => g.root[u] = h.root[u]
    /\ \A n \in Index : n \notin S => /\ g.left[n] = h.left[n]
                                      /\ g.right[n] = h.right[n]
                                      /\ g.parent[n] = h.parent[n]

\* What a change to one tree leaves of another.
LEMMA OtherGrown ==
    ASSUME NEW h \in Heaps, NEW g \in Heaps, NEW t \in Trees, NEW S, Within(h, g, t, S),
           NEW u \in Trees, u # t, NEW U, U \cap S = {}, Grown(h, u, U)
    PROVE  Grown(g, u, U)
<1>1. PICK D : Grows(h, u, U, D)
  BY DEF Grown
<1>2. Tree(h.root[u], h.left, h.right, h.parent, U, D) /\ U \subseteq Index /\ g.root[u] = h.root[u]
  BY <1>1 DEF Grows, Tree, Within
<1>3. \A n \in U : g.left[n] = h.left[n] /\ g.right[n] = h.right[n] /\ g.parent[n] = h.parent[n]
  BY <1>2 DEF Within
<1> DEFINE L == h.left  R == h.right  P == h.parent  L2 == g.left  R2 == g.right  P2 == g.parent
<1>4. Tree(h.root[u], L2, R2, P2, U, D)
  <2>1. Tree(h.root[u], L, R, P, U, D) /\ \A n \in U : L2[n] = L[n] /\ R2[n] = R[n] /\ P2[n] = P[n]
    BY <1>2, <1>3
  <2> HIDE DEF L, R, P, L2, R2, P2
  <2> QED BY <2>1, SameTree
<1> QED BY <1>1, <1>2, <1>4 DEF Grows, Grown

\* A node that has been blanked is put into the tree.
LEMMA PutGrown ==
    ASSUME NEW h \in Heaps, NEW t \in Trees, NEW S, Grown(h, t, S),
           NEW i \in Index, i \notin S, h.left[i] = Nil, h.right[i] = Nil
    PROVE  /\ PutNode(h, t, i) \in Heaps
           /\ Within(h, PutNode(h, t, i), t, S \cup {i})
           /\ Grown(PutNode(h, t, i), t, S \cup {i})
<1>1. PICK D : Grows(h, t, S, D)
  BY DEF Grown
<1> DEFINE r == h.root[t]  L == h.left  R == h.right  P == h.parent  g == PutNode(h, t, i)
<1>0. /\ Tree(r, L, R, P, S, D) /\ D \in [Index -> SUBSET Index] /\ S \in SUBSET Index
      /\ i \in Link /\ Nil \in Link /\ i # Nil /\ i \in Int
      /\ r \in Link /\ L \in Links /\ R \in Links /\ P \in Links
  BY <1>1, IndexIsInt DEF Grows, Tree, Heaps, Link
<1>2. CASE r = Nil
  <2>1. S = {}
    BY <1>0, <1>2 DEF Tree, Rooted
  <2>2. g = [h EXCEPT !.root[t] = i, !.parent[i] = Nil]
    BY <1>2 DEF PutNode
  <2> HIDE DEF g
  <2>3. g \in Heaps
    BY <2>2, <1>0 DEF Heaps, Links
  <2>4. g.root[t] = i /\ g.left = L /\ g.right = R /\ g.parent[i] = Nil
        /\ (\A u \in Trees : u # t => g.root[u] = h.root[u])
        /\ (\A n \in Index : n # i => g.parent[n] = P[n])
    BY <2>2 DEF Heaps, Links
  <2>5. Within(h, g, t, S \cup {i})
    BY <2>4 DEF Within
  <2> DEFINE L2 == g.left  R2 == g.right  P2 == g.parent
  <2>6. \E E \in [Index -> SUBSET Index] : Tree(i, L2, R2, P2, {i}, E)
    <3>1. L2[i] = Nil /\ R2[i] = Nil /\ P2[i] = Nil
      BY <2>4
    <3> HIDE DEF L2, R2, P2
    <3> QED BY <3>1, FirstTree
  <2>7. Grown(g, t, {i})
    BY <2>4, <2>6 DEF Grown, Grows
  <2> QED BY <2>1, <2>3, <2>5, <2>7 DEF g
<1>3. CASE r # Nil
  <2> DEFINE next == [Toward(h, i, TRUE) EXCEPT ![i] = Nil]
             C == {m \in S : \A n \in S : m \in D[n] /\ n # m => (i < n <=> m < n)}
             q == Last(Path(r, next))
             rank == [m \in S |-> Cardinality(D[m])]
  <2>n. next \in Links /\ (\A m \in Index : m # i => next[m] = IF i > m THEN R[m] ELSE L[m])
    <3>1. TRUE \in BOOLEAN
      OBVIOUS
    <3>2. Toward(h, i, TRUE) \in Links /\ \A m \in Index : Toward(h, i, TRUE)[m] = IF i > m \/ (i = m /\ TRUE) THEN R[m] ELSE L[m]
      BY <3>1, TowardTyped
    <3> QED BY <3>2, <1>0 DEF Links
  <2>t. Rooted(r, P, S, D) /\ LeftBelow(L, P, S, D) /\ RightBelow(R, P, S, D) /\ Nested(P, S, D)
    BY <1>0 DEF Tree
  <2>i. \A m \in S : m \in Index /\ m \in Int /\ m # i
    BY <1>0, IndexIsInt
  <2>p. PutNode(h, t, i) = PutBelow(h, i, r)
    BY <1>3 DEF PutNode
  <2>b. PutBelow(h, i, r) =
          CASE i > q -> [h EXCEPT !.right[q] = i, !.parent[i] = q]
            [] i < q -> [h EXCEPT !.left[q] = i, !.parent[i] = q]
            [] OTHER -> h
    BY DEF PutBelow
  <2> HIDE DEF r, L, R, P, next
  <2>1. C \in SUBSET Index /\ r \in C
    <3>1. r \in S /\ \A n \in S : n \in D[r]
      BY <1>3, <2>t DEF Rooted
    <3>2. ASSUME NEW n \in S, r \in D[n], n # r PROVE FALSE
      BY <3>1, <3>2, <1>0, NotBoth
    <3> QED BY <3>1, <3>2, <2>i
  <2>2. \A m \in C : /\ rank[m] \in 1 .. Size
                     /\ next[m] # Nil => next[m] \in C /\ rank[next[m]] < rank[m]
    <3>1. ASSUME NEW m \in C PROVE rank[m] \in 1 .. Size
      BY <1>0, BelowFinite
    <3>2. ASSUME NEW m \in C, next[m] # Nil PROVE next[m] \in C /\ rank[next[m]] < rank[m]
      <4> DEFINE l == next[m]
      <4>0. m \in S /\ m \in Index /\ m \in Int /\ m # i /\ l # Nil
        BY <3>2, <2>i
      <4>1. (i < m /\ l = L[m]) \/ (i > m /\ l = R[m])
        BY <4>0, <2>n, <1>0
      <4> HIDE DEF l
      <4>2. l \in S /\ l \in D[m] /\ l # m /\ P[l] = m /\ Cardinality(D[l]) < Cardinality(D[m])
        BY <4>0, <4>1, <1>0, ChildBelow
      <4>s. (i < m => l < m) /\ (i > m => l > m) /\ l \in D[l] /\ l \in Index /\ l \in Int
        <5>1. l \in D[l] /\ l \in Index /\ l \in Int
          BY <4>2, <2>t, <2>i DEF Nested
        <5>2. CASE i < m /\ l = L[m]
          <6>1. l < m
            BY <5>1, <5>2, <4>0, <2>t DEF LeftBelow
          <6> QED BY <5>1, <5>2, <6>1, <4>0, <1>0
        <5>3. CASE i > m /\ l = R[m]
          <6>1. l > m
            BY <5>1, <5>3, <4>0, <2>t DEF RightBelow
          <6> QED BY <5>1, <5>3, <6>1, <4>0, <1>0
        <5> QED BY <4>1, <5>2, <5>3
      <4>3. ASSUME NEW n \in S, l \in D[n], n # l PROVE i < n <=> l < n
        <5>0. n \in Int /\ n \in Index
          BY <2>i
        <5>1. m \in D[n]
          BY <4>3, <4>2, <2>t DEF Nested
        <5>2. CASE n = m
          BY <5>2, <4>1, <4>s, <4>0, <1>0
        <5>3. CASE n # m /\ m < n
          <6>1. i < n
            BY <5>1, <5>3, <3>2, <4>0
          <6>2. L[n] # Nil /\ L[n] \in S /\ m \in D[L[n]]
            BY <5>1, <5>3, <5>0, <4>0, <2>t DEF LeftBelow
          <6>3. l \in D[L[n]]
            BY <6>2, <4>2, <2>t DEF Nested
          <6>4. l < n
            BY <6>2, <6>3, <4>s, <2>t DEF LeftBelow
          <6> QED BY <6>1, <6>4
        <5>4. CASE n # m /\ m > n
          <6>1. ~(i < n)
            BY <5>1, <5>4, <3>2, <4>0, <5>0
          <6>2. R[n] # Nil /\ R[n] \in S /\ m \in D[R[n]]
            BY <5>1, <5>4, <5>0, <4>0, <2>t DEF RightBelow
          <6>3. l \in D[R[n]]
            BY <6>2, <4>2, <2>t DEF Nested
          <6>4. l > n
            BY <6>2, <6>3, <4>s, <2>t DEF RightBelow
          <6> QED BY <6>1, <6>4, <5>0, <4>s
        <5> QED BY <5>2, <5>3, <5>4, <5>0, <4>0
      <4>4. l \in C
        BY <4>2, <4>3
      <4>5. rank[l] < rank[m]
        BY <4>0, <4>2
      <4> QED BY <4>4, <4>5 DEF l
    <3> QED BY <3>1, <3>2
  <2> HIDE DEF rank, C
  <2>3. PICK d \in 1 .. Size : Descends(Path(r, next), d, r, next, C)
    BY <2>1, <2>2, <2>n, PathEnds
  <2>4. q \in C /\ next[q] = Nil
    BY <2>3, DescentLast
  <2> HIDE DEF q
  <2>5. q \in S /\ q \in Index /\ q \in Int /\ q # i /\ q \in Link /\ (\A n \in S : q \in D[n] /\ n # q => (i < n <=> q < n))
        /\ (i < q => L[q] = Nil) /\ (i > q => R[q] = Nil)
    <3>1. q \in S /\ \A n \in S : q \in D[n] /\ n # q => (i < n <=> q < n)
      BY <2>4 DEF C
    <3>2. q \in Index /\ q \in Int /\ q # i /\ q \in Link
      BY <3>1, <2>i DEF Link
    <3>3. Nil = IF i > q THEN R[q] ELSE L[q]
      BY <3>2, <2>4, <2>n
    <3> QED BY <3>1, <3>2, <3>3, <1>0
  <2>6. g = IF i > q THEN [h EXCEPT !.right[q] = i, !.parent[i] = q]
            ELSE [h EXCEPT !.left[q] = i, !.parent[i] = q]
    <3>1. (i > q /\ ~(i < q)) \/ (~(i > q) /\ i < q)
      BY <2>5, <1>0
    <3>2. CASE i > q /\ ~(i < q)
      BY <2>p, <2>b, <3>2
    <3>3. CASE ~(i > q) /\ i < q
      BY <2>p, <2>b, <3>3
    <3> QED BY <3>1, <3>2, <3>3
  <2> HIDE DEF g
  <2>7. g \in Heaps
    BY <2>5, <2>6, <1>0 DEF Heaps, Links
  <2>8. /\ g.root = h.root
        /\ \A n \in Index : g.left[n] = IF n = q /\ i < q THEN i ELSE L[n]
        /\ \A n \in Index : g.right[n] = IF n = q /\ i > q THEN i ELSE R[n]
        /\ \A n \in Index : g.parent[n] = IF n = i THEN q ELSE P[n]
    <3>1. CASE i > q
      <4>1. g = [h EXCEPT !.right[q] = i, !.parent[i] = q] /\ ~(i < q)
        BY <2>5, <2>6, <3>1, <1>0
      <4> QED BY <4>1, <3>1, <2>5 DEF Heaps, Links, L, R, P
    <3>2. CASE ~(i > q)
      <4>1. g = [h EXCEPT !.left[q] = i, !.parent[i] = q] /\ i < q
        BY <2>5, <2>6, <3>2, <1>0
      <4> QED BY <4>1, <3>2, <2>5 DEF Heaps, Links, L, R, P
    <3> QED BY <3>1, <3>2
  <2>9. Within(h, g, t, S \cup {i})
    BY <2>5, <2>8 DEF Within, L, R, P
  <2> DEFINE L2 == g.left  R2 == g.right  P2 == g.parent
  <2>10. \E E \in [Index -> SUBSET Index] : Tree(r, L2, R2, P2, S \cup {i}, E)
    <3>1. Leafed(L, R, P, S, q, i, L2, R2, P2)
      BY <2>8, <2>i DEF Leafed
    <3>2. L[i] = Nil /\ R[i] = Nil
      BY DEF L, R
    <3>3. q \in S /\ i \in Index /\ i \notin S /\ (i < q => L[q] = Nil) /\ (i > q => R[q] = Nil)
          /\ (\A n \in S : q \in D[n] /\ n # q => (i < n <=> q < n))
      BY <2>5
    <3>4. D \in [Index -> SUBSET Index] /\ Tree(r, L, R, P, S, D)
      BY <1>0
    <3> HIDE DEF L2, R2, P2
    <3> QED BY <3>1, <3>2, <3>3, <3>4, LeafTree
  <2>11. Grown(g, t, S \cup {i})
    BY <2>8, <2>10 DEF Grown, Grows, r
  <2> QED BY <2>7, <2>9, <2>11 DEF g
<1> QED BY <1>2, <1>3

-----------------------------------------------------------------------------
(* A node is taken out of a tree.                                          *)

\* Assigning through a pointer.
LEMMA PointLinks ==
    ASSUME NEW f \in Links, NEW n \in Link, NEW x \in Link
    PROVE  Point(f, n, x) \in Links /\ \A k \in Index : Point(f, n, x)[k] = IF k = n THEN x ELSE f[k]
<1>1. CASE n = Nil
  BY <1>1, IndexIsInt DEF Point, Links
<1>2. CASE n # Nil
  <2>1. n \in Index
    BY <1>2, IndexIsInt DEF Link
  <2> QED BY <1>2, <2>1 DEF Point, Links
<1> QED BY <1>1, <1>2

\* A node is the child of its parent on one side.
LEMMA OneSide ==
    ASSUME NEW r, NEW L, NEW R, NEW P, NEW S, NEW D, Tree(r, L, R, P, S, D), NEW c \in S
    PROVE  /\ P[c] = Nil <=> c = r
           /\ P[c] # Nil => P[c] \in S /\ P[c] \in Index /\ P[c] # c /\ ((L[P[c]] = c /\ R[P[c]] # c) \/ (L[P[c]] # c /\ R[P[c]] = c))
<1>r. Rooted(r, P, S, D) /\ LeftBelow(L, P, S, D) /\ RightBelow(R, P, S, D) /\ ParentAbove(r, L, R, P, S) /\ Nested(P, S, D)
      /\ S \subseteq Index
  BY DEF Tree
<1>0. c # Nil /\ c \in Index /\ c \in Int /\ c \in D[c] /\ r # Nil
  BY <1>r, IndexIsInt DEF Nested, Rooted
<1>1. P[c] = Nil <=> c = r
  BY <1>r, <1>0, IndexIsInt DEF Rooted, ParentAbove
<1>2. ASSUME P[c] # Nil
      PROVE  P[c] \in S /\ P[c] \in Index /\ P[c] # c /\ ((L[P[c]] = c /\ R[P[c]] # c) \/ (L[P[c]] # c /\ R[P[c]] = c))
  <2> DEFINE p == P[c]
  <2>1. p \in S /\ p \in Index /\ p \in Int /\ (L[p] = c \/ R[p] = c)
    BY <1>2, <1>1, <1>r, IndexIsInt DEF ParentAbove
  <2> HIDE DEF p
  <2>2. L[p] = c => c < p
    BY <2>1, <1>0, <1>r DEF LeftBelow
  <2>3. R[p] = c => c > p
    BY <2>1, <1>0, <1>r DEF RightBelow
  <2>4. p # c /\ ((L[p] = c /\ R[p] # c) \/ (L[p] # c /\ R[p] = c))
    BY <2>1, <2>2, <2>3, <1>0
  <2> QED BY <2>1, <2>4 DEF p
<1> QED BY <1>1, <1>2

\* What the splicing changes.
LEMMA SpliceLinks ==
    ASSUME NEW h \in Heaps, NEW t \in Trees, NEW S, NEW D, Grows(h, t, S, D),
           NEW c \in S, NEW x \in Link
    PROVE  LET g == Splice(h, t, c, x)
           IN  /\ g \in Heaps
               /\ Spliced(h.root[t], h.left, h.right, h.parent, c, x, g.root[t], g.left, g.right, g.parent)
               /\ \A u \in Trees : u # t => g.root[u] = h.root[u]
<1> DEFINE g == Splice(h, t, c, x)
           r == h.root[t]  L == h.left  R == h.right  P == h.parent  p == P[c]
<1>0. /\ Tree(r, L, R, P, S, D) /\ c \in Index
      /\ r \in Link /\ L \in Links /\ R \in Links /\ P \in Links /\ p \in Link /\ Nil \in Link
  BY IndexIsInt DEF Grows, Tree, Heaps, Links
<1>1. /\ p = Nil <=> c = r
      /\ p # Nil => p \in S /\ p \in Index /\ p # c /\ ((L[p] = c /\ R[p] # c) \/ (L[p] # c /\ R[p] = c))
  <2> HIDE DEF L, R, P, r
  <2> QED BY <1>0, OneSide
<1>2. CASE p = Nil
  <2>1. g = [h EXCEPT !.root[t] = x, !.parent = Point(@, x, Nil)]
    BY <1>2 DEF Splice
  <2> HIDE DEF g
  <2>2. Point(P, x, Nil) \in Links /\ \A k \in Index : Point(P, x, Nil)[k] = IF k = x THEN Nil ELSE P[k]
    <3> HIDE DEF P
    <3> QED BY <1>0, PointLinks
  <2>3. g.root = [h.root EXCEPT ![t] = x] /\ g.left = L /\ g.right = R /\ g.parent = Point(P, x, Nil) /\ g \in Heaps
    BY <2>1, <2>2, <1>0 DEF Heaps
  <2>4. g.root[t] = x /\ \A u \in Trees : u # t => g.root[u] = h.root[u]
    BY <2>3 DEF Heaps
  <2>5. Spliced(r, L, R, P, c, x, g.root[t], g.left, g.right, g.parent)
    BY <2>2, <2>3, <2>4, <1>2 DEF Spliced
  <2> QED BY <2>3, <2>4, <2>5 DEF g
<1>3. CASE p # Nil
  <2>2. Point(P, x, p) \in Links /\ \A k \in Index : Point(P, x, p)[k] = IF k = x THEN p ELSE P[k]
    <3> HIDE DEF P, p
    <3> QED BY <1>0, PointLinks
  <2>3. CASE L[p] = c /\ R[p] # c
    <3>1. g = [h EXCEPT !.left[p] = x, !.parent = Point(@, x, p)]
      BY <1>3, <2>3 DEF Splice
    <3> HIDE DEF g
    <3>2. g.root = h.root /\ g.left = [L EXCEPT ![p] = x] /\ g.right = R /\ g.parent = Point(P, x, p)
      BY <3>1 DEF Heaps
    <3>3. g \in Heaps
      BY <3>1, <2>2, <1>0, <1>1, <1>3 DEF Heaps, Links
    <3>4. Spliced(r, L, R, P, c, x, g.root[t], g.left, g.right, g.parent)
      BY <3>2, <2>2, <2>3, <1>0, <1>1, <1>3 DEF Spliced, Links
    <3> QED BY <3>2, <3>3, <3>4 DEF g
  <2>4. CASE L[p] # c /\ R[p] = c
    <3>1. g = [h EXCEPT !.right[p] = x, !.parent = Point(@, x, p)]
      BY <1>3, <2>4 DEF Splice
    <3> HIDE DEF g
    <3>2. g.root = h.root /\ g.left = L /\ g.right = [R EXCEPT ![p] = x] /\ g.parent = Point(P, x, p)
      BY <3>1 DEF Heaps
    <3>3. g \in Heaps
      BY <3>1, <2>2, <1>0, <1>1, <1>3 DEF Heaps, Links
    <3>4. Spliced(r, L, R, P, c, x, g.root[t], g.left, g.right, g.parent)
      BY <3>2, <2>2, <2>4, <1>0, <1>1, <1>3 DEF Spliced, Links
    <3> QED BY <3>2, <3>3, <3>4 DEF g
  <2> QED BY <1>1, <1>3, <2>3, <2>4
<1> QED BY <1>2, <1>3

\* Splicing takes a node with one child at most out of its tree.
LEMMA SpliceGrown ==
    ASSUME NEW h \in Heaps, NEW t \in Trees, NEW S, NEW D, Grows(h, t, S, D),
           NEW c \in S, NEW x \in Link,
           \/ h.left[c] = Nil /\ x = h.right[c]
           \/ h.right[c] = Nil /\ x = h.left[c]
    PROVE  LET g == Splice(h, t, c, x)
           IN  g \in Heaps /\ Within(h, g, t, S) /\ Grown(g, t, S \ {c})
<1> DEFINE g == Splice(h, t, c, x)
           r == h.root[t]  L == h.left  R == h.right  P == h.parent
           r2 == g.root[t]  L2 == g.left  R2 == g.right  P2 == g.parent
           E == [n \in Index |-> D[n] \ {c}]
<1>1. /\ g \in Heaps /\ Spliced(r, L, R, P, c, x, r2, L2, R2, P2)
      /\ \A u \in Trees : u # t => g.root[u] = h.root[u]
  BY SpliceLinks
<1> HIDE DEF g
<1>0. /\ Tree(r, L, R, P, S, D) /\ c \in Index /\ D \in [Index -> SUBSET Index] /\ S \subseteq Index
      /\ r \in Link /\ L \in Links /\ R \in Links /\ P \in Links
      /\ ((L[c] = Nil /\ x = R[c]) \/ (R[c] = Nil /\ x = L[c]))
  BY DEF Grows, Tree, Heaps
<1>2. Tree(r2, L2, R2, P2, S \ {c}, E)
  <2> HIDE DEF r, L, R, P, r2, L2, R2, P2
  <2> QED BY <1>0, <1>1, SpliceTree
<1>3. E \in [Index -> SUBSET Index]
  BY <1>0
<1>4. Grown(g, t, S \ {c})
  BY <1>2, <1>3 DEF Grown, Grows
<1>5. x # Nil => x \in S
  <2>1. LeftBelow(L, P, S, D) /\ RightBelow(R, P, S, D)
    BY <1>0 DEF Tree
  <2> HIDE DEF L, R, P
  <2> QED BY <2>1, <1>0 DEF LeftBelow, RightBelow
<1>6. P[c] # Nil => P[c] \in S
  <2> HIDE DEF r, L, R, P
  <2> QED BY <1>0, OneSide
<1>7. Within(h, g, t, S)
  <2>1. ASSUME NEW n \in Index, n \notin S
        PROVE  g.left[n] = h.left[n] /\ g.right[n] = h.right[n] /\ g.parent[n] = h.parent[n]
    <3>1. n # Nil
      BY IndexIsInt
    <3>2. n # x /\ n # P[c]
      BY <2>1, <3>1, <1>5, <1>6
    <3> QED BY <3>2, <1>1 DEF Spliced
  <2> QED BY <2>1, <1>1 DEF Within
<1> QED BY <1>1, <1>4, <1>7 DEF g

\* Succession takes a node with two children out of its tree.
LEMMA SucceedGrown ==
    ASSUME NEW h \in Heaps, NEW t \in Trees, NEW S, NEW D, Grows(h, t, S, D),
           NEW c \in S, h.left[c] # Nil, h.right[c] # Nil
    PROVE  LET g == Succeed(h, t, c)
           IN  g \in Heaps /\ Within(h, g, t, S) /\ Grown(g, t, S \ {c})
<1> DEFINE g == Succeed(h, t, c)
           r == h.root[t]  L == h.left  R == h.right  P == h.parent
           lc == L[c]  rc == R[c]  p == P[c]
           m == minNode(h, rc)  mr == R[m]  mp == P[m]
           top == Splice(h, t, c, m)
           kids == [top EXCEPT
                   !.left[m]   = lc,
                   !.right[m]  = IF rc = m THEN mr ELSE rc,
                   !.parent    = IF rc = m
                                 THEN [@ EXCEPT ![lc] = m]
                                 ELSE [@ EXCEPT ![lc] = m, ![rc] = m]]
<1>g. g = IF kids.left[mp] = m
          THEN [kids EXCEPT !.left[mp] = mr, !.parent = Point(@, mr, mp)]
          ELSE kids
  BY DEF Succeed
<1> HIDE DEF g
<1>0. /\ Tree(r, L, R, P, S, D) /\ c \in Index /\ c # Nil /\ D \in [Index -> SUBSET Index] /\ S \subseteq Index
      /\ r \in Link /\ L \in Links /\ R \in Links /\ P \in Links /\ Nil \in Link
      /\ \A n \in S : n \in Index /\ n \in Link /\ n # Nil
  BY IndexIsInt DEF Grows, Tree, Heaps, Link
<1>1. rc \in S
  <2>1. RightBelow(R, P, S, D)
    BY <1>0 DEF Tree
  <2> QED BY <2>1 DEF RightBelow
<1>2. m \in D[rc] /\ L[m] = Nil /\ \A k \in D[rc] : m <= k
  BY <1>1, MinLeast
<1> HIDE DEF m
<1>3. /\ lc \in S /\ lc # m /\ lc # rc /\ lc # c /\ rc # c
      /\ m \in S /\ m # c /\ m \in D[c]
      /\ (mr # Nil => mr \in S /\ mr # m /\ mr # lc /\ mr # rc)
      /\ mp \in D[c] /\ mp \in S /\ mp # m /\ (rc = m => mp = c) /\ (rc # m => mp # c /\ L[mp] = m)
      /\ (p # Nil => p \in S /\ p # c /\ p \notin D[c])
      /\ (\A n \in S : L[n] = c => n = p /\ p # Nil /\ R[n] # c)
      /\ (\A n \in S : R[n] = c => n = p /\ p # Nil)
  <2>1. r \in Link /\ L \in Links /\ R \in Links /\ P \in Links /\ D \in [Index -> SUBSET Index] /\ Tree(r, L, R, P, S, D)
        /\ L[c] # Nil /\ R[c] # Nil /\ m \in D[R[c]] /\ L[m] = Nil /\ (\A k \in D[R[c]] : m <= k)
    BY <1>0, <1>2
  <2> HIDE DEF r, L, R, P
  <2>2. \A a, b, d, e, f : a = L[c] /\ b = R[c] /\ d = R[m] /\ e = P[m] /\ f = P[c] =>
         /\ a \in S /\ a # m /\ a # b /\ a # c /\ b # c
         /\ m \in S /\ m # c /\ m \in D[c]
         /\ (d # Nil => d \in S /\ d # m /\ d # a /\ d # b)
         /\ e \in D[c] /\ e \in S /\ e # m /\ (b = m => e = c) /\ (b # m => e # c /\ L[e] = m)
         /\ (f # Nil => f \in S /\ f # c /\ f \notin D[c])
         /\ (\A n \in S : L[n] = c => n = f /\ f # Nil /\ R[n] # c)
         /\ (\A n \in S : R[n] = c => n = f /\ f # Nil)
    <3> SUFFICES ASSUME NEW a, NEW b, NEW d, NEW e, NEW f, a = L[c], b = R[c], d = R[m], e = P[m], f = P[c]
                 PROVE  /\ a \in S /\ a # m /\ a # b /\ a # c /\ b # c
                        /\ m \in S /\ m # c /\ m \in D[c]
                        /\ (d # Nil => d \in S /\ d # m /\ d # a /\ d # b)
                        /\ e \in D[c] /\ e \in S /\ e # m /\ (b = m => e = c) /\ (b # m => e # c /\ L[e] = m)
                        /\ (f # Nil => f \in S /\ f # c /\ f \notin D[c])
                        /\ (\A n \in S : L[n] = c => n = f /\ f # Nil /\ R[n] # c)
                        /\ (\A n \in S : R[n] = c => n = f /\ f # Nil)
      OBVIOUS
    <3>1. c \in Int
      BY <1>0, IndexIsInt
    <3>2. m > c => m # c
      BY <3>1
    <3> QED BY <2>1, <3>2, Successor
  <2> QED BY <2>2
<1>4. /\ top \in Heaps /\ Spliced(r, L, R, P, c, m, top.root[t], top.left, top.right, top.parent)
      /\ \A u \in Trees : u # t => top.root[u] = h.root[u]
  BY <1>0, <1>3, SpliceLinks
<1> DEFINE L1 == top.left  R1 == top.right  P1 == top.parent
<1>5. /\ top.root[t] = IF p = Nil THEN m ELSE r
      /\ \A n \in Index : L1[n] = IF p # Nil /\ n = p /\ L[n] = c THEN m ELSE L[n]
      /\ \A n \in Index : R1[n] = IF p # Nil /\ n = p /\ R[n] = c THEN m ELSE R[n]
      /\ \A n \in Index : P1[n] = IF n = m THEN p ELSE P[n]
  BY <1>4 DEF Spliced
<1> HIDE DEF top
<1>t. /\ lc \in Index /\ rc \in Index /\ m \in Index /\ mp \in Index /\ mr \in Link /\ lc \in Link /\ rc \in Link /\ m \in Link /\ mp \in Link
      /\ L1 \in Links /\ R1 \in Links /\ P1 \in Links
  <2>1. mr \in Link
    BY <1>0, <1>3 DEF Links
  <2> QED BY <2>1, <1>0, <1>1, <1>3, <1>4 DEF Heaps
<1>6. /\ kids.root = top.root
      /\ kids.left = [L1 EXCEPT ![m] = lc]
      /\ kids.right = [R1 EXCEPT ![m] = IF rc = m THEN mr ELSE rc]
      /\ kids.parent = IF rc = m THEN [P1 EXCEPT ![lc] = m] ELSE [P1 EXCEPT ![lc] = m, ![rc] = m]
      /\ kids \in Heaps
  <2>1. /\ kids.root = top.root
        /\ kids.left = [L1 EXCEPT ![m] = lc]
        /\ kids.right = [R1 EXCEPT ![m] = IF rc = m THEN mr ELSE rc]
        /\ kids.parent = IF rc = m THEN [P1 EXCEPT ![lc] = m] ELSE [P1 EXCEPT ![lc] = m, ![rc] = m]
    BY <1>4 DEF Heaps
  <2>2. [L1 EXCEPT ![m] = lc] \in Links /\ [R1 EXCEPT ![m] = IF rc = m THEN mr ELSE rc] \in Links
        /\ [P1 EXCEPT ![lc] = m] \in Links /\ [P1 EXCEPT ![lc] = m, ![rc] = m] \in Links
    <3> HIDE DEF L1, R1, P1
    <3> QED BY <1>t DEF Links
  <2>3. kids \in [root : [Trees -> Link], left : Links, right : Links, parent : Links]
    BY <1>4, <2>2 DEF Heaps
  <2> QED BY <2>1, <2>3 DEF Heaps
<1> HIDE DEF kids
<1> DEFINE L2 == g.left  R2 == g.right  P2 == g.parent  r2 == g.root[t]
<1>7. ASSUME rc = m PROVE g \in Heaps /\ Succeeded(r, L, R, P, S, c, m, r2, L2, R2, P2) /\ Within(h, g, t, S)
  <2>1. kids.left[mp] = lc /\ lc # m
    <3>1. mp = c /\ c # m /\ ~(p # Nil /\ c = p)
      BY <1>3, <1>7
    <3>2. L1[c] = lc
      BY <3>1, <1>0, <1>5
    <3> HIDE DEF L1
    <3> QED BY <3>1, <3>2, <1>0, <1>3, <1>6, <1>t DEF Links
  <2>2. g = kids
    BY <2>1, <1>g
  <2>3. g.left = [L1 EXCEPT ![m] = lc] /\ g.right = [R1 EXCEPT ![m] = mr] /\ g.parent = [P1 EXCEPT ![lc] = m] /\ g.root = top.root /\ g \in Heaps
    BY <2>2, <1>6, <1>7
  <2>4. \A n \in Index : /\ L2[n] = IF n = m THEN lc ELSE L1[n]
                         /\ R2[n] = IF n = m THEN mr ELSE R1[n]
                         /\ P2[n] = IF n = lc THEN m ELSE P1[n]
    <3> HIDE DEF L1, R1, P1
    <3> QED BY <2>3, <1>t DEF Links
  <2>5. Succeeded(r, L, R, P, S, c, m, r2, L2, R2, P2)
    <3>1. ASSUME NEW n \in S, n # c
          PROVE  L2[n] = IF n = m THEN lc ELSE IF n = mp THEN mr ELSE IF L[n] = c THEN m ELSE L[n]
      <4>1. n \in Index /\ n # mp
        BY <3>1, <1>0, <1>3, <1>7
      <4> HIDE DEF L, R, P, L1, L2, R2, P2
      <4> QED BY <4>1, <2>4, <1>5, <1>3
    <3>2. ASSUME NEW n \in S, n # c
          PROVE  R2[n] = IF n = m THEN (IF rc = m THEN mr ELSE rc) ELSE IF R[n] = c THEN m ELSE R[n]
      <4>1. n \in Index
        BY <1>0
      <4> HIDE DEF L, R, P, R1, L2, R2, P2
      <4> QED BY <4>1, <2>4, <1>5, <1>3, <1>7
    <3>3. ASSUME NEW n \in S, n # c
          PROVE  P2[n] = IF n = m THEN p ELSE IF n = lc \/ n = rc THEN m ELSE IF n = mr /\ rc # m THEN mp ELSE P[n]
      <4>1. n \in Index
        BY <1>0
      <4> HIDE DEF L, R, P, P1, L2, R2, P2
      <4> QED BY <4>1, <2>4, <1>5, <1>3, <1>7
    <3>4. r2 = IF p = Nil THEN m ELSE r
      BY <2>3, <1>5
    <3> QED BY <3>1, <3>2, <3>3, <3>4 DEF Succeeded
  <2>6. Within(h, g, t, S)
    <3>1. ASSUME NEW n \in Index, n \notin S
          PROVE  L2[n] = L[n] /\ R2[n] = R[n] /\ P2[n] = P[n]
      <4>1. n # m /\ n # lc /\ n # p
        BY <3>1, <1>3, IndexIsInt
      <4> QED BY <4>1, <2>4, <1>5
    <3> QED BY <3>1, <2>3, <1>4 DEF Within
  <2> QED BY <2>3, <2>5, <2>6
<1>8. ASSUME rc # m PROVE g \in Heaps /\ Succeeded(r, L, R, P, S, c, m, r2, L2, R2, P2) /\ Within(h, g, t, S)
  <2>1. kids.left[mp] = m
    <3>1. mp # c /\ mp # m /\ L[mp] = m /\ m # c
      BY <1>3, <1>8
    <3>2. L1[mp] = m
      BY <3>1, <1>t, <1>5
    <3> HIDE DEF L1
    <3> QED BY <3>1, <3>2, <1>6, <1>t DEF Links
  <2>2. g = [kids EXCEPT !.left[mp] = mr, !.parent = Point(@, mr, mp)]
    BY <2>1, <1>g
  <2> DEFINE L3 == kids.left  R3 == kids.right  P3 == kids.parent
  <2>3. L3 \in Links /\ R3 \in Links /\ P3 \in Links
    BY <1>6 DEF Heaps
  <2>p. Point(P3, mr, mp) \in Links /\ \A k \in Index : Point(P3, mr, mp)[k] = IF k = mr THEN mp ELSE P3[k]
    <3>1. P3 \in Links /\ mr \in Link /\ mp \in Link
      BY <2>3, <1>t
    <3> HIDE DEF P3, mr, mp
    <3> QED BY ONLY <3>1, PointLinks
  <2>4. /\ g.left = [L3 EXCEPT ![mp] = mr] /\ g.right = R3 /\ g.parent = Point(P3, mr, mp) /\ g.root = top.root
    BY <2>2, <1>6 DEF Heaps
  <2>5. g \in Heaps
    <3>1. [L3 EXCEPT ![mp] = mr] \in Links
      <4> HIDE DEF L3
      <4> QED BY <2>3, <1>t DEF Links
    <3>2. g = [root |-> top.root, left |-> [L3 EXCEPT ![mp] = mr], right |-> R3, parent |-> Point(P3, mr, mp)]
      BY <2>2, <1>6 DEF Heaps
    <3>3. top.root \in [Trees -> Link]
      BY <1>4 DEF Heaps
    <3> QED BY <3>1, <3>2, <3>3, <2>3, <2>p DEF Heaps
  <2>6. \A n \in Index : /\ L2[n] = IF n = mp THEN mr ELSE IF n = m THEN lc ELSE L1[n]
                         /\ R2[n] = IF n = m THEN rc ELSE R1[n]
                         /\ P2[n] = IF n = mr THEN mp ELSE IF n = lc \/ n = rc THEN m ELSE P1[n]
    <3>1. \A n \in Index : L2[n] = IF n = mp THEN mr ELSE IF n = m THEN lc ELSE L1[n]
      <4>1. L2 = [[L1 EXCEPT ![m] = lc] EXCEPT ![mp] = mr]
        BY <2>4, <1>6
      <4> HIDE DEF L1, L2
      <4> QED BY <4>1, <1>t DEF Links
    <3>2. \A n \in Index : R2[n] = IF n = m THEN rc ELSE R1[n]
      <4>1. R2 = [R1 EXCEPT ![m] = rc]
        BY <2>4, <1>6, <1>8
      <4> HIDE DEF R1, R2
      <4> QED BY <4>1, <1>t DEF Links
    <3>3. \A n \in Index : P3[n] = IF n = lc \/ n = rc THEN m ELSE P1[n]
      <4>1. P3 = [P1 EXCEPT ![lc] = m, ![rc] = m]
        BY <1>6, <1>8
      <4> HIDE DEF P1, P3
      <4> QED BY <4>1, <1>t DEF Links
    <3>4. \A n \in Index : P2[n] = IF n = mr THEN mp ELSE P3[n]
      BY <2>4, <2>p
    <3> HIDE DEF L2, R2, P2, P3, L1, R1, P1
    <3> QED BY <3>1, <3>2, <3>3, <3>4
  <2>7. Succeeded(r, L, R, P, S, c, m, r2, L2, R2, P2)
    <3>1. ASSUME NEW n \in S, n # c
          PROVE  L2[n] = IF n = m THEN lc ELSE IF n = mp THEN mr ELSE IF L[n] = c THEN m ELSE L[n]
      <4>1. n \in Index /\ mp # m
        BY <1>0, <1>3
      <4> HIDE DEF L, R, P, L1, L2, R2, P2
      <4> QED BY <4>1, <2>6, <1>5, <1>3
    <3>2. ASSUME NEW n \in S, n # c
          PROVE  R2[n] = IF n = m THEN (IF rc = m THEN mr ELSE rc) ELSE IF R[n] = c THEN m ELSE R[n]
      <4>1. n \in Index
        BY <1>0
      <4> HIDE DEF L, R, P, R1, L2, R2, P2
      <4> QED BY <4>1, <2>6, <1>5, <1>3, <1>8
    <3>3. ASSUME NEW n \in S, n # c
          PROVE  P2[n] = IF n = m THEN p ELSE IF n = lc \/ n = rc THEN m ELSE IF n = mr /\ rc # m THEN mp ELSE P[n]
      <4>1. n \in Index /\ n # Nil
        BY <1>0
      <4> HIDE DEF L, R, P, P1, L2, R2, P2
      <4> QED BY <4>1, <2>6, <1>5, <1>3, <1>8
    <3>4. r2 = IF p = Nil THEN m ELSE r
      BY <2>4, <1>5
    <3> QED BY <3>1, <3>2, <3>3, <3>4 DEF Succeeded
  <2>8. Within(h, g, t, S)
    <3>1. ASSUME NEW n \in Index, n \notin S
          PROVE  L2[n] = L[n] /\ R2[n] = R[n] /\ P2[n] = P[n]
      <4>1. n # m /\ n # lc /\ n # rc /\ n # p /\ n # mp /\ n # mr
        BY <3>1, <1>1, <1>3, IndexIsInt
      <4> QED BY <4>1, <2>6, <1>5
    <3> QED BY <3>1, <2>4, <1>4 DEF Within
  <2> QED BY <2>5, <2>7, <2>8
<1>9. g \in Heaps /\ Succeeded(r, L, R, P, S, c, m, r2, L2, R2, P2) /\ Within(h, g, t, S)
  BY <1>7, <1>8
<1>10. \E E \in [Index -> SUBSET Index] : Tree(r2, L2, R2, P2, S \ {c}, E)
  <2>1. r \in Link /\ L \in Links /\ R \in Links /\ P \in Links /\ D \in [Index -> SUBSET Index] /\ Tree(r, L, R, P, S, D)
        /\ L[c] # Nil /\ R[c] # Nil /\ m \in D[R[c]] /\ L[m] = Nil /\ (\A k \in D[R[c]] : m <= k)
    BY <1>0, <1>2
  <2> HIDE DEF r, L, R, P, r2, L2, R2, P2
  <2> QED BY <2>1, <1>9, SucceedTree
<1>11. Grown(g, t, S \ {c})
  BY <1>10 DEF Grown, Grows
<1> QED BY <1>9, <1>11 DEF g

\* A node is taken out of the tree that has it.
LEMMA RemoveGrown ==
    ASSUME NEW h \in Heaps, NEW t \in Trees, NEW S, Grown(h, t, S), NEW c \in S
    PROVE  LET g == removeNode(h, t, c)
           IN  g \in Heaps /\ Within(h, g, t, S) /\ Grown(g, t, S \ {c})
<1>1. PICK D : Grows(h, t, S, D)
  BY DEF Grown
<1>2. S \subseteq Index /\ c \in Index
  BY <1>1 DEF Grows, Tree
<1>3. c \in ToSet(Walk(h, h.root[t], c, TRUE))
  <2>1. TRUE \in BOOLEAN
    OBVIOUS
  <2> QED BY <1>1, <1>2, <2>1, WalkMeets
<1>4. h.left[c] \in Link /\ h.right[c] \in Link
  BY <1>2 DEF Heaps, Links
<1> DEFINE g == removeNode(h, t, c)
<1>5. CASE h.left[c] = Nil
  <2>1. g = Splice(h, t, c, h.right[c])
    BY <1>3, <1>5 DEF removeNode
  <2> QED BY <2>1, <1>1, <1>4, <1>5, SpliceGrown
<1>6. CASE h.left[c] # Nil /\ h.right[c] = Nil
  <2>1. g = Splice(h, t, c, h.left[c])
    BY <1>3, <1>6 DEF removeNode
  <2> QED BY <2>1, <1>1, <1>4, <1>6, SpliceGrown
<1>7. CASE h.left[c] # Nil /\ h.right[c] # Nil
  <2>1. g = Succeed(h, t, c)
    BY <1>3, <1>7 DEF removeNode
  <2> QED BY <2>1, <1>1, <1>7, SucceedGrown
<1> QED BY <1>5, <1>6, <1>7

-----------------------------------------------------------------------------
(* The nodes below a node.                                                 *)

\* The nodes below a node are found level by level.
LEMMA BelowSteps ==
    ASSUME NEW h \in Heaps
    PROVE  \E b \in [0 .. Size -> [Link -> SUBSET Index]] :
              /\ b[0] = [m \in Link |-> {}]
              /\ \A k \in 0 .. Size - 1 :
                    b[k + 1] = [m \in Link |-> IF m = Nil THEN {} ELSE {m} \cup b[k][h.left[m]] \cup b[k][h.right[m]]]
              /\ \A n : Below(h, n) = b[Size][n]
<1> DEFINE V == [Link -> SUBSET Index]
           none == [m \in Link |-> {}]
           up(c) == [m \in Link |-> IF m = Nil THEN {} ELSE {m} \cup c[h.left[m]] \cup c[h.right[m]]]
           step == [x \in Nat \X V |-> up(x[2])]
           body(g, k) == IF k = 0 THEN none ELSE up(g[k - 1])
<1>0. Size \in Nat /\ Nil \in Link /\ \A m \in Link : m # Nil => m \in Index /\ h.left[m] \in Link /\ h.right[m] \in Link
  BY SizeAssumption, IndexIsInt DEF Link, Heaps, Links
<1>n. none \in V
  OBVIOUS
<1>u. ASSUME NEW c \in V PROVE up(c) \in V
  BY <1>0
<1> HIDE DEF V, up, none
<1>1. step \in [Nat \X V -> V]
  <2>1. ASSUME NEW x \in Nat \X V PROVE up(x[2]) \in V
    <3>1. x[2] \in V
      OBVIOUS
    <3> QED BY <3>1, <1>u
  <2> QED BY <2>1
<1>2. PICK g \in [0 .. Size -> V] : Begins(g, Size, none, step)
  <2> HIDE DEF step
  <2> QED BY <1>0, <1>1, <1>n, BeginsExist
<1>3. g[0] = none /\ \A k \in 0 .. Size - 1 : g[k + 1] = up(g[k])
  <2>1. ASSUME NEW k \in 0 .. Size - 1 PROVE g[k + 1] = up(g[k])
    <3>1. <<k, g[k]>> \in Nat \X V
      BY <1>0
    <3>2. step[<<k, g[k]>>] = up(g[k])
      BY <3>1
    <3>3. g[k + 1] = step[<<k, g[k]>>]
      BY <1>2 DEF Begins
    <3> QED BY <3>2, <3>3
  <2> QED BY <1>2, <2>1 DEF Begins
<1>4. g = [k \in 0 .. Size |-> body(g, k)]
  <2>1. ASSUME NEW k \in 0 .. Size PROVE g[k] = body(g, k)
    <3>1. CASE k = 0
      BY <1>3, <3>1
    <3>2. CASE k # 0
      <4>1. k - 1 \in 0 .. Size - 1 /\ (k - 1) + 1 = k
        BY <3>2, <1>0
      <4>2. g[(k - 1) + 1] = up(g[k - 1])
        BY <1>3, <4>1
      <4> QED BY <3>2, <4>1, <4>2
    <3> QED BY <3>1, <3>2
  <2> HIDE DEF body
  <2> QED BY <2>1
<1> DEFINE b == CHOOSE f : f = [k \in 0 .. Size |-> body(f, k)]
<1>5. \A n : Below(h, n) = b[Size][n]
  BY DEF Below, up, none
<1>6. b = [k \in 0 .. Size |-> body(b, k)]
  <2> HIDE DEF body
  <2> QED BY <1>4
<1> HIDE DEF b
<1>7. \A k \in 0 .. Size : b[k] = body(b, k)
  <2> HIDE DEF body
  <2> QED BY <1>6
<1>8. b[0] = none
  BY <1>7, <1>0
<1>9. ASSUME NEW k \in 0 .. Size - 1 PROVE b[k + 1] = up(b[k])
  <2>1. k + 1 \in 0 .. Size /\ k + 1 # 0 /\ (k + 1) - 1 = k
    BY <1>0
  <2>2. b[k + 1] = body(b, k + 1)
    BY <1>7, <2>1
  <2> QED BY <2>1, <2>2
<1>10. b \in [0 .. Size -> V]
  <2> DEFINE K == {k \in Nat : k <= Size => b[k] \in V}
  <2>1. 0 \in K
    BY <1>8, <1>n
  <2>2. ASSUME NEW k \in Nat, k \in K PROVE k + 1 \in K
    <3>1. SUFFICES ASSUME k + 1 <= Size PROVE b[k + 1] \in V
      OBVIOUS
    <3>2. k \in 0 .. Size - 1 /\ b[k] \in V
      BY <2>2, <3>1, <1>0
    <3> QED BY <3>2, <1>9, <1>u
  <2> HIDE DEF K
  <2>3. Nat \subseteq K
    BY <2>1, <2>2, NatInductive
  <2>4. \A k \in 0 .. Size : b[k] \in V
    BY <2>3 DEF K
  <2>5. b = [k \in 0 .. Size |-> b[k]]
    <3> HIDE DEF body
    <3> QED BY <1>6
  <2> QED BY <2>4, <2>5
<1> QED BY <1>5, <1>8, <1>9, <1>10 DEF V, up, none

\* In a search tree, Below is what the tree has below a node.
LEMMA BelowIs ==
    ASSUME NEW h \in Heaps, NEW t \in Trees, NEW S, NEW D, Grows(h, t, S, D)
    PROVE  /\ \A n \in S : Below(h, n) = D[n]
           /\ Below(h, Nil) = {}
           /\ Below(h, h.root[t]) = S
<1> DEFINE r == h.root[t]  L == h.left  R == h.right  P == h.parent
<1>0. Tree(r, L, R, P, S, D) /\ D \in [Index -> SUBSET Index] /\ S \in SUBSET Index
  BY DEF Grows, Tree
<1>s. Size \in Nat /\ Size > 0 /\ Nil \in Link /\ \A n \in S : n \in Index /\ n \in Int /\ n \in Link /\ n # Nil
  BY <1>0, SizeAssumption, IndexIsInt DEF Link
<1>t. Rooted(r, P, S, D) /\ LeftBelow(L, P, S, D) /\ RightBelow(R, P, S, D) /\ Nested(P, S, D)
  BY <1>0 DEF Tree
<1>1. PICK b \in [0 .. Size -> [Link -> SUBSET Index]] :
              /\ b[0] = [m \in Link |-> {}]
              /\ \A k \in 0 .. Size - 1 :
                    b[k + 1] = [m \in Link |-> IF m = Nil THEN {} ELSE {m} \cup b[k][L[m]] \cup b[k][R[m]]]
              /\ \A n : Below(h, n) = b[Size][n]
  BY BelowSteps
<1> HIDE DEF r, L, R, P
<1>2. ASSUME NEW k \in 0 .. Size PROVE b[k][Nil] = {}
  <2>1. CASE k = 0
    BY <2>1, <1>1, <1>s
  <2>2. CASE k # 0
    <3>1. k - 1 \in 0 .. Size - 1 /\ (k - 1) + 1 = k
      BY <2>2, <1>s
    <3>2. b[(k - 1) + 1] = [m \in Link |-> IF m = Nil THEN {} ELSE {m} \cup b[k - 1][L[m]] \cup b[k - 1][R[m]]]
      BY <1>1, <3>1
    <3> QED BY <3>1, <3>2, <1>s
  <2> QED BY <2>1, <2>2
<1> DEFINE K == {k \in Nat : k <= Size => \A n \in S : Cardinality(D[n]) <= k => b[k][n] = D[n]}
<1>c. \A n \in S : Cardinality(D[n]) \in 1 .. Size
  BY <1>0, BelowFinite
<1>3. 0 \in K
  BY <1>c, <1>s
<1>4. ASSUME NEW k \in Nat, k \in K PROVE k + 1 \in K
  <2>1. SUFFICES ASSUME k + 1 <= Size, NEW n \in S, Cardinality(D[n]) <= k + 1 PROVE b[k + 1][n] = D[n]
    OBVIOUS
  <2>2. k \in 0 .. Size - 1 /\ k \in 0 .. Size /\ k <= Size
    BY <2>1, <1>s
  <2>3. b[k + 1][n] = {n} \cup b[k][L[n]] \cup b[k][R[n]]
    <3>1. b[k + 1] = [m \in Link |-> IF m = Nil THEN {} ELSE {m} \cup b[k][L[m]] \cup b[k][R[m]]]
      BY <2>2, <1>1
    <3> QED BY <3>1, <1>s
  <2>4. ASSUME NEW m, m = L[n] \/ m = R[n], m # Nil PROVE m \in S /\ b[k][m] = D[m]
    <3>1. m \in S /\ Cardinality(D[m]) < Cardinality(D[n])
      BY <2>4, <1>0, ChildBelow
    <3>2. Cardinality(D[m]) \in Nat /\ Cardinality(D[n]) \in Nat
      BY <3>1, <1>c
    <3>3. Cardinality(D[m]) <= k
      BY <3>1, <3>2, <2>1
    <3> QED BY <1>4, <2>2, <3>1, <3>3
  <2> HIDE DEF K
  <2>d. n \in D[n] /\ n \in Int /\ \A m \in D[n] : m \in Int /\ m \in Index
    BY <1>s, <1>t DEF Nested
  <2>5. \A m \in Index : m \in b[k][L[n]] <=> m \in D[n] /\ m < n
    <3>1. CASE L[n] = Nil
      BY <3>1, <2>2, <2>d, <1>2, <1>t DEF LeftBelow
    <3>2. CASE L[n] # Nil
      BY <3>2, <2>4, <1>t DEF LeftBelow
    <3> QED BY <3>1, <3>2
  <2>6. \A m \in Index : m \in b[k][R[n]] <=> m \in D[n] /\ m > n
    <3>1. CASE R[n] = Nil
      BY <3>1, <2>2, <2>d, <1>2, <1>t DEF RightBelow
    <3>2. CASE R[n] # Nil
      BY <3>2, <2>4, <1>t DEF RightBelow
    <3> QED BY <3>1, <3>2
  <2>7. \A m \in Index : m \in b[k + 1][n] <=> m \in D[n]
    <3> SUFFICES ASSUME NEW m \in Index PROVE m \in b[k + 1][n] <=> m \in D[n]
      OBVIOUS
    <3>1. m \in Int
      BY IndexIsInt
    <3>2. m = n \/ m < n \/ m > n
      BY <3>1, <2>d
    <3> QED BY <2>3, <2>5, <2>6, <2>d, <3>2
  <2>8. b[k + 1][n] \subseteq Index /\ D[n] \subseteq Index
    <3>1. k + 1 \in 0 .. Size
      BY <2>1
    <3> QED BY <3>1, <1>0, <1>s
  <2> QED BY <2>7, <2>8
<1> HIDE DEF K
<1>5. Nat \subseteq K
  BY <1>3, <1>4, NatInductive
<1>6. \A n \in S : Below(h, n) = D[n]
  BY <1>5, <1>s, <1>c, <1>1 DEF K
<1>7. Below(h, Nil) = {}
  BY <1>1, <1>2, <1>s
<1>8. Below(h, r) = S
  <2>1. CASE r = Nil
    BY <2>1, <1>7, <1>t DEF Rooted
  <2>2. CASE r # Nil
    <3>1. r \in S /\ S \subseteq D[r] /\ D[r] \subseteq S
      BY <2>2, <1>t DEF Rooted, Nested
    <3> QED BY <3>1, <1>6
  <2> QED BY <2>1, <2>2
<1> QED BY <1>6, <1>7, <1>8 DEF r

\* What the invariant says of a tree.
LEMMA GrownSearch ==
    ASSUME NEW h \in Heaps, NEW t \in Trees, NEW S, Grown(h, t, S)
    PROVE  /\ S \subseteq Index
           /\ Below(h, h.root[t]) = S
           /\ h.root[t] # Nil => h.parent[h.root[t]] = Nil
           /\ \A n \in S :
                /\ \A m \in Below(h, h.left[n]) : m < n
                /\ \A m \in Below(h, h.right[n]) : m > n
                /\ h.left[n] # Nil => h.parent[h.left[n]] = n
                /\ h.right[n] # Nil => h.parent[h.right[n]] = n
<1> DEFINE r == h.root[t]  L == h.left  R == h.right  P == h.parent
<1>1. PICK D : Grows(h, t, S, D)
  BY DEF Grown
<1>2. /\ \A n \in S : Below(h, n) = D[n]
      /\ Below(h, Nil) = {}
      /\ Below(h, r) = S
  BY <1>1, BelowIs
<1>3. S \subseteq Index /\ Rooted(r, P, S, D) /\ LeftBelow(L, P, S, D) /\ RightBelow(R, P, S, D) /\ Nested(P, S, D)
  BY <1>1 DEF Grows, Tree
<1> HIDE DEF r, L, R, P
<1>4. ASSUME NEW n \in S
      PROVE  /\ \A m \in Below(h, L[n]) : m < n
             /\ L[n] # Nil => P[L[n]] = n
  <2>1. CASE L[n] = Nil
    BY <2>1, <1>2
  <2>2. CASE L[n] # Nil
    <3>1. L[n] \in S /\ P[L[n]] = n /\ \A m \in Index : m \in D[L[n]] <=> m \in D[n] /\ m < n
      BY <2>2, <1>3 DEF LeftBelow
    <3>2. D[L[n]] \subseteq Index
      BY <3>1, <1>3 DEF Nested
    <3> QED BY <3>1, <3>2, <1>2
  <2> QED BY <2>1, <2>2
<1>5. ASSUME NEW n \in S
      PROVE  /\ \A m \in Below(h, R[n]) : m > n
             /\ R[n] # Nil => P[R[n]] = n
  <2>1. CASE R[n] = Nil
    BY <2>1, <1>2
  <2>2. CASE R[n] # Nil
    <3>1. R[n] \in S /\ P[R[n]] = n /\ \A m \in Index : m \in D[R[n]] <=> m \in D[n] /\ m > n
      BY <2>2, <1>3 DEF RightBelow
    <3>2. D[R[n]] \subseteq Index
      BY <3>1, <1>3 DEF Nested
    <3> QED BY <3>1, <3>2, <1>2
  <2> QED BY <2>1, <2>2
<1>6. r # Nil => P[r] = Nil
  BY <1>3 DEF Rooted
<1> QED BY <1>2, <1>3, <1>4, <1>5, <1>6 DEF r, L, R, P

-----------------------------------------------------------------------------
(* Blank nodes, and the trees of the constructor.                          *)

\* A heap whose nodes of W have been blanked.
LEMMA Blanked ==
    ASSUME NEW h \in Heaps, NEW W \in SUBSET Index
    PROVE  /\ Blank(h, W) \in Heaps
           /\ Blank(h, W).root = h.root
           /\ \A n \in W : Blank(h, W).left[n] = Nil /\ Blank(h, W).right[n] = Nil
           /\ \A t \in Trees : \A S : S \cap W = {} /\ Grown(h, t, S) => Grown(Blank(h, W), t, S)
<1> DEFINE g == Blank(h, W)
           clear(f) == [i \in Index |-> IF i \in W THEN Nil ELSE f[i]]
<1>0. Nil \in Link
  BY IndexIsInt
<1>1. g = [h EXCEPT !.left = clear(@), !.right = clear(@), !.parent = clear(@)]
  BY DEF Blank
<1>2. clear(h.left) \in Links /\ clear(h.right) \in Links /\ clear(h.parent) \in Links
  BY <1>0 DEF Heaps, Links
<1> HIDE DEF g
<1>3. g.root = h.root /\ g.left = clear(h.left) /\ g.right = clear(h.right) /\ g.parent = clear(h.parent) /\ g \in Heaps
  <2> HIDE DEF clear
  <2> QED BY <1>1, <1>2 DEF Heaps
<1>4. \A n \in W : g.left[n] = Nil /\ g.right[n] = Nil
  BY <1>3
<1>5. ASSUME NEW t \in Trees, NEW S, S \cap W = {}, Grown(h, t, S) PROVE Grown(g, t, S)
  <2>1. PICK D : Grows(h, t, S, D)
    BY <1>5 DEF Grown
  <2> DEFINE r == h.root[t]  L == h.left  R == h.right  P == h.parent  L2 == g.left  R2 == g.right  P2 == g.parent
  <2>2. Tree(r, L, R, P, S, D) /\ S \subseteq Index
    BY <2>1 DEF Grows, Tree
  <2>3. \A n \in S : L2[n] = L[n] /\ R2[n] = R[n] /\ P2[n] = P[n]
    BY <1>3, <1>5, <2>2
  <2>4. Tree(r, L2, R2, P2, S, D)
    <3> HIDE DEF r, L, R, P, L2, R2, P2
    <3> QED BY <2>2, <2>3, SameTree
  <2> QED BY <1>3, <2>1, <2>4 DEF Grown, Grows
<1> QED BY <1>3, <1>4, <1>5 DEF g

\* A heap with no trees.
LEMMA EmptyGrown ==
    EmptyHeap \in Heaps /\ \A t \in Trees : Grown(EmptyHeap, t, {})
<1>0. Nil \in Link
  BY IndexIsInt
<1>1. EmptyHeap \in Heaps
  BY <1>0 DEF EmptyHeap, Heaps, Links
<1>2. ASSUME NEW t \in Trees PROVE Grown(EmptyHeap, t, {})
  <2> DEFINE D == [n \in Index |-> {}]  L == EmptyHeap.left  R == EmptyHeap.right  P == EmptyHeap.parent
  <2>1. EmptyHeap.root[t] = Nil
    BY DEF EmptyHeap
  <2>2. \A L3, R3, P3 : Tree(Nil, L3, R3, P3, {}, D)
    BY DEF Tree, Rooted, LeftBelow, RightBelow, ParentAbove, Nested
  <2>3. Tree(EmptyHeap.root[t], L, R, P, {}, D)
    <3> HIDE DEF D, L, R, P
    <3> QED BY <2>1, <2>2
  <2>4. D \in [Index -> SUBSET Index]
    OBVIOUS
  <2> QED BY <2>3, <2>4 DEF Grown, Grows
<1> QED BY <1>1, <1>2

\* What the constructor has dealt to tree t after k indices.
Hand(order, k, t) == {i \in Index : \E m \in 1 .. k : i = order[m] /\ (m - 1) % 2 = t}

\* One index is dealt.
LEMMA DealtOne ==
    ASSUME NEW order \in [1 .. Size -> Index], \A a, b \in 1 .. Size : a # b => order[a] # order[b],
           NEW k \in 0 .. Size - 1, NEW h \in Heaps, \A t \in Trees : Grown(h, t, Hand(order, k, t))
    PROVE  LET g == addNode(h, k % 2, order[k + 1])
           IN  g \in Heaps /\ \A t \in Trees : Grown(g, t, Hand(order, k + 1, t))
<1> DEFINE n == order[k + 1]  u == k % 2  b == Blank(h, {n})  g == PutNode(b, u, n)
<1>0. k \in Nat /\ Size \in Nat /\ k + 1 \in 1 .. Size /\ n \in Index /\ u \in Trees /\ (k + 1) - 1 = k
  BY SizeAssumption DEF Trees
<1>1. ASSUME NEW t \in Trees PROVE n \notin Hand(order, k, t)
  BY <1>0 DEF Hand
<1>2. Hand(order, k + 1, u) = Hand(order, k, u) \cup {n}
  <2>1. ASSUME NEW i \in Index PROVE i \in Hand(order, k + 1, u) <=> i \in Hand(order, k, u) \/ i = n
    <3>1. ASSUME i \in Hand(order, k + 1, u) PROVE i \in Hand(order, k, u) \/ i = n
      <4>1. PICK m \in 1 .. k + 1 : i = order[m] /\ (m - 1) % 2 = u
        BY <3>1 DEF Hand
      <4>2. m = k + 1 \/ m \in 1 .. k
        BY <1>0
      <4> QED BY <4>1, <4>2 DEF Hand
    <3>2. ASSUME i \in Hand(order, k, u) PROVE i \in Hand(order, k + 1, u)
      <4>1. PICK m \in 1 .. k : i = order[m] /\ (m - 1) % 2 = u
        BY <3>2 DEF Hand
      <4>2. m \in 1 .. k + 1
        BY <1>0
      <4> QED BY <4>1, <4>2 DEF Hand
    <3>3. ASSUME i = n PROVE i \in Hand(order, k + 1, u)
      <4>1. k + 1 \in 1 .. k + 1 /\ i = order[k + 1] /\ ((k + 1) - 1) % 2 = u
        BY <3>3, <1>0
      <4> QED BY <4>1 DEF Hand
    <3> QED BY <3>1, <3>2, <3>3
  <2>2. Hand(order, k + 1, u) \subseteq Index /\ Hand(order, k, u) \subseteq Index
    BY DEF Hand
  <2> QED BY <2>1, <2>2, <1>0
<1>3. ASSUME NEW t \in Trees, t # u PROVE Hand(order, k + 1, t) = Hand(order, k, t)
  <2>1. ASSUME NEW i \in Index PROVE i \in Hand(order, k + 1, t) <=> i \in Hand(order, k, t)
    <3>1. ASSUME i \in Hand(order, k + 1, t) PROVE i \in Hand(order, k, t)
      <4>1. PICK m \in 1 .. k + 1 : i = order[m] /\ (m - 1) % 2 = t
        BY <3>1 DEF Hand
      <4>2. m # k + 1
        BY <4>1, <1>0, <1>3
      <4>3. m \in 1 .. k
        BY <4>2, <1>0
      <4> QED BY <4>1, <4>3 DEF Hand
    <3>2. ASSUME i \in Hand(order, k, t) PROVE i \in Hand(order, k + 1, t)
      <4>1. PICK m \in 1 .. k : i = order[m] /\ (m - 1) % 2 = t
        BY <3>2 DEF Hand
      <4>2. m \in 1 .. k + 1
        BY <1>0
      <4> QED BY <4>1, <4>2 DEF Hand
    <3> QED BY <3>1, <3>2
  <2>2. Hand(order, k + 1, t) \subseteq Index /\ Hand(order, k, t) \subseteq Index
    BY DEF Hand
  <2> QED BY <2>1, <2>2
<1>4. ASSUME NEW t \in Trees, t # u PROVE Hand(order, k, t) \cap (Hand(order, k, u) \cup {n}) = {}
  <2>1. ASSUME NEW i \in Hand(order, k, t), i \in Hand(order, k, u) PROVE FALSE
    <3>1. PICK m \in 1 .. k : i = order[m] /\ (m - 1) % 2 = t
      BY DEF Hand
    <3>2. PICK l \in 1 .. k : i = order[l] /\ (l - 1) % 2 = u
      BY <2>1 DEF Hand
    <3>3. m \in 1 .. Size /\ l \in 1 .. Size
      BY <1>0
    <3>4. m = l
      BY <3>1, <3>2, <3>3
    <3> QED BY <3>1, <3>2, <3>4, <1>4
  <2> QED BY <2>1, <1>1
<1>5. addNode(h, k % 2, order[k + 1]) = g
  BY DEF addNode
<1> HIDE DEF u
<1>6. /\ b \in Heaps /\ b.left[n] = Nil /\ b.right[n] = Nil
      /\ \A t \in Trees : Grown(b, t, Hand(order, k, t))
  <2>1. {n} \in SUBSET Index /\ \A t \in Trees : Hand(order, k, t) \cap {n} = {}
    BY <1>0, <1>1
  <2> HIDE DEF n
  <2> QED BY <2>1, Blanked
<1> HIDE DEF b, n
<1>7. g \in Heaps /\ Within(b, g, u, Hand(order, k, u) \cup {n}) /\ Grown(g, u, Hand(order, k, u) \cup {n})
  BY <1>0, <1>1, <1>6, PutGrown
<1> HIDE DEF g
<1>8. ASSUME NEW t \in Trees PROVE Grown(g, t, Hand(order, k + 1, t))
  <2>1. CASE t = u
    BY <2>1, <1>2, <1>7
  <2>2. CASE t # u
    <3>1. Grown(g, t, Hand(order, k, t))
      BY <2>2, <1>0, <1>4, <1>6, <1>7, OtherGrown
    <3> QED BY <2>2, <3>1, <1>3
  <2> QED BY <2>1, <2>2
<1> QED BY <1>5, <1>7, <1>8

\* The constructor's trees.
LEMMA DealtGrown ==
    ASSUME NEW order \in [1 .. Size -> Index], \A a, b \in 1 .. Size : a # b => order[a] # order[b]
    PROVE  Dealt(order) \in Heaps /\ \A t \in Trees : Grown(Dealt(order), t, Hand(order, Size, t))
<1> DEFINE V == Heaps
           more(h, k) == addNode(h, k % 2, order[k + 1])
           step == [x \in Nat \X V |-> IF more(x[2], x[1]) \in V THEN more(x[2], x[1]) ELSE EmptyHeap]
           body(g, k) == IF k = 0 THEN EmptyHeap ELSE addNode(g[k - 1], (k - 1) % 2, order[k])
           Good(h, k) == h \in V /\ \A t \in Trees : Grown(h, t, Hand(order, k, t))
<1>0. Size \in Nat
  BY SizeAssumption
<1>1. Good(EmptyHeap, 0)
  <2>1. \A t \in Trees : Hand(order, 0, t) = {}
    BY DEF Hand
  <2> QED BY <2>1, EmptyGrown
<1>2. ASSUME NEW k \in 0 .. Size - 1, NEW h, Good(h, k) PROVE Good(more(h, k), k + 1)
  BY <1>2, DealtOne
<1>3. EmptyHeap \in V
  BY <1>1
<1> HIDE DEF V, more, Good
<1>4. step \in [Nat \X V -> V]
  BY <1>3
<1>5. PICK g \in [0 .. Size -> V] : Begins(g, Size, EmptyHeap, step)
  <2> HIDE DEF step
  <2> QED BY <1>0, <1>3, <1>4, BeginsExist
<1>6. ASSUME NEW k \in 0 .. Size - 1, Good(g[k], k) PROVE g[k + 1] = more(g[k], k)
  <2>1. <<k, g[k]>> \in Nat \X V
    BY <1>0
  <2>2. more(g[k], k) \in V
    BY <1>2, <1>6 DEF Good
  <2>3. step[<<k, g[k]>>] = more(g[k], k)
    BY <2>1, <2>2
  <2>4. g[k + 1] = step[<<k, g[k]>>]
    BY <1>5 DEF Begins
  <2> QED BY <2>3, <2>4
<1> DEFINE K == {k \in Nat : k <= Size => Good(g[k], k)}
<1>7. 0 \in K
  BY <1>1, <1>5 DEF Begins
<1>8. ASSUME NEW k \in Nat, k \in K PROVE k + 1 \in K
  <2>1. SUFFICES ASSUME k + 1 <= Size PROVE Good(g[k + 1], k + 1)
    OBVIOUS
  <2>2. k \in 0 .. Size - 1 /\ Good(g[k], k)
    BY <1>8, <2>1, <1>0
  <2> QED BY <2>2, <1>2, <1>6
<1> HIDE DEF K
<1>9. Nat \subseteq K
  BY <1>7, <1>8, NatInductive
<1>10. \A k \in 0 .. Size : Good(g[k], k)
  BY <1>9 DEF K
<1>11. g[0] = EmptyHeap /\ \A k \in 0 .. Size - 1 : g[k + 1] = more(g[k], k)
  <2>1. \A k \in 0 .. Size - 1 : k \in 0 .. Size
    BY <1>0
  <2> QED BY <2>1, <1>5, <1>6, <1>10 DEF Begins
<1>12. g = [k \in 0 .. Size |-> body(g, k)]
  <2>1. ASSUME NEW k \in 0 .. Size PROVE g[k] = body(g, k)
    <3>1. CASE k = 0
      BY <1>11, <3>1
    <3>2. CASE k # 0
      <4>1. k - 1 \in 0 .. Size - 1 /\ (k - 1) + 1 = k
        BY <3>2, <1>0
      <4>2. g[(k - 1) + 1] = more(g[k - 1], k - 1)
        BY <1>11, <4>1
      <4> QED BY <3>2, <4>1, <4>2 DEF more
    <3> QED BY <3>1, <3>2
  <2> HIDE DEF body
  <2> QED BY <2>1
<1> DEFINE d == CHOOSE f : f = [k \in 0 .. Size |-> body(f, k)]
<1>13. Dealt(order) = d[Size]
  BY DEF Dealt
<1>14. d = [k \in 0 .. Size |-> body(d, k)]
  <2> HIDE DEF body
  <2> QED BY <1>12
<1> HIDE DEF d
<1>15. \A k \in 0 .. Size : d[k] = body(d, k)
  <2> HIDE DEF body
  <2> QED BY <1>14
<1> DEFINE J == {k \in Nat : k <= Size => d[k] = g[k]}
<1>16. 0 \in J
  BY <1>15, <1>11, <1>0
<1>17. ASSUME NEW k \in Nat, k \in J PROVE k + 1 \in J
  <2>1. SUFFICES ASSUME k + 1 <= Size PROVE d[k + 1] = g[k + 1]
    OBVIOUS
  <2>2. k \in 0 .. Size - 1 /\ k + 1 \in 0 .. Size /\ k + 1 # 0 /\ (k + 1) - 1 = k /\ d[k] = g[k]
    BY <1>17, <2>1, <1>0
  <2>3. d[k + 1] = body(d, k + 1)
    BY <1>15, <2>2
  <2>4. d[k + 1] = more(d[k], k)
    BY <2>2, <2>3 DEF more
  <2> QED BY <2>2, <2>4, <1>11
<1> HIDE DEF J
<1>18. Nat \subseteq J
  BY <1>16, <1>17, NatInductive
<1>19. d[Size] = g[Size]
  BY <1>18, <1>0 DEF J
<1> QED BY <1>0, <1>10, <1>13, <1>19 DEF Good, V

\* A shuffle deals every index, to one tree.
LEMMA HandsCover ==
    ASSUME NEW order \in SetToSeqs(Index)
    PROVE  /\ order \in [1 .. Size -> Index]
           /\ \A a, b \in 1 .. Size : a # b => order[a] # order[b]
           /\ Hand(order, Size, 0) \cup Hand(order, Size, 1) = Index
           /\ Hand(order, Size, 0) \cap Hand(order, Size, 1) = {}
<1>1. IsFiniteSet(Index) /\ Cardinality(Index) = Size /\ IsFiniteSet(1 .. Size) /\ Cardinality(1 .. Size) = Size
  <2>1. 0 \in Int /\ Size - 1 \in Int /\ ~(0 > Size - 1) /\ (Size - 1) - 0 + 1 = Size
        /\ 1 \in Int /\ Size \in Int /\ ~(1 > Size) /\ Size - 1 + 1 = Size
    BY SizeAssumption
  <2>2. IsFiniteSet(Index) /\ Cardinality(Index) = Size
    BY <2>1, FS_Interval DEF Index
  <2>3. IsFiniteSet(1 .. Size) /\ Cardinality(1 .. Size) = Size
    BY <2>1, FS_Interval
  <2> QED BY <2>2, <2>3
<1>2. order \in [1 .. Size -> Index] /\ \A a, b \in 1 .. Size : a # b => order[a] # order[b]
  BY <1>1 DEF SetToSeqs
<1>3. order \in Injection(1 .. Size, Index)
  BY <1>2 DEF Injection, IsInjective
<1>4. order \in Surjection(1 .. Size, Index)
  BY <1>1, <1>3, FS_Injection
<1>5. \A i \in Index : \E m \in 1 .. Size : order[m] = i
  BY <1>4 DEF Surjection
<1>6. ASSUME NEW i \in Index PROVE i \in Hand(order, Size, 0) \/ i \in Hand(order, Size, 1)
  <2>1. PICK m \in 1 .. Size : order[m] = i
    BY <1>5
  <2>2. (m - 1) % 2 = 0 \/ (m - 1) % 2 = 1
    BY SizeAssumption
  <2> QED BY <2>1, <2>2 DEF Hand
<1>7. ASSUME NEW i \in Hand(order, Size, 0), i \in Hand(order, Size, 1) PROVE FALSE
  <2>1. PICK m \in 1 .. Size : i = order[m] /\ (m - 1) % 2 = 0
    BY DEF Hand
  <2>2. PICK l \in 1 .. Size : i = order[l] /\ (l - 1) % 2 = 1
    BY <1>7 DEF Hand
  <2>3. m = l
    BY <2>1, <2>2, <1>2
  <2> HIDE DEF Index
  <2> QED BY <2>1, <2>2, <2>3
<1>8. Hand(order, Size, 0) \subseteq Index /\ Hand(order, Size, 1) \subseteq Index
  BY DEF Hand
<1> QED BY <1>2, <1>6, <1>7, <1>8

-----------------------------------------------------------------------------
(* The nodes the walks touch, the queries of a request, and the pools.     *)

\* The walks add each node they meet once.
LEMMA TouchedOnce ==
    ASSUME NEW S \in SUBSET Index, NEW seen \in Seq(S), IsInjective(seen), NEW path \in Seq(S)
    PROVE  /\ Touch(seen, path) \in Seq(S)
           /\ IsInjective(Touch(seen, path))
<1> DEFINE n == Len(path)
           V == {s \in Seq(S) : IsInjective(s)}
           more(s, x) == IF x \in ToSet(s) THEN s ELSE Append(s, x)
           step == [x \in Nat \X V |-> IF x[1] + 1 \in 1 .. n THEN more(x[2], path[x[1] + 1]) ELSE x[2]]
           body(g, k) == IF k = 0 THEN seen ELSE more(g[k - 1], path[k])
<1>0. n \in Nat /\ seen \in V /\ \A k \in 1 .. n : path[k] \in S
  BY DEF V
<1>m. ASSUME NEW s \in V, NEW x \in S PROVE more(s, x) \in V
  <2>1. CASE x \in ToSet(s)
    BY <2>1
  <2>2. CASE x \notin ToSet(s)
    <3>1. s \in Seq(S) /\ IsInjective(s)
      BY DEF V
    <3>2. Append(s, x) \in Seq(S) /\ Len(Append(s, x)) = Len(s) + 1
          /\ Append(s, x)[Len(s) + 1] = x /\ \A i \in 1 .. Len(s) : Append(s, x)[i] = s[i]
      BY <3>1
    <3>3. \A i \in 1 .. Len(s) : s[i] # x
      BY <2>2, <3>1 DEF ToSet
    <3>4. Len(s) \in Nat /\ DOMAIN s = 1 .. Len(s) /\ DOMAIN Append(s, x) = 1 .. Len(s) + 1
      BY <3>1, <3>2
    <3> DEFINE a == Append(s, x)
    <3>5. ASSUME NEW i \in 1 .. Len(s) + 1, NEW l \in 1 .. Len(s) + 1, a[i] = a[l] PROVE i = l
      <4>0. \A i2, l2 \in 1 .. Len(s) : s[i2] = s[l2] => i2 = l2
        BY <3>1, <3>4 DEF IsInjective
      <4>1. i \in 1 .. Len(s) \/ i = Len(s) + 1
        BY <3>4
      <4>2. l \in 1 .. Len(s) \/ l = Len(s) + 1
        BY <3>4
      <4> HIDE DEF a
      <4> QED BY <3>2, <3>3, <3>5, <4>0, <4>1, <4>2 DEF a
    <3>6. IsInjective(a)
      <4> HIDE DEF a
      <4> QED BY <3>4, <3>5 DEF IsInjective, a
    <3> QED BY <2>2, <3>2, <3>6
  <2> QED BY <2>1, <2>2
<1> HIDE DEF V, n, more
<1>1. step \in [Nat \X V -> V]
  <2>1. ASSUME NEW x \in Nat \X V
        PROVE (IF x[1] + 1 \in 1 .. n THEN more(x[2], path[x[1] + 1]) ELSE x[2]) \in V
    <3>1. x[2] \in V
      OBVIOUS
    <3> QED BY <3>1, <1>0, <1>m
  <2> QED BY <2>1
<1>2. PICK g \in [0 .. n -> V] : Begins(g, n, seen, step)
  <2> HIDE DEF step
  <2> QED BY <1>0, <1>1, BeginsExist
<1>3. g[0] = seen /\ \A k \in 0 .. n - 1 : g[k + 1] = more(g[k], path[k + 1])
  <2>1. ASSUME NEW k \in 0 .. n - 1 PROVE g[k + 1] = more(g[k], path[k + 1])
    <3>1. <<k, g[k]>> \in Nat \X V /\ k + 1 \in 1 .. n
      BY <1>0
    <3>2. step[<<k, g[k]>>] = more(g[k], path[k + 1])
      BY <3>1
    <3>3. g[k + 1] = step[<<k, g[k]>>]
      BY <1>2 DEF Begins
    <3> QED BY <3>2, <3>3
  <2> QED BY <1>2, <2>1 DEF Begins
<1>4. g = [k \in 0 .. n |-> body(g, k)]
  <2>1. ASSUME NEW k \in 0 .. n PROVE g[k] = body(g, k)
    <3>1. CASE k = 0
      BY <1>3, <3>1
    <3>2. CASE k # 0
      <4>1. k - 1 \in 0 .. n - 1 /\ (k - 1) + 1 = k
        BY <3>2, <1>0
      <4>2. g[(k - 1) + 1] = more(g[k - 1], path[(k - 1) + 1])
        BY <1>3, <4>1
      <4> QED BY <3>2, <4>1, <4>2
    <3> QED BY <3>1, <3>2
  <2> HIDE DEF body
  <2> QED BY <2>1
<1> DEFINE a == CHOOSE f : f = [k \in 0 .. n |-> body(f, k)]
<1>5. Touch(seen, path) = a[n]
  BY DEF Touch, more, n
<1>6. a = [k \in 0 .. n |-> body(a, k)]
  <2> HIDE DEF body
  <2> QED BY <1>4
<1> HIDE DEF a
<1>7. \A k \in 0 .. n : a[k] = body(a, k)
  <2> HIDE DEF body
  <2> QED BY <1>6
<1> DEFINE K == {k \in Nat : k <= n => a[k] \in V}
<1>8. 0 \in K
  BY <1>0, <1>7
<1>9. ASSUME NEW k \in Nat, k \in K PROVE k + 1 \in K
  <2>1. SUFFICES ASSUME k + 1 <= n PROVE a[k + 1] \in V
    OBVIOUS
  <2>2. k + 1 \in 0 .. n /\ k + 1 # 0 /\ (k + 1) - 1 = k /\ k <= n /\ k + 1 \in 1 .. n
    BY <1>0, <2>1
  <2>3. a[k + 1] = body(a, k + 1)
    BY <1>7, <2>2
  <2>4. a[k + 1] = more(a[k], path[k + 1])
    BY <2>2, <2>3
  <2> QED BY <1>9, <1>0, <2>2, <2>4, <1>m
<1> HIDE DEF K
<1>10. Nat \subseteq K
  BY <1>8, <1>9, NatInductive
<1>11. a[n] \in V
  BY <1>0, <1>10 DEF K
<1> QED BY <1>5, <1>11 DEF V

\* A request makes one query at least.
LEMMA SomeQueries == num \in Nat \ {0} /\ 0 \in RealIndexes
<1>0. Size \in Nat /\ Size >= 2
  BY SizeAssumption
<1> DEFINE Over == {n \in Nat : Size < Two[n + 1]}
<1>1. Size \in Over
  <2>1. Two[Size + 1] \in Nat /\ Two[Size + 1] > Size + 1
    BY <1>0, TwoPositive
  <2> QED BY <2>1, <1>0
<1>2. PICK n \in Over : \A m \in Over : n <= m
  <2>1. Over # {} /\ Over \in SUBSET Nat
    BY <1>1
  <2> HIDE DEF Over
  <2> QED BY <2>1, LeastOf
<1>3. n \in 0 .. Size /\ Size < Two[n + 1]
  BY <1>0, <1>1, <1>2
<1>4. Two[n] <= Size
  <2>1. CASE n = 0
    <3>1. Two[0] = 1
      BY TwoRecurs
    <3> QED BY <2>1, <3>1, <1>0
  <2>2. CASE n # 0
    <3>1. n - 1 \in Nat /\ (n - 1) + 1 = n
      BY <1>3, <2>2
    <3>2. n - 1 \notin Over
      BY <1>2, <1>3, <3>1
    <3>3. Two[n] \in Nat
      BY <1>3, TwoPositive
    <3> QED BY <3>1, <3>2, <3>3, <1>0
  <2> QED BY <2>1, <2>2
<1>5. num \in 0 .. Size /\ Two[num] <= Size /\ Size < Two[num + 1]
  BY <1>3, <1>4 DEF num
<1>6. num # 0
  <2>1. Two[0 + 1] = 2 * Two[0] /\ Two[0] = 1
    BY TwoRecurs
  <2> QED BY <2>1, <1>0, <1>5
<1>7. 0 \in 0 .. num - 1
  BY <1>5, <1>6
<1>8. 0 \in RealIndexes
  <2> HIDE DEF num
  <2> QED BY <1>7 DEF RealIndexes
<1> QED BY <1>5, <1>6, <1>8

\* How many of n things a tree gets.
LEMMA Shares ==
    ASSUME NEW t \in Trees, NEW n \in Nat
    PROVE  ShareOf(t, n) \in Nat /\ \A m \in Nat : n <= m => ShareOf(t, n) <= ShareOf(t, m)
<1>1. t = 0 \/ t = 1
  BY DEF Trees
<1>2. CASE t = 0
  BY <1>2 DEF ShareOf
<1>3. CASE t = 1
  BY <1>3 DEF ShareOf
<1> QED BY <1>1, <1>2, <1>3

\* What a pool is left with after n blank nodes have been taken from it.
LEMMA BlanksLeft ==
    ASSUME NEW p \in Nat, NEW n \in Nat
    PROVE  /\ AfterBlanks(p, n) \in Nat
           /\ p >= n => AfterBlanks(p, n) = p - n
           /\ p < n => AfterBlanks(p, n) < Chunk
<1>0. Chunk \in Nat /\ Chunk > 0
  BY ChunkAssumption
<1>1. CASE p >= n
  <2>1. AfterBlanks(p, n) = p - n
    BY <1>1 DEF AfterBlanks
  <2> QED BY <1>1, <2>1
<1>2. CASE p < n
  <2> DEFINE a == n - p + Chunk - 1  q == a \div Chunk  r == a % Chunk
  <2>1. a \in Nat
    BY <1>0, <1>2
  <2>2. AfterBlanks(p, n) = p + Chunk * q - n
    BY <1>2 DEF AfterBlanks
  <2>a. a = n - p + Chunk - 1
    OBVIOUS
  <2> HIDE DEF a
  <2>3. q \in Nat /\ r \in 0 .. Chunk - 1 /\ a = q * Chunk + r
    BY <1>0, <2>1, Divided
  <2> HIDE DEF q, r
  <2> DEFINE c == Chunk * q
  <2>4. c \in Nat /\ q * Chunk = c
    BY <1>0, <2>3
  <2> HIDE DEF c
  <2>5. c = n - p + Chunk - 1 - r
    BY <1>0, <2>a, <2>3, <2>4
  <2>6. AfterBlanks(p, n) = p + c - n
    BY <2>2 DEF c
  <2>7. AfterBlanks(p, n) = Chunk - 1 - r
    BY <1>0, <2>3, <2>5, <2>6
  <2> QED BY <1>0, <1>2, <2>3, <2>7
<1> QED BY <1>1, <1>2

\* What a pool has after a request that moved n nodes: as many as before, or
\* fewer than its share of all the nodes and a chunk.
LEMMA PoolRenewed ==
    ASSUME NEW t \in Trees, NEW p \in Nat, p < ShareOf(t, Size) + Chunk, NEW n \in Nat, n <= Size
    PROVE  LET q == GiveBack(t, AfterBlanks(p, ShareOf(t, n)), n)
           IN  q \in Nat /\ q < ShareOf(t, Size) + Chunk
<1> DEFINE s == ShareOf(t, n)  all == ShareOf(t, Size)  b == AfterBlanks(p, s)  q == GiveBack(t, b, n)
<1>0. s \in Nat /\ all \in Nat /\ s <= all /\ Chunk \in Nat /\ Size \in Nat
  BY Shares, ChunkAssumption, SizeAssumption
<1>1. q = b + s
  BY DEF GiveBack
<1> HIDE DEF s, all, q
<1>2. /\ b \in Nat
      /\ p >= s => b = p - s
      /\ p < s => b < Chunk
  BY <1>0, BlanksLeft
<1> HIDE DEF b
<1>3. q \in Nat /\ q < all + Chunk
  <2>1. p < all + Chunk
    BY DEF all
  <2> QED BY <2>1, <1>0, <1>1, <1>2
<1> QED BY <1>3 DEF q, b, s, all

\* What the constructor leaves in a pool.
LEMMA PoolStarts ==
    ASSUME NEW t \in Trees
    PROVE  AfterBlanks(0, ShareOf(t, Size)) \in Nat /\ AfterBlanks(0, ShareOf(t, Size)) < ShareOf(t, Size) + Chunk
<1> DEFINE all == ShareOf(t, Size)
<1>0. all \in Nat /\ Chunk \in Nat /\ Chunk > 0 /\ 0 \in Nat
  BY Shares, ChunkAssumption, SizeAssumption
<1> HIDE DEF all
<1>1. /\ AfterBlanks(0, all) \in Nat
      /\ 0 >= all => AfterBlanks(0, all) = 0 - all
      /\ 0 < all => AfterBlanks(0, all) < Chunk
  BY <1>0, BlanksLeft
<1>2. AfterBlanks(0, all) < all + Chunk
  BY <1>0, <1>1
<1> QED BY <1>1, <1>2 DEF all

-----------------------------------------------------------------------------
(* The invariant, at the start and through the query loop.                 *)

\* The invariant: every tree is a search tree, every index is in one place,
\* nothing is out of the trees between the requests and their queries, and a
\* node that waits to be put back has no children.
OramInv ==
    /\ OramTypeOK
    /\ PoolBounded
    /\ \A t \in Trees : Grown(heap, t, InTree(t))
    /\ OnePlace
    /\ phase \in {"idle", "query", "done"} => waiting = {}
    /\ phase = "put" => \A n \in waiting : heap.left[n] = Nil /\ heap.right[n] = Nil

\* The type of the heap.
LEMMA HeapTyped == OramTypeOK => heap \in Heaps
BY DEF OramTypeOK, Heaps, Links

\* Where the indices are once the trees are known.
LEMMA TreesAre ==
    ASSUME NEW h \in Heaps, NEW U, \A t \in Trees : Grown(h, t, U[t])
    PROVE  \A t \in Trees : Below(h, h.root[t]) = U[t] /\ Grown(h, t, Below(h, h.root[t]))
<1> SUFFICES ASSUME NEW t \in Trees PROVE Below(h, h.root[t]) = U[t] /\ Grown(h, t, Below(h, h.root[t]))
  OBVIOUS
<1> DEFINE S == U[t]
<1>1. Grown(h, t, S)
  OBVIOUS
<1> HIDE DEF S
<1>2. Below(h, h.root[t]) = S
  BY <1>1, GrownSearch
<1> QED BY <1>1, <1>2 DEF S

\* The constructor's trees satisfy the invariant.
LEMMA InitOram == Init => OramInv
<1> SUFFICES ASSUME Init PROVE OramInv
  OBVIOUS
<1>1. PICK order \in SetToSeqs(Index) : InitWith(order)
  BY DEF Init
<1> DEFINE U == [t \in Trees |-> Hand(order, Size, t)]
<1>2. /\ heap \in Heaps /\ \A t \in Trees : Grown(heap, t, U[t])
      /\ U[0] \cup U[1] = Index /\ U[0] \cap U[1] = {}
  <2>1. heap = Dealt(order)
    BY <1>1 DEF InitWith
  <2>2. 0 \in Trees /\ 1 \in Trees
    BY DEF Trees
  <2> QED BY <2>1, <2>2, HandsCover, DealtGrown
<1> HIDE DEF U
<1>3. \A t \in Trees : InTree(t) = U[t] /\ Grown(heap, t, InTree(t))
  BY <1>2, TreesAre DEF InTree
<1>4. OramTypeOK
  <2>1. heap \in [root : [Trees -> Link], left : [Index -> Link], right : [Index -> Link], parent : [Index -> Link]]
    BY <1>2 DEF Heaps, Links
  <2>2. pool \in [Trees -> Nat]
    <3>1. pool = [t \in Trees |-> AfterBlanks(0, ShareOf(t, Size))]
      BY <1>1 DEF InitWith
    <3> QED BY <3>1, PoolStarts
  <2>3. num \in Nat \ {0} /\ 0 \in RealIndexes
    BY SomeQueries
  <2>4. j \in 0 .. num - 1
    <3> HIDE DEF num
    <3> QED BY <1>1, <2>3 DEF InitWith
  <2>5. 0 \in Index
    BY SizeAssumption DEF Index
  <2> QED BY <1>1, <2>1, <2>2, <2>3, <2>4, <2>5, ValueAssumption DEF InitWith, OramTypeOK, Gets, Sets
<1>5. PoolBounded
  <2>1. pool = [t \in Trees |-> AfterBlanks(0, ShareOf(t, Size))]
    BY <1>1 DEF InitWith
  <2> QED BY <2>1, PoolStarts DEF PoolBounded
<1>6. OnePlace
  <2>1. waiting = {} /\ \A t \in Trees : touched[t] = <<>>
    BY <1>1 DEF InitWith
  <2>2. 0 \in Trees /\ 1 \in Trees
    BY DEF Trees
  <2>3. IsInjective(<<>>) /\ ToSet(<<>>) = {}
    BY DEF IsInjective, ToSet
  <2> QED BY <1>2, <1>3, <2>1, <2>2, <2>3 DEF OnePlace
<1>7. waiting = {} /\ phase = "idle"
  BY <1>1 DEF InitWith
<1> QED BY <1>3, <1>4, <1>5, <1>6, <1>7 DEF OramInv

\* A request keeps the invariant: the trees are not touched by it.
LEMMA BeginOram == ASSUME OramInv, NEW r \in Gets \cup Sets, Begin(r) PROVE OramInv'
<1>0. /\ phase = "idle" /\ phase' = "query" /\ waiting = {} /\ waiting' = {} /\ heap' = heap /\ pool' = pool
      /\ touched' = touched /\ data' = data /\ req' = r /\ j' = 0 /\ realindex' \in RealIndexes /\ ans' = NotPresent
  BY DEF Begin, OramInv
<1>1. OramTypeOK'
  <2>1. 0 \in 0 .. num - 1
    <3> HIDE DEF num
    <3> QED BY SomeQueries
  <2> QED BY <1>0, <2>1 DEF OramInv, OramTypeOK
<1>2. \A t \in Trees : InTree(t)' = InTree(t)
  BY <1>0 DEF InTree
<1>3. PoolBounded' /\ (\A t \in Trees : Grown(heap', t, InTree(t)'))
  BY <1>0, <1>2 DEF OramInv, PoolBounded
<1>4. OnePlace'
  <2>1. 0 \in Trees /\ 1 \in Trees
    BY DEF Trees
  <2> QED BY <1>0, <1>2, <2>1 DEF OramInv, OnePlace
<1> QED BY <1>0, <1>1, <1>3, <1>4 DEF OramInv

\* The walks of a query.
LEMMA QueryWalks ==
    ASSUME OramInv, NEW q \in Index, NEW coins \in [Trees -> BOOLEAN], NEW t \in Trees
    PROVE  /\ Walk(heap, heap.root[t], q, coins[t]) \in Seq(InTree(t))
           /\ q \in ToSet(Walk(heap, heap.root[t], q, coins[t])) <=> q \in InTree(t)
<1> DEFINE S == InTree(t)
<1>1. heap \in Heaps /\ Grown(heap, t, S) /\ coins[t] \in BOOLEAN
  BY HeapTyped DEF OramInv
<1> HIDE DEF S
<1>2. PICK D : Grows(heap, t, S, D)
  BY <1>1 DEF Grown
<1> QED BY <1>1, <1>2, WalkMeets DEF S

\* One iteration of the query loop keeps the invariant.
LEMMA SearchOram ==
    ASSUME OramInv, NEW q \in Index, NEW coins \in [Trees -> BOOLEAN],
           Search(q, [t \in Trees |-> Walk(heap, heap.root[t], q, coins[t])]),
           data' \in [Index -> Value], ans' \in Value \cup {NotPresent}
    PROVE  OramInv'
<1> DEFINE path == [t \in Trees |-> Walk(heap, heap.root[t], q, coins[t])]
<1>0. /\ phase = "query" /\ waiting = {} /\ waiting' = {} /\ heap' = heap /\ pool' = pool /\ req' = req
      /\ touched' = [t \in Trees |-> Touch(touched[t], path[t])]
      /\ IF j + 1 = num
         THEN phase' = "remove" /\ j' = 0 /\ realindex' = 0
         ELSE phase' = "query" /\ j' = j + 1 /\ UNCHANGED realindex
  BY DEF Search, OramInv
<1>1. ASSUME NEW t \in Trees
      PROVE  /\ Touch(touched[t], path[t]) \in Seq(InTree(t))
             /\ IsInjective(Touch(touched[t], path[t]))
             /\ InTree(t) \subseteq Index
  <2>1. InTree(t) \subseteq Index
    <3>1. heap \in Heaps /\ Grown(heap, t, InTree(t))
      BY HeapTyped DEF OramInv
    <3> DEFINE S == InTree(t)
    <3> HIDE DEF S
    <3>2. Grown(heap, t, S) => S \subseteq Index
      BY <3>1, GrownSearch
    <3> QED BY <3>1, <3>2 DEF S
  <2>2. touched[t] \in Seq(Index) /\ IsInjective(touched[t]) /\ ToSet(touched[t]) \subseteq InTree(t)
    BY DEF OramInv, OramTypeOK, OnePlace
  <2>3. touched[t] \in Seq(InTree(t))
    BY <2>2 DEF ToSet
  <2>4. path[t] \in Seq(InTree(t))
    BY QueryWalks
  <2> HIDE DEF path
  <2> QED BY <2>1, <2>2, <2>3, <2>4, TouchedOnce
<1> HIDE DEF path
<1>2. OramTypeOK'
  <2>1. touched' \in [Trees -> Seq(Index)]
    <3>1. ASSUME NEW t \in Trees PROVE Touch(touched[t], path[t]) \in Seq(Index)
      BY <1>1
    <3> QED BY <1>0, <3>1
  <2>2. j' \in 0 .. num - 1 /\ realindex' \in RealIndexes
    <3>1. num \in Nat \ {0} /\ 0 \in RealIndexes /\ j \in 0 .. num - 1 /\ realindex \in RealIndexes
      BY SomeQueries DEF OramInv, OramTypeOK
    <3> HIDE DEF num, RealIndexes
    <3> QED BY <1>0, <3>1
  <2>3. phase' \in {"idle", "query", "remove", "put", "done"}
    BY <1>0
  <2> HIDE DEF num, RealIndexes
  <2> QED BY <1>0, <2>1, <2>2, <2>3 DEF OramInv, OramTypeOK
<1>3. \A t \in Trees : InTree(t)' = InTree(t)
  BY <1>0 DEF InTree
<1>4. PoolBounded' /\ (\A t \in Trees : Grown(heap', t, InTree(t)'))
  BY <1>0, <1>3 DEF OramInv, PoolBounded
<1>5. OnePlace'
  <2>1. 0 \in Trees /\ 1 \in Trees
    BY DEF Trees
  <2>2. ASSUME NEW t \in Trees PROVE IsInjective(touched'[t]) /\ ToSet(touched'[t]) \subseteq InTree(t)
    <3>1. touched'[t] \in Seq(InTree(t)) /\ IsInjective(touched'[t])
      BY <1>0, <1>1
    <3> QED BY <3>1 DEF ToSet
  <2>3. InTree(0) \cap InTree(1) = {} /\ waiting \cup InTree(0) \cup InTree(1) = Index
    BY DEF OramInv, OnePlace
  <2> QED BY <1>0, <1>3, <2>1, <2>2, <2>3 DEF OnePlace
<1> QED BY <1>0, <1>2, <1>4, <1>5 DEF OramInv

\* A query of a get keeps the invariant.
LEMMA GetOram ==
    ASSUME OramInv, NEW q \in Index, NEW coins \in [Trees -> BOOLEAN], GetQuery(q, coins)
    PROVE  OramInv'
<1>1. Search(q, [t \in Trees |-> Walk(heap, heap.root[t], q, coins[t])])
  BY DEF GetQuery
<1>2. data' = data /\ data \in [Index -> Value] /\ ans \in Value \cup {NotPresent}
  BY DEF GetQuery, OramInv, OramTypeOK
<1>3. ans' = data[q] \/ ans' = ans
  BY DEF GetQuery
<1>4. ans' \in Value \cup {NotPresent}
  BY <1>2, <1>3
<1> QED BY <1>1, <1>2, <1>4, SearchOram

\* A query of a set keeps the invariant.
LEMMA SetOram ==
    ASSUME OramInv, NEW q \in Index, NEW coins \in [Trees -> BOOLEAN], SetQuery(q, coins)
    PROVE  OramInv'
<1> DEFINE path == [t \in Trees |-> Walk(heap, heap.root[t], q, coins[t])]
<1>1. Search(q, path) /\ data' = Stored(q, path, j = realindex) /\ ans' = ans /\ req.kind = "set"
  BY DEF SetQuery
<1>2. data \in [Index -> Value] /\ ans \in Value \cup {NotPresent} /\ req \in Gets \cup Sets
  BY DEF OramInv, OramTypeOK
<1>3. req.value \in Value
  BY <1>1, <1>2, ValueAssumption DEF Gets, Sets
<1> HIDE DEF path
<1>4. data' \in [Index -> Value]
  BY <1>1, <1>2, <1>3 DEF Stored
<1> QED BY <1>1, <1>2, <1>4, SearchOram DEF path

-----------------------------------------------------------------------------
(* The invariant, through the reordering.                                  *)

\* A node leaves its tree and waits.
LEMMA TakeOutOram ==
    ASSUME OramInv, NEW t \in Trees, TakeOut(t)
    PROVE  OramInv'
<1> DEFINE c == Head(touched[t])  S == InTree(t)
           U == [u \in Trees |-> IF u = t THEN InTree(u) \ {c} ELSE InTree(u)]
<1>0. /\ phase = "remove" /\ phase' = "remove" /\ heap' = removeNode(heap, t, c)
      /\ touched' = [touched EXCEPT ![t] = Tail(@)] /\ waiting' = waiting \cup {c}
      /\ pool' = pool /\ data' = data /\ req' = req /\ j' = j /\ realindex' = realindex /\ ans' = ans
      /\ touched[t] # <<>>
  BY DEF TakeOut
<1>1. /\ touched \in [Trees -> Seq(Index)] /\ IsInjective(touched[t]) /\ ToSet(touched[t]) \subseteq S
      /\ heap \in Heaps /\ Grown(heap, t, S) /\ waiting \subseteq Index
  BY HeapTyped DEF OramInv, OramTypeOK, OnePlace
<1>2. /\ c \in S /\ c \in Index
      /\ Tail(touched[t]) \in Seq(Index) /\ IsInjective(Tail(touched[t]))
      /\ ToSet(Tail(touched[t])) \subseteq S \ {c}
  <2> DEFINE s == touched[t]  r == Tail(s)
  <2>1. s \in Seq(Index) /\ s # <<>> /\ IsInjective(s) /\ ToSet(s) \subseteq S
    BY <1>0, <1>1
  <2> HIDE DEF s, S
  <2>2. /\ Len(s) \in Nat /\ Len(s) >= 1 /\ DOMAIN s = 1 .. Len(s) /\ Head(s) = s[1] /\ s[1] \in Index
        /\ r \in Seq(Index) /\ Len(r) = Len(s) - 1 /\ DOMAIN r = 1 .. Len(r)
        /\ \A i \in 1 .. Len(r) : r[i] = s[i + 1]
    BY <2>1
  <2> HIDE DEF r
  <2>3. \A i, l \in 1 .. Len(s) : s[i] = s[l] => i = l
    BY <2>1, <2>2 DEF IsInjective
  <2>4. \A i \in 1 .. Len(s) : s[i] \in S
    BY <2>1, <2>2 DEF ToSet
  <2>5. \A i \in 1 .. Len(r) : i + 1 \in 1 .. Len(s) /\ i + 1 # 1 /\ 1 \in 1 .. Len(s)
    BY <2>2
  <2>6. 1 \in 1 .. Len(s)
    BY <2>2
  <2>7. \A i \in 1 .. Len(r) : r[i] \in S /\ r[i] # s[1]
    BY <2>2, <2>3, <2>4, <2>5
  <2>8. ToSet(r) \subseteq S \ {s[1]}
    BY <2>2, <2>7 DEF ToSet
  <2>9. \A i, l \in 1 .. Len(r) : r[i] = r[l] => i = l
    <3> SUFFICES ASSUME NEW i \in 1 .. Len(r), NEW l \in 1 .. Len(r), r[i] = r[l] PROVE i = l
      OBVIOUS
    <3>1. i + 1 = l + 1
      BY <2>2, <2>3, <2>5
    <3> QED BY <3>1
  <2>10. IsInjective(r)
    BY <2>2, <2>9 DEF IsInjective
  <2> QED BY <2>2, <2>4, <2>6, <2>8, <2>10 DEF s, r
<1> HIDE DEF c, S
<1>3. removeNode(heap, t, c) \in Heaps /\ Within(heap, removeNode(heap, t, c), t, S) /\ Grown(removeNode(heap, t, c), t, S \ {c})
  BY <1>1, <1>2, RemoveGrown
<1>4. heap' \in Heaps /\ Within(heap, heap', t, S) /\ Grown(heap', t, S \ {c})
  BY <1>0, <1>3
<1>5. InTree(0) \cap InTree(1) = {} /\ waiting \cap (InTree(0) \cup InTree(1)) = {} /\ waiting \cup InTree(0) \cup InTree(1) = Index
  BY DEF OramInv, OnePlace
<1>6. ASSUME NEW u \in Trees, u # t PROVE Grown(heap', u, InTree(u)) /\ InTree(u) \cap S = {} /\ c \notin InTree(u)
  <2>1. InTree(u) \cap S = {}
    BY <1>5, <1>6 DEF Trees, S
  <2> DEFINE V == InTree(u)
  <2>2. Grown(heap, u, V)
    BY DEF OramInv
  <2>3. V \cap S = {}
    BY <2>1
  <2> HIDE DEF V
  <2>4. Grown(heap', u, V)
    BY <1>1, <1>4, <1>6, <2>2, <2>3, OtherGrown
  <2> QED BY <2>1, <2>4, <1>2 DEF V
<1>7. \A u \in Trees : Grown(heap', u, U[u])
  BY <1>4, <1>6 DEF S
<1> DEFINE h == heap'
<1>h. h \in Heaps /\ \A u \in Trees : Grown(h, u, U[u])
  BY <1>4, <1>7
<1> HIDE DEF U, h
<1>8. \A u \in Trees : Below(h, h.root[u]) = U[u] /\ Grown(h, u, Below(h, h.root[u]))
  BY <1>h, TreesAre
<1>9. \A u \in Trees : InTree(u)' = U[u] /\ Grown(heap', u, InTree(u)')
  BY <1>8 DEF InTree, h
<1>10. OramTypeOK'
  <2>1. heap' \in [root : [Trees -> Link], left : [Index -> Link], right : [Index -> Link], parent : [Index -> Link]]
    BY <1>4 DEF Heaps, Links
  <2>2. touched' \in [Trees -> Seq(Index)] /\ waiting' \subseteq Index
    BY <1>0, <1>1, <1>2
  <2> HIDE DEF num
  <2> QED BY <1>0, <2>1, <2>2 DEF OramInv, OramTypeOK
<1>11. PoolBounded'
  BY <1>0 DEF OramInv, PoolBounded
<1>12. OnePlace'
  <2>0. 0 \in Trees /\ 1 \in Trees /\ (t = 0 \/ t = 1)
    BY DEF Trees
  <2>1. U[0] = IF t = 0 THEN InTree(0) \ {c} ELSE InTree(0)
    BY <2>0 DEF U
  <2>2. U[1] = IF t = 1 THEN InTree(1) \ {c} ELSE InTree(1)
    BY <2>0 DEF U
  <2>3. c \in InTree(t) /\ c \in Index
    BY <1>2 DEF S
  <2>4. /\ U[0] \cap U[1] = {} /\ waiting' \cap (U[0] \cup U[1]) = {} /\ waiting' \cup U[0] \cup U[1] = Index
    <3>1. CASE t = 0
      BY <3>1, <1>0, <1>5, <2>1, <2>2, <2>3
    <3>2. CASE t = 1
      BY <3>2, <1>0, <1>5, <2>1, <2>2, <2>3
    <3> QED BY <2>0, <3>1, <3>2
  <2>5. ASSUME NEW u \in Trees PROVE IsInjective(touched'[u]) /\ ToSet(touched'[u]) \subseteq U[u]
    <3>1. CASE u = t
      <4>1. touched'[u] = Tail(touched[t]) /\ U[u] = S \ {c}
        BY <3>1, <1>0, <1>1 DEF U, S
      <4> QED BY <4>1, <1>2
    <3>2. CASE u # t
      <4>1. touched'[u] = touched[u] /\ U[u] = InTree(u)
        BY <3>2, <1>0, <1>1 DEF U
      <4> QED BY <4>1 DEF OramInv, OnePlace
    <3> QED BY <3>1, <3>2
  <2> QED BY <1>9, <2>0, <2>4, <2>5 DEF OnePlace
<1> QED BY <1>0, <1>9, <1>10, <1>11, <1>12 DEF OramInv

\* Fresh nodes for the contents that wait.
LEMMA RenewOram == ASSUME OramInv, Renew PROVE OramInv'
<1> DEFINE U == [u \in Trees |-> InTree(u)]
<1>0. /\ phase = "remove" /\ phase' = "put" /\ heap' = Blank(heap, waiting) /\ waiting' = waiting /\ touched' = touched
      /\ data' = data /\ req' = req /\ j' = j /\ realindex' = realindex /\ ans' = ans
      /\ pool' = [t \in Trees |->
                    LET n == Cardinality(waiting)
                    IN  GiveBack(t, AfterBlanks(pool[t], ShareOf(t, n)), n)]
  BY DEF Renew
<1>1. heap \in Heaps /\ waiting \in SUBSET Index /\ pool \in [Trees -> Nat]
  BY HeapTyped DEF OramInv, OramTypeOK
<1>2. InTree(0) \cap InTree(1) = {} /\ waiting \cap (InTree(0) \cup InTree(1)) = {} /\ waiting \cup InTree(0) \cup InTree(1) = Index
  BY DEF OramInv, OnePlace
<1>3. /\ heap' \in Heaps
      /\ \A n \in waiting : heap'.left[n] = Nil /\ heap'.right[n] = Nil
      /\ \A u \in Trees : \A S : S \cap waiting = {} /\ Grown(heap, u, S) => Grown(heap', u, S)
  BY <1>0, <1>1, Blanked
<1>4. \A u \in Trees : Grown(heap', u, U[u])
  <2>1. ASSUME NEW u \in Trees PROVE InTree(u) \cap waiting = {} /\ Grown(heap, u, InTree(u))
    BY <1>2 DEF Trees, OramInv
  <2> QED BY <1>3, <2>1
<1> DEFINE h == heap'
<1>h. h \in Heaps /\ \A u \in Trees : Grown(h, u, U[u])
  BY <1>3, <1>4
<1> HIDE DEF U, h
<1>5. \A u \in Trees : Below(h, h.root[u]) = U[u] /\ Grown(h, u, Below(h, h.root[u]))
  BY <1>h, TreesAre
<1>6. \A u \in Trees : InTree(u)' = InTree(u) /\ Grown(heap', u, InTree(u)')
  BY <1>5 DEF InTree, h, U
<1>7. pool' \in [Trees -> Nat] /\ \A t \in Trees : pool'[t] < ShareOf(t, Size) + Chunk
  <2> DEFINE n == Cardinality(waiting)
  <2>1. n \in Nat /\ n <= Size
    <3>1. 0 \in Int /\ Size - 1 \in Int /\ ~(0 > Size - 1) /\ (Size - 1) - 0 + 1 = Size
      BY SizeAssumption
    <3>2. IsFiniteSet(Index) /\ Cardinality(Index) = Size
      BY <3>1, FS_Interval DEF Index
    <3>3. IsFiniteSet(waiting) /\ Cardinality(waiting) <= Size
      BY <1>1, <3>2, FS_Subset
    <3> QED BY <3>3, FS_CardinalityType
  <2>2. pool' = [t \in Trees |-> GiveBack(t, AfterBlanks(pool[t], ShareOf(t, n)), n)]
    BY <1>0
  <2> HIDE DEF n
  <2>3. ASSUME NEW t \in Trees PROVE pool'[t] \in Nat /\ pool'[t] < ShareOf(t, Size) + Chunk
    <3>1. pool[t] \in Nat /\ pool[t] < ShareOf(t, Size) + Chunk
      BY <1>1 DEF OramInv, PoolBounded
    <3>2. pool'[t] = GiveBack(t, AfterBlanks(pool[t], ShareOf(t, n)), n)
      BY <2>2
    <3> DEFINE p == pool[t]
    <3> HIDE DEF p
    <3>3. p \in Nat /\ p < ShareOf(t, Size) + Chunk =>
            /\ GiveBack(t, AfterBlanks(p, ShareOf(t, n)), n) \in Nat
            /\ GiveBack(t, AfterBlanks(p, ShareOf(t, n)), n) < ShareOf(t, Size) + Chunk
      BY <2>1, PoolRenewed
    <3> QED BY <3>1, <3>2, <3>3 DEF p
  <2>4. pool' = [t \in Trees |-> pool'[t]]
    BY <2>2
  <2> QED BY <2>3, <2>4
<1>8. OramTypeOK'
  <2>1. heap' \in [root : [Trees -> Link], left : [Index -> Link], right : [Index -> Link], parent : [Index -> Link]]
    BY <1>3 DEF Heaps, Links
  <2> HIDE DEF num
  <2> QED BY <1>0, <1>7, <2>1 DEF OramInv, OramTypeOK
<1>9. PoolBounded'
  BY <1>7 DEF PoolBounded
<1>10. OnePlace'
  <2>0. 0 \in Trees /\ 1 \in Trees
    BY DEF Trees
  <2> QED BY <1>0, <1>2, <1>6, <2>0 DEF OramInv, OnePlace
<1> QED BY <1>0, <1>3, <1>6, <1>8, <1>9, <1>10 DEF OramInv

\* A content is put back.
LEMMA PutOram ==
    ASSUME OramInv, NEW i \in Index, NEW t \in Trees, Put(i, t)
    PROVE  OramInv'
<1> DEFINE S == InTree(t)
           U == [u \in Trees |-> IF u = t THEN InTree(u) \cup {i} ELSE InTree(u)]
<1>0. /\ phase = "put" /\ i \in waiting /\ heap' = PutNode(heap, t, i) /\ waiting' = waiting \ {i}
      /\ phase' = IF waiting' = {} THEN "done" ELSE "put"
      /\ pool' = pool /\ data' = data /\ touched' = touched /\ req' = req /\ j' = j /\ realindex' = realindex /\ ans' = ans
  BY DEF Put
<1>1. heap \in Heaps /\ waiting \in SUBSET Index /\ Grown(heap, t, S)
      /\ \A n \in waiting : heap.left[n] = Nil /\ heap.right[n] = Nil
  BY <1>0, HeapTyped DEF OramInv, OramTypeOK
<1>2. InTree(0) \cap InTree(1) = {} /\ waiting \cap (InTree(0) \cup InTree(1)) = {} /\ waiting \cup InTree(0) \cup InTree(1) = Index
  BY DEF OramInv, OnePlace
<1>3. \A u \in Trees : waiting \cap InTree(u) = {} /\ (u # t => InTree(u) \cap (S \cup {i}) = {})
  <2>1. ASSUME NEW u \in Trees PROVE waiting \cap InTree(u) = {}
    BY <1>2 DEF Trees
  <2>2. ASSUME NEW u \in Trees, u # t PROVE InTree(u) \cap S = {}
    BY <1>2, <2>2 DEF Trees
  <2> HIDE DEF S
  <2> QED BY <1>0, <2>1, <2>2
<1> HIDE DEF S
<1>4. i \notin S
  BY <1>0, <1>3 DEF S
<1>5. PutNode(heap, t, i) \in Heaps /\ Within(heap, PutNode(heap, t, i), t, S \cup {i}) /\ Grown(PutNode(heap, t, i), t, S \cup {i})
  BY <1>0, <1>1, <1>4, PutGrown
<1>6. heap' \in Heaps /\ Within(heap, heap', t, S \cup {i}) /\ Grown(heap', t, S \cup {i})
  BY <1>0, <1>5
<1>7. ASSUME NEW u \in Trees, u # t PROVE Grown(heap', u, InTree(u))
  <2> DEFINE V == InTree(u)
  <2>1. Grown(heap, u, V) /\ V \cap (S \cup {i}) = {}
    BY <1>3, <1>7 DEF OramInv
  <2> HIDE DEF V
  <2>2. Grown(heap', u, V)
    BY <1>1, <1>6, <1>7, <2>1, OtherGrown
  <2> QED BY <2>2 DEF V
<1>8. \A u \in Trees : Grown(heap', u, U[u])
  BY <1>6, <1>7 DEF S
<1> DEFINE h == heap'
<1>h. h \in Heaps /\ \A u \in Trees : Grown(h, u, U[u])
  BY <1>6, <1>8
<1> HIDE DEF U, h
<1>9. \A u \in Trees : Below(h, h.root[u]) = U[u] /\ Grown(h, u, Below(h, h.root[u]))
  BY <1>h, TreesAre
<1>10. \A u \in Trees : InTree(u)' = U[u] /\ Grown(heap', u, InTree(u)')
  BY <1>9 DEF InTree, h
<1>11. OramTypeOK'
  <2>1. heap' \in [root : [Trees -> Link], left : [Index -> Link], right : [Index -> Link], parent : [Index -> Link]]
    BY <1>6 DEF Heaps, Links
  <2>2. waiting' \subseteq Index /\ phase' \in {"idle", "query", "remove", "put", "done"}
    BY <1>0, <1>1
  <2> HIDE DEF num
  <2> QED BY <1>0, <2>1, <2>2 DEF OramInv, OramTypeOK
<1>12. PoolBounded'
  BY <1>0 DEF OramInv, PoolBounded
<1>13. OnePlace'
  <2>0. 0 \in Trees /\ 1 \in Trees /\ (t = 0 \/ t = 1)
    BY DEF Trees
  <2>1. U[0] = IF t = 0 THEN InTree(0) \cup {i} ELSE InTree(0)
    BY <2>0 DEF U
  <2>2. U[1] = IF t = 1 THEN InTree(1) \cup {i} ELSE InTree(1)
    BY <2>0 DEF U
  <2>3. U[0] \cap U[1] = {} /\ waiting' \cap (U[0] \cup U[1]) = {} /\ waiting' \cup U[0] \cup U[1] = Index
    <3>1. CASE t = 0
      BY <3>1, <1>0, <1>2, <2>1, <2>2
    <3>2. CASE t = 1
      BY <3>2, <1>0, <1>2, <2>1, <2>2
    <3> QED BY <2>0, <3>1, <3>2
  <2>4. ASSUME NEW u \in Trees PROVE IsInjective(touched'[u]) /\ ToSet(touched'[u]) \subseteq U[u]
    <3>1. InTree(u) \subseteq U[u]
      BY DEF U
    <3> QED BY <3>1, <1>0 DEF OramInv, OnePlace
  <2> QED BY <1>10, <2>0, <2>3, <2>4 DEF OnePlace
<1>14. ASSUME NEW n \in waiting' PROVE heap'.left[n] = Nil /\ heap'.right[n] = Nil
  <2>1. n \in waiting /\ n # i /\ n \in Index
    BY <1>0, <1>1, <1>14
  <2>2. n \notin S \cup {i}
    BY <2>1, <1>3 DEF S
  <2> QED BY <2>1, <2>2, <1>1, <1>6 DEF Within
<1>15. phase' \in {"idle", "query", "done"} => waiting' = {}
  BY <1>0
<1> QED BY <1>10, <1>11, <1>12, <1>13, <1>14, <1>15 DEF OramInv

\* The return of a request keeps the invariant.
LEMMA ReturnOram == ASSUME OramInv, Return PROVE OramInv'
<1>0. /\ phase = "done" /\ phase' = "idle"
      /\ UNCHANGED <<heap, data, pool, touched, waiting, req, j, realindex, ans>>
  BY DEF Return
<1>1. \A t \in Trees : InTree(t)' = InTree(t)
  BY <1>0 DEF InTree
<1>2. 0 \in Trees /\ 1 \in Trees
  BY DEF Trees
<1>3. OnePlace'
  BY <1>0, <1>1, <1>2 DEF OramInv, OnePlace
<1>4. OramTypeOK' /\ PoolBounded'
  BY <1>0 DEF OramInv, OramTypeOK, PoolBounded
<1> QED BY <1>0, <1>1, <1>3, <1>4 DEF OramInv

\* Nothing happens to the invariant when nothing happens.
LEMMA StutterOram == ASSUME OramInv, UNCHANGED vars PROVE OramInv'
<1>0. UNCHANGED <<heap, data, pool, touched, waiting, phase, req, j, realindex, ans>>
  BY DEF vars
<1>1. \A t \in Trees : InTree(t)' = InTree(t)
  BY <1>0 DEF InTree
<1>2. 0 \in Trees /\ 1 \in Trees
  BY DEF Trees
<1>3. OnePlace'
  BY <1>0, <1>1, <1>2 DEF OramInv, OnePlace
<1>4. OramTypeOK' /\ PoolBounded'
  BY <1>0 DEF OramInv, OramTypeOK, PoolBounded
<1> QED BY <1>0, <1>1, <1>3, <1>4 DEF OramInv

\* Every step keeps the invariant.
LEMMA StepOram == OramInv /\ [Next]_vars => OramInv'
<1> SUFFICES ASSUME OramInv, [Next]_vars PROVE OramInv'
  OBVIOUS
<1>1. ASSUME NEW r \in Gets \cup Sets, Begin(r) PROVE OramInv'
  BY <1>1, BeginOram
<1>2. ASSUME NEW q \in Index, NEW coins \in [Trees -> BOOLEAN], GetQuery(q, coins) PROVE OramInv'
  BY <1>2, GetOram
<1>3. ASSUME NEW q \in Index, NEW coins \in [Trees -> BOOLEAN], SetQuery(q, coins) PROVE OramInv'
  BY <1>3, SetOram
<1>4. ASSUME NEW t \in Trees, TakeOut(t) PROVE OramInv'
  BY <1>4, TakeOutOram
<1>5. CASE Renew
  BY <1>5, RenewOram
<1>6. ASSUME NEW i \in Index, NEW t \in Trees, Put(i, t) PROVE OramInv'
  BY <1>6, PutOram
<1>7. CASE Return
  BY <1>7, ReturnOram
<1>8. CASE UNCHANGED vars
  BY <1>8, StutterOram
<1> QED BY <1>1, <1>2, <1>3, <1>4, <1>5, <1>6, <1>7, <1>8 DEF Next

\* The invariant holds always.
LEMMA OramAlways == Spec => []OramInv
BY InitOram, StepOram, PTL DEF Spec

\* All variables keep their types: a heap's pointers lead to nodes or to none,
\* and no pool runs below nothing, whatever the walks touch.
THEOREM TreesTyped == Spec => []OramTypeOK
<1>1. OramInv => OramTypeOK
  BY DEF OramInv
<1> QED BY <1>1, OramAlways, PTL

\* Both trees stay search trees whose parent pointers lead back, and hold
\* together with the contents taken out every index once, whatever the order in
\* which removeNode and putNode take them, for every number of cells.
THEOREM TreesSearch == Spec => []SearchTrees
<1>1. OramInv => SearchTrees
  <2> SUFFICES ASSUME OramInv PROVE SearchTrees
    OBVIOUS
  <2>1. OnePlace
    BY DEF OramInv
  <2>2. ASSUME NEW t \in Trees
        PROVE  /\ heap.root[t] # Nil => heap.parent[heap.root[t]] = Nil
               /\ \A n \in InTree(t) :
                    /\ \A m \in Below(heap, heap.left[n]) : m < n
                    /\ \A m \in Below(heap, heap.right[n]) : m > n
                    /\ heap.left[n] # Nil => heap.parent[heap.left[n]] = n
                    /\ heap.right[n] # Nil => heap.parent[heap.right[n]] = n
    <3> DEFINE S == InTree(t)
    <3>1. heap \in Heaps /\ Grown(heap, t, S)
      BY HeapTyped DEF OramInv
    <3> HIDE DEF S
    <3>2. /\ heap.root[t] # Nil => heap.parent[heap.root[t]] = Nil
          /\ \A n \in S :
                /\ \A m \in Below(heap, heap.left[n]) : m < n
                /\ \A m \in Below(heap, heap.right[n]) : m > n
                /\ heap.left[n] # Nil => heap.parent[heap.left[n]] = n
                /\ heap.right[n] # Nil => heap.parent[heap.right[n]] = n
      BY <3>1, GrownSearch
    <3> QED BY <3>2 DEF S
  <2> QED BY <2>1, <2>2 DEF SearchTrees
<1> QED BY <1>1, OramAlways, PTL

\* However many requests there are, no pool grows beyond its tree's share of
\* the cells and a chunk.
THEOREM PoolsBounded == Spec => []PoolBounded
<1>1. OramInv => PoolBounded
  BY DEF OramInv
<1> QED BY <1>1, OramAlways, PTL

-----------------------------------------------------------------------------
(* The memory as an array.                                                 *)

\* A request still waits for its effect: its real query is to come, or it has
\* none.
Waits == phase = "query" /\ (j <= realindex \/ realindex < 0)

\* The stage a request is in.
LEMMA StageIs ==
    /\ phase = "idle" => stage = "idle"
    /\ Waits => stage = "asked"
    /\ phase # "idle" /\ ~Waits => stage = "done"
BY DEF stage, Waits

\* The stage a request is in after a step.
LEMMA StageNext ==
    /\ phase' = "idle" => stage' = "idle"
    /\ Waits' => stage' = "asked"
    /\ phase' # "idle" /\ ~Waits' => stage' = "done"
BY DEF stage, Waits

\* A draw is a position of the loop, or it is negative, and then requests can
\* be lost.
LEMMA DrawnPosition ==
    ASSUME NEW r \in RealIndexes
    PROVE  r \in 0 .. num - 1 \/ (r \in Int /\ r < 0 /\ Lossy)
<1>1. num \in Nat \ {0}
  BY SomeQueries
<1>2. Two[30] \in Nat
  <2>1. 30 \in Nat
    OBVIOUS
  <2> QED BY <2>1, TwoRecurs
<1> DEFINE k == -((Two[30] % num) * 2 % num)
<1>3. k \in Int /\ k <= 0 /\ k \in RealIndexes
  <2>1. Two[30] % num \in Nat
    BY <1>1, <1>2
  <2>2. ((Two[30] % num) * 2) % num \in Nat
    <3> HIDE DEF num
    <3> QED BY <1>1, <2>1
  <2>3. k \in Int /\ k <= 0
    BY <2>2
  <2> QED BY <2>3 DEF RealIndexes
<1>4. r \in 0 .. num - 1 \/ r = k
  BY DEF RealIndexes
<1> HIDE DEF k, num
<1>5. CASE r = k /\ k = 0
  BY <1>1, <1>5
<1>6. CASE r = k /\ k # 0
  <2>1. k < 0
    BY <1>3, <1>6
  <2>2. k \notin 0 .. num - 1
    BY <1>3, <2>1
  <2>3. Lossy
    BY <1>3, <2>2 DEF Lossy
  <2> QED BY <1>3, <1>6, <2>1, <2>3
<1> QED BY <1>4, <1>5, <1>6

\* One iteration of the query loop, seen as an array: what the real query does
\* is the read or the write, the others do nothing; but the last of a request that
\* has no real query gives it up.
LEMMA SearchArray ==
    ASSUME OramInv, NEW q \in Index, NEW path, Search(q, path)
    PROVE  /\ req' = req
           /\ j # realindex =>
                (stage' = stage \/ (Lossy /\ stage = "asked" /\ stage' = "done"))
           /\ j = realindex => q = req.index /\ stage = "asked" /\ stage' = "done"
<1>0. /\ phase = "query" /\ req' = req /\ (j = realindex => q = req.index)
      /\ IF j + 1 = num
         THEN phase' = "remove" /\ j' = 0 /\ realindex' = 0
         ELSE phase' = "query" /\ j' = j + 1 /\ realindex' = realindex
  BY DEF Search
<1>1. /\ num \in Nat /\ j \in 0 .. num - 1 /\ realindex \in RealIndexes
      /\ realindex \in 0 .. num - 1 \/ (realindex \in Int /\ realindex < 0 /\ Lossy)
  BY SomeQueries, DrawnPosition DEF OramInv, OramTypeOK
<1> HIDE DEF num
<1>a. phase # "idle" /\ phase' # "idle"
  BY <1>0
<1>2. CASE j < realindex
  <2>1. j + 1 # num /\ j <= realindex /\ j + 1 <= realindex /\ j # realindex
    BY <1>1, <1>2
  <2>2. Waits /\ Waits'
    BY <1>0, <2>1 DEF Waits
  <2>3. stage = "asked" /\ stage' = "asked"
    BY <2>2, StageIs, StageNext
  <2> QED BY <1>0, <2>1, <2>3
<1>3. CASE j = realindex
  <2>1. j <= realindex /\ ~(j + 1 <= realindex) /\ ~(realindex < 0)
    BY <1>1, <1>3
  <2>2. Waits /\ ~Waits'
    BY <1>0, <2>1 DEF Waits
  <2>3. stage = "asked" /\ stage' = "done"
    BY <1>a, <2>2, StageIs, StageNext
  <2> QED BY <1>0, <1>3, <2>3
<1>4. CASE j > realindex /\ realindex \in 0 .. num - 1
  <2>1. ~(j <= realindex) /\ ~(j + 1 <= realindex) /\ j # realindex /\ ~(realindex < 0)
    BY <1>1, <1>4
  <2>2. ~Waits /\ ~Waits'
    BY <1>0, <2>1 DEF Waits
  <2>3. stage = "done" /\ stage' = "done"
    BY <1>a, <2>2, StageIs, StageNext
  <2> QED BY <1>0, <2>1, <2>3
<1>5. CASE realindex < 0 /\ Lossy
  <2>1. j # realindex
    BY <1>1, <1>5
  <2>2. Waits /\ stage = "asked"
    BY <1>0, <1>5, StageIs DEF Waits
  <2>3. CASE phase' = "remove"
    <3>1. ~Waits' /\ stage' = "done"
      BY <1>a, <2>3, StageNext DEF Waits
    <3> QED BY <1>0, <1>5, <2>1, <2>2, <3>1
  <2>4. CASE phase' = "query" /\ realindex' = realindex
    <3>1. Waits' /\ stage' = "asked"
      BY <1>5, <2>4, StageNext DEF Waits
    <3> QED BY <1>0, <2>1, <2>2, <3>1
  <2> QED BY <1>0, <2>3, <2>4
<1>6. j < realindex \/ j = realindex \/ j > realindex
  BY <1>1
<1> QED BY <1>1, <1>2, <1>3, <1>4, <1>5, <1>6

\* During the queries every index is in one of the trees.
LEMMA AllInTrees == OramInv /\ phase = "query" => \A q \in Index : \E t \in Trees : q \in InTree(t)
<1> SUFFICES ASSUME OramInv, phase = "query", NEW q \in Index PROVE \E t \in Trees : q \in InTree(t)
  OBVIOUS
<1>1. waiting = {} /\ waiting \cup InTree(0) \cup InTree(1) = Index
  BY DEF OramInv, OnePlace
<1> QED BY <1>1 DEF Trees

\* A query of a get is a read of the array, the loss of it, or no step of it.
LEMMA GetArray ==
    ASSUME OramInv,
           NEW q \in Index, NEW coins \in [Trees -> BOOLEAN], GetQuery(q, coins)
    PROVE  [Array!ArrayNext]_Array!arrayVars
<1> DEFINE path == [t \in Trees |-> Walk(heap, heap.root[t], q, coins[t])]
<1>1. /\ req.kind = "get" /\ Search(q, path) /\ data' = data
      /\ ans' = IF j = realindex /\ \E t \in Trees : q \in ToSet(path[t]) THEN data[q] ELSE ans
  BY DEF GetQuery
<1>2. \E t \in Trees : q \in ToSet(path[t])
  <2>1. phase = "query"
    BY <1>1 DEF Search
  <2>2. PICK t \in Trees : q \in InTree(t)
    BY <2>1, AllInTrees
  <2>3. q \in ToSet(path[t])
    BY <2>2, QueryWalks
  <2> QED BY <2>3
<1> HIDE DEF path
<1>3. /\ req' = req
      /\ j # realindex =>
                (stage' = stage \/ (Lossy /\ stage = "asked" /\ stage' = "done"))
      /\ j = realindex => q = req.index /\ stage = "asked" /\ stage' = "done"
  <2> HIDE DEF num, RealIndexes
  <2> QED BY <1>1, SearchArray
<1>4. CASE j = realindex
  <2>1. ans' = data[req.index]
    BY <1>1, <1>2, <1>3, <1>4
  <2>2. Array!Read
    BY <1>1, <1>3, <1>4, <2>1 DEF Array!Read
  <2> QED BY <2>2 DEF Array!ArrayNext
<1>5. CASE j # realindex /\ stage' = stage
  BY <1>1, <1>3, <1>5 DEF Array!arrayVars
<1>6. CASE j # realindex /\ Lossy /\ stage = "asked" /\ stage' = "done"
  <2>1. Array!Miss
    BY <1>1, <1>3, <1>6 DEF Array!Miss
  <2> QED BY <2>1 DEF Array!ArrayNext
<1> QED BY <1>3, <1>4, <1>5, <1>6

\* A query of a set is a write of the array, the loss of it, or no step of it.
LEMMA SetArray ==
    ASSUME OramInv,
           NEW q \in Index, NEW coins \in [Trees -> BOOLEAN], SetQuery(q, coins)
    PROVE  [Array!ArrayNext]_Array!arrayVars
<1> DEFINE path == [t \in Trees |-> Walk(heap, heap.root[t], q, coins[t])]
<1>1. req.kind = "set" /\ Search(q, path) /\ data' = Stored(q, path, j = realindex) /\ ans' = ans
  BY DEF SetQuery
<1>2. q \in ToSet(path[0]) \cup ToSet(path[1])
  <2>1. phase = "query"
    BY <1>1 DEF Search
  <2>2. PICK t \in Trees : q \in InTree(t)
    BY <2>1, AllInTrees
  <2>3. q \in ToSet(path[t])
    BY <2>2, QueryWalks
  <2> HIDE DEF path
  <2> QED BY <2>3 DEF Trees
<1> HIDE DEF path
<1>3. /\ req' = req
      /\ j # realindex =>
                (stage' = stage \/ (Lossy /\ stage = "asked" /\ stage' = "done"))
      /\ j = realindex => q = req.index /\ stage = "asked" /\ stage' = "done"
  <2> HIDE DEF num, RealIndexes
  <2> QED BY <1>1, SearchArray
<1>d. data \in [Index -> Value]
  BY DEF OramInv, OramTypeOK
<1>4. CASE j = realindex
  <2>1. data' = [i \in Index |-> IF i = q THEN req.value ELSE data[i]]
    BY <1>1, <1>2, <1>4 DEF Stored
  <2>2. data' = [data EXCEPT ![req.index] = req.value]
    BY <2>1, <1>3, <1>4, <1>d
  <2>3. Array!Write
    BY <1>1, <1>3, <1>4, <2>2 DEF Array!Write
  <2> QED BY <2>3 DEF Array!ArrayNext
<1>5. CASE j # realindex
  <2>1. data' = data
    BY <1>1, <1>5, <1>d DEF Stored
  <2>2. CASE stage' = stage
    BY <1>1, <1>3, <2>1, <2>2 DEF Array!arrayVars
  <2>3. CASE Lossy /\ stage = "asked" /\ stage' = "done"
    <3>1. Array!Miss
      BY <1>1, <1>3, <2>1, <2>3 DEF Array!Miss
    <3> QED BY <3>1 DEF Array!ArrayNext
  <2> QED BY <1>3, <1>5, <2>2, <2>3
<1> QED BY <1>4, <1>5

\* Every step of the memory is one of the array, or none.
LEMMA StepArray ==
    ASSUME OramInv, [Next]_vars
    PROVE  [Array!ArrayNext]_Array!arrayVars
<1>1. ASSUME NEW r \in Gets \cup Sets, Begin(r) PROVE [Array!ArrayNext]_Array!arrayVars
  <2>1. phase = "idle" /\ phase' = "query" /\ req' = r /\ j' = 0 /\ realindex' \in RealIndexes /\ ans' = NotPresent /\ data' = data
    BY <1>1 DEF Begin
  <2>2. Waits'
    <3>1. PICK d \in RealIndexes : d = realindex'
      BY <2>1
    <3>2. num \in Nat /\ (d \in 0 .. num - 1 \/ d < 0)
      BY SomeQueries, DrawnPosition
    <3> HIDE DEF num
    <3>3. 0 <= d \/ d < 0
      BY <3>2
    <3> QED BY <2>1, <3>1, <3>3 DEF Waits
  <2>3. stage = "idle" /\ stage' = "asked"
    BY <2>1, <2>2, StageIs, StageNext
  <2>4. r \in Array!Requests
    BY <1>1 DEF Array!Requests, Array!Gets, Array!Sets, Gets, Sets
  <2>5. Array!Ask(r)
    BY <2>1, <2>3 DEF Array!Ask
  <2> QED BY <2>4, <2>5 DEF Array!ArrayNext
<1>2. ASSUME NEW q \in Index, NEW coins \in [Trees -> BOOLEAN], GetQuery(q, coins)
      PROVE [Array!ArrayNext]_Array!arrayVars
  BY <1>2, GetArray
<1>3. ASSUME NEW q \in Index, NEW coins \in [Trees -> BOOLEAN], SetQuery(q, coins)
      PROVE [Array!ArrayNext]_Array!arrayVars
  BY <1>3, SetArray
<1>4. ASSUME NEW t \in Trees, TakeOut(t) PROVE [Array!ArrayNext]_Array!arrayVars
  <2>1. phase = "remove" /\ phase' = "remove" /\ UNCHANGED <<data, req, ans>>
    BY <1>4 DEF TakeOut
  <2>2. stage = "done" /\ stage' = "done"
    BY <2>1, StageIs, StageNext DEF Waits
  <2> QED BY <2>1, <2>2 DEF Array!arrayVars
<1>5. CASE Renew
  <2>1. phase = "remove" /\ phase' = "put" /\ UNCHANGED <<data, req, ans>>
    BY <1>5 DEF Renew
  <2>2. stage = "done" /\ stage' = "done"
    BY <2>1, StageIs, StageNext DEF Waits
  <2> QED BY <2>1, <2>2 DEF Array!arrayVars
<1>6. ASSUME NEW i \in Index, NEW t \in Trees, Put(i, t) PROVE [Array!ArrayNext]_Array!arrayVars
  <2>1. phase = "put" /\ phase' \in {"put", "done"} /\ UNCHANGED <<data, req, ans>>
    BY <1>6 DEF Put
  <2>2. stage = "done" /\ stage' = "done"
    BY <2>1, StageIs, StageNext DEF Waits
  <2> QED BY <2>1, <2>2 DEF Array!arrayVars
<1>7. CASE Return
  <2>1. phase = "done" /\ phase' = "idle" /\ UNCHANGED <<data, req, ans>>
    BY <1>7 DEF Return
  <2>2. stage = "done" /\ stage' = "idle"
    BY <2>1, StageIs, StageNext DEF Waits
  <2>3. Array!AnswerRequest
    BY <2>1, <2>2 DEF Array!AnswerRequest
  <2> QED BY <2>3 DEF Array!ArrayNext
<1>8. CASE UNCHANGED vars
  <2>1. UNCHANGED <<data, req, ans, phase, j, realindex>>
    BY <1>8 DEF vars
  <2>2. stage' = stage
    BY <2>1 DEF stage
  <2> QED BY <2>1, <2>2 DEF Array!arrayVars
<1> QED BY <1>1, <1>2, <1>3, <1>4, <1>5, <1>6, <1>7, <1>8 DEF Next

\* The constructor's memory is an array of zeros.
LEMMA InitArray == Init => Array!ArrayInit
<1> SUFFICES ASSUME Init PROVE Array!ArrayInit
  OBVIOUS
<1>1. PICK order \in SetToSeqs(Index) : InitWith(order)
  BY DEF Init
<1>2. /\ data = [i \in Index |-> Zero] /\ phase = "idle" /\ ans = NotPresent
      /\ req = [kind |-> "get", index |-> 0, value |-> Zero]
  BY <1>1 DEF InitWith
<1>3. stage = "idle"
  BY <1>2, StageIs
<1>4. req \in Array!Gets
  <2>1. 0 \in Index
    BY SizeAssumption DEF Index
  <2> QED BY <1>2, <2>1 DEF Array!Gets
<1> QED BY <1>2, <1>3, <1>4 DEF Array!ArrayInit

\* Where the number of queries, which is the logarithm of the number of cells, is
\* one, two or four, every draw is a position of the loop: nothing is lost.
LEMMA RealQueries ==
    ASSUME num \in {1, 2, 4}
    PROVE  ~Lossy
<1> DEFINE q == Two[28]
<1>1. Two[30] = 4 * q /\ q \in Nat
  <2>1. 28 \in Nat /\ 29 \in Nat /\ 28 + 1 = 29 /\ 29 + 1 = 30
    OBVIOUS
  <2>2. Two[29] = 2 * Two[28] /\ Two[30] = 2 * Two[29] /\ Two[28] \in Nat
    BY <2>1, TwoRecurs
  <2> QED BY <2>2
<1> HIDE DEF q, num
<1>2. (4 * q) % num = 0
  <2>1. CASE num = 1
    BY <1>1, <2>1
  <2>2. CASE num = 2
    BY <1>1, <2>2
  <2>3. CASE num = 4
    BY <1>1, <2>3
  <2> QED BY <2>1, <2>2, <2>3
<1>3. -((Two[30] % num) * 2 % num) = 0
  <2>1. (0 * 2) % num = 0 /\ 0 * 2 = 0
    <3>1. \A n \in {1, 2, 4} : (0 * 2) % n = 0
      OBVIOUS
    <3> QED BY <3>1
  <2> QED BY <1>1, <1>2, <2>1
<1>4. 0 \in 0 .. num - 1
  OBVIOUS
<1> QED BY <1>3, <1>4 DEF RealIndexes, Lossy

\* A greater power is no less.
LEMMA TwoGrows == ASSUME NEW a \in Nat, NEW b \in Nat, a <= b PROVE Two[a] <= Two[b]
<1> DEFINE d == b - a
<1>1. d \in Nat /\ a + d = b
    OBVIOUS
<1> HIDE DEF d
<1>2. Two[b] = Two[a] * Two[d]
    BY <1>1, TwoAdds
<1>3. Two[a] \in Nat /\ Two[d] \in Nat /\ Two[d] > 0
    BY <1>1, TwoPositive
<1> DEFINE p == Two[a]  q == Two[d]
<1>4. p <= p * q
    <2>1. p \in Nat /\ q \in Nat /\ q > 0
        BY <1>3
    <2> HIDE DEF p, q
    <2>2. q = 1 + (q - 1) /\ q - 1 \in Nat
        BY <2>1
    <2>3. p * (q - 1) \in Nat /\ p * q = p + p * (q - 1)
        BY <2>1, <2>2
    <2> QED BY <2>1, <2>3
<1> QED BY <1>2, <1>4

\* The powers of two that the program's database needs: Two[9] and Two[10] are on
\* both sides of its 900 cells, and six doublings keep the remainder by nine.
LEMMA PowersByHand ==
    /\ Two[9] = 512 /\ Two[10] = 1024
    /\ Two[30] = 1073741824
<1>1. \A n \in Nat : Two[n + 1] = 2 * Two[n]
    BY TwoRecurs
<1>2. Two[3] = 8
    <2>1. Two[0] = 1 /\ Two[0 + 1] = 2 * Two[0] /\ Two[1 + 1] = 2 * Two[1] /\ Two[2 + 1] = 2 * Two[2]
        BY TwoRecurs
    <2> QED BY <2>1
<1>3. \A n \in Nat : Two[n + 3] = 8 * Two[n] /\ Two[n] \in Nat
    <2> SUFFICES ASSUME NEW n \in Nat PROVE Two[n + 3] = 8 * Two[n] /\ Two[n] \in Nat
        OBVIOUS
    <2>1. Two[n] \in Nat /\ Two[n + 1] = 2 * Two[n] /\ Two[(n + 1) + 1] = 2 * Two[n + 1]
          /\ Two[(n + 2) + 1] = 2 * Two[n + 2]
        BY <1>1, TwoRecurs
    <2>2. (n + 1) + 1 = n + 2 /\ (n + 2) + 1 = n + 3
        OBVIOUS
    <2> QED BY <2>1, <2>2
<1>4. Two[9] = 512 /\ Two[10] = 1024
    <2>1. Two[3 + 3] = 8 * Two[3] /\ Two[6 + 3] = 8 * Two[6] /\ Two[9 + 1] = 2 * Two[9]
        BY <1>1, <1>3
    <2> QED BY <1>2, <2>1
<1>5. Two[30] = 1073741824
    <2>1. /\ Two[9 + 3] = 8 * Two[9] /\ Two[12 + 3] = 8 * Two[12] /\ Two[15 + 3] = 8 * Two[15]
          /\ Two[18 + 3] = 8 * Two[18] /\ Two[21 + 3] = 8 * Two[21] /\ Two[24 + 3] = 8 * Two[24]
          /\ Two[27 + 3] = 8 * Two[27]
        BY <1>3
    <2> QED BY <1>4, <2>1
<1> QED BY <1>4, <1>5

\* At the 900 cells of the database program there are nine queries a request, and
\* one draw, that of the least int, is the position -2: the memory is one that
\* loses requests.
THEOREM ProgramLoses ==
    ASSUME Size = 900
    PROVE  num = 9 /\ RealIndexes = (0 .. 8) \cup {-2} /\ Lossy
<1>1. num = 9
  <2>1. \A n \in 0 .. Size : Two[n] <= Size /\ Size < Two[n + 1] => n = 9
    <3> SUFFICES ASSUME NEW n \in Nat, Two[n] <= 900, 900 < Two[n + 1] PROVE n = 9
      OBVIOUS
    <3>1. CASE n < 9
      <4>1. n + 1 \in Nat /\ n + 1 <= 9
        BY <3>1
      <4>2. Two[n + 1] <= Two[9]
        BY <4>1, TwoGrows
      <4> QED BY <4>1, <4>2, PowersByHand, TwoRecurs
    <3>2. CASE n > 9
      <4>1. Two[10] <= Two[n]
        BY <3>2, TwoGrows
      <4> QED BY <4>1, PowersByHand, TwoRecurs
    <3> QED BY <3>1, <3>2
  <2>2. 9 \in 0 .. Size /\ Two[9] <= Size /\ Size < Two[9 + 1]
    BY PowersByHand
  <2> QED BY <2>1, <2>2 DEF num
<1>2. -((Two[30] % 9) * 2 % 9) = -2
  BY PowersByHand
<1>3. RealIndexes = (0 .. 8) \cup {-2}
  BY <1>1, <1>2 DEF RealIndexes
<1>4. -2 \notin 0 .. num - 1
  BY <1>1
<1> QED BY <1>1, <1>3, <1>4 DEF Lossy

\* For every number of cells the two trees are an array: a get answers what was
\* set last, a set changes its cell and no other.  Where a draw can miss the loop
\* (Lossy), a request may instead do neither: the get answers NOTPRESENT and the
\* set leaves its cell, and that is all that can go wrong.
THEOREM OramIsArray == Spec => IsArray
<1>1. OramInv /\ [Next]_vars => [Array!ArrayNext]_Array!arrayVars
  BY StepArray
<1> QED BY <1>1, InitArray, OramAlways, PTL DEF Spec, IsArray, Array!ArraySpec
=============================================================================
