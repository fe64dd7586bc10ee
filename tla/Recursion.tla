----------------------------- MODULE Recursion -----------------------------
(***************************************************************************)
(* Induction and recursion over the natural numbers, stated of sets and of *)
(* functions, so that they can be used where a definition is a recursive   *)
(* function: every set of naturals that is not empty has a least element;  *)
(* a set that holds 0 and the successors of its elements holds them all;   *)
(* and a recursion over the naturals, or over those up to a number, has a  *)
(* function for a solution.                                                *)
(***************************************************************************)
EXTENDS Bits, WellFoundedInduction, TLAPS

\* A set of naturals has a least element.
LEMMA LeastOf ==
    ASSUME NEW S \in SUBSET Nat, S # {}
    PROVE  \E n \in S : \A m \in S : n <= m
<1>1. PICK n \in S : \A m \in S : ~ (<<m, n>> \in OpToRel(<, Nat))
    BY NatLessThanWellFounded, WFMin, Zenon
<1>2. ASSUME NEW m \in S PROVE n <= m
    <2>1. m \in Nat /\ n \in Nat
        OBVIOUS
    <2>2. <<m, n>> \in Nat \X Nat
        BY <2>1
    <2>3. ~(m < n)
        BY <1>1, <2>2, Zenon DEF OpToRel
    <2> QED BY <2>1, <2>3
<1> QED BY <1>2

\* Induction, the property being a set.
LEMMA NatInductive ==
    ASSUME NEW S, 0 \in S, \A n \in Nat : n \in S => n + 1 \in S
    PROVE  Nat \subseteq S
<1> DEFINE R == {n \in Nat : n \notin S}
<1>1. SUFFICES ASSUME R # {} PROVE FALSE
    OBVIOUS
<1>2. PICK n \in R : \A m \in R : n <= m
    BY <1>1, LeastOf
<1>3. n # 0 /\ n - 1 \in Nat /\ n - 1 \in S
    BY <1>2
<1> QED BY <1>2, <1>3

\* The first n + 1 values of a recursion.
Begins(g, n, first, next) ==
    g[0] = first /\ \A k \in 0 .. n - 1 : g[k + 1] = next[<<k, g[k]>>]

\* There are as many first values as one likes.
LEMMA BeginsExist ==
    ASSUME NEW V, NEW first \in V, NEW next \in [Nat \X V -> V], NEW n \in Nat
    PROVE  \E g \in [0 .. n -> V] : Begins(g, n, first, next)
<1> DEFINE S == {m \in Nat : \E g \in [0 .. m -> V] : Begins(g, m, first, next)}
<1>1. 0 \in S
    <2>1. [k \in 0 .. 0 |-> first] \in [0 .. 0 -> V] /\ Begins([k \in 0 .. 0 |-> first], 0, first, next)
        BY DEF Begins
    <2> QED BY <2>1
<1>2. ASSUME NEW m \in Nat, m \in S PROVE m + 1 \in S
    <2>1. PICK g \in [0 .. m -> V] : Begins(g, m, first, next)
        BY <1>2
    <2> DEFINE h == [k \in 0 .. m + 1 |-> IF k = m + 1 THEN next[<<m, g[m]>>] ELSE g[k]]
    <2>2. h \in [0 .. m + 1 -> V]
        OBVIOUS
    <2>3. h[0] = first
        BY <2>1 DEF Begins
    <2>4. ASSUME NEW k \in 0 .. m PROVE h[k + 1] = next[<<k, h[k]>>]
        <3>1. h[k] = g[k]
            OBVIOUS
        <3>2. CASE k = m
            <4>1. h[m + 1] = next[<<m, g[m]>>]
                OBVIOUS
            <4> HIDE DEF h
            <4> QED BY <3>1, <3>2, <4>1
        <3>3. CASE k # m
            <4>1. k \in 0 .. m - 1 /\ k + 1 \in 0 .. m /\ k + 1 # m + 1
                BY <3>3
            <4>2. h[k + 1] = g[k + 1]
                BY <4>1
            <4>3. g[k + 1] = next[<<k, g[k]>>]
                BY <2>1, <4>1 DEF Begins
            <4> HIDE DEF h
            <4> QED BY <3>1, <4>2, <4>3
        <3> QED BY <3>2, <3>3
    <2> HIDE DEF h
    <2>5. Begins(h, m + 1, first, next)
        BY <2>3, <2>4 DEF Begins
    <2> QED BY <2>2, <2>5
<1> HIDE DEF S
<1>3. Nat \subseteq S
    BY <1>1, <1>2, NatInductive
<1> QED BY <1>3 DEF S

\* And they are the same every time.
LEMMA BeginsAgree ==
    ASSUME NEW first, NEW next, NEW m \in Nat, NEW n \in Nat, m <= n,
           NEW g, Begins(g, m, first, next), NEW h, Begins(h, n, first, next)
    PROVE  \A k \in 0 .. m : g[k] = h[k]
<1> DEFINE S == {k \in Nat : k <= m => g[k] = h[k]}
<1>1. 0 \in S
    BY DEF Begins
<1>2. ASSUME NEW k \in Nat, k \in S PROVE k + 1 \in S
    <2>1. SUFFICES ASSUME k + 1 <= m PROVE g[k + 1] = h[k + 1]
        OBVIOUS
    <2>2. k \in 0 .. m - 1 /\ k \in 0 .. n - 1 /\ g[k] = h[k]
        BY <1>2, <2>1
    <2>3. g[k + 1] = next[<<k, g[k]>>] /\ h[k + 1] = next[<<k, h[k]>>]
        BY <2>2 DEF Begins
    <2> QED BY <2>2, <2>3
<1> HIDE DEF S
<1>3. Nat \subseteq S
    BY <1>1, <1>2, NatInductive
<1> QED BY <1>3 DEF S

\* A function that starts with first, and goes on by next.
Recurs(f, first, next) ==
    f[0] = first /\ \A n \in Nat : f[n + 1] = next[<<n, f[n]>>]

\* A recursion over the naturals has a solution.
LEMMA NatRecursion ==
    ASSUME NEW V, NEW first \in V, NEW next \in [Nat \X V -> V]
    PROVE  \E f \in [Nat -> V] : Recurs(f, first, next)
<1> DEFINE g(n) == CHOOSE g \in [0 .. n -> V] : Begins(g, n, first, next)
           f == [n \in Nat |-> g(n)[n]]
<1>1. ASSUME NEW n \in Nat
      PROVE  g(n) \in [0 .. n -> V] /\ Begins(g(n), n, first, next)
    BY BeginsExist
<1> HIDE DEF g
<1>2. f \in [Nat -> V]
    BY <1>1
<1>3. f[0] = first
    BY <1>1 DEF Begins
<1>4. ASSUME NEW n \in Nat PROVE f[n + 1] = next[<<n, f[n]>>]
    <2>1. Begins(g(n), n, first, next) /\ Begins(g(n + 1), n + 1, first, next)
        BY <1>1
    <2>2. g(n)[n] = g(n + 1)[n]
        <3>1. n \in Nat /\ n + 1 \in Nat /\ n <= n + 1 /\ n \in 0 .. n
            OBVIOUS
        <3> QED BY <2>1, <3>1, BeginsAgree
    <2>3. g(n + 1)[n + 1] = next[<<n, g(n + 1)[n]>>]
        BY <2>1 DEF Begins
    <2> QED BY <2>2, <2>3
<1> HIDE DEF f
<1>5. Recurs(f, first, next)
    BY <1>3, <1>4 DEF Recurs
<1> QED BY <1>2, <1>5

\* What body makes of a function of the numbers up to n has at f a value that
\* depends on those for smaller numbers only.
LooksBelow(body, n, W) ==
    /\ body \in [[0 .. n -> W] -> [0 .. n -> W]]
    /\ \A F, G \in [0 .. n -> W] : \A f \in 0 .. n :
          (\A g \in 0 .. f - 1 : F[g] = G[g]) => body[F][f] = body[G][f]

\* A recursion whose value for f depends on the values for smaller numbers only
\* has a solution.
LEMMA SolutionBelow ==
    ASSUME NEW n \in Nat, NEW W, NEW w \in W, NEW body, LooksBelow(body, n, W)
    PROVE  \E F \in [0 .. n -> W] : F = body[F]
<1> DEFINE V == [0 .. n -> W]
           first == [f \in 0 .. n |-> w]
           next == [x \in Nat \X V |-> body[x[2]]]
<1>0. /\ body \in [V -> V]
      /\ \A F, G \in V : \A f \in 0 .. n : (\A g \in 0 .. f - 1 : F[g] = G[g]) => body[F][f] = body[G][f]
    BY DEF LooksBelow
<1>1. first \in V /\ next \in [Nat \X V -> V]
    BY <1>0
<1>r. PICK h \in [Nat -> V] : Recurs(h, first, next)
    <2> HIDE DEF V, first, next
    <2> QED BY <1>1, NatRecursion
<1>2. ASSUME NEW k \in Nat PROVE h[k] \in V /\ h[k + 1] = body[h[k]]
    <2>1. h[k] \in V
        OBVIOUS
    <2> HIDE DEF V
    <2>2. next[<<k, h[k]>>] = body[h[k]]
        BY <2>1
    <2> QED BY <1>r, <2>1, <2>2 DEF Recurs
<1> HIDE DEF first, next
\* After k rounds the values below k stay.
<1> DEFINE S == {k \in Nat : \A f \in 0 .. n : f < k => h[k + 1][f] = h[k][f]}
<1>3. 0 \in S
    OBVIOUS
<1>4. ASSUME NEW k \in Nat, k \in S PROVE k + 1 \in S
    <2>1. ASSUME NEW f \in 0 .. n, f < k + 1
          PROVE  h[(k + 1) + 1][f] = h[k + 1][f]
        <3>1. \A g \in 0 .. f - 1 : h[k + 1][g] = h[k][g]
            BY <1>4, <2>1
        <3>0. k + 1 \in Nat
            OBVIOUS
        <3>2. h[k] \in V /\ h[k + 1] \in V
            BY <1>2, <3>0
        <3>3. body[h[k + 1]][f] = body[h[k]][f]
            BY <1>0, <3>1, <3>2
        <3>4. h[k + 1] = body[h[k]] /\ h[(k + 1) + 1] = body[h[k + 1]]
            BY <1>2, <3>0
        <3> QED BY <3>3, <3>4
    <2> QED BY <2>1
<1> HIDE DEF S
<1>5. Nat \subseteq S
    BY <1>3, <1>4, NatInductive
<1> DEFINE F == h[n + 1]
<1>6. F \in V /\ h[(n + 1) + 1] = body[F]
    <2>1. n + 1 \in Nat
        OBVIOUS
    <2> QED BY <1>2, <2>1
<1>7. body[F] \in V
    BY <1>0, <1>6
<1>8. ASSUME NEW f \in 0 .. n PROVE h[(n + 1) + 1][f] = F[f]
    BY <1>5 DEF S
<1> HIDE DEF F
<1>9. F = body[F]
    BY <1>6, <1>7, <1>8
<1> QED BY <1>6, <1>9

-----------------------------------------------------------------------------
(* The bits of a number.                                                   *)

\* Doubling, as a recursion.
Doubling == [x \in Nat \X Nat |-> 2 * x[2]]

\* The powers of two are the recursion they are written as.
LEMMA TwoRecurs ==
    /\ Two[0] = 1
    /\ \A n \in Nat : Two[n + 1] = 2 * Two[n]
    /\ \A n \in Nat : Two[n] \in Nat
<1> DEFINE body(g, n) == IF n = 0 THEN 1 ELSE 2 * g[n - 1]
<1>1. Doubling \in [Nat \X Nat -> Nat]
    BY DEF Doubling
<1>2. PICK f \in [Nat -> Nat] : Recurs(f, 1, Doubling)
    BY <1>1, NatRecursion
<1>3. f[0] = 1 /\ \A n \in Nat : f[n + 1] = Doubling[<<n, f[n]>>]
    BY <1>2 DEF Recurs
<1>4. \A n \in Nat : f[n + 1] = 2 * f[n]
    BY <1>3 DEF Doubling
<1>5. f = [n \in Nat |-> body(f, n)]
    <2>1. ASSUME NEW n \in Nat PROVE f[n] = body(f, n)
        <3>1. CASE n = 0
            BY <1>3, <3>1
        <3>2. CASE n # 0
            <4>1. n - 1 \in Nat /\ (n - 1) + 1 = n
                BY <3>2
            <4>2. f[(n - 1) + 1] = 2 * f[n - 1]
                BY <1>4, <4>1
            <4> QED BY <3>2, <4>1, <4>2
        <3> QED BY <3>1, <3>2
    <2> HIDE DEF body
    <2> QED BY <2>1
<1>6. Two = [n \in Nat |-> body(Two, n)]
    <2>1. Two = CHOOSE m : m = [n \in Nat |-> body(m, n)]
        BY DEF Two
    <2> HIDE DEF body
    <2> QED BY <1>5, <2>1
<1> HIDE DEF body
<1>7. \A n \in Nat : Two[n] = body(Two, n)
    BY <1>6
<1>8. Two[0] = 1
    BY <1>7 DEF body
<1>9. ASSUME NEW n \in Nat PROVE Two[n + 1] = 2 * Two[n]
    <2>1. n + 1 \in Nat /\ n + 1 # 0 /\ (n + 1) - 1 = n
        OBVIOUS
    <2>2. Two[n + 1] = 2 * Two[(n + 1) - 1]
        BY <1>7, <2>1 DEF body
    <2> QED BY <2>1, <2>2
<1>10. \A n \in Nat : Two[n] \in Nat
    <2> DEFINE S == {n \in Nat : Two[n] \in Nat}
    <2>1. 0 \in S
        BY <1>8
    <2>2. ASSUME NEW n \in Nat, n \in S PROVE n + 1 \in S
        BY <2>2, <1>9
    <2> HIDE DEF S
    <2>3. Nat \subseteq S
        BY <2>1, <2>2, NatInductive
    <2> QED BY <2>3 DEF S
<1> QED BY <1>8, <1>9, <1>10

\* A power of two is positive, and grows with its exponent.
LEMMA TwoPositive == \A n \in Nat : Two[n] \in Nat /\ Two[n] > n
<1> DEFINE S == {n \in Nat : Two[n] > n}
<1>1. 0 \in S
    BY TwoRecurs
<1>2. ASSUME NEW n \in Nat, n \in S PROVE n + 1 \in S
    <2>1. Two[n + 1] = 2 * Two[n] /\ Two[n] \in Nat /\ Two[n] > n
        BY <1>2, TwoRecurs
    <2> QED BY <2>1
<1> HIDE DEF S
<1>3. Nat \subseteq S
    BY <1>1, <1>2, NatInductive
<1> QED BY <1>3, TwoRecurs DEF S

\* Shifting by a and then by b shifts by both.
LEMMA TwoAdds ==
    ASSUME NEW a \in Nat, NEW b \in Nat
    PROVE  Two[a + b] = Two[a] * Two[b]
<1> DEFINE S == {n \in Nat : Two[a + n] = Two[a] * Two[n]}
<1>1. 0 \in S
    BY TwoRecurs
<1>2. ASSUME NEW n \in Nat, n \in S PROVE n + 1 \in S
    <2>1. a + n \in Nat /\ a + (n + 1) = (a + n) + 1
        OBVIOUS
    <2>2. Two[a + (n + 1)] = 2 * Two[a + n] /\ Two[n + 1] = 2 * Two[n]
        BY <2>1, TwoRecurs
    <2>3. Two[a + n] = Two[a] * Two[n] /\ Two[a] \in Nat /\ Two[n] \in Nat
        BY <1>2, TwoRecurs
    <2> DEFINE p == Two[a]  q == Two[n]  r == Two[a + n]
    <2>4. 2 * r = p * (2 * q)
        <3>1. r = p * q /\ p \in Nat /\ q \in Nat
            BY <2>3
        <3> HIDE DEF p, q, r
        <3> QED BY <3>1
    <2> QED BY <2>2, <2>4
<1> HIDE DEF S
<1>3. Nat \subseteq S
    BY <1>1, <1>2, NatInductive
<1> QED BY <1>3 DEF S

\* Quotient and remainder are those of the only way to divide.
LEMMA Divided ==
    ASSUME NEW a \in Nat, NEW b \in Nat, b > 0
    PROVE  /\ a \div b \in Nat /\ a % b \in 0 .. b - 1
           /\ a = (a \div b) * b + (a % b)
OBVIOUS

\* The quotient and the remainder are the only numbers to make a number up.
LEMMA DividedOnly ==
    ASSUME NEW b \in Nat, b > 0, NEW q \in Nat, NEW r \in 0 .. b - 1
    PROVE  /\ (q * b + r) \div b = q
           /\ (q * b + r) % b = r
OBVIOUS

\* Halving a quotient divides by twice as much.
LEMMA HalvedAgain ==
    ASSUME NEW a \in Nat, NEW b \in Nat, b > 0
    PROVE  (a \div b) \div 2 = a \div (2 * b)
<1> DEFINE q == a \div b  r == a % b  p == q \div 2  s == q % 2
<1>1. q \in Nat /\ r \in 0 .. b - 1 /\ a = q * b + r
    BY Divided
<1> HIDE DEF q, r
<1>2. p \in Nat /\ s \in {0, 1} /\ q = p * 2 + s
    BY <1>1
<1> HIDE DEF p, s
<1>3. q * b = p * (2 * b) + s * b
    <2>1. CASE s = 0
        BY <1>2, <2>1
    <2>2. CASE s = 1
        BY <1>2, <2>2
    <2> QED BY <1>2, <2>1, <2>2
<1>4. s * b + r \in 0 .. 2 * b - 1
    <2>1. CASE s = 0
        BY <2>1, <1>1
    <2>2. CASE s = 1
        BY <2>2, <1>1
    <2> QED BY <2>1, <2>2, <1>2
<1>5. a = p * (2 * b) + (s * b + r)
    <2> DEFINE u == q * b  v == p * (2 * b)  w == s * b
    <2>1. a = u + r /\ u = v + w /\ u \in Nat /\ v \in Nat /\ w \in Nat
        BY <1>1, <1>2, <1>3
    <2> HIDE DEF u, v, w
    <2>2. a = v + (w + r)
        BY <2>1, <1>1
    <2> QED BY <2>2 DEF v, w
<1>6. a \div (2 * b) = p
    <2> DEFINE c == 2 * b  t == s * b + r
    <2>1. c \in Nat /\ c > 0 /\ t \in 0 .. c - 1 /\ a = p * c + t
        BY <1>4, <1>5
    <2> HIDE DEF c, t
    <2>2. a \div c = p
        BY <2>1, <1>2, DividedOnly
    <2> QED BY <2>2 DEF c
<1> QED BY <1>6 DEF p, q

\* One shift after another is one shift.
LEMMA ShiftsAdd ==
    ASSUME NEW x \in Nat, NEW a \in Nat, NEW b \in Nat
    PROVE  (x \div Two[a]) \div Two[b] = x \div Two[a + b]
<1> DEFINE y == x \div Two[a]
           S == {n \in Nat : y \div Two[n] = x \div Two[a + n]}
<1>1. Two[a] \in Nat /\ Two[a] > 0
    BY TwoPositive
<1>2. y \in Nat
    BY <1>1, Divided
<1>3. 0 \in S
    <2>1. y \div 1 = y /\ a + 0 = a
        BY <1>2
    <2> QED BY <2>1, TwoRecurs
<1>4. ASSUME NEW n \in Nat, n \in S PROVE n + 1 \in S
    <2>1. /\ Two[n] \in Nat /\ Two[n] > 0 /\ Two[a + n] \in Nat /\ Two[a + n] > 0
          /\ Two[n + 1] = 2 * Two[n] /\ Two[(a + n) + 1] = 2 * Two[a + n]
          /\ a + (n + 1) = (a + n) + 1
        BY TwoPositive, TwoRecurs
    <2>2. y \div Two[n] = x \div Two[a + n]
        BY <1>4
    <2> HIDE DEF y
    <2>3. (y \div Two[n]) \div 2 = y \div (2 * Two[n])
        BY <1>2, <2>1, HalvedAgain
    <2>4. (x \div Two[a + n]) \div 2 = x \div (2 * Two[a + n])
        BY <2>1, HalvedAgain
    <2> QED BY <2>1, <2>2, <2>3, <2>4
<1> HIDE DEF S
<1>5. Nat \subseteq S
    BY <1>3, <1>4, NatInductive
<1> QED BY <1>5 DEF S

\* The partial sums of the number that bits make.
LEMMA BitsAddUp ==
    ASSUME NEW w \in Nat, NEW bit \in [0 .. w - 1 -> {0, 1}]
    PROVE  \E sum \in [0 .. w -> Nat] :
              /\ sum[0] = 0
              /\ \A n \in 0 .. w - 1 : sum[n + 1] = 2 * sum[n] + bit[w - (n + 1)]
              /\ FromBits(bit, w) = sum[w]
<1> DEFINE at == [n \in Nat |-> IF n \in 0 .. w - 1 THEN bit[w - (n + 1)] ELSE 0]
           next == [x \in Nat \X Nat |-> 2 * x[2] + at[x[1]]]
           body(g, n) == IF n = 0 THEN 0 ELSE 2 * g[n - 1] + bit[w - n]
<1>1. at \in [Nat -> Nat]
    <2>1. ASSUME NEW n \in 0 .. w - 1 PROVE bit[w - (n + 1)] \in Nat
        <3>1. w - (n + 1) \in 0 .. w - 1
            OBVIOUS
        <3> QED BY <3>1
    <2> QED BY <2>1
<1> HIDE DEF at
<1>2. next \in [Nat \X Nat -> Nat]
    <2>1. ASSUME NEW k \in Nat, NEW m \in Nat PROVE 2 * m + at[k] \in Nat
        <3>1. at[k] \in Nat
            BY <1>1
        <3> QED BY <3>1
    <2>2. ASSUME NEW x \in Nat \X Nat PROVE 2 * x[2] + at[x[1]] \in Nat
        <3>1. x[1] \in Nat /\ x[2] \in Nat
            OBVIOUS
        <3> QED BY <2>1, <3>1
    <2> QED BY <2>2
<1>3. PICK f \in [Nat -> Nat] : Recurs(f, 0, next)
    <2> HIDE DEF next
    <2> QED BY <1>2, NatRecursion
<1>4. f[0] = 0 /\ \A n \in Nat : f[n + 1] = next[<<n, f[n]>>]
    BY <1>3 DEF Recurs
<1>5. \A n \in Nat : f[n + 1] = 2 * f[n] + at[n]
    BY <1>4
<1> HIDE DEF next
<1> DEFINE h == [n \in 0 .. w |-> f[n]]
<1>6. ASSUME NEW n \in 0 .. w - 1 PROVE h[n + 1] = 2 * h[n] + bit[w - (n + 1)]
    BY <1>5 DEF at
<1>7. h = [n \in 0 .. w |-> body(h, n)]
    <2>1. ASSUME NEW n \in 0 .. w PROVE f[n] = body(h, n)
        <3>1. CASE n = 0
            BY <1>4, <3>1
        <3>2. CASE n # 0
            <4>1. n - 1 \in 0 .. w - 1 /\ (n - 1) + 1 = n /\ h[n] = f[n]
                BY <3>2
            <4> HIDE DEF h
            <4>2. h[n] = 2 * h[n - 1] + bit[w - n]
                BY <1>6, <4>1
            <4> QED BY <3>2, <4>1, <4>2
        <3> QED BY <3>1, <3>2
    <2> HIDE DEF body
    <2> QED BY <2>1
<1> DEFINE sum == CHOOSE m : m = [n \in 0 .. w |-> body(m, n)]
<1>8. FromBits(bit, w) = sum[w]
    BY DEF FromBits
<1>9. sum = [n \in 0 .. w |-> body(sum, n)]
    <2> HIDE DEF h, body
    <2> QED BY <1>7
<1> HIDE DEF sum, h
<1>10. \A n \in 0 .. w : sum[n] = body(sum, n)
    <2> HIDE DEF body
    <2> QED BY <1>9
<1>11. sum[0] = 0
    BY <1>10
<1>12. ASSUME NEW n \in 0 .. w - 1 PROVE sum[n + 1] = 2 * sum[n] + bit[w - (n + 1)]
    <2>1. n + 1 \in 0 .. w /\ n + 1 # 0 /\ (n + 1) - 1 = n
        OBVIOUS
    <2>2. sum[n + 1] = 2 * sum[(n + 1) - 1] + bit[w - (n + 1)]
        BY <1>10, <2>1
    <2> QED BY <2>1, <2>2
<1>13. sum \in [0 .. w -> Nat]
    <2> DEFINE S == {n \in Nat : n <= w => sum[n] \in Nat}
    <2>1. 0 \in S
        BY <1>11
    <2>2. ASSUME NEW n \in Nat, n \in S PROVE n + 1 \in S
        <3>1. SUFFICES ASSUME n + 1 <= w PROVE sum[n + 1] \in Nat
            OBVIOUS
        <3>2. n \in 0 .. w - 1 /\ sum[n] \in Nat
            BY <2>2, <3>1
        <3>3. at[n] \in Nat
            BY <1>1
        <3>4. at[n] = bit[w - (n + 1)]
            BY <3>2 DEF at
        <3>5. sum[n + 1] = 2 * sum[n] + at[n]
            BY <1>12, <3>2, <3>4
        <3> DEFINE s == sum[n]  t == at[n]
        <3>6. s \in Nat /\ t \in Nat /\ sum[n + 1] = 2 * s + t
            BY <3>2, <3>3, <3>5
        <3> HIDE DEF s, t
        <3>7. 2 * s + t \in Nat
            BY <3>6
        <3> QED BY <3>6, <3>7
    <2> HIDE DEF S
    <2>3. Nat \subseteq S
        BY <2>1, <2>2, NatInductive
    <2>4. \A n \in 0 .. w : sum[n] \in Nat
        BY <2>3 DEF S
    <2>5. sum = [n \in 0 .. w |-> sum[n]]
        <3> HIDE DEF body
        <3> QED BY <1>9
    <2> QED BY <2>4, <2>5
<1> QED BY <1>8, <1>11, <1>12, <1>13

\* The lowest bits of a number, taken off one by one, make its remainder.
LEMMA BitsGiveBack ==
    ASSUME NEW w \in Nat, NEW a \in Nat
    PROVE  FromBits([j \in 0 .. w - 1 |-> BitOf(a, j)], w) = a % Two[w]
<1> DEFINE bit == [j \in 0 .. w - 1 |-> BitOf(a, j)]
<1>1. ASSUME NEW n \in Nat PROVE Two[n] \in Nat /\ Two[n] > 0 /\ a \div Two[n] \in Nat
    <2>1. Two[n] \in Nat /\ Two[n] > 0
        BY TwoPositive
    <2> QED BY <2>1, Divided
<1>2. bit \in [0 .. w - 1 -> {0, 1}]
    <2>1. ASSUME NEW j \in 0 .. w - 1 PROVE BitOf(a, j) \in {0, 1}
        <3>1. a \div Two[j] \in Nat
            BY <1>1
        <3> QED BY <3>1 DEF BitOf
    <2> QED BY <2>1
<1>b. \A j \in 0 .. w - 1 : bit[j] = (a \div Two[j]) % 2
    BY DEF BitOf
<1> HIDE DEF bit
<1>3. PICK sum \in [0 .. w -> Nat] :
              /\ sum[0] = 0
              /\ \A n \in 0 .. w - 1 : sum[n + 1] = 2 * sum[n] + bit[w - (n + 1)]
              /\ FromBits(bit, w) = sum[w]
    BY <1>2, BitsAddUp
<1> DEFINE b == a \div Two[w]
           S == {n \in Nat : n <= w => a \div Two[w - n] = b * Two[n] + sum[n]}
<1>4. 0 \in S
    <2>1. b \in Nat /\ w - 0 = w
        BY <1>1
    <2> HIDE DEF b
    <2>2. b * 1 + 0 = b
        BY <2>1
    <2> QED BY <2>1, <2>2, <1>3, TwoRecurs DEF b
<1>5. ASSUME NEW n \in Nat, n \in S PROVE n + 1 \in S
    <2>1. SUFFICES ASSUME n + 1 <= w
                   PROVE  a \div Two[w - (n + 1)] = b * Two[n + 1] + sum[n + 1]
        OBVIOUS
    <2> DEFINE k == w - (n + 1)  q == a \div Two[k]
    <2>2. k \in Nat /\ k \in 0 .. w - 1 /\ k + 1 = w - n /\ n \in 0 .. w - 1 /\ n <= w
        BY <2>1
    <2>3. a \div Two[w - n] = b * Two[n] + sum[n]
        BY <1>5, <2>2
    <2> HIDE DEF k
    <2>4. q \in Nat /\ Two[k] \in Nat /\ Two[k] > 0 /\ Two[k + 1] = 2 * Two[k]
        BY <1>1, <2>2, TwoRecurs
    <2>5. q \div 2 = a \div Two[w - n]
        BY <2>2, <2>4, HalvedAgain
    <2>6. q % 2 = bit[k]
        BY <1>b, <2>2
    <2>7. sum[n + 1] = 2 * sum[n] + bit[k]
        BY <1>3, <2>2 DEF k
    <2>8. Two[n + 1] = 2 * Two[n] /\ Two[n] \in Nat /\ b \in Nat /\ sum[n] \in Nat /\ bit[k] \in {0, 1}
        <3>1. Two[n + 1] = 2 * Two[n] /\ Two[n] \in Nat
            BY TwoRecurs
        <3>2. b \in Nat
            BY <1>1
        <3>3. sum[n] \in Nat
            BY <1>3, <2>2
        <3>4. bit[k] \in {0, 1}
            BY <1>2, <2>2
        <3> QED BY <3>1, <3>2, <3>3, <3>4
    <2> HIDE DEF q, b
    <2>9. q = (q \div 2) * 2 + (q % 2)
        BY <2>4
    <2>10. q = (b * Two[n] + sum[n]) * 2 + bit[k]
        BY <2>3, <2>5, <2>6, <2>9
    <2>11. (b * Two[n] + sum[n]) * 2 + bit[k] = b * (2 * Two[n]) + (2 * sum[n] + bit[k])
        <3> DEFINE t == Two[n]  u == sum[n]  v == bit[k]
        <3>1. b \in Int /\ t \in Int /\ u \in Int /\ v \in Int
            BY <2>8
        <3> HIDE DEF t, u, v
        <3>2. (b * t + u) * 2 + v = b * (2 * t) + (2 * u + v)
            BY <3>1
        <3> QED BY <3>2 DEF t, u, v
    <2> QED BY <2>7, <2>8, <2>10, <2>11 DEF q, k
<1> HIDE DEF S
<1>6. Nat \subseteq S
    BY <1>4, <1>5, NatInductive
<1>7. a \div Two[w - w] = b * Two[w] + sum[w]
    BY <1>6 DEF S
<1>8. a \div Two[w - w] = a
    <2>1. w - w = 0 /\ a \div 1 = a
        OBVIOUS
    <2> QED BY <2>1, TwoRecurs
<1>9. a = b * Two[w] + (a % Two[w]) /\ a % Two[w] \in Nat
    <2>1. Two[w] \in Nat /\ Two[w] > 0
        BY <1>1
    <2>2. a % Two[w] \in 0 .. Two[w] - 1 /\ a = (a \div Two[w]) * Two[w] + (a % Two[w])
        BY <2>1, Divided
    <2> QED BY <2>1, <2>2
<1>10. b * Two[w] \in Nat /\ sum[w] \in Nat
    <2>1. b \in Nat /\ Two[w] \in Nat
        BY <1>1
    <2> HIDE DEF b
    <2>2. \A m, n \in Nat : m * n \in Nat
        OBVIOUS
    <2>3. sum[w] \in Nat
        BY <1>3
    <2> QED BY <2>1, <2>2, <2>3, Zenon
<1> DEFINE u == b * Two[w]  r == a % Two[w]
<1>11. a = u + sum[w] /\ a = u + r /\ u \in Nat /\ r \in Nat /\ sum[w] \in Nat
    BY <1>7, <1>8, <1>9, <1>10
<1> HIDE DEF u, r
<1>12. sum[w] = r
    BY <1>11
<1> QED BY <1>3, <1>12 DEF r, bit
=============================================================================
