-------------------------- MODULE GarbledCct_proofs --------------------------
(***************************************************************************)
(* The garbled circuit is right for every program, every key and every     *)
(* KDF: the evaluator always holds the label of the value the program      *)
(* computes in the clear, and each of its steps is a step of CircuitClear. *)
(***************************************************************************)
EXTENDS GarbledCct, FiniteSetTheorems, SequenceTheorems, TLAPS

----------------------------------------------------------------------------
(* Labels. *)

\* XOR stays inside the labels.
LEMMA XorType == \A a, b \in Label : Xor(a, b) \in Label
  BY DEF Xor, Label

\* XORing twice with the same label cancels out.
LEMMA XorCancel == \A a, b \in Label : Xor(a, Xor(a, b)) = b
  <1> SUFFICES ASSUME NEW a \in Label, NEW b \in Label
               PROVE  Xor(a, Xor(a, b)) = b
    OBVIOUS
  <1>1. \A i \in Bits : (a[i] # (a[i] # b[i])) = b[i]
    <2> SUFFICES ASSUME NEW i \in Bits PROVE (a[i] # (a[i] # b[i])) = b[i]
      OBVIOUS
    <2>1. a[i] \in BOOLEAN /\ b[i] \in BOOLEAN
      BY DEF Label
    <2> QED BY <2>1
  <1> QED BY <1>1 DEF Xor, Label

\* Undoing an XOR on the right.
LEMMA XorUndo == \A a, b \in Label : Xor(Xor(a, b), b) = a
  <1> SUFFICES ASSUME NEW a \in Label, NEW b \in Label
               PROVE  Xor(Xor(a, b), b) = a
    OBVIOUS
  <1>1. \A i \in Bits : ((a[i] # b[i]) # b[i]) = a[i]
    <2> SUFFICES ASSUME NEW i \in Bits PROVE ((a[i] # b[i]) # b[i]) = a[i]
      OBVIOUS
    <2>1. a[i] \in BOOLEAN /\ b[i] \in BOOLEAN
      BY DEF Label
    <2> QED BY <2>1
  <1> QED BY <1>1 DEF Xor, Label

\* An offset on either side of an XOR comes out of it, and two cancel: the
\* identity the free XOR gate rests on.
LEMMA XorOffsets ==
  \A a, b, r \in Label :
     /\ Xor(Xor(a, r), b) = Xor(Xor(a, b), r)
     /\ Xor(a, Xor(b, r)) = Xor(Xor(a, b), r)
     /\ Xor(Xor(a, r), Xor(b, r)) = Xor(a, b)
  <1> SUFFICES ASSUME NEW a \in Label, NEW b \in Label, NEW r \in Label
               PROVE  /\ Xor(Xor(a, r), b) = Xor(Xor(a, b), r)
                      /\ Xor(a, Xor(b, r)) = Xor(Xor(a, b), r)
                      /\ Xor(Xor(a, r), Xor(b, r)) = Xor(a, b)
    OBVIOUS
  <1>1. \A i \in Bits :
           /\ ((a[i] # r[i]) # b[i]) = ((a[i] # b[i]) # r[i])
           /\ (a[i] # (b[i] # r[i])) = ((a[i] # b[i]) # r[i])
           /\ ((a[i] # r[i]) # (b[i] # r[i])) = (a[i] # b[i])
    <2> SUFFICES ASSUME NEW i \in Bits
                 PROVE  /\ ((a[i] # r[i]) # b[i]) = ((a[i] # b[i]) # r[i])
                        /\ (a[i] # (b[i] # r[i])) = ((a[i] # b[i]) # r[i])
                        /\ ((a[i] # r[i]) # (b[i] # r[i])) = (a[i] # b[i])
      OBVIOUS
    <2>1. a[i] \in BOOLEAN /\ b[i] \in BOOLEAN /\ r[i] \in BOOLEAN
      BY DEF Label
    <2> QED BY <2>1
  <1> QED BY <1>1 DEF Xor, Label

\* Both labels of a wire are labels; with the low bit of R set, the low bit
\* tells which one a label is.
LEMMA LabFacts ==
  ASSUME NEW r \in Label, NEW z \in Label, NEW v \in BOOLEAN, r[Low]
  PROVE  /\ Lab(r, z, v) \in Label
         /\ z[Low] \in BOOLEAN
         /\ Lab(r, z, v)[Low] = (z[Low] # v)
         /\ Decode(z, Lab(r, z, v)) = v
         /\ Lab(r, Lab(r, z, v), v) = z
  <1>1. Lab(r, z, v) \in Label
    BY XorType DEF Lab
  <1>2. z[Low] \in BOOLEAN
    BY BitsAssumption DEF Label
  <1>3. Xor(z, r)[Low] = (z[Low] # r[Low])
    BY BitsAssumption DEF Xor
  <1>4. Lab(r, z, v)[Low] = (z[Low] # v)
    <2>1. CASE v
      <3>1. (z[Low] # r[Low]) = (z[Low] # v)
        BY <1>2, <2>1
      <3> QED BY <3>1, <1>3, <2>1 DEF Lab
    <2>2. CASE ~v
      <3>1. (z[Low] # v) = z[Low]
        BY <1>2, <2>2
      <3> QED BY <3>1, <2>2 DEF Lab
    <2> QED BY <2>1, <2>2
  <1>5. Decode(z, Lab(r, z, v)) = v
    <2>1. ((z[Low] # v) # z[Low]) = v
      BY <1>2
    <2> QED BY <2>1, <1>4 DEF Decode
  <1>6. Lab(r, Lab(r, z, v), v) = z
    BY XorUndo DEF Lab
  <1> QED BY <1>1, <1>2, <1>4, <1>5, <1>6

\* The free XOR gate: XORing two labels gives the label of the XORed values.
LEMMA XorGate ==
  ASSUME NEW r \in Label, NEW a \in Label, NEW b \in Label,
         NEW u \in BOOLEAN, NEW v \in BOOLEAN
  PROVE  Xor(Lab(r, a, u), Lab(r, b, v)) = Lab(r, Xor(a, b), u # v)
  <1>1. CASE u /\ v
    BY <1>1, XorOffsets DEF Lab
  <1>2. CASE u /\ ~v
    BY <1>2, XorOffsets DEF Lab
  <1>3. CASE ~u /\ v
    BY <1>3, XorOffsets DEF Lab
  <1>4. CASE ~u /\ ~v
    BY <1>4 DEF Lab
  <1> QED BY <1>1, <1>2, <1>3, <1>4

----------------------------------------------------------------------------
(* One gate. *)

\* The tweak is in KDF's domain, so every row key is a label.
LEMMA RowKeyType ==
  ASSUME NEW r \in Label, NEW i \in Nat, NEW x0 \in Label, NEW y0 \in Label,
         NEW a \in BOOLEAN, NEW b \in BOOLEAN, r[Low]
  PROVE  RowKey(r, i, x0, y0, a, b) \in Label
  <1>1. Tweak(i) \in 0..255
    BY DEF Tweak
  <1>2. (x0[Low] # a) \in BOOLEAN /\ (y0[Low] # b) \in BOOLEAN
    OBVIOUS
  <1>3. /\ Lab(r, x0, x0[Low] # a) \in Label
        /\ Lab(r, y0, y0[Low] # b) \in Label
    BY <1>2, LabFacts
  <1> QED BY <1>1, <1>3, KDFAssumption DEF RowKey

\* A garbled table opens: from labels of u and v the evaluator gets the
\* label of the table's entry, whatever KDF is.
LEMMA TableGate ==
  ASSUME NEW r \in Label, NEW i \in Nat, NEW x0 \in Label, NEW y0 \in Label,
         NEW u \in BOOLEAN, NEW v \in BOOLEAN, NEW g, r[Low],
         g.table \in Table
  PROVE  /\ TableZero(g, r, i, x0, y0) \in Label
         /\ \A n \in 1..3 : TableRows(g, r, i, x0, y0)[n] \in Label
         /\ TableLabel(i, Lab(r, x0, u), Lab(r, y0, v), TableRows(g, r, i, x0, y0))
              = Lab(r, TableZero(g, r, i, x0, y0), g.table[v][u])
  <1> DEFINE a == x0[Low] # u
             b == y0[Low] # v
             zero == TableZero(g, r, i, x0, y0)
  <1>1. \A p, q \in BOOLEAN : RowBit(g, x0, y0, p, q) \in BOOLEAN
    <2> SUFFICES ASSUME NEW p \in BOOLEAN, NEW q \in BOOLEAN
                 PROVE  RowBit(g, x0, y0, p, q) \in BOOLEAN
      OBVIOUS
    <2>1. (x0[Low] # p) \in BOOLEAN /\ (y0[Low] # q) \in BOOLEAN
      OBVIOUS
    <2> QED BY <2>1 DEF RowBit, Table
  <1>2. \A p, q \in BOOLEAN : RowKey(r, i, x0, y0, p, q) \in Label
    BY RowKeyType
  <1>3. zero \in Label
    BY <1>1, <1>2, LabFacts DEF TableZero
  <1>4. \A p, q \in BOOLEAN : Row(g, r, i, x0, y0, p, q) \in Label
    BY <1>1, <1>2, <1>3, LabFacts, XorType DEF Row
  <1>5. /\ a \in BOOLEAN /\ b \in BOOLEAN
        /\ Lab(r, x0, u)[Low] = a
        /\ Lab(r, y0, v)[Low] = b
    BY LabFacts
  <1>6. (x0[Low] # a) = u /\ (y0[Low] # b) = v
    <2>1. x0[Low] \in BOOLEAN /\ y0[Low] \in BOOLEAN
      BY LabFacts
    <2> QED BY <2>1
  <1>7. /\ RowKey(r, i, x0, y0, a, b) = KDF(Tweak(i), Lab(r, x0, u), Lab(r, y0, v))
        /\ RowBit(g, x0, y0, a, b) = g.table[v][u]
    BY <1>6 DEF RowKey, RowBit
  <1> DEFINE bit == g.table[v][u]
             rows == TableRows(g, r, i, x0, y0)
             opened == TableLabel(i, Lab(r, x0, u), Lab(r, y0, v), rows)
             key == RowKey(r, i, x0, y0, a, b)
  <1>8. bit \in BOOLEAN /\ key \in Label
    BY <1>1, <1>2, <1>5, <1>7
  <1>9. opened = IF ~a /\ ~b THEN key
                 ELSE Xor(key, rows[(IF b THEN 2 ELSE 0) + (IF a THEN 1 ELSE 0)])
    <2> DEFINE n == (IF b THEN 2 ELSE 0) + (IF a THEN 1 ELSE 0)
    <2>1. opened = IF n = 0 THEN key ELSE Xor(key, rows[n])
      BY <1>5, <1>7 DEF TableLabel
    <2>2. (n = 0) <=> (~a /\ ~b)
      BY <1>5
    <2> HIDE DEF opened, rows, key, n, a, b
    <2>3. CASE n = 0
      BY <2>1, <2>2, <2>3
    <2>4. CASE n # 0
      BY <2>1, <2>2, <2>4 DEF n
    <2> QED BY <2>3, <2>4
  <1>10. opened = Lab(r, zero, bit)
    <2>1. CASE ~a /\ ~b
      <3>1. a = FALSE /\ b = FALSE
        BY <2>1, <1>5
      <3>2. zero = Lab(r, key, bit)
        BY <3>1, <1>7 DEF TableZero
      <3>3. Lab(r, zero, bit) = key
        BY <3>2, <1>8, LabFacts
      <3> HIDE DEF opened, rows, key, zero, bit, a, b
      <3> QED BY <3>3, <1>9, <2>1
    <2>2. CASE a \/ b
      <3>1. opened = Xor(key, Row(g, r, i, x0, y0, a, b))
        <4>1. CASE a /\ ~b
          <5>1. a = TRUE /\ b = FALSE
            BY <4>1, <1>5
          <5>2. rows[1] = Row(g, r, i, x0, y0, a, b)
            BY <5>1 DEF TableRows
          <5> QED BY <5>2, <1>9, <4>1
        <4>2. CASE ~a /\ b
          <5>1. a = FALSE /\ b = TRUE
            BY <4>2, <1>5
          <5>2. rows[2] = Row(g, r, i, x0, y0, a, b)
            BY <5>1 DEF TableRows
          <5> QED BY <5>2, <1>9, <4>2
        <4>3. CASE a /\ b
          <5>1. a = TRUE /\ b = TRUE
            BY <4>3, <1>5
          <5>2. rows[3] = Row(g, r, i, x0, y0, a, b)
            BY <5>1 DEF TableRows
          <5> QED BY <5>2, <1>9, <4>3
        <4> QED BY <4>1, <4>2, <4>3, <2>2
      <3>2. Row(g, r, i, x0, y0, a, b) = Xor(key, Lab(r, zero, bit))
        BY <1>7 DEF Row
      <3>3. Lab(r, zero, bit) \in Label
        BY <1>3, <1>8, LabFacts
      <3> HIDE DEF opened, rows, key, zero, bit, a, b
      <3> QED BY <3>1, <3>2, <3>3, <1>8, XorCancel
    <2> QED BY <2>1, <2>2
  <1>11. \A n \in 1..3 : rows[n] \in Label
    <2>1. /\ Row(g, r, i, x0, y0, TRUE, FALSE) \in Label
          /\ Row(g, r, i, x0, y0, FALSE, TRUE) \in Label
          /\ Row(g, r, i, x0, y0, TRUE, TRUE) \in Label
      BY <1>4
    <2>2. rows[1] \in Label /\ rows[2] \in Label /\ rows[3] \in Label
      BY <2>1 DEF TableRows
    <2>3. \A n \in 1..3 : n = 1 \/ n = 2 \/ n = 3
      OBVIOUS
    <2> HIDE DEF rows
    <2> QED BY <2>2, <2>3
  <1> QED BY <1>3, <1>10, <1>11

\* An input opens: the key of the value at hand takes the evaluator to the
\* label of that value, in whichever order the ciphertexts were sent.
LEMMA InputGate ==
  ASSUME NEW s \in Setups, NEW p \in Party, NEW ix \in Slots(s.prog),
         NEW zero \in Label
  PROVE  /\ \A n \in 1..2 : InputRows(s, p, ix, zero)[n] \in Label
         /\ Xor(HeldKey(s, p, ix),
                InputRows(s, p, ix, zero)[IF Choice(s, p, ix) THEN 2 ELSE 1])
              = Lab(s.R, zero, s.inp[p][ix])
  <1> DEFINE o == s.order[p][ix]
             v == s.inp[p][ix]
             c == Choice(s, p, ix)
  <1>1. /\ SetupOK(s)
        /\ s.R \in Label /\ s.R[Low]
        /\ o \in BOOLEAN /\ v \in BOOLEAN
        /\ \A b \in BOOLEAN : s.key[p][ix][b] \in Label
    BY SetupsAssumption DEF SetupOK
  <1>2. \A b \in BOOLEAN : InputRow(s, p, ix, zero, b) \in Label
    BY <1>1, LabFacts, XorType DEF InputRow
  <1>3. (o # c) = v /\ c \in BOOLEAN
    <2>1. CASE p = "GEN"
      BY <2>1, <1>1 DEF Choice
    <2>2. CASE p = "EVL"
      BY <2>2, <1>1 DEF Choice, SetupOK
    <2>3. CASE p = "SGX"
      <3>1. PICK k0 \in Label, k1 \in Label :
               /\ s.key["SGX"][ix] = transformToGarbled(k0, k1).key
               /\ s.order["SGX"][ix] = transformToGarbled(k0, k1).permute
        BY <1>1 DEF SetupOK
      <3> DEFINE first == IF k0[Low] = k1[Low] THEN Flip(k0) ELSE k0
      <3>2. k0[Low] \in BOOLEAN /\ k1[Low] \in BOOLEAN
        BY BitsAssumption DEF Label
      <3>3. first[Low] = ~k1[Low]
        BY <3>2, BitsAssumption DEF Flip, Label
      <3>4. HeldKey(s, p, ix) = IF v THEN k1 ELSE first
        BY <3>1, <2>3, <1>1 DEF HeldKey, transformToGarbled
      <3>5. o = first[Low]
        BY <3>1, <2>3 DEF transformToGarbled
      <3>6. c = HeldKey(s, p, ix)[Low]
        BY <2>3 DEF Choice
      <3>7. CASE v
        BY <3>2, <3>3, <3>4, <3>5, <3>6, <3>7
      <3>8. CASE ~v
        <4>1. c = first[Low] /\ o = first[Low] /\ first[Low] \in BOOLEAN
          BY <3>2, <3>3, <3>4, <3>5, <3>6, <3>8
        <4> QED BY <4>1, <3>8, <1>1
      <3> QED BY <3>7, <3>8
    <2> QED BY <2>1, <2>2, <2>3 DEF Party
  <1>4. InputRows(s, p, ix, zero)[IF c THEN 2 ELSE 1] = InputRow(s, p, ix, zero, v)
    <2>1. CASE c
      <3>1. (~o) = v
        BY <2>1, <1>1, <1>3
      <3> QED BY <3>1, <2>1 DEF InputRows
    <2>2. CASE ~c
      <3>1. o = v
        BY <2>2, <1>1, <1>3
      <3> QED BY <3>1, <2>2 DEF InputRows
    <2> QED BY <2>1, <2>2
  <1>5. Xor(HeldKey(s, p, ix), InputRow(s, p, ix, zero, v)) = Lab(s.R, zero, v)
    <2>1. Lab(s.R, zero, v) \in Label
      BY <1>1, LabFacts
    <2> QED BY <2>1, <1>1, XorCancel DEF HeldKey, InputRow
  <1>6. \A n \in 1..2 : InputRows(s, p, ix, zero)[n] \in Label
    <2>1. InputRow(s, p, ix, zero, o) \in Label /\ InputRow(s, p, ix, zero, ~o) \in Label
      BY <1>1, <1>2
    <2> QED BY <2>1 DEF InputRows
  <1> QED BY <1>4, <1>5, <1>6

----------------------------------------------------------------------------
(* Programs. *)

\* What every run has.
LEMMA SetupFacts ==
  ASSUME NEW s \in Setups
  PROVE  /\ s.prog \in Seq(Op) /\ WellFormed(s.prog)
         /\ s.R \in Label /\ s.R[Low]
         /\ Len(s.prog) \in Nat
         /\ \A i \in 1..Len(s.prog) : s.prog[i] \in Op
  BY SetupsAssumption DEF SetupOK

\* How many members of a set of places come before place k.
Before(S, k) == Cardinality({j \in S : j < k})

\* The count grows by one past a member, stays below the place, and is
\* monotone.
LEMMA CountBefore ==
  ASSUME NEW n \in Nat, NEW S, NEW i \in 1..n, S \subseteq 1..n
  PROVE  /\ Before(S, i) \in 0..(i - 1)
         /\ Before(S, i + 1) = IF i \in S THEN Before(S, i) + 1 ELSE Before(S, i)
         /\ \A k \in (i + 1)..(n + 1) : Before(S, i + 1) <= Before(S, k)
  <1> DEFINE B(k) == {j \in S : j < k}
  <1>1. \A k \in 1..(n + 1) : /\ IsFiniteSet(B(k))
                              /\ Cardinality(B(k)) \in Nat
                              /\ Cardinality(B(k)) <= k - 1
    <2> SUFFICES ASSUME NEW k \in 1..(n + 1)
                 PROVE  /\ IsFiniteSet(B(k))
                        /\ Cardinality(B(k)) \in Nat
                        /\ Cardinality(B(k)) <= k - 1
      OBVIOUS
    <2>1. IsFiniteSet(1..(k - 1)) /\ Cardinality(1..(k - 1)) = k - 1
      BY FS_Interval
    <2>2. B(k) \subseteq 1..(k - 1)
      <3>1. \A j \in S : j < k => j \in 1..(k - 1)
        OBVIOUS
      <3> QED BY <3>1
    <2> HIDE DEF B
    <2>3. IsFiniteSet(B(k)) /\ Cardinality(B(k)) <= k - 1
      BY <2>1, <2>2, FS_Subset
    <2> QED BY <2>3, FS_CardinalityType
  <1>2. i \in 1..(n + 1) /\ i + 1 \in 1..(n + 1)
    OBVIOUS
  <1>3. B(i + 1) = (IF i \in S THEN B(i) \cup {i} ELSE B(i)) /\ i \notin B(i)
    <2>1. \A j \in S : j < i + 1 <=> j < i \/ j = i
      OBVIOUS
    <2>2. i \notin B(i)
      OBVIOUS
    <2>3. CASE i \in S
      <3>1. \A j : j \in B(i + 1) <=> j \in B(i) \cup {i}
        BY <2>1, <2>3
      <3> HIDE DEF B
      <3> QED BY <3>1, <2>2, <2>3
    <2>4. CASE i \notin S
      <3>1. \A j : j \in B(i + 1) <=> j \in B(i)
        BY <2>1, <2>4
      <3> HIDE DEF B
      <3> QED BY <3>1, <2>2, <2>4
    <2> QED BY <2>3, <2>4
  <1>4. \A k \in (i + 1)..(n + 1) : k \in 1..(n + 1) /\ B(i + 1) \subseteq B(k)
    <2> SUFFICES ASSUME NEW k \in (i + 1)..(n + 1)
                 PROVE  k \in 1..(n + 1) /\ B(i + 1) \subseteq B(k)
      OBVIOUS
    <2>1. k \in 1..(n + 1)
      OBVIOUS
    <2>2. \A j \in S : j < i + 1 => j < k
      OBVIOUS
    <2> QED BY <2>1, <2>2
  <1>5. \A k : Before(S, k) = Cardinality(B(k))
    BY DEF Before
  <1> HIDE DEF B
  <1>6. Before(S, i) \in 0..(i - 1)
    BY <1>1, <1>2, <1>5
  <1>7. Before(S, i + 1) = IF i \in S THEN Before(S, i) + 1 ELSE Before(S, i)
    <2>1. CASE i \in S
      <3>1. B(i + 1) = B(i) \cup {i} /\ i \notin B(i) /\ IsFiniteSet(B(i))
        BY <2>1, <1>1, <1>2, <1>3
      <3>2. Cardinality(B(i) \cup {i}) = Cardinality(B(i)) + 1
        BY <3>1, FS_AddElement
      <3> QED BY <3>1, <3>2, <2>1, <1>5
    <2>2. CASE i \notin S
      BY <2>2, <1>3, <1>5
    <2> QED BY <2>1, <2>2
  <1>8. \A k \in (i + 1)..(n + 1) : Before(S, i + 1) <= Before(S, k)
    BY <1>1, <1>4, <1>5, FS_Subset
  <1> QED BY <1>6, <1>7, <1>8

\* The counters of inputs.
LEMMA InputCount ==
  ASSUME NEW s \in Setups, NEW p \in Party, NEW i \in 1..Len(s.prog)
  PROVE  /\ InputsBefore(s.prog, p, i) \in Slots(s.prog)
         /\ InputsBefore(s.prog, p, i + 1) =
              IF s.prog[i].options = "input" /\ s.prog[i].party = p
              THEN InputsBefore(s.prog, p, i) + 1
              ELSE InputsBefore(s.prog, p, i)
  <1> DEFINE n == Len(s.prog)
             S == {j \in 1..n : s.prog[j].options = "input" /\ s.prog[j].party = p}
  <1>1. n \in Nat
    BY SetupFacts
  <1>2. InputsBefore(s.prog, p, i) = Before(S, i)
    <2>1. {j \in S : j < i} =
            {j \in 1..(i - 1) : s.prog[j].options = "input" /\ s.prog[j].party = p}
      BY <1>1
    <2> QED BY <2>1 DEF InputsBefore, Before
  <1>3. InputsBefore(s.prog, p, i + 1) = Before(S, i + 1)
    <2>1. {j \in S : j < i + 1} =
            {j \in 1..((i + 1) - 1) :
                s.prog[j].options = "input" /\ s.prog[j].party = p}
      BY <1>1
    <2> QED BY <2>1 DEF InputsBefore, Before
  <1>4. S \subseteq 1..n
    OBVIOUS
  <1>5. i \in S <=> s.prog[i].options = "input" /\ s.prog[i].party = p
    OBVIOUS
  <1> HIDE DEF S
  <1>6. /\ Before(S, i) \in 0..(i - 1)
        /\ Before(S, i + 1) = IF i \in S THEN Before(S, i) + 1 ELSE Before(S, i)
    BY <1>1, <1>4, CountBefore
  <1>7. InputsBefore(s.prog, p, i) \in Slots(s.prog)
    BY <1>1, <1>2, <1>6 DEF Slots
  <1> HIDE DEF n
  <1> QED BY <1>2, <1>3, <1>5, <1>6, <1>7

\* The counters of the enclave's outputs.
LEMMA KeyCount ==
  ASSUME NEW s \in Setups, NEW i \in 1..Len(s.prog)
  PROVE  /\ KeysBefore(s.prog, i) \in Nat
         /\ KeysBefore(s.prog, i + 1) =
              IF IsKeyOutput(s.prog[i]) THEN KeysBefore(s.prog, i) + 1
              ELSE KeysBefore(s.prog, i)
         /\ \A k \in (i + 1)..(Len(s.prog) + 1) :
              KeysBefore(s.prog, i + 1) <= KeysBefore(s.prog, k)
  <1> DEFINE n == Len(s.prog)
             S == {j \in 1..n : IsKeyOutput(s.prog[j])}
  <1>1. n \in Nat
    BY SetupFacts
  <1>2. \A k \in 1..(n + 1) : KeysBefore(s.prog, k) = Before(S, k)
    <2> SUFFICES ASSUME NEW k \in 1..(n + 1)
                 PROVE  KeysBefore(s.prog, k) = Before(S, k)
      OBVIOUS
    <2>1. {j \in S : j < k} = {j \in 1..(k - 1) : IsKeyOutput(s.prog[j])}
      BY <1>1
    <2> QED BY <2>1 DEF KeysBefore, Before
  <1>3. S \subseteq 1..n
    OBVIOUS
  <1>4. i \in S <=> IsKeyOutput(s.prog[i])
    OBVIOUS
  <1> HIDE DEF S
  <1>5. /\ Before(S, i) \in 0..(i - 1)
        /\ Before(S, i + 1) = IF i \in S THEN Before(S, i) + 1 ELSE Before(S, i)
        /\ \A k \in (i + 1)..(n + 1) : Before(S, i + 1) <= Before(S, k)
    BY <1>1, <1>3, CountBefore
  <1>6. /\ KeysBefore(s.prog, i) = Before(S, i)
        /\ KeysBefore(s.prog, i + 1) = Before(S, i + 1)
        /\ \A k \in (i + 1)..(n + 1) : KeysBefore(s.prog, k) = Before(S, k)
    BY <1>1, <1>2
  <1>7. Before(S, i) \in Nat
    BY <1>1, <1>5
  <1> QED BY <1>4, <1>5, <1>6, <1>7

\* In a well-formed program the zero place of a copy or an output was set.
LEMMA ZeroPlaceFacts ==
  ASSUME NEW s \in Setups, NEW i \in 1..Len(s.prog),
         s.prog[i].options \in {"copy", "output"}
  PROVE  /\ ZeroPlace(s.prog) \in Wires
         /\ \E z \in 1..(i - 1) : /\ FirstZero(s.prog, z)
                                  /\ StillZero(s.prog, z, i - 1)
                                  /\ ZeroPlace(s.prog) = s.prog[z].dest
  <1>1. PICK z \in 1..(i - 1) : FirstZero(s.prog, z) /\ StillZero(s.prog, z, i - 1)
    BY SetupFacts DEF WellFormed
  <1>2. z \in 1..Len(s.prog)
    BY <1>1 DEF FirstZero
  <1>3. \A y \in 1..Len(s.prog) : FirstZero(s.prog, y) => y = z
    <2> SUFFICES ASSUME NEW y \in 1..Len(s.prog), FirstZero(s.prog, y)
                 PROVE  y = z
      OBVIOUS
    <2>1. ~(y < z) /\ ~(z < y)
      BY <1>1, <1>2 DEF FirstZero
    <2> QED BY <1>2, <2>1
  <1>4. ZeroPlace(s.prog) = s.prog[z].dest
    BY <1>1, <1>2, <1>3 DEF ZeroPlace
  <1>5. s.prog[z].dest \in Wires
    BY <1>2, SetupFacts DEF Op
  <1> QED BY <1>1, <1>4, <1>5

----------------------------------------------------------------------------
(* One operation. *)

\* The wires and the table of the gate built for an operation.
LEMMA GateFacts ==
  ASSUME NEW s \in Setups, NEW i \in 1..Len(s.prog)
  PROVE  /\ Target(s.prog, i) \in Wires
         /\ s.prog[i].options # "input" =>
              /\ Gate(s.prog, i).in0 \in Wires
              /\ Gate(s.prog, i).in1 \in Wires
              /\ Gate(s.prog, i).table \in Table
         /\ s.prog[i].options \in {"copy", "output"} => is_xor(Gate(s.prog, i))
  <1>1. s.prog[i] \in Op
    BY SetupFacts
  <1>2. Target(s.prog, i) \in Wires
    BY <1>1 DEF Op, Target
  <1>3. XorTable \in Table
    BY DEF XorTable, Table
  <1>4. ASSUME s.prog[i].options # "input"
        PROVE  /\ Gate(s.prog, i).in0 \in Wires
               /\ Gate(s.prog, i).in1 \in Wires
               /\ Gate(s.prog, i).table \in Table
    <2>1. CASE s.prog[i].options = "gate"
      BY <1>1, <2>1 DEF Gate, Op
    <2>2. CASE s.prog[i].options \in {"copy", "output"}
      <3>1. ZeroPlace(s.prog) \in Wires
        BY <2>2, ZeroPlaceFacts
      <3> QED BY <1>1, <1>3, <2>2, <3>1 DEF Gate, Op
    <2> QED BY <1>1, <1>4, <2>1, <2>2 DEF Op
  <1>5. s.prog[i].options \in {"copy", "output"} => is_xor(Gate(s.prog, i))
    BY DEF is_xor, Gate
  <1> QED BY <1>2, <1>4, <1>5

\* The value of an operation is a bit; that of a gate built as an XOR is the
\* XOR of its two wires, if the zero wire of a copy or an output stands for 0.
LEMMA ValueFacts ==
  ASSUME NEW s \in Setups, NEW i \in 1..Len(s.prog),
         NEW d \in [Wires -> BOOLEAN],
         s.prog[i].options \in {"copy", "output"} => ~d[ZeroPlace(s.prog)]
  PROVE  /\ Clear!Value(s, i, d) \in BOOLEAN
         /\ s.prog[i].options # "input" =>
              Clear!Value(s, i, d) =
                Gate(s.prog, i).table[d[Gate(s.prog, i).in1]][d[Gate(s.prog, i).in0]]
         /\ s.prog[i].options = "input" =>
              Clear!Value(s, i, d) =
                s.inp[s.prog[i].party][InputsBefore(s.prog, s.prog[i].party, i)]
  <1> DEFINE op == s.prog[i]
             g == Gate(s.prog, i)
  <1>1. op \in Op
    BY SetupFacts
  <1>2. CASE op.options = "gate"
    <2>1. /\ Clear!Value(s, i, d) = op.table[d[op.x]][d[op.y]]
          /\ op.table \in Table /\ op.x \in Wires /\ op.y \in Wires
      BY <1>1, <1>2 DEF Clear!Value, Op
    <2>2. g.table = op.table /\ g.in0 = op.y /\ g.in1 = op.x
      BY <1>2 DEF Gate
    <2>3. op.table[d[op.x]][d[op.y]] \in BOOLEAN
      BY <2>1 DEF Table
    <2> QED BY <2>1, <2>2, <2>3, <1>2
  <1>3. CASE op.options = "input"
    <2>1. op.party \in Party
      BY <1>1 DEF Op
    <2>2. InputsBefore(s.prog, op.party, i) \in Slots(s.prog)
      BY <2>1, InputCount
    <2>3. s.inp[op.party][InputsBefore(s.prog, op.party, i)] \in BOOLEAN
      BY <2>1, <2>2, SetupsAssumption DEF SetupOK
    <2>4. Clear!Value(s, i, d)
            = s.inp[op.party][InputsBefore(s.prog, op.party, i)]
      <3>1. Clear!InputsBefore(s.prog, op.party, i) = InputsBefore(s.prog, op.party, i)
        BY DEF InputsBefore, Clear!InputsBefore, Cardinality, Clear!Cardinality
      <3> QED BY <3>1, <1>3 DEF Clear!Value
    <2> QED BY <2>3, <2>4, <1>3
  <1>4. CASE op.options \in {"copy", "output"}
    <2> DEFINE w == IF op.options = "output" THEN op.dest ELSE op.y
    <2>1. Clear!Value(s, i, d) = d[w] /\ w \in Wires
      BY <1>1, <1>4 DEF Clear!Value, Op
    <2>2. g.table = XorTable /\ g.in0 = w /\ g.in1 = ZeroPlace(s.prog)
      BY <1>4 DEF Gate
    <2>3. d[w] \in BOOLEAN
      BY <2>1
    <2>4. d[ZeroPlace(s.prog)] = FALSE
      <3>1. ZeroPlace(s.prog) \in Wires
        BY <1>4, ZeroPlaceFacts
      <3> QED BY <3>1, <1>4
    <2>5. XorTable[FALSE][d[w]] = d[w]
      <3>1. XorTable[FALSE][d[w]] = (FALSE # d[w])
        BY <2>3 DEF XorTable
      <3>2. (FALSE # d[w]) = d[w]
        BY <2>3
      <3> QED BY <3>1, <3>2
    <2> HIDE DEF w, g
    <2> QED BY <2>1, <2>2, <2>3, <2>4, <2>5, <1>4 DEF g
  <1> QED BY <1>1, <1>2, <1>3, <1>4 DEF Op

\* The generator's side of an operation is typed.
LEMMA NewTypes ==
  ASSUME NEW s \in Setups, NEW i \in 1..Len(s.prog),
         NEW W \in [Wires -> Label], NEW draw \in Label,
         NEW ix \in Slots(s.prog)
  PROVE  /\ NewZero(s, i, W, draw) \in Label
         /\ NewGarbled(s, i, W, draw, ix) \in Garbled
  <1> DEFINE op == s.prog[i]
             g == Gate(s.prog, i)
             zero == NewZero(s, i, W, draw)
             rows == NewGarbled(s, i, W, draw, ix).rows
  <1>1. op \in Op /\ i - 1 \in Nat /\ s.R \in Label /\ s.R[Low]
    BY SetupFacts
  <1>2. zero \in Label /\ rows \in Seq(Label)
    <2>1. CASE op.options = "input"
      <3>1. zero = draw
        BY <2>1 DEF NewZero
      <3>2. rows = InputRows(s, op.party, ix, draw)
        BY <2>1 DEF NewGarbled
      <3>3. op.party \in Party
        BY <1>1 DEF Op
      <3>4. \A n \in 1..2 : InputRows(s, op.party, ix, draw)[n] \in Label
        BY <3>3, InputGate
      <3>5. InputRows(s, op.party, ix, draw) \in Seq(Label)
        <4> DEFINE o == s.order[op.party][ix]
                   r1 == InputRow(s, op.party, ix, draw, o)
                   r2 == InputRow(s, op.party, ix, draw, ~o)
        <4>1. InputRows(s, op.party, ix, draw) = <<r1, r2>>
          BY DEF InputRows
        <4> HIDE DEF r1, r2
        <4>2. r1 \in Label /\ r2 \in Label
          BY <3>4, <4>1
        <4> QED BY <4>1, <4>2
      <3> QED BY <3>1, <3>2, <3>5
    <2>2. CASE op.options # "input" /\ is_xor(g)
      <3>1. zero = Xor(W[g.in0], W[g.in1]) /\ rows = <<>>
        BY <2>2 DEF NewZero, NewGarbled
      <3>2. W[g.in0] \in Label /\ W[g.in1] \in Label
        BY <2>2, GateFacts
      <3> QED BY <3>1, <3>2, XorType
    <2>3. CASE op.options # "input" /\ ~is_xor(g)
      <3> DEFINE x0 == W[g.in0]
                 y0 == W[g.in1]
      <3>1. /\ zero = TableZero(g, s.R, i - 1, x0, y0)
            /\ rows = TableRows(g, s.R, i - 1, x0, y0)
        BY <2>3 DEF NewZero, NewGarbled
      <3>2. x0 \in Label /\ y0 \in Label /\ g.table \in Table
        BY <2>3, GateFacts
      <3> HIDE DEF x0, y0, g
      <3>3. /\ TableZero(g, s.R, i - 1, x0, y0) \in Label
            /\ \A n \in 1..3 : TableRows(g, s.R, i - 1, x0, y0)[n] \in Label
        BY <1>1, <3>2, TableGate
      <3>4. TableRows(g, s.R, i - 1, x0, y0) \in Seq(Label)
        <4> DEFINE r1 == Row(g, s.R, i - 1, x0, y0, TRUE, FALSE)
                   r2 == Row(g, s.R, i - 1, x0, y0, FALSE, TRUE)
                   r3 == Row(g, s.R, i - 1, x0, y0, TRUE, TRUE)
        <4>1. TableRows(g, s.R, i - 1, x0, y0) = <<r1, r2, r3>>
          BY DEF TableRows
        <4> HIDE DEF r1, r2, r3
        <4>2. r1 \in Label /\ r2 \in Label /\ r3 \in Label
          BY <3>3, <4>1
        <4>3. <<r1, r2, r3>> \in Seq(Label)
          BY <4>2
        <4> QED BY <4>1, <4>3
      <3> QED BY <3>1, <3>3, <3>4
    <2> QED BY <2>1, <2>2, <2>3
  <1>3. NewGarbled(s, i, W, draw, ix).perm \in BOOLEAN
    <2>1. zero[Low] \in BOOLEAN
      BY <1>2, BitsAssumption DEF Label
    <2> QED BY <2>1 DEF NewGarbled
  <1>4. NewGarbled(s, i, W, draw, ix) =
          [rows |-> rows, perm |-> NewGarbled(s, i, W, draw, ix).perm]
    BY DEF NewGarbled
  <1> HIDE DEF rows, zero
  <1> QED BY <1>2, <1>3, <1>4 DEF Garbled, zero

\* The heart of the matter: from the labels of the values d, the evaluator's
\* side of an operation gets the label of the value computed in the clear.
LEMMA NewLabelIsRight ==
  ASSUME NEW s \in Setups, NEW i \in 1..Len(s.prog),
         NEW W \in [Wires -> Label], NEW d \in [Wires -> BOOLEAN],
         NEW E \in [Wires -> Label], NEW draw \in Label,
         \A w \in Wires : E[w] = Lab(s.R, W[w], d[w]),
         s.prog[i].options \in {"copy", "output"} => ~d[ZeroPlace(s.prog)]
  PROVE  LET ix == InputsBefore(s.prog, s.prog[i].party, i)
             rows == NewGarbled(s, i, W, draw, ix).rows
         IN  NewLabel(s, i, E, rows, ix)
               = Lab(s.R, NewZero(s, i, W, draw), Clear!Value(s, i, d))
  <1> DEFINE op == s.prog[i]
             g == Gate(s.prog, i)
             ix == InputsBefore(s.prog, op.party, i)
             zero == NewZero(s, i, W, draw)
             rows == NewGarbled(s, i, W, draw, ix).rows
             val == Clear!Value(s, i, d)
             label == NewLabel(s, i, E, rows, ix)
  <1>1. op \in Op /\ i - 1 \in Nat /\ s.R \in Label /\ s.R[Low]
    BY SetupFacts
  <1>2. op.party \in Party
    BY <1>1 DEF Op
  <1>3. CASE op.options = "input"
    <2>1. zero = draw
      BY <1>3 DEF NewZero
    <2>2. rows = InputRows(s, op.party, ix, draw)
      BY <1>3 DEF NewGarbled
    <2>3. label = Xor(HeldKey(s, op.party, ix),
                      rows[IF Choice(s, op.party, ix) THEN 2 ELSE 1])
      BY <1>3 DEF NewLabel
    <2>4. val = s.inp[op.party][ix]
      BY <1>3, ValueFacts
    <2>5. ix \in Slots(s.prog)
      BY <1>2, InputCount
    <2> HIDE DEF ix, zero, rows, val, label
    <2>6. Xor(HeldKey(s, op.party, ix),
              InputRows(s, op.party, ix, draw)[IF Choice(s, op.party, ix) THEN 2 ELSE 1])
            = Lab(s.R, draw, s.inp[op.party][ix])
      BY <1>2, <2>5, InputGate
    <2>7. label = Lab(s.R, zero, val)
      BY <2>1, <2>2, <2>3, <2>4, <2>6
    <2> QED BY <2>7 DEF label, zero, val, rows, ix
  <1>4. CASE op.options # "input"
    <2> DEFINE u == d[g.in0]
               v == d[g.in1]
               x0 == W[g.in0]
               y0 == W[g.in1]
    <2>1. /\ x0 \in Label /\ y0 \in Label /\ u \in BOOLEAN /\ v \in BOOLEAN
          /\ E[g.in0] = Lab(s.R, x0, u) /\ E[g.in1] = Lab(s.R, y0, v)
          /\ g.table \in Table
      BY <1>4, GateFacts
    <2>2. val = g.table[v][u]
      BY <1>4, ValueFacts
    <2>3. CASE is_xor(g)
      <3>1. zero = Xor(x0, y0)
        BY <1>4, <2>3 DEF NewZero
      <3>2. label = Xor(E[g.in0], E[g.in1])
        BY <1>4, <2>3 DEF NewLabel
      <3>3. g.table[v][u] = (u # v)
        <4>1. g.table[v][u] = (v # u)
          BY <2>1, <2>3 DEF is_xor, XorTable
        <4>2. (v # u) = (u # v)
          BY <2>1
        <4> QED BY <4>1, <4>2
      <3> HIDE DEF zero, label, val, g, x0, y0, u, v
      <3>4. Xor(Lab(s.R, x0, u), Lab(s.R, y0, v)) = Lab(s.R, Xor(x0, y0), u # v)
        BY <1>1, <2>1, XorGate
      <3>5. label = Lab(s.R, zero, val)
        BY <2>1, <2>2, <3>1, <3>2, <3>3, <3>4
      <3> QED BY <3>5 DEF label, zero, val
    <2>4. CASE ~is_xor(g)
      <3>1. zero = TableZero(g, s.R, i - 1, x0, y0)
        BY <1>4, <2>4 DEF NewZero
      <3>2. rows = TableRows(g, s.R, i - 1, x0, y0)
        BY <1>4, <2>4 DEF NewGarbled
      <3>3. label = TableLabel(i - 1, E[g.in0], E[g.in1], rows)
        BY <1>4, <2>4 DEF NewLabel
      <3> HIDE DEF zero, label, val, rows, g, x0, y0, u, v
      <3>4. TableLabel(i - 1, Lab(s.R, x0, u), Lab(s.R, y0, v),
                       TableRows(g, s.R, i - 1, x0, y0))
              = Lab(s.R, TableZero(g, s.R, i - 1, x0, y0), g.table[v][u])
        <4>1. /\ i - 1 \in Nat /\ s.R \in Label /\ s.R[Low]
              /\ x0 \in Label /\ y0 \in Label /\ u \in BOOLEAN /\ v \in BOOLEAN
              /\ g.table \in Table
          BY <1>1, <2>1
        <4> HIDE DEF ix
        <4> DEFINE n == i - 1
                   r == s.R
        <4> HIDE DEF n, r
        <4>2. n \in Nat /\ r \in Label /\ r[Low]
          BY <4>1 DEF n, r
        <4>3. TableLabel(n, Lab(r, x0, u), Lab(r, y0, v), TableRows(g, r, n, x0, y0))
                = Lab(r, TableZero(g, r, n, x0, y0), g.table[v][u])
          BY <4>1, <4>2, TableGate
        <4> QED BY <4>3 DEF n, r
      <3>5. label = Lab(s.R, zero, val)
        BY <2>1, <2>2, <3>1, <3>2, <3>3, <3>4
      <3> QED BY <3>5 DEF label, zero, val, rows
    <2> QED BY <2>3, <2>4
  <1> QED BY <1>3, <1>4

----------------------------------------------------------------------------
(* The invariant. *)

LEMMA ZerosType == Zeros \in Label
  BY DEF Zeros, Label

\* Nothing is garbled or evaluated yet.
LEMMA InitIInv == Init => IInv
  <1> SUFFICES ASSUME Init PROVE IInv
    OBVIOUS
  <1> USE DEF Init
  <1>1. setup \in Setups /\ Len(prog) \in Nat
    BY SetupFacts DEF prog
  <1>2. gAt = 0 /\ Len(gW) = 1 /\ gW[1] = [w \in Wires |-> Zeros]
    BY DEF gAt
  <1>3. TypeOK
    <2>1. gW \in Seq([Wires -> Label])
      <3>1. [w \in Wires |-> Zeros] \in [Wires -> Label]
        BY ZerosType
      <3> QED BY <3>1
    <2>2. /\ Len(gW) = gAt + 1
          /\ garbled \in Seq(Garbled)
          /\ gAt \in 0..Len(prog)
          /\ gInpIx \in [Party -> Nat]
          /\ gKeys \in Seq([BOOLEAN -> Label])
          /\ eAt \in 0..gAt
          /\ eInpIx \in [Party -> Nat]
          /\ eOut \in [{"GEN", "EVL"} -> Seq(BOOLEAN)]
          /\ eKeys \in Seq(Label)
      BY <1>1, <1>2
    <2>3. eW \in [Wires -> Label]
      BY ZerosType
    <2> QED BY <2>1, <2>2, <2>3 DEF TypeOK
  <1>4. GarbledInOrder /\ PairsInOrder
    BY <1>2 DEF GarbledInOrder, PairsInOrder
  <1>5. CountersAgree
    <2>1. \A p \in Party : InputsBefore(prog, p, 1) = 0
      BY FS_EmptySet DEF InputsBefore
    <2>2. KeysBefore(prog, 1) = 0
      BY FS_EmptySet DEF KeysBefore
    <2> QED BY <2>1, <2>2, <1>2 DEF CountersAgree
  <1>6. LabelsAreLabels
    <2>1. Zeros[Low] = FALSE
      BY BitsAssumption DEF Zeros
    <2>2. Decode(Zeros, Zeros) = FALSE
      BY <2>1 DEF Decode
    <2>3. Zeros = Lab(setup.R, Zeros, FALSE)
      BY DEF Lab
    <2>4. \A w \in Wires : gW[eAt + 1][w] = Zeros /\ eW[w] = Zeros
      BY <1>2
    <2> QED BY <2>2, <2>3, <2>4 DEF LabelsAreLabels
  <1>7. ZeroHeld
    BY DEF ZeroHeld
  <1>8. KeysAreKeys
    BY DEF KeysAreKeys
  <1> QED BY <1>1, <1>3, <1>4, <1>5, <1>6, <1>7, <1>8 DEF IInv, InStep

\* A counter of inputs moves exactly past the inputs of its party.
LEMMA CountedFacts ==
  ASSUME NEW s \in Setups, NEW i \in 1..Len(s.prog), NEW c \in [Party -> Nat],
         \A p \in Party : c[p] = InputsBefore(s.prog, p, i)
  PROVE  /\ Counted(s.prog[i], c) \in [Party -> Nat]
         /\ \A p \in Party : Counted(s.prog[i], c)[p] = InputsBefore(s.prog, p, i + 1)
  <1>1. s.prog[i].party \in Party
    BY SetupFacts DEF Op
  <1>2. Counted(s.prog[i], c) \in [Party -> Nat]
    BY <1>1 DEF Counted
  <1>3. ASSUME NEW p \in Party
        PROVE  Counted(s.prog[i], c)[p] = InputsBefore(s.prog, p, i + 1)
    <2>1. InputsBefore(s.prog, p, i + 1) =
            IF s.prog[i].options = "input" /\ s.prog[i].party = p
            THEN InputsBefore(s.prog, p, i) + 1
            ELSE InputsBefore(s.prog, p, i)
      BY InputCount
    <2> QED BY <2>1, <1>1 DEF Counted
  <1> QED BY <1>2, <1>3

\* What garbling a gate does to the generator's state, spelled out.
LEMMA GenFacts ==
  ASSUME IInv, gen_next_gate
  PROVE  \E draw \in Label :
           LET i == gAt + 1
               op == prog[i]
               zero == NewZero(setup, i, gW[i], draw)
               gate == NewGarbled(setup, i, gW[i], draw,
                                  InputsBefore(prog, op.party, i))
               new == [gW[i] EXCEPT ![Target(prog, i)] = zero]
           IN  /\ i \in 1..Len(prog) /\ gW[i] \in [Wires -> Label]
               /\ zero \in Label
               /\ new \in [Wires -> Label]
               /\ gate \in Garbled
               /\ garbled' = Append(garbled, gate)
               /\ gW' = Append(gW, new)
               /\ gKeys' = IF IsKeyOutput(op)
                           THEN Append(gKeys, [b \in BOOLEAN |-> Lab(setup.R, zero, b)])
                           ELSE gKeys
  <1> DEFINE i == gAt + 1
             op == prog[i]
             ix == InputsBefore(prog, op.party, i)
  <1>1. /\ setup \in Setups /\ Len(prog) \in Nat /\ gAt \in 0..Len(prog)
        /\ gW \in Seq([Wires -> Label]) /\ Len(gW) = gAt + 1
    BY SetupFacts DEF IInv, InStep, TypeOK, prog
  <1>2. i \in 1..Len(prog)
    BY <1>1 DEF gen_next_gate
  <1>3. gW[i] \in [Wires -> Label]
    BY <1>1
  <1>4. op.party \in Party /\ Target(prog, i) \in Wires
    BY <1>1, <1>2, SetupFacts, GateFacts DEF prog, Op
  <1>5. gInpIx[op.party] = ix
    BY <1>4 DEF IInv, InStep, CountersAgree
  <1>6. PICK draw \in IF op.options = "input" THEN Draws ELSE {Zeros} :
          /\ garbled' = Append(garbled,
                          NewGarbled(setup, i, gW[i], draw, gInpIx[op.party]))
          /\ gW' = Append(gW, [gW[i] EXCEPT ![Target(prog, i)] =
                                  NewZero(setup, i, gW[i], draw)])
          /\ gKeys' = IF op.options = "output" /\ op.party = "SGX"
                      THEN Append(gKeys, [b \in BOOLEAN |->
                             Lab(setup.R, NewZero(setup, i, gW[i], draw), b)])
                      ELSE gKeys
    BY DEF gen_next_gate
  <1>7. draw \in Label
    BY <1>6, DrawsAssumption, ZerosType
  <1>8. ix \in Slots(prog)
    BY <1>1, <1>2, <1>4, InputCount DEF prog
  <1> HIDE DEF i, ix
  <1>9. /\ NewZero(setup, i, gW[i], draw) \in Label
        /\ NewGarbled(setup, i, gW[i], draw, ix) \in Garbled
    BY <1>1, <1>2, <1>3, <1>7, <1>8, NewTypes DEF prog
  <1>10. [gW[i] EXCEPT ![Target(prog, i)] = NewZero(setup, i, gW[i], draw)]
            \in [Wires -> Label]
    BY <1>3, <1>4, <1>9
  <1> QED BY <1>2, <1>3, <1>5, <1>6, <1>7, <1>9, <1>10 DEF IsKeyOutput, i, ix

\* The generator preserves the invariant: it only adds, and what it adds was
\* built from its latest labels.
LEMMA GenStep == IInv /\ gen_next_gate => IInv'
  <1> SUFFICES ASSUME IInv, gen_next_gate PROVE IInv'
    OBVIOUS
  <1> DEFINE i == gAt + 1
             op == prog[i]
             ix == InputsBefore(prog, op.party, i)
  <1>1. PICK draw \in Label :
          /\ i \in 1..Len(prog) /\ gW[i] \in [Wires -> Label]
          /\ NewZero(setup, i, gW[i], draw) \in Label
          /\ [gW[i] EXCEPT ![Target(prog, i)] = NewZero(setup, i, gW[i], draw)]
                \in [Wires -> Label]
          /\ NewGarbled(setup, i, gW[i], draw, ix) \in Garbled
          /\ garbled' = Append(garbled, NewGarbled(setup, i, gW[i], draw, ix))
          /\ gW' = Append(gW, [gW[i] EXCEPT ![Target(prog, i)] =
                                  NewZero(setup, i, gW[i], draw)])
          /\ gKeys' = IF IsKeyOutput(op)
                      THEN Append(gKeys, [b \in BOOLEAN |->
                             Lab(setup.R, NewZero(setup, i, gW[i], draw), b)])
                      ELSE gKeys
    BY GenFacts
  <1> DEFINE zero == NewZero(setup, i, gW[i], draw)
             gate == NewGarbled(setup, i, gW[i], draw, ix)
             new == [gW[i] EXCEPT ![Target(prog, i)] = zero]
             pair == [b \in BOOLEAN |-> Lab(setup.R, zero, b)]
  <1>2. /\ setup \in Setups /\ setup.R \in Label /\ setup.R[Low]
        /\ Len(prog) \in Nat /\ gAt \in Nat /\ eAt \in 0..gAt
        /\ gW \in Seq([Wires -> Label]) /\ Len(gW) = gAt + 1
        /\ garbled \in Seq(Garbled) /\ Len(garbled) = gAt
        /\ gKeys \in Seq([BOOLEAN -> Label])
    BY SetupFacts DEF IInv, InStep, TypeOK, prog, gAt
  <1>3. UNCHANGED <<setup, prog, eAt, eW, eInpIx, eOut, eKeys>>
    BY DEF gen_next_gate, eVars, prog
  <1>4. gInpIx' = Counted(op, gInpIx)
    BY DEF gen_next_gate
  <1>5. pair \in [BOOLEAN -> Label]
    BY <1>1, <1>2, LabFacts
  <1>6. Target(prog, i) \in Wires /\ op.party \in Party /\ op \in Op
    BY <1>1, <1>2, SetupFacts, GateFacts DEF prog, Op
  <1>7. /\ \A k \in 1..i : gW'[k] = gW[k]
        /\ gW'[i + 1] = new /\ Len(gW') = i + 1
        /\ \A k \in 1..gAt : garbled'[k] = garbled[k]
        /\ garbled'[i] = gate /\ gAt' = i
        /\ gW' \in Seq([Wires -> Label]) /\ garbled' \in Seq(Garbled)
    <2> HIDE DEF new, gate
    <2> QED BY <1>1, <1>2 DEF gAt, new, gate
  <1>8. /\ KeysBefore(prog, i) = Len(gKeys)
        /\ KeysBefore(prog, i + 1) = Len(gKeys')
        /\ gKeys' \in Seq([BOOLEAN -> Label])
        /\ \A k \in 1..Len(gKeys) : gKeys'[k] = gKeys[k]
        /\ IsKeyOutput(op) => gKeys'[Len(gKeys) + 1] = pair
    <2>1. KeysBefore(prog, i) = Len(gKeys)
      BY DEF IInv, InStep, CountersAgree
    <2>2. KeysBefore(prog, i + 1) = IF IsKeyOutput(op) THEN Len(gKeys) + 1 ELSE Len(gKeys)
      BY <1>1, <1>2, <2>1, KeyCount DEF prog
    <2> HIDE DEF pair, i, op
    <2>3. CASE IsKeyOutput(op)
      <3>1. gKeys' = Append(gKeys, pair)
        BY <2>3, <1>1 DEF pair, op, i
      <3> QED BY <2>1, <2>2, <2>3, <3>1, <1>2, <1>5
    <2>4. CASE ~IsKeyOutput(op)
      <3>1. gKeys' = gKeys
        BY <2>4, <1>1 DEF pair, op, i
      <3> QED BY <2>1, <2>2, <2>4, <3>1, <1>2
    <2> QED BY <2>3, <2>4
  <1> HIDE DEF zero, gate, new, pair
  <1>9. TypeOK' /\ CountersAgree'
    <2>1. /\ gInpIx \in [Party -> Nat]
          /\ \A p \in Party : gInpIx[p] = InputsBefore(setup.prog, p, i)
      BY DEF IInv, InStep, TypeOK, CountersAgree, prog
    <2>2. /\ gInpIx' \in [Party -> Nat]
          /\ \A p \in Party : gInpIx'[p] = InputsBefore(prog, p, i + 1)
      <3>1. i \in 1..Len(setup.prog)
        BY <1>1 DEF prog
      <3>2. /\ Counted(setup.prog[i], gInpIx) \in [Party -> Nat]
            /\ \A p \in Party :
                 Counted(setup.prog[i], gInpIx)[p] = InputsBefore(setup.prog, p, i + 1)
        BY <1>2, <2>1, <3>1, CountedFacts
      <3> QED BY <3>2, <1>4 DEF prog
    <2>3. /\ eW \in [Wires -> Label] /\ eInpIx \in [Party -> Nat]
          /\ eOut \in [{"GEN", "EVL"} -> Seq(BOOLEAN)] /\ eKeys \in Seq(Label)
      BY DEF IInv, InStep, TypeOK
    <2>4. TypeOK'
      BY <1>1, <1>2, <1>3, <1>7, <1>8, <2>2, <2>3 DEF TypeOK
    <2>5. /\ \A p \in Party : eInpIx[p] = InputsBefore(prog, p, eAt + 1)
          /\ Len(eKeys) = KeysBefore(prog, eAt + 1)
      BY DEF IInv, InStep, CountersAgree
    <2>6. CountersAgree'
      BY <1>3, <1>7, <1>8, <2>2, <2>5 DEF CountersAgree
    <2> QED BY <2>4, <2>6
  <1>10. GarbledInOrder'
    <2> SUFFICES ASSUME NEW k \in 1..i
                 PROVE  \E dr \in Label :
                          /\ gW'[k + 1] = [gW'[k] EXCEPT ![Target(prog, k)] =
                                              NewZero(setup, k, gW'[k], dr)]
                          /\ garbled'[k] = NewGarbled(setup, k, gW'[k], dr,
                                             InputsBefore(prog, prog[k].party, k))
      BY <1>3, <1>7 DEF GarbledInOrder
    <2>1. CASE k \in 1..gAt
      <3>1. /\ gW'[k] = gW[k] /\ gW'[k + 1] = gW[k + 1]
            /\ garbled'[k] = garbled[k]
        BY <2>1, <1>2, <1>7
      <3>2. PICK dr \in Label :
              /\ gW[k + 1] = [gW[k] EXCEPT ![Target(prog, k)] =
                                 NewZero(setup, k, gW[k], dr)]
              /\ garbled[k] = NewGarbled(setup, k, gW[k], dr,
                                InputsBefore(prog, prog[k].party, k))
        BY <2>1 DEF IInv, InStep, GarbledInOrder
      <3> QED BY <3>1, <3>2
    <2>2. CASE k = i
      <3>1. gW'[k] = gW[k] /\ gW'[k + 1] = new /\ garbled'[k] = gate
        BY <2>2, <1>1, <1>7
      <3> QED BY <3>1, <2>2 DEF new, gate, zero
    <2> QED BY <2>1, <2>2, <1>2
  <1>11. PairsInOrder'
    <2> SUFFICES ASSUME NEW k \in 1..i, IsKeyOutput(prog[k])
                 PROVE  gKeys'[KeysBefore(prog, k) + 1] =
                          [b \in BOOLEAN |-> Lab(setup.R, gW'[k + 1][prog[k].dest], b)]
      BY <1>3, <1>7 DEF PairsInOrder
    <2>1. CASE k \in 1..gAt
      <3>1. gW'[k + 1] = gW[k + 1]
        BY <2>1, <1>2, <1>7
      <3>2. gKeys[KeysBefore(prog, k) + 1] =
              [b \in BOOLEAN |-> Lab(setup.R, gW[k + 1][prog[k].dest], b)]
        BY <2>1 DEF IInv, InStep, PairsInOrder
      <3>3. KeysBefore(prog, k) + 1 \in 1..Len(gKeys)
        <4>1. /\ k \in 1..Len(setup.prog)
              /\ i \in (k + 1)..(Len(setup.prog) + 1)
          BY <2>1, <1>1, <1>2 DEF prog
        <4>2. /\ KeysBefore(prog, k) \in Nat
              /\ KeysBefore(prog, k + 1) = KeysBefore(prog, k) + 1
              /\ KeysBefore(prog, k + 1) <= KeysBefore(prog, i)
          BY <4>1, <1>2, KeyCount DEF prog
        <4>3. Len(gKeys) \in Nat
          BY <1>2
        <4> QED BY <4>2, <4>3, <1>8
      <3> QED BY <3>1, <3>2, <3>3, <1>8
    <2>2. CASE k = i
      <3>1. gKeys'[KeysBefore(prog, k) + 1] = pair
        BY <2>2, <1>8
      <3>2. gW'[k + 1][prog[k].dest] = zero
        <4>1. Target(prog, k) = prog[k].dest
          BY DEF IsKeyOutput, Target
        <4>2. new[Target(prog, i)] = zero
          BY <1>1, <1>6 DEF new
        <4> QED BY <4>1, <4>2, <2>2, <1>7
      <3> QED BY <3>1, <3>2 DEF pair
    <2> QED BY <2>1, <2>2, <1>2
  <1>12. eAt + 1 \in 1..i
    BY <1>2
  <1>13. gW'[eAt + 1] = gW[eAt + 1]
    BY <1>7, <1>12
  <1>14. LabelsAreLabels'
    BY <1>3, <1>13 DEF IInv, InStep, LabelsAreLabels
  <1>15. ZeroHeld'
    BY <1>3, <1>13 DEF IInv, InStep, ZeroHeld, data
  <1>16. KeysAreKeys'
    <2>1. Len(eKeys) <= Len(gKeys) /\ Len(gKeys) <= Len(gKeys')
      <3>1. /\ KeysBefore(prog, i + 1) =
                 IF IsKeyOutput(op) THEN Len(gKeys) + 1 ELSE Len(gKeys)
        BY <1>1, <1>2, <1>8, KeyCount DEF prog
      <3> QED BY <3>1, <1>2, <1>8 DEF IInv, InStep, KeysAreKeys
    <2>2. \A j \in 1..Len(eKeys) : gKeys'[j] = gKeys[j]
      BY <2>1, <1>2, <1>8 DEF IInv, InStep, TypeOK
    <2>3. Len(eKeys) <= Len(gKeys')
      BY <2>1, <1>2, <1>8 DEF IInv, InStep, TypeOK
    <2> QED BY <2>2, <2>3, <1>3 DEF IInv, InStep, KeysAreKeys
  <1> QED BY <1>2, <1>3, <1>9, <1>10, <1>11, <1>14, <1>15, <1>16 DEF IInv, InStep

\* Every wire of the evaluator holds the label of the value it stands for.
LEMMA DataFacts ==
  ASSUME IInv
  PROVE  /\ gW[eAt + 1] \in [Wires -> Label] /\ eW \in [Wires -> Label]
         /\ data \in [Wires -> BOOLEAN]
         /\ \A w \in Wires : eW[w] = Lab(setup.R, gW[eAt + 1][w], data[w])
  <1>1. gW[eAt + 1] \in [Wires -> Label] /\ eW \in [Wires -> Label]
    <2>1. /\ eAt \in 0..gAt /\ gAt \in Nat
          /\ gW \in Seq([Wires -> Label]) /\ Len(gW) = gAt + 1
      BY DEF IInv, InStep, TypeOK, gAt
    <2>2. eAt + 1 \in 1..Len(gW)
      BY <2>1
    <2> QED BY <2>1, <2>2 DEF IInv, InStep, TypeOK
  <1>2. \A w \in Wires : Decode(gW[eAt + 1][w], eW[w]) \in BOOLEAN
    BY DEF Decode
  <1>3. data \in [Wires -> BOOLEAN]
    BY <1>2 DEF data
  <1>4. \A w \in Wires : eW[w] = Lab(setup.R, gW[eAt + 1][w], data[w])
    BY DEF IInv, InStep, LabelsAreLabels, data
  <1> QED BY <1>1, <1>3, <1>4

\* When the evaluator comes to a copy or an output, the zero wire stands for 0.
LEMMA ZeroNow ==
  ASSUME IInv, eAt + 1 \in 1..Len(prog),
         prog[eAt + 1].options \in {"copy", "output"}
  PROVE  ~data[ZeroPlace(prog)]
  <1>1. setup \in Setups /\ eAt \in Nat
    BY DEF IInv, InStep, TypeOK, gAt
  <1> DEFINE i == eAt + 1
  <1>2. i \in 1..Len(setup.prog) /\ i - 1 = eAt
    BY <1>1 DEF prog
  <1>3. setup.prog[i].options \in {"copy", "output"}
    BY DEF prog
  <1> HIDE DEF i
  <1>4. PICK z \in 1..(i - 1) : /\ FirstZero(prog, z)
                                /\ StillZero(prog, z, i - 1)
                                /\ ZeroPlace(prog) = prog[z].dest
    BY <1>1, <1>2, <1>3, ZeroPlaceFacts DEF prog
  <1> QED BY <1>2, <1>4 DEF IInv, InStep, ZeroHeld

\* What evaluating a gate does to the evaluator's state, spelled out.
LEMMA EvlFacts ==
  ASSUME IInv, evl_next_gate
  PROVE  LET i == eAt + 1
             op == prog[i]
             t == Target(prog, i)
             zero == gW[i + 1][t]
             val == Clear!Value(setup, i, data)
             label == Lab(setup.R, zero, val)
         IN  /\ i \in 1..Len(prog) /\ i \in 1..gAt /\ op \in Op
             /\ t \in Wires /\ zero \in Label /\ val \in BOOLEAN
             /\ gW[i + 1] = [gW[i] EXCEPT ![t] = zero]
             /\ op.options = "output" => val = data[op.dest] /\ t = op.dest
             /\ eAt' = i
             /\ eW' = [eW EXCEPT ![t] = label]
             /\ data' = [data EXCEPT ![t] = val]
             /\ eInpIx' = Counted(op, eInpIx)
             /\ eOut' = IF op.options = "output" /\ op.party # "SGX"
                        THEN [eOut EXCEPT ![op.party] = Append(@, val)]
                        ELSE eOut
             /\ eKeys' = IF IsKeyOutput(op) THEN Append(eKeys, label) ELSE eKeys
             /\ UNCHANGED <<setup, prog, gVars>>
  <1> DEFINE i == eAt + 1
             op == prog[i]
             t == Target(prog, i)
             ix == InputsBefore(prog, op.party, i)
             val == Clear!Value(setup, i, data)
  <1>1. /\ setup \in Setups /\ setup.R \in Label /\ setup.R[Low]
        /\ Len(prog) \in Nat /\ eAt \in Nat /\ eAt < gAt /\ gAt \in 0..Len(prog)
        /\ gW \in Seq([Wires -> Label]) /\ Len(gW) = gAt + 1
    BY SetupFacts DEF IInv, InStep, TypeOK, evl_next_gate, prog, gAt
  <1>2. i \in 1..Len(prog) /\ i \in 1..gAt
    BY <1>1
  <1>3. op \in Op /\ op.party \in Party /\ t \in Wires
    BY <1>1, <1>2, SetupFacts, GateFacts DEF prog, Op
  <1>4. PICK draw \in Label :
          /\ gW[i + 1] = [gW[i] EXCEPT ![t] = NewZero(setup, i, gW[i], draw)]
          /\ garbled[i] = NewGarbled(setup, i, gW[i], draw, ix)
    BY <1>2 DEF IInv, InStep, GarbledInOrder
  <1> DEFINE zero == NewZero(setup, i, gW[i], draw)
             label == Lab(setup.R, zero, val)
  <1>5. /\ gW[i] \in [Wires -> Label] /\ eW \in [Wires -> Label]
        /\ data \in [Wires -> BOOLEAN]
        /\ \A w \in Wires : eW[w] = Lab(setup.R, gW[i][w], data[w])
    BY DataFacts
  <1>6. gW[i + 1][t] = zero
    BY <1>3, <1>4, <1>5
  <1>7. ix \in Slots(prog)
    BY <1>1, <1>2, <1>3, InputCount DEF prog
  <1>8. zero \in Label
    <2> HIDE DEF i, ix
    <2> QED BY <1>1, <1>2, <1>5, <1>7, NewTypes DEF prog
  <1>9. op.options \in {"copy", "output"} => ~data[ZeroPlace(prog)]
    BY <1>2, ZeroNow
  <1>10. val \in BOOLEAN
    BY <1>1, <1>2, <1>5, <1>9, ValueFacts DEF prog
  <1>11. NewLabel(setup, i, eW, garbled[i].rows, ix) = label
    <2>1. /\ i \in 1..Len(setup.prog)
          /\ setup.prog[i].options \in {"copy", "output"} => ~data[ZeroPlace(setup.prog)]
      BY <1>2, <1>9 DEF prog
    <2>2. NewLabel(setup, i, eW, NewGarbled(setup, i, gW[i], draw,
                       InputsBefore(setup.prog, setup.prog[i].party, i)).rows,
                   InputsBefore(setup.prog, setup.prog[i].party, i))
            = Lab(setup.R, NewZero(setup, i, gW[i], draw),
                  Clear!Value(setup, i, data))
      <3> HIDE DEF i
      <3> QED BY <1>1, <1>5, <2>1, NewLabelIsRight
    <2> QED BY <2>2, <1>4 DEF prog
  <1>12. eInpIx[op.party] = ix
    BY <1>3 DEF IInv, InStep, CountersAgree
  <1>13. op.options = "output" => val = data[op.dest] /\ t = op.dest
    <2> SUFFICES ASSUME op.options = "output" PROVE val = data[op.dest] /\ t = op.dest
      OBVIOUS
    <2> QED BY DEF Clear!Value, Target, prog
  <1>14. /\ eAt' = i
         /\ eW' = [eW EXCEPT ![t] = label]
         /\ eInpIx' = Counted(op, eInpIx)
         /\ eOut' = IF op.options = "output" /\ op.party # "SGX"
                    THEN [eOut EXCEPT ![op.party] =
                             Append(@, label[Low] # garbled[i].perm)]
                    ELSE eOut
         /\ eKeys' = IF IsKeyOutput(op) THEN Append(eKeys, label) ELSE eKeys
         /\ UNCHANGED <<setup, prog, gVars>>
    <2> HIDE DEF label
    <2> QED BY <1>11, <1>12 DEF evl_next_gate, IsKeyOutput, prog
  <1>15. op.options = "output" /\ op.party # "SGX" =>
            (label[Low] # garbled[i].perm) = val
    <2> SUFFICES ASSUME op.options = "output", op.party # "SGX"
                 PROVE  (label[Low] # garbled[i].perm) = val
      OBVIOUS
    <2>1. garbled[i].perm = zero[Low]
      <3>1. zero[Low] \in BOOLEAN
        BY <1>8, BitsAssumption DEF Label
      <3>2. garbled[i].perm = (/\ op.options = "output"
                               /\ op.party # "SGX"
                               /\ zero[Low])
        BY <1>4 DEF NewGarbled, prog
      <3> HIDE DEF zero, op
      <3> QED BY <3>1, <3>2
    <2>2. (label[Low] # zero[Low]) = val
      <3> HIDE DEF zero, val
      <3> QED BY <1>1, <1>8, <1>10, LabFacts DEF Decode
    <2> QED BY <2>1, <2>2
  <1>16. data' = [data EXCEPT ![t] = val]
    <2>1. gW' = gW /\ gW'[eAt' + 1] = [gW[i] EXCEPT ![t] = zero]
      BY <1>4, <1>14 DEF gVars
    <2>2. ASSUME NEW w \in Wires
          PROVE  Decode(gW'[eAt' + 1][w], eW'[w]) = [data EXCEPT ![t] = val][w]
      <3>1. CASE w = t
        <4>1. gW'[eAt' + 1][w] = zero /\ eW'[w] = label
          BY <3>1, <2>1, <1>3, <1>5, <1>14
        <4>2. Decode(zero, label) = val
          <5> HIDE DEF zero, val
          <5> QED BY <1>1, <1>8, <1>10, LabFacts
        <4> QED BY <3>1, <4>1, <4>2, <1>3, <1>5
      <3>2. CASE w # t
        <4>1. gW'[eAt' + 1][w] = gW[i][w] /\ eW'[w] = eW[w]
          BY <3>2, <2>1, <1>3, <1>5, <1>14
        <4>2. data[w] = Decode(gW[i][w], eW[w])
          BY DEF data
        <4> QED BY <3>2, <4>1, <4>2, <1>3, <1>5
      <3> QED BY <3>1, <3>2
    <2>3. data' = [w \in Wires |-> Decode(gW'[eAt' + 1][w], eW'[w])]
      BY DEF data
    <2> HIDE DEF val
    <2> QED BY <2>2, <2>3, <1>5
  <1>17. gW[i + 1] = [gW[i] EXCEPT ![t] = gW[i + 1][t]]
    BY <1>4, <1>6
  <1>18. eOut' = IF op.options = "output" /\ op.party # "SGX"
                 THEN [eOut EXCEPT ![op.party] = Append(@, val)]
                 ELSE eOut
    BY <1>14, <1>15
  <1> HIDE DEF val, zero
  <1> QED BY <1>2, <1>3, <1>6, <1>8, <1>10, <1>13, <1>14, <1>16, <1>17, <1>18
          DEF val, zero

\* The evaluator preserves the invariant.
LEMMA EvlStep == IInv /\ evl_next_gate => IInv'
  <1> SUFFICES ASSUME IInv, evl_next_gate PROVE IInv'
    OBVIOUS
  <1> DEFINE i == eAt + 1
             op == prog[i]
             t == Target(prog, i)
             zero == gW[i + 1][t]
             val == Clear!Value(setup, i, data)
             label == Lab(setup.R, zero, val)
  <1>1. /\ i \in 1..Len(prog) /\ i \in 1..gAt /\ op \in Op
        /\ t \in Wires /\ zero \in Label /\ val \in BOOLEAN
        /\ gW[i + 1] = [gW[i] EXCEPT ![t] = zero]
        /\ op.options = "output" => val = data[op.dest] /\ t = op.dest
        /\ eAt' = i
        /\ eW' = [eW EXCEPT ![t] = label]
        /\ data' = [data EXCEPT ![t] = val]
        /\ eInpIx' = Counted(op, eInpIx)
        /\ eOut' = IF op.options = "output" /\ op.party # "SGX"
                   THEN [eOut EXCEPT ![op.party] = Append(@, val)]
                   ELSE eOut
        /\ eKeys' = IF IsKeyOutput(op) THEN Append(eKeys, label) ELSE eKeys
        /\ UNCHANGED <<setup, prog, gVars>>
    BY EvlFacts
  <1>2. /\ setup \in Setups /\ setup.R \in Label /\ setup.R[Low]
        /\ Len(prog) \in Nat /\ eAt \in Nat /\ gAt \in Nat
        /\ eKeys \in Seq(Label) /\ Len(eKeys) = KeysBefore(prog, i)
    BY SetupFacts DEF IInv, InStep, TypeOK, CountersAgree, prog, gAt
  <1>3. /\ data \in [Wires -> BOOLEAN] /\ eW \in [Wires -> Label]
        /\ gW[i] \in [Wires -> Label]
        /\ \A w \in Wires : eW[w] = Lab(setup.R, gW[i][w], data[w])
    BY DataFacts
  <1>4. label \in Label /\ Decode(zero, label) = val
    <2>1. zero \in Label /\ val \in BOOLEAN
      BY <1>1
    <2> HIDE DEF zero, val
    <2>2. label \in Label
      BY <2>1, <1>2, LabFacts
    <2>3. Decode(zero, label) = val
      BY <2>1, <1>2, LabFacts
    <2> QED BY <2>2, <2>3
  <1> HIDE DEF zero, val, label
  <1>5. /\ UNCHANGED <<gW, gInpIx, garbled, gKeys, setup, prog>>
        /\ gAt' = gAt
    BY <1>1 DEF gVars, gAt
  <1>6. /\ eKeys' \in Seq(Label)
        /\ Len(eKeys') = KeysBefore(prog, i + 1)
        /\ \A j \in 1..Len(eKeys) : eKeys'[j] = eKeys[j]
        /\ IsKeyOutput(op) => /\ Len(eKeys') = Len(eKeys) + 1
                              /\ eKeys'[Len(eKeys) + 1] = label
        /\ ~IsKeyOutput(op) => eKeys' = eKeys
    <2>1. KeysBefore(prog, i + 1) =
            IF IsKeyOutput(op) THEN Len(eKeys) + 1 ELSE Len(eKeys)
      BY <1>1, <1>2, KeyCount DEF prog
    <2> HIDE DEF i, op, t
    <2>2. CASE IsKeyOutput(op)
      BY <2>1, <2>2, <1>1, <1>2, <1>4
    <2>3. CASE ~IsKeyOutput(op)
      BY <2>1, <2>3, <1>1, <1>2
    <2> QED BY <2>2, <2>3
  <1>7. TypeOK' /\ CountersAgree'
    <2>1. /\ eInpIx \in [Party -> Nat]
          /\ \A p \in Party : eInpIx[p] = InputsBefore(setup.prog, p, i)
      BY DEF IInv, InStep, TypeOK, CountersAgree, prog
    <2>2. /\ eInpIx' \in [Party -> Nat]
          /\ \A p \in Party : eInpIx'[p] = InputsBefore(prog, p, i + 1)
      <3>1. i \in 1..Len(setup.prog)
        BY <1>1 DEF prog
      <3>2. /\ Counted(setup.prog[i], eInpIx) \in [Party -> Nat]
            /\ \A p \in Party :
                 Counted(setup.prog[i], eInpIx)[p] = InputsBefore(setup.prog, p, i + 1)
        BY <1>2, <2>1, <3>1, CountedFacts
      <3> QED BY <3>2, <1>1 DEF prog
    <2>3. eOut' \in [{"GEN", "EVL"} -> Seq(BOOLEAN)]
      <3>1. eOut \in [{"GEN", "EVL"} -> Seq(BOOLEAN)]
        BY DEF IInv, InStep, TypeOK
      <3>2. op.party # "SGX" => op.party \in {"GEN", "EVL"}
        BY <1>1 DEF Op, Party
      <3> HIDE DEF op
      <3>3. CASE op.options = "output" /\ op.party # "SGX"
        <4>1. Append(eOut[op.party], val) \in Seq(BOOLEAN)
          BY <3>1, <3>2, <3>3, <1>1
        <4>2. eOut' = [eOut EXCEPT ![op.party] = Append(@, val)]
          BY <3>3, <1>1
        <4> QED BY <3>1, <3>2, <3>3, <4>1, <4>2
      <3>4. CASE ~(op.options = "output" /\ op.party # "SGX")
        BY <3>1, <3>4, <1>1
      <3> QED BY <3>3, <3>4
    <2>4. eW' \in [Wires -> Label]
      BY <1>1, <1>3, <1>4
    <2>5. eAt' \in 0..gAt
      BY <1>1, <1>2
    <2>6. TypeOK'
      BY <1>5, <1>6, <2>2, <2>3, <2>4, <2>5 DEF IInv, InStep, TypeOK
    <2>7. CountersAgree'
      BY <1>1, <1>5, <1>6, <2>2 DEF IInv, InStep, CountersAgree
    <2> QED BY <2>6, <2>7
  <1>8. GarbledInOrder' /\ PairsInOrder'
    BY <1>5 DEF IInv, InStep, GarbledInOrder, PairsInOrder
  <1>9. LabelsAreLabels'
    <2> SUFFICES ASSUME NEW w \in Wires
                 PROVE  eW'[w] = Lab(setup.R, gW[i + 1][w], data'[w])
      BY <1>1, <1>5 DEF LabelsAreLabels, data
    <2>1. CASE w = t
      <3>1. eW'[w] = label /\ data'[w] = val /\ gW[i + 1][w] = zero
        BY <2>1, <1>1, <1>3 DEF zero
      <3> QED BY <3>1 DEF label
    <2>2. CASE w # t
      <3>1. eW'[w] = eW[w] /\ data'[w] = data[w] /\ gW[i + 1][w] = gW[i][w]
        BY <2>2, <1>1, <1>3
      <3> QED BY <3>1, <1>3
    <2> QED BY <2>1, <2>2
  <1>10. ZeroHeld'
    <2> SUFFICES ASSUME NEW z \in 1..i, FirstZero(prog, z), StillZero(prog, z, i)
                 PROVE  ~data'[prog[z].dest]
      BY <1>1, <1>5 DEF ZeroHeld
    <2> DEFINE w == prog[z].dest
    <2>1. w \in Wires /\ IsZeroGate(prog[z])
      BY <1>2, SetupFacts DEF FirstZero, Op, prog
    <2>0. IsZeroGate(op) => ~val
      <3> SUFFICES ASSUME IsZeroGate(op) PROVE ~val
        OBVIOUS
      <3>1. op.options = "gate" /\ op.table = ZeroTable /\ op.x \in Wires /\ op.y \in Wires
        BY <1>1 DEF IsZeroGate, Op
      <3>2. val = op.table[data[op.x]][data[op.y]]
        BY <3>1 DEF val, Clear!Value, prog
      <3> QED BY <3>1, <3>2, <1>3 DEF ZeroTable
    <2>2. CASE z = i
      <3>1. op.options = "gate" /\ op.table = ZeroTable /\ op.x \in Wires /\ op.y \in Wires
        BY <2>1, <2>2, <1>1 DEF IsZeroGate, Op
      <3>2. t = w
        BY <3>1, <2>2 DEF Target
      <3> QED BY <2>1, <2>2, <2>0, <3>2, <1>1, <1>3
    <2>3. CASE z # i
      <3>1. z \in 1..eAt
        BY <2>3, <1>2
      <3>2. StillZero(prog, z, eAt)
        BY <1>2 DEF StillZero
      <3>3. ~data[w]
        BY <3>1, <3>2 DEF IInv, InStep, ZeroHeld
      <3>4. CASE t = w
        <4>1. op.options = "output" \/ IsZeroGate(op)
          BY <3>1, <3>4, <1>2 DEF StillZero
        <4>2. ~val
          BY <4>1, <2>0, <3>3, <3>4, <1>1
        <4> QED BY <4>2, <3>4, <1>1, <1>3
      <3>5. CASE t # w
        BY <3>3, <3>5, <2>1, <1>1, <1>3
      <3> QED BY <3>4, <3>5
    <2> QED BY <2>2, <2>3
  <1>11. KeysAreKeys'
    <2>1. Len(eKeys) <= Len(gKeys) /\ Len(gKeys) \in Nat /\ Len(eKeys) \in Nat
      BY <1>2 DEF IInv, InStep, KeysAreKeys, TypeOK
    <2>2. \A j \in 1..Len(eKeys) : \E b \in BOOLEAN : eKeys[j] = gKeys[j][b]
      BY DEF IInv, InStep, KeysAreKeys
    <2>3. CASE IsKeyOutput(op)
      <3>1. gKeys[Len(eKeys) + 1] = [b \in BOOLEAN |-> Lab(setup.R, zero, b)]
        <4>1. gKeys[KeysBefore(prog, i) + 1] =
                [b \in BOOLEAN |-> Lab(setup.R, gW[i + 1][op.dest], b)]
          BY <2>3, <1>1 DEF IInv, InStep, PairsInOrder
        <4>2. op.dest = t
          BY <2>3, <1>1 DEF IsKeyOutput
        <4> QED BY <4>1, <4>2, <1>2 DEF zero
      <3>2. eKeys'[Len(eKeys) + 1] = gKeys[Len(eKeys) + 1][val]
        BY <3>1, <2>3, <1>1, <1>6 DEF label
      <3>3. Len(eKeys) + 1 <= Len(gKeys)
        <4>1. /\ i \in 1..Len(setup.prog)
              /\ gAt + 1 \in (i + 1)..(Len(setup.prog) + 1)
          BY <1>1, <1>2 DEF IInv, InStep, TypeOK, prog
        <4>2. /\ KeysBefore(prog, i + 1) <= KeysBefore(prog, gAt + 1)
              /\ KeysBefore(prog, i + 1) = KeysBefore(prog, i) + 1
          <5> HIDE DEF i
          <5> QED BY <4>1, <2>3, <1>2, KeyCount DEF prog
        <4> QED BY <4>2, <1>2 DEF IInv, InStep, CountersAgree
      <3>4. \A j \in 1..Len(eKeys') : j \in 1..Len(eKeys) \/ j = Len(eKeys) + 1
        BY <2>1, <2>3, <1>6
      <3>5. \A j \in 1..Len(eKeys') : \E b \in BOOLEAN : eKeys'[j] = gKeys[j][b]
        BY <2>2, <3>2, <3>4, <1>1, <1>6
      <3> QED BY <3>3, <3>5, <2>3, <1>5, <1>6 DEF KeysAreKeys
    <2>4. CASE ~IsKeyOutput(op)
      BY <2>1, <2>2, <2>4, <1>5, <1>6 DEF KeysAreKeys
    <2> QED BY <2>3, <2>4
  <1> QED BY <1>2, <1>5, <1>7, <1>8, <1>9, <1>10, <1>11 DEF IInv, InStep

----------------------------------------------------------------------------
(* The theorems. *)

\* No step outside the two parties' touches the state.
LEMMA StutterStep == IInv /\ UNCHANGED vars => IInv'
  <1> SUFFICES ASSUME IInv, UNCHANGED vars PROVE IInv'
    OBVIOUS
  <1>1. UNCHANGED <<setup, gW, gInpIx, garbled, gKeys, eAt, eW, eInpIx, eOut, eKeys>>
    BY DEF vars, gVars, eVars
  <1>2. prog' = prog /\ gAt' = gAt /\ data' = data
    BY <1>1 DEF prog, gAt, data
  <1>3. TypeOK'
    BY <1>1, <1>2 DEF IInv, InStep, TypeOK
  <1>4. GarbledInOrder' /\ PairsInOrder'
    BY <1>1, <1>2 DEF IInv, InStep, GarbledInOrder, PairsInOrder
  <1>5. CountersAgree' /\ KeysAreKeys'
    BY <1>1, <1>2 DEF IInv, InStep, CountersAgree, KeysAreKeys
  <1>6. LabelsAreLabels' /\ ZeroHeld'
    BY <1>1, <1>2 DEF IInv, InStep, LabelsAreLabels, ZeroHeld
  <1> QED BY <1>1, <1>3, <1>4, <1>5, <1>6 DEF IInv, InStep

\* The invariant holds throughout every run.
THEOREM Invariant == Spec => []IInv
  <1>1. Init => IInv
    BY InitIInv
  <1>2. IInv /\ [Next]_vars => IInv'
    BY GenStep, EvlStep, StutterStep DEF Next
  <1> QED BY <1>1, <1>2, PTL DEF Spec

\* Generator and evaluator stay in step over the whole stream: operation,
\* counters, labels, pairs of the enclave, and the zero wire.
THEOREM StaysInStep == Spec => []InStep
  <1>1. IInv => InStep
    BY DEF IInv
  <1> QED BY <1>1, Invariant, PTL

\* The evaluator always holds one of the two labels of every wire, and one of
\* the generator's two keys of every enclave output: gen_next_gate() and
\* evl_next_gate() stay together, whatever the program, the keys and KDF256.
THEOREM LabelsCorrect == Spec => []Decodable
  <1>1. IInv => Decodable
    BY DEF IInv, Decodable
  <1> QED BY <1>1, Invariant, PTL

\* The garbled run starts like the run in the clear.
LEMMA InitClear == Init => Clear!Init
  <1> SUFFICES ASSUME Init PROVE Clear!Init
    OBVIOUS
  <1>1. data = [w \in Wires |-> FALSE]
    <2>1. \A w \in Wires : Decode(gW[eAt + 1][w], eW[w]) = FALSE
      <3>1. Zeros[Low] = FALSE
        BY BitsAssumption DEF Zeros
      <3>2. \A w \in Wires : gW[eAt + 1][w] = Zeros /\ eW[w] = Zeros
        BY DEF Init
      <3> QED BY <3>1, <3>2 DEF Decode
    <2> QED BY <2>1 DEF data
  <1>2. out = [p \in Party |-> <<>>]
    <2>1. Len(eKeys) = 0 /\ \A p \in {"GEN", "EVL"} : eOut[p] = <<>>
      BY DEF Init
    <2>2. [j \in 1..Len(eKeys) |-> Decode(gKeys[j][FALSE], eKeys[j])] = <<>>
      BY <2>1
    <2> QED BY <2>1, <2>2 DEF out, Party
  <1> QED BY <1>1, <1>2 DEF Clear!Init, Init, Clear!Party, Party

\* Garbling a gate is invisible in the clear: nothing the evaluator has read
\* is ever changed.
LEMMA GenClear == IInv /\ gen_next_gate => UNCHANGED Clear!vars
  <1> SUFFICES ASSUME IInv, gen_next_gate PROVE UNCHANGED Clear!vars
    OBVIOUS
  <1>1. UNCHANGED <<setup, eAt, eW, eOut, eKeys>>
    BY DEF gen_next_gate, eVars
  <1>2. gW'[eAt + 1] = gW[eAt + 1]
    <2>1. PICK new \in [Wires -> Label] : gW' = Append(gW, new)
      BY GenFacts
    <2>2. /\ gW \in Seq([Wires -> Label]) /\ Len(gW) = gAt + 1
          /\ eAt \in 0..gAt /\ gAt \in Nat
      BY DEF IInv, InStep, TypeOK, gAt
    <2>3. eAt + 1 \in 1..Len(gW)
      BY <2>2
    <2> QED BY <2>1, <2>2, <2>3
  <1>3. data' = data
    BY <1>1, <1>2 DEF data
  <1>4. \A j \in 1..Len(eKeys) : gKeys'[j] = gKeys[j]
    <2>1. PICK pair : gKeys' = Append(gKeys, pair) \/ gKeys' = gKeys
      BY GenFacts
    <2>2. /\ gKeys \in Seq([BOOLEAN -> Label]) /\ eKeys \in Seq(Label)
          /\ Len(eKeys) <= Len(gKeys)
      BY DEF IInv, InStep, TypeOK, KeysAreKeys
    <2>3. \A j \in 1..Len(eKeys) : j \in 1..Len(gKeys)
      BY <2>2
    <2> QED BY <2>1, <2>2, <2>3
  <1>5. out' = out
    BY <1>1, <1>4 DEF out
  <1> QED BY <1>1, <1>3, <1>5 DEF Clear!vars

\* Evaluating a garbled gate is executing its operation in the clear.
LEMMA EvlClear == IInv /\ evl_next_gate => Clear!Step
  <1> SUFFICES ASSUME IInv, evl_next_gate PROVE Clear!Step
    OBVIOUS
  <1> DEFINE i == eAt + 1
             op == prog[i]
             t == Target(prog, i)
             zero == gW[i + 1][t]
             val == Clear!Value(setup, i, data)
             label == Lab(setup.R, zero, val)
  <1>1. /\ i \in 1..Len(prog) /\ i \in 1..gAt /\ op \in Op
        /\ t \in Wires /\ zero \in Label /\ val \in BOOLEAN
        /\ op.options = "output" => val = data[op.dest] /\ t = op.dest
        /\ eAt' = i
        /\ data' = [data EXCEPT ![t] = val]
        /\ eOut' = IF op.options = "output" /\ op.party # "SGX"
                   THEN [eOut EXCEPT ![op.party] = Append(@, val)]
                   ELSE eOut
        /\ eKeys' = IF IsKeyOutput(op) THEN Append(eKeys, label) ELSE eKeys
        /\ UNCHANGED <<setup, prog, gVars>>
    BY EvlFacts
  <1>2. /\ setup \in Setups /\ setup.R \in Label /\ setup.R[Low]
        /\ eAt \in Nat /\ Len(prog) \in Nat
        /\ eKeys \in Seq(Label) /\ Len(eKeys) = KeysBefore(prog, i)
        /\ eOut \in [{"GEN", "EVL"} -> Seq(BOOLEAN)]
        /\ gKeys' = gKeys
    BY <1>1, SetupFacts DEF IInv, InStep, TypeOK, CountersAgree, prog, gAt, gVars
  <1>3. op.party \in Party
    BY <1>1 DEF Op
  <1>4. Clear!Target(prog, i) = t
    BY DEF Clear!Target, Target
  <1>5. Decode(zero, label) = val /\ label \in Label
    <2>1. zero \in Label /\ val \in BOOLEAN
      BY <1>1
    <2> HIDE DEF zero, val
    <2>2. label \in Label
      BY <2>1, <1>2, LabFacts
    <2>3. Decode(zero, label) = val
      BY <2>1, <1>2, LabFacts
    <2> QED BY <2>2, <2>3
  <1>6. IsKeyOutput(op) => gKeys[Len(eKeys) + 1][FALSE] = zero
    <2> SUFFICES ASSUME IsKeyOutput(op)
                 PROVE  gKeys[Len(eKeys) + 1][FALSE] = zero
      OBVIOUS
    <2>1. gKeys[KeysBefore(prog, i) + 1] =
            [b \in BOOLEAN |-> Lab(setup.R, gW[i + 1][op.dest], b)]
      BY <1>1 DEF IInv, InStep, PairsInOrder
    <2>2. op.dest = t
      BY <1>1 DEF IsKeyOutput
    <2> QED BY <2>1, <2>2, <1>2 DEF Lab
  <1> HIDE DEF zero, val, label
  <1> DEFINE bits == [j \in 1..Len(eKeys) |-> Decode(gKeys[j][FALSE], eKeys[j])]
  <1>7. bits \in Seq(BOOLEAN) /\ Len(bits) = Len(eKeys)
    <2>1. \A j \in 1..Len(eKeys) : Decode(gKeys[j][FALSE], eKeys[j]) \in BOOLEAN
      BY DEF Decode
    <2>2. Len(eKeys) \in Nat
      BY <1>2
    <2>3. bits \in [1..Len(eKeys) -> BOOLEAN]
      BY <2>1
    <2> HIDE DEF bits
    <2> QED BY <2>2, <2>3
  <1>8. out = [p \in Party |-> IF p = "SGX" THEN bits ELSE eOut[p]]
    BY DEF out
  <1>9. out' = IF op.options = "output"
               THEN [out EXCEPT ![op.party] = Append(@, val)]
               ELSE out
    <2>1. CASE IsKeyOutput(op)
      <3>1. eKeys' = Append(eKeys, label) /\ eOut' = eOut
        BY <2>1, <1>1 DEF IsKeyOutput
      <3>2. /\ Len(eKeys') = Len(eKeys) + 1 /\ Len(eKeys) \in Nat
            /\ \A j \in 1..Len(eKeys) : eKeys'[j] = eKeys[j]
            /\ eKeys'[Len(eKeys) + 1] = label
        <4>1. eKeys \in Seq(Label) /\ label \in Label
          BY <1>2, <1>5
        <4> QED BY <4>1, <3>1, AppendProperties
      <3> DEFINE n == Len(eKeys) + 1
                 new == [j \in 1..n |-> Decode(gKeys'[j][FALSE], eKeys'[j])]
      <3>3. [j \in 1..Len(eKeys') |-> Decode(gKeys'[j][FALSE], eKeys'[j])]
              = Append(bits, val)
        <4>1. \A j \in 1..Len(eKeys) : new[j] = bits[j]
          <5>1. \A j \in 1..Len(eKeys) : j \in 1..n
            BY <3>2
          <5> QED BY <5>1, <3>2, <1>2
        <4>2. new[n] = val
          <5>1. n \in 1..n
            BY <3>2
          <5> QED BY <5>1, <3>2, <2>1, <1>2, <1>5, <1>6
        <4>3. \A j \in 1..n : Decode(gKeys'[j][FALSE], eKeys'[j]) \in BOOLEAN
          BY DEF Decode
        <4>4. new \in [1..n -> BOOLEAN] /\ n \in Nat
          <5>1. n \in Nat
            BY <3>2
          <5> HIDE DEF n
          <5>2. new \in [1..n -> BOOLEAN]
            BY <4>3
          <5> QED BY <5>1, <5>2
        <4>5. val \in BOOLEAN
          BY <1>1
        <4> HIDE DEF new, bits
        <4>6. new \in Seq(BOOLEAN) /\ Len(new) = n
          BY <4>4
        <4>7. /\ Append(bits, val) \in Seq(BOOLEAN)
              /\ Len(Append(bits, val)) = n
              /\ \A j \in 1..Len(eKeys) : Append(bits, val)[j] = bits[j]
              /\ Append(bits, val)[n] = val
          BY <4>5, <1>7, AppendProperties
        <4>8. \A j \in 1..n : j \in 1..Len(eKeys) \/ j = n
          BY <3>2
        <4>9. \A j \in 1..Len(new) : new[j] = Append(bits, val)[j]
          BY <4>1, <4>2, <4>6, <4>7, <4>8
        <4>10. new = Append(bits, val)
          BY <4>6, <4>7, <4>9, SeqEqual
        <4> QED BY <4>10, <3>2 DEF new
      <3>4. out' = [p \in Party |-> IF p = "SGX" THEN Append(bits, val) ELSE eOut[p]]
        BY <3>1, <3>3 DEF out
      <3> HIDE DEF bits
      <3> QED BY <3>4, <1>3, <1>8, <2>1 DEF IsKeyOutput
    <2>2. CASE ~IsKeyOutput(op)
      <3>1. eKeys' = eKeys
        BY <2>2, <1>1
      <3>2. out' = [p \in Party |-> IF p = "SGX" THEN bits ELSE eOut'[p]]
        BY <3>1, <1>2 DEF out
      <3> HIDE DEF bits
      <3>3. CASE op.options = "output"
        <4>1. op.party # "SGX" /\ op.party \in {"GEN", "EVL"}
          BY <2>2, <3>3, <1>3 DEF IsKeyOutput, Party
        <4>2. eOut' = [eOut EXCEPT ![op.party] = Append(@, val)]
          BY <4>1, <3>3, <1>1
        <4> QED BY <4>1, <4>2, <3>2, <3>3, <1>2, <1>3, <1>8 DEF Party
      <3>4. CASE op.options # "output"
        <4>1. eOut' = eOut
          BY <3>4, <1>1
        <4> QED BY <4>1, <3>2, <3>4, <1>8
      <3> QED BY <3>3, <3>4
    <2> QED BY <2>1, <2>2
  <1>10. /\ eAt < Len(setup.prog) /\ eAt' = eAt + 1
         /\ data' = [data EXCEPT ![Clear!Target(setup.prog, eAt + 1)] =
                        Clear!Value(setup, eAt + 1, data)]
         /\ UNCHANGED setup
    <2>1. prog = setup.prog
      BY DEF prog
    <2>2. eAt < Len(prog)
      BY <1>1, <1>2
    <2>3. data' = [data EXCEPT ![Clear!Target(prog, i)] = val]
      BY <1>1, <1>4
    <2> QED BY <2>1, <2>2, <2>3, <1>1 DEF val
  <1>11. out' = IF op.options = "output"
                THEN [out EXCEPT ![op.party] = Append(@, data[op.dest])]
                ELSE out
    BY <1>1, <1>9
  <1> QED BY <1>10, <1>11 DEF Clear!Step, prog

\* The garbled circuit implements the program run in the clear, step for
\* step, wire values and outputs of all three parties (the safety part of
\* ImplementsClear; that every gate is evaluated in the end is TLC's).
THEOREM Refinement == Spec => Clear!Init /\ [][Clear!Next]_Clear!vars
  <1>1. Init => Clear!Init
    BY InitClear
  <1>2. IInv /\ [Next]_vars => [Clear!Next]_Clear!vars
    <2> SUFFICES ASSUME IInv, [Next]_vars PROVE [Clear!Next]_Clear!vars
      OBVIOUS
    <2>1. CASE gen_next_gate
      BY <2>1, GenClear
    <2>2. CASE evl_next_gate
      BY <2>2, EvlClear DEF Clear!Next
    <2>3. CASE UNCHANGED vars
      BY <2>3 DEF Clear!vars, vars, gVars, eVars, data, out
    <2> QED BY <2>1, <2>2, <2>3 DEF Next
  <1> QED BY <1>1, <1>2, Invariant, PTL DEF Spec

=============================================================================
