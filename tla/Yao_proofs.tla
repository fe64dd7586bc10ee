----------------------------- MODULE Yao_proofs -----------------------------
(***************************************************************************)
(* Proofs about the parts of a Yao execution that are not the rounds: the  *)
(* oblivious transfer, for every number of rows and columns, any two       *)
(* hashes, any inputs and any randomness; the handover of the labels, for  *)
(* every number of wires and of queries; and the reader of programs, for   *)
(* every program and any number of functions.  And, from these and from    *)
(* the proofs about the rounds, about the four of them side by side.       *)
(***************************************************************************)
EXTENDS MCYao, YaoRounds_proofs, Recursion

----------------------------------------------------------------------------
(* The transfer.  Three facts carry it: the exponents of a base transfer    *)
(* cancel (Cancels), what is hidden twice under the same value is back      *)
(* (XorBack), and the relation of the columns is one of the rows            *)
(* (ColumnsRelated).                                                        *)

\* Where each party is says which messages there are.
OtProgress ==
    /\ gOtAt # "crs" => crs = Crs(setup)
    /\ gOtAt \notin {"crs", "gr"} => blinded = Blinded(setup, crs)
    /\ gOtAt \in {"rows", "pairs", "done"} => eOtAt # "base" /\ Len(gBase) = K
    /\ Len(xy) = Len(eBase) /\ Len(gBase) <= Len(xy) /\ Len(xy) <= K
    /\ xy \in Seq([X : [BOOLEAN -> Int], Y : [BOOLEAN -> Int]])
    /\ eBase \in Seq([BOOLEAN -> Column]) /\ gBase \in Seq(Column)
    /\ gOtAt \in {"crs", "gr"} => xy = <<>>

\* What has been sent was made from the setup.
OtSent ==
    /\ \A c \in 1..Len(xy) :
          /\ xy[c] = XY(setup, Crs(setup), Blinded(setup, Crs(setup)), c)
          /\ \A b \in BOOLEAN : eBase[c][b] = BaseHash(setup.Z[c][b])
    /\ eOtAt # "base" => /\ Len(xy) = K
                       /\ xors = XorValues(setup, eBase)
                       /\ eT = Transposed(setup.T)
    /\ gOtAt = "done" => pairs = Padded(setup, gQ)

\* The inductive invariant.
OtIInv ==
    /\ setup \in Setups
    /\ OtTypeOK
    /\ OtProgress
    /\ OtSent
    /\ BaseChosen
    /\ ColumnsRelated
    /\ KeysOfInput

----------------------------------------------------------------------------

\* A product of three exponents in another order.
LEMMA Rearranged ==
    ASSUME NEW g \in Int, NEW h \in Int, NEW r \in Int, NEW s \in Int,
           NEW t \in Int, NEW z \in Int
    PROVE  ((g * r) * s + (h * r) * t + z) - (g * s + h * t) * r = z
OBVIOUS

\* BOOLEAN-indexed exponents of the CRS are integers.
LEMMA CrsTyped ==
    ASSUME NEW u, SetupOK(u), NEW b \in BOOLEAN
    PROVE  Crs(u).g[b] \in Int /\ Crs(u).h[b] \in Int
<1>1. u.y \in Int /\ u.a \in Int
  BY DEF SetupOK
<1>2. u.y * (u.a + 1) \in Int
  BY <1>1
<1> QED
  BY <1>1, <1>2 DEF Crs

\* The key of the choice comes out of a base transfer.
LEMMA Cancels ==
    ASSUME NEW u, SetupOK(u), NEW c \in Cols
    PROVE  Chosen(u, XY(u, Crs(u), Blinded(u, Crs(u)), c), c) = u.Z[c][u.S[c]]
<1> DEFINE b == u.S[c]
           g == Crs(u).g[b]
           h == Crs(u).h[b]
           r == u.r[c]
           s == u.s[c][b]
           t == u.t[c][b]
           z == u.Z[c][b]
           m == XY(u, Crs(u), Blinded(u, Crs(u)), c)
<1>1. b \in BOOLEAN
  BY DEF SetupOK, Row
<1>2. /\ g \in Int /\ h \in Int /\ r \in Int
      /\ s \in Int /\ t \in Int /\ z \in Int
  <2>1. g \in Int /\ h \in Int
    BY <1>1, CrsTyped
  <2>2. r \in Int
    BY DEF SetupOK
  <2>3. s \in Int
    BY <1>1 DEF SetupOK
  <2>4. t \in Int
    BY <1>1 DEF SetupOK
  <2>5. z \in Int
    BY <1>1 DEF SetupOK
  <2> QED
    BY <2>1, <2>2, <2>3, <2>4, <2>5
<1>3. Blinded(u, Crs(u))[c] = [gr |-> g * r, hr |-> h * r]
  BY DEF Blinded
<1>4. m.X[b] = g * s + h * t
  BY <1>1 DEF XY
<1>5. m.Y[b] = (g * r) * s + (h * r) * t + z
  BY <1>1, <1>3 DEF XY
<1>6. Chosen(u, m, c) = m.Y[b] - m.X[b] * r
  BY DEF Chosen
<1> HIDE DEF b, g, h, r, s, t, z, m
<1>7. ((g * r) * s + (h * r) * t + z) - (g * s + h * t) * r = z
  BY <1>2, Rearranged
<1> QED
  BY <1>4, <1>5, <1>6, <1>7 DEF z, m, b

\* Exclusive or keeps the length, and twice the same is nothing.
LEMMA XorTyped ==
    ASSUME NEW D, NEW a \in [D -> BOOLEAN], NEW b \in [D -> BOOLEAN]
    PROVE  Xor(a, b) \in [D -> BOOLEAN]
BY DEF Xor

\* What is hidden twice under the same value is back.
LEMMA XorBack ==
    ASSUME NEW D, NEW a \in [D -> BOOLEAN], NEW b \in [D -> BOOLEAN]
    PROVE  /\ Xor(Xor(a, b), b) = a
           /\ Xor(b, Xor(a, b)) = a
<1>1. \A i \in D : a[i] \in BOOLEAN /\ b[i] \in BOOLEAN
  OBVIOUS
<1>2. Xor(Xor(a, b), b) = [i \in D |-> (a[i] # b[i]) # b[i]]
  BY DEF Xor
<1>3. Xor(b, Xor(a, b)) = [i \in D |-> b[i] # (a[i] # b[i])]
  BY DEF Xor
<1>4. \A i \in D : ((a[i] # b[i]) # b[i]) = a[i] /\ (b[i] # (a[i] # b[i])) = a[i]
  BY <1>1
<1> QED
  BY <1>2, <1>3, <1>4

\* The column the generator opens is the evaluator's, or that plus R.
LEMMA OpenedColumn ==
    ASSUME NEW u, SetupOK(u), NEW base \in [BOOLEAN -> Column], NEW c \in Cols,
           NEW hidden,
           hidden = [b \in BOOLEAN |-> IF b THEN Xor(Xor(u.T[c], base[b]), u.R)
                                       ELSE Xor(u.T[c], base[b])]
    PROVE  Xor(base[u.S[c]], hidden[u.S[c]]) =
               IF u.S[c] THEN Xor(u.T[c], u.R) ELSE u.T[c]
<1>1. u.S[c] \in BOOLEAN /\ u.T[c] \in Column /\ u.R \in Column
  BY DEF SetupOK, Row
<1>2. CASE u.S[c] = TRUE
  <2>1. hidden[TRUE] = Xor(Xor(u.T[c], base[TRUE]), u.R)
    OBVIOUS
  <2>2. base[TRUE] \in Column
    OBVIOUS
  <2>3. Xor(base[TRUE], Xor(Xor(u.T[c], base[TRUE]), u.R)) = Xor(u.T[c], u.R)
    <3> DEFINE t == u.T[c]
               k == base[TRUE]
               r == u.R
    <3>1. /\ t \in [OtRows -> BOOLEAN] /\ k \in [OtRows -> BOOLEAN] /\ r \in [OtRows -> BOOLEAN]
      BY <1>1, <2>2 DEF Column
    <3> HIDE DEF t, k, r
    <3>2. Xor(k, Xor(Xor(t, k), r)) = [j \in OtRows |-> k[j] # ((t[j] # k[j]) # r[j])]
      BY <3>1 DEF Xor
    <3>3. Xor(t, r) = [j \in OtRows |-> t[j] # r[j]]
      BY <3>1 DEF Xor
    <3>4. \A j \in OtRows : (k[j] # ((t[j] # k[j]) # r[j])) = (t[j] # r[j])
      <4>1. TAKE j \in OtRows
      <4>2. t[j] \in BOOLEAN /\ k[j] \in BOOLEAN /\ r[j] \in BOOLEAN
        BY <3>1
      <4> QED
        BY <4>2
    <3>5. Xor(k, Xor(Xor(t, k), r)) = Xor(t, r)
      BY <3>2, <3>3, <3>4
    <3> QED
      BY <3>5 DEF t, k, r
  <2> QED
    BY <1>2, <2>1, <2>3
<1>3. CASE u.S[c] = FALSE
  <2>1. hidden[FALSE] = Xor(u.T[c], base[FALSE])
    OBVIOUS
  <2>2. Xor(base[FALSE], Xor(u.T[c], base[FALSE])) = u.T[c]
    BY <1>1, XorBack DEF Column
  <2> QED
    BY <1>3, <2>1, <2>2
<1> QED
  BY <1>1, <1>2, <1>3

\* Turned, the relation of the columns is one of the rows: a row of the
\* generator is the evaluator's, plus S where its input bit is 1.
LEMMA TurnedRows ==
    ASSUME NEW u, SetupOK(u), NEW q \in [Cols -> Column],
           \A c \in Cols : q[c] = IF u.S[c] THEN Xor(u.T[c], u.R) ELSE u.T[c],
           NEW j \in OtRows
    PROVE  Transposed(q)[j] = IF u.R[j] THEN Xor(Transposed(u.T)[j], u.S)
                              ELSE Transposed(u.T)[j]
<1>1. /\ u.R \in [OtRows -> BOOLEAN] /\ u.S \in [Cols -> BOOLEAN]
      /\ \A c \in Cols : u.T[c] \in [OtRows -> BOOLEAN]
  BY DEF SetupOK, Row, Column
<1>2. Transposed(q)[j] = [c \in Cols |-> q[c][j]]
  BY DEF Transposed
<1>3. Transposed(u.T)[j] = [c \in Cols |-> u.T[c][j]]
  BY DEF Transposed
<1>4. \A c \in Cols : q[c][j] = IF u.S[c] THEN u.T[c][j] # u.R[j] ELSE u.T[c][j]
  BY <1>1 DEF Xor
<1>5. Xor(Transposed(u.T)[j], u.S) = [c \in Cols |-> u.T[c][j] # u.S[c]]
  BY <1>3 DEF Xor
<1>6. \A c \in Cols : u.T[c][j] \in BOOLEAN /\ u.S[c] \in BOOLEAN /\ u.R[j] \in BOOLEAN
  BY <1>1
<1>7. u.R[j] \in BOOLEAN
  BY <1>1
<1>8. CASE u.R[j] = TRUE
  <2>1. \A c \in Cols : q[c][j] = (u.T[c][j] # u.S[c])
    <3>1. TAKE c \in Cols
    <3>2. q[c][j] = IF u.S[c] THEN u.T[c][j] # TRUE ELSE u.T[c][j]
      BY <1>4, <1>8
    <3> QED
      BY <1>6, <3>2
  <2> QED
    BY <1>2, <1>5, <1>8, <2>1
<1>9. CASE u.R[j] = FALSE
  <2>1. \A c \in Cols : q[c][j] = u.T[c][j]
    <3>1. TAKE c \in Cols
    <3>2. q[c][j] = IF u.S[c] THEN u.T[c][j] # FALSE ELSE u.T[c][j]
      BY <1>4, <1>9
    <3> QED
      BY <1>6, <3>2
  <2> QED
    BY <1>2, <1>3, <1>9, <2>1
<1> QED
  BY <1>7, <1>8, <1>9

\* The pad the evaluator takes off is the one on the key of its bit.
LEMMA OwnPad ==
    ASSUME NEW u, SetupOK(u), NEW q \in [OtRows -> Row], NEW t \in [OtRows -> Row],
           \A j \in OtRows : q[j] = IF u.R[j] THEN Xor(t[j], u.S) ELSE t[j]
    PROVE  Unpadded(u, Padded(u, q), t) = [j \in OtRows |-> u.X[j][u.R[j]]]
<1>1. SUFFICES ASSUME NEW j \in OtRows
               PROVE  Xor(Padded(u, q)[j][u.R[j]], RowHash(t[j])) = u.X[j][u.R[j]]
  BY DEF Unpadded
<1>2. /\ u.R[j] \in BOOLEAN /\ u.S \in Row /\ t[j] \in Row
      /\ \A b \in BOOLEAN : u.X[j][b] \in OtKey
  BY DEF SetupOK, Column
<1>3. RowHash(t[j]) \in OtKey
  BY <1>2, HashAssumption
<1>4. Padded(u, q)[j][u.R[j]] = Xor(u.X[j][u.R[j]], RowHash(t[j]))
  <2>1. CASE u.R[j] = TRUE
    <3>1. Padded(u, q)[j][TRUE] = Xor(u.X[j][TRUE], RowHash(Xor(q[j], u.S)))
      BY DEF Padded
    <3>2. Xor(q[j], u.S) = t[j]
      BY <1>2, <2>1, XorBack DEF Row
    <3> QED
      BY <2>1, <3>1, <3>2
  <2>2. CASE u.R[j] = FALSE
    BY <2>2 DEF Padded
  <2> QED
    BY <1>2, <2>1, <2>2
<1> QED
  BY <1>2, <1>3, <1>4, XorBack DEF OtKey

----------------------------------------------------------------------------

\* Both parties have their types and places at the start.
LEMMA OtInitInv == OtInit => OtIInv
BY SizesAssumption
   DEF OtInit, OtIInv, OtTypeOK, OtProgress, OtSent, BaseChosen, ColumnsRelated, KeysOfInput

\* The steps before the first message of the evaluator.
LEMMA CrsInv ==
    ASSUME OtIInv, GenCrs \/ GenBlinded
    PROVE  OtIInv'
<1>1. CASE GenCrs
  BY <1>1
     DEF GenCrs, OtIInv, OtTypeOK, OtProgress, OtSent, BaseChosen, ColumnsRelated, KeysOfInput
<1>2. CASE GenBlinded
  BY <1>2
     DEF GenBlinded, OtIInv, OtTypeOK, OtProgress, OtSent, BaseChosen, ColumnsRelated, KeysOfInput
<1> QED
  BY <1>1, <1>2

\* A message of a base transfer, and both keys it hides.
LEMMA EvlBaseInv ==
    ASSUME OtIInv, EvlBase
    PROVE  OtIInv'
<1> DEFINE c == Len(xy) + 1
           m == XY(setup, crs, blinded, c)
           k == [b \in BOOLEAN |-> BaseHash(setup.Z[c][b])]
<1>1. SetupOK(setup)
  BY SetupsAssumption DEF OtIInv
<1>2. c \in Cols
  BY SizesAssumption DEF EvlBase, Cols, OtIInv, OtProgress
<1>3. crs = Crs(setup) /\ blinded = Blinded(setup, Crs(setup))
  BY DEF EvlBase, OtIInv, OtTypeOK, OtProgress
<1>4. m \in [X : [BOOLEAN -> Int], Y : [BOOLEAN -> Int]]
  <2>1. \A b \in BOOLEAN : crs.g[b] \in Int /\ crs.h[b] \in Int
    BY <1>1, <1>3, CrsTyped
  <2>2. blinded[c] = [gr |-> crs.g[setup.S[c]] * setup.r[c],
                      hr |-> crs.h[setup.S[c]] * setup.r[c]]
    BY <1>2, <1>3 DEF Blinded
  <2>3. setup.S[c] \in BOOLEAN /\ setup.r[c] \in Int
    BY <1>1, <1>2 DEF SetupOK, Row
  <2>4. blinded[c].gr \in Int /\ blinded[c].hr \in Int
    <3>1. \A v, w \in Int : v * w \in Int
      OBVIOUS
    <3> QED
      BY <2>1, <2>2, <2>3, <3>1
  <2>5. \A b \in BOOLEAN :
           setup.s[c][b] \in Int /\ setup.t[c][b] \in Int /\ setup.Z[c][b] \in Int
    BY <1>1, <1>2 DEF SetupOK
  <2>6. \A v, w, x, y \in Int : v * w + x * y \in Int
    OBVIOUS
  <2>7. \A v, w, x, y, z \in Int : v * w + x * y + z \in Int
    OBVIOUS
  <2> QED
    BY <2>1, <2>4, <2>5, <2>6, <2>7 DEF XY
<1>5. k \in [BOOLEAN -> Column]
  BY <1>2, HashAssumption DEF OtIInv
<1>6. /\ xy' = Append(xy, m) /\ eBase' = Append(eBase, k)
      /\ UNCHANGED <<setup, gOtAt, eOtAt, crs, blinded, gBase, xors, gQ, eT, pairs, eOtKeys>>
      /\ eOtAt = "base" /\ gOtAt \notin {"crs", "gr"} /\ c <= K
  BY DEF EvlBase
<1>7. m = XY(setup, Crs(setup), Blinded(setup, Crs(setup)), c)
  BY <1>3
<1>8. \A b \in BOOLEAN : k[b] = BaseHash(setup.Z[c][b])
  OBVIOUS
<1> HIDE DEF m, k
<1>9. /\ Len(xy') = c /\ Len(eBase') = c /\ xy'[c] = m /\ eBase'[c] = k
      /\ \A i \in 1..Len(xy) : xy'[i] = xy[i] /\ eBase'[i] = eBase[i]
      /\ xy' \in Seq([X : [BOOLEAN -> Int], Y : [BOOLEAN -> Int]])
      /\ eBase' \in Seq([BOOLEAN -> Column])
  BY <1>4, <1>5, <1>6 DEF OtIInv, OtProgress
<1>10. OtTypeOK' /\ OtProgress'
  BY <1>6, <1>9, SizesAssumption DEF OtIInv, OtTypeOK, OtProgress
<1>11. OtSent'
  <2>1. \A i \in 1..Len(xy') :
           /\ xy'[i] = XY(setup, Crs(setup), Blinded(setup, Crs(setup)), i)
           /\ \A b \in BOOLEAN : eBase'[i][b] = BaseHash(setup.Z[i][b])
    <3>1. TAKE i \in 1..Len(xy')
    <3>2. CASE i = c
      BY <1>7, <1>8, <1>9, <3>2
    <3>3. CASE i # c
      <4>1. i \in 1..Len(xy)
        BY <1>9, <3>1, <3>3 DEF OtIInv, OtProgress
      <4> QED
        BY <1>9, <4>1 DEF OtIInv, OtSent
    <3> QED
      BY <3>2, <3>3
  <2>2. gOtAt # "done"
    BY <1>6 DEF OtIInv, OtProgress
  <2> QED
    BY <1>6, <2>1, <2>2 DEF OtSent
<1>12. BaseChosen'
  <2>1. \A i \in 1..Len(gBase) : eBase'[i] = eBase[i]
    BY <1>9 DEF OtIInv, OtProgress
  <2> QED
    BY <1>6, <2>1 DEF OtIInv, BaseChosen
<1>13. ColumnsRelated' /\ KeysOfInput' /\ setup' \in Setups
  BY <1>6 DEF OtIInv, ColumnsRelated, KeysOfInput
<1> QED
  BY <1>10, <1>11, <1>12, <1>13 DEF OtIInv

\* The generator opens a base transfer.
LEMMA GenBaseInv ==
    ASSUME OtIInv, GenBase
    PROVE  OtIInv'
<1> DEFINE c == Len(gBase) + 1
           k == BaseHash(Chosen(setup, xy[c], c))
<1>1. SetupOK(setup)
  BY SetupsAssumption DEF OtIInv
<1>2. /\ gBase' = Append(gBase, k) /\ gOtAt = "base" /\ c <= Len(xy)
      /\ UNCHANGED <<setup, gOtAt, eOtAt, crs, blinded, xy, eBase, xors, gQ, eT, pairs, eOtKeys>>
  BY DEF GenBase
<1>3. c \in Cols /\ c \in 1..Len(xy)
  BY <1>2, SizesAssumption DEF Cols, OtIInv, OtProgress
<1>4. setup.S[c] \in BOOLEAN
  BY <1>1, <1>3 DEF SetupOK, Row
<1>5. k = eBase[c][setup.S[c]]
  BY <1>1, <1>3, <1>4, Cancels DEF OtIInv, OtSent
<1>6. k \in Column
  BY <1>3, <1>4, <1>5 DEF OtIInv, OtProgress
<1> HIDE DEF k
<1>7. /\ Len(gBase') = c /\ gBase'[c] = k /\ gBase' \in Seq(Column)
      /\ \A i \in 1..Len(gBase) : gBase'[i] = gBase[i]
  BY <1>2, <1>6 DEF OtIInv, OtProgress
<1>8. OtTypeOK' /\ OtProgress'
  BY <1>2, <1>3, <1>7 DEF OtIInv, OtTypeOK, OtProgress
<1>9. BaseChosen'
  <2>1. \A i \in 1..Len(gBase') : gBase'[i] = eBase[i][setup.S[i]]
    <3>1. TAKE i \in 1..Len(gBase')
    <3>2. CASE i = c
      BY <1>5, <1>7, <3>2
    <3>3. CASE i # c
      <4>1. i \in 1..Len(gBase)
        BY <1>7, <3>1, <3>3 DEF OtIInv, OtProgress
      <4> QED
        BY <1>7, <4>1 DEF OtIInv, BaseChosen
    <3> QED
      BY <3>2, <3>3
  <2> QED
    BY <1>2, <2>1 DEF BaseChosen
<1>10. OtSent' /\ ColumnsRelated' /\ KeysOfInput' /\ setup' \in Setups
  BY <1>2 DEF OtIInv, OtSent, ColumnsRelated, KeysOfInput
<1> QED
  BY <1>8, <1>9, <1>10 DEF OtIInv

\* The evaluator sends its columns and turns its matrix.
LEMMA EvlXorInv ==
    ASSUME OtIInv, EvlXor
    PROVE  OtIInv'
<1>1. SetupOK(setup)
  BY SetupsAssumption DEF OtIInv
<1>2. /\ eOtAt = "base" /\ eOtAt' = "pairs" /\ Len(xy) = K
      /\ xors' = XorValues(setup, eBase) /\ eT' = Transposed(setup.T)
      /\ UNCHANGED <<setup, gOtAt, crs, blinded, xy, eBase, gBase, gQ, pairs, eOtKeys>>
  BY DEF EvlXor
<1>3. gOtAt \notin {"rows", "pairs", "done"}
  BY <1>2 DEF OtIInv, OtProgress
<1>4. Transposed(setup.T) \in [OtRows -> Row]
  BY <1>1 DEF Transposed, SetupOK, Column, Row
<1> QED
  BY <1>2, <1>3, <1>4
     DEF OtIInv, OtTypeOK, OtProgress, OtSent, BaseChosen, ColumnsRelated, KeysOfInput

\* The generator opens the columns.
LEMMA GenXorInv ==
    ASSUME OtIInv, GenXor
    PROVE  OtIInv'
<1>1. SetupOK(setup)
  BY SetupsAssumption DEF OtIInv
<1>2. /\ gOtAt = "base" /\ gOtAt' = "rows" /\ Len(gBase) = K /\ eOtAt # "base"
      /\ gQ' = Opened(setup, gBase, xors)
      /\ UNCHANGED <<setup, eOtAt, crs, blinded, xy, eBase, gBase, xors, eT, pairs, eOtKeys>>
  BY DEF GenXor
<1>3. Len(xy) = K /\ xors = XorValues(setup, eBase)
  BY <1>2 DEF OtIInv, OtSent
<1>4. \A c \in Cols : gQ'[c] = IF setup.S[c] THEN Xor(setup.T[c], setup.R)
                               ELSE setup.T[c]
  <2>1. TAKE c \in Cols
  <2>2. c \in 1..Len(gBase) /\ c \in 1..Len(eBase)
    BY <1>2, <1>3 DEF Cols, OtIInv, OtProgress
  <2>3. gBase[c] = eBase[c][setup.S[c]] /\ eBase[c] \in [BOOLEAN -> Column]
    BY <2>2 DEF OtIInv, BaseChosen, OtProgress
  <2>4. xors[c] = [b \in BOOLEAN |->
                      IF b THEN Xor(Xor(setup.T[c], eBase[c][b]), setup.R)
                      ELSE Xor(setup.T[c], eBase[c][b])]
    BY <1>3, <2>1 DEF XorValues
  <2>5. gQ'[c] = Xor(gBase[c], xors[c][setup.S[c]])
    BY <1>2, <2>1 DEF Opened
  <2> QED
    BY <1>1, <2>1, <2>3, <2>4, <2>5, OpenedColumn
<1>5. gQ' \in [Cols -> Column]
  <2>1. \A c \in Cols : gQ'[c] \in Column
    <3>1. TAKE c \in Cols
    <3>2. setup.T[c] \in [OtRows -> BOOLEAN] /\ setup.R \in [OtRows -> BOOLEAN]
      BY <1>1 DEF SetupOK, Column
    <3>3. Xor(setup.T[c], setup.R) \in [OtRows -> BOOLEAN]
      BY <3>2, XorTyped
    <3> QED
      BY <1>4, <3>1, <3>2, <3>3 DEF Column
  <2> QED
    BY <1>2, <2>1 DEF Opened
<1>6. ColumnsRelated'
  BY <1>2, <1>4 DEF ColumnsRelated
<1> QED
  BY <1>2, <1>3, <1>5, <1>6
     DEF OtIInv, OtTypeOK, OtProgress, OtSent, BaseChosen, KeysOfInput

\* The generator turns its matrix.
LEMMA GenRowsInv ==
    ASSUME OtIInv, GenRows
    PROVE  OtIInv'
<1>1. SetupOK(setup)
  BY SetupsAssumption DEF OtIInv
<1>2. /\ gOtAt = "rows" /\ gOtAt' = "pairs" /\ gQ' = Transposed(gQ)
      /\ UNCHANGED <<setup, eOtAt, crs, blinded, xy, eBase, gBase, xors, eT, pairs, eOtKeys>>
  BY DEF GenRows
<1>3. gQ \in [Cols -> Column] /\ eOtAt # "base" /\ eT = Transposed(setup.T)
  BY <1>2 DEF OtIInv, OtTypeOK, OtProgress, OtSent
<1>4. \A c \in Cols : gQ[c] = IF setup.S[c] THEN Xor(setup.T[c], setup.R)
                              ELSE setup.T[c]
  BY <1>2 DEF OtIInv, ColumnsRelated
<1>5. \A j \in OtRows : gQ'[j] = IF setup.R[j] THEN Xor(eT[j], setup.S) ELSE eT[j]
  BY <1>1, <1>2, <1>3, <1>4, TurnedRows
<1>6. gQ' \in [OtRows -> Row]
  BY <1>2, <1>3 DEF Transposed, Column, Row
<1>7. ColumnsRelated'
  BY <1>2, <1>5 DEF ColumnsRelated
<1> QED
  BY <1>2, <1>3, <1>6, <1>7
     DEF OtIInv, OtTypeOK, OtProgress, OtSent, BaseChosen, KeysOfInput

\* The last message, and what the evaluator makes of it.
LEMMA PairsInv ==
    ASSUME OtIInv, GenPairs \/ EvlPairs
    PROVE  OtIInv'
<1>1. SetupOK(setup)
  BY SetupsAssumption DEF OtIInv
<1>2. CASE GenPairs
  <2>1. eOtAt # "done" \/ eOtKeys' = eOtKeys
    BY <1>2 DEF GenPairs
  <2> QED
    BY <1>2, <2>1
       DEF GenPairs, OtIInv, OtTypeOK, OtProgress, OtSent, BaseChosen, ColumnsRelated, KeysOfInput
<1>3. CASE EvlPairs
  <2>1. /\ gOtAt = "done" /\ eOtAt = "pairs" /\ eOtAt' = "done"
        /\ eOtKeys' = Unpadded(setup, pairs, eT)
        /\ UNCHANGED <<setup, gOtAt, crs, blinded, xy, eBase, gBase, xors, gQ, eT, pairs>>
    BY <1>3 DEF EvlPairs
  <2>2. /\ gQ \in [OtRows -> Row] /\ eT \in [OtRows -> Row]
        /\ pairs = Padded(setup, gQ)
        /\ \A j \in OtRows : gQ[j] = IF setup.R[j] THEN Xor(eT[j], setup.S) ELSE eT[j]
    BY <2>1 DEF OtIInv, OtTypeOK, OtSent, ColumnsRelated
  <2>3. eOtKeys' = [j \in OtRows |-> setup.X[j][setup.R[j]]]
    BY <1>1, <2>1, <2>2, OwnPad
  <2>4. KeysOfInput'
    BY <2>1, <2>3 DEF KeysOfInput
  <2> QED
    BY <2>1, <2>4 DEF OtIInv, OtTypeOK, OtProgress, OtSent, BaseChosen, ColumnsRelated
<1> QED
  BY <1>2, <1>3

\* Every step of the two parties keeps the invariant.
LEMMA OtStepInv == OtIInv /\ [OtNext]_otVars => OtIInv'
<1>1. SUFFICES ASSUME OtIInv, [OtNext]_otVars PROVE OtIInv'
  OBVIOUS
<1>2. CASE UNCHANGED otVars
  BY <1>1, <1>2
     DEF otVars, OtIInv, OtTypeOK, OtProgress, OtSent, BaseChosen, ColumnsRelated, KeysOfInput
<1>3. CASE OtNext
  BY <1>1, <1>3, CrsInv, EvlBaseInv, GenBaseInv, EvlXorInv, GenXorInv, GenRowsInv,
     PairsInv DEF OtNext
<1> QED
  BY <1>1, <1>2, <1>3

\* For any sizes, hashes, inputs and randomness the evaluator of the OT
\* extension (BM_OT_ext_with_third) ends with the key of each of its bits.
THEOREM OtCorrect == OtSpec => []KeysOfInput
<1>1. OtIInv => KeysOfInput
  BY DEF OtIInv
<1> QED
  BY OtInitInv, OtStepInv, <1>1, PTL DEF OtSpec

\* And of each base transfer the generator has the key of its choice, the
\* columns and rows of the two matrices being related as they should.
THEOREM MatricesRelated == OtSpec => [](OtTypeOK /\ BaseChosen /\ ColumnsRelated)
<1>1. OtIInv => OtTypeOK /\ BaseChosen /\ ColumnsRelated
  BY DEF OtIInv
<1> QED
  BY OtInitInv, OtStepInv, <1>1, PTL DEF OtSpec

----------------------------------------------------------------------------
(* The handover of the labels. *)

\* What the enclave made: two labels that differ in their lowest bit for each
\* wire, the permutation bit, and the label of the wire's bit.
LabelsMade ==
    /\ gengc \in [Side -> [side : Side, low : {0, 1}]]
    /\ \A w \in Wire : gengc[2 * w].low # gengc[2 * w + 1].low
    /\ permutes = PermutesOf(gengc)
    /\ evlgc = Selected(gengc, bits)

\* The message YAO_INPUT: the output of the database programs, or the labels.
MsgMade ==
    /\ Database => msg = GenOutput(Answers(db, queries), evlgc, permutes)
    /\ Default => msg = Joined(gengc, 2 * W, permutes, W)

\* What the sender's application cuts out of it.
OutputOpened ==
    /\ Database =>
        /\ sAnswers = Answers(db, queries)
        /\ sEvlgc = evlgc
        /\ sPermutes = permutes
    /\ Default =>
        /\ sGengc = gengc
        /\ sPermutes = permutes

\* The inductive invariant: what is in which hands at which point.
HandoverIInv ==
    /\ HandoverTypeOK
    /\ ePc = "compute" => sPc = "wait" /\ (Database => msg = queries)
    /\ sPc = "query" => ePc = "idle"
    /\ sPc = "wait" => ePc \in {"compute", "failed"}
    /\ sPc \in {"input", "yao", "done"} => ePc \in {"yao", "done"}
    /\ ePc \in {"yao", "done"} => LabelsMade /\ MsgMade
    /\ ePc = "done" => /\ gYaoKeys = GenKeys(gengc)
                       /\ gPermutes = permutes
    /\ sPc \in {"yao", "done"} => OutputOpened
    /\ sPc = "done" => eYaoKeys = EvlKeys(sEvlgc)

----------------------------------------------------------------------------
(* The data. *)

\* A wire's sides are among the labels.
LEMMA SidesOfWire ==
    ASSUME NEW w \in Wire
    PROVE  2 * w \in Side /\ 2 * w + 1 \in Side /\ 2 * w # 2 * w + 1
           /\ (2 * w) % 2 = 0 /\ (2 * w + 1) % 2 = 1
BY SizeAssumption DEF Wire, Side

\* Every label is a side of some wire.
LEMMA NextSide ==
    ASSUME NEW s \in Side, s % 2 = 0
    PROVE  s + 1 \in Side
BY SizeAssumption DEF Side

\* transformToGarbled's flip: whatever was drawn, the lowest bits differ.
LEMMA DrawnDiffer ==
    ASSUME NEW low \in [Side -> {0, 1}]
    PROVE  /\ Drawn(low) \in [Side -> [side : Side, low : {0, 1}]]
           /\ \A w \in Wire : Drawn(low)[2 * w].low # Drawn(low)[2 * w + 1].low
<1>1. ASSUME NEW s \in Side
      PROVE  [side |-> s,
              low |-> IF s % 2 = 0 /\ low[s] = low[s + 1] THEN 1 - low[s] ELSE low[s]]
             \in [side : Side, low : {0, 1}]
  <2>1. low[s] \in {0, 1}
    OBVIOUS
  <2>2. 1 - low[s] \in {0, 1}
    BY <2>1
  <2> QED
    BY <2>1, <2>2
<1>2. ASSUME NEW w \in Wire
      PROVE  Drawn(low)[2 * w].low # Drawn(low)[2 * w + 1].low
  <2>1. low[2 * w] \in {0, 1} /\ low[2 * w + 1] \in {0, 1}
    BY SidesOfWire
  <2>2. Drawn(low)[2 * w].low =
            IF low[2 * w] = low[2 * w + 1] THEN 1 - low[2 * w] ELSE low[2 * w]
    BY SidesOfWire DEF Drawn
  <2>3. Drawn(low)[2 * w + 1].low = low[2 * w + 1]
    BY SidesOfWire DEF Drawn
  <2> QED
    BY <2>1, <2>2, <2>3
<1> QED
  BY <1>1, <1>2 DEF Drawn

\* The three parts of the message come out again at their offsets.
LEMMA PartsOfOutput ==
    ASSUME NEW a, NEW l, NEW p,
           a = [q \in Query |-> a[q]], l = [w \in Wire |-> l[w]], p = [w \in Wire |-> p[w]]
    PROVE  /\ Part(GenOutput(a, l, p), 0, O) = a
           /\ Part(GenOutput(a, l, p), O, W) = l
           /\ Part(GenOutput(a, l, p), O + W, W) = p
<1> DEFINE m == GenOutput(a, l, p)
<1>1. ASSUME NEW q \in Query PROVE m[0 + q] = a[q]
  BY SizeAssumption DEF GenOutput, Joined, Query
<1>2. ASSUME NEW w \in Wire PROVE m[O + w] = l[w]
  <2>1. /\ O + w \in 0 .. O + W - 1 /\ O + w \in 0 .. O + W + W - 1
        /\ O + w < O + W /\ ~(O + w < O) /\ O + w - O = w
    BY SizeAssumption DEF Wire
  <2>2. Joined(a, O, l, W)[O + w] = l[O + w - O]
    BY <2>1, SizeAssumption DEF Joined, Wire
  <2>3. m[O + w] = Joined(a, O, l, W)[O + w]
    BY <2>1, SizeAssumption DEF GenOutput, Joined, Wire
  <2> QED
    BY <2>1, <2>2, <2>3
<1>3. ASSUME NEW w \in Wire PROVE m[O + W + w] = p[w]
  <2>1. /\ O + W + w \in 0 .. O + W + W - 1
        /\ ~(O + W + w < O + W) /\ O + W + w - (O + W) = w
    BY SizeAssumption DEF Wire
  <2>2. m[O + W + w] = p[O + W + w - (O + W)]
    BY <2>1, SizeAssumption DEF GenOutput, Joined, Wire
  <2> QED
    BY <2>1, <2>2
<1> HIDE DEF m
<1>4. Part(m, 0, O) = a
  BY <1>1 DEF Part, Query
<1>5. Part(m, O, W) = l
  BY <1>2 DEF Part, Wire
<1>6. Part(m, O + W, W) = p
  BY <1>3 DEF Part, Wire
<1> QED
  BY <1>4, <1>5, <1>6 DEF m

\* And the two parts of the default case's message.
LEMMA PartsOfInput ==
    ASSUME NEW l, NEW p,
           l = [s \in Side |-> l[s]], p = [w \in Wire |-> p[w]]
    PROVE  /\ Part(Joined(l, 2 * W, p, W), 0, 2 * W) = l
           /\ Part(Joined(l, 2 * W, p, W), 2 * W, W) = p
<1> DEFINE m == Joined(l, 2 * W, p, W)
<1>1. ASSUME NEW s \in Side PROVE m[0 + s] = l[s]
  BY SizeAssumption DEF Joined, Side
<1>2. ASSUME NEW w \in Wire PROVE m[2 * W + w] = p[w]
  <2>1. /\ 2 * W + w \in 0 .. 2 * W + W - 1
        /\ ~(2 * W + w < 2 * W) /\ 2 * W + w - 2 * W = w
    BY SizeAssumption DEF Wire
  <2> QED
    BY <2>1, SizeAssumption DEF Joined, Wire
<1> HIDE DEF m
<1>4. Part(m, 0, 2 * W) = l
  BY <1>1 DEF Part, Side
<1>5. Part(m, 2 * W, W) = p
  BY <1>2 DEF Part, Wire
<1> QED
  BY <1>4, <1>5 DEF m

----------------------------------------------------------------------------
(* The steps. *)

LEMMA HandoverInitOK == HandoverInit => HandoverIInv
<1> SUFFICES ASSUME HandoverInit PROVE HandoverIInv
  OBVIOUS
<1>1. HandoverTypeOK
  BY DEF HandoverInit, HandoverTypeOK, NoLabels, NoBits
<1> QED
  BY <1>1 DEF HandoverInit, HandoverIInv

\* The enclave's labels are two for each wire, told apart by their lowest bits.
LEMMA MakeLabelsMade ==
    ASSUME bits \in [Wire -> {0, 1}], bits' = bits,
           NEW low \in [Side -> {0, 1}], MakeLabels(low)
    PROVE  LabelsMade'
BY DrawnDiffer DEF LabelsMade, MakeLabels

\* What the enclave makes has its type.
LEMMA MadeTyped ==
    ASSUME LabelsMade', bits' \in [Wire -> {0, 1}]
    PROVE  /\ gengc' \in [Side -> Label \cup {NoLabel}]
           /\ evlgc' \in [Wire -> Label \cup {NoLabel}]
           /\ permutes' \in [Wire -> {0, 1}]
<1>1. gengc' \in [Side -> Label]
  BY DEF LabelsMade, Label
<1>2. ASSUME NEW w \in Wire
      PROVE  gengc'[2 * w].low \in {0, 1} /\ gengc'[2 * w + bits'[w]] \in Label
  <2>1. 2 * w + bits'[w] = 2 * w \/ 2 * w + bits'[w] = 2 * w + 1
    BY DEF Wire
  <2>2. 2 * w \in Side /\ 2 * w + bits'[w] \in Side
    BY <2>1, SidesOfWire
  <2> QED
    BY <1>1, <2>2 DEF Label
<1>3. permutes' \in [Wire -> {0, 1}]
  BY <1>2 DEF LabelsMade, PermutesOf
<1>4. evlgc' \in [Wire -> Label]
  BY <1>2 DEF LabelsMade, Selected
<1> QED
  BY <1>1, <1>3, <1>4

\* The evaluator's enclave sends its queries.
LEMMA QueryStep == HandoverIInv /\ SendQuery => HandoverIInv'
<1> SUFFICES ASSUME HandoverIInv, SendQuery PROVE HandoverIInv'
  OBVIOUS
<1>1. HandoverTypeOK'
  BY DEF HandoverIInv, SendQuery, sender, HandoverTypeOK
<1> QED
  BY <1>1 DEF HandoverIInv, SendQuery, Default, Database

\* The sender's enclave makes the labels.
LEMMA GenInputStep == HandoverIInv /\ GenInputYao => HandoverIInv'
<1> SUFFICES ASSUME HandoverIInv, GenInputYao PROVE HandoverIInv'
  OBVIOUS
<1>1. bits \in [Wire -> {0, 1}] /\ bits' = bits
  BY DEF HandoverIInv, HandoverTypeOK, GenInputYao
<1>2. LabelsMade'
  BY <1>1, MakeLabelsMade DEF GenInputYao
<1>3. MsgMade'
  BY DEF MsgMade, GenInputYao, Default, Database
<1>4. /\ gengc' \in [Side -> Label \cup {NoLabel}]
      /\ evlgc' \in [Wire -> Label \cup {NoLabel}]
      /\ permutes' \in [Wire -> {0, 1}]
  BY <1>1, <1>2, MadeTyped
<1>5. HandoverTypeOK'
  BY <1>4 DEF HandoverIInv, GenInputYao, sender, HandoverTypeOK
<1> QED
  BY <1>2, <1>3, <1>5 DEF HandoverIInv, GenInputYao, Default, Database

\* The evaluator's enclave answers its queries.
LEMMA ComputeStep == HandoverIInv /\ ComputeYaoOr => HandoverIInv'
<1> SUFFICES ASSUME HandoverIInv, ComputeYaoOr PROVE HandoverIInv'
  OBVIOUS
<1>1. bits \in [Wire -> {0, 1}] /\ bits' = bits
  BY DEF HandoverIInv, HandoverTypeOK, ComputeYaoOr
<1>2. LabelsMade'
  BY <1>1, MakeLabelsMade DEF ComputeYaoOr
<1>3. msg = queries /\ input' = queries
  BY DEF HandoverIInv, ComputeYaoOr
<1>4. msg' = GenOutput(Answers(db, queries), evlgc', permutes')
  BY <1>3 DEF ComputeYaoOr
<1>5. MsgMade'
  BY <1>4 DEF MsgMade, ComputeYaoOr, Default, Database
<1>6. /\ gengc' \in [Side -> Label \cup {NoLabel}]
      /\ evlgc' \in [Wire -> Label \cup {NoLabel}]
      /\ permutes' \in [Wire -> {0, 1}]
  BY <1>1, <1>2, MadeTyped
<1>7. HandoverTypeOK'
  BY <1>6 DEF HandoverIInv, ComputeYaoOr, sender, HandoverTypeOK
<1> QED
  BY <1>2, <1>5, <1>7 DEF HandoverIInv, ComputeYaoOr

\* A query that is not for this program ends the evaluator's side.
LEMMA FailsStep == HandoverIInv /\ ComputeFails => HandoverIInv'
<1> SUFFICES ASSUME HandoverIInv, ComputeFails PROVE HandoverIInv'
  OBVIOUS
<1>1. HandoverTypeOK'
  BY DEF HandoverIInv, ComputeFails, sender, HandoverTypeOK
<1> QED
  BY <1>1 DEF HandoverIInv, ComputeFails

\* The sender's application is told to start.
LEMMA StartYaoStep == HandoverIInv /\ StartYao => HandoverIInv'
<1> SUFFICES ASSUME HandoverIInv, StartYao PROVE HandoverIInv'
  OBVIOUS
<1>1. LabelsMade' /\ MsgMade'
  BY DEF HandoverIInv, StartYao, enclave, LabelsMade, MsgMade, Database, Default
<1>2. (sPc \in {"yao", "done"} => OutputOpened)'
  BY DEF HandoverIInv, StartYao, enclave, sender, OutputOpened, Database, Default
<1>3. HandoverTypeOK'
  BY DEF HandoverIInv, StartYao, enclave, sender, HandoverTypeOK
<1> QED
  BY <1>1, <1>2, <1>3 DEF HandoverIInv, StartYao, enclave, sender

\* The sender's application cuts the labels of a plain program out of the
\* message.
LEMMA OpenDefaultStep == HandoverIInv /\ OpenDefault => HandoverIInv'
<1> SUFFICES ASSUME HandoverIInv, OpenDefault PROVE HandoverIInv'
  OBVIOUS
<1>1. LabelsMade /\ MsgMade
  BY DEF HandoverIInv, OpenDefault
<1>2. LabelsMade' /\ MsgMade'
  BY <1>1 DEF OpenDefault, enclave, LabelsMade, MsgMade, Database, Default
<1>3. sGengc' = gengc /\ sPermutes' = permutes
  <2>1. msg = Joined(gengc, 2 * W, permutes, W)
    BY <1>1 DEF MsgMade, OpenDefault
  <2>2. gengc = [s \in Side |-> gengc[s]] /\ permutes = [w \in Wire |-> permutes[w]]
    BY <1>1 DEF LabelsMade, PermutesOf
  <2> QED
    BY <2>1, <2>2, PartsOfInput DEF OpenDefault
<1>4. OutputOpened'
  BY <1>3 DEF OutputOpened, OpenDefault, enclave, Default, Database
<1>5. HandoverTypeOK'
  BY <1>3 DEF HandoverIInv, OpenDefault, enclave, HandoverTypeOK
<1> QED
  BY <1>2, <1>4, <1>5 DEF HandoverIInv, OpenDefault, enclave

\* The sender's application cuts the answers and the chosen labels out of the
\* message.
LEMMA OpenDatabaseStep == HandoverIInv /\ OpenDatabase => HandoverIInv'
<1> SUFFICES ASSUME HandoverIInv, OpenDatabase PROVE HandoverIInv'
  OBVIOUS
<1>1. LabelsMade /\ MsgMade
  BY DEF HandoverIInv, OpenDatabase
<1>2. LabelsMade' /\ MsgMade'
  BY <1>1 DEF OpenDatabase, enclave, LabelsMade, MsgMade, Database, Default
<1>3. /\ sAnswers' = Answers(db, queries)
      /\ sEvlgc' = evlgc
      /\ sPermutes' = permutes
  <2>1. msg = GenOutput(Answers(db, queries), evlgc, permutes)
    BY <1>1 DEF MsgMade, OpenDatabase
  <2>2. Answers(db, queries) = [q \in Query |-> Answers(db, queries)[q]]
    BY DEF Answers
  <2>3. evlgc = [w \in Wire |-> evlgc[w]] /\ permutes = [w \in Wire |-> permutes[w]]
    BY <1>1 DEF LabelsMade, Selected, PermutesOf
  <2>4. /\ Part(msg, 0, O) = Answers(db, queries)
        /\ Part(msg, O, W) = evlgc
        /\ Part(msg, O + W, W) = permutes
    BY <2>1, <2>2, <2>3, PartsOfOutput
  <2> QED
    BY <2>4 DEF OpenDatabase
<1>4. OutputOpened'
  BY <1>3 DEF OutputOpened, OpenDatabase, enclave, Database, Default
<1>5. HandoverTypeOK'
  BY <1>3 DEF HandoverIInv, OpenDatabase, enclave, HandoverTypeOK
<1> QED
  BY <1>2, <1>4, <1>5 DEF HandoverIInv, OpenDatabase, enclave

\* The circuit runs on what was handed over.
LEMMA RunProgramStep == HandoverIInv /\ RunProgram => HandoverIInv'
<1> SUFFICES ASSUME HandoverIInv, RunProgram PROVE HandoverIInv'
  OBVIOUS
<1>1. LabelsMade' /\ MsgMade' /\ OutputOpened'
  BY DEF HandoverIInv, RunProgram, enclave, sender, LabelsMade, MsgMade, OutputOpened, Database,
         Default
<1>2. HandoverTypeOK'
  BY DEF HandoverIInv, RunProgram, enclave, sender, HandoverTypeOK
<1> QED
  BY <1>1, <1>2 DEF HandoverIInv, RunProgram, enclave, sender

\* Whoever else moves, the handover stays as it is.
LEMMA HandoverStutter == HandoverIInv /\ UNCHANGED handoverVars => HandoverIInv'
<1> SUFFICES ASSUME HandoverIInv, UNCHANGED handoverVars PROVE HandoverIInv'
  OBVIOUS
<1>1. HandoverTypeOK'
  BY DEF HandoverIInv, handoverVars, enclave, sender, HandoverTypeOK
<1>2. /\ (ePc \in {"yao", "done"} => LabelsMade /\ MsgMade)'
      /\ (sPc \in {"yao", "done"} => OutputOpened)'
  BY DEF HandoverIInv, handoverVars, enclave, sender, LabelsMade, MsgMade, OutputOpened,
         Database, Default
<1> QED
  BY <1>1, <1>2 DEF HandoverIInv, handoverVars, enclave, sender, Database

\* Every step keeps what is in which hands.
LEMMA HandoverStep == HandoverIInv /\ [HandoverNext]_handoverVars => HandoverIInv'
BY QueryStep, GenInputStep, ComputeStep, FailsStep, StartYaoStep, OpenDefaultStep,
   OpenDatabaseStep, RunProgramStep, HandoverStutter DEF HandoverNext

\* The handover stays within its invariant.
LEMMA HandoverInvariant == HandoverSpec => []HandoverIInv
BY HandoverInitOK, HandoverStep, PTL DEF HandoverSpec

----------------------------------------------------------------------------
(* What the invariant says of the handed keys. *)

LEMMA IInvKeysMeet == HandoverIInv => KeysMeet
<1> SUFFICES ASSUME HandoverIInv, Handed, Database, NEW w \in Wire
             PROVE  Opens(w) /\ eYaoKeys[w] = gYaoKeys[2 * w + bits[w]]
  BY DEF KeysMeet
<1>1. LabelsMade /\ OutputOpened
  BY DEF HandoverIInv, Handed
<1>2. bits[w] \in {0, 1}
  BY DEF HandoverIInv, HandoverTypeOK
<1>3. gYaoKeys[2 * w] = YaoKey(gengc[2 * w]) /\ gYaoKeys[2 * w + 1] = YaoKey(gengc[2 * w + 1])
  BY SidesOfWire DEF HandoverIInv, Handed, GenKeys
<1>4. gPermutes[w] = gengc[2 * w].low
  BY <1>1 DEF HandoverIInv, Handed, LabelsMade, PermutesOf
<1>5. eYaoKeys[w] = YaoKey(gengc[2 * w + bits[w]])
  BY <1>1 DEF HandoverIInv, Handed, LabelsMade, OutputOpened, Selected, EvlKeys
<1>6. eYaoKeys[w] = gYaoKeys[2 * w + bits[w]]
  BY <1>2, <1>3, <1>5 DEF Wire
<1>7. /\ gengc[2 * w].low \in {0, 1} /\ gengc[2 * w + 1].low \in {0, 1}
      /\ gengc[2 * w].low # gengc[2 * w + 1].low
  BY <1>1, SidesOfWire DEF LabelsMade
<1>8. Choice(w) = gengc[2 * w + bits[w]].low
  BY <1>5 DEF Choice, YaoKey
<1>9. Opens(w)
  <2>1. CASE bits[w] = 0
    <3>1. Choice(w) = gPermutes[w] /\ eYaoKeys[w] = gYaoKeys[2 * w]
      BY <1>4, <1>6, <1>8, <2>1 DEF Wire
    <3>2. RowsOf(w)[Choice(w)] = gYaoKeys[2 * w]
      BY <1>4, <1>7, <3>1 DEF RowsOf, Wire
    <3> QED
      BY <3>1, <3>2 DEF Opens
  <2>2. CASE bits[w] = 1
    <3>1. Choice(w) = 1 - gPermutes[w] /\ eYaoKeys[w] = gYaoKeys[2 * w + 1]
      BY <1>4, <1>6, <1>7, <1>8, <2>2
    <3>2. RowsOf(w)[Choice(w)] = gYaoKeys[2 * w + 1]
      BY <1>4, <1>7, <3>1 DEF RowsOf
    <3> QED
      BY <3>1, <3>2 DEF Opens
  <2> QED
    BY <1>2, <2>1, <2>2
<1> QED
  BY <1>6, <1>9

\* Whatever is drawn, whatever the database and the queries, and however many
\* wires there are: the keys the two Yao programs run with meet.
THEOREM HandoverKeysMeet == HandoverSpec => []KeysMeet
BY HandoverInvariant, IInvKeysMeet, PTL

\* From the invariant: the answers that arrive are those of the queries.
LEMMA IInvAnswersArrive == HandoverIInv => AnswersArrive
BY DEF HandoverIInv, AnswersArrive, OutputOpened, Answers

\* The sender's application sees the answers to its enclave's queries.
THEOREM HandoverAnswers == HandoverSpec => []AnswersArrive
BY HandoverInvariant, IInvAnswersArrive, PTL

----------------------------------------------------------------------------
(* The reader of programs. *)

\* A file is that far down the stack at most as there are files above it: a
\* function calls only those numbered below it.
Depth ==
    /\ stacksize + activefile <= numfunctions
    /\ \A k \in StackIndex : k < stacksize => fileStack[k] + k <= numfunctions

\* The program read is one of those given.
ProgramGiven == filename \in Programs /\ prog \in Programs

\* The reader's inductive invariant: its types, the program given, and the
\* depth of the stack.
ReaderIInv == InterpreterTypeOK /\ ProgramGiven /\ Depth

\* What the assumption says of one program.
LEMMA ProgramFacts ==
    ASSUME NEW p \in Programs
    PROVE  /\ p \in [File -> Seq(Op)]
           /\ \A f \in File : \A k \in 1 .. Len(p[f]) :
                 p[f][k].options = "call" => p[f][k].dest < f
BY ProgramAssumption

\* The number of functions is a number.
LEMMA NumFunctions == numfunctions \in Nat
BY ProgramAssumption

\* A reader that starts has its stack in bounds.
LEMMA ReaderInitOK == InterpreterInit => ReaderIInv
<1> SUFFICES ASSUME InterpreterInit PROVE ReaderIInv
    OBVIOUS
<1>1. ProgramGiven
    BY ProgramAssumption DEF InterpreterInit, ProgramGiven
<1>2. filename \in [File -> Seq(Op)] /\ prog \in [File -> Seq(Op)]
    BY <1>1, ProgramFacts DEF ProgramGiven
<1>3. Padding \in Op
    BY ProgramAssumption DEF Padding, Op
<1>4. /\ activefile \in File /\ stacksize \in StackIndex
      /\ fileStack \in [StackIndex -> File] /\ filePlaceStack \in [StackIndex -> Nat]
    BY NumFunctions DEF InterpreterInit, File, Main, StackIndex
<1>6. gates \in Seq(Gate)
    BY DEF InterpreterInit
<1>7. InterpreterTypeOK
    BY <1>2, <1>3, <1>4, <1>6 DEF InterpreterInit, InterpreterTypeOK
<1>5. Depth
    BY NumFunctions DEF InterpreterInit, Depth, Main, StackIndex
<1> QED BY <1>1, <1>5, <1>7 DEF ReaderIInv

\* One operation of the program file is read.
LEMMA ReadOpInv == ReaderIInv /\ ReadOp => ReaderIInv'
<1> SUFFICES ASSUME ReaderIInv, ReadOp PROVE ReaderIInv'
    OBVIOUS
<1> USE DEF ReaderIInv
<1> DEFINE op == prog[activefile][cfileplace + 1]
<1>1. ProgramGiven'
    BY DEF ProgramGiven, ReadOp
<1>2. op \in Op /\ (op.options = "call" => op.dest < activefile)
    <2>1. cfileplace + 1 \in 1 .. Len(prog[activefile]) /\ prog[activefile] \in Seq(Op)
        BY DEF ReadOp, InterpreterTypeOK
    <2> QED BY <2>1, ProgramFacts DEF ProgramGiven, InterpreterTypeOK
<1>3. CASE op.options = "call" /\ Entered(op.dest)
    <2>1. op.dest \in 0 .. numfunctions - 1
        BY <1>2, <1>3 DEF Op
    <2>2. /\ theGate' = op /\ stacksize' = stacksize + 1
          /\ activefile' = op.dest /\ cfileplace' = 0
          /\ fileStack' = [fileStack EXCEPT ![stacksize] = activefile]
          /\ filePlaceStack' = [filePlaceStack EXCEPT ![stacksize] = cfileplace + 1]
        BY <1>3 DEF ReadOp, ReturnPlace
    <2>3. stacksize + 1 + op.dest <= numfunctions
        <3>1. op.dest < activefile /\ activefile \in Int /\ stacksize \in Int
            BY <1>2, <1>3, NumFunctions DEF InterpreterTypeOK, File, StackIndex
        <3>2. stacksize + activefile <= numfunctions
            BY DEF Depth
        <3> HIDE DEF op
        <3> QED BY <2>1, <3>1, <3>2, NumFunctions
    <2>4. stacksize + 1 \in StackIndex
        BY <2>1, <2>3, NumFunctions DEF InterpreterTypeOK, StackIndex
    <2>5. InterpreterTypeOK'
        <3>1. activefile' \in File
            BY <2>1, <2>2, NumFunctions DEF File
        <3>2. /\ fileStack' \in [StackIndex -> File]
              /\ filePlaceStack' \in [StackIndex -> Nat]
            BY <2>2 DEF InterpreterTypeOK
        <3> QED BY <1>2, <2>2, <2>4, <3>1, <3>2 DEF ReadOp, InterpreterTypeOK
    <2>6. ASSUME NEW k \in StackIndex, k < stacksize'
          PROVE  fileStack'[k] + k <= numfunctions
        <3>1. CASE k = stacksize
            <4>1. fileStack'[k] = activefile
                BY <2>2, <3>1 DEF InterpreterTypeOK
            <4>2. stacksize + activefile <= numfunctions /\ activefile \in Int /\ stacksize \in Int
                BY NumFunctions DEF Depth, InterpreterTypeOK, File, StackIndex
            <4> QED BY <3>1, <4>1, <4>2, NumFunctions
        <3>2. CASE k # stacksize
            <4>1. fileStack'[k] = fileStack[k]
                BY <2>2, <3>2 DEF InterpreterTypeOK
            <4>2. k < stacksize
                BY <2>2, <2>6, <3>2, NumFunctions DEF InterpreterTypeOK, StackIndex
            <4> QED BY <4>1, <4>2 DEF Depth
        <3> QED BY <3>1, <3>2
    <2> QED BY <1>1, <2>2, <2>3, <2>5, <2>6 DEF Depth
<1>4. CASE ~(op.options = "call" /\ Entered(op.dest))
    <2>1. /\ theGate' = op /\ cfileplace' = cfileplace + 1
          /\ UNCHANGED <<fileStack, filePlaceStack, stacksize, activefile>>
        BY <1>4 DEF ReadOp
    <2>2. InterpreterTypeOK'
        BY <1>2, <2>1 DEF ReadOp, InterpreterTypeOK
    <2> QED BY <1>1, <2>1, <2>2 DEF Depth
<1> QED BY <1>3, <1>4

\* The reader comes back from a function.
LEMMA ReturnInv == ReaderIInv /\ Return => ReaderIInv'
<1> SUFFICES ASSUME ReaderIInv, Return PROVE ReaderIInv'
    OBVIOUS
<1> USE DEF ReaderIInv
<1>1. ProgramGiven'
    BY DEF ProgramGiven, Return
<1>2. stacksize - 1 \in StackIndex /\ stacksize' = stacksize - 1
    BY NumFunctions DEF Return, InterpreterTypeOK, StackIndex, PopFrame
<1>3. Padding \in Op
    BY ProgramAssumption DEF Padding, Op
<1>4. InterpreterTypeOK'
    BY <1>2, <1>3 DEF Return, InterpreterTypeOK
<1>5. Depth'
    <2>1. activefile' = fileStack[stacksize - 1] /\ fileStack' = fileStack
        BY DEF Return
    <2>2. stacksize' + activefile' <= numfunctions
        BY <1>2, <2>1, NumFunctions DEF Depth, InterpreterTypeOK, File, StackIndex
    <2>3. \A k \in StackIndex : k < stacksize' => k < stacksize
        BY <1>2, NumFunctions DEF InterpreterTypeOK, StackIndex
    <2> QED BY <2>1, <2>2, <2>3 DEF Depth
<1> QED BY <1>1, <1>4, <1>5

\* A program file is opened.
LEMMA LoadBinaryInv == ReaderIInv /\ LoadBinary => ReaderIInv'
<1> SUFFICES ASSUME ReaderIInv, LoadBinary PROVE ReaderIInv'
    OBVIOUS
<1> USE DEF ReaderIInv
<1>1. ProgramGiven'
    BY DEF ProgramGiven, LoadBinary
<1>2. InterpreterTypeOK'
    <2>1. /\ activefile' \in File /\ stacksize' \in StackIndex /\ cfileplace' \in Nat
          /\ fileStack' \in [StackIndex -> File] /\ filePlaceStack' \in [StackIndex -> Nat]
        BY NumFunctions DEF LoadBinary, File, Main, StackIndex, StartPlace
    <2> QED BY <2>1 DEF LoadBinary, InterpreterTypeOK
<1>3. Depth'
    BY NumFunctions DEF LoadBinary, Depth, Main, StackIndex
<1> QED BY <1>1, <1>2, <1>3

\* The circuit asks for the next gate.
LEMMA NextGateInv == ReaderIInv /\ NextGate => ReaderIInv'
<1> SUFFICES ASSUME ReaderIInv, NextGate PROVE ReaderIInv'
    OBVIOUS
<1> USE DEF ReaderIInv
<1>1. ProgramGiven' /\ Depth'
    BY DEF ProgramGiven, Depth, NextGate, reader
<1>2. theGate \in Op /\ (theGate.options # "call" => theGate.dest \in Wires)
    BY DEF InterpreterTypeOK, Op
<1>3. [op |-> theGate, zero |-> zeroplace] \in Gate
    BY <1>2 DEF InterpreterTypeOK, Gate
<1>4. gates' \in Seq(Gate)
    BY <1>3 DEF NextGate, InterpreterTypeOK
<1>5. zeroplace' \in Wires \cup {NoWire} /\ foundzero' \in BOOLEAN
    BY <1>2 DEF NextGate, InterpreterTypeOK, NewZero
<1>6. InterpreterTypeOK'
    BY <1>4, <1>5 DEF NextGate, InterpreterTypeOK, reader
<1> QED BY <1>1, <1>6

\* The steps that leave the stack alone.
LEMMA ReaderOtherInv ==
    ReaderIInv /\ (End \/ ReadNull \/ SkipCall \/ Done \/ UNCHANGED interpreterVars) => ReaderIInv'
<1> SUFFICES ASSUME ReaderIInv, End \/ ReadNull \/ SkipCall \/ Done \/ UNCHANGED interpreterVars PROVE ReaderIInv'
    OBVIOUS
<1> USE DEF ReaderIInv
<1>1. Padding \in Op
    BY ProgramAssumption DEF Padding, Op
<1>2. CASE End
    BY <1>1, <1>2 DEF End, InterpreterTypeOK, ProgramGiven, Depth
<1>3. CASE ReadNull \/ SkipCall \/ Done
    BY <1>3 DEF ReadNull, SkipCall, Done, AfterCall, reader, InterpreterTypeOK, ProgramGiven, Depth
<1>4. CASE UNCHANGED interpreterVars
    BY <1>4 DEF interpreterVars, reader, InterpreterTypeOK, ProgramGiven, Depth
<1> QED BY <1>2, <1>3, <1>4

\* Every step keeps the reader's invariant.
LEMMA ReaderStep == ReaderIInv /\ [InterpreterNext]_interpreterVars => ReaderIInv'
BY ReadOpInv, ReturnInv, LoadBinaryInv, NextGateInv, ReaderOtherInv DEF InterpreterNext

\* The reader's variables keep their types: it never looks beyond the stack.
THEOREM ReaderTyped == InterpreterSpec => []InterpreterTypeOK
<1>1. ReaderIInv => InterpreterTypeOK
    BY DEF ReaderIInv
<1> QED BY <1>1, ReaderInitOK, ReaderStep, PTL DEF InterpreterSpec

\* From the invariant: the stack has room for every call.
LEMMA IInvStackFits == ReaderIInv => StackFits
BY NumFunctions DEF ReaderIInv, Depth, StackFits, InterpreterTypeOK, File, StackIndex

\* However the functions call each other, the stack holds no more frames than
\* there are functions.
THEOREM StackHasRoom == InterpreterSpec => []StackFits
BY IInvStackFits, ReaderInitOK, ReaderStep, PTL DEF InterpreterSpec

----------------------------------------------------------------------------
(* The program that is read, with its calls carried out. *)

\* What p's operation op stands for, the functions standing for what flat says.
Piece(flat, op) == IF op.options = "call" THEN flat[op.dest] ELSE <<op>>

\* The first operations of file f, carried out.
Upto(p, flat, f) ==
    CHOOSE u : u = [k \in 0 .. Len(p[f]) |->
                       IF k = 0 THEN <<>>
                       ELSE LET op == p[f][k]
                            IN  u[k - 1] \o (IF op.options = "call" THEN flat[op.dest] ELSE <<op>>)]

\* Every file of p, carried out.
FlatOf(p) == CHOOSE flat : flat = [f \in File |-> Upto(p, flat, f)[Len(p[f])]]

\* It is what the model calls Flat.
LEMMA FlatIs == Flat = FlatOf(prog)
BY DEF Flat, FlatOf, Upto

\* A program whose functions call those before them.
Calls(p) ==
    /\ p \in [File -> Seq(Op)]
    /\ \A f \in File : \A k \in 1 .. Len(p[f]) :
          p[f][k].options = "call" => p[f][k].dest < f

\* An operation is in a file, and what it stands for is a sequence of operations.
LEMMA PieceTyped ==
    ASSUME NEW p, Calls(p), NEW flat, NEW f \in File, \A g \in 0 .. f - 1 : flat[g] \in Seq(Op),
           NEW k \in 1 .. Len(p[f])
    PROVE  /\ p[f][k] \in Op /\ Piece(flat, p[f][k]) \in Seq(Op)
           /\ p[f][k].options = "call" => p[f][k].dest \in File /\ p[f][k].dest \in 0 .. f - 1
<1>1. numfunctions \in Nat
    BY ProgramAssumption
<1>2. p[f][k] \in Op
    BY DEF Calls
<1>3. ASSUME p[f][k].options = "call" PROVE p[f][k].dest \in File /\ p[f][k].dest \in 0 .. f - 1
    <2>1. p[f][k].dest \in 0 .. numfunctions - 1
        BY <1>2, <1>3 DEF Op
    <2>2. p[f][k].dest < f /\ f \in Int
        BY <1>1, <1>3 DEF Calls, File
    <2> QED BY <1>1, <2>1, <2>2 DEF File
<1> QED BY <1>2, <1>3 DEF Piece

\* Upto is the recursion it is written as.
LEMMA UptoRecurs ==
    ASSUME NEW p, Calls(p), NEW flat, NEW f \in File, \A g \in 0 .. f - 1 : flat[g] \in Seq(Op)
    PROVE  /\ Upto(p, flat, f) \in [0 .. Len(p[f]) -> Seq(Op)]
           /\ Upto(p, flat, f)[0] = <<>>
           /\ \A k \in 1 .. Len(p[f]) :
                 Upto(p, flat, f)[k] = Upto(p, flat, f)[k - 1] \o Piece(flat, p[f][k])
<1> DEFINE V == Seq(Op)
           n == Len(p[f])
           first == <<>>
           U == Upto(p, flat, f)
           body(u, k) == IF k = 0 THEN <<>> ELSE u[k - 1] \o Piece(flat, p[f][k])
           next == [x \in Nat \X V |-> IF x[1] + 1 \in 1 .. n THEN x[2] \o Piece(flat, p[f][x[1] + 1]) ELSE x[2]]
<1>1. n \in Nat
    BY DEF Calls
<1>2. next \in [Nat \X V -> V]
    <2>1. ASSUME NEW x \in Nat \X V, x[1] + 1 \in 1 .. n PROVE x[2] \o Piece(flat, p[f][x[1] + 1]) \in V
        <3>1. Piece(flat, p[f][x[1] + 1]) \in V
            BY <2>1, PieceTyped
        <3> QED BY <3>1
    <2> QED BY <2>1
<1>3. first \in V
    OBVIOUS
<1>4. PICK g \in [0 .. n -> V] : Begins(g, n, first, next)
    <2> HIDE DEF V, next, n, first
    <2> QED BY <1>1, <1>2, <1>3, BeginsExist
<1>e. g[0] = <<>> /\ \A k \in 0 .. n - 1 : g[k + 1] = next[<<k, g[k]>>]
    BY <1>4 DEF Begins
<1>5. ASSUME NEW k \in 1 .. n PROVE g[k] = g[k - 1] \o Piece(flat, p[f][k])
    <2> HIDE DEF V, n
    <2>1. k - 1 \in Nat /\ k - 1 \in 0 .. n - 1 /\ k - 1 \in 0 .. n /\ (k - 1) + 1 = k
        BY <1>1
    <2>2. <<k - 1, g[k - 1]>> \in Nat \X V
        BY <2>1
    <2>3. next[<<k - 1, g[k - 1]>>] = g[k - 1] \o Piece(flat, p[f][k])
        BY <2>1, <2>2
    <2>4. g[(k - 1) + 1] = next[<<k - 1, g[k - 1]>>]
        BY <1>e, <2>1
    <2> QED BY <2>1, <2>3, <2>4
<1> HIDE DEF next
<1>6. g = [k \in 0 .. n |-> body(g, k)]
    <2>1. ASSUME NEW k \in 0 .. n PROVE g[k] = body(g, k)
        <3> HIDE DEF n
        <3>1. CASE k = 0
            BY <1>e, <3>1
        <3>2. CASE k # 0
            <4>1. k \in 1 .. n
                BY <1>1, <3>2
            <4> QED BY <1>5, <3>2, <4>1
        <3> QED BY <3>1, <3>2
    <2> HIDE DEF body, n
    <2> QED BY <2>1
<1>7. U = [k \in 0 .. n |-> body(U, k)]
    <2>1. U = CHOOSE u : u = [k \in 0 .. n |-> body(u, k)]
        BY DEF Upto, Piece
    <2> HIDE DEF U, body, n
    <2> QED BY <1>6, <2>1
<1> HIDE DEF U
<1>8. U[0] = <<>> /\ \A k \in 1 .. n : U[k] = U[k - 1] \o Piece(flat, p[f][k])
    <2>1. \A k \in 0 .. n : U[k] = body(U, k)
        <3> HIDE DEF body, n
        <3> QED BY <1>7
    <2>2. 0 \in 0 .. n /\ \A k \in 1 .. n : k \in 0 .. n /\ k # 0
        BY <1>1
    <2> QED BY <2>1, <2>2
<1>9. U \in [0 .. n -> V]
    <2> DEFINE S == {k \in Nat : k <= n => U[k] \in V}
    <2>1. 0 \in S
        <3>1. U[0] \in V
            BY <1>3, <1>8
        <3> HIDE DEF V
        <3> QED BY <3>1
    <2>2. ASSUME NEW k \in Nat, k \in S PROVE k + 1 \in S
        <3>1. SUFFICES ASSUME k + 1 <= n PROVE U[k + 1] \in V
            OBVIOUS
        <3> DEFINE m == k + 1
        <3>2. m \in 1 .. n /\ m - 1 = k /\ U[k] \in V
            BY <1>1, <2>2, <3>1
        <3>3. Piece(flat, p[f][m]) \in V
            BY <3>2, PieceTyped
        <3>4. U[m] = U[m - 1] \o Piece(flat, p[f][m])
            BY <1>8, <3>2
        <3> QED BY <3>2, <3>3, <3>4
    <2> HIDE DEF S
    <2>3. Nat \subseteq S
        BY <2>1, <2>2, NatInductive
    <2>4. \A k \in 0 .. n : U[k] \in V
        BY <1>1, <2>3 DEF S
    <2>5. U = [k \in 0 .. n |-> U[k]]
        <3> HIDE DEF body, n, V
        <3> QED BY <1>7
    <2> HIDE DEF V, n
    <2> QED BY <2>4, <2>5
<1> QED BY <1>8, <1>9 DEF U

\* What a file is carried out to depends on the functions before it only.
LEMMA UptoBelow ==
    ASSUME NEW p, Calls(p), NEW F, NEW G, NEW f \in File,
           \A g \in 0 .. f - 1 : F[g] \in Seq(Op) /\ F[g] = G[g]
    PROVE  Upto(p, F, f)[Len(p[f])] = Upto(p, G, f)[Len(p[f])]
<1> DEFINE n == Len(p[f])
           U == Upto(p, F, f)
           T == Upto(p, G, f)
           S == {k \in Nat : k <= n => U[k] = T[k]}
<1>1. n \in Nat
    BY DEF Calls
<1>2. /\ U[0] = <<>> /\ T[0] = <<>>
      /\ \A k \in 1 .. n : U[k] = U[k - 1] \o Piece(F, p[f][k]) /\ T[k] = T[k - 1] \o Piece(G, p[f][k])
    BY UptoRecurs
<1> HIDE DEF U, T
<1>3. 0 \in S
    BY <1>2
<1>4. ASSUME NEW k \in Nat, k \in S PROVE k + 1 \in S
    <2>1. SUFFICES ASSUME k + 1 <= n PROVE U[k + 1] = T[k + 1]
        OBVIOUS
    <2> DEFINE m == k + 1
    <2>2. m \in 1 .. n /\ m - 1 = k /\ U[k] = T[k]
        BY <1>1, <1>4, <2>1
    <2>3. Piece(F, p[f][m]) = Piece(G, p[f][m])
        BY <2>2, PieceTyped DEF Piece
    <2> HIDE DEF m
    <2>4. U[m] = T[m]
        BY <1>2, <2>2, <2>3
    <2> QED BY <2>4 DEF m
<1> HIDE DEF S
<1>5. Nat \subseteq S
    BY <1>3, <1>4, NatInductive
<1>6. U[n] = T[n]
    <2> HIDE DEF n
    <2> QED BY <1>1, <1>5 DEF S
<1> QED BY <1>6 DEF U, T

\* FlatOf is the recursion it is written as.
LEMMA FlatRecurs ==
    ASSUME NEW p, Calls(p)
    PROVE  /\ FlatOf(p) \in [File -> Seq(Op)]
           /\ \A f \in File : FlatOf(p)[f] = Upto(p, FlatOf(p), f)[Len(p[f])]
<1> DEFINE V == [File -> Seq(Op)]
           at(F) == [f \in File |-> Upto(p, F, f)[Len(p[f])]]
           body == [F \in V |-> at(F)]
<1>1. numfunctions \in Nat /\ File = 0 .. numfunctions
    BY ProgramAssumption DEF File
<1>f. \A f \in File : f \in Nat /\ 0 .. f - 1 \subseteq File
    BY <1>1
<1>2. ASSUME NEW F, NEW f \in File, \A g \in 0 .. f - 1 : F[g] \in Seq(Op)
      PROVE  Upto(p, F, f)[Len(p[f])] \in Seq(Op)
    <2>1. Len(p[f]) \in 0 .. Len(p[f])
        BY DEF Calls
    <2> QED BY <1>2, <2>1, UptoRecurs
<1>3. body \in [V -> V]
    <2>1. ASSUME NEW F \in V, NEW f \in File PROVE Upto(p, F, f)[Len(p[f])] \in Seq(Op)
        BY <1>2, <1>f
    <2> QED BY <2>1
<1>4. ASSUME NEW F \in V, NEW G \in V, NEW f \in File, \A g \in 0 .. f - 1 : F[g] = G[g]
      PROVE  body[F][f] = body[G][f]
    <2>1. body[F][f] = Upto(p, F, f)[Len(p[f])] /\ body[G][f] = Upto(p, G, f)[Len(p[f])]
        OBVIOUS
    <2>2. \A g \in 0 .. f - 1 : F[g] \in Seq(Op)
        BY <1>f
    <2> HIDE DEF body
    <2> QED BY <1>4, <2>1, <2>2, UptoBelow
<1> DEFINE Values == Seq(Op)
           e == <<>>
<1>5. e \in Values
    OBVIOUS
<1>6. LooksBelow(body, numfunctions, Seq(Op))
    <2> HIDE DEF body
    <2> QED BY <1>1, <1>3, <1>4 DEF LooksBelow
<1>7. PICK F \in V : F = body[F]
    <2>1. \E F \in [0 .. numfunctions -> Seq(Op)] : F = body[F]
        <3> HIDE DEF body, e
        <3> QED BY <1>1, <1>5, <1>6, SolutionBelow
    <2> HIDE DEF body
    <2> QED BY <1>1, <2>1
<1>8. F = at(F)
    BY <1>7
<1> DEFINE G == FlatOf(p)
<1>9. G = at(G)
    <2>1. G = CHOOSE H : H = at(H)
        BY DEF FlatOf
    <2> HIDE DEF at, G
    <2> QED BY <1>8, <2>1
<1> HIDE DEF G
<1>10. \A f \in File : G[f] = Upto(p, G, f)[Len(p[f])]
    BY <1>9
<1> DEFINE S == {k \in Nat : \A f \in File : f < k => G[f] \in Seq(Op)}
<1>11. 0 \in S
    BY <1>f
<1>12. ASSUME NEW k \in Nat, k \in S PROVE k + 1 \in S
    <2>1. ASSUME NEW f \in File, f < k + 1 PROVE G[f] \in Seq(Op)
        <3>1. \A g \in 0 .. f - 1 : G[g] \in Seq(Op)
            BY <1>f, <1>12, <2>1
        <3> QED BY <1>2, <1>10, <3>1
    <2> QED BY <2>1
<1> HIDE DEF S
<1>13. Nat \subseteq S
    BY <1>11, <1>12, NatInductive
<1>14. \A f \in File : G[f] \in Seq(Op)
    <2>1. \A f \in File : f + 1 \in Nat /\ f < f + 1
        BY <1>f
    <2> QED BY <1>13, <2>1 DEF S
<1>15. G = [f \in File |-> G[f]]
    <2> HIDE DEF at
    <2>1. G = [f \in File |-> Upto(p, G, f)[Len(p[f])]]
        BY <1>9 DEF at
    <2> QED BY <2>1
<1> QED BY <1>10, <1>14, <1>15 DEF G

\* Whether the files of p end in a gate.
EndsOf(p) ==
    CHOOSE e : e = [f \in File |->
        \/ p[f] = <<>> /\ f = Main
        \/ /\ p[f] # <<>>
           /\ LET op == p[f][Len(p[f])]
              IN  op.options = "call" => e[op.dest]]

\* It is what the model calls EndsInGate.
LEMMA EndsIs == EndsInGate = EndsOf(prog)
BY DEF EndsInGate, EndsOf

\* What ends in a call ends as the function does; an empty function has no end.
LEMMA EndsRecurs ==
    ASSUME NEW p, Calls(p), NEW f \in File, EndsOf(p)[f]
    PROVE  /\ p[f] = <<>> => f = Main
           /\ p[f] # <<>> /\ p[f][Len(p[f])].options = "call" => EndsOf(p)[p[f][Len(p[f])].dest]
<1> DEFINE V == [File -> BOOLEAN]
           value(e, g) == \/ p[g] = <<>> /\ g = Main
                          \/ /\ p[g] # <<>>
                             /\ LET op == p[g][Len(p[g])]
                                IN  op.options = "call" => e[op.dest]
           at(e) == [g \in File |-> value(e, g)]
           body == [e \in V |-> at(e)]
           Values == BOOLEAN
<1>1. numfunctions \in Nat /\ File = 0 .. numfunctions
    BY ProgramAssumption DEF File
<1>2. body \in [V -> V]
    OBVIOUS
<1>3. ASSUME NEW e \in V, NEW d \in V, NEW g \in File, \A i \in 0 .. g - 1 : e[i] = d[i]
      PROVE  body[e][g] = body[d][g]
    <2>1. body[e][g] = value(e, g) /\ body[d][g] = value(d, g)
        OBVIOUS
    <2>2. p[g] # <<>> => Len(p[g]) \in 1 .. Len(p[g])
        BY DEF Calls
    <2>3. p[g] # <<>> /\ p[g][Len(p[g])].options = "call" => p[g][Len(p[g])].dest \in 0 .. g - 1
        <3>1. SUFFICES ASSUME p[g] # <<>>, p[g][Len(p[g])].options = "call"
                       PROVE  p[g][Len(p[g])].dest \in 0 .. g - 1
            OBVIOUS
        <3>2. p[g][Len(p[g])] \in Op
            BY <2>2, <3>1 DEF Calls
        <3>3. p[g][Len(p[g])].dest \in 0 .. numfunctions - 1
            BY <3>1, <3>2 DEF Op
        <3>4. p[g][Len(p[g])].dest < g
            BY <2>2, <3>1 DEF Calls
        <3> QED BY <1>1, <3>3, <3>4
    <2>4. value(e, g) <=> value(d, g)
        <3>1. p[g] # <<>> /\ p[g][Len(p[g])].options = "call" => e[p[g][Len(p[g])].dest] = d[p[g][Len(p[g])].dest]
            BY <1>3, <2>3
        <3> QED BY <3>1
    <2> HIDE DEF body
    <2>5. value(e, g) \in BOOLEAN /\ value(d, g) \in BOOLEAN
        OBVIOUS
    <2> HIDE DEF value
    <2> QED BY <2>1, <2>4, <2>5
<1> HIDE DEF value
<1>4. LooksBelow(body, numfunctions, Values)
    <2> HIDE DEF body
    <2> QED BY <1>1, <1>2, <1>3 DEF LooksBelow
<1>5. PICK e \in V : e = body[e]
    <2>1. \E e \in [0 .. numfunctions -> Values] : e = body[e]
        <3> DEFINE w == TRUE
        <3>1. w \in Values
            OBVIOUS
        <3> HIDE DEF body, Values, w
        <3> QED BY <1>1, <1>4, <3>1, SolutionBelow
    <2> HIDE DEF body
    <2> QED BY <1>1, <2>1
<1>6. e = at(e)
    BY <1>5
<1> DEFINE d == EndsOf(p)
<1>7. d = at(d)
    <2>1. d = CHOOSE c : c = at(c)
        BY DEF EndsOf, value
    <2> HIDE DEF at, d
    <2> QED BY <1>6, <2>1
<1> HIDE DEF d
<1>8. d[f] = value(d, f)
    BY <1>7
<1>9. value(d, f)
    BY <1>8 DEF d
<1> QED BY <1>9 DEF value, d

\* The first operations of file f of p, carried out.
Pre(p, f) == Upto(p, FlatOf(p), f)

\* They are those before, and one more.
LEMMA PreRecurs ==
    ASSUME NEW p, Calls(p), NEW f \in File
    PROVE  /\ Pre(p, f) \in [0 .. Len(p[f]) -> Seq(Op)]
           /\ Len(p[f]) \in Nat
           /\ Pre(p, f)[0] = <<>>
           /\ \A k \in 1 .. Len(p[f]) : Pre(p, f)[k] = Pre(p, f)[k - 1] \o Piece(FlatOf(p), p[f][k])
           /\ FlatOf(p)[f] = Pre(p, f)[Len(p[f])]
<1>1. /\ FlatOf(p) \in [File -> Seq(Op)]
      /\ \A g \in File : FlatOf(p)[g] = Upto(p, FlatOf(p), g)[Len(p[g])]
    BY FlatRecurs
<1>2. \A g \in 0 .. f - 1 : FlatOf(p)[g] \in Seq(Op)
    BY <1>1, ProgramAssumption DEF File
<1>3. Len(p[f]) \in Nat
    BY DEF Calls
<1>4. /\ Upto(p, FlatOf(p), f) \in [0 .. Len(p[f]) -> Seq(Op)]
      /\ Upto(p, FlatOf(p), f)[0] = <<>>
      /\ \A k \in 1 .. Len(p[f]) :
            Upto(p, FlatOf(p), f)[k] = Upto(p, FlatOf(p), f)[k - 1] \o Piece(FlatOf(p), p[f][k])
    BY <1>2, UptoRecurs
<1>5. FlatOf(p)[f] = Upto(p, FlatOf(p), f)[Len(p[f])]
    BY <1>1
<1> QED BY <1>3, <1>4, <1>5 DEF Pre

\* All of a file's operations, carried out, are what the file stands for.
LEMMA PreIsFlat ==
    ASSUME NEW p, Calls(p), NEW f \in File
    PROVE  FlatOf(p)[f] = Pre(p, f)[Len(p[f])]
BY PreRecurs

\* Sequence s goes on from sequence t.
GoesOn(s, t) == Len(t) <= Len(s) /\ \A i \in 1 .. Len(t) : s[i] = t[i]

\* Further operations come behind.
LEMMA PreGoesOn ==
    ASSUME NEW p, Calls(p), NEW f \in File, NEW k \in 0 .. Len(p[f])
    PROVE  GoesOn(FlatOf(p)[f], Pre(p, f)[k])
<1> DEFINE n == Len(p[f])
           U == Pre(p, f)
           S == {m \in Nat : k <= m /\ m <= n => GoesOn(U[m], U[k])}
<1>1. /\ U \in [0 .. n -> Seq(Op)] /\ n \in Nat
      /\ \A m \in 1 .. n : U[m] = U[m - 1] \o Piece(FlatOf(p), p[f][m])
      /\ FlatOf(p)[f] = U[n]
    BY PreRecurs
<1>2. ASSUME NEW m \in 1 .. n PROVE Piece(FlatOf(p), p[f][m]) \in Seq(Op)
    <2>1. \A g \in 0 .. f - 1 : FlatOf(p)[g] \in Seq(Op)
        BY FlatRecurs, ProgramAssumption DEF File
    <2> QED BY <1>2, <2>1, PieceTyped
<1> HIDE DEF U, n
<1>3. U[k] \in Seq(Op) /\ k \in Nat /\ k <= n
    BY <1>1 DEF n
<1>4. 0 \in S
    BY <1>3 DEF GoesOn
<1>5. ASSUME NEW m \in Nat, m \in S PROVE m + 1 \in S
    <2> DEFINE l == m + 1
    <2>1. SUFFICES ASSUME k <= l, l <= n PROVE GoesOn(U[l], U[k])
        OBVIOUS
    <2>2. CASE k = l
        BY <1>3, <2>2 DEF GoesOn
    <2>3. CASE k # l
        <3>1. l \in 1 .. n /\ l - 1 = m /\ k <= m /\ m <= n /\ m \in 0 .. n
            BY <1>1, <1>3, <2>1, <2>3
        <3>2. GoesOn(U[m], U[k]) /\ U[m] \in Seq(Op)
            BY <1>1, <1>5, <3>1
        <3> DEFINE t == Piece(FlatOf(p), p[f][l])
        <3>3. t \in Seq(Op)
            BY <1>2, <3>1
        <3>4. U[l] = U[m] \o t
            BY <1>1, <3>1
        <3> HIDE DEF t, l
        <3> QED BY <1>3, <3>2, <3>3, <3>4 DEF GoesOn
    <2> QED BY <2>2, <2>3
<1> HIDE DEF S
<1>6. Nat \subseteq S
    BY <1>4, <1>5, NatInductive
<1>7. GoesOn(U[n], U[k])
    BY <1>1, <1>3, <1>6 DEF S
<1> QED BY <1>1, <1>7 DEF U

\* Sequence s lies in w, behind its first b elements.
Lies(w, b, s) == b + Len(s) <= Len(w) /\ \A i \in 1 .. Len(s) : w[b + i] = s[i]

\* A file's operation stands, carried out, behind those before it.
LEMMA PieceStands ==
    ASSUME NEW p, Calls(p), NEW f \in File, NEW k \in 1 .. Len(p[f])
    PROVE  /\ Len(Pre(p, f)[k - 1]) \in Nat
           /\ Piece(FlatOf(p), p[f][k]) \in Seq(Op) /\ Len(Piece(FlatOf(p), p[f][k])) \in Nat
           /\ Len(Pre(p, f)[k]) = Len(Pre(p, f)[k - 1]) + Len(Piece(FlatOf(p), p[f][k]))
           /\ Lies(FlatOf(p)[f], Len(Pre(p, f)[k - 1]), Piece(FlatOf(p), p[f][k]))
<1> DEFINE s == Piece(FlatOf(p), p[f][k])
           t == Pre(p, f)[k - 1]
           u == Pre(p, f)[k]
           w == FlatOf(p)[f]
<1>1. k \in 0 .. Len(p[f]) /\ k - 1 \in 0 .. Len(p[f]) /\ Len(p[f]) \in Nat
    BY PreRecurs
<1>2. t \in Seq(Op) /\ u = t \o s /\ w \in Seq(Op)
    <2>1. Pre(p, f) \in [0 .. Len(p[f]) -> Seq(Op)] /\ u = t \o s
        BY PreRecurs
    <2>2. w \in Seq(Op)
        BY FlatRecurs
    <2> QED BY <1>1, <2>1, <2>2
<1>3. s \in Seq(Op)
    <2>1. \A g \in 0 .. f - 1 : FlatOf(p)[g] \in Seq(Op)
        BY FlatRecurs, ProgramAssumption DEF File
    <2> QED BY <2>1, PieceTyped
<1>4. GoesOn(w, u)
    BY <1>1, PreGoesOn
<1> HIDE DEF s, t, u, w
<1>5. Len(t) \in Nat /\ Len(s) \in Nat /\ Len(u) = Len(t) + Len(s) /\ Len(u) <= Len(w)
    BY <1>2, <1>3, <1>4 DEF GoesOn
<1>6. ASSUME NEW i \in 1 .. Len(s) PROVE w[Len(t) + i] = s[i]
    <2>1. u[Len(t) + i] = s[i]
        BY <1>2, <1>3
    <2>2. Len(t) + i \in 1 .. Len(u)
        BY <1>5
    <2> QED BY <1>4, <2>1, <2>2 DEF GoesOn
<1>7. Lies(w, Len(t), s)
    BY <1>5, <1>6 DEF Lies
<1> QED BY <1>3, <1>5, <1>7 DEF s, t, u, w

\* The k-th operation of file f makes what comes before it that much longer.
Longer(p, f, k) == Len(Pre(p, f)[k]) = Len(Pre(p, f)[k - 1]) + Len(Piece(FlatOf(p), p[f][k]))

\* Each operation does.
LEMMA PieceLonger ==
    ASSUME NEW p, Calls(p), NEW f \in File, NEW k \in 1 .. Len(p[f])
    PROVE  Longer(p, f, k)
BY PieceStands DEF Longer

----------------------------------------------------------------------------
(* The reader's place in it. *)

\* Of p, s calls are under way, from file fs[j] at its operation ps[j] each; what
\* these files are carried out to lies in the program behind base[j]; and n
\* operations of it come before the place of the active file.
Frames(p, s, fs, ps, base, n) ==
    /\ fs[0] = Main /\ base[0] = 0
    /\ \A j \in 0 .. s :
          /\ fs[j] \in File /\ ps[j] \in 0 .. Len(p[fs[j]]) /\ base[j] \in Nat
          /\ Lies(FlatOf(p)[Main], base[j], FlatOf(p)[fs[j]])
    /\ \A j \in 0 .. s - 1 :
          /\ ps[j] # 0
          /\ p[fs[j]][ps[j]].options = "call" /\ p[fs[j]][ps[j]].dest = fs[j + 1]
          /\ base[j + 1] = base[j] + Len(Pre(p, fs[j])[ps[j] - 1])
    /\ n = base[s] + Len(Pre(p, fs[s])[ps[s]])

\* The active file has another operation.
HasNext(p, s, fs, ps) == ps[s] < Len(p[fs[s]])

\* Not beyond the end.
LEMMA FramesWithin ==
    ASSUME NEW p, Calls(p), NEW s \in Nat, NEW fs, NEW ps, NEW base, NEW n, Frames(p, s, fs, ps, base, n)
    PROVE  n \in Nat /\ n <= Len(FlatOf(p)[Main])
<1> DEFINE f == fs[s]  u == Pre(p, f)[ps[s]]  w == FlatOf(p)[Main]  v == FlatOf(p)[f]
<1>1. /\ f \in File /\ ps[s] \in 0 .. Len(p[f]) /\ base[s] \in Nat /\ Lies(w, base[s], v)
      /\ n = base[s] + Len(u)
    <2>1. s \in 0 .. s
        OBVIOUS
    <2> QED BY <2>1 DEF Frames
<1>2. GoesOn(v, u)
    BY <1>1, PreGoesOn
<1>3. u \in Seq(Op) /\ v \in Seq(Op) /\ w \in Seq(Op)
    <2>1. Main \in File
        BY ProgramAssumption DEF Main, File
    <2>2. v \in Seq(Op) /\ w \in Seq(Op)
        BY <1>1, <2>1, FlatRecurs
    <2>3. Pre(p, f) \in [0 .. Len(p[f]) -> Seq(Op)]
        BY <1>1, PreRecurs
    <2> QED BY <1>1, <2>2, <2>3
<1> HIDE DEF u, v, w
<1>4. Len(u) \in Nat /\ Len(v) \in Nat /\ Len(w) \in Nat
    BY <1>3
<1> QED BY <1>1, <1>2, <1>4 DEF GoesOn, Lies, w

\* At the start.
LEMMA FramesStart ==
    ASSUME NEW p, Calls(p), NEW fs, NEW ps, fs[0] = Main, ps[0] = 0
    PROVE  \E base : Frames(p, 0, fs, ps, base, 0)
<1> DEFINE base == [j \in {0} |-> 0]
<1>1. base[0] = 0
    OBVIOUS
<1>2. Main \in File
    BY ProgramAssumption DEF Main, File
<1>3. Pre(p, Main)[0] = <<>> /\ Len(p[Main]) \in Nat /\ FlatOf(p)[Main] \in Seq(Op)
    BY <1>2, PreRecurs, FlatRecurs
<1>4. Lies(FlatOf(p)[Main], 0, FlatOf(p)[Main])
    <2> DEFINE w == FlatOf(p)[Main]
    <2>1. w \in Seq(Op)
        BY <1>3
    <2> HIDE DEF w
    <2>2. Len(w) \in Nat
        BY <2>1
    <2>3. Lies(w, 0, w)
        BY <2>2 DEF Lies
    <2> QED BY <2>3 DEF w
<1> HIDE DEF base
<1>5. Frames(p, 0, fs, ps, base, 0)
    BY <1>1, <1>2, <1>3, <1>4 DEF Frames
<1> QED BY <1>5

\* The active file's next operation, and where it lies.
LEMMA FramesPiece ==
    ASSUME NEW p, Calls(p), NEW s \in Nat, NEW fs, NEW ps, NEW base, NEW n, Frames(p, s, fs, ps, base, n),
           HasNext(p, s, fs, ps)
    PROVE  /\ fs[s] \in File /\ ps[s] + 1 \in 1 .. Len(p[fs[s]]) /\ p[fs[s]][ps[s] + 1] \in Op
           /\ Piece(FlatOf(p), p[fs[s]][ps[s] + 1]) \in Seq(Op)
           /\ Len(Pre(p, fs[s])[ps[s] + 1])
                 = Len(Pre(p, fs[s])[ps[s]]) + Len(Piece(FlatOf(p), p[fs[s]][ps[s] + 1]))
           /\ Lies(FlatOf(p)[Main], n, Piece(FlatOf(p), p[fs[s]][ps[s] + 1]))
<1> DEFINE f == fs[s]  k == ps[s] + 1  l == Len(Pre(p, f)[k - 1])
           piece == Piece(FlatOf(p), p[f][k])  w == FlatOf(p)[Main]  v == FlatOf(p)[f]  b == base[s]
<1>1. /\ f \in File /\ ps[s] \in 0 .. Len(p[f]) /\ b \in Nat /\ Lies(w, b, v)
      /\ n = b + Len(Pre(p, f)[ps[s]])
    <2>1. s \in 0 .. s
        OBVIOUS
    <2> QED BY <2>1 DEF Frames
<1>2. k \in 1 .. Len(p[f]) /\ k - 1 = ps[s]
    BY <1>1, PreRecurs DEF HasNext
<1>3. /\ l \in Nat /\ piece \in Seq(Op) /\ Len(piece) \in Nat
      /\ Len(Pre(p, f)[k]) = l + Len(piece)
      /\ Lies(v, l, piece)
    <2> HIDE DEF f, k
    <2> QED BY <1>1, <1>2, PieceStands
<1>4. p[f][k] \in Op
    BY <1>1, <1>2 DEF Calls
<1>5. n = b + l
    BY <1>1, <1>2
<1>6. Len(v) \in Nat /\ Len(w) \in Nat
    <2>1. Main \in File
        BY ProgramAssumption DEF Main, File
    <2>2. v \in Seq(Op) /\ w \in Seq(Op)
        BY <1>1, <2>1, FlatRecurs
    <2> HIDE DEF v, w
    <2> QED BY <2>2
<1>7. Lies(w, n, piece)
    <2>0. l + Len(piece) <= Len(v) /\ \A i \in 1 .. Len(piece) : v[l + i] = piece[i]
        BY <1>3 DEF Lies
    <2> HIDE DEF piece, w, v, b, l
    <2>1. n + Len(piece) <= Len(w)
        BY <1>1, <1>3, <1>5, <1>6, <2>0 DEF Lies
    <2>2. ASSUME NEW i \in 1 .. Len(piece) PROVE w[n + i] = piece[i]
        <3>1. l + i \in 1 .. Len(v) /\ b + (l + i) = n + i
            <4> DEFINE h == Len(piece)  c == Len(v)
            <4>1. h \in Nat /\ c \in Nat /\ l \in Nat /\ b \in Nat /\ l + h <= c /\ n = b + l /\ i \in 1 .. h
                BY <1>1, <1>3, <1>5, <1>6, <2>0
            <4> HIDE DEF h, c
            <4>2. l + i \in 1 .. c /\ b + (l + i) = n + i
                BY <4>1
            <4> QED BY <4>2 DEF c
        <3>2. w[b + (l + i)] = v[l + i]
            BY <1>1, <3>1 DEF Lies
        <3> QED BY <2>0, <3>1, <3>2
    <2> QED BY <2>1, <2>2 DEF Lies
<1> HIDE DEF piece, w
<1>8. l = Len(Pre(p, f)[ps[s]])
    BY <1>2
<1> HIDE DEF l
<1> QED BY <1>1, <1>2, <1>3, <1>4, <1>7, <1>8 DEF piece, w

\* An operation is read that stays in its file.
LEMMA FramesRead ==
    ASSUME NEW p, Calls(p), NEW s \in Nat, NEW fs, NEW ps, NEW base, NEW n, Frames(p, s, fs, ps, base, n),
           HasNext(p, s, fs, ps),
           NEW gs, NEW qs, \A j \in 0 .. s : gs[j] = fs[j],
           \A j \in 0 .. s - 1 : qs[j] = ps[j], qs[s] = ps[s] + 1
    PROVE  Frames(p, s, gs, qs, base, n + Len(Piece(FlatOf(p), p[fs[s]][ps[s] + 1])))
<1> DEFINE l == Len(Piece(FlatOf(p), p[fs[s]][ps[s] + 1]))
           a == Len(Pre(p, fs[s])[ps[s]])
           d == Len(Pre(p, fs[s])[ps[s] + 1])
<1>1. ps[s] + 1 \in 1 .. Len(p[fs[s]]) /\ d = a + l
    <2> DEFINE f == fs[s]  k == ps[s] + 1
    <2>1. k \in 1 .. Len(p[f]) /\ f \in File
        BY FramesPiece
    <2>2. ps[s] = k - 1
        <3>1. ps[s] \in Nat
            <4>1. s \in 0 .. s
                OBVIOUS
            <4>2. ps[s] \in 0 .. Len(p[fs[s]])
                BY <4>1 DEF Frames
            <4> QED BY <4>2
        <3> QED BY <3>1
    <2>3. Len(Pre(p, f)[k]) = Len(Pre(p, f)[k - 1]) + Len(Piece(FlatOf(p), p[f][k]))
        <3> HIDE DEF f, k
        <3>1. Longer(p, f, k)
            BY <2>1, PieceLonger
        <3> QED BY <3>1 DEF Longer
    <2>4. Len(Pre(p, f)[k - 1]) = a
        BY <2>2
    <2> QED BY <2>1, <2>3, <2>4
<1>2. s \in 0 .. s /\ 0 \in 0 .. s /\ \A j \in 0 .. s - 1 : j \in 0 .. s /\ j + 1 \in 0 .. s
    OBVIOUS
<1>3. a \in Nat /\ l \in Nat /\ base[s] \in Nat /\ n = base[s] + a
    <2>1. fs[s] \in File /\ ps[s] \in 0 .. Len(p[fs[s]]) /\ base[s] \in Nat /\ n = base[s] + a
        BY <1>2 DEF Frames
    <2>2. Pre(p, fs[s])[ps[s]] \in Seq(Op)
        <3>1. Pre(p, fs[s]) \in [0 .. Len(p[fs[s]]) -> Seq(Op)]
            BY <2>1, PreRecurs
        <3> QED BY <2>1, <3>1
    <2>3. Piece(FlatOf(p), p[fs[s]][ps[s] + 1]) \in Seq(Op)
        BY FramesPiece
    <2>4. \A t \in Seq(Op) : Len(t) \in Nat
        OBVIOUS
    <2> QED BY <2>1, <2>2, <2>3, <2>4
<1>4. n + l = base[s] + d
    <2> HIDE DEF l, a, d
    <2> QED BY <1>1, <1>3
<1>5. gs[0] = Main /\ base[0] = 0
    BY <1>2 DEF Frames
<1>6. ASSUME NEW j \in 0 .. s
      PROVE  /\ gs[j] \in File /\ qs[j] \in 0 .. Len(p[gs[j]]) /\ base[j] \in Nat
             /\ Lies(FlatOf(p)[Main], base[j], FlatOf(p)[gs[j]])
    <2>1. gs[j] = fs[j]
        OBVIOUS
    <2>2. qs[j] \in 0 .. Len(p[fs[j]])
        <3>1. CASE j = s
            <4>1. Len(p[fs[s]]) \in Nat
                BY <1>2, PreRecurs DEF Frames
            <4> QED BY <1>1, <3>1, <4>1
        <3>2. CASE j # s
            <4>1. j \in 0 .. s - 1
                BY <3>2
            <4> QED BY <4>1 DEF Frames
        <3> QED BY <3>1, <3>2
    <2> QED BY <2>1, <2>2 DEF Frames
<1>7. ASSUME NEW j \in 0 .. s - 1
      PROVE  /\ qs[j] # 0
             /\ p[gs[j]][qs[j]].options = "call" /\ p[gs[j]][qs[j]].dest = gs[j + 1]
             /\ base[j + 1] = base[j] + Len(Pre(p, gs[j])[qs[j] - 1])
    <2>1. gs[j] = fs[j] /\ gs[j + 1] = fs[j + 1] /\ qs[j] = ps[j]
        BY <1>2
    <2> QED BY <2>1 DEF Frames
<1>8. Len(Pre(p, gs[s])[qs[s]]) = d
    BY <1>2
<1> HIDE DEF l, a, d
<1>9. n + l = base[s] + Len(Pre(p, gs[s])[qs[s]])
    BY <1>4, <1>8
<1>10. Frames(p, s, gs, qs, base, n + l)
    BY <1>5, <1>6, <1>7, <1>9 DEF Frames
<1> QED BY <1>10 DEF l

\* The active file's next operation is a call, and its function is entered.
Enters(p, s, fs, ps, gs, qs) ==
    /\ fs[s] \in File /\ ps[s] + 1 \in 1 .. Len(p[fs[s]])
    /\ p[fs[s]][ps[s] + 1].options = "call"
    /\ \A j \in 0 .. s : gs[j] = fs[j]
    /\ gs[s + 1] = p[fs[s]][ps[s] + 1].dest
    /\ \A j \in 0 .. s - 1 : qs[j] = ps[j]
    /\ qs[s] = ps[s] + 1 /\ qs[s + 1] = 0

\* A function is entered.
LEMMA FramesCall ==
    ASSUME NEW p, Calls(p), NEW s \in Nat, NEW fs, NEW ps, NEW base, NEW n, Frames(p, s, fs, ps, base, n),
           HasNext(p, s, fs, ps), NEW gs, NEW qs, Enters(p, s, fs, ps, gs, qs)
    PROVE  \E b : Frames(p, s + 1, gs, qs, b, n)
<1> USE DEF Enters
<1> DEFINE g == p[fs[s]][ps[s] + 1].dest
           b == [j \in 0 .. s + 1 |-> IF j = s + 1 THEN n ELSE base[j]]
<1>0. Piece(FlatOf(p), p[fs[s]][ps[s] + 1]) = FlatOf(p)[g]
    BY DEF Piece
<1>1. ps[s] + 1 \in 1 .. Len(p[fs[s]]) /\ Lies(FlatOf(p)[Main], n, FlatOf(p)[g])
    <2>1. ps[s] + 1 \in 1 .. Len(p[fs[s]])
        BY FramesPiece
    <2>2. Lies(FlatOf(p)[Main], n, Piece(FlatOf(p), p[fs[s]][ps[s] + 1]))
        BY FramesPiece
    <2> HIDE DEF g
    <2> QED BY <1>0, <2>1, <2>2
<1>2. s \in 0 .. s /\ 0 \in 0 .. s /\ \A j \in 0 .. s - 1 : j \in 0 .. s /\ j + 1 \in 0 .. s
    OBVIOUS
<1>3. n \in Nat
    BY FramesWithin
<1>4. g \in File
    <2>1. fs[s] \in File
        BY <1>2 DEF Frames
    <2>2. \A h \in 0 .. fs[s] - 1 : FlatOf(p)[h] \in Seq(Op)
        <3>1. FlatOf(p) \in [File -> Seq(Op)] /\ 0 .. fs[s] - 1 \subseteq File
            BY <2>1, FlatRecurs, ProgramAssumption DEF File
        <3> QED BY <3>1
    <2> QED BY <1>1, <2>1, <2>2, PieceTyped
<1>5. Pre(p, g)[0] = <<>> /\ Len(p[g]) \in Nat
    BY <1>4, PreRecurs
<1>6. b[s + 1] = n /\ \A j \in 0 .. s : b[j] = base[j]
    OBVIOUS
<1> HIDE DEF b, g
<1>7. gs[0] = Main /\ b[0] = 0
    BY <1>2, <1>6 DEF Frames
<1>8. ASSUME NEW j \in 0 .. s + 1
      PROVE  /\ gs[j] \in File /\ qs[j] \in 0 .. Len(p[gs[j]]) /\ b[j] \in Nat
             /\ Lies(FlatOf(p)[Main], b[j], FlatOf(p)[gs[j]])
    <2>1. CASE j = s + 1
        <3>1. gs[j] = g /\ qs[j] = 0 /\ b[j] = n
            BY <1>6, <2>1 DEF g
        <3> QED BY <1>1, <1>3, <1>4, <1>5, <3>1
    <2>2. CASE j # s + 1
        <3>1. j \in 0 .. s
            BY <2>2
        <3>2. gs[j] = fs[j] /\ b[j] = base[j]
            BY <1>6, <3>1
        <3>3. qs[j] \in 0 .. Len(p[fs[j]])
            <4>1. CASE j = s
                <5>1. Len(p[fs[s]]) \in Nat
                    BY <1>2, PreRecurs DEF Frames
                <5> QED BY <1>1, <4>1, <5>1
            <4>2. CASE j # s
                <5>1. j \in 0 .. s - 1
                    BY <3>1, <4>2
                <5> QED BY <3>1, <5>1 DEF Frames
            <4> QED BY <4>1, <4>2
        <3> QED BY <3>1, <3>2, <3>3 DEF Frames
    <2> QED BY <2>1, <2>2
<1>9. ASSUME NEW j \in 0 .. s
      PROVE  /\ qs[j] # 0
             /\ p[gs[j]][qs[j]].options = "call" /\ p[gs[j]][qs[j]].dest = gs[j + 1]
             /\ b[j + 1] = b[j] + Len(Pre(p, gs[j])[qs[j] - 1])
    <2>1. CASE j = s
        <3>1. ps[s] \in Nat /\ (ps[s] + 1) - 1 = ps[s] /\ ps[s] + 1 # 0
            <4>1. ps[s] \in 0 .. Len(p[fs[s]])
                BY <1>2 DEF Frames
            <4> QED BY <4>1
        <3>2. gs[j] = fs[s] /\ qs[j] = ps[s] + 1 /\ gs[j + 1] = g /\ b[j + 1] = n /\ b[j] = base[s]
            BY <1>2, <1>6, <2>1 DEF g
        <3>3. n = base[s] + Len(Pre(p, fs[s])[ps[s]])
            BY DEF Frames
        <3> QED BY <3>1, <3>2, <3>3 DEF g
    <2>2. CASE j # s
        <3>1. j \in 0 .. s - 1
            BY <2>2
        <3>2. gs[j] = fs[j] /\ gs[j + 1] = fs[j + 1] /\ qs[j] = ps[j] /\ b[j] = base[j] /\ b[j + 1] = base[j + 1]
            BY <1>2, <1>6, <3>1
        <3> QED BY <3>1, <3>2 DEF Frames
    <2> QED BY <2>1, <2>2
<1>10. n = b[s + 1] + Len(Pre(p, gs[s + 1])[qs[s + 1]])
    <2>1. gs[s + 1] = g
        BY DEF g
    <2>2. Len(<<>>) = 0
        OBVIOUS
    <2> QED BY <1>3, <1>5, <1>6, <2>1, <2>2
<1>11. (s + 1) - 1 = s
    OBVIOUS
<1>12. Frames(p, s + 1, gs, qs, b, n)
    BY <1>7, <1>8, <1>9, <1>10, <1>11 DEF Frames
<1> QED BY <1>12

\* A function ends: its caller goes on behind the call.
LEMMA FramesReturn ==
    ASSUME NEW p, Calls(p), NEW s \in Nat \ {0}, NEW fs, NEW ps, NEW base, NEW n, Frames(p, s, fs, ps, base, n),
           ps[s] = Len(p[fs[s]]),
           NEW gs, NEW qs, \A j \in 0 .. s - 1 : gs[j] = fs[j] /\ qs[j] = ps[j]
    PROVE  Frames(p, s - 1, gs, qs, base, n)
<1> DEFINE m == s - 1  f == fs[m]  k == ps[m]  l == Len(Pre(p, f)[k - 1])  d == Len(Pre(p, f)[k])
           v == FlatOf(p)[fs[s]]
<1>1. m \in Nat /\ m \in 0 .. s - 1 /\ m \in 0 .. s /\ s \in 0 .. s /\ m + 1 = s /\ 0 \in 0 .. s - 1
    OBVIOUS
<1>2. f \in File /\ fs[s] \in File /\ k \in 1 .. Len(p[f])
    <2>1. f \in File /\ fs[s] \in File /\ k \in 0 .. Len(p[f]) /\ k # 0
        BY <1>1 DEF Frames
    <2>2. Len(p[f]) \in Nat
        BY <2>1, PreRecurs
    <2> QED BY <2>1, <2>2
<1>3. p[f][k].options = "call" /\ p[f][k].dest = fs[s] /\ base[s] = base[m] + l /\ base[m] \in Nat
    BY <1>1 DEF Frames
<1>4. l \in Nat /\ Len(v) \in Nat /\ d = l + Len(v)
    <2>1. Piece(FlatOf(p), p[f][k]) = v
        BY <1>3 DEF Piece
    <2>2. Len(Pre(p, f)[k - 1]) \in Nat /\ Len(Piece(FlatOf(p), p[f][k])) \in Nat
        <3> HIDE DEF f, k, v
        <3> QED BY <1>2, PieceStands
    <2>3. Longer(p, f, k)
        <3> HIDE DEF f, k, v
        <3> QED BY <1>2, PieceLonger
    <2> HIDE DEF f, k, v
    <2> QED BY <2>1, <2>2, <2>3 DEF Longer
<1>5. n = base[s] + Len(v)
    <2>1. n = base[s] + Len(Pre(p, fs[s])[ps[s]])
        BY DEF Frames
    <2>2. FlatOf(p)[fs[s]] = Pre(p, fs[s])[Len(p[fs[s]])]
        BY <1>2, PreIsFlat
    <2> QED BY <2>1, <2>2
<1>6. n = base[m] + d
    <2> HIDE DEF l, d, v, m
    <2> QED BY <1>3, <1>4, <1>5
<1>7. \A j \in 0 .. m : j \in 0 .. s - 1 /\ j \in 0 .. s
    OBVIOUS
<1>8. \A j \in 0 .. m - 1 : j \in 0 .. s - 1 /\ j + 1 \in 0 .. s - 1
    OBVIOUS
<1>9. n = base[m] + Len(Pre(p, gs[m])[qs[m]])
    BY <1>1, <1>6
<1> HIDE DEF m, f, k, l, d, v
<1>10. gs[0] = Main /\ base[0] = 0
    BY <1>1 DEF Frames
<1>11. ASSUME NEW j \in 0 .. m
       PROVE  /\ gs[j] \in File /\ qs[j] \in 0 .. Len(p[gs[j]]) /\ base[j] \in Nat
              /\ Lies(FlatOf(p)[Main], base[j], FlatOf(p)[gs[j]])
    <2>1. gs[j] = fs[j] /\ qs[j] = ps[j]
        BY <1>7
    <2> QED BY <1>7, <2>1 DEF Frames
<1>12. ASSUME NEW j \in 0 .. m - 1
       PROVE  /\ qs[j] # 0
              /\ p[gs[j]][qs[j]].options = "call" /\ p[gs[j]][qs[j]].dest = gs[j + 1]
              /\ base[j + 1] = base[j] + Len(Pre(p, gs[j])[qs[j] - 1])
    <2>1. gs[j] = fs[j] /\ qs[j] = ps[j] /\ gs[j + 1] = fs[j + 1]
        BY <1>8
    <2> QED BY <1>8, <2>1 DEF Frames
<1>13. Frames(p, m, gs, qs, base, n)
    BY <1>9, <1>10, <1>11, <1>12 DEF Frames
<1> QED BY <1>13 DEF m

\* An empty function stands for nothing.
LEMMA FlatEmpty ==
    ASSUME NEW p, Calls(p), NEW f \in File, p[f] = <<>>
    PROVE  FlatOf(p)[f] = <<>>
<1>1. Len(p[f]) = 0
    OBVIOUS
<1> QED BY <1>1, PreRecurs

----------------------------------------------------------------------------
(* What is left to read. *)

\* The last operation of each file under way, where those below are at their
\* end, is a gate or leads to one.
LastIsGate(p, s, fs, ps) ==
    \A j \in 0 .. s : (\A i \in 0 .. j - 1 : ps[i] = Len(p[fs[i]])) => EndsOf(p)[fs[j]]

\* There is something left to read.
More(p, s, fs, ps) == \E j \in 0 .. s : ps[j] # Len(p[fs[j]])

\* The place in the active file does not matter to it.
LEMMA EndsRead ==
    ASSUME NEW p, NEW s \in Nat, NEW fs, NEW ps, LastIsGate(p, s, fs, ps),
           NEW gs, NEW qs, \A j \in 0 .. s : gs[j] = fs[j], \A j \in 0 .. s - 1 : qs[j] = ps[j]
    PROVE  LastIsGate(p, s, gs, qs)
<1>1. ASSUME NEW j \in 0 .. s, \A i \in 0 .. j - 1 : qs[i] = Len(p[gs[i]]) PROVE EndsOf(p)[gs[j]]
    <2>1. \A i \in 0 .. j - 1 : i \in 0 .. s - 1 /\ i \in 0 .. s
        OBVIOUS
    <2>2. \A i \in 0 .. j - 1 : ps[i] = Len(p[fs[i]])
        BY <1>1, <2>1
    <2> QED BY <2>2 DEF LastIsGate
<1> QED BY <1>1 DEF LastIsGate

\* A function that is the last thing a file calls ends as the file has to.
LEMMA EndsCall ==
    ASSUME NEW p, Calls(p), NEW s \in Nat, NEW fs, NEW ps, LastIsGate(p, s, fs, ps),
           NEW gs, NEW qs, Enters(p, s, fs, ps, gs, qs)
    PROVE  LastIsGate(p, s + 1, gs, qs)
<1> USE DEF Enters
<1>1. ASSUME NEW j \in 0 .. s + 1, \A i \in 0 .. j - 1 : qs[i] = Len(p[gs[i]]) PROVE EndsOf(p)[gs[j]]
    <2>1. CASE j \in 0 .. s
        <3>1. \A i \in 0 .. j - 1 : i \in 0 .. s - 1 /\ i \in 0 .. s
            BY <2>1
        <3>2. \A i \in 0 .. j - 1 : ps[i] = Len(p[fs[i]])
            BY <1>1, <3>1
        <3> QED BY <2>1, <3>2 DEF LastIsGate
    <2>2. CASE j = s + 1
        <3>1. s \in 0 .. s /\ s \in 0 .. j - 1 /\ \A i \in 0 .. s - 1 : i \in 0 .. j - 1 /\ i \in 0 .. s
            BY <2>2
        <3>2. \A i \in 0 .. s - 1 : ps[i] = Len(p[fs[i]])
            BY <1>1, <3>1
        <3>3. EndsOf(p)[fs[s]]
            BY <3>1, <3>2 DEF LastIsGate
        <3>4. ps[s] + 1 = Len(p[fs[s]])
            BY <1>1, <3>1
        <3> DEFINE f == fs[s]
        <3>5. p[f] # <<>>
            <4>1. Len(<<>>) = 0
                OBVIOUS
            <4>2. Len(p[f]) # 0
                <5> DEFINE k == ps[s] + 1
                <5>1. k \in 1 .. Len(p[f]) /\ k = Len(p[f])
                    BY <3>4
                <5> HIDE DEF k
                <5> QED BY <5>1
            <4> QED BY <4>1, <4>2
        <3>6. EndsOf(p)[p[f][Len(p[f])].dest]
            BY <3>3, <3>4, <3>5, EndsRecurs
        <3> QED BY <2>2, <3>4, <3>6
    <2> QED BY <2>1, <2>2
<1> QED BY <1>1 DEF LastIsGate

\* Behind a call of an empty function something is left.
LEMMA EndsEmpty ==
    ASSUME NEW p, Calls(p), NEW s \in Nat, NEW fs, NEW ps, LastIsGate(p, s, fs, ps), fs[s] \in File,
           ps[s] \in 1 .. Len(p[fs[s]]), p[fs[s]][ps[s]].options = "call",
           p[p[fs[s]][ps[s]].dest] = <<>>
    PROVE  More(p, s, fs, ps)
<1> SUFFICES ASSUME ~More(p, s, fs, ps) PROVE FALSE
    OBVIOUS
<1> DEFINE f == fs[s]  g == p[f][Len(p[f])].dest
<1>1. \A j \in 0 .. s : ps[j] = Len(p[fs[j]])
    BY DEF More
<1>2. s \in 0 .. s /\ \A i \in 0 .. s - 1 : i \in 0 .. s
    OBVIOUS
<1>3. EndsOf(p)[f] /\ ps[s] = Len(p[f])
    BY <1>1, <1>2 DEF LastIsGate
<1>4. p[f] # <<>>
    <2>1. Len(<<>>) = 0
        OBVIOUS
    <2>2. Len(p[f]) # 0
        BY <1>3
    <2> QED BY <2>1, <2>2
<1>5. EndsOf(p)[g] /\ p[g] = <<>>
    BY <1>3, <1>4, EndsRecurs
<1>6. g \in 0 .. numfunctions - 1
    <2>1. p[f][Len(p[f])] \in Op
        BY <1>3 DEF Calls
    <2> QED BY <1>3, <2>1 DEF Op
<1>7. g \in File /\ g # Main
    BY <1>6, ProgramAssumption DEF File, Main
<1> QED BY <1>5, <1>7, EndsRecurs

\* Back in the caller's file.
LEMMA EndsReturn ==
    ASSUME NEW p, NEW s \in Nat \ {0}, NEW fs, NEW ps, ps[s] = Len(p[fs[s]]),
           NEW gs, NEW qs, \A j \in 0 .. s - 1 : gs[j] = fs[j] /\ qs[j] = ps[j]
    PROVE  /\ LastIsGate(p, s, fs, ps) => LastIsGate(p, s - 1, gs, qs)
           /\ More(p, s, fs, ps) => More(p, s - 1, gs, qs)
<1>1. ASSUME LastIsGate(p, s, fs, ps), NEW j \in 0 .. s - 1, \A i \in 0 .. j - 1 : qs[i] = Len(p[gs[i]])
      PROVE  EndsOf(p)[gs[j]]
    <2>1. j \in 0 .. s /\ \A i \in 0 .. j - 1 : i \in 0 .. s - 1
        OBVIOUS
    <2>2. \A i \in 0 .. j - 1 : ps[i] = Len(p[fs[i]])
        BY <1>1, <2>1
    <2> QED BY <1>1, <2>1, <2>2 DEF LastIsGate
<1>2. ASSUME More(p, s, fs, ps) PROVE More(p, s - 1, gs, qs)
    <2>1. PICK j \in 0 .. s : ps[j] # Len(p[fs[j]])
        BY <1>2 DEF More
    <2>2. j \in 0 .. s - 1
        BY <2>1
    <2> QED BY <2>1, <2>2 DEF More
<1> QED BY <1>1, <1>2 DEF LastIsGate

----------------------------------------------------------------------------
(* The gates given are those of the program. *)

\* The files under way and the places in them, the active one on top.
Fs == [j \in 0 .. stacksize |-> IF j = stacksize THEN activefile ELSE fileStack[j]]
\* The places in them.
Ps == [j \in 0 .. stacksize |-> IF j = stacksize THEN cfileplace ELSE filePlaceStack[j]]

\* Gates read and not yet given.
Waiting == IF pc = "have" /\ theGate.options # "call" THEN 1 ELSE 0

\* The reader is at the place in the program that the gates given lead to.
PlaceInv == \E base : Frames(prog, stacksize, Fs, Ps, base, Len(gates) + Waiting)

\* A gate read is the next one of the program.
WaitingInv == Waiting = 1 => FlatOf(prog)[Main][Len(gates) + 1] = theGate

\* The gates given are those of the program, so far.
GatesInv ==
    LET flat == FlatOf(prog)[Main]
    IN  Len(gates) <= Len(flat) /\ \A n \in 1 .. Len(gates) : gates[n].op = flat[n]

\* What is left is not just the ends of files when a gate must come.
MoreInv ==
    /\ LastIsGate(prog, stacksize, Fs, Ps)
    /\ IF pc = "have" THEN theGate.options = "call" => More(prog, stacksize, Fs, Ps)
       ELSE inCall => More(prog, stacksize, Fs, Ps)

\* The reader while it reads a program that ends in a gate, and at its end.
Given ==
    /\ GatesInv
    /\ ~ended => pc \in {"get", "have"} /\ PlaceInv /\ WaitingInv /\ MoreInv
    /\ ended => Len(gates) = Len(FlatOf(prog)[Main]) /\ ~inCall /\ pc \in {"have", "done"}

\* The invariant behind GivenSoFar.
GivenIInv ==
    /\ ReaderIInv
    /\ IF loaded THEN EndsOf(prog)[Main] => Given ELSE gates = <<>>

\* The programs call as the assumption says.
LEMMA ProgramCalls == ReaderIInv => Calls(prog)
BY ProgramFacts DEF ReaderIInv, ProgramGiven, Calls

\* What the types say of the stack.
LEMMA PlaceTyped ==
    ASSUME ReaderIInv
    PROVE  /\ stacksize \in Nat /\ stacksize <= numfunctions
           /\ Fs[stacksize] = activefile /\ Ps[stacksize] = cfileplace
           /\ \A j \in 0 .. stacksize - 1 : Fs[j] = fileStack[j] /\ Ps[j] = filePlaceStack[j]
           /\ \A j \in 0 .. stacksize - 1 : j \in StackIndex
           /\ activefile \in File /\ cfileplace \in Nat /\ Len(gates) \in Nat
           /\ Waiting \in {0, 1}
<1>1. stacksize \in Nat /\ stacksize <= numfunctions
    BY NumFunctions DEF ReaderIInv, Depth, InterpreterTypeOK, File, StackIndex
<1>2. \A j \in 0 .. stacksize - 1 : j \in StackIndex /\ j \in 0 .. stacksize /\ j # stacksize
    BY <1>1, NumFunctions DEF StackIndex
<1>3. stacksize \in 0 .. stacksize
    BY <1>1
<1> QED BY <1>1, <1>2, <1>3 DEF ReaderIInv, InterpreterTypeOK, Fs, Ps, Waiting

\* The whole program, carried out, has a length.
LEMMA FlatLen ==
    ASSUME NEW p, Calls(p)
    PROVE  FlatOf(p)[Main] \in Seq(Op) /\ Len(FlatOf(p)[Main]) \in Nat
<1>1. Main \in File
    BY NumFunctions DEF Main, File
<1>2. FlatOf(p)[Main] \in Seq(Op)
    BY <1>1, FlatRecurs
<1> QED BY <1>2

\* A program is loaded: its reader is at its start.
LEMMA LoadGiven == GivenIInv /\ LoadBinary => GivenIInv'
<1> SUFFICES ASSUME GivenIInv, LoadBinary PROVE GivenIInv'
    OBVIOUS
<1>1. ReaderIInv /\ ReaderIInv'
    BY LoadBinaryInv DEF GivenIInv
<1>2. Calls(prog)'
    BY <1>1, ProgramCalls, PTL
<1>3. /\ loaded' = TRUE /\ stacksize' = 0 /\ activefile' = Main /\ cfileplace' = 0 /\ ended' = FALSE
      /\ pc' = "get" /\ inCall' = FALSE /\ gates' = <<>>
    BY DEF LoadBinary, GivenIInv, StartPlace
<1> SUFFICES ASSUME EndsOf(prog')[Main] PROVE Given'
    BY <1>1, <1>3 DEF GivenIInv
<1>4. Fs'[0] = Main /\ Ps'[0] = 0 /\ Waiting' = 0 /\ Len(gates') = 0
    BY <1>3 DEF Fs, Ps, Waiting
<1>5. PlaceInv'
    <2>1. \E base : Frames(prog', 0, Fs', Ps', base, 0)
        BY <1>2, <1>4, FramesStart
    <2> QED BY <1>3, <1>4, <2>1 DEF PlaceInv
<1>6. WaitingInv' /\ GatesInv'
    <2>1. Len(FlatOf(prog')[Main]) \in Nat
        BY <1>2, FlatLen
    <2> QED BY <1>3, <1>4, <2>1 DEF WaitingInv, GatesInv
<1>7. MoreInv'
    <2>1. LastIsGate(prog', 0, Fs', Ps')
        BY <1>4 DEF LastIsGate
    <2> QED BY <1>3, <2>1 DEF MoreInv
<1> QED BY <1>3, <1>5, <1>6, <1>7 DEF Given

\* The circuit takes the gate that was read.
LEMMA NextGateGiven == GivenIInv /\ NextGate => GivenIInv'
<1> SUFFICES ASSUME GivenIInv, NextGate PROVE GivenIInv'
    OBVIOUS
<1>1. ReaderIInv /\ ReaderIInv'
    BY NextGateInv DEF GivenIInv
<1>2. /\ loaded /\ loaded' = loaded /\ pc = "have" /\ pc' = "get" /\ inCall' = FALSE /\ theGate.options # "call"
      /\ UNCHANGED <<prog, stacksize, fileStack, filePlaceStack, activefile, cfileplace, ended>>
      /\ gates' = Append(gates, [op |-> theGate, zero |-> zeroplace])
      /\ ended => inCall
    BY DEF NextGate, reader
<1> SUFFICES ASSUME EndsOf(prog)[Main] PROVE Given'
    BY <1>1, <1>2 DEF GivenIInv
<1>3. Given /\ ~ended
    BY <1>2 DEF GivenIInv, Given
<1>4. Waiting = 1 /\ Waiting' = 0 /\ Fs' = Fs /\ Ps' = Ps
    BY <1>2 DEF Waiting, Fs, Ps
<1>5. /\ Len(gates) \in Nat /\ Len(gates') = Len(gates) + 1
      /\ \A n \in 1 .. Len(gates) : gates'[n] = gates[n]
      /\ gates'[Len(gates) + 1].op = theGate
    <2>1. gates \in Seq(Gate) /\ gates' \in Seq(Gate)
        BY <1>1 DEF ReaderIInv, InterpreterTypeOK
    <2> QED BY <1>2, <2>1
<1>6. PlaceInv'
    <2>1. Len(gates') + Waiting' = Len(gates) + Waiting
        BY <1>4, <1>5
    <2> QED BY <1>2, <1>3, <1>4, <2>1 DEF Given, PlaceInv
<1>7. WaitingInv'
    BY <1>4 DEF WaitingInv
<1>8. GatesInv'
    <2>1. Len(gates') <= Len(FlatOf(prog)[Main])
        <3>1. Calls(prog) /\ stacksize \in Nat
            BY <1>1, ProgramCalls, PlaceTyped
        <3>2. Len(gates) + Waiting <= Len(FlatOf(prog)[Main])
            BY <1>3, <3>1, FramesWithin DEF Given, PlaceInv
        <3> QED BY <1>4, <1>5, <3>2
    <2>2. ASSUME NEW n \in 1 .. Len(gates') PROVE gates'[n].op = FlatOf(prog)[Main][n]
        <3>1. CASE n = Len(gates) + 1
            BY <1>3, <1>4, <1>5, <3>1 DEF Given, WaitingInv
        <3>2. CASE n # Len(gates) + 1
            <4>1. n \in 1 .. Len(gates)
                BY <1>5, <3>2
            <4> QED BY <1>3, <1>5, <4>1 DEF Given, GatesInv
        <3> QED BY <3>1, <3>2
    <2> QED BY <1>2, <2>1, <2>2 DEF GatesInv
<1>9. MoreInv'
    BY <1>2, <1>3, <1>4 DEF Given, MoreInv
<1> QED BY <1>2, <1>3, <1>6, <1>7, <1>8, <1>9 DEF Given

\* It passes over a call.
LEMMA SkipCallGiven == GivenIInv /\ SkipCall => GivenIInv'
<1> SUFFICES ASSUME GivenIInv, SkipCall PROVE GivenIInv'
    OBVIOUS
<1>1. ReaderIInv /\ ReaderIInv'
    BY ReaderOtherInv DEF GivenIInv
<1>2. /\ loaded /\ loaded' = loaded /\ pc = "have" /\ pc' = "get" /\ ~ended /\ theGate.options = "call"
      /\ UNCHANGED <<prog, stacksize, fileStack, filePlaceStack, activefile, cfileplace, ended, theGate, gates>>
    BY DEF SkipCall, reader, AfterCall
<1> SUFFICES ASSUME EndsOf(prog)[Main] PROVE Given'
    BY <1>1, <1>2 DEF GivenIInv
<1>3. Given
    BY <1>2 DEF GivenIInv
<1>4. Waiting = 0 /\ Waiting' = 0 /\ Fs' = Fs /\ Ps' = Ps
    BY <1>2 DEF Waiting, Fs, Ps
<1>5. PlaceInv' /\ WaitingInv' /\ GatesInv' /\ MoreInv'
    BY <1>2, <1>3, <1>4 DEF Given, PlaceInv, WaitingInv, GatesInv, MoreInv
<1> QED BY <1>2, <1>5 DEF Given

\* Nothing but where it is changes when the circuit has seen the end, or when
\* the reader reads no program any more.
LEMMA OtherGiven ==
    GivenIInv /\ (ReadNull \/ Done \/ UNCHANGED interpreterVars) => GivenIInv'
<1> SUFFICES ASSUME GivenIInv, ReadNull \/ Done \/ UNCHANGED interpreterVars PROVE GivenIInv'
    OBVIOUS
<1>1. ReaderIInv'
    BY ReaderOtherInv DEF GivenIInv
<1>2. /\ UNCHANGED <<loaded, prog, stacksize, fileStack, filePlaceStack, activefile, cfileplace, ended, theGate,
                     inCall, gates>>
    BY DEF ReadNull, Done, interpreterVars, reader
<1> SUFFICES ASSUME loaded, EndsOf(prog)[Main] PROVE Given'
    BY <1>1, <1>2 DEF GivenIInv
<1>3. Given
    BY DEF GivenIInv
<1>4. Fs' = Fs /\ Ps' = Ps
    BY <1>2 DEF Fs, Ps
<1>5. CASE ended
    BY <1>2, <1>3, <1>5 DEF Given, GatesInv, ReadNull, Done, interpreterVars
<1>6. CASE ~ended
    <2>1. pc' = pc
        BY <1>6 DEF ReadNull, Done, interpreterVars
    <2>2. Waiting' = Waiting
        BY <1>2, <2>1 DEF Waiting
    <2>3. PlaceInv' /\ WaitingInv' /\ GatesInv' /\ MoreInv'
        BY <1>2, <1>3, <1>4, <1>6, <2>1, <2>2 DEF Given, PlaceInv, WaitingInv, GatesInv, MoreInv
    <2> QED BY <1>2, <1>3, <1>6, <2>1, <2>3 DEF Given
<1> QED BY <1>5, <1>6

\* The reader comes back from a function to its caller.
LEMMA ReturnGiven == GivenIInv /\ Return => GivenIInv'
<1> SUFFICES ASSUME GivenIInv, Return PROVE GivenIInv'
    OBVIOUS
<1>1. ReaderIInv /\ ReaderIInv'
    BY ReturnInv DEF GivenIInv
<1>2. /\ pc = "get" /\ cfileplace >= Len(prog[activefile]) /\ stacksize > 0
      /\ stacksize' = stacksize - 1
      /\ cfileplace' = filePlaceStack[stacksize - 1] /\ activefile' = fileStack[stacksize - 1]
      /\ UNCHANGED <<loaded, prog, fileStack, filePlaceStack, ended, pc, inCall, gates>>
    BY DEF Return, PopFrame
<1> SUFFICES ASSUME loaded, EndsOf(prog)[Main] PROVE Given'
    BY <1>1, <1>2 DEF GivenIInv
<1>3. Given /\ ~ended
    BY <1>2 DEF GivenIInv, Given
<1>4. Calls(prog)
    BY <1>1, ProgramCalls
<1> DEFINE s == stacksize  n == Len(gates) + Waiting
<1>5. s \in Nat \ {0} /\ Fs[s] = activefile /\ Ps[s] = cfileplace
    BY <1>1, <1>2, PlaceTyped
<1>6. \A j \in 0 .. s - 1 : Fs'[j] = Fs[j] /\ Ps'[j] = Ps[j]
    <2>1. ASSUME NEW j \in 0 .. s - 1 PROVE Fs'[j] = fileStack[j] /\ Ps'[j] = filePlaceStack[j]
        <3>1. j \in 0 .. stacksize'
            BY <1>2, <1>5
        <3>2. CASE j = stacksize'
            BY <1>2, <3>1, <3>2 DEF Fs, Ps
        <3>3. CASE j # stacksize'
            BY <1>2, <3>1, <3>3 DEF Fs, Ps
        <3> QED BY <3>2, <3>3
    <2>2. \A j \in 0 .. s - 1 : Fs[j] = fileStack[j] /\ Ps[j] = filePlaceStack[j]
        BY <1>1, PlaceTyped
    <2> QED BY <2>1, <2>2
<1>7. PICK base : Frames(prog, s, Fs, Ps, base, n)
    BY <1>3 DEF Given, PlaceInv
<1>8. Ps[s] = Len(prog[Fs[s]])
    <2>1. s \in 0 .. s
        BY <1>5
    <2>2. Fs[s] \in File /\ Ps[s] \in 0 .. Len(prog[Fs[s]])
        BY <1>7, <2>1 DEF Frames
    <2>3. Len(prog[Fs[s]]) \in Nat
        BY <1>4, <2>2, PreRecurs
    <2> QED BY <1>2, <1>5, <2>2, <2>3
<1> HIDE DEF s, n
<1>9. Frames(prog, s - 1, Fs', Ps', base, n)
    BY <1>4, <1>5, <1>6, <1>7, <1>8, FramesReturn
<1>10. Waiting = 0 /\ Waiting' = 0
    BY <1>2 DEF Waiting
<1>11. PlaceInv'
    BY <1>2, <1>9, <1>10 DEF PlaceInv, s, n
<1>12. MoreInv'
    <2>1. /\ LastIsGate(prog, s, Fs, Ps) => LastIsGate(prog, s - 1, Fs', Ps')
          /\ More(prog, s, Fs, Ps) => More(prog, s - 1, Fs', Ps')
        BY <1>5, <1>6, <1>8, EndsReturn
    <2> QED BY <1>2, <1>3, <2>1 DEF Given, MoreInv, s
<1>13. WaitingInv' /\ GatesInv'
    BY <1>2, <1>3, <1>10 DEF Given, WaitingInv, GatesInv
<1> QED BY <1>2, <1>3, <1>11, <1>12, <1>13 DEF Given

\* One operation is read beyond the main file: every gate has been given.
LEMMA EndGiven == GivenIInv /\ End => GivenIInv'
<1> SUFFICES ASSUME GivenIInv, End PROVE GivenIInv'
    OBVIOUS
<1>1. ReaderIInv /\ ReaderIInv'
    BY ReaderOtherInv DEF GivenIInv
<1>2. /\ pc = "get" /\ cfileplace >= Len(prog[activefile]) /\ stacksize = 0 /\ ~ended
      /\ ended' = TRUE /\ pc' = "have"
      /\ UNCHANGED <<loaded, prog, inCall, gates>>
    BY DEF End
<1> SUFFICES ASSUME loaded, EndsOf(prog)[Main] PROVE Given'
    BY <1>1, <1>2 DEF GivenIInv
<1>3. Given
    BY DEF GivenIInv
<1>4. Calls(prog)
    BY <1>1, ProgramCalls
<1>5. Fs[0] = activefile /\ Ps[0] = cfileplace /\ Waiting = 0 /\ 0 \in 0 .. 0
    BY <1>1, <1>2, PlaceTyped DEF Waiting
<1>6. PICK base : Frames(prog, 0, Fs, Ps, base, Len(gates) + 0)
    BY <1>2, <1>3, <1>5 DEF Given, PlaceInv
<1>7. /\ Fs[0] = Main /\ Main \in File /\ base[0] = 0 /\ Ps[0] \in 0 .. Len(prog[Main])
      /\ Len(gates) + 0 = 0 + Len(Pre(prog, Main)[Ps[0]])
    BY <1>5, <1>6 DEF Frames
<1>8. Ps[0] = Len(prog[Main])
    <2>1. Len(prog[Main]) \in Nat
        BY <1>4, <1>7, PreRecurs
    <2> QED BY <1>2, <1>5, <1>7, <2>1
<1>9. Len(gates) = Len(FlatOf(prog)[Main])
    <2>1. FlatOf(prog)[Main] = Pre(prog, Main)[Ps[0]]
        <3>1. FlatOf(prog)[Main] = Pre(prog, Main)[Len(prog[Main])]
            BY <1>4, <1>7, PreIsFlat
        <3> QED BY <1>8, <3>1
    <2>2. Len(FlatOf(prog)[Main]) \in Nat /\ Len(gates) \in Nat
        BY <1>1, <1>4, FlatLen, PlaceTyped
    <2>3. Len(gates) + 0 = 0 + Len(FlatOf(prog)[Main])
        BY <1>7, <2>1
    <2> QED BY <2>2, <2>3
<1>10. ~inCall
    <2>1. ~More(prog, 0, Fs, Ps)
        BY <1>7, <1>8 DEF More
    <2> QED BY <1>2, <1>3, <2>1 DEF Given, MoreInv
<1> QED BY <1>2, <1>3, <1>9, <1>10 DEF Given, GatesInv

\* An operation of the active file is read.
LEMMA ReadOpGiven == GivenIInv /\ ReadOp => GivenIInv'
<1> SUFFICES ASSUME GivenIInv, ReadOp PROVE GivenIInv'
    OBVIOUS
<1> DEFINE s == stacksize  op == prog[activefile][cfileplace + 1]  n == Len(gates)
<1>1. ReaderIInv /\ ReaderIInv'
    BY ReadOpInv DEF GivenIInv
<1>2. /\ pc = "get" /\ pc' = "have" /\ cfileplace < Len(prog[activefile]) /\ theGate' = op
      /\ UNCHANGED <<loaded, prog, ended, inCall, gates>>
    BY DEF ReadOp
<1> SUFFICES ASSUME loaded, EndsOf(prog)[Main] PROVE Given'
    BY <1>1, <1>2 DEF GivenIInv
<1>3. Given /\ ~ended
    BY <1>2 DEF GivenIInv, Given
<1>4. Calls(prog)
    BY <1>1, ProgramCalls
<1>5. /\ s \in Nat /\ Fs[s] = activefile /\ Ps[s] = cfileplace /\ n \in Nat /\ s \in 0 .. s
      /\ \A j \in 0 .. s - 1 : Fs[j] = fileStack[j] /\ Ps[j] = filePlaceStack[j] /\ j \in StackIndex
    BY <1>1, PlaceTyped
<1>6. PICK base : Frames(prog, s, Fs, Ps, base, n)
    <2>1. Len(gates) + Waiting = n
        BY <1>2, <1>5 DEF Waiting
    <2> QED BY <1>3, <2>1 DEF Given, PlaceInv
<1>7. HasNext(prog, s, Fs, Ps)
    BY <1>2, <1>5 DEF HasNext
<1>8. /\ op \in Op /\ activefile \in File /\ cfileplace + 1 \in 1 .. Len(prog[activefile])
      /\ Lies(FlatOf(prog)[Main], n, Piece(FlatOf(prog), op))
    <2>1. prog[Fs[s]][Ps[s] + 1] = op
        BY <1>5
    <2>2. /\ Fs[s] \in File /\ Ps[s] + 1 \in 1 .. Len(prog[Fs[s]]) /\ prog[Fs[s]][Ps[s] + 1] \in Op
          /\ Lies(FlatOf(prog)[Main], n, Piece(FlatOf(prog), prog[Fs[s]][Ps[s] + 1]))
        <3> HIDE DEF s, n
        <3> QED BY <1>4, <1>5, <1>6, <1>7, FramesPiece
    <2> QED BY <1>5, <2>1, <2>2
<1>9. GatesInv'
    BY <1>2, <1>3 DEF Given, GatesInv
<1>10. LastIsGate(prog, s, Fs, Ps)
    BY <1>3 DEF Given, MoreInv
\* A function is entered.
<1>11. CASE op.options = "call" /\ Entered(op.dest)
    <2>1. /\ fileStack' = [fileStack EXCEPT ![stacksize] = activefile]
          /\ filePlaceStack' = [filePlaceStack EXCEPT ![stacksize] = cfileplace + 1]
          /\ stacksize' = s + 1 /\ activefile' = op.dest /\ cfileplace' = 0
        BY <1>11 DEF ReadOp, ReturnPlace
    <2>2. Fs'[s + 1] = op.dest /\ Ps'[s + 1] = 0
        BY <1>5, <2>1 DEF Fs, Ps
    <2>3. Fs'[s] = activefile /\ Ps'[s] = cfileplace + 1
        <3>1. s \in StackIndex /\ s \in 0 .. stacksize' /\ s # stacksize'
            <4>1. s \in StackIndex
                BY <1>1 DEF ReaderIInv, InterpreterTypeOK
            <4> QED BY <1>5, <2>1, <4>1
        <3> QED BY <1>1, <2>1, <3>1 DEF Fs, Ps, ReaderIInv, InterpreterTypeOK
    <2>4. ASSUME NEW j \in 0 .. s - 1 PROVE Fs'[j] = Fs[j] /\ Ps'[j] = Ps[j]
        <3>1. j \in 0 .. stacksize' /\ j # stacksize' /\ j # stacksize /\ j \in StackIndex
            BY <1>5, <2>1
        <3>2. Fs'[j] = fileStack'[j] /\ Ps'[j] = filePlaceStack'[j]
            BY <3>1 DEF Fs, Ps
        <3>3. fileStack'[j] = fileStack[j] /\ filePlaceStack'[j] = filePlaceStack[j]
            BY <1>1, <2>1, <3>1 DEF ReaderIInv, InterpreterTypeOK
        <3> QED BY <1>5, <3>2, <3>3
    <2>5. \A j \in 0 .. s : Fs'[j] = Fs[j]
        <3>1. ASSUME NEW j \in 0 .. s, j # s PROVE j \in 0 .. s - 1
            BY <1>5, <3>1
        <3> QED BY <1>5, <2>3, <2>4, <3>1
    <2>6. /\ prog[Fs[s]][Ps[s] + 1].options = "call" /\ Fs'[s + 1] = prog[Fs[s]][Ps[s] + 1].dest
          /\ Ps'[s] = Ps[s] + 1 /\ Fs[s] \in File /\ Ps[s] + 1 \in 1 .. Len(prog[Fs[s]])
        BY <1>5, <1>8, <1>11, <2>2, <2>3
    <2>t. \A j \in 0 .. s - 1 : Ps'[j] = Ps[j]
        BY <2>4
    <2> HIDE DEF s, n, op
    <2>e. Enters(prog, s, Fs, Ps, Fs', Ps')
        BY <2>2, <2>t, <2>5, <2>6 DEF Enters
    <2>7. \E b : Frames(prog, s + 1, Fs', Ps', b, n)
        BY <1>4, <1>5, <1>6, <1>7, <2>e, FramesCall
    <2>8. LastIsGate(prog, s + 1, Fs', Ps')
        BY <1>4, <1>5, <1>10, <2>e, EndsCall
    <2>9. More(prog, s + 1, Fs', Ps')
        <3>1. Len(prog[op.dest]) # 0
            <4>1. op.dest \in File
                <5>1. op.dest \in 0 .. numfunctions - 1
                    BY <1>8, <1>11 DEF Op
                <5> QED BY <5>1, NumFunctions DEF File
            <4>2. prog[op.dest] \in Seq(Op) /\ prog[op.dest] # <<>>
                BY <1>4, <1>11, <4>1 DEF Calls, Entered
            <4> QED BY <4>2
        <3>2. s + 1 \in 0 .. s + 1
            BY <1>5
        <3> QED BY <2>2, <3>1, <3>2 DEF More
    <2>10. Waiting' = 0
        BY <1>2, <1>11 DEF Waiting, op
    <2>11. PlaceInv' /\ WaitingInv'
        <3>1. Len(gates') + Waiting' = n
            BY <1>2, <1>5, <2>10 DEF n
        <3> QED BY <1>2, <2>1, <2>7, <2>10, <3>1 DEF PlaceInv, WaitingInv
    <2>12. MoreInv'
        BY <1>2, <2>1, <2>8, <2>9 DEF MoreInv
    <2> QED BY <1>2, <1>3, <1>9, <2>11, <2>12 DEF Given
\* The reader stays in the file.
<1>12. CASE ~(op.options = "call" /\ Entered(op.dest))
    <2>1. cfileplace' = cfileplace + 1 /\ UNCHANGED <<fileStack, filePlaceStack, stacksize, activefile>>
        BY <1>12 DEF ReadOp
    <2>2. Fs' = Fs /\ Ps'[s] = Ps[s] + 1
        BY <1>5, <2>1 DEF Fs, Ps
    <2>3. \A j \in 0 .. s - 1 : Ps'[j] = Ps[j]
        <3>1. ASSUME NEW j \in 0 .. s - 1 PROVE j \in 0 .. stacksize' /\ j # stacksize'
            BY <1>5, <2>1
        <3> QED BY <1>5, <2>1, <3>1 DEF Ps
    <2>4. LastIsGate(prog, s, Fs', Ps')
        <3> HIDE DEF s
        <3> QED BY <1>5, <1>10, <2>2, <2>3, EndsRead
    <2> DEFINE l == Len(Piece(FlatOf(prog), prog[Fs[s]][Ps[s] + 1]))
    <2>5. Frames(prog, s, Fs', Ps', base, n + l)
        <3> HIDE DEF s, n, op
        <3> QED BY <1>4, <1>5, <1>6, <1>7, <2>2, <2>3, FramesRead
    <2>6. l = Len(Piece(FlatOf(prog), op))
        BY <1>5
    <2> HIDE DEF l
    <2>7. CASE op.options = "call"
        <3>1. op.dest \in File
            <4>1. op.dest \in 0 .. numfunctions - 1
                BY <1>8, <2>7 DEF Op
            <4> QED BY <4>1, NumFunctions DEF File
        <3>2. prog[op.dest] = <<>>
            BY <1>12, <2>7 DEF Entered
        <3>3. l = 0
            <4>1. Piece(FlatOf(prog), op) = <<>>
                BY <1>4, <2>7, <3>1, <3>2, FlatEmpty DEF Piece
            <4> QED BY <2>6, <4>1
        <3>4. Waiting' = 0
            BY <1>2, <2>7 DEF Waiting
        <3>5. More(prog, s, Fs', Ps')
            <4>1. /\ Fs'[s] \in File /\ Ps'[s] \in 1 .. Len(prog[Fs'[s]])
                  /\ prog[Fs'[s]][Ps'[s]] = op
                BY <1>5, <1>8, <2>2
            <4> HIDE DEF s, op
            <4> QED BY <1>4, <1>5, <2>4, <2>7, <3>2, <4>1, EndsEmpty
        <3>6. PlaceInv' /\ WaitingInv'
            <4>1. Len(gates') + Waiting' = n + l
                BY <1>2, <3>3, <3>4
            <4> QED BY <1>2, <2>1, <2>5, <3>4, <4>1 DEF PlaceInv, WaitingInv
        <3>7. MoreInv'
            BY <1>2, <2>1, <2>4, <3>5 DEF MoreInv
        <3> QED BY <1>2, <1>3, <1>9, <3>6, <3>7 DEF Given
    <2>8. CASE op.options # "call"
        <3>1. Waiting' = 1
            BY <1>2, <2>8 DEF Waiting
        <3>2. Piece(FlatOf(prog), op) = <<op>>
            BY <2>8 DEF Piece
        <3> HIDE DEF op
        <3>3. Len(<<op>>) = 1 /\ <<op>>[1] = op
            OBVIOUS
        <3>4. PlaceInv'
            <4>1. Len(gates') + Waiting' = n + l
                BY <1>2, <2>6, <3>1, <3>2, <3>3
            <4> QED BY <1>2, <2>1, <2>5, <4>1 DEF PlaceInv
        <3>5. WaitingInv'
            <4>1. FlatOf(prog)[Main][n + 1] = op
                <5>1. 1 \in 1 .. 1
                    OBVIOUS
                <5> QED BY <1>8, <3>2, <3>3, <5>1 DEF Lies
            <4> QED BY <1>2, <4>1 DEF WaitingInv
        <3>6. MoreInv'
            BY <1>2, <2>1, <2>4, <2>8 DEF MoreInv
        <3> QED BY <1>2, <1>3, <1>9, <3>4, <3>5, <3>6 DEF Given
    <2> QED BY <2>7, <2>8
<1> QED BY <1>11, <1>12

\* A reader that starts has given nothing.
LEMMA GivenInit == InterpreterInit => GivenIInv
BY ReaderInitOK DEF GivenIInv, InterpreterInit

\* Every step of the reader keeps the invariant.
LEMMA GivenStep == GivenIInv /\ [InterpreterNext]_interpreterVars => GivenIInv'
BY ReadOpGiven, ReturnGiven, EndGiven, LoadGiven, NextGateGiven, SkipCallGiven, OtherGiven DEF InterpreterNext

----------------------------------------------------------------------------
(* The zero wire. *)

\* Operation op stands in a file of p, or behind one.
IsOf(p, op) == op = Padding \/ \E f \in File : \E i \in 1 .. Len(p[f]) : op = p[f][i]

\* Up to main's k-th operation, which sets wire w to zero, no zero has been
\* found and the reader is in main; from then on w is the zero wire.
ZeroAt(k, w) ==
    /\ \A n \in 1 .. Len(gates) : n <= k => gates[n].op = prog[Main][n]
    /\ IF Len(gates) < k
       THEN /\ ~foundzero /\ ~ended /\ stacksize = 0 /\ activefile = Main
            /\ \/ pc = "get" /\ cfileplace = Len(gates)
               \/ pc = "have" /\ cfileplace = Len(gates) + 1 /\ theGate = prog[Main][Len(gates) + 1]
       ELSE /\ foundzero /\ zeroplace = w
            /\ \A n \in k + 1 .. Len(gates) : gates[n].zero = w

\* The gates are operations of the program, and no calls.
OpsGiven ==
    /\ pc = "have" => IsOf(prog, theGate)
    /\ \A n \in 1 .. Len(gates) : IsOf(prog, gates[n].op) /\ gates[n].op.options # "call"

\* The invariant behind ZeroIsZero.
ZeroIInv ==
    /\ ReaderIInv
    /\ OpsGiven
    /\ IF loaded
       THEN \A k \in 1 .. Len(prog[Main]) : \A w \in Wires : SetsZero(prog, k, w) => ZeroAt(k, w)
       ELSE gates = <<>> /\ ~foundzero

\* From the invariant: a copy or an output has a zero wire.
LEMMA ZeroHolds == ZeroIInv => ZeroIsZero
<1> SUFFICES ASSUME ZeroIInv, NEW n \in 1 .. Len(gates), gates[n].op.options \in {"copy", "output"}
             PROVE  \E k \in 1 .. n - 1 :
                       /\ gates[k].op = [options |-> "zero", dest |-> gates[n].zero]
                       /\ \A m \in k + 1 .. n - 1 :
                             gates[m].op.dest = gates[n].zero => gates[m].op.options \in {"zero", "output"}
    BY DEF ZeroIsZero
<1>1. loaded
    <2>1. Len(<<>>) = 0
        OBVIOUS
    <2>2. gates # <<>>
        BY <2>1
    <2> QED BY <2>2 DEF ZeroIInv
<1>2. PICK f \in File : \E i \in 1 .. Len(prog[f]) : gates[n].op = prog[f][i]
    <2>1. gates[n].op # Padding
        BY DEF Padding
    <2> QED BY <2>1 DEF ZeroIInv, OpsGiven, IsOf
<1>3. PICK k \in 1 .. Len(prog[Main]), w \in Wires : SetsZero(prog, k, w)
    <2>1. prog \in Programs
        BY DEF ZeroIInv, ReaderIInv, ProgramGiven
    <2>2. \E g \in File : \E i \in 1 .. Len(prog[g]) : prog[g][i].options \in {"copy", "output"}
        BY <1>2
    <2> QED BY <2>1, <2>2, ZeroAssumption
<1>4. ZeroAt(k, w)
    BY <1>1, <1>3 DEF ZeroIInv
<1>5. n \in Nat /\ k \in Nat /\ n <= Len(gates) /\ Len(gates) \in Nat
    <2>1. gates \in Seq(Gate)
        BY DEF ZeroIInv, ReaderIInv, InterpreterTypeOK
    <2>2. Len(gates) \in Nat
        BY <2>1
    <2> QED BY <2>2
<1>6. k < n
    <2>1. SUFFICES ASSUME n <= k PROVE FALSE
        BY <1>5
    <2>2. gates[n].op = prog[Main][n]
        BY <1>4, <2>1 DEF ZeroAt
    <2>3. prog[Main][n].options \in {"plain", "zero"}
        <3>1. CASE n = k
            BY <1>3, <3>1 DEF SetsZero
        <3>2. CASE n # k
            <4>1. n \in 1 .. k - 1
                BY <1>5, <2>1, <3>2
            <4> QED BY <1>3, <4>1 DEF SetsZero
        <3> QED BY <3>1, <3>2
    <2> QED BY <2>2, <2>3
<1>7. k \in 1 .. n - 1 /\ ~(Len(gates) < k) /\ k \in 1 .. Len(gates) /\ n \in k + 1 .. Len(gates)
    BY <1>5, <1>6
<1>8. gates[n].zero = w /\ gates[k].op = [options |-> "zero", dest |-> w]
    BY <1>3, <1>4, <1>5, <1>7 DEF ZeroAt, SetsZero
<1>9. ASSUME NEW m \in k + 1 .. n - 1, gates[m].op.dest = w
      PROVE  gates[m].op.options \in {"zero", "output"}
    <2>1. m \in 1 .. Len(gates)
        BY <1>5
    <2>2. IsOf(prog, gates[m].op) /\ gates[m].op.options # "call"
        BY <2>1 DEF ZeroIInv, OpsGiven
    <2>3. CASE gates[m].op = Padding
        BY <2>3 DEF Padding
    <2>4. CASE gates[m].op # Padding
        <3>0. PICK g \in File : \E i \in 1 .. Len(prog[g]) : gates[m].op = prog[g][i]
            BY <2>2, <2>4 DEF IsOf
        <3>1. PICK i \in 1 .. Len(prog[g]) : gates[m].op = prog[g][i]
            BY <3>0
        <3>2. prog[g][i].options \notin {"plain", "copy"}
            BY <1>3, <1>9, <3>1 DEF SetsZero
        <3>3. prog[g][i].options \in {"plain", "zero", "copy", "output", "call"}
            <4>1. prog[g] \in Seq(Op)
                BY DEF ZeroIInv, ReaderIInv, InterpreterTypeOK
            <4>2. prog[g][i] \in Op
                BY <4>1
            <4> QED BY <4>2 DEF Op
        <3> QED BY <2>2, <3>1, <3>2, <3>3
    <2> QED BY <2>3, <2>4
<1> QED BY <1>7, <1>8, <1>9

\* A program is loaded.
LEMMA LoadZero == ZeroIInv /\ LoadBinary => ZeroIInv'
<1> SUFFICES ASSUME ZeroIInv, LoadBinary PROVE ZeroIInv'
    OBVIOUS
<1>1. ReaderIInv'
    BY LoadBinaryInv DEF ZeroIInv
<1>2. /\ loaded' = TRUE /\ stacksize' = 0 /\ activefile' = Main /\ cfileplace' = 0 /\ ended' = FALSE
      /\ pc' = "get" /\ gates' = <<>> /\ foundzero' = FALSE
    BY DEF LoadBinary, ZeroIInv, StartPlace, InterpreterTypeOK, ReaderIInv
<1>3. Len(<<>>) = 0 /\ 1 .. 0 = {}
    OBVIOUS
<1>4. OpsGiven'
    BY <1>2, <1>3 DEF OpsGiven
<1>5. ASSUME NEW k \in 1 .. Len(prog'[Main]), NEW w \in Wires PROVE ZeroAt(k, w)'
    <2>1. 0 < k
        OBVIOUS
    <2> QED BY <1>2, <1>3, <2>1 DEF ZeroAt
<1> QED BY <1>1, <1>2, <1>4, <1>5 DEF ZeroIInv

\* The circuit takes the gate that was read: perhaps the first zero.
LEMMA NextGateZero == ZeroIInv /\ NextGate => ZeroIInv'
<1> SUFFICES ASSUME ZeroIInv, NextGate PROVE ZeroIInv'
    OBVIOUS
<1> DEFINE n == Len(gates)
<1>1. ReaderIInv'
    BY NextGateInv DEF ZeroIInv
<1>2. /\ loaded /\ loaded' = loaded /\ pc = "have" /\ pc' = "get" /\ theGate.options # "call"
      /\ UNCHANGED <<prog, stacksize, activefile, cfileplace, ended>>
      /\ gates' = Append(gates, [op |-> theGate, zero |-> zeroplace])
      /\ foundzero' = (foundzero \/ NewZero(theGate))
      /\ zeroplace' = IF NewZero(theGate) THEN theGate.dest ELSE zeroplace
    BY DEF NextGate, reader
<1>3. /\ n \in Nat /\ Len(gates') = n + 1
      /\ \A i \in 1 .. n : gates'[i] = gates[i]
      /\ gates'[n + 1].op = theGate /\ gates'[n + 1].zero = zeroplace
    <2>1. gates \in Seq(Gate) /\ gates' \in Seq(Gate)
        BY <1>1 DEF ZeroIInv, ReaderIInv, InterpreterTypeOK
    <2> QED BY <1>2, <2>1
<1>4. \A i \in 1 .. Len(gates') : i = n + 1 \/ i \in 1 .. n
    BY <1>3
<1>5. OpsGiven'
    <2>1. ASSUME NEW i \in 1 .. Len(gates') PROVE IsOf(prog, gates'[i].op) /\ gates'[i].op.options # "call"
        <3>1. CASE i = n + 1
            BY <1>2, <1>3, <3>1 DEF ZeroIInv, OpsGiven
        <3>2. CASE i \in 1 .. n
            BY <1>3, <3>2 DEF ZeroIInv, OpsGiven
        <3> QED BY <1>4, <3>1, <3>2
    <2> QED BY <1>2, <2>1 DEF OpsGiven
<1>6. ASSUME NEW k \in 1 .. Len(prog[Main]), NEW w \in Wires, SetsZero(prog, k, w) PROVE ZeroAt(k, w)'
    <2>1. ZeroAt(k, w) /\ k \in Nat
        BY <1>2, <1>6 DEF ZeroIInv
    <2>2. CASE n < k
        <3>1. ~foundzero /\ ~ended /\ stacksize = 0 /\ activefile = Main /\ cfileplace = n + 1 /\ theGate = prog[Main][n + 1]
            BY <1>2, <2>1, <2>2 DEF ZeroAt
        <3>2. \A i \in 1 .. Len(gates') : i <= k => gates'[i].op = prog[Main][i]
            BY <1>3, <1>4, <2>1, <3>1 DEF ZeroAt
        <3>3. CASE n + 1 < k
            <4>1. n + 1 \in 1 .. k - 1
                BY <1>3, <2>1, <3>3
            <4>2. theGate.options = "plain"
                BY <1>6, <3>1, <4>1 DEF SetsZero
            <4>3. ~foundzero'
                <5>1. ~NewZero(theGate)
                    BY <4>2 DEF NewZero
                <5>2. foundzero' = (foundzero \/ NewZero(theGate))
                    BY <1>2
                <5> QED BY <3>1, <5>1, <5>2, Zenon
            <4> QED BY <1>2, <1>3, <3>1, <3>2, <3>3, <4>3 DEF ZeroAt
        <3>4. CASE ~(n + 1 < k)
            <4>1. n + 1 = k
                BY <1>3, <2>1, <2>2, <3>4
            <4>2. theGate = [options |-> "zero", dest |-> w]
                BY <1>6, <3>1, <4>1 DEF SetsZero
            <4>3. foundzero' /\ zeroplace' = w
                <5>1. NewZero(theGate) /\ theGate.dest = w
                    BY <3>1, <4>2 DEF NewZero
                <5>2. foundzero' = (foundzero \/ NewZero(theGate))
                    BY <1>2
                <5>3. zeroplace' = IF NewZero(theGate) THEN theGate.dest ELSE zeroplace
                    BY <1>2
                <5>4. foundzero'
                    BY <5>1, <5>2, Zenon
                <5>5. zeroplace' = w
                    BY <5>1, <5>3
                <5> QED BY <5>4, <5>5
            <4>4. \A i \in k + 1 .. Len(gates') : FALSE
                BY <1>3, <2>1, <4>1
            <4> QED BY <1>2, <1>3, <3>2, <3>4, <4>3, <4>4 DEF ZeroAt
        <3> QED BY <3>3, <3>4
    <2>3. CASE ~(n < k)
        <3>1. foundzero /\ zeroplace = w /\ \A i \in k + 1 .. n : gates[i].zero = w
            BY <2>1, <2>3 DEF ZeroAt
        <3>2. foundzero' /\ zeroplace' = w
            <4>1. ~NewZero(theGate)
                BY <3>1 DEF NewZero
            <4>2. foundzero' = (foundzero \/ NewZero(theGate))
                BY <1>2
            <4>3. zeroplace' = IF NewZero(theGate) THEN theGate.dest ELSE zeroplace
                BY <1>2
            <4>4. foundzero'
                BY <3>1, <4>2, Zenon
            <4>5. zeroplace' = w
                BY <3>1, <4>1, <4>3
            <4> QED BY <4>4, <4>5
        <3>3. ASSUME NEW i \in 1 .. Len(gates'), i <= k PROVE gates'[i].op = prog[Main][i]
            <4>1. i \in 1 .. n
                BY <1>3, <2>1, <2>3, <3>3
            <4> QED BY <1>3, <2>1, <3>3, <4>1 DEF ZeroAt
        <3>4. ASSUME NEW i \in k + 1 .. Len(gates') PROVE gates'[i].zero = w
            <4>1. CASE i = n + 1
                BY <1>3, <3>1, <4>1
            <4>2. CASE i # n + 1
                <5>1. i \in 1 .. n /\ i \in k + 1 .. n
                    BY <1>3, <2>1, <4>2
                <5> QED BY <1>3, <3>1, <5>1
            <4> QED BY <4>1, <4>2
        <3>5. ~(Len(gates') < k)
            BY <1>3, <2>1, <2>3
        <3> QED BY <1>2, <3>2, <3>3, <3>4, <3>5 DEF ZeroAt
    <2> QED BY <2>2, <2>3
<1> QED BY <1>1, <1>2, <1>5, <1>6 DEF ZeroIInv

\* An operation is read: in main's beginning it is not a call.
LEMMA ReadOpZero == ZeroIInv /\ ReadOp => ZeroIInv'
<1> SUFFICES ASSUME ZeroIInv, ReadOp PROVE ZeroIInv'
    OBVIOUS
<1> DEFINE op == prog[activefile][cfileplace + 1]  n == Len(gates)
<1>1. ReaderIInv'
    BY ReadOpInv DEF ZeroIInv
<1>2. /\ pc = "get" /\ pc' = "have" /\ cfileplace < Len(prog[activefile]) /\ theGate' = op
      /\ UNCHANGED <<loaded, prog, ended, gates, foundzero, zeroplace>>
    BY DEF ReadOp
<1>3. IsOf(prog, op)
    <2>1. activefile \in File /\ cfileplace \in Nat /\ Len(prog[activefile]) \in Nat
        BY DEF ZeroIInv, ReaderIInv, InterpreterTypeOK
    <2>2. cfileplace + 1 \in 1 .. Len(prog[activefile])
        BY <1>2, <2>1
    <2> QED BY <2>1, <2>2 DEF IsOf
<1>4. OpsGiven'
    BY <1>2, <1>3 DEF ZeroIInv, OpsGiven
<1>5. ASSUME loaded, NEW k \in 1 .. Len(prog[Main]), NEW w \in Wires, SetsZero(prog, k, w) PROVE ZeroAt(k, w)'
    <2>1. ZeroAt(k, w)
        BY <1>5 DEF ZeroIInv
    <2>2. CASE n < k
        <3>1. ~foundzero /\ ~ended /\ stacksize = 0 /\ activefile = Main /\ cfileplace = n
            BY <1>2, <2>1, <2>2 DEF ZeroAt
        <3>2. op = prog[Main][n + 1]
            BY <3>1
        <3>3. op.options # "call"
            <4>1. n \in Nat
                BY DEF ZeroIInv, ReaderIInv, InterpreterTypeOK
            <4>2. CASE n + 1 = k
                BY <1>5, <3>2, <4>2 DEF SetsZero
            <4>3. CASE n + 1 # k
                <5>1. n + 1 \in 1 .. k - 1
                    BY <2>2, <4>1, <4>3
                <5> QED BY <1>5, <3>2, <5>1 DEF SetsZero
            <4> QED BY <4>2, <4>3
        <3>4. cfileplace' = n + 1 /\ stacksize' = 0 /\ activefile' = Main
            BY <3>1, <3>3 DEF ReadOp
        <3> HIDE DEF op
        <3> QED BY <1>2, <2>1, <2>2, <3>1, <3>2, <3>4 DEF ZeroAt
    <2>3. CASE ~(n < k)
        BY <1>2, <2>1, <2>3 DEF ZeroAt
    <2> QED BY <2>2, <2>3
<1> QED BY <1>1, <1>2, <1>4, <1>5 DEF ZeroIInv

\* The other steps do not come before the zero wire is set.
LEMMA OtherZero ==
    ZeroIInv /\ (Return \/ End \/ ReadNull \/ SkipCall \/ Done \/ UNCHANGED interpreterVars) => ZeroIInv'
<1> SUFFICES ASSUME ZeroIInv, Return \/ End \/ ReadNull \/ SkipCall \/ Done \/ UNCHANGED interpreterVars
             PROVE  ZeroIInv'
    OBVIOUS
<1>1. ReaderIInv'
    BY ReturnInv, ReaderOtherInv DEF ZeroIInv
<1>2. UNCHANGED <<loaded, prog, gates, foundzero, zeroplace>>
    BY DEF Return, End, ReadNull, SkipCall, Done, interpreterVars
<1>3. OpsGiven'
    <2>1. pc' = "have" => IsOf(prog, theGate')
        BY DEF Return, End, ReadNull, SkipCall, Done, interpreterVars, reader, AfterCall, IsOf, ZeroIInv, OpsGiven
    <2> QED BY <1>2, <2>1 DEF ZeroIInv, OpsGiven
<1>4. ASSUME loaded, NEW k \in 1 .. Len(prog[Main]), NEW w \in Wires, SetsZero(prog, k, w) PROVE ZeroAt(k, w)'
    <2>1. ZeroAt(k, w)
        BY <1>4 DEF ZeroIInv
    <2> DEFINE n == Len(gates)
    <2>2. CASE n < k
        <3>1. ~foundzero /\ ~ended /\ stacksize = 0 /\ activefile = Main
            BY <2>1, <2>2 DEF ZeroAt
        <3>2. n \in Nat /\ k \in Nat /\ k <= Len(prog[Main])
            BY DEF ZeroIInv, ReaderIInv, InterpreterTypeOK
        <3>3. ~Return /\ ~ReadNull /\ ~Done
            BY <3>1 DEF Return, ReadNull, Done
        <3>4. ~End
            <4>1. pc = "get" => cfileplace < Len(prog[activefile])
                <5>1. pc = "get" => cfileplace = n
                    BY <2>1, <2>2 DEF ZeroAt
                <5>2. Len(prog[Main]) \in Nat
                    BY NumFunctions DEF ZeroIInv, ReaderIInv, InterpreterTypeOK, Main, File
                <5>3. n < Len(prog[Main])
                    BY <2>2, <3>2, <5>2
                <5> QED BY <3>1, <5>1, <5>3
            <4>2. cfileplace \in Nat /\ Len(prog[activefile]) \in Nat
                BY DEF ZeroIInv, ReaderIInv, InterpreterTypeOK
            <4> QED BY <4>1, <4>2 DEF End
        <3>5. ~SkipCall
            <4>1. pc = "have" => theGate = prog[Main][n + 1]
                BY <2>1, <2>2 DEF ZeroAt
            <4>2. prog[Main][n + 1].options # "call"
                <5>1. CASE n + 1 = k
                    BY <1>4, <5>1 DEF SetsZero
                <5>2. CASE n + 1 # k
                    <6>1. n + 1 \in 1 .. k - 1
                        BY <2>2, <3>2, <5>2
                    <6> QED BY <1>4, <6>1 DEF SetsZero
                <5> QED BY <5>1, <5>2
            <4> QED BY <4>1, <4>2 DEF SkipCall
        <3>6. UNCHANGED interpreterVars
            BY <3>3, <3>4, <3>5
        <3> QED BY <2>1, <3>6 DEF ZeroAt, interpreterVars, reader
    <2>3. CASE ~(n < k)
        BY <1>2, <2>1, <2>3 DEF ZeroAt
    <2> QED BY <2>2, <2>3
<1> QED BY <1>1, <1>2, <1>3, <1>4 DEF ZeroIInv

\* A reader that starts has found no zero.
LEMMA ZeroInit == InterpreterInit => ZeroIInv
<1>1. Len(<<>>) = 0 /\ 1 .. 0 = {}
    OBVIOUS
<1> QED BY <1>1, ReaderInitOK DEF ZeroIInv, InterpreterInit, OpsGiven

\* Every step of the reader keeps the invariant.
LEMMA ZeroStep == ZeroIInv /\ [InterpreterNext]_interpreterVars => ZeroIInv'
BY ReadOpZero, LoadZero, NextGateZero, OtherZero DEF InterpreterNext

\* From the two invariants: the circuit is given the program.
LEMMA GivesHolds == GivenIInv /\ ZeroIInv => GivesProgram
<1> SUFFICES ASSUME GivenIInv, ZeroIInv PROVE GivesProgram
    OBVIOUS
<1>1. ZeroIsZero
    BY ZeroHolds
<1>2. ASSUME loaded, EndsInGate[Main] PROVE GivenSoFar /\ (pc = "done" => Len(gates) = Len(Flat[Main]))
    <2>1. Given
        BY <1>2, EndsIs DEF GivenIInv
    <2> QED BY <2>1, FlatIs DEF Given, GatesInv, GivenSoFar
<1> QED BY <1>1, <1>2 DEF GivesProgram

\* Whatever the program's functions are and however they call each other, the
\* circuit is given the operations of the program with its calls carried out,
\* each once, in order and, when the program ends in a gate, all of them; and a
\* copy or an output comes with a wire that is zero.
THEOREM GatesGiven == InterpreterSpec => []GivesProgram
BY GivenInit, GivenStep, ZeroInit, ZeroStep, GivesHolds, PTL DEF InterpreterSpec

----------------------------------------------------------------------------
(* All parts side by side. *)

\* The inductive invariants of the four parts together.
YaoIInv == RoundsIInv /\ OtIInv /\ HandoverIInv /\ GivenIInv /\ ZeroIInv

\* A part that does not run stands in one of its initial states.
LEMMA IdleParts ==
    /\ RoundsIdle => RoundsInit
    /\ OtIdle => OtInit
    /\ HandoverIdle => HandoverInit
    /\ ReaderIdle => InterpreterInit
BY DEF RoundsIdle, OtIdle, HandoverIdle, ReaderIdle

\* The four parts start within their invariants.
LEMMA YaoInitOK == Init => YaoIInv
BY IdleParts, RoundsInitOK, OtInitInv, HandoverInitOK, GivenInit, ZeroInit DEF Init, YaoIInv

\* A step is one of one part, and the others stand still.
LEMMA YaoNextIsPart ==
    ASSUME [Next]_yaoVars
    PROVE  /\ [RoundsNext]_roundsVars
           /\ [OtNext]_otVars
           /\ [HandoverNext]_handoverVars
           /\ [InterpreterNext]_interpreterVars
<1>1. CASE part = "rounds" /\ RoundsNext /\ Others("rounds")
    BY <1>1 DEF Others
<1>2. CASE part = "ot" /\ OtNext /\ Others("ot")
    BY <1>2 DEF Others
<1>3. CASE part = "handover" /\ HandoverNext /\ Others("handover")
    BY <1>3 DEF Others
<1>4. CASE part = "reader" /\ InterpreterNext /\ Others("reader")
    BY <1>4 DEF Others
<1>5. CASE UNCHANGED yaoVars
    BY <1>5 DEF yaoVars
<1> QED BY <1>1, <1>2, <1>3, <1>4, <1>5 DEF Next

\* A step of any part keeps the invariants of all.
LEMMA YaoStep == YaoIInv /\ [Next]_yaoVars => YaoIInv'
<1> SUFFICES ASSUME YaoIInv, [Next]_yaoVars PROVE YaoIInv'
    OBVIOUS
<1>1. /\ [RoundsNext]_roundsVars
      /\ [OtNext]_otVars
      /\ [HandoverNext]_handoverVars
      /\ [InterpreterNext]_interpreterVars
    BY YaoNextIsPart
<1> QED BY <1>1, RoundsStep, OtStepInv, HandoverStep, GivenStep, ZeroStep DEF YaoIInv

\* The invariants of the parts hold of every execution.
LEMMA YaoInvariant == Spec => []YaoIInv
BY YaoInitOK, YaoStep, PTL DEF Spec

\* Everything the parts hold keeps its type: the links and the buffers of the
\* two parties, the matrices of the transfer, the labels, the reader's stack.
THEOREM YaoTyped == Spec => []YaoTypeOK
<1>1. YaoIInv => YaoTypeOK
    BY InvTyped DEF YaoIInv, OtIInv, HandoverIInv, GivenIInv, ReaderIInv, YaoTypeOK
<1> QED BY <1>1, YaoInvariant, PTL

\* What the four parts promise, of every execution: the parties stay in step
\* and with current keys and own bytes, the transfer gives each key its bit's,
\* the handed labels and answers meet, and the reader's stack has room and the
\* circuit is given the program.
THEOREM YaoSafe ==
    Spec => [](/\ LockStep /\ KeysAreCurrent /\ OwnBytes
               /\ KeysOfInput
               /\ KeysMeet /\ AnswersArrive
               /\ StackFits /\ GivesProgram)
<1>1. YaoIInv => /\ LockStep /\ KeysAreCurrent /\ OwnBytes
                 /\ KeysOfInput
                 /\ KeysMeet /\ AnswersArrive
                 /\ StackFits /\ GivesProgram
    BY InvLockStep, InvKeysCurrent, InvOwnBytes, IInvKeysMeet, IInvAnswersArrive, IInvStackFits, GivesHolds
       DEF YaoIInv, OtIInv, GivenIInv
<1> QED BY <1>1, YaoInvariant, PTL
=============================================================================
