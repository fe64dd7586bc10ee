---------------------------- MODULE OtExtension ----------------------------
(***************************************************************************)
(* BM_OT_ext_with_third: of every pair of keys CircuitInput0CircuitBase    *)
(* the evaluator is to learn the one of its input bit.  k base transfers,  *)
(* in which the generator chooses with the bits of S and the evaluator     *)
(* sends, carry the columns of a matrix of k columns and m rows; each row  *)
(* then hides one pair of keys.                                            *)
(*                                                                         *)
(* A message is a variable its sender sets; YaoRounds has the link and the *)
(* order on it.  A group element is its exponent to the base g[0]; the     *)
(* group is taken to be infinite cyclic, as no step depends on its order.  *)
(* The two hashes are parameters.                                          *)
(***************************************************************************)
EXTENDS Integers, Sequences

CONSTANTS
    M,            \* the evaluator's input bits: m, evl_inp_cnt()
    K,            \* base transfers: k
    KeyBits,      \* the bit positions of a key
    BaseHash(_),  \* to_bytes().hash(m): of a group element
    RowHash(_),   \* hash(l): of a row
    Setups        \* inputs and randomness of a run, see SetupOK

OtRows == 1..M
Cols == 1..K
Column == [OtRows -> BOOLEAN]
Row == [Cols -> BOOLEAN]
OtKey == [KeyBits -> BOOLEAN]

\* operator^ of Bytes; the operands have the same length.
Xor(a, b) == [i \in DOMAIN a |-> a[i] # b[i]]

(***************************************************************************)
(* R: the evaluator's input, T: the columns it draws; S: the generator's   *)
(* choices, X: its keys; y, a, r, s, t, Z: the exponents that are drawn in *)
(* the base transfers, Z those of the keys K[0] and K[1].                  *)
(***************************************************************************)
SetupOK(u) ==
    /\ u.R \in Column /\ u.T \in [Cols -> Column]
    /\ u.S \in Row /\ u.X \in [OtRows -> [BOOLEAN -> OtKey]]
    /\ u.y \in Int /\ u.a \in Int /\ u.r \in [Cols -> Int]
    /\ u.s \in [Cols -> [BOOLEAN -> Int]]
    /\ u.t \in [Cols -> [BOOLEAN -> Int]]
    /\ u.Z \in [Cols -> [BOOLEAN -> Int]]

ASSUME SizesAssumption == M \in Nat /\ K \in Nat
ASSUME HashAssumption ==
    /\ \A u \in Setups : \A c \in Cols : \A b \in BOOLEAN :
          BaseHash(u.Z[c][b]) \in Column
    /\ \A q \in Row : RowHash(q) \in OtKey
ASSUME SetupsAssumption == \A u \in Setups : SetupOK(u)

VARIABLES
    setup,   \* the run
    gOtAt,     \* where the generator is
    eOtAt,     \* where the evaluator is
    crs,     \* message: g[0], g[1], h[0], h[1]
    blinded, \* message: (gr, hr) of every base transfer
    xy,      \* messages so far: X[0], X[1], Y[0], Y[1]
    eBase,   \* the evaluator's outs: both keys of each base transfer
    gBase,   \* the generator's outs: the key of its choice
    xors,    \* message: the evaluator's columns under the base keys
    gQ,      \* the generator's Q, by columns and then by rows
    eT,      \* the evaluator's T, by columns and then by rows
    pairs,   \* message: both keys of every row, each under its pad
    eOtKeys    \* the evaluator's m_ot_keys[0]

otVars == <<setup, gOtAt, eOtAt, crs, blinded, xy, eBase, gBase, xors, gQ, eT, pairs, eOtKeys>>

----------------------------------------------------------------------------
(* The base transfers: oblivious_transfer_with_inputs_gen_third_SINGLE.    *)

Crs(u) ==
    [g |-> [b \in BOOLEAN |-> IF b THEN u.y ELSE 1],
     h |-> [b \in BOOLEAN |-> IF b THEN u.y * (u.a + 1) ELSE u.a]]

Blinded(u, base) ==
    [c \in Cols |-> [gr |-> base.g[u.S[c]] * u.r[c], hr |-> base.h[u.S[c]] * u.r[c]]]

\* X[b] = g[b]^s[b] * h[b]^t[b],  Y[b] = gr^s[b] * hr^t[b] * K[b]
XY(u, base, bl, c) ==
    [X |-> [b \in BOOLEAN |-> base.g[b] * u.s[c][b] + base.h[b] * u.t[c][b]],
     Y |-> [b \in BOOLEAN |-> bl[c].gr * u.s[c][b] + bl[c].hr * u.t[c][b] + u.Z[c][b]]]

\* Variant: the other of the two is opened.
ChosenOther(u, m, c) == m.Y[~u.S[c]] - m.X[~u.S[c]] * u.r[c]

\* K = Y[b] / X[b]^r
Chosen(u, m, c) == m.Y[u.S[c]] - m.X[u.S[c]] * u.r[c]

GenCrs ==
    /\ gOtAt = "crs"
    /\ crs' = Crs(setup)
    /\ gOtAt' = "gr"
    /\ UNCHANGED <<setup, eOtAt, blinded, xy, eBase, gBase, xors, gQ, eT, pairs, eOtKeys>>

GenBlinded ==
    /\ gOtAt = "gr"
    /\ blinded' = Blinded(setup, crs)
    /\ gOtAt' = "base"
    /\ UNCHANGED <<setup, eOtAt, crs, xy, eBase, gBase, xors, gQ, eT, pairs, eOtKeys>>

EvlBase ==
    LET c == Len(xy) + 1 IN
    /\ eOtAt = "base" /\ gOtAt \notin {"crs", "gr"}
    /\ c <= K
    /\ xy' = Append(xy, XY(setup, crs, blinded, c))
    /\ eBase' = Append(eBase, [b \in BOOLEAN |-> BaseHash(setup.Z[c][b])])
    /\ UNCHANGED <<setup, gOtAt, eOtAt, crs, blinded, gBase, xors, gQ, eT, pairs, eOtKeys>>

GenBase ==
    LET c == Len(gBase) + 1 IN
    /\ gOtAt = "base"
    /\ c <= Len(xy)
    /\ gBase' = Append(gBase, BaseHash(Chosen(setup, xy[c], c)))
    /\ UNCHANGED <<setup, gOtAt, eOtAt, crs, blinded, xy, eBase, xors, gQ, eT, pairs, eOtKeys>>

----------------------------------------------------------------------------
(* The extension.                                                          *)

\* T[i] ^ key 0 and T[i] ^ key 1 ^ R.
XorValues(u, base) ==
    [c \in Cols |-> [b \in BOOLEAN |->
        LET hidden == Xor(u.T[c], base[c][b])
        IN  IF b THEN Xor(hidden, u.R) ELSE hidden]]

\* The generator opens the one of its choice.
Opened(u, base, received) == [c \in Cols |-> Xor(base[c], received[c][u.S[c]])]

\* Variant: the rows come out in the wrong order.
TransposedBack(cols) == [j \in OtRows |-> [c \in Cols |-> cols[K + 1 - c][j]]]

\* Variant: the matrix stays as it is.
NotTransposed(cols) == cols

\* The matrix by rows.
Transposed(cols) == [j \in OtRows |-> [c \in Cols |-> cols[c][j]]]

\* Variant: both keys of a pair under the same pad.
OnePad(u, q) ==
    [j \in OtRows |-> [b \in BOOLEAN |-> Xor(u.X[j][b], RowHash(q[j]))]]

\* X[j][0] ^ hash(Q[j]) and X[j][1] ^ hash(Q[j] ^ S).
Padded(u, q) ==
    [j \in OtRows |-> [b \in BOOLEAN |->
        Xor(u.X[j][b], RowHash(IF b THEN Xor(q[j], u.S) ELSE q[j]))]]

\* Y[i][R_i] ^ hash(T[i])
Unpadded(u, sent, t) == [j \in OtRows |-> Xor(sent[j][u.R[j]], RowHash(t[j]))]

EvlXor ==
    /\ eOtAt = "base"
    /\ Len(xy) = K
    /\ xors' = XorValues(setup, eBase)
    /\ eT' = Transposed(setup.T)
    /\ eOtAt' = "pairs"
    /\ UNCHANGED <<setup, gOtAt, crs, blinded, xy, eBase, gBase, gQ, pairs, eOtKeys>>

GenXor ==
    /\ gOtAt = "base"
    /\ Len(gBase) = K /\ eOtAt # "base"
    /\ gQ' = Opened(setup, gBase, xors)
    /\ gOtAt' = "rows"
    /\ UNCHANGED <<setup, eOtAt, crs, blinded, xy, eBase, gBase, xors, eT, pairs, eOtKeys>>

GenRows ==
    /\ gOtAt = "rows"
    /\ gQ' = Transposed(gQ)
    /\ gOtAt' = "pairs"
    /\ UNCHANGED <<setup, eOtAt, crs, blinded, xy, eBase, gBase, xors, eT, pairs, eOtKeys>>

GenPairs ==
    /\ gOtAt = "pairs"
    /\ pairs' = Padded(setup, gQ)
    /\ gOtAt' = "done"
    /\ UNCHANGED <<setup, eOtAt, crs, blinded, xy, eBase, gBase, xors, gQ, eT, eOtKeys>>

EvlPairs ==
    /\ eOtAt = "pairs" /\ gOtAt = "done"
    /\ eOtKeys' = Unpadded(setup, pairs, eT)
    /\ eOtAt' = "done"
    /\ UNCHANGED <<setup, gOtAt, crs, blinded, xy, eBase, gBase, xors, gQ, eT, pairs>>

----------------------------------------------------------------------------
OtInit ==
    /\ setup \in Setups
    /\ gOtAt = "crs" /\ eOtAt = "base"
    /\ crs = <<>> /\ blinded = <<>> /\ xy = <<>>
    /\ eBase = <<>> /\ gBase = <<>>
    /\ xors = <<>> /\ gQ = <<>> /\ eT = <<>> /\ pairs = <<>>
    /\ eOtKeys = <<>>

OtNext ==
    \/ GenCrs \/ GenBlinded \/ GenBase \/ GenXor \/ GenRows \/ GenPairs
    \/ EvlBase \/ EvlXor \/ EvlPairs

OtSpec == OtInit /\ [][OtNext]_otVars

----------------------------------------------------------------------------
\* The parties, their places and their matrices have their types.
OtTypeOK ==
    /\ gOtAt \in {"crs", "gr", "base", "rows", "pairs", "done"}
    /\ eOtAt \in {"base", "pairs", "done"}
    /\ Len(eBase) = Len(xy) /\ Len(gBase) <= Len(xy) /\ Len(xy) <= K
    /\ \A c \in 1..Len(gBase) : gBase[c] \in Column
    /\ gOtAt \in {"rows"} => gQ \in [Cols -> Column]
    /\ gOtAt \in {"pairs", "done"} => gQ \in [OtRows -> Row]
    /\ eOtAt # "base" => eT \in [OtRows -> Row]

\* Of each base transfer the generator has the key of its choice, although
\* the evaluator, which does not know the choice, blinded both.
BaseChosen ==
    \A c \in 1..Len(gBase) : gBase[c] = eBase[c][setup.S[c]]

\* The generator's column is the evaluator's, or that plus the whole input:
\* row by row, T[j], plus S where the input bit is 1.
ColumnsRelated ==
    /\ gOtAt = "rows" =>
          \A c \in Cols : gQ[c] = IF setup.S[c] THEN Xor(setup.T[c], setup.R)
                                  ELSE setup.T[c]
    /\ gOtAt \in {"pairs", "done"} =>
          \A j \in OtRows : gQ[j] = IF setup.R[j] THEN Xor(eT[j], setup.S) ELSE eT[j]

\* In the end the evaluator has, of every pair, the key of its own bit: what
\* GarbledCct takes for given of the evaluator's inputs.
KeysOfInput ==
    eOtAt = "done" => eOtKeys = [j \in OtRows |-> setup.X[j][setup.R[j]]]
=============================================================================
