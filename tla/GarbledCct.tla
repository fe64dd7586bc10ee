----------------------------- MODULE GarbledCct -----------------------------
(***************************************************************************)
(* The garbled circuit: the generator garbles the program gate by gate     *)
(* (gen_next_gate), the evaluator, which holds one label of every input,   *)
(* evaluates the garbled gates in the same order (evl_next_gate).  Gates   *)
(* travel one by one here; YaoRounds has the batches and the messages.     *)
(*                                                                         *)
(* KDF256 is a parameter: any function of a tweak and two labels.  The     *)
(* hash the output keys of the enclave go through is left out.             *)
(***************************************************************************)
EXTENDS YaoCircuit

CONSTANTS
    KDF(_, _, _),   \* KDF256 masked to k bits: of the tweak and two labels
    Draws           \* the labels m_prng.rand(k) is explored over

ASSUME KDFAssumption ==
    \A t \in 0..255 : \A a, b \in Label : KDF(t, a, b) \in Label
ASSUME DrawsAssumption == Draws \subseteq Label

VARIABLES
    setup,    \* the run
    gW,       \* the generator's m_w_b: the labels for 0 after 0, 1, ... gates
              \* (the code keeps the last only)
    gInpIx,   \* its m_gen_inp_ix, m_evl_inp_ix, m_sgx_inp_ix
    garbled,  \* what it wrote to buffer, gate by gate
    gKeys,    \* its sgx_keys_out: a pair per output bit of the enclave
    eAt,      \* the evaluator's m_gate_ix
    eW,       \* its m_w_b: one label per wire
    eInpIx,   \* its input counters
    eOut,     \* its m_gen_out and m_evl_out
    eKeys     \* its sgx_keys_out

gVars == <<gW, gInpIx, garbled, gKeys>>
eVars == <<eAt, eW, eInpIx, eOut, eKeys>>
vars == <<setup, gVars, eVars>>

prog == setup.prog
gAt == Len(garbled)

\* A garbled gate: its ciphertexts, and for a GEN_OUT or EVL_OUT gate the
\* permutation bit of its zero label (FALSE elsewhere: nothing is written).
Garbled == [rows : Seq(Label), perm : BOOLEAN]

TypeOK ==
    /\ gW \in Seq([Wires -> Label])
    /\ Len(gW) = gAt + 1
    /\ garbled \in Seq(Garbled)
    /\ gAt \in 0..Len(prog)
    /\ gInpIx \in [Party -> Nat]
    /\ gKeys \in Seq([BOOLEAN -> Label])
    /\ eAt \in 0..gAt
    /\ eW \in [Wires -> Label]
    /\ eInpIx \in [Party -> Nat]
    /\ eOut \in [{"GEN", "EVL"} -> Seq(BOOLEAN)]
    /\ eKeys \in Seq(Label)

----------------------------------------------------------------------------
(* Circuit::next_gate_binary(): the gate built from an operation.  Copies  *)
(* and outputs are XOR gates with zeroplace.  in0 comes from y, in1 from x *)
(* and the table is indexed by (in1 << 1) | in0.                           *)

\* Variant: in0 and in1 change places.
GateSwapped(p, i) ==
    LET op == p[i]
        isXor == op.options # "gate"
    IN  [table |-> IF isXor THEN XorTable ELSE op.table,
         in0 |-> IF isXor THEN ZeroPlace(p) ELSE op.x,
         in1 |-> IF op.options = "output" THEN op.dest ELSE op.y]

Gate(p, i) ==
    LET op == p[i]
        isXor == op.options # "gate"
    IN  [table |-> IF isXor THEN XorTable ELSE op.table,
         in0 |-> IF op.options = "output" THEN op.dest ELSE op.y,
         in1 |-> IF isXor THEN ZeroPlace(p) ELSE op.x]

is_xor(g) == g.table = XorTable

----------------------------------------------------------------------------
(* The generator.  Label b of a wire is its label for 0, offset by R if b. *)

Lab(r, zero, b) == IF b THEN Xor(zero, r) ELSE zero

\* fast_set_bytes: bits 0-7 of the gate index (and bits 32-39, which are 0
\* in any program below 2^32 gates).
Tweak(i) == i % 256

\* The key of the row whose labels have permutation bits a (in0) and b (in1).
RowKey(r, i, x0, y0, a, b) ==
    KDF(Tweak(i), Lab(r, x0, x0[Low] # a), Lab(r, y0, y0[Low] # b))

\* The bit that row encrypts: the table at the values the labels stand for.
RowBit(g, x0, y0, a, b) == g.table[y0[Low] # b][x0[Low] # a]

\* Row reduction: the key of row 0 is itself an output label.
TableZero(g, r, i, x0, y0) ==
    Lab(r, RowKey(r, i, x0, y0, FALSE, FALSE), RowBit(g, x0, y0, FALSE, FALSE))

Row(g, r, i, x0, y0, a, b) ==
    Xor(RowKey(r, i, x0, y0, a, b),
        Lab(r, TableZero(g, r, i, x0, y0), RowBit(g, x0, y0, a, b)))

TableRows(g, r, i, x0, y0) ==
    <<Row(g, r, i, x0, y0, TRUE, FALSE),
      Row(g, r, i, x0, y0, FALSE, TRUE),
      Row(g, r, i, x0, y0, TRUE, TRUE)>>

\* An input: the drawn zero label, under the key of each value.
InputRow(s, p, ix, zero, b) == Xor(s.key[p][ix][b], Lab(s.R, zero, b))

InputRows(s, p, ix, zero) ==
    LET o == s.order[p][ix]
    IN  <<InputRow(s, p, ix, zero, o), InputRow(s, p, ix, zero, ~o)>>

\* The zero label of gate i; an input's is drawn.
NewZero(s, i, W, draw) ==
    LET g == Gate(s.prog, i) IN
    IF s.prog[i].options = "input" THEN draw
    ELSE IF is_xor(g) THEN Xor(W[g.in0], W[g.in1])
    ELSE TableZero(g, s.R, i - 1, W[g.in0], W[g.in1])

\* What gate i, with input counter ix, adds to the buffer.
NewGarbled(s, i, W, draw, ix) ==
    LET op == s.prog[i]
        g == Gate(s.prog, i)
    IN  [rows |-> IF op.options = "input" THEN InputRows(s, op.party, ix, draw)
                  ELSE IF is_xor(g) THEN <<>>
                  ELSE TableRows(g, s.R, i - 1, W[g.in0], W[g.in1]),
         perm |-> /\ op.options = "output"
                  /\ op.party # "SGX"
                  /\ NewZero(s, i, W, draw)[Low]]

\* Variant: all inputs are counted together.
CountedTogether(op, inpIx) ==
    IF op.options = "input" THEN [p \in Party |-> inpIx[p] + 1] ELSE inpIx

\* The counter of the party of an input operation moves on.
Counted(op, inpIx) ==
    IF op.options = "input" THEN [inpIx EXCEPT ![op.party] = @ + 1] ELSE inpIx

gen_next_gate ==
    LET i == gAt + 1
        op == prog[i]
        W == gW[i]
    IN  /\ gAt < Len(prog)
        /\ \E draw \in IF op.options = "input" THEN Draws ELSE {Zeros} :
              LET zero == NewZero(setup, i, W, draw) IN
              /\ garbled' = Append(garbled,
                              NewGarbled(setup, i, W, draw, gInpIx[op.party]))
              /\ gW' = Append(gW, [W EXCEPT ![Target(prog, i)] = zero])
              /\ gKeys' = IF op.options = "output" /\ op.party = "SGX"
                          THEN Append(gKeys, [b \in BOOLEAN |-> Lab(setup.R, zero, b)])
                          ELSE gKeys
        /\ gInpIx' = Counted(op, gInpIx)
        /\ UNCHANGED <<setup, eVars>>

----------------------------------------------------------------------------
(* The evaluator.  Of every input it holds the key of the value: the claw  *)
(* keys sent by consistency_check(), the OT's result, the enclave's keys.  *)

HeldKey(s, p, ix) == s.key[p][ix][s.inp[p][ix]]

\* Which of the two ciphertexts of an input it opens: m_gen_inp_mask holds
\* the masked input, an enclave key tells by its own low bit.
Choice(s, p, ix) ==
    CASE p = "GEN" -> s.order[p][ix] # s.inp[p][ix]
      [] p = "EVL" -> s.inp[p][ix]
      [] p = "SGX" -> HeldKey(s, p, ix)[Low]

\* Variant: the permutation bits are read the other way round.
TableLabelSwapped(i, x, y, rows) ==
    LET key == KDF(Tweak(i), x, y)
        garbled_ix == (IF x[Low] THEN 2 ELSE 0) + (IF y[Low] THEN 1 ELSE 0)
    IN  IF garbled_ix = 0 THEN key ELSE Xor(key, rows[garbled_ix])

\* Variant: the gate index is counted before it is used, not after.
TableLabelLate(i, x, y, rows) ==
    LET key == KDF(Tweak(i + 1), x, y)
        garbled_ix == (IF y[Low] THEN 2 ELSE 0) + (IF x[Low] THEN 1 ELSE 0)
    IN  IF garbled_ix = 0 THEN key ELSE Xor(key, rows[garbled_ix])

TableLabel(i, x, y, rows) ==
    LET key == KDF(Tweak(i), x, y)
        garbled_ix == (IF y[Low] THEN 2 ELSE 0) + (IF x[Low] THEN 1 ELSE 0)
    IN  IF garbled_ix = 0 THEN key ELSE Xor(key, rows[garbled_ix])

\* The label of gate i.
NewLabel(s, i, W, rows, ix) ==
    LET op == s.prog[i]
        g == Gate(s.prog, i)
    IN  IF op.options = "input"
        THEN Xor(HeldKey(s, op.party, ix),
                 rows[IF Choice(s, op.party, ix) THEN 2 ELSE 1])
        ELSE IF is_xor(g) THEN Xor(W[g.in0], W[g.in1])
        ELSE TableLabel(i - 1, W[g.in0], W[g.in1], rows)

evl_next_gate ==
    LET i == eAt + 1
        op == prog[i]
        label == NewLabel(setup, i, eW, garbled[i].rows, eInpIx[op.party])
    IN  /\ eAt < gAt
        /\ eAt' = i
        /\ eW' = [eW EXCEPT ![Target(prog, i)] = label]
        /\ eInpIx' = Counted(op, eInpIx)
        /\ eOut' = IF op.options = "output" /\ op.party # "SGX"
                   THEN [eOut EXCEPT ![op.party] =
                            Append(@, label[Low] # garbled[i].perm)]
                   ELSE eOut
        /\ eKeys' = IF op.options = "output" /\ op.party = "SGX"
                    THEN Append(eKeys, label)
                    ELSE eKeys
        /\ UNCHANGED <<setup, gVars>>

----------------------------------------------------------------------------
Init ==
    /\ setup \in Setups
    /\ gW = <<[w \in Wires |-> Zeros]>>
    /\ gInpIx = [p \in Party |-> 0]
    /\ garbled = <<>>
    /\ gKeys = <<>>
    /\ eAt = 0
    /\ eW = [w \in Wires |-> Zeros]
    /\ eInpIx = [p \in Party |-> 0]
    /\ eOut = [p \in {"GEN", "EVL"} |-> <<>>]
    /\ eKeys = <<>>

Next == gen_next_gate \/ evl_next_gate

Spec ==
    /\ Init
    /\ [][Next]_vars
    /\ WF_vars(gen_next_gate)
    /\ WF_vars(evl_next_gate)

----------------------------------------------------------------------------
(* The bit a label of the evaluator stands for, next to the zero label.    *)
Decode(zero, label) == label[Low] # zero[Low]

\* The evaluator's label of every wire is one of the two the generator gave
\* that wire when it garbled the same gate: never a label of no value, or
\* of an earlier content of the wire.
LabelsAreLabels ==
    \A w \in Wires :
        LET zero == gW[eAt + 1][w]
        IN  eW[w] = Lab(setup.R, zero, Decode(zero, eW[w]))

\* The key the evaluator has of an enclave output is one of the generator's
\* two, so that the value can be told by comparing.
KeysAreKeys ==
    /\ Len(eKeys) <= Len(gKeys)
    /\ \A j \in 1..Len(eKeys) : \E b \in BOOLEAN : eKeys[j] = gKeys[j][b]

\* What the evaluator holds of wires and outputs has a value.
Decodable == LabelsAreLabels /\ KeysAreKeys

\* The value of every wire, and the bits each party is told.
data == [w \in Wires |-> Decode(gW[eAt + 1][w], eW[w])]

out == [p \in Party |->
           IF p = "SGX"
           THEN [j \in 1..Len(eKeys) |-> Decode(gKeys[j][FALSE], eKeys[j])]
           ELSE eOut[p]]

\* The garbled evaluation implements the program run in the clear: wire
\* values and outputs, bit for bit.
Clear == INSTANCE CircuitClear WITH at <- eAt, data <- data, out <- out

ImplementsClear == Clear!Spec

----------------------------------------------------------------------------
(* Why it holds.                                                           *)

IsKeyOutput(op) == op.options = "output" /\ op.party = "SGX"

\* The index of the enclave's output operation i among its outputs.
KeysBefore(p, i) == Cardinality({j \in 1..(i - 1) : IsKeyOutput(p[j])})

\* Each garbled gate was built from the labels the wires had at that point.
GarbledInOrder ==
    \A i \in 1..gAt : \E draw \in Label :
        /\ gW[i + 1] = [gW[i] EXCEPT ![Target(prog, i)] =
                            NewZero(setup, i, gW[i], draw)]
        /\ garbled[i] = NewGarbled(setup, i, gW[i], draw,
                                   InputsBefore(prog, prog[i].party, i))

\* The counters of both sides say which input or output comes next.
CountersAgree ==
    /\ \A p \in Party : /\ gInpIx[p] = InputsBefore(prog, p, gAt + 1)
                        /\ eInpIx[p] = InputsBefore(prog, p, eAt + 1)
    /\ Len(gKeys) = KeysBefore(prog, gAt + 1)
    /\ Len(eKeys) = KeysBefore(prog, eAt + 1)

\* The pair stored for an enclave output is that of its wire.
PairsInOrder ==
    \A i \in 1..gAt : IsKeyOutput(prog[i]) =>
        gKeys[KeysBefore(prog, i) + 1] =
            [b \in BOOLEAN |-> Lab(setup.R, gW[i + 1][prog[i].dest], b)]

\* As long as nothing overwrites it, the zero wire stands for 0.
ZeroHeld ==
    \A z \in 1..eAt :
        FirstZero(prog, z) /\ StillZero(prog, z, eAt) => ~data[prog[z].dest]

\* The two sides stay in step: whatever the evaluator reads was built at the
\* same place of the program, with the same input, from the same labels.
InStep ==
    /\ TypeOK
    /\ GarbledInOrder
    /\ CountersAgree
    /\ PairsInOrder
    /\ ZeroHeld

\* The inductive invariant.
IInv == setup \in Setups /\ InStep /\ LabelsAreLabels /\ KeysAreKeys
=============================================================================
