----------------------------- MODULE YaoCircuit -----------------------------
(***************************************************************************)
(* What the two Yao parties share: the Frigate program the circuit files   *)
(* hold, the wires it writes, and the inputs of the three parties: the     *)
(* generator (GEN, Bob's process), the evaluator (EVL, Alice's process)    *)
(* and the enclave (SGX), whose bits reach the circuit as keys.            *)
(*                                                                         *)
(* A program is a sequence of the operations Circuit::next_gate_binary()   *)
(* switches on.  "gate" writes dest with table[x][y]; "input" writes dest; *)
(* "output" reads dest; "copy" writes x with y.  Wires are memory: a       *)
(* program may write one again.                                            *)
(*                                                                         *)
(* A label is a k-bit string as a function of its bit positions; Low is    *)
(* the position get_ith_bit(0) reads, the permutation bit.                 *)
(***************************************************************************)
EXTENDS Integers, Sequences, FiniteSets

CONSTANTS
    Bits,   \* the bit positions of a label (Env::k() of them)
    Low,    \* the position of the permutation bit
    Wires,  \* wire numbers, 0..maxwire
    Setups  \* the runs: a program, inputs and randomness, see SetupOK

Party == {"GEN", "EVL", "SGX"}

Label == [Bits -> BOOLEAN]
Zeros == [i \in Bits |-> FALSE]
Xor(a, b) == [i \in Bits |-> a[i] # b[i]]
Flip(a) == [a EXCEPT ![Low] = ~@]

Table == [BOOLEAN -> [BOOLEAN -> BOOLEAN]]
XorTable == [x \in BOOLEAN |-> [y \in BOOLEAN |-> x # y]]
ZeroTable == [x \in BOOLEAN |-> [y \in BOOLEAN |-> FALSE]]

Op == [options : {"gate", "input", "output", "copy"},
       table : Table, dest : Wires, x : Wires, y : Wires, party : Party]

\* The wire operation i writes; an output gate rewrites the wire it reads.
Target(prog, i) == IF prog[i].options = "copy" THEN prog[i].x ELSE prog[i].dest

\* The index of input operation i among the inputs of its party: what the
\* counters m_gen_inp_ix, m_evl_inp_ix and m_sgx_inp_ix are to hold there.
InputsBefore(prog, p, i) ==
    Cardinality({j \in 1..(i - 1) : prog[j].options = "input" /\ prog[j].party = p})

----------------------------------------------------------------------------
(* zeroplace: the target of the first gate whose table is 0.  Copies and   *)
(* outputs are built as XOR gates with it.                                 *)

IsZeroGate(op) == op.options = "gate" /\ op.table = ZeroTable

FirstZero(prog, z) ==
    /\ z \in 1..Len(prog)
    /\ IsZeroGate(prog[z])
    /\ \A k \in 1..(z - 1) : ~IsZeroGate(prog[k])

ZeroPlace(prog) == prog[CHOOSE z \in 1..Len(prog) : FirstZero(prog, z)].dest

\* Since gate z, nothing up to gate n gave its wire another value.
StillZero(prog, z, n) ==
    \A k \in (z + 1)..n :
        Target(prog, k) = prog[z].dest =>
            prog[k].options = "output" \/ IsZeroGate(prog[k])

\* What the compiler must guarantee for copies and outputs to be right.
WellFormed(prog) ==
    \A i \in 1..Len(prog) :
        prog[i].options \in {"copy", "output"} =>
            \E z \in 1..(i - 1) : FirstZero(prog, z) /\ StillZero(prog, z, i - 1)

----------------------------------------------------------------------------
(* The two keys of an enclave input bit, their low bits forced apart, and  *)
(* the permute bit the generator orders its two ciphertexts by.            *)
transformToGarbled(k0, k1) ==
    LET first == IF k0[Low] = k1[Low] THEN Flip(k0) ELSE k0
    IN  [key |-> [b \in BOOLEAN |-> IF b THEN k1 ELSE first],
         permute |-> first[Low]]

\* An input slot for each operation is enough for any party.
Slots(prog) == 0..(Len(prog) - 1)

(***************************************************************************)
(* One run: the program, the generator's offset R, whose low bit gen_init  *)
(* sets, the input bits, the two keys of every input (the generator's claw *)
(* keys, the OT keys, the enclave's keys), and the order of the two        *)
(* ciphertexts of an input: m_gen_inp_mask, none, and permutes.            *)
(***************************************************************************)
SetupOK(s) ==
    /\ s.prog \in Seq(Op)
    /\ WellFormed(s.prog)
    /\ s.R \in Label /\ s.R[Low]
    /\ s.inp \in [Party -> [Slots(s.prog) -> BOOLEAN]]
    /\ s.key \in [Party -> [Slots(s.prog) -> [BOOLEAN -> Label]]]
    /\ s.order \in [Party -> [Slots(s.prog) -> BOOLEAN]]
    /\ \A ix \in Slots(s.prog) :
          /\ s.order["EVL"][ix] = FALSE
          /\ \E k0, k1 \in Label :
                /\ s.key["SGX"][ix] = transformToGarbled(k0, k1).key
                /\ s.order["SGX"][ix] = transformToGarbled(k0, k1).permute

ASSUME BitsAssumption == Low \in Bits
ASSUME SetupsAssumption == \A s \in Setups : SetupOK(s)
=============================================================================
