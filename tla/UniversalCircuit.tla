-------------------------- MODULE UniversalCircuit --------------------------
(* The universal circuit of the enclave (sfe_uc_entry) and its plain twin    *)
(* (sfe_naive_uc_entry): a program of gates over a pool of bits.  The        *)
(* oblivious form passes over the whole pool to read an operand or write a   *)
(* result; an operand outside the pool is never selected and stays what the  *)
(* stack held.  The plain form indexes the pool.                             *)
EXTENDS Integers

CONSTANTS PoolSize, NumInputs, GateCount, NumOutputs,
    Programs   \* the programs the evaluator may bring

ASSUME UcSizesAssumption ==
    /\ PoolSize \in Nat \ {0} /\ NumInputs \in 0 .. PoolSize
    /\ GateCount \in Nat /\ NumOutputs \in Nat

ASSUME UcProgramsAssumption ==
    \A p \in Programs : \A g \in 0 .. GateCount - 1 : p.tt[g] \in Int

VARIABLES
    ucNaive,        \* which form runs
    ucProg,         \* mysfe_uc_input
    ucInput,
    destinations, \* the pool
    outputs,
    gate,         \* the next gate
    out           \* the next output

ucVars == <<ucNaive, ucProg, ucInput, destinations, outputs, gate, out>>

UcBit == {0, 1}
Pool == 0 .. PoolSize - 1
Gates == 0 .. GateCount - 1
Outputs == 0 .. NumOutputs - 1

\* The program when the evaluator brings none: gate i negates place i, inside
\* the pool or not.
Hardcoded ==
    [x |-> [g \in Gates |-> g], y |-> [g \in Gates |-> g],
     tt |-> [g \in Gates |-> 5], d |-> [g \in Gates |-> g],
     output |-> [o \in Outputs |-> o]]

\* What the plain form runs whatever it is given (use_bens_hacking).
Hacked ==
    [x |-> [g \in Gates |-> g % PoolSize], y |-> [g \in Gates |-> g % PoolSize],
     tt |-> [g \in Gates |-> 5], d |-> [g \in Gates |-> g % PoolSize],
     output |-> [o \in Outputs |-> o % PoolSize]]

UcTypeOK ==
    /\ ucNaive \in BOOLEAN
    /\ ucInput \in [0 .. NumInputs - 1 -> UcBit]
    /\ destinations \in [Pool -> UcBit]
    /\ outputs \in [Outputs -> UcBit]
    /\ gate \in 0 .. GateCount
    /\ out \in 0 .. NumOutputs

\* Variant: the inputs are stored first and then cleared with the pool.
FilledThenCleared(in) == [p \in Pool |-> 0]

FilledPool(in) == [p \in Pool |-> IF p < NumInputs THEN in[p] ELSE 0]

UcInit ==
    /\ ucNaive \in BOOLEAN
    /\ ucProg \in IF ucNaive THEN {Hacked} ELSE Programs \cup {Hardcoded}
    /\ ucInput \in [0 .. NumInputs - 1 -> UcBit]
    /\ destinations = FilledPool(ucInput)
    /\ outputs = [o \in Outputs |-> 0]
    /\ gate = 0
    /\ out = 0

\* Variant: the operands are taken the other way round.
TruthSwapped(tt, x, y) == (tt \div (2 ^ (x + 2 * y))) % 2

\* Variant: the bit above the chosen one is not cut off.
TruthUncut(tt, x, y) == tt \div (2 ^ (y + 2 * x))

\* (truth >> (y | (x << 1))) & 1
Truth(tt, x, y) == (tt \div (2 ^ (y + 2 * x))) % 2

\* What the pass over the pool can leave in an operand.
Operand(a) == IF a \in Pool THEN {destinations[a]} ELSE UcBit

\* The pass over the pool that writes a result.
Stored(d, res) == [p \in Pool |-> IF p = d THEN res ELSE destinations[p]]

\* One gate of the oblivious form.
Gate ==
    /\ ~ucNaive
    /\ gate < GateCount
    /\ \E x \in Operand(ucProg.x[gate]), y \in Operand(ucProg.y[gate]) :
          destinations' = Stored(ucProg.d[gate], Truth(ucProg.tt[gate], x, y))
    /\ gate' = gate + 1
    /\ UNCHANGED <<ucNaive, ucProg, ucInput, outputs, out>>

\* One gate of the plain form.
NaiveGate ==
    /\ ucNaive
    /\ gate < GateCount
    /\ destinations' = [destinations EXCEPT ![ucProg.d[gate]] =
                          Truth(ucProg.tt[gate], destinations[ucProg.x[gate]],
                                destinations[ucProg.y[gate]])]
    /\ gate' = gate + 1
    /\ UNCHANGED <<ucNaive, ucProg, ucInput, outputs, out>>

\* An output is selected from the pool; one outside it stays 0.
Output ==
    /\ ~ucNaive
    /\ gate = GateCount /\ out < NumOutputs
    /\ outputs' = IF ucProg.output[out] \in Pool
                  THEN [outputs EXCEPT ![out] = destinations[ucProg.output[out]]]
                  ELSE outputs
    /\ out' = out + 1
    /\ UNCHANGED <<ucNaive, ucProg, ucInput, destinations, gate>>

NaiveOutput ==
    /\ ucNaive
    /\ gate = GateCount /\ out < NumOutputs
    /\ outputs' = [outputs EXCEPT ![out] = destinations[ucProg.output[out]]]
    /\ out' = out + 1
    /\ UNCHANGED <<ucNaive, ucProg, ucInput, destinations, gate>>

UcNext == Gate \/ NaiveGate \/ Output \/ NaiveOutput

UcSpec == UcInit /\ [][UcNext]_ucVars

-----------------------------------------------------------------------------
Unknown == 2

\* What a gate computes of operands that may be unknown.
Known(tt, a, b) ==
    LET as == IF a = Unknown THEN UcBit ELSE {a}
        bs == IF b = Unknown THEN UcBit ELSE {b}
        r  == {n % 2 : n \in {tt \div (2 ^ (2 * x + y)) : x \in as, y \in bs}}
    IN  IF r = {0} THEN 0 ELSE IF r = {1} THEN 1 ELSE Unknown

PoolAt(f, a) == IF a \in Pool THEN f[a] ELSE Unknown

\* The pool after n gates, from the meaning of the program: a function of the
\* number of gates.
Meaning[n \in 0 .. GateCount] ==
    IF n = 0 THEN [p \in Pool |-> IF p \in DOMAIN ucInput THEN ucInput[p] ELSE 0]
    ELSE LET before == Meaning[n - 1]
             g == n - 1
         IN  [p \in Pool |-> IF p = ucProg.d[g]
                             THEN Known(ucProg.tt[g], PoolAt(before, ucProg.x[g]), PoolAt(before, ucProg.y[g]))
                             ELSE before[p]]

\* Every output the program determines is the one both forms give, and what the
\* stack held in an operand outside the pool never shows in it.
OutputsMean ==
    \A o \in Outputs :
        o < out =>
            LET m == IF ucProg.output[o] \in Pool THEN Meaning[GateCount][ucProg.output[o]] ELSE 0
            IN  m # Unknown => outputs[o] = m
=============================================================================
