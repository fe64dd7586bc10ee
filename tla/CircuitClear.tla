---------------------------- MODULE CircuitClear ----------------------------
(***************************************************************************)
(* What the garbled circuit is to compute: the program run in the clear,   *)
(* as Interpreter::runprogram() does it with its data array.  The inputs   *)
(* of the enclave, which runprogram() does not know, are taken like those  *)
(* of the other parties.                                                   *)
(***************************************************************************)
EXTENDS YaoCircuit

VARIABLES
    setup,  \* the run
    at,     \* operations executed
    data,   \* value of every wire
    out     \* bits printed, by party

vars == <<setup, at, data, out>>

TypeOK ==
    /\ setup \in Setups
    /\ at \in 0..Len(setup.prog)
    /\ data \in [Wires -> BOOLEAN]
    /\ out \in [Party -> Seq(BOOLEAN)]

Init ==
    /\ setup \in Setups
    /\ at = 0
    /\ data = [w \in Wires |-> FALSE]
    /\ out = [p \in Party |-> <<>>]

\* The value operation i gives its target.
Value(s, i, d) ==
    LET op == s.prog[i] IN
    CASE op.options = "gate"   -> op.table[d[op.x]][d[op.y]]
      [] op.options = "input"  -> s.inp[op.party][InputsBefore(s.prog, op.party, i)]
      [] op.options = "output" -> d[op.dest]
      [] op.options = "copy"   -> d[op.y]

Step ==
    /\ at < Len(setup.prog)
    /\ at' = at + 1
    /\ data' = [data EXCEPT ![Target(setup.prog, at + 1)] =
                    Value(setup, at + 1, data)]
    /\ LET op == setup.prog[at + 1] IN
       out' = IF op.options = "output"
              THEN [out EXCEPT ![op.party] = Append(@, data[op.dest])]
              ELSE out
    /\ UNCHANGED setup

Next == Step

Spec == Init /\ [][Next]_vars /\ WF_vars(Next)
=============================================================================
