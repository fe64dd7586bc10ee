---------------------------- MODULE MCGarbledCct ----------------------------
(* Instances of GarbledCct: two-bit labels, five wires, three programs.    *)
EXTENDS GarbledCct, SequencesExt

L(lo, hi) == [i \in {"lo", "hi"} |-> IF i = "lo" THEN lo ELSE hi]

MCDraws == {L(FALSE, TRUE), L(TRUE, FALSE)}

\* Some function of the tweak and both labels, neither constant nor an XOR.
MCKDF(t, a, b) ==
    L((a["lo"] /\ b["hi"]) # a["hi"], (t % 2 = 1) # (b["lo"] \/ a["lo"]))

Tab(t00, t01, t10, t11) ==
    [x \in BOOLEAN |-> [y \in BOOLEAN |->
        IF x THEN (IF y THEN t11 ELSE t10) ELSE (IF y THEN t01 ELSE t00)]]

And == Tab(FALSE, FALSE, FALSE, TRUE)
AndNot == Tab(FALSE, FALSE, TRUE, FALSE)  \* x and not y: not symmetric
Xnor == Tab(TRUE, FALSE, FALSE, TRUE)

Mk(o, t, d, x, y, p) ==
    [options |-> o, table |-> t, dest |-> d, x |-> x, y |-> y, party |-> p]
G(t, d, x, y) == Mk("gate", t, d, x, y, "GEN")
In(d, p) == Mk("input", ZeroTable, d, 0, 0, p)
Out(d, p) == Mk("output", ZeroTable, d, 0, 0, p)
Copy(x, y) == Mk("copy", ZeroTable, 0, x, y, "GEN")

\* One input of each party, a wire written in place, a copy over an input.
Mixed == <<G(ZeroTable, 0, 0, 0), In(1, "GEN"), In(2, "EVL"), In(3, "SGX"),
           G(AndNot, 4, 1, 2), G(XorTable, 3, 3, 4), Copy(1, 3),
           G(Xnor, 1, 2, 1), Out(1, "EVL"), Out(3, "GEN"), Out(4, "SGX")>>

\* Two inputs of one party and an output of the constant itself.
Pair(p) == <<In(1, p), G(ZeroTable, 0, 1, 1), In(2, p), G(AndNot, 3, 1, 2),
             Out(0, "GEN"), G(And, 3, 3, 1), Copy(4, 3), Out(4, "EVL"),
             Out(3, "SGX")>>

MCPrograms == {Mixed} \cup {Pair(p) : p \in Party}

InputsOf(p, q) == SelectSeq(p, LAMBDA op : op.options = "input" /\ op.party = q)

\* All input bits, both orders of the generator's ciphertexts, both offsets
\* and two keys; the keys of neighbouring inputs differ.
MCSetups ==
    UNION {
        {[prog |-> p, R |-> r,
          inp |-> [q \in Party |-> [ix \in Slots(p) |-> <<q, ix>> \in ones]],
          key |-> [q \in Party |-> [ix \in Slots(p) |->
                    LET k0 == IF ix % 2 = 0 THEN k ELSE L(~k["lo"], ~k["hi"])
                        k1 == L(k0["hi"], ~k0["hi"])
                    IN  IF q = "SGX" THEN transformToGarbled(k0, k1).key
                        ELSE [b \in BOOLEAN |-> IF b THEN k1 ELSE k0]]],
          order |-> [q \in Party |-> [ix \in Slots(p) |->
                    LET k0 == IF ix % 2 = 0 THEN k ELSE L(~k["lo"], ~k["hi"])
                        k1 == L(k0["hi"], ~k0["hi"])
                    IN  CASE q = "GEN" -> m # (ix % 2 = 1)
                          [] q = "EVL" -> FALSE
                          [] q = "SGX" -> transformToGarbled(k0, k1).permute]]] :
         ones \in SUBSET {<<q, ix>> \in Party \X (0..1) : ix < Len(InputsOf(p, q))},
         r \in {L(TRUE, FALSE), L(TRUE, TRUE)},
         k \in {L(FALSE, FALSE), L(TRUE, FALSE)},
         m \in BOOLEAN} : p \in MCPrograms}

MCBits == {"lo", "hi"}

=============================================================================
