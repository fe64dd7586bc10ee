----------------------------- MODULE MCTreeOram -----------------------------
(* Instances of the tree ORAM for TLC.                                       *)
EXTENDS TreeOram

\* The memories TLC goes on from: one cell, an end or the middle, holds what was
\* written.
OneWritten == \E k \in {0, Size \div 2} : \A i \in Index : data[i] # Zero => i = k

\* One shuffle of the constructor, for memories too large to try them all.
OneShuffleSpec == InitWith([k \in 1 .. Size |-> (3 * k) % Size]) /\ [][Next]_vars

\* The tests of mysfe.cpp read every cell back: a read returns what the cell
\* holds (oram_test2, EXPECT(o.get(i) == i)).
ReadsBack == phase = "remove" /\ req.kind = "get" => ans = data[req.index]
=============================================================================
