--------------------------- MODULE MCSmcProtocol ----------------------------
(***************************************************************************)
(* The command lines TLC tries SmcProtocol on.                             *)
(***************************************************************************)
EXTENDS SmcProtocol

\* An SFE session: the nth program, with or without input files.
Sfe(n, s_input, e_input, hash) ==
    [s_yao |-> FALSE, s_idx |-> 0, s_sfe |-> n, s_input |-> s_input,
     e_yao |-> FALSE, e_idx |-> 0, e_input |-> e_input, hash |-> hash]

\* A hybrid session: the indices given to either party.
Hybrid(s, e, hash) ==
    [s_yao |-> TRUE, s_idx |-> s, s_sfe |-> 0, s_input |-> "none",
     e_yao |-> TRUE, e_idx |-> e, e_input |-> "none", hash |-> hash]

Inputs(n) == {"none", SfeProg[n + 1]}

\* Every SFE program, with every combination of input files for it.
SfeConfs ==
    UNION {{Sfe(n, i, j, TRUE) : i \in Inputs(n), j \in Inputs(n)} : n \in 0..3}

\* The same, and runs with an enclave that is not the expected one.
SessionConfs == SfeConfs \cup {Sfe(n, "none", "none", FALSE) : n \in 0..3}

\* The hybrid cases that can finish (case 2 cannot, see ClaimDijkstra.cfg).
HybridConfs == {Hybrid(i, i, TRUE) : i \in {0, 1, 3}}

\* Honest sessions: parties that agree, and an enclave that is the expected one.
HonestConfs == SfeConfs \cup HybridConfs

\* The hybrid Dijkstra case, on its own.
DijkstraConfs == {Hybrid(2, 2, TRUE)}

\* Honest and mistaken SFE sessions: input files for another program, and an
\* enclave whose measurement is not the expected one.
SfeFaultConfs ==
    {Sfe(n, i, j, h) : n \in {0, 3}, i \in {"none", "SFEMIL"},
                       j \in {"none", "SFEMIL"}, h \in BOOLEAN}

\* Hybrid sessions whose parties agree or disagree on the case.
HybridFaultConfs ==
    {Hybrid(s, e, h) : s \in 0..3, e \in 0..3, h \in BOOLEAN}

\* Parties that do not even agree on the kind of session.
MixedConfs ==
    {[Hybrid(i, 0, TRUE) EXCEPT !.e_yao = FALSE] : i \in {0, 1}} \cup
    {[Sfe(n, "none", "none", TRUE) EXCEPT !.e_yao = TRUE, !.e_idx = e] :
        n \in {0, 1}, e \in {0, 1}}

EveryConf == SfeFaultConfs \cup HybridFaultConfs \cup MixedConfs

=============================================================================
