----------------------------- MODULE MCPrograms -----------------------------
(***************************************************************************)
(* The programs the enclaves run, side by side: the comparison of the      *)
(* millionaires, the universal circuit, the shortest path with and without *)
(* a super node, the hybrid database, the database and the memory that     *)
(* passes over all its cells, and the way inputs take to a program and     *)
(* answers back.  An enclave runs one of them: they share no state, and a  *)
(* behaviour leaves the others where they start.                           *)
(***************************************************************************)
EXTENDS Millionaires, UniversalCircuit, HybridDijkstra, HybridDb, SfeExchange,
        LinearOram, SfeDatabase

CONSTANT Ran     \* the programs of this instance

VARIABLE program    \* the one that runs

programsVars == <<program, milVars, ucVars, hybridDjVars, hybridDbVars, exchangeVars,
                  linearVars, dbAllVars>>

\* All programs but p stay as they are.
Others(p) ==
    /\ IF p = "mil" THEN TRUE ELSE UNCHANGED milVars
    /\ IF p = "uc" THEN TRUE ELSE UNCHANGED ucVars
    /\ IF p \in {"dj", "hybrid_dj"} THEN TRUE ELSE UNCHANGED djVars
    /\ IF p = "hybrid_dj" THEN TRUE ELSE UNCHANGED tail
    /\ IF p = "hybrid_db" THEN TRUE ELSE UNCHANGED hybridDbVars
    /\ IF p = "exchange" THEN TRUE ELSE UNCHANGED exchangeVars
    /\ IF p = "linear" THEN TRUE ELSE UNCHANGED linearVars
    /\ IF p = "database" THEN TRUE ELSE UNCHANGED dbAllVars
    /\ UNCHANGED program

----------------------------------------------------------------------------
\* Universal circuit: every program of two gates over a pool of two, with
\* operands and results inside and outside it.
Place == 0 .. 2
Pairs(S) == [0 .. 1 -> S]

AllPrograms ==
    [x : Pairs(Place), y : Pairs(Place), tt : Pairs({2, 5, 8, 15}), d : Pairs(Place),
     output : {[o \in 0 .. 2 |-> o]}]

\* Shortest path: a graph from the neighbours and the weights of each node, the
\* slots that are not given being empty.
GraphOf(to, weight, a, z) ==
    [connections |-> [n \in Node |-> [s \in Slot |-> to[n][s]]],
     edges |-> [n \in Node |-> [s \in Slot |-> weight[n][s]]],
     startnode |-> a, endnode |-> z]

\* An edge out of node n of the first three: where to and its weight, or none.
EdgeOf(n) == {<<NoNode, 0>>} \cup (((0 .. 2) \ {n}) \X {1, 20})
EdgesOf(n) == {p \in EdgeOf(n) \X EdgeOf(n) : p[1][1] <= p[2][1]}

\* Every graph of three nodes with two edges each, of two weights; the longest
\* paths reach the weight that stands for no path.
SmallGraphs ==
    {GraphOf([n \in Node |-> [s \in Slot |->
                 IF n < 3 /\ s < 2 THEN <<p, q, r>>[n + 1][s + 1][1] ELSE NoNode]],
             [n \in Node |-> [s \in Slot |->
                 IF n < 3 /\ s < 2 THEN <<p, q, r>>[n + 1][s + 1][2] ELSE 0]], 0, 2) :
        p \in EdgesOf(0), q \in EdgesOf(1), r \in EdgesOf(2)}

\* The graph the plain program brings itself, with its two edges of weight 10
\* to and from node 1 made shorter or not, between every two nodes.
HardcodedGraphs ==
    {GraphOf([n \in Node |-> [s \in Slot |->
                 <<<<1, 2, NoNode, NoNode>>, <<0, 2, 3, NoNode>>, <<0, 1, 4, NoNode>>,
                   <<1, 4, 5, NoNode>>, <<2, 3, 5, NoNode>>,
                   <<3, 4, NoNode, NoNode>>>>[n + 1][s + 1]]],
             [n \in Node |-> [s \in Slot |->
                 <<<<u, 1, 0, 0>>, <<v, 1, 1, 0>>, <<1, 1, 1, 0>>,
                   <<1, 1, 1, 0>>, <<1, 1, 10, 0>>, <<1, 10, 0, 0>>>>[n + 1][s + 1]]], a, z) :
        u \in {2, 10}, v \in {2, 10}, a \in Node, z \in Node}

\* Hybrid shortest path: three nodes outside, 0 to 2, each with an edge to a
\* node of a super node of three, 3 to 5, which is a chain with its neighbours
\* in the last slots.  The middle one has two ports.
Attached == {f \in [0 .. 2 -> 3 .. 5] : Cardinality({k \in 0 .. 2 : f[k] = 4}) <= 2}

\* The outside nodes attached to n, in order.
AttachedTo(f, n) == {k \in 0 .. 2 : f[k] = n}

\* What slot s of super node n leads to: its outside nodes, then its chain.
SuperEdge(f, n, s) ==
    LET outer == AttachedTo(f, n)
        place(k) == Cardinality({m \in outer : m < k})
    IN  IF \E k \in outer : place(k) = s THEN CHOOSE k \in outer : place(k) = s
        ELSE CASE s = 2 /\ n = 4 -> 3
               [] s = 3 /\ n \in {3, 4} -> n + 1
               [] s = 3 /\ n = 5 -> 4
               [] OTHER -> NoNode

\* Nodes 0 and 1 may have an edge of their own, short or long.
SuperGraphs ==
    {GraphOf([n \in Node |-> [s \in Slot |->
                 CASE n > 2 -> SuperEdge(f, n, s)
                   [] n < 2 /\ s = 1 /\ w > 0 -> 1 - n
                   [] n < 3 /\ s = 0 -> f[n]
                   [] OTHER -> NoNode]],
             [n \in Node |-> [s \in Slot |-> IF n < 2 /\ s = 1 THEN w ELSE 1]], a, z) :
        f \in Attached, w \in {0, 1, 5}, a \in Node, z \in Node}

AllGraphs == SmallGraphs \cup HardcodedGraphs \cup SuperGraphs

\* The graphs of this instance are inputs.
NoGraph == GraphOf([n \in Node |-> [s \in Slot |-> NoNode]],
                   [n \in Node |-> [s \in Slot |-> 0]], 0, 2)

ASSUME GraphsAssumption == {NoGraph} \cup AllGraphs \subseteq Inputs

\* Linear memory: ints of two bits.
Ints == -2 .. 1

\* Database: three cells, so that queries can repeat one and leave one out.
Indices == 0 .. 2

----------------------------------------------------------------------------
\* A program that does not run stays in one of its initial states.
MilIdle ==
    /\ alice = [n \in 0 .. MilSize - 1 |-> 0] /\ bob = alice /\ milNaive = FALSE
    /\ MilInit

UcIdle ==
    /\ ucNaive = FALSE /\ ucProg = Hardcoded
    /\ ucInput = [n \in 0 .. NumInputs - 1 |-> 0]
    /\ UcInit

\* Some of the graphs, in some of the forms: DjInit, without the search for
\* the graph among all Inputs.
DjOn(graphs, naives) == djInput \in graphs /\ djNaive \in naives /\ DjStart

DjIdle == DjOn({NoGraph}, {FALSE})

HybridDbIdle ==
    /\ split = FALSE
    /\ db = [n \in Cell |-> [hi |-> 0, lo |-> 0]]
    /\ queries = [q \in HybridQuery |-> 0]
    /\ HybridDbInit

ExchangeIdle ==
    /\ prog = "SFEMIL" /\ naive = FALSE /\ sFile = "none" /\ eFile = "none"
    /\ ExchangeInit

DatabaseIdle ==
    /\ oram = "plain"
    /\ evl_input = [n \in Index |-> Zero] /\ gen_input = [q \in Query |-> 0]
    /\ req = [kind |-> "get", index |-> 0, value |-> Zero]
    /\ DbInit

IdleBut(p) ==
    /\ program = p /\ p \in Ran
    /\ IF p = "mil" THEN TRUE ELSE MilIdle
    /\ IF p = "uc" THEN TRUE ELSE UcIdle
    /\ IF p \in {"dj", "hybrid_dj"} THEN TRUE ELSE DjIdle /\ TailInit
    /\ IF p = "hybrid_db" THEN TRUE ELSE HybridDbIdle
    /\ IF p = "exchange" THEN TRUE ELSE ExchangeIdle
    /\ LinearInit
    /\ IF p = "database" THEN TRUE ELSE DatabaseIdle

Init ==
    \/ IdleBut("mil") /\ MilInit
    \/ IdleBut("uc") /\ UcInit
    \/ IdleBut("dj") /\ TailInit /\ DjOn(SmallGraphs \cup HardcodedGraphs, BOOLEAN)
    \/ IdleBut("hybrid_dj") /\ TailInit /\ DjOn(SuperGraphs, {FALSE})
    \/ IdleBut("hybrid_db") /\ HybridDbInit
    \/ IdleBut("exchange") /\ ExchangeInit
    \/ IdleBut("linear")
    \/ IdleBut("database") /\ DbInit

Next ==
    \/ program = "mil" /\ MilNext /\ Others("mil")
    \/ program = "uc" /\ UcNext /\ Others("uc")
    \/ program = "dj" /\ DjNext /\ Others("dj")
    \/ program = "hybrid_dj" /\ HybridDjNext /\ Others("hybrid_dj")
    \/ program = "hybrid_db" /\ HybridDbNext /\ Others("hybrid_db")
    \/ program = "exchange" /\ ExchangeNext /\ Others("exchange")
    \/ program = "linear" /\ LinearNext /\ Others("linear")
    \/ program = "database" /\ DbNext /\ Others("database")

Spec == Init /\ [][Next]_programsVars

----------------------------------------------------------------------------
\* All programs have their types; the hybrid shortest path counts on after the
\* plain one's end.
ProgramsTypeOK ==
    /\ program \in Ran
    /\ MilTypeOK /\ UcTypeOK /\ HybridDbTypeOK /\ ExchangeTypeOK /\ LinearTypeOK /\ DbTypeOK
    /\ program # "hybrid_dj" => DjTypeOK
    /\ program = "hybrid_dj" => HybridDjTypeOK
=============================================================================
