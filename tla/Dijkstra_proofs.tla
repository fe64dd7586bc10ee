------------------------- MODULE Dijkstra_proofs --------------------------
(***************************************************************************)
(* The shortest path programs find a shortest path in every graph that is  *)
(* an input, and the hybrid one tells the circuit the port by which it     *)
(* leaves the super node.                                                  *)
(***************************************************************************)
EXTENDS HybridDijkstra, Recursion, FiniteSetTheorems

-----------------------------------------------------------------------------
(* The weights of walks.                                                   *)

\* The walks of one edge more.
ReachNext(before) ==
    [k \in Node |-> before[k] \cup
        UNION {{d + djInput.edges[e[1]][e[2]] : d \in before[e[1]]} : e \in EdgesTo(k)}]

\* The walks of no edges.
ReachFirst == [k \in Node |-> IF k = djInput.startnode THEN {0} ELSE {}]

\* What the parties brought.
DjGiven == djInput \in Inputs /\ djNaive \in BOOLEAN

\* What the sizes are.
LEMMA SizesFacts ==
    /\ Nodes \in Nat /\ Nodes > 0 /\ Edges \in Nat /\ Edges > 0 /\ MaxWeight \in Nat /\ MaxWeight > 0
    /\ NoNode \notin Node /\ 0 \in Slot /\ 0 \in Node /\ Node \subseteq Nat
    /\ StartWeight \in 0 .. 1 /\ StartWeight <= MaxWeight
BY DjSizesAssumption DEF NoNode, Node, Slot, StartWeight

\* What a graph is.
LEMMA GraphTyped ==
    ASSUME DjGiven
    PROVE  /\ djInput.edges \in [Node -> [Slot -> Nat]]
           /\ djInput.connections \in [Node -> [Slot -> Node \cup {NoNode}]]
           /\ djInput.startnode \in Node /\ djInput.endnode \in Node
BY InputAssumption DEF DjGiven

\* One edge more makes walks of walks.
LEMMA ReachNextTyped ==
    ASSUME DjGiven, NEW f \in [Node -> SUBSET Nat]
    PROVE  ReachNext(f) \in [Node -> SUBSET Nat]
<1>1. ASSUME NEW k \in Node,
             NEW x \in UNION {{d + djInput.edges[e[1]][e[2]] : d \in f[e[1]]} : e \in EdgesTo(k)}
      PROVE  x \in Nat
    <2>1. PICK e \in Node \X Slot : x \in {d + djInput.edges[e[1]][e[2]] : d \in f[e[1]]}
        BY DEF EdgesTo
    <2>2. PICK d \in f[e[1]] : x = d + djInput.edges[e[1]][e[2]]
        BY <2>1
    <2>3. djInput.edges[e[1]][e[2]] \in Nat /\ d \in Nat
        BY <2>1, GraphTyped
    <2> QED BY <2>2, <2>3
<1> QED BY <1>1 DEF ReachNext

\* Reach is the recursion it is written as.
LEMMA ReachRecurs ==
    ASSUME DjGiven
    PROVE  /\ Reach[0] = ReachFirst
           /\ \A n \in 0 .. Nodes - 1 : Reach[n + 1] = ReachNext(Reach[n])
           /\ \A n \in 0 .. Nodes : Reach[n] \in [Node -> SUBSET Nat]
<1> DEFINE V == [Node -> SUBSET Nat]
           next == [x \in Nat \X V |-> ReachNext(x[2])]
           body(g, n) == IF n = 0 THEN ReachFirst ELSE ReachNext(g[n - 1])
<1>0. Nodes \in Nat
    BY DjSizesAssumption
<1>1. ReachFirst \in V
    BY DEF ReachFirst
<1>2. next \in [Nat \X V -> V]
    BY ReachNextTyped
<1>n. \A f \in V : ReachNext(f) \in V
    BY ReachNextTyped
<1> HIDE DEF V
<1>r. PICK f \in [Nat -> V] : Recurs(f, ReachFirst, next)
    <2> HIDE DEF next
    <2> QED BY <1>1, <1>2, NatRecursion
<1>3. f[0] = ReachFirst /\ \A n \in Nat : f[n + 1] = next[<<n, f[n]>>]
    BY <1>r DEF Recurs
<1>4. ASSUME NEW n \in Nat PROVE f[n + 1] = ReachNext(f[n])
    <2>1. <<n, f[n]>> \in Nat \X V
        BY <1>3
    <2>2. next[<<n, f[n]>>] = ReachNext(f[n])
        BY <2>1
    <2> QED BY <1>3, <2>2
<1> HIDE DEF next
<1> DEFINE h == [n \in 0 .. Nodes |-> f[n]]
<1>5. h = [n \in 0 .. Nodes |-> body(h, n)]
    <2>1. ASSUME NEW n \in 0 .. Nodes PROVE f[n] = body(h, n)
        <3>1. CASE n = 0
            BY <1>3, <3>1
        <3>2. CASE n # 0
            <4>1. n - 1 \in Nat /\ n - 1 \in 0 .. Nodes /\ (n - 1) + 1 = n
                BY <3>2, <1>0
            <4>2. f[(n - 1) + 1] = ReachNext(f[n - 1])
                BY <1>4, <4>1
            <4>3. h[n - 1] = f[n - 1]
                BY <4>1
            <4> HIDE DEF h
            <4>4. f[n] = ReachNext(h[n - 1])
                BY <4>1, <4>2, <4>3
            <4> QED BY <3>2, <4>4
        <3> QED BY <3>1, <3>2
    <2> HIDE DEF body
    <2> QED BY <2>1
<1>6. Reach = [n \in 0 .. Nodes |-> body(Reach, n)]
    <2>1. Reach = CHOOSE m : m = [n \in 0 .. Nodes |-> body(m, n)]
        BY DEF Reach, ReachFirst, ReachNext
    <2> HIDE DEF h, body
    <2> QED BY <1>5, <2>1
<1> HIDE DEF h, body
<1>7. \A n \in 0 .. Nodes : Reach[n] = body(Reach, n)
    BY <1>6
<1>8. Reach[0] = ReachFirst
    BY <1>7, <1>0 DEF body
<1>9. ASSUME NEW n \in 0 .. Nodes - 1
      PROVE  Reach[n + 1] = ReachNext(Reach[n])
    <2>1. n + 1 \in 0 .. Nodes /\ n + 1 # 0 /\ (n + 1) - 1 = n
        BY <1>0
    <2>2. Reach[n + 1] = ReachNext(Reach[(n + 1) - 1])
        BY <1>7, <2>1 DEF body
    <2> QED BY <2>1, <2>2
<1>10. \A n \in 0 .. Nodes : Reach[n] \in V
    <2> DEFINE S == {n \in Nat : n <= Nodes => Reach[n] \in V}
    <2>1. 0 \in S
        BY <1>1, <1>8
    <2>2. ASSUME NEW n \in Nat, n \in S PROVE n + 1 \in S
        <3>1. SUFFICES ASSUME n + 1 <= Nodes PROVE Reach[n + 1] \in V
            OBVIOUS
        <3>2. n \in 0 .. Nodes - 1 /\ Reach[n] \in V
            BY <2>2, <3>1, <1>0
        <3>3. ReachNext(Reach[n]) \in V
            BY <3>2, <1>n
        <3> QED BY <1>9, <3>2, <3>3
    <2> HIDE DEF S
    <2>3. Nat \subseteq S
        BY <2>1, <2>2, NatInductive
    <2> QED BY <2>3, <1>0 DEF S
<1> QED BY <1>8, <1>9, <1>10 DEF V

\* It depends on the graph only.
LEMMA SameReach ==
    ASSUME UNCHANGED djInput
    PROVE  Reach' = Reach
BY DEF Reach, EdgesTo

\* A walk of at most n edges is one of at most n + 1.
LEMMA ReachGrows ==
    ASSUME DjGiven, NEW n \in 0 .. Nodes - 1, NEW k \in Node
    PROVE  Reach[n][k] \subseteq Reach[n + 1][k]
<1>1. Reach[n + 1] = ReachNext(Reach[n])
    BY ReachRecurs
<1> QED BY <1>1 DEF ReachNext

\* A walk to u and an edge from u to k make a walk to k.
LEMMA ReachEdge ==
    ASSUME DjGiven, NEW n \in 0 .. Nodes - 1, NEW u \in Node, NEW s \in Slot,
           NEW k \in Node, djInput.connections[u][s] = k, NEW d \in Reach[n][u]
    PROVE  d + djInput.edges[u][s] \in Reach[n + 1][k]
<1>1. Reach[n + 1] = ReachNext(Reach[n])
    BY ReachRecurs
<1>2. <<u, s>> \in EdgesTo(k)
    BY DEF EdgesTo
<1>3. d + djInput.edges[u][s] \in {c + djInput.edges[u][s] : c \in Reach[n][u]}
    OBVIOUS
<1>4. ReachNext(Reach[n])[k] = Reach[n][k] \cup
          UNION {{c + djInput.edges[e[1]][e[2]] : c \in Reach[n][e[1]]} : e \in EdgesTo(k)}
    BY DEF ReachNext
<1>5. {c + djInput.edges[u][s] : c \in Reach[n][u]}
          \in {{c + djInput.edges[e[1]][e[2]] : c \in Reach[n][e[1]]} : e \in EdgesTo(k)}
    BY <1>2
<1> QED BY <1>1, <1>3, <1>4, <1>5

\* And a walk of one edge more is made so, or is no longer.
LEMMA ReachBack ==
    ASSUME DjGiven, NEW n \in 0 .. Nodes - 1, NEW k \in Node, NEW x \in Reach[n + 1][k],
           x \notin Reach[n][k]
    PROVE  \E u \in Node, s \in Slot :
              djInput.connections[u][s] = k /\ \E d \in Reach[n][u] : x = d + djInput.edges[u][s]
<1>1. Reach[n + 1] = ReachNext(Reach[n])
    BY ReachRecurs
<1>2. PICK e \in EdgesTo(k) :
            x \in {d + djInput.edges[e[1]][e[2]] : d \in Reach[n][e[1]]}
    BY <1>1 DEF ReachNext
<1> QED BY <1>2 DEF EdgesTo

\* More edges never make fewer walks.
LEMMA ReachMonotone ==
    ASSUME DjGiven, NEW k \in Node, NEW m \in Nat, NEW n \in Nat, m <= n, n <= Nodes
    PROVE  Reach[m][k] \subseteq Reach[n][k]
<1> DEFINE S == {j \in Nat : m + j <= Nodes => Reach[m][k] \subseteq Reach[m + j][k]}
<1>1. 0 \in S
    <2>1. m + 0 = m
        OBVIOUS
    <2> QED BY <2>1
<1>2. ASSUME NEW j \in Nat, j \in S PROVE j + 1 \in S
    <2>1. SUFFICES ASSUME m + (j + 1) <= Nodes PROVE Reach[m][k] \subseteq Reach[m + (j + 1)][k]
        OBVIOUS
    <2>2. m + j \in 0 .. Nodes - 1 /\ m + j <= Nodes /\ (m + j) + 1 = m + (j + 1)
        BY <2>1, SizesFacts
    <2>3. Reach[m + j][k] \subseteq Reach[(m + j) + 1][k]
        BY <2>2, ReachGrows
    <2> QED BY <1>2, <2>2, <2>3
<1> HIDE DEF S
<1>3. Nat \subseteq S
    BY <1>1, <1>2, NatInductive
<1>4. n - m \in S /\ m + (n - m) = n
    BY <1>3
<1> QED BY <1>4, SizesFacts DEF S

-----------------------------------------------------------------------------
(* The search.                                                             *)

\* Where the loops are: edges are looked at in the iterations only, and between
\* them the edge's counter stands at the first.
DjPlace ==
    /\ djPc = "relax" => djI < Nodes
    /\ djPc = "trace" => djI < Nodes
    /\ djPc = "done" => djI = Nodes
    /\ djPc # "relax" => djJ = 0
    /\ djPc = "select" => djI <= Nodes

\* What is typed.
DjTyped == DjGiven /\ DjTypeOK /\ DjPlace

\* The selected node, if any, is one of the lightest.
LEMMA SelectedIs ==
    ASSUME DjTyped
    PROVE  /\ Lightest = {} => Selected = NoNode
           /\ Lightest # {} => Selected \in Lightest
           /\ Lightest \subseteq Node
<1>1. Lightest \subseteq Node /\ Lightest \in SUBSET Nat
    BY SizesFacts DEF Lightest
<1>2. ASSUME Lightest # {} PROVE Selected \in Lightest
    <2>1. \E k \in Lightest : \A m \in Lightest : k <= m
        BY <1>1, <1>2, LeastOf
    <2>2. Selected = CHOOSE k \in Lightest : \A m \in Lightest : k <= m
        BY <1>2 DEF Selected
    <2> HIDE DEF Lightest
    <2> QED BY <2>1, <2>2
<1> QED BY <1>1, <1>2 DEF Selected

\* Either form does the same with an edge: the node it leads to takes the new
\* weight, unless the old one is kept.
Changes(k) == k = Connection /\ ~Keeps(currentweight[k], NewWeight)

\* Both forms of the step, in one.
LEMMA RelaxDoes ==
    ASSUME DjTyped, Relax \/ NaiveRelax
    PROVE  /\ currentweight' = [k \in Node |-> IF Changes(k) THEN NewWeight ELSE currentweight[k]]
           /\ NodeLinks' = [k \in Node |-> IF Changes(k) THEN selectedNode ELSE NodeLinks[k]]
           /\ inqueue' = [k \in Node |-> inqueue[k] \/ Changes(k)]
           /\ djPc = "relax" /\ NextEdge
           /\ UNCHANGED <<djNaive, djInput, Paths, selectedNode, selectedWeight, nodeToGet>>
<1>1. CASE Relax
    BY <1>1 DEF Relax, Changes
<1>2. CASE NaiveRelax
    <2>1. /\ djPc = "relax" /\ NextEdge
          /\ UNCHANGED <<djNaive, djInput, Paths, selectedNode, selectedWeight, nodeToGet>>
        BY <1>2 DEF NaiveRelax
    <2>2. /\ currentweight \in [Node -> 0 .. MaxWeight] /\ inqueue \in [Node -> BOOLEAN]
          /\ NodeLinks \in [Node -> Node \cup {NoNode}]
        BY DEF DjTyped, DjTypeOK
    <2>3. CASE Connection = NoNode \/ Keeps(currentweight[Connection], NewWeight)
        <3>1. UNCHANGED <<currentweight, NodeLinks, inqueue>>
            BY <1>2, <2>3 DEF NaiveRelax
        <3>2. \A k \in Node : ~Changes(k)
            BY <2>3, SizesFacts DEF Changes
        <3> QED BY <2>1, <2>2, <3>1, <3>2
    <2>4. CASE ~(Connection = NoNode \/ Keeps(currentweight[Connection], NewWeight))
        <3>1. /\ currentweight' = [currentweight EXCEPT ![Connection] = NewWeight]
              /\ NodeLinks' = [NodeLinks EXCEPT ![Connection] = selectedNode]
              /\ inqueue' = [inqueue EXCEPT ![Connection] = TRUE]
            BY <1>2, <2>4 DEF NaiveRelax
        <3>2. \A k \in Node : Changes(k) <=> k = Connection
            BY <2>4 DEF Changes
        <3> HIDE DEF Connection, NewWeight
        <3> QED BY <2>1, <2>2, <3>1, <3>2
    <2> QED BY <2>3, <2>4
<1> QED BY <1>1, <1>2

\* A change is made by the selected node, over one of its edges, and the new
\* weight is no heavier than the old one.
LEMMA ChangesIs ==
    ASSUME DjTyped, NEW k \in Node, Changes(k)
    PROVE  /\ selectedNode \in Node
           /\ djInput.connections[selectedNode][djJ] = k
           /\ djInput.edges[selectedNode][djJ] \in Nat
           /\ NewWeight = selectedWeight + djInput.edges[selectedNode][djJ]
           /\ NewWeight \in Nat /\ NewWeight <= currentweight[k]
           /\ NewWeight \in 0 .. MaxWeight
<1>1. selectedNode \in Node /\ djInput.connections[selectedNode][djJ] = k
    BY SizesFacts DEF Changes, Connection, DjTyped, DjTypeOK
<1>2. djInput.edges[selectedNode][djJ] \in Nat
    BY <1>1, GraphTyped DEF DjTyped, DjTypeOK
<1>3. selectedWeight \in Nat /\ currentweight[k] \in 0 .. MaxWeight
    BY SizesFacts DEF DjTyped, DjTypeOK
<1>4. NewWeight \in Nat /\ NewWeight = selectedWeight + djInput.edges[selectedNode][djJ]
    BY <1>2, <1>3 DEF NewWeight
<1>5. ~(currentweight[k] < NewWeight)
    BY DEF Changes, Keeps
<1> QED BY <1>1, <1>2, <1>3, <1>4, <1>5, SizesFacts

\* The loop goes on to the next edge or to the next iteration.
LEMMA NextEdgeDoes ==
    ASSUME DjTyped, djPc = "relax", NextEdge
    PROVE  /\ djPc' \in {"select", "relax"} /\ djI' \in 0 .. Nodes /\ djJ' \in Slot
           /\ djPc' = "relax" => djI' = djI /\ djJ' = djJ + 1
           /\ djPc' = "select" => djI' = djI + 1 /\ djJ + 1 = Edges /\ djJ' = 0
BY SizesFacts DEF DjTyped, DjTypeOK, DjPlace, NextEdge, Slot

\* The search starts typed.
LEMMA DjTypedInit == DjGiven /\ DjStart => DjTyped
BY SizesFacts, GraphTyped DEF DjStart, DjTyped, DjTypeOK, DjPlace

\* Every step of either program keeps the types and the places.
LEMMA DjTypedStep == DjTyped /\ [DjNext]_djVars => DjTyped'
<1> SUFFICES ASSUME DjTyped, [DjNext]_djVars PROVE DjTyped'
    OBVIOUS
<1>0. DjGiven /\ DjTypeOK /\ DjPlace
    BY DEF DjTyped
<1>1. CASE Select
    <2>1. Selected \in Node \cup {NoNode}
        BY SelectedIs
    <2>2. inqueue' \in [Node -> BOOLEAN] /\ selectedNode' \in Node \cup {NoNode} /\ djJ' = 0 /\ djPc' = "relax"
        BY <1>0, <1>1, <2>1 DEF Select, DjTypeOK
    <2>3. selectedWeight' \in 0 .. MaxWeight
        BY <1>0, <1>1, <2>1, SizesFacts DEF Select, DjTypeOK
    <2>4. djI < Nodes
        BY <1>1 DEF Select
    <2>5. UNCHANGED <<djNaive, djInput, currentweight, NodeLinks, Paths, djI, nodeToGet>>
        BY <1>1 DEF Select
    <2> QED BY <1>0, <2>2, <2>3, <2>4, <2>5, SizesFacts DEF DjTyped, DjGiven, DjTypeOK, DjPlace
<1>2. CASE Relax \/ NaiveRelax
    <2>1. /\ currentweight' = [k \in Node |-> IF Changes(k) THEN NewWeight ELSE currentweight[k]]
          /\ NodeLinks' = [k \in Node |-> IF Changes(k) THEN selectedNode ELSE NodeLinks[k]]
          /\ inqueue' = [k \in Node |-> inqueue[k] \/ Changes(k)]
          /\ djPc = "relax" /\ NextEdge
          /\ UNCHANGED <<djNaive, djInput, Paths, selectedNode, selectedWeight, nodeToGet>>
        BY <1>2, RelaxDoes
    <2>2. currentweight' \in [Node -> 0 .. MaxWeight]
        BY <1>0, <2>1, ChangesIs DEF DjTypeOK
    <2>3. NodeLinks' \in [Node -> Node \cup {NoNode}]
        BY <1>0, <2>1 DEF DjTypeOK
    <2>4. inqueue' \in [Node -> BOOLEAN]
        <3>1. \A k \in Node : Changes(k) \in BOOLEAN
            BY DEF Changes
        <3> QED BY <1>0, <2>1, <3>1 DEF DjTypeOK
    <2>5. /\ djPc' \in {"select", "relax"} /\ djI' \in 0 .. Nodes /\ djJ' \in Slot
          /\ djPc' = "relax" => djI' = djI /\ djJ' = djJ + 1
          /\ djPc' = "select" => djI' = djI + 1 /\ djJ + 1 = Edges /\ djJ' = 0
        BY <2>1, NextEdgeDoes
    <2>6. DjPlace'
        BY <1>0, <2>1, <2>5, SizesFacts DEF DjPlace
    <2> QED BY <1>0, <2>1, <2>2, <2>3, <2>4, <2>5, <2>6 DEF DjTyped, DjGiven, DjTypeOK
<1>3. CASE Turn
    <2>1. djInput.endnode \in Node
        BY <1>0, GraphTyped
    <2> QED BY <1>0, <1>3, <2>1, SizesFacts DEF Turn, DjTyped, DjGiven, DjTypeOK, DjPlace
<1>4. CASE Trace
    <2>1. djI \in Node /\ djI + 1 \in 0 .. Nodes
        BY <1>0, <1>4, SizesFacts DEF Trace, DjTypeOK, Node
    <2>2. Paths' \in [Node -> Node \cup {NoNode}] /\ nodeToGet' \in Node \cup {NoNode}
        BY <1>0, <1>4, <2>1 DEF Trace, DjTypeOK, StepBack
    <2>3. /\ djPc = "trace" /\ djI' = djI + 1
          /\ djPc' = IF djI + 1 = Nodes THEN "done" ELSE "trace"
          /\ UNCHANGED <<djNaive, djInput, currentweight, inqueue, NodeLinks, djJ, selectedNode, selectedWeight>>
        BY <1>4 DEF Trace
    <2> QED BY <1>0, <2>1, <2>2, <2>3, SizesFacts DEF DjTyped, DjGiven, DjTypeOK, DjPlace
<1>5. CASE UNCHANGED djVars
    BY <1>0, <1>5 DEF djVars, DjTyped, DjGiven, DjTypeOK, DjPlace
<1> QED BY <1>1, <1>2, <1>3, <1>4, <1>5 DEF DjNext

\* A node that has its final weight, and one that waits for its turn.
Settled(k) == currentweight[k] < MaxWeight /\ ~inqueue[k]
Waiting(k) == currentweight[k] < MaxWeight /\ inqueue[k]
SettledNodes == {k \in Node : Settled(k)}

\* How many nodes have had their turn, as far as there were any.
Begun == IF djPc = "select" THEN djI ELSE IF djPc = "relax" THEN djI + 1 ELSE Nodes

\* The start has its weight and nothing precedes it; no node is lighter.
StartStands ==
    /\ currentweight[djInput.startnode] = StartWeight
    /\ NodeLinks[djInput.startnode] = NoNode
    /\ \A k \in Node : StartWeight <= currentweight[k]

\* The link of a node that has been reached accounts for its weight.
LinksStand ==
    \A k \in Node :
        currentweight[k] < MaxWeight /\ k # djInput.startnode =>
            /\ NodeLinks[k] \in Node
            /\ Settled(NodeLinks[k])
            /\ IsEdge(NodeLinks[k], k, currentweight[k] - currentweight[NodeLinks[k]])

\* Nodes get their final weight in the order of their weights.
InOrder == \A u, v \in Node : Settled(u) /\ Waiting(v) => currentweight[u] <= currentweight[v]

\* The edges of a settled node have been looked at, those of the selected one
\* as far as the loop has come: none offers a lighter way.
LookedAt(u, s) == djPc # "relax" \/ u # selectedNode \/ s < djJ
NoShorterWay ==
    \A u \in Node, s \in Slot :
        Settled(u) /\ LookedAt(u, s) /\ djInput.connections[u][s] \in Node =>
            currentweight[djInput.connections[u][s]] <= currentweight[u] + djInput.edges[u][s]

\* The selected node is settled, the last of all.
SelectedStands ==
    djPc = "relax" /\ selectedNode \in Node =>
        /\ Settled(selectedNode) /\ selectedWeight = currentweight[selectedNode]
        /\ \A u \in Node : Settled(u) => currentweight[u] <= selectedWeight

\* Every node that has been reached has a walk of its weight, of fewer edges
\* than there are settled nodes, and one more if it waits.
WalksStand ==
    /\ \A k \in Node : Settled(k) => Begun > 0 /\ currentweight[k] - StartWeight \in Reach[Begun - 1][k]
    /\ \A k \in Node : Waiting(k) => currentweight[k] - StartWeight \in Reach[Begun][k]
    /\ \A k \in Node : NodeLinks[k] # NoNode => Reach[Nodes - 1][k] # {}

\* Every turn settles a node, until there is none to settle.
TurnsCount ==
    \/ Cardinality(SettledNodes) = Begun
    \/ (\A k \in Node : ~Waiting(k)) /\ (djPc = "relax" => selectedNode = NoNode)

\* In the end there is none.
NoneWaits == djPc \in {"trace", "done"} => \A k \in Node : ~Waiting(k)

\* The invariant of the search.
SearchInv ==
    /\ StartStands /\ LinksStand /\ InOrder /\ NoShorterWay /\ SelectedStands
    /\ WalksStand /\ TurnsCount /\ NoneWaits

\* The search, when no edge weighs nothing.
DjSearchInv == DjTyped /\ (Positive => SearchInv)

\* There are finitely many nodes.
LEMMA NodesFinite ==
    /\ IsFiniteSet(Node) /\ Cardinality(Node) = Nodes
    /\ IsFiniteSet(SettledNodes) /\ Cardinality(SettledNodes) \in Nat
    /\ Cardinality(SettledNodes) <= Nodes
    /\ \A k \in Node \ SettledNodes : Cardinality(SettledNodes) < Nodes
    /\ \A k \in Node \ SettledNodes : Cardinality(SettledNodes \cup {k}) = Cardinality(SettledNodes) + 1
<1>1. IsFiniteSet(Node) /\ Cardinality(Node) = Nodes
    BY SizesFacts, FS_Interval DEF Node
<1>2. SettledNodes \subseteq Node
    BY DEF SettledNodes
<1> HIDE DEF SettledNodes
<1>3. /\ IsFiniteSet(SettledNodes) /\ Cardinality(SettledNodes) <= Nodes
      /\ Cardinality(SettledNodes) = Cardinality(Node) => SettledNodes = Node
    BY <1>1, <1>2, FS_Subset
<1>4. Cardinality(SettledNodes) \in Nat
    BY <1>3, FS_CardinalityType
<1>5. \A k \in Node \ SettledNodes : Cardinality(SettledNodes) < Nodes
    BY <1>1, <1>3, <1>4, SizesFacts
<1>6. \A k \in Node \ SettledNodes : Cardinality(SettledNodes \cup {k}) = Cardinality(SettledNodes) + 1
    BY <1>3, FS_AddElement
<1> QED BY <1>1, <1>3, <1>4, <1>5, <1>6

\* No more iterations begin than there are nodes.
LEMMA BegunRange == DjTyped => Begun \in 0 .. Nodes
BY SizesFacts DEF Begun, DjTyped, DjTypeOK, DjPlace

\* The search starts at the start, which waits alone.
LEMMA SearchInit == DjGiven /\ DjStart => SearchInv
<1> SUFFICES ASSUME DjGiven, DjStart PROVE SearchInv
    OBVIOUS
<1>0. DjTyped
    BY DjTypedInit
<1>1. /\ currentweight = [k \in Node |-> IF k = djInput.startnode THEN StartWeight ELSE MaxWeight]
      /\ inqueue = [k \in Node |-> k = djInput.startnode]
      /\ NodeLinks = [k \in Node |-> NoNode] /\ djPc = "select" /\ djI = 0
    BY DEF DjStart
<1>2. djInput.startnode \in Node
    BY GraphTyped
<1>3. \A k \in Node : ~Settled(k)
    <2> TAKE k \in Node
    <2>1. CASE k = djInput.startnode
        <3>1. inqueue[k]
            BY <1>1, <2>1
        <3> QED BY <3>1 DEF Settled
    <2>2. CASE k # djInput.startnode
        <3>1. currentweight[k] = MaxWeight
            BY <1>1, <2>2
        <3> QED BY <3>1, SizesFacts DEF Settled
    <2> QED BY <2>1, <2>2
<1>4. \A k \in Node : currentweight[k] < MaxWeight => k = djInput.startnode
    BY <1>1, SizesFacts
<1>5. StartStands
    BY <1>1, <1>2, SizesFacts DEF StartStands
<1>6. LinksStand /\ InOrder /\ NoShorterWay /\ SelectedStands /\ NoneWaits
    BY <1>1, <1>3, <1>4 DEF LinksStand, InOrder, NoShorterWay, SelectedStands, NoneWaits
<1>7. WalksStand
    <2>1. Reach[0][djInput.startnode] = {0}
        BY <1>2, ReachRecurs DEF ReachFirst
    <2>2. ASSUME NEW k \in Node, Waiting(k) PROVE currentweight[k] - StartWeight \in Reach[Begun][k]
        <3>1. k = djInput.startnode /\ currentweight[k] = StartWeight /\ Begun = 0
            BY <1>1, <1>2, <1>4, <2>2 DEF Waiting, Begun
        <3>2. StartWeight - StartWeight = 0
            BY SizesFacts
        <3> QED BY <2>1, <3>1, <3>2
    <2> QED BY <1>1, <1>3, <2>2 DEF WalksStand
<1>8. TurnsCount
    <2>1. SettledNodes = {}
        BY <1>3 DEF SettledNodes
    <2> QED BY <1>1, <2>1, FS_EmptySet DEF TurnsCount, Begun
<1> QED BY <1>5, <1>6, <1>7, <1>8 DEF SearchInv

\* A node that waits is not lighter than one of the lightest, and if any waits
\* there are lightest ones.
LEMMA LightestWaits ==
    ASSUME DjTyped
    PROVE  /\ \A u \in Lightest : Waiting(u) /\ \A v \in Node : Waiting(v) => currentweight[u] <= currentweight[v]
           /\ Lightest = {} => \A v \in Node : ~Waiting(v)
<1>0. currentweight \in [Node -> 0 .. MaxWeight] /\ MaxWeight \in Nat
    BY SizesFacts DEF DjTyped, DjTypeOK
<1>1. \A u \in Lightest : Waiting(u) /\ \A v \in Node : Waiting(v) => currentweight[u] <= currentweight[v]
    BY DEF Lightest, Waiting
<1>2. ASSUME NEW v \in Node, Waiting(v) PROVE Lightest # {}
    <2> DEFINE ws == {currentweight[k] : k \in {k \in Node : Waiting(k)}}
    <2>1. ws \in SUBSET Nat /\ ws # {}
        BY <1>0, <1>2
    <2> HIDE DEF ws
    <2>2. PICK w \in ws : \A x \in ws : w <= x
        BY <2>1, LeastOf
    <2>3. PICK k \in Node : Waiting(k) /\ currentweight[k] = w
        BY <2>2 DEF ws
    <2>4. ASSUME NEW m \in Node, inqueue[m] PROVE currentweight[k] <= currentweight[m]
        <3>1. CASE Waiting(m)
            BY <2>2, <2>3, <3>1 DEF ws
        <3>2. CASE ~Waiting(m)
            <4>1. ~(currentweight[m] < MaxWeight) /\ currentweight[k] < MaxWeight
                BY <2>3, <2>4, <3>2 DEF Waiting
            <4>2. currentweight[m] \in Nat /\ currentweight[k] \in Nat
                BY <1>0
            <4> QED BY <1>0, <4>1, <4>2
        <3> QED BY <3>1, <3>2
    <2>5. k \in Lightest
        BY <2>3, <2>4 DEF Lightest, Waiting
    <2> QED BY <2>5
<1> QED BY <1>1, <1>2

\* The lightest node that waits is settled.
LEMMA SelectSearch ==
    ASSUME DjTyped, SearchInv, Select
    PROVE  SearchInv'
<1>0. /\ currentweight \in [Node -> 0 .. MaxWeight] /\ inqueue \in [Node -> BOOLEAN]
      /\ NodeLinks \in [Node -> Node \cup {NoNode}] /\ MaxWeight \in Nat /\ djI \in Nat /\ Nodes \in Nat
    BY SizesFacts DEF DjTyped, DjTypeOK
<1>s. PICK sel \in Node \cup {NoNode} : sel = Selected
    BY SelectedIs
<1>1. /\ djPc = "select" /\ djI < Nodes /\ djPc' = "relax" /\ djJ' = 0 /\ djI' = djI
      /\ selectedNode' = sel
      /\ selectedWeight' = IF sel = NoNode THEN MaxWeight ELSE currentweight[sel]
      /\ inqueue' = [k \in Node |-> inqueue[k] /\ k # sel]
      /\ UNCHANGED <<djNaive, djInput, currentweight, NodeLinks>>
    BY <1>s DEF Select
<1>2. /\ StartStands /\ LinksStand /\ InOrder /\ NoShorterWay
      /\ WalksStand /\ TurnsCount
    BY DEF SearchInv
<1>3. Begun = djI /\ Begun' = djI + 1
    BY <1>1 DEF Begun
<1>4. (sel = NoNode /\ Lightest = {}) \/ (sel \in Node /\ sel \in Lightest)
    <2>1. CASE Lightest = {}
        <3>1. Selected = NoNode
            BY <2>1, Zenon DEF Selected
        <3>2. sel = NoNode
            BY <1>s, <3>1
        <3> QED BY <2>1, <3>2
    <2>2. CASE Lightest # {}
        BY <1>s, <2>2, SelectedIs
    <2> QED BY <2>1, <2>2
<1>5. \A k \in Node : Settled(k)' <=> Settled(k) \/ (k = sel /\ currentweight[k] < MaxWeight)
    BY <1>0, <1>1 DEF Settled
<1>6. \A k \in Node : Waiting(k)' <=> Waiting(k) /\ k # sel
    BY <1>0, <1>1 DEF Waiting
<1>7. ASSUME sel \in Node
      PROVE  /\ Waiting(sel) /\ ~Settled(sel) /\ Settled(sel)'
             /\ \A v \in Node : Waiting(v) => currentweight[sel] <= currentweight[v]
             /\ \A u \in Node : Settled(u)' => currentweight[u] <= currentweight[sel]
    <2>1. sel \in Lightest
        BY <1>4, <1>7, SizesFacts
    <2>2. Waiting(sel) /\ \A v \in Node : Waiting(v) => currentweight[sel] <= currentweight[v]
        BY <2>1, LightestWaits
    <2>3. ~Settled(sel) /\ Settled(sel)'
        BY <1>5, <1>7, <2>2 DEF Waiting, Settled
    <2>4. ASSUME NEW u \in Node, Settled(u)' PROVE currentweight[u] <= currentweight[sel]
        <3>1. CASE u = sel
            BY <1>0, <1>7, <3>1
        <3>2. CASE u # sel
            BY <1>2, <1>5, <1>7, <2>2, <2>4, <3>2 DEF InOrder
        <3> QED BY <3>1, <3>2
    <2> QED BY <2>2, <2>3, <2>4
<1>8. StartStands'
    BY <1>1, <1>2 DEF StartStands, StartWeight
<1>9. LinksStand'
    BY <1>1, <1>2, <1>5 DEF LinksStand, IsEdge
<1>10. InOrder'
    <2> SUFFICES ASSUME NEW u \in Node, NEW v \in Node, Settled(u)', Waiting(v)'
                 PROVE  currentweight[u] <= currentweight[v]
        BY <1>1 DEF InOrder
    <2>1. Waiting(v) /\ v # sel
        BY <1>6
    <2>2. CASE u = sel
        BY <1>7, <2>1, <2>2
    <2>3. CASE u # sel
        BY <1>2, <1>5, <2>1, <2>3 DEF InOrder
    <2> QED BY <2>2, <2>3
<1>11. NoShorterWay'
    <2> SUFFICES ASSUME NEW u \in Node, NEW s \in Slot, Settled(u)', LookedAt(u, s)',
                        djInput.connections[u][s] \in Node
                 PROVE  currentweight[djInput.connections[u][s]] <= currentweight[u] + djInput.edges[u][s]
        BY <1>1 DEF NoShorterWay
    <2>1. s \in Nat
        BY DEF Slot
    <2>2. u # sel
        BY <1>1, <2>1 DEF LookedAt
    <2>3. Settled(u)
        BY <1>5, <2>2
    <2>4. LookedAt(u, s)
        BY <1>1 DEF LookedAt
    <2> QED BY <1>2, <2>3, <2>4 DEF NoShorterWay
<1>12. SelectedStands'
    <2> SUFFICES ASSUME sel \in Node
                 PROVE  /\ Settled(sel)' /\ selectedWeight' = currentweight[sel]
                        /\ \A u \in Node : Settled(u)' => currentweight[u] <= selectedWeight'
        BY <1>1 DEF SelectedStands, Settled
    <2>1. selectedWeight' = currentweight[sel]
        BY <1>1, SizesFacts
    <2> QED BY <1>7, <2>1
<1>13. WalksStand'
    <2>0. DjGiven /\ djI \in 0 .. Nodes - 1 /\ Reach' = Reach
        BY <1>0, <1>1, SameReach DEF DjTyped
    <2>1. ASSUME NEW k \in Node, Settled(k)'
          PROVE  Begun' > 0 /\ currentweight[k] - StartWeight \in Reach[Begun' - 1][k]
        <3>1. Begun' - 1 = djI /\ Begun' > 0
            BY <1>0, <1>3
        <3>2. CASE Settled(k)
            <4>1. djI > 0 /\ currentweight[k] - StartWeight \in Reach[djI - 1][k]
                BY <1>2, <1>3, <3>2 DEF WalksStand
            <4>2. djI - 1 \in 0 .. Nodes - 1 /\ (djI - 1) + 1 = djI
                BY <1>0, <1>1, <4>1
            <4>3. Reach[djI - 1][k] \subseteq Reach[(djI - 1) + 1][k]
                BY <2>0, <4>2, ReachGrows
            <4>4. currentweight[k] - StartWeight \in Reach[djI][k]
                BY <4>1, <4>2, <4>3
            <4> QED BY <3>1, <4>4
        <3>3. CASE ~Settled(k)
            <4>1. k = sel
                BY <1>5, <2>1, <3>3
            <4>2. currentweight[k] - StartWeight \in Reach[djI][k]
                BY <1>2, <1>3, <1>7, <4>1 DEF WalksStand
            <4> QED BY <3>1, <4>2
        <3> QED BY <3>2, <3>3
    <2>2. ASSUME NEW k \in Node, Waiting(k)'
          PROVE  currentweight[k] - StartWeight \in Reach[Begun'][k]
        <3>1. currentweight[k] - StartWeight \in Reach[djI][k]
            BY <1>2, <1>3, <1>6, <2>2 DEF WalksStand
        <3>2. Reach[djI][k] \subseteq Reach[djI + 1][k]
            BY <2>0, ReachGrows
        <3> QED BY <1>3, <3>1, <3>2
    <2>3. StartWeight' = StartWeight
        BY <1>1 DEF StartWeight
    <2> QED BY <1>1, <1>2, <2>0, <2>1, <2>2, <2>3 DEF WalksStand
<1>14. TurnsCount'
    <2>1. CASE sel \in Node
        <3>1. Cardinality(SettledNodes) = Begun
            BY <1>1, <1>2, <1>7, <2>1 DEF TurnsCount
        <3>2. SettledNodes' = SettledNodes \cup {sel}
            BY <1>5, <1>7, <2>1 DEF SettledNodes
        <3>3. sel \in Node \ SettledNodes
            BY <1>7, <2>1 DEF SettledNodes
        <3>4. Cardinality(SettledNodes \cup {sel}) = Cardinality(SettledNodes) + 1
            BY <3>3, NodesFinite
        <3> QED BY <1>3, <3>1, <3>2, <3>4 DEF TurnsCount
    <2>2. CASE Lightest = {} /\ sel = NoNode
        <3>1. \A k \in Node : ~Waiting(k)'
            BY <1>6, <2>2, LightestWaits
        <3> QED BY <1>1, <2>2, <3>1 DEF TurnsCount
    <2> QED BY <1>4, <2>1, <2>2
<1>15. NoneWaits'
    BY <1>1 DEF NoneWaits
<1> QED BY <1>8, <1>9, <1>10, <1>11, <1>12, <1>13, <1>14, <1>15 DEF SearchInv

\* An edge of the node selected last is looked at.
LEMMA RelaxSearch ==
    ASSUME DjTyped, Positive, SearchInv, Relax \/ NaiveRelax
    PROVE  SearchInv'
<1>0. /\ currentweight \in [Node -> 0 .. MaxWeight] /\ inqueue \in [Node -> BOOLEAN]
      /\ NodeLinks \in [Node -> Node \cup {NoNode}] /\ MaxWeight \in Nat /\ djI \in Nat /\ Nodes \in Nat
      /\ djI < Nodes /\ djJ \in Slot /\ DjGiven /\ djPc = "relax"
    BY SizesFacts, RelaxDoes DEF DjTyped, DjTypeOK, DjPlace
<1>1. /\ currentweight' = [k \in Node |-> IF Changes(k) THEN NewWeight ELSE currentweight[k]]
      /\ NodeLinks' = [k \in Node |-> IF Changes(k) THEN selectedNode ELSE NodeLinks[k]]
      /\ inqueue' = [k \in Node |-> inqueue[k] \/ Changes(k)]
      /\ UNCHANGED <<djNaive, djInput, selectedNode, selectedWeight>>
    BY RelaxDoes
<1>2. /\ djPc' \in {"select", "relax"}
      /\ djPc' = "relax" => djI' = djI /\ djJ' = djJ + 1
      /\ djPc' = "select" => djI' = djI + 1 /\ djJ + 1 = Edges /\ djJ' = 0
    BY RelaxDoes, NextEdgeDoes
<1>3. /\ StartStands /\ LinksStand /\ InOrder /\ NoShorterWay /\ SelectedStands
      /\ WalksStand /\ TurnsCount
    BY DEF SearchInv
<1>4. Begun = djI + 1 /\ Begun' = djI + 1
    BY <1>0, <1>2 DEF Begun
<1>p. PICK sel \in Node \cup {NoNode} : sel = selectedNode
    BY DEF DjTyped, DjTypeOK
<1>5. ASSUME NEW k \in Node, Changes(k)
      PROVE  /\ sel \in Node /\ djInput.connections[sel][djJ] = k
             /\ djInput.edges[sel][djJ] \in Nat /\ djInput.edges[sel][djJ] > 0
             /\ NewWeight = currentweight[sel] + djInput.edges[sel][djJ]
             /\ NewWeight \in 0 .. MaxWeight /\ NewWeight <= currentweight[k]
             /\ currentweight[sel] < NewWeight
             /\ Settled(sel) /\ ~Settled(k) /\ k # djInput.startnode /\ k # sel
             /\ selectedWeight = currentweight[sel]
    <2>1. /\ sel \in Node /\ djInput.connections[sel][djJ] = k
          /\ djInput.edges[sel][djJ] \in Nat
          /\ NewWeight = selectedWeight + djInput.edges[sel][djJ]
          /\ NewWeight <= currentweight[k] /\ NewWeight \in 0 .. MaxWeight
        BY <1>5, <1>p, ChangesIs
    <2>2. djInput.edges[sel][djJ] > 0
        BY <1>0, <2>1, SizesFacts DEF Positive
    <2>3. /\ Settled(sel) /\ selectedWeight = currentweight[sel]
          /\ \A u \in Node : Settled(u) => currentweight[u] <= selectedWeight
        BY <1>0, <1>3, <1>p, <2>1 DEF SelectedStands
    <2>4. /\ currentweight[sel] \in Nat /\ currentweight[k] \in Nat /\ NewWeight \in Nat
        BY <1>0, <2>1
    <2>5. currentweight[sel] < NewWeight
        BY <2>1, <2>2, <2>3, <2>4
    <2>6. ~Settled(k)
        <3>1. ~(currentweight[k] <= currentweight[sel])
            BY <2>1, <2>4, <2>5
        <3> QED BY <2>3, <3>1
    <2>7. k # djInput.startnode
        <3>1. StartWeight <= currentweight[sel] /\ currentweight[djInput.startnode] = StartWeight
            BY <1>3, <2>1 DEF StartStands
        <3>2. ~(currentweight[k] <= currentweight[sel])
            BY <2>1, <2>4, <2>5
        <3> QED BY <3>1, <3>2
    <2> QED BY <2>1, <2>2, <2>3, <2>5, <2>6, <2>7
<1>6. \A k \in Node : Settled(k)' <=> Settled(k)
    <2> TAKE k \in Node
    <2>1. CASE Changes(k)
        <3>1. ~Settled(k)
            BY <1>5, <2>1
        <3>2. inqueue'[k]
            BY <1>1, <2>1
        <3> QED BY <3>1, <3>2 DEF Settled
    <2>2. CASE ~Changes(k)
        BY <1>0, <1>1, <2>2 DEF Settled
    <2> QED BY <2>1, <2>2
<1>7. \A k \in Node : Settled(k) => ~Changes(k) /\ currentweight'[k] = currentweight[k]
    BY <1>1, <1>5
<1>8. \A k \in Node : /\ currentweight'[k] \in Nat /\ currentweight[k] \in Nat
                      /\ currentweight'[k] <= currentweight[k]
    <2> TAKE k \in Node
    <2>1. CASE Changes(k)
        BY <1>0, <1>1, <1>5, <2>1
    <2>2. CASE ~Changes(k)
        BY <1>0, <1>1, <2>2
    <2> QED BY <2>1, <2>2
<1>9. StartStands'
    <2>1. djInput.startnode \in Node /\ StartWeight' = StartWeight
        BY <1>0, <1>1, GraphTyped DEF StartWeight
    <2>2. ~Changes(djInput.startnode)
        BY <1>5, <2>1
    <2>3. /\ currentweight'[djInput.startnode] = StartWeight
          /\ NodeLinks'[djInput.startnode] = NoNode
        BY <1>1, <1>3, <2>1, <2>2 DEF StartStands
    <2>4. ASSUME NEW k \in Node PROVE StartWeight <= currentweight'[k]
        <3>1. CASE Changes(k)
            <4>1. /\ StartWeight <= currentweight[sel] /\ currentweight[sel] < NewWeight
                  /\ currentweight'[k] = NewWeight /\ currentweight[sel] \in Nat /\ NewWeight \in Nat
                BY <1>0, <1>1, <1>3, <1>5, <3>1 DEF StartStands
            <4> QED BY <4>1, SizesFacts
        <3>2. CASE ~Changes(k)
            BY <1>1, <1>3, <3>2 DEF StartStands
        <3> QED BY <3>1, <3>2
    <2> QED BY <1>1, <2>1, <2>3, <2>4 DEF StartStands
<1>10. LinksStand'
    <2> SUFFICES ASSUME NEW k \in Node, currentweight'[k] < MaxWeight, k # djInput.startnode
                 PROVE  \E u \in Node : /\ NodeLinks'[k] = u /\ Settled(u)
                                        /\ IsEdge(u, k, currentweight'[k] - currentweight[u])
        <3>1. ASSUME NEW k \in Node, currentweight'[k] < MaxWeight, k # djInput.startnode,
                     NEW u \in Node, NodeLinks'[k] = u, Settled(u),
                     IsEdge(u, k, currentweight'[k] - currentweight[u])
              PROVE  /\ NodeLinks'[k] \in Node /\ Settled(NodeLinks[k])'
                     /\ IsEdge(NodeLinks[k], k, currentweight[k] - currentweight[NodeLinks[k]])'
            <4>1. Settled(u)' /\ currentweight'[u] = currentweight[u]
                BY <1>6, <1>7, <3>1
            <4>2. Settled(NodeLinks[k])'
                BY <3>1, <4>1 DEF Settled
            <4> QED BY <1>1, <3>1, <4>1, <4>2 DEF IsEdge
        <3> QED BY <1>1, <3>1 DEF LinksStand
    <2>1. CASE Changes(k)
        <3>1. /\ NodeLinks'[k] = sel /\ currentweight'[k] = NewWeight
            BY <1>1, <1>p, <2>1
        <3>2. /\ sel \in Node /\ Settled(sel) /\ djInput.connections[sel][djJ] = k
              /\ NewWeight = currentweight[sel] + djInput.edges[sel][djJ]
              /\ djInput.edges[sel][djJ] \in Nat
            BY <1>5, <2>1
        <3>3. NewWeight - currentweight[sel] = djInput.edges[sel][djJ]
            BY <1>8, <3>2
        <3>4. IsEdge(sel, k, NewWeight - currentweight[sel])
            BY <1>0, <3>2, <3>3 DEF IsEdge
        <3> QED BY <3>1, <3>2, <3>4
    <2>2. CASE ~Changes(k)
        <3>1. NodeLinks'[k] = NodeLinks[k] /\ currentweight'[k] = currentweight[k]
            BY <1>1, <2>2
        <3> QED BY <1>3, <3>1 DEF LinksStand
    <2> QED BY <2>1, <2>2
<1>11. InOrder'
    <2> SUFFICES ASSUME NEW u \in Node, NEW v \in Node, Settled(u), Waiting(v)'
                 PROVE  currentweight[u] <= currentweight'[v]
        BY <1>6, <1>7 DEF InOrder
    <2>1. CASE Changes(v)
        <3>1. currentweight[u] <= selectedWeight
            BY <1>0, <1>3, <1>5, <1>p, <2>1 DEF SelectedStands
        <3>2. selectedWeight = currentweight[sel] /\ currentweight[sel] < NewWeight /\ currentweight'[v] = NewWeight
            BY <1>1, <1>5, <2>1
        <3>3. currentweight[u] \in Nat /\ currentweight[sel] \in Nat /\ NewWeight \in Nat
            BY <1>5, <1>8, <2>1
        <3> QED BY <3>1, <3>2, <3>3
    <2>2. CASE ~Changes(v)
        <3>1. Waiting(v) /\ currentweight'[v] = currentweight[v]
            BY <1>0, <1>1, <2>2 DEF Waiting
        <3> QED BY <1>3, <3>1 DEF InOrder
    <2> QED BY <2>1, <2>2
<1>12. NoShorterWay'
    <2> SUFFICES ASSUME NEW u \in Node, NEW s \in Slot, Settled(u), LookedAt(u, s)',
                        djInput.connections[u][s] \in Node
                 PROVE  currentweight'[djInput.connections[u][s]] <= currentweight[u] + djInput.edges[u][s]
        BY <1>1, <1>6, <1>7 DEF NoShorterWay
    <2>0. PICK v \in Node : v = djInput.connections[u][s]
        OBVIOUS
    <2>w. PICK w \in Nat : w = djInput.edges[u][s]
        BY <1>0, GraphTyped
    <2>1. CASE LookedAt(u, s)
        <3>1. currentweight[v] <= currentweight[u] + w
            BY <1>3, <2>0, <2>w, <2>1 DEF NoShorterWay
        <3> QED BY <1>8, <2>0, <2>w, <3>1
    <2>2. CASE ~LookedAt(u, s)
        <3>1. u = sel /\ ~(s < djJ)
            BY <1>0, <1>p, <2>2 DEF LookedAt
        <3>2. s = djJ
            <4>1. s \in Nat /\ djJ \in Nat /\ s < Edges /\ Edges \in Nat
                BY <1>0, SizesFacts DEF Slot
            <4>2. CASE djPc' = "relax"
                <5>1. s < djJ + 1
                    BY <1>1, <1>2, <1>p, <3>1, <4>2 DEF LookedAt
                <5> QED BY <3>1, <4>1, <5>1
            <4>3. CASE djPc' = "select"
                <5>1. djJ + 1 = Edges
                    BY <1>2, <4>3
                <5> QED BY <3>1, <4>1, <5>1
            <4> QED BY <1>2, <4>2, <4>3
        <3>3. selectedWeight = currentweight[sel]
            BY <1>0, <1>3, <1>p, <3>1 DEF SelectedStands
        <3>4. v = Connection /\ NewWeight = currentweight[u] + w
            BY <1>p, <2>0, <2>w, <3>1, <3>2, <3>3, SizesFacts DEF Connection, NewWeight
        <3>5. CASE Changes(v)
            <4>1. currentweight'[v] = NewWeight
                BY <1>1, <3>5
            <4> QED BY <1>8, <2>0, <2>w, <3>4, <4>1
        <3>6. CASE ~Changes(v)
            <4>1. currentweight'[v] = currentweight[v] /\ currentweight[v] < NewWeight
                BY <1>1, <3>4, <3>6 DEF Changes, Keeps
            <4>2. currentweight[v] \in Nat /\ currentweight[u] \in Nat
                BY <1>8
            <4> QED BY <2>0, <2>w, <3>4, <4>1, <4>2
        <3> QED BY <3>5, <3>6
    <2> QED BY <2>1, <2>2
<1>13. SelectedStands'
    <2> SUFFICES ASSUME sel \in Node, djPc' = "relax"
                 PROVE  /\ Settled(sel) /\ selectedWeight = currentweight[sel]
                        /\ \A u \in Node : Settled(u) => currentweight[u] <= selectedWeight
        <3>1. ASSUME sel \in Node, Settled(sel), selectedWeight = currentweight[sel],
                     \A u \in Node : Settled(u) => currentweight[u] <= selectedWeight
              PROVE  /\ Settled(selectedNode)' /\ selectedWeight' = currentweight'[selectedNode']
                     /\ \A u \in Node : Settled(u)' => currentweight'[u] <= selectedWeight'
            <4>1. Settled(sel)' /\ currentweight'[sel] = currentweight[sel]
                BY <1>6, <1>7, <3>1
            <4>2. selectedNode' = sel /\ selectedWeight' = selectedWeight
                BY <1>1, <1>p
            <4>3. Settled(selectedNode)'
                BY <4>1, <4>2 DEF Settled
            <4> QED BY <1>6, <1>7, <3>1, <4>1, <4>2, <4>3
        <3> QED BY <1>1, <1>p, <3>1 DEF SelectedStands
    <2> QED BY <1>0, <1>3, <1>p DEF SelectedStands
<1>14. SettledNodes' = SettledNodes
    BY <1>6 DEF SettledNodes
<1>15. ASSUME NEW v \in Node, Changes(v)
       PROVE  /\ Cardinality(SettledNodes) = djI + 1 /\ djI + 1 <= Nodes - 1
              /\ NewWeight - StartWeight \in Reach[djI + 1][v]
    <2>1. Cardinality(SettledNodes) = djI + 1
        BY <1>0, <1>3, <1>4, <1>5, <1>15, <1>p, SizesFacts DEF TurnsCount
    <2>2. v \in Node \ SettledNodes
        BY <1>5, <1>15 DEF SettledNodes
    <2>3. djI + 1 < Nodes
        BY <2>1, <2>2, NodesFinite
    <2>4. currentweight[sel] - StartWeight \in Reach[djI][sel]
        <3>1. (djI + 1) - 1 = djI
            BY <1>0
        <3> QED BY <1>3, <1>4, <1>5, <1>15, <3>1 DEF WalksStand
    <2>5. (currentweight[sel] - StartWeight) + djInput.edges[sel][djJ] \in Reach[djI + 1][v]
        <3>1. djI \in 0 .. Nodes - 1 /\ djInput.connections[sel][djJ] = v /\ sel \in Node
            BY <1>0, <1>5, <1>15
        <3> QED BY <1>0, <2>4, <3>1, ReachEdge
    <2>6. NewWeight - StartWeight = (currentweight[sel] - StartWeight) + djInput.edges[sel][djJ]
        <3>1. /\ currentweight[sel] \in Nat /\ djInput.edges[sel][djJ] \in Nat /\ StartWeight \in Nat
              /\ NewWeight = currentweight[sel] + djInput.edges[sel][djJ]
            BY <1>5, <1>8, <1>15, SizesFacts
        <3> QED BY <3>1
    <2> QED BY <1>0, <2>1, <2>3, <2>5, <2>6
<1>16. WalksStand'
    <2>0. StartWeight' = StartWeight /\ Reach' = Reach
        BY <1>1, SameReach DEF StartWeight
    <2>1. ASSUME NEW k \in Node, Settled(k)'
          PROVE  Begun' > 0 /\ currentweight'[k] - StartWeight \in Reach[Begun' - 1][k]
        BY <1>3, <1>4, <1>6, <1>7, <2>1 DEF WalksStand
    <2>2. ASSUME NEW k \in Node, Waiting(k)'
          PROVE  currentweight'[k] - StartWeight \in Reach[Begun'][k]
        <3>1. CASE Changes(k)
            BY <1>1, <1>4, <1>15, <3>1
        <3>2. CASE ~Changes(k)
            <4>1. Waiting(k) /\ currentweight'[k] = currentweight[k]
                BY <1>0, <1>1, <2>2, <3>2 DEF Waiting
            <4> QED BY <1>3, <1>4, <4>1 DEF WalksStand
        <3> QED BY <3>1, <3>2
    <2>3. ASSUME NEW k \in Node, NodeLinks'[k] # NoNode PROVE Reach[Nodes - 1][k] # {}
        <3>1. CASE Changes(k)
            <4>1. NewWeight - StartWeight \in Reach[djI + 1][k] /\ djI + 1 <= Nodes - 1
                BY <1>15, <3>1
            <4>2. Reach[djI + 1][k] \subseteq Reach[Nodes - 1][k]
                BY <1>0, <4>1, ReachMonotone
            <4> QED BY <4>1, <4>2
        <3>2. CASE ~Changes(k)
            <4>1. NodeLinks[k] # NoNode
                BY <1>1, <2>3, <3>2
            <4> QED BY <1>3, <4>1 DEF WalksStand
        <3> QED BY <3>1, <3>2
    <2> QED BY <2>0, <2>1, <2>2, <2>3 DEF WalksStand
<1>17. TurnsCount'
    <2>1. CASE Cardinality(SettledNodes) = Begun
        BY <1>4, <1>14, <2>1 DEF TurnsCount
    <2>2. CASE Cardinality(SettledNodes) # Begun
        <3>1. (\A k \in Node : ~Waiting(k)) /\ sel = NoNode
            BY <1>0, <1>3, <1>p, <2>2 DEF TurnsCount
        <3>2. \A k \in Node : ~Changes(k)
            BY <1>5, <3>1, SizesFacts
        <3>3. \A k \in Node : ~Waiting(k)'
            BY <1>0, <1>1, <3>1, <3>2 DEF Waiting
        <3>4. selectedNode' = NoNode
            BY <1>1, <1>p, <3>1
        <3> QED BY <3>3, <3>4 DEF TurnsCount
    <2> QED BY <2>1, <2>2
<1>18. NoneWaits'
    BY <1>2 DEF NoneWaits
<1> QED BY <1>9, <1>10, <1>11, <1>12, <1>13, <1>16, <1>17, <1>18 DEF SearchInv

\* The iterations are over.
LEMMA TurnSearch ==
    ASSUME DjTyped, SearchInv, Turn
    PROVE  SearchInv'
<1>1. /\ djPc = "select" /\ djI = Nodes /\ djPc' = "trace" /\ Begun = Nodes /\ Begun' = Nodes
      /\ UNCHANGED <<djNaive, djInput, currentweight, inqueue, NodeLinks>>
    BY DEF Turn, Begun
<1>2. /\ StartStands /\ LinksStand /\ InOrder /\ NoShorterWay /\ WalksStand /\ TurnsCount
    BY DEF SearchInv
<1>3. /\ \A k : (Settled(k)' <=> Settled(k)) /\ (Waiting(k)' <=> Waiting(k))
      /\ SettledNodes' = SettledNodes /\ Reach' = Reach /\ StartWeight' = StartWeight
    BY <1>1, SameReach DEF Settled, Waiting, SettledNodes, StartWeight
<1>4. \A k \in Node : ~Waiting(k)
    <2>1. CASE Cardinality(SettledNodes) = Begun
        <3>1. \A k \in Node : k \in SettledNodes
            BY <1>1, <2>1, NodesFinite, SizesFacts
        <3> QED BY <3>1 DEF SettledNodes, Settled, Waiting
    <2>2. CASE Cardinality(SettledNodes) # Begun
        BY <1>2, <2>2 DEF TurnsCount
    <2> QED BY <2>1, <2>2
<1>5. StartStands' /\ InOrder' /\ SelectedStands' /\ NoneWaits'
    BY <1>1, <1>2, <1>3, <1>4 DEF StartStands, InOrder, SelectedStands, NoneWaits
<1>6. LinksStand'
    BY <1>1, <1>2 DEF LinksStand, Settled, IsEdge
<1>7. NoShorterWay'
    BY <1>1, <1>2, <1>3 DEF NoShorterWay, LookedAt
<1>8. WalksStand'
    BY <1>1, <1>2, <1>3 DEF WalksStand
<1>9. TurnsCount'
    BY <1>1, <1>3, <1>4 DEF TurnsCount
<1> QED BY <1>5, <1>6, <1>7, <1>8, <1>9 DEF SearchInv

\* Once the search has ended its outcome stays.
LEMMA StaySearch ==
    ASSUME SearchInv,
           UNCHANGED <<djNaive, djInput, currentweight, inqueue, NodeLinks, selectedNode, selectedWeight>>,
           \/ djPc \in {"trace", "done"} /\ djPc' \in {"trace", "done"}
           \/ UNCHANGED <<djPc, djI, djJ>>
    PROVE  SearchInv'
<1>1. /\ StartStands /\ LinksStand /\ InOrder /\ NoShorterWay /\ SelectedStands
      /\ WalksStand /\ TurnsCount /\ NoneWaits
    BY DEF SearchInv
<1>2. Begun' = Begun /\ Reach' = Reach /\ StartWeight' = StartWeight
    BY SameReach DEF Begun, StartWeight
<1>3. /\ \A k : (Settled(k)' <=> Settled(k)) /\ (Waiting(k)' <=> Waiting(k))
      /\ SettledNodes' = SettledNodes
    BY DEF Settled, Waiting, SettledNodes
<1>4. StartStands' /\ InOrder' /\ SelectedStands' /\ NoneWaits'
    <2>1. Settled(selectedNode)' <=> Settled(selectedNode)
        BY DEF Settled
    <2> QED BY <1>1, <1>2, <1>3, <2>1 DEF StartStands, InOrder, SelectedStands, NoneWaits
<1>5. LinksStand'
    BY <1>1 DEF LinksStand, Settled, IsEdge
<1>6. NoShorterWay'
    BY <1>1, <1>3 DEF NoShorterWay, LookedAt
<1>7. WalksStand'
    BY <1>1, <1>2, <1>3 DEF WalksStand
<1>8. TurnsCount'
    BY <1>1, <1>2, <1>3 DEF TurnsCount
<1> QED BY <1>4, <1>5, <1>6, <1>7, <1>8 DEF SearchInv

\* The same, of all graphs.
LEMMA DjSearchInit == DjGiven /\ DjStart => DjSearchInv
BY DjTypedInit, SearchInit DEF DjSearchInv

\* Every step keeps the invariant of the search.
LEMMA DjSearchStep == DjSearchInv /\ [DjNext]_djVars => DjSearchInv'
<1> SUFFICES ASSUME DjSearchInv, [DjNext]_djVars PROVE DjSearchInv'
    OBVIOUS
<1>1. DjTyped /\ DjTyped'
    BY DjTypedStep DEF DjSearchInv
<1>2. djInput' = djInput
    BY DEF DjNext, djVars, Select, Relax, NaiveRelax, Turn, Trace
<1>3. SUFFICES ASSUME Positive PROVE SearchInv'
    BY <1>1, <1>2 DEF DjSearchInv, Positive
<1>4. SearchInv
    BY <1>3 DEF DjSearchInv
<1>5. CASE Select
    BY <1>1, <1>4, <1>5, SelectSearch
<1>6. CASE Relax \/ NaiveRelax
    BY <1>1, <1>3, <1>4, <1>6, RelaxSearch
<1>7. CASE Turn
    BY <1>1, <1>4, <1>7, TurnSearch
<1>8. CASE Trace
    BY <1>4, <1>8, StaySearch DEF Trace
<1>9. CASE UNCHANGED djVars
    BY <1>4, <1>9, StaySearch DEF djVars
<1> QED BY <1>5, <1>6, <1>7, <1>8, <1>9 DEF DjNext

-----------------------------------------------------------------------------
(* The path.                                                               *)

\* The first l places hold the nodes found from the end backwards, each the
\* link of the one before it, and the rest is empty.
ReadTo(l) ==
    /\ \A k \in Node : IF k < l THEN Paths[k] \in Node ELSE Paths[k] = NoNode
    /\ l > 0 => Paths[0] = djInput.endnode
    /\ \A k \in Node : k + 1 < l => Paths[k + 1] = NodeLinks[Paths[k]]

\* The node to look for next is the link of the last one found, until there is
\* none.
NextFrom(l) ==
    IF nodeToGet \in Node
    THEN l = djI /\ nodeToGet = (IF l = 0 THEN djInput.endnode ELSE NodeLinks[Paths[l - 1]])
    ELSE l > 0 /\ NodeLinks[Paths[l - 1]] = NoNode

\* What has been read off the links so far is a way back from the end.
TraceInv ==
    IF djPc \in {"select", "relax"} THEN \A k \in Node : Paths[k] = NoNode
    ELSE \E l \in 0 .. djI : ReadTo(l) /\ NextFrom(l)

\* Before the reading there is nothing to hold.
LEMMA TraceInit == DjGiven /\ DjStart => TraceInv
BY DEF DjStart, TraceInv

\* Every step keeps what has been read a way back from the end.
LEMMA TraceStep == DjTyped /\ TraceInv /\ [DjNext]_djVars => TraceInv'
<1> SUFFICES ASSUME DjTyped, TraceInv, [DjNext]_djVars PROVE TraceInv'
    OBVIOUS
<1>1. CASE Select
    BY <1>1 DEF Select, TraceInv
<1>2. CASE Relax \/ NaiveRelax
    <2>1. djPc = "relax" /\ NextEdge /\ Paths' = Paths
        BY <1>2, RelaxDoes
    <2>2. djPc' \in {"select", "relax"}
        BY <2>1, NextEdgeDoes
    <2> QED BY <2>1, <2>2 DEF TraceInv
<1>3. CASE Turn
    <2>1. /\ djPc = "select" /\ djPc' = "trace" /\ djI' = 0 /\ nodeToGet' = djInput.endnode
          /\ UNCHANGED <<djInput, NodeLinks, Paths>>
        BY <1>3 DEF Turn
    <2>2. djInput.endnode \in Node
        BY GraphTyped DEF DjTyped
    <2>3. ReadTo(0)'
        BY <2>1, SizesFacts DEF TraceInv, ReadTo, Node
    <2>4. NextFrom(0)'
        BY <2>1, <2>2 DEF NextFrom
    <2> QED BY <2>1, <2>3, <2>4 DEF TraceInv
<1>4. CASE Trace
    <2>0. /\ djPc = "trace" /\ djI < Nodes /\ djI' = djI + 1 /\ djPc' \in {"trace", "done"}
          /\ UNCHANGED <<djInput, NodeLinks>> /\ djI \in Nat /\ djI \in Node
          /\ Paths \in [Node -> Node \cup {NoNode}] /\ nodeToGet \in Node \cup {NoNode}
        BY <1>4, SizesFacts DEF Trace, DjTyped, DjTypeOK, Node
    <2>1. PICK l \in 0 .. djI : ReadTo(l) /\ NextFrom(l)
        BY <2>0 DEF TraceInv
    <2>2. CASE nodeToGet \in Node
        <3>1. /\ Paths' = [Paths EXCEPT ![djI] = nodeToGet]
              /\ nodeToGet' = NodeLinks[nodeToGet]
            BY <1>4, <2>2 DEF Trace, StepBack
        <3>2. l = djI /\ nodeToGet = (IF l = 0 THEN djInput.endnode ELSE NodeLinks[Paths[l - 1]])
            BY <2>1, <2>2 DEF NextFrom
        <3>3. PICK m \in 0 .. djI' : m = djI + 1
            BY <2>0
        <3>4. \A k \in Node : Paths'[k] = IF k = djI THEN nodeToGet ELSE Paths[k]
            BY <2>0, <3>1
        <3>5. \A k \in Node : IF k < m THEN Paths'[k] \in Node ELSE Paths'[k] = NoNode
            <4> TAKE k \in Node
            <4>1. k \in Nat
                BY SizesFacts
            <4>2. CASE k = djI
                BY <2>0, <2>2, <3>3, <3>4, <4>1, <4>2
            <4>3. CASE k # djI
                <5>1. k < m <=> k < l
                    BY <2>0, <3>2, <3>3, <4>1, <4>3
                <5> QED BY <2>1, <3>4, <4>3, <5>1 DEF ReadTo
            <4> QED BY <4>2, <4>3
        <3>6. Paths'[0] = djInput.endnode
            <4>1. 0 \in Node
                BY SizesFacts
            <4>2. CASE djI = 0
                BY <3>2, <3>4, <4>1, <4>2
            <4>3. CASE djI # 0
                BY <2>0, <2>1, <3>2, <3>4, <4>1, <4>3 DEF ReadTo
            <4> QED BY <4>2, <4>3
        <3>7. ASSUME NEW k \in Node, k + 1 < m PROVE Paths'[k + 1] = NodeLinks[Paths'[k]]
            <4>1. k \in Nat /\ k + 1 \in Node /\ k # djI /\ k + 1 <= djI
                BY <2>0, <3>3, <3>7, SizesFacts DEF Node
            <4>2. Paths'[k] = Paths[k]
                BY <3>4, <4>1
            <4>3. CASE k + 1 = djI
                <5>1. l - 1 = k /\ l # 0
                    BY <2>0, <3>2, <4>1, <4>3
                <5> QED BY <3>2, <3>4, <4>1, <4>2, <4>3, <5>1
            <4>4. CASE k + 1 # djI
                <5>1. k + 1 < l
                    BY <2>0, <3>2, <4>1, <4>4
                <5> QED BY <2>1, <3>4, <4>1, <4>2, <4>4, <5>1 DEF ReadTo
            <4> QED BY <4>3, <4>4
        <3>8. ReadTo(m)'
            BY <2>0, <3>5, <3>6, <3>7 DEF ReadTo
        <3>9. NextFrom(m)'
            <4>1. m > 0 /\ m - 1 = djI /\ Paths'[m - 1] = nodeToGet
                BY <2>0, <3>3, <3>4
            <4>2. nodeToGet' = NodeLinks[Paths'[m - 1]] /\ nodeToGet' \in Node \cup {NoNode}
                BY <2>2, <3>1, <4>1 DEF DjTyped, DjTypeOK
            <4> QED BY <2>0, <3>3, <4>1, <4>2 DEF NextFrom
        <3> QED BY <2>0, <3>8, <3>9 DEF TraceInv
    <2>3. CASE nodeToGet \notin Node
        <3>1. Paths' = Paths /\ nodeToGet' = nodeToGet
            BY <1>4, <2>3 DEF Trace
        <3>2. ReadTo(l)' /\ NextFrom(l)' /\ l \in 0 .. djI'
            BY <2>0, <2>1, <2>3, <3>1 DEF ReadTo, NextFrom
        <3> QED BY <2>0, <3>2 DEF TraceInv
    <2> QED BY <2>2, <2>3
<1>5. CASE UNCHANGED djVars
    BY <1>5 DEF djVars, TraceInv, ReadTo, NextFrom
<1> QED BY <1>1, <1>2, <1>3, <1>4, <1>5 DEF DjNext

\* No walk is lighter than the weight a node ends with.
LEMMA NoLighterWalk ==
    ASSUME DjTyped, SearchInv, djPc \in {"trace", "done"}, NEW n \in Nat, n <= Nodes,
           NEW k \in Node, NEW d \in Reach[n][k]
    PROVE  currentweight[k] <= d + StartWeight
<1>0. /\ currentweight \in [Node -> 0 .. MaxWeight] /\ DjGiven
      /\ \A m \in 0 .. Nodes : Reach[m] \in [Node -> SUBSET Nat]
    BY ReachRecurs DEF DjTyped, DjTypeOK
<1> DEFINE S == {m \in Nat : m <= Nodes =>
                     \A x \in Node : \A e \in Reach[m][x] : currentweight[x] <= e + StartWeight}
<1>1. 0 \in S
    <2>1. ASSUME NEW x \in Node, NEW e \in Reach[0][x] PROVE currentweight[x] <= e + StartWeight
        <3>1. Reach[0][x] = IF x = djInput.startnode THEN {0} ELSE {}
            BY <1>0, ReachRecurs DEF ReachFirst
        <3>2. x = djInput.startnode /\ e = 0
            BY <2>1, <3>1
        <3>3. currentweight[x] = StartWeight
            BY <3>2 DEF SearchInv, StartStands
        <3> QED BY <3>2, <3>3, SizesFacts
    <2> QED BY <2>1
<1>2. ASSUME NEW m \in Nat, m \in S PROVE m + 1 \in S
    <2>1. SUFFICES ASSUME m + 1 <= Nodes, NEW x \in Node, NEW e \in Reach[m + 1][x]
                   PROVE  currentweight[x] <= e + StartWeight
        OBVIOUS
    <2>2. m \in 0 .. Nodes - 1
        BY <2>1, SizesFacts
    <2>3. \A y \in Node : \A c \in Reach[m][y] : currentweight[y] <= c + StartWeight
        BY <1>2, <2>2, SizesFacts
    <2>4. CASE e \in Reach[m][x]
        BY <2>3, <2>4
    <2>5. CASE e \notin Reach[m][x]
        <3>1. PICK u \in Node, s \in Slot :
                  djInput.connections[u][s] = x /\ \E c \in Reach[m][u] : e = c + djInput.edges[u][s]
            BY <1>0, <2>1, <2>2, <2>5, ReachBack
        <3>2. PICK c \in Reach[m][u] : e = c + djInput.edges[u][s]
            BY <3>1
        <3>3. PICK w \in Nat : w = djInput.edges[u][s]
            BY <1>0, GraphTyped
        <3>4. c \in Nat
            <4>1. Reach[m] \in [Node -> SUBSET Nat]
                BY <1>0, <2>2, SizesFacts
            <4> QED BY <4>1
        <3>5. currentweight[u] <= c + StartWeight
            BY <2>3
        <3>6. currentweight[u] \in 0 .. MaxWeight /\ currentweight[x] \in 0 .. MaxWeight
            BY <1>0
        <3>7. CASE currentweight[u] < MaxWeight
            <4>1. ~Waiting(u) /\ Settled(u)
                BY <3>7 DEF SearchInv, NoneWaits, Settled, Waiting
            <4>2. LookedAt(u, s)
                BY DEF LookedAt
            <4>3. currentweight[x] <= currentweight[u] + w
                BY <3>1, <3>3, <4>1, <4>2 DEF SearchInv, NoShorterWay
            <4> QED BY <3>2, <3>3, <3>4, <3>5, <3>6, <4>3, SizesFacts
        <3>8. CASE ~(currentweight[u] < MaxWeight)
            BY <3>2, <3>3, <3>4, <3>5, <3>6, <3>8, SizesFacts
        <3> QED BY <3>7, <3>8
    <2> QED BY <2>4, <2>5
<1> HIDE DEF S
<1>3. Nat \subseteq S
    BY <1>1, <1>2, NatInductive
<1> QED BY <1>3 DEF S

\* The weight a node ends with is its distance, as far as it was looked for.
LEMMA WeightIsDistance ==
    ASSUME DjTyped, SearchInv, djPc \in {"trace", "done"}, NEW k \in Node
    PROVE  /\ Distance(k) \in Nat
           /\ currentweight[k] = IF Distance(k) + StartWeight < MaxWeight
                                 THEN Distance(k) + StartWeight ELSE MaxWeight
<1> DEFINE D == Reach[Nodes - 1][k] \cup {MaxWeight}
           d == Distance(k)
<1>0. Nodes - 1 \in 0 .. Nodes /\ Nodes - 1 \in Nat
    BY SizesFacts
<1>1. currentweight[k] \in 0 .. MaxWeight /\ Reach[Nodes - 1][k] \in SUBSET Nat
    BY <1>0, ReachRecurs DEF DjTyped, DjTypeOK
<1>2. d \in D /\ \A e \in D : d <= e
    <2>1. d = CHOOSE x \in D : \A e \in D : x <= e
        BY DEF Distance
    <2>2. D \in SUBSET Nat /\ D # {}
        BY <1>1, SizesFacts
    <2> HIDE DEF D, d
    <2>3. \E x \in D : \A e \in D : x <= e
        BY <2>2, LeastOf
    <2> QED BY <2>1, <2>3
<1>3. d \in Nat
    BY <1>1, <1>2, SizesFacts
<1>4. currentweight[k] < MaxWeight => currentweight[k] - StartWeight \in D
    <2>1. ASSUME currentweight[k] < MaxWeight PROVE currentweight[k] - StartWeight \in Reach[Nodes - 1][k]
        <3>1. Settled(k)
            BY <2>1 DEF SearchInv, NoneWaits, Settled, Waiting
        <3>2. Begun = Nodes
            BY DEF Begun
        <3> QED BY <3>1, <3>2 DEF SearchInv, WalksStand
    <2> QED BY <2>1
<1>5. d \in Reach[Nodes - 1][k] => currentweight[k] <= d + StartWeight
    BY <1>0, NoLighterWalk, SizesFacts
<1>6. d \in Reach[Nodes - 1][k] \/ d = MaxWeight
    BY <1>2
<1> HIDE DEF d
<1>7. StartWeight \in Nat /\ MaxWeight \in Nat /\ StartWeight <= currentweight[k]
    BY SizesFacts DEF SearchInv, StartStands
<1>8. CASE currentweight[k] < MaxWeight
    <2>1. d <= currentweight[k] - StartWeight
        BY <1>2, <1>4, <1>8
    <2>2. d # MaxWeight
        BY <1>1, <1>3, <1>7, <1>8, <2>1
    <2>3. currentweight[k] = d + StartWeight
        BY <1>1, <1>3, <1>5, <1>6, <1>7, <2>1, <2>2
    <2> QED BY <1>3, <1>8, <2>3 DEF d
<1>9. CASE ~(currentweight[k] < MaxWeight)
    <2>1. currentweight[k] = MaxWeight
        BY <1>1, <1>7, <1>9
    <2>2. ~(d + StartWeight < MaxWeight)
        BY <1>1, <1>3, <1>5, <1>6, <1>7, <2>1
    <2> QED BY <1>3, <2>1, <2>2 DEF d
<1> QED BY <1>8, <1>9

\* The links of a reached node lead to the start in no more steps than there
\* are nodes: their weights fall, so that no node comes twice.
LEMMA PathToStart ==
    ASSUME DjTyped, Positive, SearchInv, djPc = "done", NEW l \in 0 .. Nodes, l > 0, ReadTo(l), NextFrom(l),
           currentweight[djInput.endnode] < MaxWeight
    PROVE  /\ Paths[l - 1] = djInput.startnode
           /\ \A k \in 1 .. l - 1 :
                 IsEdge(Paths[k], Paths[k - 1], currentweight[Paths[k - 1]] - currentweight[Paths[k]])
<1>0. /\ currentweight \in [Node -> 0 .. MaxWeight] /\ DjGiven /\ djI = Nodes
      /\ StartStands /\ LinksStand
    BY DEF DjTyped, DjTypeOK, DjPlace, SearchInv
<1>n. \A y \in Node : currentweight[y] \in Nat
    BY <1>0, SizesFacts
<1>1. \A k \in Nat : k < l => k \in Node /\ Paths[k] \in Node
    <2> TAKE k \in Nat
    <2> HAVE k < l
    <2>1. k \in Node
        BY SizesFacts DEF Node
    <2> QED BY <2>1 DEF ReadTo
<1>2. ASSUME NEW k \in Nat, k + 1 < l, currentweight[Paths[k]] < MaxWeight
      PROVE  /\ Paths[k] # djInput.startnode
             /\ IsEdge(Paths[k + 1], Paths[k], currentweight[Paths[k]] - currentweight[Paths[k + 1]])
             /\ currentweight[Paths[k + 1]] < currentweight[Paths[k]]
    <2>1. k \in Node /\ Paths[k] \in Node /\ Paths[k + 1] \in Node /\ Paths[k + 1] = NodeLinks[Paths[k]]
        BY <1>1, <1>2 DEF ReadTo
    <2>2. Paths[k] # djInput.startnode
        BY <1>0, <2>1, SizesFacts DEF StartStands
    <2>3. IsEdge(Paths[k + 1], Paths[k], currentweight[Paths[k]] - currentweight[Paths[k + 1]])
        BY <1>0, <1>2, <2>1, <2>2 DEF LinksStand
    <2>4. PICK s \in Slot : /\ djInput.connections[Paths[k + 1]][s] = Paths[k]
                            /\ djInput.edges[Paths[k + 1]][s] = currentweight[Paths[k]] - currentweight[Paths[k + 1]]
        BY <2>3 DEF IsEdge
    <2>5. currentweight[Paths[k]] - currentweight[Paths[k + 1]] > 0
        BY <2>1, <2>4, SizesFacts DEF Positive
    <2>6. currentweight[Paths[k]] \in Nat /\ currentweight[Paths[k + 1]] \in Nat
        BY <1>n, <2>1
    <2> QED BY <2>2, <2>3, <2>5, <2>6
<1>3. \A k \in Nat : k < l => currentweight[Paths[k]] < MaxWeight
    <2> DEFINE S == {k \in Nat : k < l => currentweight[Paths[k]] < MaxWeight}
    <2>1. 0 \in S
        BY DEF ReadTo
    <2>2. ASSUME NEW k \in Nat, k \in S PROVE k + 1 \in S
        <3>1. SUFFICES ASSUME k + 1 < l PROVE currentweight[Paths[k + 1]] < MaxWeight
            OBVIOUS
        <3>2. k < l
            BY <3>1
        <3>3. currentweight[Paths[k]] < MaxWeight
            BY <2>2, <3>2
        <3>4. currentweight[Paths[k + 1]] < currentweight[Paths[k]]
            BY <1>2, <3>1, <3>3
        <3>5. currentweight[Paths[k]] \in Nat /\ currentweight[Paths[k + 1]] \in Nat
            BY <1>0, <1>1, <3>1, <3>2
        <3> QED BY <3>3, <3>4, <3>5, SizesFacts
    <2> HIDE DEF S
    <2>3. Nat \subseteq S
        BY <2>1, <2>2, NatInductive
    <2> QED BY <2>3 DEF S
<1>4. \A i, j \in Nat : i < j /\ j < l => currentweight[Paths[j]] < currentweight[Paths[i]]
    <2> SUFFICES ASSUME NEW i \in Nat
                 PROVE  \A j \in Nat : i < j /\ j < l => currentweight[Paths[j]] < currentweight[Paths[i]]
        OBVIOUS
    <2> DEFINE S == {j \in Nat : i < j /\ j < l => currentweight[Paths[j]] < currentweight[Paths[i]]}
    <2>1. 0 \in S
        OBVIOUS
    <2>2. ASSUME NEW j \in Nat, j \in S PROVE j + 1 \in S
        <3>1. SUFFICES ASSUME i < j + 1, j + 1 < l
                       PROVE  currentweight[Paths[j + 1]] < currentweight[Paths[i]]
            OBVIOUS
        <3>2. j < l /\ currentweight[Paths[j]] < MaxWeight
            BY <1>3, <3>1
        <3>3. currentweight[Paths[j + 1]] < currentweight[Paths[j]]
            BY <1>2, <3>1, <3>2
        <3>4. /\ currentweight[Paths[i]] \in Nat /\ currentweight[Paths[j]] \in Nat
              /\ currentweight[Paths[j + 1]] \in Nat
            BY <1>0, <1>1, <3>1, <3>2
        <3>5. CASE i = j
            BY <3>3, <3>5
        <3>6. CASE i # j
            <4>1. i < j
                BY <3>1, <3>6
            <4>2. currentweight[Paths[j]] < currentweight[Paths[i]]
                BY <2>2, <3>2, <4>1
            <4> QED BY <3>3, <3>4, <4>2
        <3> QED BY <3>5, <3>6
    <2> HIDE DEF S
    <2>3. Nat \subseteq S
        BY <2>1, <2>2, NatInductive
    <2> QED BY <2>3 DEF S
<1>5. Paths[l - 1] = djInput.startnode
    <2>1. SUFFICES ASSUME Paths[l - 1] # djInput.startnode PROVE FALSE
        OBVIOUS
    <2>2. l - 1 \in Nat /\ l - 1 < l /\ Paths[l - 1] \in Node /\ currentweight[Paths[l - 1]] < MaxWeight
        BY <1>1, <1>3
    <2>3. NodeLinks[Paths[l - 1]] \in Node
        BY <1>0, <2>1, <2>2 DEF LinksStand
    <2>4. l = Nodes
        BY <1>0, <2>3, SizesFacts DEF NextFrom
    <2> DEFINE T == Node \ {djInput.startnode}
               f == [k \in Node |-> Paths[k]]
    <2>5. f \in [Node -> T]
        <3>1. ASSUME NEW k \in Node PROVE Paths[k] \in T
            <4>1. k \in Nat /\ k < l
                BY <2>4, SizesFacts DEF Node
            <4>2. CASE k = l - 1
                BY <1>1, <2>1, <4>1, <4>2
            <4>3. CASE k # l - 1
                <5>1. k + 1 < l
                    BY <2>4, <4>1, <4>3, SizesFacts
                <5> QED BY <1>1, <1>2, <1>3, <4>1, <5>1
            <4> QED BY <4>2, <4>3
        <3> QED BY <3>1
    <2>6. djInput.startnode \in Node
        BY <1>0, GraphTyped
    <2>7. IsFiniteSet(Node) /\ Cardinality(Node) = Nodes
        BY NodesFinite
    <2>8. IsFiniteSet(T) /\ Cardinality(T) = Nodes - 1
        BY <2>6, <2>7, FS_RemoveElement
    <2>9. Cardinality(T) < Cardinality(Node)
        BY <2>7, <2>8, SizesFacts
    <2> HIDE DEF f, T
    <2>10. PICK x \in Node, y \in Node : x # y /\ f[x] = f[y]
        BY <2>5, <2>7, <2>8, <2>9, FS_PigeonHole
    <2>11. Paths[x] = Paths[y] /\ x \in Nat /\ y \in Nat /\ x < l /\ y < l
        BY <2>4, <2>10, SizesFacts DEF f, Node
    <2>12. currentweight[Paths[x]] \in Nat
        BY <1>n, <1>1, <2>11
    <2>13. x < y \/ y < x
        BY <2>10, <2>11
    <2>14. ~(currentweight[Paths[x]] < currentweight[Paths[x]])
        BY <2>12
    <2>15. CASE x < y
        BY <1>4, <2>11, <2>14, <2>15
    <2>16. CASE y < x
        BY <1>4, <2>11, <2>14, <2>16
    <2> QED BY <2>13, <2>15, <2>16
<1>6. ASSUME NEW k \in 1 .. l - 1
      PROVE  IsEdge(Paths[k], Paths[k - 1], currentweight[Paths[k - 1]] - currentweight[Paths[k]])
    <2>1. k - 1 \in Nat /\ (k - 1) + 1 = k /\ k - 1 < l /\ (k - 1) + 1 < l
        OBVIOUS
    <2>2. currentweight[Paths[k - 1]] < MaxWeight
        BY <1>3, <2>1
    <2>3. IsEdge(Paths[(k - 1) + 1], Paths[k - 1], currentweight[Paths[k - 1]] - currentweight[Paths[(k - 1) + 1]])
        BY <1>2, <2>1, <2>2
    <2> QED BY <2>1, <2>3
<1> QED BY <1>5, <1>6

\* The inductive invariant of the shortest path program.
DjIInv == DjSearchInv /\ TraceInv

\* The program starts within its invariant.
LEMMA DjIInvInit == DjGiven /\ DjStart => DjIInv
BY DjSearchInit, TraceInit DEF DjIInv

\* The program stays within its invariant.
LEMMA DjIInvStep == DjIInv /\ [DjNext]_djVars => DjIInv'
BY DjSearchStep, TraceStep DEF DjIInv, DjSearchInv

\* The path given is a path to the end of the distance's weight.
LEMMA IInvPathGiven == DjIInv => PathGiven
<1> SUFFICES ASSUME DjIInv, djPc = "done", Positive PROVE PathGiven
    BY DEF PathGiven
<1>0. DjTyped /\ SearchInv /\ DjGiven /\ djI = Nodes
    BY DEF DjIInv, DjSearchInv, DjTyped, DjPlace
<1>1. PICK l \in 0 .. Nodes : ReadTo(l) /\ NextFrom(l)
    BY <1>0 DEF DjIInv, TraceInv
<1>2. l > 0
    BY <1>0, <1>1, SizesFacts DEF NextFrom
<1> DEFINE n == Cardinality({k \in Node : Paths[k] # NoNode})
           d == Distance(djInput.endnode)
<1>3. n = l
    <2>1. {k \in Node : Paths[k] # NoNode} = 0 .. l - 1
        <3>1. \A k \in Node : Paths[k] # NoNode <=> k < l
            BY <1>1, SizesFacts DEF ReadTo
        <3>2. \A k : k \in 0 .. l - 1 <=> k \in Node /\ k < l
            BY SizesFacts DEF Node
        <3> QED BY <3>1, <3>2
    <2>2. Cardinality(0 .. l - 1) = l
        BY <1>2, FS_Interval
    <2> QED BY <2>1, <2>2
<1>4. djInput.endnode \in Node
    BY <1>0, GraphTyped
<1>5. /\ d \in Nat
      /\ currentweight[djInput.endnode] = IF d + StartWeight < MaxWeight THEN d + StartWeight ELSE MaxWeight
    BY <1>0, <1>4, WeightIsDistance
<1> HIDE DEF d, n
<1>6. n > 0 /\ Paths[0] = djInput.endnode /\ \A k \in 0 .. n - 1 : Paths[k] # NoNode
    <2>1. ASSUME NEW k \in 0 .. l - 1 PROVE Paths[k] # NoNode
        <3>1. k \in Node /\ k < l
            BY SizesFacts DEF Node
        <3> QED BY <1>1, <3>1, SizesFacts DEF ReadTo
    <2> QED BY <1>1, <1>2, <1>3, <2>1 DEF ReadTo
<1>7. ASSUME d < MaxWeight - StartWeight
      PROVE  /\ Paths[n - 1] = djInput.startnode
             /\ \A k \in 1 .. n - 1 :
                   IsEdge(Paths[k], Paths[k - 1], currentweight[Paths[k - 1]] - currentweight[Paths[k]])
    <2>1. currentweight[djInput.endnode] < MaxWeight
        BY <1>5, <1>7, SizesFacts
    <2> QED BY <1>0, <1>1, <1>2, <1>3, <2>1, PathToStart
<1>8. ASSUME Reach[Nodes - 1][djInput.endnode] = {} PROVE n = 1
    <2>1. NodeLinks[djInput.endnode] = NoNode
        BY <1>0, <1>4, <1>8 DEF SearchInv, WalksStand
    <2>2. ~(l > 1)
        <3>1. SUFFICES ASSUME l > 1 PROVE FALSE
            OBVIOUS
        <3>2. 0 \in Node /\ 1 \in Node
            BY <3>1, SizesFacts DEF Node
        <3>3. Paths[1] = NodeLinks[Paths[0]]
            <4>1. 0 + 1 < l /\ 0 + 1 = 1
                BY <3>1
            <4> QED BY <1>1, <3>2, <4>1 DEF ReadTo
        <3>4. Paths[1] \in Node
            BY <1>1, <3>1, <3>2 DEF ReadTo
        <3> QED BY <1>6, <2>1, <3>3, <3>4, SizesFacts
    <2> QED BY <1>2, <1>3, <2>2
<1> QED BY <1>5, <1>6, <1>7, <1>8 DEF PathGiven, n, d

\* The program finds a shortest path in the iterations it allows itself, in
\* either form, on every graph and between any two of its nodes.
LEMMA IInvShortestPath == DjIInv => ShortestPath
<1> SUFFICES ASSUME DjIInv PROVE ShortestPath
    OBVIOUS
<1>1. LinksAccount
    BY DEF DjIInv, DjSearchInv, SearchInv, LinksStand, LinksAccount, Settled
<1>2. QueueDrained
    <2> SUFFICES ASSUME djPc = "trace", Positive, NEW k \in Node, inqueue[k]
                 PROVE  currentweight[k] >= MaxWeight
        BY DEF QueueDrained
    <2>1. ~Waiting(k)
        BY DEF DjIInv, DjSearchInv, SearchInv, NoneWaits
    <2>2. currentweight[k] \in 0 .. MaxWeight
        BY DEF DjIInv, DjSearchInv, DjTyped, DjTypeOK
    <2> QED BY <2>1, <2>2, SizesFacts DEF Waiting
<1> QED BY <1>1, <1>2, IInvPathGiven DEF ShortestPath

\* In every graph without edges that weigh nothing both programs find a shortest
\* path in as many iterations as there are nodes: the links account for the
\* weights at every moment, nothing is left in the queue, and the nodes given
\* are a path of the distance's weight.
THEOREM DijkstraFinds == DjSpec => []ShortestPath
<1>1. DjInit => DjIInv
    BY DjIInvInit DEF DjInit, DjGiven
<1> QED BY <1>1, DjIInvStep, IInvShortestPath, PTL DEF DjSpec

-----------------------------------------------------------------------------
(* The ports.                                                              *)

FirstSuperNode == Nodes - SuperNodeSize

\* The ports of one node.
PortsOf(n) == [e \in 1 .. (IF n = FirstSuperNode \/ n = Nodes - 1 THEN 3 ELSE 2) |-> <<n, e - 1>>]

\* How many ports come before those of node n.
PortsBefore(n) == IF n = FirstSuperNode THEN 0 ELSE 3 + (n - FirstSuperNode - 1) * 2

\* What the sizes of the super node are.
LEMMA SuperFacts ==
    /\ FirstSuperNode \in Nat /\ SuperNodeSize \in Nat /\ SuperNodeSize > 1 /\ Edges > 2
    /\ Nodes = FirstSuperNode + SuperNodeSize /\ Garbage \subseteq Nat
    /\ 2 * SuperNodeSize + 2 <= Two[16]
BY SizesFacts, SuperAssumption DEF FirstSuperNode

\* The ports of one node, in order.
LEMMA PortsOfAre ==
    ASSUME NEW n \in Nat
    PROVE  /\ PortsOf(n) \in Seq(Nat \X Nat)
           /\ Len(PortsOf(n)) = IF n = FirstSuperNode \/ n = Nodes - 1 THEN 3 ELSE 2
           /\ \A e \in 1 .. Len(PortsOf(n)) : PortsOf(n)[e] = <<n, e - 1>>
<1> DEFINE c == IF n = FirstSuperNode \/ n = Nodes - 1 THEN 3 ELSE 2
<1>1. c \in Nat
    OBVIOUS
<1>2. PortsOf(n) = [e \in 1 .. c |-> <<n, e - 1>>]
    BY DEF PortsOf
<1> HIDE DEF c
<1>3. \A e \in 1 .. c : <<n, e - 1>> \in Nat \X Nat
    BY <1>1
<1>4. PortsOf(n) \in Seq(Nat \X Nat) /\ Len(PortsOf(n)) = c
    BY <1>1, <1>2, <1>3
<1> QED BY <1>2, <1>4 DEF c

\* The ports of the nodes up to n are the recursion they are written as.
LEMMA PortsRecur ==
    \E upto :
        /\ upto[FirstSuperNode] = PortsOf(FirstSuperNode)
        /\ \A n \in FirstSuperNode .. Nodes - 2 : upto[n + 1] = upto[n] \o PortsOf(n + 1)
        /\ Ports = upto[Nodes - 1]
<1> DEFINE s == FirstSuperNode
           V == Seq(Nat \X Nat)
           next == [x \in Nat \X V |-> x[2] \o PortsOf(s + x[1] + 1)]
           body(g, n) == IF n = s THEN PortsOf(n) ELSE g[n - 1] \o PortsOf(n)
<1>0. s \in Nat /\ Nodes \in Nat /\ s <= Nodes - 2
    BY SuperFacts, SizesFacts
<1> HIDE DEF s
<1>1. PortsOf(s) \in V
    BY <1>0, PortsOfAre
<1>2. next \in [Nat \X V -> V]
    <2>1. ASSUME NEW x \in Nat \X V PROVE x[2] \o PortsOf(s + x[1] + 1) \in V
        <3>1. x[2] \in V /\ s + x[1] + 1 \in Nat
            BY <1>0
        <3>2. PortsOf(s + x[1] + 1) \in V
            BY <3>1, PortsOfAre
        <3> QED BY <3>1, <3>2
    <2> HIDE DEF V
    <2> QED BY <2>1
<1> HIDE DEF V
<1>3. PICK f \in [Nat -> V] : Recurs(f, PortsOf(s), next)
    <2> HIDE DEF next
    <2> QED BY <1>1, <1>2, NatRecursion
<1>4. f[0] = PortsOf(s) /\ \A n \in Nat : f[n + 1] = next[<<n, f[n]>>]
    BY <1>3 DEF Recurs
<1>5. \A n \in Nat : f[n + 1] = f[n] \o PortsOf(s + n + 1)
    BY <1>4
<1> HIDE DEF next
<1> DEFINE h == [n \in s .. Nodes - 1 |-> f[n - s]]
<1>6. h = [n \in s .. Nodes - 1 |-> body(h, n)]
    <2>1. ASSUME NEW n \in s .. Nodes - 1 PROVE f[n - s] = body(h, n)
        <3>1. CASE n = s
            <4>1. n - s = 0
                BY <1>0, <3>1
            <4> QED BY <1>4, <3>1, <4>1
        <3>2. CASE n # s
            <4>1. /\ n - 1 \in s .. Nodes - 1 /\ (n - 1) - s \in Nat
                  /\ ((n - 1) - s) + 1 = n - s /\ s + ((n - 1) - s) + 1 = n
                BY <1>0, <3>2
            <4>2. f[((n - 1) - s) + 1] = f[(n - 1) - s] \o PortsOf(s + ((n - 1) - s) + 1)
                BY <1>5, <4>1
            <4>3. h[n - 1] = f[(n - 1) - s]
                BY <4>1
            <4> HIDE DEF h
            <4> QED BY <3>2, <4>1, <4>2, <4>3
        <3> QED BY <3>1, <3>2
    <2> HIDE DEF body
    <2> QED BY <2>1
<1> DEFINE upto == CHOOSE m : m = [n \in s .. Nodes - 1 |-> body(m, n)]
<1>7. Ports = upto[Nodes - 1]
    BY DEF Ports, PortsOf, s, FirstSuperNode
<1>8. upto = [n \in s .. Nodes - 1 |-> body(upto, n)]
    <2> HIDE DEF h, body
    <2> QED BY <1>6
<1> HIDE DEF upto, h
<1>9. \A n \in s .. Nodes - 1 : upto[n] = body(upto, n)
    <2> HIDE DEF body
    <2> QED BY <1>8
<1>10. upto[s] = PortsOf(s)
    BY <1>0, <1>9
<1>11. ASSUME NEW n \in s .. Nodes - 2 PROVE upto[n + 1] = upto[n] \o PortsOf(n + 1)
    <2>1. n + 1 \in s .. Nodes - 1 /\ n + 1 # s /\ (n + 1) - 1 = n
        BY <1>0
    <2>2. upto[n + 1] = upto[(n + 1) - 1] \o PortsOf(n + 1)
        BY <1>9, <2>1
    <2> QED BY <2>1, <2>2
<1> QED BY <1>7, <1>10, <1>11 DEF s

\* The first ports p are those of the nodes up to n, in their order.
PortsUpTo(p, n) ==
    /\ p \in Seq(Nat \X Nat)
    /\ Len(p) = PortsBefore(n) + Len(PortsOf(n))
    /\ \A q \in 1 .. Len(p) : \E m \in FirstSuperNode .. n, e \in 0 .. 2 :
          p[q] = <<m, e>> /\ PortsBefore(m) + e = q - 1

\* The ports of the first super node.
LEMMA PortsUpToFirst == PortsUpTo(PortsOf(FirstSuperNode), FirstSuperNode)
<1> DEFINE s == FirstSuperNode
<1>0. s \in Nat /\ Nodes \in Nat
    BY SuperFacts, SizesFacts
<1>1. PortsBefore(s) = 0
    BY DEF PortsBefore
<1>2. /\ PortsOf(s) \in Seq(Nat \X Nat) /\ Len(PortsOf(s)) = 3
      /\ \A e \in 1 .. Len(PortsOf(s)) : PortsOf(s)[e] = <<s, e - 1>>
    BY <1>0, PortsOfAre
<1> HIDE DEF s
<1>3. ASSUME NEW q \in 1 .. 3
      PROVE  \E m \in s .. s, e \in 0 .. 2 : PortsOf(s)[q] = <<m, e>> /\ PortsBefore(m) + e = q - 1
    <2>1. q - 1 \in 0 .. 2 /\ s \in s .. s /\ 0 + (q - 1) = q - 1
        BY <1>0
    <2> QED BY <1>1, <1>2, <2>1
<1> QED BY <1>1, <1>2, <1>3 DEF PortsUpTo, s

\* The ports of one more super node go behind those before.
LEMMA PortsUpToNext ==
    ASSUME NEW n \in FirstSuperNode .. Nodes - 2, NEW p, PortsUpTo(p, n)
    PROVE  PortsUpTo(p \o PortsOf(n + 1), n + 1)
<1> DEFINE s == FirstSuperNode  m == n + 1  r == PortsOf(m)  t == p \o r
<1>0. s \in Nat /\ Nodes \in Nat /\ n \in Nat /\ m \in Nat /\ s <= n /\ n <= Nodes - 2 /\ m = n + 1 /\ m # s
    BY SuperFacts, SizesFacts
<1>1. /\ r \in Seq(Nat \X Nat)
      /\ Len(r) = IF m = s \/ m = Nodes - 1 THEN 3 ELSE 2
      /\ \A e \in 1 .. Len(r) : r[e] = <<m, e - 1>>
    BY <1>0, PortsOfAre
<1>2. Len(r) \in 2 .. 3
    <2> HIDE DEF r, s, m
    <2> QED BY <1>1
<1>3. p \in Seq(Nat \X Nat) /\ Len(p) \in Nat /\ Len(p) = PortsBefore(n) + Len(PortsOf(n))
    BY DEF PortsUpTo
<1>4. \A q \in 1 .. Len(p) : \E k \in s .. n, e \in 0 .. 2 : p[q] = <<k, e>> /\ PortsBefore(k) + e = q - 1
    BY DEF PortsUpTo
<1>5. PortsBefore(m) = Len(p)
    <2>1. Len(PortsOf(n)) = IF n = s THEN 3 ELSE 2
        BY <1>0, PortsOfAre
    <2>2. PortsBefore(m) = 3 + (m - s - 1) * 2
        BY <1>0 DEF PortsBefore
    <2>3. CASE n = s
        <3>1. PortsBefore(n) = 0 /\ m - s - 1 = 0
            BY <1>0, <2>3 DEF PortsBefore
        <3> QED BY <1>3, <2>1, <2>2, <2>3, <3>1
    <2>4. CASE n # s
        <3>1. PortsBefore(n) = 3 + (n - s - 1) * 2 /\ (m - s - 1) * 2 = (n - s - 1) * 2 + 2
            BY <1>0, <2>4 DEF PortsBefore
        <3>2. (n - s - 1) * 2 \in Int
            BY <1>0
        <3> QED BY <1>3, <2>1, <2>2, <2>4, <3>1, <3>2
    <2> QED BY <2>3, <2>4
<1>6. s .. n \subseteq s .. m /\ m \in s .. m
    BY <1>0
<1>r. r = PortsOf(m)
    OBVIOUS
<1> HIDE DEF s, m, r
<1>7. /\ t \in Seq(Nat \X Nat) /\ Len(t) = Len(p) + Len(r)
      /\ \A q \in 1 .. Len(p) : t[q] = p[q]
      /\ \A e \in 1 .. Len(r) : t[Len(p) + e] = r[e]
    <2>1. p \in Seq(Nat \X Nat) /\ r \in Seq(Nat \X Nat)
        BY <1>1, <1>3
    <2> QED BY <2>1
<1> DEFINE lp == Len(p)  lr == Len(r)
<1>lp. lp \in Nat /\ lr \in 2 .. 3 /\ lp = Len(p) /\ lr = Len(r)
    BY <1>2, <1>3
<1> HIDE DEF t, lp, lr
<1>8. ASSUME NEW q \in 1 .. Len(t)
      PROVE  \E k \in s .. m, e \in 0 .. 2 : t[q] = <<k, e>> /\ PortsBefore(k) + e = q - 1
    <2>1. q \in 1 .. Len(p) + Len(r)
        BY <1>7
    <2>2. CASE q <= Len(p)
        <3>1. q \in 1 .. Len(p)
            BY <1>2, <1>3, <2>1, <2>2
        <3>2. PICK k \in s .. n, e \in 0 .. 2 : p[q] = <<k, e>> /\ PortsBefore(k) + e = q - 1
            BY <1>4, <3>1
        <3>3. k \in s .. m /\ t[q] = p[q]
            BY <1>6, <1>7, <3>1
        <3> QED BY <3>2, <3>3
    <2>3. CASE ~(q <= Len(p))
        <3> DEFINE e == q - Len(p)
        <3>1. /\ e \in 1 .. Len(r) /\ Len(p) + e = q
              /\ e - 1 \in 0 .. 2 /\ Len(p) + (e - 1) = q - 1
            <4>1. q \in 1 .. lp + lr /\ ~(q <= lp) /\ e = q - lp
                BY <1>lp, <2>1, <2>3
            <4>2. lp \in Nat /\ lr \in 2 .. 3 /\ q \in Nat
                BY <1>lp, <4>1
            <4> HIDE DEF e
            <4>3. e \in 1 .. lr /\ lp + e = q
                BY <4>1, <4>2
            <4>4. e \in 1 .. 3 /\ e \in Nat
                BY <4>2, <4>3
            <4>5. e - 1 \in 0 .. 2 /\ lp + (e - 1) = q - 1
                BY <4>2, <4>3, <4>4
            <4> QED BY <1>lp, <4>3, <4>5
        <3> HIDE DEF e
        <3>3. t[q] = <<m, e - 1>>
            BY <1>1, <1>7, <3>1
        <3> QED BY <1>5, <1>6, <3>1, <3>3
    <2> QED BY <2>2, <2>3
<1>9. Len(t) = PortsBefore(m) + Len(PortsOf(m))
    BY <1>5, <1>7, <1>r
<1>10. PortsUpTo(t, m)
    BY <1>7, <1>8, <1>9 DEF PortsUpTo, s
<1> QED BY <1>10 DEF t, r, m

\* All ports together.
LEMMA PortsAll == PortsUpTo(Ports, Nodes - 1)
<1> DEFINE s == FirstSuperNode
<1>0. s \in Nat /\ Nodes \in Nat /\ s <= Nodes - 2
    BY SuperFacts, SizesFacts
<1>1. PICK upto : /\ upto[s] = PortsOf(s)
                  /\ \A n \in s .. Nodes - 2 : upto[n + 1] = upto[n] \o PortsOf(n + 1)
                  /\ Ports = upto[Nodes - 1]
    BY PortsRecur
<1>2. PortsUpTo(upto[s], s)
    BY <1>1, PortsUpToFirst
<1>3. ASSUME NEW n \in s .. Nodes - 2, PortsUpTo(upto[n], n) PROVE PortsUpTo(upto[n + 1], n + 1)
    BY <1>1, <1>3, PortsUpToNext
<1> HIDE DEF s
<1> DEFINE S == {i \in Nat : s + i <= Nodes - 1 => PortsUpTo(upto[s + i], s + i)}
<1>4. 0 \in S
    <2>1. s + 0 = s
        BY <1>0
    <2> QED BY <1>2, <2>1
<1>5. ASSUME NEW i \in Nat, i \in S PROVE i + 1 \in S
    <2>1. CASE s + (i + 1) <= Nodes - 1
        <3> DEFINE n == s + i
        <3>1. n \in s .. Nodes - 2 /\ s + (i + 1) = n + 1 /\ n <= Nodes - 1
            BY <1>0, <2>1
        <3>2. PortsUpTo(upto[n], n)
            BY <1>5, <3>1
        <3> HIDE DEF n
        <3>3. PortsUpTo(upto[n + 1], n + 1)
            BY <1>3, <3>1, <3>2
        <3>4. i + 1 \in Nat
            OBVIOUS
        <3> QED BY <3>1, <3>3, <3>4
    <2>2. CASE ~(s + (i + 1) <= Nodes - 1)
        BY <2>2
    <2> QED BY <2>1, <2>2
<1> HIDE DEF S
<1>6. Nat \subseteq S
    BY <1>4, <1>5, NatInductive
<1>7. (Nodes - 1) - s \in Nat /\ s + ((Nodes - 1) - s) = Nodes - 1 /\ Nodes - 1 <= Nodes - 1
    BY <1>0
<1>8. (Nodes - 1) - s \in S
    BY <1>6, <1>7
<1> QED BY <1>1, <1>7, <1>8 DEF S

\* The last port is the third of the last super node.
LEMMA PortsLength == Len(Ports) \in Nat /\ Len(Ports) = 2 * SuperNodeSize + 2
<1> DEFINE s == FirstSuperNode
<1>0. s \in Nat /\ Nodes \in Nat /\ s <= Nodes - 2 /\ Nodes = s + SuperNodeSize /\ SuperNodeSize \in Nat
    BY SuperFacts, SizesFacts
<1>1. Len(Ports) = PortsBefore(Nodes - 1) + Len(PortsOf(Nodes - 1))
    BY PortsAll DEF PortsUpTo
<1>2. Len(PortsOf(Nodes - 1)) = 3
    BY <1>0, PortsOfAre
<1>3. PortsBefore(Nodes - 1) = 3 + (Nodes - 1 - s - 1) * 2
    BY <1>0 DEF PortsBefore
<1> HIDE DEF s
<1>4. 3 + (Nodes - 1 - s - 1) * 2 + 3 = 2 * SuperNodeSize + 2 /\ 2 * SuperNodeSize + 2 \in Nat
    BY <1>0
<1>5. Len(Ports) = 2 * SuperNodeSize + 2
    BY <1>1, <1>2, <1>3, <1>4
<1> QED BY <1>4, <1>5

\* The number that the counts give a port is its place among the ports.
THEOREM PortsNumbered ==
    \A q \in 1 .. Len(Ports) :
        \E n \in FirstSuperNode .. Nodes - 1, e \in 0 .. 2 :
            Ports[q] = <<n, e>> /\ PortCount(n - FirstSuperNode, e) = q - 1
<1> DEFINE s == FirstSuperNode
<1>0. s \in Nat /\ Nodes \in Nat /\ s <= Nodes - 2 /\ Nodes = s + SuperNodeSize
    BY SuperFacts, SizesFacts
<1>6. ASSUME NEW n \in s .. Nodes - 1, NEW e \in 0 .. 2
      PROVE  PortCount(n - s, e) = PortsBefore(n) + e
    <2>1. n - s \in 0 .. SuperNodeSize - 1 /\ SuperNodeSize \in Nat /\ SuperNodeSize > 1
        BY <1>0, SuperFacts
    <2>2. CASE n = s
        BY <1>0, <2>2, <2>1 DEF PortCount, PortsBefore, s
    <2>3. CASE n # s /\ n - s < SuperNodeSize - 1
        <3>1. n - s # 0 /\ n - s > 0
            BY <1>0, <2>1, <2>3
        <3>2. PortCount(n - s, e) = 3 + (n - s - 1) * 2 + e
            BY <2>1, <2>3, <3>1 DEF PortCount
        <3> QED BY <2>3, <3>2 DEF PortsBefore, s
    <2>4. CASE n # s /\ ~(n - s < SuperNodeSize - 1)
        <3>1. n - s = SuperNodeSize - 1 /\ n - s # 0 /\ n - s - 1 = SuperNodeSize - 2
            BY <1>0, <2>1, <2>4
        <3>2. PortCount(n - s, e) = 3 + (SuperNodeSize - 2) * 2 + e
            BY <2>1, <2>4, <3>1 DEF PortCount
        <3> QED BY <2>4, <3>1, <3>2 DEF PortsBefore, s
    <2> QED BY <2>2, <2>3, <2>4
<1>7. ASSUME NEW q \in 1 .. Len(Ports)
      PROVE  \E n \in s .. Nodes - 1, e \in 0 .. 2 : Ports[q] = <<n, e>> /\ PortCount(n - s, e) = q - 1
    <2>1. PICK n \in s .. Nodes - 1, e \in 0 .. 2 : Ports[q] = <<n, e>> /\ PortsBefore(n) + e = q - 1
        BY PortsAll DEF PortsUpTo
    <2>2. PortCount(n - s, e) = q - 1
        BY <1>6, <2>1
    <2> QED BY <2>1, <2>2
<1> QED BY <1>7 DEF s

-----------------------------------------------------------------------------
(* The path is scanned and the ports are counted.                          *)

\* The places of path p that hold a super node.
SuperAt(p) == {k \in Node : InSuper(p[k])}

\* Of the places before j the last one with a super node is what end tells,
\* and the place after it is what postend tells.
EndHolds(p, e, pe, j) ==
    \A k \in SuperAt(p) :
        (k < j /\ \A m \in SuperAt(p) : m < j => m <= k) =>
            e = p[k] /\ (k > 0 /\ k < Nodes - 1 => pe = p[k + 1])

\* PortTaken, of graph g.
Taken(g, n, m) ==
    /\ \E q \in 1 .. Len(Ports) : Ports[q][1] = n /\ g.connections[n][Ports[q][2]] = m
    /\ \A s \in Slot : g.connections[n][s] = m => \E q \in 1 .. Len(Ports) : Ports[q] = <<n, s>>

\* The edge counted for the end is a port that leads on along the path.
FanHolds(p, g, e, f) ==
    \A k \in SuperAt(p) :
        (/\ k > 0 /\ k < Nodes - 1 /\ \A m \in SuperAt(p) : m <= k
         /\ Taken(g, p[k], p[k + 1])) =>
            /\ e = p[k] /\ f \in Slot /\ g.connections[e][f] = p[k + 1]
            /\ \E q \in 1 .. Len(Ports) : Ports[q] = <<e, f>>

\* The path is read.
HyRead == djPc = "done" /\ DjGiven /\ Paths \in [Node -> Node \cup {NoNode}]

\* The hybrid program while it searches, as the plain one does.
HySearch == djPc # "done" /\ DjTyped /\ TailInit

\* While it scans the path for its last super node.
HyScan ==
    /\ HyRead /\ djI = Nodes /\ djJ \in 0 .. Nodes
    /\ {start, prestart, end, postend, postendtemp} \subseteq Node \cup {NoNode, Unset}
    /\ started \in BOOLEAN /\ startfan = Unset /\ endfan = Unset /\ djBitInput = NoBits
    /\ EndHolds(Paths, end, postend, djJ)

\* Once it has found the edge that leads on.
HyFans ==
    /\ HyRead /\ djI \in {Nodes + 1, Nodes + 2} /\ djJ = 0
    /\ {start, prestart, end, postend} \subseteq Node \cup {NoNode} \cup Garbage
    /\ postendtemp \in Node \cup {NoNode, Unset} /\ started \in BOOLEAN
    /\ {startfan, endfan} \subseteq Slot \cup Garbage
    /\ FanHolds(Paths, djInput, end, endfan)

\* The bits, once they are counted.
HyBits ==
    djBitInput =
        IF djI = Nodes + 1 THEN NoBits
        ELSE [b \in 0 .. 31 |-> IF b < 16 THEN BitOf(StartCount, b) ELSE BitOf(EndCount, b - 16)]

\* The inductive invariant: the three parts of the program, one after another.
HyIInv == HySearch \/ HyScan \/ (HyFans /\ HyBits)

\* The hybrid program starts as the plain one does.
LEMMA HyInitOK == DjGiven /\ DjStart /\ TailInit => HyIInv
BY DjTypedInit DEF HyIInv, HySearch, DjStart

\* The search ends where the scan begins.
LEMMA HySearchStep ==
    ASSUME HySearch, HybridDjNext
    PROVE  HyIInv'
<1>0. djPc # "done" /\ DjTyped /\ TailInit
    BY DEF HySearch
<1>1. (Search \/ Traced) /\ UNCHANGED tail
    <2>1. djI # Nodes + 1
        BY <1>0, SizesFacts DEF DjTyped, DjTypeOK
    <2> QED BY <1>0, <2>1 DEF HybridDjNext, Scan, Fans, CountBits, Search, Traced
<1>2. DjNext
    BY <1>1 DEF Search, Traced, DjNext
<1>3. DjTyped'
    BY <1>0, <1>2, DjTypedStep
<1>4. TailInit'
    BY <1>0, <1>1 DEF TailInit, tail, NoBits
<1>5. CASE djPc' # "done"
    BY <1>3, <1>4, <1>5 DEF HyIInv, HySearch
<1>6. CASE djPc' = "done"
    <2>1. HyRead' /\ djI' = Nodes /\ djJ' = 0
        BY <1>3, <1>6 DEF DjTyped, DjPlace, DjTypeOK, HyRead
    <2>2. EndHolds(Paths', end', postend', 0)
        <3>1. \A k \in Node : ~(k < 0)
            BY SizesFacts
        <3> QED BY <3>1 DEF EndHolds, SuperAt
    <2>3. EndHolds(Paths, end, postend, djJ)'
        BY <2>1, <2>2
    <2>4. /\ start' = Unset /\ prestart' = Unset /\ end' = Unset /\ postend' = Unset
          /\ postendtemp' = Unset /\ started' = FALSE /\ startfan' = Unset /\ endfan' = Unset
          /\ djBitInput' = NoBits
        BY <1>4 DEF TailInit, NoBits
    <2>5. 0 \in 0 .. Nodes
        BY SizesFacts
    <2>6. HyScan'
        BY <2>1, <2>3, <2>4, <2>5 DEF HyScan, NoBits
    <2> QED BY <2>6 DEF HyIInv
<1> QED BY <1>5, <1>6

\* One more place of the path is scanned.
LEMMA HyScanScan ==
    ASSUME HyScan, Scan
    PROVE  HyScan'
<1>0. /\ djI = Nodes /\ djJ \in 0 .. Nodes /\ started \in BOOLEAN
      /\ {start, prestart, end, postend, postendtemp} \subseteq Node \cup {NoNode, Unset}
      /\ startfan = Unset /\ endfan = Unset /\ djBitInput = NoBits
      /\ EndHolds(Paths, end, postend, djJ)
      /\ djPc = "done" /\ DjGiven /\ Paths \in [Node -> Node \cup {NoNode}]
    BY DEF HyScan, HyRead
<1>1. PICK j \in Node : j = djJ
    BY <1>0, SizesFacts DEF Scan, Node
<1>2. /\ postendtemp' = IF j < Nodes - 1 THEN Paths[j + 1] ELSE postendtemp
      /\ prestart' = IF FirstSuper(j) /\ j > 0 THEN Paths[j - 1] ELSE prestart
      /\ start' = IF FirstSuper(j) THEN Paths[j] ELSE start
      /\ started' = (started \/ FirstSuper(j))
      /\ end' = IF Super(j) THEN Paths[j] ELSE end
      /\ postend' = IF TakesPostend(j) THEN postendtemp' ELSE postend
      /\ djJ' = j + 1
      /\ UNCHANGED <<djNaive, djInput, currentweight, inqueue, NodeLinks, Paths, djPc, djI,
                   selectedNode, selectedWeight, nodeToGet, startfan, endfan, djBitInput>>
    BY <1>1 DEF Scan
<1>3. j + 1 \in 0 .. Nodes /\ (j < Nodes - 1 => j + 1 \in Node) /\ (j > 0 => j - 1 \in Node) /\ j \in Nat
    BY SizesFacts DEF Node
<1>4. started' \in BOOLEAN
    BY <1>0, <1>2 DEF FirstSuper, Super, InSuper
<1>5. Super(j) => started'
    BY <1>0, <1>2 DEF FirstSuper
<1>6. {start', prestart', end', postend', postendtemp'} \subseteq Node \cup {NoNode, Unset}
    <2>1. postendtemp' \in Node \cup {NoNode, Unset}
        BY <1>0, <1>2, <1>3
    <2>2. prestart' \in Node \cup {NoNode, Unset} /\ start' \in Node \cup {NoNode, Unset}
        BY <1>0, <1>2, <1>3
    <2>3. end' \in Node \cup {NoNode, Unset} /\ postend' \in Node \cup {NoNode, Unset}
        BY <1>0, <1>2, <1>3, <2>1
    <2> QED BY <2>1, <2>2, <2>3
<1>7. EndHolds(Paths, end', postend', j + 1)
    <2> SUFFICES ASSUME NEW k \in SuperAt(Paths), k < j + 1,
                        \A m \in SuperAt(Paths) : m < j + 1 => m <= k
                 PROVE  end' = Paths[k] /\ (k > 0 /\ k < Nodes - 1 => postend' = Paths[k + 1])
        BY DEF EndHolds
    <2>0. k \in Node /\ InSuper(Paths[k]) /\ k \in Nat
        BY SizesFacts DEF SuperAt
    <2>1. CASE k = j
        <3>1. Super(j)
            BY <2>0, <2>1 DEF Super
        <3>2. end' = Paths[k]
            BY <1>2, <2>1, <3>1
        <3>3. k > 0 => TakesPostend(j)
            BY <1>5, <2>1, <3>1 DEF TakesPostend
        <3> QED BY <1>2, <2>1, <3>2, <3>3
    <2>2. CASE k # j
        <3>1. k < j
            BY <1>3, <2>0, <2>2
        <3>2. ~Super(j)
            <4>1. SUFFICES ASSUME Super(j) PROVE FALSE
                OBVIOUS
            <4>2. j \in SuperAt(Paths) /\ j < j + 1
                BY <1>3, <4>1 DEF SuperAt, Super
            <4> QED BY <1>3, <2>0, <3>1, <4>2
        <3>3. end' = end /\ postend' = postend
            BY <1>2, <3>2 DEF TakesPostend
        <3>4. \A m \in SuperAt(Paths) : m < j => m <= k
            <4>1. ASSUME NEW m \in SuperAt(Paths), m < j PROVE m <= k
                <5>1. m \in Nat /\ m < j + 1
                    BY <1>3, <4>1, SizesFacts DEF SuperAt
                <5> QED BY <5>1
            <4> QED BY <4>1
        <3> QED BY <1>0, <1>1, <3>1, <3>3, <3>4 DEF EndHolds
    <2> QED BY <2>1, <2>2
<1>8. EndHolds(Paths, end, postend, djJ)'
    BY <1>2, <1>7
<1>9. HyRead' /\ djI' = Nodes
    BY <1>0, <1>2 DEF HyRead, DjGiven
<1> QED BY <1>0, <1>2, <1>3, <1>4, <1>6, <1>8, <1>9 DEF HyScan

\* The last edge to a node, if there is one.
LEMMA FanToIs ==
    ASSUME NEW n, NEW m, NEW old
    PROVE  /\ \/ FanTo(n, m, old) = old
              \/ FanTo(n, m, old) \in Slot
           /\ n \in Node /\ (\E s \in Slot : djInput.connections[n][s] = m) =>
                 /\ FanTo(n, m, old) \in Slot
                 /\ djInput.connections[n][FanTo(n, m, old)] = m
<1> DEFINE hits == IF n \in Node THEN {s \in Slot : djInput.connections[n][s] = m} ELSE {}
           best(s) == \A t \in hits : t <= s
           fan == CHOOSE s \in hits : best(s)
<1>1. FanTo(n, m, old) = IF hits = {} THEN old ELSE fan
    BY DEF FanTo
<1>2. hits \subseteq Slot /\ \A s \in hits : djInput.connections[n][s] = m
    OBVIOUS
<1>3. n \in Node /\ (\E s \in Slot : djInput.connections[n][s] = m) => hits # {}
    OBVIOUS
<1> HIDE DEF hits
<1>4. ASSUME hits # {} PROVE fan \in hits
    <2> DEFINE gaps == {i \in Nat : \E s \in hits : i = Edges - 1 - s}
    <2>1. \A s \in hits : s \in 0 .. Edges - 1 /\ Edges - 1 - s \in Nat
        BY <1>2, SizesFacts DEF Slot
    <2>2. gaps # {} /\ gaps \in SUBSET Nat
        BY <1>4, <2>1
    <2>3. PICK i \in gaps : \A j \in gaps : i <= j
        BY <2>2, LeastOf
    <2>4. PICK s \in hits : i = Edges - 1 - s
        BY <2>3
    <2>5. ASSUME NEW t \in hits PROVE t <= s
        <3>1. Edges - 1 - t \in gaps
            BY <2>1
        <3>2. i <= Edges - 1 - t
            BY <2>3, <3>1
        <3>3. s \in 0 .. Edges - 1 /\ t \in 0 .. Edges - 1 /\ Edges \in Nat
            BY <2>1, SizesFacts
        <3> QED BY <2>4, <3>2, <3>3
    <2>6. best(s)
        BY <2>5
    <2> HIDE DEF best
    <2> QED BY <2>4, <2>6
<1> HIDE DEF fan
<1> QED BY <1>1, <1>2, <1>3, <1>4

\* The edge that leads on is found.
LEMMA HyFansStep ==
    ASSUME HyScan, Fans
    PROVE  HyFans' /\ HyBits'
<1>0. /\ djI = Nodes /\ djJ \in 0 .. Nodes /\ started \in BOOLEAN
      /\ {start, prestart, end, postend, postendtemp} \subseteq Node \cup {NoNode, Unset}
      /\ startfan = Unset /\ endfan = Unset /\ djBitInput = NoBits
      /\ EndHolds(Paths, end, postend, djJ)
      /\ djPc = "done" /\ DjGiven /\ Paths \in [Node -> Node \cup {NoNode}]
    BY DEF HyScan, HyRead
<1>1. PICK a \in Garbage, b \in Garbage, c \in Garbage, d \in Garbage, u \in Garbage, v \in Garbage :
          /\ start' = ReadLocal(start, a) /\ prestart' = ReadLocal(prestart, b)
          /\ end' = ReadLocal(end, c) /\ postend' = ReadLocal(postend, d)
          /\ startfan' = FanTo(start', prestart', ReadLocal(startfan, u))
          /\ endfan' = FanTo(end', postend', ReadLocal(endfan, v))
    BY DEF Fans
<1>2. /\ djPc = "done" /\ djJ = Nodes /\ djJ' = 0 /\ djI' = Nodes + 1
      /\ UNCHANGED <<djNaive, djInput, currentweight, inqueue, NodeLinks, Paths, djPc,
                     selectedNode, selectedWeight, nodeToGet, postendtemp, started, djBitInput>>
    BY DEF Fans
<1>3. /\ start' \in Node \cup {NoNode} \cup Garbage /\ prestart' \in Node \cup {NoNode} \cup Garbage
      /\ end' \in Node \cup {NoNode} \cup Garbage /\ postend' \in Node \cup {NoNode} \cup Garbage
    BY <1>0, <1>1 DEF ReadLocal
<1>4. startfan' = FanTo(start', prestart', u) /\ endfan' = FanTo(end', postend', v)
    BY <1>0, <1>1 DEF ReadLocal
<1>5. startfan' \in Slot \cup Garbage /\ endfan' \in Slot \cup Garbage
    BY <1>4, FanToIs
<1>6. FanHolds(Paths, djInput, end', endfan')
    <2> SUFFICES ASSUME NEW k \in SuperAt(Paths), k > 0, k < Nodes - 1,
                        \A m \in SuperAt(Paths) : m <= k,
                        Taken(djInput, Paths[k], Paths[k + 1])
                 PROVE  /\ end' = Paths[k] /\ endfan' \in Slot
                        /\ djInput.connections[end'][endfan'] = Paths[k + 1]
                        /\ \E q \in 1 .. Len(Ports) : Ports[q] = <<end', endfan'>>
        BY DEF FanHolds
    <2>1. k \in Node /\ k \in Nat /\ k < Nodes /\ k + 1 \in Node /\ Paths[k] \in Node
        <3>1. k \in Node /\ Nodes \in Nat /\ Paths[k] < Nodes
            BY SizesFacts DEF SuperAt, InSuper
        <3>2. k \in Nat /\ k < Nodes /\ k + 1 \in Node
            BY <3>1 DEF Node
        <3>3. Paths[k] \in Node
            BY <1>0, <3>1 DEF NoNode
        <3> QED BY <3>1, <3>2, <3>3
    <2>2. end = Paths[k] /\ postend = Paths[k + 1]
        <3>1. k < djJ /\ \A m \in SuperAt(Paths) : m < djJ => m <= k
            BY <1>2, <2>1
        <3> QED BY <1>0, <3>1 DEF EndHolds
    <2>3. end # Unset /\ postend # Unset
        <3>1. Paths[k + 1] \in Node \cup {NoNode}
            BY <1>0, <2>1
        <3>2. \A n \in Node \cup {NoNode} : n # Unset
            BY SizesFacts DEF Unset, Node, NoNode
        <3> QED BY <2>1, <2>2, <3>1, <3>2
    <2>4. end' = Paths[k] /\ postend' = Paths[k + 1]
        BY <1>1, <2>2, <2>3 DEF ReadLocal
    <2>5. \E s \in Slot : djInput.connections[end'][s] = postend'
        <3>1. PICK q \in 1 .. Len(Ports) : Ports[q][1] = Paths[k] /\ djInput.connections[Paths[k]][Ports[q][2]] = Paths[k + 1]
            BY DEF Taken
        <3>2. PICK n \in FirstSuperNode .. Nodes - 1, e \in 0 .. 2 : Ports[q] = <<n, e>>
            BY PortsNumbered
        <3>3. e \in Slot /\ Ports[q][2] = e
            <4>1. e \in 0 .. Edges - 1
                BY SuperFacts, SizesFacts
            <4> QED BY <3>2, <4>1 DEF Slot
        <3> QED BY <2>4, <3>1, <3>3
    <2>6. endfan' \in Slot /\ djInput.connections[end'][endfan'] = postend'
        BY <1>4, <2>1, <2>4, <2>5, FanToIs
    <2>7. \E q \in 1 .. Len(Ports) : Ports[q] = <<end', endfan'>>
        BY <2>4, <2>6 DEF Taken
    <2> QED BY <2>4, <2>6, <2>7
<1>7. FanHolds(Paths, djInput, end, endfan)'
    BY <1>2, <1>6
<1>8. HyRead'
    BY <1>0, <1>2 DEF HyRead, DjGiven
<1>9. postendtemp' \in Node \cup {NoNode, Unset} /\ started' \in BOOLEAN
    BY <1>0, <1>2
<1>10. HyFans'
    BY <1>2, <1>3, <1>5, <1>7, <1>8, <1>9 DEF HyFans
<1>11. HyBits'
    BY <1>0, <1>2 DEF HyBits
<1> QED BY <1>10, <1>11

\* The ports are counted.
LEMMA HyCountStep ==
    ASSUME HyFans, HyBits, CountBits
    PROVE  HyFans' /\ HyBits'
<1>1. /\ djI' = Nodes + 2
      /\ djBitInput' = [b \in 0 .. 31 |-> IF b < 16 THEN BitOf(StartCount, b)
                                               ELSE BitOf(EndCount, b - 16)]
      /\ UNCHANGED <<djNaive, djInput, currentweight, inqueue, NodeLinks, Paths, djPc, djJ,
                   selectedNode, selectedWeight, nodeToGet, start, prestart, end, postend,
                   postendtemp, started, startfan, endfan>>
    BY DEF CountBits
<1>2. HyFans'
    BY <1>1 DEF HyFans, HyRead, DjGiven
<1>3. StartCount' = StartCount /\ EndCount' = EndCount
    BY <1>1 DEF StartCount, EndCount
<1>4. djI' # Nodes + 1
    BY <1>1, SizesFacts
<1>5. HyBits'
    BY <1>1, <1>3, <1>4 DEF HyBits
<1> QED BY <1>2, <1>5

\* Every step keeps the invariant of the hybrid program.
LEMMA HyStep == HyIInv /\ [HybridDjNext]_hybridDjVars => HyIInv'
<1> SUFFICES ASSUME HyIInv, [HybridDjNext]_hybridDjVars PROVE HyIInv'
    OBVIOUS
<1>1. CASE HySearch /\ HybridDjNext
    BY <1>1, HySearchStep
<1>2. CASE HyScan /\ HybridDjNext
    <2>1. Scan \/ Fans
        BY <1>2, SizesFacts DEF HyScan, HyRead, HybridDjNext, Search, Traced, Select, Relax, Turn, Trace, CountBits
    <2>2. CASE Scan
        BY <1>2, <2>2, HyScanScan DEF HyIInv
    <2>3. CASE Fans
        BY <1>2, <2>3, HyFansStep DEF HyIInv
    <2> QED BY <2>1, <2>2, <2>3
<1>3. CASE HyFans /\ HyBits /\ HybridDjNext
    <2>1. CountBits
        BY <1>3, SizesFacts DEF HyFans, HyRead, HybridDjNext, Search, Traced, Select, Relax, Turn, Trace, Scan, Fans
    <2> QED BY <1>3, <2>1, HyCountStep DEF HyIInv
<1>4. CASE UNCHANGED hybridDjVars
    <2>1. HySearch => HySearch'
        BY <1>4 DEF hybridDjVars, djVars, tail, HySearch, DjTyped, DjGiven, DjTypeOK, DjPlace, TailInit, NoBits
    <2>2. HyScan => HyScan'
        BY <1>4 DEF hybridDjVars, djVars, tail, HyScan, HyRead, DjGiven, NoBits
    <2>3. HyFans => HyFans'
        BY <1>4 DEF hybridDjVars, djVars, tail, HyFans, HyRead, DjGiven
    <2>4. HyBits => HyBits'
        BY <1>4 DEF hybridDjVars, djVars, tail, HyBits, StartCount, EndCount
    <2> QED BY <2>1, <2>2, <2>3, <2>4 DEF HyIInv
<1> QED BY <1>1, <1>2, <1>3, <1>4 DEF HyIInv

\* The bits of either number are bits.
LEMMA CountsTyped ==
    ASSUME HyFans
    PROVE  StartCount \in Int /\ EndCount \in Int
<1>1. startfan \in Nat /\ endfan \in Nat /\ end \in Nat
    <2>1. Slot \subseteq Nat /\ Garbage \subseteq Nat /\ Node \cup {NoNode} \subseteq Nat
        BY SizesFacts, SuperFacts DEF Slot, NoNode
    <2> QED BY <2>1 DEF HyFans
<1>2. StartCount \in Int
    BY <1>1, SuperFacts DEF StartCount
<1>3. PICK n \in Int : n = end - (Nodes - SuperNodeSize)
    BY <1>1, SizesFacts, SuperFacts
<1>4. PortCount(n, endfan) \in Int
    <2>1. n < SuperNodeSize - 1 \/ n >= SuperNodeSize - 1
        BY SuperFacts
    <2>3. 3 + (n - 1) * 2 + endfan \in Int /\ 3 + (SuperNodeSize - 2) * 2 + endfan \in Int
        BY <1>1, SuperFacts
    <2> QED BY <1>1, <2>3, SuperFacts DEF PortCount
<1> QED BY <1>2, <1>3, <1>4 DEF EndCount

\* From the invariant: the types.
LEMMA IInvHyTyped == HyIInv => HybridDjTypeOK
<1> SUFFICES ASSUME HyIInv PROVE HybridDjTypeOK
    OBVIOUS
<1>0. 0 \in {0, 1} /\ NoBits \in [0 .. 31 -> {0, 1}]
    BY DEF NoBits
<1>1. CASE HySearch
    <2>1. DjTypeOK /\ TailInit
        BY <1>1 DEF HySearch, DjTyped
    <2>2. djI \in 0 .. Nodes + 2 /\ djJ \in Slot
        BY <2>1, SizesFacts DEF DjTypeOK
    <2> QED BY <1>0, <2>1, <2>2 DEF TailInit, HybridDjTypeOK
<1>2. CASE HyScan
    BY <1>0, <1>2, SizesFacts DEF HyScan, HybridDjTypeOK
<1>3. CASE HyFans /\ HyBits
    <2>1. djBitInput \in [0 .. 31 -> {0, 1}]
        <3>1. ASSUME NEW x \in Int, NEW b \in Nat PROVE BitOf(x, b) \in {0, 1}
            <4>1. Two[b] \in Nat /\ Two[b] > 0
                BY TwoPositive
            <4> DEFINE t == Two[b]
            <4> HIDE DEF t
            <4>2. x \div t \in Int
                BY <4>1 DEF t
            <4>3. (x \div t) % 2 \in {0, 1}
                BY <4>2
            <4> QED BY <4>3 DEF BitOf, t
        <3>2. \A b \in 0 .. 31 : b \in Nat /\ (~(b < 16) => b - 16 \in Nat)
            OBVIOUS
        <3>3. StartCount \in Int /\ EndCount \in Int
            BY <1>3, CountsTyped
        <3>4. ASSUME NEW b \in 0 .. 31
              PROVE  (IF b < 16 THEN BitOf(StartCount, b) ELSE BitOf(EndCount, b - 16)) \in {0, 1}
            BY <3>1, <3>2, <3>3
        <3>5. [b \in 0 .. 31 |-> IF b < 16 THEN BitOf(StartCount, b) ELSE BitOf(EndCount, b - 16)]
                 \in [0 .. 31 -> {0, 1}]
            BY <3>4
        <3> QED BY <1>0, <1>3, <3>5 DEF HyBits
    <2> QED BY <1>3, <2>1, SizesFacts DEF HyFans, HybridDjTypeOK
<1> QED BY <1>1, <1>2, <1>3 DEF HyIInv

\* From the invariant: the number told is that of the port.
LEMMA IInvEndIsPort == HyIInv => EndIsPort
<1> SUFFICES ASSUME HyIInv, Finished,
                    NEW k \in SuperPlaces, k > 0, k < Nodes - 1,
                    \A m \in SuperPlaces : m <= k,
                    PortTaken(Paths[k], Paths[k + 1])
             PROVE  /\ Named(16) # <<>>
                    /\ Named(16)[1] = Paths[k]
                    /\ djInput.connections[Paths[k]][Named(16)[2]] = Paths[k + 1]
    BY DEF EndIsPort
<1>1. HyFans /\ HyBits /\ djI = Nodes + 2
    BY SizesFacts DEF HyIInv, HySearch, HyScan, DjTyped, DjTypeOK, Finished
<1>2. SuperPlaces = SuperAt(Paths)
    BY DEF SuperPlaces, SuperAt, Super
<1>3. Taken(djInput, Paths[k], Paths[k + 1])
    BY DEF PortTaken, HasPort, Taken
<1>4. /\ end = Paths[k] /\ endfan \in Slot /\ djInput.connections[end][endfan] = Paths[k + 1]
      /\ \E q \in 1 .. Len(Ports) : Ports[q] = <<end, endfan>>
    BY <1>1, <1>2, <1>3 DEF HyFans, FanHolds
<1>5. PICK q \in 1 .. Len(Ports) : Ports[q] = <<end, endfan>>
    BY <1>4
<1>6. PICK n \in FirstSuperNode .. Nodes - 1, e \in 0 .. 2 :
          Ports[q] = <<n, e>> /\ PortCount(n - FirstSuperNode, e) = q - 1
    BY PortsNumbered
<1>7. EndCount = q - 1
    <2>1. n = end /\ e = endfan
        BY <1>5, <1>6
    <2> QED BY <1>6, <2>1 DEF EndCount, FirstSuperNode
<1>8. q - 1 \in Nat /\ q - 1 < Two[16] /\ q - 1 < Len(Ports) /\ (q - 1) + 1 = q
    <2>1. Len(Ports) \in Nat /\ Len(Ports) = 2 * SuperNodeSize + 2
        BY PortsLength
    <2>2. Len(Ports) <= Two[16]
        BY <2>1, SuperFacts
    <2>3. Two[16] \in Nat
        BY TwoPositive
    <2>4. q \in Nat /\ q >= 1 /\ q <= Len(Ports)
        BY <2>1
    <2> QED BY <2>1, <2>2, <2>3, <2>4
<1>9. Number(16) = q - 1
    <2> DEFINE count == EndCount
    <2>1. djBitInput = [b \in 0 .. 31 |-> IF b < 16 THEN BitOf(StartCount, b) ELSE BitOf(count, b - 16)]
        BY <1>1, SizesFacts DEF HyBits
    <2> HIDE DEF count
    <2>2. ASSUME NEW j \in 0 .. 15 PROVE djBitInput[16 + j] = BitOf(count, j)
        <3>1. 16 + j \in 0 .. 31 /\ ~(16 + j < 16) /\ (16 + j) - 16 = j
            OBVIOUS
        <3> QED BY <2>1, <3>1
    <2>3. Number(16) = FromBits([j \in 0 .. 15 |-> BitOf(count, j)], 16)
        BY <2>2 DEF Number
    <2>4. 16 - 1 = 15 /\ 16 \in Nat
        OBVIOUS
    <2>5. count \in Nat
        BY <1>7, <1>8 DEF count
    <2>6. FromBits([j \in 0 .. 15 |-> BitOf(count, j)], 16) = count % Two[16]
        <3>1. FromBits([j \in 0 .. 16 - 1 |-> BitOf(count, j)], 16) = count % Two[16]
            BY <2>4, <2>5, BitsGiveBack
        <3> QED BY <2>4, <3>1
    <2> DEFINE t == Two[16]
    <2>7. t \in Nat /\ t > 0 /\ count < t
        BY <1>7, <1>8, TwoPositive DEF count
    <2> HIDE DEF t
    <2>8. count % t = count
        BY <2>5, <2>7
    <2> QED BY <1>7, <2>3, <2>6, <2>8 DEF t, count
<1>10. Named(16) = Ports[q]
    BY <1>8, <1>9 DEF Named
<1> QED BY <1>4, <1>5, <1>10

\* Whatever the graph and wherever the path leaves the super node, the number
\* told to the circuit for the end is that of the port taken.
THEOREM HybridDijkstraNames == HybridDjSpec => [](HybridDjTypeOK /\ EndIsPort)
<1>1. HybridDjInit => HyIInv
    BY HyInitOK DEF HybridDjInit, DjGiven
<1> QED BY <1>1, HyStep, IInvHyTyped, IInvEndIsPort, PTL DEF HybridDjSpec

\* The hybrid program searches as the plain one does, and keeps what it found.
HyFound == HyIInv /\ ShortestPath /\ (djPc # "done" => DjIInv)

\* The search of the hybrid program starts as that of the plain one.
LEMMA HyFoundInit == DjGiven /\ DjStart /\ TailInit => HyFound
BY HyInitOK, DjIInvInit, IInvShortestPath DEF HyFound

\* What comes after the search changes nothing that was found.
LEMMA HyFoundStep == HyFound /\ [HybridDjNext]_hybridDjVars => HyFound'
<1> SUFFICES ASSUME HyFound, [HybridDjNext]_hybridDjVars PROVE HyFound'
    OBVIOUS
<1>1. HyIInv'
    BY HyStep DEF HyFound
<1>2. CASE djPc # "done"
    <2>1. [DjNext]_djVars
        <3>1. djI # Nodes + 1
            BY <1>2, SizesFacts DEF HyFound, DjIInv, DjSearchInv, DjTyped, DjTypeOK
        <3> QED BY <1>2, <3>1 DEF HybridDjNext, Scan, Fans, CountBits, Search, Traced, DjNext, hybridDjVars, djVars
    <2>2. DjIInv'
        BY <1>2, <2>1, DjIInvStep DEF HyFound
    <2>3. ShortestPath'
        BY <2>2, IInvShortestPath, PTL
    <2> QED BY <1>1, <2>2, <2>3 DEF HyFound
<1>3. CASE djPc = "done"
    <2>1. UNCHANGED <<djNaive, djInput, currentweight, inqueue, NodeLinks, Paths, djPc>>
        BY <1>3 DEF HybridDjNext, Search, Select, Relax, Turn, Traced, Trace, Scan, Fans, CountBits, hybridDjVars, djVars
    <2>2. Reach' = Reach /\ StartWeight' = StartWeight
        BY <2>1, SameReach DEF StartWeight
    <2>3. ShortestPath'
        BY <2>1, <2>2 DEF HyFound, ShortestPath, LinksAccount, QueueDrained, PathGiven, Positive, IsEdge, Distance
    <2> QED BY <1>1, <1>3, <2>1, <2>3 DEF HyFound
<1> QED BY <1>2, <1>3

\* The hybrid program finds a shortest path as the others do.
THEOREM HybridDijkstraFinds == HybridDjSpec => []ShortestPath
<1>1. HybridDjInit => HyFound
    BY HyFoundInit DEF HybridDjInit, DjGiven
<1>2. HyFound => ShortestPath
    BY DEF HyFound
<1> QED BY <1>1, <1>2, HyFoundStep, PTL DEF HybridDjSpec
=============================================================================
