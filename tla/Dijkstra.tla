------------------------------ MODULE Dijkstra ------------------------------
(* The shortest path program of the enclave (sfe_dj_entry) and its plain     *)
(* twin (sfe_naive_dj_entry).  The sender brings a graph, four outgoing      *)
(* edges a node; the evaluator brings the two ends.  The program runs a      *)
(* fixed number of iterations, so that its length tells nothing of the       *)
(* graph, and gives the nodes of the path, backwards from the end.           *)
EXTENDS Integers, Sequences, FiniteSets

CONSTANTS
    Nodes,         \* sfe_dj_Nodes
    Edges,         \* sfe_dj_Edges_per_node
    MaxWeight,     \* sfe_dj_MaxWeight
    Inputs         \* records: edges, connections, startnode, endnode

Node == 0 .. Nodes - 1
Slot == 0 .. Edges - 1
NoNode == Nodes    \* any number that is no node: 0xFFFF, 0xFFFFFF

ASSUME DjSizesAssumption == {Nodes, Edges, MaxWeight} \subseteq Nat \ {0}

ASSUME InputAssumption ==
    \A g \in Inputs :
        /\ g.edges \in [Node -> [Slot -> Nat]]
        /\ g.connections \in [Node -> [Slot -> Node \cup {NoNode}]]
        /\ g.startnode \in Node /\ g.endnode \in Node

VARIABLES
    djNaive,                 \* which of the two programs runs
    djInput,                    \* the inputs of both parties
    currentweight, inqueue, NodeLinks, Paths,
    djPc,                    \* "select", "relax", "trace", "done"
    djI,                     \* the outer loop's counter
    djJ,                     \* the edge reached
    selectedNode, selectedWeight,
    nodeToGet

djVars == <<djNaive, djInput, currentweight, inqueue, NodeLinks, Paths, djPc, djI, djJ,
          selectedNode, selectedWeight, nodeToGet>>

DjTypeOK ==
    /\ currentweight \in [Node -> 0 .. MaxWeight]
    /\ inqueue \in [Node -> BOOLEAN]
    /\ NodeLinks \in [Node -> Node \cup {NoNode}]
    /\ Paths \in [Node -> Node \cup {NoNode}]
    /\ djPc \in {"select", "relax", "trace", "done"}
    /\ djI \in 0 .. Nodes
    /\ djJ \in Slot
    /\ selectedNode \in Node \cup {NoNode}
    /\ selectedWeight \in 0 .. MaxWeight
    /\ nodeToGet \in Node \cup {NoNode}

\* The plain form starts with weight 1 where the oblivious one has 0.
StartWeight == IF djNaive THEN 1 ELSE 0

\* The search starts, on the input and in the form given.
DjStart ==
    /\ currentweight = [k \in Node |-> IF k = djInput.startnode THEN StartWeight ELSE MaxWeight]
    /\ inqueue = [k \in Node |-> k = djInput.startnode]
    /\ NodeLinks = [k \in Node |-> NoNode]
    /\ Paths = [k \in Node |-> NoNode]
    /\ djPc = "select"
    /\ djI = 0 /\ djJ = 0
    /\ selectedNode = NoNode /\ selectedWeight = MaxWeight
    /\ nodeToGet = NoNode

DjInit == djNaive \in BOOLEAN /\ djInput \in Inputs /\ DjStart

\* The nodes whose weight the selecting loop ends with.
Lightest ==
    {k \in Node :
        /\ inqueue[k] /\ currentweight[k] < MaxWeight
        /\ \A m \in Node : inqueue[m] => currentweight[k] <= currentweight[m]}

\* Variant: the order of the weights is not looked at.
AnyQueued ==
    LET Queued == {k \in Node : inqueue[k] /\ currentweight[k] < MaxWeight}
    IN  IF Queued = {} THEN NoNode ELSE CHOOSE k \in Queued : \A m \in Queued : k <= m

\* The selecting loop: the first of the lightest nodes in the queue, if any.
Selected ==
    IF Lightest = {} THEN NoNode
    ELSE CHOOSE k \in Lightest : \A m \in Lightest : k <= m

\* The selection, and the selected node leaves the queue.
Select ==
    /\ djPc = "select" /\ djI < Nodes
    /\ selectedNode' = Selected
    /\ selectedWeight' = IF Selected = NoNode THEN MaxWeight ELSE currentweight[Selected]
    /\ inqueue' = [k \in Node |-> inqueue[k] /\ k # Selected]
    /\ djJ' = 0
    /\ djPc' = "relax"
    /\ UNCHANGED <<djNaive, djInput, currentweight, NodeLinks, Paths, djI, nodeToGet>>

\* What edge j of the selected node leads to; nothing without a selected node.
Connection ==
    IF selectedNode = NoNode THEN NoNode ELSE djInput.connections[selectedNode][djJ]

NewWeight == selectedWeight + djInput.edges[selectedNode][djJ]

\* Variant: what was found before is forgotten.
Forgets(old, new) == old < 0

\* The comparison that keeps the old weight and link: an equal weight is a
\* change too.
Keeps(old, new) == old < new

\* The loop goes on to the next edge or the next iteration.
NextEdge ==
    IF djJ + 1 < Edges
    THEN djPc' = "relax" /\ djJ' = djJ + 1 /\ UNCHANGED djI
    ELSE djPc' = "select" /\ djJ' = 0 /\ djI' = djI + 1

\* One edge in the oblivious form: every node is passed over, and the one the
\* edge leads to takes what was selected.
Relax ==
    /\ djPc = "relax" /\ ~djNaive
    /\ LET hit(k)  == k = Connection
           keep(k) == Keeps(currentweight[k], NewWeight)
       IN  /\ currentweight' = [k \in Node |-> IF hit(k) /\ ~keep(k) THEN NewWeight
                                               ELSE currentweight[k]]
           /\ NodeLinks' = [k \in Node |-> IF hit(k) /\ ~keep(k) THEN selectedNode
                                           ELSE NodeLinks[k]]
           /\ inqueue' = [k \in Node |-> inqueue[k] \/ (hit(k) /\ ~keep(k))]
    /\ NextEdge
    /\ UNCHANGED <<djNaive, djInput, Paths, selectedNode, selectedWeight, nodeToGet>>

\* One edge in the plain form: `continue' when it leads nowhere.
NaiveRelax ==
    /\ djPc = "relax" /\ djNaive
    /\ LET c == Connection
       IN  IF c = NoNode \/ Keeps(currentweight[c], NewWeight)
           THEN UNCHANGED <<currentweight, NodeLinks, inqueue>>
           ELSE /\ currentweight' = [currentweight EXCEPT ![c] = NewWeight]
                /\ NodeLinks' = [NodeLinks EXCEPT ![c] = selectedNode]
                /\ inqueue' = [inqueue EXCEPT ![c] = TRUE]
    /\ NextEdge
    /\ UNCHANGED <<djNaive, djInput, Paths, selectedNode, selectedWeight, nodeToGet>>

\* The iterations are over: the path is read off the links.
Turn ==
    /\ djPc = "select" /\ djI = Nodes
    /\ djPc' = "trace"
    /\ djI' = 0
    /\ nodeToGet' = djInput.endnode
    /\ selectedNode' = NoNode /\ selectedWeight' = MaxWeight
    /\ UNCHANGED <<djNaive, djInput, currentweight, inqueue, NodeLinks, Paths, djJ>>

\* Variant: without goit the pass over the nodes follows a link to a later
\* node at once.
StepTwice(n) ==
    LET m == NodeLinks[n] IN IF m # NoNode /\ m > n THEN NodeLinks[m] ELSE m

\* One pass of the reading loop: goit stops it after the first node found.
StepBack(n) == NodeLinks[n]

Trace ==
    /\ djPc = "trace" /\ djI < Nodes
    /\ IF nodeToGet \in Node
       THEN /\ Paths' = [Paths EXCEPT ![djI] = nodeToGet]
            /\ nodeToGet' = StepBack(nodeToGet)
       ELSE UNCHANGED <<Paths, nodeToGet>>
    /\ djI' = djI + 1
    /\ djPc' = IF djI + 1 = Nodes THEN "done" ELSE "trace"
    /\ UNCHANGED <<djNaive, djInput, currentweight, inqueue, NodeLinks, djJ, selectedNode, selectedWeight>>

DjNext == Select \/ Relax \/ NaiveRelax \/ Turn \/ Trace

DjSpec == DjInit /\ [][DjNext]_djVars

-----------------------------------------------------------------------------
\* The edges of the graph.
IsEdge(u, v, w) == \E s \in Slot : djInput.connections[u][s] = v /\ djInput.edges[u][s] = w

\* Edges that weigh nothing are left out: an equal weight counts as a change,
\* so they would be passed back and forth until the iterations are used up.
Positive == \A u \in Node, s \in Slot : djInput.connections[u][s] # NoNode => djInput.edges[u][s] > 0

\* The edges to node k.
EdgesTo(k) == {e \in Node \X Slot : djInput.connections[e[1]][e[2]] = k}

\* The weights of the walks of at most n edges from the start, a function of n.
Reach[n \in 0 .. Nodes] ==
    IF n = 0 THEN [k \in Node |-> IF k = djInput.startnode THEN {0} ELSE {}]
    ELSE LET before == Reach[n - 1]
         IN  [k \in Node |-> before[k] \cup
                UNION {{d + djInput.edges[e[1]][e[2]] : d \in before[e[1]]} : e \in EdgesTo(k)}]

\* The weight of the shortest path to k, or MaxWeight.
Distance(k) ==
    LET D == Reach[Nodes - 1][k] \cup {MaxWeight}
    IN  CHOOSE d \in D : \A e \in D : d <= e

\* At every moment the link of a node that has been reached is an edge from a
\* node that has its final weight, and accounts for the node's weight exactly.
LinksAccount ==
    \A k \in Node :
        Positive /\ currentweight[k] < MaxWeight /\ k # djInput.startnode =>
            LET u == NodeLinks[k]
            IN  /\ u \in Node
                /\ ~inqueue[u]
                /\ IsEdge(u, k, currentweight[k] - currentweight[u])

\* As many iterations as there are nodes are enough: none is left in the queue.
QueueDrained ==
    djPc = "trace" /\ Positive =>
        \A k \in Node : inqueue[k] => currentweight[k] >= MaxWeight

\* The nodes given are a path of the graph, read backwards from the end to the
\* start, whose weight is the distance of the two; when there is none, the end
\* stands alone.
PathGiven ==
    djPc = "done" /\ Positive =>
        LET n == Cardinality({k \in Node : Paths[k] # NoNode})
            d == Distance(djInput.endnode)
        IN  /\ n > 0 /\ Paths[0] = djInput.endnode
            /\ \A k \in 0 .. n - 1 : Paths[k] # NoNode
            /\ currentweight[djInput.endnode] =
                  IF d + StartWeight < MaxWeight THEN d + StartWeight ELSE MaxWeight
            /\ d < MaxWeight - StartWeight =>
                  /\ Paths[n - 1] = djInput.startnode
                  /\ \A k \in 1 .. n - 1 :
                        IsEdge(Paths[k], Paths[k - 1],
                               currentweight[Paths[k - 1]] - currentweight[Paths[k]])
            /\ Reach[Nodes - 1][djInput.endnode] = {} => n = 1

\* The program finds a shortest path, in the iterations it allows itself.
ShortestPath == LinksAccount /\ QueueDrained /\ PathGiven
=============================================================================
