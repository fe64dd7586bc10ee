------------------------------ MODULE TreeOram ------------------------------
(* The tree ORAM of the enclave (classes ORAMpre and ORAM of mysfe.cpp): two *)
(* binary search trees with parent pointers hold the cells; every request    *)
(* walks both trees for several indices of which one is the real one, then   *)
(* takes every node it touched out of its tree, permutes what the nodes hold *)
(* and puts the contents back, in fresh nodes, in trees chosen at random.    *)
(*                                                                           *)
(* A node is named by the index it holds: contents move between nodes only   *)
(* while the nodes are out of the trees.                                     *)
EXTENDS Integers, Sequences, FiniteSets, SequencesExt, Bits

CONSTANTS
    Size,      \* oramsize
    Value,     \* what a cell can hold
    Zero,      \* the value the constructor stores
    NotPresent,\* NOTPRESENT
    Chunk      \* nodes per createNewMemory (10)

ASSUME SizeAssumption == Size \in Nat /\ Size >= 2
ASSUME ChunkAssumption == Chunk \in Nat \ {0}
ASSUME ValueAssumption == Zero \in Value /\ NotPresent \notin Value

VARIABLES
    heap,      \* the trees: root of each, and every node's pointers
    data,      \* what the node of each index holds
    pool,      \* the blank nodes of each tree (ORAMpre::data)
    touched,   \* toBeReordered of each tree
    waiting,   \* the contents that are in no tree during oramclean
    phase,     \* what the request under way is doing
    req,       \* the request: kind, index, value
    j,         \* the query loop's counter
    realindex, \* the query that is the real one
    ans        \* the local `value' of get

vars == <<heap, data, pool, touched, waiting, phase, req, j, realindex, ans>>

Index == 0 .. Size - 1
Trees == {0, 1}
Nil == -1
Link == Index \cup {Nil}

Gets == [kind : {"get"}, index : Index, value : {Zero}]
Sets == [kind : {"set"}, index : Index, value : Value]

\* The number of queries of one request, (int)log2(oramsize).
num == CHOOSE n \in 0 .. Size : Two[n] <= Size /\ Size < Two[n + 1]

\* What rand() % num can be.  rand() is abs() of a random int, and abs of
\* the least int is that int: its remainder is negative or zero.
RealIndexes == (0 .. num - 1) \cup {-((Two[30] % num) * 2 % num)}

-----------------------------------------------------------------------------
\* Assigning through a pointer that may be null.
Point(f, n, x) == IF n = Nil THEN f ELSE [f EXCEPT ![n] = x]

\* getBlankNode clears the pointers of the nodes it hands out.
Blank(h, S) ==
    LET clear(f) == [i \in Index |-> IF i \in S THEN Nil ELSE f[i]]
    IN  [h EXCEPT !.left = clear(@), !.right = clear(@), !.parent = clear(@)]

\* The nodes a descent from n on meets, each the next of the one before.  No
\* descent is longer than all the nodes.
Path(n, next) ==
    LET at[k \in 0 .. Size] ==
            IF k = 0 THEN n
            ELSE LET m == at[k - 1] IN IF m = Nil THEN Nil ELSE next[m]
        d == CHOOSE d \in 0 .. Size : at[d] = Nil /\ \A k \in 0 .. d - 1 : at[k] # Nil
    IN  [k \in 1 .. d |-> at[k - 1]]

\* Where a descent that looks for i goes on: at i itself, where the coin says.
Toward(h, i, coin) ==
    [m \in Index |-> IF i > m \/ (i = m /\ coin) THEN h.right[m] ELSE h.left[m]]

\* putNode_decend: below the node p, an index the tree already has is dropped.
PutBelow(h, n, p) ==
    LET end == Last(Path(p, [Toward(h, n, TRUE) EXCEPT ![n] = Nil]))
    IN  CASE n > end -> [h EXCEPT !.right[end] = n, !.parent[n] = end]
          [] n < end -> [h EXCEPT !.left[end] = n, !.parent[n] = end]
          [] OTHER -> h

\* putNode
PutNode(h, t, n) ==
    IF h.root[t] = Nil
    THEN [h EXCEPT !.root[t] = n, !.parent[n] = Nil]
    ELSE PutBelow(h, n, h.root[t])

\* findget_decend, and findset_decend, which goes the same way: the nodes a
\* query passes.  It does not stop at the index it looks for but goes on below
\* it, to the right when the coin says so.
Walk(h, n, i, coin) == Path(n, Toward(h, i, coin))

\* minNode: down to the left as far as there are nodes.
minNode(h, n) == Last(Path(n, h.left))

\* Variant: the child does not learn its new parent.
SpliceOneWay(h, t, c, x) ==
    LET p == h.parent[c]
    IN  CASE p = Nil -> [h EXCEPT !.root[t] = x]
          [] p # Nil /\ h.left[p] = c -> [h EXCEPT !.left[p] = x]
          [] OTHER -> [h EXCEPT !.right[p] = x]

\* removeNode, cases 1 and 2: the only child x takes the place of c.
Splice(h, t, c, x) ==
    LET p == h.parent[c]
    IN  CASE p = Nil ->
               [h EXCEPT !.root[t] = x, !.parent = Point(@, x, Nil)]
          [] p # Nil /\ h.left[p] = c ->
               [h EXCEPT !.left[p] = x, !.parent = Point(@, x, p)]
          [] p # Nil /\ h.left[p] # c /\ h.right[p] = c ->
               [h EXCEPT !.right[p] = x, !.parent = Point(@, x, p)]
          [] OTHER -> h

\* Variant: the right subtree of m is forgotten.
SucceedDropsChild(h, t, c) ==
    LET m   == minNode(h, h.right[c])
        top == Splice(h, t, c, m)
    IN  [top EXCEPT
           !.left[m] = h.left[c],
           !.right[m] = IF h.right[c] = m THEN h.right[m] ELSE h.right[c],
           !.left[h.parent[m]] = IF @ = m THEN Nil ELSE @,
           !.parent[h.left[c]] = m,
           !.parent[h.right[c]] = IF h.right[c] = m THEN @ ELSE m]

\* removeNode, two children: the least node m of the right subtree takes the
\* place of c, and its own right subtree the place of m.
Succeed(h, t, c) ==
    LET m    == minNode(h, h.right[c])
        mr   == h.right[m]
        mp   == h.parent[m]
        p    == h.parent[c]
        top  == Splice(h, t, c, m)
        kids == [top EXCEPT
                   !.left[m]   = h.left[c],
                   !.right[m]  = IF h.right[c] = m THEN mr ELSE h.right[c],
                   !.parent    = IF h.right[c] = m
                                 THEN [@ EXCEPT ![h.left[c]] = m]
                                 ELSE [@ EXCEPT ![h.left[c]] = m, ![h.right[c]] = m]]
    IN  IF kids.left[mp] = m
        THEN [kids EXCEPT !.left[mp] = mr, !.parent = Point(@, mr, mp)]
        ELSE kids

\* removeNode: looked for by index from the root; nothing when it is absent.
removeNode(h, t, c) ==
    CASE c \notin ToSet(Walk(h, h.root[t], c, TRUE)) -> h
      [] h.left[c] = Nil -> Splice(h, t, c, h.right[c])
      [] h.left[c] # Nil /\ h.right[c] = Nil -> Splice(h, t, c, h.left[c])
      [] OTHER -> Succeed(h, t, c)

-----------------------------------------------------------------------------
\* addNode and add_decend: a blank node is put where the index belongs, or
\* nowhere when the tree has the index.
addNode(h, t, n) == PutNode(Blank(h, {n}), t, n)

EmptyHeap == [root   |-> [t \in Trees |-> Nil],
              left   |-> [i \in Index |-> Nil],
              right  |-> [i \in Index |-> Nil],
              parent |-> [i \in Index |-> Nil]]

\* Variant: the pool is not looked at first.
AfterBlanksUnchecked(p, n) == p - n

\* The pool of a tree after it has handed out n nodes: createNewMemory adds a
\* chunk each time the pool is empty.
AfterBlanks(p, n) ==
    IF p >= n THEN p - n
    ELSE p + Chunk * ((n - p + Chunk - 1) \div Chunk) - n

\* How many of n things numbered from 0 go to tree t when number i goes to
\* tree i % NUMTREES.
ShareOf(t, n) == (n + 1 - t) \div 2

\* Variant: all old nodes go to the first pool.
GiveBackFirst(t, p, n) == IF t = 0 THEN p + n ELSE p

\* The pool of tree t after it gets its share of n old nodes.
GiveBack(t, p, n) == p + ShareOf(t, n)

\* The constructor deals the shuffled indices to the trees in turn.
Dealt(order) ==
    LET built[k \in 0 .. Size] ==
            IF k = 0 THEN EmptyHeap ELSE addNode(built[k - 1], (k - 1) % 2, order[k])
    IN  built[Size]

InitWith(order) ==
    /\ heap = Dealt(order)
    /\ data = [i \in Index |-> Zero]
    /\ pool = [t \in Trees |-> AfterBlanks(0, ShareOf(t, Size))]
    /\ touched = [t \in Trees |-> <<>>]
    /\ waiting = {}
    /\ phase = "idle"
    /\ req \in {[kind |-> "get", index |-> 0, value |-> Zero]}
    /\ j = 0
    /\ realindex = 0
    /\ ans = NotPresent

Init == \E order \in SetToSeqs(Index) : InitWith(order)

\* ORAM::get and ORAM::set up to the query loop.
Begin(r) ==
    /\ phase = "idle"
    /\ phase' = "query"
    /\ req' = r
    /\ j' = 0
    /\ realindex' \in RealIndexes
    /\ ans' = NotPresent
    /\ UNCHANGED <<heap, data, pool, touched, waiting>>

\* Variant: `added' is not looked at.
TouchTwice(seen, path) == seen \o path

\* The nodes a walk adds to toBeReordered: those whose `added' is not set.
Touch(seen, path) ==
    LET added[k \in 0 .. Len(path)] ==
            IF k = 0 THEN seen
            ELSE LET s == added[k - 1]
                 IN  IF path[k] \in ToSet(s) THEN s ELSE Append(s, path[k])
    IN  added[Len(path)]

\* One iteration of the query loop.  Both trees are searched for q, which is
\* the index asked for when this is the real query and any index otherwise.
Search(q, path) ==
    /\ phase = "query"
    /\ j = realindex => q = req.index
    /\ touched' = [t \in Trees |-> Touch(touched[t], path[t])]
    /\ IF j + 1 = num
       THEN phase' = "remove" /\ j' = 0 /\ realindex' = 0
       ELSE phase' = "query" /\ j' = j + 1 /\ UNCHANGED realindex
    /\ UNCHANGED <<heap, pool, waiting, req>>

\* ORAM::get: the trees answer NOTPRESENT when they lack q, and only what the
\* real query finds is kept.
GetQuery(q, coins) ==
    /\ req.kind = "get"
    /\ LET path == [t \in Trees |-> Walk(heap, heap.root[t], q, coins[t])]
       IN  /\ Search(q, path)
           /\ ans' = IF j = realindex /\ \E t \in Trees : q \in ToSet(path[t])
                     THEN data[q] ELSE ans
    /\ UNCHANGED data

\* Variant: the other queries of a set write too.
StoredAlways(q, path, isreal) ==
    [i \in Index |-> IF i = q /\ q \in ToSet(path[0]) \cup ToSet(path[1])
                     THEN req.value ELSE data[i]]

\* findset_decend: the node of index q, if the walk meets it, takes the value
\* when the query is the real one.
Stored(q, path, isreal) ==
    [i \in Index |-> IF isreal /\ i = q /\ q \in ToSet(path[0]) \cup ToSet(path[1])
                     THEN req.value ELSE data[i]]

\* ORAM::set.
SetQuery(q, coins) ==
    /\ req.kind = "set"
    /\ LET path == [t \in Trees |-> Walk(heap, heap.root[t], q, coins[t])]
       IN  /\ Search(q, path)
           /\ data' = Stored(q, path, j = realindex)
    /\ UNCHANGED ans

\* oramclean: a touched node leaves its tree.
TakeOut(t) ==
    /\ phase = "remove"
    /\ touched[t] # <<>>
    /\ t = 1 => touched[0] = <<>>
    /\ heap' = removeNode(heap, t, Head(touched[t]))
    /\ touched' = [touched EXCEPT ![t] = Tail(@)]
    /\ waiting' = waiting \cup {Head(touched[t])}
    /\ UNCHANGED <<data, pool, phase, req, j, realindex, ans>>

\* oramclean: blank nodes are taken for all contents, then the old nodes are
\* given back.  Which content goes to which node is shuffled, so that Put
\* takes the contents in any order.
Renew ==
    /\ phase = "remove"
    /\ \A t \in Trees : touched[t] = <<>>
    /\ phase' = "put"
    /\ pool' = [t \in Trees |->
                  LET n == Cardinality(waiting)
                  IN  GiveBack(t, AfterBlanks(pool[t], ShareOf(t, n)), n)]
    /\ heap' = Blank(heap, waiting)
    /\ UNCHANGED <<data, touched, waiting, req, j, realindex, ans>>

\* oramclean: a content is put back, in either tree.
Put(i, t) ==
    /\ phase = "put"
    /\ i \in waiting
    /\ heap' = PutNode(heap, t, i)
    /\ waiting' = waiting \ {i}
    /\ phase' = IF waiting' = {} THEN "done" ELSE "put"
    /\ UNCHANGED <<data, pool, touched, req, j, realindex, ans>>

\* get and set return.
Return ==
    /\ phase = "done"
    /\ phase' = "idle"
    /\ UNCHANGED <<heap, data, pool, touched, waiting, req, j, realindex, ans>>

Next ==
    \/ \E r \in Gets \cup Sets : Begin(r)
    \/ \E q \in Index, coins \in [Trees -> BOOLEAN] : GetQuery(q, coins)
    \/ \E q \in Index, coins \in [Trees -> BOOLEAN] : SetQuery(q, coins)
    \/ \E t \in Trees : TakeOut(t)
    \/ Renew
    \/ \E i \in Index, t \in Trees : Put(i, t)
    \/ Return

Spec == Init /\ [][Next]_vars
-----------------------------------------------------------------------------
OramTypeOK ==
    /\ heap \in [root : [Trees -> Link], left : [Index -> Link],
                 right : [Index -> Link], parent : [Index -> Link]]
    /\ data \in [Index -> Value]
    /\ pool \in [Trees -> Nat]
    /\ touched \in [Trees -> Seq(Index)]
    /\ waiting \subseteq Index
    /\ phase \in {"idle", "query", "remove", "put", "done"}
    /\ req \in Gets \cup Sets
    /\ j \in 0 .. num - 1
    /\ realindex \in RealIndexes
    /\ ans \in Value \cup {NotPresent}

\* The nodes below n, n included: no tree is deeper than all the nodes.
Below(h, n) ==
    LET below[k \in 0 .. Size] ==
            IF k = 0 THEN [m \in Link |-> {}]
            ELSE LET b == below[k - 1]
                 IN  [m \in Link |-> IF m = Nil THEN {}
                                     ELSE {m} \cup b[h.left[m]] \cup b[h.right[m]]]
    IN  below[Size][n]

InTree(t) == Below(heap, heap.root[t])

\* Every index is in exactly one place: in one of the trees or, while
\* oramclean runs, among the contents taken out; and it is listed for that
\* once, however many of a request's walks met its node.
OnePlace ==
    /\ InTree(0) \cap InTree(1) = {}
    /\ waiting \cap (InTree(0) \cup InTree(1)) = {}
    /\ waiting \cup InTree(0) \cup InTree(1) = Index
    /\ \A t \in Trees : IsInjective(touched[t]) /\ ToSet(touched[t]) \subseteq InTree(t)

\* Both trees stay search trees whose parent pointers lead back, and hold
\* together with the contents taken out every index once: whatever the order
\* of removals and insertions, the pointers agree.
SearchTrees ==
    /\ OnePlace
    /\ \A t \in Trees :
        /\ heap.root[t] # Nil => heap.parent[heap.root[t]] = Nil
        /\ \A n \in InTree(t) :
             /\ \A m \in Below(heap, heap.left[n]) : m < n
             /\ \A m \in Below(heap, heap.right[n]) : m > n
             /\ heap.left[n] # Nil => heap.parent[heap.left[n]] = n
             /\ heap.right[n] # Nil => heap.parent[heap.right[n]] = n

\* However many requests there are, the memory does not grow: a tree gives
\* its blank nodes back, and a new chunk is made only when one request
\* needs more than are left.
PoolBounded == \A t \in Trees : pool[t] < ShareOf(t, Size) + Chunk

\* Whether a request may have no real query among those it makes: at three
\* queries it may, at nine too, which the program's 900 cells have.
Lossy == ~(RealIndexes \subseteq 0 .. num - 1)

\* A request takes effect with the real query; one that has none is given up with
\* the last.
stage ==
    CASE phase = "idle" -> "idle"
      [] phase = "query" /\ (j <= realindex \/ realindex < 0) -> "asked"
      [] OTHER -> "done"

Array == INSTANCE OramArray WITH mem <- data, NoAnswer <- NotPresent

\* To whoever calls get and set, the two trees are an array: it loses requests
\* where the real query's position can be negative, and none anywhere else.
IsArray == Array!ArraySpec
=============================================================================
