--------------------------- MODULE HybridDijkstra ---------------------------
(* The shortest path program of the hybrid model (yao_dj_entry).  The last   *)
(* nodes form the super node, a chain whose inner way only the circuit       *)
(* knows.  The enclave finds the path, then tells the circuit by which ports *)
(* of the super node the path comes in and goes out: two numbers of 16 bits. *)
EXTENDS Dijkstra, Bits

CONSTANTS
    SuperNodeSize,     \* yao_dj_SuperNodeSize
    Garbage            \* what a local that was never written may hold

\* The nodes at the ends of the chain have three ports each, the others two;
\* their numbers fit 16 bits.
ASSUME SuperAssumption ==
    /\ SuperNodeSize \in 2 .. Nodes /\ Garbage \subseteq Nat
    /\ Edges > 2 /\ 2 * SuperNodeSize + 2 <= Two[16]

VARIABLES
    start, prestart,       \* the first super node of Paths and what precedes it
    end, postend,          \* the last one and what follows it
    postendtemp,
    started,
    startfan, endfan,      \* the edges that lead there
    djBitInput               \* the 32 bits for the circuit

tail == <<start, prestart, end, postend, postendtemp, started, startfan, endfan, djBitInput>>
hybridDjVars == <<djVars, tail>>

Unset == -1    \* never written

NoBits == [b \in 0 .. 31 |-> 0]

\* No local but `started' is initialised.
TailInit ==
    /\ start = Unset /\ prestart = Unset
    /\ end = Unset /\ postend = Unset /\ postendtemp = Unset
    /\ startfan = Unset /\ endfan = Unset
    /\ started = FALSE
    /\ djBitInput = NoBits

HybridDjInit == djNaive = FALSE /\ djInput \in Inputs /\ DjStart /\ TailInit

\* Everything up to Paths is the oblivious shortest path program.
Search ==
    /\ Select \/ Relax \/ Turn
    /\ UNCHANGED tail

\* The path is read; after it the scan begins.
Traced ==
    /\ Trace
    /\ UNCHANGED tail

InSuper(n) == n >= Nodes - SuperNodeSize /\ n < Nodes

Super(k) == InSuper(Paths[k])

\* Variant: what follows is taken from every later node of the path too.
AfterAny(k) == k > 0 /\ started'

\* Where postend is taken over; at the first place of the path it is not.
TakesPostend(k) == k > 0 /\ Super(k) /\ started'

FirstSuper(k) == ~started /\ Super(k)

\* One place of the path.  The place after the last keeps the temporary of the
\* place before; the temporary of the place before the first was never written,
\* so that prestart stays unwritten there.
Scan ==
    /\ djPc = "done" /\ djI = Nodes /\ djJ < Nodes
    /\ postendtemp' = IF djJ < Nodes - 1 THEN Paths[djJ + 1] ELSE postendtemp
    /\ prestart' = IF FirstSuper(djJ) /\ djJ > 0 THEN Paths[djJ - 1] ELSE prestart
    /\ start' = IF FirstSuper(djJ) THEN Paths[djJ] ELSE start
    /\ started' = (started \/ FirstSuper(djJ))
    /\ end' = IF Super(djJ) THEN Paths[djJ] ELSE end
    /\ postend' = IF TakesPostend(djJ) THEN postendtemp' ELSE postend
    /\ djJ' = djJ + 1
    /\ UNCHANGED <<djNaive, djInput, currentweight, inqueue, NodeLinks, Paths, djPc, djI,
                   selectedNode, selectedWeight, nodeToGet, startfan, endfan, djBitInput>>

\* The last edge of n that leads to m, if n is a node and has one.
FanTo(n, m, old) ==
    LET hits == IF n \in Node THEN {s \in Slot : djInput.connections[n][s] = m} ELSE {}
    IN  IF hits = {} THEN old ELSE CHOOSE s \in hits : \A t \in hits : t <= s

\* Reading a local gives what was written or anything.
ReadLocal(x, any) == IF x = Unset THEN any ELSE x

Fans ==
    /\ djPc = "done" /\ djI = Nodes /\ djJ = Nodes
    /\ \E a, b, c, d, e, f \in Garbage :
          /\ start' = ReadLocal(start, a) /\ prestart' = ReadLocal(prestart, b)
          /\ end' = ReadLocal(end, c) /\ postend' = ReadLocal(postend, d)
          /\ startfan' = FanTo(start', prestart', ReadLocal(startfan, e))
          /\ endfan' = FanTo(end', postend', ReadLocal(endfan, f))
    /\ djJ' = 0 /\ djI' = Nodes + 1
    /\ UNCHANGED <<djNaive, djInput, currentweight, inqueue, NodeLinks, Paths, djPc,
                   selectedNode, selectedWeight, nodeToGet, postendtemp, started, djBitInput>>

\* The number of a port: three on the first node of the super node, two on
\* each in the middle, three on the last.
PortCount(n, fan) ==
    CASE n = 0 -> fan
      [] n > 0 /\ n < SuperNodeSize - 1 -> 3 + (n - 1) * 2 + fan
      [] n >= SuperNodeSize - 1 -> 3 + (SuperNodeSize - 2) * 2 + fan
      [] OTHER -> 0

\* The last of the three assignments to startcount lacks the mask.
StartCount == 3 + (SuperNodeSize - 2) * 2 + startfan

EndCount == PortCount(end - (Nodes - SuperNodeSize), endfan)

\* The two counts become the bits whose labels are made.
CountBits ==
    /\ djI = Nodes + 1
    /\ djBitInput' = [b \in 0 .. 31 |-> IF b < 16 THEN BitOf(StartCount, b)
                                               ELSE BitOf(EndCount, b - 16)]
    /\ djI' = Nodes + 2
    /\ UNCHANGED <<djNaive, djInput, currentweight, inqueue, NodeLinks, Paths, djPc, djJ,
                   selectedNode, selectedWeight, nodeToGet, start, prestart, end, postend,
                   postendtemp, started, startfan, endfan>>

HybridDjNext == Search \/ Traced \/ Scan \/ Fans \/ CountBits

HybridDjSpec == HybridDjInit /\ [][HybridDjNext]_hybridDjVars

-----------------------------------------------------------------------------
HybridDjTypeOK ==
    /\ djI \in 0 .. Nodes + 2
    /\ djJ \in Slot \cup 0 .. Nodes
    /\ {start, prestart, end, postend, postendtemp} \subseteq Node \cup {NoNode, Unset} \cup Garbage
    /\ started \in BOOLEAN
    /\ {startfan, endfan} \subseteq Slot \cup {Unset} \cup Garbage
    /\ djBitInput \in [0 .. 31 -> {0, 1}]

\* The ports of the super node in their order, each a node and one of its edges.
Ports ==
    LET s == Nodes - SuperNodeSize
        Of(n) == [e \in 1 .. (IF n = s \/ n = Nodes - 1 THEN 3 ELSE 2) |-> <<n, e - 1>>]
        upto[n \in s .. Nodes - 1] == IF n = s THEN Of(n) ELSE upto[n - 1] \o Of(n)
    IN  upto[Nodes - 1]

\* The port that bits b .. b+15 name, if any.
Number(b) == FromBits([k \in 0 .. 15 |-> djBitInput[b + k]], 16)

Named(b) == IF Number(b) < Len(Ports) THEN Ports[Number(b) + 1] ELSE <<>>

SuperPlaces == {k \in Node : Super(k)}

\* An edge of node n that is a port and leads to m.
HasPort(n, m) == \E q \in 1 .. Len(Ports) : Ports[q][1] = n /\ djInput.connections[n][Ports[q][2]] = m

\* The edges with higher numbers are not to the same node.
PortTaken(n, m) ==
    HasPort(n, m) /\ \A s \in Slot : djInput.connections[n][s] = m =>
                        \E q \in 1 .. Len(Ports) : Ports[q] = <<n, s>>

Finished == djI = Nodes + 2

\* The circuit is told the port by which the path, read backwards from its end,
\* leaves the super node for good: the named edge leads from the last super
\* node of the path to the node that follows.  Without a super node on the path,
\* or with one at either end, no port is meant.
EndIsPort ==
    Finished =>
        \A k \in SuperPlaces :
            (/\ k > 0 /\ k < Nodes - 1 /\ \A m \in SuperPlaces : m <= k
             /\ PortTaken(Paths[k], Paths[k + 1])) =>
                /\ Named(16) # <<>>
                /\ Named(16)[1] = Paths[k]
                /\ djInput.connections[Paths[k]][Named(16)[2]] = Paths[k + 1]

\* The same of the first super node and the node before it, as the
\* commented-out form above the counts (hybrid.cpp:902) has it.
StartIsPort ==
    Finished =>
        \A k \in SuperPlaces :
            (/\ k > 0 /\ \A m \in SuperPlaces : k <= m
             /\ PortTaken(Paths[k], Paths[k - 1])) =>
                /\ Named(0) # <<>>
                /\ Named(0)[1] = Paths[k]
                /\ djInput.connections[Paths[k]][Named(0)[2]] = Paths[k - 1]
=============================================================================
