--------------------------- MODULE YaoRounds_proofs ---------------------------
(***************************************************************************)
(* Proofs about YaoRounds, for every circuit, every number of base         *)
(* transfers, every size of a batch and every capacity of the link.        *)
(*                                                                         *)
(* The argument: the messages from one party to the other have an order,   *)
(* Follow, that depends on the circuit only.  What is on the link is the   *)
(* part of that order between the place of the reader and the place of     *)
(* the writer (Chain); and every message holds what the state of its       *)
(* sender says of it to this day (ToEHolds, ToGHolds).                     *)
(***************************************************************************)
EXTENDS YaoRounds, TLAPS

----------------------------------------------------------------------------
(* The order of the messages of a run with circuit c.                      *)

\* After the last message of a link.
TheEnd == <<"end", 0>>

\* Of a loop of n rounds, round i; what comes after the loop is next.
InLoop(kind, i, n, next) == IF i < n THEN <<kind, i>> ELSE next

\* The next message: of the keys from input i on, of the gates from i on, of the
\* outputs.
KeyFrom(c, i) == InLoop("key", i, c.gen_inp_cnt, <<"mask", 0>>)
BatchFrom(c, i) == InLoop("batch", i, Len(c.gates), TheEnd)
OutFrom(c) == IF c.gen_out_cnt # 0 THEN <<"gen_out", 0>> ELSE TheEnd

\* The message that follows m on its link.
Follow(c, m) ==
    CASE m[1] = "crs" -> <<"gr", 0>>
      [] m[1] = "gr" -> <<"switch", 0>>
      [] m[1] = "switch" -> <<"pairs", 0>>
      [] m[1] = "pairs" -> <<"comm", 0>>
      [] m[1] = "comm" -> <<"open", 0>>
      [] m[1] = "open" -> KeyFrom(c, 0)
      [] m[1] = "key" -> KeyFrom(c, m[2] + 1)
      [] m[1] = "mask" -> BatchFrom(c, 0)
      [] m[1] = "batch" -> BatchFrom(c, m[2] + GatesBeforeSend)
      [] m[1] = "claw" -> IF c.evl_inp_cnt > 0 THEN <<"xy", 0>> ELSE <<"coins", 0>>
      [] m[1] = "xy" -> InLoop("xy", m[2] + 1, BaseOts, <<"xor", 0>>)
      [] m[1] = "xor" -> <<"coins", 0>>
      [] m[1] = "coins" -> OutFrom(c)
      [] OTHER -> TheEnd

\* The message that a party at "at", in round ix of its loop, with its next
\* batch at batch, reads or writes next: of the generator's messages, and of
\* the evaluator's.
NextToE(c, at, ix, batch) ==
    CASE at = "claw" -> IF c.evl_inp_cnt > 0 THEN <<"crs", 0>> ELSE <<"comm", 0>>
      [] at \in {"crs", "gr", "pairs", "comm", "open", "mask"} -> <<at, 0>>
      [] at \in {"xy", "xor", "switch"} -> <<"switch", 0>>
      [] at = "commit" -> <<"comm", 0>>
      [] at = "coins" -> <<"open", 0>>
      [] at = "key" -> <<"key", ix>>
      [] at = "gates" -> BatchFrom(c, batch)
      [] OTHER -> TheEnd

NextToG(c, at, ix) ==
    CASE at = "claw" -> <<"claw", 0>>
      [] at \in {"crs", "gr"} -> <<"xy", 0>>
      [] at = "xy" -> <<"xy", ix>>
      [] at = "xor" -> <<"xor", 0>>
      [] at \in {"switch", "pairs", "commit", "comm", "coins"} -> <<"coins", 0>>
      [] at \in {"open", "key", "mask", "gates", "gen_out"} -> OutFrom(c)
      [] OTHER -> TheEnd

\* link holds the messages from first on, in their order, up to last, which
\* is the next one to be written.
Chain(c, link, first, last) ==
    /\ link = <<>> => first = last
    /\ link # <<>> => Sent(link[1]) = first /\ Follow(c, Sent(link[Len(link)])) = last
    /\ \A i \in 1..(Len(link) - 1) : Sent(link[i + 1]) = Follow(c, Sent(link[i]))

\* What a link holds; nothing but its being a sequence is needed.
Held(link) == {link[i] : i \in 1..Len(link)}
IsLink(link) == link \in Seq(Held(link))

----------------------------------------------------------------------------
(* What a message holds.                                                   *)

\* s are the gates with bytes among those after lo up to hi, in order.
GatesOf(c, s, lo, hi) ==
    /\ s \in Seq(1..Len(c.gates))
    /\ \A i \in 1..Len(s) : lo < s[i] /\ s[i] <= hi /\ c.gates[s[i]] # 0
    /\ \A i, j \in 1..Len(s) : i < j => s[i] < s[j]
    /\ \A g \in 1..Len(c.gates) : lo < g /\ g <= hi /\ c.gates[g] # 0
                                  => \E i \in 1..Len(s) : s[i] = g

\* Not beyond the last gate.
UpToLast(c, i) == IF i < Len(c.gates) THEN i ELSE Len(c.gates)

\* Of the keys of the generator's circuit, the one of its input bit j.
InputKey(c, keys, j) == keys[j][c.m_gen_inp[j]]

\* The generator's inputs under its mask.
InputMask(c, mask) == [j \in 0..(c.gen_inp_cnt - 1) |-> mask[j] # c.m_gen_inp[j]]

\* The places from which gRnd, gMask, gOpen and the keys stay as they are;
\* the kinds of messages from the generator there and on the way there.
Late == {"coins", "open", "key", "mask", "gates", "gen_out", "done"}
LateKinds == {"comm", "open", "key", "mask", "batch"}
EarlyKinds == {"crs", "gr", "switch", "pairs"}
GKinds == {"claw", "xy", "xor", "coins", "gen_out"}

\* The turns of a run: the parts in which only one of them writes, of a place
\* or of a kind of message.
Turn(at) ==
    CASE at = "claw" -> 0
      [] at \in {"crs", "gr"} -> 1
      [] at \in {"xy", "xor"} -> 2
      [] at \in {"switch", "pairs", "commit", "comm"} -> 3
      [] at = "coins" -> 4
      [] at \in {"open", "key", "mask", "gates", "batch"} -> 5
      [] at = "gen_out" -> 6
      [] OTHER -> 7

\* From a generator at "at", with these coins, keys and masks.
MsgToEHolds(m, c, at, coins, keys, mask) ==
    /\ m[1] \in EarlyKinds \union LateKinds
    /\ Turn(m[1]) <= Turn(at)
    /\ m[1] \in LateKinds => at \in Late
    /\ m[1] \in {"comm", "open"} => m[3] = coins
    /\ m[1] = "key" => m[2] \in 0..(c.gen_inp_cnt - 1) /\ m[3] = InputKey(c, keys, m[2])
    /\ m[1] = "mask" => m[3] = InputMask(c, mask)
    /\ m[1] = "batch" =>
          /\ m[2] \in Nat
          /\ GatesOf(c, m[3].gates, m[2], UpToLast(c, m[2] + GatesBeforeSend))
          /\ m[3].bytes \in Nat /\ m[3].bytes <= BufferBytes

\* From an evaluator at "at", with these coins.
MsgToGHolds(m, at, coins) ==
    /\ m[1] \in GKinds
    /\ Turn(m[1]) <= Turn(at)
    /\ m[1] = "coins" => m[3] = coins /\ at \in Late \ {"coins"}

\* Every message on either link is what its sender meant by it.
ToEHolds == \A i \in 1..Len(toE) : MsgToEHolds(toE[i], circuit, gAt, gOpen, gKeys, gMask)
ToGHolds == \A i \in 1..Len(toG) : MsgToGHolds(toG[i], eAt, eFlip)

----------------------------------------------------------------------------
(* The parties.                                                            *)

Places == {"claw", "crs", "gr", "xy", "xor", "switch", "pairs", "commit", "comm",
           "coins", "open", "key", "mask", "gates", "gen_out", "done"}

\* A loop is at one of its rounds; elsewhere the index is zero.
InRound(c, at, ix) ==
    /\ at \in Places
    /\ ix \in Nat
    /\ at = "xy" => ix < BaseOts
    /\ at = "key" => ix < c.gen_inp_cnt
    /\ at = "gates" => ix <= Len(c.gates)
    /\ at = "gen_out" => c.gen_out_cnt # 0
    /\ at \notin {"xy", "key", "gates"} => ix = 0

\* The generator's batch, and what it knows.
GenBatchAt ==
    /\ gHow \in 0..GatesBeforeSend
    /\ gHow <= gIx
    /\ gAt # "gates" => gHow = 0
    /\ GatesOf(circuit, gBuf, gIx - gHow, gIx)
    /\ gBytes \in Nat /\ gBytes <= gHow * MaxGateBytes

\* What the generator has at each point is what was sent to it.
GenKnows ==
    /\ gAt \in Late \union {"comm"} => gKeys = gen_init(gRnd, gPrng).keys
    /\ gCoins # {} => gCoins = XorCoins(gOpen, eFlip) /\ eAt \in Late \ {"coins"}
                      /\ gAt \in Late

\* How many keys of the generator's input the evaluator has.
KeysRead ==
    CASE eAt = "key" -> eIx
      [] eAt \in {"mask", "gates", "gen_out", "done"} -> circuit.gen_inp_cnt
      [] OTHER -> 0

\* Where the evaluator is among the gates.
EvlBatchAt ==
    /\ eHeld \in 0..GatesBeforeSend
    /\ eBuf \in Seq(1..Gates)
    /\ eAt \notin {"gates", "gen_out", "done"} => eHeld = 0 /\ eBuf = <<>>
    /\ eAt = "gates" => GatesOf(circuit, eBuf, eIx, UpToLast(circuit, eIx + eHeld))

\* What the evaluator has at each point is what was sent to it.
EvlKnows ==
    /\ eAt \in Late => gAt \in Late /\ eComm = gOpen
    /\ eCoins # {} => eCoins = XorCoins(eFlip, gOpen) /\ eAt \in Late
    /\ DOMAIN eKeys = GenInps
    /\ \A j \in GenInps : j < KeysRead => eKeys[j] = InputKey(circuit, gKeys, j)
    /\ eAt \in {"gates", "gen_out", "done"} => eMask = InputMask(circuit, gMask)

\* What each party reads or writes next.
gToE == NextToE(circuit, gAt, gIx, gIx - gHow)
gToG == NextToG(circuit, gAt, gIx)
eToE == NextToE(circuit, eAt, eIx, eIx + eHeld)
eToG == NextToG(circuit, eAt, eIx)

\* Where the parties are, and what is on the way between them.
LinksInStep ==
    /\ circuit \in Circuits
    /\ IsLink(toE) /\ IsLink(toG)
    /\ Len(toE) <= Capacity /\ Len(toG) <= Capacity
    /\ InRound(circuit, gAt, gIx) /\ InRound(circuit, eAt, eIx)
    /\ Chain(circuit, toE, eToE, gToE)
    /\ Chain(circuit, toG, gToG, eToG)

\* The inductive invariant.
RoundsIInv ==
    /\ LinksInStep
    /\ ToEHolds /\ ToGHolds
    /\ GenBatchAt /\ GenKnows
    /\ EvlBatchAt /\ EvlKnows

----------------------------------------------------------------------------
(* Links.                                                                  *)

\* A sequence is one of whatever holds its elements.
LEMMA SeqOver ==
    ASSUME NEW S, NEW s \in Seq(S), NEW T, \A i \in 1..Len(s) : s[i] \in T
    PROVE  s \in Seq(T)
OBVIOUS

\* A message more at the end of a link, and none of the others changed.
LEMMA AppendLink ==
    ASSUME NEW link, IsLink(link), NEW m
    PROVE  /\ IsLink(Append(link, m))
           /\ Append(link, m) # <<>>
           /\ Len(Append(link, m)) = Len(link) + 1
           /\ Len(link) \in Nat
           /\ \A i \in 1..Len(link) : Append(link, m)[i] = link[i]
           /\ Append(link, m)[Len(link) + 1] = m
<1> DEFINE S == Held(link) \union {m}
<1> DEFINE t == Append(link, m)
<1>1. link \in Seq(S) /\ m \in S
    BY DEF IsLink, Held
<1>2. /\ t \in Seq(S) /\ Len(t) = Len(link) + 1 /\ Len(link) \in Nat
      /\ \A i \in 1..Len(link) : t[i] = link[i]
      /\ t[Len(link) + 1] = m
    BY <1>1
<1>3. t # <<>>
    BY <1>2
<1>4. t \in Seq(Held(t))
    <2>1. \A i \in 1..Len(t) : t[i] \in Held(t)
        BY DEF Held
    <2> HIDE DEF t
    <2> QED
        BY <1>2, <2>1, SeqOver
<1> QED
    BY <1>2, <1>3, <1>4 DEF IsLink

\* The first message is taken from a link.
LEMMA TailLink ==
    ASSUME NEW link, IsLink(link), link # <<>>
    PROVE  /\ IsLink(Tail(link))
           /\ Len(link) \in Nat \ {0}
           /\ Len(Tail(link)) = Len(link) - 1
           /\ \A i \in 1..Len(Tail(link)) : Tail(link)[i] = link[i + 1]
           /\ Head(link) = link[1]
           /\ Tail(link) = <<>> => Len(link) = 1
<1> DEFINE S == Held(link)
<1> DEFINE t == Tail(link)
<1>1. link \in Seq(S)
    BY DEF IsLink
<1>2. /\ t \in Seq(S) /\ Len(t) = Len(link) - 1 /\ Len(link) \in Nat \ {0}
      /\ \A i \in 1..Len(t) : t[i] = link[i + 1]
      /\ Head(link) = link[1]
    BY <1>1
<1>3. t = <<>> => Len(link) = 1
    <2> HIDE DEF t
    <2>1. t = <<>> => Len(t) = 0
        OBVIOUS
    <2> QED
        BY <1>2, <2>1
<1>4. t \in Seq(Held(t))
    <2>1. \A i \in 1..Len(t) : t[i] \in Held(t)
        BY DEF Held
    <2> HIDE DEF t
    <2> QED
        BY <1>2, <2>1, SeqOver
<1> QED
    BY <1>2, <1>3, <1>4 DEF IsLink

\* The writer writes the message that is due; the next one follows it.
LEMMA ChainWrite ==
    ASSUME NEW c, NEW link, IsLink(link), NEW first, NEW last, NEW m,
           Chain(c, link, first, last), Sent(m) = last
    PROVE  Chain(c, Append(link, m), first, Follow(c, last))
<1> DEFINE t == Append(link, m)
<1>1. /\ t # <<>> /\ Len(t) = Len(link) + 1 /\ Len(link) \in Nat
      /\ \A i \in 1..Len(link) : t[i] = link[i]
      /\ t[Len(link) + 1] = m
    BY AppendLink
<1>2. Follow(c, Sent(t[Len(t)])) = Follow(c, last)
    BY <1>1
<1>3. Sent(t[1]) = first
    <2>1. CASE link = <<>>
        BY <1>1, <2>1 DEF Chain
    <2>2. CASE link # <<>>
        <3>1. Len(link) # 0
            BY <2>2 DEF IsLink
        <3> QED
            BY <1>1, <2>2, <3>1 DEF Chain
    <2> QED
        BY <2>1, <2>2
<1>4. \A i \in 1..(Len(t) - 1) : Sent(t[i + 1]) = Follow(c, Sent(t[i]))
    <2> SUFFICES ASSUME NEW i \in 1..Len(link)
                 PROVE  Sent(t[i + 1]) = Follow(c, Sent(t[i]))
        BY <1>1
    <2>1. t[i] = link[i]
        BY <1>1
    <2>2. CASE i = Len(link)
        <3>1. link # <<>>
            BY <2>2, <1>1
        <3> QED
            BY <1>1, <2>1, <2>2, <3>1 DEF Chain
    <2>3. CASE i # Len(link)
        <3>1. i \in 1..(Len(link) - 1) /\ i + 1 \in 1..Len(link)
            BY <1>1, <2>3
        <3> QED
            BY <1>1, <2>1, <3>1 DEF Chain
    <2> QED
        BY <2>2, <2>3
<1> QED
    BY <1>1, <1>2, <1>3, <1>4 DEF Chain

\* The reader takes the first message; it goes on with the one that follows.
LEMMA ChainRead ==
    ASSUME NEW c, NEW link, IsLink(link), link # <<>>, NEW first, NEW last,
           Chain(c, link, first, last)
    PROVE  /\ Sent(Head(link)) = first
           /\ Chain(c, Tail(link), Follow(c, first), last)
<1> DEFINE t == Tail(link)
<1>1. /\ Len(link) \in Nat \ {0} /\ Len(t) = Len(link) - 1
      /\ \A i \in 1..Len(t) : t[i] = link[i + 1]
      /\ Head(link) = link[1]
      /\ t = <<>> => Len(link) = 1
    BY TailLink
<1>2. Sent(Head(link)) = first
    BY <1>1 DEF Chain
<1>3. t = <<>> => Follow(c, first) = last
    BY <1>1 DEF Chain
<1>4. t # <<>> => Sent(t[1]) = Follow(c, first) /\ Follow(c, Sent(t[Len(t)])) = last
    <2> HAVE t # <<>>
    <2>1. Len(t) # 0
        <3>1. t \in Seq(Held(t))
            BY TailLink DEF IsLink
        <3> HIDE DEF t
        <3> QED
            BY <3>1
    <2>2. 1 \in 1..(Len(link) - 1) /\ t[1] = link[1 + 1] /\ t[Len(t)] = link[Len(link)]
        BY <1>1, <2>1
    <2> QED
        BY <2>2 DEF Chain
<1>5. \A i \in 1..(Len(t) - 1) : Sent(t[i + 1]) = Follow(c, Sent(t[i]))
    <2> SUFFICES ASSUME NEW i \in 1..(Len(t) - 1)
                 PROVE  Sent(t[i + 1]) = Follow(c, Sent(t[i]))
        OBVIOUS
    <2>1. t[i] = link[i + 1] /\ t[i + 1] = link[(i + 1) + 1] /\ i + 1 \in 1..(Len(link) - 1)
        BY <1>1
    <2> QED
        BY <2>1 DEF Chain
<1> QED
    BY <1>2, <1>3, <1>4, <1>5 DEF Chain

----------------------------------------------------------------------------
(* The gates in a batch.                                                   *)

LEMMA NoGates ==
    ASSUME NEW c, NEW lo \in Nat
    PROVE  GatesOf(c, <<>>, lo, lo)
BY DEF GatesOf

\* One gate more is garbled into a batch.
LEMMA GateBuffered ==
    ASSUME NEW c, Len(c.gates) \in Nat, NEW lo \in Nat, NEW hi \in Nat, NEW s,
           lo <= hi, hi < Len(c.gates), GatesOf(c, s, lo, hi)
    PROVE  GatesOf(c, IF c.gates[hi + 1] = 0 THEN s ELSE Append(s, hi + 1), lo, hi + 1)
<1> DEFINE g1 == hi + 1
<1> DEFINE N == Len(c.gates)
<1>1. g1 \in 1..N
    OBVIOUS
<1>2. CASE c.gates[g1] = 0
    <2>1. \A g \in 1..N : lo < g /\ g <= g1 /\ c.gates[g] # 0 => g <= hi
        BY <1>2
    <2> QED
        BY <1>2, <2>1 DEF GatesOf
<1>3. CASE c.gates[g1] # 0
    <2> DEFINE t == Append(s, g1)
    <2>1. /\ s \in Seq(1..N) /\ t \in Seq(1..N) /\ Len(t) = Len(s) + 1 /\ Len(s) \in Nat
          /\ \A i \in 1..Len(s) : t[i] = s[i]
          /\ t[Len(s) + 1] = g1
        BY <1>1 DEF GatesOf
    <2>2. \A i \in 1..Len(t) : lo < t[i] /\ t[i] <= g1 /\ c.gates[t[i]] # 0
        <3> TAKE i \in 1..Len(t)
        <3>1. CASE i = Len(s) + 1
            BY <1>3, <2>1, <3>1
        <3>2. CASE i # Len(s) + 1
            <4>1. i \in 1..Len(s) /\ t[i] = s[i] /\ s[i] \in 1..N
                BY <2>1, <3>2
            <4>2. lo < s[i] /\ s[i] <= hi /\ c.gates[s[i]] # 0
                BY <4>1 DEF GatesOf
            <4> QED
                BY <4>1, <4>2
        <3> QED
            BY <3>1, <3>2
    <2>3. \A i, j \in 1..Len(t) : i < j => t[i] < t[j]
        <3> SUFFICES ASSUME NEW i \in 1..Len(t), NEW j \in 1..Len(t), i < j
                     PROVE  t[i] < t[j]
            OBVIOUS
        <3>1. i \in 1..Len(s) /\ t[i] = s[i] /\ s[i] <= hi /\ s[i] \in Nat
            BY <2>1 DEF GatesOf
        <3>2. CASE j = Len(s) + 1
            BY <2>1, <3>1, <3>2
        <3>3. CASE j # Len(s) + 1
            BY <2>1, <3>1, <3>3 DEF GatesOf
        <3> QED
            BY <3>2, <3>3
    <2>4. \A g \in 1..N : lo < g /\ g <= g1 /\ c.gates[g] # 0 => \E i \in 1..Len(t) : t[i] = g
        <3> TAKE g \in 1..N
        <3> HAVE lo < g /\ g <= g1 /\ c.gates[g] # 0
        <3>1. CASE g = g1
            BY <2>1, <3>1
        <3>2. CASE g # g1
            <4>1. PICK i \in 1..Len(s) : s[i] = g
                BY <3>2 DEF GatesOf
            <4> QED
                BY <2>1, <4>1
        <3> QED
            BY <3>1, <3>2
    <2> QED
        BY <1>3, <2>1, <2>2, <2>3, <2>4 DEF GatesOf
<1> QED
    BY <1>2, <1>3

\* The first gate after lo has its bytes at the head, or has none.
LEMMA GateTaken ==
    ASSUME NEW c, Len(c.gates) \in Nat, NEW lo \in Nat, NEW hi \in Nat, NEW s,
           lo < hi, hi <= Len(c.gates), GatesOf(c, s, lo, hi)
    PROVE  /\ c.gates[lo + 1] = 0 => GatesOf(c, s, lo + 1, hi)
           /\ c.gates[lo + 1] # 0 => /\ s # <<>> /\ Head(s) = lo + 1
                                     /\ GatesOf(c, Tail(s), lo + 1, hi)
<1> DEFINE N == Len(c.gates)
<1>1. c.gates[lo + 1] = 0 => GatesOf(c, s, lo + 1, hi)
    BY DEF GatesOf
<1>2. ASSUME c.gates[lo + 1] # 0
      PROVE  s # <<>> /\ Head(s) = lo + 1 /\ GatesOf(c, Tail(s), lo + 1, hi)
    <2>1. PICK k \in 1..Len(s) : s[k] = lo + 1
        BY <1>2 DEF GatesOf
    <2>2. s \in Seq(1..N) /\ s # <<>> /\ Len(s) \in Nat \ {0}
        BY <2>1 DEF GatesOf
    <2>3. s[1] = lo + 1
        <3>1. lo < s[1] /\ s[1] \in Nat
            BY <2>2 DEF GatesOf
        <3>2. k # 1 => s[1] < s[k]
            BY <2>2, <2>1 DEF GatesOf
        <3> QED
            BY <3>1, <3>2, <2>1
    <2> DEFINE t == Tail(s)
    <2>4. /\ Head(s) = s[1] /\ t \in Seq(1..N) /\ Len(t) = Len(s) - 1
          /\ \A i \in 1..Len(t) : t[i] = s[i + 1]
        BY <2>2
    <2>5. \A i \in 1..Len(t) : lo + 1 < t[i] /\ t[i] <= hi /\ c.gates[t[i]] # 0
        <3> TAKE i \in 1..Len(t)
        <3>1. t[i] = s[i + 1] /\ i + 1 \in 1..Len(s) /\ 1 < i + 1 /\ 1 \in 1..Len(s)
            BY <2>2, <2>4
        <3>2. s[1] < s[i + 1]
            BY <3>1 DEF GatesOf
        <3> QED
            BY <2>3, <3>1, <3>2 DEF GatesOf
    <2>6. \A i, j \in 1..Len(t) : i < j => t[i] < t[j]
        <3> SUFFICES ASSUME NEW i \in 1..Len(t), NEW j \in 1..Len(t), i < j
                     PROVE  t[i] < t[j]
            OBVIOUS
        <3>1. t[i] = s[i + 1] /\ t[j] = s[j + 1] /\ i + 1 \in 1..Len(s) /\ j + 1 \in 1..Len(s)
              /\ i + 1 < j + 1
            BY <2>2, <2>4
        <3> QED
            BY <3>1 DEF GatesOf
    <2>7. \A g \in 1..N : lo + 1 < g /\ g <= hi /\ c.gates[g] # 0
                          => \E i \in 1..Len(t) : t[i] = g
        <3> TAKE g \in 1..N
        <3> HAVE lo + 1 < g /\ g <= hi /\ c.gates[g] # 0
        <3>1. PICK i \in 1..Len(s) : s[i] = g
            BY DEF GatesOf
        <3>2. i # 1
            BY <2>3, <3>1
        <3>3. i - 1 \in 1..Len(t) /\ t[i - 1] = s[(i - 1) + 1] /\ (i - 1) + 1 = i
            BY <2>2, <2>4, <3>2
        <3> QED
            BY <3>1, <3>3
    <2> QED
        BY <2>2, <2>3, <2>4, <2>5, <2>6, <2>7 DEF GatesOf
<1> QED
    BY <1>1, <1>2

----------------------------------------------------------------------------
(* The steps, as far as the order of the messages goes.                    *)

\* What an action may do to the links: nothing, read one message, or write one.
GQuiet == UNCHANGED <<toE, toG>> /\ gToE' = gToE /\ gToG' = gToG
EQuiet == UNCHANGED <<toE, toG>> /\ eToE' = eToE /\ eToG' = eToG

GWrites(m) ==
    /\ GEN_SEND(m)
    /\ Sent(m) = gToE /\ gToE' = Follow(circuit, gToE) /\ gToG' = gToG
EWrites(m) ==
    /\ EVL_SEND(m)
    /\ Sent(m) = eToG /\ eToG' = Follow(circuit, eToG) /\ eToE' = eToE

GReads == GEN_RECV /\ gToG' = Follow(circuit, gToG) /\ gToE' = gToE
EReads == EVL_RECV /\ eToE' = Follow(circuit, eToE) /\ eToG' = eToG

GMoves == GQuiet \/ GReads \/ \E m : GWrites(m)
EMoves == EQuiet \/ EReads \/ \E m : EWrites(m)

\* What the circuits are.
LEMMA CircuitFacts ==
    ASSUME circuit \in Circuits
    PROVE  /\ circuit.evl_inp_cnt \in Nat /\ circuit.gen_inp_cnt \in Nat
           /\ circuit.gen_out_cnt \in Nat
           /\ circuit.gates \in Seq(0..MaxGateBytes) /\ Gates \in Nat
           /\ \A i \in 1..Gates : circuit.gates[i] \in 0..MaxGateBytes
           /\ \A j \in GenInps : circuit.m_gen_inp[j] \in BOOLEAN
           /\ BaseOts \in Nat \ {0} /\ GatesBeforeSend \in Nat \ {0}
           /\ MaxGateBytes \in Nat /\ BufferBytes \in Nat
BY CircuitsAssumption, CountsAssumption DEF CircuitOK, Gates, GenInps

\* A step of the generator writes what is due, reads, or does neither.
LEMMA GenSteps ==
    ASSUME LinksInStep, GenBatchAt, Generator
    PROVE  /\ circuit' = circuit /\ UNCHANGED eVars
           /\ InRound(circuit, gAt', gIx')
           /\ GMoves
<1>a. /\ circuit.gen_inp_cnt \in Nat /\ circuit.evl_inp_cnt \in Nat /\ circuit.gen_out_cnt \in Nat
      /\ Len(circuit.gates) \in Nat /\ BaseOts \in Nat \ {0} /\ GatesBeforeSend \in Nat \ {0}
      /\ InRound(circuit, gAt, gIx)
    BY CircuitFacts DEF LinksInStep, Gates
<1>b. gHow \in 0..GatesBeforeSend /\ gHow <= gIx /\ (gAt # "gates" => gHow = 0)
    BY DEF GenBatchAt
<1> USE DEF Gates
<1>1. CASE GenClaw
    <2>1. circuit' = circuit /\ UNCHANGED eVars
        BY <1>1 DEF GenClaw, eVars
    <2>2. InRound(circuit, gAt', gIx')
        BY <1>1, <1>a, <1>b DEF InRound, Places, GenClaw, GGoto, AfterClaw, gData
    <2>3. GReads
        BY <1>1, <1>a, <1>b, <2>1 DEF GReads, InRound, Places, GEN_RECV, GenClaw, GGoto, AfterClaw, NextToE, NextToG, Follow, InLoop, BatchFrom, TheEnd, gToE, gToG, gData
    <2> QED
        BY <2>1, <2>2, <2>3 DEF GMoves
<1>2. CASE GenBaseSend
    <2>1. circuit' = circuit /\ UNCHANGED eVars
        BY <1>2 DEF GenBaseSend, eVars
    <2>2. InRound(circuit, gAt', gIx')
        BY <1>2, <1>a, <1>b DEF InRound, Places, GenBaseSend, GGoto, gData
    <2>3. GWrites(Msg(gAt, 0, None))
        BY <1>2, <1>a, <1>b, <2>1 DEF GWrites, InRound, Places, Msg, Sent, GenBaseSend, GGoto, NextToE, NextToG, Follow, InLoop, BatchFrom, TheEnd, gToE, gToG, gData
    <2> QED
        BY <2>1, <2>2, <2>3 DEF GMoves
<1>3. CASE GenBaseRecv
    <2>1. circuit' = circuit /\ UNCHANGED eVars
        BY <1>3 DEF GenBaseRecv, eVars
    <2>2. InRound(circuit, gAt', gIx')
        BY <1>3, <1>a, <1>b DEF InRound, Places, GenBaseRecv, GGoto, GLoop, gData
    <2>3. GReads
        BY <1>3, <1>a, <1>b, <2>1 DEF GReads, InRound, Places, GEN_RECV, GenBaseRecv, GGoto, GLoop, NextToE, NextToG, Follow, InLoop, BatchFrom, TheEnd, gToE, gToG, gData
    <2> QED
        BY <2>1, <2>2, <2>3 DEF GMoves
<1>4. CASE GenExtRecv
    <2>1. circuit' = circuit /\ UNCHANGED eVars
        BY <1>4 DEF GenExtRecv, eVars
    <2>2. InRound(circuit, gAt', gIx')
        BY <1>4, <1>a, <1>b DEF InRound, Places, GenExtRecv, GGoto, gData
    <2>3. GReads
        BY <1>4, <1>a, <1>b, <2>1 DEF GReads, InRound, Places, GEN_RECV, GenExtRecv, GGoto, NextToE, NextToG, Follow, InLoop, BatchFrom, TheEnd, gToE, gToG, gData
    <2> QED
        BY <2>1, <2>2, <2>3 DEF GMoves
<1>5. CASE GenExtSend
    <2>1. circuit' = circuit /\ UNCHANGED eVars
        BY <1>5 DEF GenExtSend, eVars
    <2>2. InRound(circuit, gAt', gIx')
        BY <1>5, <1>a, <1>b DEF InRound, Places, GenExtSend, GGoto, gData
    <2>3. GWrites(Msg(gAt, 0, None))
        BY <1>5, <1>a, <1>b, <2>1 DEF GWrites, InRound, Places, Msg, Sent, GenExtSend, GGoto, NextToE, NextToG, Follow, InLoop, BatchFrom, TheEnd, gToE, gToG, gData
    <2> QED
        BY <2>1, <2>2, <2>3 DEF GMoves
<1>6. CASE GenCommit
    <2>1. circuit' = circuit /\ UNCHANGED eVars
        BY <1>6 DEF GenCommit, eVars
    <2>2. InRound(circuit, gAt', gIx')
        BY <1>6, <1>a, <1>b DEF InRound, Places, GenCommit, GGoto, gData
    <2>3. GQuiet
        BY <1>6, <1>a, <1>b, <2>1 DEF GQuiet, InRound, Places, GenCommit, GGoto, NextToE, NextToG, Follow, InLoop, BatchFrom, TheEnd, gToE, gToG, gData
    <2> QED
        BY <2>1, <2>2, <2>3 DEF GMoves
<1>7. CASE GenComm
    <2>1. circuit' = circuit /\ UNCHANGED eVars
        BY <1>7 DEF GenComm, eVars
    <2>2. InRound(circuit, gAt', gIx')
        BY <1>7, <1>a, <1>b DEF InRound, Places, GenComm, GGoto, gData
    <2>4. PICK coins \in Seeds : GEN_SEND(Msg("comm", 0, coins))
        BY <1>7 DEF GenComm
    <2>3. GWrites(Msg("comm", 0, coins))
        BY <1>7, <1>a, <1>b, <2>1, <2>4 DEF GWrites, InRound, Places, Msg, Sent, GenComm, GGoto, NextToE, NextToG, Follow, InLoop, BatchFrom, TheEnd, gToE, gToG, gData
    <2> QED
        BY <2>1, <2>2, <2>3 DEF GMoves
<1>8. CASE GenCoins
    <2>1. circuit' = circuit /\ UNCHANGED eVars
        BY <1>8 DEF GenCoins, eVars
    <2>2. InRound(circuit, gAt', gIx')
        BY <1>8, <1>a, <1>b DEF InRound, Places, GenCoins, GGoto, gData
    <2>3. GReads
        BY <1>8, <1>a, <1>b, <2>1 DEF GReads, InRound, Places, GEN_RECV, GenCoins, GGoto, NextToE, NextToG, Follow, InLoop, BatchFrom, TheEnd, gToE, gToG, gData
    <2> QED
        BY <2>1, <2>2, <2>3 DEF GMoves
<1>9. CASE GenOpen
    <2>1. circuit' = circuit /\ UNCHANGED eVars
        BY <1>9 DEF GenOpen, eVars
    <2>2. InRound(circuit, gAt', gIx')
        BY <1>9, <1>a, <1>b DEF InRound, Places, GenOpen, GGoto, AfterOpen, KeyFrom, gData
    <2>3. GWrites(Msg("open", 0, gOpen))
        BY <1>9, <1>a, <1>b, <2>1 DEF GWrites, InRound, Places, Msg, Sent, GenOpen, GGoto, AfterOpen, KeyFrom, NextToE, NextToG, Follow, InLoop, BatchFrom, TheEnd, gToE, gToG, gData
    <2> QED
        BY <2>1, <2>2, <2>3 DEF GMoves
<1>10. CASE GenKey
    <2>1. circuit' = circuit /\ UNCHANGED eVars
        BY <1>10 DEF GenKey, eVars
    <2>2. InRound(circuit, gAt', gIx')
        BY <1>10, <1>a, <1>b DEF InRound, Places, GenKey, GGoto, GLoop, KeyFrom, gData
    <2>3. GWrites(Msg("key", gIx, gKeys[gIx][circuit.m_gen_inp[gIx]]))
        BY <1>10, <1>a, <1>b, <2>1 DEF GWrites, InRound, Places, Msg, Sent, GenKey, GGoto, GLoop, KeyFrom, NextToE, NextToG, Follow, InLoop, BatchFrom, TheEnd, gToE, gToG, gData
    <2> QED
        BY <2>1, <2>2, <2>3 DEF GMoves
<1>11. CASE GenMask
    <2>1. circuit' = circuit /\ UNCHANGED eVars
        BY <1>11 DEF GenMask, eVars
    <2>2. InRound(circuit, gAt', gIx')
        BY <1>11, <1>a, <1>b DEF InRound, Places, GenMask, GGoto, gData
    <2>3. GWrites(Msg("mask", 0, XorMask(gMask, circuit.m_gen_inp)))
        BY <1>11, <1>a, <1>b, <2>1 DEF GWrites, InRound, Places, Msg, Sent, GenMask, GGoto, NextToE, NextToG, Follow, InLoop, BatchFrom, TheEnd, gToE, gToG, gData
    <2> QED
        BY <2>1, <2>2, <2>3 DEF GMoves
<1>12. CASE GenGate
    <2>1. circuit' = circuit /\ UNCHANGED eVars
        BY <1>12 DEF GenGate, eVars
    <2>2. InRound(circuit, gAt', gIx')
        BY <1>12, <1>a, <1>b DEF InRound, Places, GenGate, GGoto, gData
    <2>3. GQuiet
        BY <1>12, <1>a, <1>b, <2>1 DEF GQuiet, InRound, Places, GenGate, GGoto, NextToE, NextToG, Follow, InLoop, BatchFrom, TheEnd, gToE, gToG, gData
    <2> QED
        BY <2>1, <2>2, <2>3 DEF GMoves
<1>13. CASE GenBatch
    <2>1. circuit' = circuit /\ UNCHANGED eVars
        BY <1>13 DEF GenBatch, eVars
    <2>2. InRound(circuit, gAt', gIx')
        BY <1>13, <1>a, <1>b DEF InRound, Places, GenBatch, GGoto, BatchDue, HeldAfter, gData
    <2>3. GWrites(Msg("batch", gIx - gHow, [gates |-> gBuf, bytes |-> gBytes]))
        BY <1>13, <1>a, <1>b, <2>1 DEF GWrites, InRound, Places, Msg, Sent, GenBatch, GGoto, BatchDue, HeldAfter, NextToE, NextToG, Follow, InLoop, BatchFrom, TheEnd, gToE, gToG, gData
    <2> QED
        BY <2>1, <2>2, <2>3 DEF GMoves
<1>14. CASE GenLast
    <2>1. circuit' = circuit /\ UNCHANGED eVars
        BY <1>14 DEF GenLast, eVars
    <2>2. InRound(circuit, gAt', gIx')
        BY <1>14, <1>a, <1>b DEF InRound, Places, GenLast, GGoto, AfterGates, OutFrom, gData
    <2>3. GQuiet
        BY <1>14, <1>a, <1>b, <2>1 DEF GQuiet, InRound, Places, GenLast, GGoto, AfterGates, OutFrom, NextToE, NextToG, Follow, InLoop, BatchFrom, TheEnd, gToE, gToG, gData
    <2> QED
        BY <2>1, <2>2, <2>3 DEF GMoves
<1>15. CASE GenOut
    <2>1. circuit' = circuit /\ UNCHANGED eVars
        BY <1>15 DEF GenOut, eVars
    <2>2. InRound(circuit, gAt', gIx')
        BY <1>15, <1>a, <1>b DEF InRound, Places, GenOut, GGoto, OutFrom, gData
    <2>3. GReads
        BY <1>15, <1>a, <1>b, <2>1 DEF GReads, InRound, Places, GEN_RECV, GenOut, GGoto, OutFrom, NextToE, NextToG, Follow, InLoop, BatchFrom, TheEnd, gToE, gToG, gData
    <2> QED
        BY <2>1, <2>2, <2>3 DEF GMoves
<1> QED
    BY <1>1, <1>2, <1>3, <1>4, <1>5, <1>6, <1>7, <1>8, <1>9, <1>10, <1>11, <1>12, <1>13, <1>14, <1>15 DEF Generator

\* A step of the evaluator does so too.
LEMMA EvlSteps ==
    ASSUME LinksInStep, EvlBatchAt, Evaluator,
           EvlOpen => Val(Head(toE)) = eComm
    PROVE  /\ circuit' = circuit /\ UNCHANGED gVars
           /\ InRound(circuit, eAt', eIx')
           /\ EMoves
<1>a. /\ circuit.gen_inp_cnt \in Nat /\ circuit.evl_inp_cnt \in Nat /\ circuit.gen_out_cnt \in Nat
      /\ Len(circuit.gates) \in Nat /\ BaseOts \in Nat \ {0} /\ GatesBeforeSend \in Nat \ {0}
      /\ InRound(circuit, eAt, eIx)
    BY CircuitFacts DEF LinksInStep, Gates
<1>b. eHeld \in 0..GatesBeforeSend /\ (eAt \notin {"gates", "gen_out", "done"} => eHeld = 0)
    BY DEF EvlBatchAt
<1> USE DEF Gates
<1>1. CASE EvlClaw
    <2>1. circuit' = circuit /\ UNCHANGED gVars
        BY <1>1 DEF EvlClaw, gVars
    <2>2. InRound(circuit, eAt', eIx')
        BY <1>1, <1>a, <1>b DEF InRound, Places, EvlClaw, EGoto, AfterClaw, eData
    <2>3. EWrites(Msg("claw", 0, None))
        BY <1>1, <1>a, <1>b, <2>1 DEF EWrites, InRound, Places, Msg, Sent, EvlClaw, EGoto, AfterClaw, NextToE, NextToG, Follow, InLoop, BatchFrom, TheEnd, eToE, eToG, eData
    <2> QED
        BY <2>1, <2>2, <2>3 DEF EMoves
<1>2. CASE EvlBaseRecv
    <2>1. circuit' = circuit /\ UNCHANGED gVars
        BY <1>2 DEF EvlBaseRecv, gVars
    <2>2. InRound(circuit, eAt', eIx')
        BY <1>2, <1>a, <1>b DEF InRound, Places, EvlBaseRecv, EGoto, eData
    <2>3. EReads
        BY <1>2, <1>a, <1>b, <2>1 DEF EReads, InRound, Places, EVL_RECV, EvlBaseRecv, EGoto, NextToE, NextToG, Follow, InLoop, BatchFrom, TheEnd, eToE, eToG, eData
    <2> QED
        BY <2>1, <2>2, <2>3 DEF EMoves
<1>3. CASE EvlBaseSend
    <2>1. circuit' = circuit /\ UNCHANGED gVars
        BY <1>3 DEF EvlBaseSend, gVars
    <2>2. InRound(circuit, eAt', eIx')
        BY <1>3, <1>a, <1>b DEF InRound, Places, EvlBaseSend, EGoto, ELoop, eData
    <2>3. EWrites(Msg("xy", eIx, None))
        BY <1>3, <1>a, <1>b, <2>1 DEF EWrites, InRound, Places, Msg, Sent, EvlBaseSend, EGoto, ELoop, NextToE, NextToG, Follow, InLoop, BatchFrom, TheEnd, eToE, eToG, eData
    <2> QED
        BY <2>1, <2>2, <2>3 DEF EMoves
<1>4. CASE EvlExtSend
    <2>1. circuit' = circuit /\ UNCHANGED gVars
        BY <1>4 DEF EvlExtSend, gVars
    <2>2. InRound(circuit, eAt', eIx')
        BY <1>4, <1>a, <1>b DEF InRound, Places, EvlExtSend, EGoto, eData
    <2>3. EWrites(Msg("xor", 0, None))
        BY <1>4, <1>a, <1>b, <2>1 DEF EWrites, InRound, Places, Msg, Sent, EvlExtSend, EGoto, NextToE, NextToG, Follow, InLoop, BatchFrom, TheEnd, eToE, eToG, eData
    <2> QED
        BY <2>1, <2>2, <2>3 DEF EMoves
<1>5. CASE EvlExtRecv
    <2>1. circuit' = circuit /\ UNCHANGED gVars
        BY <1>5 DEF EvlExtRecv, gVars
    <2>2. InRound(circuit, eAt', eIx')
        BY <1>5, <1>a, <1>b DEF InRound, Places, EvlExtRecv, EGoto, eData
    <2>3. EReads
        BY <1>5, <1>a, <1>b, <2>1 DEF EReads, InRound, Places, EVL_RECV, EvlExtRecv, EGoto, NextToE, NextToG, Follow, InLoop, BatchFrom, TheEnd, eToE, eToG, eData
    <2> QED
        BY <2>1, <2>2, <2>3 DEF EMoves
<1>6. CASE EvlCommit
    <2>1. circuit' = circuit /\ UNCHANGED gVars
        BY <1>6 DEF EvlCommit, gVars
    <2>2. InRound(circuit, eAt', eIx')
        BY <1>6, <1>a, <1>b DEF InRound, Places, EvlCommit, EGoto, eData
    <2>3. EQuiet
        BY <1>6, <1>a, <1>b, <2>1 DEF EQuiet, InRound, Places, EvlCommit, EGoto, NextToE, NextToG, Follow, InLoop, BatchFrom, TheEnd, eToE, eToG, eData
    <2> QED
        BY <2>1, <2>2, <2>3 DEF EMoves
<1>7. CASE EvlComm
    <2>1. circuit' = circuit /\ UNCHANGED gVars
        BY <1>7 DEF EvlComm, gVars
    <2>2. InRound(circuit, eAt', eIx')
        BY <1>7, <1>a, <1>b DEF InRound, Places, EvlComm, EGoto, eData
    <2>3. EReads
        BY <1>7, <1>a, <1>b, <2>1 DEF EReads, InRound, Places, EVL_RECV, EvlComm, EGoto, NextToE, NextToG, Follow, InLoop, BatchFrom, TheEnd, eToE, eToG, eData
    <2> QED
        BY <2>1, <2>2, <2>3 DEF EMoves
<1>8. CASE EvlCoins
    <2>1. circuit' = circuit /\ UNCHANGED gVars
        BY <1>8 DEF EvlCoins, gVars
    <2>2. InRound(circuit, eAt', eIx')
        BY <1>8, <1>a, <1>b DEF InRound, Places, EvlCoins, EGoto, eData
    <2>3. EWrites(Msg("coins", 0, eFlip))
        BY <1>8, <1>a, <1>b, <2>1 DEF EWrites, InRound, Places, Msg, Sent, EvlCoins, EGoto, NextToE, NextToG, Follow, InLoop, BatchFrom, TheEnd, eToE, eToG, eData
    <2> QED
        BY <2>1, <2>2, <2>3 DEF EMoves
<1>9. CASE EvlOpen
    <2>1. circuit' = circuit /\ UNCHANGED gVars
        BY <1>9 DEF EvlOpen, gVars
    <2>2. InRound(circuit, eAt', eIx')
        BY <1>9, <1>a, <1>b DEF InRound, Places, EvlOpen, EGoto, AfterOpen, KeyFrom, eData
    <2>3. EReads
        BY <1>9, <1>a, <1>b, <2>1 DEF EReads, InRound, Places, EVL_RECV, EvlOpen, EGoto, AfterOpen, KeyFrom, NextToE, NextToG, Follow, InLoop, BatchFrom, TheEnd, eToE, eToG, eData
    <2> QED
        BY <2>1, <2>2, <2>3 DEF EMoves
<1>10. CASE EvlKey
    <2>1. circuit' = circuit /\ UNCHANGED gVars
        BY <1>10 DEF EvlKey, gVars
    <2>2. InRound(circuit, eAt', eIx')
        BY <1>10, <1>a, <1>b DEF InRound, Places, EvlKey, EGoto, ELoop, KeyFrom, eData
    <2>3. EReads
        BY <1>10, <1>a, <1>b, <2>1 DEF EReads, InRound, Places, EVL_RECV, EvlKey, EGoto, ELoop, KeyFrom, NextToE, NextToG, Follow, InLoop, BatchFrom, TheEnd, eToE, eToG, eData
    <2> QED
        BY <2>1, <2>2, <2>3 DEF EMoves
<1>11. CASE EvlMask
    <2>1. circuit' = circuit /\ UNCHANGED gVars
        BY <1>11 DEF EvlMask, gVars
    <2>2. InRound(circuit, eAt', eIx')
        BY <1>11, <1>a, <1>b DEF InRound, Places, EvlMask, EGoto, eData
    <2>3. EReads
        BY <1>11, <1>a, <1>b, <2>1 DEF EReads, InRound, Places, EVL_RECV, EvlMask, EGoto, NextToE, NextToG, Follow, InLoop, BatchFrom, TheEnd, eToE, eToG, eData
    <2> QED
        BY <2>1, <2>2, <2>3 DEF EMoves
<1>12. CASE EvlBatch
    <2>1. circuit' = circuit /\ UNCHANGED gVars
        BY <1>12 DEF EvlBatch, gVars
    <2>2. InRound(circuit, eAt', eIx')
        BY <1>12, <1>a, <1>b DEF InRound, Places, EvlBatch, EGoto, HeldAfter, eData
    <2>3. EReads
        <3>1. eIx + eHeld = eIx /\ eIx < Len(circuit.gates) /\ eAt = "gates"
            BY <1>12, <1>a DEF EvlBatch, InRound
        <3>2. eToE = <<"batch", eIx>> /\ eToG' = eToG
            BY <3>1, <1>12, <2>1 DEF EvlBatch, eToE, eToG, NextToE, NextToG, BatchFrom, InLoop
        <3>3. eToE' = BatchFrom(circuit, eIx + GatesBeforeSend)
            BY <3>1, <1>12, <2>1 DEF EvlBatch, eToE, NextToE, HeldAfter
        <3> QED
            BY <1>12, <3>2, <3>3 DEF EvlBatch, EReads, Follow
    <2> QED
        BY <2>1, <2>2, <2>3 DEF EMoves
<1>13. CASE EvlGate
    <2>1. circuit' = circuit /\ UNCHANGED gVars
        BY <1>13 DEF EvlGate, gVars
    <2>2. InRound(circuit, eAt', eIx')
        BY <1>13, <1>a, <1>b DEF InRound, Places, EvlGate, EGoto, eData
    <2>3. EQuiet
        BY <1>13, <1>a, <1>b, <2>1 DEF EQuiet, InRound, Places, EvlGate, EGoto, NextToE, NextToG, Follow, InLoop, BatchFrom, TheEnd, eToE, eToG, eData
    <2> QED
        BY <2>1, <2>2, <2>3 DEF EMoves
<1>14. CASE EvlLast
    <2>1. circuit' = circuit /\ UNCHANGED gVars
        BY <1>14 DEF EvlLast, gVars
    <2>2. InRound(circuit, eAt', eIx')
        BY <1>14, <1>a, <1>b DEF InRound, Places, EvlLast, EGoto, AfterGates, OutFrom, eData
    <2>3. EQuiet
        BY <1>14, <1>a, <1>b, <2>1 DEF EQuiet, InRound, Places, EvlLast, EGoto, AfterGates, OutFrom, NextToE, NextToG, Follow, InLoop, BatchFrom, TheEnd, eToE, eToG, eData
    <2> QED
        BY <2>1, <2>2, <2>3 DEF EMoves
<1>15. CASE EvlOut
    <2>1. circuit' = circuit /\ UNCHANGED gVars
        BY <1>15 DEF EvlOut, gVars
    <2>2. InRound(circuit, eAt', eIx')
        BY <1>15, <1>a, <1>b DEF InRound, Places, EvlOut, EGoto, OutFrom, eData
    <2>3. EWrites(Msg("gen_out", 0, None))
        BY <1>15, <1>a, <1>b, <2>1 DEF EWrites, InRound, Places, Msg, Sent, EvlOut, EGoto, OutFrom, NextToE, NextToG, Follow, InLoop, BatchFrom, TheEnd, eToE, eToG, eData
    <2> QED
        BY <2>1, <2>2, <2>3 DEF EMoves
<1> QED
    BY <1>1, <1>2, <1>3, <1>4, <1>5, <1>6, <1>7, <1>8, <1>9, <1>10, <1>11, <1>12, <1>13, <1>14, <1>15 DEF Evaluator

----------------------------------------------------------------------------
(* The links stay in step.                                                 *)

\* A step of the generator keeps what is on the links in order.
LEMMA GenInStep ==
    ASSUME LinksInStep, GenBatchAt, Generator
    PROVE  LinksInStep'
<1>1. circuit' = circuit /\ UNCHANGED eVars /\ InRound(circuit, gAt', gIx') /\ GMoves
    BY GenSteps
<1>2. eToE' = eToE /\ eToG' = eToG
    BY <1>1 DEF eToE, eToG, eVars
<1>3. InRound(circuit', gAt', gIx') /\ InRound(circuit', eAt', eIx') /\ circuit' \in Circuits
    BY <1>1 DEF eVars, LinksInStep
<1>4. CASE GQuiet
    BY <1>1, <1>2, <1>3, <1>4 DEF LinksInStep, GQuiet
<1>5. CASE GReads
    <2>1. IsLink(toG) /\ toG # <<>> /\ Chain(circuit, toG, gToG, eToG) /\ Len(toG) <= Capacity
        BY <1>5 DEF LinksInStep, GReads, GEN_RECV
    <2>2. Chain(circuit, Tail(toG), Follow(circuit, gToG), eToG)
        BY <2>1, ChainRead
    <2>3. IsLink(Tail(toG)) /\ Len(Tail(toG)) <= Capacity
        BY <2>1, TailLink, CountsAssumption
    <2> QED
        BY <1>1, <1>2, <1>3, <1>5, <2>2, <2>3 DEF LinksInStep, GReads, GEN_RECV
<1>6. CASE \E m : GWrites(m)
    <2>1. PICK m : GWrites(m)
        BY <1>6
    <2>2. IsLink(toE) /\ Chain(circuit, toE, eToE, gToE) /\ Len(toE) < Capacity /\ Sent(m) = gToE
        BY <2>1 DEF LinksInStep, GWrites, GEN_SEND
    <2>3. Chain(circuit, Append(toE, m), eToE, Follow(circuit, gToE))
        BY <2>2, ChainWrite
    <2>4. IsLink(Append(toE, m)) /\ Len(Append(toE, m)) <= Capacity
        BY <2>2, AppendLink, CountsAssumption
    <2> QED
        BY <1>1, <1>2, <1>3, <2>1, <2>3, <2>4 DEF LinksInStep, GWrites, GEN_SEND
<1> QED
    BY <1>1, <1>4, <1>5, <1>6 DEF GMoves

\* And so does a step of the evaluator.
LEMMA EvlInStep ==
    ASSUME LinksInStep, EvlBatchAt, Evaluator, EvlOpen => Val(Head(toE)) = eComm
    PROVE  LinksInStep'
<1>1. circuit' = circuit /\ UNCHANGED gVars /\ InRound(circuit, eAt', eIx') /\ EMoves
    BY EvlSteps
<1>2. gToE' = gToE /\ gToG' = gToG
    BY <1>1 DEF gToE, gToG, gVars
<1>3. InRound(circuit', gAt', gIx') /\ InRound(circuit', eAt', eIx') /\ circuit' \in Circuits
    BY <1>1 DEF gVars, LinksInStep
<1>4. CASE EQuiet
    BY <1>1, <1>2, <1>3, <1>4 DEF LinksInStep, EQuiet
<1>5. CASE EReads
    <2>1. IsLink(toE) /\ toE # <<>> /\ Chain(circuit, toE, eToE, gToE) /\ Len(toE) <= Capacity
        BY <1>5 DEF LinksInStep, EReads, EVL_RECV
    <2>2. Chain(circuit, Tail(toE), Follow(circuit, eToE), gToE)
        BY <2>1, ChainRead
    <2>3. IsLink(Tail(toE)) /\ Len(Tail(toE)) <= Capacity
        BY <2>1, TailLink, CountsAssumption
    <2> QED
        BY <1>1, <1>2, <1>3, <1>5, <2>2, <2>3 DEF LinksInStep, EReads, EVL_RECV
<1>6. CASE \E m : EWrites(m)
    <2>1. PICK m : EWrites(m)
        BY <1>6
    <2>2. IsLink(toG) /\ Chain(circuit, toG, gToG, eToG) /\ Len(toG) < Capacity /\ Sent(m) = eToG
        BY <2>1 DEF LinksInStep, EWrites, EVL_SEND
    <2>3. Chain(circuit, Append(toG, m), gToG, Follow(circuit, eToG))
        BY <2>2, ChainWrite
    <2>4. IsLink(Append(toG, m)) /\ Len(Append(toG, m)) <= Capacity
        BY <2>2, AppendLink, CountsAssumption
    <2> QED
        BY <1>1, <1>2, <1>3, <2>1, <2>3, <2>4 DEF LinksInStep, EWrites, EVL_SEND
<1> QED
    BY <1>1, <1>4, <1>5, <1>6 DEF EMoves

\* What a party is about to read is the message of its own place.
LEMMA ReadsOwn ==
    ASSUME LinksInStep
    PROVE  /\ toE # <<>> => Sent(Head(toE)) = eToE /\ 1 \in 1..Len(toE) /\ Head(toE) = toE[1]
           /\ toG # <<>> => Sent(Head(toG)) = gToG /\ 1 \in 1..Len(toG) /\ Head(toG) = toG[1]
<1>1. IsLink(toE) /\ IsLink(toG) /\ Chain(circuit, toE, eToE, gToE) /\ Chain(circuit, toG, gToG, eToG)
    BY DEF LinksInStep
<1>2. ASSUME toE # <<>>
      PROVE  Sent(Head(toE)) = eToE /\ 1 \in 1..Len(toE) /\ Head(toE) = toE[1]
    <2>1. Sent(Head(toE)) = eToE
        BY <1>1, <1>2, ChainRead
    <2>2. Len(toE) \in Nat \ {0} /\ Head(toE) = toE[1]
        BY <1>1, <1>2, TailLink
    <2> QED
        BY <2>1, <2>2
<1>3. ASSUME toG # <<>>
      PROVE  Sent(Head(toG)) = gToG /\ 1 \in 1..Len(toG) /\ Head(toG) = toG[1]
    <2>1. Sent(Head(toG)) = gToG
        BY <1>1, <1>3, ChainRead
    <2>2. Len(toG) \in Nat \ {0} /\ Head(toG) = toG[1]
        BY <1>1, <1>3, TailLink
    <2> QED
        BY <2>1, <2>2
<1> QED
    BY <1>2, <1>3

----------------------------------------------------------------------------
(* What the messages say, and what the parties know: generator's steps.    *)

\* A batch without gates is empty.
LEMMA EmptyBatch ==
    ASSUME NEW c, NEW lo \in Nat, NEW s, GatesOf(c, s, lo, lo)
    PROVE  s = <<>>
<1>1. s \in Seq(1..Len(c.gates)) /\ \A i \in 1..Len(s) : lo < s[i] /\ s[i] <= lo
    BY DEF GatesOf
<1>2. Len(s) = 0
    <2>1. SUFFICES ASSUME Len(s) # 0 PROVE FALSE
        OBVIOUS
    <2>2. 1 \in 1..Len(s)
        BY <1>1, <2>1
    <2>3. lo < s[1] /\ s[1] <= lo /\ s[1] \in Int
        BY <1>1, <2>2
    <2> QED
        BY <2>3
<1> QED
    BY <1>1, <1>2

\* The bytes of a batch, with one gate more and with all its gates.
LEMMA BytesBound ==
    ASSUME NEW h \in 0..GatesBeforeSend
    PROVE  /\ h * MaxGateBytes \in Nat
           /\ h * MaxGateBytes <= BufferBytes
           /\ (h + 1) * MaxGateBytes = h * MaxGateBytes + MaxGateBytes
<1>1. GatesBeforeSend \in Nat /\ MaxGateBytes \in Nat /\ BufferBytes \in Nat
    BY CountsAssumption
<1>2. \A a, b, m \in Nat : a <= b => a * m <= b * m /\ a * m \in Nat
    OBVIOUS
<1>3. \A a, m \in Nat : (a + 1) * m = a * m + m
    OBVIOUS
<1>4. h \in Nat /\ h <= GatesBeforeSend
    BY <1>1
<1>5. h * MaxGateBytes <= GatesBeforeSend * MaxGateBytes /\ h * MaxGateBytes \in Nat
      /\ GatesBeforeSend * MaxGateBytes \in Nat
    BY <1>1, <1>2, <1>4
<1> QED
    BY <1>1, <1>3, <1>4, <1>5, BufferAssumption

\* From its second Prng draw on the generator changes none of its values;
\* gen_init gives the same keys again.
LEMMA GenSettled ==
    ASSUME GenKnows, Generator, gAt \in Late
    PROVE  gAt' \in Late /\ gOpen' = gOpen /\ gMask' = gMask /\ gKeys' = gKeys /\ gRnd' = gRnd
<1> USE DEF Late
<1>1. CASE GenClaw
    BY <1>1 DEF GenClaw
<1>2. CASE GenBaseSend
    BY <1>2 DEF GenBaseSend
<1>3. CASE GenBaseRecv
    BY <1>3 DEF GenBaseRecv
<1>4. CASE GenExtRecv
    BY <1>4 DEF GenExtRecv
<1>5. CASE GenExtSend
    BY <1>5 DEF GenExtSend
<1>6. CASE GenCommit
    BY <1>6 DEF GenCommit
<1>7. CASE GenComm
    BY <1>7 DEF GenComm
<1>8. CASE GenCoins
    BY <1>8 DEF GenCoins, GGoto, gData
<1>9. CASE GenOpen
    BY <1>9 DEF GenOpen, GGoto, gData, AfterOpen
<1>10. CASE GenKey
    BY <1>10 DEF GenKey, GGoto, gData, GLoop
<1>11. CASE GenMask
    <2>1. gKeys = gen_init(gRnd, gPrng).keys /\ gKeys' = gen_init(gRnd, gPrng).keys
        BY <1>11 DEF GenMask, GenKnows
    <2> QED
        BY <1>11, <2>1 DEF GenMask, GGoto
<1>12. CASE GenGate
    BY <1>12 DEF GenGate, GGoto, gData
<1>13. CASE GenBatch
    BY <1>13 DEF GenBatch, GGoto, gData
<1>14. CASE GenLast
    BY <1>14 DEF GenLast, GGoto, gData, AfterGates
<1>15. CASE GenOut
    BY <1>15 DEF GenOut, GGoto, gData
<1> QED
    BY <1>1, <1>2, <1>3, <1>4, <1>5, <1>6, <1>7, <1>8, <1>9, <1>10, <1>11, <1>12, <1>13, <1>14, <1>15 DEF Generator

\* A party never goes back to an earlier turn.
LEMMA GenTurns ==
    ASSUME Generator
    PROVE  Turn(gAt) <= Turn(gAt')
<1> USE DEF Turn
<1>1. CASE GenClaw
    BY <1>1 DEF GenClaw, GGoto, AfterClaw
<1>2. CASE GenBaseSend
    BY <1>2 DEF GenBaseSend, GGoto
<1>3. CASE GenBaseRecv
    BY <1>3 DEF GenBaseRecv, GGoto, GLoop
<1>4. CASE GenExtRecv
    BY <1>4 DEF GenExtRecv, GGoto
<1>5. CASE GenExtSend
    BY <1>5 DEF GenExtSend, GGoto
<1>6. CASE GenCommit
    BY <1>6 DEF GenCommit, GGoto
<1>7. CASE GenComm
    BY <1>7 DEF GenComm, GGoto
<1>8. CASE GenCoins
    BY <1>8 DEF GenCoins, GGoto
<1>9. CASE GenOpen
    BY <1>9 DEF GenOpen, GGoto, AfterOpen
<1>10. CASE GenKey
    BY <1>10 DEF GenKey, GGoto, GLoop
<1>11. CASE GenMask
    BY <1>11 DEF GenMask, GGoto
<1>12. CASE GenGate
    BY <1>12 DEF GenGate, GGoto
<1>13. CASE GenBatch
    BY <1>13 DEF GenBatch, GGoto
<1>14. CASE GenLast
    BY <1>14 DEF GenLast, GGoto, AfterGates
<1>15. CASE GenOut
    BY <1>15 DEF GenOut, GGoto
<1> QED
    BY <1>1, <1>2, <1>3, <1>4, <1>5, <1>6, <1>7, <1>8, <1>9, <1>10, <1>11, <1>12, <1>13, <1>14, <1>15 DEF Generator

\* A message the generator writes holds what it should.
LEMMA GenWritesTrue ==
    ASSUME LinksInStep, GenBatchAt, GenKnows, Generator, toE' # toE
    PROVE  \E m : /\ toE' = Append(toE, m)
                  /\ MsgToEHolds(m, circuit, gAt', gOpen', gKeys', gMask')
<1>a. InRound(circuit, gAt, gIx) /\ Gates \in Nat /\ GatesBeforeSend \in Nat \ {0}
      /\ BufferBytes \in Nat /\ circuit.gen_inp_cnt \in Nat
    BY CircuitFacts DEF LinksInStep
<1> USE DEF EarlyKinds, LateKinds, Late
<1>1. CASE GenClaw
    BY <1>1 DEF GenClaw, GEN_RECV
<1>2. CASE GenBaseSend
    <2> DEFINE m == Msg(gAt, 0, None)
    <2>1. toE' = Append(toE, m) /\ gAt \in EarlyKinds /\ Turn(gAt) <= Turn(gAt')
        BY <1>2, GenTurns DEF GenBaseSend, GEN_SEND
    <2>2. MsgToEHolds(m, circuit, gAt', gOpen', gKeys', gMask')
        BY <2>1 DEF MsgToEHolds, Msg, Turn
    <2> QED
        BY <2>1, <2>2
<1>3. CASE GenBaseRecv
    BY <1>3 DEF GenBaseRecv, GEN_RECV
<1>4. CASE GenExtRecv
    BY <1>4 DEF GenExtRecv, GEN_RECV
<1>5. CASE GenExtSend
    <2> DEFINE m == Msg(gAt, 0, None)
    <2>1. toE' = Append(toE, m) /\ gAt \in EarlyKinds /\ Turn(gAt) <= Turn(gAt')
        BY <1>5, GenTurns DEF GenExtSend, GEN_SEND
    <2>2. MsgToEHolds(m, circuit, gAt', gOpen', gKeys', gMask')
        BY <2>1 DEF MsgToEHolds, Msg, Turn
    <2> QED
        BY <2>1, <2>2
<1>6. CASE GenCommit
    BY <1>6 DEF GenCommit
<1>7. CASE GenComm
    <2>1. PICK coins \in Seeds : gOpen' = coins /\ GEN_SEND(Msg("comm", 0, coins))
        BY <1>7 DEF GenComm
    <2>2. gAt' \in Late
        BY <1>7 DEF GenComm, GGoto
    <2> DEFINE m == Msg("comm", 0, coins)
    <2>3. toE' = Append(toE, m)
        BY <2>1 DEF GEN_SEND
    <2>4. m[1] = "comm" /\ m[3] = gOpen'
        BY <2>1 DEF Msg
    <2>5. MsgToEHolds(m, circuit, gAt', gOpen', gKeys', gMask')
        BY <2>2, <2>4 DEF MsgToEHolds, Turn
    <2> QED
        BY <2>3, <2>5
<1>8. CASE GenCoins
    BY <1>8 DEF GenCoins, GEN_RECV
<1>9. CASE GenOpen
    <2> DEFINE m == Msg("open", 0, gOpen)
    <2>1. toE' = Append(toE, m) /\ gAt' \in {"key", "mask"} /\ gOpen' = gOpen
        BY <1>9 DEF GenOpen, GEN_SEND, GGoto, AfterOpen, gData
    <2>2. MsgToEHolds(m, circuit, gAt', gOpen', gKeys', gMask')
        BY <2>1 DEF MsgToEHolds, Msg, Turn
    <2> QED
        BY <2>1, <2>2
<1>10. CASE GenKey
    <2> DEFINE m == Msg("key", gIx, gKeys[gIx][circuit.m_gen_inp[gIx]])
    <2>1. toE' = Append(toE, m) /\ gAt = "key" /\ gAt' \in {"key", "mask"} /\ gKeys' = gKeys
        BY <1>10 DEF GenKey, GEN_SEND, GLoop, GGoto, gData
    <2>2. m[1] = "key" /\ m[2] = gIx /\ m[3] = InputKey(circuit, gKeys, gIx)
        BY DEF Msg, InputKey
    <2>3. gIx \in 0..(circuit.gen_inp_cnt - 1)
        BY <1>a, <2>1 DEF InRound
    <2> HIDE DEF m
    <2>4. /\ m[1] \in EarlyKinds \union LateKinds /\ Turn(m[1]) <= Turn(gAt') /\ gAt' \in Late
          /\ m[1] \notin {"comm", "open", "mask", "batch"}
        BY <2>1, <2>2 DEF Turn, EarlyKinds, LateKinds, Late
    <2>5. MsgToEHolds(m, circuit, gAt', gOpen', gKeys', gMask')
        BY <2>1, <2>2, <2>3, <2>4 DEF MsgToEHolds
    <2> QED
        BY <2>1, <2>5
<1>11. CASE GenMask
    <2> DEFINE m == Msg("mask", 0, XorMask(gMask, circuit.m_gen_inp))
    <2>1. toE' = Append(toE, m) /\ gAt' = "gates" /\ gMask' = gMask
        BY <1>11 DEF GenMask, GEN_SEND, GGoto
    <2>2. m[1] = "mask" /\ m[3] = InputMask(circuit, gMask)
        BY DEF Msg, XorMask, InputMask, GenInps
    <2>3. MsgToEHolds(m, circuit, gAt', gOpen', gKeys', gMask')
        BY <2>1, <2>2 DEF MsgToEHolds, Turn
    <2> QED
        BY <2>1, <2>3
<1>12. CASE GenGate
    BY <1>12 DEF GenGate
<1>13. CASE GenBatch
    <2> DEFINE m == Msg("batch", gIx - gHow, [gates |-> gBuf, bytes |-> gBytes])
    <2>1. toE' = Append(toE, m) /\ gAt = "gates" /\ gAt' = "gates" /\ BatchDue
        BY <1>13 DEF GenBatch, GEN_SEND
    <2>2. gHow \in 0..GatesBeforeSend /\ gHow <= gIx /\ gIx \in Nat /\ gIx <= Gates
        BY <1>a, <2>1 DEF GenBatchAt, InRound, Gates
    <2>3. gIx - gHow \in Nat /\ gIx = UpToLast(circuit, (gIx - gHow) + GatesBeforeSend)
        BY <1>a, <2>1, <2>2 DEF BatchDue, UpToLast, Gates
    <2>4. gBytes \in Nat /\ gBytes <= BufferBytes
        BY <1>a, <2>2, BytesBound DEF GenBatchAt
    <2>5. GatesOf(circuit, gBuf, gIx - gHow, UpToLast(circuit, (gIx - gHow) + GatesBeforeSend))
        BY <2>3 DEF GenBatchAt
    <2>6. m[1] = "batch" /\ m[2] = gIx - gHow /\ m[3].gates = gBuf /\ m[3].bytes = gBytes
        BY DEF Msg
    <2>7. MsgToEHolds(m, circuit, gAt', gOpen', gKeys', gMask')
        BY <2>1, <2>3, <2>4, <2>5, <2>6 DEF MsgToEHolds, Turn
    <2> QED
        BY <2>1, <2>7
<1>14. CASE GenLast
    BY <1>14 DEF GenLast
<1>15. CASE GenOut
    BY <1>15 DEF GenOut, GEN_RECV
<1> QED
    BY <1>1, <1>2, <1>3, <1>4, <1>5, <1>6, <1>7, <1>8, <1>9, <1>10, <1>11, <1>12, <1>13, <1>14, <1>15 DEF Generator

\* A step of the generator leaves the messages to the evaluator true.
LEMMA GenToEHolds ==
    ASSUME LinksInStep, GenBatchAt, GenKnows, ToEHolds, Generator
    PROVE  ToEHolds'
<1>1. circuit' = circuit /\ GMoves
    BY GenSteps
<1>2. \A m : MsgToEHolds(m, circuit, gAt, gOpen, gKeys, gMask)
             => MsgToEHolds(m, circuit, gAt', gOpen', gKeys', gMask')
    <2> TAKE m
    <2> HAVE MsgToEHolds(m, circuit, gAt, gOpen, gKeys, gMask)
    <2>0. Turn(m[1]) <= Turn(gAt')
        <3>1. Turn(m[1]) <= Turn(gAt) /\ Turn(gAt) <= Turn(gAt')
            BY GenTurns DEF MsgToEHolds
        <3>2. Turn(m[1]) \in Int /\ Turn(gAt) \in Int /\ Turn(gAt') \in Int
            BY DEF Turn
        <3> QED
            BY <3>1, <3>2
    <2>1. CASE gAt \in Late
        <3>1. gAt' \in Late /\ gOpen' = gOpen /\ gMask' = gMask /\ gKeys' = gKeys
            BY <2>1, GenSettled
        <3> QED
            BY <2>0, <3>1 DEF MsgToEHolds
    <2>2. CASE gAt \notin Late
        <3>1. m[1] \in EarlyKinds
            BY <2>2 DEF MsgToEHolds
        <3> QED
            BY <2>0, <3>1 DEF MsgToEHolds, EarlyKinds, LateKinds
    <2> QED
        BY <2>1, <2>2
<1>3. CASE toE' = toE
    BY <1>1, <1>2, <1>3 DEF ToEHolds
<1>4. CASE toE' # toE
    <2>1. PICK m : toE' = Append(toE, m)
                   /\ MsgToEHolds(m, circuit, gAt', gOpen', gKeys', gMask')
        BY <1>4, GenWritesTrue
    <2>2. /\ Len(toE') = Len(toE) + 1 /\ Len(toE) \in Nat
          /\ \A i \in 1..Len(toE) : toE'[i] = toE[i]
          /\ toE'[Len(toE) + 1] = m
        BY <2>1, AppendLink DEF LinksInStep
    <2>3. ASSUME NEW i \in 1..Len(toE')
          PROVE  MsgToEHolds(toE'[i], circuit', gAt', gOpen', gKeys', gMask')
        <3>1. CASE i = Len(toE) + 1
            BY <1>1, <2>1, <2>2, <3>1
        <3>2. CASE i # Len(toE) + 1
            <4>1. i \in 1..Len(toE)
                BY <2>2, <3>2
            <4> QED
                BY <1>1, <1>2, <2>2, <4>1 DEF ToEHolds
        <3> QED
            BY <3>1, <3>2
    <2> QED
        BY <2>3 DEF ToEHolds
<1> QED
    BY <1>3, <1>4

\* What is left of a link after a read still holds.
LEMMA GenToGHolds ==
    ASSUME LinksInStep, GenBatchAt, ToGHolds, Generator
    PROVE  ToGHolds'
<1>1. eAt' = eAt /\ eFlip' = eFlip /\ GMoves
    BY GenSteps DEF eVars
<1>2. CASE toG' = toG
    BY <1>1, <1>2 DEF ToGHolds
<1>3. CASE toG # <<>> /\ toG' = Tail(toG)
    <2>1. /\ Len(toG) \in Nat \ {0} /\ Len(toG') = Len(toG) - 1
          /\ \A i \in 1..Len(toG') : toG'[i] = toG[i + 1]
        BY <1>3, TailLink DEF LinksInStep
    <2>2. ASSUME NEW i \in 1..Len(toG')
          PROVE  MsgToGHolds(toG'[i], eAt', eFlip')
        <3>1. i + 1 \in 1..Len(toG) /\ toG'[i] = toG[i + 1]
            BY <2>1
        <3> QED
            BY <1>1, <3>1 DEF ToGHolds
    <2> QED
        BY <2>2 DEF ToGHolds
<1> QED
    BY <1>1, <1>2, <1>3 DEF GMoves, GQuiet, GReads, GWrites, GEN_SEND, GEN_RECV

\* The generator's garbling goes on with the keys and the gates it is at.
LEMMA GenBatchStep ==
    ASSUME LinksInStep, GenBatchAt, Generator
    PROVE  GenBatchAt'
<1>a. /\ InRound(circuit, gAt, gIx) /\ Gates \in Nat /\ GatesBeforeSend \in Nat \ {0}
      /\ \A i \in 1..Gates : circuit.gates[i] \in 0..MaxGateBytes
      /\ MaxGateBytes \in Nat /\ gIx \in Nat
    BY CircuitFacts DEF LinksInStep, InRound
<1>b. circuit' = circuit /\ InRound(circuit, gAt', gIx') /\ gIx' \in Nat
    BY GenSteps DEF InRound
<1>1. ASSUME gHow = 0, gHow' = 0, gBuf' = gBuf, gBytes' = gBytes \/ gBytes' = 0
      PROVE  GenBatchAt'
    <2>1. gBuf = <<>> /\ gBytes = 0
        <3>1. GatesOf(circuit, gBuf, gIx, gIx) /\ gBytes \in Nat /\ gBytes <= 0
            BY <1>1, <1>a DEF GenBatchAt
        <3> QED
            BY <3>1, <1>a, EmptyBatch
    <2>2. GatesOf(circuit, <<>>, gIx' - 0, gIx')
        BY <1>b, NoGates
    <2> QED
        BY <1>1, <1>a, <1>b, <2>1, <2>2 DEF GenBatchAt
<1>2. gAt # "gates" => gHow = 0
    BY DEF GenBatchAt
<1>3. CASE GenClaw
    BY <1>1, <1>2, <1>3 DEF GenClaw, gData
<1>4. CASE GenBaseSend
    BY <1>1, <1>2, <1>4 DEF GenBaseSend, gData
<1>5. CASE GenBaseRecv
    BY <1>1, <1>2, <1>5 DEF GenBaseRecv, gData
<1>6. CASE GenExtRecv
    BY <1>1, <1>2, <1>6 DEF GenExtRecv, gData
<1>7. CASE GenExtSend
    BY <1>1, <1>2, <1>7 DEF GenExtSend, gData
<1>8. CASE GenCommit
    BY <1>1, <1>2, <1>8 DEF GenCommit
<1>9. CASE GenComm
    BY <1>1, <1>2, <1>9 DEF GenComm
<1>10. CASE GenCoins
    BY <1>1, <1>2, <1>10 DEF GenCoins
<1>11. CASE GenOpen
    BY <1>1, <1>2, <1>11 DEF GenOpen, gData
<1>12. CASE GenKey
    BY <1>1, <1>2, <1>12 DEF GenKey, gData
<1>13. CASE GenMask
    BY <1>1, <1>2, <1>13 DEF GenMask
<1>14. CASE GenGate
    <2>1. /\ gAt = "gates" /\ gAt' = "gates" /\ gHow < GatesBeforeSend /\ gIx < Gates
          /\ gIx' = gIx + 1 /\ gHow' = gHow + 1 /\ gBuf' = Buffered(gBuf, gIx + 1)
          /\ gBytes' = gBytes + circuit.gates[gIx + 1]
        BY <1>14 DEF GenGate
    <2>2. gHow \in 0..GatesBeforeSend /\ gHow <= gIx /\ gBytes \in Nat /\ gBytes <= gHow * MaxGateBytes
          /\ GatesOf(circuit, gBuf, gIx - gHow, gIx) /\ gHow \in Nat /\ gIx - gHow \in Nat
        BY <1>a DEF GenBatchAt
    <2>3. GatesOf(circuit, gBuf', gIx - gHow, gIx + 1)
        <3> DEFINE lo == gIx - gHow
        <3>1. lo \in Nat /\ lo <= gIx /\ gIx \in Nat /\ gIx < Len(circuit.gates)
            BY <1>a, <2>1, <2>2 DEF Gates
        <3>2. Len(circuit.gates) \in Nat /\ GatesOf(circuit, gBuf, lo, gIx)
            BY <1>a, <2>2 DEF Gates
        <3>3. gBuf' = IF circuit.gates[gIx + 1] = 0 THEN gBuf ELSE Append(gBuf, gIx + 1)
            BY <2>1 DEF Buffered
        <3> HIDE DEF lo
        <3>4. GatesOf(circuit, gBuf', lo, gIx + 1)
            BY <3>1, <3>2, <3>3, GateBuffered
        <3> QED
            BY <3>4 DEF lo
    <2>4. gIx' - gHow' = gIx - gHow
        BY <1>a, <2>1, <2>2
    <2>5. gBytes' \in Nat /\ gBytes' <= gHow' * MaxGateBytes
        <3>1. circuit.gates[gIx + 1] \in 0..MaxGateBytes
            BY <1>a, <2>1
        <3>2. (gHow + 1) * MaxGateBytes = gHow * MaxGateBytes + MaxGateBytes /\ gHow * MaxGateBytes \in Nat
            BY <2>2, BytesBound
        <3> QED
            BY <1>a, <2>1, <2>2, <3>1, <3>2
    <2> QED
        BY <1>a, <1>b, <2>1, <2>2, <2>3, <2>4, <2>5 DEF GenBatchAt
<1>15. CASE GenBatch
    <2>1. gAt' = "gates" /\ gIx' = gIx /\ gHow' = 0 /\ gBuf' = <<>> /\ gBytes' = 0
        BY <1>15 DEF GenBatch, send
    <2>2. GatesOf(circuit, <<>>, gIx - 0, gIx)
        BY <1>a, NoGates
    <2> QED
        BY <1>a, <1>b, <2>1, <2>2 DEF GenBatchAt
<1>16. CASE GenLast
    BY <1>1, <1>2, <1>16 DEF GenLast, gData
<1>17. CASE GenOut
    BY <1>1, <1>2, <1>17 DEF GenOut, gData
<1> QED
    BY <1>3, <1>4, <1>5, <1>6, <1>7, <1>8, <1>9, <1>10, <1>11, <1>12, <1>13, <1>14, <1>15, <1>16, <1>17 DEF Generator

\* A step of the generator keeps what it knows true.
LEMMA GenKnowsStep ==
    ASSUME LinksInStep, ToGHolds, GenKnows, EvlKnows, Generator, GenBatchAt
    PROVE  GenKnows'
<1>a. circuit' = circuit /\ eAt' = eAt /\ eFlip' = eFlip
    BY GenSteps DEF eVars
<1>1. gAt' \in Late \union {"comm"} => gKeys' = gen_init(gRnd', gPrng').keys
    <2>1. CASE gAt \in Late
        <3>1. gKeys' = gKeys /\ gRnd' = gRnd
            BY <2>1, GenSettled
        <3>2. gKeys = gen_init(gRnd, gPrng).keys
            BY <2>1 DEF GenKnows
        <3> QED
            BY <1>a, <3>1, <3>2 DEF gen_init, GenInps
    <2>2. CASE GenCommit
        <3>1. PICK rnd \in Seeds : gRnd' = rnd /\ gKeys' = gen_init(rnd, gPrng).keys
            BY <2>2 DEF GenCommit
        <3> QED
            BY <1>a, <3>1 DEF gen_init, GenInps
    <2>3. CASE GenComm
        <3>1. gKeys' = gKeys /\ gRnd' = gRnd /\ gAt = "comm"
            BY <2>3 DEF GenComm
        <3>2. gKeys = gen_init(gRnd, gPrng).keys
            BY <3>1 DEF GenKnows
        <3> QED
            BY <1>a, <3>1, <3>2 DEF gen_init, GenInps
    <2>4. ASSUME gAt \notin Late, ~GenCommit, ~GenComm
          PROVE  gAt' \notin Late \union {"comm"}
        BY <2>4 DEF Generator, Late, GenClaw, GenBaseSend, GenBaseRecv, GenExtRecv, GenExtSend,
                    GenCoins, GenOpen, GenKey, GenMask, GenGate, GenBatch, GenLast, GenOut,
                    GGoto, GLoop, AfterClaw
    <2> QED
        BY <2>1, <2>2, <2>3, <2>4
<1>2. gCoins' # {} => gCoins' = XorCoins(gOpen', eFlip') /\ eAt' \in Late \ {"coins"} /\ gAt' \in Late
    <2>1. CASE GenCoins
        <3>1. /\ gAt = "coins" /\ toG # <<>> /\ gCoins' = XorCoins(gOpen, Val(Head(toG)))
              /\ gOpen' = gOpen /\ gAt' = "open"
            BY <2>1 DEF GenCoins, GEN_RECV, GGoto
        <3>2. Sent(Head(toG)) = gToG /\ 1 \in 1..Len(toG) /\ Head(toG) = toG[1]
            BY <3>1, ReadsOwn
        <3>3. Sent(Head(toG)) = <<"coins", 0>>
            BY <3>1, <3>2 DEF gToG, NextToG
        <3>4. MsgToGHolds(Head(toG), eAt, eFlip)
            BY <3>2 DEF ToGHolds
        <3>5. Val(Head(toG)) = eFlip /\ eAt \in Late \ {"coins"}
            BY <3>3, <3>4 DEF MsgToGHolds, Sent, Val
        <3> QED
            BY <1>a, <3>1, <3>5 DEF Late
    <2>2. CASE ~GenCoins
        <3>1. gCoins' = gCoins
            BY <2>2 DEF Generator, GenClaw, GenBaseSend, GenBaseRecv, GenExtRecv, GenExtSend, GenCommit, GenComm, GenOpen,
                    GenKey, GenMask, GenGate, GenBatch, GenLast, GenOut, gData
        <3> HAVE gCoins' # {}
        <3>2. gCoins = XorCoins(gOpen, eFlip) /\ eAt \in Late \ {"coins"} /\ gAt \in Late
            BY <3>1 DEF GenKnows
        <3>3. gOpen' = gOpen /\ gAt' \in Late
            BY <3>2, GenSettled
        <3> QED
            BY <1>a, <3>1, <3>2, <3>3
    <2> QED
        BY <2>1, <2>2
<1>3. gen_init(gRnd', gPrng').keys = (gen_init(gRnd, gPrng).keys)'
    BY <1>a DEF gen_init, GenInps
<1>4. XorCoins(gOpen', eFlip') = XorCoins(gOpen, eFlip)'
    BY DEF XorCoins
<1> QED
    BY <1>1, <1>2, <1>3, <1>4 DEF GenKnows

\* What the evaluator knows stays true.
LEMMA GenLeavesEvl ==
    ASSUME LinksInStep, GenBatchAt, GenKnows, EvlBatchAt, EvlKnows, Generator
    PROVE  EvlBatchAt' /\ EvlKnows'
<1>1. circuit' = circuit /\ UNCHANGED eVars
    BY GenSteps
<1>2. EvlBatchAt'
    BY <1>1 DEF EvlBatchAt, eVars, Gates
<1>3. EvlKnows'
    <2>1. CASE eAt \in Late
        <3>1. gAt \in Late
            BY <2>1 DEF EvlKnows
        <3>2. gAt' \in Late /\ gOpen' = gOpen /\ gMask' = gMask /\ gKeys' = gKeys
            BY <3>1, GenSettled
        <3> QED
            BY <1>1, <3>2 DEF EvlKnows, eVars, GenInps, KeysRead
    <2>2. CASE eAt \notin Late
        <3>1. eAt' \notin Late /\ KeysRead' = 0 /\ eCoins = {} /\ eCoins' = {} /\ eKeys' = eKeys
            BY <1>1, <2>2 DEF EvlKnows, eVars, KeysRead, Late
        <3>2. GenInps' = GenInps /\ \A j \in GenInps : ~(j < 0)
            BY <1>1, CircuitFacts DEF GenInps, LinksInStep
        <3> QED
            BY <3>1, <3>2 DEF EvlKnows, Late
    <2> QED
        BY <2>1, <2>2
<1> QED
    BY <1>2, <1>3

----------------------------------------------------------------------------
(* The same for the evaluator's steps.                                     *)

\* What the evaluator reads holds; the commitment it reads opens.
LEMMA HeadHolds ==
    ASSUME LinksInStep, ToEHolds, toE # <<>>
    PROVE  /\ Sent(Head(toE)) = eToE
           /\ MsgToEHolds(Head(toE), circuit, gAt, gOpen, gKeys, gMask)
BY ReadsOwn DEF ToEHolds

\* A commitment opens to what was committed to.
LEMMA CommitmentOpens ==
    ASSUME LinksInStep, ToEHolds, EvlKnows, EvlOpen
    PROVE  Val(Head(toE)) = eComm /\ Val(Head(toE)) = gOpen
<1>1. eAt = "open" /\ toE # <<>>
    BY DEF EvlOpen, EVL_RECV
<1>2. Sent(Head(toE)) = <<"open", 0>>
    BY <1>1, HeadHolds DEF eToE, NextToE
<1>3. Val(Head(toE)) = gOpen
    BY <1>1, <1>2, HeadHolds DEF MsgToEHolds, Sent, Val
<1>4. eComm = gOpen
    BY <1>1 DEF EvlKnows, Late
<1> QED
    BY <1>3, <1>4

\* A step of the evaluator leaves the messages to it true.
LEMMA EvlToEHolds ==
    ASSUME LinksInStep, ToEHolds, EvlBatchAt, EvlKnows, Evaluator
    PROVE  ToEHolds'
<1>1. circuit' = circuit /\ UNCHANGED gVars /\ EMoves
    BY EvlSteps, CommitmentOpens
<1>2. gAt' = gAt /\ gOpen' = gOpen /\ gKeys' = gKeys /\ gMask' = gMask
    BY <1>1 DEF gVars
<1>3. CASE toE' = toE
    BY <1>1, <1>2, <1>3 DEF ToEHolds
<1>4. CASE toE # <<>> /\ toE' = Tail(toE)
    <2>1. /\ Len(toE) \in Nat \ {0} /\ Len(toE') = Len(toE) - 1
          /\ \A i \in 1..Len(toE') : toE'[i] = toE[i + 1]
        BY <1>4, TailLink DEF LinksInStep
    <2>2. ASSUME NEW i \in 1..Len(toE')
          PROVE  MsgToEHolds(toE'[i], circuit', gAt', gOpen', gKeys', gMask')
        <3>1. i + 1 \in 1..Len(toE) /\ toE'[i] = toE[i + 1]
            BY <2>1
        <3> QED
            BY <1>1, <1>2, <3>1 DEF ToEHolds
    <2> QED
        BY <2>2 DEF ToEHolds
<1> QED
    BY <1>1, <1>3, <1>4 DEF EMoves, EQuiet, EReads, EWrites, EVL_SEND, EVL_RECV

\* From its flip on the evaluator keeps its coins; before that it has sent none.
LEMMA EvlSettled ==
    ASSUME LinksInStep, ToEHolds, EvlKnows, Evaluator, eAt \in Late
    PROVE  eAt' \in Late /\ eFlip' = eFlip /\ eComm' = eComm
           /\ (eAt # "coins" => eAt' # "coins")
<1> USE DEF Late
<1>1. CASE EvlClaw
    BY <1>1 DEF EvlClaw
<1>2. CASE EvlBaseRecv
    BY <1>2 DEF EvlBaseRecv
<1>3. CASE EvlBaseSend
    BY <1>3 DEF EvlBaseSend
<1>4. CASE EvlExtSend
    BY <1>4 DEF EvlExtSend
<1>5. CASE EvlExtRecv
    BY <1>5 DEF EvlExtRecv
<1>6. CASE EvlCommit
    BY <1>6 DEF EvlCommit
<1>7. CASE EvlComm
    BY <1>7 DEF EvlComm
<1>8. CASE EvlCoins
    BY <1>8 DEF EvlCoins, EGoto, eData
<1>9. CASE EvlOpen
    BY <1>9, CommitmentOpens DEF EvlOpen, EGoto, eData, AfterOpen
<1>10. CASE EvlKey
    BY <1>10 DEF EvlKey, EGoto, eData, ELoop
<1>11. CASE EvlMask
    BY <1>11 DEF EvlMask, EGoto, eData
<1>12. CASE EvlBatch
    BY <1>12 DEF EvlBatch, EGoto, eData
<1>13. CASE EvlGate
    BY <1>13 DEF EvlGate, EGoto, eData
<1>14. CASE EvlLast
    BY <1>14 DEF EvlLast, EGoto, eData, AfterGates
<1>15. CASE EvlOut
    BY <1>15 DEF EvlOut, EGoto, eData
<1> QED
    BY <1>1, <1>2, <1>3, <1>4, <1>5, <1>6, <1>7, <1>8, <1>9, <1>10, <1>11, <1>12, <1>13, <1>14, <1>15 DEF Evaluator

\* Where a step of the evaluator takes it.
LEMMA EvlTurns ==
    ASSUME LinksInStep, ToEHolds, EvlKnows, Evaluator
    PROVE  Turn(eAt) <= Turn(eAt')
<1> USE DEF Turn
<1>1. CASE EvlClaw
    BY <1>1 DEF EvlClaw, EGoto, AfterClaw
<1>2. CASE EvlBaseRecv
    BY <1>2 DEF EvlBaseRecv, EGoto
<1>3. CASE EvlBaseSend
    BY <1>3 DEF EvlBaseSend, EGoto, ELoop
<1>4. CASE EvlExtSend
    BY <1>4 DEF EvlExtSend, EGoto
<1>5. CASE EvlExtRecv
    BY <1>5 DEF EvlExtRecv, EGoto
<1>6. CASE EvlCommit
    BY <1>6 DEF EvlCommit, EGoto
<1>7. CASE EvlComm
    BY <1>7 DEF EvlComm, EGoto
<1>8. CASE EvlCoins
    BY <1>8 DEF EvlCoins, EGoto
<1>9. CASE EvlOpen
    BY <1>9, CommitmentOpens DEF EvlOpen, EGoto, AfterOpen
<1>10. CASE EvlKey
    BY <1>10 DEF EvlKey, EGoto, ELoop
<1>11. CASE EvlMask
    BY <1>11 DEF EvlMask, EGoto
<1>12. CASE EvlBatch
    BY <1>12 DEF EvlBatch, EGoto
<1>13. CASE EvlGate
    BY <1>13 DEF EvlGate, EGoto
<1>14. CASE EvlLast
    BY <1>14 DEF EvlLast, EGoto, AfterGates
<1>15. CASE EvlOut
    BY <1>15 DEF EvlOut, EGoto
<1> QED
    BY <1>1, <1>2, <1>3, <1>4, <1>5, <1>6, <1>7, <1>8, <1>9, <1>10, <1>11, <1>12, <1>13, <1>14, <1>15 DEF Evaluator

\* A message the evaluator writes holds what it should.
LEMMA EvlWritesTrue ==
    ASSUME LinksInStep, ToEHolds, EvlKnows, Evaluator, toG' # toG
    PROVE  \E m : toG' = Append(toG, m) /\ MsgToGHolds(m, eAt', eFlip')
<1>t. Turn(eAt) <= Turn(eAt')
    BY EvlTurns
<1> USE DEF GKinds, Late
<1>1. CASE EvlClaw
    <2>1. toG' = Append(toG, Msg("claw", 0, None)) /\ eAt = "claw"
        BY <1>1 DEF EvlClaw, EVL_SEND
    <2>2. MsgToGHolds(Msg("claw", 0, None), eAt', eFlip')
        BY <1>t, <2>1 DEF MsgToGHolds, Msg
    <2> QED
        BY <2>1, <2>2
<1>2. CASE EvlBaseRecv
    BY <1>2 DEF EvlBaseRecv, EVL_RECV
<1>3. CASE EvlBaseSend
    <2>1. toG' = Append(toG, Msg("xy", eIx, None)) /\ eAt = "xy"
        BY <1>3 DEF EvlBaseSend, EVL_SEND
    <2>2. MsgToGHolds(Msg("xy", eIx, None), eAt', eFlip')
        BY <1>t, <2>1 DEF MsgToGHolds, Msg
    <2> QED
        BY <2>1, <2>2
<1>4. CASE EvlExtSend
    <2>1. toG' = Append(toG, Msg("xor", 0, None)) /\ eAt = "xor"
        BY <1>4 DEF EvlExtSend, EVL_SEND
    <2>2. MsgToGHolds(Msg("xor", 0, None), eAt', eFlip')
        BY <1>t, <2>1 DEF MsgToGHolds, Msg
    <2> QED
        BY <2>1, <2>2
<1>5. CASE EvlExtRecv
    BY <1>5 DEF EvlExtRecv, EVL_RECV
<1>6. CASE EvlCommit
    BY <1>6 DEF EvlCommit
<1>7. CASE EvlComm
    BY <1>7 DEF EvlComm, EVL_RECV
<1>8. CASE EvlCoins
    <2>1. toG' = Append(toG, Msg("coins", 0, eFlip)) /\ eAt' = "open" /\ eFlip' = eFlip
        BY <1>8 DEF EvlCoins, EVL_SEND, EGoto, eData
    <2>2. MsgToGHolds(Msg("coins", 0, eFlip), eAt', eFlip')
        BY <2>1 DEF MsgToGHolds, Msg, Turn
    <2> QED
        BY <2>1, <2>2
<1>9. CASE EvlOpen
    BY <1>9 DEF EvlOpen, EVL_RECV
<1>10. CASE EvlKey
    BY <1>10 DEF EvlKey, EVL_RECV
<1>11. CASE EvlMask
    BY <1>11 DEF EvlMask, EVL_RECV
<1>12. CASE EvlBatch
    BY <1>12 DEF EvlBatch, EVL_RECV
<1>13. CASE EvlGate
    BY <1>13 DEF EvlGate
<1>14. CASE EvlLast
    BY <1>14 DEF EvlLast
<1>15. CASE EvlOut
    <2>1. toG' = Append(toG, Msg("gen_out", 0, None)) /\ eAt = "gen_out"
        BY <1>15 DEF EvlOut, EVL_SEND
    <2>2. MsgToGHolds(Msg("gen_out", 0, None), eAt', eFlip')
        BY <1>t, <2>1 DEF MsgToGHolds, Msg
    <2> QED
        BY <2>1, <2>2
<1> QED
    BY <1>1, <1>2, <1>3, <1>4, <1>5, <1>6, <1>7, <1>8, <1>9, <1>10, <1>11, <1>12, <1>13, <1>14, <1>15 DEF Evaluator

\* A step of the evaluator leaves the messages to the generator true.
LEMMA EvlToGHolds ==
    ASSUME LinksInStep, ToEHolds, ToGHolds, EvlBatchAt, EvlKnows, Evaluator
    PROVE  ToGHolds'
<1>1. EMoves
    BY EvlSteps, CommitmentOpens
<1>2. \A m : MsgToGHolds(m, eAt, eFlip) => MsgToGHolds(m, eAt', eFlip')
    <2>1. eAt \in Late => eAt' \in Late /\ eFlip' = eFlip /\ (eAt # "coins" => eAt' # "coins")
        BY EvlSettled
    <2>2. Turn(eAt) <= Turn(eAt')
        BY EvlTurns
    <2>3. \A k : Turn(k) \in Int
        BY DEF Turn
    <2>4. \A k : Turn(k) <= Turn(eAt) => Turn(k) <= Turn(eAt')
        BY <2>2, <2>3
    <2> QED
        BY <2>1, <2>4 DEF MsgToGHolds
<1>3. CASE toG' = toG
    BY <1>2, <1>3 DEF ToGHolds
<1>4. CASE toG' # toG
    <2>1. PICK m : toG' = Append(toG, m) /\ MsgToGHolds(m, eAt', eFlip')
        BY <1>4, EvlWritesTrue
    <2>2. /\ Len(toG') = Len(toG) + 1 /\ Len(toG) \in Nat
          /\ \A i \in 1..Len(toG) : toG'[i] = toG[i]
          /\ toG'[Len(toG) + 1] = m
        BY <2>1, AppendLink DEF LinksInStep
    <2>3. ASSUME NEW i \in 1..Len(toG')
          PROVE  MsgToGHolds(toG'[i], eAt', eFlip')
        <3>1. CASE i = Len(toG) + 1
            BY <2>1, <2>2, <3>1
        <3>2. CASE i # Len(toG) + 1
            <4>1. i \in 1..Len(toG)
                BY <2>2, <3>2
            <4> QED
                BY <1>2, <2>2, <4>1 DEF ToGHolds
        <3> QED
            BY <3>1, <3>2
    <2> QED
        BY <2>3 DEF ToGHolds
<1> QED
    BY <1>3, <1>4

\* What the generator knows stays true.
LEMMA EvlLeavesGen ==
    ASSUME LinksInStep, ToEHolds, GenBatchAt, GenKnows, EvlBatchAt, EvlKnows, Evaluator
    PROVE  GenBatchAt' /\ GenKnows'
<1>1. circuit' = circuit /\ UNCHANGED gVars
    BY EvlSteps, CommitmentOpens
<1>2. GenBatchAt'
    BY <1>1 DEF GenBatchAt, gVars
<1>3. gen_init(gRnd, gPrng)' = gen_init(gRnd, gPrng)
    BY <1>1 DEF gen_init, gVars, GenInps
<1>4. gCoins # {} => eAt' \in Late \ {"coins"} /\ eFlip' = eFlip
    BY EvlSettled DEF GenKnows
<1> QED
    BY <1>1, <1>2, <1>3, <1>4 DEF GenKnows, gVars, XorCoins

\* The evaluator's decoding goes on with the keys and the gates it is at.
LEMMA EvlBatchStep ==
    ASSUME LinksInStep, ToEHolds, EvlBatchAt, EvlKnows, Evaluator
    PROVE  EvlBatchAt'
<1>a. /\ InRound(circuit, eAt, eIx) /\ Gates \in Nat /\ GatesBeforeSend \in Nat \ {0}
      /\ eIx \in Nat /\ eHeld \in 0..GatesBeforeSend /\ eBuf \in Seq(1..Gates)
    BY CircuitFacts DEF LinksInStep, InRound, EvlBatchAt
<1>b. circuit' = circuit /\ Gates' = Gates
    BY EvlSteps, CommitmentOpens DEF Gates
<1>c. ASSUME eHeld' = eHeld, eBuf' = eBuf, eAt \notin {"gates", "gen_out", "done"},
             eAt' \notin {"gates", "gen_out", "done"}
      PROVE  EvlBatchAt'
    BY <1>a, <1>b, <1>c DEF EvlBatchAt
<1>1. CASE EvlClaw
    BY <1>c, <1>1 DEF EvlClaw, EGoto, eData, AfterClaw
<1>2. CASE EvlBaseRecv
    BY <1>c, <1>2 DEF EvlBaseRecv, EGoto, eData
<1>3. CASE EvlBaseSend
    BY <1>c, <1>3 DEF EvlBaseSend, EGoto, eData, ELoop
<1>4. CASE EvlExtSend
    BY <1>c, <1>4 DEF EvlExtSend, EGoto, eData
<1>5. CASE EvlExtRecv
    BY <1>c, <1>5 DEF EvlExtRecv, EGoto, eData
<1>6. CASE EvlCommit
    BY <1>c, <1>6 DEF EvlCommit, EGoto, eData
<1>7. CASE EvlComm
    BY <1>c, <1>7 DEF EvlComm, EGoto, eData
<1>8. CASE EvlCoins
    BY <1>c, <1>8 DEF EvlCoins, EGoto, eData
<1>9. CASE EvlOpen
    BY <1>c, <1>9, CommitmentOpens DEF EvlOpen, EGoto, eData, AfterOpen
<1>10. CASE EvlKey
    BY <1>c, <1>10 DEF EvlKey, EGoto, eData, ELoop
<1>11. CASE EvlMask
    <2>1. eAt = "mask" /\ eHeld' = eHeld /\ eBuf' = eBuf /\ eAt' = "gates" /\ eIx' = 0
        BY <1>11 DEF EvlMask, EGoto
    <2>2. eHeld = 0 /\ eBuf = <<>>
        BY <2>1 DEF EvlBatchAt
    <2>3. UpToLast(circuit, 0 + 0) = 0
        BY <1>a DEF UpToLast, Gates
    <2>4. GatesOf(circuit, <<>>, 0, 0)
        BY NoGates
    <2> QED
        BY <1>a, <1>b, <2>1, <2>2, <2>3, <2>4 DEF EvlBatchAt
<1>12. CASE EvlBatch
    <2>1. /\ eAt = "gates" /\ eAt' = "gates" /\ eIx' = eIx /\ eIx < Gates /\ eHeld = 0 /\ toE # <<>>
          /\ eBuf' = Val(Head(toE)).gates /\ eHeld' = GatesBeforeSend
        BY <1>12 DEF EvlBatch, EVL_RECV, HeldAfter
    <2>2. Sent(Head(toE)) = <<"batch", eIx>>
        BY <1>a, <2>1, HeadHolds DEF eToE, NextToE, BatchFrom, InLoop, Gates
    <2>3. GatesOf(circuit, eBuf', eIx, UpToLast(circuit, eIx + GatesBeforeSend))
        BY <2>1, <2>2, HeadHolds DEF MsgToEHolds, Sent, Val
    <2>4. eBuf' \in Seq(1..Gates)
        BY <2>3 DEF GatesOf, Gates
    <2> QED
        BY <1>a, <1>b, <2>1, <2>3, <2>4 DEF EvlBatchAt
<1>13. CASE EvlGate
    <2>1. /\ eAt = "gates" /\ eAt' = "gates" /\ eIx' = eIx + 1 /\ eIx < Gates /\ eHeld > 0
          /\ eHeld' = eHeld - 1
          /\ eBuf' = IF circuit.gates[eIx + 1] = 0 \/ eBuf = <<>> THEN eBuf ELSE Tail(eBuf)
        BY <1>13 DEF EvlGate
    <2> DEFINE hi == UpToLast(circuit, eIx + eHeld)
    <2>2. hi \in Nat /\ eIx < hi /\ hi <= Gates /\ UpToLast(circuit, eIx' + eHeld') = hi
        BY <1>a, <2>1 DEF UpToLast, Gates
    <2>3. GatesOf(circuit, eBuf, eIx, hi)
        BY <2>1 DEF EvlBatchAt
    <2>4. GatesOf(circuit, eBuf', eIx + 1, hi)
        BY <1>a, <2>1, <2>2, <2>3, GateTaken DEF Gates
    <2>5. eBuf' \in Seq(1..Gates)
        BY <2>4 DEF GatesOf, Gates
    <2> QED
        BY <1>a, <1>b, <2>1, <2>2, <2>4, <2>5 DEF EvlBatchAt
<1>14. CASE EvlLast
    BY <1>a, <1>b, <1>14 DEF EvlLast, EGoto, AfterGates, eData, EvlBatchAt
<1>15. CASE EvlOut
    BY <1>a, <1>b, <1>15 DEF EvlOut, EGoto, eData, EvlBatchAt
<1> QED
    BY <1>1, <1>2, <1>3, <1>4, <1>5, <1>6, <1>7, <1>8, <1>9, <1>10, <1>11, <1>12, <1>13, <1>14, <1>15 DEF Evaluator

\* A step of the evaluator keeps what it knows true.
LEMMA EvlKnowsStep ==
    ASSUME LinksInStep, ToEHolds, EvlBatchAt, EvlKnows, Evaluator
    PROVE  EvlKnows'
<1>a. InRound(circuit, eAt, eIx) /\ eIx \in Nat /\ circuit.gen_inp_cnt \in Nat
    BY CircuitFacts DEF LinksInStep, InRound
<1>b. circuit' = circuit /\ GenInps' = GenInps /\ UNCHANGED <<gAt, gOpen, gKeys, gMask>>
    BY EvlSteps, CommitmentOpens DEF GenInps, gVars
<1>c. eAt \in Late => eAt' \in Late /\ eFlip' = eFlip /\ eComm' = eComm
    BY EvlSettled

\* A step that takes nothing off the link but the evaluator on.
<1>d. ASSUME UNCHANGED <<eComm, eCoins, eKeys, eMask>>, KeysRead' = KeysRead \/ KeysRead' = 0,
             eAt' \in Late => eAt \in Late,
             eAt' \in {"gates", "gen_out", "done"} => eAt \in {"gates", "gen_out", "done"}
      PROVE  EvlKnows'
    <2>1. KeysRead \in Nat
        BY <1>a DEF KeysRead
    <2>2. \A j \in GenInps : j < KeysRead' => j < KeysRead
        BY <1>a, <1>d, <2>1 DEF GenInps
    <2>3. eAt' \in Late => gAt \in Late /\ eComm = gOpen
        BY <1>d DEF EvlKnows
    <2>4. eCoins # {} => eCoins = XorCoins(eFlip', gOpen) /\ eAt' \in Late
        BY <1>c DEF EvlKnows
    <2>5. \A j \in GenInps : j < KeysRead' => eKeys[j] = InputKey(circuit, gKeys, j)
        BY <2>2 DEF EvlKnows
    <2>6. eAt' \in {"gates", "gen_out", "done"} => eMask = InputMask(circuit, gMask)
        BY <1>d DEF EvlKnows
    <2>7. DOMAIN eKeys = GenInps
        BY DEF EvlKnows
    <2> QED
        BY <1>b, <1>d, <2>3, <2>4, <2>5, <2>6, <2>7 DEF EvlKnows, XorCoins
<1>1. CASE EvlClaw
    BY <1>b, <1>d, <1>1 DEF EvlClaw, EGoto, eData, AfterClaw, KeysRead, Late
<1>2. CASE EvlBaseRecv
    BY <1>b, <1>d, <1>2 DEF EvlBaseRecv, EGoto, eData, KeysRead, Late
<1>3. CASE EvlBaseSend
    BY <1>b, <1>d, <1>3 DEF EvlBaseSend, EGoto, eData, ELoop, KeysRead, Late
<1>4. CASE EvlExtSend
    BY <1>b, <1>d, <1>4 DEF EvlExtSend, EGoto, eData, KeysRead, Late
<1>5. CASE EvlExtRecv
    BY <1>b, <1>d, <1>5 DEF EvlExtRecv, EGoto, eData, KeysRead, Late
<1>6. CASE EvlCommit
    BY <1>b, <1>d, <1>6 DEF EvlCommit, EGoto, eData, KeysRead, Late
<1>7. CASE EvlComm
    <2>1. /\ eAt = "comm" /\ eAt' = "coins" /\ toE # <<>> /\ eComm' = Val(Head(toE))
          /\ UNCHANGED <<eCoins, eKeys, eMask>>
        BY <1>7 DEF EvlComm, EVL_RECV, EGoto
    <2>2. Sent(Head(toE)) = <<"comm", 0>>
        BY <2>1, HeadHolds DEF eToE, NextToE
    <2>3. gAt \in Late /\ eComm' = gOpen
        BY <2>1, <2>2, HeadHolds DEF MsgToEHolds, Sent, Val, LateKinds
    <2>4. eCoins = {} /\ DOMAIN eKeys = GenInps
        BY <2>1 DEF EvlKnows, Late
    <2>5. KeysRead' = 0 /\ \A j \in GenInps : ~(j < 0)
        BY <1>a, <2>1 DEF KeysRead, GenInps
    <2> QED
        BY <1>b, <2>1, <2>3, <2>4, <2>5 DEF EvlKnows
<1>8. CASE EvlCoins
    BY <1>b, <1>d, <1>8 DEF EvlCoins, EGoto, eData, KeysRead, Late
<1>9. CASE EvlOpen
    <2>1. /\ eAt = "open" /\ eAt' = AfterOpen /\ eIx' = 0
          /\ eCoins' = XorCoins(eFlip, gOpen)
          /\ UNCHANGED <<eComm, eFlip, eKeys, eMask>>
        BY <1>9, CommitmentOpens DEF EvlOpen, EGoto
    <2>2. eAt' \in {"key", "mask"} /\ eAt' \in Late /\ eAt \in Late
        BY <2>1 DEF AfterOpen, Late
    <2>3. gAt \in Late /\ eComm = gOpen /\ DOMAIN eKeys = GenInps
        BY <2>2 DEF EvlKnows
    <2>4. KeysRead' = 0
        BY <1>a, <1>b, <2>1 DEF KeysRead, AfterOpen
    <2>5. \A j \in GenInps : ~(j < 0)
        BY <1>a DEF GenInps
    <2> QED
        BY <1>b, <2>1, <2>2, <2>3, <2>4, <2>5 DEF EvlKnows, XorCoins
<1>10. CASE EvlKey
    <2>1. /\ eAt = "key" /\ toE # <<>> /\ eKeys' = [eKeys EXCEPT ![eIx] = Val(Head(toE))]
          /\ UNCHANGED <<eComm, eFlip, eCoins, eMask>>
        BY <1>10 DEF EvlKey, EVL_RECV
    <2>2. Sent(Head(toE)) = <<"key", eIx>>
        BY <2>1, HeadHolds DEF eToE, NextToE
    <2>3. Val(Head(toE)) = InputKey(circuit, gKeys, eIx) /\ eIx \in GenInps
        BY <1>a, <2>1, <2>2, HeadHolds DEF MsgToEHolds, Sent, Val, GenInps
    <2>4. KeysRead = eIx /\ KeysRead' = eIx + 1 /\ eAt' \in {"key", "mask"}
        BY <1>a, <1>b, <1>10, <2>1 DEF EvlKey, ELoop, EGoto, KeysRead, InRound
    <2>5. ASSUME NEW j \in GenInps, j < eIx + 1
          PROVE  eKeys'[j] = InputKey(circuit, gKeys, j)
        <3>1. j = eIx \/ j < eIx
            BY <1>a, <2>5 DEF GenInps
        <3> QED
            BY <2>1, <2>3, <2>4, <3>1 DEF EvlKnows
    <2>6. gAt \in Late /\ eComm = gOpen /\ DOMAIN eKeys' = GenInps
          /\ (eCoins # {} => eCoins = XorCoins(eFlip, gOpen))
        BY <2>1 DEF EvlKnows, Late
    <2> QED
        BY <1>b, <2>1, <2>4, <2>5, <2>6 DEF EvlKnows, XorCoins, Late
<1>11. CASE EvlMask
    <2>1. /\ eAt = "mask" /\ toE # <<>> /\ eMask' = Val(Head(toE)) /\ eAt' = "gates"
          /\ UNCHANGED <<eComm, eFlip, eCoins, eKeys>>
        BY <1>11 DEF EvlMask, EVL_RECV, EGoto
    <2>2. Sent(Head(toE)) = <<"mask", 0>>
        BY <2>1, HeadHolds DEF eToE, NextToE
    <2>3. eMask' = InputMask(circuit, gMask)
        BY <2>1, <2>2, HeadHolds DEF MsgToEHolds, Sent, Val
    <2>4. KeysRead' = circuit.gen_inp_cnt /\ KeysRead = circuit.gen_inp_cnt
        BY <1>b, <2>1 DEF KeysRead
    <2>5. gAt \in Late /\ eComm = gOpen /\ DOMAIN eKeys = GenInps
          /\ (eCoins # {} => eCoins = XorCoins(eFlip, gOpen))
          /\ \A j \in GenInps : j < KeysRead => eKeys[j] = InputKey(circuit, gKeys, j)
        BY <2>1 DEF EvlKnows, Late
    <2> QED
        BY <1>b, <2>1, <2>3, <2>4, <2>5 DEF EvlKnows, XorCoins, Late
<1>12. CASE EvlBatch
    BY <1>b, <1>d, <1>12 DEF EvlBatch, KeysRead, Late
<1>13. CASE EvlGate
    BY <1>b, <1>d, <1>13 DEF EvlGate, EGoto, eData, KeysRead, Late
<1>14. CASE EvlLast
    BY <1>b, <1>d, <1>14 DEF EvlLast, EGoto, eData, AfterGates, KeysRead, Late
<1>15. CASE EvlOut
    BY <1>b, <1>d, <1>15 DEF EvlOut, EGoto, eData, KeysRead, Late
<1> QED
    BY <1>1, <1>2, <1>3, <1>4, <1>5, <1>6, <1>7, <1>8, <1>9, <1>10, <1>11, <1>12, <1>13, <1>14, <1>15 DEF Evaluator

----------------------------------------------------------------------------
(* The theorems.                                                           *)

THEOREM RoundsInitOK == RoundsInit => RoundsIInv
<1> SUFFICES ASSUME RoundsInit PROVE RoundsIInv
    OBVIOUS
<1>1. /\ circuit \in Circuits /\ toE = <<>> /\ toG = <<>>
      /\ gAt = "claw" /\ eAt = "claw" /\ gIx = 0 /\ eIx = 0 /\ gHow = 0 /\ eHeld = 0
      /\ gBuf = <<>> /\ eBuf = <<>> /\ gBytes = 0 /\ gCoins = {} /\ eCoins = {}
      /\ eKeys = [j \in GenInps |-> <<>>]
    BY DEF RoundsInit
<1>2. Len(<<>>) = 0 /\ <<>> \in Seq(Held(<<>>)) /\ Capacity \in Nat \ {0}
      /\ GatesBeforeSend \in Nat \ {0} /\ 0 * MaxGateBytes = 0 /\ MaxGateBytes \in Nat
    BY CountsAssumption
<1>3. LinksInStep
    <2>1. InRound(circuit, "claw", 0)
        BY DEF InRound, Places
    <2>2. eToE = gToE /\ gToG = eToG
        BY <1>1 DEF eToE, gToE, gToG, eToG, NextToE, NextToG
    <2>3. \A a : Chain(circuit, <<>>, a, a)
        BY <1>2 DEF Chain
    <2> QED
        BY <1>1, <1>2, <2>1, <2>2, <2>3 DEF LinksInStep, IsLink
<1>4. ToEHolds /\ ToGHolds
    BY <1>1, <1>2 DEF ToEHolds, ToGHolds
<1>5. GenBatchAt
    BY <1>1, <1>2, NoGates DEF GenBatchAt
<1>6. EvlBatchAt
    BY <1>1, <1>2 DEF EvlBatchAt
<1>7. GenKnows
    BY <1>1 DEF GenKnows, Late
<1>8. EvlKnows
    <2>1. KeysRead = 0 /\ \A j \in GenInps : ~(j < 0)
        BY <1>1, CircuitFacts DEF KeysRead, GenInps
    <2> QED
        BY <1>1, <2>1 DEF EvlKnows, Late
<1> QED
    BY <1>3, <1>4, <1>5, <1>6, <1>7, <1>8 DEF RoundsIInv

\* Every step of either party keeps the invariant.
THEOREM RoundsStep == RoundsIInv /\ [RoundsNext]_roundsVars => RoundsIInv'
<1> SUFFICES ASSUME RoundsIInv, [RoundsNext]_roundsVars PROVE RoundsIInv'
    OBVIOUS
<1> USE DEF RoundsIInv
<1>1. CASE Generator
    BY <1>1, GenInStep, GenToEHolds, GenToGHolds, GenBatchStep, GenKnowsStep, GenLeavesEvl
<1>2. CASE Evaluator
    BY <1>2, EvlInStep, CommitmentOpens, EvlToEHolds, EvlToGHolds, EvlBatchStep, EvlKnowsStep,
       EvlLeavesGen
<1>3. CASE UNCHANGED roundsVars
    <2>1. UNCHANGED <<circuit, gAt, gIx, gRnd, gMask, gOpen, gCoins, gPrng, gKeys, gHow, gBuf, gBytes,
                      eAt, eIx, eComm, eFlip, eCoins, eKeys, eMask, eHeld, eBuf, toE, toG>>
        BY <1>3 DEF roundsVars, gVars, eVars
    <2>2. LinksInStep'
        BY <2>1 DEF LinksInStep, eToE, eToG, gToE, gToG
    <2>3. ToEHolds' /\ ToGHolds'
        BY <2>1 DEF ToEHolds, ToGHolds
    <2>4. GenBatchAt' /\ EvlBatchAt'
        BY <2>1 DEF GenBatchAt, EvlBatchAt, Gates
    <2>5. GenKnows' /\ EvlKnows'
        BY <2>1 DEF GenKnows, EvlKnows, gen_init, GenInps, KeysRead, XorCoins
    <2> QED
        BY <2>2, <2>3, <2>4, <2>5
<1> QED
    BY <1>1, <1>2, <1>3 DEF RoundsNext

\* The rounds stay within the inductive invariant, whatever the circuit, the
\* inputs and the randomness.
THEOREM RoundsInvariant == RoundsSpec => []RoundsIInv
BY RoundsInitOK, RoundsStep, PTL DEF RoundsSpec

\* In such a state everything has its type.
LEMMA InvTyped == RoundsIInv => RoundsTypeOK
BY DEF RoundsIInv, RoundsTypeOK, LinksInStep, InRound, GenBatchAt, EvlBatchAt, GatesOf, Gates

\* The state of a run has its types, and the link never holds more than it can.
THEOREM RoundsTyped == RoundsSpec => []RoundsTypeOK
BY InvTyped, RoundsInvariant, PTL

\* Two messages never meet on their way: only one party at a time writes.
LEMMA HalfDuplex ==
    ASSUME RoundsIInv
    PROVE  toE = <<>> \/ toG = <<>>
<1> SUFFICES ASSUME toE # <<>>, toG # <<>> PROVE FALSE
    OBVIOUS
<1>1. /\ Head(toE)[1] \in EarlyKinds \union LateKinds /\ Turn(Head(toE)[1]) <= Turn(gAt)
      /\ Sent(Head(toE)) = eToE
    BY HeadHolds DEF RoundsIInv, MsgToEHolds
<1>2. /\ Head(toG)[1] \in GKinds /\ Turn(Head(toG)[1]) <= Turn(eAt)
      /\ Sent(Head(toG)) = gToG
    BY ReadsOwn DEF RoundsIInv, ToGHolds, MsgToGHolds
<1>3. eToE[1] = Head(toE)[1] /\ gToG[1] = Head(toG)[1]
    BY <1>1, <1>2 DEF Sent
<1>4. InRound(circuit, gAt, gIx) /\ InRound(circuit, eAt, eIx)
    BY DEF RoundsIInv, LinksInStep
<1>5. Turn(eAt) <= Turn(eToE[1])
    BY <1>4 DEF InRound, Places, eToE, NextToE, BatchFrom, InLoop, TheEnd, Turn
<1>6. Turn(gAt) <= Turn(gToG[1])
    BY <1>4 DEF InRound, Places, gToG, NextToG, OutFrom, TheEnd, Turn
<1>7. Turn(Head(toE)[1]) \in {1, 3, 5} /\ Turn(Head(toG)[1]) \in {0, 2, 4, 6}
    BY <1>1, <1>2 DEF EarlyKinds, LateKinds, GKinds, Turn
<1>8. Turn(eAt) \in Int /\ Turn(gAt) \in Int
    BY DEF Turn
<1> QED
    BY <1>1, <1>2, <1>3, <1>5, <1>6, <1>7, <1>8

\* A party that is about to read reads what the other sent for that read.
LEMMA ReadsAreMeant ==
    ASSUME RoundsIInv
    PROVE  ReadsWhatWasSent
<1>a. InRound(circuit, gAt, gIx) /\ InRound(circuit, eAt, eIx) /\ Gates \in Nat
    BY CircuitFacts DEF RoundsIInv, LinksInStep
<1>b. toE # <<>> => Sent(Head(toE)) = eToE
    BY ReadsOwn DEF RoundsIInv
<1>c. toG # <<>> => Sent(Head(toG)) = gToG
    BY ReadsOwn DEF RoundsIInv
<1>1. ASSUME toE # <<>>, Receives("EVL")
      PROVE  Sent(Head(toE)) = IF eAt = "gates" THEN <<"batch", eIx>> ELSE <<eAt, eIx>>
    <2>1. CASE eAt # "gates"
        BY <1>1, <1>a, <1>b, <2>1 DEF Receives, eToE, NextToE, InRound, Places
    <2>2. CASE eAt = "gates"
        BY <1>1, <1>a, <1>b, <2>2 DEF Receives, eToE, NextToE, BatchFrom, InLoop, InRound, Gates
    <2> QED
        BY <2>1, <2>2
<1>2. toG # <<>> /\ Receives("GEN") => Sent(Head(toG)) = <<gAt, gIx>>
    BY <1>a, <1>c DEF Receives, gToG, NextToG, OutFrom, InRound, Places
<1>3. ASSUME gAt = "done", eAt = "done"
      PROVE  toE = <<>> /\ toG = <<>>
    <2>1. eToE = TheEnd /\ gToG = TheEnd
        BY <1>3 DEF eToE, gToG, NextToE, NextToG
    <2>2. toE # <<>> => Head(toE)[1] \in EarlyKinds \union LateKinds
        BY HeadHolds DEF RoundsIInv, MsgToEHolds
    <2>3. toG # <<>> => Head(toG)[1] \in GKinds
        BY ReadsOwn DEF RoundsIInv, ToGHolds, MsgToGHolds
    <2> QED
        BY <1>b, <1>c, <2>1, <2>2, <2>3 DEF Sent, TheEnd, EarlyKinds, LateKinds, GKinds
<1> QED
    BY <1>1, <1>2, <1>3 DEF ReadsWhatWasSent

\* Of two parties that wait, one waits for what the other is about to write.
LEMMA OneGoesOn ==
    ASSUME RoundsIInv
    PROVE  NeverBothWait
<1>a. /\ InRound(circuit, gAt, gIx) /\ InRound(circuit, eAt, eIx) /\ Gates \in Nat
      /\ gHow \in 0..GatesBeforeSend /\ GatesBeforeSend \in Nat
      /\ IsLink(toE) /\ IsLink(toG) /\ Capacity \in Nat \ {0}
    BY CircuitFacts, CountsAssumption DEF RoundsIInv, LinksInStep, GenBatchAt
<1>b. (toE = <<>> => eToE = gToE) /\ (toG = <<>> => gToG = eToG)
    BY DEF RoundsIInv, LinksInStep, Chain
<1>c. /\ Len(toE) >= Capacity => toE # <<>>
      /\ Len(toG) >= Capacity => toG # <<>>
    <2>1. Len(<<>>) = 0
        OBVIOUS
    <2> QED
        BY <1>a, <2>1

\* A party that waits for a message knows which one.
<1>1. ASSUME Receives("EVL"), toE = <<>>
      PROVE  gToE = IF eAt = "gates" THEN <<"batch", eIx>> ELSE <<eAt, eIx>>
    <2>1. CASE eAt # "gates"
        BY <1>1, <1>a, <1>b, <2>1 DEF Receives, eToE, NextToE, InRound, Places
    <2>2. CASE eAt = "gates"
        BY <1>1, <1>a, <1>b, <2>2 DEF Receives, eToE, NextToE, BatchFrom, InLoop, InRound, Gates
    <2> QED
        BY <2>1, <2>2
<1>2. ASSUME Receives("GEN"), toG = <<>>
      PROVE  eToG = <<gAt, gIx>>
    BY <1>2, <1>a, <1>b DEF Receives, gToG, NextToG, OutFrom, InRound, Places

\* Nobody waits for a party that is done.
<1>3. ASSUME Waits("EVL") PROVE gAt # "done"
    <2> SUFFICES ASSUME gAt = "done" PROVE FALSE
        OBVIOUS
    <2>1. gToE = TheEnd /\ gToG = TheEnd
        BY DEF gToE, gToG, NextToE, NextToG
    <2>2. CASE Receives("EVL") /\ toE = <<>>
        BY <1>1, <2>1, <2>2 DEF TheEnd, Receives
    <2>3. CASE Len(toG) >= Capacity
        <3>1. Sent(Head(toG)) = gToG /\ Head(toG)[1] \in GKinds
            BY <1>c, <2>3, ReadsOwn DEF RoundsIInv, ToGHolds, MsgToGHolds
        <3> QED
            BY <2>1, <3>1 DEF TheEnd, Sent, GKinds
    <2> QED
        BY <1>3, <2>2, <2>3 DEF Waits
<1>4. ASSUME Waits("GEN") PROVE eAt # "done"
    <2> SUFFICES ASSUME eAt = "done" PROVE FALSE
        OBVIOUS
    <2>1. eToE = TheEnd /\ eToG = TheEnd
        BY DEF eToE, eToG, NextToE, NextToG
    <2>2. CASE Receives("GEN") /\ toG = <<>>
        BY <1>2, <2>1, <2>2 DEF TheEnd, Receives
    <2>3. CASE Len(toE) >= Capacity
        <3>1. Sent(Head(toE)) = eToE /\ Head(toE)[1] \in EarlyKinds \union LateKinds
            BY <1>c, <2>3, HeadHolds DEF RoundsIInv, MsgToEHolds
        <3> QED
            BY <2>1, <3>1 DEF TheEnd, Sent, EarlyKinds, LateKinds
    <2> QED
        BY <1>4, <2>2, <2>3 DEF Waits
<1>5. ASSUME Waits("GEN"), Waits("EVL") PROVE FALSE
    <2>1. CASE Receives("GEN") /\ toG = <<>> /\ Receives("EVL") /\ toE = <<>>
        BY <1>1, <1>2, <1>a, <2>1 DEF Receives, eToG, gToE, NextToE, NextToG, OutFrom, BatchFrom, InLoop,
                                      TheEnd, InRound, Places
    <2>2. CASE Len(toE) >= Capacity /\ Len(toG) >= Capacity
        BY <1>c, <2>2, HalfDuplex
    <2>3. CASE Sends("GEN") /\ Len(toE) >= Capacity /\ Receives("EVL") /\ toE = <<>>
        BY <1>c, <2>3
    <2>4. CASE Sends("EVL") /\ Len(toG) >= Capacity /\ Receives("GEN") /\ toG = <<>>
        BY <1>c, <2>4
    <2> QED
        BY <1>5, <2>1, <2>2, <2>3, <2>4 DEF Waits
<1> QED
    BY <1>3, <1>4, <1>5 DEF NeverBothWait

\* In such a state the parties are in step.
LEMMA InvLockStep == RoundsIInv => LockStep
BY ReadsAreMeant, OneGoesOn DEF LockStep

\* GEN and EVL blocks of BetterYao.cpp mirror each other: whatever circuit is
\* run, each block a party reads is the one the other party sent for that read,
\* and, however little the link holds, the two never wait for each other.
THEOREM InLockStep == RoundsSpec => []LockStep
BY InvLockStep, RoundsInvariant, PTL

\* In such a state the keys are current.
LEMMA InvKeysCurrent == RoundsIInv => KeysAreCurrent
<1> SUFFICES ASSUME RoundsIInv PROVE KeysAreCurrent
    OBVIOUS
<1>1. SameCoins
    <2>1. eAt # "exit"
        BY DEF RoundsIInv, LinksInStep, InRound, Places
    <2>2. gCoins # {} /\ eCoins # {} => gCoins = eCoins
        BY DEF RoundsIInv, GenKnows, EvlKnows, XorCoins
    <2> QED
        BY <2>1, <2>2 DEF SameCoins
<1>2. ASSUME eAt \in {"gates", "gen_out", "done"}
      PROVE  /\ \A j \in GenInps : eKeys[j] = gKeys[j][circuit.m_gen_inp[j]]
             /\ eMask = XorMask(gMask, circuit.m_gen_inp)
    <2>1. KeysRead = circuit.gen_inp_cnt
        BY <1>2 DEF KeysRead
    <2>2. \A j \in GenInps : j < circuit.gen_inp_cnt
        BY CircuitFacts DEF GenInps, RoundsIInv, LinksInStep
    <2> QED
        BY <1>2, <2>1, <2>2 DEF RoundsIInv, EvlKnows, InputKey, InputMask, XorMask, GenInps
<1> QED
    BY <1>1, <1>2 DEF KeysAreCurrent

\* The commitment always opens, both shuffle with the same coins, and the
\* evaluator's keys and mask are those the gates are garbled with, although
\* the generator makes its keys twice.
THEOREM KeysStayCurrent == RoundsSpec => []KeysAreCurrent
BY InvKeysCurrent, RoundsInvariant, PTL

\* In such a state a gate has its own bytes.
LEMMA InvOwnBytes == RoundsIInv => OwnBytes
<1> SUFFICES ASSUME RoundsIInv PROVE OwnBytes
    OBVIOUS
<1>1. BatchFits
    <2>1. gBytes <= BufferBytes
        <3>1. gHow \in 0..GatesBeforeSend /\ gBytes \in Nat /\ gBytes <= gHow * MaxGateBytes
            BY DEF RoundsIInv, GenBatchAt
        <3> QED
            BY <3>1, BytesBound, CountsAssumption
    <2>2. \A i \in 1..Len(toE) : Sent(toE[i])[1] = "batch" => Val(toE[i]).bytes <= BufferBytes
        BY DEF RoundsIInv, ToEHolds, MsgToEHolds, Sent, Val
    <2> QED
        BY <2>1, <2>2 DEF BatchFits
<1>2. ASSUME eAt = "gates", eIx < Gates, eHeld > 0, circuit.gates[eIx + 1] > 0
      PROVE  eBuf # <<>> /\ Head(eBuf) = eIx + 1
    <2>1. /\ Gates \in Nat /\ eIx \in Nat /\ eHeld \in 0..GatesBeforeSend
          /\ GatesBeforeSend \in Nat
        BY CircuitFacts DEF RoundsIInv, LinksInStep, InRound, EvlBatchAt
    <2> DEFINE hi == UpToLast(circuit, eIx + eHeld)
    <2>2. hi \in Nat /\ eIx < hi /\ hi <= Gates
        BY <1>2, <2>1 DEF UpToLast, Gates
    <2>3. GatesOf(circuit, eBuf, eIx, hi)
        BY <1>2 DEF RoundsIInv, EvlBatchAt
    <2>4. circuit.gates[eIx + 1] # 0
        BY <1>2
    <2>5. Len(circuit.gates) \in Nat /\ hi <= Len(circuit.gates)
        BY <2>1, <2>2 DEF Gates
    <2> HIDE DEF hi
    <2>6. circuit.gates[eIx + 1] # 0 => eBuf # <<>> /\ Head(eBuf) = eIx + 1
        BY <2>1, <2>2, <2>3, <2>5, GateTaken
    <2> QED
        BY <2>4, <2>6
<1> QED
    BY <1>1, <1>2 DEF OwnBytes

\* No batch outgrows the buffers on either side, and the evaluator finds the
\* bytes of its next gate in front of the batch it holds.
THEOREM BytesAreOwn == RoundsSpec => []OwnBytes
BY InvOwnBytes, RoundsInvariant, PTL

=============================================================================
