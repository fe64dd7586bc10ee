------------------------------ MODULE YaoRounds ------------------------------
(***************************************************************************)
(* One run of BetterYao::runSGXProgram(): what the generator (the          *)
(* evaluator application's process) and the evaluator (the sender's) send  *)
(* and receive, and in which order.  Nothing on the wire says what a       *)
(* message is: a receiver takes the next block of bytes for what its own   *)
(* place in the program makes of it.  The contents of the oblivious        *)
(* transfer are in OtExtension, those of the gates in GarbledCct.          *)
(*                                                                         *)
(* The statistical parameter is 1: there is one circuit, and               *)
(* cut_and_choose() always makes it the one to evaluate.                   *)
(***************************************************************************)
EXTENDS Integers, Sequences

CONSTANTS
    Circuits,         \* the circuits and the generator's input, see CircuitOK
    Seeds,            \* what m_prng.rand() gives: seeds and coins
    Draw(_, _),       \* the n-th number a Prng seeded with s gives
    BaseOts,          \* base transfers of the OT extension: 80
    GatesBeforeSend,  \* gatesbeforesend: 4000
    MaxGateBytes,     \* the most a gate adds to buffer: 3 keys
    BufferBytes,      \* buffer and hBytes: 200000
    Capacity          \* what the link holds before write_bytes blocks

\* gates: the bytes each gate adds to buffer, 0 for an XOR gate.
CircuitOK(c) ==
    /\ c.evl_inp_cnt \in Nat /\ c.gen_inp_cnt \in Nat /\ c.gen_out_cnt \in Nat
    /\ c.gates \in Seq(0..MaxGateBytes)
    /\ c.m_gen_inp \in [0..(c.gen_inp_cnt - 1) -> BOOLEAN]

ASSUME CircuitsAssumption == \A c \in Circuits : CircuitOK(c)
ASSUME CountsAssumption ==
    /\ BaseOts \in Nat \ {0}
    /\ GatesBeforeSend \in Nat \ {0}
    /\ Capacity \in Nat \ {0}
    /\ MaxGateBytes \in Nat /\ BufferBytes \in Nat
ASSUME BufferAssumption == GatesBeforeSend * MaxGateBytes <= BufferBytes

VARIABLES
    circuit,  \* the circuit both loaded, and the generator's input
    gAt,      \* where the generator is, and the index of its loop
    gIx,
    gRnd,     \* its m_rnds[0], m_gen_inp_masks[0], its half of the coins
    gMask,
    gOpen,
    gCoins,   \* the coins of both
    gPrng,    \* the generator's circuit's m_prng: its seed and its draws
    gKeys,    \* its new_m_M
    gHow,     \* its howmanygates
    gBuf,     \* the gates whose bytes are in buffer
    gBytes,   \* buffersize
    eAt,      \* the same for the evaluator
    eIx,
    eComm,
    eFlip,
    eCoins,
    eKeys,    \* its new_m_M
    eMask,    \* its m_gen_inp_masks[0]
    eHeld,    \* its heldgates
    eBuf,     \* the gates left in hBytes
    toE,      \* the link, both ways
    toG

gVars == <<gAt, gIx, gRnd, gMask, gOpen, gCoins, gPrng, gKeys, gHow, gBuf, gBytes>>
eVars == <<eAt, eIx, eComm, eFlip, eCoins, eKeys, eMask, eHeld, eBuf>>
gData == <<gRnd, gMask, gOpen, gCoins, gPrng, gKeys, gHow, gBuf, gBytes>>
eData == <<eComm, eFlip, eCoins, eKeys, eMask, eHeld, eBuf>>
roundsVars == <<circuit, gVars, eVars, toE, toG>>

None == "none"
Gates == Len(circuit.gates)
GenInps == 0..(circuit.gen_inp_cnt - 1)
Masks == [GenInps -> BOOLEAN]
XorMask(a, b) == [j \in GenInps |-> a[j] # b[j]]

\* Variant: the halves are joined in the order each party knows them.
JoinedCoins(a, b) == {<<1, a>>, <<2, b>>}

\* The exclusive or of two coins, as far as it matters: it has no order.
XorCoins(a, b) == {a, b}

----------------------------------------------------------------------------
(* Where a loop or a skipped step leads.                                   *)

\* runSGXProgram: no transfer when the circuit has no evaluator's input.
AfterClaw(at) == IF circuit.evl_inp_cnt > 0 THEN at ELSE "commit"

\* consistency_check: one key per input bit of the generator.
AfterOpen == IF circuit.gen_inp_cnt > 0 THEN "key" ELSE "mask"

\* circuit_evaluate, at its end: proc_gen_out only if there is an output.
AfterGates == IF circuit.gen_out_cnt # 0 THEN "gen_out" ELSE "done"

\* A message, of which only the value is on the wire: the kind and the index
\* say which send it is from.
Msg(kind, ix, val) == <<kind, ix, val>>
Sent(m) == <<m[1], m[2]>>
Val(m) == m[3]

----------------------------------------------------------------------------
(* Socket::write_bytes and read_bytes.                                     *)

GEN_SEND(m) == Len(toE) < Capacity /\ toE' = Append(toE, m) /\ UNCHANGED toG
EVL_SEND(m) == Len(toG) < Capacity /\ toG' = Append(toG, m) /\ UNCHANGED toE
GEN_RECV == toG # <<>> /\ toG' = Tail(toG) /\ UNCHANGED toE
EVL_RECV == toE # <<>> /\ toE' = Tail(toE) /\ UNCHANGED toG

\* Moving on; a loop of n rounds stays at its place until the last.
GGoto(at) == gAt' = at /\ gIx' = 0
EGoto(at) == eAt' = at /\ eIx' = 0

GLoop(n, next) == IF gIx + 1 < n THEN gAt' = gAt /\ gIx' = gIx + 1 ELSE GGoto(next)
ELoop(n, next) == IF eIx + 1 < n THEN eAt' = eAt /\ eIx' = eIx + 1 ELSE EGoto(next)

----------------------------------------------------------------------------
(* YaoBase::init_environ: the claw-free collection, from the evaluator.    *)

EvlClaw ==
    /\ eAt = "claw"
    /\ EVL_SEND(Msg("claw", 0, None))
    /\ EGoto(AfterClaw("crs"))
    /\ UNCHANGED <<circuit, gVars, eData>>

GenClaw ==
    /\ gAt = "claw"
    /\ GEN_RECV
    /\ GGoto(AfterClaw("crs"))
    /\ UNCHANGED <<circuit, eVars, gData>>

----------------------------------------------------------------------------
(* BM_OT_ext_with_third.  In the base transfers the roles are reversed:    *)
(* the generator chooses, the evaluator sends.                             *)

\* The CRS, then every (gr, hr) in one message.
GenBaseSend ==
    /\ gAt \in {"crs", "gr"}
    /\ GEN_SEND(Msg(gAt, 0, None))
    /\ GGoto(IF gAt = "crs" THEN "gr" ELSE "xy")
    /\ UNCHANGED <<circuit, eVars, gData>>

EvlBaseRecv ==
    /\ eAt \in {"crs", "gr"}
    /\ EVL_RECV
    /\ EGoto(IF eAt = "crs" THEN "gr" ELSE "xy")
    /\ UNCHANGED <<circuit, gVars, eData>>

\* (X[0], X[1], Y[0], Y[1]), one message per base transfer.
EvlBaseSend ==
    /\ eAt = "xy"
    /\ EVL_SEND(Msg("xy", eIx, None))
    /\ ELoop(BaseOts, "xor")
    /\ UNCHANGED <<circuit, gVars, eData>>

GenBaseRecv ==
    /\ gAt = "xy"
    /\ GEN_RECV
    /\ GLoop(BaseOts, "xor")
    /\ UNCHANGED <<circuit, eVars, gData>>

\* The columns of the evaluator's matrix, masked, in one message.
EvlExtSend ==
    /\ eAt = "xor"
    /\ EVL_SEND(Msg("xor", 0, None))
    /\ EGoto("switch")
    /\ UNCHANGED <<circuit, gVars, eData>>

GenExtRecv ==
    /\ gAt = "xor"
    /\ GEN_RECV
    /\ GGoto("switch")
    /\ UNCHANGED <<circuit, eVars, gData>>

\* switchBits, which nothing uses any more, and the masked pairs of keys.
GenExtSend ==
    /\ gAt \in {"switch", "pairs"}
    /\ GEN_SEND(Msg(gAt, 0, None))
    /\ GGoto(IF gAt = "switch" THEN "pairs" ELSE "commit")
    /\ UNCHANGED <<circuit, eVars, gData>>

EvlExtRecv ==
    /\ eAt \in {"switch", "pairs"}
    /\ EVL_RECV
    /\ EGoto(IF eAt = "switch" THEN "pairs" ELSE "commit")
    /\ UNCHANGED <<circuit, gVars, eData>>

----------------------------------------------------------------------------
(* GarbledCct::gen_init: the Prng is seeded, the first draw is R, the next *)
(* ones the two keys of every input bit of the generator.                  *)

\* Variant: the Prng goes on where it stood.
NotSeeded(seed, prng) ==
    LET at == IF prng.seed = None THEN 0 ELSE prng.drawn
    IN  [prng |-> [seed |-> seed, drawn |-> at + 1 + 2 * circuit.gen_inp_cnt],
         keys |-> [j \in GenInps |-> [b \in BOOLEAN |->
                     Draw(seed, at + 1 + 2 * j + (IF b THEN 1 ELSE 0))]]]

gen_init(seed, prng) ==
    [prng |-> [seed |-> seed, drawn |-> 1 + 2 * circuit.gen_inp_cnt],
     keys |-> [j \in GenInps |-> [b \in BOOLEAN |->
                  Draw(seed, 1 + 2 * j + (IF b THEN 1 ELSE 0))]]]

\* circuit_commit: nothing is sent.
GenCommit ==
    /\ gAt = "commit"
    /\ \E rnd \in Seeds, mask \in Masks :
          LET cct == gen_init(rnd, gPrng) IN
          /\ gRnd' = rnd /\ gMask' = mask
          /\ gPrng' = cct.prng /\ gKeys' = cct.keys
    /\ GGoto("comm")
    /\ UNCHANGED <<circuit, eVars, toE, toG, gOpen, gCoins, gHow, gBuf, gBytes>>

EvlCommit ==
    /\ eAt = "commit"
    /\ EGoto("comm")
    /\ UNCHANGED <<circuit, gVars, eData, toE, toG>>

----------------------------------------------------------------------------
(* cut_and_choose: coins are flipped, the generator bound to its half by a *)
(* hash (here the value itself, which the hash tells apart from others).   *)

GenComm ==
    /\ gAt = "comm"
    /\ \E coins \in Seeds :
          gOpen' = coins /\ GEN_SEND(Msg("comm", 0, coins))
    /\ GGoto("coins")
    /\ UNCHANGED <<circuit, eVars, gRnd, gMask, gCoins, gPrng, gKeys, gHow, gBuf, gBytes>>

EvlComm ==
    /\ eAt = "comm"
    /\ EVL_RECV
    /\ eComm' = Val(Head(toE))
    /\ \E coins \in Seeds : eFlip' = coins
    /\ EGoto("coins")
    /\ UNCHANGED <<circuit, gVars, eCoins, eKeys, eMask, eHeld, eBuf>>

EvlCoins ==
    /\ eAt = "coins"
    /\ EVL_SEND(Msg("coins", 0, eFlip))
    /\ EGoto("open")
    /\ UNCHANGED <<circuit, gVars, eData>>

GenCoins ==
    /\ gAt = "coins"
    /\ GEN_RECV
    /\ gCoins' = XorCoins(gOpen, Val(Head(toG)))
    /\ GGoto("open")
    /\ UNCHANGED <<circuit, eVars, gRnd, gMask, gOpen, gPrng, gKeys, gHow, gBuf, gBytes>>

GenOpen ==
    /\ gAt = "open"
    /\ GEN_SEND(Msg("open", 0, gOpen))
    /\ GGoto(AfterOpen)
    /\ UNCHANGED <<circuit, eVars, gData>>

\* The evaluator ends the process when the commitment does not open.
EvlOpen ==
    /\ eAt = "open"
    /\ EVL_RECV
    /\ eCoins' = XorCoins(eFlip, Val(Head(toE)))
    /\ EGoto(IF Val(Head(toE)) = eComm THEN AfterOpen ELSE "exit")
    /\ UNCHANGED <<circuit, gVars, eComm, eFlip, eKeys, eMask, eHeld, eBuf>>

----------------------------------------------------------------------------
(* consistency_check: the key of every input bit of the generator.         *)

GenKey ==
    /\ gAt = "key"
    /\ GEN_SEND(Msg("key", gIx, gKeys[gIx][circuit.m_gen_inp[gIx]]))
    /\ GLoop(circuit.gen_inp_cnt, "mask")
    /\ UNCHANGED <<circuit, eVars, gData>>

EvlKey ==
    /\ eAt = "key"
    /\ EVL_RECV
    /\ eKeys' = [eKeys EXCEPT ![eIx] = Val(Head(toE))]
    /\ ELoop(circuit.gen_inp_cnt, "mask")
    /\ UNCHANGED <<circuit, gVars, eComm, eFlip, eCoins, eMask, eHeld, eBuf>>

----------------------------------------------------------------------------
(* circuit_evaluate: the masked input; the generator initialises its       *)
(* circuit a second time, the evaluator for the first.                     *)

GenMask ==
    /\ gAt = "mask"
    /\ GEN_SEND(Msg("mask", 0, XorMask(gMask, circuit.m_gen_inp)))
    /\ LET cct == gen_init(gRnd, gPrng) IN
          gPrng' = cct.prng /\ gKeys' = cct.keys
    /\ gBytes' = 0
    /\ GGoto("gates")
    /\ UNCHANGED <<circuit, eVars, gRnd, gMask, gOpen, gCoins, gHow, gBuf>>

EvlMask ==
    /\ eAt = "mask"
    /\ EVL_RECV
    /\ eMask' = Val(Head(toE))
    /\ EGoto("gates")
    /\ UNCHANGED <<circuit, gVars, eComm, eFlip, eCoins, eKeys, eHeld, eBuf>>

\* Variant: an XOR gate takes room in the buffer too.
BufferedAll(buf, i) == Append(buf, i)

\* A gate, numbered gIx + 1, is garbled; an XOR gate adds no bytes.
Buffered(buf, i) == IF circuit.gates[i] = 0 THEN buf ELSE Append(buf, i)

GenGate ==
    /\ gAt = "gates"
    /\ gHow < GatesBeforeSend
    /\ gIx < Gates
    /\ gIx' = gIx + 1
    /\ gHow' = gHow + 1
    /\ gBuf' = Buffered(gBuf, gIx + 1)
    /\ gBytes' = gBytes + circuit.gates[gIx + 1]
    /\ UNCHANGED <<circuit, eVars, toE, toG, gAt, gRnd, gMask, gOpen, gCoins, gPrng, gKeys>>

\* Variant: howmanygates is reset, the buffer is not.
KeptBuffer(buf, bytes) == [buf |-> buf, bytes |-> bytes]

\* GarbledCct::send.
send(buf, bytes) == [buf |-> <<>>, bytes |-> 0]

\* Variant: what is left after the last gate is not sent.
FullBatch == gHow = GatesBeforeSend

\* A full batch, or what is left after the last gate.
BatchDue == gHow = GatesBeforeSend \/ (gIx = Gates /\ gHow > 0)

GenBatch ==
    /\ gAt = "gates"
    /\ BatchDue
    /\ GEN_SEND(Msg("batch", gIx - gHow, [gates |-> gBuf, bytes |-> gBytes]))
    /\ LET left == send(gBuf, gBytes) IN
          gBuf' = left.buf /\ gBytes' = left.bytes
    /\ gHow' = 0
    /\ UNCHANGED <<circuit, eVars, gAt, gIx, gRnd, gMask, gOpen, gCoins, gPrng, gKeys>>

GenLast ==
    /\ gAt = "gates"
    /\ gIx = Gates /\ gHow = 0
    /\ GGoto(AfterGates)
    /\ UNCHANGED <<circuit, eVars, toE, toG, gData>>

\* Variant: a batch is taken for one gate too few.
HeldShort == GatesBeforeSend - 1

\* Variant: and for one gate too many.
HeldLong == GatesBeforeSend + 1

\* heldgates after a batch, whatever the number of gates in it.
HeldAfter == GatesBeforeSend

\* The next gate needs a batch.
EvlBatch ==
    /\ eAt = "gates"
    /\ eIx < Gates /\ eHeld = 0
    /\ EVL_RECV
    /\ eBuf' = Val(Head(toE)).gates
    /\ eHeld' = HeldAfter
    /\ UNCHANGED <<circuit, gVars, eAt, eIx, eComm, eFlip, eCoins, eKeys, eMask>>

\* A gate is evaluated: it takes its bytes off hBytes.
EvlGate ==
    /\ eAt = "gates"
    /\ eIx < Gates /\ eHeld > 0
    /\ eIx' = eIx + 1
    /\ eHeld' = eHeld - 1
    /\ eBuf' = IF circuit.gates[eIx + 1] = 0 \/ eBuf = <<>> THEN eBuf ELSE Tail(eBuf)
    /\ UNCHANGED <<circuit, gVars, toE, toG, eAt, eComm, eFlip, eCoins, eKeys, eMask>>

\* proc_evl_out sends nothing: of one circuit the median output is its own.
EvlLast ==
    /\ eAt = "gates"
    /\ eIx = Gates
    /\ EGoto(AfterGates)
    /\ UNCHANGED <<circuit, gVars, toE, toG, eData>>

----------------------------------------------------------------------------
(* proc_gen_out.                                                           *)

EvlOut ==
    /\ eAt = "gen_out"
    /\ EVL_SEND(Msg("gen_out", 0, None))
    /\ EGoto("done")
    /\ UNCHANGED <<circuit, gVars, eData>>

GenOut ==
    /\ gAt = "gen_out"
    /\ GEN_RECV
    /\ GGoto("done")
    /\ UNCHANGED <<circuit, eVars, gData>>

----------------------------------------------------------------------------
RoundsInit ==
    /\ circuit \in Circuits
    /\ gAt = "claw" /\ gIx = 0 /\ eAt = "claw" /\ eIx = 0
    /\ gRnd = None /\ gMask = <<>> /\ gOpen = None /\ gCoins = {}
    /\ gPrng = [seed |-> None, drawn |-> 0]
    /\ gKeys = <<>>
    /\ gHow = 0 /\ gBuf = <<>> /\ gBytes = 0
    /\ eComm = None /\ eFlip = None /\ eCoins = {}
    /\ eKeys = [j \in GenInps |-> <<>>]
    /\ eMask = <<>>
    /\ eHeld = 0 /\ eBuf = <<>>
    /\ toE = <<>> /\ toG = <<>>

Generator ==
    \/ GenClaw \/ GenBaseSend \/ GenBaseRecv \/ GenExtRecv \/ GenExtSend
    \/ GenCommit \/ GenComm \/ GenCoins \/ GenOpen \/ GenKey
    \/ GenMask \/ GenGate \/ GenBatch \/ GenLast \/ GenOut

Evaluator ==
    \/ EvlClaw \/ EvlBaseRecv \/ EvlBaseSend \/ EvlExtSend \/ EvlExtRecv
    \/ EvlCommit \/ EvlComm \/ EvlCoins \/ EvlOpen \/ EvlKey
    \/ EvlMask \/ EvlBatch \/ EvlGate \/ EvlLast \/ EvlOut

RoundsNext == Generator \/ Evaluator

\* Both run as long as they can: a read or a write that can go on does.
RoundsSpec ==
    /\ RoundsInit
    /\ [][RoundsNext]_roundsVars
    /\ WF_roundsVars(Generator)
    /\ WF_roundsVars(Evaluator)
----------------------------------------------------------------------------
\* The state has its types; what the link holds is bounded.
RoundsTypeOK ==
    /\ circuit \in Circuits
    /\ gIx \in Nat /\ eIx \in Nat
    /\ gHow \in 0..GatesBeforeSend /\ eHeld \in 0..GatesBeforeSend
    /\ gBuf \in Seq(1..Gates) /\ eBuf \in Seq(1..Gates)
    /\ gBytes \in Nat
    /\ Len(toE) <= Capacity /\ Len(toG) <= Capacity

\* Whether a party is about to read: the evaluator, while gates are left, when
\* it holds none.
Receives(party) ==
    IF party = "GEN"
    THEN gAt \in {"claw", "xy", "xor", "coins", "gen_out"}
    ELSE \/ eAt \in {"crs", "gr", "switch", "pairs", "comm", "open", "key", "mask"}
         \/ eAt = "gates" /\ eIx < Gates /\ eHeld = 0

\* Whether a party is about to write.
Sends(party) ==
    IF party = "GEN"
    THEN \/ gAt \in {"crs", "gr", "switch", "pairs", "comm", "open", "key", "mask"}
         \/ gAt = "gates" /\ BatchDue
    ELSE eAt \in {"claw", "xy", "xor", "coins", "gen_out"}

\* The two programs mirror each other (BetterYao.cpp, GEN and EVL blocks):
\* the block a party reads is the one the other sent for that very read,
\* although nothing in it says so.
ReadsWhatWasSent ==
    /\ toE # <<>> /\ Receives("EVL") =>
           Sent(Head(toE)) = IF eAt = "gates" THEN <<"batch", eIx>> ELSE <<eAt, eIx>>
    /\ toG # <<>> /\ Receives("GEN") =>
           Sent(Head(toG)) = <<gAt, gIx>>
    /\ gAt = "done" /\ eAt = "done" => toE = <<>> /\ toG = <<>>

\* Whether a party waits: for a message, or for room on the link.
Waits(party) ==
    IF party = "GEN"
    THEN \/ Receives("GEN") /\ toG = <<>>
         \/ Sends("GEN") /\ Len(toE) >= Capacity
    ELSE \/ Receives("EVL") /\ toE = <<>>
         \/ Sends("EVL") /\ Len(toG) >= Capacity

\* The parties never wait for each other, both in read_bytes or both in
\* write_bytes, nor one for a party that has come to its end: however little
\* the link holds, one of them can go on until both are done.
NeverBothWait ==
    /\ Waits("GEN") => eAt # "done" /\ ~Waits("EVL")
    /\ Waits("EVL") => gAt # "done"

\* The parties are in step: each reads what was sent for it, and there is
\* always one that does not wait.
LockStep == ReadsWhatWasSent /\ NeverBothWait

\* Both parties shuffle with the same coins, and the honest commitment opens.
SameCoins ==
    /\ gCoins # {} /\ eCoins # {} => gCoins = eCoins
    /\ eAt # "exit"

\* The generator makes its keys twice (circuit_commit, circuit_evaluate) and
\* sends the first ones: the evaluator holds, of every input bit, the key the
\* garbled gates are built with, and the mask that tells which ciphertext.
KeysAreCurrent ==
    /\ SameCoins
    /\ \/ eAt \notin {"gates", "gen_out", "done"}
       \/ /\ \A j \in GenInps : eKeys[j] = gKeys[j][circuit.m_gen_inp[j]]
          /\ eMask = XorMask(gMask, circuit.m_gen_inp)

\* A batch never grows beyond buffer, nor beyond the hBytes it is read into.
BatchFits ==
    /\ gBytes <= BufferBytes
    /\ \A i \in 1..Len(toE) : Sent(toE[i])[1] = "batch" => Val(toE[i]).bytes <= BufferBytes

\* Batches fit their buffers, and the evaluator takes the bytes of each gate
\* off a batch that starts with them: the two sides count the gates of a
\* batch, and skip the XOR gates, alike.
OwnBytes ==
    /\ BatchFits
    /\ eAt = "gates" /\ eIx < Gates /\ eHeld > 0 /\ circuit.gates[eIx + 1] > 0
       => eBuf # <<>> /\ Head(eBuf) = eIx + 1

\* Both have come to the end of the program.
Finished == gAt = "done" /\ eAt = "done"
=============================================================================
