------------------------------- MODULE MCYao --------------------------------
(***************************************************************************)
(* The parts of a Yao execution, side by side: the rounds, the oblivious   *)
(* transfer in them, the way the enclave's labels take to both programs,   *)
(* and the reader of the program that is garbled.  They share no state; a  *)
(* behaviour runs one of them and leaves the others where they start.      *)
(***************************************************************************)
EXTENDS YaoRounds, OtExtension, YaoHandover, Interpreter

VARIABLE part    \* the one that runs

\* All parts but p stay as they are.
Others(p) ==
    /\ IF p = "rounds" THEN TRUE ELSE UNCHANGED roundsVars
    /\ IF p = "ot" THEN TRUE ELSE UNCHANGED otVars
    /\ IF p = "handover" THEN TRUE ELSE UNCHANGED handoverVars
    /\ IF p = "reader" THEN TRUE ELSE UNCHANGED interpreterVars
    /\ UNCHANGED part

yaoVars == <<part, roundsVars, otVars, handoverVars, interpreterVars>>

----------------------------------------------------------------------------
\* Rounds: circuits with and without inputs of each party and outputs of the
\* generator, and none to five gates in batches of two.
InputBits(ones, n) == [j \in 0..(n - 1) |-> j \in ones]

Cct(evl, gen, outs, gs) ==
    {[evl_inp_cnt |-> evl, gen_inp_cnt |-> gen, gen_out_cnt |-> outs,
      gates |-> gs, m_gen_inp |-> InputBits(ones, gen)] : ones \in SUBSET (0..(gen - 1))}

MCCircuits ==
    UNION {Cct(1, 2, 1, <<2, 0, 3, 3, 1>>),  \* a batch of one gate at the end
           Cct(0, 1, 0, <<3, 3, 0, 0>>),     \* a batch without bytes
           Cct(0, 0, 1, <<0, 3>>),
           Cct(2, 0, 0, <<>>)}

MCDraw(s, n) == <<s, n>>

\* Transfer: two or three rows, two columns, every input, every choice and
\* every matrix, a few exponents; some hashes of all bits of their argument.
MCKeyBits == {0, 1}
MCBaseHash(x) == [j \in 1..M |-> (x + j) % 3 = 0]
MCRowHash(q) == [i \in MCKeyBits |-> (q[1] # (i = 1)) \/ q[K]]

Pair(x0, x1) == [b \in BOOLEAN |-> IF b THEN x1 ELSE x0]

MCSetups ==
    {[R |-> r, S |-> s, T |-> t, y |-> 2, a |-> 3,
      X |-> [j \in 1..M |-> Pair([i \in MCKeyBits |-> (i + j) % 2 = 0],
                                 [i \in MCKeyBits |-> i = j - 1])],
      r |-> [c \in 1..K |-> c + 1],
      s |-> [c \in 1..K |-> Pair(c, 2)],
      t |-> [c \in 1..K |-> Pair(e, c + e)],
      Z |-> [c \in 1..K |-> Pair(c, c + e)]] :
     r \in [1..M -> BOOLEAN], s \in [1..K -> BOOLEAN],
     t \in [1..K -> [1..M -> BOOLEAN]], e \in {1, 2}}

\* Reader: three functions, empty ones among them, and a main file that takes
\* an input and sets wire 0 to zero, as compiled programs set theirs before they
\* call; wire 1 is zero now and then.
UpTo(n, S) == UNION {[1 .. k -> S] : k \in 0 .. n}

Plain(o, w) == [options |-> o, dest |-> w]
Call(f) == [options |-> "call", dest |-> f]

MCPrograms ==
    {[f \in File |-> <<f0, f1, f2, <<Plain("plain", 1), Plain("zero", 0)>> \o mid \o last>>[f + 1]] :
        f0 \in {<<>>, <<Plain("plain", 1)>>, <<Plain("zero", 1)>>},
        f1 \in UpTo(2, {Plain("plain", 1), Plain("zero", 1), Call(0)}),
        f2 \in UpTo(2, {Plain("copy", 1), Call(0), Call(1)}),
        mid \in UpTo(2, {Call(0), Call(1), Call(2)}),
        last \in {<<>>, <<Plain("output", 1)>>}}

\* One that ends with its zero wire, and one that puts out.
MCDefaults ==
    {[f \in File |-> <<<<>>, <<>>, <<>>, <<Plain("plain", 1), Plain("zero", 0)>>>>[f + 1]],
     [f \in File |-> <<<<>>, <<>>, <<>>, <<Plain("plain", 1), Plain("zero", 0), Plain("output", 1)>>>>[f + 1]]}

----------------------------------------------------------------------------
\* A part that does not run stays in one of its initial states.
RoundsIdle == circuit = (CHOOSE c \in Circuits : TRUE) /\ RoundsInit
OtIdle == setup = (CHOOSE u \in Setups : TRUE) /\ OtInit
HandoverIdle ==
    /\ case = 0 /\ user = FALSE
    /\ db = [x \in Asked |-> CHOOSE y \in Found : TRUE]
    /\ bits = [w \in Wire |-> 0]
    /\ queries = [q \in Query |-> CHOOSE x \in Asked : TRUE]
    /\ HandoverInit
ReaderIdle ==
    /\ filename = CHOOSE p \in Programs : TRUE
    /\ prog = CHOOSE p \in Defaults : TRUE
    /\ InterpreterInit

Init ==
    \/ part = "rounds" /\ OtIdle /\ HandoverIdle /\ ReaderIdle /\ RoundsInit
    \/ part = "ot" /\ RoundsIdle /\ HandoverIdle /\ ReaderIdle /\ OtInit
    \/ part = "handover" /\ RoundsIdle /\ OtIdle /\ ReaderIdle /\ HandoverInit
    \/ part = "reader" /\ RoundsIdle /\ OtIdle /\ HandoverIdle /\ InterpreterInit

Next ==
    \/ part = "rounds" /\ RoundsNext /\ Others("rounds")
    \/ part = "ot" /\ OtNext /\ Others("ot")
    \/ part = "handover" /\ HandoverNext /\ Others("handover")
    \/ part = "reader" /\ InterpreterNext /\ Others("reader")

\* The two parties of the rounds, and the reader, go on as long as they can.
Spec ==
    /\ Init
    /\ [][Next]_yaoVars
    /\ WF_roundsVars(part = "rounds" /\ Generator /\ Others("rounds"))
    /\ WF_roundsVars(part = "rounds" /\ Evaluator /\ Others("rounds"))
    /\ WF_interpreterVars(part = "reader" /\ InterpreterNext /\ Others("reader"))

----------------------------------------------------------------------------
\* All four parts have their types.
YaoTypeOK == RoundsTypeOK /\ OtTypeOK /\ HandoverTypeOK /\ InterpreterTypeOK

\* Neither party of the rounds waits for ever: both come to the end of
\* runSGXProgram(); and every program is read to its end, unless the end is a
\* call of an empty function.
YaoEnds ==
    <>(/\ part = "rounds" => Finished
       /\ part = "reader" => ReadThrough)
=============================================================================
