----------------------------- MODULE YaoHandover -----------------------------
(* The way the labels of the hybrid programs take from the evaluator's       *)
(* enclave, where they are made, into the two Yao programs.  The enclave     *)
(* draws two labels for each input wire of the circuit, hands both and the   *)
(* permutation bits to its own application, which garbles, and packs the     *)
(* answers, one label per wire and the permutation bits into the message the *)
(* sender's enclave opens for the sender's application, which evaluates.     *)
(* Buffers are functions from 0, one place per label, answer or bit; the     *)
(* offsets of the copies are in places.  The keys of the enclaves agree      *)
(* (SmcProtocol's SecretBeforeInput), and so do the cases (its YaoSameCase). *)
EXTENDS Integers

CONSTANTS
    W,             \* input wires: yao_or_secretsize, yao_or_split_datasize*64
    O,             \* queries: yao_or_queries, yao_or_split_queries
    Asked, Found   \* what a query may ask, what an answer may hold

ASSUME SizeAssumption == W \in Nat \ {0} /\ O \in Nat

VARIABLES
    case,          \* trans_yao_idx of both sides
    user,          \* user_input of the evaluator's enclave
    db,            \* what the program of the evaluator's enclave answers
    bits,          \* bitInput: what the circuit gets from the enclave
    queries,       \* the sender's queries, yao_or_input
    input,         \* gen_input_yao_or: what the evaluator's enclave decrypted
    gengc, evlgc, permutes,           \* the enclave's labels
    msg,           \* YAO_INPUT on its way, unencrypted
    sAnswers, sEvlgc, sGengc, sPermutes,   \* the sender application's buffers
    gYaoKeys, gPermutes,                 \* what the Yao generator runs with
    eYaoKeys,                            \* what the Yao evaluator runs with
    ePc, sPc       \* evaluator and sender

enclave == <<input, gengc, evlgc, permutes, msg>>
sender == <<sAnswers, sEvlgc, sGengc, sPermutes>>
handoverVars == <<case, user, db, bits, queries, enclave, sender, gYaoKeys, gPermutes, eYaoKeys, ePc, sPc>>

Wire == 0 .. W - 1
Side == 0 .. 2 * W - 1
Query == 0 .. O - 1

Default == case = 0
Database == case \in {1, 3}

----------------------------------------------------------------------------
(* Labels and buffers. *)

\* A label's ten bytes: whose it is and its lowest bit.  Static buffers hold
\* zeroes.
Label == [side : Side, low : {0, 1}]
NoLabel == [side |-> -1, low |-> 0]
NoBits == [w \in Wire |-> 0]
NoLabels == [w \in Wire |-> NoLabel]

\* Variant: the labels of a wire may share their lowest bit.
DrawnAsIs(low) == [s \in Side |-> [side |-> s, low |-> low[s]]]

\* Variant: the flip adds.
DrawnCarrying(low) ==
    [s \in Side |->
       [side |-> s,
        low |-> IF s % 2 = 0 /\ low[s] = low[s + 1] THEN 1 + low[s] ELSE low[s]]]

\* The labels of a wire differ in their lowest bit: the first one is flipped if
\* it must be.
Drawn(low) ==
    [s \in Side |->
       [side |-> s,
        low |-> IF s % 2 = 0 /\ low[s] = low[s + 1] THEN 1 - low[s] ELSE low[s]]]

PermutesOf(labels) == [w \in Wire |-> labels[2 * w].low]
Selected(labels, b) == [w \in Wire |-> labels[2 * w + b[w]]]

\* Variant: the copy stops one place short.
PartShort(buf, off, n) == [i \in 0 .. n - 1 |-> IF i < n - 1 THEN buf[off + i] ELSE 0]

\* memcpy out of a buffer, and two memcpys one behind the other.
Part(buf, off, n) == [i \in 0 .. n - 1 |-> buf[off + i]]
Joined(a, m, b, n) == [i \in 0 .. m + n - 1 |-> IF i < m THEN a[i] ELSE b[i - m]]

\* transform_to_bytes: a key of the circuit is sixteen bytes, the last six zero.
YaoKey(label) == [head |-> label, rest |-> 0]

----------------------------------------------------------------------------
HandoverInit ==
    /\ case \in 0 .. 3
    /\ user \in BOOLEAN
    /\ db \in [Asked -> Found]
    /\ bits \in [Wire -> {0, 1}]
    /\ queries \in [Query -> Asked]
    /\ input = <<>>
    /\ gengc = [s \in Side |-> NoLabel]
    /\ evlgc = NoLabels
    /\ permutes = NoBits
    /\ msg = <<>>
    /\ sAnswers = <<>>
    /\ sEvlgc = NoLabels
    /\ sGengc = [s \in Side |-> NoLabel]
    /\ sPermutes = NoBits
    /\ gYaoKeys = <<>> /\ gPermutes = <<>> /\ eYaoKeys = <<>>
    /\ ePc = "idle" /\ sPc = "query"

\* gen_input_yao_or, gen_input_yao_or_split, gen_input_yao_dj: the input the
\* enclave holds, encrypted.  In the default case the word YAODF goes alone.
SendQuery ==
    /\ sPc = "query"
    /\ msg' = IF Default THEN <<>> ELSE queries
    /\ ePc' = "compute"
    /\ sPc' = "wait"
    /\ UNCHANGED <<case, user, db, bits, queries, input, gengc, evlgc, permutes, sender,
                   gYaoKeys, gPermutes, eYaoKeys>>

\* generateInput and transformToGarbled.
MakeLabels(low) ==
    /\ gengc' = Drawn(low)
    /\ permutes' = PermutesOf(gengc')
    /\ evlgc' = Selected(gengc', bits)

\* gen_input_yao: gen_input = gengc + permutes.
GenInputYao ==
    /\ ePc = "compute" /\ Default
    /\ \E low \in [Side -> {0, 1}] : MakeLabels(low)
    /\ msg' = Joined(gengc', 2 * W, permutes', W)
    /\ ePc' = "yao"
    /\ sPc' = "input"
    /\ UNCHANGED <<case, user, db, bits, queries, input, sender, gYaoKeys, gPermutes, eYaoKeys>>

Answers(database, asked) == [q \in Query |-> database[asked[q]]]

\* Variant: gen_output = permutes + sgxoutput + evlgc.
PermutesFirst(answers, labels, perms) ==
    Joined(perms, W, Joined(answers, O, labels, W), O + W)

\* gen_output = sgxoutput + evlgc + permutes.
GenOutput(answers, labels, perms) ==
    Joined(Joined(answers, O, labels, W), O + W, perms, W)

\* compute_yao_or and compute_yao_or_split.  The enclave refuses to run on
\* inputs it was not given.
ComputeYaoOr ==
    /\ ePc = "compute" /\ Database
    /\ user
    /\ input' = msg
    /\ \E low \in [Side -> {0, 1}] : MakeLabels(low)
    /\ msg' = GenOutput(Answers(db, input'), evlgc', permutes')
    /\ ePc' = "yao"
    /\ sPc' = "input"
    /\ UNCHANGED <<case, user, db, bits, queries, sender, gYaoKeys, gPermutes, eYaoKeys>>

\* Without an input the ECall fails once the message is decrypted, and
\* compute_yao_dj does not come back: it composes its output from address 0.
ComputeFails ==
    /\ ePc = "compute" /\ ~Default
    /\ ~user \/ ~Database
    /\ input' = msg
    /\ ePc' = "failed"
    /\ UNCHANGED <<case, user, db, bits, queries, gengc, evlgc, permutes, msg, sender,
                   gYaoKeys, gPermutes, eYaoKeys, sPc>>

\* rebuildInput or rebuildInput2, and runProgram of a build with GEN_CODE: all
\* labels, widened.
GenKeys(labels) == [s \in Side |-> YaoKey(labels[s])]

\* The same of a build with EVL_CODE: one label for each wire.
EvlKeys(labels) == [w \in Wire |-> YaoKey(labels[w])]

\* startYao.  The buffers are those the ECall filled.
StartYao ==
    /\ ePc = "yao"
    /\ gYaoKeys' = GenKeys(gengc)
    /\ gPermutes' = permutes
    /\ ePc' = "done"
    /\ UNCHANGED <<case, user, db, bits, queries, enclave, sender, eYaoKeys, sPc>>

\* start_yao up to startProgram, default case: decrypt_input_yao, and the copies
\* out of the decrypted message.
OpenDefault ==
    /\ sPc = "input" /\ Default
    /\ sGengc' = Part(msg, 0, 2 * W)
    /\ sPermutes' = Part(msg, 2 * W, W)
    /\ sPc' = "yao"
    /\ UNCHANGED <<case, user, db, bits, queries, enclave, sAnswers, sEvlgc, gYaoKeys, gPermutes,
                   eYaoKeys, ePc>>

\* The database cases: decrypt_output_yao_or, decrypt_output_yao_or_split.
OpenDatabase ==
    /\ sPc = "input" /\ Database
    /\ sAnswers' = Part(msg, 0, O)
    /\ sEvlgc' = Part(msg, O, W)
    /\ sPermutes' = Part(msg, O + W, W)
    /\ sPc' = "yao"
    /\ UNCHANGED <<case, user, db, bits, queries, enclave, sGengc, gYaoKeys, gPermutes, eYaoKeys, ePc>>

\* The rest of start_yao.  In every case it is sEvlgc that runs.
RunProgram ==
    /\ sPc = "yao"
    /\ eYaoKeys' = EvlKeys(sEvlgc)
    /\ sPc' = "done"
    /\ UNCHANGED <<case, user, db, bits, queries, enclave, sender, gYaoKeys, gPermutes, ePc>>

HandoverNext ==
    \/ SendQuery \/ GenInputYao \/ ComputeYaoOr \/ ComputeFails
    \/ StartYao \/ OpenDefault \/ OpenDatabase \/ RunProgram

HandoverSpec == HandoverInit /\ [][HandoverNext]_handoverVars

----------------------------------------------------------------------------
(* What the circuit does with them. *)

\* The two rows the generator sends for a wire: its keys, in the order of the
\* permutation bit.
RowsOf(w) == [row \in {0, 1} |->
              gYaoKeys[2 * w + (IF row = 0 THEN gPermutes[w] ELSE 1 - gPermutes[w])]]

\* The row the evaluator takes: the lowest bit of its key.
Choice(w) == eYaoKeys[w].head.low

Opens(w) == RowsOf(w)[Choice(w)] = eYaoKeys[w]

----------------------------------------------------------------------------
(* Properties. *)

Handed == ePc = "done" /\ sPc = "done"

HandoverTypeOK ==
    /\ case \in 0 .. 3
    /\ user \in BOOLEAN
    /\ bits \in [Wire -> {0, 1}]
    /\ queries \in [Query -> Asked]
    /\ gengc \in [Side -> Label \cup {NoLabel}]
    /\ evlgc \in [Wire -> Label \cup {NoLabel}]
    /\ permutes \in [Wire -> {0, 1}]
    /\ sEvlgc \in [Wire -> Label \cup {NoLabel}]
    /\ sPermutes \in [Wire -> {0, 1}]
    /\ ePc \in {"idle", "compute", "yao", "done", "failed"}
    /\ sPc \in {"query", "wait", "input", "yao", "done"}

\* In the database programs the key the sender's Yao program holds for a wire
\* opens the row it takes among the two the evaluator's program makes, and
\* that row is the one of the bit the enclave chose: the labels, cut out of a
\* message by offset, padded and ordered by a bit that came another way, still
\* fit each other.
KeysMeet ==
    Handed /\ Database =>
        \A w \in Wire : Opens(w) /\ eYaoKeys[w] = gYaoKeys[2 * w + bits[w]]

\* The answers the sender's application prints are those of the enclave to the
\* queries the sender's enclave holds.
AnswersArrive ==
    sPc \in {"yao", "done"} /\ Database =>
        \A q \in Query : sAnswers[q] = db[queries[q]]

=============================================================================
