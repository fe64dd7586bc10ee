# SMC over SGX: a verification development

TLA+ modules, TLC runs and TLAPS proofs about `smcsgx`: two-party secure
function evaluation that combines an SGX enclave with Yao's garbled circuits.
Sources are cited as `path:line` relative to the repository.

## 1. The system

Two programs run one session and exit.

* The **sender** (Alice, `send_app/`) connects over TCP, attests the
  evaluator's enclave, sends it an encrypted input and prints the output. In a
  hybrid run it is also the *evaluator* of the garbled circuit.
* The **evaluator** (Bob, `eval_app/`) accepts one connection and hosts the
  enclave (`eval_enclave/`) that decrypts the input and computes. In a hybrid
  run it is also the *generator* of the garbled circuit.

Both are single-threaded: `main()` reads one message from a blocking socket,
`trans_main()` looks up its handler in a dense table indexed by state and tag,
runs it, and reads the next. A message is a header and a payload; a handler
sends by a single `write()` whose length it compares. Nothing is persisted,
nothing is retried (except connecting the Yao link), no read has a timeout.

A session:

    sender                                   evaluator
    INIT          --- ATT_CHALLENGE --->     INIT
    ATT_STARTED   <-- ATT_S1 -----------     ATT_S1_SENT
    ATT_S2_SENT   --- ATT_S2 ---------->
                  <-- ATT_S3 -----------     ATT_S3_SENT
    ATT_RES_SENT  --- ATT_RESULT ------>     INPUT_WAIT
    INPUT_SENT    --- INPUT ----------->
                  [hybrid: <-- YAO_INPUT, then garbled-circuit rounds
                   on a second connection the evaluator listens on]
    RES_RECVD     <-- RESULT -----------     RES_SENT

`-s` selects an SFE program (0 millionaires, 1 universal circuit, 2 Dijkstra,
3 ORAM database), `-y` a hybrid case (0 the default circuit alone, 1 ORAM
database, 2 Dijkstra, 3 database with query split), `-i` an input file. The two
command lines are written independently, and so may disagree.

### Components

| Component | State | Operations | What makes it correct | Modelled |
|---|---|---|---|---|
| State machine (`include/smcsgx.h`, tables and `trans_main` in both `trans.cpp`) | `current_state`, `trans_done`, the dense table | `init_stm_tbl`, `trans_main` | the two tables fit each other and the states the handlers set; errors stay down | `SmcStm` |
| Sender application | the above, its options, its output | start-up, `start_att_nonce`, `handle_att_S1`, `handle_att_S3` (three steps, two writes), `handle_result`, `start_yao` | reports only what was computed for it; stops when the peer is gone | `Sender` |
| Evaluator application | the above, its options, `trans_output` | start-up, `handle_att_nonce`, `handle_att_S2`, `handle_att_res`, `handle_input` (SFE and hybrid) | computes only for an attested session | `Evaluator` |
| Connection | two byte streams | `build_send_smcsgx_msg`, the receive loops | a torn message is never followed by another; no two blocked writers | `SmcNet` |
| Evaluator enclave, sender enclave | shared secret, `user_input`, one buffer per program, labels | the ECalls | a failing ECall is noticed; inputs, answers and labels come through the buffers whole | outcomes in `Evaluator`, `Sender`; buffers in `SfeExchange`, `YaoHandover` |
| Yao link (`yao/NetIO.cpp`, `YaoBase.cpp` of either program) | a second connection | `ServerSocket`, `accept`, `ClientSocket` with back-off, end of the rounds | both ends on the same case; the connection is made or given up | `SmcNet`, `Sender`, `Evaluator` |
| Yao rounds (`BetterYao.cpp` of either program, from `runSGXProgram`) | per-party round state, batches | oblivious transfer, coins, commitments, gates in batches, masked output | sends and receives mirror each other; each block is read for what it is | `YaoRounds`, the transfer in `OtExtension` |
| Garbled gates (`GarbledCct.cpp`) | labels, wires, input counters, the ciphertext stream | `gen_next_gate`, `evl_next_gate` | evaluating the garbled program is running the program | `GarbledCct` |
| Circuit reader (`Circuit.cpp`, `interpreter.h`) | call stack, lookahead | `getNextGate`, `next_gate_binary` | gives the gates of the program with its calls carried out | `Interpreter` |
| SFE programs (`mysfe.cpp`, `mysfe_naive.cpp`) | local | comparison, universal circuit, Dijkstra | the masked passes compute what is meant | `Millionaires`, `UniversalCircuit`, `Dijkstra` |
| ORAM database (`mysfe.cpp`) | two trees with pools; a vector | `get`, `set`; the program over them | behaves as an array | `TreeOram`, `LinearOram`, `OramArray`, `SfeDatabase` |
| Hybrid programs (`hybrid.cpp`) | local | what the enclave does and what it leaves to the circuit | the parts make the whole | `HybridDijkstra`, `HybridDb` |
| Attestation cryptography, `sample_libcrypto`, Yao arithmetic, timing, earlier standalone experiments, unused Yao variants, inputs, logs | | | | not modelled, see section 7 |

### What is hard here

* Either party may fail between two steps and **says nothing**: the other one
  waits in `read()`.
* `handle_att_S3` makes **two writes** and the evaluator acts on the first
  while the second may fail, be cut short, or never come.
* The verdict of the attestation and **the input travel together**: the
  evaluator has to stop on the first before it reads the second.
* An ECall has **two results**, `ret` and `status`, and they are not looked at
  alike everywhere.
* In a hybrid run a second connection with a listen/connect **race** and a
  bounded number of attempts runs beside the first.
* Two command lines choose mode and case **independently**; one comparison of
  the choices reads an uninitialized variable.
* The transition table has rows that look like wildcards and are not.
* The garbled circuit is a stream of ciphertexts **without gate numbers**: both
  sides have to walk the same program with the same counters, over wires that
  are reused and a zero wire that copies and outputs rely on.
* The Yao rounds send **blocks without names**: a receiver takes the next bytes
  for what its own place in the program makes of them, over rounds that either
  circuit may skip and batches that end where a counter says.
* The enclave's programs replace branches by **masks over wrapping integers**;
  some locals are read before they are written.
* The tree ORAM takes **every touched node out of two trees** and puts the
  contents back elsewhere, under several random draws per request; at some sizes,
  that of the program among them, one draw loses the request.
* Inputs, answers, labels and permutation bits cross several static buffers
  **by offset**; a wrong offset still decrypts and still computes.

`PROJECT.json` lists these with their lines under `hazards`, each with the
properties that would catch it.

## 2. The modules

| Module | Models |
|---|---|
| `SmcStm` | tags, states, the two tables, the table cell `init_stm_tbl` builds for a state and a tag |
| `SmcNet` | command lines, the two streams, process liveness, the Yao link, failures |
| `Sender`, `Evaluator` | one action per handler of either program, with start-up, the receive loop's end and the Yao link |
| `SmcProtocol` | their composition and its properties |
| `SmcSession` | the abstract session that an SFE session implements |
| `MCSmcProtocol` | the command lines TLC tries |
| `SmcProtocol_proofs` | the theorems about the session |
| `YaoCircuit` | what both Yao parties share: programs, labels, inputs and keys |
| `GarbledCct` | generator and evaluator of the garbled circuit, gate by gate |
| `CircuitClear` | the abstract run of the same program on bits |
| `MCGarbledCct`, `GarbledCct_proofs` | three programs for TLC; the theorems |
| `YaoRounds` | `runSGXProgram` of both parties: who sends and receives what, in which order, over two FIFO streams of bounded length |
| `YaoRounds_proofs` | the theorems about the rounds |
| `OtExtension` | the matrices of the oblivious transfer, from base transfers to one key per input bit |
| `Interpreter` | the reader of Frigate programs: files, calls, call stack, the one-gate lookahead of `next_gate_binary`, a program loaded after another |
| `SfeExchange` | the buffers between file, applications and enclaves in an SFE session |
| `YaoHandover` | the labels and answers from the evaluator's enclave to the two Yao programs |
| `OramArray` | the abstract array with one request at a time, which a lossy one may pass by its cell |
| `TreeOram`, `LinearOram` | the two oblivious memories, each implementing `OramArray` |
| `SfeDatabase` | `sfe_or_entry`, composed with `OramArray`, whose requests a tree may lose |
| `Millionaires` | `sfe_entry`, `sfe_naive_entry` |
| `UniversalCircuit` | `sfe_uc_entry`, `sfe_naive_uc_entry` |
| `Dijkstra` | `sfe_dj_entry`, `sfe_naive_dj_entry` |
| `HybridDijkstra` | `yao_dj_entry`, on top of `Dijkstra` |
| `HybridDb` | `yao_or_entry`, `yao_or_split_entry` and what they leave to the circuit |
| `MCYao` | the four parts of a Yao execution side by side, for TLC: rounds, transfer, handover, reader |
| `MCPrograms` | the programs of the enclaves side by side, for TLC |
| `MCTreeOram` | an instance of the tree ORAM; the claim `ReadsBack` |
| `Bits` | the powers of two, the bits of a number and the number of bits, as the enclave's shifts and masks take them |
| `Recursion` | induction and recursion over the naturals, for the proofs |
| `Yao_proofs` | the theorems about the transfer, the reader, the handover, and all four parts of `MCYao` |
| `Dijkstra_proofs` | the theorems about both Dijkstras |
| `Programs_proofs` | the theorems about the linear memory, both databases, the millionaires, the universal circuit, the exchange, and all of `MCPrograms` |
| `TreeOram_proofs` | the theorems about the tree ORAM |

    SmcStm <- SmcNet <- Sender, Evaluator <- SmcProtocol <- MCSmcProtocol
                         SmcSession (INSTANCE) <-'   '- SmcProtocol_proofs

    YaoCircuit <- GarbledCct <- MCGarbledCct, GarbledCct_proofs
         ^- CircuitClear (INSTANCE) <-'

    YaoRounds, OtExtension, YaoHandover, Interpreter <- MCYao <- Yao_proofs
         ^- YaoRounds_proofs <----------------------------------'

    OramArray <- SfeDatabase                Dijkstra <- HybridDijkstra
         ^- (INSTANCE) TreeOram <- MCTreeOram, TreeOram_proofs
         ^- (INSTANCE) LinearOram
    Millionaires, UniversalCircuit, HybridDijkstra, HybridDb, SfeExchange,
        LinearOram, SfeDatabase <- MCPrograms <- Programs_proofs
    Bits <- HybridDijkstra, HybridDb, TreeOram, Recursion
    Recursion <- Yao_proofs, TreeOram_proofs, Dijkstra_proofs <- Programs_proofs

An enclave runs one program, and the parts of a Yao execution come one after the
other and share no state: `MCYao` and `MCPrograms` put the modules side by side
with a variable (`part`, `program`) that says which one a behaviour is about.
Everything is checked in one run each, and the names of the modules' operators
carry a prefix where two would have the same.

The modules are cut where the code hands over. `SmcProtocol` decides *that*
both enclaves hold one secret and the parties agree on a case
(`SecretBeforeInput`, `YaoSameCase`); `SfeExchange` and `YaoHandover` start from
there and follow the contents; the programs are terms in the first and a table
of answers in the second, and have modules of their own. `YaoHandover` ends
with the keys of both Yao programs, `YaoRounds` has the order in which they
cross, `OtExtension` the transfer, and `GarbledCct` starts from keys held by
input bit.

**Steps.** A handler is one action together with the part of `trans_main`
around it: the cell is looked up (`Cell`), the head of the inbox consumed, the
message written, the state settled (`SndSettle`, `EvlSettle`: a failed handler
leaves `ERROR`; `RES_RECVD` and `RES_SENT` are left at once through their STUB
row, which sets `trans_done`). That is sound because a process interacts with
the other one only by its last write. Handlers are cut exactly where that is
not so: `handle_att_S3` between its two writes (the intermediate state is
`ATT_RES_SENT`, which the code also sets there), `start_yao` and
`handle_input` while they are on the Yao link.

**State.**

| Variable | Code |
|---|---|
| `sState`, `eState` | `current_state` of either `trans.cpp` |
| `sDone`, `eDone` | `trans_done`, read by `trans_fini()` |
| `sUser`, `eUser` | `user_input` of either enclave, and which program's buffer was filled |
| `eMac`, `eSecret` | what the enclave really accepted: the MAC of the attestation result; the secret of the sender |
| `eOut` | `trans_output` after the computing ECall |
| `sKeys`, `sReport` | what `start_yao` gave to the circuit evaluator; what was printed |
| `toEvl`, `toSnd` | bytes written and not read, by message; `TORN` is the first part of one not written whole |
| `sProc`, `eProc` | where the process is: starting, in its loop, in the Yao code, ended |
| `sYao`, `eYao`, `yTries` | the ends of the Yao link and the attempts of `ClientSocket` |
| `conf` | the two command lines, and whether the expected enclave is the running one |
| `faults` | how many failures there have been (bound `MaxFaults`) |

**Data.** Payloads are abstracted to *whose* they are: the program a content
belongs to (which is what the code's length checks compare) and, for each
party, a word for its input: `given` in a file, the hard-coded `default`, a
buffer that is `zero`, a program that was `unrun`, or `stale`. This is what the
properties tell apart: a report is right when it is the requested program on
the inputs both parties were started with. Encryption is whether both enclaves
hold the same secret.

**Failures.** `ret` (a call is refused), `status` (an ECall runs and says in
its out-argument that it failed), `write` (a short write), `exit` (the Yao code
gives up), `crash`. Every one but the peer's consequences is counted. Once a
process has ended, the other may see a failing write, `SIGPIPE` (neither
program handles it), end of file, or a reset that overtakes what was sent;
these are free.

**Undefined behaviour.** `idx` at `eval_app/trans.cpp:864` is uninitialized for
the subtag of an SFE program: `IdxMatches` lets the comparison come out either
way. `compute_yao_dj` copies from address 0: the ECall fails or the process
dies, both possible.

### The garbled circuit

`GarbledCct` runs the two loops of `circuit_evaluate`: `gen_next_gate` garbles
the next operation of the program, `evl_next_gate` evaluates the next one that
was garbled, at its own pace.

| Variable | Code |
|---|---|
| `gW` | the generator's `m_w_b` after 0, 1, ... gates (a history: the code keeps the last) |
| `garbled` | `buffer`: the ciphertexts and output bits, by gate |
| `gInpIx`, `eInpIx` | `m_gen_inp_ix`, `m_evl_inp_ix`, `m_sgx_inp_ix` of each side |
| `gKeys`, `eKeys` | `sgx_keys_out`: pairs at the generator, keys at the evaluator |
| `eAt`, `eW`, `eOut` | `m_gate_ix`, `m_w_b`, `m_gen_out` and `m_evl_out` of the evaluator |
| `setup` | the program, the inputs, the offset `R`, the keys of every input and the order of its two ciphertexts |

A label is a k-bit string, a function from bit positions to bits; only the
position `Low`, the permutation bit, is special. `KDF256` is *any* function of a
tweak and two labels. Everything the code does with labels is there: free XOR,
the row-reduced table with its permutation, the tweak of eight bits of the gate
index, the three kinds of input with their own rule for which ciphertext to
open (`Choice`), output bits, the enclave's keys; and `next_gate_binary`, which
turns copies and outputs into XOR gates with `zeroplace`. That is only right if
the zero wire was set before and not given another value since: `WellFormed`
says so of the programs, and nothing in the code checks it. The hash that the
enclave's output keys go through is left out, and so are one-input gates,
which `next_gate_binary` never builds.

`CircuitClear` is the program on bits, from `Interpreter::runprogram`. The
refinement maps a wire to the bit its label stands for next to the generator's
label of the same moment.

### The Yao rounds, the transfer and the reader

`YaoRounds` has the two loops as two program counters. A block on the stream
carries what its sender took it for; the receiver's step says what it reads it
as, and `LockStep` compares. The statistical parameter is 1, as set in
the code, so that `cut_and_choose` has one circuit, which is evaluated.
`OtExtension` writes a group element as its exponent; the two hashes are
parameters. In `Interpreter` a file is a sequence of operations and reading
behind its end gives the zeroes a page is filled up with. A copy or an output
relies on a wire that is zero, and nothing checks that there is one:
`ZeroAssumption` says so of the programs. It is the form of every program in
`yao/TestPrograms`, whose main file takes the inputs, sets one wire with a gate of
table 0, which no other gate or copy of any of its files writes, and only then
calls, copies and puts out.

### The programs of the enclave

A mask is modelled by what it does: all ones or all zeroes selects one operand
or the other (the lemma `MasksSelect` shows that of the one expression in which
the masks are not both of that kind). A variable the code reads before writing
it (the operands of the universal circuit outside its pool, `result` of the
linear ORAM, the locals about the ports of the hybrid Dijkstra) is anything
when it is read. `TreeOram` names a node by the index it holds, because contents
move only while nodes are out of the trees; its pools are their counts; the
functions that call themselves down a tree are all one operator, `Path`. Its
draws (dummy queries, the order of putting back, which tree) are
nondeterministic, so its runs cover every seed.

### The exchanges of buffers

In `SfeExchange` a word is the place it comes from (file, hard-coded default,
static zero; which buffer; at which offset) and an answer is the term over the
words its program read, so that equality of answers is equality of everything
that went into them. In `YaoHandover` a label is its side of a wire and its
lowest bit, the only one the code looks at.

## 3. The runs

| Run | Question | Command lines | Failures | Distinct states |
|---|---|---|---|---|
| `completes` | does every session that can finish do so, at both ends? (`Completes`) | SFE: four programs, each with and without either input file; hybrid cases 0, 1, 3 | none | 511 |
| `sessions` | does an SFE session attest, compute, deliver, in that order, exactly what was asked? (`SecretBeforeInput`, `ReportIsAnswer`, refinement `ImplementsSession`) | SFE as in `completes`, and with an unexpected enclave | at most 2 of `ret`, `write`, `crash` | 5,240 |
| `faults` | what stays true whatever happens? | SFE and hybrid, agreeing and disagreeing on program, case, mode, input files and enclave | at most 2 of every kind | 20,483 |
| `garbled` | is the garbled run the run in the clear, and do the sides stay in step? | three programs (below), all inputs, both offsets, keys and orders; see Bounds | | 56,288 |
| `claim_*` | statements of comments, tests or documents, each refuted | see section 6 | see there | |

The runs of the other components:

| Run | Question | Instance | Distinct states |
|---|---|---|---|
| `yao` | do the two Yao programs mirror each other, is every key the right one, is the program read as it was written, and do all come to an end? | see Bounds | 362,075 |
| `tree_oram` | are the two search trees an array? | five cells, one of them written | 1,454,352 |
| `programs` | does each program of the enclaves compute what it is for? | see Bounds | 948,335 |

What `faults` shows:

* `SenderDoneImpliesEvaluatorDone`: the sender ends a session only after the
  evaluator did.
* `BadAttestationNeverComputes`: an enclave with another measurement never
  gets the secret, never computes, and neither party finishes, though the
  input is on its way to it.
* `SenderExpectsEveryMessage`, `OnlyErrorLeadsToFini`: the tables fit; the
  sender never reads a message without a row, the evaluator only after it has
  failed itself.
* `TurnTaking`: the streams are never filled in both directions, so blocking
  writes cannot wait for each other.
* `StalledOnlyAfterError`: both wait in `read()` only when one has failed.
* `TornIsLast`: nothing is written behind a torn message.
* `YaoSameCase`: either end of the Yao link opens only between parties started
  for one hybrid case, mode and index compared, or through the uninitialized
  comparison between an SFE sender and an evaluator of case 0 (section 6); the
  sender connects only with the keys of the evaluator's case; and that
  disagreement never ends as a success of the sender.
* `EndNoticed`: outside the Yao rounds the end of one process ends the other.

What `garbled` shows:

* `Decodable`: `LabelsAreLabels`, the evaluator's label of a wire is always one
  of the two the generator had for it when it garbled the same operation, and
  `KeysAreKeys`, its key of an enclave output is one of the generator's pair at
  the same index, which is all the enclave has to tell the bit by.
* `InStep`: the sides agree on operation, counters and labels, and the zero
  wire stands for 0 where it is used.
* `ImplementsClear`: wires and outputs of all three parties are those of
  `CircuitClear`, and every gate is evaluated in the end.

What the others show:

* `yao`, rounds: every block is read as what it was sent as and the two never
  wait for each other, however little the link holds (`LockStep`); the keys are
  those the gates are garbled with and the coins the same on both sides
  (`KeysAreCurrent`); batches fit their buffers and each gate is evaluated with
  its own bytes (`OwnBytes`); both parties finish (`YaoEnds`).
* `yao`, transfer: the evaluator's keys are those of its bits (`KeysOfInput`).
* `yao`, reader: the gates given are those of the program with its calls carried
  out, and the wire taken for zero holds zero (`GivesProgram`), also when
  another program was loaded before; the stack stays within its vectors
  (`StackFits`); the reader comes to the end (`YaoEnds`).
* `yao`, handover: labels, permutation bits and answers, which reach the two Yao
  programs by different ways, fit each other (`KeysMeet`, `AnswersArrive`).
* `tree_oram`: `IsArray` is the refinement to `OramArray`. `SearchTrees` says
  that after every single removal and insertion each cell is in one place, both
  trees are search trees with matching parent pointers, and a request touches
  no node twice; `PoolBounded` that the pools of blank nodes do not grow. With
  five cells there are two queries a request and nothing is lost; the sizes at
  which requests are lost are in the theorem, and one in `claim_oram_read`.
* `programs`:
    * `OutputsTell`: of two millionaires nobody is named richer who is not, and
      numbers without a word of all ones are told apart. A word of all ones may
      swallow a borrow, which makes a draw of a decided comparison; hence the
      condition.
    * `OutputsMean`: the universal circuit's outputs are those its program
      means, whatever the stack held.
    * `ShortestPath`: weights and links account for each other at every moment,
      the iterations are enough to drain the queue, and the path given is a
      shortest one.
    * `EndIsPort`: the circuit is told the port the path leaves the super node
      by.
    * `QueriesServed`: each query of the hybrid database is answered by the
      enclave or by the circuit, never by both or neither; the enclave and the
      circuit of the split program see one database; an absent cell is not
      taken for a value; and of a cell the enclave of the first program tells
      whether it is zero, and no more (`ToldIfZero`, section 6).
    * `AnswerIsProgram`: for every pair of input files the sender prints its
      program's answer to the inputs of both parties, and the evaluator's dumps
      agree with it. A file of another program leaves its own party with
      zeroes, because one flag serves all programs, and the other party as it is.
    * `SameAnswers`: the database program's three ways of answering give the
      database's cells. A tree that loses requests, as the one of 900 cells does,
      may answer NOTPRESENT, where it lost the query, or zero, where it lost the
      set; no query is ever answered with another cell. `LinearIsArray`: the
      linear ORAM implements `OramArray` and loses nothing.

**Bounds.** A session is a dozen messages and no stream ever holds more than
two, so streams need no bound. `MaxFaults = 2` lets one failure in each party,
or a failure while another is dealt with, happen; the code reacts to a failure
by leaving for `ERROR` or exiting, after which the same party can only end, so
a third adds nothing new in kind (the properties proved in section 4 hold for
any number). `MaxTries = 4` is the code's: `ClientSocket` sleeps 1, 2, 4 and 8
seconds and gives up. Programs 0 and 3 stand for the four of SFE in `faults`:
1 and 2 take the same paths as 0 there, and `sessions` runs all four.
`garbled` has labels of two bits (the permutation bit and another one), five
wires and programs of nine and eleven operations, which between them have an
input and an output of every party, two inputs of one party, gates that are
not symmetric, gates written over their own input, a copy over an input and an
output of the zero wire. The theorems hold for any program and any label
length.

In `yao` the link holds one message each way, so that every send and receive
has to meet; the circuits leave out each kind of input and output in turn, and
end in a full batch, a part of one, and one without bytes. The transfer has three
rows and two columns, every choice and every matrix. The reader has three
functions, calls three deep, empty files at every place. The handover has two
wires and two queries, the least that can be swapped.

`tree_oram` has five cells, with which a request makes its dummy queries and the
removal from a tree meets all its cases (none, one, two children, at the root
and below). The constraint `OneWritten` looks only at states in which at most
one cell holds something else than the fresh value: values move and are never
compared, so that what goes wrong for several written cells goes wrong for one
of them and a fresh one. The theorems of `TreeOram_proofs` are about all states.

In `programs`: numbers of three words of two bits, where a borrow starts, is
passed on or swallowed, and decides; every universal program of two gates over
a pool of two, with places inside and outside it; every graph of three nodes
with two edges each, of two weights that reach the one that stands for no path,
and the six-node graph of the plain program with two of its weights varied,
between every two nodes; every way to attach three nodes to the chain of a super
node of three, with ports in slots 0 to 2; words of three bits, two cells, two
queries inside and outside the hybrid database; two words per buffer; three
cells of three values and two queries of the database; ints of two bits for the
linear ORAM. The 900 cells of the program's database are out of reach, but not
what is special about them: `Lossy` is TRUE, so that the tree may lose any
request, as at that size.

**Fairness.** Weak fairness of each program's own step (`SndStep`, `EvlStep`):
a runnable process is eventually scheduled and a blocked one is not enabled.
Nothing is assumed about failures (`SndKilled`, `EvlKilled`), about which
outcome of a step occurs, or about connection attempts succeeding: the
evaluator's `listen()` may come later than all four, and `Completes`
says so. `GarbledCct` has weak fairness of either side's loop, which nothing
in `circuit_evaluate` leaves early. `YaoRounds` has weak fairness of either
party's next send or receive; `Interpreter` and `SfeDatabase` are sequential
and have weak fairness of their only process. The other modules state no
fairness: their properties are about safety.

`completes`, `faults`, `sessions` and the claims turn the deadlock check off
because the system may really stop: a party in `ERROR` or `FINI` keeps
reading while its peer waits for it, and `accept()` has no timeout. In
`garbled`, `yao` and `programs` it is off because the programs end.

**Refinement.** `SmcSession` has four phases (open, attested, computed,
delivered) and a result that is what was asked. `ImplementsSession` maps
`eSecret`, `eDone`, `sDone`, `eOut` and `sReport` to it; every failure is a
stutter. `TreeOram` maps to `OramArray` by reading each cell where it is held,
in a tree or in the list of contents taken out; its request takes effect when
the real query is done and is answered at the end. A request whose real query is
at a negative position, and so never comes, is given up with the last of its
queries: the step `Miss` of the array, which is there only where such a position
can be drawn (`Lossy`). `LinearOram`'s takes effect when the pass over the vector
comes to its cell.

Each property has a mutant in `PROJECT.json`: a variant of a definition, kept
next to it and marked *Variant*, that breaks it the way a slip in the code
would.

## 4. What is proved

`SmcProtocol_proofs`, for every set of command lines within `Conf`
(`ConfsAssumption`), every choice of failures (`FaultKindsAssumption`) and any
number of them (`MaxFaultsAssumption`):

* `TypeCorrect`: `Spec => []TypeOK`. `TypeOK` alone is not inductive: nothing
  in it keeps a sender from another attempt when `yTries` is at its bound.
  `TriesLeft` adds that a sender that has used them up has exited.
* `DoneInOrder`: `Spec => []SenderDoneImpliesEvaluatorDone`. The sender is done
  by reading a RESULT, so the strengthening `ResultAfterDone` says that a
  RESULT on the stream means that the evaluator is done. It is the settling of
  the evaluator in the very step that wrote RESULT (`EvlSettle`) that makes it
  inductive. It needs the typing too: the cell that leads to `RES_RECVD` is
  found by the tag alone.
* `AttestationGuards`: `Spec => []BadAttestationNeverComputes`. The
  strengthening `BadVerdictSent` says that every attestation result under way
  carries the bad verdict and that the evaluator is never in `INPUT_WAIT`; the
  bad verdict sends it to `ERROR` (`BadVerdictStops`), from where no row leads
  to a handler that writes. `ConfFixed` keeps the enclave the same throughout.
* `SenderTableFits`, `SpeakInTurn`, `NothingBehindTorn`, `HealthyNeverStall` and
  `FiniOnlyAfterError`: the invariants `SenderExpectsEveryMessage`,
  `TurnTaking`, `TornIsLast` and `StalledOnlyAfterError` and the action property
  `OnlyErrorLeadsToFini`. None is inductive alone, and all follow from one
  strengthening, `Dialogue`: where the two state machines are decides what is
  under way. Its six parts are the phases of a session (`NotBegun`, `Asked`,
  `Answered`, `EvaluatorFailed`, `SenderFailed`, `Over`). `YaoInside` is needed
  with it: a RESULT after the Yao rounds is written only once the sender has
  connected, and so has read YAO_INPUT, and a sender whose `start_yao` failed
  never connects. `SndHears` and `EvlHears` say which messages can be read in
  which state, `SndKeepsDialogue` and `EvlKeepsDialogue` have a step per action.
* `SameCase`: `Spec => []YaoSameCase`. `CasesSent` follows the program from the
  sender's options through INPUT to the evaluator, and its case through
  YAO_INPUT back. A subtag of SFE is compared with an uninitialized `idx`
  (`IdxMatches`); `OpensForItsCase` shows that this opens a link only to parties of
  one hybrid case or, if `idx` happens to be 0, from an evaluator of case 0 to an
  SFE sender, and `ConnectsForItsCase` that a sender connects only with the keys
  of the evaluator's case. That the second pair never ends as a success is in
  `SndFinishes` and `EvlFinishes`: the RESULT it comes to has not the length of an
  SFE program's.
* `SecretFirst`, `ReportCorrect` and `SessionImplemented`: `SecretBeforeInput`,
  `ReportIsAnswer` and the refinement `ImplementsSession`, for every set of SFE
  command lines and every choice of failures without `status` (`SfeOnly`, the
  assumption of the run `sessions`; section 6 has what one `status` does). The
  strengthening `SessionInv` follows the contents: the secret is held from
  `INPUT_WAIT` on, and what is under way and what the enclave computed is the
  answer. `Answer` reads the inputs of both parties, so `AnswerFixed` is needed:
  both were read before there was a secret. `OnePhase` and `NothingForgotten`
  leave a step of the programs one phase to move by.

Each proof is one lemma per party (`SndType`, `EvlType`, `SndFinishes`,
`EvlFinishes`, `SndWrites`, `EvlReads`) with a step per action, on lemmas about
the helpers (`QueuedElements`, `TailElements`, `ProgType`, ...).

`GarbledCct_proofs`, for every well-formed program, all inputs, keys and
draws (`SetupsAssumption`, `DrawsAssumption`), any label length
(`BitsAssumption`) and any KDF (`KDFAssumption`):

* `Invariant`: `Spec => []IInv`. `LabelsAreLabels` is not inductive alone: a
  step of the evaluator needs that the gate it reads was built from the labels
  the wires had *then* (`GarbledInOrder`), with the same input counter
  (`CountersAgree`), and that the zero wire of a copy or an output stands for 0
  (`ZeroHeld`); an enclave output also needs that its pair is at its index
  (`PairsInOrder`). `InStep` collects them.
* `StaysInStep`: `Spec => []InStep`, and `LabelsCorrect`:
  `Spec => []Decodable`.
* `Refinement`: `Spec => Clear!Init /\ [][Clear!Next]_Clear!vars`, the safety
  part of `ImplementsClear`.

The argument is in four lemmas about one gate: `XorGate` (free XOR), `TableGate`
(the row-reduced table opens to the label of the right entry, by cases on the
two permutation bits), `InputGate` (the right ciphertext is opened, for all
three parties) and `NewLabelIsRight`, which puts them together; `CountBefore`
has the arithmetic of the counters. `GenStep` and `EvlStep` carry the invariant
over either side's step, `GenClear` and `EvlClear` are the steps of the
refinement.

`YaoRounds_proofs`, for every circuit that is well formed (`CircuitsAssumption`),
every number of base transfers and every size of a batch that fits the buffers
(`CountsAssumption`, `BufferAssumption`), and every capacity of the links down to
one message:

* `RoundsInvariant`: `RoundsSpec => []RoundsIInv`. The messages of either link
  have an order that depends on the circuit only (`Follow`). `LinksInStep` says
  that what is on a link is the part of that order between the place of its
  reader and the place of its writer (`Chain`; `ChainWrite` and `ChainRead` carry
  it over a step). `ToEHolds` and `ToGHolds` say that every message on its way is
  still what the state of its sender says; `GenBatchAt`, `GenKnows`, `EvlBatchAt`,
  `EvlKnows` say what a party has at its place.
* `InLockStep`: `RoundsSpec => []LockStep`. That a block is read as what it was
  sent as is `Chain` at its head. That the two never wait for each other is the
  deeper half: `HalfDuplex` shows that never both links hold messages, from which
  follows (`OneGoesOn`) that one of two waiting parties waits for what the other
  is about to write, and that there is room for it.
* `KeysStayCurrent`: `RoundsSpec => []KeysAreCurrent`, though the generator makes
  its keys twice and the evaluator holds those of one of the times: after the
  second draw it changes none of its values (`GenSettled`).
* `BytesAreOwn`: `RoundsSpec => []OwnBytes`, `GatesOf` being the gates of a batch
  that have bytes, in order; and `RoundsTyped`.

`Yao_proofs`, about the other parts of a Yao execution and all four together:

* The transfer, for any number of base transfers and rows, any keys and any
  hashes: `OtCorrect`: `OtSpec => []KeysOfInput`, and `MatricesRelated`. The
  invariant `OtIInv` follows the protocol: what each message means once it is
  set. The algebra is in `Cancels` (the two ways to the same exponent), `XorBack`,
  `OpenedColumn` (a column opened by choice bit), `TurnedRows` and `OwnPad` (the
  pad of a row is the evaluator's own for its bit).
* The reader, for any number of functions and any programs whose functions call
  lower ones: `StackHasRoom`: `InterpreterSpec => []StackFits`, because the frames
  on the stack are of falling function numbers (`Depth`); and `GatesGiven`:
  `InterpreterSpec => []GivesProgram`. The program with its calls carried out is a
  recursion over files in one over operations; `FlatRecurs` and `UptoRecurs` show
  that both have their values. `Frames` places the reader in it: what each file on
  the stack stands for lies in the whole program behind what its callers have read,
  and the gates given reach to the place of the active file. `FramesRead`,
  `FramesCall` and `FramesReturn` move it over an operation, into a function and
  back; `GivenIInv` is the invariant. That no gate is made of the bytes behind a
  file is `MoreInv`: after a call something is left to read, because the files
  whose callers are at their end end in a gate (`EndsCall`, `EndsEmpty`,
  `EndsReturn`). `ZeroIInv` follows the zero wire from main's beginning and needs
  `ZeroAssumption`.
* The handover, for any number of wires and queries: `HandoverKeysMeet` and
  `HandoverAnswers`. `DrawnDiffer` shows that the two labels of a wire differ in
  their lowest bit, `PartsOfOutput` that the parts cut out of a message are the
  buffers that went in.
* `YaoTyped` and `YaoSafe`: for `MCYao`'s `Spec`, the type invariant and all
  safety properties of the four parts, with `YaoIInv` the conjunction of their
  invariants and `YaoNextIsPart` the reason that a step of one keeps the others'.

`Recursion` has what these proofs and the next two need: a set of naturals that
is not empty has a least element (`LeastOf`), induction (`NatInductive`), a
solution for every recursion over the naturals (`NatRecursion`) and for every
function of the numbers up to one whose values depend on those before them
(`SolutionBelow`). They are stated of sets and functions, not of operators, so
that the provers can use them: what a recursive *function* of a model computes
(`Flat`, `Reach`, `Ports`, `Meaning`, `Word`) is proved for every argument by
naming the set of arguments for which it holds. From it follows
that the first `w` bits of a number make the number modulo `2^w` (`BitsGiveBack`),
for `WordsComeBack` and the ports of the hybrid Dijkstra.

`Dijkstra_proofs`, for graphs of any number of nodes and edges of any weights
(`DjSizesAssumption`, `InputAssumption`):

* `DijkstraFinds`: `DjSpec => []ShortestPath`, for both forms of the program. The
  invariant of the search, `SearchInv`, has the parts of the textbook's argument:
  links account for weights (`LinksStand`), a settled node is no heavier than a
  waiting one (`InOrder`), the edges looked at offer nothing lighter
  (`NoShorterWay`), a weight is that of a walk (`WalksStand`, whose edges are
  counted by the nodes settled, so that the walks of `Reach` are enough), and each
  iteration settles a node or there is none to settle (`TurnsCount`), so that
  after as many iterations as nodes none waits (`NoneWaits`). `TraceInv` is about
  the path read backwards. `NoLighterWalk` is the induction over the edges of a
  walk; `PathToStart` shows by the falling weights that the links lead to the
  start before the places for the path run out.
* `PortsNumbered`: the number which the counts of `yao_dj_entry` give a port is
  its place among all ports of the super node.
* `HybridDijkstraNames`: `HybridDjSpec => [](HybridDjTypeOK /\ EndIsPort)`. The
  invariant has one part for each part of the program: `HySearch`, `HyScan` (of
  the places scanned the last one in the super node is what `end` tells),
  `HyFans`, `HyBits`. `SuperAssumption` says that a port's number fits the 16 bits
  it is told in and that a node has slots for its three ports; both are sizes the
  code fixes. `HybridDijkstraFinds`: it finds a shortest path as the plain one does.

`Programs_proofs`:

* `LinearCorrect`: `LinearSpec => LinearIsArray`, for any size and any values
  that fit an int (`AsIntIsIdentity` is where that is needed); `LinearMatching`
  ties the loop that runs to its request.
* `DatabaseAnswers`: `DbSpec => []SameAnswers`, and `DatabaseFilled`:
  `DbSpec => []FilledFirst`, for any database, any queries, and either memory,
  whether it loses requests or not. `DbInv` ties the phase of the program to the
  request the memory is at, and the cells filled so far to the database: each
  holds its entry or, where its set was lost, the constructor's zero (`Entered`).
* `HybridDbServes`: `HybridDbSpec => []QueriesServed`, for any database, queries
  and width of a word. `HdFlags` and `HdAnswers` say which queries have had their
  turn and how; `WordsComeBack` that the bits made for the circuit are those of
  both words of a cell; `IInvToldIfZero` what the first program tells of a cell.
  Words must be wider than two bits (`HybridSizeAssumption`): the number for an absent cell is the largest int, and
  in words of two bits that is 1, which a cell of the first program may be. The
  code's words have 32.
* `ComparisonTells`: `MilSpec => []OutputsTell`, for any word width and number
  length. `Less` compares the low words; `BorrowStep` is the subtraction of one
  word with a borrow modulo the width, `LessStep` the comparison that corresponds
  to it. A borrow that is left means less, but no borrow means not less only
  without a word of all ones. `MasksSelect` is about the masks.
* `CircuitComputes`: `UcSpec => []OutputsMean`, for programs of any number of gates
  over any pool. `UcIInv` says that the pool holds what `Meaning` knows of it after
  as many gates; `GateKnown` is the induction step: what is known of a gate is
  what it computes, whatever its unknown operands are. `UcProgramsAssumption` says
  that truth tables are ints, as their fields are.
* `ExchangeCorrect`: `ExchangeSpec => []AnswerIsProgram`, and `ExchangeTyped`, for
  buffers and messages of any length. `ExchangeIInv` says what is in which buffer
  at each place of either party; `PartsOfJoined`, `PartOfPadded` and `PartOfAnswer`
  are about what is cut out of what was joined.
* `ProgramsTyped`, `ProgramsAnswer` and `ProgramsLinear`: for `MCPrograms`'s `Spec`,
  the type invariant and all properties of the run `programs`.

`TreeOram_proofs`, for any number of cells from two on (`SizeAssumption`), any values
and any size of a chunk (`ChunkAssumption`):

* `TreesTyped`, `TreesSearch` and `PoolsBounded`: `Spec => []OramTypeOK`,
  `Spec => []SearchTrees` and `Spec => []PoolBounded`. The invariant is
  `OramInv`: besides these, nothing waits outside the trees between requests and
  during their queries, and a node that is to be put back has no children
  (`getBlankNode` clears them; without that `putNode` would put a subtree back).
  What is below a node cannot be proved by recursion on the pointers while they
  change, so a tree is `Tree(r, L, R, P, S, D)`: root, three pointer functions, the
  set of its nodes and the function that has for each node those below it. To
  each change of pointers belongs a change of `D`: `SpliceTree` (`removeNode` of a
  node with one child at most), `SucceedTree` (of a node with two, whose
  successor `m` and its right subtree both move), `LeafTree` and `FirstTree`
  (`putNode`). `PathEnds` shows that a descent which loses nodes below it at each
  step ends, and `WalkMeets`, `MinLeast` and `PutGrown` what is at its end.
  `BelowIs` says that `D` is what the pointers tell. `OtherGrown` is the frame: what
  is done to one tree leaves the other. `TouchedOnce` is about the flag `added`,
  `PoolRenewed` about the arithmetic of the chunks.
* `OramIsArray`: `Spec => IsArray`, for every number of cells. A request waits
  (`Waits`) until its real query, or until the last if it has none; the real query
  is a `Read` or a `Write` of its cell, and the end of a request without one is a
  `Miss`. `DrawnPosition` shows that a draw is a position of the loop or negative,
  and negative only where the array is `Lossy`. So the most that can go wrong at
  any size is that a get answers NOTPRESENT or a set leaves its cell.
* `ProgramLoses`: at the 900 cells of the database program a request makes nine
  queries, and -2 is among the positions drawn: the memory is lossy. It happens
  for one of the 2^32 random words. `RealQueries` shows that nothing is lost where
  the number of queries is one, two or four.

Assumptions on constants are named `ASSUME`s in the modules that declare the
constants, and TLC evaluates each in a run.

Every safety invariant and every refinement a run checks is stated by a theorem,
`ImplementsClear` in its safety part. Only model-checked: everything about
liveness (`Completes`, `EndNoticed`, `YaoEnds`, the liveness part of
`ImplementsClear`) and `ENABLED`, which are out of the prover's reach.

## 5. What is left

* The composition of `YaoRounds` with `GarbledCct`: the batches of the first
  carry the ciphertexts of the second.
* The enclaves' start (`mysgx_init` with its token file), whose only effect on a
  session is that it may not start.
* The table of state names (`common/smcsgx.cpp:9`), which serves logging only.

## 6. Where the code and its documents disagree

| Run | Statement | What the programs do |
|---|---|---|
| `claim_secret` | `eval_enclave/eval_enclave.cpp:272`, a MAC mismatch is an error; the evaluator then prints "attestation mac verification succeeded" | the wrapper returns `ret`, which is success, when `status` failed |
| `claim_report` | `eval_app/trans.cpp:954` "Defensive checking" | a failed computation is printed, and RESULT is sent all the same |
| `claim_dijkstra` | `HOWTO.txt:87-89` lists hybrid Dijkstra as a run | the ECall copies from address 0 and never succeeds |
| `claim_oram_read` | the test at `eval_enclave/mysfe.cpp:1992` expects `o.get(i) == i` | a random word that is the least int makes the position of the real query negative: the read finds nothing, a write is lost |
| `claim_start_port` | the branching form kept at `eval_enclave/hybrid.cpp:910` assigns only if the start is the last super node | the masked form assigns always, so the port the path enters by is that of the last super node |

Other disagreements met while modelling, which no run is about:

* `eval_app/trans.cpp:1157` says of the row `{ERROR, ANY}` "we just keep down
  when error happens". The row fills one cell of a tag `ANY` that no message
  has; the next message leads from `ERROR` to `FINI` (`EvlUnexpected`, and
  `OnlyErrorLeadsToFini`).
* `send_app/trans.cpp:1361`: "send the input if att succeeded". The input is
  sent whatever the verdict; the evaluator stops first, which is what
  `AttestationGuards` proves.
* `eval_app/trans.cpp:45` says of `trans_yao` "this flag should be set by the
  sender". It is the evaluator's own `-y`.
* `send_app/trans.cpp:1616`: "We do not really care about evlgc". In the default
  case the sender evaluates with that buffer, which nothing fills, so that no
  row of an enclave input opens; `KeysMeet` leaves the default case out.
* `yao/interpreter.h:373`: "if file is empty then skip it". After a call of an
  empty function that is the program's last operation `next_gate_binary` gives
  out a gate made of the bytes behind the file; `YaoEnds` and `GivesProgram`
  leave such programs out.
* `eval_app/trans.cpp:865` prints "YAO index mismatching between 2 parties" where
  the sender's subtag does not name the evaluator's case, but for the subtag of an
  SFE program it compares an `idx` that nothing has set (`:864`). If it happens to
  be 0, a `-y 0` evaluator listens for an SFE sender, which runs the default
  circuit with it, because `start_yao` (`send_app/trans.cpp:1547`) never asks for the
  sender's own mode. `YaoSameCase` names this pair, and shows that it is the only
  one and that the sender never ends it as a success: the RESULT of a hybrid
  session has not the length of an SFE program's.
* A hybrid sender, the other way round, does end a session with an SFE evaluator
  as a success, without any Yao rounds: its subtag names no SFE program, the
  evaluator takes the default one (`SfeAsked`), and `handle_result` of a hybrid
  sender does not look at the payload (`send_app/trans.cpp:1429`). `YaoSameCase`
  therefore speaks of hybrid evaluators only.
* `eval_enclave/hybrid.cpp:339` sets a cell of the first hybrid database to
  `a || input[i*2+1]`, where `a` is the first word shifted to the upper half: the
  logical or makes every cell, and so every answer of the enclave, 0 or 1. The
  second program joins the words as meant. `ToldIfZero`, a part of `QueriesServed`,
  says what the answer is.
* The database program (`eval_enclave/mysfe.cpp:1879`) has 900 cells, at which the
  tree ORAM makes nine queries a request and so is one of those
  `claim_oram_read` is about: for one random word in 2^32 a set or a get is lost
  (`ProgramLoses`). `SameAnswers` says what the sender can then be told.
* `eval_app/eval_app.cpp:50` says of `-n` "use the naive version of the
  program". The naive Dijkstra, without an input of the evaluator, takes a graph
  of its own instead of the sender's; `AnswerIsProgram` leaves that out.

`SecretBeforeInput` and `ReportIsAnswer` hold in `sessions`, where every
failure but an unread `status` may happen (`SecretFirst` and `ReportCorrect`
prove it for every such session), and are refuted by one such status.

## 7. What is not modelled, and why

* **Unit-test mode** (`-u`) and the build that bypasses SGX: they replace the
  session by calls that test parts of it.
* **The handler `handle_err` and the sender's `handle_stub`**: nothing reaches
  them; `SenderExpectsEveryMessage` is the reason for the second.
* **The options `-n` and `-o`** (naive programs, kind of ORAM) choose how the
  enclave computes, which the session does not depend on; the modules of the
  programs have both forms.
* **Connecting the first link**: a sender that cannot connect exits before the
  session; `Init` is after `accept()`.
* **Malformed messages**: both ends run this code. Lengths are checked where
  parties that disagree can make them differ.
* **Cryptography** (`ecp.cpp`, `sample_libcrypto`, `Aes.cpp`, `Algebra.cpp`,
  `ClawFree.h`, `Prng.cpp`): a model would assume what it has to show.
* **Circuit files and their text parser**, logs, timing: no behaviour of
  their own in a session.
* **The parsers of input files**: `trans_hardcode_input` is 1 in both
  applications, so every parser fills in fixed values and returns; the branches
  behind that are dead (and the one of Dijkstra's at the evaluator would lose
  the first character of its second line).
* **What the circuits compute** in the hybrid programs: the circuit files are
  data. `HybridDb` and `HybridDijkstra` end at what the enclave gives them.
* **`compute_yao_dj`'s result**: the ECall fails before it leaves the enclave,
  so `HybridDijkstra` is about a result nobody receives.
* **`sfe`, `sfe_v2`, `nonsfe`, `nonsfe_v2`, `yao/original`, `Yao.cpp`,
  `BetterYao2.cpp`, `GarbledCctphone.cpp`, and `yao/BetterYao.cpp` and
  `yao/YaoBase.cpp`**: earlier or unused versions; each program builds its own
  `BetterYao.cpp` and `YaoBase.cpp`.
* **A failing `sgx_read_rand`**: its result is not looked at; the draws are
  taken as anything, which covers a buffer left as it was.
* **Secrecy** of the garbled circuit: it is about what labels *do not* tell, and
  no property of a single run.

Limits of what is modelled:

* `LinearOram` and `SfeDatabase` assume values that fit an int, because `get`
  keeps a long in one; `TreeOram` keeps whole values.
* Edges of weight 0 are excluded from the Dijkstras: links are replaced on
  equal weights, and two nodes joined by such edges would be queued for ever.
* The hybrid Dijkstra takes ports to be in slots 0 to 2 (0 and 1 for the middle
  of the chain), as its input has them.
* The naive universal circuit runs a fixed program (`use_bens_hacking`), so its
  user's program is left out of `AnswerIsProgram`; an SFE database that nobody
  gave is not run, and the sender prints zeroes.
* A process runs one session, and an interpreter one program after the one it
  was constructed with.
