----------------------------- MODULE SfeExchange -----------------------------
(* The way the inputs and the answer of an SFE program take through the four *)
(* processes' buffers: file, application, sender's enclave, the message      *)
(* INPUT, evaluator's enclave, program, the message RESULT, and back.  Each  *)
(* enclave has one buffer per program and one flag, user_input, for all of   *)
(* them.  Programs are taken as terms over the words they read (they have    *)
(* modules of their own), words as the place they come from.  A message is   *)
(* what it says unencrypted: the keys of the enclaves agree                  *)
(* (SmcProtocol's SecretBeforeInput), and so do the programs.                *)
EXTENDS Integers

CONSTANTS
    M,      \* words of an input, but for Dijkstra's: edges and as many connections
    O,      \* words of an answer
    Pad     \* words the millionaires' answer is padded with

ASSUME PadAssumption == M \in Nat \ {0} /\ O \in Nat \ {0} /\ Pad \in Nat \ {0}

Prog == {"SFEMIL", "SFEUC", "SFEDJ", "SFEOR"}

VARIABLES
    prog, naive,        \* the sender's -s, the evaluator's -n
    sFile, eFile,       \* the program the parties' -i names, if any
    sUser, eUser,       \* user_input of the enclaves
    sIn,                \* sendin2, sfe_uc_input, sfe_dj_edges, sfe_dj_conns, sfe_or_input
    eIn,                \* evl_input_sfe, evl_input_sfe_uc, _dj, _or
    msg,                \* INPUT or RESULT
    genIn, answer,      \* the evaluator application's copies: gen_in, gen_out or output
    report,             \* what the sender's application prints
    sPc, ePc

apps == <<genIn, answer, report>>
conf == <<prog, naive, sFile, eFile>>
exchangeVars == <<conf, sUser, eUser, sIn, eIn, msg, apps, sPc, ePc>>

----------------------------------------------------------------------------
(* Buffers are functions from 0. *)

Places(n) == 0 .. n - 1

\* A word: who wrote it, for which buffer, and where it stood there.
Buffer == {"SFEMIL", "SFEUC", "edges", "conns", "SFEOR"}
Word == [from : {"zero", "file", "default", "own"}, buf : Buffer, at : Places(M)]
Words(from, buf) == [i \in Places(M) |-> [from |-> from, buf |-> buf, at |-> i]]

\* Variant: the second copy's offset is scaled once more by the word's size, so
\* that it falls behind the buffer.
JoinedFar(a, b, n) == [i \in Places(2 * n) |-> IF i < n THEN a[i] ELSE Words("zero", "conns")[i - n]]

\* memcpy out of a buffer, and two memcpys one behind the other.
Part(buf, off, n) == [i \in Places(n) |-> buf[off + i]]
Joined(a, b, n) == [i \in Places(2 * n) |-> IF i < n THEN a[i] ELSE b[i - n]]

\* A word of an answer: the program, the inputs it ran on, and the place.
Term(p, evl, snd) == [o \in Places(O) |-> [prog |-> p, evl |-> evl, snd |-> snd, at |-> o]]
Filler(from) == [prog |-> from, evl |-> "none", snd |-> <<>>, at |-> 0]

----------------------------------------------------------------------------
(* Inputs. *)

ExchangeInit ==
    /\ prog \in Prog
    /\ naive \in BOOLEAN
    /\ sFile \in Prog \cup {"none"}
    /\ eFile \in Prog \cup {"none"}
    /\ sUser = FALSE /\ eUser = FALSE
    /\ sIn = [b \in Buffer |-> Words("zero", b)]
    /\ eIn = [p \in Prog |-> "zero"]
    /\ msg = <<>>
    /\ genIn = <<>> /\ answer = <<>> /\ report = <<>>
    /\ sPc = "put" /\ ePc = "put"

\* parse_input_sfe_dj of the sender: sfe_dj_edges, then sfe_dj_conns.
parse_input_sfe_dj == Joined(Words("file", "edges"), Words("file", "conns"), M)

\* parse_input_sfe, parse_input_sfe_uc, parse_input_sfe_or.
parse_input_sfe(p) == Words("file", p)

\* put_input_sfe, put_input_sfe_uc, put_input_sfe_dj, put_input_sfe_or.
SndPut ==
    /\ sPc = "put"
    /\ sFile # "none"
    /\ sUser' = TRUE
    /\ IF sFile = "SFEDJ"
       THEN sIn' = [sIn EXCEPT !["edges"] = Part(parse_input_sfe_dj, 0, M),
                               !["conns"] = Part(parse_input_sfe_dj, M, M)]
       ELSE sIn' = [sIn EXCEPT ![sFile] = parse_input_sfe(sFile)]
    /\ sPc' = "input"
    /\ UNCHANGED <<conf, eUser, eIn, msg, apps, ePc>>

\* The same of the evaluator's enclave.
EvlPut ==
    /\ ePc = "put"
    /\ eFile # "none"
    /\ eUser' = TRUE
    /\ eIn' = [eIn EXCEPT ![eFile] = "file"]
    /\ ePc' = "input"
    /\ UNCHANGED <<conf, sUser, sIn, msg, apps, sPc>>

\* Without -i nothing is put.
SndBare ==
    /\ sPc = "put" /\ sFile = "none"
    /\ sPc' = "input"
    /\ UNCHANGED <<conf, sUser, eUser, sIn, eIn, msg, apps, ePc>>

EvlBare ==
    /\ ePc = "put" /\ eFile = "none"
    /\ ePc' = "input"
    /\ UNCHANGED <<conf, sUser, eUser, sIn, eIn, msg, apps, sPc>>

\* The hard-coded inputs of the sender's enclave; init_input_sfe_or has none.
Own(buf) ==
    IF sUser \/ buf = "SFEOR" THEN sIn[buf] ELSE Words("default", buf)

\* gen_input_sfe, gen_input_sfe_uc, gen_input_sfe_dj, gen_input_sfe_or.
SendInput ==
    /\ sPc = "input"
    /\ sIn' = IF prog = "SFEDJ"
              THEN [sIn EXCEPT !["edges"] = Own("edges"), !["conns"] = Own("conns")]
              ELSE [sIn EXCEPT ![prog] = Own(prog)]
    /\ msg' = IF prog = "SFEDJ" THEN Joined(sIn'["edges"], sIn'["conns"], M) ELSE sIn'[prog]
    /\ sPc' = "wait"
    /\ UNCHANGED <<conf, sUser, eUser, eIn, apps, ePc>>

----------------------------------------------------------------------------
(* Computing. *)

\* The evaluator's handle_input has the enclave compute once the message is
\* there; the plain copies are for its application's dumps.
Answering(p, in, out, result) ==
    /\ ePc = "input" /\ sPc = "wait"
    /\ prog = p
    /\ genIn' = in
    /\ answer' = out
    /\ msg' = result
    /\ ePc' = "done"
    /\ sPc' = "result"
    /\ UNCHANGED <<conf, sUser, eUser, sIn, report>>

\* gen_output_sfe_pad: sixteen bytes for the cipher, the answer in the first four.
Padded(out) == [i \in Places(O + Pad) |-> IF i < O THEN out[i] ELSE Filler("pad")]

\* compute_sfe.  The default is written over the evaluator's words.
ComputeMil ==
    /\ eIn' = IF eUser THEN eIn ELSE [eIn EXCEPT !["SFEMIL"] = "default"]
    /\ LET out == Term("SFEMIL", eIn'["SFEMIL"], <<msg>>)
       IN Answering("SFEMIL", msg, out, Padded(out))

\* The pointer handed to the program: NULL has it take its own input.
Given(p) == IF eUser THEN eIn[p] ELSE "default"

\* compute_sfe_uc.  The naive version runs a circuit of its own in any case
\* (use_bens_hacking).
ComputeUc ==
    /\ LET out == Term("SFEUC", IF naive THEN "own" ELSE Given("SFEUC"), <<msg>>)
       IN Answering("SFEUC", msg, out, out)
    /\ UNCHANGED eIn

\* Variant: the second copy starts at the head of the array again.
ConnectionsAgain(input) == Part(input, 0, M)

\* compute_sfe_dj's conversion of the array to the struct, and back for the copy.
edges(input) == Part(input, 0, M)
connections(input) == Part(input, M, M)

\* compute_sfe_dj.  Without an input from the evaluator, the naive version takes
\* a start, an end and a graph of its own.
ComputeDj ==
    /\ LET graph == IF naive /\ ~eUser THEN <<Words("own", "edges"), Words("own", "conns")>>
                    ELSE <<edges(msg), connections(msg)>>
           out == Term("SFEDJ", IF naive /\ ~eUser THEN "own" ELSE Given("SFEDJ"), graph)
       IN Answering("SFEDJ", Joined(edges(msg), connections(msg), M), out, out)
    /\ UNCHANGED eIn

\* compute_sfe_or.  Without an input the program is not run, and the output is
\* the static buffer.
ComputeOr ==
    /\ LET out == IF eUser THEN Term("SFEOR", eIn["SFEOR"], <<msg>>)
                  ELSE [o \in Places(O) |-> Filler("zero")]
       IN Answering("SFEOR", msg, out, out)
    /\ UNCHANGED eIn

\* Variant: the whole buffer is copied out.
ReportWhole(result) == result

\* decrypt_output_sfe and its like copy an answer's length out of what they
\* decrypted; for the millionaires that leaves the padding behind.
Report(result) == Part(result, 0, O)

HandleResult ==
    /\ sPc = "result"
    /\ report' = Report(msg)
    /\ sPc' = "done"
    /\ UNCHANGED <<conf, sUser, eUser, sIn, eIn, msg, genIn, answer, ePc>>

ExchangeNext ==
    \/ SndPut \/ EvlPut \/ SndBare \/ EvlBare \/ SendInput
    \/ ComputeMil \/ ComputeUc \/ ComputeDj \/ ComputeOr
    \/ HandleResult

ExchangeSpec == ExchangeInit /\ [][ExchangeNext]_exchangeVars

----------------------------------------------------------------------------
(* Properties. *)

ExchangeTypeOK ==
    /\ sUser \in BOOLEAN /\ eUser \in BOOLEAN
    /\ \A b \in Buffer : sIn[b] \in [Places(M) -> Word]
    /\ eIn \in [Prog -> {"zero", "file", "default"}]
    /\ report # <<>> => DOMAIN report = Places(O)
    /\ sPc \in {"put", "input", "wait", "result", "done"}
    /\ ePc \in {"put", "input", "done"}

\* The input of a party that its program takes: that of its file, or the one
\* hard-coded in its enclave when it was started without; but a file of another
\* program sets the one flag of all programs, so that neither is there and the
\* buffer holds its zeroes.
Uses(file) ==
    CASE file = "none" -> "default"
      [] file = prog -> "file"
      [] OTHER -> "zero"
SndUses ==
    IF prog = "SFEDJ" THEN <<Words(Uses(sFile), "edges"), Words(Uses(sFile), "conns")>>
    ELSE IF prog = "SFEOR" /\ sFile = "none" THEN <<Words("zero", prog)>>
    ELSE <<Words(Uses(sFile), prog)>>

Answer == Term(prog, Uses(eFile), SndUses)

\* The sender prints the answer of its program to its own input and to the
\* evaluator's, word for word and none from the padding, for all four programs and
\* every pair of files: edges and connections, cut apart and joined three times on
\* the way, come to the program as such, and a file of another program costs
\* its own party its input and the other party nothing.  Left out are a database
\* nobody gave, and what the naive versions do on their own.
ReportIsProgram ==
    sPc = "done" /\ ~(prog = "SFEOR" /\ eFile = "none")
        /\ ~(naive /\ (prog = "SFEUC" \/ (prog = "SFEDJ" /\ eFile = "none")))
    => report = Answer

\* The evaluator application dumps, as the sender's input and answer, what the
\* sender's enclave sent and what the sender prints, even when the files do not
\* match.
DumpsAgree ==
    sPc = "done" =>
        /\ genIn = IF prog = "SFEDJ" THEN Joined(sIn["edges"], sIn["conns"], M) ELSE sIn[prog]
        /\ answer = report

\* The answer comes to both applications as the program gave it.
AnswerIsProgram == ReportIsProgram /\ DumpsAgree

=============================================================================
