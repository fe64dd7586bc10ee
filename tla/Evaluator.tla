----------------------------- MODULE Evaluator ------------------------------
(***************************************************************************)
(* The evaluator (Bob): eval_app/eval_app.cpp, its handlers and trans_main *)
(* in eval_app/trans.cpp, the ECall wrappers of eval_app/mysgx.cpp, and    *)
(* what its enclave (eval_enclave.cpp) answers.                            *)
(*                                                                         *)
(* As in Sender an action is one handler with the trans_main around it;    *)
(* handle_input is cut where it waits on the Yao link.                     *)
(***************************************************************************)
EXTENDS SmcNet

VARIABLES
    eState,      \* current_state
    eDone,       \* trans_done
    eUser,       \* the program whose input put_input_* stored, if any
    eMac,        \* verify_att_result_mac accepted the attestation result
    eSecret,     \* g_secret of the enclave is the sender's shared secret
    eOut         \* trans_output, as far as an ECall was asked to fill it

evlVars == <<eState, eDone, eUser, eMac, eSecret, eOut>>

\* The inputs of an evaluator: -i for an SFE run, a fixed file for a hybrid one.
EvlFile ==
    IF conf.e_yao THEN (IF conf.e_idx = 0 THEN "none" ELSE YaoProg[conf.e_idx + 1])
    ELSE conf.e_input

\* One user_input flag serves every program.  Without an input compute_sfe_or
\* skips the program and still succeeds.
EvlInput(user, prog) ==
    IF user = prog THEN "given"
    ELSE IF user # "none" THEN "zero"
    ELSE IF prog = "SFEOR" THEN "unrun"
    ELSE "default"

EvlTypeOK ==
    /\ eState \in EvalStates
    /\ eDone \in BOOLEAN
    /\ eUser \in Progs \cup {"none"}
    /\ eMac \in BOOLEAN
    /\ eSecret \in BOOLEAN
    /\ eOut \in Content

EvlInit ==
    /\ eState = "INIT"
    /\ eDone = FALSE
    /\ eUser = "none"
    /\ eMac = FALSE
    /\ eSecret = FALSE
    /\ eOut = NoContent

----------------------------------------------------------------------------
(* trans_main. *)

\* Variant: RES_SENT is not left.
SettleWithoutReinit(state, rtn) ==
    /\ eState' = IF rtn = "FAILURE" THEN "ERROR" ELSE state
    /\ UNCHANGED eDone

\* Variant: the handler's return value is dropped.
SettleWithoutError(state, rtn) ==
    /\ eState' = IF state = "RES_SENT" THEN "INIT" ELSE state
    /\ eDone' = (eDone \/ state = "RES_SENT")

\* The end of trans_main: a handler that failed leaves ERROR, and RES_SENT is
\* left at once through its STUB row, which also sets trans_done.
EvlSettle(state, rtn) ==
    /\ eState' = IF rtn = "FAILURE" THEN "ERROR"
                 ELSE IF state = "RES_SENT" THEN "INIT"
                 ELSE state
    /\ eDone' = (eDone \/ (rtn = "SUCCESS" /\ state = "RES_SENT"))

EvlRecv(transition, new_state) ==
    /\ eProc = "run"
    /\ ~eDone
    /\ Readable(toEvl)
    /\ Cell(eval_stm_trans, eState, Head(toEvl).tag, new_state, transition)
    /\ toEvl' = Tail(toEvl)

\* A handler that makes an ECall, writes msg last and then sets state.
EvlCallWrite(call, w, msg, state) ==
    /\ Write(call, w, sProc, toSnd, msg)
    /\ EvlSettle(state, IF w = "sent" THEN "SUCCESS" ELSE "FAILURE")
    /\ eProc' = IF w = "killed" THEN "exited" ELSE "run"

EvlWrite(w, msg, state) == EvlCallWrite("ok", w, msg, state)

\* A handler that returns SMC_SGX_RTN_FAILURE before it writes anything.
EvlFail(outcome) ==
    /\ Suffer(outcome)
    /\ EvlSettle(eState, "FAILURE")
    /\ UNCHANGED <<eProc, toSnd>>

----------------------------------------------------------------------------
(* Start-up and attestation. *)

\* main() after accept(): mysgx_init (which failing ends the program),
\* trans_init and trans_read_input, whose failures are only printed.
EvlStart ==
    /\ eProc = "init"
    /\ \/ /\ Suffer("ret")
          /\ eProc' = "exited"
          /\ UNCHANGED eUser
       \/ \E put \in {"ok", "ret"} :
             /\ put = "ret" => EvlFile # "none"
             /\ Suffer(put)
             /\ eUser' = IF put = "ok" THEN EvlFile ELSE "none"
             /\ eProc' = "run"
    /\ UNCHANGED <<conf, toEvl, toSnd, sProc, sYao, eYao, yTries,
                   eState, eDone, eMac, eSecret, eOut>>

\* put_nonce, mysgx_gen_S1, write S1.  The status of put_nonce is not read, so
\* its failing makes no difference.
handle_att_nonce ==
    /\ \E new_state \in EvalStates : EvlRecv("handle_att_nonce", new_state)
    /\ \/ EvlFail("ret")
       \/ \E w \in WriteOutcomes : EvlWrite(w, Msg("ATT_S1"), "ATT_S1_SENT")
    /\ UNCHANGED <<conf, sProc, sYao, eYao, yTries, eUser, eMac, eSecret, eOut>>

\* mysgx_gen_S3, write S3.
handle_att_S2 ==
    /\ \E new_state \in EvalStates : EvlRecv("handle_att_S2", new_state)
    /\ \/ EvlFail("ret")
       \/ \E w \in WriteOutcomes : EvlWrite(w, Msg("ATT_S3"), "ATT_S3_SENT")
    /\ UNCHANGED <<conf, sProc, sYao, eYao, yTries, eUser, eMac, eSecret, eOut>>

\* Variant: what the wrappers return is not looked at.
WrappedUnchecked(outcome) == "ok"

\* mysgx_verify_att_res_mac and mysgx_gen_secret look at ret and status but
\* return ret: what a failing status makes them return is SGX_SUCCESS.
Wrapped(outcome) == IF outcome = "status" THEN "ok" ELSE outcome

\* Only a GOOD verdict carries the secret; a BAD one fails before the ECalls.
handle_att_res ==
    /\ \E new_state \in EvalStates : EvlRecv("handle_att_res", new_state)
    /\ \/ /\ Head(toEvl).res = "BAD"
          /\ EvlFail("ok")
          /\ UNCHANGED <<eMac, eSecret>>
       \/ /\ Head(toEvl).res # "BAD"
          /\ \E mac, secret \in {"ok", "ret", "status"} :
                \* mac failing means that mysgx_gen_secret is not called
                /\ Wrapped(mac) = "ret" => secret = "ok"
                /\ SufferBoth(mac, secret)
                /\ eMac' = (mac = "ok")
                /\ eSecret' = (Wrapped(mac) = "ok" /\ secret = "ok")
                /\ EvlSettle("INPUT_WAIT",
                             IF Wrapped(mac) = "ok" /\ Wrapped(secret) = "ok"
                             THEN "SUCCESS" ELSE "FAILURE")
          /\ UNCHANGED <<eProc, toSnd>>
    /\ UNCHANGED <<conf, sProc, sYao, eYao, yTries, eUser, eOut>>

----------------------------------------------------------------------------
(* handle_input. *)

\* The SFE program run: the one the subtag names, else trans_sfe as it was
\* before, which is its initial 0.
SfeAsked(subtag) == IF subtag \in SfeProgs THEN subtag ELSE SfeProg[1]

\* Whether an ECall can decrypt the input: it has the length the program wants,
\* and the enclave has the secret it was encrypted under.
Decrypts(input, prog) == input.prog = prog /\ eSecret

\* Normal SFE: the computing ECall, whose status is not looked at, then RESULT
\* with whatever trans_output holds.
HandleInputSfe ==
    /\ ~conf.e_yao
    /\ \E new_state \in EvalStates : EvlRecv("handle_input", new_state)
    /\ LET input == Head(toEvl).content
           prog == SfeAsked(input.prog)
       IN
       \/ /\ EvlFail("ret")
          /\ UNCHANGED eOut
       \/ \E compute \in {"ok", "status"}, w \in WriteOutcomes :
             LET out == IF compute = "ok" /\ Decrypts(input, prog)
                        THEN [prog |-> prog, snd |-> input.snd,
                              evl |-> EvlInput(eUser, prog)]
                        ELSE Stale(prog)
             IN /\ EvlCallWrite(compute, w, Carrying("RESULT", out), "RES_SENT")
                /\ eOut' = out
    /\ UNCHANGED <<conf, sProc, sYao, eYao, yTries, eUser, eMac, eSecret>>

\* Variant: the indices of the parties are not compared.
IdxUnchecked(subtag) == {TRUE}

\* The hybrid case a subtag names.  For a subtag of SFE the variable idx is
\* compared uninitialized: the comparison may come out either way.
IdxMatches(subtag) ==
    IF subtag \in YaoProgs THEN {subtag = YaoProg[conf.e_idx + 1]} ELSE BOOLEAN

\* What the ECall of the hybrid case makes of the input.  gen_input_yao (case 0)
\* ignores it.  compute_yao_dj (case 2) copies from address 0, which takes the
\* enclave down: the ECall fails, or the process is killed.
YaoCompute(input, case) ==
    IF case = "YAODF" THEN {"ok"}
    ELSE IF ~Decrypts(input, case) \/ eUser = "none" THEN {"refused"}
    ELSE IF case = "YAODJ" THEN {"refused", "killed"}
    ELSE {"ok"}

\* Hybrid: check the case, run its ECall (ret and status both count), write
\* YAO_INPUT, and enter startYao.
HandleInputYao ==
    /\ conf.e_yao
    /\ \E new_state \in EvalStates :
          /\ EvlRecv("handle_input", new_state)
          /\ LET input == Head(toEvl).content
                 case == YaoProg[conf.e_idx + 1]
                 keys == IF eSecret THEN [prog |-> case, snd |-> input.snd,
                                          evl |-> EvlInput(eUser, case)]
                         ELSE Stale(case)
             IN
             \/ /\ FALSE \in IdxMatches(input.prog)
                /\ EvlFail("ok")
                /\ UNCHANGED eYao
             \/ /\ TRUE \in IdxMatches(input.prog)
                /\ \/ \E call \in {"ret", "status"} : EvlFail(call)
                   \/ "refused" \in YaoCompute(input, case) /\ EvlFail("ok")
                /\ UNCHANGED eYao
             \/ /\ TRUE \in IdxMatches(input.prog)
                /\ "killed" \in YaoCompute(input, case)
                /\ Suffer("ok")
                /\ eProc' = "exited"
                /\ UNCHANGED <<toSnd, eYao, eState, eDone>>
             \/ /\ TRUE \in IdxMatches(input.prog)
                /\ "ok" \in YaoCompute(input, case)
                /\ \E w \in WriteOutcomes :
                      /\ Write("ok", w, sProc, toSnd, Carrying("YAO_INPUT", keys))
                      /\ EvlSettle(new_state, IF w = "sent" THEN "SUCCESS" ELSE "FAILURE")
                      /\ eProc' = CASE w = "sent" -> "yao"
                                    [] w = "killed" -> "exited"
                                    [] OTHER -> "run"
                      /\ eYao' = IF w = "sent" THEN "bind" ELSE eYao
    /\ UNCHANGED <<conf, sProc, sYao, yTries, eUser, eMac, eSecret, eOut>>

----------------------------------------------------------------------------
(* The Yao generator inside handle_input. *)

\* ServerSocket: bind and listen.
EvlListen ==
    /\ eProc = "yao"
    /\ eYao = "bind"
    /\ \/ /\ Suffer("ok")
          /\ eYao' = "listen"
          /\ UNCHANGED eProc
       \/ /\ Suffer("exit")
          /\ eProc' = "exited"
          /\ UNCHANGED eYao
    /\ UNCHANGED <<conf, toEvl, toSnd, sProc, sYao, yTries, evlVars>>

\* accept() blocks, without a timeout, until the Yao evaluator has connected.
EvlAccept ==
    /\ eProc = "yao"
    /\ eYao = "listen"
    /\ sYao = "linked"
    /\ eYao' = "linked"
    /\ UNCHANGED <<conf, toEvl, toSnd, sProc, eProc, sYao, yTries, faults, evlVars>>

\* startYao returns, and the rest of handle_input writes RESULT: eight bytes of
\* a buffer a hybrid run never filled.
EvlYaoOver ==
    /\ eProc = "yao"
    /\ eYao = "linked"
    /\ YaoPeerThere(sYao, sProc)
    /\ eYao' = "over"
    /\ \E w \in WriteOutcomes : EvlWrite(w, Carrying("RESULT", NoContent), "RES_SENT")
    /\ UNCHANGED <<conf, toEvl, sProc, sYao, yTries, eUser, eMac, eSecret, eOut>>

\* The Yao code calls exit(1), or a send() to a peer that is gone kills it.
EvlYaoExit ==
    /\ eProc = "yao"
    /\ eYao = "linked"
    /\ Suffer(IF YaoPeerGone(sYao, sProc) THEN "ok" ELSE "exit")
    /\ eProc' = "exited"
    /\ UNCHANGED <<conf, toEvl, toSnd, sProc, sYao, eYao, yTries, evlVars>>

----------------------------------------------------------------------------
(* Everything else. *)

EvlUnexpected ==
    /\ \E new_state \in EvalStates :
          /\ EvlRecv("handle_stub", new_state)
          /\ EvlSettle(new_state, "SUCCESS")
    /\ UNCHANGED <<conf, toSnd, sProc, eProc, sYao, eYao, yTries, faults,
                   eUser, eMac, eSecret, eOut>>

\* main() leaves its loop: trans_fini() holds, or read() returned 0 or -1.
EvlLeave ==
    /\ eProc = "run"
    /\ eDone \/ Eof(sProc, toEvl, toSnd)
    /\ eProc' = "exited"
    /\ UNCHANGED <<conf, toEvl, toSnd, sProc, sYao, eYao, yTries, faults, evlVars>>

EvlCrash ==
    /\ eProc # "exited"
    /\ Suffer("crash")
    /\ eProc' = "exited"
    /\ UNCHANGED <<conf, toEvl, toSnd, sProc, sYao, eYao, yTries, evlVars>>

EvlStep ==
    \/ EvlStart
    \/ handle_att_nonce \/ handle_att_S2 \/ handle_att_res
    \/ HandleInputSfe \/ HandleInputYao
    \/ EvlListen \/ EvlAccept \/ EvlYaoOver
    \/ EvlUnexpected \/ EvlLeave

\* What may end the process at any time, and need not.
EvlKilled == EvlYaoExit \/ EvlCrash

=============================================================================
