------------------------------- MODULE Sender -------------------------------
(***************************************************************************)
(* The sender (Alice): send_app/send_app.cpp, its handlers and trans_main  *)
(* in send_app/trans.cpp, and what its enclave (send_enclave.cpp) answers. *)
(*                                                                         *)
(* The program is single-threaded: it handles one message at a time, so an *)
(* action is one handler together with the part of trans_main around it.   *)
(* Only where the other party can see or disturb the middle of a handler   *)
(* is it cut: between the two writes of handle_att_S3, and while start_yao *)
(* talks on the Yao link.                                                  *)
(***************************************************************************)
EXTENDS SmcNet

VARIABLES
    sState,      \* current_state
    sDone,       \* trans_done
    sUser,       \* the program whose input put_input_* stored, if any
    sKeys,       \* what start_yao handed to the Yao evaluator
    sReport      \* what the sender printed as the output

sndVars == <<sState, sDone, sUser, sKeys, sReport>>

\* The program the options ask for: -y selects a hybrid case, -s an SFE one.
SndProg == IF conf.s_yao THEN YaoProg[conf.s_idx + 1] ELSE SfeProg[conf.s_sfe + 1]

\* What -i or, in a hybrid run, the fixed input file of the case provides.
\* A hybrid run of case 0 reads nothing.
SndFile ==
    IF conf.s_yao THEN (IF conf.s_idx = 0 THEN "none" ELSE SndProg)
    ELSE conf.s_input

\* One user_input flag serves every program: once any input is stored, the
\* hard-coded one is not used, and the buffers of the other programs are zero.
SndInput(user, prog) ==
    IF user = prog THEN "given"
    ELSE IF user = "none" /\ prog \in {"SFEMIL", "SFEUC", "SFEDJ"} THEN "default"
    ELSE "zero"

SndTypeOK ==
    /\ sState \in SendStates
    /\ sDone \in BOOLEAN
    /\ sUser \in Progs \cup {"none"}
    /\ sKeys \in Content
    /\ sReport \in Content

SndInit ==
    /\ sState = "INIT"
    /\ sDone = FALSE
    /\ sUser = "none"
    /\ sKeys = NoContent
    /\ sReport = NoContent

----------------------------------------------------------------------------
(* trans_main. *)

\* Variant: the handler's return value is dropped.
SndSettleWithoutError(state, rtn) ==
    /\ sState' = IF state = "RES_RECVD" THEN "INIT" ELSE state
    /\ sDone' = (sDone \/ state = "RES_RECVD")

\* The end of trans_main: a handler that failed leaves ERROR, and RES_RECVD is
\* left at once through its STUB row, which also sets trans_done.
SndSettle(state, rtn) ==
    /\ sState' = IF rtn = "FAILURE" THEN "ERROR"
                 ELSE IF state = "RES_RECVD" THEN "INIT"
                 ELSE state
    /\ sDone' = (sDone \/ (rtn = "SUCCESS" /\ state = "RES_RECVD"))

\* The start of trans_main: the main loop has read a message, and the table
\* selects this handler and new state for it.
SndRecv(transition, new_state) ==
    /\ sProc = "run"
    /\ ~sDone
    /\ sState # "ATT_RES_SENT"
    /\ Readable(toSnd)
    /\ Cell(send_stm_trans, sState, Head(toSnd).tag, new_state, transition)
    /\ toSnd' = Tail(toSnd)

\* Variant: the handler does not look at what the write returned.
SndWriteUnchecked(w, msg, state) ==
    /\ Write("ok", w, eProc, toEvl, msg)
    /\ SndSettle(state, "SUCCESS")
    /\ sProc' = IF w = "killed" THEN "exited" ELSE "run"

\* A handler that writes msg last and then sets state.
SndWrite(w, msg, state) ==
    /\ Write("ok", w, eProc, toEvl, msg)
    /\ SndSettle(state, IF w = "sent" THEN "SUCCESS" ELSE "FAILURE")
    /\ sProc' = IF w = "killed" THEN "exited" ELSE "run"

\* A handler that returns SMC_SGX_RTN_FAILURE before it writes anything.
SndFail(outcome) ==
    /\ Suffer(outcome)
    /\ SndSettle(sState, "FAILURE")
    /\ UNCHANGED <<sProc, toEvl>>

----------------------------------------------------------------------------
(* Start-up. *)

\* main() once connected: mysgx_init (which failing ends the program),
\* trans_init and trans_read_input, whose failures are only printed.
SndStart ==
    /\ sProc = "init"
    /\ \/ /\ Suffer("ret")
          /\ sProc' = "exited"
          /\ UNCHANGED sUser
       \/ \E put \in {"ok", "ret"} :
             /\ put = "ret" => SndFile # "none"
             /\ Suffer(put)
             /\ sUser' = IF put = "ok" THEN SndFile ELSE "none"
             /\ sProc' = "ready"
    /\ UNCHANGED <<conf, toEvl, toSnd, eProc, sYao, eYao, yTries,
                   sState, sDone, sKeys, sReport>>

\* trans_start_att: trans_main on a made-up ATT_CHALLENGE, that is,
\* start_att_nonce.  When it fails main() still enters its receive loop.
start_att_nonce ==
    /\ sProc = "ready"
    /\ \E new_state \in SendStates :
          /\ Cell(send_stm_trans, sState, "ATT_CHALLENGE", new_state, "start_att_nonce")
          /\ \/ /\ Suffer("ret")
                /\ SndSettle(new_state, "FAILURE")
                /\ sProc' = "run"
                /\ UNCHANGED toEvl
             \/ \E w \in WriteOutcomes : SndWrite(w, Msg("ATT_CHALLENGE"), new_state)
    /\ UNCHANGED <<conf, toSnd, eProc, sYao, eYao, yTries, sUser, sKeys, sReport>>

----------------------------------------------------------------------------
(* Attestation and input. *)

handle_att_S1 ==
    /\ \E new_state \in SendStates : SndRecv("handle_att_S1", new_state)
    /\ \/ SndFail("ret")
       \/ \E w \in WriteOutcomes : SndWrite(w, Msg("ATT_S2"), "ATT_S2_SENT")
    /\ UNCHANGED <<conf, eProc, sYao, eYao, yTries, sUser, sKeys, sReport>>

\* Variant: the measurement is not compared.
VerdictUnchecked == "GOOD"

\* verify_att_res: a well-formed quote is judged by its measurement alone.
Verdict == IF conf.hash THEN "GOOD" ELSE "BAD"

\* Steps 1 and 2 of handle_att_S3: verify_att_res, send_att_res.
handle_att_S3 ==
    /\ \E new_state \in SendStates : SndRecv("handle_att_S3", new_state)
    /\ \/ SndFail("ret")
       \/ \E w \in WriteOutcomes : SndWrite(w, AttResult(Verdict), "ATT_RES_SENT")
    /\ UNCHANGED <<conf, eProc, sYao, eYao, yTries, sUser, sKeys, sReport>>

\* Step 3 of handle_att_S3: send_input, whatever the verdict was.  Only the
\* hybrid case 0 sends its input without an ECall.
send_input ==
    /\ sProc = "run"
    /\ sState = "ATT_RES_SENT"
    /\ \/ /\ SndProg # "YAODF"
          /\ \E call \in {"ret", "status"} : SndFail(call)
       \/ \E w \in WriteOutcomes :
             SndWrite(w, Carrying("INPUT", [prog |-> SndProg,
                                            snd |-> SndInput(sUser, SndProg),
                                            evl |-> "none"]), "INPUT_SENT")
    /\ UNCHANGED <<conf, toSnd, eProc, sYao, eYao, yTries, sUser, sKeys, sReport>>

----------------------------------------------------------------------------
(* Results. *)

\* In SFE mode the length must be that of the output of trans_sfe, and the
\* ECall decrypts it; its status is not looked at, so an output it rejected
\* leaves the (zero) output buffer to be printed.  A hybrid run ignores the
\* payload: its output came from Yao.
handle_result ==
    /\ \E new_state \in SendStates : SndRecv("handle_result", new_state)
    /\ LET out == Head(toSnd).content IN
       IF conf.s_yao
       THEN /\ Suffer("ok")
            /\ SndSettle("RES_RECVD", "SUCCESS")
            /\ UNCHANGED sReport
       ELSE IF out.prog # SndProg
       THEN /\ Suffer("ok")
            /\ SndSettle("RES_RECVD", "FAILURE")
            /\ UNCHANGED sReport
       ELSE \E decrypt \in {"ok", "ret", "status"} :
            /\ Suffer(decrypt)
            /\ SndSettle("RES_RECVD", IF decrypt = "ret" THEN "FAILURE" ELSE "SUCCESS")
            /\ sReport' = CASE decrypt = "ok" -> out
                            [] decrypt = "status" -> Stale(SndProg)
                            [] decrypt = "ret" -> sReport
    /\ UNCHANGED <<conf, toEvl, sProc, eProc, sYao, eYao, yTries, sUser, sKeys>>

\* The first half of start_yao: check the length against that of the case
\* trans_yao_idx (0 unless -y says otherwise), decrypt, start Yao.  Case 0 does
\* not look at the status of the decryption, the others do.
start_yao ==
    /\ \E new_state \in SendStates : SndRecv("start_yao", new_state)
    /\ LET keys == Head(toSnd).content
           case == YaoProg[conf.s_idx + 1]
       IN
       \/ /\ keys.prog # case
          /\ SndFail("ok")
          /\ UNCHANGED <<sYao, sKeys>>
       \/ /\ keys.prog = case
          /\ \E decrypt \in {"ok", "ret", "status"} :
                LET good == decrypt = "ok" /\ keys # Stale(case) IN
                IF good \/ (case = "YAODF" /\ decrypt # "ret")
                THEN /\ Suffer(decrypt)
                     /\ sProc' = "yao"
                     /\ sYao' = "connect"
                     /\ sKeys' = IF good THEN keys ELSE Stale(case)
                     /\ UNCHANGED <<sState, sDone, toEvl>>
                ELSE /\ SndFail(decrypt)
                     /\ UNCHANGED <<sYao, sKeys>>
    /\ UNCHANGED <<conf, eProc, eYao, yTries, sUser, sReport>>

----------------------------------------------------------------------------
(* The Yao evaluator inside start_yao. *)

\* One turn of ClientSocket's loop: connect to the listening generator, or
\* sleep and try again, or give up.
SndConnect ==
    /\ sProc = "yao"
    /\ sYao = "connect"
    /\ IF eYao = "listen" /\ eProc # "exited"
       THEN /\ sYao' = "linked"
            /\ UNCHANGED <<yTries, sProc>>
       ELSE /\ yTries' = yTries + 1
            /\ sProc' = IF GivesUp(yTries + 1) THEN "exited" ELSE sProc
            /\ UNCHANGED sYao
    /\ UNCHANGED <<conf, toEvl, toSnd, eProc, eYao, faults, sndVars>>

\* runProgram returns and start_yao ends, the state unchanged.
SndYaoOver ==
    /\ sProc = "yao"
    /\ sYao = "linked"
    /\ YaoPeerThere(eYao, eProc)
    /\ sYao' = "over"
    /\ sProc' = "run"
    /\ sReport' = sKeys
    /\ UNCHANGED <<conf, toEvl, toSnd, eProc, eYao, yTries, faults,
                   sState, sDone, sUser, sKeys>>

\* The Yao code calls exit(1), or a send() to a generator that is gone kills
\* the process.
SndYaoExit ==
    /\ sProc = "yao"
    /\ sYao = "linked"
    /\ Suffer(IF YaoPeerGone(eYao, eProc) THEN "ok" ELSE "exit")
    /\ sProc' = "exited"
    /\ UNCHANGED <<conf, toEvl, toSnd, eProc, sYao, eYao, yTries, sndVars>>

----------------------------------------------------------------------------
(* Everything else.  The sender never reads a message its table has no row *)
(* for (SenderExpectsEveryMessage of SmcProtocol), so that no action is    *)
(* needed for handle_stub, nor for handle_err, whose row nothing reaches.  *)

\* main() leaves its loop: trans_fini() holds, or read() returned 0 or -1.
SndLeave ==
    /\ sProc = "run"
    /\ sState # "ATT_RES_SENT"
    /\ sDone \/ Eof(eProc, toSnd, toEvl)
    /\ sProc' = "exited"
    /\ UNCHANGED <<conf, toEvl, toSnd, eProc, sYao, eYao, yTries, faults, sndVars>>

SndCrash ==
    /\ sProc # "exited"
    /\ Suffer("crash")
    /\ sProc' = "exited"
    /\ UNCHANGED <<conf, toEvl, toSnd, eProc, sYao, eYao, yTries, sndVars>>

SndStep ==
    \/ SndStart \/ start_att_nonce
    \/ handle_att_S1 \/ handle_att_S3 \/ send_input
    \/ handle_result \/ start_yao
    \/ SndConnect \/ SndYaoOver
    \/ SndLeave

\* What may end the process at any time, and need not.
SndKilled == SndYaoExit \/ SndCrash

=============================================================================
