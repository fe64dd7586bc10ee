---------------------------- MODULE SmcProtocol -----------------------------
(***************************************************************************)
(* The sender and the evaluator connected to each other, and what a        *)
(* session between them must and must not do.                              *)
(***************************************************************************)
EXTENDS Sender, Evaluator

vars == <<netVars, sndVars, evlVars>>

\* The sender has connected and the evaluator has accepted.
Init == NetInit /\ SndInit /\ EvlInit

SndNext == (SndStep \/ SndKilled) /\ UNCHANGED evlVars
EvlNext == (EvlStep \/ EvlKilled) /\ UNCHANGED sndVars

\* Both processes have ended.
Terminated ==
    /\ sProc = "exited"
    /\ eProc = "exited"
    /\ UNCHANGED vars

Next == SndNext \/ EvlNext \/ Terminated

Spec == Init /\ [][Next]_vars

\* A process that can take a step of its program eventually takes one; nothing
\* obliges it to die.
Fairness ==
    /\ WF_vars(SndStep /\ UNCHANGED evlVars)
    /\ WF_vars(EvlStep /\ UNCHANGED sndVars)

FairSpec == Spec /\ Fairness

TypeOK == NetTypeOK /\ SndTypeOK /\ EvlTypeOK

----------------------------------------------------------------------------
(* Safety. *)

\* The sender believes that the session is over only when the evaluator does
\* too: RESULT is written last, and nothing else moves the sender to RES_RECVD.
SenderDoneImpliesEvaluatorDone == sDone => eDone

\* An enclave whose measurement is not the expected one never gets the shared
\* secret and never computes for the sender, though the sender's input is on
\* its way to it (handle_att_S3 sends it after the bad verdict): handle_att_res
\* stops the evaluator first, and the two never report a finished session.
BadAttestationNeverComputes ==
    ~conf.hash => /\ ~eMac /\ ~eSecret
                  /\ eOut = NoContent
                  /\ eProc # "yao"
                  /\ \A i \in 1..Len(toSnd) : toSnd[i].tag \notin {"YAO_INPUT", "RESULT"}
                  /\ ~sDone /\ ~eDone

\* The evaluator asks for inputs only when its enclave has accepted the
\* attestation result and holds the shared secret, and an output is only ever
\* computed under it.
SecretBeforeInput ==
    /\ eState \in {"INPUT_WAIT", "INPUT_RECVD"} => eMac /\ eSecret
    /\ eOut.snd \notin {"none", "stale"} => eSecret

\* Whatever fails and in whichever order things arrive, the sender reads only
\* messages its table has a row for: it may fail, but never falls into FINI.
SenderExpectsEveryMessage ==
    sProc = "run" /\ ~sDone /\ sState # "ATT_RES_SENT" /\ Readable(toSnd)
    => \E r \in send_stm_trans :
          r.current_state = sState /\ r.event = Head(toSnd).tag

\* The evaluator receives a message it has no row for only after it has itself
\* failed: it does not fall into FINI from a healthy state.
OnlyErrorLeadsToFini ==
    [][eState' = "FINI" => eState \in {"ERROR", "FINI"}]_vars

\* The two parties speak in turn: the streams are never filled in both
\* directions at once, so two blocking write()s cannot wait for each other.
TurnTaking == toEvl = <<>> \/ toSnd = <<>>

\* When both wait in read() and nothing is under way, one of them has reported
\* a failure: no healthy pair of parties waits for each other.
StalledOnlyAfterError ==
    /\ sProc = "run" /\ eProc = "run"
    /\ ~sDone /\ ~eDone
    /\ ~Readable(toEvl) /\ ~Readable(toSnd)
    /\ sState # "ATT_RES_SENT"
    => sState = "ERROR" \/ eState \in {"ERROR", "FINI"}

\* Nothing is ever written behind a torn message, where the receive loop would
\* take it for the rest of that message.
TornIsLast ==
    /\ \A i \in 1..Len(toEvl) : toEvl[i].tag = "TORN" => i = Len(toEvl)
    /\ \A i \in 1..Len(toSnd) : toSnd[i].tag = "TORN" => i = Len(toSnd)

\* Both parties were started for one hybrid case.
SameHybrid == conf.s_yao /\ conf.e_yao /\ conf.s_idx = conf.e_idx

\* The one disagreement that passes for it: an SFE sender and an evaluator in
\* case 0, whose idx is uninitialized for the subtag of an SFE program and may
\* happen to be 0.  start_yao does not ask for the mode either.
SameByChance == ~conf.s_yao /\ conf.e_yao /\ conf.e_idx = 0

\* Either end of the Yao link, on which the evaluator waits without a timeout,
\* is opened only by parties in the same hybrid case, or by the one disagreement
\* that passes for it; the sender connects only with keys for the evaluator's
\* case; and a sender that ends its session with a hybrid evaluator is in that
\* evaluator's case: the disagreement never ends as a success.
YaoSameCase ==
    /\ eYao # "off" \/ sYao # "off" => SameHybrid \/ SameByChance
    /\ sYao # "off" => sKeys.prog = YaoProg[conf.e_idx + 1]
    /\ sDone /\ conf.e_yao => SameHybrid

\* What the sender should be told: its program, run on its input and on the
\* evaluator's.
Answer == [prog |-> SndProg, snd |-> SndInput(sUser, SndProg),
           evl |-> EvlInput(eUser, SndProg)]

\* When an SFE sender finishes, the report is the answer.
ReportIsAnswer == sDone /\ ~conf.s_yao => sReport = Answer

----------------------------------------------------------------------------
(* Refinement: an SFE session implements SmcSession. *)

SessionPhase ==
    IF sDone THEN "delivered"
    ELSE IF eDone THEN "computed"
    ELSE IF eSecret THEN "attested"
    ELSE "open"

Session == INSTANCE SmcSession WITH
    Answers <- Content,
    Nothing <- NoContent,
    trusted <- conf.hash,
    phase   <- SessionPhase,
    asked   <- IF eSecret THEN Answer ELSE NoContent,
    result  <- IF sDone THEN sReport ELSE IF eDone THEN eOut ELSE NoContent

\* Through refused calls, short writes and crashes, and with input files of
\* either party or none, the two programs attest, compute and deliver in that
\* order, and what the sender prints is what it asked for.
ImplementsSession == Session!SSpec

----------------------------------------------------------------------------
(* Liveness. *)

\* Both parties finish the session and exit; a hybrid session may instead use
\* up the connection attempts of the Yao evaluator before the Yao generator
\* listens (util.cpp, init_network), which an SFE session makes none of.
Completes ==
    <>(\/ sDone /\ eDone /\ sProc = "exited" /\ eProc = "exited"
       \/ yTries = MaxTries)

\* Outside the Yao rounds the end of one process ends the other.
EndNoticed ==
    /\ (sProc = "exited") ~> (eProc \in {"exited", "yao"})
    /\ (eProc = "exited") ~> (sProc \in {"exited", "yao"})

=============================================================================
