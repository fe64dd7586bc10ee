------------------------- MODULE SmcProtocol_proofs -------------------------
(***************************************************************************)
(* Proofs about SmcProtocol for every set of command lines, every choice   *)
(* of failures and any number of them.                                     *)
(***************************************************************************)
EXTENDS SmcProtocol, TLAPS

----------------------------------------------------------------------------
(* What the helpers return. *)

\* The options select a program, and an index an option gives is one of the
\* four programs of its kind.
LEMMA ProgType ==
    ASSUME NEW c \in Conf
    PROVE  /\ YaoProg[c.s_idx + 1] \in YaoProgs
           /\ YaoProg[c.e_idx + 1] \in YaoProgs
           /\ SfeProg[c.s_sfe + 1] \in SfeProgs
<1>1. c.s_idx \in 0..3 /\ c.e_idx \in 0..3 /\ c.s_sfe \in 0..3
  BY DEF Conf
<1>2. \A n \in 0..3 : YaoProg[n + 1] \in YaoProgs /\ SfeProg[n + 1] \in SfeProgs
  BY DEF YaoProg, SfeProg, YaoProgs, SfeProgs
<1> QED
  BY <1>1, <1>2

\* A command line pair is one of Conf, so its programs are known ones.
LEMMA ConfType ==
    ASSUME conf \in Confs
    PROVE  /\ conf \in Conf
           /\ SndProg \in Progs
           /\ SndFile \in Progs \cup {"none"}
           /\ EvlFile \in Progs \cup {"none"}
           /\ YaoProg[conf.s_idx + 1] \in YaoProgs
           /\ YaoProg[conf.e_idx + 1] \in YaoProgs
<1>1. conf \in Conf
  BY ConfsAssumption
<1>2. /\ YaoProg[conf.s_idx + 1] \in YaoProgs
      /\ YaoProg[conf.e_idx + 1] \in YaoProgs
      /\ SfeProg[conf.s_sfe + 1] \in SfeProgs
  BY <1>1, ProgType
<1>3. conf.s_input \in SfeProgs \cup {"none"} /\ conf.e_input \in SfeProgs \cup {"none"}
  BY <1>1 DEF Conf
<1> QED
  BY <1>1, <1>2, <1>3 DEF SndProg, SndFile, EvlFile, Progs

\* What is written are whole messages or the torn rest of one.
LEMMA QueuedType ==
    ASSUME NEW msg \in Message, NEW outcome, NEW s \in Seq(Message)
    PROVE  s \o Queued(outcome, msg) \in Seq(Message)
<1>1. Msg("TORN") \in Message
  BY DEF Msg, Message, NoContent, Content, Words
<1>2. Queued(outcome, msg) \in Seq(Message)
  BY <1>1 DEF Queued
<1> QED
  BY <1>2

\* The messages the handlers build.
LEMMA MessageType ==
    /\ \A tag \in Tags : Msg(tag) \in Message
    /\ \A res \in {"GOOD", "BAD"} : AttResult(res) \in Message
    /\ \A tag \in Tags, c \in Content : Carrying(tag, c) \in Message
    /\ NoContent \in Content
    /\ \A p \in Progs : Stale(p) \in Content
BY DEF Msg, AttResult, Carrying, Message, NoContent, Content, Words, Stale, Tags

\* Whatever is suffered stays within the bound.
LEMMA SufferType ==
    ASSUME TypeOK
    PROVE  /\ \A first, second : SufferBoth(first, second) => faults' \in 0..MaxFaults
           /\ \A outcome : Suffer(outcome) => faults' \in 0..MaxFaults
BY MaxFaultsAssumption DEF TypeOK, NetTypeOK, SufferBoth, Suffer, Cost

----------------------------------------------------------------------------
(* Type correctness of the sender.  That yTries stays within its bound is  *)
(* not inductive: it needs that a sender out of attempts has exited.       *)

TriesLeft == yTries < MaxTries \/ sProc = "exited"

\* The end of trans_main leaves a state of the sender.
LEMMA SndSettleType ==
    ASSUME TypeOK, NEW state \in SendStates, NEW rtn, SndSettle(state, rtn)
    PROVE  sState' \in SendStates /\ sDone' \in BOOLEAN
<1>1. sState' \in SendStates
  BY DEF SndSettle, SendStates
<1>2. sDone' \in BOOLEAN
  BY DEF SndSettle
<1> QED
  BY <1>1, <1>2

\* The start of trans_main takes a message off the stream.
LEMMA SndRecvType ==
    ASSUME TypeOK, NEW transition, NEW new_state, SndRecv(transition, new_state)
    PROVE  /\ Head(toSnd) \in Message
           /\ toSnd' \in Seq(Message)
           /\ sProc = "run"
BY DEF SndRecv, Readable, TypeOK, NetTypeOK

\* A handler of the sender that writes last.
LEMMA SndWriteType ==
    ASSUME TypeOK, NEW w, NEW msg \in Message, NEW state \in SendStates,
           SndWrite(w, msg, state)
    PROVE  /\ toEvl' \in Seq(Message)
           /\ faults' \in 0..MaxFaults
           /\ sState' \in SendStates /\ sDone' \in BOOLEAN
           /\ sProc' \in {"run", "exited"}
<1>1. toEvl' \in Seq(Message)
  BY QueuedType DEF SndWrite, Write, TypeOK, NetTypeOK
<1>2. faults' \in 0..MaxFaults
  BY SufferType DEF SndWrite, Write
<1>3. sState' \in SendStates /\ sDone' \in BOOLEAN
  BY SndSettleType DEF SndWrite
<1>4. sProc' \in {"run", "exited"}
  BY DEF SndWrite
<1> QED
  BY <1>1, <1>2, <1>3, <1>4

\* A handler of the sender that fails before it writes.
LEMMA SndFailType ==
    ASSUME TypeOK, NEW outcome, SndFail(outcome)
    PROVE  /\ faults' \in 0..MaxFaults
           /\ sState' \in SendStates /\ sDone' \in BOOLEAN
           /\ UNCHANGED <<sProc, toEvl>>
BY SufferType, SndSettleType DEF SndFail, TypeOK, SndTypeOK

\* Every step of the sender keeps the types.
LEMMA SndType ==
    ASSUME TypeOK, TriesLeft, SndNext
    PROVE  TypeOK' /\ TriesLeft'
<1> USE DEF TriesLeft, TypeOK, NetTypeOK, SndTypeOK, EvlTypeOK, evlVars, sndVars
<1>c. /\ conf \in Conf
      /\ SndProg \in Progs
      /\ SndFile \in Progs \cup {"none"}
      /\ YaoProg[conf.s_idx + 1] \in YaoProgs
  BY ConfType
<1>1. CASE SndStart /\ UNCHANGED evlVars
  BY <1>1, <1>c, SufferType DEF SndStart
<1>2. CASE start_att_nonce /\ UNCHANGED evlVars
  <2>1. Msg("ATT_CHALLENGE") \in Message
    BY MessageType DEF Tags
  <2> QED
    BY <1>2, <2>1, SndWriteType, SndSettleType, SufferType DEF start_att_nonce
<1>3. CASE handle_att_S1 /\ UNCHANGED evlVars
  <2>1. Msg("ATT_S2") \in Message /\ "ATT_S2_SENT" \in SendStates
    BY MessageType DEF Tags, SendStates
  <2> QED
    BY <1>3, <2>1, SndRecvType, SndWriteType, SndFailType DEF handle_att_S1
<1>4. CASE handle_att_S3 /\ UNCHANGED evlVars
  <2>1. AttResult(Verdict) \in Message /\ "ATT_RES_SENT" \in SendStates
    BY MessageType DEF Verdict, SendStates
  <2> QED
    BY <1>4, <2>1, SndRecvType, SndWriteType, SndFailType DEF handle_att_S3
<1>5. CASE send_input /\ UNCHANGED evlVars
  <2> DEFINE input == [prog |-> SndProg, snd |-> SndInput(sUser, SndProg), evl |-> "none"]
  <2>1. Carrying("INPUT", input) \in Message /\ "INPUT_SENT" \in SendStates
    <3>1. input \in Content
      BY <1>c DEF SndInput, Content, Words
    <3> QED
      BY <3>1, MessageType DEF Tags, SendStates
  <2> QED
    BY <1>5, <2>1, SndWriteType, SndFailType DEF send_input
<1>6. CASE handle_result /\ UNCHANGED evlVars
  <2>1. "RES_RECVD" \in SendStates /\ Stale(SndProg) \in Content
    BY <1>c, MessageType DEF SendStates
  <2>2. Head(toSnd) \in Message => Head(toSnd).content \in Content
    BY DEF Message
  <2> QED
    BY <1>6, <2>1, <2>2, SndRecvType, SndSettleType, SufferType DEF handle_result
<1>7. CASE start_yao /\ UNCHANGED evlVars
  <2>1. Stale(YaoProg[conf.s_idx + 1]) \in Content
    BY <1>c, MessageType DEF Progs
  <2>2. Head(toSnd) \in Message => Head(toSnd).content \in Content
    BY DEF Message
  <2> QED
    BY <1>7, <2>1, <2>2, SndRecvType, SndFailType, SufferType DEF start_yao
<1>8. CASE SndConnect /\ UNCHANGED evlVars
  BY <1>8 DEF SndConnect, GivesUp, MaxTries
<1>9. CASE SndYaoOver /\ UNCHANGED evlVars
  BY <1>9 DEF SndYaoOver
<1>10. CASE (SndLeave \/ SndKilled) /\ UNCHANGED evlVars
  BY <1>10, SufferType DEF SndLeave, SndKilled, SndYaoExit, SndCrash
<1> QED
  BY <1>1, <1>2, <1>3, <1>4, <1>5, <1>6, <1>7, <1>8, <1>9, <1>10
  DEF SndNext, SndStep

----------------------------------------------------------------------------
(* Type correctness of the evaluator. *)

\* The end of trans_main leaves a state of the evaluator.
LEMMA EvlSettleType ==
    ASSUME TypeOK, NEW state \in EvalStates, NEW rtn, EvlSettle(state, rtn)
    PROVE  eState' \in EvalStates /\ eDone' \in BOOLEAN
<1>1. eState' \in EvalStates
  BY DEF EvlSettle, EvalStates
<1>2. eDone' \in BOOLEAN
  BY DEF EvlSettle
<1> QED
  BY <1>1, <1>2

\* The start of trans_main takes a message off the stream.
LEMMA EvlRecvType ==
    ASSUME TypeOK, NEW transition, NEW new_state, EvlRecv(transition, new_state)
    PROVE  /\ Head(toEvl) \in Message
           /\ Head(toEvl).content \in Content
           /\ toEvl' \in Seq(Message)
           /\ eProc = "run"
<1>1. Head(toEvl) \in Message /\ toEvl' \in Seq(Message) /\ eProc = "run"
  BY DEF EvlRecv, Readable, TypeOK, NetTypeOK
<1> QED
  BY <1>1 DEF Message

\* A handler of the evaluator that writes last.
LEMMA EvlCallWriteType ==
    ASSUME TypeOK, NEW call, NEW w, NEW msg \in Message, NEW state \in EvalStates,
           EvlCallWrite(call, w, msg, state)
    PROVE  /\ toSnd' \in Seq(Message)
           /\ faults' \in 0..MaxFaults
           /\ eState' \in EvalStates /\ eDone' \in BOOLEAN
           /\ eProc' \in {"run", "exited"}
<1>1. toSnd' \in Seq(Message)
  BY QueuedType DEF EvlCallWrite, Write, TypeOK, NetTypeOK
<1>2. faults' \in 0..MaxFaults
  BY SufferType DEF EvlCallWrite, Write
<1>3. eState' \in EvalStates /\ eDone' \in BOOLEAN
  BY EvlSettleType DEF EvlCallWrite
<1>4. eProc' \in {"run", "exited"}
  BY DEF EvlCallWrite
<1> QED
  BY <1>1, <1>2, <1>3, <1>4

\* A handler of the evaluator that fails before it writes.
LEMMA EvlFailType ==
    ASSUME TypeOK, NEW outcome, EvlFail(outcome)
    PROVE  /\ faults' \in 0..MaxFaults
           /\ eState' \in EvalStates /\ eDone' \in BOOLEAN
           /\ UNCHANGED <<eProc, toSnd>>
BY SufferType, EvlSettleType DEF EvlFail, TypeOK, EvlTypeOK

\* The evaluator's part in an output is a word.
LEMMA EvlInputType == \A user, prog : EvlInput(user, prog) \in Words
BY DEF EvlInput, Words

\* Every step of the evaluator keeps the types.
LEMMA EvlType ==
    ASSUME TypeOK, TriesLeft, EvlNext
    PROVE  TypeOK' /\ TriesLeft'
<1> USE DEF TriesLeft, TypeOK, NetTypeOK, SndTypeOK, EvlTypeOK, evlVars, sndVars
<1>c. /\ conf \in Conf
      /\ EvlFile \in Progs \cup {"none"}
      /\ YaoProg[conf.e_idx + 1] \in Progs
  BY ConfType DEF Progs
<1>1. CASE EvlStart /\ UNCHANGED sndVars
  BY <1>1, <1>c, SufferType DEF EvlStart
<1>2. CASE handle_att_nonce /\ UNCHANGED sndVars
  <2>1. Msg("ATT_S1") \in Message /\ "ATT_S1_SENT" \in EvalStates
    BY MessageType DEF Tags, EvalStates
  <2> QED
    BY <1>2, <2>1, EvlRecvType, EvlCallWriteType, EvlFailType
    DEF handle_att_nonce, EvlWrite
<1>3. CASE handle_att_S2 /\ UNCHANGED sndVars
  <2>1. Msg("ATT_S3") \in Message /\ "ATT_S3_SENT" \in EvalStates
    BY MessageType DEF Tags, EvalStates
  <2> QED
    BY <1>3, <2>1, EvlRecvType, EvlCallWriteType, EvlFailType
    DEF handle_att_S2, EvlWrite
<1>4. CASE handle_att_res /\ UNCHANGED sndVars
  <2>1. "INPUT_WAIT" \in EvalStates
    BY DEF EvalStates
  <2>2. toEvl' \in Seq(Message)
    BY <1>4, EvlRecvType DEF handle_att_res
  <2>3. CASE EvlFail("ok") /\ UNCHANGED <<eMac, eSecret>>
    BY <1>4, <2>2, <2>3, EvlFailType DEF handle_att_res
  <2>4. ASSUME NEW mac, NEW secret, SufferBoth(mac, secret),
               eMac' = (mac = "ok"),
               eSecret' = (Wrapped(mac) = "ok" /\ secret = "ok"),
               EvlSettle("INPUT_WAIT",
                         IF Wrapped(mac) = "ok" /\ Wrapped(secret) = "ok"
                         THEN "SUCCESS" ELSE "FAILURE"),
               UNCHANGED <<eProc, toSnd>>
        PROVE  TypeOK' /\ TriesLeft'
    BY <1>4, <2>1, <2>2, <2>4, EvlSettleType, SufferType DEF handle_att_res
  <2> QED
    BY <1>4, <2>3, <2>4 DEF handle_att_res
<1>5. CASE HandleInputSfe /\ UNCHANGED sndVars
  <2> DEFINE input == Head(toEvl).content
             prog == SfeAsked(input.prog)
             computed == [prog |-> prog, snd |-> input.snd, evl |-> EvlInput(eUser, prog)]
  <2>1. toEvl' \in Seq(Message) /\ input \in Content
    BY <1>5, EvlRecvType DEF HandleInputSfe
  <2>2. prog \in Progs
    BY DEF SfeAsked, Progs, SfeProgs, SfeProg
  <2>3. computed \in Content /\ Stale(prog) \in Content
    BY <2>1, <2>2, EvlInputType, MessageType DEF Content
  <2>4. \A c \in Content : Carrying("RESULT", c) \in Message
    BY MessageType DEF Tags
  <2>5. "RES_SENT" \in EvalStates
    BY DEF EvalStates
  <2> QED
    BY <1>5, <2>1, <2>3, <2>4, <2>5, EvlCallWriteType, EvlFailType DEF HandleInputSfe
<1>6. CASE HandleInputYao /\ UNCHANGED sndVars
  <2> DEFINE input == Head(toEvl).content
             case == YaoProg[conf.e_idx + 1]
             keys == IF eSecret THEN [prog |-> case, snd |-> input.snd,
                                      evl |-> EvlInput(eUser, case)]
                     ELSE Stale(case)
  <2>1. toEvl' \in Seq(Message) /\ input \in Content
    BY <1>6, EvlRecvType DEF HandleInputYao
  <2>2. keys \in Content
    BY <1>c, <2>1, EvlInputType, MessageType DEF Content
  <2>3. Carrying("YAO_INPUT", keys) \in Message
    BY <2>2, MessageType DEF Tags
  <2>4. \A outcome : toSnd \o Queued(outcome, Carrying("YAO_INPUT", keys)) \in Seq(Message)
    BY <2>3, QueuedType
  <2> HIDE DEF keys
  <2>5. PICK new_state \in EvalStates :
           \/ /\ EvlFail("ok") \/ EvlFail("ret") \/ EvlFail("status")
              /\ UNCHANGED eYao
           \/ Suffer("ok") /\ eProc' = "exited" /\ UNCHANGED <<toSnd, eYao, eState, eDone>>
           \/ \E w \in WriteOutcomes :
                 /\ Write("ok", w, sProc, toSnd, Carrying("YAO_INPUT", keys))
                 /\ EvlSettle(new_state, IF w = "sent" THEN "SUCCESS" ELSE "FAILURE")
                 /\ eProc' \in {"yao", "exited", "run"}
                 /\ eYao' = IF w = "sent" THEN "bind" ELSE eYao
    BY <1>6 DEF HandleInputYao, keys
  <2>6. UNCHANGED <<conf, sProc, sYao, yTries, eUser, eMac, eSecret, eOut>>
    BY <1>6 DEF HandleInputYao
  <2>7. CASE /\ EvlFail("ok") \/ EvlFail("ret") \/ EvlFail("status")
             /\ UNCHANGED eYao
    BY <1>6, <2>1, <2>6, <2>7, EvlFailType
  <2>8. CASE Suffer("ok") /\ eProc' = "exited" /\ UNCHANGED <<toSnd, eYao, eState, eDone>>
    BY <1>6, <2>1, <2>6, <2>8, SufferType
  <2>9. ASSUME NEW w,
               Write("ok", w, sProc, toSnd, Carrying("YAO_INPUT", keys)),
               EvlSettle(new_state, IF w = "sent" THEN "SUCCESS" ELSE "FAILURE"),
               eProc' \in {"yao", "exited", "run"},
               eYao' = IF w = "sent" THEN "bind" ELSE eYao
        PROVE  TypeOK' /\ TriesLeft'
    <3>1. toSnd' \in Seq(Message) /\ faults' \in 0..MaxFaults
      BY <2>4, <2>9, SufferType DEF Write
    <3>2. eState' \in EvalStates /\ eDone' \in BOOLEAN
      BY <2>9, EvlSettleType
    <3> QED
      BY <1>6, <2>1, <2>6, <2>9, <3>1, <3>2
  <2> QED
    BY <2>5, <2>7, <2>8, <2>9
<1>7. CASE EvlListen /\ UNCHANGED sndVars
  BY <1>7, SufferType DEF EvlListen
<1>8. CASE EvlAccept /\ UNCHANGED sndVars
  BY <1>8 DEF EvlAccept
<1>9. CASE EvlYaoOver /\ UNCHANGED sndVars
  <2>1. Carrying("RESULT", NoContent) \in Message /\ "RES_SENT" \in EvalStates
    BY MessageType DEF Tags, EvalStates
  <2> QED
    BY <1>9, <2>1, EvlCallWriteType DEF EvlYaoOver, EvlWrite
<1>10. CASE EvlUnexpected /\ UNCHANGED sndVars
  BY <1>10, EvlRecvType, EvlSettleType DEF EvlUnexpected
<1>11. CASE (EvlLeave \/ EvlKilled) /\ UNCHANGED sndVars
  BY <1>11, SufferType DEF EvlLeave, EvlKilled, EvlYaoExit, EvlCrash
<1> QED
  BY <1>1, <1>2, <1>3, <1>4, <1>5, <1>6, <1>7, <1>8, <1>9, <1>10, <1>11
  DEF EvlNext, EvlStep

\* The inductive form of type correctness.
LEMMA TypeInvariant == Spec => [](TypeOK /\ TriesLeft)
<1>1. Init => TypeOK /\ TriesLeft
  <2> SUFFICES ASSUME Init PROVE TypeOK /\ TriesLeft
    OBVIOUS
  <2>1. NetTypeOK /\ TriesLeft
    BY MaxFaultsAssumption DEF Init, NetInit, NetTypeOK, TriesLeft, MaxTries
  <2>2. SndTypeOK
    BY MessageType DEF Init, SndInit, SndTypeOK, SendStates
  <2>3. EvlTypeOK
    BY MessageType DEF Init, EvlInit, EvlTypeOK, EvalStates
  <2> QED
    BY <2>1, <2>2, <2>3 DEF TypeOK
<1>2. TypeOK /\ TriesLeft /\ [Next]_vars => (TypeOK /\ TriesLeft)'
  <2> SUFFICES ASSUME TypeOK, TriesLeft, [Next]_vars
               PROVE  TypeOK' /\ TriesLeft'
    OBVIOUS
  <2>1. CASE SndNext
    BY <2>1, SndType
  <2>2. CASE EvlNext
    BY <2>2, EvlType
  <2>3. CASE UNCHANGED vars
    BY <2>3 DEF vars, netVars, sndVars, evlVars, TypeOK, NetTypeOK, SndTypeOK,
                EvlTypeOK, TriesLeft
  <2> QED
    BY <2>1, <2>2, <2>3 DEF Next, Terminated
<1> QED
  BY <1>1, <1>2, PTL DEF Spec

\* Every variable keeps its type in every behaviour, with any set of command
\* lines, any failures and any number of them.
THEOREM TypeCorrect == Spec => []TypeOK
BY TypeInvariant, PTL

----------------------------------------------------------------------------
(* The sender finishes only after the evaluator has: a RESULT on its way   *)
(* to the sender was written by a handler that ended in RES_SENT.          *)

ResultAfterDone == \A i \in 1..Len(toSnd) : toSnd[i].tag = "RESULT" => eDone

\* What is on a stream after a write was there before, is the message written,
\* or is torn.
LEMMA QueuedElements ==
    ASSUME NEW s \in Seq(Message), NEW outcome, NEW msg \in Message,
           NEW i \in 1..Len(s \o Queued(outcome, msg))
    PROVE  LET e == (s \o Queued(outcome, msg))[i] IN
           \/ i \in 1..Len(s) /\ e = s[i]
           \/ outcome = "sent" /\ e = msg
           \/ e.tag = "TORN"
<1>1. Msg("TORN").tag = "TORN" /\ Msg("TORN") \in Message
  BY DEF Msg, Message, NoContent, Content, Words
<1>2. CASE outcome = "sent"
  BY <1>2 DEF Queued
<1>3. CASE outcome = "torn"
  BY <1>1, <1>3 DEF Queued
<1>4. CASE outcome \notin {"sent", "torn"}
  <2>1. Queued(outcome, msg) = <<>>
    BY <1>4 DEF Queued
  <2> QED
    BY <2>1
<1> QED
  BY <1>2, <1>3, <1>4

\* The sender only takes messages off its stream, and is done when the one it
\* takes is RESULT.
LEMMA SndFinishes ==
    ASSUME TypeOK, SndNext
    PROVE  /\ eDone' = eDone
           /\ \/ UNCHANGED <<toSnd, sDone>>
              \/ /\ Readable(toSnd)
                 /\ toSnd' = Tail(toSnd)
                 /\ sDone' => \/ sDone
                              \/ /\ Head(toSnd).tag = "RESULT"
                                 /\ conf.s_yao \/ Head(toSnd).content.prog = SndProg
<1> USE DEF TypeOK, SndTypeOK
<1>1. eDone' = eDone
  BY DEF SndNext, evlVars
<1>2. ASSUME SndStart \/ SndConnect \/ SndYaoOver \/ SndLeave \/ SndKilled
      PROVE  UNCHANGED <<toSnd, sDone>>
  BY <1>2 DEF SndStart, SndConnect, SndYaoOver, SndLeave, SndKilled, SndYaoExit,
              SndCrash, sndVars
<1>3. ASSUME start_att_nonce
      PROVE  UNCHANGED <<toSnd, sDone>>
  <2>1. \A new_state \in SendStates :
           Cell(send_stm_trans, sState, "ATT_CHALLENGE", new_state, "start_att_nonce")
           => new_state = "ATT_STARTED"
    BY DEF Cell, send_stm_trans, Row
  <2> QED
    BY <1>3, <2>1 DEF start_att_nonce, SndSettle, SndWrite
<1>4. ASSUME send_input
      PROVE  UNCHANGED <<toSnd, sDone>>
  BY <1>4 DEF send_input, SndFail, SndSettle, SndWrite
<1>5. ASSUME handle_att_S1 \/ handle_att_S3
      PROVE  Readable(toSnd) /\ toSnd' = Tail(toSnd) /\ sDone' = sDone
  BY <1>5 DEF handle_att_S1, handle_att_S3, SndRecv, SndFail, SndSettle, SndWrite
<1>6. ASSUME start_yao
      PROVE  Readable(toSnd) /\ toSnd' = Tail(toSnd) /\ sDone' = sDone
  BY <1>6 DEF start_yao, SndRecv, SndFail, SndSettle
<1>7. ASSUME handle_result
      PROVE  /\ Readable(toSnd) /\ toSnd' = Tail(toSnd) /\ Head(toSnd).tag = "RESULT"
             /\ sDone' => sDone \/ conf.s_yao \/ Head(toSnd).content.prog = SndProg
  <2>1. Readable(toSnd) /\ toSnd' = Tail(toSnd) /\ Head(toSnd).tag = "RESULT"
    BY <1>7 DEF handle_result, SndRecv, Cell, send_stm_trans, Row
  <2>2. CASE conf.s_yao \/ Head(toSnd).content.prog = SndProg
    BY <2>1, <2>2
  <2>3. CASE ~conf.s_yao /\ Head(toSnd).content.prog # SndProg
    BY <1>7, <2>1, <2>3 DEF handle_result, SndSettle
  <2> QED
    BY <2>2, <2>3
<1> QED
  BY <1>1, <1>2, <1>3, <1>4, <1>5, <1>6, <1>7 DEF SndNext, SndStep

\* The evaluator stays done, and only adds to its stream: a RESULT that is
\* written whole makes it done, and a YAO_INPUT is for its own case.
LEMMA EvlFinishes ==
    ASSUME TypeOK, EvlNext
    PROVE  /\ sDone' = sDone
           /\ eDone => eDone'
           /\ \/ UNCHANGED toSnd
              \/ \E msg \in Message, w \in WriteOutcomes :
                    /\ toSnd' = toSnd \o Queued(w, msg)
                    /\ w = "sent" /\ msg.tag = "RESULT" => eDone'
                    /\ msg.tag = "RESULT" /\ conf.e_yao
                       => msg.content.prog = "none" /\ eYao = "linked" /\ eYao' = "over"
                    /\ msg.tag = "YAO_INPUT"
                       => conf.e_yao /\ msg.content.prog = YaoProg[conf.e_idx + 1]
<1> USE DEF TypeOK, EvlTypeOK
<1>1. sDone' = sDone
  BY DEF EvlNext, sndVars
<1>2. \A call, w, msg, state :
         EvlCallWrite(call, w, msg, state)
         => /\ toSnd' = toSnd \o Queued(w, msg)
            /\ eDone => eDone'
            /\ w = "sent" /\ state = "RES_SENT" => eDone'
  BY DEF EvlCallWrite, Write, EvlSettle
<1>3. \A outcome : EvlFail(outcome) => UNCHANGED <<toSnd, eDone>>
  BY DEF EvlFail, EvlSettle
<1>4. ASSUME \/ EvlStart \/ handle_att_res \/ EvlListen \/ EvlAccept
             \/ EvlUnexpected \/ EvlLeave \/ EvlKilled
      PROVE  UNCHANGED toSnd /\ (eDone => eDone')
  BY <1>3, <1>4
  DEF EvlStart, handle_att_res, EvlSettle, EvlListen, EvlAccept, EvlUnexpected,
      EvlLeave, EvlKilled, EvlYaoExit, EvlCrash, evlVars
<1>5. /\ Msg("ATT_S1") \in Message /\ Msg("ATT_S1").tag = "ATT_S1"
      /\ Msg("ATT_S3") \in Message /\ Msg("ATT_S3").tag = "ATT_S3"
  BY MessageType DEF Tags, Msg
<1>6. CASE handle_att_nonce
  BY <1>1, <1>2, <1>3, <1>5, <1>6 DEF handle_att_nonce, EvlWrite
<1>7. CASE handle_att_S2
  BY <1>1, <1>2, <1>3, <1>5, <1>7 DEF handle_att_S2, EvlWrite
<1>8. CASE HandleInputSfe
  <2> DEFINE input == Head(toEvl).content
             prog == SfeAsked(input.prog)
             computed == [prog |-> prog, snd |-> input.snd, evl |-> EvlInput(eUser, prog)]
  <2>1. computed \in Content /\ Stale(prog) \in Content
    <3>1. input \in Content
      BY <1>8, EvlRecvType DEF HandleInputSfe
    <3>2. prog \in Progs
      BY DEF SfeAsked, Progs, SfeProgs, SfeProg
    <3> QED
      BY <3>1, <3>2, EvlInputType, MessageType DEF Content
  <2>2. \A c \in Content : /\ Carrying("RESULT", c) \in Message
                            /\ Carrying("RESULT", c).tag = "RESULT"
    BY MessageType DEF Tags, Carrying
  <2> QED
    BY <1>1, <1>2, <1>3, <1>8, <2>1, <2>2 DEF HandleInputSfe
<1>9. CASE EvlYaoOver
  <2>1. /\ Carrying("RESULT", NoContent) \in Message
        /\ Carrying("RESULT", NoContent).tag = "RESULT"
        /\ Carrying("RESULT", NoContent).content.prog = "none"
    BY MessageType DEF Tags, Carrying, NoContent
  <2> QED
    BY <1>1, <1>2, <1>9, <2>1 DEF EvlYaoOver, EvlWrite
<1>10. CASE HandleInputYao
  <2> DEFINE input == Head(toEvl).content
             case == YaoProg[conf.e_idx + 1]
             keys == IF eSecret THEN [prog |-> case, snd |-> input.snd,
                                      evl |-> EvlInput(eUser, case)]
                     ELSE Stale(case)
  <2>1. Carrying("YAO_INPUT", keys) \in Message
    <3>1. input \in Content
      BY <1>10, EvlRecvType DEF HandleInputYao
    <3>2. case \in Progs
      BY ConfType DEF Progs, NetTypeOK
    <3>3. keys \in Content
      BY <3>1, <3>2, EvlInputType, MessageType DEF Content
    <3> QED
      BY <3>3, MessageType DEF Tags
  <2>2. /\ Carrying("YAO_INPUT", keys).tag = "YAO_INPUT"
        /\ Carrying("YAO_INPUT", keys).content.prog = case
    BY DEF Carrying, Stale
  <2> HIDE DEF keys
  <2>3. \/ UNCHANGED toSnd /\ (eDone => eDone')
        \/ \E w \in WriteOutcomes : \E state, rtn :
              /\ toSnd' = toSnd \o Queued(w, Carrying("YAO_INPUT", keys))
              /\ EvlSettle(state, rtn)
    BY <1>3, <1>10 DEF HandleInputYao, Write, keys
  <2>4. \A state, rtn : EvlSettle(state, rtn) => (eDone => eDone')
    BY DEF EvlSettle
  <2>5. conf.e_yao
    BY <1>10 DEF HandleInputYao
  <2> QED
    BY <1>1, <2>1, <2>2, <2>3, <2>4, <2>5
<1> QED
  BY <1>1, <1>4, <1>6, <1>7, <1>8, <1>9, <1>10 DEF EvlNext, EvlStep

\* The sender's session is over only when the evaluator's is.
THEOREM DoneInOrder == Spec => []SenderDoneImpliesEvaluatorDone
<1>1. Init => ResultAfterDone /\ SenderDoneImpliesEvaluatorDone
  BY DEF Init, NetInit, SndInit, ResultAfterDone, SenderDoneImpliesEvaluatorDone
<1>2. TypeOK /\ ResultAfterDone /\ SenderDoneImpliesEvaluatorDone /\ [Next]_vars
      => (ResultAfterDone /\ SenderDoneImpliesEvaluatorDone)'
  <2> SUFFICES ASSUME TypeOK, ResultAfterDone, SenderDoneImpliesEvaluatorDone,
                      [Next]_vars
               PROVE  ResultAfterDone' /\ SenderDoneImpliesEvaluatorDone'
    OBVIOUS
  <2> USE DEF ResultAfterDone, SenderDoneImpliesEvaluatorDone
  <2>t. toSnd \in Seq(Message)
    BY DEF TypeOK, NetTypeOK
  <2>1. CASE SndNext
    <3>1. CASE UNCHANGED <<toSnd, sDone>>
      BY <2>1, <3>1, SndFinishes
    <3>2. CASE /\ Readable(toSnd)
               /\ toSnd' = Tail(toSnd)
               /\ sDone' => sDone \/ Head(toSnd).tag = "RESULT"
      <4>1. toSnd # <<>> /\ Head(toSnd) = toSnd[1] /\ 1 \in 1..Len(toSnd)
        BY <2>t, <3>2 DEF Readable
      <4>2. \A i \in 1..Len(toSnd') :
               i + 1 \in 1..Len(toSnd) /\ toSnd'[i] = toSnd[i + 1]
        BY <2>t, <3>2, <4>1
      <4> QED
        BY <2>1, <3>2, <4>1, <4>2, SndFinishes
    <3> QED
      BY <2>1, <3>1, <3>2, SndFinishes
  <2>2. CASE EvlNext
    <3>1. sDone' = sDone /\ (eDone => eDone')
      BY <2>2, EvlFinishes
    <3>2. CASE UNCHANGED toSnd
      BY <3>1, <3>2
    <3>3. ASSUME NEW msg \in Message, NEW w \in WriteOutcomes,
                 toSnd' = toSnd \o Queued(w, msg),
                 w = "sent" /\ msg.tag = "RESULT" => eDone'
          PROVE  ResultAfterDone'
      <4> SUFFICES ASSUME NEW i \in 1..Len(toSnd'), toSnd'[i].tag = "RESULT"
                   PROVE  eDone'
        OBVIOUS
      <4> QED
        BY <2>t, <3>1, <3>3, QueuedElements
    <3> QED
      BY <2>2, <3>1, <3>2, <3>3, EvlFinishes
  <2>3. CASE UNCHANGED vars
    BY <2>3 DEF vars, netVars, sndVars, evlVars
  <2> QED
    BY <2>1, <2>2, <2>3 DEF Next, Terminated
<1> QED
  BY <1>1, <1>2, TypeCorrect, PTL DEF Spec

----------------------------------------------------------------------------
(* A bad attestation: the verdict on its way to the evaluator is BAD, and  *)
(* so the evaluator never waits for an input.                              *)

BadVerdictSent ==
    ~conf.hash =>
        /\ \A i \in 1..Len(toEvl) : toEvl[i].tag = "ATT_RESULT" => toEvl[i].res = "BAD"
        /\ eState # "INPUT_WAIT"

\* The sender only adds to the evaluator's stream, every attestation result it
\* adds is its verdict, and every input is its own, for its program.
LEMMA SndWrites ==
    ASSUME TypeOK, SndNext
    PROVE  \/ UNCHANGED toEvl
           \/ \E msg \in Message, w \in WriteOutcomes :
                 /\ toEvl' = toEvl \o Queued(w, msg)
                 /\ msg.tag = "ATT_RESULT" => msg.res = Verdict
                 /\ msg.tag = "INPUT"
                    => msg.content = [prog |-> SndProg, snd |-> SndInput(sUser, SndProg),
                                      evl |-> "none"]
<1> USE DEF TypeOK
<1>1. \A w, msg, state : SndWrite(w, msg, state) => toEvl' = toEvl \o Queued(w, msg)
  BY DEF SndWrite, Write
<1>2. \A outcome : SndFail(outcome) => UNCHANGED toEvl
  BY DEF SndFail
<1>3. CASE \/ SndStart \/ handle_result \/ start_yao \/ SndConnect \/ SndYaoOver
           \/ SndLeave \/ SndKilled
  BY <1>2, <1>3
  DEF SndStart, handle_result, start_yao, SndConnect, SndYaoOver, SndLeave,
      SndKilled, SndYaoExit, SndCrash
<1>4. /\ Msg("ATT_CHALLENGE") \in Message /\ Msg("ATT_CHALLENGE").tag = "ATT_CHALLENGE"
      /\ Msg("ATT_S2") \in Message /\ Msg("ATT_S2").tag = "ATT_S2"
  BY MessageType DEF Tags, Msg
<1>5. CASE start_att_nonce
  BY <1>1, <1>4, <1>5 DEF start_att_nonce
<1>6. CASE handle_att_S1
  BY <1>1, <1>2, <1>4, <1>6 DEF handle_att_S1
<1>7. CASE handle_att_S3
  <2>1. /\ AttResult(Verdict) \in Message
        /\ AttResult(Verdict).tag = "ATT_RESULT" /\ AttResult(Verdict).res = Verdict
    BY MessageType DEF Verdict, AttResult
  <2> QED
    BY <1>1, <1>2, <1>7, <2>1 DEF handle_att_S3
<1>8. CASE send_input
  <2> DEFINE msg == Carrying("INPUT", [prog |-> SndProg,
                                       snd |-> SndInput(sUser, SndProg),
                                       evl |-> "none"])
  <2>1. msg \in Message
    <3>1. SndProg \in Progs
      BY ConfType DEF NetTypeOK
    <3> QED
      BY <3>1, MessageType DEF SndInput, Content, Words, Tags
  <2>2. /\ msg.tag = "INPUT"
        /\ msg.content = [prog |-> SndProg, snd |-> SndInput(sUser, SndProg),
                          evl |-> "none"]
    BY DEF Carrying
  <2> QED
    BY <1>1, <1>2, <1>8, <2>1, <2>2 DEF send_input
<1> QED
  BY <1>3, <1>5, <1>6, <1>7, <1>8 DEF SndNext, SndStep

\* The evaluator only takes messages off its stream.
LEMMA EvlReads ==
    ASSUME EvlNext
    PROVE  \/ UNCHANGED toEvl
           \/ Readable(toEvl) /\ toEvl' = Tail(toEvl)
BY DEF EvlNext, EvlStep, EvlKilled, EvlStart, handle_att_nonce, handle_att_S2,
       handle_att_res, HandleInputSfe, HandleInputYao, EvlListen, EvlAccept,
       EvlYaoOver, EvlUnexpected, EvlLeave, EvlYaoExit, EvlCrash, EvlRecv

\* An evaluator that was sent a bad verdict keeps out of INPUT_WAIT, gets no
\* secret and computes nothing.
LEMMA BadVerdictStops ==
    ASSUME TypeOK, EvlNext, BadVerdictSent, BadAttestationNeverComputes, ~conf.hash
    PROVE  /\ eState' # "INPUT_WAIT"
           /\ UNCHANGED <<eMac, eSecret, eOut, eDone>>
           /\ eProc' # "yao"
           /\ \/ UNCHANGED toSnd
              \/ \E msg \in Message, w \in WriteOutcomes :
                    /\ toSnd' = toSnd \o Queued(w, msg)
                    /\ msg.tag \notin {"YAO_INPUT", "RESULT"}
<1> USE DEF BadVerdictSent, BadAttestationNeverComputes
<1>1. CASE EvlStart \/ EvlLeave \/ EvlKilled
  BY <1>1 DEF EvlStart, EvlLeave, EvlKilled, EvlYaoExit, EvlCrash, evlVars
<1>2. CASE EvlListen \/ EvlAccept \/ EvlYaoOver
  BY <1>2 DEF EvlListen, EvlAccept, EvlYaoOver
<1>3. CASE HandleInputSfe \/ HandleInputYao
  BY <1>3 DEF HandleInputSfe, HandleInputYao, EvlRecv, Cell, eval_stm_trans, Row
<1>4. \A w, msg, state :
         EvlWrite(w, msg, state) /\ state \in {"ATT_S1_SENT", "ATT_S3_SENT"}
         => /\ toSnd' = toSnd \o Queued(w, msg)
            /\ eDone' = eDone /\ eState' # "INPUT_WAIT" /\ eProc' # "yao"
  BY DEF EvlWrite, EvlCallWrite, Write, EvlSettle, TypeOK, EvlTypeOK
<1>5. \A outcome :
         EvlFail(outcome)
         => /\ UNCHANGED <<toSnd, eProc>>
            /\ eDone' = eDone /\ eState' # "INPUT_WAIT"
  BY DEF EvlFail, EvlSettle, TypeOK, EvlTypeOK
<1>6. /\ Msg("ATT_S1") \in Message /\ Msg("ATT_S1").tag = "ATT_S1"
      /\ Msg("ATT_S3") \in Message /\ Msg("ATT_S3").tag = "ATT_S3"
  BY MessageType DEF Tags, Msg
<1>7. CASE handle_att_nonce
  BY <1>4, <1>5, <1>6, <1>7 DEF handle_att_nonce
<1>8. CASE handle_att_S2
  BY <1>4, <1>5, <1>6, <1>8 DEF handle_att_S2
<1>9. CASE handle_att_res
  <2>1. Readable(toEvl) /\ Head(toEvl).tag = "ATT_RESULT"
    BY <1>9 DEF handle_att_res, EvlRecv, Cell, eval_stm_trans, Row
  <2>2. Head(toEvl).res = "BAD"
    <3>1. toEvl # <<>> /\ Head(toEvl) = toEvl[1] /\ 1 \in 1..Len(toEvl)
      BY <2>1 DEF Readable, TypeOK, NetTypeOK
    <3> QED
      BY <2>1, <3>1
  <2> QED
    BY <1>5, <1>9, <2>2 DEF handle_att_res
<1>10. CASE EvlUnexpected
  <2>1. \A new_state, tag :
           Cell(eval_stm_trans, eState, tag, new_state, "handle_stub")
           => new_state \in {"INIT", "FINI"}
    BY DEF Cell, eval_stm_trans, Row
  <2> QED
    BY <1>10, <2>1 DEF EvlUnexpected, EvlRecv, EvlSettle, TypeOK, EvlTypeOK
<1> QED
  BY <1>1, <1>2, <1>3, <1>7, <1>8, <1>9, <1>10 DEF EvlNext, EvlStep

\* The command lines never change.
LEMMA ConfFixed ==
    ASSUME Next
    PROVE  conf' = conf
<1>1. CASE SndNext
  BY <1>1 DEF SndNext, SndStep, SndKilled, SndStart, start_att_nonce, handle_att_S1,
              handle_att_S3, send_input, handle_result, start_yao, SndConnect,
              SndYaoOver, SndYaoExit, SndLeave, SndCrash
<1>2. CASE EvlNext
  BY <1>2 DEF EvlNext, EvlStep, EvlKilled, EvlStart, handle_att_nonce, handle_att_S2,
              handle_att_res, HandleInputSfe, HandleInputYao, EvlListen, EvlAccept,
              EvlYaoOver, EvlUnexpected, EvlLeave, EvlYaoExit, EvlCrash
<1> QED
  BY <1>1, <1>2 DEF Next, Terminated, vars, netVars

\* What is left of a stream after reading was on it.
LEMMA TailElements ==
    ASSUME NEW s \in Seq(Message), s # <<>>
    PROVE  /\ Head(s) = s[1] /\ 1 \in 1..Len(s)
           /\ \A i \in 1..Len(Tail(s)) : i + 1 \in 1..Len(s) /\ Tail(s)[i] = s[i + 1]
OBVIOUS

\* No evaluator with an unexpected measurement gets the secret or computes.
THEOREM AttestationGuards == Spec => []BadAttestationNeverComputes
<1>1. Init => BadVerdictSent /\ BadAttestationNeverComputes
  BY DEF Init, NetInit, SndInit, EvlInit, BadVerdictSent, BadAttestationNeverComputes
<1>2. TypeOK /\ BadVerdictSent /\ BadAttestationNeverComputes /\ [Next]_vars
      => (BadVerdictSent /\ BadAttestationNeverComputes)'
  <2> SUFFICES ASSUME TypeOK, BadVerdictSent, BadAttestationNeverComputes, Next,
                      ~conf.hash
               PROVE  BadVerdictSent' /\ BadAttestationNeverComputes'
    <3>1. CASE UNCHANGED vars
      BY <3>1 DEF BadVerdictSent, BadAttestationNeverComputes, vars, netVars, sndVars,
                  evlVars
    <3>2. CASE Next /\ conf.hash
      BY <3>2, ConfFixed DEF BadVerdictSent, BadAttestationNeverComputes
    <3> QED
      BY <3>1, <3>2
  <2> USE DEF BadVerdictSent, BadAttestationNeverComputes
  <2>t. toSnd \in Seq(Message) /\ toEvl \in Seq(Message)
    BY DEF TypeOK, NetTypeOK
  <2>1. CASE SndNext
    <3>1. UNCHANGED <<eState, eMac, eSecret, eOut, eDone>> /\ eProc' = eProc
      BY <2>1
      DEF SndNext, evlVars, SndStep, SndKilled, SndStart, start_att_nonce,
          handle_att_S1, handle_att_S3, send_input, handle_result, start_yao,
          SndConnect, SndYaoOver, SndYaoExit, SndLeave, SndCrash
    <3>2. /\ ~sDone'
          /\ \A i \in 1..Len(toSnd') : toSnd'[i].tag \notin {"YAO_INPUT", "RESULT"}
      <4>1. CASE UNCHANGED <<toSnd, sDone>>
        BY <4>1
      <4>2. CASE /\ toSnd # <<>>
                 /\ toSnd' = Tail(toSnd)
                 /\ sDone' => sDone \/ Head(toSnd).tag = "RESULT"
        BY <2>t, <4>2, TailElements
      <4> QED
        BY <2>1, <4>1, <4>2, SndFinishes DEF Readable
    <3>3. \A i \in 1..Len(toEvl') : toEvl'[i].tag = "ATT_RESULT" => toEvl'[i].res = "BAD"
      <4>1. CASE UNCHANGED toEvl
        BY <4>1
      <4>2. ASSUME NEW msg \in Message, NEW w \in WriteOutcomes,
                   toEvl' = toEvl \o Queued(w, msg),
                   msg.tag = "ATT_RESULT" => msg.res = Verdict,
                   NEW i \in 1..Len(toEvl'), toEvl'[i].tag = "ATT_RESULT"
            PROVE  toEvl'[i].res = "BAD"
        BY <2>t, <4>2, QueuedElements DEF Verdict
      <4> QED
        BY <2>1, <4>1, <4>2, SndWrites
    <3> QED
      BY <3>1, <3>2, <3>3
  <2>2. CASE EvlNext
    <3>1. sDone' = sDone
      BY <2>2, EvlFinishes
    <3>2. \A i \in 1..Len(toEvl') : toEvl'[i].tag = "ATT_RESULT" => toEvl'[i].res = "BAD"
      <4>1. CASE UNCHANGED toEvl
        BY <4>1
      <4>2. CASE toEvl # <<>> /\ toEvl' = Tail(toEvl)
        BY <2>t, <4>2, TailElements
      <4> QED
        BY <2>2, <4>1, <4>2, EvlReads DEF Readable
    <3>3. \A i \in 1..Len(toSnd') : toSnd'[i].tag \notin {"YAO_INPUT", "RESULT"}
      <4>1. CASE UNCHANGED toSnd
        BY <4>1
      <4>2. ASSUME NEW msg \in Message, NEW w \in WriteOutcomes,
                   toSnd' = toSnd \o Queued(w, msg),
                   msg.tag \notin {"YAO_INPUT", "RESULT"},
                   NEW i \in 1..Len(toSnd')
            PROVE  toSnd'[i].tag \notin {"YAO_INPUT", "RESULT"}
        BY <2>t, <4>2, QueuedElements
      <4> QED
        BY <2>2, <4>1, <4>2, BadVerdictStops
    <3> QED
      BY <2>2, <3>1, <3>2, <3>3, BadVerdictStops
  <2>3. CASE Terminated
    BY <2>3 DEF Terminated, vars, netVars, sndVars, evlVars
  <2> QED
    BY <2>1, <2>2, <2>3 DEF Next
<1> QED
  BY <1>1, <1>2, TypeCorrect, PTL DEF Spec

----------------------------------------------------------------------------
(* The dialogue: where the two state machines are decides what is under    *)
(* way on the two streams.                                                 *)

Quiet(s) == s = <<>>
One(s, tag) == Len(s) = 1 /\ s[1].tag = tag
Two(s, first, second) == Len(s) = 2 /\ s[1].tag = first /\ s[2].tag = second

\* Before the challenge is written nothing has happened.
NotBegun ==
    /\ sState = "INIT" /\ ~sDone /\ sProc # "run" /\ sYao = "off"
    /\ Quiet(toEvl) /\ Quiet(toSnd)
    /\ eState = "INIT" /\ ~eDone

\* A message of the sender is under way, and the evaluator waits for it.
Asked ==
    /\ Quiet(toSnd) /\ ~sDone /\ ~eDone /\ sYao = "off"
    /\ \/ sState = "ATT_STARTED" /\ One(toEvl, "ATT_CHALLENGE") /\ eState = "INIT"
       \/ sState = "ATT_S2_SENT" /\ One(toEvl, "ATT_S2") /\ eState = "ATT_S1_SENT"
       \/ sState = "ATT_RES_SENT" /\ One(toEvl, "ATT_RESULT") /\ eState = "ATT_S3_SENT"
       \/ sState = "ATT_RES_SENT" /\ Quiet(toEvl) /\ eState \in {"INPUT_WAIT", "ERROR"}
       \/ sState = "INPUT_SENT" /\ Two(toEvl, "ATT_RESULT", "INPUT") /\ eState = "ATT_S3_SENT"
       \/ sState = "INPUT_SENT" /\ One(toEvl, "INPUT") /\ eState \in {"INPUT_WAIT", "ERROR"}

\* The evaluator has answered, or is in the Yao rounds.  RESULT is written
\* behind YAO_INPUT only after the sender has read that, for it has connected.
Answered ==
    /\ Quiet(toEvl) /\ ~sDone
    /\ sState \in {"ATT_STARTED", "ATT_S2_SENT"} => sYao = "off" /\ ~eDone
    /\ \/ sState = "ATT_STARTED" /\ One(toSnd, "ATT_S1") /\ eState = "ATT_S1_SENT"
       \/ sState = "ATT_S2_SENT" /\ One(toSnd, "ATT_S3") /\ eState = "ATT_S3_SENT"
       \/ /\ sState = "INPUT_SENT" /\ eState = "INPUT_RECVD" /\ eProc # "run"
          /\ Quiet(toSnd) \/ (One(toSnd, "YAO_INPUT") /\ sYao = "off")
       \/ sState = "INPUT_SENT" /\ One(toSnd, "RESULT") /\ eState = "INIT" /\ eDone

\* The evaluator has failed, and writes nothing more.
EvaluatorFailed ==
    /\ sState \in {"ATT_STARTED", "ATT_S2_SENT", "INPUT_SENT"} /\ ~sDone
    /\ Quiet(toEvl) /\ (Quiet(toSnd) \/ One(toSnd, "TORN"))
    /\ eState \in {"ERROR", "FINI"} \/ eProc = "exited"

\* The sender has failed: it writes nothing more, and the evaluator, which can
\* at most still read the attestation result, writes nothing to it.
SenderFailed ==
    /\ sState = "ERROR" /\ ~sDone
    /\ Quiet(toSnd)
    /\ \/ Quiet(toEvl)
       \/ One(toEvl, "TORN")
       \/ One(toEvl, "ATT_RESULT") /\ eState = "ATT_S3_SENT"
       \/ Two(toEvl, "ATT_RESULT", "TORN") /\ eState = "ATT_S3_SENT"
    /\ eProc = "yao" => sYao = "off"

\* The sender has its result.
Over ==
    /\ sState = "INIT" /\ sDone /\ sProc \in {"run", "exited"} /\ eProc # "yao"
    /\ Quiet(toEvl) /\ Quiet(toSnd)

\* The Yao rounds are a part of handle_input, and a generator has a partner
\* only when the sender has entered start_yao.
YaoInside ==
    /\ eProc = "yao" => eState = "INPUT_RECVD"
    /\ eYao \in {"linked", "over"} => sYao # "off"
    /\ eProc = "init" => eState = "INIT" /\ ~eDone

Dialogue ==
    \/ NotBegun \/ Asked \/ Answered
    \/ EvaluatorFailed \/ SenderFailed \/ Over

\* Reading from and writing to the short streams of a dialogue.
LEMMA ReadOne ==
    ASSUME NEW s \in Seq(Message), NEW tag, One(s, tag)
    PROVE  /\ s # <<>> /\ Head(s).tag = tag
           /\ Quiet(Tail(s))
           /\ Readable(s) <=> tag # "TORN"
<1>1. s # <<>> /\ Len(s) = 1 /\ s[1].tag = tag
  BY DEF One
<1>2. Head(s) = s[1] /\ Len(Tail(s)) = 0
  BY <1>1
<1>3. Tail(s) = <<>>
  <2>1. Tail(s) \in Seq(Message)
    BY <1>1
  <2>2. \A t \in Seq(Message) : Len(t) = 0 => t = <<>>
    OBVIOUS
  <2> QED
    BY <1>2, <2>1, <2>2
<1> QED
  BY <1>1, <1>2, <1>3 DEF Quiet, Readable

LEMMA ReadTwo ==
    ASSUME NEW s \in Seq(Message), NEW first, NEW second, Two(s, first, second)
    PROVE  /\ s # <<>> /\ Head(s).tag = first
           /\ One(Tail(s), second)
           /\ Readable(s) <=> first # "TORN"
<1>1. s # <<>> /\ Len(s) = 2 /\ s[1].tag = first /\ s[2].tag = second
  BY DEF Two
<1>2. Head(s) = s[1] /\ Len(Tail(s)) = 1 /\ Tail(s)[1] = s[2]
  BY <1>1
<1> QED
  BY <1>1, <1>2 DEF One, Readable

LEMMA WriteOne ==
    ASSUME NEW s, Quiet(s), NEW w \in WriteOutcomes, NEW msg \in Message
    PROVE  /\ w = "sent" => One(s \o Queued(w, msg), msg.tag)
           /\ w = "torn" => One(s \o Queued(w, msg), "TORN")
           /\ w \notin {"sent", "torn"} => Quiet(s \o Queued(w, msg))
<1>1. Msg("TORN").tag = "TORN"
  BY DEF Msg
<1>2. \A m : <<>> \o <<m>> = <<m>> /\ Len(<<m>>) = 1 /\ <<m>>[1] = m
  OBVIOUS
<1>3. <<>> \o <<>> = <<>>
  OBVIOUS
<1> QED
  BY <1>1, <1>2, <1>3 DEF One, Quiet, Queued

LEMMA WriteTwo ==
    ASSUME NEW s \in Seq(Message), NEW tag, One(s, tag),
           NEW w \in WriteOutcomes, NEW msg \in Message
    PROVE  /\ w = "sent" => Two(s \o Queued(w, msg), tag, msg.tag)
           /\ w = "torn" => Two(s \o Queued(w, msg), tag, "TORN")
           /\ w \notin {"sent", "torn"} => One(s \o Queued(w, msg), tag)
<1>1. Msg("TORN").tag = "TORN" /\ Msg("TORN") \in Message
  BY DEF Msg, Message, NoContent, Content, Words
<1>2. \A m \in Message : /\ Len(s \o <<m>>) = 2
                         /\ (s \o <<m>>)[1] = s[1]
                         /\ (s \o <<m>>)[2] = m
  <2> SUFFICES ASSUME NEW m \in Message
               PROVE  /\ Len(s \o <<m>>) = 2
                      /\ (s \o <<m>>)[1] = s[1]
                      /\ (s \o <<m>>)[2] = m
    OBVIOUS
  <2>1. Len(s) = 1 /\ <<m>> \in Seq(Message) /\ Len(<<m>>) = 1 /\ <<m>>[1] = m
    BY DEF One
  <2>2. \A t \in Seq(Message) :
           /\ Len(s \o t) = Len(s) + Len(t)
           /\ \A i \in 1..Len(s) + Len(t) :
                 (s \o t)[i] = IF i <= Len(s) THEN s[i] ELSE t[i - Len(s)]
    OBVIOUS
  <2> QED
    BY <2>1, <2>2
<1>3. s \o <<>> = s
  OBVIOUS
<1> QED
  BY <1>1, <1>2, <1>3 DEF One, Two, Queued

\* A stream that is quiet holds nothing, and one that holds one message does
\* not hold two, nor a message of another kind.
LEMMA OneOnly ==
    /\ \A s \in Seq(Message) : \A tag : Quiet(s) => ~One(s, tag) /\ ~Readable(s)
    /\ \A s \in Seq(Message) : \A t1, t2 : One(s, t1) /\ One(s, t2) => t1 = t2
    /\ \A s \in Seq(Message) : \A t1, t2, t3 : ~(One(s, t1) /\ Two(s, t2, t3))
    /\ \A s \in Seq(Message) : \A t1, t2 : ~(Quiet(s) /\ Two(s, t1, t2))
BY DEF Quiet, One, Two, Readable

\* How a write of the sender ends.
LEMMA SndWriteEnds ==
    ASSUME TypeOK, NEW w, NEW msg, NEW state, state # "RES_RECVD",
           SndWrite(w, msg, state)
    PROVE  /\ toEvl' = toEvl \o Queued(w, msg)
           /\ sDone' = sDone
           /\ sState' = IF w = "sent" THEN state ELSE "ERROR"
           /\ sProc' \in {"run", "exited"}
BY DEF SndWrite, Write, SndSettle, TypeOK, SndTypeOK

LEMMA SndFailEnds ==
    ASSUME TypeOK, NEW outcome, SndFail(outcome)
    PROVE  /\ UNCHANGED <<toEvl, sDone, sProc>>
           /\ sState' = "ERROR"
BY DEF SndFail, SndSettle, TypeOK, SndTypeOK

\* The rows of the sender's table that handle a message.
LEMMA SndRows ==
    ASSUME NEW state, NEW tag, NEW new_state
    PROVE  /\ Cell(send_stm_trans, state, tag, new_state, "start_att_nonce")
              => state = "INIT" /\ tag = "ATT_CHALLENGE" /\ new_state = "ATT_STARTED"
           /\ Cell(send_stm_trans, state, tag, new_state, "handle_att_S1")
              => state = "ATT_STARTED" /\ tag = "ATT_S1"
           /\ Cell(send_stm_trans, state, tag, new_state, "handle_att_S3")
              => state = "ATT_S2_SENT" /\ tag = "ATT_S3"
           /\ Cell(send_stm_trans, state, tag, new_state, "handle_result")
              => state = "INPUT_SENT" /\ tag = "RESULT"
           /\ Cell(send_stm_trans, state, tag, new_state, "start_yao")
              => state = "INPUT_SENT" /\ tag = "YAO_INPUT"
BY DEF Cell, send_stm_trans, Row

\* The rows of the evaluator's table that handle a message.
LEMMA EvlRows ==
    ASSUME NEW state \in EvalStates, NEW tag, NEW new_state
    PROVE  /\ Cell(eval_stm_trans, state, tag, new_state, "handle_att_nonce")
              => state = "INIT" /\ tag = "ATT_CHALLENGE"
           /\ Cell(eval_stm_trans, state, tag, new_state, "handle_att_S2")
              => state = "ATT_S1_SENT" /\ tag = "ATT_S2"
           /\ Cell(eval_stm_trans, state, tag, new_state, "handle_att_res")
              => state = "ATT_S3_SENT" /\ tag = "ATT_RESULT"
           /\ Cell(eval_stm_trans, state, tag, new_state, "handle_input")
              => state = "INPUT_WAIT" /\ tag = "INPUT" /\ new_state = "INPUT_RECVD"
           /\ Cell(eval_stm_trans, state, tag, new_state, "handle_stub") /\ tag # "STUB"
              => /\ <<state, tag>> \notin {<<"INIT", "ATT_CHALLENGE">>,
                                           <<"ATT_S1_SENT", "ATT_S2">>,
                                           <<"ATT_S3_SENT", "ATT_RESULT">>,
                                           <<"INPUT_WAIT", "INPUT">>}
                 /\ new_state = "FINI"
BY DEF Cell, eval_stm_trans, Row, EvalStates

\* A message the sender reads is an answer, the only thing under way.
LEMMA SndHears ==
    ASSUME TypeOK, Dialogue, ~sDone, sState # "ATT_RES_SENT", Readable(toSnd)
    PROVE  /\ Answered
           /\ Quiet(Tail(toSnd))
           /\ sState = "ATT_STARTED" => Head(toSnd).tag = "ATT_S1"
           /\ sState = "ATT_S2_SENT" => Head(toSnd).tag = "ATT_S3"
           /\ sState = "INPUT_SENT" => Head(toSnd).tag \in {"YAO_INPUT", "RESULT"}
           /\ sState \in {"ATT_STARTED", "ATT_S2_SENT", "INPUT_SENT"}
<1>t. toSnd \in Seq(Message)
  BY DEF TypeOK, NetTypeOK
<1>1. ~Quiet(toSnd) /\ ~One(toSnd, "TORN")
  BY <1>t, OneOnly, ReadOne
<1>2. Answered
  BY <1>1 DEF Dialogue, NotBegun, Asked, EvaluatorFailed, SenderFailed, Over
<1>3. PICK tag \in {"ATT_S1", "ATT_S3", "YAO_INPUT", "RESULT"} :
         /\ One(toSnd, tag)
         /\ sState = "ATT_STARTED" => tag = "ATT_S1"
         /\ sState = "ATT_S2_SENT" => tag = "ATT_S3"
         /\ sState = "INPUT_SENT" => tag \in {"YAO_INPUT", "RESULT"}
  BY <1>1, <1>2 DEF Answered
<1>4. Head(toSnd).tag = tag /\ Quiet(Tail(toSnd))
  BY <1>t, <1>3, ReadOne
<1> QED
  BY <1>2, <1>3, <1>4 DEF Answered

\* A sender that gives up after the evaluator has answered, or before it has
\* written anything, leaves at most a torn message.
LEMMA SndGivesUp ==
    ASSUME TypeOK, Quiet(toEvl), NEW w \in WriteOutcomes, NEW msg \in Message,
           toEvl' = toEvl \o Queued(w, msg), w # "sent",
           sState' = "ERROR", ~sDone', Quiet(toSnd'),
           eProc' = "yao" => sYao' = "off"
    PROVE  SenderFailed'
BY WriteOne DEF SenderFailed

\* Every step of the sender keeps to the dialogue.
LEMMA SndKeepsDialogue ==
    ASSUME TypeOK, Dialogue, YaoInside, SndNext
    PROVE  Dialogue' /\ YaoInside'
<1>t. toSnd \in Seq(Message) /\ toEvl \in Seq(Message)
  BY DEF TypeOK, NetTypeOK
<1>e. UNCHANGED <<eState, eDone, eProc, eYao>>
  BY DEF SndNext, evlVars, SndStep, SndKilled, SndStart, start_att_nonce,
         handle_att_S1, handle_att_S3, send_input, handle_result, start_yao,
         SndConnect, SndYaoOver, SndYaoExit, SndLeave, SndCrash
<1>y. sYao' = "off" => sYao = "off"
  BY DEF SndNext, SndStep, SndKilled, SndStart, start_att_nonce,
         handle_att_S1, handle_att_S3, send_input, handle_result, start_yao,
         SndConnect, SndYaoOver, SndYaoExit, SndLeave, SndCrash
<1>i. YaoInside'
  BY <1>e, <1>y DEF YaoInside
<1>m. /\ Msg("ATT_CHALLENGE") \in Message /\ Msg("ATT_CHALLENGE").tag = "ATT_CHALLENGE"
      /\ Msg("ATT_S2") \in Message /\ Msg("ATT_S2").tag = "ATT_S2"
      /\ AttResult(Verdict) \in Message /\ AttResult(Verdict).tag = "ATT_RESULT"
  BY MessageType DEF Tags, Msg, AttResult, Verdict
<1>1. CASE \/ SndStart \/ SndConnect \/ SndYaoOver \/ SndLeave \/ SndKilled
  <2>1. /\ UNCHANGED <<sState, sDone, toSnd, toEvl>>
        /\ sYao # sYao' => sYao # "off"
    BY <1>1
    DEF SndStart, SndConnect, SndYaoOver, SndLeave, SndKilled, SndYaoExit, SndCrash,
        sndVars
  <2>2. NotBegun => sProc' # "run"
    BY <1>1
    DEF SndStart, SndConnect, SndYaoOver, SndLeave, SndKilled, SndYaoExit, SndCrash,
        NotBegun
  <2>3. Over => sProc' \in {"run", "exited"}
    BY <1>1
    DEF SndStart, SndConnect, SndYaoOver, SndLeave, SndKilled, SndYaoExit, SndCrash,
        Over
  <2>4. NotBegun => NotBegun'
    BY <1>e, <2>1, <2>2 DEF NotBegun
  <2>5. Asked => Asked'
    BY <1>e, <2>1 DEF Asked
  <2>6. Answered => Answered'
    BY <1>e, <2>1 DEF Answered
  <2>7. EvaluatorFailed => EvaluatorFailed'
    BY <1>e, <2>1 DEF EvaluatorFailed
  <2>8. SenderFailed => SenderFailed'
    BY <1>e, <2>1 DEF SenderFailed
  <2>9. Over => Over'
    BY <1>e, <2>1, <2>3 DEF Over
  <2> QED
    BY <1>i, <2>4, <2>5, <2>6, <2>7, <2>8, <2>9 DEF Dialogue
<1>2. CASE start_att_nonce
  <2>1. sState = "INIT" /\ sProc = "ready" /\ UNCHANGED <<toSnd, sYao>>
    BY <1>2, SndRows DEF start_att_nonce
  <2>2. NotBegun
    BY <2>1 DEF Dialogue, NotBegun, Asked, Answered, EvaluatorFailed, SenderFailed, Over
  <2>3. CASE UNCHANGED <<toEvl, sDone>> /\ sState' = "ERROR"
    BY <1>e, <1>i, <2>1, <2>2, <2>3 DEF NotBegun, SenderFailed, YaoInside, Dialogue
  <2>4. ASSUME NEW w \in WriteOutcomes, SndWrite(w, Msg("ATT_CHALLENGE"), "ATT_STARTED")
        PROVE  Asked' \/ SenderFailed'
    <3>1. /\ toEvl' = toEvl \o Queued(w, Msg("ATT_CHALLENGE")) /\ ~sDone'
          /\ sState' = IF w = "sent" THEN "ATT_STARTED" ELSE "ERROR"
      BY <2>2, <2>4, SndWriteEnds DEF NotBegun
    <3>2. CASE w = "sent"
      BY <1>e, <1>m, <2>1, <2>2, <3>1, <3>2, WriteOne DEF NotBegun, Asked
    <3>3. CASE w # "sent"
      BY <1>e, <1>m, <2>1, <2>2, <3>1, <3>3, SndGivesUp DEF NotBegun
    <3> QED
      BY <3>2, <3>3
  <2>5. \/ UNCHANGED <<toEvl, sDone>> /\ sState' = "ERROR"
        \/ \E w \in WriteOutcomes : SndWrite(w, Msg("ATT_CHALLENGE"), "ATT_STARTED")
    BY <1>2, SndRows DEF start_att_nonce, SndSettle, TypeOK, SndTypeOK
  <2> QED
    BY <1>i, <2>3, <2>4, <2>5 DEF Dialogue
<1>3. CASE handle_att_S1
  <2>1. /\ sState = "ATT_STARTED" /\ ~sDone /\ Readable(toSnd)
        /\ toSnd' = Tail(toSnd) /\ UNCHANGED sYao
    BY <1>3, SndRows DEF handle_att_S1, SndRecv
  <2>2. Answered /\ Quiet(toSnd')
    BY <2>1, SndHears
  <2>3. Quiet(toEvl) /\ sYao = "off" /\ ~eDone /\ eState = "ATT_S1_SENT"
    BY <2>1, <2>2 DEF Answered
  <2>4. CASE SndFail("ret")
    BY <1>e, <1>i, <2>1, <2>2, <2>3, <2>4, SndFailEnds DEF SenderFailed, Dialogue
  <2>5. ASSUME NEW w \in WriteOutcomes, SndWrite(w, Msg("ATT_S2"), "ATT_S2_SENT")
        PROVE  Asked' \/ SenderFailed'
    <3>1. /\ toEvl' = toEvl \o Queued(w, Msg("ATT_S2")) /\ ~sDone'
          /\ sState' = IF w = "sent" THEN "ATT_S2_SENT" ELSE "ERROR"
      BY <2>1, <2>5, SndWriteEnds
    <3>2. CASE w = "sent"
      BY <1>e, <1>m, <2>1, <2>2, <2>3, <3>1, <3>2, WriteOne DEF Asked
    <3>3. CASE w # "sent"
      BY <1>e, <1>m, <2>1, <2>2, <2>3, <3>1, <3>3, SndGivesUp
    <3> QED
      BY <3>2, <3>3
  <2> QED
    BY <1>3, <1>i, <2>4, <2>5 DEF handle_att_S1, Dialogue
<1>4. CASE handle_att_S3
  <2>1. /\ sState = "ATT_S2_SENT" /\ ~sDone /\ Readable(toSnd)
        /\ toSnd' = Tail(toSnd) /\ UNCHANGED sYao
    BY <1>4, SndRows DEF handle_att_S3, SndRecv
  <2>2. Answered /\ Quiet(toSnd')
    BY <2>1, SndHears
  <2>3. Quiet(toEvl) /\ sYao = "off" /\ ~eDone /\ eState = "ATT_S3_SENT"
    BY <2>1, <2>2 DEF Answered
  <2>4. CASE SndFail("ret")
    BY <1>e, <1>i, <2>1, <2>2, <2>3, <2>4, SndFailEnds DEF SenderFailed, Dialogue
  <2>5. ASSUME NEW w \in WriteOutcomes, SndWrite(w, AttResult(Verdict), "ATT_RES_SENT")
        PROVE  Asked' \/ SenderFailed'
    <3>1. /\ toEvl' = toEvl \o Queued(w, AttResult(Verdict)) /\ ~sDone'
          /\ sState' = IF w = "sent" THEN "ATT_RES_SENT" ELSE "ERROR"
      BY <2>1, <2>5, SndWriteEnds
    <3>2. CASE w = "sent"
      BY <1>e, <1>m, <2>1, <2>2, <2>3, <3>1, <3>2, WriteOne DEF Asked
    <3>3. CASE w # "sent"
      BY <1>e, <1>m, <2>1, <2>2, <2>3, <3>1, <3>3, SndGivesUp
    <3> QED
      BY <3>2, <3>3
  <2> QED
    BY <1>4, <1>i, <2>4, <2>5 DEF handle_att_S3, Dialogue
<1>5. CASE send_input
  <2> DEFINE msg == Carrying("INPUT", [prog |-> SndProg,
                                       snd |-> SndInput(sUser, SndProg),
                                       evl |-> "none"])
  <2>m. msg \in Message
    <3>1. SndProg \in Progs
      BY ConfType DEF TypeOK, NetTypeOK
    <3> QED
      BY <3>1, MessageType DEF SndInput, Content, Words, Tags
  <2>g. msg.tag = "INPUT"
    BY DEF Carrying
  <2>1. sState = "ATT_RES_SENT" /\ UNCHANGED <<toSnd, sYao>>
    BY <1>5 DEF send_input
  <2>2. Asked
    BY <2>1 DEF Dialogue, NotBegun, Answered, EvaluatorFailed, SenderFailed, Over
  <2>3. /\ Quiet(toSnd) /\ ~sDone /\ ~eDone /\ sYao = "off"
        /\ \/ One(toEvl, "ATT_RESULT") /\ eState = "ATT_S3_SENT"
           \/ Quiet(toEvl) /\ eState \in {"INPUT_WAIT", "ERROR"}
    BY <2>1, <2>2 DEF Asked
  <2>4. ASSUME NEW call, SndFail(call)
        PROVE  SenderFailed'
    BY <1>e, <2>1, <2>3, <2>4, SndFailEnds DEF SenderFailed
  <2>5. ASSUME NEW w \in WriteOutcomes, SndWrite(w, msg, "INPUT_SENT")
        PROVE  Asked' \/ SenderFailed'
    <3> HIDE DEF msg
    <3>1. /\ toEvl' = toEvl \o Queued(w, msg) /\ ~sDone'
          /\ sState' = IF w = "sent" THEN "INPUT_SENT" ELSE "ERROR"
      BY <2>3, <2>5, SndWriteEnds
    <3>2. CASE Quiet(toEvl) /\ w = "sent"
      BY <1>e, <2>m, <2>g, <2>1, <2>3, <3>1, <3>2, <1>t, OneOnly, WriteOne DEF Asked
    <3>3. CASE Quiet(toEvl) /\ w # "sent"
      BY <1>e, <2>m, <2>1, <2>3, <3>1, <3>3, SndGivesUp
    <3>4. CASE One(toEvl, "ATT_RESULT") /\ eState = "ATT_S3_SENT" /\ w = "sent"
      BY <1>e, <1>t, <2>m, <2>g, <2>1, <2>3, <3>1, <3>4, WriteTwo DEF Asked
    <3>5. CASE One(toEvl, "ATT_RESULT") /\ eState = "ATT_S3_SENT" /\ w # "sent"
      <4>1. w = "torn" \/ w \notin {"sent", "torn"}
        BY <3>5
      <4>2. Two(toEvl', "ATT_RESULT", "TORN") \/ One(toEvl', "ATT_RESULT")
        BY <1>t, <2>m, <3>1, <3>5, <4>1, WriteTwo
      <4> QED
        BY <1>e, <2>1, <2>3, <3>1, <3>5, <4>2 DEF SenderFailed
    <3> QED
      BY <2>3, <3>2, <3>3, <3>4, <3>5
  <2> QED
    BY <1>5, <1>i, <2>4, <2>5 DEF send_input, Dialogue
<1>6. CASE handle_result
  <2>1. /\ sState = "INPUT_SENT" /\ ~sDone /\ Readable(toSnd) /\ sProc = "run"
        /\ Head(toSnd).tag = "RESULT"
        /\ toSnd' = Tail(toSnd) /\ UNCHANGED <<sYao, sProc, toEvl>>
    BY <1>6, SndRows DEF handle_result, SndRecv
  <2>2. Answered /\ Quiet(toSnd')
    BY <2>1, SndHears
  <2>3. Quiet(toEvl) /\ eState = "INIT"
    <3>1. ~Quiet(toSnd) /\ ~One(toSnd, "YAO_INPUT")
      BY <1>t, <2>1, OneOnly, ReadOne
    <3> QED
      BY <2>1, <2>2, <3>1 DEF Answered
  <2>4. \/ sState' = "ERROR" /\ sDone' = sDone
        \/ sState' = "INIT" /\ sDone'
    BY <1>6 DEF handle_result, SndSettle, TypeOK, SndTypeOK
  <2>5. SenderFailed' \/ Over'
    BY <1>e, <2>1, <2>2, <2>3, <2>4 DEF SenderFailed, Over, YaoInside
  <2> QED
    BY <1>i, <2>5 DEF Dialogue
<1>7. CASE start_yao
  <2>1. /\ sState = "INPUT_SENT" /\ ~sDone /\ Readable(toSnd)
        /\ Head(toSnd).tag = "YAO_INPUT"
        /\ toSnd' = Tail(toSnd)
    BY <1>7, SndRows DEF start_yao, SndRecv
  <2>2. Answered /\ Quiet(toSnd')
    BY <2>1, SndHears
  <2>3. Quiet(toEvl) /\ eState = "INPUT_RECVD" /\ eProc # "run" /\ sYao = "off"
    <3>1. ~Quiet(toSnd) /\ ~One(toSnd, "RESULT")
      BY <1>t, <2>1, OneOnly, ReadOne
    <3> QED
      BY <2>1, <2>2, <3>1 DEF Answered
  <2>4. \/ UNCHANGED <<sState, sDone, toEvl>>
        \/ sState' = "ERROR" /\ UNCHANGED <<sDone, toEvl, sYao>>
    BY <1>7, SndFailEnds DEF start_yao
  <2>5. Answered' \/ SenderFailed'
    BY <1>e, <2>1, <2>2, <2>3, <2>4 DEF Answered, SenderFailed
  <2> QED
    BY <1>i, <2>5 DEF Dialogue
<1> QED
  BY <1>1, <1>2, <1>3, <1>4, <1>5, <1>6, <1>7 DEF SndNext, SndStep

\* A message the evaluator reads is one it waits for, or the input that reaches
\* it in ERROR, or the verdict of a sender that has failed since.
LEMMA EvlHears ==
    ASSUME TypeOK, Dialogue, Readable(toEvl)
    PROVE  \/ /\ Asked
              /\ \/ /\ Quiet(Tail(toEvl))
                    /\ \/ sState = "ATT_STARTED" /\ Head(toEvl).tag = "ATT_CHALLENGE"
                       \/ sState = "ATT_S2_SENT" /\ Head(toEvl).tag = "ATT_S2"
                       \/ sState = "ATT_RES_SENT" /\ Head(toEvl).tag = "ATT_RESULT"
                       \/ sState = "INPUT_SENT" /\ Head(toEvl).tag = "INPUT"
                 \/ /\ One(Tail(toEvl), "INPUT")
                    /\ sState = "INPUT_SENT" /\ Head(toEvl).tag = "ATT_RESULT"
           \/ /\ SenderFailed /\ Head(toEvl).tag = "ATT_RESULT" /\ eState = "ATT_S3_SENT"
              /\ Quiet(Tail(toEvl)) \/ One(Tail(toEvl), "TORN")
<1>t. toEvl \in Seq(Message)
  BY DEF TypeOK, NetTypeOK
<1>1. ~Quiet(toEvl) /\ ~One(toEvl, "TORN")
  BY <1>t, OneOnly, ReadOne
<1>2. CASE SenderFailed
  <2>1. CASE One(toEvl, "ATT_RESULT") /\ eState = "ATT_S3_SENT"
    BY <1>t, <1>2, <2>1, ReadOne
  <2>2. CASE Two(toEvl, "ATT_RESULT", "TORN") /\ eState = "ATT_S3_SENT"
    BY <1>t, <1>2, <2>2, ReadTwo
  <2> QED
    BY <1>1, <1>2, <2>1, <2>2 DEF SenderFailed
<1>3. CASE Asked
  <2>1. CASE Two(toEvl, "ATT_RESULT", "INPUT") /\ sState = "INPUT_SENT"
    BY <1>t, <1>3, <2>1, ReadTwo
  <2>2. CASE \/ sState = "ATT_STARTED" /\ One(toEvl, "ATT_CHALLENGE")
             \/ sState = "ATT_S2_SENT" /\ One(toEvl, "ATT_S2")
             \/ sState = "ATT_RES_SENT" /\ One(toEvl, "ATT_RESULT")
             \/ sState = "INPUT_SENT" /\ One(toEvl, "INPUT")
    BY <1>t, <1>3, <2>2, ReadOne
  <2> QED
    BY <1>1, <1>3, <2>1, <2>2 DEF Asked
<1> QED
  BY <1>1, <1>2, <1>3 DEF Dialogue, NotBegun, Answered, EvaluatorFailed, Over

\* How a write of the evaluator ends.
LEMMA EvlWriteEnds ==
    ASSUME TypeOK, NEW call, NEW w, NEW msg, NEW state,
           EvlCallWrite(call, w, msg, state)
    PROVE  /\ toSnd' = toSnd \o Queued(w, msg)
           /\ state # "RES_SENT" => eDone' = eDone
           /\ w = "sent" /\ state = "RES_SENT" => eDone' /\ eState' = "INIT"
           /\ w = "sent" /\ state # "RES_SENT" => eState' = state
           /\ w # "sent" => eState' = "ERROR" /\ eDone' = eDone
           /\ eProc' \in {"run", "exited"}
BY DEF EvlCallWrite, Write, EvlSettle, TypeOK, EvlTypeOK

LEMMA EvlFailEnds ==
    ASSUME TypeOK, NEW outcome, EvlFail(outcome)
    PROVE  /\ UNCHANGED <<toSnd, eDone, eProc>>
           /\ eState' = "ERROR"
BY DEF EvlFail, EvlSettle, TypeOK, EvlTypeOK

\* An evaluator that gives up when nothing is under way leaves at most a torn
\* message.
LEMMA EvlGivesUp ==
    ASSUME TypeOK, Quiet(toSnd), NEW w \in WriteOutcomes, NEW msg \in Message,
           toSnd' = toSnd \o Queued(w, msg), w # "sent", eState' = "ERROR",
           Quiet(toEvl'), ~sDone', sState' = sState,
           sState \in {"ATT_STARTED", "ATT_S2_SENT", "INPUT_SENT"}
    PROVE  EvaluatorFailed'
BY WriteOne DEF EvaluatorFailed

\* The only message the evaluator has no row for is the input that reaches it
\* in ERROR.
LEMMA EvlFalls ==
    ASSUME TypeOK, Dialogue, EvlUnexpected
    PROVE  /\ Asked /\ Quiet(toEvl') /\ sState = "INPUT_SENT" /\ eState = "ERROR"
           /\ eState' = "FINI" /\ eDone' = eDone
           /\ UNCHANGED <<toSnd, eProc, eYao>>
<1>t. toEvl \in Seq(Message) /\ eState \in EvalStates
  BY DEF TypeOK, NetTypeOK, EvlTypeOK
<1>1. /\ Readable(toEvl) /\ toEvl' = Tail(toEvl) /\ UNCHANGED <<toSnd, eProc, eYao>>
      /\ eProc = "run"
      /\ \E new_state : /\ Cell(eval_stm_trans, eState, Head(toEvl).tag, new_state,
                                "handle_stub")
                        /\ EvlSettle(new_state, "SUCCESS")
  BY DEF EvlUnexpected, EvlRecv
<1>2. /\ Asked /\ Quiet(toEvl') /\ sState = "INPUT_SENT" /\ eState = "ERROR"
      /\ Head(toEvl).tag = "INPUT"
  <2>1. Head(toEvl).tag \in {"ATT_CHALLENGE", "ATT_S2", "ATT_RESULT", "INPUT"}
    BY <1>1, EvlHears
  <2>2. <<eState, Head(toEvl).tag>> \notin {<<"INIT", "ATT_CHALLENGE">>,
                                            <<"ATT_S1_SENT", "ATT_S2">>,
                                            <<"ATT_S3_SENT", "ATT_RESULT">>,
                                            <<"INPUT_WAIT", "INPUT">>}
    BY <1>t, <1>1, <2>1, EvlRows
  <2>3. ~(eState = "ATT_S3_SENT" /\ Head(toEvl).tag = "ATT_RESULT")
    BY <2>2
  <2>4. Asked
    BY <1>1, <2>3, EvlHears
  <2>5. \/ sState = "ATT_STARTED" /\ Head(toEvl).tag = "ATT_CHALLENGE"
        \/ sState = "ATT_S2_SENT" /\ Head(toEvl).tag = "ATT_S2"
        \/ sState = "ATT_RES_SENT" /\ Head(toEvl).tag = "ATT_RESULT"
        \/ sState = "INPUT_SENT" /\ Head(toEvl).tag \in {"INPUT", "ATT_RESULT"}
    BY <1>1, <2>3, EvlHears
  <2>6. \/ sState = "ATT_STARTED" /\ eState = "INIT"
        \/ sState = "ATT_S2_SENT" /\ eState = "ATT_S1_SENT"
        \/ sState = "ATT_RES_SENT" /\ eState = "ATT_S3_SENT"
        \/ /\ sState = "INPUT_SENT" /\ eState \in {"INPUT_WAIT", "ERROR"}
           /\ Head(toEvl).tag = "INPUT"
        \/ sState = "INPUT_SENT" /\ eState = "ATT_S3_SENT" /\ Head(toEvl).tag = "ATT_RESULT"
    <3>1. \A t : One(toEvl, t) => Head(toEvl).tag = t
      BY <1>t, ReadOne
    <3>2. \A t, u : Two(toEvl, t, u) => Head(toEvl).tag = t
      BY <1>t, ReadTwo
    <3>3. ~Quiet(toEvl)
      BY <1>t, <1>1, OneOnly
    <3> QED
      BY <2>4, <3>1, <3>2, <3>3 DEF Asked
  <2>7. sState = "INPUT_SENT" /\ eState = "ERROR" /\ Head(toEvl).tag = "INPUT"
    BY <2>2, <2>5, <2>6
  <2>8. Quiet(toEvl')
    BY <1>1, <2>3, <2>7, EvlHears
  <2> QED
    BY <2>4, <2>7, <2>8
<1>3. eState' = "FINI" /\ eDone' = eDone
  BY <1>t, <1>1, <1>2, EvlRows DEF EvlSettle, TypeOK, EvlTypeOK
<1> QED
  BY <1>1, <1>2, <1>3

\* Every step of the evaluator keeps to the dialogue.
LEMMA EvlKeepsDialogue ==
    ASSUME TypeOK, Dialogue, YaoInside, EvlNext
    PROVE  Dialogue' /\ YaoInside'
<1>t. toSnd \in Seq(Message) /\ toEvl \in Seq(Message) /\ eState \in EvalStates
  BY DEF TypeOK, NetTypeOK, EvlTypeOK
<1>e. UNCHANGED <<sState, sDone, sProc, sYao>>
  BY DEF EvlNext, sndVars, EvlStep, EvlKilled, EvlStart, handle_att_nonce,
         handle_att_S2, handle_att_res, HandleInputSfe, HandleInputYao, EvlListen,
         EvlAccept, EvlYaoOver, EvlUnexpected, EvlLeave, EvlYaoExit, EvlCrash
<1>m. /\ Msg("ATT_S1") \in Message /\ Msg("ATT_S1").tag = "ATT_S1"
      /\ Msg("ATT_S3") \in Message /\ Msg("ATT_S3").tag = "ATT_S3"
  BY MessageType DEF Tags, Msg
<1>c. \A c \in Content :
         /\ Carrying("RESULT", c) \in Message /\ Carrying("RESULT", c).tag = "RESULT"
         /\ Carrying("YAO_INPUT", c) \in Message
         /\ Carrying("YAO_INPUT", c).tag = "YAO_INPUT"
  BY MessageType DEF Tags, Carrying
<1>1. CASE \/ EvlStart \/ EvlListen \/ EvlAccept \/ EvlLeave \/ EvlKilled
  <2>1. UNCHANGED <<eState, eDone, toSnd, toEvl>>
    BY <1>1
    DEF EvlStart, EvlListen, EvlAccept, EvlLeave, EvlKilled, EvlYaoExit, EvlCrash,
        evlVars
  <2>2. /\ eProc' # eProc => eProc' = "exited" \/ (eProc = "init" /\ eProc' = "run")
        /\ eYao' \in {"linked", "over"} => eYao \in {"linked", "over"} \/ sYao # "off"
    BY <1>1
    DEF EvlStart, EvlListen, EvlAccept, EvlLeave, EvlKilled, EvlYaoExit, EvlCrash
  <2>y. eProc' = "yao" => eProc = "yao"
    BY <2>2
  <2>i. YaoInside'
    BY <1>e, <2>1, <2>2 DEF YaoInside
  <2>3. NotBegun => NotBegun'
    BY <1>e, <2>1 DEF NotBegun
  <2>4. Asked => Asked'
    BY <1>e, <2>1 DEF Asked
  <2>5. Answered => Answered'
    BY <1>e, <2>1, <2>2 DEF Answered, YaoInside
  <2>6. EvaluatorFailed => EvaluatorFailed'
    BY <1>e, <2>1, <2>2 DEF EvaluatorFailed
  <2>7. SenderFailed => SenderFailed'
    BY <1>e, <2>1, <2>2 DEF SenderFailed
  <2>8. Over => Over'
    BY <1>e, <2>1, <2>2, <2>y DEF Over
  <2> QED
    BY <2>i, <2>3, <2>4, <2>5, <2>6, <2>7, <2>8 DEF Dialogue
<1>2. CASE handle_att_nonce
  <2>1. /\ eState = "INIT" /\ Head(toEvl).tag = "ATT_CHALLENGE" /\ Readable(toEvl)
        /\ toEvl' = Tail(toEvl) /\ eProc = "run" /\ UNCHANGED eYao
    BY <1>2, <1>t, EvlRows DEF handle_att_nonce, EvlRecv
  <2>2. Asked /\ Quiet(toEvl') /\ sState = "ATT_STARTED"
    BY <2>1, EvlHears
  <2>3. Quiet(toSnd) /\ ~sDone /\ ~eDone /\ sYao = "off"
    BY <2>2 DEF Asked
  <2>4. CASE EvlFail("ret")
    BY <1>e, <2>1, <2>2, <2>3, <2>4, EvlFailEnds DEF EvaluatorFailed, YaoInside, Dialogue
  <2>5. ASSUME NEW w \in WriteOutcomes, EvlWrite(w, Msg("ATT_S1"), "ATT_S1_SENT")
        PROVE  Dialogue' /\ YaoInside'
    <3>1. /\ toSnd' = toSnd \o Queued(w, Msg("ATT_S1")) /\ eDone' = eDone
          /\ eState' = IF w = "sent" THEN "ATT_S1_SENT" ELSE "ERROR"
          /\ eProc' \in {"run", "exited"}
      BY <2>5, EvlWriteEnds DEF EvlWrite
    <3>2. w = "sent" => Answered'
      BY <1>e, <1>m, <2>2, <2>3, <3>1, WriteOne DEF Answered
    <3>3. w # "sent" => EvaluatorFailed'
      BY <1>e, <1>m, <2>2, <2>3, <3>1, EvlGivesUp
    <3> QED
      BY <1>e, <2>1, <3>1, <3>2, <3>3 DEF YaoInside, Dialogue
  <2> QED
    BY <1>2, <2>4, <2>5 DEF handle_att_nonce
<1>3. CASE handle_att_S2
  <2>1. /\ eState = "ATT_S1_SENT" /\ Head(toEvl).tag = "ATT_S2" /\ Readable(toEvl)
        /\ toEvl' = Tail(toEvl) /\ eProc = "run" /\ UNCHANGED eYao
    BY <1>3, <1>t, EvlRows DEF handle_att_S2, EvlRecv
  <2>2. Asked /\ Quiet(toEvl') /\ sState = "ATT_S2_SENT"
    BY <2>1, EvlHears
  <2>3. Quiet(toSnd) /\ ~sDone /\ ~eDone /\ sYao = "off"
    BY <2>2 DEF Asked
  <2>4. CASE EvlFail("ret")
    BY <1>e, <2>1, <2>2, <2>3, <2>4, EvlFailEnds DEF EvaluatorFailed, YaoInside, Dialogue
  <2>5. ASSUME NEW w \in WriteOutcomes, EvlWrite(w, Msg("ATT_S3"), "ATT_S3_SENT")
        PROVE  Dialogue' /\ YaoInside'
    <3>1. /\ toSnd' = toSnd \o Queued(w, Msg("ATT_S3")) /\ eDone' = eDone
          /\ eState' = IF w = "sent" THEN "ATT_S3_SENT" ELSE "ERROR"
          /\ eProc' \in {"run", "exited"}
      BY <2>5, EvlWriteEnds DEF EvlWrite
    <3>2. w = "sent" => Answered'
      BY <1>e, <1>m, <2>2, <2>3, <3>1, WriteOne DEF Answered
    <3>3. w # "sent" => EvaluatorFailed'
      BY <1>e, <1>m, <2>2, <2>3, <3>1, EvlGivesUp
    <3> QED
      BY <1>e, <2>1, <3>1, <3>2, <3>3 DEF YaoInside, Dialogue
  <2> QED
    BY <1>3, <2>4, <2>5 DEF handle_att_S2
<1>4. CASE handle_att_res
  <2>1. /\ eState = "ATT_S3_SENT" /\ Head(toEvl).tag = "ATT_RESULT" /\ Readable(toEvl)
        /\ toEvl' = Tail(toEvl) /\ eProc = "run" /\ UNCHANGED <<eYao, toSnd, eProc>>
    BY <1>4, <1>t, EvlRows, EvlFailEnds DEF handle_att_res, EvlRecv
  <2>2. eState' \in {"INPUT_WAIT", "ERROR"} /\ eDone' = eDone
    BY <1>4, EvlFailEnds DEF handle_att_res, EvlSettle, TypeOK, EvlTypeOK
  <2>3. CASE Asked
    <3>1. \/ Quiet(toEvl') /\ sState = "ATT_RES_SENT"
          \/ One(toEvl', "INPUT") /\ sState = "INPUT_SENT"
      BY <2>1, <2>3, EvlHears DEF Asked, SenderFailed
    <3>2. Asked'
      BY <1>e, <2>1, <2>2, <2>3, <3>1 DEF Asked
    <3> QED
      BY <1>e, <2>1, <2>2, <3>2 DEF YaoInside, Dialogue
  <2>4. CASE SenderFailed
    <3>1. Quiet(toEvl') \/ One(toEvl', "TORN")
      BY <2>1, <2>4, EvlHears DEF Asked, SenderFailed
    <3>2. SenderFailed'
      BY <1>e, <2>1, <2>4, <3>1 DEF SenderFailed
    <3> QED
      BY <1>e, <2>1, <2>2, <3>2 DEF YaoInside, Dialogue
  <2> QED
    BY <2>1, <2>3, <2>4, EvlHears
<1>5. CASE HandleInputSfe \/ HandleInputYao
  <2>1. /\ eState = "INPUT_WAIT" /\ Head(toEvl).tag = "INPUT" /\ Readable(toEvl)
        /\ toEvl' = Tail(toEvl) /\ eProc = "run"
    <3>1. \E new_state : EvlRecv("handle_input", new_state)
      BY <1>5 DEF HandleInputSfe, HandleInputYao
    <3> QED
      BY <1>t, <3>1, EvlRows DEF EvlRecv
  <2>2. Asked /\ Quiet(toEvl') /\ sState = "INPUT_SENT"
    BY <2>1, EvlHears
  <2>3. Quiet(toSnd) /\ ~sDone /\ ~eDone /\ sYao = "off"
    BY <2>2 DEF Asked
  <2>c. Head(toEvl).content \in Content
    <3>1. toEvl # <<>>
      BY <2>1 DEF Readable
    <3>2. Head(toEvl) \in Message
      BY <1>t, <3>1
    <3> QED
      BY <3>2 DEF Message
  <2>4. ASSUME NEW call, EvlFail(call), UNCHANGED eYao
        PROVE  Dialogue' /\ YaoInside'
    BY <1>e, <2>1, <2>2, <2>3, <2>4, EvlFailEnds DEF EvaluatorFailed, YaoInside, Dialogue
  <2>5. CASE HandleInputSfe
    <3>1. ASSUME NEW call, NEW w \in WriteOutcomes, NEW out \in Content,
                 EvlCallWrite(call, w, Carrying("RESULT", out), "RES_SENT"),
                 UNCHANGED eYao
          PROVE  Dialogue' /\ YaoInside'
      <4>m. Carrying("RESULT", out) \in Message /\ Carrying("RESULT", out).tag = "RESULT"
        BY <1>c
      <4>1. /\ toSnd' = toSnd \o Queued(w, Carrying("RESULT", out))
            /\ w = "sent" => eDone' /\ eState' = "INIT"
            /\ w # "sent" => eState' = "ERROR" /\ eDone' = eDone
            /\ eProc' \in {"run", "exited"}
        BY <3>1, EvlWriteEnds
      <4>2. w = "sent" => Answered'
        BY <1>e, <4>m, <2>2, <2>3, <4>1, WriteOne DEF Answered
      <4>3. w # "sent" => EvaluatorFailed'
        BY <1>e, <4>m, <2>2, <2>3, <4>1, EvlGivesUp
      <4> QED
        BY <1>e, <2>1, <3>1, <4>1, <4>2, <4>3 DEF YaoInside, Dialogue
    <3> DEFINE input == Head(toEvl).content
               prog == SfeAsked(input.prog)
               computed == [prog |-> prog, snd |-> input.snd,
                            evl |-> EvlInput(eUser, prog)]
    <3>2. computed \in Content /\ Stale(prog) \in Content
      <4>1. prog \in Progs
        BY DEF SfeAsked, Progs, SfeProgs, SfeProg
      <4> QED
        BY <2>c, <4>1, EvlInputType, MessageType DEF Content
    <3>3. UNCHANGED eYao
      BY <2>5 DEF HandleInputSfe
    <3>4. \/ EvlFail("ret")
          \/ \E call : \E w \in WriteOutcomes, out \in {computed, Stale(prog)} :
                EvlCallWrite(call, w, Carrying("RESULT", out), "RES_SENT")
      BY <2>5 DEF HandleInputSfe
    <3> HIDE DEF computed, prog
    <3> QED
      BY <2>4, <3>1, <3>2, <3>3, <3>4
  <2>6. CASE HandleInputYao
    <3> DEFINE input == Head(toEvl).content
               case == YaoProg[conf.e_idx + 1]
               keys == IF eSecret THEN [prog |-> case, snd |-> input.snd,
                                        evl |-> EvlInput(eUser, case)]
                       ELSE Stale(case)
               msg == Carrying("YAO_INPUT", keys)
    <3>1. msg \in Message /\ msg.tag = "YAO_INPUT"
      <4>1. case \in Progs
        BY ConfType DEF Progs, TypeOK, NetTypeOK
      <4>2. keys \in Content
        BY <2>c, <4>1, EvlInputType, MessageType DEF Content
      <4> QED
        BY <4>2, <1>c
    <3> HIDE DEF keys
    <3>2. \/ \E call : EvlFail(call) /\ UNCHANGED eYao
          \/ eProc' = "exited" /\ UNCHANGED <<toSnd, eYao, eState, eDone>>
          \/ \E w \in WriteOutcomes :
                /\ toSnd' = toSnd \o Queued(w, msg)
                /\ EvlSettle("INPUT_RECVD", IF w = "sent" THEN "SUCCESS" ELSE "FAILURE")
                /\ eProc' = CASE w = "sent" -> "yao"
                              [] w = "killed" -> "exited"
                              [] OTHER -> "run"
                /\ eYao' = IF w = "sent" THEN "bind" ELSE eYao
      <4>1. \A new_state : EvlRecv("handle_input", new_state) => new_state = "INPUT_RECVD"
        BY <1>t, EvlRows DEF EvlRecv
      <4> QED
        BY <2>6, <4>1 DEF HandleInputYao, Write, keys
    <3> HIDE DEF msg
    <3>3. CASE eProc' = "exited" /\ UNCHANGED <<toSnd, eYao, eState, eDone>>
      BY <1>e, <2>1, <2>2, <2>3, <3>3 DEF EvaluatorFailed, YaoInside, Dialogue
    <3>4. ASSUME NEW w \in WriteOutcomes,
                 toSnd' = toSnd \o Queued(w, msg),
                 EvlSettle("INPUT_RECVD", IF w = "sent" THEN "SUCCESS" ELSE "FAILURE"),
                 eProc' = CASE w = "sent" -> "yao"
                            [] w = "killed" -> "exited"
                            [] OTHER -> "run",
                 eYao' = IF w = "sent" THEN "bind" ELSE eYao
          PROVE  Dialogue' /\ YaoInside'
      <4>1. /\ eState' = IF w = "sent" THEN "INPUT_RECVD" ELSE "ERROR"
            /\ eDone' = eDone
            /\ w = "sent" => eProc' = "yao" /\ eYao' = "bind"
            /\ w # "sent" => eProc' \in {"run", "exited"} /\ eYao' = eYao
        BY <3>4 DEF EvlSettle, TypeOK, EvlTypeOK
      <4>2. w = "sent" => Answered'
        BY <1>e, <2>2, <2>3, <3>1, <3>4, <4>1, WriteOne DEF Answered
      <4>3. w # "sent" => EvaluatorFailed'
        BY <1>e, <2>2, <2>3, <3>1, <3>4, <4>1, EvlGivesUp
      <4> QED
        BY <1>e, <2>1, <4>1, <4>2, <4>3 DEF YaoInside, Dialogue
    <3> QED
      BY <2>4, <3>2, <3>3, <3>4
  <2> QED
    BY <1>5, <2>5, <2>6
<1>6. CASE EvlYaoOver
  <2>1. eState = "INPUT_RECVD" /\ sYao # "off" /\ UNCHANGED toEvl
    BY <1>6 DEF EvlYaoOver, YaoInside
  <2>2. eProc = "yao" /\ eYao' = "over"
    BY <1>6 DEF EvlYaoOver
  <2>3. Answered /\ sState = "INPUT_SENT" /\ ~sDone /\ Quiet(toSnd) /\ Quiet(toEvl)
    BY <1>6, <2>1, <2>2
    DEF EvlYaoOver, Dialogue, NotBegun, Asked, Answered, EvaluatorFailed, SenderFailed, Over,
        YaoInside
  <2>4. Carrying("RESULT", NoContent) \in Message
        /\ Carrying("RESULT", NoContent).tag = "RESULT"
    BY <1>c, MessageType
  <2>5. PICK w \in WriteOutcomes : EvlWrite(w, Carrying("RESULT", NoContent), "RES_SENT")
    BY <1>6 DEF EvlYaoOver
  <2>6. /\ toSnd' = toSnd \o Queued(w, Carrying("RESULT", NoContent))
        /\ w = "sent" => eDone' /\ eState' = "INIT"
        /\ w # "sent" => eState' = "ERROR"
        /\ eProc' \in {"run", "exited"}
    BY <2>5, EvlWriteEnds DEF EvlWrite
  <2>7. w = "sent" => Answered'
    BY <1>e, <2>1, <2>3, <2>4, <2>6, WriteOne DEF Answered
  <2>8. w # "sent" => EvaluatorFailed'
    BY <1>e, <2>1, <2>3, <2>4, <2>6, EvlGivesUp
  <2> QED
    BY <1>e, <2>1, <2>2, <2>6, <2>7, <2>8 DEF YaoInside, Dialogue
<1>7. CASE EvlUnexpected
  BY <1>e, <1>7, EvlFalls DEF Asked, EvaluatorFailed, YaoInside, Dialogue
<1> QED
  BY <1>1, <1>2, <1>3, <1>4, <1>5, <1>6, <1>7 DEF EvlNext, EvlStep

\* Whatever fails and whoever dies, the two streams and the two state machines
\* stay in the dialogue.
LEMMA DialogueInvariant == Spec => [](Dialogue /\ YaoInside)
<1>1. Init => Dialogue /\ YaoInside
  BY DEF Init, NetInit, SndInit, EvlInit, Dialogue, NotBegun, YaoInside, Quiet
<1>2. TypeOK /\ Dialogue /\ YaoInside /\ [Next]_vars => (Dialogue /\ YaoInside)'
  <2> SUFFICES ASSUME TypeOK, Dialogue, YaoInside, [Next]_vars
               PROVE  (Dialogue /\ YaoInside)'
    OBVIOUS
  <2>1. CASE UNCHANGED vars
    BY <2>1
    DEF vars, netVars, sndVars, evlVars, Dialogue, NotBegun, Asked, Answered,
        EvaluatorFailed, SenderFailed, Over, YaoInside
  <2> QED
    BY <2>1, SndKeepsDialogue, EvlKeepsDialogue DEF Next, Terminated
<1> QED
  BY <1>1, <1>2, TypeCorrect, PTL DEF Spec

\* The sender reads only messages its table has a row for.
THEOREM SenderTableFits == Spec => []SenderExpectsEveryMessage
<1>1. TypeOK /\ Dialogue => SenderExpectsEveryMessage
  <2> SUFFICES ASSUME TypeOK, Dialogue, ~sDone, Readable(toSnd), sState # "ATT_RES_SENT"
               PROVE  \E r \in send_stm_trans :
                         r.current_state = sState /\ r.event = Head(toSnd).tag
    BY DEF SenderExpectsEveryMessage
  <2>1. <<sState, Head(toSnd).tag>> \in {<<"ATT_STARTED", "ATT_S1">>,
                                         <<"ATT_S2_SENT", "ATT_S3">>,
                                         <<"INPUT_SENT", "YAO_INPUT">>,
                                         <<"INPUT_SENT", "RESULT">>}
    BY SndHears
  <2> QED
    BY <2>1 DEF send_stm_trans, Row
<1> QED
  BY <1>1, TypeCorrect, DialogueInvariant, PTL

\* The streams are never filled in both directions at once.
THEOREM SpeakInTurn == Spec => []TurnTaking
<1>1. Dialogue => TurnTaking
  BY DEF Dialogue, NotBegun, Asked, Answered, EvaluatorFailed, SenderFailed, Over,
         Quiet, TurnTaking
<1> QED
  BY <1>1, DialogueInvariant, PTL

\* A torn message is the last one on its stream.
THEOREM NothingBehindTorn == Spec => []TornIsLast
<1> DEFINE Last(s) == \A i \in 1..Len(s) : s[i].tag = "TORN" => i = Len(s)
<1>1. \A s : Quiet(s) => Last(s)
  <2>1. \A s : Quiet(s) => Len(s) = 0
    BY DEF Quiet
  <2> QED
    BY <2>1
<1>2. \A s, tag : One(s, tag) => Last(s)
  <2> SUFFICES ASSUME NEW s, Len(s) = 1, NEW i \in 1..Len(s)
               PROVE  i = Len(s)
    BY DEF One
  <2> QED
    OBVIOUS
<1>3. \A s, first, second : first # "TORN" /\ Two(s, first, second) => Last(s)
  <2> SUFFICES ASSUME NEW s, Len(s) = 2, s[1].tag # "TORN",
                      NEW i \in 1..Len(s), s[i].tag = "TORN"
               PROVE  i = Len(s)
    BY DEF Two
  <2> QED
    OBVIOUS
<1>4. Dialogue => Last(toEvl) /\ Last(toSnd)
  <2> HIDE DEF Last
  <2> QED
    BY <1>1, <1>2, <1>3
    DEF Dialogue, NotBegun, Asked, Answered, EvaluatorFailed, SenderFailed, Over
<1>5. Last(toEvl) /\ Last(toSnd) => TornIsLast
  BY DEF TornIsLast
<1>6. Dialogue => TornIsLast
  BY <1>4, <1>5
<1> QED
  BY <1>6, DialogueInvariant, PTL

\* Two healthy parties never both wait in read() for each other.
THEOREM HealthyNeverStall == Spec => []StalledOnlyAfterError
<1>1. TypeOK /\ Dialogue => StalledOnlyAfterError
  <2> SUFFICES ASSUME TypeOK, Dialogue, sProc = "run", eProc = "run", ~sDone, ~eDone,
                      ~Readable(toEvl), ~Readable(toSnd), sState # "ATT_RES_SENT"
               PROVE  sState = "ERROR" \/ eState \in {"ERROR", "FINI"}
    BY DEF StalledOnlyAfterError
  <2>1. \A s \in Seq(Message) : \A tag :
           (One(s, tag) \/ \E second : Two(s, tag, second)) /\ tag # "TORN" => Readable(s)
    BY ReadOne, ReadTwo
  <2>2. toSnd \in Seq(Message) /\ toEvl \in Seq(Message)
    BY DEF TypeOK, NetTypeOK
  <2> QED
    BY <2>1, <2>2
    DEF Dialogue, NotBegun, Asked, Answered, EvaluatorFailed, SenderFailed, Over
<1> QED
  BY <1>1, TypeCorrect, DialogueInvariant, PTL

\* The evaluator never falls into FINI from a healthy state.
THEOREM FiniOnlyAfterError == Spec => OnlyErrorLeadsToFini
<1>1. TypeOK /\ Dialogue /\ YaoInside /\ [Next]_vars
      => [eState' = "FINI" => eState \in {"ERROR", "FINI"}]_vars
  <2> SUFFICES ASSUME TypeOK, Dialogue, Next, eState' = "FINI"
               PROVE  eState \in {"ERROR", "FINI"}
    OBVIOUS
  <2>1. CASE SndNext \/ Terminated
    BY <2>1 DEF SndNext, Terminated, evlVars, vars
  <2>2. CASE EvlUnexpected
    BY <2>2, EvlFalls
  <2>3. CASE EvlNext /\ ~EvlUnexpected
    <3>1. \A call, w, msg, state :
             EvlCallWrite(call, w, msg, state) => eState' \in {"ERROR", "INIT", state}
      BY DEF EvlCallWrite, EvlSettle
    <3>2. \A outcome : EvlFail(outcome) => eState' = "ERROR"
      BY DEF EvlFail, EvlSettle
    <3>3. CASE handle_att_nonce \/ handle_att_S2 \/ EvlYaoOver \/ HandleInputSfe
      BY <3>1, <3>2, <3>3
      DEF handle_att_nonce, handle_att_S2, EvlYaoOver, HandleInputSfe, EvlWrite
    <3>4. CASE handle_att_res
      BY <3>2, <3>4 DEF handle_att_res, EvlSettle
    <3>5. CASE HandleInputYao
      <4>1. \A new_state : EvlRecv("handle_input", new_state) => new_state = "INPUT_RECVD"
        BY EvlRows DEF EvlRecv, TypeOK, EvlTypeOK
      <4>2. \/ \E call : EvlFail(call)
            \/ UNCHANGED eState
            \/ \E rtn : EvlSettle("INPUT_RECVD", rtn)
        BY <3>5, <4>1 DEF HandleInputYao
      <4> QED
        BY <3>2, <4>2 DEF EvlSettle
    <3>6. CASE EvlStart \/ EvlListen \/ EvlAccept \/ EvlLeave \/ EvlKilled
      BY <3>6
      DEF EvlStart, EvlListen, EvlAccept, EvlLeave, EvlKilled, EvlYaoExit, EvlCrash,
          evlVars
    <3> QED
      BY <2>3, <3>3, <3>4, <3>5, <3>6 DEF EvlNext, EvlStep
  <2> QED
    BY <2>1, <2>2, <2>3 DEF Next
<1> QED
  BY <1>1, TypeCorrect, DialogueInvariant, PTL DEF Spec, OnlyErrorLeadsToFini

----------------------------------------------------------------------------
(* Both parties of a Yao link are in the same hybrid case, or seem to be:   *)
(* the inputs on their way to the evaluator are for the sender's program,   *)
(* the keys on their way to the sender for the evaluator's case, and a      *)
(* hybrid evaluator's result comes after the rounds and is nobody's output. *)

CasesSent ==
    /\ \A i \in 1..Len(toEvl) : toEvl[i].tag = "INPUT" => toEvl[i].content.prog = SndProg
    /\ \A i \in 1..Len(toSnd) :
          toSnd[i].tag = "YAO_INPUT"
          => conf.e_yao /\ toSnd[i].content.prog = YaoProg[conf.e_idx + 1]
    /\ \A i \in 1..Len(toSnd) :
          toSnd[i].tag = "RESULT" /\ conf.e_yao
          => toSnd[i].content.prog = "none" /\ eYao # "off"

\* A case has one index, and is no program of SFE.
LEMMA CaseIndex ==
    /\ \A i, j \in 0..3 : YaoProg[i + 1] = YaoProg[j + 1] => i = j
    /\ \A i, j \in 0..3 : YaoProg[i + 1] # SfeProg[j + 1]
    /\ \A i \in 0..3 : YaoProg[i + 1] = "YAODF" => i = 0
BY DEF YaoProg, SfeProg

\* The evaluator opens the link for an input that names its case, or whose
\* program it does not look at, in case 0.
LEMMA OpensForItsCase ==
    ASSUME TypeOK, CasesSent, HandleInputYao, eYao' # eYao
    PROVE  SameHybrid \/ SameByChance
<1>1. conf \in Conf
  BY ConfType DEF TypeOK, NetTypeOK
<1>2. conf.s_idx \in 0..3 /\ conf.e_idx \in 0..3 /\ conf.s_sfe \in 0..3
      /\ (~conf.s_yao => conf.s_idx = 0)
  BY <1>1 DEF Conf
<1> DEFINE input == Head(toEvl).content
           case == YaoProg[conf.e_idx + 1]
<1>3. /\ conf.e_yao
      /\ TRUE \in IdxMatches(input.prog) /\ "ok" \in YaoCompute(input, case)
      /\ \E new_state : EvlRecv("handle_input", new_state)
  BY DEF HandleInputYao
<1>4. input.prog = SndProg
  <2>1. Readable(toEvl) /\ Head(toEvl).tag = "INPUT"
    BY <1>3, EvlRows DEF EvlRecv, TypeOK, EvlTypeOK
  <2>2. toEvl \in Seq(Message) /\ toEvl # <<>>
    BY <2>1 DEF Readable, TypeOK, NetTypeOK
  <2> QED
    BY <2>1, <2>2, TailElements DEF CasesSent
<1>5. CASE conf.s_yao
  <2>1. input.prog = YaoProg[conf.s_idx + 1]
    BY <1>4, <1>5 DEF SndProg
  <2>2. input.prog \in YaoProgs
    BY <1>1, <2>1, ProgType
  <2>3. input.prog = case
    BY <1>3, <2>2 DEF IdxMatches
  <2> QED
    BY <1>2, <1>3, <1>5, <2>1, <2>3, CaseIndex DEF SameHybrid
<1>6. CASE ~conf.s_yao
  <2>1. input.prog = SfeProg[conf.s_sfe + 1]
    BY <1>4, <1>6 DEF SndProg
  <2>2. input.prog # case
    BY <1>2, <2>1, CaseIndex
  <2>3. case = "YAODF"
    BY <1>3, <2>2 DEF YaoCompute, Decrypts
  <2> QED
    BY <1>2, <1>3, <1>6, <2>3, CaseIndex DEF SameByChance
<1> QED
  BY <1>5, <1>6

\* A sender that connects was told its own case by a hybrid evaluator.
LEMMA ConnectsForItsCase ==
    ASSUME TypeOK, CasesSent, start_yao, ~UNCHANGED <<sYao, sKeys>>
    PROVE  /\ SameHybrid \/ SameByChance
           /\ sKeys'.prog = YaoProg[conf.e_idx + 1]
<1>1. conf \in Conf
  BY ConfType DEF TypeOK, NetTypeOK
<1>2. conf.s_idx \in 0..3 /\ conf.e_idx \in 0..3 /\ (~conf.s_yao => conf.s_idx = 0)
  BY <1>1 DEF Conf
<1>3. toSnd \in Seq(Message)
  BY DEF TypeOK, NetTypeOK
<1>4. Readable(toSnd) /\ Head(toSnd).tag = "YAO_INPUT"
  BY SndRows DEF start_yao, SndRecv
<1>5. conf.e_yao /\ Head(toSnd).content.prog = YaoProg[conf.e_idx + 1]
  BY <1>3, <1>4, TailElements DEF Readable, CasesSent
<1>6. /\ Head(toSnd).content.prog = YaoProg[conf.s_idx + 1]
      /\ sKeys'.prog = Head(toSnd).content.prog
  BY DEF start_yao, Stale
<1>7. conf.s_idx = conf.e_idx
  BY <1>2, <1>5, <1>6, CaseIndex
<1> QED
  BY <1>2, <1>5, <1>6, <1>7 DEF SameHybrid, SameByChance

\* Either end of the Yao link is opened only by parties in one hybrid case, or
\* by an SFE sender and an evaluator in case 0; that disagreement never ends as a
\* success.
THEOREM SameCase == Spec => []YaoSameCase
<1>1. Init => CasesSent /\ YaoSameCase
  BY DEF Init, NetInit, SndInit, CasesSent, YaoSameCase
<1>2. TypeOK /\ CasesSent /\ YaoSameCase /\ [Next]_vars => (CasesSent /\ YaoSameCase)'
  <2> SUFFICES ASSUME TypeOK, CasesSent, YaoSameCase, [Next]_vars
               PROVE  CasesSent' /\ YaoSameCase'
    OBVIOUS
  <2>t. toSnd \in Seq(Message) /\ toEvl \in Seq(Message)
    BY DEF TypeOK, NetTypeOK
  <2>1. CASE UNCHANGED vars
    BY <2>1 DEF vars, netVars, sndVars, evlVars, CasesSent, YaoSameCase, SndProg,
                SameHybrid, SameByChance
  <2>2. CASE SndNext
    <3>1. /\ conf' = conf /\ SndProg' = SndProg /\ eYao' = eYao
          /\ SameHybrid' = SameHybrid /\ SameByChance' = SameByChance
      BY <2>2, ConfFixed
      DEF Next, SndProg, SameHybrid, SameByChance, SndNext, SndStep, SndKilled, SndStart, start_att_nonce,
          handle_att_S1, handle_att_S3, send_input, handle_result, start_yao,
          SndConnect, SndYaoOver, SndYaoExit, SndLeave, SndCrash
    <3>2. \A i \in 1..Len(toEvl') :
             toEvl'[i].tag = "INPUT" => toEvl'[i].content.prog = SndProg
      <4>1. CASE UNCHANGED toEvl
        BY <4>1 DEF CasesSent
      <4>2. ASSUME NEW msg \in Message, NEW w \in WriteOutcomes,
                   toEvl' = toEvl \o Queued(w, msg),
                   msg.tag = "INPUT" => msg.content.prog = SndProg,
                   NEW i \in 1..Len(toEvl'), toEvl'[i].tag = "INPUT"
            PROVE  toEvl'[i].content.prog = SndProg
        BY <2>t, <4>2, QueuedElements DEF CasesSent
      <4> QED
        BY <2>2, <4>1, <4>2, SndWrites
    <3>3. \A i \in 1..Len(toSnd') :
             /\ toSnd'[i].tag = "YAO_INPUT"
                => conf.e_yao /\ toSnd'[i].content.prog = YaoProg[conf.e_idx + 1]
             /\ toSnd'[i].tag = "RESULT" /\ conf.e_yao
                => toSnd'[i].content.prog = "none" /\ eYao # "off"
      <4>1. CASE UNCHANGED toSnd
        BY <4>1 DEF CasesSent
      <4>2. CASE Readable(toSnd) /\ toSnd' = Tail(toSnd)
        BY <2>t, <4>2, TailElements DEF Readable, CasesSent
      <4> QED
        BY <2>2, <4>1, <4>2, SndFinishes
    <3>4. sYao' # "off" => /\ SameHybrid \/ SameByChance
                           /\ sKeys'.prog = YaoProg[conf.e_idx + 1]
      <4>1. CASE start_yao /\ ~UNCHANGED <<sYao, sKeys>>
        BY <4>1, ConnectsForItsCase
      <4>2. CASE UNCHANGED <<sYao, sKeys>>
        BY <4>2 DEF YaoSameCase
      <4>3. CASE ~start_yao
        <5>1. sKeys' = sKeys /\ (sYao' # "off" => sYao # "off")
          BY <2>2, <4>3
          DEF SndNext, SndStep, SndKilled, SndStart, start_att_nonce, sndVars,
              handle_att_S1, handle_att_S3, send_input, handle_result,
              SndConnect, SndYaoOver, SndYaoExit, SndLeave, SndCrash
        <5> QED
          BY <5>1 DEF YaoSameCase
      <4> QED
        BY <4>1, <4>2, <4>3
    <3>6. sDone' /\ conf.e_yao => SameHybrid
      <4> SUFFICES ASSUME sDone', conf.e_yao, ~sDone
                   PROVE  SameHybrid
        BY DEF YaoSameCase
      <4>1. /\ Readable(toSnd) /\ Head(toSnd).tag = "RESULT"
            /\ conf.s_yao \/ Head(toSnd).content.prog = SndProg
        BY <2>2, SndFinishes
      <4>2. Head(toSnd).content.prog = "none" /\ eYao # "off"
        BY <2>t, <4>1, TailElements DEF Readable, CasesSent
      <4>3. SndProg # "none"
        BY ConfType, ProgType DEF SndProg, TypeOK, NetTypeOK, YaoProgs, SfeProgs
      <4> QED
        BY <4>1, <4>2, <4>3 DEF YaoSameCase, SameByChance
    <3> QED
      BY <3>1, <3>2, <3>3, <3>4, <3>6 DEF CasesSent, YaoSameCase
  <2>3. CASE EvlNext
    <3>1. /\ conf' = conf /\ SndProg' = SndProg /\ sYao' = sYao /\ sKeys' = sKeys
          /\ SameHybrid' = SameHybrid /\ SameByChance' = SameByChance
      BY <2>3, ConfFixed
      DEF Next, SndProg, SameHybrid, SameByChance, EvlNext, sndVars, EvlStep, EvlKilled, EvlStart,
          handle_att_nonce, handle_att_S2, handle_att_res, HandleInputSfe,
          HandleInputYao, EvlListen, EvlAccept, EvlYaoOver, EvlUnexpected, EvlLeave,
          EvlYaoExit, EvlCrash
    <3>2. \A i \in 1..Len(toEvl') :
             toEvl'[i].tag = "INPUT" => toEvl'[i].content.prog = SndProg
      <4>1. CASE UNCHANGED toEvl
        BY <4>1 DEF CasesSent
      <4>2. CASE Readable(toEvl) /\ toEvl' = Tail(toEvl)
        BY <2>t, <4>2, TailElements DEF Readable, CasesSent
      <4> QED
        BY <2>3, <4>1, <4>2, EvlReads
    <3>3. \A i \in 1..Len(toSnd') :
             /\ toSnd'[i].tag = "YAO_INPUT"
                => conf.e_yao /\ toSnd'[i].content.prog = YaoProg[conf.e_idx + 1]
             /\ toSnd'[i].tag = "RESULT" /\ conf.e_yao
                => toSnd'[i].content.prog = "none" /\ eYao' # "off"
      <4>0. eYao # "off" => eYao' # "off"
        BY <2>3
        DEF EvlNext, EvlStep, EvlKilled, EvlStart, handle_att_nonce, handle_att_S2,
            handle_att_res, HandleInputSfe, HandleInputYao, EvlListen, EvlAccept,
            EvlYaoOver, EvlUnexpected, EvlLeave, EvlYaoExit, EvlCrash
      <4>1. CASE UNCHANGED toSnd
        BY <4>0, <4>1 DEF CasesSent
      <4>2. ASSUME NEW msg \in Message, NEW w \in WriteOutcomes,
                   toSnd' = toSnd \o Queued(w, msg),
                   msg.tag = "YAO_INPUT"
                   => conf.e_yao /\ msg.content.prog = YaoProg[conf.e_idx + 1],
                   msg.tag = "RESULT" /\ conf.e_yao
                   => msg.content.prog = "none" /\ eYao' = "over",
                   NEW i \in 1..Len(toSnd')
            PROVE  /\ toSnd'[i].tag = "YAO_INPUT"
                      => conf.e_yao /\ toSnd'[i].content.prog = YaoProg[conf.e_idx + 1]
                   /\ toSnd'[i].tag = "RESULT" /\ conf.e_yao
                      => toSnd'[i].content.prog = "none" /\ eYao' # "off"
        BY <2>t, <4>0, <4>2, QueuedElements DEF CasesSent
      <4> QED
        BY <2>3, <4>1, <4>2, EvlFinishes
    <3>4. eYao' # "off" => SameHybrid \/ SameByChance
      <4>1. CASE HandleInputYao
        BY <4>1, OpensForItsCase DEF YaoSameCase
      <4>2. CASE ~HandleInputYao
        <5>1. eYao' # "off" => eYao # "off"
          BY <2>3, <4>2
          DEF EvlNext, EvlStep, EvlKilled, EvlStart, handle_att_nonce, handle_att_S2,
              handle_att_res, HandleInputSfe, EvlListen, EvlAccept, EvlYaoOver,
              EvlUnexpected, EvlLeave, EvlYaoExit, EvlCrash
        <5> QED
          BY <5>1 DEF YaoSameCase
      <4> QED
        BY <4>1, <4>2
    <3>5. sDone' = sDone
      BY <2>3, EvlFinishes
    <3> QED
      BY <3>1, <3>2, <3>3, <3>4, <3>5 DEF CasesSent, YaoSameCase
  <2> QED
    BY <2>1, <2>2, <2>3 DEF Next, Terminated
<1> QED
  BY <1>1, <1>2, TypeCorrect, PTL DEF Spec

----------------------------------------------------------------------------
(* An SFE session without a status nobody looks at implements SmcSession,  *)
(* whatever else fails.                                                    *)

\* What both parties were started for, and the failures, exclude Yao and a
\* failing status.
SfeOnly ==
    /\ \A c \in Confs : ~c.s_yao /\ ~c.e_yao
    /\ "status" \notin FaultKinds

InputAsked == [prog |-> SndProg, snd |-> SndInput(sUser, SndProg), evl |-> "none"]

\* The sender's state machine starts after its inputs are read, and neither
\* party is ever in the Yao rounds.
Started ==
    /\ sProc \in {"init", "ready"} => sState = "INIT" /\ ~sDone
    /\ eProc # "yao" /\ sProc # "yao" /\ eState # "INPUT_RECVD"

\* The evaluator waits for an input under the secret, and has the secret only
\* from then on.
SecretHeld ==
    /\ eState = "INPUT_WAIT" => eMac /\ eSecret
    /\ eSecret => eState \in {"INPUT_WAIT", "ERROR", "FINI"} \/ eDone

\* Whatever the enclave was asked to compute is the answer.
OutIsAnswer ==
    /\ eOut # NoContent => /\ eOut = Answer /\ eSecret
                           /\ eDone \/ eState \in {"ERROR", "FINI"}
    /\ eDone => eOut = Answer /\ eSecret

\* The contents under way are those the parties agreed on.
ContentsSent ==
    /\ \A i \in 1..Len(toEvl) : toEvl[i].tag = "INPUT" => toEvl[i].content = InputAsked
    /\ \A i \in 1..Len(toSnd) : toSnd[i].tag = "RESULT" => toSnd[i].content = Answer

SessionInv == Started /\ SecretHeld /\ OutIsAnswer /\ ContentsSent /\ ReportIsAnswer

\* Without Yao the program is one of SFE, and it is the one an input names.
LEMMA SfeConf ==
    ASSUME SfeOnly, TypeOK
    PROVE  /\ ~conf.s_yao /\ ~conf.e_yao
           /\ SndProg \in SfeProgs /\ SfeAsked(SndProg) = SndProg
           /\ Answer \in Content /\ Answer # NoContent
           /\ \A first, second : SufferBoth(first, second)
                                 => first # "status" /\ second # "status"
           /\ \A outcome : Suffer(outcome) => outcome # "status"
<1>1. ~conf.s_yao /\ ~conf.e_yao
  BY DEF SfeOnly, TypeOK, NetTypeOK
<1>2. conf \in Conf
  BY ConfType DEF TypeOK, NetTypeOK
<1>3. SndProg \in SfeProgs
  BY <1>1, <1>2, ProgType DEF SndProg
<1>4. SfeAsked(SndProg) = SndProg
  BY <1>3 DEF SfeAsked
<1>5. Answer \in Content
  BY <1>3, EvlInputType DEF Answer, Content, SndInput, Words, Progs
<1>6. Answer # NoContent
  BY <1>3 DEF Answer, NoContent, SfeProgs
<1>7. /\ \A first, second : SufferBoth(first, second)
                            => first # "status" /\ second # "status"
      /\ \A outcome : Suffer(outcome) => outcome # "status"
  BY DEF SfeOnly, SufferBoth, Suffer
<1> QED
  BY <1>1, <1>3, <1>4, <1>5, <1>6, <1>7

\* A result is under way only when the evaluator is done.
LEMMA ResultUnderWay ==
    ASSUME Dialogue, ~eDone, NEW i \in 1..Len(toSnd)
    PROVE  toSnd[i].tag # "RESULT"
<1>1. Quiet(toSnd) => Len(toSnd) = 0
  BY DEF Quiet
<1>2. \A tag : One(toSnd, tag) => toSnd[i].tag = tag
  BY DEF One
<1> QED
  BY <1>1, <1>2
  DEF Dialogue, NotBegun, Asked, Answered, EvaluatorFailed, SenderFailed, Over

\* Before a party has started there is no secret, and nothing is computed.
LEMMA NothingYet ==
    ASSUME Dialogue, YaoInside, SessionInv, sProc = "init" \/ eProc = "init"
    PROVE  /\ ~eSecret /\ eOut = NoContent /\ ~eDone
           /\ sProc = "init" => Quiet(toEvl) /\ Quiet(toSnd) /\ ~sDone
<1>1. sProc = "init" => NotBegun
  BY DEF SessionInv, Started, Dialogue, NotBegun, Asked, Answered, EvaluatorFailed,
         SenderFailed, Over
<1>2. eState = "INIT" /\ ~eDone
  BY <1>1 DEF NotBegun, YaoInside
<1> QED
  BY <1>1, <1>2 DEF SessionInv, SecretHeld, OutIsAnswer, NotBegun

\* Every step of the sender keeps the session an SFE one, and what it reports
\* the answer.
LEMMA SndKeepsSession ==
    ASSUME SfeOnly, TypeOK, Dialogue, YaoInside, SessionInv, SndNext
    PROVE  SessionInv'
<1>t. toSnd \in Seq(Message) /\ toEvl \in Seq(Message)
  BY DEF TypeOK, NetTypeOK
<1>e. UNCHANGED <<conf, eState, eDone, eProc, eMac, eSecret, eOut, eUser>>
  BY ConfFixed
  DEF Next, SndNext, evlVars, SndStep, SndKilled, SndStart, start_att_nonce,
      handle_att_S1, handle_att_S3, send_input, handle_result, start_yao,
      SndConnect, SndYaoOver, SndYaoExit, SndLeave, SndCrash
<1>p. SndProg' = SndProg
  BY <1>e DEF SndProg
<1>1. CASE SndStart
  <2>1. sProc = "init" /\ sProc' \in {"exited", "ready"}
        /\ UNCHANGED <<toEvl, toSnd, sState, sDone>>
    BY <1>1 DEF SndStart
  <2>2. Quiet(toEvl) /\ Quiet(toSnd) /\ ~sDone /\ eOut = NoContent /\ ~eDone
    BY <2>1, NothingYet
  <2>3. Started' /\ SecretHeld'
    BY <1>e, <2>1, <2>2 DEF SessionInv, Started, SecretHeld
  <2>4. Len(toEvl') = 0 /\ Len(toSnd') = 0
    BY <2>1, <2>2 DEF Quiet
  <2>5. ContentsSent' /\ OutIsAnswer' /\ ReportIsAnswer'
    BY <1>e, <2>1, <2>2, <2>4 DEF ContentsSent, OutIsAnswer, ReportIsAnswer
  <2> QED
    BY <2>3, <2>5 DEF SessionInv
<1>2. CASE ~SndStart
  <2>y. ~start_yao
    <3>1. SUFFICES ASSUME start_yao PROVE FALSE
      OBVIOUS
    <3>2. /\ sState = "INPUT_SENT" /\ ~sDone /\ Readable(toSnd)
          /\ Head(toSnd).tag = "YAO_INPUT"
      BY <3>1, SndRows DEF start_yao, SndRecv
    <3>3. Answered
      BY <3>2, SndHears
    <3>4. ~Quiet(toSnd) /\ ~One(toSnd, "RESULT")
      BY <1>t, <3>2, OneOnly, ReadOne
    <3> QED
      BY <3>2, <3>3, <3>4 DEF Answered, SessionInv, Started
  <2>u. sUser' = sUser
    BY <1>2, <2>y
    DEF SndNext, SndStep, SndKilled, start_att_nonce, sndVars,
        handle_att_S1, handle_att_S3, send_input, handle_result,
        SndConnect, SndYaoOver, SndYaoExit, SndLeave, SndCrash
  <2>a. Answer' = Answer /\ InputAsked' = InputAsked
    BY <1>e, <1>p, <2>u DEF Answer, InputAsked
  <2>1. Started'
    <3>1. \A w, msg, state : SndWrite(w, msg, state) => sProc' \in {"run", "exited"}
      BY DEF SndWrite
    <3>2. \A outcome : SndFail(outcome) => sProc' = sProc
      BY DEF SndFail
    <3>3. CASE start_att_nonce
      BY <1>e, <3>1, <3>3 DEF start_att_nonce, SessionInv, Started
    <3>4. CASE handle_att_S1 \/ handle_att_S3 \/ send_input \/ handle_result
      <4>1. sProc' \in {"run", "exited"}
        BY <3>1, <3>2, <3>4
        DEF handle_att_S1, handle_att_S3, send_input, handle_result, SndRecv
      <4> QED
        BY <1>e, <4>1 DEF SessionInv, Started
    <3>5. CASE SndConnect \/ SndYaoOver \/ SndLeave \/ SndKilled
      BY <1>e, <3>5
      DEF SndConnect, SndYaoOver, SndLeave, SndKilled, SndYaoExit, SndCrash, sndVars,
          SessionInv, Started
    <3> QED
      BY <1>2, <2>y, <3>3, <3>4, <3>5 DEF SndNext, SndStep
  <2>2. SecretHeld' /\ OutIsAnswer'
    BY <1>e, <2>a DEF SessionInv, SecretHeld, OutIsAnswer
  <2>3. \A i \in 1..Len(toEvl') : toEvl'[i].tag = "INPUT" => toEvl'[i].content = InputAsked
    <3>1. CASE UNCHANGED toEvl
      BY <3>1 DEF SessionInv, ContentsSent
    <3>2. ASSUME NEW msg \in Message, NEW w \in WriteOutcomes,
                 toEvl' = toEvl \o Queued(w, msg),
                 msg.tag = "INPUT" => msg.content = InputAsked,
                 NEW i \in 1..Len(toEvl'), toEvl'[i].tag = "INPUT"
          PROVE  toEvl'[i].content = InputAsked
      BY <1>t, <3>2, QueuedElements DEF SessionInv, ContentsSent
    <3> QED
      BY <3>1, <3>2, SndWrites DEF InputAsked
  <2>4. \A i \in 1..Len(toSnd') : toSnd'[i].tag = "RESULT" => toSnd'[i].content = Answer
    <3>1. CASE UNCHANGED toSnd
      BY <3>1 DEF SessionInv, ContentsSent
    <3>2. CASE Readable(toSnd) /\ toSnd' = Tail(toSnd)
      BY <1>t, <3>2, TailElements DEF Readable, SessionInv, ContentsSent
    <3> QED
      BY <3>1, <3>2, SndFinishes
  <2>5. ReportIsAnswer'
    <3>1. CASE handle_result
      <4>1. Readable(toSnd) /\ Head(toSnd).tag = "RESULT" /\ ~sDone
        BY <3>1, SndRows DEF handle_result, SndRecv
      <4>2. Head(toSnd).content = Answer
        BY <1>t, <4>1, TailElements DEF Readable, SessionInv, ContentsSent
      <4>3. sDone' => sReport' = Answer
        BY <3>1, <4>1, <4>2, SfeConf DEF handle_result, SndSettle
      <4> QED
        BY <2>a, <4>3 DEF ReportIsAnswer
    <3>2. CASE ~handle_result
      <4>1. ~SndYaoOver
        BY DEF SndYaoOver, SessionInv, Started
      <4>2. sReport' = sReport
        BY <1>2, <2>y, <3>2, <4>1
        DEF SndNext, SndStep, SndKilled, start_att_nonce, sndVars,
            handle_att_S1, handle_att_S3, send_input, SndConnect, SndYaoExit,
            SndLeave, SndCrash
      <4>3. sDone' => sDone
        <5>1. \A w, msg, state :
                 SndWrite(w, msg, state) /\ state # "RES_RECVD" => sDone' = sDone
          BY SndWriteEnds
        <5>2. \A outcome : SndFail(outcome) => sDone' = sDone
          BY SndFailEnds
        <5>3. CASE start_att_nonce
          <6>1. \/ \E w : SndWrite(w, Msg("ATT_CHALLENGE"), "ATT_STARTED")
                \/ SndSettle("ATT_STARTED", "FAILURE")
            BY <5>3, SndRows DEF start_att_nonce
          <6> QED
            BY <5>1, <6>1 DEF SndSettle, TypeOK, SndTypeOK
        <5>4. CASE handle_att_S1 \/ handle_att_S3 \/ send_input
          BY <5>1, <5>2, <5>4 DEF handle_att_S1, handle_att_S3, send_input
        <5>5. CASE SndConnect \/ SndLeave \/ SndKilled
          BY <5>5 DEF SndConnect, SndLeave, SndKilled, SndYaoExit, SndCrash, sndVars
        <5> QED
          BY <1>2, <2>y, <3>2, <4>1, <5>3, <5>4, <5>5 DEF SndNext, SndStep
      <4> QED
        BY <1>e, <2>a, <4>2, <4>3 DEF SessionInv, ReportIsAnswer
    <3> QED
      BY <3>1, <3>2
  <2> QED
    BY <2>a, <2>1, <2>2, <2>3, <2>4, <2>5 DEF SessionInv, ContentsSent
<1> QED
  BY <1>1, <1>2

\* What the evaluator's handlers write before the input is no result.
LEMMA NotYetResult ==
    ASSUME TypeOK, ContentsSent, NEW w \in WriteOutcomes, NEW msg \in Message,
           toSnd' = toSnd \o Queued(w, msg), msg.tag # "RESULT" \/ msg.content = Answer
    PROVE  \A i \in 1..Len(toSnd') : toSnd'[i].tag = "RESULT" => toSnd'[i].content = Answer
<1> SUFFICES ASSUME NEW i \in 1..Len(toSnd'), toSnd'[i].tag = "RESULT"
             PROVE  toSnd'[i].content = Answer
  OBVIOUS
<1>1. toSnd \in Seq(Message)
  BY DEF TypeOK, NetTypeOK
<1> QED
  BY <1>1, QueuedElements DEF ContentsSent

\* The computing call of an SFE session makes the answer, or fails.
LEMMA ComputesAnswer ==
    ASSUME SfeOnly, TypeOK, SessionInv, HandleInputSfe
    PROVE  /\ eState = "INPUT_WAIT" /\ eSecret /\ ~eDone /\ UNCHANGED <<eSecret, eMac>>
           /\ \/ EvlFail("ret") /\ UNCHANGED eOut
              \/ \E w \in WriteOutcomes :
                    /\ EvlCallWrite("ok", w, Carrying("RESULT", Answer), "RES_SENT")
                    /\ eOut' = Answer
<1> DEFINE input == Head(toEvl).content
           prog == SfeAsked(input.prog)
<1>1. PICK new_state \in EvalStates : EvlRecv("handle_input", new_state)
  BY DEF HandleInputSfe
<1>2. /\ eState = "INPUT_WAIT" /\ Readable(toEvl) /\ Head(toEvl).tag = "INPUT" /\ ~eDone
  BY <1>1, EvlRows DEF EvlRecv, TypeOK, EvlTypeOK
<1>3. input = InputAsked
  <2>1. toEvl \in Seq(Message) /\ toEvl # <<>>
    BY <1>2 DEF Readable, TypeOK, NetTypeOK
  <2> QED
    BY <1>2, <2>1, TailElements DEF SessionInv, ContentsSent
<1>4. eSecret
  BY <1>2 DEF SessionInv, SecretHeld
<1>5. prog = SndProg /\ Decrypts(input, prog)
  BY <1>3, <1>4, SfeConf DEF InputAsked, Decrypts
<1>6. [prog |-> prog, snd |-> input.snd, evl |-> EvlInput(eUser, prog)] = Answer
  BY <1>3, <1>5 DEF InputAsked, Answer
<1>7. \A w, msg : ~EvlCallWrite("status", w, msg, "RES_SENT")
  BY SfeConf DEF EvlCallWrite, Write
<1> QED
  BY <1>2, <1>4, <1>5, <1>6, <1>7 DEF HandleInputSfe

\* Every step of the evaluator keeps the session an SFE one.
LEMMA EvlKeepsSession ==
    ASSUME SfeOnly, TypeOK, Dialogue, YaoInside, SenderDoneImpliesEvaluatorDone,
           SessionInv, EvlNext
    PROVE  SessionInv'
<1>t. toSnd \in Seq(Message) /\ toEvl \in Seq(Message) /\ eState \in EvalStates
  BY DEF TypeOK, NetTypeOK, EvlTypeOK
<1>e. UNCHANGED <<conf, sState, sDone, sProc, sReport, sUser>>
  BY ConfFixed
  DEF Next, EvlNext, sndVars, EvlStep, EvlKilled, EvlStart, handle_att_nonce,
      handle_att_S2, handle_att_res, HandleInputSfe, HandleInputYao, EvlListen,
      EvlAccept, EvlYaoOver, EvlUnexpected, EvlLeave, EvlYaoExit, EvlCrash
<1>p. InputAsked' = InputAsked /\ SndProg' = SndProg
  BY <1>e DEF InputAsked, SndProg
<1>i. \A i \in 1..Len(toEvl') : toEvl'[i].tag = "INPUT" => toEvl'[i].content = InputAsked
  <2>1. CASE UNCHANGED toEvl
    BY <2>1 DEF SessionInv, ContentsSent
  <2>2. CASE Readable(toEvl) /\ toEvl' = Tail(toEvl)
    BY <1>t, <2>2, TailElements DEF Readable, SessionInv, ContentsSent
  <2> QED
    BY <2>1, <2>2, EvlReads
<1>1. CASE EvlStart
  <2>1. eProc = "init" /\ eProc' \in {"run", "exited"}
        /\ UNCHANGED <<toSnd, eState, eDone, eMac, eSecret, eOut>>
    BY <1>1 DEF EvlStart
  <2>2. ~eSecret /\ eOut = NoContent /\ ~eDone /\ ~sDone
    BY <2>1, NothingYet DEF SenderDoneImpliesEvaluatorDone
  <2>3. Started' /\ SecretHeld' /\ OutIsAnswer' /\ ReportIsAnswer'
    BY <1>e, <2>1, <2>2
    DEF SessionInv, Started, SecretHeld, OutIsAnswer, ReportIsAnswer
  <2>4. ContentsSent'
    BY <1>i, <1>p, <2>1, <2>2, ResultUnderWay DEF ContentsSent
  <2> QED
    BY <2>3, <2>4 DEF SessionInv
<1>2. CASE ~EvlStart
  <2>n. ~HandleInputYao /\ ~EvlListen /\ ~EvlAccept /\ ~EvlYaoOver /\ ~EvlYaoExit
    BY SfeConf
    DEF HandleInputYao, EvlListen, EvlAccept, EvlYaoOver, EvlYaoExit, SessionInv, Started
  <2>u. eUser' = eUser
    BY <1>2, <2>n
    DEF EvlNext, EvlStep, EvlKilled, handle_att_nonce, handle_att_S2, handle_att_res,
        HandleInputSfe, EvlUnexpected, EvlLeave, EvlCrash, evlVars
  <2>a. Answer' = Answer
    BY <1>e, <1>p, <2>u DEF Answer
  <2>r. ReportIsAnswer'
    BY <1>e, <2>a DEF SessionInv, ReportIsAnswer
  <2>1. CASE handle_att_nonce \/ handle_att_S2
    <3>1. eState \in {"INIT", "ATT_S1_SENT"} /\ ~eDone /\ eProc = "run"
      BY <1>t, <2>1, EvlRows DEF handle_att_nonce, handle_att_S2, EvlRecv
    <3>2. ~eSecret /\ eOut = NoContent
      BY <3>1 DEF SessionInv, SecretHeld, OutIsAnswer
    <3>3. /\ Msg("ATT_S1") \in Message /\ Msg("ATT_S1").tag = "ATT_S1"
          /\ Msg("ATT_S3") \in Message /\ Msg("ATT_S3").tag = "ATT_S3"
      BY MessageType DEF Tags, Msg
    <3>4. PICK msg \in {Msg("ATT_S1"), Msg("ATT_S3")},
               state \in {"ATT_S1_SENT", "ATT_S3_SENT"} :
            EvlFail("ret") \/ \E w \in WriteOutcomes : EvlWrite(w, msg, state)
      BY <2>1 DEF handle_att_nonce, handle_att_S2
    <3>5. /\ UNCHANGED <<eMac, eSecret, eOut>>
          /\ eState' \in {"ATT_S1_SENT", "ATT_S3_SENT", "ERROR"} /\ eDone' = eDone
          /\ eProc' \in {"run", "exited"}
      <4>1. UNCHANGED <<eMac, eSecret, eOut>>
        BY <2>1 DEF handle_att_nonce, handle_att_S2
      <4>2. CASE EvlFail("ret")
        BY <3>1, <4>1, <4>2, EvlFailEnds
      <4>3. ASSUME NEW w \in WriteOutcomes, EvlCallWrite("ok", w, msg, state)
            PROVE  /\ eState' \in {"ATT_S1_SENT", "ATT_S3_SENT", "ERROR"}
                   /\ eDone' = eDone /\ eProc' \in {"run", "exited"}
        BY <4>3, EvlWriteEnds
      <4> QED
        BY <3>4, <4>1, <4>2, <4>3 DEF EvlWrite
    <3>6. \A i \in 1..Len(toSnd') :
             toSnd'[i].tag = "RESULT" => toSnd'[i].content = Answer
      <4>1. CASE EvlFail("ret")
        BY <4>1, EvlFailEnds DEF SessionInv, ContentsSent
      <4>2. ASSUME NEW w \in WriteOutcomes, EvlCallWrite("ok", w, msg, state)
            PROVE  toSnd' = toSnd \o Queued(w, msg)
        BY <4>2, EvlWriteEnds
      <4>3. msg \in Message /\ msg.tag # "RESULT"
        BY <3>3
      <4> QED
        BY <3>4, <4>1, <4>2, <4>3, NotYetResult DEF EvlWrite, SessionInv
    <3> QED
      BY <1>e, <1>i, <1>p, <2>a, <2>r, <3>1, <3>2, <3>5, <3>6
      DEF SessionInv, Started, SecretHeld, OutIsAnswer, ContentsSent
  <2>2. CASE handle_att_res
    <3>1. eState = "ATT_S3_SENT" /\ ~eDone /\ eProc = "run"
      BY <1>t, <2>2, EvlRows DEF handle_att_res, EvlRecv
    <3>2. ~eSecret /\ eOut = NoContent
      BY <3>1 DEF SessionInv, SecretHeld, OutIsAnswer
    <3>3. /\ UNCHANGED <<toSnd, eProc, eOut, eDone>>
          /\ \/ eState' = "ERROR"
             \/ eState' = "INPUT_WAIT" /\ eMac' /\ eSecret'
      <4>1. UNCHANGED <<toSnd, eProc, eOut>>
        BY <2>2, EvlFailEnds DEF handle_att_res
      <4>2. CASE EvlFail("ok")
        BY <4>1, <4>2, EvlFailEnds
      <4>3. ASSUME NEW mac \in {"ok", "ret", "status"}, NEW secret \in {"ok", "ret", "status"},
                   SufferBoth(mac, secret),
                   eMac' = (mac = "ok"),
                   eSecret' = (Wrapped(mac) = "ok" /\ secret = "ok"),
                   EvlSettle("INPUT_WAIT",
                             IF Wrapped(mac) = "ok" /\ Wrapped(secret) = "ok"
                             THEN "SUCCESS" ELSE "FAILURE")
            PROVE  /\ eDone' = eDone
                   /\ \/ eState' = "ERROR"
                      \/ eState' = "INPUT_WAIT" /\ eMac' /\ eSecret'
        BY <4>3, SfeConf DEF EvlSettle, Wrapped, TypeOK, EvlTypeOK
      <4> QED
        BY <2>2, <4>1, <4>2, <4>3 DEF handle_att_res
    <3>4. Started' /\ SecretHeld'
      BY <1>e, <3>1, <3>3 DEF SessionInv, Started, SecretHeld
    <3>5. OutIsAnswer' /\ ContentsSent'
      BY <1>i, <1>p, <2>a, <3>1, <3>2, <3>3 DEF SessionInv, OutIsAnswer, ContentsSent
    <3> QED
      BY <2>r, <3>4, <3>5 DEF SessionInv
  <2>3. CASE HandleInputSfe
    <3>1. eState = "INPUT_WAIT" /\ eSecret /\ ~eDone /\ UNCHANGED <<eSecret, eMac>>
      BY <2>3, ComputesAnswer
    <3>m. /\ Carrying("RESULT", Answer) \in Message
          /\ Carrying("RESULT", Answer).content = Answer
      BY SfeConf, MessageType DEF Tags, Carrying
    <3>2. CASE EvlFail("ret") /\ UNCHANGED eOut
      <4>1. UNCHANGED <<toSnd, eDone, eProc>> /\ eState' = "ERROR"
        BY <3>2, EvlFailEnds
      <4> QED
        BY <1>e, <1>i, <1>p, <2>a, <2>r, <3>1, <3>2, <4>1
        DEF SessionInv, Started, SecretHeld, OutIsAnswer, ContentsSent
    <3>3. ASSUME NEW w \in WriteOutcomes,
                 EvlCallWrite("ok", w, Carrying("RESULT", Answer), "RES_SENT"),
                 eOut' = Answer
          PROVE  SessionInv'
      <4>1. /\ toSnd' = toSnd \o Queued(w, Carrying("RESULT", Answer))
            /\ \/ eDone' /\ eState' = "INIT"
               \/ eDone' = eDone /\ eState' = "ERROR"
            /\ eProc' \in {"run", "exited"}
        BY <3>3, EvlWriteEnds
      <4>2. \A i \in 1..Len(toSnd') :
               toSnd'[i].tag = "RESULT" => toSnd'[i].content = Answer
        BY <3>m, <4>1, NotYetResult DEF SessionInv
      <4>3. Started' /\ SecretHeld' /\ OutIsAnswer'
        BY <1>e, <2>a, <3>1, <3>3, <4>1 DEF SessionInv, Started, SecretHeld, OutIsAnswer
      <4> QED
        BY <1>i, <1>p, <2>a, <2>r, <4>2, <4>3 DEF SessionInv, ContentsSent
    <3> QED
      BY <2>3, <3>2, <3>3, ComputesAnswer
  <2>4. CASE EvlUnexpected
    <3>1. /\ eState = "ERROR" /\ eState' = "FINI" /\ eDone' = eDone
          /\ UNCHANGED <<toSnd, eProc>>
      BY <2>4, EvlFalls
    <3>2. UNCHANGED <<eMac, eSecret, eOut>>
      BY <2>4 DEF EvlUnexpected
    <3> QED
      BY <1>e, <1>i, <1>p, <2>a, <2>r, <3>1, <3>2
      DEF SessionInv, Started, SecretHeld, OutIsAnswer, ContentsSent
  <2>5. CASE EvlLeave \/ EvlCrash
    <3>1. UNCHANGED <<toSnd, evlVars>> /\ eProc' = "exited"
      BY <2>5 DEF EvlLeave, EvlCrash
    <3> QED
      BY <1>e, <1>i, <1>p, <2>a, <2>r, <3>1
      DEF evlVars, SessionInv, Started, SecretHeld, OutIsAnswer, ContentsSent
  <2> QED
    BY <1>2, <2>n, <2>1, <2>2, <2>3, <2>4, <2>5 DEF EvlNext, EvlStep, EvlKilled
<1> QED
  BY <1>1, <1>2

LEMMA SessionInvariant == ASSUME SfeOnly PROVE Spec => []SessionInv
<1>1. Init => SessionInv
  BY DEF Init, NetInit, SndInit, EvlInit, SessionInv, Started, SecretHeld, OutIsAnswer,
         ContentsSent, ReportIsAnswer
<1>2. TypeOK /\ Dialogue /\ YaoInside /\ SenderDoneImpliesEvaluatorDone /\ SessionInv
      /\ [Next]_vars => SessionInv'
  <2> SUFFICES ASSUME TypeOK, Dialogue, YaoInside, SenderDoneImpliesEvaluatorDone,
                      SessionInv, [Next]_vars
               PROVE  SessionInv'
    OBVIOUS
  <2>1. CASE UNCHANGED vars
    BY <2>1
    DEF vars, netVars, sndVars, evlVars, SessionInv, Started, SecretHeld, OutIsAnswer,
        ContentsSent, ReportIsAnswer, Answer, InputAsked, SndProg
  <2> QED
    BY <2>1, SndKeepsSession, EvlKeepsSession DEF Next, Terminated
<1> QED
  BY <1>1, <1>2, TypeCorrect, DialogueInvariant, DoneInOrder, PTL DEF Spec

\* In an SFE session without a status nobody looks at, the evaluator waits for
\* an input only under the shared secret, and computes only under it.
THEOREM SecretFirst == ASSUME SfeOnly PROVE Spec => []SecretBeforeInput
<1>1. SessionInv => SecretBeforeInput
  BY DEF SessionInv, Started, SecretHeld, OutIsAnswer, SecretBeforeInput, NoContent
<1> QED
  BY <1>1, SessionInvariant, PTL

\* In such a session what the sender reports is its program, run on its input
\* and on the evaluator's.
THEOREM ReportCorrect == ASSUME SfeOnly PROVE Spec => []ReportIsAnswer
<1>1. SessionInv => ReportIsAnswer
  BY DEF SessionInv
<1> QED
  BY <1>1, SessionInvariant, PTL

\* The answer does not change once the evaluator holds the secret, the sender's
\* and the evaluator's inputs having been read before that.
LEMMA AnswerFixed ==
    ASSUME Dialogue, YaoInside, SessionInv, Next, eSecret
    PROVE  Answer' = Answer
<1>1. conf' = conf /\ SndProg' = SndProg
  BY ConfFixed DEF SndProg
<1>2. ~SndStart /\ ~EvlStart
  BY NothingYet DEF SndStart, EvlStart
<1>3. sUser' = sUser /\ eUser' = eUser
  <2>1. CASE SndNext
    BY <1>2, <2>1
    DEF SndNext, evlVars, SndStep, SndKilled, start_att_nonce, handle_att_S1,
        handle_att_S3, send_input, handle_result, start_yao, SndConnect, SndYaoOver,
        SndYaoExit, SndLeave, SndCrash, sndVars
  <2>2. CASE EvlNext
    BY <1>2, <2>2
    DEF EvlNext, sndVars, EvlStep, EvlKilled, handle_att_nonce, handle_att_S2,
        handle_att_res, HandleInputSfe, HandleInputYao, EvlListen, EvlAccept,
        EvlYaoOver, EvlUnexpected, EvlLeave, EvlYaoExit, EvlCrash, evlVars
  <2>3. CASE Terminated
    BY <2>3 DEF Terminated, vars, sndVars, evlVars
  <2> QED
    BY <2>1, <2>2, <2>3 DEF Next
<1> QED
  BY <1>1, <1>3 DEF Answer

\* The secret, once held in an SFE session, is not lost, and a party stays done.
LEMMA NothingForgotten ==
    ASSUME SfeOnly, TypeOK, Dialogue, SessionInv, Next
    PROVE  (eSecret => eSecret') /\ (eDone => eDone') /\ (sDone => sDone')
<1>1. CASE SndNext
  <2>1. UNCHANGED <<eSecret, eDone>>
    BY <1>1 DEF SndNext, evlVars
  <2>2. sDone => sDone'
    BY <1>1
    DEF SndNext, SndStep, SndKilled, SndStart, start_att_nonce, handle_att_S1,
        handle_att_S3, send_input, handle_result, start_yao, SndConnect, SndYaoOver,
        SndYaoExit, SndLeave, SndCrash, sndVars, SndWrite, SndFail, SndSettle
  <2> QED
    BY <2>1, <2>2
<1>2. CASE EvlNext
  <2>1. sDone' = sDone /\ (eDone => eDone')
    BY <1>2, EvlFinishes
  <2>2. eSecret => eSecret'
    <3>1. CASE handle_att_res
      <4>1. eState = "ATT_S3_SENT" /\ ~eDone
        BY <3>1, EvlRows DEF handle_att_res, EvlRecv, TypeOK, EvlTypeOK
      <4> QED
        BY <4>1 DEF SessionInv, SecretHeld
    <3>2. CASE ~handle_att_res
      BY <1>2, <3>2
      DEF EvlNext, EvlStep, EvlKilled, EvlStart, handle_att_nonce, handle_att_S2,
          HandleInputSfe, HandleInputYao, EvlListen, EvlAccept, EvlYaoOver,
          EvlUnexpected, EvlLeave, EvlYaoExit, EvlCrash, evlVars
    <3> QED
      BY <3>1, <3>2
  <2> QED
    BY <2>1, <2>2
<1>3. CASE Terminated
  BY <1>3 DEF Terminated, vars, sndVars, evlVars
<1> QED
  BY <1>1, <1>2, <1>3 DEF Next

\* One step moves the session by one phase at most.
LEMMA OnePhase ==
    ASSUME SfeOnly, TypeOK, Dialogue, SenderDoneImpliesEvaluatorDone, SessionInv, Next,
           SenderDoneImpliesEvaluatorDone', SessionInv'
    PROVE  /\ ~eSecret => ~eDone'
           /\ ~eDone => ~sDone'
<1>1. ~eSecret /\ eDone' => FALSE
  <2> SUFFICES ASSUME ~eSecret, eDone' PROVE FALSE
    OBVIOUS
  <2>1. ~eDone /\ eSecret'
    BY DEF SessionInv, OutIsAnswer
  <2>2. handle_att_res
    BY <2>1
    DEF Next, Terminated, vars, SndNext, EvlNext, EvlStep, EvlKilled, EvlStart,
        handle_att_nonce, handle_att_S2, HandleInputSfe, HandleInputYao, EvlListen,
        EvlAccept, EvlYaoOver, EvlUnexpected, EvlLeave, EvlYaoExit, EvlCrash, evlVars
  <2>3. eDone' = eDone
    <3>1. \A outcome : EvlFail(outcome) => eDone' = eDone
      BY EvlFailEnds
    <3> QED
      BY <2>2, <3>1 DEF handle_att_res, EvlSettle, TypeOK, EvlTypeOK
  <2> QED
    BY <2>1, <2>3
<1>2. ~eDone /\ sDone' => FALSE
  <2>1. eDone' = eDone \/ sDone' = sDone
    BY EvlFinishes DEF Next, Terminated, vars, SndNext, evlVars
  <2> QED
    BY <2>1 DEF SenderDoneImpliesEvaluatorDone
<1> QED
  BY <1>1, <1>2

\* Every step of an SFE session is one of SmcSession, or none.
LEMMA SessionStep ==
    ASSUME SfeOnly, TypeOK, Dialogue, YaoInside, SenderDoneImpliesEvaluatorDone,
           BadAttestationNeverComputes, SessionInv, [Next]_vars,
           TypeOK', SenderDoneImpliesEvaluatorDone', BadAttestationNeverComputes',
           SessionInv'
    PROVE  [Session!SNext]_(Session!svars)
<1>1. CASE UNCHANGED vars
  BY <1>1
  DEF vars, netVars, sndVars, evlVars, Session!svars, SessionPhase, Answer, SndProg
<1>2. CASE Next
  <2> DEFINE asked == IF eSecret THEN Answer ELSE NoContent
             result == IF sDone THEN sReport ELSE IF eDone THEN eOut ELSE NoContent
  <2>1. conf' = conf /\ (eSecret => Answer' = Answer)
    BY <1>2, ConfFixed, AnswerFixed
  <2>2. (eSecret => eSecret') /\ (eDone => eDone') /\ (sDone => sDone')
    BY <1>2, NothingForgotten
  <2>3. (~eSecret => ~eDone') /\ (~eDone => ~sDone')
    BY <1>2, OnePhase
  <2>4. /\ sDone => eDone
        /\ eDone => eSecret /\ result = Answer
        /\ ~eDone => result = NoContent
    BY SfeConf
    DEF SessionInv, OutIsAnswer, ReportIsAnswer, SenderDoneImpliesEvaluatorDone
  <2>5. /\ sDone' => eDone'
        /\ eDone' => eSecret' /\ result' = Answer'
        /\ ~eDone' => result' = NoContent
    BY <2>1, SfeConf
    DEF SessionInv, OutIsAnswer, ReportIsAnswer, SenderDoneImpliesEvaluatorDone
  <2>6. Answer' \in Content /\ (eSecret' => conf.hash)
    <3>1. Answer' \in Content
      <4>1. SndProg' \in Progs /\ SndInput(sUser, SndProg)' \in Words
        BY <2>1, SfeConf DEF SndProg, Progs, SndInput, Words
      <4> QED
        BY <4>1, EvlInputType DEF Answer, Content
    <3> QED
      BY <2>1, <3>1 DEF BadAttestationNeverComputes
  <2>7. SessionPhase = IF sDone THEN "delivered" ELSE IF eDone THEN "computed"
                       ELSE IF eSecret THEN "attested" ELSE "open"
    BY DEF SessionPhase
  <2>8. SessionPhase' = IF sDone' THEN "delivered" ELSE IF eDone' THEN "computed"
                        ELSE IF eSecret' THEN "attested" ELSE "open"
    BY DEF SessionPhase
  <2> HIDE DEF result
  <2>9. CASE ~eSecret /\ eSecret'
    <3>1. Session!Attest
      BY <2>1, <2>3, <2>4, <2>5, <2>6, <2>7, <2>8, <2>9 DEF Session!Attest, result
    <3> QED
      BY <3>1 DEF Session!SNext
  <2>10. CASE eSecret /\ ~eDone /\ eDone'
    <3>1. Session!Compute
      BY <2>1, <2>2, <2>3, <2>4, <2>5, <2>7, <2>8, <2>10 DEF Session!Compute, result
    <3> QED
      BY <3>1 DEF Session!SNext
  <2>11. CASE eDone /\ ~sDone /\ sDone'
    <3>1. Session!Deliver
      BY <2>1, <2>2, <2>4, <2>5, <2>7, <2>8, <2>11 DEF Session!Deliver, result
    <3> QED
      BY <3>1 DEF Session!SNext
  <2>12. CASE eSecret' = eSecret /\ eDone' = eDone /\ sDone' = sDone
    <3>1. UNCHANGED Session!svars
      BY <2>1, <2>4, <2>5, <2>7, <2>8, <2>12 DEF Session!svars, result
    <3> QED
      BY <3>1
  <2>13. /\ eSecret \in BOOLEAN /\ eDone \in BOOLEAN /\ sDone \in BOOLEAN
         /\ eSecret' \in BOOLEAN /\ eDone' \in BOOLEAN /\ sDone' \in BOOLEAN
    BY DEF TypeOK, SndTypeOK, EvlTypeOK
  <2> QED
    BY <2>2, <2>3, <2>4, <2>5, <2>9, <2>10, <2>11, <2>12, <2>13
<1> QED
  BY <1>1, <1>2

\* Through refused calls, short writes and crashes an SFE session attests,
\* computes and delivers in that order, and delivers what was asked for.
THEOREM SessionImplemented == ASSUME SfeOnly PROVE Spec => ImplementsSession
<1>1. Init => Session!SInit
  <2> SUFFICES ASSUME Init PROVE Session!SInit
    OBVIOUS
  <2>1. conf.hash \in BOOLEAN
    BY ConfType DEF Init, NetInit, Conf
  <2>2. ~sDone /\ ~eDone /\ ~eSecret
    BY DEF Init, SndInit, EvlInit
  <2> QED
    BY <2>1, <2>2 DEF Session!SInit, SessionPhase
<1>2. TypeOK /\ Dialogue /\ YaoInside /\ SenderDoneImpliesEvaluatorDone
      /\ BadAttestationNeverComputes /\ SessionInv /\ [Next]_vars
      /\ TypeOK' /\ SenderDoneImpliesEvaluatorDone' /\ BadAttestationNeverComputes'
      /\ SessionInv'
      => [Session!SNext]_(Session!svars)
  BY SessionStep
<1> QED
  BY <1>1, <1>2, TypeCorrect, DialogueInvariant, DoneInOrder, AttestationGuards,
     SessionInvariant, PTL
  DEF Spec, ImplementsSession, Session!SSpec

=============================================================================
