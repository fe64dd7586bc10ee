------------------------------- MODULE SmcNet -------------------------------
(***************************************************************************)
(* What the sender and the evaluator share: the command lines they were    *)
(* started with, the TCP connection between them (one FIFO stream per      *)
(* direction), whether each process is alive, the link that garbled-       *)
(* circuit (Yao) rounds open next to it, and the failures that may happen. *)
(***************************************************************************)
EXTENDS Naturals, Sequences, SmcStm

CONSTANTS
    Confs,       \* the pairs of command lines considered
    FaultKinds,  \* which kinds of failure may happen, see below
    MaxFaults    \* how many of them, at most, in one run

VARIABLES
    conf,        \* the command lines of this run
    toEvl,       \* messages written by the sender and not yet read
    toSnd,       \* messages written by the evaluator and not yet read
    sProc,       \* where the sender process is
    eProc,       \* where the evaluator process is
    sYao,        \* the sender's end of the Yao link (the Yao evaluator)
    eYao,        \* the evaluator's end of the Yao link (the Yao generator)
    yTries,      \* failed attempts of ClientSocket's connect
    faults       \* failures so far

netVars == <<conf, toEvl, toSnd, sProc, eProc, sYao, eYao, yTries, faults>>

----------------------------------------------------------------------------
(* Programs, by the subtag that names them in an INPUT message. *)

SfeProg == <<"SFEMIL", "SFEUC", "SFEDJ", "SFEOR">>    \* SfeProg[trans_sfe + 1]
YaoProg == <<"YAODF", "YAOOR", "YAODJ", "YAOQS">>     \* YaoProg[trans_yao_idx + 1]
SfeProgs == {"SFEMIL", "SFEUC", "SFEDJ", "SFEOR"}
YaoProgs == {"YAODF", "YAOOR", "YAODJ", "YAOQS"}
Progs == SfeProgs \cup YaoProgs

\* A command line pair: the options of `sender' (-y and its index, -s, -i),
\* those of `evaluator' (-y and its index, -i), and whether the enclave hash
\* file the sender reads holds the measurement of the evaluator's enclave.
\* s_input and e_input name the program an input file given with -i is for.
\* The sender refuses -y together with -s; an index not given is 0.
Conf ==
    {c \in [s_yao : BOOLEAN, s_idx : 0..3, s_sfe : 0..3, s_input : SfeProgs \cup {"none"},
            e_yao : BOOLEAN, e_idx : 0..3, e_input : SfeProgs \cup {"none"},
            hash : BOOLEAN] :
        /\ IF c.s_yao THEN c.s_sfe = 0 ELSE c.s_idx = 0
        /\ ~c.e_yao => c.e_idx = 0}

\* Kinds of failure:
\*   ret     an ECall, an allocation or a crypto call is refused
\*   status  an ECall runs and reports failure in its status argument
\*   write   a write() is short, the message never arrives whole
\*   exit    the Yao code gives up with exit(1)
\*   crash   a process is killed
AllFaultKinds == {"ret", "status", "write", "exit", "crash"}

ASSUME ConfsAssumption == Confs \subseteq Conf
ASSUME FaultKindsAssumption == FaultKinds \subseteq AllFaultKinds
ASSUME MaxFaultsAssumption == MaxFaults \in Nat

----------------------------------------------------------------------------
(* Data.  What matters of an input or an output is whose it is:            *)
(*   given    read from the file for this program                          *)
(*   default  hard-coded in the enclave for runs without an input file     *)
(*   zero     a buffer nobody wrote                                        *)
(*   unrun    the program was not run at all                               *)
(*   stale    not an output: the buffer was not written, or does not       *)
(*            decrypt under the shared secret                              *)

Words == {"none", "given", "default", "zero", "unrun", "stale"}

\* What a message, an output buffer or a report holds: the program it belongs
\* to (which fixes its length) and the two inputs it was made from.
Content == [prog : Progs \cup {"none"}, snd : Words, evl : Words]
NoContent == [prog |-> "none", snd |-> "none", evl |-> "none"]
Stale(prog) == [prog |-> prog, snd |-> "stale", evl |-> "stale"]

\* TORN stands for the first part of a message that was never written whole.
Message == [tag : Tags \cup {"TORN"}, res : {"none", "GOOD", "BAD"}, content : Content]
Msg(tag) == [tag |-> tag, res |-> "none", content |-> NoContent]
AttResult(res) == [tag |-> "ATT_RESULT", res |-> res, content |-> NoContent]
Carrying(tag, content) == [tag |-> tag, res |-> "none", content |-> content]

----------------------------------------------------------------------------
(* Failures.  An outcome "ok" is free, any other must be one of FaultKinds *)
(* and is counted.                                                         *)

Cost(outcome) == IF outcome = "ok" THEN 0 ELSE 1

SufferBoth(first, second) ==
    /\ {first, second} \subseteq FaultKinds \cup {"ok"}
    /\ faults + Cost(first) + Cost(second) <= MaxFaults
    /\ faults' = faults + Cost(first) + Cost(second)

Suffer(outcome) == SufferBoth(outcome, "ok")

\* write() on the connection: the message is queued, or none of it or only a
\* part of it is and the caller fails, or SIGPIPE kills the writer (neither
\* program handles it).  That and a failed call need no fault when the peer's
\* process, and so its socket, is gone.
WriteOutcomes == {"sent", "failed", "torn", "killed"}

WriteFault(outcome, peer) ==
    IF outcome = "torn" \/ (outcome = "failed" /\ peer # "exited") THEN "write" ELSE "ok"

\* Variant: a message that went out is written once more.
QueuedTwice(outcome, msg) == IF outcome = "sent" THEN <<msg, msg>> ELSE <<>>

Queued(outcome, msg) ==
    CASE outcome = "sent" -> <<msg>>
      [] outcome = "torn" -> <<Msg("TORN")>>
      [] OTHER -> <<>>

\* The outcome of a call made before the write is counted with it.
Write(call, outcome, peer, channel, msg) ==
    /\ outcome = "killed" => peer = "exited"
    /\ SufferBoth(call, WriteFault(outcome, peer))
    /\ channel' = channel \o Queued(outcome, msg)

\* The receive loops of both main()s read the header and then the payload until
\* they have a whole message.
Readable(inbox) == inbox # <<>> /\ Head(inbox).tag # "TORN"

\* Variant: only -1 ends the receive loop.
EofOnResetOnly(peer, inbox, peerInbox) == peer = "exited" /\ peerInbox # <<>>

\* read() returns 0 or -1: the peer is gone and no whole message is left, or the
\* peer left bytes unread, which resets the connection (and may overtake what
\* it had sent).
Eof(peer, inbox, peerInbox) ==
    /\ peer = "exited"
    /\ ~Readable(inbox) \/ peerInbox # <<>>

----------------------------------------------------------------------------
(* The Yao link.  In every hybrid case the evaluator generates the garbled *)
(* circuit and listens, the sender evaluates it and connects.              *)

MaxTries == 4     \* sleeps of 1, 2, 4 and 8 seconds

\* Variant: the loop runs while sec <= MAX_SLEEP.
GivesUpLate(tries) == tries > MaxTries

\* The loop of ClientSocket ends after this many failed attempts, with
\* exit(EXIT_FAILURE).
GivesUp(tries) == tries = MaxTries

\* The peer's process ended before its part of the rounds did.
YaoPeerGone(peerYao, peerProc) == peerProc = "exited" /\ peerYao # "over"

\* Variant: one more message is awaited from a peer that has finished.
PeerStillLinked(peerYao, peerProc) == peerYao = "linked" /\ peerProc # "exited"

\* The rounds on a link end for one party when both take part.  If the other
\* one is gone, my_read() spins on recv() = 0 for ever.
YaoPeerThere(peerYao, peerProc) ==
    /\ peerYao \in {"linked", "over"}
    /\ ~YaoPeerGone(peerYao, peerProc)

NetTypeOK ==
    /\ conf \in Confs
    /\ toEvl \in Seq(Message)
    /\ toSnd \in Seq(Message)
    /\ sProc \in {"init", "ready", "run", "yao", "exited"}
    /\ eProc \in {"init", "run", "yao", "exited"}
    /\ sYao \in {"off", "connect", "linked", "over"}
    /\ eYao \in {"off", "bind", "listen", "linked", "over"}
    /\ yTries \in 0..MaxTries
    /\ faults \in 0..MaxFaults

NetInit ==
    /\ conf \in Confs
    /\ toEvl = <<>>
    /\ toSnd = <<>>
    /\ sProc = "init"
    /\ eProc = "init"
    /\ sYao = "off"
    /\ eYao = "off"
    /\ yTries = 0
    /\ faults = 0

=============================================================================
