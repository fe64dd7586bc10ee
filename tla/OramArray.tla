----------------------------- MODULE OramArray -----------------------------
(* What both oblivious memories of the enclave promise: an array with one   *)
(* request at a time.  A request is asked, takes effect at most once, and   *)
(* is answered.  It takes effect for certain unless the memory is lossy, as  *)
(* the tree ORAM is at some sizes: then a request may pass by every cell.   *)
(* TreeOram and LinearOram implement it, SfeDatabase uses it.               *)
EXTENDS Integers

CONSTANTS
    Index,     \* the indices of the memory
    Value,     \* the values it stores
    Zero,      \* the value every cell holds after the constructor
    NoAnswer,  \* what a request that has read nothing returns
    Lossy      \* whether a request may pass without effect

ASSUME ArrayAssumption == Zero \in Value /\ Lossy \in BOOLEAN

VARIABLES
    mem,       \* [Index -> Value]
    req,       \* the request under way
    stage,     \* "idle", "asked" or "done"
    ans        \* what it has read

arrayVars == <<mem, req, stage, ans>>

Gets == [kind : {"get"}, index : Index, value : {Zero}]
Sets == [kind : {"set"}, index : Index, value : Value]
Requests == Gets \cup Sets

ArrayTypeOK ==
    /\ mem \in [Index -> Value]
    /\ req \in Requests
    /\ stage \in {"idle", "asked", "done"}
    /\ ans \in Value \cup {NoAnswer}

ArrayInit ==
    /\ mem = [i \in Index |-> Zero]
    /\ req \in Gets
    /\ stage = "idle"
    /\ ans = NoAnswer

Ask(r) ==
    /\ stage = "idle"
    /\ stage' = "asked"
    /\ req' = r
    /\ ans' = NoAnswer
    /\ UNCHANGED mem

Read ==
    /\ stage = "asked" /\ req.kind = "get"
    /\ stage' = "done"
    /\ ans' = mem[req.index]
    /\ UNCHANGED <<mem, req>>

Write ==
    /\ stage = "asked" /\ req.kind = "set"
    /\ stage' = "done"
    /\ mem' = [mem EXCEPT ![req.index] = req.value]
    /\ UNCHANGED <<req, ans>>

\* The request passes by its cell: nothing is read, nothing is written.
Miss ==
    /\ Lossy
    /\ stage = "asked"
    /\ stage' = "done"
    /\ UNCHANGED <<mem, req, ans>>

AnswerRequest ==
    /\ stage = "done"
    /\ stage' = "idle"
    /\ UNCHANGED <<mem, req, ans>>

ArrayNext ==
    \/ \E r \in Requests : Ask(r)
    \/ Read
    \/ Write
    \/ Miss
    \/ AnswerRequest

ArraySpec == ArrayInit /\ [][ArrayNext]_arrayVars
=============================================================================
